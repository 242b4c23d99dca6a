----------------------------- MODULE TrustProofs ------------------------------
(***************************************************************************)
(* Who may play, for every set of tokens, device keys, requests and codes  *)
(* and every bound: memory and sessions.json agree after every call, a     *)
(* session's keys go with it, a cookie that is valid is bound to its       *)
(* browser's key, an invitation lets one request in, a token just issued   *)
(* is not the one pruned, and only a right PIN or the owner forgives wrong *)
(* ones.                                                                   *)
(***************************************************************************)
EXTENDS Trust, FiniteSetTheorems, TLAPS

\* What is proved of the store, the file and any value of theirs.
Sound(s) ==
  /\ s \in Store /\ Cardinality(s.tokens) <= MaxSessions
  /\ \A t \in Tokens : Len(s.bound[t]) <= MaxKeys
  /\ \A t \in Tokens \ s.tokens : s.bound[t] = <<>>

PairingInv == Sound(store) /\ file = store /\ attempts \in [Scopes -> 0..MaxAttempts]

-----------------------------------------------------------------------------
(* The pairing manager *)

LEMMA Finite ==
  ASSUME NEW T, T \subseteq Tokens
  PROVE  IsFiniteSet(T) /\ Cardinality(T) \in Nat
BY PairingBounds, FS_Subset, FS_CardinalityType

\* What persist writes, and keeps, of a value of the right shape.
LEMMA FollowIsSound ==
  ASSUME NEW s \in Store, Cardinality(s.tokens) <= MaxSessions,
         \A t \in Tokens : Len(s.bound[t]) <= MaxKeys
  PROVE  /\ Sound(Follow(s)) /\ Saved(s) = Follow(s)
         /\ Follow(s).pin = s.pin /\ Follow(s).failures = s.failures
         /\ Follow(s).tokens = s.tokens
         /\ \A t \in s.tokens : Follow(s).bound[t] = s.bound[t]
<1> DEFINE b == [t \in Tokens |-> IF t \in s.tokens THEN s.bound[t] ELSE <<>>]
<1>1. Follow(s) = [s EXCEPT !.bound = b]
  BY DEF Follow
<1>2. b \in [Tokens -> Seq(Devices)]
  BY DEF Store
<1>3. Follow(s) \in Store
  BY <1>1, <1>2 DEF Store
<1>4. /\ Follow(s).pin = s.pin /\ Follow(s).failures = s.failures
      /\ Follow(s).tokens = s.tokens /\ Follow(s).bound = b
  BY <1>1 DEF Store
<1>5. s.tokens \subseteq Tokens
  BY DEF Store
<1>6. \A t \in Tokens : Len(b[t]) <= MaxKeys
  BY PairingBounds
<1>7. QED
  BY <1>3, <1>4, <1>5, <1>6 DEF Sound, Saved

\* A call changes what it must of the sessions: one that was there keeps its
\* keys, and a new one is among those issued.
KeepsKeys(issued) ==
  \A t \in store'.tokens :
    t \in issued \/ (t \in store.tokens /\ store'.bound[t] = store.bound[t])

LEMMA PersistIsSound ==
  ASSUME NEW s \in Store, Cardinality(s.tokens) <= MaxSessions,
         \A t \in Tokens : Len(s.bound[t]) <= MaxKeys, Persist(s)
  PROVE  /\ Sound(store)' /\ file' = store'
         /\ store'.failures = s.failures /\ store'.tokens = s.tokens
         /\ \A t \in s.tokens : store'.bound[t] = s.bound[t]
  BY FollowIsSound DEF Persist, Sound

\* A value that differs from the store in its PIN, count and sessions only.
LEMMA ChangeIsSound ==
  ASSUME PairingInv, NEW p \in Pins, NEW n \in 0..LockoutAfter, NEW T \in SUBSET Tokens,
         Cardinality(T) <= MaxSessions, NEW issued, T \subseteq store.tokens \cup issued,
         Persist([store EXCEPT !.pin = p, !.failures = n, !.tokens = T])
  PROVE  /\ Sound(store)' /\ file' = store' /\ store'.failures = n
         /\ store'.tokens = T /\ KeepsKeys(issued)
<1> DEFINE s == [store EXCEPT !.pin = p, !.failures = n, !.tokens = T]
<1>1. store \in Store /\ \A t \in Tokens : Len(store.bound[t]) <= MaxKeys
  BY DEF PairingInv, Sound
<1>2. /\ s \in Store /\ s.tokens = T /\ s.bound = store.bound /\ s.failures = n
  BY <1>1 DEF Store
<1>3. \A t \in Tokens : Len(s.bound[t]) <= MaxKeys
  BY <1>1, <1>2
<1>4. /\ Sound(store)' /\ file' = store'
      /\ store'.failures = s.failures /\ store'.tokens = s.tokens
      /\ \A t \in s.tokens : store'.bound[t] = s.bound[t]
  <2>1. Persist(s) /\ Cardinality(s.tokens) <= MaxSessions
    BY <1>2
  <2> HIDE DEF s
  <2>2. QED
    BY <1>2, <1>3, <2>1, PersistIsSound
<1>5. QED
  BY <1>2, <1>4 DEF KeepsKeys

LEMMA CurrentPinIsSound ==
  ASSUME PairingInv, CurrentPin
  PROVE  PairingInv' /\ KeepsKeys({}) /\ store'.failures = store.failures
<1>1. /\ store \in Store /\ Cardinality(store.tokens) <= MaxSessions
      /\ store.tokens \in SUBSET Tokens /\ store.failures \in 0..LockoutAfter
      /\ store.pin \in Pins
  BY DEF PairingInv, Sound, Store
<1>2. PICK p \in InForce(store.pin) : Persist([store EXCEPT !.pin = p])
  BY DEF CurrentPin
<1>3. p \in Pins
  BY <1>1 DEF InForce
<1>4. [store EXCEPT !.pin = p] =
        [store EXCEPT !.pin = p, !.failures = store.failures, !.tokens = store.tokens]
  BY <1>1 DEF Store
<1>5. Persist([store EXCEPT !.pin = p, !.failures = store.failures, !.tokens = store.tokens])
  BY <1>2, <1>4
<1>6. Sound(store)' /\ file' = store' /\ store'.failures = store.failures /\ KeepsKeys({})
  BY <1>1, <1>3, <1>5, ChangeIsSound
<1>7. QED
  BY <1>6 DEF PairingInv, CurrentPin

LEMMA RotatePinIsSound ==
  ASSUME PairingInv, RotatePin
  PROVE  PairingInv' /\ KeepsKeys({})
<1>1. /\ store \in Store /\ Cardinality(store.tokens) <= MaxSessions
      /\ store.tokens \in SUBSET Tokens /\ 0 \in 0..LockoutAfter
  BY PairingBounds DEF PairingInv, Sound, Store
<1>2. PICK p \in Pins : Persist([store EXCEPT !.pin = p, !.failures = 0])
  BY DEF RotatePin
<1>3. Persist([store EXCEPT !.pin = p, !.failures = 0, !.tokens = store.tokens])
  <2>1. [store EXCEPT !.pin = p, !.failures = 0] =
          [store EXCEPT !.pin = p, !.failures = 0, !.tokens = store.tokens]
    BY <1>1 DEF Store
  <2>2. QED
    BY <1>2, <2>1
<1>4. Sound(store)' /\ file' = store' /\ KeepsKeys({})
  BY <1>1, <1>3, ChangeIsSound
<1>5. QED
  BY <1>4 DEF PairingInv, RotatePin

LEMMA WrongPinIsSound ==
  ASSUME PairingInv, WrongPin
  PROVE  PairingInv' /\ KeepsKeys({}) /\ store'.failures >= store.failures
<1>1. /\ store \in Store /\ Cardinality(store.tokens) <= MaxSessions
      /\ store.tokens \in SUBSET Tokens /\ store.failures \in 0..LockoutAfter
      /\ store.pin \in Pins /\ LockoutAfter \in Nat
  BY PairingBounds DEF PairingInv, Sound, Store
<1>2. PICK p \in InForce(store.pin) : Persist([store EXCEPT !.pin = p, !.failures = Failures])
  BY DEF WrongPin
<1>3. p \in Pins /\ Failures \in 0..LockoutAfter /\ Failures >= store.failures
  BY <1>1 DEF InForce, WrongPin, Locked, Failures
<1>4. Persist([store EXCEPT !.pin = p, !.failures = Failures, !.tokens = store.tokens])
  <2>1. [store EXCEPT !.pin = p, !.failures = Failures] =
          [store EXCEPT !.pin = p, !.failures = Failures, !.tokens = store.tokens]
    BY <1>1 DEF Store
  <2>2. QED
    BY <1>2, <2>1
<1>5. Sound(store)' /\ file' = store' /\ store'.failures = Failures /\ KeepsKeys({})
  BY <1>1, <1>3, <1>4, ChangeIsSound
<1>6. attempts' \in [Scopes -> 0..MaxAttempts]
  <2>1. /\ attempts' = [x \in Scopes |-> attempts[x] + 1]
        /\ \A x \in Scopes : attempts[x] \in 0..MaxAttempts /\ ~(attempts[x] >= MaxAttempts)
    BY DEF PairingInv, WrongPin, RateLimited
  <2>2. \A x \in Scopes : attempts[x] + 1 \in 0..MaxAttempts
    BY <2>1, PairingBounds
  <2>3. QED
    BY <2>1, <2>2
<1>7. QED
  BY <1>3, <1>5, <1>6 DEF PairingInv

\* Room is made before the new session is inserted.
LEMMA InsertedIsBounded ==
  ASSUME NEW T \in SUBSET Tokens, NEW t \in Tokens, NEW kept \in Inserted(T, t)
  PROVE  t \in kept /\ kept \subseteq T \cup {t} /\ Cardinality(kept) <= MaxSessions
<1>1. PICK rest \in Pruned(T, MaxSessions - 1) : kept = rest \cup {t}
  BY DEF Inserted
<1>2. rest \subseteq T /\ Cardinality(rest) <= MaxSessions - 1
  BY <1>1 DEF Pruned
<1>3. IsFiniteSet(rest) /\ Cardinality(rest) \in Nat
  BY <1>2, Finite
<1>4. Cardinality(rest \cup {t}) \in {Cardinality(rest), Cardinality(rest) + 1}
  <2>1. CASE t \in rest
    <3>1. rest \cup {t} = rest
      BY <2>1
    <3>2. QED
      BY <3>1
  <2>2. CASE t \notin rest
    BY <1>3, <2>2, FS_AddElement
  <2>3. QED
    BY <2>1, <2>2
<1>5. Cardinality(rest \cup {t}) <= MaxSessions
  BY <1>2, <1>3, <1>4, PairingBounds
<1>6. QED
  BY <1>1, <1>2, <1>5

LEMMA IssueIsSound ==
  ASSUME PairingInv, NEW t \in Tokens, NEW p \in Pins, NEW n \in 0..LockoutAfter,
         Issue(t, [store EXCEPT !.pin = p, !.failures = n])
  PROVE  /\ Sound(store)' /\ file' = store' /\ store'.failures = n
         /\ t \in store'.tokens /\ KeepsKeys({t})
<1> DEFINE s == [store EXCEPT !.pin = p, !.failures = n]
<1>1. store \in Store /\ store.tokens \in SUBSET Tokens
  BY DEF PairingInv, Sound, Store
<1>2. PICK kept \in Inserted(store.tokens, t), q \in Pins :
        Persist([s EXCEPT !.tokens = kept, !.pin = q])
  BY DEF Issue
<1>3. t \in kept /\ kept \subseteq store.tokens \cup {t} /\ Cardinality(kept) <= MaxSessions
  BY <1>1, InsertedIsBounded
<1>4. [s EXCEPT !.tokens = kept, !.pin = q] =
        [store EXCEPT !.pin = q, !.failures = n, !.tokens = kept]
  BY <1>1 DEF Store
<1>5. /\ Persist([store EXCEPT !.pin = q, !.failures = n, !.tokens = kept])
      /\ kept \in SUBSET Tokens
  BY <1>1, <1>2, <1>3, <1>4
<1>6. QED
  BY <1>3, <1>5, ChangeIsSound

LEMMA RightPinIsSound ==
  ASSUME PairingInv, NEW t \in Tokens, RightPin(t)
  PROVE  PairingInv' /\ t \in store'.tokens /\ KeepsKeys({t})
<1>1. store.pin \in Pins /\ 0 \in 0..LockoutAfter
  BY PairingBounds DEF PairingInv, Sound, Store
<1>2. PICK p \in InForce(store.pin) : Issue(t, [store EXCEPT !.pin = p, !.failures = 0])
  BY DEF RightPin
<1>3. p \in Pins
  BY <1>1 DEF InForce
<1>4. Sound(store)' /\ file' = store' /\ t \in store'.tokens /\ KeepsKeys({t})
  BY <1>1, <1>2, <1>3, IssueIsSound
<1>5. attempts' \in [Scopes -> 0..MaxAttempts]
  <2>1. /\ attempts \in [Scopes -> 0..MaxAttempts] /\ attempts' = [attempts EXCEPT !["source"] = 0]
        /\ 0 \in 0..MaxAttempts
    BY PairingBounds DEF PairingInv, RightPin
  <2>2. QED
    BY <2>1
<1>6. QED
  BY <1>4, <1>5 DEF PairingInv

LEMMA MintIsSound ==
  ASSUME PairingInv, NEW t \in Tokens, MintSession(t)
  PROVE  /\ PairingInv' /\ t \in store'.tokens /\ KeepsKeys({t})
         /\ store'.failures = store.failures
<1>1. store \in Store /\ store.pin \in Pins /\ store.failures \in 0..LockoutAfter
  BY DEF PairingInv, Sound, Store
<1>2. store = [store EXCEPT !.pin = store.pin, !.failures = store.failures]
  BY <1>1 DEF Store
<1>3. Issue(t, [store EXCEPT !.pin = store.pin, !.failures = store.failures])
  BY <1>2 DEF MintSession
<1>4. /\ Sound(store)' /\ file' = store' /\ t \in store'.tokens /\ KeepsKeys({t})
      /\ store'.failures = store.failures
  BY <1>1, <1>3, IssueIsSound
<1>5. QED
  BY <1>4 DEF PairingInv, MintSession

\* Sessions that end.
LEMMA FewerSessionsAreSound ==
  ASSUME PairingInv, NEW ts, Persist([store EXCEPT !.tokens = @ \ ts]), UNCHANGED attempts
  PROVE  PairingInv' /\ KeepsKeys({}) /\ store'.failures = store.failures
<1>1. /\ store \in Store /\ store.pin \in Pins /\ store.failures \in 0..LockoutAfter
      /\ store.tokens \subseteq Tokens /\ Cardinality(store.tokens) <= MaxSessions
  BY DEF PairingInv, Sound, Store
<1>2. [store EXCEPT !.tokens = @ \ ts] =
        [store EXCEPT !.pin = store.pin, !.failures = store.failures, !.tokens = store.tokens \ ts]
  BY <1>1 DEF Store
<1>3. Cardinality(store.tokens \ ts) <= MaxSessions
  <2>1. IsFiniteSet(store.tokens) /\ Cardinality(store.tokens) \in Nat
    BY <1>1, Finite
  <2>2. Cardinality(store.tokens \ ts) <= Cardinality(store.tokens)
    BY <2>1, FS_Subset
  <2>3. Cardinality(store.tokens \ ts) \in Nat
    BY <1>1, Finite
  <2>4. QED
    BY <1>1, <2>1, <2>2, <2>3, PairingBounds
<1>4. Persist([store EXCEPT !.pin = store.pin, !.failures = store.failures, !.tokens = store.tokens \ ts])
  BY <1>2
<1>5. store.tokens \ ts \in SUBSET Tokens /\ store.tokens \ ts \subseteq store.tokens \cup {}
  BY <1>1
<1>6. Sound(store)' /\ file' = store' /\ store'.failures = store.failures /\ KeepsKeys({})
  <2> DEFINE left == store.tokens \ ts
             pin == store.pin
             count == store.failures
  <2>0. pin \in Pins /\ count \in 0..LockoutAfter
    BY <1>1
  <2>1. /\ left \in SUBSET Tokens /\ left \subseteq store.tokens \cup {}
        /\ Cardinality(left) <= MaxSessions
        /\ Persist([store EXCEPT !.pin = pin, !.failures = count, !.tokens = left])
    BY <1>3, <1>4, <1>5
  <2> HIDE DEF left, pin, count
  <2>2. /\ Sound(store)' /\ file' = store' /\ store'.failures = count /\ KeepsKeys({})
    BY <2>0, <2>1, ChangeIsSound
  <2>3. QED
    BY <2>2 DEF count
<1>7. QED
  BY <1>6 DEF PairingInv

LEMMA RevokeIsSound ==
  ASSUME PairingInv, NEW ts, Revoke(ts)
  PROVE  PairingInv' /\ KeepsKeys({}) /\ store'.failures = store.failures
<1>1. CASE ts \cap store.tokens # {}
  BY <1>1, FewerSessionsAreSound DEF Revoke
<1>2. CASE ts \cap store.tokens = {}
  BY <1>2 DEF Revoke, PairingInv, KeepsKeys
<1>3. QED
  BY <1>1, <1>2

LEMMA ExpireIsSound ==
  ASSUME PairingInv, NEW t \in Tokens, ExpireSession(t)
  PROVE  PairingInv' /\ KeepsKeys({}) /\ store'.failures = store.failures
<1>1. {t} \cap store.tokens # {}
  BY DEF ExpireSession
<1>2. Revoke({t})
  BY <1>1 DEF ExpireSession, Revoke
<1>3. QED
  BY <1>2, RevokeIsSound

\* A session remembers the newest key, and every older one until it is full.
LEMMA RememberedKeys ==
  ASSUME NEW keys \in Seq(Devices), Len(keys) <= MaxKeys, NEW d \in Devices
  PROVE  LET after == Remembered(Append(keys, d))
         IN /\ after \in Seq(Devices) /\ Len(after) <= MaxKeys
            /\ \E i \in DOMAIN after : after[i] = d
            /\ \/ \A i \in DOMAIN keys : \E j \in DOMAIN after : after[j] = keys[i]
               \/ Len(after) = MaxKeys
            /\ Len(keys) = MaxKeys => Len(after) = MaxKeys
<1> DEFINE more == Append(keys, d)
<1>1. /\ more \in Seq(Devices) /\ Len(more) = Len(keys) + 1 /\ more[Len(keys) + 1] = d
      /\ \A i \in 1..Len(keys) : more[i] = keys[i]
  OBVIOUS
<1>2. CASE Len(more) > MaxKeys
  <2>1. Remembered(more) = Tail(more) /\ Len(keys) = MaxKeys
    BY <1>1, <1>2, PairingBounds DEF Remembered
  <2>2. /\ Tail(more) \in Seq(Devices) /\ Len(Tail(more)) = Len(keys)
        /\ \A i \in 1..Len(keys) : Tail(more)[i] = more[i + 1]
    BY <1>1, <2>1, PairingBounds
  <2>3. Len(keys) \in 1..Len(keys) /\ DOMAIN Tail(more) = 1..Len(keys)
    BY <2>1, <2>2, PairingBounds
  <2>4. Tail(more)[Len(keys)] = d
    BY <1>1, <2>2, <2>3
  <2>5. \E i \in DOMAIN Tail(more) : Tail(more)[i] = d
    BY <2>3, <2>4
  <2> HIDE DEF more
  <2>6. /\ Remembered(more) \in Seq(Devices) /\ Len(Remembered(more)) = MaxKeys
        /\ \E i \in DOMAIN Remembered(more) : Remembered(more)[i] = d
    BY <2>1, <2>2, <2>5
  <2>7. QED
    BY <2>1, <2>6, PairingBounds DEF more
<1>3. CASE ~(Len(more) > MaxKeys)
  <2>1. Remembered(more) = more /\ Len(keys) # MaxKeys
    BY <1>1, <1>3, PairingBounds DEF Remembered
  <2>2. DOMAIN more = 1..(Len(keys) + 1) /\ DOMAIN keys = 1..Len(keys)
    BY <1>1
  <2>3. QED
    BY <1>1, <1>3, <2>1, <2>2, PairingBounds
<1>4. QED
  BY <1>2, <1>3

LEMMA BindIsSound ==
  ASSUME PairingInv, NEW t \in Tokens, NEW d \in Devices, BindController(t, d)
  PROVE  /\ PairingInv' /\ store'.failures = store.failures
         /\ store'.tokens = store.tokens
         /\ t \in store.tokens => Holds(t, d)'
         /\ \A u \in store.tokens, e \in Devices :
              Holds(u, e) \/ Len(store.bound[u]) = MaxKeys =>
                Holds(u, e)' \/ Len(store'.bound[u]) = MaxKeys
<1> DEFINE keys == Remembered(Append(store.bound[t], d))
           s == [store EXCEPT !.bound[t] = keys]
<1>1. /\ store \in Store /\ store.tokens \subseteq Tokens
      /\ Cardinality(store.tokens) <= MaxSessions
      /\ \A u \in Tokens : store.bound[u] \in Seq(Devices) /\ Len(store.bound[u]) <= MaxKeys
      /\ attempts' = attempts /\ PairingInv
  BY DEF PairingInv, Sound, Store, BindController
<1>2. CASE t \in store.tokens /\ ~Holds(t, d)
  <2>1. Persist(s)
    BY <1>2 DEF BindController
  <2>2. /\ keys \in Seq(Devices) /\ Len(keys) <= MaxKeys
        /\ \E i \in DOMAIN keys : keys[i] = d
        /\ \/ \A i \in DOMAIN store.bound[t] : \E j \in DOMAIN keys : keys[j] = store.bound[t][i]
           \/ Len(keys) = MaxKeys
        /\ Len(store.bound[t]) = MaxKeys => Len(keys) = MaxKeys
    BY <1>1, RememberedKeys
  <2> HIDE DEF keys
  <2>3. /\ s \in Store /\ s.tokens = store.tokens /\ s.failures = store.failures
        /\ s.bound[t] = keys /\ \A u \in Tokens \ {t} : s.bound[u] = store.bound[u]
    BY <1>1, <2>2 DEF Store
  <2>4. \A u \in Tokens : Len(s.bound[u]) <= MaxKeys
    BY <1>1, <2>2, <2>3
  <2> HIDE DEF s
  <2>5. /\ Sound(store)' /\ file' = store'
        /\ store'.failures = s.failures /\ store'.tokens = s.tokens
        /\ \A u \in s.tokens : store'.bound[u] = s.bound[u]
    BY <1>1, <2>1, <2>3, <2>4, PersistIsSound
  <2>6. Holds(t, d)'
    BY <1>2, <2>2, <2>3, <2>5 DEF Holds
  <2>7. ASSUME NEW u \in store.tokens, NEW e \in Devices,
               Holds(u, e) \/ Len(store.bound[u]) = MaxKeys
        PROVE  Holds(u, e)' \/ Len(store'.bound[u]) = MaxKeys
    <3>1. CASE u = t
      <4>1. store'.bound[t] = keys
        BY <1>2, <2>3, <2>5
      <4>2. CASE Len(store.bound[t]) = MaxKeys
        BY <2>2, <3>1, <4>1, <4>2
      <4>3. CASE Holds(t, e)
        <5>1. (\E j \in DOMAIN keys : keys[j] = e) \/ Len(keys) = MaxKeys
          BY <2>2, <4>3 DEF Holds
        <5>2. QED
          BY <3>1, <4>1, <5>1 DEF Holds
      <4>4. QED
        BY <2>7, <3>1, <4>2, <4>3
    <3>2. CASE u # t
      <4>1. store'.bound[u] = store.bound[u]
        BY <1>1, <2>3, <2>5, <3>2
      <4>2. QED
        BY <2>7, <4>1 DEF Holds
    <3>3. QED
      BY <3>1, <3>2
  <2>8. QED
    BY <1>1, <2>3, <2>5, <2>6, <2>7 DEF PairingInv
<1>3. CASE ~(t \in store.tokens /\ ~Holds(t, d))
  <2>1. store' = store /\ file' = file
    BY <1>3 DEF BindController
  <2>2. QED
    BY <1>1, <1>3, <2>1 DEF PairingInv, Holds, Sound, BindController
<1>4. QED
  BY <1>2, <1>3

LEMMA WindowEndsIsSound ==
  ASSUME PairingInv, WindowEnds
  PROVE  PairingInv' /\ KeepsKeys({}) /\ store'.failures = store.failures
<1>1. /\ store' = store /\ file' = file
      /\ \E x \in Scopes : attempts' = [attempts EXCEPT ![x] = 0]
  BY DEF WindowEnds
<1>2. attempts' \in [Scopes -> 0..MaxAttempts]
  BY <1>1, PairingBounds DEF PairingInv
<1>3. QED
  BY <1>1, <1>2 DEF PairingInv, Sound, KeepsKeys

\* What is read from the file is what was in memory.
LEMMA RestartIsSound ==
  ASSUME PairingInv, Restart
  PROVE  PairingInv' /\ KeepsKeys({}) /\ store'.failures = store.failures
<1>1. /\ store \in Store /\ store.pin \in Pins /\ store.failures \in 0..LockoutAfter
      /\ store.tokens \subseteq Tokens /\ file = store
  BY DEF PairingInv, Sound, Store
<1>2. attempts' \in [Scopes -> 0..MaxAttempts]
  BY PairingBounds DEF Restart
<1>3. PICK p \in InForce(file.pin), kept \in Pruned(file.tokens, MaxSessions) :
         IF p # file.pin \/ kept # file.tokens
         THEN Persist([file EXCEPT !.pin = p, !.tokens = kept])
         ELSE store' = file /\ UNCHANGED file
  BY DEF Restart
<1>4. CASE p # file.pin \/ kept # file.tokens
  <2>1. /\ p \in Pins /\ kept \in SUBSET Tokens /\ Cardinality(kept) <= MaxSessions
        /\ kept \subseteq store.tokens \cup {}
    BY <1>1 DEF InForce, Pruned
  <2>2. [file EXCEPT !.pin = p, !.tokens = kept] =
          [store EXCEPT !.pin = p, !.failures = store.failures, !.tokens = kept]
    BY <1>1 DEF Store
  <2>3. Persist([store EXCEPT !.pin = p, !.failures = store.failures, !.tokens = kept])
    BY <1>3, <1>4, <2>2
  <2>4. Sound(store)' /\ file' = store' /\ store'.failures = store.failures /\ KeepsKeys({})
    BY <1>1, <2>1, <2>3, ChangeIsSound
  <2>5. QED
    BY <1>2, <2>4 DEF PairingInv
<1>5. CASE ~(p # file.pin \/ kept # file.tokens)
  <2>1. store' = store /\ file' = file
    BY <1>1, <1>3, <1>5
  <2>2. QED
    BY <1>2, <2>1 DEF PairingInv, Sound, KeepsKeys
<1>6. QED
  BY <1>4, <1>5

LEMMA HousekeepingIsSound ==
  ASSUME PairingInv, Housekeeping
  PROVE  /\ PairingInv' /\ KeepsKeys({})
         /\ RotatePin \/ store'.failures >= store.failures
<1>1. store.failures \in Nat
  BY PairingBounds DEF PairingInv, Sound, Store
<1>2. QED
  BY <1>1, CurrentPinIsSound, RotatePinIsSound, WrongPinIsSound, WindowEndsIsSound
     DEF Housekeeping

-----------------------------------------------------------------------------
(* The requests *)

\* What a request does once its write, if it is at one, is done.
Doing(k) == IF k.at = "save" THEN k.then ELSE k.at

WithSession == {"add", "bind", "check", "enrol", "look", "known", "touch", "forget",
                "end"}
WithDevice == WithSession \cup {"mint", "cut"}

\* A request carries what its next step reads.
Fit(k) ==
  /\ k \in Task
  /\ k.at = "save" => k.then \notin {"save", "add"} /\ k.list \in Lists
  /\ Doing(k) \in WithDevice => k.d \in Devices
  /\ Doing(k) \in WithSession => k.t \in Tokens

Bound(t, d) == Holds(t, d) \/ Len(store.bound[t]) = MaxKeys

\* The list, the cookies and the invitations have their types.
Typed ==
  /\ acl \in Lists /\ aclFile \in Lists
  /\ invite \in [Codes -> {"none", "asked", "open", "used"}]
  /\ cookie \in [Devices -> Tokens \cup {None}]

\* Nobody has been let in by an invitation that is still good.
NoneIsIn ==
  \A c \in Codes : invite[c] \in {"asked", "open"} =>
    \A r \in Requests : task[r].code # c

Admission ==
  /\ task \in [Requests -> Task] /\ \A r \in Requests : Fit(task[r])
  /\ NoneIsIn /\ InviteOnce

TrustInv == PairingInv /\ Typed /\ Admission /\ CookieIsBound

LEMMA InitIsSound == Init => TrustInv
<1> SUFFICES ASSUME Init PROVE TrustInv
  OBVIOUS
<1>1. PairingInv
  <2>1. /\ store \in Store /\ store.tokens = {} /\ \A t \in Tokens : store.bound[t] = <<>>
        /\ file = store /\ attempts \in [Scopes -> 0..MaxAttempts]
    <3>1. /\ store \in [pin: Pins, failures: {0}, tokens: {{}}, bound: [Tokens -> {<<>>}]]
          /\ file = store /\ attempts = [x \in Scopes |-> 0]
      BY DEF Init, PairingInit
    <3>2. /\ store.tokens = {} /\ store.bound \in [Tokens -> {<<>>}] /\ <<>> \in Seq(Devices)
          /\ \A t \in Tokens : store.bound[t] = <<>>
      BY <3>1
    <3>3. attempts \in [Scopes -> 0..MaxAttempts]
      BY <3>1, PairingBounds
    <3>4. store \in Store
      <4>1. /\ store = [pin |-> store.pin, failures |-> store.failures,
                        tokens |-> store.tokens, bound |-> store.bound]
            /\ store.pin \in Pins /\ store.failures = 0
        BY <3>1
      <4>2. store.failures \in 0..LockoutAfter /\ store.tokens \in SUBSET Tokens
        BY <3>2, <4>1, PairingBounds
      <4>3. store.bound \in [Tokens -> Seq(Devices)]
        BY <3>2
      <4>4. QED
        BY <4>1, <4>2, <4>3 DEF Store
    <3>5. QED
      BY <3>1, <3>2, <3>3, <3>4
  <2>2. Cardinality(store.tokens) <= MaxSessions
    BY <2>1, FS_EmptySet, PairingBounds
  <2>3. QED
    BY <2>1, <2>2, PairingBounds DEF PairingInv, Sound
<1>2. Typed
  BY DEF Init, Typed, Lists, Standing
<1>3. Admission
  <2>1. Idle \in Task /\ Fit(Idle) /\ Idle.code = None
    BY DEF Idle, Task, Fit, Doing, WithSession, WithDevice
  <2>2. QED
    BY <2>1 DEF Init, Admission, NoneIsIn, InviteOnce
<1>4. CookieIsBound
  BY NoneIsNothing DEF Init, PairingInit, CookieIsBound
<1>5. QED
  BY <1>1, <1>2, <1>3, <1>4 DEF TrustInv

\* One request moves on, no invitation becomes good.
LEMMA OneMoves ==
  ASSUME Admission, NEW r \in Requests, NEW k, task' = [task EXCEPT ![r] = k], Fit(k),
         k.code \in {task[r].code, None},
         \A c \in Codes : invite'[c] \in {"asked", "open"} => invite[c] \in {"asked", "open"}
  PROVE  Admission'
<1>1. /\ task' \in [Requests -> Task] /\ task'[r] = k
      /\ \A q \in Requests : task'[q] = (IF q = r THEN k ELSE task[q])
  BY DEF Admission, Fit
<1>2. \A q \in Requests : Fit(task'[q])
  BY <1>1 DEF Admission
<1>3. NoneIsIn'
  BY <1>1, NoneIsNothing DEF Admission, NoneIsIn
<1>4. InviteOnce'
  BY <1>1 DEF Admission, InviteOnce
<1>5. QED
  BY <1>1, <1>2, <1>3, <1>4 DEF Admission, Fit

LEMMA IdleIsFit == Fit(Idle) /\ Idle.code = None
  BY DEF Idle, Task, Fit, Doing, WithSession, WithDevice

LEMMA GoIsAdmitted ==
  ASSUME Admission, NEW r \in Requests, NEW s \in Steps \cup {"idle"}, s # "save",
         task[r].at # "save",
         s \in WithDevice => task[r].d \in Devices, s \in WithSession => task[r].t \in Tokens,
         Go(r, s), invite' = invite
  PROVE  Admission'
<1>1. task[r] \in Task
  BY DEF Admission
<1>2. CASE s = "idle"
  BY <1>2, IdleIsFit, OneMoves DEF Go
<1>3. CASE s # "idle"
  <2> DEFINE k == [task[r] EXCEPT !.at = s]
  <2>1. task' = [task EXCEPT ![r] = k]
    BY <1>3 DEF Go
  <2>2. k \in Task /\ k.at = s /\ k.d = task[r].d /\ k.t = task[r].t /\ k.code = task[r].code
    BY <1>1 DEF Task
  <2>3. Fit(k)
    BY <2>2 DEF Fit, Doing
  <2>4. QED
    BY <2>1, <2>2, <2>3, OneMoves
<1>4. QED
  BY <1>2, <1>3

LEMMA StartIsAdmitted ==
  ASSUME Admission, NEW r \in Requests, NEW s \in Steps, s # "save",
         NEW d \in Devices \cup {None}, NEW t \in Tokens \cup {None},
         s \in WithDevice => d \in Devices, s \in WithSession => t \in Tokens,
         Start(r, s, d, t, None), invite' = invite
  PROVE  Admission'
<1> DEFINE k == [Idle EXCEPT !.at = s, !.d = d, !.t = t, !.code = None]
<1>1. task' = [task EXCEPT ![r] = k]
  BY DEF Start
<1>2. k \in Task /\ k.at = s /\ k.d = d /\ k.t = t /\ k.code = None
  BY DEF Task, Idle
<1>3. Fit(k)
  BY <1>2 DEF Fit, Doing
<1>4. QED
  BY <1>1, <1>2, <1>3, OneMoves

LEMMA ChangeIsAdmitted ==
  ASSUME Admission, NEW r \in Requests, NEW list \in Lists, NEW then \in Steps \cup {"idle"},
         then \notin {"save", "add"}, then \in WithDevice => task[r].d \in Devices,
         then \in WithSession => task[r].t \in Tokens,
         Change(r, list, then), invite' = invite
  PROVE  Admission'
<1> DEFINE k == [task[r] EXCEPT !.at = "save", !.then = then, !.list = list]
<1>1. task[r] \in Task /\ task' = [task EXCEPT ![r] = k]
  BY DEF Admission, Change
<1>2. /\ k \in Task /\ k.at = "save" /\ k.then = then /\ k.list = list
      /\ k.d = task[r].d /\ k.t = task[r].t /\ k.code = task[r].code
  <2>1. "save" \in Steps
    BY DEF Steps
  <2>2. QED
    BY <1>1, <2>1 DEF Task
<1>3. Fit(k)
  BY <1>2 DEF Fit, Doing
<1>4. QED
  BY <1>1, <1>2, <1>3, OneMoves

\* The sessions may go, and one may come that is nobody's yet.
LEMMA CookiesKeepTheirKeys ==
  ASSUME CookieIsBound, Typed, NEW issued, KeepsKeys(issued), cookie' = cookie,
         \A d \in Devices : cookie[d] \notin issued
  PROVE  CookieIsBound'
  BY DEF CookieIsBound, Typed, KeepsKeys, Holds

LEMMA QuietKeepsTrust ==
  ASSUME PairingInv, CookieIsBound, UNCHANGED <<pairingVars, cookie>>
  PROVE  PairingInv' /\ CookieIsBound'
  BY DEF pairingVars, PairingInv, Sound, CookieIsBound, Holds

\* A step of the manager alone, or a restart: sessions may go, none comes.
LEMMA NobodyNewKeepsTrust ==
  ASSUME CookieIsBound, Typed, KeepsKeys({}), cookie' = cookie
  PROVE  CookieIsBound'
  BY CookiesKeepTheirKeys

-----------------------------------------------------------------------------
(* The steps of one request.  Each keeps the four parts of TrustInv.        *)

LEMMA PairingStepsKeepTrust ==
  ASSUME TrustInv, NEW r \in Requests,
         PairByPin(r) \/ PairByInvite(r) \/ Mint(r) \/ Add(r) \/ Bind(r)
  PROVE  TrustInv'
<1>0. PairingInv /\ Typed /\ Admission /\ CookieIsBound /\ task[r] \in Task /\ Fit(task[r])
  BY DEF TrustInv, Admission
<1>1. CASE PairByPin(r)
  <2>1. PICK d \in Devices, t \in Tokens :
          /\ ~InUse(t) /\ RightPin(t) /\ Start(r, "add", d, t, None)
          /\ UNCHANGED <<acl, aclFile, invite, cookie>>
    BY <1>1 DEF PairByPin
  <2>2. PairingInv' /\ KeepsKeys({t})
    BY <1>0, <2>1, RightPinIsSound
  <2>3. Typed'
    BY <1>0, <2>1 DEF Typed
  <2>4. Admission'
    BY <1>0, <2>1, StartIsAdmitted DEF Steps
  <2>5. CookieIsBound'
    BY <1>0, <2>1, <2>2, CookiesKeepTheirKeys DEF InUse
  <2>6. QED
    BY <2>2, <2>3, <2>4, <2>5 DEF TrustInv
<1>2. CASE PairByInvite(r)
  <2>1. PICK d \in Devices, c \in Codes :
          /\ invite[c] = "open" /\ invite' = [invite EXCEPT ![c] = "used"]
          /\ Start(r, "mint", d, None, c)
          /\ UNCHANGED <<pairingVars, acl, aclFile, cookie>>
    BY <1>2 DEF PairByInvite, Consumed
  <2> DEFINE k == [Idle EXCEPT !.at = "mint", !.d = d, !.t = None, !.code = c]
  <2>2. /\ task' = [task EXCEPT ![r] = k] /\ k \in Task /\ k.code = c
        /\ k.at = "mint" /\ k.d = d
    BY <2>1 DEF Start, Task, Idle, Steps
  <2>3. Fit(k)
    BY <2>2 DEF Fit, Doing, WithSession, WithDevice
  <2> HIDE DEF k
  <2>4. Typed'
    BY <1>0, <2>1 DEF Typed
  <2>5. /\ task' \in [Requests -> Task] /\ task'[r] = k
        /\ \A q \in Requests \ {r} : task'[q] = task[q] /\ task[q].code # c
    BY <1>0, <2>1, <2>2 DEF Admission, NoneIsIn
  <2>6. \A e \in Codes : invite'[e] \in {"asked", "open"} =>
          e # c /\ invite[e] \in {"asked", "open"}
    BY <1>0, <2>1 DEF Typed
  <2>7. NoneIsIn' /\ InviteOnce' /\ \A q \in Requests : Fit(task'[q])
    BY <1>0, <2>2, <2>3, <2>5, <2>6 DEF Admission, NoneIsIn, InviteOnce
  <2>8. PairingInv' /\ CookieIsBound'
    BY <1>0, <2>1, QuietKeepsTrust
  <2>9. QED
    BY <2>4, <2>5, <2>7, <2>8 DEF TrustInv, Admission, Fit
<1>3. CASE Mint(r)
  <2>1. PICK t \in Tokens :
          /\ At(r, "mint") /\ ~InUse(t) /\ MintSession(t)
          /\ task' = [task EXCEPT ![r].at = "add", ![r].t = t]
          /\ UNCHANGED <<acl, aclFile, invite, cookie>>
    BY <1>3 DEF Mint
  <2>2. PairingInv' /\ KeepsKeys({t})
    BY <1>0, <2>1, MintIsSound
  <2>3. Typed'
    BY <1>0, <2>1 DEF Typed
  <2>4. Admission'
    <3> DEFINE k == [task[r] EXCEPT !.at = "add", !.t = t]
    <3>1. task' = [task EXCEPT ![r] = k]
      BY <1>0, <2>1 DEF Admission
    <3>2. k \in Task /\ k.at = "add" /\ k.t = t /\ k.d = task[r].d /\ k.code = task[r].code
      BY <1>0 DEF Task, Steps
    <3>3. Fit(k)
      BY <1>0, <2>1, <3>2 DEF Fit, Doing, At, WithSession, WithDevice
    <3>4. QED
      BY <1>0, <2>1, <3>1, <3>2, <3>3, OneMoves
  <2>5. CookieIsBound'
    BY <1>0, <2>1, <2>2, CookiesKeepTheirKeys DEF InUse
  <2>6. QED
    BY <2>2, <2>3, <2>4, <2>5 DEF TrustInv
<1>4. CASE Add(r)
  <2>1. /\ task[r].at = "add" /\ Change(r, [acl EXCEPT ![task[r].d] = "active"], "bind")
        /\ UNCHANGED <<pairingVars, aclFile, invite, cookie>>
    BY <1>4 DEF Add, At
  <2>2. [acl EXCEPT ![task[r].d] = "active"] \in Lists
    BY <1>0 DEF Typed, Lists, Standing
  <2>3. task[r].d \in Devices /\ task[r].t \in Tokens
    BY <1>0, <2>1 DEF Fit, Doing, WithSession, WithDevice
  <2>4. Admission'
    BY <1>0, <2>1, <2>2, <2>3, ChangeIsAdmitted DEF Steps
  <2>5. Typed'
    BY <1>0, <2>1, <2>2 DEF Typed, Change
  <2>6. PairingInv' /\ CookieIsBound'
    BY <1>0, <2>1, QuietKeepsTrust
  <2>7. QED
    BY <2>4, <2>5, <2>6 DEF TrustInv
<1>5. CASE Bind(r)
  <2>1. PICK t \in Tokens, d \in Devices : t = task[r].t /\ d = task[r].d
    BY <1>0, <1>5 DEF Bind, At, Fit, Doing, WithSession, WithDevice
  <2>2. /\ task[r].at = "bind" /\ BindController(t, d)
        /\ cookie' \in {cookie, [cookie EXCEPT ![d] = t]}
        /\ Go(r, "idle") /\ UNCHANGED <<acl, aclFile, invite>>
    BY <1>5, <2>1 DEF Bind, At
  <2>3. /\ PairingInv' /\ store'.tokens = store.tokens
        /\ t \in store.tokens => Holds(t, d)'
        /\ \A u \in store.tokens, e \in Devices :
             Holds(u, e) \/ Len(store.bound[u]) = MaxKeys =>
               Holds(u, e)' \/ Len(store'.bound[u]) = MaxKeys
    BY <1>0, <2>2, BindIsSound
  <2>4. Typed'
    BY <1>0, <2>2 DEF Typed
  <2>5. Admission'
    BY <1>0, <2>2, GoIsAdmitted DEF WithDevice, WithSession
  <2>6. ASSUME NEW e \in Devices, cookie'[e] \in store'.tokens
        PROVE  (Holds(cookie[e], e) \/ Len(store.bound[cookie[e]]) = MaxKeys)'
    <3>1. CASE cookie'[e] = cookie[e]
      BY <1>0, <2>3, <2>6, <3>1 DEF CookieIsBound, Holds
    <3>2. CASE cookie'[e] # cookie[e]
      <4>1. e = d /\ cookie'[e] = t
        BY <1>0, <2>2, <3>2 DEF Typed
      <4>2. QED
        BY <2>3, <2>6, <4>1 DEF Holds
    <3>3. QED
      BY <3>1, <3>2
  <2>7. CookieIsBound'
    BY <2>6 DEF CookieIsBound, Holds
  <2>8. QED
    BY <2>3, <2>4, <2>5, <2>7 DEF TrustInv
<1>6. QED
  BY <1>1, <1>2, <1>3, <1>4, <1>5

LEMMA SaveKeepsTrust ==
  ASSUME TrustInv, NEW r \in Requests, Save(r)
  PROVE  TrustInv'
<1>0. PairingInv /\ Typed /\ Admission /\ CookieIsBound /\ task[r] \in Task /\ Fit(task[r])
  BY DEF TrustInv, Admission
<1>1. /\ task[r].at = "save" /\ aclFile' = task[r].list
      /\ UNCHANGED <<pairingVars, acl, invite, cookie>>
  BY DEF Save, At
<1>2. Typed'
  BY <1>0, <1>1 DEF Typed, Fit
<1>3. Admission'
  <2>1. CASE task[r].then = "idle"
    <3>1. task' = [task EXCEPT ![r] = Idle]
      BY <2>1 DEF Save
    <3>2. QED
      BY <1>0, <1>1, <3>1, IdleIsFit, OneMoves
  <2>2. CASE task[r].then # "idle"
    <3> DEFINE k == [task[r] EXCEPT !.at = task[r].then, !.then = "idle", !.list = None]
    <3>1. task' = [task EXCEPT ![r] = k]
      BY <2>2 DEF Save
    <3>2. /\ k \in Task /\ k.at = task[r].then /\ k.d = task[r].d /\ k.t = task[r].t
          /\ k.code = task[r].code
      BY <1>0 DEF Task
    <3>3. Fit(k)
      BY <1>0, <1>1, <3>2 DEF Fit, Doing
    <3>4. QED
      BY <1>0, <1>1, <3>1, <3>2, <3>3, OneMoves
  <2>3. QED
    BY <2>1, <2>2
<1>4. PairingInv' /\ CookieIsBound'
  BY <1>0, <1>1, QuietKeepsTrust
<1>5. QED
  BY <1>2, <1>3, <1>4 DEF TrustInv

LEMMA SigningInKeepsTrust ==
  ASSUME TrustInv, NEW r \in Requests, SignIn(r) \/ Check(r) \/ Enrol(r) \/ LookUp(r) \/ BindKnown(r) \/ Touch(r)
  PROVE  TrustInv'
<1>0. PairingInv /\ Typed /\ Admission /\ CookieIsBound /\ task[r] \in Task /\ Fit(task[r])
  BY DEF TrustInv, Admission
<1>1. CASE SignIn(r)
  <2>1. PICK d \in Devices, owner \in Devices :
          /\ cookie[owner] \in store.tokens /\ Start(r, "check", d, cookie[owner], None)
          /\ UNCHANGED <<pairingVars, acl, aclFile, invite, cookie>>
    BY <1>1 DEF SignIn
  <2>2. cookie[owner] \in Tokens
    BY <1>0, <2>1 DEF PairingInv, Sound, Store
  <2>3. Admission'
    BY <1>0, <2>1, <2>2, StartIsAdmitted DEF Steps
  <2>4. PairingInv' /\ CookieIsBound' /\ Typed'
    BY <1>0, <2>1, QuietKeepsTrust DEF Typed
  <2>5. QED
    BY <2>3, <2>4 DEF TrustInv
<1>2. CASE Check(r) \/ LookUp(r)
  <2>1. /\ task[r].at \in {"check", "look"}
        /\ UNCHANGED <<pairingVars, acl, aclFile, invite, cookie>>
        /\ Go(r, "known") \/ Go(r, "enrol") \/ Go(r, "idle")
    BY <1>2 DEF Check, LookUp, At
  <2>2. task[r].d \in Devices /\ task[r].t \in Tokens
    BY <1>0, <2>1 DEF Fit, Doing, WithSession, WithDevice
  <2>3. Admission'
    BY <1>0, <2>1, <2>2, GoIsAdmitted DEF Steps
  <2>4. PairingInv' /\ CookieIsBound' /\ Typed'
    BY <1>0, <2>1, QuietKeepsTrust DEF Typed
  <2>5. QED
    BY <2>3, <2>4 DEF TrustInv
<1>3. CASE Enrol(r)
  <2>1. /\ task[r].at = "enrol" /\ Change(r, [acl EXCEPT ![task[r].d] = "active"], "look")
        /\ UNCHANGED <<pairingVars, aclFile, invite, cookie>>
    BY <1>3 DEF Enrol, At
  <2>2. [acl EXCEPT ![task[r].d] = "active"] \in Lists
    BY <1>0 DEF Typed, Lists, Standing
  <2>3. task[r].d \in Devices /\ task[r].t \in Tokens
    BY <1>0, <2>1 DEF Fit, Doing, WithSession, WithDevice
  <2>4. Admission'
    BY <1>0, <2>1, <2>2, <2>3, ChangeIsAdmitted DEF Steps
  <2>5. PairingInv' /\ CookieIsBound' /\ Typed'
    BY <1>0, <2>1, <2>2, QuietKeepsTrust DEF Typed, Change
  <2>6. QED
    BY <2>4, <2>5 DEF TrustInv
<1>4. CASE BindKnown(r)
  <2>1. PICK t \in Tokens, d \in Devices : t = task[r].t /\ d = task[r].d
    BY <1>0, <1>4 DEF BindKnown, At, Fit, Doing, WithSession, WithDevice
  <2>2. /\ BindController(t, d) /\ Go(r, "touch") /\ task[r].at = "known"
        /\ UNCHANGED <<acl, aclFile, invite, cookie>>
    BY <1>4, <2>1 DEF BindKnown, At
  <2>3. /\ PairingInv' /\ store'.tokens = store.tokens
        /\ \A u \in store.tokens, e \in Devices :
             Holds(u, e) \/ Len(store.bound[u]) = MaxKeys =>
               Holds(u, e)' \/ Len(store'.bound[u]) = MaxKeys
    BY <1>0, <2>2, BindIsSound
  <2>4. Admission'
    BY <1>0, <2>1, <2>2, GoIsAdmitted DEF Steps
  <2>5. Typed'
    BY <1>0, <2>2 DEF Typed
  <2>6. CookieIsBound'
    BY <1>0, <2>2, <2>3 DEF CookieIsBound, Holds
  <2>7. QED
    BY <2>3, <2>4, <2>5, <2>6 DEF TrustInv
<1>5. CASE Touch(r)
  <2>1. Change(r, acl, "idle") /\ UNCHANGED <<pairingVars, aclFile, invite, cookie>>
    BY <1>5 DEF Touch
  <2>2. Admission'
    BY <1>0, <2>1, ChangeIsAdmitted DEF WithDevice, WithSession, Typed
  <2>3. PairingInv' /\ CookieIsBound' /\ Typed'
    BY <1>0, <2>1, QuietKeepsTrust DEF Typed, Change
  <2>4. QED
    BY <2>2, <2>3 DEF TrustInv
<1>6. QED
  BY <1>1, <1>2, <1>3, <1>4, <1>5

LEMMA LeavingKeepsTrust ==
  ASSUME TrustInv, NEW r \in Requests, Logout(r) \/ LogoutForgets(r) \/ LogoutEnds(r)
  PROVE  TrustInv'
<1>0. PairingInv /\ Typed /\ Admission /\ CookieIsBound /\ task[r] \in Task /\ Fit(task[r])
  BY DEF TrustInv, Admission
<1>1. CASE Logout(r)
  <2>1. PICK d \in Devices :
          /\ cookie[d] \in store.tokens
          /\ Start(r, "forget", d, cookie[d], None) \/ Start(r, "end", d, cookie[d], None)
          /\ UNCHANGED <<pairingVars, acl, aclFile, invite, cookie>>
    BY <1>1 DEF Logout
  <2>2. cookie[d] \in Tokens
    BY <1>0, <2>1 DEF PairingInv, Sound, Store
  <2>3. Admission'
    BY <1>0, <2>1, <2>2, StartIsAdmitted DEF Steps
  <2>4. PairingInv' /\ CookieIsBound' /\ Typed'
    BY <1>0, <2>1, QuietKeepsTrust DEF Typed
  <2>5. QED
    BY <2>3, <2>4 DEF TrustInv
<1>2. CASE LogoutForgets(r)
  <2>1. /\ task[r].at = "forget" /\ Forget(r, "end")
        /\ UNCHANGED <<pairingVars, aclFile, invite, cookie>>
    BY <1>2 DEF LogoutForgets, At
  <2>2. task[r].d \in Devices /\ task[r].t \in Tokens
    BY <1>0, <2>1 DEF Fit, Doing, WithSession, WithDevice
  <2>3. RevokedList(task[r].d) \in Lists
    BY <1>0 DEF RevokedList, Typed, Lists, Standing
  <2>4. Admission' /\ acl' \in Lists
    <3>1. CASE acl[task[r].d] = "active"
      <4>1. Change(r, RevokedList(task[r].d), "end")
        BY <2>1, <3>1 DEF Forget
      <4>2. Admission'
        BY <1>0, <2>1, <2>2, <2>3, <4>1, ChangeIsAdmitted DEF Steps
      <4>3. QED
        BY <2>3, <4>1, <4>2 DEF Change
    <3>2. CASE acl[task[r].d] # "active"
      BY <1>0, <2>1, <2>2, <3>2, GoIsAdmitted DEF Forget, Steps, Typed
    <3>3. QED
      BY <3>1, <3>2
  <2>5. PairingInv' /\ CookieIsBound' /\ Typed'
    BY <1>0, <2>1, <2>4, QuietKeepsTrust DEF Typed
  <2>6. QED
    BY <2>4, <2>5 DEF TrustInv
<1>3. CASE LogoutEnds(r)
  <2>1. /\ task[r].at = "end" /\ Revoke({task[r].t}) /\ Go(r, "idle")
        /\ cookie' = [cookie EXCEPT ![task[r].d] = IF @ = task[r].t THEN None ELSE @]
        /\ UNCHANGED <<acl, aclFile, invite>>
    BY <1>3 DEF LogoutEnds, At
  <2>2. PairingInv' /\ KeepsKeys({})
    BY <1>0, <2>1, RevokeIsSound
  <2>3. Typed'
    BY <1>0, <2>1 DEF Typed
  <2>4. Admission'
    BY <1>0, <2>1, GoIsAdmitted DEF WithDevice, WithSession
  <2>5. \A d \in Devices : cookie'[d] \in {cookie[d], None}
    BY <1>0, <2>1 DEF Typed
  <2>6. None \notin store'.tokens
    BY <2>2, NoneIsNothing DEF PairingInv, Sound, Store
  <2>7. CookieIsBound'
    BY <1>0, <2>2, <2>5, <2>6 DEF CookieIsBound, KeepsKeys, Holds
  <2>8. QED
    BY <2>2, <2>3, <2>4, <2>7 DEF TrustInv
<1>4. QED
  BY <1>1, <1>2, <1>3

LEMMA RevokingKeepsTrust ==
  ASSUME TrustInv, NEW r \in Requests,
         AdminRevoke(r) \/ AdminCut(r) \/ RevokeAll(r) \/ RevokeKeys(r)
  PROVE  TrustInv'
<1>0. PairingInv /\ Typed /\ Admission /\ CookieIsBound /\ task[r] \in Task /\ Fit(task[r])
  BY DEF TrustInv, Admission
<1>1. CASE AdminRevoke(r)
  <2>1. PICK d \in Devices :
          /\ acl' = RevokedList(d)
          /\ task' = [task EXCEPT ![r] = [Idle EXCEPT !.at = "save", !.then = "cut", !.d = d,
                                                      !.list = acl']]
          /\ UNCHANGED <<pairingVars, aclFile, invite, cookie>>
    BY <1>1 DEF AdminRevoke
  <2>2. acl' \in Lists
    BY <1>0, <2>1 DEF RevokedList, Typed, Lists, Standing
  <2> DEFINE k == [Idle EXCEPT !.at = "save", !.then = "cut", !.d = d, !.list = acl']
  <2>3. /\ k \in Task /\ k.at = "save" /\ k.then = "cut" /\ k.d = d /\ k.list = acl'
        /\ k.code = None
    BY <2>2 DEF Task, Idle, Steps
  <2>4. Fit(k)
    BY <2>2, <2>3 DEF Fit, Doing, WithSession, WithDevice
  <2>5. task' = [task EXCEPT ![r] = k] /\ invite' = invite
    BY <2>1
  <2> HIDE DEF k
  <2>6. Admission'
    BY <1>0, <2>3, <2>4, <2>5, OneMoves
  <2>7. PairingInv' /\ CookieIsBound' /\ Typed'
    BY <1>0, <2>1, <2>2, QuietKeepsTrust DEF Typed
  <2>8. QED
    BY <2>6, <2>7 DEF TrustInv
<1>2. CASE AdminCut(r)
  <2>1. /\ task[r].at = "cut" /\ Revoke(SessionsOf(task[r].d)) /\ Go(r, "idle")
        /\ UNCHANGED <<acl, aclFile, invite, cookie>>
    BY <1>2 DEF AdminCut, At
  <2>2. PairingInv' /\ KeepsKeys({})
    BY <1>0, <2>1, RevokeIsSound
  <2>3. Admission'
    BY <1>0, <2>1, GoIsAdmitted DEF WithDevice, WithSession
  <2>4. CookieIsBound' /\ Typed'
    BY <1>0, <2>1, <2>2, NobodyNewKeepsTrust DEF Typed
  <2>5. QED
    BY <2>2, <2>3, <2>4 DEF TrustInv
<1>3. CASE RevokeAll(r)
  <2>1. /\ Revoke(store.tokens) /\ Start(r, "revokeAll", None, None, None)
        /\ UNCHANGED <<acl, aclFile, invite, cookie>>
    BY <1>3 DEF RevokeAll
  <2>2. PairingInv' /\ KeepsKeys({})
    BY <1>0, <2>1, RevokeIsSound
  <2>3. Admission'
    BY <1>0, <2>1, StartIsAdmitted DEF WithDevice, WithSession, Steps
  <2>4. CookieIsBound' /\ Typed'
    BY <1>0, <2>1, <2>2, NobodyNewKeepsTrust DEF Typed
  <2>5. QED
    BY <2>2, <2>3, <2>4 DEF TrustInv
<1>4. CASE RevokeKeys(r)
  <2> DEFINE list == [d \in Devices |-> IF acl[d] = "unknown" THEN "unknown" ELSE "revoked"]
  <2>1. /\ Change(r, list, "idle") /\ UNCHANGED <<pairingVars, aclFile, invite, cookie>>
    BY <1>4 DEF RevokeKeys
  <2>2. list \in Lists
    BY DEF Lists, Standing
  <2> HIDE DEF list
  <2>3. Admission'
    BY <1>0, <2>1, <2>2, ChangeIsAdmitted DEF WithDevice, WithSession
  <2>4. PairingInv' /\ CookieIsBound' /\ Typed'
    BY <1>0, <2>1, <2>2, QuietKeepsTrust DEF Typed, Change
  <2>5. QED
    BY <2>3, <2>4 DEF TrustInv
<1>5. QED
  BY <1>1, <1>2, <1>3, <1>4

LEMMA InvitingKeepsTrust ==
  ASSUME TrustInv, NEW r \in Requests, AskInvite(r) \/ CreateInvite(r)
  PROVE  TrustInv'
<1>0. PairingInv /\ Typed /\ Admission /\ CookieIsBound /\ task[r] \in Task /\ Fit(task[r])
  BY DEF TrustInv, Admission
<1>1. CASE AskInvite(r)
  <2>1. /\ Start(r, "askFirst", None, None, None) \/ Start(r, "openFirst", None, None, None)
        /\ UNCHANGED <<pairingVars, acl, aclFile, invite, cookie>>
    BY <1>1 DEF AskInvite
  <2>2. Admission'
    BY <1>0, <2>1, StartIsAdmitted DEF WithDevice, WithSession, Steps
  <2>3. PairingInv' /\ CookieIsBound' /\ Typed'
    BY <1>0, <2>1, QuietKeepsTrust DEF Typed
  <2>4. QED
    BY <2>2, <2>3 DEF TrustInv
<1>2. CASE CreateInvite(r)
  <2>1. PICK c \in Codes :
          /\ \A q \in Requests : task[q].code # c
          /\ invite' = [k \in Codes |->
                          IF k = c THEN (IF At(r, "askFirst") THEN "asked" ELSE "open")
                          ELSE IF invite[k] = "used" THEN "none" ELSE invite[k]]
          /\ Go(r, "idle") /\ UNCHANGED <<pairingVars, acl, aclFile, cookie>>
    BY <1>2 DEF CreateInvite
  <2>2. task' = [task EXCEPT ![r] = Idle]
    BY <2>1 DEF Go
  <2>3. /\ task' \in [Requests -> Task] /\ task'[r] = Idle
        /\ \A q \in Requests \ {r} : task'[q] = task[q]
    BY <1>0, <2>2, IdleIsFit DEF Admission, Fit
  <2>4. \A e \in Codes : invite'[e] \in {"asked", "open"} =>
          e = c \/ invite[e] \in {"asked", "open"}
    BY <2>1
  <2>5. NoneIsIn' /\ InviteOnce' /\ \A q \in Requests : Fit(task'[q])
    BY <1>0, <2>1, <2>3, <2>4, IdleIsFit, NoneIsNothing DEF Admission, NoneIsIn, InviteOnce
  <2>6. PairingInv' /\ CookieIsBound' /\ Typed'
    BY <1>0, <2>1, QuietKeepsTrust DEF Typed
  <2>7. QED
    BY <2>3, <2>5, <2>6 DEF TrustInv, Admission, Fit
<1>3. QED
  BY <1>1, <1>2

\* What no request does: the manager by itself, the owner, time, a restart.
LEMMA OthersKeepTrust ==
  ASSUME TrustInv, Manager \/ Approve \/ InviteExpires \/ HostRestart
  PROVE  TrustInv'
<1>0. PairingInv /\ Typed /\ Admission /\ CookieIsBound
  BY DEF TrustInv
<1>1. CASE Manager
  <2>1. PairingInv' /\ KeepsKeys({})
    BY <1>0, <1>1, HousekeepingIsSound, ExpireIsSound DEF Manager
  <2>2. UNCHANGED <<acl, aclFile, invite, task, cookie>>
    BY <1>1 DEF Manager
  <2>3. CookieIsBound' /\ Typed' /\ Admission'
    BY <1>0, <2>1, <2>2, NobodyNewKeepsTrust DEF Typed, Admission, NoneIsIn, InviteOnce
  <2>4. QED
    BY <2>1, <2>3 DEF TrustInv
<1>2. CASE Approve
  <2>1. PICK c \in Codes : invite[c] = "asked" /\ invite' = [invite EXCEPT ![c] = "open"]
    BY <1>2 DEF Approve
  <2>2. UNCHANGED <<pairingVars, acl, aclFile, task, cookie>>
    BY <1>2 DEF Approve
  <2>3. Typed' /\ Admission'
    BY <1>0, <2>1, <2>2 DEF Typed, Admission, NoneIsIn, InviteOnce
  <2>4. QED
    BY <1>0, <2>2, <2>3, QuietKeepsTrust DEF TrustInv
<1>3. CASE InviteExpires
  <2>1. PICK c \in Codes : invite' = [invite EXCEPT ![c] = "none"]
    BY <1>3 DEF InviteExpires
  <2>2. UNCHANGED <<pairingVars, acl, aclFile, task, cookie>>
    BY <1>3 DEF InviteExpires
  <2>3. Typed' /\ Admission'
    BY <1>0, <2>1, <2>2 DEF Typed, Admission, NoneIsIn, InviteOnce
  <2>4. QED
    BY <1>0, <2>2, <2>3, QuietKeepsTrust DEF TrustInv
<1>4. CASE HostRestart
  <2>1. PairingInv' /\ KeepsKeys({})
    BY <1>0, <1>4, RestartIsSound DEF HostRestart
  <2>2. /\ acl' = aclFile /\ aclFile' = aclFile /\ cookie' = cookie
        /\ invite' = [c \in Codes |-> "none"] /\ task' = [r \in Requests |-> Idle]
    BY <1>4 DEF HostRestart
  <2>3. Typed' /\ Admission'
    BY <1>0, <2>2, IdleIsFit DEF Typed, Admission, NoneIsIn, InviteOnce, Fit
  <2>4. CookieIsBound'
    BY <1>0, <2>1, <2>2, NobodyNewKeepsTrust
  <2>5. QED
    BY <2>1, <2>3, <2>4 DEF TrustInv
<1>5. QED
  BY <1>1, <1>2, <1>3, <1>4

LEMMA StepKeepsTrust == TrustInv /\ [Next]_vars => TrustInv'
<1> SUFFICES ASSUME TrustInv, [Next]_vars PROVE TrustInv'
  OBVIOUS
<1>1. ASSUME NEW r \in Requests, RequestStep(r) PROVE TrustInv'
  BY <1>1, PairingStepsKeepTrust, SaveKeepsTrust, SigningInKeepsTrust, LeavingKeepsTrust,
     RevokingKeepsTrust, InvitingKeepsTrust DEF RequestStep
<1>2. CASE UNCHANGED vars
  <2>1. PairingInv' /\ CookieIsBound'
    BY <1>2, QuietKeepsTrust DEF vars, TrustInv
  <2>2. Typed' /\ Admission'
    BY <1>2 DEF vars, TrustInv, Typed, Admission, NoneIsIn, InviteOnce
  <2>3. QED
    BY <2>1, <2>2 DEF TrustInv
<1>3. QED
  BY <1>1, <1>2, OthersKeepTrust DEF Next

LEMMA TrustAlways == Spec => []TrustInv
<1>1. Init => TrustInv
  BY InitIsSound
<1>2. TrustInv /\ [Next]_vars => TrustInv'
  BY StepKeepsTrust
<1>3. QED
  BY <1>1, <1>2, PTL DEF Spec

-----------------------------------------------------------------------------
(* The results                                                              *)

\* The store, the file, the list, the requests and the cookies have their
\* types, and no more sessions or keys than the bounds of the code
\* (MAX_SESSIONS, MAX_KEYS_PER_SESSION) are kept.
THEOREM TrustTypeCorrect == Spec => []TypeOK
<1>1. TrustInv => TypeOK
  BY DEF TrustInv, PairingInv, Sound, Typed, Admission, TypeOK, PairingTypeOK
<1>2. QED
  BY <1>1, TrustAlways, PTL

\* A token that is no session any more carries nobody's keys, whatever the
\* order of expiries, evictions, logouts and restarts (Inner::persist).
THEOREM KeysFollowSessions == Spec => []BindingsFollow
<1>1. TrustInv => BindingsFollow
  BY DEF TrustInv, PairingInv, Sound, BindingsFollow
<1>2. QED
  BY <1>1, TrustAlways, PTL

\* While a cookie is valid, revoking its browser's key takes the session too,
\* or the session remembers as many keys as it may
\* (revoke_controller_sessions, bind_controller).
THEOREM CookieStaysBound == Spec => []CookieIsBound
<1>1. TrustInv => CookieIsBound
  BY DEF TrustInv
<1>2. QED
  BY <1>1, TrustAlways, PTL

\* No two requests are let in by one invitation (InviteStore::consume).
THEOREM InvitationIsOneShot == Spec => []InviteOnce
<1>1. TrustInv => InviteOnce
  BY DEF TrustInv, Admission
<1>2. QED
  BY <1>1, TrustAlways, PTL

\* Wrong PINs are forgiven by a right one or by the owner's new PIN only: no
\* expiry, invitation, logout or restart does it (SessionFile::pin_failures).
THEOREM LockoutIsKept == Spec => LockoutHolds
<1> DEFINE Forgiven == RotatePin \/ \E t \in Tokens : RightPin(t)
<1>1. ASSUME TrustInv, [Next]_vars PROVE Forgiven \/ store'.failures >= store.failures
  <2>0. PairingInv /\ store.failures \in Nat
    BY <1>1, PairingBounds DEF TrustInv, PairingInv, Sound, Store
  <2>1. CASE UNCHANGED pairingVars
    BY <2>0, <2>1 DEF pairingVars
  <2>2. ASSUME NEW r \in Requests, RequestStep(r), ~UNCHANGED pairingVars
        PROVE  Forgiven \/ store'.failures >= store.failures
    <3>1. \/ PairByPin(r) \/ Mint(r) \/ Bind(r) \/ BindKnown(r)
          \/ LogoutEnds(r) \/ AdminCut(r) \/ RevokeAll(r)
      BY <2>2 DEF RequestStep, PairByInvite, Add, Save, SignIn, Check, Enrol, LookUp,
                  Touch, Logout, LogoutForgets, AdminRevoke, RevokeKeys, AskInvite, CreateInvite
    <3>2. CASE PairByPin(r)
      BY <3>2 DEF PairByPin
    <3>3. CASE Mint(r)
      <4>1. PICK t \in Tokens : MintSession(t)
        BY <3>3 DEF Mint
      <4>2. store'.failures = store.failures
        BY <2>0, <4>1, MintIsSound
      <4>3. QED
        BY <2>0, <4>2
    <3>4. CASE Bind(r) \/ BindKnown(r)
      <4>1. PICK t \in Tokens, d \in Devices : BindController(t, d)
        BY <1>1, <3>4 DEF TrustInv, Admission, Fit, Doing, WithDevice, WithSession, Bind, BindKnown, At
      <4>2. QED
        BY <2>0, <4>1, BindIsSound
    <3>5. CASE LogoutEnds(r) \/ AdminCut(r) \/ RevokeAll(r)
      BY <2>0, <3>5, RevokeIsSound DEF LogoutEnds, AdminCut, RevokeAll
    <3>6. QED
      BY <3>1, <3>2, <3>3, <3>4, <3>5, Zenon
  <2>3. CASE Manager
    BY <2>0, <2>3, HousekeepingIsSound, ExpireIsSound DEF Manager
  <2>4. CASE HostRestart
    BY <2>0, <2>4, RestartIsSound DEF HostRestart
  <2>5. QED
    BY <1>1, <2>1, <2>2, <2>3, <2>4 DEF Next, vars, pairingVars, Approve, InviteExpires
<1>2. TrustInv /\ [Next]_vars =>
        [store'.failures < store.failures => RotatePin \/ \E t \in Tokens : RightPin(t)]_vars
  <2>1. TrustInv => store.failures \in Nat
    BY PairingBounds DEF TrustInv, PairingInv, Sound, Store
  <2>2. TrustInv' => store'.failures \in Nat
    BY PairingBounds DEF TrustInv, PairingInv, Sound, Store
  <2>3. QED
    BY <1>1, <2>1, <2>2, StepKeepsTrust
<1>3. QED
  BY <1>2, TrustAlways, PTL DEF Spec, LockoutHolds

\* The step that issues a token leaves it a session: making room for it does not
\* take it (Inner::insert_session).  What other requests do to it before the
\* answer goes out is another matter.
THEOREM NewcomerIsKept == Spec => NewcomerStays
<1>1. ASSUME TrustInv, [Next]_vars, NEW r \in Requests,
             task'[r].at = "add", task[r].at # "add"
      PROVE  task'[r].t \in store'.tokens
  <2>0. /\ PairingInv /\ task \in [Requests -> Task]
        /\ task[r].at = "save" => task[r].then # "add"
    BY <1>1 DEF TrustInv, Admission, Fit
  <2>1. task'[r] # task[r] /\ task'[r] # Idle
    BY <1>1 DEF Idle
  <2>2. PICK q \in Requests : RequestStep(q)
    <3>1. UNCHANGED vars \/ Manager \/ Approve \/ InviteExpires => task' = task
      BY Zenon DEF vars, Manager, Approve, InviteExpires
    <3>2. HostRestart => task'[r] = Idle
      <4>1. HostRestart => task' = [q \in Requests |-> Idle]
        BY Zenon DEF HostRestart
      <4>2. [q \in Requests |-> Idle][r] = Idle
        BY Zenon
      <4>3. QED
        BY <4>1, <4>2, Zenon
    <3>3. QED
      BY <1>1, <2>1, <3>1, <3>2 DEF Next
  <2>3. q = r
    BY <2>0, <2>1, <2>2
       DEF RequestStep, PairByPin, PairByInvite, Mint, Add, Save, Bind, SignIn, Check, Enrol,
           LookUp, BindKnown, Touch, Logout, LogoutForgets, LogoutEnds, AdminRevoke, AdminCut, RevokeAll,
           RevokeKeys, AskInvite, CreateInvite, Start, Go, Change, Forget
  <2>4. CASE PairByPin(r)
    <3>1. PICK d \in Devices, t \in Tokens : RightPin(t) /\ Start(r, "add", d, t, None)
      BY <2>4 DEF PairByPin
    <3>2. task'[r].t = t
      BY <2>0, <3>1 DEF Start, Idle
    <3>3. QED
      BY <2>0, <3>1, <3>2, RightPinIsSound
  <2>5. CASE Mint(r)
    <3>1. PICK t \in Tokens : MintSession(t) /\ task' = [task EXCEPT ![r].at = "add", ![r].t = t]
      BY <2>5 DEF Mint
    <3>2. task'[r].t = t
      BY <2>0, <3>1 DEF Task
    <3>3. QED
      BY <2>0, <3>1, <3>2, MintIsSound
  <2>6. CASE PairByInvite(r) \/ SignIn(r) \/ Logout(r) \/ RevokeAll(r) \/ AskInvite(r)
    <3>1. PICK s, d, t, c : s \in Steps /\ s # "add" /\ Start(r, s, d, t, c)
      BY <2>6 DEF PairByInvite, SignIn, Logout, RevokeAll, AskInvite, Steps
    <3>2. task'[r].at = s
      BY <2>0, <3>1 DEF Start, Idle
    <3>3. QED
      BY <1>1, <3>1, <3>2
  <2>7. CASE Add(r) \/ Enrol(r) \/ Touch(r) \/ RevokeKeys(r) \/ AdminRevoke(r) \/ LogoutForgets(r)
    <3>1. task'[r].at \in {"save", "end"}
      <4>1. ASSUME NEW list, NEW then, Change(r, list, then) PROVE task'[r].at = "save"
        BY <2>0, <4>1 DEF Change, Task
      <4>2. CASE Go(r, "end")
        BY <2>0, <4>2 DEF Go, Task
      <4>3. CASE AdminRevoke(r)
        BY <2>0, <4>3 DEF AdminRevoke, Idle
      <4>4. QED
        BY <2>7, <4>1, <4>2, <4>3 DEF Add, Enrol, Touch, RevokeKeys, LogoutForgets, Forget
    <3>2. QED
      BY <1>1, <3>1
  <2>8. CASE \/ Bind(r) \/ Check(r) \/ LookUp(r) \/ BindKnown(r) \/ LogoutEnds(r) \/ AdminCut(r)
             \/ CreateInvite(r)
    <3>1. PICK s \in {"idle", "known", "touch", "enrol"} : Go(r, s)
      BY <2>8 DEF Bind, Check, LookUp, BindKnown, LogoutEnds, AdminCut, CreateInvite
    <3>2. task'[r] = Idle \/ task'[r].at = s
      BY <2>0, <3>1 DEF Go, Task
    <3>3. QED
      BY <1>1, <2>1, <3>1, <3>2
  <2>9. CASE Save(r)
    <3>1. task[r].at = "save" /\ task[r].then # "add"
      BY <2>0, <2>9 DEF Save, At
    <3>2. task'[r] = Idle \/ task'[r].at = task[r].then
      BY <2>0, <2>9 DEF Save, Task
    <3>3. QED
      BY <1>1, <2>1, <3>1, <3>2
  <2>10. QED
    BY <2>2, <2>3, <2>4, <2>5, <2>6, <2>7, <2>8, <2>9 DEF RequestStep
<1>2. TrustInv /\ [Next]_vars =>
        [\A r \in Requests :
           task'[r].at = "add" /\ task[r].at # "add" => task'[r].t \in store'.tokens]_vars
  BY <1>1
<1>3. QED
  BY <1>2, TrustAlways, PTL DEF Spec, NewcomerStays
=============================================================================
