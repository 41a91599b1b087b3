------------------------- MODULE RelayServerProofs -------------------------
(* Theorems about RelayServer, for every capacity, every number of keys and *)
(* every set of connections and secrets.                                    *)
EXTENDS RelayServer, FiniteSetTheorems, FunctionTheorems, SequenceTheorems, TLAPS

\* The handlers' positions, as the proofs use them.
LEMMA RelayPcFound ==
    ASSUME relayPc \in RelayPcs, relayPc.at = "found"
    PROVE  /\ relayPc.conn \in Conns
           /\ relayPc.key \in KeyIds
           /\ relayPc.secret \in Secrets \union {NoSecret}
BY DEF RelayPcs, At

LEMMA RouterPcAdding ==
    ASSUME routerPc \in RouterPcs, routerPc.at = "add"
    PROVE  /\ routerPc.left \in 1 .. MaxPeerCount
           /\ routerPc.batch \subseteq KeyIds
BY DEF RouterPcs, At

LEMMA FoundIsRelayPc ==
    ASSUME NEW c \in Conns, NEW k \in KeyIds, NEW s \in Secrets \union {NoSecret}
    PROVE  Found(c, k, s) \in RelayPcs
BY DEF RelayPcs, Found

LEMMA AddingIsRouterPc ==
    ASSUME NEW n \in 1 .. MaxPeerCount, NEW b \in SUBSET KeyIds
    PROVE  Adding(n, b) \in RouterPcs
BY DEF RouterPcs, Adding

\* The pool is a finite set: it only ever holds identifiers already counted.
LEMMA PoolFinite ==
    ASSUME NEW S \in SUBSET KeyIds
    PROVE  IsFiniteSet(S) /\ Cardinality(S) \in Nat
<1>1. IsFiniteSet(KeyIds)
  BY FS_Interval, KeysAssumption DEF KeyIds
<1>2. IsFiniteSet(S)
  BY <1>1, FS_Subset
<1> QED
  BY <1>2, FS_CardinalityType
LEMMA EmitType ==
    ASSUME TypeOK, NEW sig \in {"ready", "started", "finished"}, Emit(sig)
    PROVE  signals' \in Seq({"ready", "started", "finished"})
BY DEF TypeOK, Emit

LEMMA DropPendingType ==
    ASSUME TypeOK, NEW gone, DropPending(gone)
    PROVE  pending' \subseteq Conns /\ ident' \in [Conns -> Idents]
BY DEF TypeOK, DropPending, Idents

\* Every step keeps every variable in its type.
LEMMA TypeStep == ASSUME TypeOK, [Next]_vars PROVE TypeOK'
<1> USE CapacityAssumption, KeysAssumption
<1> SUFFICES ASSUME Next PROVE TypeOK'
  BY DEF TypeOK, vars
<1>1. CASE OnStart
  <2>1. signals' \in Seq({"ready", "started", "finished"})
    BY <1>1, EmitType DEF OnStart
  <2> QED
    BY <1>1, <2>1 DEF OnStart, TypeOK, RelayPcs, poolVars, routerVars
<1>2. ASSUME NEW c \in Conns, Accept(c) PROVE TypeOK'
  BY <1>2 DEF Accept, TypeOK, poolVars, routerVars
<1>3. ASSUME NEW c \in Conns, OnPendingSessionFailed(c) \/ PendingExpired(c)
      PROVE TypeOK'
  <2>1. DropPending({c})
    BY <1>3 DEF OnPendingSessionFailed, PendingExpired
  <2>2. UNCHANGED <<keys, key_counter, relayPc, pairings, active, commands, signals, routerPc,
                    session_count, key_deadlines, shortfall, channel, announced, used_msgs, offered,
                    stopping>>
    BY <1>3 DEF OnPendingSessionFailed, PendingExpired, poolVars, routerVars
  <2> QED
    BY <2>1, <2>2, DropPendingType DEF TypeOK
<1>4. ASSUME NEW c \in Conns, NEW k \in KeyIds, NEW s \in Secrets \union {NoSecret},
             FindKey(c, k, s)
      PROVE TypeOK'
  <2>1. pending' \subseteq Conns /\ ident' \in [Conns -> Idents]
    BY <1>4, DropPendingType DEF FindKey, TypeOK
  <2>2. relayPc' \in RelayPcs
    BY <1>4, FoundIsRelayPc DEF FindKey, TypeOK
  <2> QED
    BY <1>4, <2>1, <2>2 DEF FindKey, TypeOK, poolVars, routerVars
<1>5. CASE RejectSecret
  <2>1. pending' \subseteq Conns /\ ident' \in [Conns -> Idents]
    BY <1>5, DropPendingType DEF RejectSecret
  <2> QED
    BY <1>5, <2>1 DEF RejectSecret, TypeOK, RelayPcs, poolVars, routerVars
<1>6. CASE AwaitPartner
  <2>1. relayPc.conn \in Conns /\ Identity \in Idents
    BY <1>6, RelayPcFound DEF AwaitPartner, SecretDecrypted, Identity, Idents, TypeOK
  <2>2. ident' \in [Conns -> Idents]
    BY <1>6, <2>1 DEF AwaitPartner, TypeOK
  <2> QED
    BY <1>6, <2>2 DEF AwaitPartner, TypeOK, RelayPcs, poolVars, routerVars
<1>7. ASSUME NEW other \in Conns, PairPeers(other) PROVE TypeOK'
  <2>1. pending' \subseteq Conns /\ ident' \in [Conns -> Idents]
    BY <1>7, DropPendingType DEF PairPeers, Remove
  <2>2. signals' \in Seq({"ready", "started", "finished"})
    BY <1>7, EmitType DEF PairPeers, Remove
  <2>3. pairings' \in Seq(KeyIds) /\ active' \subseteq 1 .. Len(pairings')
    <3>1. relayPc.key \in KeyIds
      BY <1>7, RelayPcFound DEF PairPeers, Remove, SecretDecrypted, TypeOK
    <3>2. pairings \in Seq(KeyIds) /\ active \subseteq 1 .. Len(pairings)
      BY DEF TypeOK
    <3>3. /\ pairings' = Append(pairings, relayPc.key)
          /\ active' = active \union {Len(pairings) + 1}
      BY <1>7 DEF PairPeers, Remove
    <3>4. pairings' \in Seq(KeyIds) /\ Len(pairings') = Len(pairings) + 1
      BY <3>1, <3>2, <3>3
    <3>5. Len(pairings) \in Nat
      BY <3>2
    <3>6. ASSUME NEW x \in active' PROVE x \in 1 .. Len(pairings) + 1
      <4>1. x \in active \/ x = Len(pairings) + 1
        BY <3>3, <3>6
      <4>2. ASSUME NEW n \in Nat, x \in 1 .. n \/ x = n + 1 PROVE x \in 1 .. n + 1
        BY <4>2
      <4>3. x \in 1 .. Len(pairings) \/ x = Len(pairings) + 1
        BY <4>1, <3>2
      <4> QED
        BY <4>2, <4>3, <3>5
    <3> QED
      BY <3>4, <3>6
  <2> QED
    BY <1>7, <2>1, <2>2, <2>3 DEF PairPeers, Remove, TypeOK, RelayPcs, poolVars, routerVars
<1>8. ASSUME NEW s \in active, OnSessionFinished(s) PROVE TypeOK'
  <2>1. signals' \in Seq({"ready", "started", "finished"})
    BY <1>8, EmitType DEF OnSessionFinished, RemoveSession
  <2> QED
    BY <1>8, <2>1 DEF OnSessionFinished, RemoveSession, TypeOK, poolVars, routerVars
<1>9. CASE OnDisconnectSession
  <2>1. signals' \in Seq({"ready", "started", "finished"})
    BY <1>9, EmitType DEF OnDisconnectSession, RemoveSession, TypeOK
  <2>2. commands' \in Seq(Nat)
    BY <1>9 DEF OnDisconnectSession, TypeOK
  <2>3. active' \subseteq 1 .. Len(pairings)
    BY <1>9 DEF OnDisconnectSession, RemoveSession, TypeOK
  <2> QED
    BY <1>9, <2>1, <2>2, <2>3 DEF OnDisconnectSession, TypeOK, poolVars, routerVars
<1>10. CASE StopRelay
  <2>1. pending' \subseteq Conns /\ ident' \in [Conns -> Idents]
    BY <1>10, DropPendingType DEF StopRelay, Clear
  <2> QED
    BY <1>10, <2>1 DEF StopRelay, Clear, TypeOK, RelayPcs, poolVars, routerVars
<1>11. CASE OnReady
  BY <1>11 DEF OnReady, TypeOK, poolVars, relayVars
<1>12. CASE OnSessionStarted
  BY <1>12 DEF OnSessionStarted, TypeOK, poolVars, relayVars
<1>13. CASE SessionFinishedSignal
  BY <1>13 DEF SessionFinishedSignal, StartRefresh, TypeOK, RouterPcs, poolVars, relayVars
<1>14. CASE OnTcpConnected
  BY <1>14 DEF OnTcpConnected, StartRefresh, TypeOK, RouterPcs, poolVars, relayVars
<1>15. CASE OnTcpErrorOccurred
  BY <1>15 DEF OnTcpErrorOccurred, Clear, TypeOK, relayVars
<1>16. CASE Reconnect
  BY <1>16 DEF Reconnect, TypeOK, poolVars, relayVars
<1>17. ASSUME NEW k \in KeyIds, OnKeyUsed(k) \/ HandOutKey(k) PROVE TypeOK'
  BY <1>17 DEF OnKeyUsed, HandOutKey, TypeOK, poolVars, relayVars
<1>18. ASSUME NEW id \in 1 .. Len(pairings), OnPeerRequest(id) PROVE TypeOK'
  <2>1. commands' \in Seq(Nat)
    BY <1>18 DEF OnPeerRequest, TypeOK
  <2> QED
    BY <1>18, <2>1 DEF OnPeerRequest, TypeOK, poolVars, relayVars, routerVars
<1>19. ASSUME NEW k \in KeyIds, ExpireKey(k) PROVE TypeOK'
  BY <1>19 DEF ExpireKey, Replace, Remove, StartRefresh, TypeOK, RouterPcs, relayVars
<1>20. CASE CountKeys
  <2>1. Cardinality(keys) \in Nat
    BY PoolFinite DEF TypeOK
  <2>2. routerPc' \in RouterPcs
    <3>1. CASE Busy >= MaxPeerCount
      BY <1>20, <3>1 DEF CountKeys, RouterPcs
    <3>2. CASE ~ (Busy >= MaxPeerCount)
      <4>1. MaxPeerCount - Busy \in 1 .. MaxPeerCount
        BY <2>1, <3>2 DEF Busy, TypeOK
      <4>2. routerPc' = Adding(MaxPeerCount - Busy, {})
        BY <1>20, <3>2 DEF CountKeys
      <4> QED
        BY <4>1, <4>2, AddingIsRouterPc
    <3> QED
      BY <3>1, <3>2
  <2> QED
    BY <1>20, <2>2 DEF CountKeys, TypeOK, poolVars, relayVars
<1>21. CASE AddKey
  <2>1. /\ routerPc.left \in 1 .. MaxPeerCount
        /\ routerPc.batch \subseteq KeyIds
        /\ key_counter \in KeyIds
    BY <1>21, RouterPcAdding DEF AddKey, Add, TypeOK, KeyIds
  <2>2. keys' \subseteq KeyIds /\ key_counter' \in 0 .. MaxKeys
    <3>1. keys \subseteq KeyIds /\ key_counter \in 0 .. MaxKeys
      BY DEF TypeOK
    <3>2. keys' = keys \union {key_counter}
      BY <1>21 DEF AddKey, Add
    <3>3. key_counter' = key_counter + 1 /\ key_counter < MaxKeys
      BY <1>21 DEF AddKey, Add
    <3> QED
      BY <2>1, <3>1, <3>2, <3>3
  <2> DEFINE batch == routerPc.batch \union {key_counter}
  <2>3. routerPc' \in RouterPcs /\ announced' \subseteq KeyIds
    <3>1. CASE routerPc.left = 1 /\ Announce(batch)
      BY <2>1, <3>1 DEF Announce, TypeOK, RouterPcs
    <3>2. CASE /\ routerPc.left > 1
               /\ routerPc' = Adding(routerPc.left - 1, batch)
               /\ UNCHANGED announced
      <4>1. routerPc.left - 1 \in 1 .. MaxPeerCount /\ batch \in SUBSET KeyIds
        BY <2>1, <3>2
      <4> HIDE DEF batch
      <4> QED
        BY <3>2, <4>1, AddingIsRouterPc DEF TypeOK
    <3> QED
      BY <1>21, <3>1, <3>2 DEF AddKey, Add
  <2> QED
    BY <1>21, <2>2, <2>3 DEF AddKey, Add, TypeOK, relayVars
<1>22. CASE CreateKeyFails
  <2>1. routerPc.batch \subseteq KeyIds /\ shortfall' \in 0 .. MaxPeerCount
    BY <1>22, RouterPcAdding DEF CreateKeyFails, TypeOK
  <2> QED
    BY <1>22, <2>1 DEF CreateKeyFails, Announce, TypeOK, RouterPcs, poolVars, relayVars
<1>23. CASE StopRouter
  BY <1>23 DEF StopRouter, TypeOK, RouterPcs, poolVars, relayVars
<1>24. CASE ShutDown
  BY <1>24 DEF ShutDown, TypeOK, poolVars, relayVars, routerVars
<1>25. CASE Exited
  BY <1>25 DEF Exited, vars, TypeOK
<1> QED
  BY <1>1, <1>2, <1>3, <1>4, <1>5, <1>6, <1>7, <1>8, <1>9, <1>10, <1>11, <1>12, <1>13,
     <1>14, <1>15, <1>16, <1>17, <1>18, <1>19, <1>20, <1>21, <1>22, <1>23, <1>24, <1>25
     DEF Next, RelayNext, RouterNext

\* Type correctness of the whole process.
THEOREM TypeCorrect == Spec => []TypeOK
<1>1. Init => TypeOK
  <2> SUFFICES ASSUME Init PROVE TypeOK
    OBVIOUS
  <2>1. ident \in [Conns -> Idents]
    BY DEF Init, Idents
  <2>2. relayPc \in RelayPcs /\ routerPc \in RouterPcs
    BY DEF Init, RelayPcs, RouterPcs
  <2>3. /\ pairings \in Seq(KeyIds) /\ commands \in Seq(Nat)
        /\ signals \in Seq({"ready", "started", "finished"})
    BY DEF Init
  <2>4. key_counter \in 0 .. MaxKeys /\ session_count \in Nat /\ shortfall \in 0 .. MaxPeerCount
    BY KeysAssumption, CapacityAssumption DEF Init
  <2>5. /\ keys \subseteq KeyIds /\ pending \subseteq Conns
        /\ active \subseteq 1 .. Len(pairings)
        /\ key_deadlines \subseteq KeyIds /\ announced \subseteq KeyIds
        /\ offered \subseteq KeyIds /\ used_msgs \subseteq KeyIds
    BY DEF Init
  <2>6. channel \in {"none", "connecting", "online", "backoff"} /\ stopping \in BOOLEAN
    BY DEF Init
  <2> QED
    BY <2>1, <2>2, <2>3, <2>4, <2>5, <2>6 DEF TypeOK
<1>2. TypeOK /\ [Next]_vars => TypeOK'
  BY TypeStep
<1> QED
  BY <1>1, <1>2, PTL DEF Spec
----------------------------------------------------------------------------
(* A key pairs at most once.                                               *)

\* OneTimeKey is not inductive: a step may pair the key it holds, so the held key
\* must be unpaired although the router thread may have removed it meanwhile; and a
\* held key was taken from the pool, whose keys were never paired.
KeyInv ==
    /\ \A k \in keys : k < key_counter
    /\ \A i \in DOMAIN pairings : pairings[i] < key_counter /\ pairings[i] \notin keys
    /\ \A k \in Held : k < key_counter /\ \A i \in DOMAIN pairings : pairings[i] # k
    /\ OneTimeKey

\* What most handlers do to the keys: remove some, or pick one of the pool.
LEMMA KeyInvKept ==
    ASSUME KeyInv, keys' \subseteq keys, UNCHANGED <<key_counter, pairings>>,
           Held' \subseteq Held \union keys
    PROVE  KeyInv'
<1>1. \A k \in keys' : k < key_counter'
  BY DEF KeyInv
<1>2. \A i \in DOMAIN pairings' : pairings'[i] < key_counter' /\ pairings'[i] \notin keys'
  BY DEF KeyInv
<1>3. \A k \in Held' : k < key_counter' /\ \A i \in DOMAIN pairings' : pairings'[i] # k
  BY DEF KeyInv
<1>4. OneTimeKey'
  BY DEF KeyInv, OneTimeKey
<1> QED
  BY <1>1, <1>2, <1>3, <1>4 DEF KeyInv

LEMMA HeldNothing ==
    ASSUME NEW p \in {"starting", "idle", "stopped"}, relayPc' = At(p)
    PROVE  Held' = {}
BY DEF Held, At

LEMMA PairPeersKeyInv ==
    ASSUME TypeOK, KeyInv, NEW other \in Conns, PairPeers(other)
    PROVE  KeyInv'
<1> DEFINE k == relayPc.key
<1>1. k \in KeyIds /\ k \in Held
  BY RelayPcFound DEF PairPeers, Remove, SecretDecrypted, TypeOK, Held
<1>2. Held' = {}
  BY HeldNothing DEF PairPeers, Remove
<1>3. /\ pairings \in Seq(KeyIds) /\ pairings' = Append(pairings, k)
      /\ keys' = keys \ {k} /\ key_counter' = key_counter
  BY DEF PairPeers, Remove, TypeOK
<1> HIDE DEF k
<1>4. /\ DOMAIN pairings' = DOMAIN pairings \union {Len(pairings) + 1}
      /\ Len(pairings) + 1 \notin DOMAIN pairings
      /\ pairings'[Len(pairings) + 1] = k
      /\ \A i \in DOMAIN pairings : pairings'[i] = pairings[i]
  BY <1>1, <1>3
<1>5. k < key_counter /\ \A i \in DOMAIN pairings : pairings[i] # k
  BY <1>1 DEF KeyInv
<1>6. \A i \in DOMAIN pairings' : pairings'[i] < key_counter' /\ pairings'[i] \notin keys'
  BY <1>3, <1>4, <1>5 DEF KeyInv
<1>7. OneTimeKey'
  BY <1>4, <1>5 DEF KeyInv, OneTimeKey
<1>8. \A j \in keys' : j < key_counter'
  BY <1>3 DEF KeyInv
<1> QED
  BY <1>2, <1>6, <1>7, <1>8 DEF KeyInv

LEMMA AddKeyKeyInv == ASSUME TypeOK, KeyInv, AddKey PROVE KeyInv'
<1>1. /\ keys' = keys \union {key_counter} /\ key_counter' = key_counter + 1
      /\ UNCHANGED <<pairings, relayPc>>
  BY DEF AddKey, Add, relayVars
<1>2. /\ key_counter \in Nat /\ keys \subseteq Nat /\ Held \subseteq Nat
      /\ \A i \in DOMAIN pairings : pairings[i] \in Nat
  <2>1. KeyIds \subseteq Nat
    BY KeysAssumption DEF KeyIds
  <2>2. Held \subseteq KeyIds
    BY RelayPcFound DEF Held, TypeOK
  <2>3. \A i \in DOMAIN pairings : pairings[i] \in KeyIds
    BY DEF TypeOK
  <2>4. key_counter \in Nat
    BY KeysAssumption DEF TypeOK
  <2>5. keys \subseteq KeyIds
    BY DEF TypeOK
  <2> QED
    BY <2>1, <2>2, <2>3, <2>4, <2>5
<1>3. Held' = Held
  BY <1>1 DEF Held
<1>4. \A k \in keys' : k < key_counter'
  BY <1>1, <1>2 DEF KeyInv
<1>5. \A i \in DOMAIN pairings' : pairings'[i] < key_counter' /\ pairings'[i] \notin keys'
  BY <1>1, <1>2 DEF KeyInv
<1>6. \A k \in Held' : k < key_counter' /\ \A i \in DOMAIN pairings' : pairings'[i] # k
  BY <1>1, <1>2, <1>3 DEF KeyInv
<1>7. OneTimeKey'
  BY <1>1 DEF KeyInv, OneTimeKey
<1> QED
  BY <1>4, <1>5, <1>6, <1>7 DEF KeyInv

\* The three things a step can do to the keys.
KeepsKeys ==
    /\ keys' \subseteq keys
    /\ Held' \subseteq Held \union keys
    /\ UNCHANGED <<key_counter, pairings>>

LEMMA KeyStepKinds ==
    ASSUME [Next]_vars
    PROVE  AddKey \/ (\E other \in Conns : PairPeers(other)) \/ KeepsKeys
<1>1. ASSUME NEW c \in Conns, NEW k \in KeyIds, NEW s \in Secrets \union {NoSecret},
             FindKey(c, k, s)
      PROVE KeepsKeys
  <2>1. Held' \subseteq Held \union keys
    BY <1>1 DEF FindKey, Held, Found
  <2> QED
    BY <1>1, <2>1 DEF KeepsKeys, FindKey, poolVars
<1>2. CASE OnStart \/ RejectSecret \/ AwaitPartner \/ StopRelay
  <2>1. Held' = {}
    BY <1>2, HeldNothing DEF OnStart, RejectSecret, AwaitPartner, StopRelay, Clear
  <2>2. keys' \subseteq keys /\ UNCHANGED <<key_counter, pairings>>
    BY <1>2 DEF OnStart, RejectSecret, AwaitPartner, StopRelay, Clear, poolVars
  <2> QED
    BY <2>1, <2>2 DEF KeepsKeys
<1>3. ASSUME keys' \subseteq keys, UNCHANGED <<key_counter, pairings, relayPc>>
      PROVE  KeepsKeys
  BY <1>3 DEF Held, KeepsKeys
<1>4. ASSUME NEW c \in Conns, Accept(c) \/ OnPendingSessionFailed(c) \/ PendingExpired(c)
      PROVE  KeepsKeys
  BY <1>3, <1>4 DEF Accept, OnPendingSessionFailed, PendingExpired, poolVars
<1>5. ASSUME NEW s \in active, OnSessionFinished(s) PROVE KeepsKeys
  BY <1>3, <1>5 DEF OnSessionFinished, poolVars
<1>6. CASE OnDisconnectSession
  BY <1>3, <1>6 DEF OnDisconnectSession, poolVars
<1>7. CASE OnReady \/ OnSessionStarted \/ SessionFinishedSignal \/ OnTcpConnected \/ Reconnect
  BY <1>3, <1>7 DEF OnReady, OnSessionStarted, SessionFinishedSignal, OnTcpConnected, Reconnect,
                    poolVars, relayVars
<1>8. CASE OnTcpErrorOccurred
  BY <1>3, <1>8 DEF OnTcpErrorOccurred, Clear, relayVars
<1>9. ASSUME NEW k \in KeyIds, OnKeyUsed(k) \/ HandOutKey(k) \/ ExpireKey(k)
       PROVE  KeepsKeys
  BY <1>3, <1>9 DEF OnKeyUsed, HandOutKey, ExpireKey, Replace, Remove, poolVars, relayVars
<1>10. ASSUME NEW id \in 1 .. Len(pairings), OnPeerRequest(id) PROVE KeepsKeys
  BY <1>3, <1>10 DEF OnPeerRequest, poolVars, relayVars
<1>11. CASE CountKeys \/ CreateKeyFails \/ StopRouter \/ ShutDown
  BY <1>3, <1>11 DEF CountKeys, CreateKeyFails, StopRouter, ShutDown, poolVars, relayVars
<1>12. CASE UNCHANGED vars
  BY <1>3, <1>12 DEF vars
<1> QED
  BY <1>1, <1>2, <1>4, <1>5, <1>6, <1>7, <1>8, <1>9, <1>10, <1>11, <1>12
     DEF Next, RelayNext, RouterNext, Exited

LEMMA KeyStep == ASSUME TypeOK, KeyInv, [Next]_vars PROVE KeyInv'
BY KeyStepKinds, PairPeersKeyInv, AddKeyKeyInv, KeyInvKept DEF KeepsKeys

\* The inductive invariant holds, and so a key joins at most one pair of peers, in
\* every interleaving of the two threads.
LEMMA KeyInvHolds == Spec => []KeyInv
<1>1. Init => KeyInv
  BY DEF Init, KeyInv, Held, At, OneTimeKey
<1>2. TypeOK /\ KeyInv /\ [Next]_vars => KeyInv'
  BY KeyStep
<1> QED
  BY <1>1, <1>2, TypeCorrect, PTL DEF Spec

\* A key joins at most one pair of peers, however find, expiry, loss of the router
\* and refill interleave.
THEOREM KeysPairOnce == Spec => []OneTimeKey
<1>1. KeyInv => OneTimeKey
  BY DEF KeyInv
<1> QED
  BY <1>1, KeyInvHolds, PTL

----------------------------------------------------------------------------
(* The relay implements OneTimeKeys.                                       *)

\* Removing keys, and holding keys of the pool, is a withdrawal or a stutter.
LEMMA KeepsKeysWithdraws ==
    ASSUME TypeOK, KeyInv, KeepsKeys
    PROVE  \E gone \in SUBSET KeyIds : Abstract!Withdraw(gone)
<1> DEFINE live == keys \union Held
           gone == live \ (keys' \union Held')
<1>1. live \subseteq KeyIds
  BY RelayPcFound DEF TypeOK, Held
<1>2. keys' \union Held' \subseteq live
  BY DEF KeepsKeys
<1>3. \A k \in live : k < key_counter
  BY DEF KeyInv
<1>4. \A k \in KeyIds : KeyStatus(k)' = IF k \in gone THEN "dead" ELSE KeyStatus(k)
  BY <1>2, <1>3 DEF KeyStatus, KeepsKeys
<1>5. \A k \in gone : KeyStatus(k) = "live"
  BY DEF KeyStatus
<1>6. Abstract!Withdraw(gone)
  BY <1>1, <1>4, <1>5 DEF Abstract!Withdraw, KeepsKeys
<1> QED
  BY <1>1, <1>6

LEMMA PairPeersPairs ==
    ASSUME TypeOK, KeyInv, NEW other \in Conns, PairPeers(other)
    PROVE  \E k \in KeyIds : Abstract!Pair(k)
<1> DEFINE key == relayPc.key
<1>1. key \in KeyIds /\ Held = {key}
  BY RelayPcFound DEF PairPeers, Remove, SecretDecrypted, TypeOK, Held
<1>2. Held' = {} /\ keys' = keys \ {key} /\ key_counter' = key_counter
  BY HeldNothing DEF PairPeers, Remove
<1>3. KeyStatus(key) = "live" /\ key < key_counter
  BY <1>1 DEF KeyStatus, KeyInv
<1>4. \A k \in KeyIds : KeyStatus(k)' = IF k = key THEN "dead" ELSE KeyStatus(k)
  BY <1>1, <1>2, <1>3 DEF KeyStatus
<1>5. Abstract!Pair(key)
  BY <1>1, <1>3, <1>4 DEF Abstract!Pair, PairPeers, Remove
<1> QED
  BY <1>1, <1>5

LEMMA AddKeyMints ==
    ASSUME TypeOK, KeyInv, AddKey
    PROVE  \E k \in KeyIds : Abstract!Mint(k)
<1>1. key_counter \in KeyIds /\ KeyIds \subseteq Nat
  BY KeysAssumption DEF AddKey, Add, TypeOK, KeyIds
<1>2. /\ keys' = keys \union {key_counter} /\ key_counter' = key_counter + 1
      /\ UNCHANGED <<pairings, relayPc>>
  BY DEF AddKey, Add, relayVars
<1>3. Held' = Held /\ key_counter \notin keys \union Held
  BY <1>1, <1>2 DEF Held, KeyInv
<1>4. KeyStatus(key_counter) = "unborn"
  BY <1>1, <1>3 DEF KeyStatus
<1>5. \A k \in KeyIds : KeyStatus(k)' = IF k = key_counter THEN "live" ELSE KeyStatus(k)
  <2> SUFFICES ASSUME NEW k \in KeyIds
               PROVE  KeyStatus(k)' = IF k = key_counter THEN "live" ELSE KeyStatus(k)
    OBVIOUS
  <2>1. CASE k = key_counter
    BY <1>2, <2>1 DEF KeyStatus
  <2>2. CASE k # key_counter
    <3>1. k < key_counter' <=> k < key_counter
      BY <1>1, <1>2, <2>2
    <3> QED
      BY <1>2, <1>3, <2>2, <3>1 DEF KeyStatus
  <2> QED
    BY <2>1, <2>2
<1>6. Abstract!Mint(key_counter)
  BY <1>1, <1>2, <1>4, <1>5 DEF Abstract!Mint
<1> QED
  BY <1>1, <1>6

\* Every behaviour of the relay is, for its keys, a behaviour of OneTimeKeys.
THEOREM RelayImplementsOneTimeKeys == Spec => ImplementsOneTimeKeys
<1>1. Init => Abstract!Init
  <2> SUFFICES ASSUME Init PROVE Abstract!Init
    OBVIOUS
  <2>1. \A k \in KeyIds : KeyStatus(k) = "unborn"
    BY KeysAssumption DEF Init, KeyStatus, Held, At, KeyIds
  <2> QED
    BY <2>1 DEF Abstract!Init, Init
<1>2. TypeOK /\ KeyInv /\ [Next]_vars => [Abstract!Next]_(Abstract!vars)
  BY KeyStepKinds, KeepsKeysWithdraws, PairPeersPairs, AddKeyMints DEF Abstract!Next
<1> QED
  BY <1>1, <1>2, TypeCorrect, KeyInvHolds, PTL DEF Spec, ImplementsOneTimeKeys, Abstract!Spec

----------------------------------------------------------------------------
(* What one thread leaves alone.                                           *)

\* The relay thread only ever takes keys out of the pool.
LEMMA RelayStep ==
    ASSUME RelayNext
    PROVE  keys' \subseteq keys /\ UNCHANGED routerVars
<1>1. CASE OnStart \/ RejectSecret \/ AwaitPartner \/ OnDisconnectSession \/ StopRelay
  BY <1>1 DEF OnStart, RejectSecret, AwaitPartner, OnDisconnectSession, StopRelay, Clear, poolVars
<1>2. ASSUME NEW c \in Conns, Accept(c) \/ OnPendingSessionFailed(c) \/ PendingExpired(c)
                               \/ PairPeers(c)
      PROVE  keys' \subseteq keys /\ UNCHANGED routerVars
  BY <1>2 DEF Accept, OnPendingSessionFailed, PendingExpired, PairPeers, Remove, poolVars
<1>3. ASSUME NEW c \in Conns, NEW k \in KeyIds, NEW s \in Secrets \union {NoSecret},
             FindKey(c, k, s)
      PROVE  keys' \subseteq keys /\ UNCHANGED routerVars
  BY <1>3 DEF FindKey, poolVars
<1>4. ASSUME NEW s \in active, OnSessionFinished(s)
      PROVE  keys' \subseteq keys /\ UNCHANGED routerVars
  BY <1>4 DEF OnSessionFinished, poolVars
<1> QED
  BY <1>1, <1>2, <1>3, <1>4 DEF RelayNext

\* The router thread, the router and the shutdown leave the peers alone.
LEMMA RouterStep ==
    ASSUME [Next]_vars, ~ RelayNext
    PROVE  UNCHANGED relayVars
<1>1. CASE OnReady \/ OnSessionStarted \/ SessionFinishedSignal \/ OnTcpConnected
           \/ OnTcpErrorOccurred \/ Reconnect \/ CountKeys \/ AddKey \/ CreateKeyFails
           \/ StopRouter \/ ShutDown
  BY <1>1 DEF OnReady, OnSessionStarted, SessionFinishedSignal, OnTcpConnected,
              OnTcpErrorOccurred, Clear, Reconnect, CountKeys, AddKey, Add, CreateKeyFails, StopRouter, ShutDown
<1>2. ASSUME NEW k \in KeyIds, OnKeyUsed(k) \/ HandOutKey(k) \/ ExpireKey(k)
      PROVE  UNCHANGED relayVars
  BY <1>2 DEF OnKeyUsed, HandOutKey, ExpireKey, Replace, Remove
<1>3. ASSUME NEW id \in 1 .. Len(pairings), OnPeerRequest(id)
      PROVE  UNCHANGED relayVars
  BY <1>3 DEF OnPeerRequest
<1>4. CASE UNCHANGED vars
  BY <1>4 DEF vars, relayVars
<1> QED
  BY <1>1, <1>2, <1>3, <1>4 DEF Next, RouterNext, Exited

----------------------------------------------------------------------------
(* No key is forgotten in the pool.                                        *)

LEMMA NotAdding ==
    ASSUME NEW p \in {"idle", "count", "stopped"}, routerPc' = At(p)
    PROVE  Batch' = {} /\ Missing' = 0
BY DEF Batch, Missing, At

LEMMA NotAddingNow ==
    ASSUME NEW p \in {"idle", "count", "stopped"}, routerPc = At(p)
    PROVE  Batch = {} /\ Missing = 0
BY DEF Batch, Missing, At

LEMMA StartRefreshNotAdding ==
    ASSUME StartRefresh PROVE Batch' = {} /\ Missing' = 0
BY NotAdding DEF StartRefresh

LEMMA StrandedStep == ASSUME NoStrandedKey, [Next]_vars PROVE NoStrandedKey'
<1>1. CASE RelayNext
  BY <1>1, RelayStep DEF NoStrandedKey, Batch, routerVars
<1>2. CASE OnReady \/ OnSessionStarted \/ Reconnect
  BY <1>2 DEF OnReady, OnSessionStarted, Reconnect, NoStrandedKey, Batch, poolVars
<1>3. CASE SessionFinishedSignal \/ OnTcpConnected
  <2>1. Batch = {}
    BY <1>3, NotAddingNow DEF SessionFinishedSignal, OnTcpConnected, RouterIdle
  <2> QED
    BY <1>3, <2>1 DEF SessionFinishedSignal, OnTcpConnected, NoStrandedKey, poolVars
<1>4. CASE OnTcpErrorOccurred
  BY <1>4 DEF OnTcpErrorOccurred, Clear, NoStrandedKey
<1>5. ASSUME NEW k \in KeyIds, OnKeyUsed(k) \/ HandOutKey(k) PROVE NoStrandedKey'
  BY <1>5 DEF OnKeyUsed, HandOutKey, NoStrandedKey, Batch, poolVars
<1>6. ASSUME NEW k \in KeyIds, ExpireKey(k) PROVE NoStrandedKey'
  <2>1. Batch = {}
    BY <1>6, NotAddingNow DEF ExpireKey, Replace, Remove, RouterIdle
  <2> QED
    BY <1>6, <2>1 DEF ExpireKey, Replace, Remove, NoStrandedKey
<1>7. ASSUME NEW id \in 1 .. Len(pairings), OnPeerRequest(id) PROVE NoStrandedKey'
  BY <1>7 DEF OnPeerRequest, NoStrandedKey, Batch, poolVars, routerVars
<1>8. CASE CountKeys
  <2>1. Batch = {}
    BY <1>8, NotAddingNow DEF CountKeys
  <2> QED
    BY <1>8, <2>1 DEF CountKeys, NoStrandedKey, poolVars
<1>9. CASE AddKey
  <2> DEFINE batch == routerPc.batch \union {key_counter}
  <2>1. Batch = routerPc.batch
    BY <1>9 DEF AddKey, Add, Batch
  <2>2. batch \subseteq announced' \union Batch' /\ announced \subseteq announced'
    <3>1. CASE Announce(batch)
      BY <3>1 DEF Announce
    <3>2. CASE routerPc' = Adding(routerPc.left - 1, batch) /\ UNCHANGED announced
      BY <3>2 DEF Adding, Batch
    <3> QED
      BY <1>9, <3>1, <3>2 DEF AddKey, Add
  <2>3. keys' = keys \union {key_counter} /\ UNCHANGED <<used_msgs, key_deadlines>>
    BY <1>9 DEF AddKey, Add
  <2> QED
    BY <2>1, <2>2, <2>3 DEF NoStrandedKey
<1>10. CASE CreateKeyFails
  BY <1>10 DEF CreateKeyFails, Announce, NoStrandedKey, Batch, poolVars
<1>11. CASE StopRouter
  <2>1. Batch = {}
    BY <1>11, NotAddingNow DEF StopRouter, RouterIdle
  <2> QED
    BY <1>11, <2>1 DEF StopRouter, NoStrandedKey, poolVars
<1>12. CASE ShutDown
  BY <1>12 DEF ShutDown, NoStrandedKey, Batch, poolVars, routerVars
<1>13. CASE UNCHANGED vars
  BY <1>13 DEF vars, NoStrandedKey, Batch
<1> QED
  BY <1>1, <1>2, <1>3, <1>4, <1>5, <1>6, <1>7, <1>8, <1>9, <1>10, <1>11, <1>12, <1>13
     DEF Next, RouterNext, Exited

\* Every key of the pool is known to the router, or on its way there, or has a
\* deadline running: whatever is interrupted, the pool holds no dead slot.
THEOREM KeysNeverStranded == Spec => []NoStrandedKey
<1>1. Init => NoStrandedKey
  BY DEF Init, NoStrandedKey
<1> QED
  BY <1>1, StrandedStep, PTL DEF Spec
----------------------------------------------------------------------------
(* The pool never outgrows the capacity.                                   *)

\* What refreshKeyPool has decided to add was free when it read the pool, and the
\* relay thread can only have made more room since.
PoolInv == Cardinality(keys) + Missing <= MaxPeerCount

LEMMA PoolShrinks ==
    ASSUME TypeOK, PoolInv, keys' \subseteq keys, Missing' = Missing \/ Missing' = 0
    PROVE  PoolInv'
<1>1. IsFiniteSet(keys) /\ Cardinality(keys) \in Nat
  BY PoolFinite DEF TypeOK
<1>2. Cardinality(keys') <= Cardinality(keys) /\ Cardinality(keys') \in Nat
  BY <1>1, FS_Subset, FS_CardinalityType
<1>3. Missing \in Nat
  BY RouterPcAdding DEF Missing, TypeOK
<1> QED
  BY <1>1, <1>2, <1>3, CapacityAssumption DEF PoolInv

LEMMA CountKeysPoolInv == ASSUME TypeOK, PoolInv, CountKeys PROVE PoolInv'
<1>1. keys' = keys /\ Cardinality(keys) \in Nat /\ session_count \in Nat
  BY PoolFinite DEF CountKeys, poolVars, TypeOK
<1>2. CASE Busy >= MaxPeerCount
  <2>1. Missing' = 0
    BY <1>2, NotAdding DEF CountKeys
  <2> QED
    BY <1>1, <2>1, PoolShrinks
<1>3. CASE ~ (Busy >= MaxPeerCount)
  <2>1. routerPc' = Adding(MaxPeerCount - Busy, {})
    BY <1>3 DEF CountKeys
  <2>2. Missing' = MaxPeerCount - Busy
    BY <2>1 DEF Missing, Adding
  <2> QED
    BY <1>1, <1>3, <2>2, CapacityAssumption DEF Busy, PoolInv
<1> QED
  BY <1>2, <1>3

LEMMA AddKeyPoolInv == ASSUME TypeOK, PoolInv, AddKey PROVE PoolInv'
<1>1. IsFiniteSet(keys) /\ Cardinality(keys) \in Nat
  BY PoolFinite DEF TypeOK
<1>2. Cardinality(keys') <= Cardinality(keys) + 1 /\ Cardinality(keys') \in Nat
  <2>1. keys' = keys \union {key_counter}
    BY DEF AddKey, Add
  <2> QED
    BY <1>1, <2>1, FS_AddElement
<1>3. Missing \in Nat /\ Missing = routerPc.left /\ Missing >= 1
  BY RouterPcAdding DEF AddKey, Add, Missing, TypeOK
<1>4. Missing' = Missing - 1
  <2>1. CASE routerPc.left = 1 /\ routerPc' = At("idle")
    BY <1>3, <2>1, NotAdding
  <2>2. CASE \E b : routerPc' = Adding(routerPc.left - 1, b)
    BY <1>3, <2>2 DEF Missing, Adding
  <2> QED
    BY <2>1, <2>2 DEF AddKey, Add, Announce
<1> QED
  BY <1>1, <1>2, <1>3, <1>4, CapacityAssumption DEF PoolInv

LEMMA PoolStep == ASSUME TypeOK, PoolInv, [Next]_vars PROVE PoolInv'
<1>1. CASE RelayNext
  BY <1>1, RelayStep, PoolShrinks DEF Missing, routerVars
<1>2. CASE CountKeys
  BY <1>2, CountKeysPoolInv
<1>3. CASE AddKey
  BY <1>3, AddKeyPoolInv
<1>4. CASE OnReady \/ OnSessionStarted \/ Reconnect \/ OnTcpErrorOccurred
  BY <1>4, PoolShrinks DEF OnReady, OnSessionStarted, Reconnect, OnTcpErrorOccurred, Clear,
                           Missing, poolVars
<1>5. CASE SessionFinishedSignal \/ OnTcpConnected
  BY <1>5, PoolShrinks, StartRefreshNotAdding
     DEF SessionFinishedSignal, OnTcpConnected, poolVars
<1>6. ASSUME NEW k \in KeyIds, OnKeyUsed(k) \/ HandOutKey(k) PROVE PoolInv'
  BY <1>6, PoolShrinks DEF OnKeyUsed, HandOutKey, Missing, poolVars
<1>7. ASSUME NEW k \in KeyIds, ExpireKey(k) PROVE PoolInv'
  <2>1. Missing' = Missing \/ Missing' = 0
    BY <1>7, StartRefreshNotAdding DEF ExpireKey, Replace, Remove, Missing
  <2> QED
    BY <1>7, <2>1, PoolShrinks DEF ExpireKey, Replace, Remove
<1>8. ASSUME NEW id \in 1 .. Len(pairings), OnPeerRequest(id) PROVE PoolInv'
  BY <1>8, PoolShrinks DEF OnPeerRequest, Missing, poolVars, routerVars
<1>9. CASE CreateKeyFails \/ StopRouter
  BY <1>9, NotAdding, PoolShrinks DEF CreateKeyFails, Announce, StopRouter, poolVars
<1>10. CASE ShutDown \/ UNCHANGED vars
  BY <1>10, PoolShrinks DEF ShutDown, vars, Missing, poolVars, routerVars
<1> QED
  BY <1>1, <1>2, <1>3, <1>4, <1>5, <1>6, <1>7, <1>8, <1>9, <1>10
     DEF Next, RouterNext, Exited

\* The relay never holds more unused keys than max_peer_count_, although the size
\* it computes the refill from is stale by the time the keys are added.
THEOREM PoolBounded == Spec => []PoolWithinCapacity
<1>1. Init => PoolInv
  BY FS_EmptySet, CapacityAssumption DEF Init, PoolInv, Missing, At
<1>2. TypeOK /\ PoolInv /\ [Next]_vars => PoolInv'
  BY PoolStep
<1>3. TypeOK /\ PoolInv => PoolWithinCapacity
  <2> SUFFICES ASSUME TypeOK, PoolInv PROVE PoolWithinCapacity
    OBVIOUS
  <2>1. Missing \in Nat
    BY RouterPcAdding DEF Missing, TypeOK
  <2>2. Cardinality(keys) \in Nat
    BY PoolFinite DEF TypeOK
  <2> QED
    BY <2>1, <2>2, CapacityAssumption DEF PoolInv, PoolWithinCapacity
<1> QED
  BY <1>1, <1>2, <1>3, TypeCorrect, PTL DEF Spec
----------------------------------------------------------------------------
(* The search for a partner misses nobody.                                 *)

\* Two waiting partners can only arise from the session at hand, which is still
\* unidentified, and from slots that start afresh.
MatchInv ==
    /\ \A c \in Conns \ pending : ident[c] = NoIdent
    /\ relayPc.at = "found" => relayPc.conn \in pending /\ ident[relayPc.conn] = NoIdent
    /\ NoMissedPairing

LEMMA DropPendingMatch ==
    ASSUME TypeOK, MatchInv, NEW gone, DropPending(gone), relayPc'.at # "found"
    PROVE  MatchInv'
BY DEF TypeOK, MatchInv, DropPending, NoMissedPairing

LEMMA MatchStep == ASSUME TypeOK, MatchInv, [Next]_vars PROVE MatchInv'
<1>1. ASSUME UNCHANGED <<pending, ident, relayPc>> PROVE MatchInv'
  BY <1>1 DEF MatchInv, NoMissedPairing
<1>2. CASE OnStart
  BY <1>2 DEF OnStart, At, MatchInv, NoMissedPairing
<1>3. ASSUME NEW c \in Conns, Accept(c) PROVE MatchInv'
  BY <1>3 DEF Accept, RelayIdle, At, MatchInv, NoMissedPairing
<1>4. ASSUME NEW c \in Conns, OnPendingSessionFailed(c) \/ PendingExpired(c) PROVE MatchInv'
  BY <1>4, DropPendingMatch DEF OnPendingSessionFailed, PendingExpired, RelayIdle, At
<1>5. ASSUME NEW c \in Conns, NEW k \in KeyIds, NEW s \in Secrets \union {NoSecret},
             FindKey(c, k, s)
      PROVE MatchInv'
  <2>1. CASE relayPc' = Found(c, k, s) /\ UNCHANGED <<pending, ident>>
    BY <1>5, <2>1 DEF FindKey, Found, MatchInv, NoMissedPairing
  <2>2. CASE DropPending({c}) /\ UNCHANGED relayPc
    BY <1>5, <2>2, DropPendingMatch DEF FindKey, RelayIdle, At
  <2> QED
    BY <1>5, <2>1, <2>2 DEF FindKey
<1>6. CASE RejectSecret \/ StopRelay \/ \E other \in Conns : PairPeers(other)
  <2>1. PICK gone : DropPending(gone)
    BY <1>6 DEF RejectSecret, StopRelay, Clear, PairPeers, Remove
  <2>2. relayPc' = At("idle") \/ relayPc' = At("stopped")
    BY <1>6 DEF RejectSecret, StopRelay, Clear, PairPeers, Remove
  <2> QED
    BY <2>1, <2>2, DropPendingMatch DEF At
<1>7. CASE AwaitPartner
  <2> DEFINE conn == relayPc.conn
  <2>1. conn \in Conns /\ conn \in pending
    BY <1>7, RelayPcFound DEF AwaitPartner, SecretDecrypted, TypeOK, MatchInv
  <2>2. /\ pending' = pending /\ relayPc'.at # "found"
        /\ ident' = [ident EXCEPT ![conn] = Identity]
    BY <1>7 DEF AwaitPartner, At
  <2>3. \A other \in pending \ {conn} : ident[other] # Identity
    BY <1>7 DEF AwaitPartner, IsPeerFor, TypeOK
  <2> QED
    BY <2>1, <2>2, <2>3 DEF MatchInv, NoMissedPairing, TypeOK
<1>8. ASSUME NEW s \in active, OnSessionFinished(s) PROVE MatchInv'
  BY <1>1, <1>8 DEF OnSessionFinished
<1>9. CASE OnDisconnectSession
  BY <1>1, <1>9 DEF OnDisconnectSession
<1>10. CASE ~ RelayNext
  BY <1>1, <1>10, RouterStep DEF relayVars
<1> QED
  BY <1>2, <1>3, <1>4, <1>5, <1>6, <1>7, <1>8, <1>9, <1>10 DEF RelayNext

\* No two waiting peers are each other's partner: a peer whose partner is already
\* there is never left to time out.
THEOREM PartnersNeverMissed == Spec => []NoMissedPairing
<1>1. Init => MatchInv
  BY DEF Init, MatchInv, NoMissedPairing, At
<1>2. TypeOK /\ MatchInv /\ [Next]_vars => MatchInv'
  BY MatchStep
<1>3. MatchInv => NoMissedPairing
  BY DEF MatchInv
<1> QED
  BY <1>1, <1>2, <1>3, TypeCorrect, PTL DEF Spec

----------------------------------------------------------------------------
(* How many signals of a kind wait in the queue.                           *)

Places(q, sig, n) == {i \in 1 .. n : q[i] = sig}

UpTo(q, sig, n) == Cardinality(Places(q, sig, n))

Signals == {"ready", "started", "finished"}

LEMMA PlacesFinite ==
    ASSUME NEW q, NEW sig, NEW n \in Nat
    PROVE  IsFiniteSet(Places(q, sig, n)) /\ UpTo(q, sig, n) \in Nat
<1>1. IsFiniteSet(1 .. n)
  BY FS_Interval
<1>2. Places(q, sig, n) \in SUBSET (1 .. n)
  BY DEF Places
<1>3. IsFiniteSet(Places(q, sig, n))
  BY <1>1, <1>2, FS_Subset
<1> QED
  BY <1>3, FS_CardinalityType DEF UpTo

LEMMA UpToZero == ASSUME NEW q, NEW sig PROVE UpTo(q, sig, 0) = 0
<1>1. Places(q, sig, 0) = {}
  BY DEF Places
<1> QED
  BY <1>1, FS_EmptySet DEF UpTo

LEMMA UpToNext ==
    ASSUME NEW q, NEW sig, NEW n \in Nat
    PROVE  UpTo(q, sig, n + 1) = UpTo(q, sig, n) + IF q[n + 1] = sig THEN 1 ELSE 0
<1>1. IsFiniteSet(Places(q, sig, n)) /\ UpTo(q, sig, n) \in Nat /\ n + 1 \notin Places(q, sig, n)
  BY PlacesFinite DEF Places
<1>2. CASE q[n + 1] = sig
  <2>1. Places(q, sig, n + 1) = Places(q, sig, n) \union {n + 1}
    BY <1>2 DEF Places
  <2>2. Cardinality(Places(q, sig, n) \union {n + 1}) = Cardinality(Places(q, sig, n)) + 1
    BY <1>1, FS_AddElement
  <2> QED
    BY <1>2, <2>1, <2>2 DEF UpTo
<1>3. CASE q[n + 1] # sig
  <2>1. Places(q, sig, n + 1) = Places(q, sig, n)
    BY <1>3 DEF Places
  <2> QED
    BY <1>1, <1>3, <2>1 DEF UpTo
<1> QED
  BY <1>2, <1>3

LEMMA UpToSame ==
    ASSUME NEW p, NEW q, NEW sig, NEW n \in Nat, \A i \in 1 .. n : p[i] = q[i]
    PROVE  UpTo(p, sig, n) = UpTo(q, sig, n)
<1>1. Places(p, sig, n) = Places(q, sig, n)
  BY DEF Places
<1> QED
  BY <1>1 DEF UpTo

\* Serving the first signal moves the others one place forward.
LEMMA UpToShifted ==
    ASSUME NEW p, NEW q, NEW sig, NEW n \in Nat, \A i \in 1 .. n : p[i] = q[i + 1]
    PROVE  UpTo(q, sig, n + 1) = UpTo(p, sig, n) + IF q[1] = sig THEN 1 ELSE 0
<1> DEFINE S == Places(p, sig, n)
           T == {i \in 2 .. n + 1 : q[i] = sig}
           f == [i \in S |-> i + 1]
<1>1. IsFiniteSet(S) /\ Cardinality(S) \in Nat
  BY PlacesFinite DEF UpTo
<1>2. S \subseteq 1 .. n /\ \A i \in S : p[i] = sig
  BY DEF Places
<1>3. ASSUME NEW j \in T PROVE j - 1 \in S /\ (j - 1) + 1 = j
  <2>1. j - 1 \in 1 .. n /\ (j - 1) + 1 = j
    OBVIOUS
  <2>2. p[j - 1] = sig
    BY <2>1
  <2> QED
    BY <2>1, <2>2 DEF Places
<1>4. \A i \in S : i + 1 \in T
  BY <1>2
<1>5. f \in Surjection(S, T) /\ f \in Injection(S, T)
  <2> HIDE DEF S, T
  <2>1. f \in [S -> T]
    BY <1>4
  <2>2. \A j \in T : \E i \in S : f[i] = j
    BY <1>3
  <2>3. \A i, j \in S : f[i] = f[j] => i = j
    <3>1. \A i \in S : i \in Int
      BY <1>2
    <3> QED
      BY <3>1
  <2> QED
    BY <2>1, <2>2, <2>3, Fun_IsSurj, Fun_IsInj
<1>6. IsFiniteSet(T) /\ Cardinality(T) = Cardinality(S)
  <2> HIDE DEF S, T, f
  <2>1. f \in Bijection(S, T)
    BY <1>5 DEF Bijection
  <2> QED
    BY <1>1, <2>1, FS_Bijection, FS_Surjection, <1>5
<1>7. CASE q[1] = sig
  <2>1. Places(q, sig, n + 1) = T \union {1} /\ 1 \notin T
    BY <1>7 DEF Places
  <2>2. Cardinality(T \union {1}) = Cardinality(T) + 1
    <3> HIDE DEF T
    <3> QED
      BY <1>6, <2>1, FS_AddElement
  <2> QED
    BY <1>6, <1>7, <2>1, <2>2 DEF UpTo
<1>8. CASE q[1] # sig
  <2>1. Places(q, sig, n + 1) = T
    BY <1>8 DEF Places
  <2> QED
    BY <1>1, <1>6, <1>8, <2>1 DEF UpTo
<1> QED
  BY <1>7, <1>8

LEMMA QueuedUpTo ==
    ASSUME TypeOK
    PROVE  /\ Len(signals) \in Nat
           /\ \A sig \in Signals : Queued(sig) = UpTo(signals, sig, Len(signals)) /\ Queued(sig) \in Nat
<1>1. Len(signals) \in Nat /\ DOMAIN signals = 1 .. Len(signals)
  BY DEF TypeOK
<1>2. \A sig \in Signals : Queued(sig) = UpTo(signals, sig, Len(signals))
  BY <1>1 DEF Queued, UpTo, Places
<1> QED
  BY <1>1, <1>2, PlacesFinite

LEMMA EmitCounts ==
    ASSUME TypeOK, ~ stopping, NEW sig \in Signals, Emit(sig)
    PROVE  /\ Len(signals') = Len(signals) + 1 /\ Len(signals) \in Nat
           /\ \A x \in Signals : \A n \in 0 .. Len(signals) : UpTo(signals', x, n) = UpTo(signals, x, n)
           /\ \A x \in Signals : Queued(x)' = Queued(x) + IF x = sig THEN 1 ELSE 0
<1>1. signals \in Seq(Signals) /\ signals' = Append(signals, sig) /\ Len(signals) \in Nat
  BY DEF TypeOK, Emit, Signals
<1>2. /\ Len(signals') = Len(signals) + 1 /\ DOMAIN signals' = 1 .. Len(signals) + 1
      /\ \A i \in 1 .. Len(signals) : signals'[i] = signals[i]
      /\ signals'[Len(signals) + 1] = sig
  BY <1>1
<1>3. ASSUME NEW x \in Signals, NEW n \in 0 .. Len(signals) PROVE UpTo(signals', x, n) = UpTo(signals, x, n)
  <2>1. n \in Nat /\ \A i \in 1 .. n : signals'[i] = signals[i]
    BY <1>1, <1>2
  <2> QED
    BY <2>1, UpToSame
<1>4. ASSUME NEW x \in Signals PROVE Queued(x)' = Queued(x) + IF x = sig THEN 1 ELSE 0
  <2>1. Queued(x)' = UpTo(signals', x, Len(signals) + 1)
    BY <1>2 DEF Queued, UpTo, Places
  <2>2. UpTo(signals', x, Len(signals) + 1) = UpTo(signals', x, Len(signals)) + IF x = sig THEN 1 ELSE 0
    <3>1. UpTo(signals', x, Len(signals) + 1)
            = UpTo(signals', x, Len(signals)) + IF signals'[Len(signals) + 1] = x THEN 1 ELSE 0
      BY <1>1, UpToNext
    <3> QED
      BY <1>2, <3>1
  <2>3. UpTo(signals', x, Len(signals)) = UpTo(signals, x, Len(signals))
    BY <1>1, <1>3
  <2> QED
    BY <2>1, <2>2, <2>3, QueuedUpTo
<1> QED
  BY <1>1, <1>2, <1>3, <1>4

LEMMA ServeCounts ==
    ASSUME TypeOK, signals # <<>>, signals' = Tail(signals)
    PROVE  /\ Len(signals') = Len(signals) - 1 /\ Len(signals') \in Nat /\ Len(signals) \in Nat
           /\ \A x \in Signals : \A n \in 0 .. Len(signals') :
                UpTo(signals, x, n + 1) = UpTo(signals', x, n) + IF Head(signals) = x THEN 1 ELSE 0
           /\ \A x \in Signals : /\ Queued(x) = Queued(x)' + IF Head(signals) = x THEN 1 ELSE 0
                                 /\ Queued(x)' \in Nat
<1>1. signals \in Seq(Signals) /\ Len(signals) \in Nat /\ Len(signals) # 0
  BY DEF TypeOK, Signals
<1>2. /\ Len(signals') = Len(signals) - 1 /\ DOMAIN signals' = 1 .. Len(signals')
      /\ Len(signals') \in Nat /\ Head(signals) = signals[1]
      /\ \A i \in 1 .. Len(signals) - 1 : signals'[i] = signals[i + 1]
  BY <1>1
<1>3. ASSUME NEW x \in Signals, NEW n \in 0 .. Len(signals')
      PROVE  UpTo(signals, x, n + 1) = UpTo(signals', x, n) + IF Head(signals) = x THEN 1 ELSE 0
  <2>1. n \in Nat /\ \A i \in 1 .. n : signals'[i] = signals[i + 1]
    BY <1>1, <1>2
  <2> QED
    <3>1. UpTo(signals, x, n + 1) = UpTo(signals', x, n) + IF signals[1] = x THEN 1 ELSE 0
      <4> DEFINE rest == signals'
      <4>1. \A i \in 1 .. n : rest[i] = signals[i + 1]
        BY <2>1
      <4> HIDE DEF rest
      <4>2. UpTo(signals, x, n + 1) = UpTo(rest, x, n) + IF signals[1] = x THEN 1 ELSE 0
        BY <2>1, <4>1, UpToShifted
      <4> QED
        BY <4>2 DEF rest
    <3> QED
      BY <1>2, <3>1
<1>4. ASSUME NEW x \in Signals
      PROVE  Queued(x) = Queued(x)' + (IF Head(signals) = x THEN 1 ELSE 0) /\ Queued(x)' \in Nat
  <2>1. Queued(x)' = UpTo(signals', x, Len(signals'))
    BY <1>2 DEF Queued, UpTo, Places
  <2>2. Queued(x) = UpTo(signals, x, Len(signals') + 1)
    <3>1. Len(signals') + 1 = Len(signals)
      BY <1>1, <1>2
    <3> QED
      BY <3>1, QueuedUpTo
  <2>3. UpTo(signals', x, Len(signals')) \in Nat
    BY <1>2, PlacesFinite
  <2> QED
    BY <1>2, <1>3, <2>1, <2>2, <2>3
<1> QED
  BY <1>1, <1>2, <1>3, <1>4

\* The shutdown is not taken back.
LEMMA RelayStopping == ASSUME RelayNext PROVE stopping' = stopping
BY DEF RelayNext, OnStart, Accept, OnPendingSessionFailed, PendingExpired, FindKey, RejectSecret,
       AwaitPartner, PairPeers, OnSessionFinished, OnDisconnectSession, StopRelay

LEMMA RouterStopping == ASSUME [Next]_vars, ~ RelayNext PROVE stopping => stopping'
BY DEF Next, RouterNext, Exited, vars, OnReady, OnSessionStarted, SessionFinishedSignal,
       OnTcpConnected, OnTcpErrorOccurred, Reconnect, OnKeyUsed, OnPeerRequest, ExpireKey,
       CountKeys, AddKey, CreateKeyFails, StopRouter, HandOutKey, ShutDown

----------------------------------------------------------------------------
(* The two threads agree on the number of sessions.                        *)

\* SessionAccounting is not inductive: onSessionFinished clamps at zero, so no prefix of the
\* queue may report more ends than the counter and the prefix have beginnings.
AccountInv ==
    ~ stopping =>
        /\ session_count + Queued("started") = Cardinality(active) + Queued("finished")
        /\ \A n \in 0 .. Len(signals) :
              UpTo(signals, "finished", n) <= session_count + UpTo(signals, "started", n)

LEMMA ActiveFinite ==
    ASSUME TypeOK
    PROVE  IsFiniteSet(active) /\ Cardinality(active) \in Nat
<1>1. Len(pairings) \in Nat /\ active \in SUBSET (1 .. Len(pairings))
  BY DEF TypeOK
<1>2. IsFiniteSet(1 .. Len(pairings))
  BY <1>1, FS_Interval
<1>3. IsFiniteSet(active)
  BY <1>1, <1>2, FS_Subset
<1> QED
  BY <1>3, FS_CardinalityType

\* A signal is added; |d| sessions are.
LEMMA AccountEmit ==
    ASSUME TypeOK, AccountInv, ~ stopping, NEW sig \in Signals, Emit(sig),
           session_count' = session_count, Cardinality(active') \in Nat,
           sig = "ready" => Cardinality(active') = Cardinality(active),
           sig = "started" => Cardinality(active') = Cardinality(active) + 1,
           sig = "finished" => Cardinality(active') = Cardinality(active) - 1
    PROVE  AccountInv'
<1>0. "ready" \in Signals /\ "started" \in Signals /\ "finished" \in Signals
  BY DEF Signals
<1>1. session_count \in Nat /\ Cardinality(active) \in Nat
  BY ActiveFinite DEF TypeOK
<1>2. /\ Len(signals) \in Nat /\ Queued("started") \in Nat /\ Queued("finished") \in Nat
      /\ Queued("started") = UpTo(signals, "started", Len(signals))
      /\ Queued("finished") = UpTo(signals, "finished", Len(signals))
  BY <1>0, QueuedUpTo
<1>3. /\ Len(signals') = Len(signals) + 1
      /\ \A n \in 0 .. Len(signals) :
            /\ UpTo(signals', "started", n) = UpTo(signals, "started", n)
            /\ UpTo(signals', "finished", n) = UpTo(signals, "finished", n)
      /\ Queued("started")' = Queued("started") + IF sig = "started" THEN 1 ELSE 0
      /\ Queued("finished")' = Queued("finished") + IF sig = "finished" THEN 1 ELSE 0
  <2>1. /\ Len(signals') = Len(signals) + 1
        /\ \A x \in Signals : \A n \in 0 .. Len(signals) : UpTo(signals', x, n) = UpTo(signals, x, n)
        /\ \A x \in Signals : Queued(x)' = Queued(x) + IF x = sig THEN 1 ELSE 0
    BY EmitCounts
  <2>2. /\ Queued("started")' = Queued("started") + IF "started" = sig THEN 1 ELSE 0
        /\ Queued("finished")' = Queued("finished") + IF "finished" = sig THEN 1 ELSE 0
    BY <1>0, <2>1
  <2> QED
    BY <1>0, <2>1, <2>2
<1>4. session_count + Queued("started") = Cardinality(active) + Queued("finished")
  BY DEF AccountInv
<1>5. session_count' + Queued("started")' = Cardinality(active') + Queued("finished")'
  <2>0. /\ sig = "ready" => Queued("started")' = Queued("started") /\ Queued("finished")' = Queued("finished")
        /\ sig = "started" => Queued("started")' = Queued("started") + 1 /\ Queued("finished")' = Queued("finished")
        /\ sig = "finished" => Queued("started")' = Queued("started") /\ Queued("finished")' = Queued("finished") + 1
    BY <1>2, <1>3
  <2>1. CASE sig = "ready"
    BY <1>1, <1>2, <1>4, <2>0, <2>1
  <2>2. CASE sig = "started"
    BY <1>1, <1>2, <1>4, <2>0, <2>2
  <2>3. CASE sig = "finished"
    BY <1>1, <1>2, <1>4, <2>0, <2>3
  <2> QED
    BY <2>1, <2>2, <2>3 DEF Signals
<1>6. ASSUME NEW n \in 0 .. Len(signals')
      PROVE  UpTo(signals', "finished", n) <= session_count' + UpTo(signals', "started", n)
  <2>1. CASE n \in 0 .. Len(signals)
    BY <1>3, <2>1 DEF AccountInv
  <2>2. CASE n = Len(signals')
    <3>1. Queued("started")' = UpTo(signals', "started", n) /\ Queued("finished")' = UpTo(signals', "finished", n)
      <4>1. DOMAIN signals' = 1 .. Len(signals')
        BY DEF TypeOK, Emit
      <4> QED
        BY <2>2, <4>1 DEF Queued, UpTo, Places
    <3>2. Queued("started")' \in Nat /\ Queued("finished")' \in Nat
      BY <1>2, <1>3
    <3> QED
      BY <1>1, <1>5, <3>1, <3>2
  <2> QED
    BY <1>2, <1>3, <2>1, <2>2
<1> QED
  BY <1>5, <1>6 DEF AccountInv

\* The first signal is served; the counter follows it.
LEMMA AccountServe ==
    ASSUME TypeOK, AccountInv, ~ stopping, signals # <<>>, signals' = Tail(signals), active' = active,
           Head(signals) = "ready" => session_count' = session_count,
           Head(signals) = "started" => session_count' = session_count + 1,
           Head(signals) = "finished" =>
             session_count' = IF session_count = 0 THEN 0 ELSE session_count - 1
    PROVE  AccountInv'
<1>0. "ready" \in Signals /\ "started" \in Signals /\ "finished" \in Signals
  BY DEF Signals
<1>1. session_count \in Nat /\ Cardinality(active) \in Nat /\ Head(signals) \in Signals
  BY ActiveFinite DEF TypeOK, Signals
<1>2. /\ Len(signals') = Len(signals) - 1 /\ Len(signals') \in Nat /\ Len(signals) \in Nat
      /\ \A n \in 0 .. Len(signals') :
           /\ UpTo(signals, "started", n + 1)
                = UpTo(signals', "started", n) + IF Head(signals) = "started" THEN 1 ELSE 0
           /\ UpTo(signals, "finished", n + 1)
                = UpTo(signals', "finished", n) + IF Head(signals) = "finished" THEN 1 ELSE 0
      /\ Queued("started") = Queued("started")' + IF Head(signals) = "started" THEN 1 ELSE 0
      /\ Queued("finished") = Queued("finished")' + IF Head(signals) = "finished" THEN 1 ELSE 0
      /\ Queued("started")' \in Nat /\ Queued("finished")' \in Nat
  BY <1>0, ServeCounts
<1>3. /\ session_count + Queued("started") = Cardinality(active) + Queued("finished")
      /\ \A n \in 0 .. Len(signals) :
            UpTo(signals, "finished", n) <= session_count + UpTo(signals, "started", n)
  BY DEF AccountInv
<1>4. Head(signals) = "finished" => session_count # 0
  <2> SUFFICES ASSUME Head(signals) = "finished" PROVE session_count # 0
    OBVIOUS
  <2>1. 1 \in 0 .. Len(signals) /\ 0 \in 0 .. Len(signals') /\ 0 + 1 = 1
    BY <1>2
  <2>2. UpTo(signals', "started", 0) = 0 /\ UpTo(signals', "finished", 0) = 0
    BY UpToZero
  <2>3. UpTo(signals, "started", 1) = 0 /\ UpTo(signals, "finished", 1) = 1
    BY <1>2, <2>1, <2>2
  <2>4. UpTo(signals, "finished", 1) <= session_count + UpTo(signals, "started", 1)
    BY <1>3, <2>1
  <2> QED
    BY <1>1, <2>3, <2>4
<1>5. session_count' + Queued("started")' = Cardinality(active') + Queued("finished")'
  <2>1. CASE Head(signals) = "ready"
    BY <1>1, <1>2, <1>3, <2>1
  <2>2. CASE Head(signals) = "started"
    BY <1>1, <1>2, <1>3, <2>2
  <2>3. CASE Head(signals) = "finished"
    BY <1>1, <1>2, <1>3, <1>4, <2>3
  <2> QED
    BY <1>1, <2>1, <2>2, <2>3 DEF Signals
<1>6. ASSUME NEW n \in 0 .. Len(signals')
      PROVE  UpTo(signals', "finished", n) <= session_count' + UpTo(signals', "started", n)
  <2>0. n \in Nat /\ n + 1 \in 0 .. Len(signals)
    BY <1>2
  <2>1. UpTo(signals', "finished", n) \in Nat /\ UpTo(signals', "started", n) \in Nat
    BY <2>0, PlacesFinite
  <2>2. UpTo(signals, "finished", n + 1) <= session_count + UpTo(signals, "started", n + 1)
    BY <1>3, <2>0
  <2>3. CASE Head(signals) = "ready"
    BY <1>1, <1>2, <2>1, <2>2, <2>3
  <2>4. CASE Head(signals) = "started"
    BY <1>1, <1>2, <2>1, <2>2, <2>4
  <2>5. CASE Head(signals) = "finished"
    BY <1>1, <1>2, <1>4, <2>1, <2>2, <2>5
  <2> QED
    BY <1>1, <2>3, <2>4, <2>5 DEF Signals
<1> QED
  BY <1>5, <1>6 DEF AccountInv

LEMMA AccountSame ==
    ASSUME AccountInv, UNCHANGED <<signals, session_count, active>>, stopping => stopping'
    PROVE  AccountInv'
BY DEF AccountInv, Queued

\* The end of a session: it leaves the list and its end is reported.
LEMMA AccountRemove ==
    ASSUME TypeOK, AccountInv, ~ stopping, NEW s \in active, RemoveSession(s),
           session_count' = session_count
    PROVE  AccountInv'
<1>1. IsFiniteSet(active) /\ Cardinality(active) \in Nat
  BY ActiveFinite
<1>2. active' = active \ {s} /\ Emit("finished")
  BY DEF RemoveSession
<1>3. IsFiniteSet(active') /\ Cardinality(active') = Cardinality(active) - 1
  BY <1>1, <1>2, FS_RemoveElement
<1>4. Cardinality(active') \in Nat
  BY <1>3, FS_CardinalityType
<1>5. "finished" \in Signals
  BY DEF Signals
<1> QED
  BY <1>2, <1>3, <1>4, <1>5, AccountEmit

LEMMA AccountStep == ASSUME TypeOK, AccountInv, [Next]_vars PROVE AccountInv'
<1>0. Signals = {"ready", "started", "finished"}
  BY DEF Signals
<1>1. stopping => stopping'
  <2>1. CASE RelayNext
    BY <2>1, RelayStopping
  <2>2. CASE ~ RelayNext
    BY <2>2, RouterStopping
  <2> QED
    BY <2>1, <2>2
<1> SUFFICES ASSUME ~ stopping' PROVE AccountInv'
  BY DEF AccountInv
<1>2. ~ stopping
  BY <1>1
<1>3. CASE OnStart
  <2>1. Emit("ready") /\ active' = active /\ session_count' = session_count
    BY <1>3 DEF OnStart, routerVars
  <2> QED
    BY <1>0, <1>2, <2>1, ActiveFinite, AccountEmit
<1>4. ASSUME NEW other \in Conns, PairPeers(other) PROVE AccountInv'
  <2>1. /\ Emit("started") /\ active' = active \union {Len(pairings) + 1}
        /\ session_count' = session_count
    BY <1>4 DEF PairPeers, routerVars
  <2>2. Len(pairings) \in Nat /\ active \subseteq 1 .. Len(pairings)
    BY DEF TypeOK
  <2>3. Len(pairings) + 1 \notin active
    BY <2>2
  <2>4. Cardinality(active') = Cardinality(active) + 1 /\ Cardinality(active') \in Nat
    <3>1. IsFiniteSet(active) /\ Cardinality(active) \in Nat
      BY ActiveFinite
    <3>2. Cardinality(active \union {Len(pairings) + 1}) = Cardinality(active) + 1
      BY <2>3, <3>1, FS_AddElement
    <3> QED
      BY <2>1, <3>1, <3>2
  <2> QED
    BY <1>0, <1>2, <2>1, <2>4, AccountEmit
<1>5. ASSUME NEW s \in active, OnSessionFinished(s) PROVE AccountInv'
  <2>1. RemoveSession(s) /\ session_count' = session_count
    BY <1>5 DEF OnSessionFinished, routerVars
  <2> QED
    BY <1>2, <2>1, AccountRemove
<1>6. CASE OnDisconnectSession
  <2>1. session_count' = session_count
    BY <1>6 DEF OnDisconnectSession, routerVars
  <2>2. CASE Head(commands) \in active /\ RemoveSession(Head(commands))
    BY <1>2, <2>1, <2>2, AccountRemove
  <2>3. CASE UNCHANGED <<active, signals>>
    BY <1>1, <2>1, <2>3, AccountSame
  <2> QED
    BY <1>6, <2>2, <2>3 DEF OnDisconnectSession
<1>7. CASE StopRelay
  BY <1>2, <1>7 DEF StopRelay
<1>8. ASSUME NEW c \in Conns, Accept(c) \/ OnPendingSessionFailed(c) \/ PendingExpired(c) PROVE AccountInv'
  BY <1>1, <1>8, AccountSame DEF Accept, OnPendingSessionFailed, PendingExpired, routerVars
<1>9. ASSUME NEW c \in Conns, NEW k \in KeyIds, NEW s \in Secrets \union {NoSecret},
             FindKey(c, k, s)
      PROVE  AccountInv'
  BY <1>1, <1>9, AccountSame DEF FindKey, routerVars
<1>10. CASE RejectSecret \/ AwaitPartner
  BY <1>1, <1>10, AccountSame DEF RejectSecret, AwaitPartner, routerVars
<1>11. CASE OnReady
  <2>1. /\ signals # <<>> /\ Head(signals) = "ready" /\ signals' = Tail(signals)
        /\ active' = active /\ session_count' = session_count
    BY <1>11 DEF OnReady, relayVars
  <2> QED
    BY <1>2, <2>1, AccountServe
<1>12. CASE OnSessionStarted
  <2>1. /\ signals # <<>> /\ Head(signals) = "started" /\ signals' = Tail(signals)
        /\ active' = active /\ session_count' = session_count + 1
    BY <1>12 DEF OnSessionStarted, relayVars
  <2> QED
    BY <1>2, <2>1, AccountServe
<1>13. CASE SessionFinishedSignal
  <2>1. /\ signals # <<>> /\ Head(signals) = "finished" /\ signals' = Tail(signals)
        /\ active' = active /\ session_count' = IF session_count = 0 THEN 0 ELSE session_count - 1
    BY <1>13 DEF SessionFinishedSignal, relayVars
  <2> QED
    BY <1>2, <2>1, AccountServe
<1>14. CASE OnTcpConnected \/ OnTcpErrorOccurred \/ Reconnect \/ CountKeys \/ AddKey
            \/ CreateKeyFails \/ StopRouter \/ ShutDown
  BY <1>1, <1>14, AccountSame
     DEF OnTcpConnected, OnTcpErrorOccurred, Reconnect, CountKeys, AddKey, CreateKeyFails,
         StopRouter, ShutDown, relayVars, routerVars
<1>15. ASSUME NEW k \in KeyIds, OnKeyUsed(k) \/ HandOutKey(k) \/ ExpireKey(k) PROVE AccountInv'
  BY <1>1, <1>15, AccountSame DEF OnKeyUsed, HandOutKey, ExpireKey, relayVars
<1>16. ASSUME NEW id \in 1 .. Len(pairings), OnPeerRequest(id) PROVE AccountInv'
  BY <1>1, <1>16, AccountSame DEF OnPeerRequest, relayVars, routerVars
<1>17. CASE UNCHANGED vars
  BY <1>1, <1>17, AccountSame DEF vars
<1> QED
  BY <1>3, <1>4, <1>5, <1>6, <1>7, <1>8, <1>9, <1>10, <1>11, <1>12, <1>13, <1>14, <1>15, <1>16,
     <1>17 DEF Next, RelayNext, RouterNext, Exited

\* The router thread's count of sessions is the relay thread's list of them, up to the signals
\* on their way: the clamp of onSessionFinished is never reached while the relay runs.
THEOREM SessionsAccounted == Spec => []SessionAccounting
<1>1. Init => AccountInv
  <2> SUFFICES ASSUME Init PROVE AccountInv
    OBVIOUS
  <2>1. /\ Queued("started") = 0 /\ Queued("finished") = 0
    <3>1. DOMAIN signals = {}
      BY DEF Init
    <3>2. \A sig : {i \in DOMAIN signals : signals[i] = sig} = {}
      BY <3>1
    <3> QED
      BY <3>2, FS_EmptySet DEF Queued
  <2>2. Cardinality(active) = 0
    BY FS_EmptySet DEF Init
  <2>3. Len(signals) = 0 /\ session_count = 0
    BY DEF Init
  <2>4. UpTo(signals, "finished", 0) = 0 /\ UpTo(signals, "started", 0) = 0
    BY UpToZero
  <2> QED
    BY <2>1, <2>2, <2>3, <2>4 DEF AccountInv
<1>2. TypeOK /\ AccountInv /\ [Next]_vars => AccountInv'
  BY AccountStep
<1>3. AccountInv => SessionAccounting
  BY DEF AccountInv, SessionAccounting
<1> QED
  BY <1>1, <1>2, <1>3, TypeCorrect, PTL DEF Spec

----------------------------------------------------------------------------
(* No slot of the capacity leaks away.                                     *)

\* NoCapacityLeak looks at the relay at rest.  On the way there a slot may be a session whose
\* beginning is queued or a key that refreshKeyPool has still to add; it may be free only
\* while the end of a session is queued or the pool is about to be counted.  The keys still
\* to be added become the shortfall when SessionKey::create fails.
Uncovered == IF routerPc.at = "add" THEN routerPc.left ELSE shortfall

Slots == session_count + Queued("started") + Cardinality(keys) + Uncovered

LeakInv ==
    /\ channel = "online" /\ routerPc.at \in {"idle", "add"}
    /\ ~ stopping /\ Queued("finished") = 0
    => Slots >= MaxPeerCount

LEMMA SlotTypes ==
    ASSUME TypeOK
    PROVE  /\ session_count \in Nat /\ Queued("started") \in Nat /\ Queued("finished") \in Nat
           /\ IsFiniteSet(keys) /\ Cardinality(keys) \in Nat /\ Uncovered \in Nat
           /\ MaxPeerCount \in Nat /\ MaxKeys \in Nat /\ key_counter \in Nat
<1>1. Queued("started") \in Nat /\ Queued("finished") \in Nat
  BY QueuedUpTo DEF Signals
<1>2. Uncovered \in Nat
  BY RouterPcAdding, CapacityAssumption DEF Uncovered, TypeOK
<1> QED
  BY <1>1, <1>2, PoolFinite, CapacityAssumption, KeysAssumption DEF TypeOK

LEMMA LeakSame ==
    ASSUME LeakInv, UNCHANGED <<signals, session_count, keys, shortfall, routerPc, channel>>,
           stopping => stopping'
    PROVE  LeakInv'
BY DEF LeakInv, Slots, Queued, Uncovered

\* The relay thread reports the beginning or the end of a session.
LEMMA LeakEmit ==
    ASSUME TypeOK, LeakInv, ~ stopping, NEW sig \in Signals, Emit(sig),
           UNCHANGED <<session_count, shortfall, routerPc, channel>>,
           Cardinality(keys') \in Nat,
           sig = "ready" => keys' = keys,
           sig = "started" => Cardinality(keys') >= Cardinality(keys) - 1
    PROVE  LeakInv'
<1>0. "ready" \in Signals /\ "started" \in Signals /\ "finished" \in Signals
  BY DEF Signals
<1>1. /\ Queued("started")' = Queued("started") + IF "started" = sig THEN 1 ELSE 0
      /\ Queued("finished")' = Queued("finished") + IF "finished" = sig THEN 1 ELSE 0
  BY <1>0, EmitCounts
<1>2. Uncovered' = Uncovered
  BY DEF Uncovered
<1>3. CASE sig = "ready"
  <2>1. Slots' = Slots /\ Queued("finished")' = Queued("finished")
    BY <1>1, <1>2, <1>3, SlotTypes DEF Slots
  <2> QED
    BY <2>1 DEF LeakInv
<1>4. CASE sig = "started"
  <2>1. Slots' >= Slots /\ Queued("finished")' = Queued("finished") /\ Slots' \in Nat /\ Slots \in Nat
    BY <1>1, <1>2, <1>4, SlotTypes DEF Slots
  <2> QED
    BY <2>1, CapacityAssumption DEF LeakInv
<1>5. CASE sig = "finished"
  <2>1. Queued("finished")' # 0
    BY <1>1, <1>5, SlotTypes
  <2> QED
    BY <2>1 DEF LeakInv
<1> QED
  BY <1>3, <1>4, <1>5 DEF Signals

LEMMA PairPeersLeak ==
    ASSUME TypeOK, LeakInv, ~ stopping, NEW other \in Conns, PairPeers(other)
    PROVE  LeakInv'
<1>1. /\ keys' = keys \ {relayPc.key} /\ Emit("started")
      /\ UNCHANGED <<session_count, shortfall, routerPc, channel>>
  BY DEF PairPeers, Remove, routerVars
<1>2. IsFiniteSet(keys) /\ Cardinality(keys) \in Nat
  BY SlotTypes
<1>3. Cardinality(keys') \in Nat /\ Cardinality(keys') >= Cardinality(keys) - 1
  <2>1. IsFiniteSet(keys') /\ Cardinality(keys')
          = IF relayPc.key \in keys THEN Cardinality(keys) - 1 ELSE Cardinality(keys)
    BY <1>1, <1>2, FS_RemoveElement
  <2>2. Cardinality(keys') \in Nat
    BY <2>1, FS_CardinalityType
  <2> QED
    BY <1>2, <2>1, <2>2
<1>4. "started" \in Signals
  BY DEF Signals
<1> QED
  BY <1>1, <1>3, <1>4, LeakEmit

LEMMA OnSessionStartedLeak ==
    ASSUME TypeOK, LeakInv, OnSessionStarted
    PROVE  LeakInv'
<1>1. /\ signals # <<>> /\ signals' = Tail(signals) /\ Head(signals) = "started"
      /\ session_count' = session_count + 1
      /\ UNCHANGED <<keys, shortfall, routerPc, channel, stopping>>
  BY DEF OnSessionStarted, poolVars
<1>2. "started" \in Signals /\ "finished" \in Signals
  BY DEF Signals
<1>3. /\ Queued("started") = Queued("started")' + IF Head(signals) = "started" THEN 1 ELSE 0
      /\ Queued("finished") = Queued("finished")' + IF Head(signals) = "finished" THEN 1 ELSE 0
      /\ Queued("started")' \in Nat /\ Queued("finished")' \in Nat
  BY <1>1, <1>2, ServeCounts
<1>4. Queued("started") = Queued("started")' + 1 /\ Queued("finished") = Queued("finished")'
  BY <1>1, <1>3
<1>5. Uncovered' = Uncovered /\ keys' = keys
  BY <1>1 DEF Uncovered
<1>6. Slots' = Slots
  BY <1>1, <1>3, <1>4, <1>5, SlotTypes DEF Slots
<1> QED
  BY <1>1, <1>4, <1>6 DEF LeakInv

LEMMA CountKeysLeak ==
    ASSUME TypeOK, CountKeys
    PROVE  LeakInv'
<1>1. /\ keys' = keys /\ session_count' = session_count /\ signals' = signals
      /\ Queued("started")' = Queued("started")
  BY DEF CountKeys, poolVars, Queued
<1>2. CASE Busy >= MaxPeerCount
  <2>1. Uncovered' = 0
    BY <1>2 DEF CountKeys, Uncovered, At
  <2>2. Slots' >= MaxPeerCount
    BY <1>1, <1>2, <2>1, SlotTypes DEF Slots, Busy
  <2> QED
    BY <2>2 DEF LeakInv
<1>3. CASE ~ (Busy >= MaxPeerCount)
  <2>1. routerPc' = Adding(MaxPeerCount - Busy, {})
    BY <1>3 DEF CountKeys
  <2>2. Uncovered' = MaxPeerCount - Busy
    BY <2>1 DEF Uncovered, Adding
  <2>3. Slots' >= MaxPeerCount
    BY <1>1, <1>3, <2>2, SlotTypes DEF Slots, Busy
  <2> QED
    BY <2>3 DEF LeakInv
<1> QED
  BY <1>2, <1>3

LEMMA AddKeyLeak ==
    ASSUME TypeOK, KeyInv, LeakInv, AddKey
    PROVE  LeakInv'
<1>1. /\ keys' = keys \union {key_counter} /\ key_counter' = key_counter + 1
      /\ session_count' = session_count /\ signals' = signals /\ channel' = channel
      /\ stopping' = stopping /\ routerPc.at = "add" /\ key_counter < MaxKeys
  BY DEF AddKey, Add
<1>2. key_counter \notin keys
  <2>1. \A k \in keys : k < key_counter
    BY DEF KeyInv
  <2> QED
    BY <2>1, SlotTypes
<1>3. Cardinality(keys') = Cardinality(keys) + 1
  BY <1>1, <1>2, SlotTypes, FS_AddElement
<1>4. Uncovered >= 1 /\ Uncovered' \in Nat /\ Uncovered' >= Uncovered - 1
  <2>1. Uncovered = routerPc.left /\ Uncovered >= 1 /\ Uncovered \in Nat
    BY RouterPcAdding, CapacityAssumption DEF AddKey, Uncovered, TypeOK
  <2>2. CASE routerPc.left = 1 /\ routerPc' = At("idle")
    <3>1. Uncovered' = shortfall /\ shortfall \in Nat
      BY <2>2, CapacityAssumption DEF AddKey, Uncovered, At, TypeOK
    <3> QED
      BY <2>1, <2>2, <3>1
  <2>3. CASE \E b : routerPc' = Adding(routerPc.left - 1, b)
    BY <2>1, <2>3 DEF Uncovered, Adding
  <2> QED
    BY <2>1, <2>2, <2>3 DEF AddKey, Announce
<1>5. Queued("started")' = Queued("started") /\ Queued("finished")' = Queued("finished")
  BY <1>1 DEF Queued
<1>6. Slots' \in Nat /\ Slots \in Nat /\ Slots' >= Slots
  BY <1>1, <1>3, <1>4, <1>5, SlotTypes DEF Slots
<1> QED
  BY <1>1, <1>5, <1>6, CapacityAssumption DEF LeakInv

LEMMA CreateKeyFailsLeak ==
    ASSUME TypeOK, LeakInv, CreateKeyFails
    PROVE  LeakInv'
<1>1. /\ UNCHANGED <<keys, session_count, signals, channel, stopping>>
      /\ routerPc.at = "add" /\ routerPc' = At("idle") /\ shortfall' = routerPc.left
  BY DEF CreateKeyFails, Announce, poolVars
<1>2. Uncovered' = Uncovered
  BY <1>1 DEF Uncovered, At
<1>3. Slots' = Slots /\ Queued("finished")' = Queued("finished")
  BY <1>1, <1>2 DEF Slots, Queued
<1> QED
  BY <1>1, <1>3 DEF LeakInv

LEMMA LeakStep == ASSUME TypeOK, KeyInv, LeakInv, [Next]_vars PROVE LeakInv'
<1>0. "ready" \in Signals /\ "started" \in Signals /\ "finished" \in Signals
  BY DEF Signals
<1>1. stopping => stopping'
  BY RelayStopping, RouterStopping
<1> SUFFICES ASSUME ~ stopping' PROVE LeakInv'
  BY DEF LeakInv
<1>2. ~ stopping /\ Cardinality(keys) \in Nat
  BY <1>1, SlotTypes
<1>3. CASE OnStart
  <2>1. Emit("ready") /\ UNCHANGED <<keys, session_count, shortfall, routerPc, channel>>
    BY <1>3 DEF OnStart, poolVars, routerVars
  <2> QED
    BY <1>0, <1>2, <2>1, LeakEmit
<1>4. ASSUME NEW other \in Conns, PairPeers(other) PROVE LeakInv'
  BY <1>2, <1>4, PairPeersLeak
<1>5. CASE OnDisconnectSession \/ \E s \in active : OnSessionFinished(s)
  <2>1. UNCHANGED <<keys, session_count, shortfall, routerPc, channel>>
    BY <1>5 DEF OnSessionFinished, OnDisconnectSession, poolVars, routerVars
  <2>2. signals' = signals \/ Emit("finished")
    BY <1>5 DEF OnSessionFinished, OnDisconnectSession, RemoveSession
  <2> QED
    BY <1>0, <1>1, <1>2, <2>1, <2>2, LeakSame, LeakEmit
<1>6. CASE StopRelay
  BY <1>2, <1>6 DEF StopRelay
<1>7. ASSUME NEW c \in Conns, Accept(c) \/ OnPendingSessionFailed(c) \/ PendingExpired(c) PROVE LeakInv'
  BY <1>1, <1>7, LeakSame DEF Accept, OnPendingSessionFailed, PendingExpired, poolVars, routerVars
<1>8. ASSUME NEW c \in Conns, NEW k \in KeyIds, NEW s \in Secrets \union {NoSecret},
             FindKey(c, k, s)
      PROVE  LeakInv'
  BY <1>1, <1>8, LeakSame DEF FindKey, poolVars, routerVars
<1>9. CASE RejectSecret \/ AwaitPartner
  BY <1>1, <1>9, LeakSame DEF RejectSecret, AwaitPartner, poolVars, routerVars
<1>10. CASE OnReady \/ OnTcpErrorOccurred \/ Reconnect
  <2>1. channel' # "online"
    BY <1>10 DEF OnReady, OnTcpErrorOccurred, Reconnect
  <2> QED
    BY <2>1 DEF LeakInv
<1>11. CASE OnSessionStarted
  BY <1>11, OnSessionStartedLeak
<1>12. ASSUME StartRefresh PROVE LeakInv'
  BY <1>12 DEF StartRefresh, At, LeakInv
<1>13. CASE SessionFinishedSignal \/ OnTcpConnected
  BY <1>12, <1>13 DEF SessionFinishedSignal, OnTcpConnected
<1>14. ASSUME NEW k \in KeyIds, ExpireKey(k) PROVE LeakInv'
  <2>1. CASE k \in keys
    BY <1>12, <1>14, <2>1 DEF ExpireKey, Replace
  <2>2. CASE k \notin keys
    BY <1>1, <1>14, <2>2, LeakSame DEF ExpireKey, Replace, Remove
  <2> QED
    BY <2>1, <2>2
<1>15. ASSUME NEW k \in KeyIds, OnKeyUsed(k) \/ HandOutKey(k) PROVE LeakInv'
  BY <1>1, <1>15, LeakSame DEF OnKeyUsed, HandOutKey, poolVars
<1>16. ASSUME NEW id \in 1 .. Len(pairings), OnPeerRequest(id) PROVE LeakInv'
  BY <1>1, <1>16, LeakSame DEF OnPeerRequest, poolVars, routerVars
<1>17. CASE CountKeys
  BY <1>17, CountKeysLeak
<1>18. CASE AddKey
  BY <1>18, AddKeyLeak
<1>19. CASE CreateKeyFails
  BY <1>19, CreateKeyFailsLeak
<1>20. CASE StopRouter \/ ShutDown
  BY <1>2, <1>20 DEF StopRouter, ShutDown
<1>21. CASE UNCHANGED vars
  BY <1>1, <1>21, LeakSame DEF vars
<1> QED
  BY <1>3, <1>4, <1>5, <1>6, <1>7, <1>8, <1>9, <1>10, <1>11, <1>13, <1>14, <1>15, <1>16, <1>17,
     <1>18, <1>19, <1>20, <1>21 DEF Next, RelayNext, RouterNext, Exited

\* A connected relay that has caught up with its signals has no free slot without a key but
\* for those whose key SessionKey::create refused to the last refill, for every capacity,
\* every interleaving and wherever creating a key fails.
THEOREM CapacityNeverLeaks == Spec => []NoCapacityLeak
<1>1. Init => LeakInv
  BY DEF Init, LeakInv
<1>2. TypeOK /\ KeyInv /\ LeakInv /\ [Next]_vars => LeakInv'
  BY LeakStep
<1>3. TypeOK /\ LeakInv => NoCapacityLeak
  <2> SUFFICES ASSUME TypeOK, LeakInv, channel = "online", RouterIdle, signals = <<>>,
                      ~ stopping
               PROVE  session_count + Cardinality(keys) + shortfall >= MaxPeerCount
    BY DEF NoCapacityLeak
  <2>1. Queued("started") = 0 /\ Queued("finished") = 0
    <3>1. DOMAIN signals = {}
      OBVIOUS
    <3>2. \A sig : {i \in DOMAIN signals : signals[i] = sig} = {}
      BY <3>1
    <3> QED
      BY <3>2, FS_EmptySet DEF Queued
  <2>2. Uncovered = shortfall /\ routerPc.at = "idle"
    BY DEF RouterIdle, At, Uncovered
  <2>3. Slots >= MaxPeerCount
    BY <2>1, <2>2 DEF LeakInv
  <2> QED
    BY <2>1, <2>2, <2>3, SlotTypes DEF Slots
<1> QED
  BY <1>1, <1>2, <1>3, TypeCorrect, KeyInvHolds, PTL DEF Spec
============================================================================
