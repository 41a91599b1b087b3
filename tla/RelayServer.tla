---------------------------- MODULE RelayServer ----------------------------
(***************************************************************************)
(* The aspia_relay process.  Two threads share one pool of one-time keys:  *)
(*                                                                         *)
(*   RouterWorker  keeps the connection to the router, mints keys,         *)
(*                 announces them and expires the ones handed out;         *)
(*   RelayWorker   accepts peers, matches two peers that present the same  *)
(*                 key and secret, and owns the sessions that result.      *)
(*                                                                         *)
(* SharedKeyPool locks per call, so a handler that touches the pool more   *)
(* than once is split here at each access: an action makes at most one.    *)
(* The threads talk through queued signals, delivered in FIFO order.       *)
(* Time is abstracted: a deadline that has been set may pass at any later  *)
(* step.                                                                   *)
(***************************************************************************)
EXTENDS Naturals, Sequences, FiniteSets

CONSTANTS
    MaxPeerCount,  \* max_peer_count_, the configured capacity
    MaxKeys,       \* bound: how often SessionKey::create() succeeds
    Conns,         \* identities of accepted peer connections
    MaxPending,    \* kMaxPendingSessions
    Secrets,       \* non-empty plaintexts decryptSecret may return
    NoSecret,      \* the empty one it returns when it fails
    MaxCommands    \* bound: peer_requests queued to the relay thread

\* key_counter_ is a quint32: MaxKeys stands for at most 2^32 keys, before it wraps.
ASSUME CapacityAssumption == MaxPeerCount \in Nat
ASSUME KeysAssumption     == MaxKeys \in Nat
ASSUME SecretsAssumption  == NoSecret \notin Secrets
ASSUME PendingAssumption  == MaxPending \in Nat
ASSUME CommandsAssumption == MaxCommands \in Nat

KeyIds == 0 .. MaxKeys - 1

NoIdent == <<>>

Idents == {NoIdent} \union (KeyIds \X Secrets)

VARIABLES
    keys,           \* SharedKeyPool::keys_
    key_counter,    \* SharedKeyPool::key_counter_
    pending,        \* RelayWorker::pending_sessions_
    ident,          \* PendingSession::key_id_ and secret_, once identified
    relayPc,        \* where the relay thread is in its current handler
    pairings,       \* the key of every session ever made; its index is session_id_
    active,         \* RelayWorker::active_sessions_, by session_id_
    commands,       \* sig_disconnectSession calls queued to the relay thread
    signals,        \* relay-thread signals queued to the router thread
    routerPc,       \* where the router thread is in its current handler
    session_count,  \* RouterWorker::session_count_
    key_deadlines,  \* keys with an entry in RouterWorker::key_deadlines_
    shortfall,      \* history: keys the last refreshKeyPool wanted and could not create
    channel,        \* tcp_channel_ and reconnect_time_
    announced,      \* keys the router holds and has not yet handed out
    offered,        \* keys the router has handed out to a pair of peers
    used_msgs,      \* key_used messages on their way from the router
    stopping        \* ~WorkerManager has cut the signals and asked both to quit

poolVars   == <<keys, key_counter>>
relayVars  == <<pending, ident, relayPc, pairings, active>>
routerVars == <<routerPc, session_count, key_deadlines, shortfall, channel, announced,
                used_msgs>>
vars == <<keys, key_counter, pending, ident, relayPc, pairings, active, commands,
          signals, routerPc, session_count, key_deadlines, shortfall, channel,
          announced, offered, used_msgs, stopping>>

At(p) == [at |-> p]

\* The relay thread inside onPendingSessionReady, holding the key it found and
\* what it decrypts to.
Found(c, k, s) == [at |-> "found", conn |-> c, key |-> k, secret |-> s]

AddingOneMore(left, batch) == [at |-> "add", left |-> left + 1, batch |-> batch]

\* The router thread inside refreshKeyPool: about to read the pool's size, or
\* about to add the |left| keys that are missing to those in |batch|.
Adding(left, batch) == [at |-> "add", left |-> left, batch |-> batch]

RelayPcs == {At("starting"), At("idle"), At("stopped")}
              \union [at : {"found"}, conn : Conns, key : KeyIds,
                     secret : Secrets \union {NoSecret}]

RouterPcs == {At("idle"), At("count"), At("stopped")}
               \union [at : {"add"}, left : 1 .. MaxPeerCount, batch : SUBSET KeyIds]

TypeOK ==
    /\ keys \subseteq KeyIds
    /\ key_counter \in 0 .. MaxKeys
    /\ pending \subseteq Conns
    /\ ident \in [Conns -> Idents]
    /\ relayPc \in RelayPcs
    /\ pairings \in Seq(KeyIds)
    /\ active \subseteq 1 .. Len(pairings)
    /\ commands \in Seq(Nat)
    /\ signals \in Seq({"ready", "started", "finished"})
    /\ routerPc \in RouterPcs
    /\ session_count \in Nat
    /\ key_deadlines \subseteq KeyIds
    /\ shortfall \in 0 .. MaxPeerCount
    /\ channel \in {"none", "connecting", "online", "backoff"}
    /\ announced \subseteq KeyIds
    /\ offered \subseteq KeyIds
    /\ used_msgs \subseteq KeyIds
    /\ stopping \in BOOLEAN

Init ==
    /\ keys = {} /\ key_counter = 0
    /\ pending = {} /\ ident = [c \in Conns |-> NoIdent]
    /\ relayPc = At("starting")
    /\ pairings = <<>> /\ active = {}
    /\ commands = <<>> /\ signals = <<>>
    /\ routerPc = At("idle") /\ session_count = 0 /\ key_deadlines = {}
    /\ shortfall = 0 /\ channel = "none" /\ announced = {}
    /\ offered = {} /\ used_msgs = {}
    /\ stopping = FALSE

----------------------------------------------------------------------------
(* SharedKeyPool                                                           *)

AddReusesId == keys' = keys \union {key_counter} /\ key_counter' = Cardinality(keys')

Add == keys' = keys \union {key_counter} /\ key_counter' = key_counter + 1

RemoveNothing(k) == keys' = keys

Remove(k) == keys' = keys \ {k}

ClearNothing == keys' = keys

Clear == keys' = {}

----------------------------------------------------------------------------
(* RelayWorker                                                             *)

RelayIdle == relayPc = At("idle")

\* A queued signal: nothing is connected any more once the workers are stopping.
Emit(sig) == signals' = IF stopping THEN signals ELSE Append(signals, sig)

OnStart ==
    /\ relayPc = At("starting")
    /\ relayPc' = At("idle")
    /\ Emit("ready")
    /\ UNCHANGED <<poolVars, pending, ident, pairings, active, commands, routerVars, offered, stopping>>

\* doAccept: the flood guard admits the connection.
Accept(c) ==
    /\ RelayIdle
    /\ c \notin pending
    /\ Cardinality(pending) < MaxPending
    /\ pending' = pending \union {c}
    /\ UNCHANGED <<poolVars, ident, relayPc, pairings, active, commands, signals,
                   routerVars, offered, stopping>>

\* removePendingSession for every connection in |gone|.
DropPending(gone) ==
    /\ pending' = pending \ gone
    /\ ident' = [c \in Conns |-> IF c \in gone THEN NoIdent ELSE ident[c]]

\* The read or the parse of the handshake fails.
OnPendingSessionFailed(c) ==
    /\ RelayIdle
    /\ c \in pending /\ ident[c] = NoIdent
    /\ DropPending({c})
    /\ UNCHANGED <<poolVars, relayPc, pairings, active, commands, signals, routerVars, offered, stopping>>

HandshakeExpired(c) == c \in pending /\ ident[c] = NoIdent

\* PendingSession::isExpired may hold in either phase of a pending session.
IsExpired(c) == c \in pending

\* onTimer: the deadline of the handshake, or of the wait for a partner, is over.
PendingExpired(c) ==
    /\ RelayIdle
    /\ IsExpired(c)
    /\ DropPending({c})
    /\ UNCHANGED <<poolVars, relayPc, pairings, active, commands, signals, routerVars, offered, stopping>>

\* onPendingSessionReady up to SharedKeyPool::find.  A connection is read once,
\* so a session that already waits for its partner does not come here again, and
\* only a peer the router gave the key to can have encrypted a secret for it.
FindKey(c, k, s) ==
    /\ RelayIdle
    /\ s \in Secrets => k \in offered
    /\ c \in pending /\ ident[c] = NoIdent
    /\ \/ /\ k \in keys
          /\ relayPc' = Found(c, k, s)
          /\ UNCHANGED <<pending, ident>>
       \/ /\ k \notin keys
          /\ DropPending({c})
          /\ UNCHANGED relayPc
    /\ UNCHANGED <<poolVars, pairings, active, commands, signals, routerVars, offered, stopping>>

SecretDecrypted == relayPc.at = "found" /\ relayPc.secret # NoSecret

\* decryptSecret returns an empty secret.
RejectSecret ==
    /\ relayPc.at = "found" /\ relayPc.secret = NoSecret
    /\ DropPending({relayPc.conn})
    /\ relayPc' = At("idle")
    /\ UNCHANGED <<poolVars, pairings, active, commands, signals, routerVars, offered, stopping>>

\* setIdentify: what the session at hand is matched by.
Identity == <<relayPc.key, relayPc.secret>>

IsPeerWhileKeyLives(other) ==
    other \in pending \ {relayPc.conn} /\ ident[other] = Identity /\ relayPc.key \in keys

\* PendingSession::isPeerFor, for the session at hand.
IsPeerFor(other) == other \in pending \ {relayPc.conn} /\ ident[other] = Identity

\* Nobody in pending_sessions_ is the peer yet.
AwaitPartner ==
    /\ SecretDecrypted
    /\ \A other \in Conns : ~ IsPeerFor(other)
    /\ ident' = [ident EXCEPT ![relayPc.conn] = Identity]
    /\ relayPc' = At("idle")
    /\ UNCHANGED <<poolVars, pending, pairings, active, commands, signals, routerVars, offered, stopping>>

\* The partner is there: the key is removed, whether or not the pool still had it.
PairPeers(other) ==
    /\ SecretDecrypted
    /\ IsPeerFor(other)
    /\ Remove(relayPc.key)
    /\ pairings' = Append(pairings, relayPc.key)
    /\ active' = active \union {Len(pairings) + 1}
    /\ Emit("started")
    /\ DropPending({other, relayPc.conn})
    /\ relayPc' = At("idle")
    /\ UNCHANGED <<key_counter, commands, routerVars, offered, stopping>>

RemoveSessionSilently(s) == active' = active \ {s} /\ UNCHANGED signals

\* removeSession
RemoveSession(s) == active' = active \ {s} /\ Emit("finished")

\* onSessionFinished, or the idle and duration check of onTimer.
OnSessionFinished(s) ==
    /\ RelayIdle
    /\ s \in active
    /\ RemoveSession(s)
    /\ UNCHANGED <<poolVars, pending, ident, relayPc, pairings, commands, routerVars, offered, stopping>>

OnDisconnectSession ==
    /\ RelayIdle
    /\ commands # <<>>
    /\ commands' = Tail(commands)
    /\ \/ Head(commands) \in active /\ RemoveSession(Head(commands))
       \/ Head(commands) \notin active /\ UNCHANGED <<active, signals>>
    /\ UNCHANGED <<poolVars, pending, ident, relayPc, pairings, routerVars, offered, stopping>>

\* RelayWorker::onStop
StopRelay ==
    /\ stopping
    /\ RelayIdle
    /\ relayPc' = At("stopped")
    /\ DropPending(Conns)
    /\ active' = {}
    /\ Clear
    /\ UNCHANGED <<key_counter, pairings, commands, signals, routerVars, offered, stopping>>

RelayNext ==
    \/ OnStart
    \/ \E c \in Conns : Accept(c)
    \/ \E c \in Conns : OnPendingSessionFailed(c)
    \/ \E c \in Conns : PendingExpired(c)
    \/ \E c \in Conns, k \in KeyIds, s \in Secrets \union {NoSecret} : FindKey(c, k, s)
    \/ RejectSecret
    \/ AwaitPartner
    \/ \E other \in Conns : PairPeers(other)
    \/ \E s \in active : OnSessionFinished(s)
    \/ OnDisconnectSession
    \/ StopRelay

----------------------------------------------------------------------------
(* RouterWorker                                                            *)

RouterIdle == routerPc = At("idle")

\* The entry of refreshKeyPool, at the tail of a handler.
StartRefresh == routerPc' = IF channel' = "online" THEN At("count") ELSE At("idle")

\* onConnectToRouter, called by the relay's sig_ready.
OnReady ==
    /\ RouterIdle
    /\ signals # <<>> /\ Head(signals) = "ready"
    /\ signals' = Tail(signals)
    /\ channel' = "connecting"
    /\ UNCHANGED <<poolVars, relayVars, commands, routerPc, session_count, key_deadlines,
                   announced, offered, used_msgs, shortfall, stopping>>

OnSessionStarted ==
    /\ RouterIdle
    /\ signals # <<>> /\ Head(signals) = "started"
    /\ signals' = Tail(signals)
    /\ session_count' = session_count + 1
    /\ UNCHANGED <<poolVars, relayVars, commands, routerPc, key_deadlines, channel,
                   announced, offered, used_msgs, shortfall, stopping>>

\* onSessionFinished, with its clamp at zero.
SessionFinishedSignal ==
    /\ RouterIdle
    /\ signals # <<>> /\ Head(signals) = "finished"
    /\ signals' = Tail(signals)
    /\ session_count' = IF session_count = 0 THEN 0 ELSE session_count - 1
    /\ UNCHANGED <<poolVars, relayVars, commands, key_deadlines, channel, announced, offered, used_msgs, shortfall, stopping>>
    /\ StartRefresh

OnTcpConnected ==
    /\ RouterIdle
    /\ channel = "connecting"
    /\ channel' = "online"
    /\ UNCHANGED <<poolVars, relayVars, commands, signals, session_count, key_deadlines,
                   announced, offered, used_msgs, shortfall, stopping>>
    /\ StartRefresh

OnTcpErrorOccurred ==
    /\ RouterIdle
    /\ channel \in {"connecting", "online"}
    /\ Clear
    /\ key_deadlines' = {}
    /\ channel' = "backoff"
    /\ announced' = {} /\ used_msgs' = {}
    /\ UNCHANGED <<key_counter, relayVars, commands, signals, routerPc, session_count,
                   offered, shortfall, stopping>>

\* onTimer: the reconnect pause is over.
Reconnect ==
    /\ RouterIdle
    /\ channel = "backoff"
    /\ channel' = "connecting"
    /\ UNCHANGED <<poolVars, relayVars, commands, signals, routerPc, session_count,
                   key_deadlines, announced, offered, used_msgs, shortfall, stopping>>

\* The router takes a key for a client and its host: it tells the peers, and it
\* tells the relay with a key_used that travels on its own.
HandOutKey(k) ==
    /\ k \in announced
    /\ announced' = announced \ {k}
    /\ offered' = offered \union {k}
    /\ used_msgs' = used_msgs \union {k}
    /\ UNCHANGED <<poolVars, relayVars, commands, signals, routerPc, session_count,
                   key_deadlines, channel, shortfall, stopping>>

\* onTcpMessageReceived: the router handed the key out.
OnKeyUsed(k) ==
    /\ RouterIdle
    /\ channel = "online"
    /\ k \in used_msgs
    /\ used_msgs' = used_msgs \ {k}
    /\ key_deadlines' = key_deadlines \union {k}
    /\ UNCHANGED <<poolVars, relayVars, commands, signals, routerPc, session_count, channel,
                   announced, offered, shortfall, stopping>>

\* onTcpMessageReceived: an administrator asks to disconnect a peer.
OnPeerRequest(id) ==
    /\ RouterIdle
    /\ channel = "online"
    /\ ~ stopping
    /\ Len(commands) < MaxCommands
    /\ commands' = Append(commands, id)
    /\ UNCHANGED <<poolVars, relayVars, signals, routerVars, offered, stopping>>

NotReplaced(k) == UNCHANGED routerPc

\* The tail of expireKey: a key that was still there is replaced.
Replace(k) == IF k \in keys THEN StartRefresh ELSE UNCHANGED routerPc

\* onTimer and expireKey: the peers did not use the key in time.
ExpireKey(k) ==
    /\ RouterIdle
    /\ k \in key_deadlines
    /\ key_deadlines' = key_deadlines \ {k}
    /\ Remove(k)
    /\ UNCHANGED <<key_counter, relayVars, commands, signals, session_count, channel,
                   announced, offered, used_msgs, shortfall, stopping>>
    /\ Replace(k)

\* The slots refreshKeyPool finds taken.
Busy == session_count + Cardinality(keys)

\* refreshKeyPool reads the size of the pool.
CountKeys ==
    /\ routerPc = At("count")
    /\ routerPc' = IF Busy >= MaxPeerCount THEN At("idle")
                                           ELSE Adding(MaxPeerCount - Busy, {})
    /\ shortfall' = 0
    /\ UNCHANGED <<poolVars, relayVars, commands, signals, session_count, key_deadlines,
                   channel, announced, offered, used_msgs, stopping>>

\* The key_pool message takes the minted keys to the router.
Announce(batch) == announced' = announced \union batch /\ routerPc' = At("idle")

\* refreshKeyPool mints one key: SharedKeyPool::add.
AddKey ==
    /\ routerPc.at = "add"
    /\ key_counter < MaxKeys
    /\ Add
    /\ LET batch == routerPc.batch \union {key_counter} IN
         \/ routerPc.left = 1 /\ Announce(batch)
         \/ routerPc.left > 1 /\ routerPc' = Adding(routerPc.left - 1, batch)
                              /\ UNCHANGED announced
    /\ UNCHANGED <<relayVars, commands, signals, session_count, key_deadlines, channel,
                   offered, used_msgs, shortfall, stopping>>

\* SessionKey::create fails: what has been minted is announced all the same, and
\* nothing asks for the keys that are missing until the next refill.
CreateKeyFails ==
    /\ routerPc.at = "add"
    /\ Announce(routerPc.batch)
    /\ shortfall' = routerPc.left
    /\ UNCHANGED <<poolVars, relayVars, commands, signals, session_count, key_deadlines,
                   channel, offered, used_msgs, stopping>>

\* RouterWorker::onStop
StopRouter ==
    /\ stopping
    /\ RouterIdle
    /\ routerPc' = At("stopped")
    /\ channel' = "none"
    /\ UNCHANGED <<poolVars, relayVars, commands, signals, session_count, key_deadlines,
                   announced, offered, used_msgs, shortfall, stopping>>

\* ~WorkerManager disconnects the workers from each other and stops the threads.
\* WorkerManager::start has returned by then, so both have run their onStart.
ShutDown ==
    /\ ~ stopping
    /\ relayPc # At("starting")
    /\ stopping' = TRUE
    /\ UNCHANGED <<poolVars, relayVars, commands, signals, routerVars, offered>>

RouterNext ==
    \/ OnReady
    \/ OnSessionStarted
    \/ SessionFinishedSignal
    \/ OnTcpConnected
    \/ OnTcpErrorOccurred
    \/ Reconnect
    \/ \E k \in KeyIds : OnKeyUsed(k)
    \/ \E id \in 1 .. Len(pairings) : OnPeerRequest(id)
    \/ \E k \in KeyIds : ExpireKey(k)
    \/ CountKeys
    \/ AddKey
    \/ CreateKeyFails
    \/ StopRouter

\* Both threads have finished: the process is gone.
Exited ==
    /\ relayPc = At("stopped") /\ routerPc = At("stopped")
    /\ UNCHANGED vars

Next ==
    \/ RelayNext
    \/ RouterNext
    \/ \E k \in KeyIds : HandOutKey(k)
    \/ ShutDown
    \/ Exited
\* The end of onPendingSessionReady.
ReadyHandled ==
    \/ RejectSecret
    \/ AwaitPartner
    \/ \E other \in Conns : PairPeers(other)

\* Event loops run every queued call and never starve their one-second timers.
RelayFairness ==
    /\ WF_vars(ReadyHandled)
    /\ \A c \in Conns : SF_vars(PendingExpired(c))

RouterFairness ==
    /\ WF_vars(CountKeys) /\ WF_vars(AddKey \/ CreateKeyFails)
    /\ \A k \in KeyIds : SF_vars(ExpireKey(k))

Spec == Init /\ [][Next]_vars

FairSpec == Spec /\ RelayFairness /\ RouterFairness

----------------------------------------------------------------------------
(* Properties                                                              *)

\* The keys of the key_pool message being built, and how many it still lacks.
Batch   == IF routerPc.at = "add" THEN routerPc.batch ELSE {}
Missing == IF routerPc.at = "add" THEN routerPc.left ELSE 0

Queued(sig) == Cardinality({i \in DOMAIN signals : signals[i] = sig})

\* A key is live from SharedKeyPool::add until it is removed, and while a handler
\* that found it still holds it.
Held == IF relayPc.at = "found" THEN {relayPc.key} ELSE {}

KeyStatus(k) == IF k \in keys \union Held THEN "live"
                ELSE IF k < key_counter THEN "dead" ELSE "unborn"

Abstract == INSTANCE OneTimeKeys WITH
    Keys     <- KeyIds,
    status   <- [k \in KeyIds |-> KeyStatus(k)],
    sessions <- pairings

\* The relay implements OneTimeKeys: minting, pairing, expiry and the clearing of
\* the pool take every key through one life.
ImplementsOneTimeKeys == Abstract!Spec

\* A key joins at most one pair of peers, however the look-up of
\* onPendingSessionReady interleaves with the expiry, the reconnection and the
\* refills of the router thread ("one-time session keys", shared_key_pool.h).
OneTimeKey ==
    \A i, j \in DOMAIN pairings : pairings[i] = pairings[j] => i = j

\* Two sessions that wait for a partner are never each other's partner: the
\* search of onPendingSessionReady misses nobody.
NoMissedPairing ==
    \A c, d \in pending : c # d /\ ident[c] # NoIdent => ident[c] # ident[d]

\* RouterWorker's count of sessions is RelayWorker's list of them, up to the
\* signals still queued, so the clamp of onSessionFinished never hides a loss.
SessionAccounting ==
    ~ stopping =>
        session_count + Queued("started") = Cardinality(active) + Queued("finished")

\* The relay never offers more unused keys than its capacity, which is also what
\* the router's per-relay limit on keys relies on.
PoolWithinCapacity == Cardinality(keys) <= MaxPeerCount

\* Whatever pairs, expires and finishes in whatever order, a connected relay that
\* has caught up with its signals has handed every free slot to the router, but for
\* those whose key the last refill could not create: a failed SessionKey::create
\* loses its own slots and no others, and the next refill makes good for it.
NoCapacityLeak ==
    channel = "online" /\ RouterIdle /\ signals = <<>> /\ RelayIdle /\ ~ stopping
      => session_count + Cardinality(keys) + shortfall >= MaxPeerCount

\* "Once it expires the relay drops it and announces a replacement, so the capacity
\* never leaks away" (router_worker_unittest.cc): no slot of an idle, connected
\* relay stays without a session or a key while keys can be had.
NeverLeaks ==
    channel = "online" /\ RouterIdle /\ signals = <<>> /\ RelayIdle /\ ~ stopping
        /\ key_counter < MaxKeys
      => session_count + Cardinality(keys) >= MaxPeerCount

\* A key in the pool is one the router can still hand out, one it reports as used,
\* one whose use budget is running, or one of the message being built: none is
\* forgotten in the pool.
NoStrandedKey ==
    keys \subseteq announced \union used_msgs \union key_deadlines \union Batch

\* refreshKeyPool: "Every active session occupies one slot of the configured
\* capacity; unused keys already in the pool occupy their slots too."
CapacityRespected == Cardinality(active) + Cardinality(keys) <= MaxPeerCount

\* A key the router has handed out leaves the pool, used or not (kKeyUseTimeout).
HandedOutKeyRetires ==
    \A k \in KeyIds : k \in key_deadlines ~> (k \notin keys \/ stopping)

\* A peer connection does not hold its pending slot for ever: it is paired or
\* dropped by the deadline sweep of RelayWorker::onTimer.
PendingSlotFreed ==
    \A c \in Conns : c \in pending ~> c \notin pending
============================================================================
