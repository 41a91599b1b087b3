----------------------------- MODULE RouterKeys -----------------------------
(***************************************************************************)
(* The relay keys of aspia_router: RelayWorker, its Relay connections, the *)
(* SharedKeyPool and the part of a connection request that spends a key.   *)
(*                                                                         *)
(* Two threads meet in SharedKeyPool, whose operations are atomic.         *)
(* RelayWorker fills it key by key while it reads a message of a relay,    *)
(* and empties it when a relay leaves; the thread of the clients takes     *)
(* keys out and posts the report that RelayWorker sends to the relay.      *)
(* Key ids are numbered by each relay, so those of two relays collide.     *)
(* What a relay announces is external: the untaken keys stay within its    *)
(* capacity, which RelayServer establishes (PoolWithinCapacity).           *)
(***************************************************************************)
EXTENDS Naturals, Sequences, SequencesExt, FiniteSets

CONSTANTS
    Conns,              \* identities of Relay objects, one per connection
    MaxRelays,          \* kMaxRelays
    MaxKeysPerSession,  \* kMaxKeysPerSession
    MaxKeysTotal,       \* kMaxKeysTotal
    MaxKeysPerPool,     \* kMaxKeysPerPool, keys of one message
    Capacity,           \* the largest capacity a relay may be configured with
    MaxKeyId,           \* bound: keys a relay announces on one connection
    MaxSessions         \* bound: connections accepted from relays

ASSUME CapacityAssumption ==
    /\ {MaxRelays, MaxKeysPerSession, MaxKeysTotal, MaxKeysPerPool, Capacity, MaxKeyId,
        MaxSessions} \subseteq Nat
    /\ Capacity <= MaxKeysPerSession
    /\ MaxRelays * Capacity <= MaxKeysTotal
ASSUME ConnsAssumption == 0 \notin Conns

None == 0

Sessions == 1 .. MaxSessions

\* A key and, for the properties, the connection it was announced on.
Key == [owner : Conns, id : 1 .. MaxKeyId]

VARIABLES
    relays,      \* RelayWorker::relays_
    session,     \* Relay::session_id_
    last_relay,  \* createRelayId's counter
    pool,        \* SharedKeyPool::relays_, an absent relay being an empty one
    reading,     \* keys of the message readKeyPool is working through, newest last
    leaving,     \* "all" in doStopRelay(-1), "stop" in onStop, "stopped" after it
    reports,     \* notifyKeyUsed calls posted to RelayWorker
    offer,       \* credentials the client thread has taken and not yet reported
    used_conns,  \* Relay objects that existed
    announced,   \* ids the relay announced on the connection
    ignored,     \* announced keys that readKeyPool did not accept
    offered,     \* keys handed out, in order
    reported     \* keys a connection was told of with key_used

vars == <<relays, session, last_relay, pool, reading, leaving, reports, offer, used_conns,
          announced, ignored, offered, reported>>

Credentials == [session : Sessions, key : Key]

TypeOK ==
    /\ relays \subseteq used_conns
    /\ used_conns \subseteq Conns
    /\ session \in [Conns -> Sessions \union {None}]
    /\ last_relay \in 0 .. MaxSessions
    /\ pool \in [Sessions -> Seq(Key)]
    /\ reading \in Seq(Key)
    /\ leaving \in {"no", "all", "stop", "stopped"}
    /\ reports \in Seq(Credentials)
    /\ offer \in Seq(Credentials) /\ Len(offer) <= 1
    /\ announced \in [Conns -> 0 .. MaxKeyId]
    /\ ignored \subseteq Key
    /\ offered \in Seq(Key)
    /\ reported \in [Conns -> SUBSET Key]
    /\ \A s \in Sessions : Len(pool[s]) <= MaxKeysPerSession
    /\ Cardinality(relays) <= MaxRelays

Init ==
    /\ relays = {} /\ used_conns = {}
    /\ session = [c \in Conns |-> None]
    /\ last_relay = 0
    /\ pool = [s \in Sessions |-> <<>>]
    /\ reading = <<>> /\ leaving = "no"
    /\ reports = <<>> /\ offer = <<>>
    /\ announced = [c \in Conns |-> 0] /\ ignored = {}
    /\ offered = <<>>
    /\ reported = [c \in Conns |-> {}]

\* RelayWorker is between two handlers.
Idle == reading = <<>> /\ leaving = "no"

----------------------------------------------------------------------------
(* SharedKeyPool                                                           *)

KeyCount == Cardinality(UNION {{s} \X DOMAIN pool[s] : s \in Sessions})

AddTotalFirst(s, k) ==
    pool' = IF KeyCount >= MaxKeysPerSession THEN pool
                                             ELSE [pool EXCEPT ![s] = Append(@, k)]

Add(s, k) ==
    pool' = IF Len(pool[s]) >= MaxKeysPerSession \/ KeyCount >= MaxKeysTotal
              THEN pool
              ELSE [pool EXCEPT ![s] = Append(@, k)]

\* take: one of the largest pools (the order of an unordered_map decides), last key.
Preferred == {s \in Sessions : pool[s] # <<>> /\ \A t \in Sessions : Len(pool[t]) <= Len(pool[s])}

TakeCopy(s) == pool' = pool

TakeFrom(s) == pool' = [pool EXCEPT ![s] = Front(@)]

RemoveNoKeys(s) == pool' = pool

RemoveKeys(s) == pool' = [pool EXCEPT ![s] = <<>>]

----------------------------------------------------------------------------
(* RelayWorker                                                             *)

LowestFreeId(id) ==
    /\ id \in Sessions \ {session[c] : c \in relays}
    /\ \A j \in 1 .. id - 1 : j \in {session[c] : c \in relays}

\* createRelayId
CreateRelayId(id) == id = last_relay + 1 /\ id \in Sessions

HasRoom == Cardinality(relays) < MaxRelays

\* onNewRelayConnection; a connection above kMaxRelays is closed at once.
NewRelayConnection(c, id) ==
    /\ Idle
    /\ c \notin used_conns
    /\ HasRoom
    /\ CreateRelayId(id)
    /\ last_relay' = id
    /\ relays' = relays \union {c}
    /\ used_conns' = used_conns \union {c}
    /\ session' = [session EXCEPT ![c] = id]
    /\ UNCHANGED <<pool, reading, leaving, reports, offer, announced, ignored, offered, reported>>

\* Keys of a connection that its relay has in its pool for all it knows: on their way
\* to the router's pool, in it, or ignored by the router.
Untaken(c) ==
    {k \in Key : k.owner = c /\ (k \in ToSet(reading) \union ignored
                                  \/ \E s \in Sessions : k \in ToSet(pool[s]))}

\* The keys of a message that announces |n| new ones.
NewKeys(c, n) == [i \in 1 .. n |-> [owner |-> c, id |-> announced[c] + i]]

\* A relay announces |n| new keys, within its capacity.
Announce(c, n) ==
    /\ Idle
    /\ c \in relays
    /\ announced[c] + n <= MaxKeyId
    /\ Cardinality(Untaken(c)) + n <= Capacity
    /\ announced' = [announced EXCEPT ![c] = @ + n]

\* readKeyPool starts on the keys of a message that passes its checks.
ReadKeyPool(c, n) ==
    /\ n <= MaxKeysPerPool
    /\ Announce(c, n)
    /\ reading' = NewKeys(c, n)
    /\ UNCHANGED <<relays, session, last_relay, pool, leaving, reports, offer, used_conns,
                   ignored, offered, reported>>

\* readKeyPool returns at once: the endpoint is not valid, or the keys are too many.
\* The relay is not told, and keeps the keys in its own pool.
IgnoreKeyPool(c, n) ==
    /\ Announce(c, n)
    /\ ignored' = ignored \union ToSet(NewKeys(c, n))
    /\ UNCHANGED <<relays, session, last_relay, pool, reading, leaving, reports, offer,
                   used_conns, offered, reported>>

\* One turn of readKeyPool's loop.
AddNext ==
    /\ reading # <<>>
    /\ Add(session[Head(reading).owner], Head(reading))
    /\ reading' = Tail(reading)
    /\ UNCHANGED <<relays, session, last_relay, leaving, reports, offer, used_conns, announced,
                   ignored, offered, reported>>

\* The other turn: the key has no type or no material, and is left out.
SkipMalformed ==
    /\ reading # <<>>
    /\ reading' = Tail(reading)
    /\ ignored' = ignored \union {Head(reading)}
    /\ UNCHANGED <<relays, session, last_relay, pool, leaving, reports, offer, used_conns,
                   announced, offered, reported>>

\* removeRelay, and the destructor of Relay in onStop: the keys go with the relay.
RemoveRelay(c) ==
    /\ c \in relays
    /\ relays' = relays \ {c}
    /\ RemoveKeys(session[c])
    /\ UNCHANGED <<session, last_relay, reading, leaving, reports, offer, used_conns, announced,
                   ignored, offered, reported>>

\* onRelayFinished, after an error of the channel, and doStopRelay for one relay.
RelayFinished(c) == Idle /\ RemoveRelay(c)

\* doStopRelay(-1) and onStop drop the relays one after another.
StopAllRelays(why) ==
    /\ Idle
    /\ leaving' = why
    /\ UNCHANGED <<relays, session, last_relay, pool, reading, reports, offer, used_conns,
                   announced, ignored, offered, reported>>

StopNextRelay(c) == leaving \in {"all", "stop"} /\ RemoveRelay(c)

\* The end of doStopRelay(-1), or of onStop, which clears the pool.
Stopped ==
    /\ relays = {}
    /\ \/ leaving = "all" /\ leaving' = "no" /\ UNCHANGED pool
       \/ leaving = "stop" /\ leaving' = "stopped" /\ pool' = [s \in Sessions |-> <<>>]
    /\ UNCHANGED <<relays, session, last_relay, reading, reports, offer, used_conns, announced,
                   ignored, offered, reported>>

\* A posted notifyKeyUsed runs: relayById, and sendKeyUsed when the relay is there.
SendKeyUsed ==
    /\ Idle
    /\ reports # <<>>
    /\ reports' = Tail(reports)
    /\ LET r == Head(reports) IN
         reported' = [c \in Conns |-> IF c \in relays /\ session[c] = r.session
                                        THEN reported[c] \union {r.key}
                                        ELSE reported[c]]
    /\ UNCHANGED <<relays, session, last_relay, pool, reading, leaving, offer, used_conns,
                   announced, ignored, offered>>

----------------------------------------------------------------------------
(* The thread of the clients                                               *)

\* handleConnectionRequest for a host that is online: the key is spent here.
TakeKey(s) ==
    /\ offer = <<>>
    /\ s \in Preferred
    /\ TakeFrom(s)
    /\ offer' = <<[session |-> s, key |-> Last(pool[s])]>>
    /\ offered' = Append(offered, Last(pool[s]))
    /\ UNCHANGED <<relays, session, last_relay, reading, leaving, reports, used_conns,
                   announced, ignored, reported>>

PostNothing == reports' = reports

\* RelayWorker::notifyKeyUsed
PostReport == reports' = reports \o offer

\* The rest of ClientOperator::sendConnectionOffer.
NotifyKeyUsed ==
    /\ offer # <<>>
    /\ PostReport
    /\ offer' = <<>>
    /\ UNCHANGED <<relays, session, last_relay, pool, reading, leaving, used_conns, announced,
                   ignored, offered, reported>>

\* What happens to the keys besides their being spent.
KeysNext ==
    \/ \E c \in Conns, id \in Sessions : NewRelayConnection(c, id)
    \/ \E c \in Conns, n \in 1 .. Capacity : ReadKeyPool(c, n)
    \/ \E c \in Conns, n \in 1 .. Capacity : IgnoreKeyPool(c, n)
    \/ AddNext
    \/ SkipMalformed
    \/ \E c \in Conns : RelayFinished(c)
    \/ \E why \in {"all", "stop"} : StopAllRelays(why)
    \/ \E c \in Conns : StopNextRelay(c)
    \/ Stopped
    \/ SendKeyUsed
    \/ NotifyKeyUsed

----------------------------------------------------------------------------
(* Properties                                                              *)

\* SharedKeyPool is a "pool of one-time relay keys": no two offers carry the same key of
\* the same relay, however takes, announcements and departures interleave.
OfferedOnce ==
    \A i, j \in DOMAIN offered : offered[i] = offered[j] => i = j

\* The key was announced, and is in the message being read, in the pool, in the offer
\* being made, in a posted report or known to the relay as used, or was ignored.
Accounted(k) ==
    \/ k \in ToSet(reading) \union ignored
    \/ k \in ToSet(pool[session[k.owner]])
    \/ \E o \in ToSet(offer) \union ToSet(reports) : o.key = k
    \/ k \in reported[k.owner]

AllAccounted ==
    \A c \in relays, i \in 1 .. MaxKeyId :
        i <= announced[c] => Accounted([owner |-> c, id |-> i])

\* While a relay is connected the router knows of each of its keys what became of it:
\* only the checks of readKeyPool leave one out, the limits of the pool never drop one
\* that the relay would then keep for ever.  And a key left out is never offered, since
\* it "spends the offer that takes it and then fails at the relay" (relay.cc).
KeysAccounted == AllAccounted /\ ignored \intersect ToSet(offered) = {}

\* The keys of a relay leave the pool with it: none can be offered after the handler
\* that dropped the relay has removed it.
DeadRelayNotOffered ==
    \A s \in Sessions : \A k \in ToSet(pool[s]) : k.owner \in relays

\* A report that is still queued when its relay has gone never reaches another relay,
\* which would take one of its own keys for used.
ReportsReachTheirRelay ==
    \A c \in Conns : \A k \in reported[c] : k.owner = c

\* "The relay must learn that one of its keys is gone": every key that was handed out
\* is reported, unless the relay leaves first.
TakenKeyReported ==
    \A k \in Key : (k \in ToSet(offered)) ~> (k \in reported[k.owner] \/ k.owner \notin relays)
=============================================================================
