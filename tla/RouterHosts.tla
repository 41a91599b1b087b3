---------------------------- MODULE RouterHosts ----------------------------
(***************************************************************************)
(* The hosts of aspia_router: HostWorker, the Host objects it owns, the    *)
(* identifiers it hands out and the two database tables behind them.       *)
(*                                                                         *)
(* HostWorker is one thread.  What other threads see of it is SharedHosts, *)
(* the set of reachable hosts a client's request is answered from, so a    *)
(* handler is split where it touches SharedHosts more than once.  A Host   *)
(* is destroyed by deleteLater, after the handler that dropped it.         *)
(***************************************************************************)
EXTENDS Naturals, Sequences, FiniteSets

CONSTANTS
    Conns,         \* identities of Host objects, one per connection
    TempIds,       \* the range of createTempHostId
    MaxPermanent,  \* kMinTempHostId - 1, the last permanent id
    MaxKeys,       \* bound: keys generated for new hosts
    MaxIdRequests, \* kMaxIdRequests
    MaxOffers,     \* bound: connection offers posted to the worker
    DbMayFail      \* whether reads and deletions in the database may fail

ASSUME TempIdsAssumption  == TempIds \intersect Nat = {}
ASSUME BoundsAssumption   == /\ MaxPermanent \in Nat /\ MaxKeys \in Nat
                             /\ MaxIdRequests \in Nat /\ MaxOffers \in Nat
ASSUME DbAssumption       == DbMayFail \in BOOLEAN
ASSUME ConnsAssumption    == 0 \notin Conns

None == 0

PermIds == 1 .. MaxPermanent

Ids == PermIds \union TempIds

Keys == 1 .. MaxKeys

Row == [id : PermIds, key : Keys]

VARIABLES
    live,          \* HostWorker::hosts_
    zombies,       \* Hosts dropped and waiting for deleteLater
    host_id,       \* Host::host_id_
    host_key,      \* the key behind host_id_ (Host::key_hash_ for a new host)
    portable,      \* Host::portable_
    remove_sent,   \* Host::remove_command_sent_
    requests,      \* Host::id_request_count_
    hosts_by_id,   \* HostWorker::hosts_by_id_
    published,     \* SharedHosts::hosts_
    temp_ids,      \* g_assigned_temp_host_ids
    hosts,         \* table hosts
    hosts_remove,  \* table hosts_remove
    next_id,       \* sqlite_sequence of hosts, plus one
    next_key,      \* keys generated so far, plus one
    pc,            \* where the worker is in its current handler
    offers,        \* sendConnectionOffer calls posted by client threads
    told           \* keys of the hosts that have received the remove command

hostVars == <<host_id, host_key, portable, remove_sent, requests>>
dbVars   == <<hosts, hosts_remove, next_id>>
vars == <<live, zombies, host_id, host_key, portable, remove_sent, requests, hosts_by_id,
          published, temp_ids, hosts, hosts_remove, next_id, next_key, pc, offers, told>>

Idle == [at |-> "idle"]

DisconnectingAll == [at |-> "all"]

\* onHostIdAssigned, with the predecessor that is still to be dropped.
Assigned(c, stale) == [at |-> "assigned", conn |-> c, stale |-> stale]

TypeOK ==
    /\ live \subseteq Conns
    /\ zombies \subseteq Conns
    /\ host_id \in [Conns -> Ids \union {None}]
    /\ host_key \in [Conns -> Keys \union {None}]
    /\ portable \in [Conns -> BOOLEAN]
    /\ remove_sent \in [Conns -> BOOLEAN]
    /\ requests \in [Conns -> 0 .. MaxIdRequests]
    /\ hosts_by_id \in [Ids -> Conns \union {None}]
    /\ published \subseteq Ids
    /\ temp_ids \subseteq TempIds
    /\ hosts \subseteq Row
    /\ hosts_remove \subseteq Row
    /\ next_id \in 1 .. MaxPermanent + 1
    /\ next_key \in 1 .. MaxKeys + 1
    /\ pc \in {Idle, DisconnectingAll}
               \union [at : {"assigned"}, conn : Conns, stale : Conns \union {None}]
    /\ offers \in Seq([id : Ids, key : Keys])
    /\ told \subseteq Keys

Init ==
    /\ live = {} /\ zombies = {}
    /\ host_id = [c \in Conns |-> None]
    /\ host_key = [c \in Conns |-> None]
    /\ portable = [c \in Conns |-> FALSE]
    /\ remove_sent = [c \in Conns |-> FALSE]
    /\ requests = [c \in Conns |-> 0]
    /\ hosts_by_id = [i \in Ids |-> None]
    /\ published = {} /\ temp_ids = {}
    /\ hosts = {} /\ hosts_remove = {} /\ next_id = 1
    /\ next_key = 1
    /\ pc = Idle
    /\ offers = <<>> /\ told = {}

----------------------------------------------------------------------------
(* HostWorker's helpers                                                    *)

PublishIndexed(id, index, sent) ==
    published' = IF index[id] # None THEN published \union {id} ELSE published \ {id}

\* publishHostState, given the index and the flags the handler has reached.
PublishHostState(id, index, sent) ==
    LET reachable == index[id] # None /\ ~ sent[index[id]]
    IN  published' = IF reachable THEN published \union {id} ELSE published \ {id}

RemoveHostSessionKeepIndex(c) ==
    /\ live' = live \ {c}
    /\ zombies' = zombies \union {c}
    /\ UNCHANGED <<hosts_by_id, published>>

RemoveHostSessionById(c) ==
    /\ live' = live \ {c}
    /\ zombies' = zombies \union {c}
    /\ hosts_by_id' = IF host_id[c] # None THEN [hosts_by_id EXCEPT ![host_id[c]] = None]
                                           ELSE hosts_by_id
    /\ IF host_id[c] # None THEN PublishHostState(host_id[c], hosts_by_id', remove_sent)
                         ELSE UNCHANGED published

\* removeHostSession
RemoveHostSession(c) ==
    /\ live' = live \ {c}
    /\ zombies' = zombies \union {c}
    /\ hosts_by_id' = [i \in Ids |-> IF i = host_id[c] /\ hosts_by_id[i] = c THEN None
                                                                            ELSE hosts_by_id[i]]
    /\ IF host_id[c] # None THEN PublishHostState(host_id[c], hosts_by_id', remove_sent)
                         ELSE UNCHANGED published

----------------------------------------------------------------------------
(* Connections                                                             *)

\* onNewHostConnection
NewHostConnection(c) ==
    /\ pc = Idle
    /\ c \notin live \union zombies
    /\ live' = live \union {c}
    /\ UNCHANGED <<zombies, hostVars, hosts_by_id, published, temp_ids, dbVars, next_key,
                   pc, offers, told>>

\* onHostFinished: a network error, or an id request that closes the connection
\* (a bad hardware id, too many requests, a failed look-up).
HostFinished(c) ==
    /\ pc = Idle
    /\ c \in live
    /\ RemoveHostSession(c)
    /\ UNCHANGED <<hostVars, temp_ids, dbVars, next_key, pc, offers, told>>

IsSilentUnasked(c) == c \in live /\ host_id[c] = None /\ requests[c] = 0

IsSilent(c) == c \in live /\ host_id[c] = None

\* onTimer: no id within kIdentifyTimeout.
DropSilent(c) ==
    /\ pc = Idle
    /\ IsSilent(c)
    /\ RemoveHostSession(c)
    /\ UNCHANGED <<hostVars, temp_ids, dbVars, next_key, pc, offers, told>>

\* What ~Host leaves behind for the objects in |gone|: their temporary ids are
\* free again and the removals they carried are finalized.
Finalized(gone) == {r \in hosts_remove : \E c \in gone : remove_sent[c] /\ host_id[c] = r.id}

Released(gone) == {host_id[c] : c \in gone} \intersect TempIds

Destroy(gone) ==
    /\ host_id' = [c \in Conns |-> IF c \in gone THEN None ELSE host_id[c]]
    /\ host_key' = [c \in Conns |-> IF c \in gone THEN None ELSE host_key[c]]
    /\ portable' = [c \in Conns |-> portable[c] /\ c \notin gone]
    /\ remove_sent' = [c \in Conns |-> remove_sent[c] /\ c \notin gone]
    /\ requests' = [c \in Conns |-> IF c \in gone THEN 0 ELSE requests[c]]

\* deleteLater runs ~Host.
DestroyHost(c) ==
    /\ pc = Idle
    /\ c \in zombies
    /\ zombies' = zombies \ {c}
    /\ temp_ids' = temp_ids \ Released({c})
    /\ \/ hosts_remove' = hosts_remove \ Finalized({c})
       \/ DbMayFail /\ UNCHANGED hosts_remove
    /\ Destroy({c})
    /\ UNCHANGED <<live, hosts_by_id, published, hosts, next_id, next_key, pc, offers, told>>

----------------------------------------------------------------------------
(* The id request of a host                                                *)

\* handleHostIdRequest answers only a connection that has no id yet.
MayRequest(c) ==
    /\ pc = Idle
    /\ c \in live
    /\ host_id[c] = None
    /\ requests[c] < MaxIdRequests

\* onHostIdAssigned replaces the holder of the id first.
OnHostIdAssigned(c, id) ==
    /\ hosts_by_id' = [hosts_by_id EXCEPT ![id] = c]
    /\ pc' = Assigned(c, hosts_by_id[id])

FreeOfLiveHosts == TempIds \ {host_id[c] : c \in live}

\* createTempHostId is random, and its result retried while it is reserved.
FreeTempIds == TempIds \ temp_ids

\* NEW_ID: a temporary id and a fresh key for this connection.
IssueTempId(c, id, isPortable) ==
    /\ MayRequest(c)
    /\ id \in FreeTempIds
    /\ next_key <= MaxKeys
    /\ requests' = [requests EXCEPT ![c] = @ + 1]
    /\ host_id' = [host_id EXCEPT ![c] = id]
    /\ host_key' = [host_key EXCEPT ![c] = next_key]
    /\ portable' = [portable EXCEPT ![c] = isPortable]
    /\ next_key' = next_key + 1
    /\ temp_ids' = temp_ids \union {id}
    /\ OnHostIdAssigned(c, id)
    /\ UNCHANGED <<live, zombies, remove_sent, published, dbVars, offers, told>>

\* hasPendingHostRemoval, for a host found under |id|.
HasPendingHostRemoval(id) == \E r \in hosts_remove : r.id = id

RemovalIgnored(id, pending) == pending = FALSE

\* What the id handler makes of it: a failed read counts as no removal.
RemovalPending(id, pending) ==
    \/ pending = HasPendingHostRemoval(id)
    \/ DbMayFail /\ pending = FALSE

\* EXISTING_ID with a key one of the two tables knows.  A removal that is pending
\* is sent before the id is announced.
ExistingId(c, row, pending) ==
    /\ MayRequest(c)
    /\ row \in hosts \union hosts_remove
    /\ RemovalPending(row.id, pending)
    /\ requests' = [requests EXCEPT ![c] = @ + 1]
    /\ host_id' = [host_id EXCEPT ![c] = row.id]
    /\ host_key' = [host_key EXCEPT ![c] = row.key]
    /\ remove_sent' = [remove_sent EXCEPT ![c] = pending]
    /\ OnHostIdAssigned(c, row.id)
    /\ UNCHANGED <<live, zombies, portable, published, temp_ids, dbVars, next_key, offers, told>>

\* EXISTING_ID with a key nobody knows: the host may ask again.
NotFound(c) ==
    /\ MayRequest(c)
    /\ requests' = [requests EXCEPT ![c] = @ + 1]
    /\ UNCHANGED <<live, zombies, host_id, host_key, portable, remove_sent, hosts_by_id,
                   published, temp_ids, dbVars, next_key, pc, offers, told>>

\* The rest of onHostIdAssigned: the stale predecessor, then the publication.
DropStale ==
    /\ pc.at = "assigned" /\ pc.stale # None
    /\ RemoveHostSession(pc.stale)
    /\ pc' = Assigned(pc.conn, None)
    /\ UNCHANGED <<hostVars, temp_ids, dbVars, next_key, offers, told>>

PublishAssigned ==
    /\ pc.at = "assigned" /\ pc.stale = None
    /\ PublishHostState(host_id[pc.conn], hosts_by_id, remove_sent)
    /\ pc' = Idle
    /\ UNCHANGED <<live, zombies, hostVars, hosts_by_id, temp_ids, dbVars, next_key, offers,
                   told>>

----------------------------------------------------------------------------
(* Requests of administrators, run on the worker's thread                  *)

DoDisconnectHost(id) ==
    /\ pc = Idle
    /\ hosts_by_id[id] # None
    /\ RemoveHostSession(hosts_by_id[id])
    /\ UNCHANGED <<hostVars, temp_ids, dbVars, next_key, pc, offers, told>>

\* doDisconnectHost(kAllHostsId) drops the hosts one after the other.
DisconnectAll ==
    /\ pc = Idle
    /\ live # {}
    /\ pc' = DisconnectingAll
    /\ UNCHANGED <<live, zombies, hostVars, hosts_by_id, published, temp_ids, dbVars,
                   next_key, offers, told>>

DisconnectNext(c) ==
    /\ pc = DisconnectingAll
    /\ c \in live
    /\ RemoveHostSession(c)
    /\ pc' = IF live = {c} THEN Idle ELSE pc
    /\ UNCHANGED <<hostVars, temp_ids, dbVars, next_key, offers, told>>

\* scheduleHostRemoval: INSERT OR REPLACE, unique in both columns.
Schedule(r) == {q \in hosts_remove : q.id # r.id /\ q.key # r.key} \union {r}

\* doRemoveHost
DoRemoveHost(r) ==
    /\ pc = Idle
    /\ r \in hosts
    /\ hosts' = hosts \ {r}
    /\ hosts_remove' = Schedule(r)
    /\ IF hosts_by_id[r.id] # None
         THEN /\ remove_sent' = [remove_sent EXCEPT ![hosts_by_id[r.id]] = TRUE]
              /\ PublishHostState(r.id, hosts_by_id, remove_sent')
         ELSE UNCHANGED <<remove_sent, published>>
    /\ UNCHANGED <<live, zombies, host_id, host_key, portable, requests, hosts_by_id, temp_ids,
                   next_id, next_key, pc, offers, told>>

AddHostLowestFree(k) ==
    LET free == PermIds \ {r.id : r \in hosts}
        id   == CHOOSE i \in free : \A j \in free : i <= j
    IN  /\ free # {}
        /\ hosts' = hosts \union {[id |-> id, key |-> k]}
        /\ next_id' = next_id

\* addHost: AUTOINCREMENT, short of the temporary range.
AddHost(k) ==
    /\ next_id <= MaxPermanent
    /\ hosts' = hosts \union {[id |-> next_id, key |-> k]}
    /\ next_id' = next_id + 1

\* doApproveHost: the key becomes a record, then the connection is dropped.
DoApproveHost(id) ==
    /\ pc = Idle
    /\ id \in TempIds
    /\ hosts_by_id[id] # None
    /\ ~ portable[hosts_by_id[id]]
    /\ AddHost(host_key[hosts_by_id[id]])
    /\ RemoveHostSession(hosts_by_id[id])
    /\ UNCHANGED <<hostVars, temp_ids, hosts_remove, next_key, pc, offers, told>>

\* pruneExpiredHostRemovals: the record is older than kHostRemovalTtlSec.
PruneRemoval(r) ==
    /\ pc = Idle
    /\ r \in hosts_remove
    /\ hosts_remove' = hosts_remove \ {r}
    /\ UNCHANGED <<live, zombies, hostVars, hosts_by_id, published, temp_ids, hosts, next_id,
                   next_key, pc, offers, told>>

\* The process stops, cleanly (onStop deletes the hosts) or not, and starts again.
Restart(clean) ==
    /\ clean => pc = Idle
    /\ live' = {} /\ zombies' = {}
    /\ Destroy(Conns)
    /\ hosts_by_id' = [i \in Ids |-> None]
    /\ published' = {} /\ temp_ids' = {}
    /\ hosts_remove' = IF clean THEN hosts_remove \ Finalized(live \union zombies)
                                ELSE hosts_remove
    /\ pc' = Idle /\ offers' = <<>>
    /\ UNCHANGED <<hosts, next_id, next_key, told>>

----------------------------------------------------------------------------
(* Client threads and the hosts' side                                      *)

\* handleConnectionRequest finds the host reachable and posts the offer.
PostOffer(id) ==
    /\ id \in published
    /\ hosts_by_id[id] # None
    /\ Len(offers) < MaxOffers
    /\ offers' = Append(offers, [id |-> id, key |-> host_key[hosts_by_id[id]]])
    /\ UNCHANGED <<live, zombies, hostVars, hosts_by_id, published, temp_ids, dbVars,
                   next_key, pc, told>>

\* HostWorker::sendConnectionOffer: sent to the holder of the id, or dropped.
SendConnectionOffer ==
    /\ pc = Idle
    /\ offers # <<>>
    /\ offers' = Tail(offers)
    /\ UNCHANGED <<live, zombies, hostVars, hosts_by_id, published, temp_ids, dbVars,
                   next_key, pc, told>>

\* The remove command reaches the host.
ReceiveRemove(c) ==
    /\ c \in live
    /\ remove_sent[c]
    /\ told' = told \union {host_key[c]}
    /\ UNCHANGED <<live, zombies, hostVars, hosts_by_id, published, temp_ids, dbVars,
                   next_key, pc, offers>>

Next ==
    \/ \E c \in Conns : NewHostConnection(c)
    \/ \E c \in Conns : HostFinished(c)
    \/ \E c \in Conns : DropSilent(c)
    \/ \E c \in Conns : DestroyHost(c)
    \/ \E c \in Conns, id \in TempIds, p \in BOOLEAN : IssueTempId(c, id, p)
    \/ \E c \in Conns, row \in hosts \union hosts_remove, p \in BOOLEAN : ExistingId(c, row, p)
    \/ \E c \in Conns : NotFound(c)
    \/ DropStale
    \/ PublishAssigned
    \/ \E id \in Ids : DoDisconnectHost(id)
    \/ DisconnectAll
    \/ \E c \in Conns : DisconnectNext(c)
    \/ \E r \in hosts : DoRemoveHost(r)
    \/ \E id \in TempIds : DoApproveHost(id)
    \/ \E r \in hosts_remove : PruneRemoval(r)
    \/ \E clean \in BOOLEAN : Restart(clean)
    \/ \E id \in Ids : PostOffer(id)
    \/ SendConnectionOffer
    \/ \E c \in Conns : ReceiveRemove(c)

Fairness ==
    /\ \A c \in Conns : SF_vars(DropSilent(c)) /\ SF_vars(DestroyHost(c))
    /\ WF_vars(DropStale) /\ WF_vars(PublishAssigned)
    /\ WF_vars(\E c \in Conns : DisconnectNext(c))

Spec == Init /\ [][Next]_vars

FairSpec == Spec /\ Fairness

----------------------------------------------------------------------------
(* Properties                                                              *)

\* hosts_by_id_ holds raw pointers: an entry always names a connection that is
\* still in hosts_ and was given that id, in the middle of a handler too.
IndexNeverDangles ==
    \A id \in Ids : hosts_by_id[id] # None =>
        hosts_by_id[id] \in live /\ host_id[hosts_by_id[id]] = id

\* Between handlers a connection that has an id is the one the index names, so of
\* two connections of one host the stale one is always gone.
OneConnectionPerId ==
    pc.at # "assigned" =>
        \A c \in live : host_id[c] # None => hosts_by_id[host_id[c]] = c

\* Between handlers the reachable hosts are the indexed ones that were not told to
\* remove themselves.
PublishedExactly ==
    pc.at # "assigned" =>
        published = {id \in Ids : hosts_by_id[id] # None /\ ~ remove_sent[hosts_by_id[id]]}

\* A host whose removal is scheduled is told to uninstall itself "instead of being
\* welcomed back" (host_id_handler.cc): no client can be offered a connection to it
\* once the handler that scheduled the removal has ended, even if the host reconnects,
\* displaces its predecessor or the router restarts.
RemovedHostUnreachable ==
    \A r \in hosts_remove : r.id \notin published

\* A client sees a host go offline only when no connection of it is left that is
\* welcome: a reconnecting host that displaces its stale predecessor stays visible.
NoOfflineGap ==
    [][\A id \in published \ published' :
          ~ \E c \in live' : host_id'[c] = id /\ ~ remove_sent'[c]]_vars

\* Two Host objects never share a temporary id, the dropped ones that still wait for
\* their deletion included.
TempIdsUnique ==
    \A c, d \in live \union zombies :
        c # d /\ host_id[c] \in TempIds => host_id[c] # host_id[d]

\* A permanent id means one host for ever: what a connection holds it for is what
\* the tables say, so ~Host never finalizes the removal of another host.
PermanentIdsFixed ==
    \A c \in live \union zombies, r \in hosts \union hosts_remove :
        host_id[c] = r.id => host_key[c] = r.key

\* An offer posted for a registered host is sent to that host or to nobody, whoever
\* has connected, left or been removed in the meantime.
OfferReachesItsHost ==
    \A i \in DOMAIN offers :
        LET o == offers[i] IN
          o.id \in PermIds /\ hosts_by_id[o.id] # None => host_key[hosts_by_id[o.id]] = o.key

\* A connection that never gets an id does not stay (kIdentifyTimeout).
SilentConnectionDropped ==
    \A c \in Conns : (c \in live /\ host_id[c] = None) ~> (c \notin live \/ host_id[c] # None)

\* Database::hostId: the caller is to "send the remove command using the returned
\* host_id and wait for the ack before finalizing the deletion".
FinalizedWhenTold ==
    [][\A c \in Conns : DestroyHost(c) =>
          \A r \in hosts_remove \ hosts_remove' : r.key \in told]_vars
============================================================================
