# A TLA+ verification project for Aspia

Aspia is a remote desktop system: a *host* on the machine that is controlled, a *client* on the
machine that controls it, a *router* through which the two find each other, and *relays* that carry
their traffic when no direct connection is possible. This directory holds TLA+ models of the parts
of it where components race and the order of events matters, the servers and the session between a
host and a client, with TLC configurations for small instances and TLAPS proofs for every instance.

Source paths below are relative to `src/source/`.

## 1. The system

### How a connection comes about

1. A relay connects to the router, mints one-time keys for its free capacity and announces them.
2. A host connects to the router, asks for its id and becomes reachable under it.
3. A user's client logs in (password by SRP, then a second factor) and asks for a host.
4. The router's client thread checks that the host is reachable and that the client is within its
   budget of offers, takes a key from the pool of all relays, sends an offer with the key to both
   ends and reports the key to its relay as used.
5. Both ends connect to the relay and present the key with a common secret; the relay joins them.
6. The session begins on TCP. The host tries several UDP paths at once, and each side moves its
   sending to the first one that works.
7. A user may then, among other things, copy files between the two computers.

### Components

| Component | State | Operations | What is hard | Module |
|---|---|---|---|---|
| Relay: `relay/workers/relay_worker.cc`, `router_worker.cc`, `shared_key_pool.cc`, `pending_session.cc` | key pool, pending peers, sessions; on the other thread the channel to the router, the session count and the deadlines of handed-out keys | accept, identify, pair, finish, disconnect; connect, announce, expire, refill | two threads and a pool that locks per call; queued signals; deadlines; reconnection | `RelayServer`, `OneTimeKeys` |
| Router, hosts: `router/workers/host_worker.cc`, `host.cc`, `handlers/host_id_handler.cc`, `shared_hosts.cc` | connections, index by id, published ids, temporary ids, tables `hosts` and `hosts_remove` | connect, ask for an id, displace, approve, remove, disconnect, offer | deferred deletion, raw pointers in an index, overlapping connections of one host, failing reads, restarts | `RouterHosts` |
| Router, relays: `router/workers/relay_worker.cc`, `relay.cc`, `shared_key_pool.cc`, `handlers/connection_request_handler.cc` | connections, pool of keys by relay, posted reports | connect, announce, leave, take, report | the pool changes between any two calls; reports that outlive their relay | `RouterKeys` |
| Router, offers: `router/client_operator.cc` | window start and count | issue an offer | window boundaries, keys that are spent on another thread | `OfferBudget`, composed with `RouterKeys` in `RouterOffers` |
| Router, login: `router/handlers/two_factor_handler.cc`, `user_request_handler.cc`, `workers/client_worker.cc`, `database.cc` | users, secrets, counters, device tokens, failures and blocks, sessions | handshake, enroll, code, token, requests about a user | handshakes and prompts during which the account changes; replays; a clock that is corrected | `RouterLogin` |
| Session transport: `host/client.cc`, `client/workers/network_worker.cc`, both `udp_attempt.cc` | TCP and UDP channels, attempts, held messages, who has switched | announce, probe, select, switch, close TCP, fail | two connections at once, choices on both sides, errors that one side ignores | `SessionTransport`, `OrderedPipe` |
| File transfer: `client/file_transfer.cc`, `file_transfer_queue_builder.cc`, `workers/file_worker.cc`, `common/file_*.cc`, the window | queue of tasks, current file, event queue, open files on both computers | list, create, packets, error dialogs, cancel | errors and cancellation midway, deferred deletion, late answers | `FileTransfer` |
| Relay sessions: `relay/session.cc` | two joined channels | forward, pause, resume | flow control | planned |
| Workspaces and groups: `router/handlers/workspace_request_handler.cc` | tables with revisions | list, modify | saves from stale snapshots | planned |
| E-mail queue: `router/email_queue.cc` | bounded queue | enqueue, send, retry | limits and retries | planned |
| Channels and key exchange: `base/net/tcp_channel.cc`, `base/peer/*authenticator.cc` | queues, keys, protocol state | read, write, pause, the messages of SRP | destruction in a callback, order of key changes | planned |
| `base/net/flood_guard.cc`, `anti_replay_window.cc` | buckets, a bit window | admit, check | numeric edges | planned |
| Host's end of the router: `host/router_manager.cc` | id, key, connection | request an id, obey commands, reconnect | lost answers, removal | planned |
| Client's end: `client/router_session.cc`, `router_2fa.cc`, `router_cache.cc` | token, cache, connection | log in, reconnect, refresh | stale cache, refused tokens | planned |
| Codecs, capture, input, audio, user interface, drivers, translations | | | platform and numerical code | not planned |

`PROJECT.json` lists them all, with the reason for each part that is not modelled.

### What makes each component correct

* **Relay.** A key joins at most one pair of peers. Two peers that wait are never each other's
  partner. Free capacity is always offered, unused keys never exceed the capacity, and no key or
  pending connection is forgotten.
* **Hosts.** An id leads to at most one living connection, the right one. What client threads see
  agrees with the index and never blinks while a host reconnects. A host whose removal is scheduled
  is never offered. A permanent id means one host for ever.
* **Relay keys in the router.** A key is offered once, never after its relay left, is never lost,
  and its use is reported to its own relay.
* **Offers.** The budget refuses nobody too early and bounds what may be held.
* **Login.** A code opens one session; nothing outlives the secret, the account or the enrollment
  it rests on; guesses are bounded, and a block is never longer than its length.
* **Session transport.** Each direction delivers its messages in order and without loss, whichever
  connection carried them; both sides use the same channel; TCP is closed only when it is spent; no
  side stays alone in a session.
* **File transfer.** What was confirmed is whole on the target and stays; nothing partial is left
  behind; nothing is replaced without consent; a cancel ends the transfer.

## 2. The models

Every action stands for a whole handler, or for the part of it up to the next access to something
that another thread shares. Each thread's event loop is represented by the interleaving of actions
and, where the order of queued calls matters, by a sequence.

### RelayServer and OneTimeKeys

`keys` and `key_counter` are `SharedKeyPool`. `pending`, `ident`, `pairings`, `active` belong to
`RelayWorker`; `session_count`, `key_deadlines`, `channel` to `RouterWorker`. The pool locks per
call, so `onPendingSessionReady` is split into `FindKey` and `RejectSecret`, `AwaitPartner` or
`PairPeers`, and `refreshKeyPool` into `CountKeys` and one `AddKey` per key: the other thread may
act in between. `relayPc` and `routerPc` say where a thread is. `signals` and `commands` are the
queued calls in the two directions. `announced`, `offered` and `used_msgs` stand for the router,
which hands a key out (`HandOutKey`) and reports it in the reverse direction. A deadline that is set
may pass at any later step. `SessionKey::create` may fail at any key (`CreateKeyFails`): the refill
ends, what it has minted is announced, and nothing asks for the rest until the next refill.
`shortfall` records how many keys that left out.

`OneTimeKeys` is the promise: a key is unborn, live, then dead, and only a live key makes a session,
which kills it. `Abstract` in `RelayServer` maps the pool and the key a handler still holds to it.

### RouterHosts

`live` is `hosts_`, `zombies` the objects that wait for `deleteLater`; `host_id`, `host_key`,
`portable`, `remove_sent`, `requests` are fields of `Host`. `hosts_by_id` is the index, `published`
is `SharedHosts`, the only part that other threads see. `onHostIdAssigned` touches `SharedHosts`
when it drops the stale predecessor and when it publishes, so it is three steps (the assignment,
`DropStale`, `PublishAssigned`); a mass disconnection is one step per host. `hosts`, `hosts_remove`
and `next_id` are the tables and the sequence. `Restart(clean)` is a stop (destructors run) or a
crash (they do not). `offers` are the calls client threads have posted. `told` records which hosts
really received a remove command, which the code has no way to know. The database may fail when
`DbMayFail` is true.

`DoRemoveHost` is one step: between its commit and its publication only a client thread can act, and
an offer posted there is the same as one posted before.

### RouterKeys

`pool` is `SharedKeyPool` by relay session. `readKeyPool` adds key by key (`reading`), stopping all
relays removes them one by one (`leaving`), and the client thread takes keys and posts reports at
any point. A message with a bad endpoint or too many keys is ignored as a whole (`IgnoreKeyPool`), a
malformed key is skipped (`SkipMalformed`), and the relay is told of neither; `ignored` records
these keys. Key ids are numbered by each relay and collide. What a relay announces is external:
`Untaken` keeps its unused keys within its capacity, which is what `PoolWithinCapacity` of
`RelayServer` establishes.

### OfferBudget and RouterOffers

`OfferBudget` is the fixed window of `isOfferLimitReached` and `countOffer` with the age of every offer that is still
within the lifetime of its key. `AgedCounts` holds those counts by age and what a tick of the clock
does to them; `RouterLogin` uses it for the wrong codes of a user. The clock's epoch, which the code uses as the start of a window that
has run out, is a window of full age. `RouterOffers` composes it with `RouterKeys`: `GrantOffer` is
`sendConnectionOffer`, which charges the budget exactly when a key leaves the pool, while the clock
and the relays' thread go on.

### RouterLogin

`account`, `otp_secret`, `otp_counter` and `tokens` are the tables; `failures`, `blocked_until` and
`shared_secret` are `user_states_`; `stage`, `owner`, `tentative`, `token_rejected` and `token_id`
belong to a connection, from the message in which the server reads the user's record
(`BeginHandshake`) to the end. One thread handles all of it, so each handler is one action; the
interleaving is between connections. A code is a secret and a step of the clock, one tick is one
step, and `Totp::verify` accepts the steps in its window. `spent`, `replayed`, `guesses` and
`secret_used` only record what happened. `SessionFinished` gathers all ways a session ends without
a trace, failed reads and writes included. The `--reset-otp` command takes effect "in full" after a
restart, as it says itself, and is part of `Restart`.

The clock moves forward by ticks and may be set back; a correction forward, which ends a block
early, is left out.

### SessionTransport and OrderedPipe

Variables with `h` are fields of the host's `Client`, those with `c` of the client's
`NetworkWorker`. `tcpDown` and `tcpUp` are the two directions of TCP; `udpDown` and `udpUp` hold the
packets of each attempt and ENet channel, which is ordered by itself only. An attempt goes from
`waiting` (announced) to `probing` on the host and from `started` to `probed` on the client. The
host's `HostSelectAttempt` takes the first acknowledged attempt, closes the others, sends
`udp_switch` as its last word on TCP and holds what arrives by UDP until it has read the client's
switch; `CloseTcpIfSwitched` ends TCP when both directions are through. Every socket may fail at any
moment, and what was on its way to it is lost. The client may also refuse a `udp_request` (UDP is up,
the method is not allowed, the request is invalid or one too many), and then does nothing. STUN and the port mapping of a gateway are an attempt
that announces itself later, or never.

`OrderedPipe` is the promise to a user of one direction: numbered messages come out in the order
they went in. `ImplementsPipes` maps both directions of the session to it.

### FileTransfer

The client's worker thread handles one queue of posted events, `events`: requests of the window,
tasks, answers of the other computer and Qt's deferred deletions, in the order they were posted.
`transfer` is the `FileTransfer` object with its queue builder; a handler is an operator that gives
the new object, the events it posts and the signals for the window. `DoRequest` serves a request on
either computer: `packetizer` is the open file of the source, `depacketizer` that of the target, and
`disk` and `dirs` are what the target has. A file is a sequence of blocks, one per packet.
`type` says which of the two computers is local, so both directions are covered. A local request is
served within its event; a remote one goes through `remote_queue` and `wire` and may never be
answered. A host on which nobody is logged on refuses it (`NoLoggedOnUser`); the worker then tells the
window but leaves the request at the head of its queue, so nothing more is sent. `MaxFaults` bounds the requests that fail for reasons outside the program.
`RemovesOpenFiles` says whether the target's system lets an open file be removed: Linux and macOS do,
Windows does not. `copied` and `granted` record what was confirmed and what the user agreed to.
A fault makes a request fail with an error. An error that the code does not look at is outside this
fault model: the flush in `QFile::close` after the last packet (`file_depacketizer.cc:134`), and a
removal that fails for another reason than an open file.
The user is taken to start a transfer only when the previous one and its message box are gone; the
window itself does not check this (see the hazards).

### Left out everywhere

Logging, statistics, telemetry, e-mails, list queries and the wording of messages. `key_counter_`
is a 32-bit number and the models stop short of its wrap. Temporary ids are
random in a large range, so that one is hardly ever released and reserved again while an offer for
it is queued; `OfferReachesItsHost` is therefore stated for registered hosts. Messages that do not parse, which the
handlers drop, are left out too.

## 3. What TLC checks

| Run | Instance | What it shows |
|---|---|---|
| `relay_safety` | 3 peers, 1 secret, 3 keys, capacity 2 | `OneTimeKey`, `NoMissedPairing`, `SessionAccounting`, `PoolWithinCapacity`, `NoCapacityLeak`, `NoStrandedKey`. Three peers are needed for two to compete for the third; with two slots and three keys a refill of two keys is interrupted, and a slot is offered again after use. |
| `relay_liveness` | 2 peers, 2 secrets, 2 keys, capacity 1 | The relay implements `OneTimeKeys`; a handed-out key leaves the pool, a pending connection frees its slot. Peers with one key and different secrets occur here, and so do the commands that disconnect a session. |
| `hosts_safety` | 3 connections, 2 temporary and 2 permanent ids, 2 host keys, 1 offer | The seven properties of the registry. Three connections let a host overlap with itself while another one takes or frees an id. |
| `hosts_liveness` | 2 connections, a failing database | A connection that never gets an id is dropped. |
| `offers` | 2 relay connections, 2 keys each and at most 2 per message, a window and a budget of 2 | `OfferedOnce`, `KeysAccounted`, `DeadRelayNotOffered`, `ReportsReachTheirRelay`, `BudgetKept`, `TakenKeyReported`. A relay may leave while another announces the same ids and reports are queued; a message of two keys may be ignored, or lose one of them; four keys are two budgets, so that both a window and what is left of the one before may be full. |
| `offers_budget` (violation) | the same | A client holds more unused offers than its budget (below). |
| `login_safety` | 1 user, 2 sessions, 2 secrets, 2 tokens, 2 clock values with a window of 1 | `CodeOpensOnce`, `OnlyEnabledAccounts`, `EarnedByStoredSecret`, `OffersCurrentSecret`. Users share no state, so one user is enough; two sessions are needed for a race, two secrets for an enrollment after a reset. |
| `login_prompt` | 1 session, 4 clock values, 2 attempts, a block of 2 | `GuessesBounded`, `BlockNeverStretched`, `PromptEnds`: a block runs out, another begins, and the clock may be set back at any time. |
| `transport` | 2 attempts, 2 messages each way | `NothingMissing`, `SameAttempt`, `ClosedTcpIsSpent`, `ImplementsPipes`, `HandoverCompletes`, `EndsTogether`. Two attempts are needed for a race; two messages let one be on TCP while its successor is on UDP. |
| `files` | 2 transfers of a directory with a file of 2 blocks and a nested directory with an empty file; 1 failure; the target does not remove open files | `NoTruncatedFile`, `ConfirmedFileKept`, `OldKeptUnlessReplaced`, `CancelEnds`. The second transfer meets what the first left behind; a file of two blocks can be cut; an empty one ends with its first packet. |
| `files_replace` (violation) | the same, on a system that removes open files | A confirmed file is missing (below). |
| `files_cancel` (violation) | 1 transfer, no failure | A released builder is used (below). |

Four further configurations, beside the runs, each give a counterexample to what a comment or a test
says: `HostsDbFailure.cfg`, `RelayKeyFailure.cfg`, `RelayOvershoot.cfg` and `HostsFinalize.cfg` (see
the findings). The type invariants are
proved, and are not part of a run. The transport and the file
transfer may stop, when a session is over or the user does nothing more, so deadlock is not checked
there.

Connections are symmetric where a run checks no liveness. Every property comes with a mutant, a
plausible bug of the code written as an alternative definition next to the one it replaces, under
which TLC finds the property violated.

### Fairness

Each event loop serves its queued calls and its timers (`Worker` runs a one-second timer), and a
handler that began ends. So the steps inside a handler are weakly fair; a refill goes on to its next
key or fails, and a key of an announcement is added or skipped, but nothing says which. The sweeps that drop an
expired object are strongly fair where a step inside another handler disables them for a moment:
`PendingExpired`, `ExpireKey`, `DropSilent`, `DestroyHost`, `SendKeyUsed`. `DropAtPrompt` is weakly
fair: once a session is at the prompt, the timer's condition stays true. In `SessionTransport` each
side handles what reaches it, and a channel whose other end is gone reports it, as TCP's and ENet's
keep-alive do; nothing makes an attempt succeed. In `FileTransfer` the client's two event loops
serve their events and the cancel timer; the other computer may be silent for ever. No fairness is assumed of
peers, networks or administrators.

### Findings

* **`offers_budget`.** A comment in `client_operator.cc` calls the budget "how many unused offers a
  client may hold at once". The window is fixed and not sliding: `countOffer` restarts the count with
  the first offer after the window, while offers from its end are still unused. Up to twice the budget
  may be held; `BudgetKept` states what the fixed window does guarantee.
* **`files_replace`.** `doUploadRequest` opens the new file and then, by the assignment, destroys the
  depacketizer that an earlier transfer left open. Its destructor removes its path. If that is the
  same path, and the system removes open files, the new upload goes on in an unlinked file and is
  confirmed. Where the removal is refused (the run `files`), nothing is lost.
* **`files_cancel`.** `stop()` resets `queue_builder_` while the builder is still connected and an
  answer to its last file list may be queued before its deletion. `sig_finished` then makes the
  handler call `takeQueue()` through the null pointer. `base/scoped_qpointer.h` warns of this and
  names the remedy, `disconnect()`.

Four more, from the further configurations:

* `HostsDbFailure.cfg`: a failed read in `hasPendingHostRemoval` counts as "no removal", and the host
  is welcomed back and published (`RemovedHostUnreachable`). `host_id_handler.cc:136` says such a host
  "is told to uninstall itself instead of being welcomed back", and `database.cc:1484` says of the
  sibling look-up "A failed read must not pass for a missing row".
* `RelayKeyFailure.cfg`: a key that cannot be created leaves its slot unoffered with the relay at rest
  (`NeverLeaks`), until another key expires or a session ends. `router_worker_unittest.cc:315`
  expects that "the capacity never leaks away". `NoCapacityLeak` states what holds: no more than those
  keys is missing.
* `RelayOvershoot.cfg`: `refreshKeyPool` counts sessions plus unused keys as taken slots
  (`CapacityRespected`). A session whose start signal is queued, or a pairing that found its key just
  before it expired, is in neither number, so its slot is given away.
* `HostsFinalize.cfg`: `~Host` finalizes a removal when a connection over which the remove command was
  queued ends, for whatever reason (`FinalizedWhenTold`). A comment in `database.cc` expects an
  acknowledgement, and there is none.

## 4. What is proved

TLAPS checks the proofs for every value of the constants, under the assumptions named in the
modules. They say: numbers and bounds are natural; a window, a budget, a block and the limit of
failed codes are at least 1; the empty secret is not a secret, 0 is not a connection, and "no user"
and "no attempt" are not a user and not an attempt; temporary ids are not permanent ones; a directory is
not a file, and what a directory or the selection lists are paths; and a relay's capacity fits the limit the router keeps per relay, as does the sum of all relays the limit
of its pool (`CapacityAssumption` of `RouterKeys`), as the
programs' own limits have it (`kMaxPeerCount` 1000 in the relay; `kMaxKeysPerSession` 1000,
`kMaxKeysTotal` 10000 and `kMaxRelays` 5 in the router). TLC evaluates each of them on the instances it checks.

Every safety invariant and action property that a passing run checks is a theorem, and so are the
three refinements. An invariant is proved as usual: a stronger formula holds initially, no
action breaks it (one step of the proof per action), and it implies the invariant. Each was checked
with TLC before it was proved.

### RelayServerProofs

* `TypeCorrect`.
* `KeysPairOnce` (`OneTimeKey`) and `RelayImplementsOneTimeKeys`. The property alone is not
  inductive: a key found by `FindKey` may leave the pool before `PairPeers` uses it. `KeyInv` adds
  that a key that is in the pool, or held by a handler, has no session yet, and that every key of a
  session or in the pool was counted. Every action then keeps keys, withdraws some, mints one or
  pairs one (`KeyStepKinds`), and each kind is a step of `OneTimeKeys` or a stutter.
* `KeysNeverStranded` (`NoStrandedKey`), which is inductive.
* `PoolBounded` (`PoolWithinCapacity`). The refill is computed from a size that the other thread
  changes while keys are added; `PoolInv` says that the size plus what the refill still lacks stays
  within the capacity, since only the router thread makes the pool grow.
* `PartnersNeverMissed` (`NoMissedPairing`). `MatchInv` adds that the peer being handled is pending
  and not identified.
* `SessionsAccounted` (`SessionAccounting`). The count of `RouterWorker` is clamped at zero, so the
  equation alone would not survive a "finished" that overtakes its "started". `AccountInv` adds that
  it cannot: in every prefix of the queued signals there are at most as many ends as sessions counted
  or begun before.
* `CapacityNeverLeaks` (`NoCapacityLeak`), which speaks of a relay at rest. `LeakInv` says what holds
  on the way: sessions, starts that are queued, keys and what the refill still lacks, or lacked when it
  failed (`Uncovered`), fill the capacity, unless a "finished" is queued, whose handler is the next to
  refill. No step but the count of a new refill resets what a failed one lacked.

### RouterHostsProofs

Every safety property of `hosts_safety` is a theorem.

* `HostInvariant`: `HostInv` is inductive. It joins `TypeOK`; `IndexInv`, the index and the
  connections know each other, but for the predecessor that `onHostIdAssigned` is about to drop;
  `PubInv`, clients see what the index says, but for the id being assigned; and `TempInv`, a
  temporary id is reserved while an object carries it. The exceptions are what makes it inductive,
  since a handler is several steps. `TypeCorrect`, `IndexSound`, `ConnectionsUnique`,
  `PublicationExact` and `TempIdsNeverShared` follow.
* `NeverOfflineGap`: the action property, from `HostInv`.
* `RemovedNeverOffered`: with a database that answers (`DbMayFail = FALSE`), a host to be removed is
  not published. `RemovalFlagged` adds that every connection of such a host has been sent the
  command, which survives reconnection, displacement and restarts. `HostsDbFailure.cfg` shows that
  the assumption is needed.
* `PermanentIdsNeverMove` and `OffersNeverMisdelivered`: `ClaimsAgree` says that all who name a
  permanent id, rows of both tables, host objects and queued offers, name it for the same key, and
  that ids not yet issued are named by nobody; the sequence of ids only grows.

### AgedCountsProofs and RouterLoginProofs

`AgedCountsProofs` has the facts about counts by age that the other proofs need: what one more
occurrence and one tick do to a total, and that a total splits over disjoint ages.

`LoginInvariant`: `LoginInv` is inductive. Besides the types it joins

* `SessionInv`, a connection that is past its beginning has a user and only one at the prompt enrolls;
* `SecretInv`, an account is enrolling or enrolled, and secrets of different accounts differ;
* `OfferInv`, the exact form of `OffersCurrentSecret`: a session offers what its account is enrolling
  with, and what is on file once another session has confirmed it;
* `SpentInv`, no code of a secret that is merely offered was used, and of a secret on file only codes
  that its counter has passed. It is what makes `CodeOpensOnce` inductive: a confirmed enrollment puts
  a secret on file together with the counter of its first code;
* `BlockInv`, the counter of failures covers all guesses of a block's length, and the guesses that led
  to a block are out of sight when it ends, also if the clock was set back in between;
* `OnlyEnabledAccounts` and `EarnedByStoredSecret` themselves.

`TypeCorrect`, `NoCodeOpensTwice`, `OpenMeansEnabled`, `EarnedBySecret`, `OfferIsCurrent` and
`GuessesStayBounded` follow; `BlocksNeverStretch` is an action property.

### RouterKeysProofs and RouterOffersProofs

`RouterKeysProofs` shows what each step of `RouterKeys` keeps; `RouterOffersProofs` puts the steps
together for the specification that is run, `OffersSpec`.

* `KeysInvariant`: `KeysInv` joins `IdsInv` (ids of connections are not reused), `PlaceInv` (keys in
  the message and the pool belong to connected relays and are filed under their ids), `DistinctInv` (a
  key is in one place, once), `IgnoredInv` (an ignored key was announced, and is in no other place),
  `CapacityInv` (a relay's unused keys stay within its capacity) and
  `ReportInv` (a report names the connection its key came from), with `KeysAccounted` and
  `ReportsReachTheirRelay`. `CapacityInv` with the assumption on the limits is the reason why
  `KeysAccounted` holds: what `readKeyPool` accepts is not lost, because the limits of the pool, which
  would drop a key silently, are never met. What it ignores counts as unused at the relay, so the
  relay's capacity bounds both. The
  proof counts all keys of the pool (`KeyCount`) as a union of the keys of each connection.
  `NoKeyOfferedTwice`, `NoKeyLost`, `DeadRelaysNeverOffered` and `ReportsNeverMisdirected` follow.
* `OffersImplementBudget`: the composition implements `OfferBudget`; a step of a relay is a stutter.
* `BudgetStaysKept` (`BudgetKept`): `BudgetInv` says that the counter is exact for the present window,
  that what an earlier window left fits a budget, and that a window which is over has left no offer of
  this instant.

### SessionTransportProofs

`TransportInvariant`: `TransportInv` is inductive, for any number of attempts and messages.

* `HostInv`: the host is READY exactly when it has chosen, and probes nothing before it has heard the
  client on TCP. So the branch of the host's error handler for a chosen channel that is not READY is
  never taken.
* `ChoiceInv`: an attempt that the host did not choose carries at most the one probe that the client
  has not answered. Only the chosen one can therefore give a probed attempt its second message, which
  is what the client chooses by. `OneAttemptForBoth` (`SameAttempt`) follows.
* `DownInv` and `UpInv`: a switch is the last message on TCP; until it is read its reader holds what
  UDP brings, and afterwards TCP is empty and nothing is held.
* `ConfirmInv`: the host answers the client's switch only when nothing more can come by TCP.
  `ClosesOnlySpentTcp` (`ClosedTcpIsSpent`) follows.
* `DownFlow` and `UpFlow`: there is a number t such that TCP carries what was sent up to t and is not
  delivered yet, and the held messages followed by those on UDP carry the rest. `NoMessageMissing`
  (`NothingMissing`) follows. The property also covers the end of a session: when the receiver is
  over, what it got is a prefix of what was sent.

`TransportImplementsPipes`: every action sends one message, delivers one or several in order, or
leaves both ends alone, and each direction implements `OrderedPipe`. The lemmas at the beginning of
the module say what sending, reading, holding and losing do to a run of consecutive messages.

### FileTransferProofs

`FilesInvariant`: `FilesInv` is inductive, for every tree of files (with names listed twice, too),
any number of transfers and failures, and both directions. None of the three properties is inductive
without knowing which requests can be outstanding while a file is open, and that is most of it:

* `OneDriver`: what drives a transfer on is in one place, and there once: a posted event, a request
  with the other computer, an error that was signalled, or a question to the user. No request of a
  live transfer is therefore ever doubled, whatever is answered, cancelled or posted in between.
* `OrderInv`, `QueueInv`, `ReplyInv`: what earlier transfers left behind comes before the request that
  begins the present one, and the other computer has at most one request, the oldest.
* `LiveInv`: each request and each reply of the transfer that is alive fits the packetizer, the
  depacketizer and the first task. After an upload was granted, for instance, the source has its file
  open at the first block.
* `PacketInv`: a packet that was not served yet, of a live transfer or of one that is gone, is the
  next request of the target and continues the file that is open there. So a file can be cut, and is
  then removed, but never mixed.
* `SourceInv`, `DepacketizerInv`, `CopiedInv`: the open files are where their counters say they are;
  a confirmed file is not being written.
* `ErrorInv`, `ConsentInv`: a question is about the first task, which is what an answer acts on; a
  request, an answer on record or an answer on its way that may replace a file has the consent for it.

`FilesTypes`, `FilesNeverTruncated` (`NoTruncatedFile`) and `OldFilesKept`
(`OldKeptUnlessReplaced`) hold on every system; `ConfirmedFilesKept` (`ConfirmedFileKept`) where the
target does not remove a file that is open, which `files_replace` shows to be needed. The handlers of
`FileTransfer` are operators, so the proof first says what each of them gives (`Outcome`: nothing
that drives the transfer, one question, or one request that fits) and what serving does (`ServeGood`,
`ServeLive`); `SettleStep` and `KeepStep` then serve most actions.

### Only model-checked

The liveness properties (`HandedOutKeyRetires`, `PendingSlotFreed`, `SilentConnectionDropped`,
`TakenKeyReported`, `PromptEnds`, `HandoverCompletes`, `EndsTogether`, `CancelEnds`), which need
fairness and are out of the prover's reach.

## 5. Plan

Done: `RelayServer` and `OneTimeKeys`, `RouterHosts`, `RouterKeys`, `OfferBudget` and their
composition `RouterOffers`, `RouterLogin`, `SessionTransport` and `OrderedPipe`, `FileTransfer`.

Next modules, in this order:

1. A composition of `RouterKeys` and `RelayServer`: one router, one relay and the messages between
   them, so that announcements and reports are no longer external; and an abstract specification of
   an offer that both refine.
2. `HostRouterManager` and its composition with `RouterHosts`: the host's id request, its stored
   key, lost answers and the remove command.
3. Workspaces: revisions and stale saves. The e-mail queue with its limits and retries.
4. `TcpChannel` and the two authenticators over it; the relay's `Session` that forwards between two
   channels.
5. Pure algorithms against reference definitions: the flood guard, the anti-replay window.
6. `FileRemover`, which shares the worker's queue with the transfer.

Next proofs: the refinement of the composed router and relay (module 1 above).

### Not modelled

* Codecs, capture, input, audio, rendering, the user interface beyond the file transfer window, and
  drivers: platform and numerical code without a protocol of its own.
* `source/translations/*.ts` are Qt translation tables, the largest text of the repository. They are
  data that the program looks phrases up in; there is nothing in them to model. The program is C++.
* Cryptography and the key exchange: the models take from it that a secret decrypts under one key
  only and that a code belongs to one secret and time step.
* The parts named "planned" above, and those `PROJECT.json` lists as `not_modelled`, each with its
  reason.

## 6. Running it

    tlc -workers 2 -config RelaySafety.cfg MCRelayServer
    tlapm RelayServerProofs.tla

The longest proof, `FileTransferProofs`, takes about ten minutes.

Each `MC*` module extends the module it is named after and defines the sets of model values its
configurations use.
