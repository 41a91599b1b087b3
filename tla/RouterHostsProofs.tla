------------------------- MODULE RouterHostsProofs -------------------------
(* Theorems about RouterHosts, for every set of connections, every range of *)
(* identifiers and every number of keys.                                    *)
EXTENDS RouterHosts, TLAPS

\* The objects of connections that exist.
Known == live \union zombies

\* What the index and the connections know of each other, inside a handler too: the one
\* connection that has an id and is not indexed is the predecessor about to be dropped.
IndexInv ==
    /\ \A c \in Conns : c \notin live \/ c \notin zombies
    /\ \A c \in Conns : c \notin live /\ c \notin zombies => host_id[c] = None
    /\ \A c \in Conns : host_id[c] # None => host_key[c] # None
    /\ \A c \in Conns : remove_sent[c] => host_id[c] # None
    /\ IndexNeverDangles
    /\ \A c \in live : host_id[c] # None =>
          hosts_by_id[host_id[c]] = c \/ (pc.at = "assigned" /\ pc.stale = c)
    /\ pc.at = "assigned" =>
          /\ pc.conn \in live
          /\ host_id[pc.conn] # None
          /\ hosts_by_id[host_id[pc.conn]] = pc.conn
          /\ pc.stale # None => /\ pc.stale \in live
                                /\ pc.stale # pc.conn
                                /\ host_id[pc.stale] = host_id[pc.conn]

\* What clients see is what the index says, but for the id that is being assigned.
PubInv ==
    \A id \in Ids :
        \/ pc.at = "assigned" /\ host_id[pc.conn] = id
        \/ id \in published <=> (hosts_by_id[id] # None /\ ~ remove_sent[hosts_by_id[id]])

\* A temporary id stays reserved for as long as an object carries it.
TempInv ==
    /\ \A c \in Known : host_id[c] \in TempIds => host_id[c] \in temp_ids
    /\ TempIdsUnique

HostInv == TypeOK /\ IndexInv /\ PubInv /\ TempInv

LEMMA IdsFacts ==
    /\ None \notin Conns
    /\ None \notin Ids
    /\ \A id \in PermIds : id \notin TempIds /\ id \in Nat
BY TempIdsAssumption, ConnsAssumption, BoundsAssumption DEF Ids, PermIds, None

\* The worker's position, as the proofs use it.
LEMMA PcFacts ==
    ASSUME TypeOK
    PROVE  /\ pc = Idle => pc.at # "assigned"
           /\ pc = DisconnectingAll => pc.at # "assigned"
           /\ pc.at = "assigned" => pc.conn \in Conns /\ pc.stale \in Conns \union {None}
           /\ pc # Idle /\ pc # DisconnectingAll => pc.at = "assigned"
BY DEF TypeOK, Idle, DisconnectingAll

LEMMA AssignedFacts ==
    ASSUME NEW c, NEW s
    PROVE  /\ Assigned(c, s).at = "assigned"
           /\ Assigned(c, s).conn = c
           /\ Assigned(c, s).stale = s
BY DEF Assigned

\* Dropping a connection keeps the index, what is published and the reservations
\* consistent: outside onHostIdAssigned, and inside it for the stale predecessor.
LEMMA RemovalStep ==
    ASSUME HostInv, NEW c \in live, RemoveHostSession(c), UNCHANGED <<hostVars, temp_ids>>,
           \/ pc.at # "assigned" /\ pc'.at # "assigned"
           \/ pc.at = "assigned" /\ c = pc.stale /\ pc' = Assigned(pc.conn, None)
    PROVE  /\ live' \subseteq Conns /\ zombies' \subseteq Conns /\ published' \subseteq Ids
           /\ hosts_by_id' \in [Ids -> Conns \union {None}]
           /\ IndexInv' /\ PubInv' /\ TempInv'
<1> USE IdsFacts, AssignedFacts
<1>1. c \in Conns /\ live \subseteq Conns /\ zombies \subseteq Conns /\ host_id \in [Conns -> Ids \union {None}]
      /\ hosts_by_id \in [Ids -> Conns \union {None}] /\ published \subseteq Ids
  BY DEF HostInv, TypeOK
<1>2. /\ live' = live \ {c} /\ zombies' = zombies \union {c}
      /\ host_id' = host_id /\ host_key' = host_key /\ remove_sent' = remove_sent
      /\ temp_ids' = temp_ids
  BY DEF RemoveHostSession, hostVars
<1>3. hosts_by_id' = [i \in Ids |-> IF i = host_id[c] /\ hosts_by_id[i] = c THEN None
                                                                         ELSE hosts_by_id[i]]
  BY DEF RemoveHostSession
<1>4. hosts_by_id' \in [Ids -> Conns \union {None}]
  BY <1>1, <1>3
<1>5. /\ host_id[c] = None => published' = published
      /\ host_id[c] # None =>
           published' = IF hosts_by_id'[host_id[c]] # None /\ ~ remove_sent[hosts_by_id'[host_id[c]]]
                          THEN published \union {host_id[c]} ELSE published \ {host_id[c]}
  BY DEF RemoveHostSession, PublishHostState
<1>6. published' \subseteq Ids
  BY <1>1, <1>5
<1>7. IndexInv'
  <2>1. /\ \A d \in Conns : d \notin live' \/ d \notin zombies'
        /\ \A d \in Conns : d \notin live' /\ d \notin zombies' => host_id'[d] = None
        /\ \A d \in Conns : host_id'[d] # None => host_key'[d] # None
        /\ \A d \in Conns : remove_sent'[d] => host_id'[d] # None
    BY <1>1, <1>2 DEF HostInv, IndexInv
  <2>2. IndexNeverDangles'
    BY <1>1, <1>2, <1>3 DEF HostInv, IndexInv, IndexNeverDangles
  <2>3. \A d \in live' : host_id'[d] # None =>
           hosts_by_id'[host_id'[d]] = d \/ (pc'.at = "assigned" /\ pc'.stale = d)
    BY <1>1, <1>2, <1>3 DEF HostInv, IndexInv
  <2>4. pc'.at = "assigned" =>
          /\ pc'.conn \in live'
          /\ host_id'[pc'.conn] # None
          /\ hosts_by_id'[host_id'[pc'.conn]] = pc'.conn
          /\ pc'.stale # None => /\ pc'.stale \in live'
                                 /\ pc'.stale # pc'.conn
                                 /\ host_id'[pc'.stale] = host_id'[pc'.conn]
    BY <1>1, <1>2, <1>3 DEF HostInv, IndexInv
  <2> QED
    BY <2>1, <2>2, <2>3, <2>4 DEF IndexInv
<1>8. PubInv'
  <2> SUFFICES ASSUME NEW id \in Ids
               PROVE  \/ pc'.at = "assigned" /\ host_id'[pc'.conn] = id
                      \/ id \in published' <=> (hosts_by_id'[id] # None /\ ~ remove_sent'[hosts_by_id'[id]])
    BY DEF PubInv
  <2>1. CASE id = host_id[c]
    BY <1>1, <1>2, <1>5, <2>1
  <2>2. CASE id # host_id[c]
    BY <1>1, <1>2, <1>3, <1>5, <2>2 DEF HostInv, PubInv
  <2> QED
    BY <2>1, <2>2
<1>9. TempInv'
  BY <1>1, <1>2 DEF HostInv, TempInv, TempIdsUnique, Known
<1> QED
  BY <1>1, <1>2, <1>4, <1>6, <1>7, <1>8, <1>9

\* ~Host leaves well-typed fields behind.
LEMMA DestroyType ==
    ASSUME TypeOK, NEW gone, Destroy(gone)
    PROVE  /\ host_id' \in [Conns -> Ids \union {None}]
           /\ host_key' \in [Conns -> Keys \union {None}]
           /\ portable' \in [Conns -> BOOLEAN]
           /\ remove_sent' \in [Conns -> BOOLEAN]
           /\ requests' \in [Conns -> 0 .. MaxIdRequests]
<1>1. /\ host_id' \in [Conns -> Ids \union {None}]
      /\ host_key' \in [Conns -> Keys \union {None}]
      /\ requests' \in [Conns -> 0 .. MaxIdRequests]
  BY BoundsAssumption DEF TypeOK, Destroy
<1>2. portable' \in [Conns -> BOOLEAN] /\ remove_sent' \in [Conns -> BOOLEAN]
  BY Zenon DEF Destroy
<1> QED
  BY <1>1, <1>2

\* A step that leaves connections, ids, flags, index, publication and position alone.
LEMMA QuietStep ==
    ASSUME HostInv, UNCHANGED <<live, zombies, host_id, host_key, remove_sent, hosts_by_id,
                                published, temp_ids, pc>>
    PROVE  IndexInv' /\ PubInv' /\ TempInv'
BY DEF HostInv, IndexInv, PubInv, TempInv, IndexNeverDangles, TempIdsUnique, Known

\* A connection without an id gets one that no other object in the way of it has, or one
\* whose holder becomes the stale predecessor.
LEMMA AssignStep ==
    ASSUME HostInv, NEW c \in live, NEW id \in Ids, NEW sent \in BOOLEAN, NEW k \in Keys,
           pc = Idle, host_id[c] = None,
           host_id' = [host_id EXCEPT ![c] = id],
           host_key' = [host_key EXCEPT ![c] = k],
           remove_sent' = [remove_sent EXCEPT ![c] = sent],
           OnHostIdAssigned(c, id),
           UNCHANGED <<live, zombies, published>>,
           \/ id \in FreeTempIds /\ temp_ids' = temp_ids \union {id}
           \/ id \in PermIds /\ temp_ids' = temp_ids
    PROVE  /\ hosts_by_id' \in [Ids -> Conns \union {None}]
           /\ pc' \in [at : {"assigned"}, conn : Conns, stale : Conns \union {None}]
           /\ IndexInv' /\ PubInv' /\ TempInv'
<1> USE IdsFacts, AssignedFacts
<1>1. /\ c \in Conns /\ live \subseteq Conns /\ zombies \subseteq Conns
      /\ host_id \in [Conns -> Ids \union {None}] /\ host_key \in [Conns -> Keys \union {None}]
      /\ remove_sent \in [Conns -> BOOLEAN]
      /\ hosts_by_id \in [Ids -> Conns \union {None}]
      /\ pc.at # "assigned"
  BY PcFacts DEF HostInv, TypeOK
<1>2. /\ hosts_by_id' = [hosts_by_id EXCEPT ![id] = c]
      /\ pc' = Assigned(c, hosts_by_id[id])
  BY DEF OnHostIdAssigned
<1>3. k # None
  BY BoundsAssumption DEF Keys, None
<1>4. /\ pc'.at = "assigned" /\ pc'.conn = c /\ pc'.stale = hosts_by_id[id]
      /\ pc' \in [at : {"assigned"}, conn : Conns, stale : Conns \union {None}]
  BY <1>1, <1>2 DEF Assigned
<1>5. hosts_by_id[id] # c
  BY <1>1 DEF HostInv, IndexInv, IndexNeverDangles
<1>6. IndexInv'
  <2>1. /\ \A d \in Conns : d \notin live' \/ d \notin zombies'
        /\ \A d \in Conns : d \notin live' /\ d \notin zombies' => host_id'[d] = None
        /\ \A d \in Conns : host_id'[d] # None => host_key'[d] # None
        /\ \A d \in Conns : remove_sent'[d] => host_id'[d] # None
    BY <1>1, <1>3 DEF HostInv, IndexInv
  <2>2. IndexNeverDangles'
    BY <1>1, <1>2 DEF HostInv, IndexInv, IndexNeverDangles
  <2>3. \A d \in live' : host_id'[d] # None =>
           hosts_by_id'[host_id'[d]] = d \/ (pc'.at = "assigned" /\ pc'.stale = d)
    BY <1>1, <1>2, <1>4 DEF HostInv, IndexInv
  <2>4. /\ pc'.conn \in live'
        /\ host_id'[pc'.conn] # None
        /\ hosts_by_id'[host_id'[pc'.conn]] = pc'.conn
        /\ pc'.stale # None => /\ pc'.stale \in live'
                               /\ pc'.stale # pc'.conn
                               /\ host_id'[pc'.stale] = host_id'[pc'.conn]
    BY <1>1, <1>2, <1>4, <1>5 DEF HostInv, IndexInv, IndexNeverDangles
  <2> QED
    BY <2>1, <2>2, <2>3, <2>4 DEF IndexInv
<1>7. PubInv'
  <2> SUFFICES ASSUME NEW i \in Ids, i # id
               PROVE  i \in published' <=> (hosts_by_id'[i] # None /\ ~ remove_sent'[hosts_by_id'[i]])
    BY <1>1, <1>4 DEF PubInv
  <2>1. hosts_by_id'[i] = hosts_by_id[i] /\ hosts_by_id[i] # c
    BY <1>1, <1>2 DEF HostInv, IndexInv, IndexNeverDangles
  <2>2. i \in published <=> (hosts_by_id[i] # None /\ ~ remove_sent[hosts_by_id[i]])
    BY <1>1 DEF HostInv, PubInv
  <2>3. hosts_by_id[i] # None => remove_sent'[hosts_by_id[i]] = remove_sent[hosts_by_id[i]]
    BY <1>1, <2>1
  <2> QED
    BY <2>1, <2>2, <2>3
<1>8. TempInv'
  BY <1>1 DEF HostInv, TempInv, TempIdsUnique, Known, FreeTempIds
<1> QED
  BY <1>1, <1>2, <1>4, <1>6, <1>7, <1>8

\* ~Host: nothing that lives refers to the object, and no other object has its
\* temporary id.
LEMMA DestroyStep ==
    ASSUME HostInv, NEW c \in Conns, DestroyHost(c)
    PROVE  IndexInv' /\ PubInv' /\ TempInv'
<1> USE IdsFacts
<1>1. /\ live \subseteq Conns /\ zombies \subseteq Conns
      /\ host_id \in [Conns -> Ids \union {None}] /\ host_key \in [Conns -> Keys \union {None}]
      /\ remove_sent \in [Conns -> BOOLEAN]
      /\ hosts_by_id \in [Ids -> Conns \union {None}]
      /\ pc.at # "assigned"
  BY PcFacts DEF HostInv, TypeOK, DestroyHost
<1>2. /\ c \in zombies /\ c \notin live /\ zombies' = zombies \ {c}
      /\ live' = live /\ hosts_by_id' = hosts_by_id /\ published' = published /\ pc' = pc
      /\ temp_ids' = temp_ids \ Released({c})
  BY <1>1 DEF DestroyHost, HostInv, IndexInv
<1>3. /\ host_id' = [d \in Conns |-> IF d \in {c} THEN None ELSE host_id[d]]
      /\ host_key' = [d \in Conns |-> IF d \in {c} THEN None ELSE host_key[d]]
      /\ remove_sent' = [d \in Conns |-> remove_sent[d] /\ d \notin {c}]
  BY DEF DestroyHost, Destroy
<1>4. /\ host_id'[c] = None /\ host_key'[c] = None /\ ~ remove_sent'[c]
      /\ \A d \in Conns : d # c => /\ host_id'[d] = host_id[d] /\ host_key'[d] = host_key[d]
                                   /\ remove_sent'[d] <=> remove_sent[d]
  BY <1>3, Zenon
<1>5. IndexInv'
  BY <1>1, <1>2, <1>4 DEF HostInv, IndexInv, IndexNeverDangles
<1>6. PubInv'
  BY <1>1, <1>2, <1>4 DEF HostInv, PubInv, IndexInv, IndexNeverDangles
<1>7. Released({c}) = {host_id[c]} \intersect TempIds
  BY DEF Released
<1>8. TempInv'
  <2>1. ASSUME NEW d \in Known' PROVE d \in Known /\ d # c /\ host_id'[d] = host_id[d]
    BY <1>1, <1>2, <1>4, <2>1 DEF Known
  <2>2. ASSUME NEW d \in Known', host_id'[d] \in TempIds PROVE host_id'[d] \in temp_ids'
    <3>1. host_id[d] \in temp_ids
      BY <2>1, <2>2 DEF HostInv, TempInv
    <3>2. host_id[d] # host_id[c]
      BY <1>2, <2>1, <2>2 DEF HostInv, TempInv, TempIdsUnique, Known
    <3> QED
      BY <1>2, <1>7, <2>1, <3>1, <3>2
  <2>3. TempIdsUnique'
    BY <2>1 DEF HostInv, TempInv, TempIdsUnique, Known
  <2> QED
    BY <2>2, <2>3 DEF TempInv
<1> QED
  BY <1>5, <1>6, <1>8

\* doRemoveHost takes the flagged holder out of what is published.
LEMMA RemoveHostStep ==
    ASSUME HostInv, NEW r \in hosts, DoRemoveHost(r)
    PROVE  /\ remove_sent' \in [Conns -> BOOLEAN] /\ published' \subseteq Ids
           /\ IndexInv' /\ PubInv' /\ TempInv'
<1> USE IdsFacts
<1>1. /\ live \subseteq Conns /\ zombies \subseteq Conns
      /\ host_id \in [Conns -> Ids \union {None}]
      /\ remove_sent \in [Conns -> BOOLEAN] /\ published \subseteq Ids
      /\ hosts_by_id \in [Ids -> Conns \union {None}]
      /\ pc.at # "assigned" /\ r.id \in Ids
  BY PcFacts DEF HostInv, TypeOK, DoRemoveHost, Row, Ids
<1>2. /\ live' = live /\ zombies' = zombies /\ hosts_by_id' = hosts_by_id /\ pc' = pc
      /\ host_id' = host_id /\ host_key' = host_key /\ temp_ids' = temp_ids
  BY DEF DoRemoveHost
<1>3. CASE hosts_by_id[r.id] = None
  <2>1. remove_sent' = remove_sent /\ published' = published
    BY <1>3 DEF DoRemoveHost
  <2> QED
    BY <1>1, <1>2, <2>1, QuietStep
<1>4. CASE hosts_by_id[r.id] # None
  <2> DEFINE h == hosts_by_id[r.id]
  <2>1. /\ h \in Conns /\ h \in live /\ host_id[h] = r.id
    BY <1>1, <1>4 DEF HostInv, IndexInv, IndexNeverDangles
  <2>2. remove_sent' = [remove_sent EXCEPT ![h] = TRUE]
    BY <1>4 DEF DoRemoveHost
  <2>3. remove_sent'[h] /\ \A d \in Conns : d # h => (remove_sent'[d] <=> remove_sent[d])
    BY <1>1, <2>1, <2>2
  <2>4. published' = published \ {r.id}
    BY <1>4, <2>3 DEF DoRemoveHost, PublishHostState
  <2>5. IndexInv'
    BY <1>1, <1>2, <2>1, <2>3 DEF HostInv, IndexInv, IndexNeverDangles
  <2>6. PubInv'
    BY <1>1, <1>2, <2>1, <2>3, <2>4 DEF HostInv, PubInv, IndexInv, IndexNeverDangles
  <2>7. TempInv'
    BY <1>2 DEF HostInv, TempInv, TempIdsUnique, Known
  <2> QED
    BY <1>1, <2>2, <2>4, <2>5, <2>6, <2>7
<1> QED
  BY <1>3, <1>4

\* Every step keeps the invariant.
LEMMA HostStep == ASSUME HostInv, [Next]_vars PROVE HostInv'
<1> USE IdsFacts
<1> SUFFICES ASSUME Next PROVE HostInv'
  <2>1. CASE UNCHANGED vars
    <3>1. TypeOK'
      BY <2>1 DEF HostInv, TypeOK, vars
    <3> QED
      BY <2>1, <3>1, QuietStep DEF HostInv, vars
  <2> QED
    BY <2>1
<1>t. TypeOK
  BY DEF HostInv
<1>1. ASSUME NEW c \in Conns, NewHostConnection(c) PROVE HostInv'
  <2>1. TypeOK'
    BY <1>t, <1>1 DEF TypeOK, NewHostConnection, hostVars, dbVars
  <2>2. /\ c \notin live /\ c \notin zombies /\ live' = live \union {c} /\ zombies' = zombies
        /\ host_id' = host_id /\ host_key' = host_key /\ remove_sent' = remove_sent
        /\ hosts_by_id' = hosts_by_id /\ published' = published /\ temp_ids' = temp_ids
        /\ pc' = pc /\ host_id[c] = None /\ pc.at # "assigned"
    BY <1>t, <1>1, PcFacts DEF HostInv, IndexInv, NewHostConnection, hostVars
  <2>3. IndexInv'
    BY <1>t, <2>2 DEF HostInv, IndexInv, IndexNeverDangles, TypeOK
  <2>4. PubInv'
    BY <2>2 DEF HostInv, PubInv
  <2>5. TempInv'
    <3>1. None \notin TempIds
      BY DEF Ids
    <3> QED
      BY <2>2, <3>1 DEF HostInv, TempInv, TempIdsUnique, Known
  <2> QED
    BY <2>1, <2>3, <2>4, <2>5 DEF HostInv
<1>2. ASSUME NEW c \in live, RemoveHostSession(c), pc.at # "assigned", pc'.at # "assigned",
             pc' \in {Idle, DisconnectingAll}, hosts' \subseteq Row, next_id' \in 1 .. MaxPermanent + 1,
             UNCHANGED <<hostVars, temp_ids, hosts_remove, next_key, offers, told>>
      PROVE  HostInv'
  <2>1. /\ live' \subseteq Conns /\ zombies' \subseteq Conns /\ published' \subseteq Ids
        /\ hosts_by_id' \in [Ids -> Conns \union {None}]
        /\ IndexInv' /\ PubInv' /\ TempInv'
    BY <1>2, RemovalStep
  <2>2. TypeOK'
    BY <1>t, <1>2, <2>1 DEF TypeOK, hostVars
  <2> QED
    BY <2>1, <2>2 DEF HostInv
<1>3. ASSUME NEW c \in Conns, HostFinished(c) \/ DropSilent(c) PROVE HostInv'
  BY <1>t, <1>2, <1>3, PcFacts DEF HostFinished, DropSilent, IsSilent, dbVars, TypeOK
<1>4. ASSUME NEW c \in Conns, DestroyHost(c) PROVE HostInv'
  <2>1. TypeOK'
    BY <1>t, <1>4, DestroyType DEF TypeOK, DestroyHost
  <2> QED
    BY <1>4, <2>1, DestroyStep DEF HostInv
<1>5. ASSUME NEW c \in Conns, NEW id \in TempIds, NEW p \in BOOLEAN, IssueTempId(c, id, p)
      PROVE  HostInv'
  <2>1. /\ c \in live /\ id \in Ids /\ pc = Idle /\ host_id[c] = None /\ next_key \in Keys
        /\ requests[c] < MaxIdRequests
    BY <1>t, <1>5, BoundsAssumption DEF IssueTempId, MayRequest, Ids, Keys, TypeOK
  <2>2. ~ remove_sent[c] => remove_sent' = [remove_sent EXCEPT ![c] = FALSE]
    BY <1>t, <1>5 DEF IssueTempId, TypeOK
  <2>3. remove_sent[c] => remove_sent' = [remove_sent EXCEPT ![c] = TRUE]
    BY <1>t, <1>5 DEF IssueTempId, TypeOK
  <2>4. /\ hosts_by_id' \in [Ids -> Conns \union {None}]
        /\ pc' \in [at : {"assigned"}, conn : Conns, stale : Conns \union {None}]
        /\ IndexInv' /\ PubInv' /\ TempInv'
    <3>1. /\ host_id' = [host_id EXCEPT ![c] = id]
          /\ host_key' = [host_key EXCEPT ![c] = next_key]
          /\ OnHostIdAssigned(c, id)
          /\ UNCHANGED <<live, zombies, published>>
          /\ id \in FreeTempIds /\ temp_ids' = temp_ids \union {id}
      BY <1>5 DEF IssueTempId
    <3>2. CASE remove_sent[c]
      BY <2>1, <2>3, <3>1, <3>2, AssignStep
    <3>3. CASE ~ remove_sent[c]
      BY <2>1, <2>2, <3>1, <3>3, AssignStep
    <3> QED
      BY <3>2, <3>3
  <2>5. TypeOK'
    BY <1>t, <1>5, <2>1, <2>4, BoundsAssumption DEF TypeOK, IssueTempId, dbVars, Keys
  <2> QED
    BY <2>4, <2>5 DEF HostInv
<1>6. ASSUME NEW c \in Conns, NEW row \in hosts \union hosts_remove, NEW p \in BOOLEAN,
             ExistingId(c, row, p)
      PROVE  HostInv'
  <2>1. /\ c \in live /\ row.id \in PermIds /\ row.id \in Ids /\ pc = Idle /\ host_id[c] = None
        /\ row.key \in Keys /\ requests[c] < MaxIdRequests
    BY <1>t, <1>6 DEF ExistingId, MayRequest, Ids, TypeOK, Row
  <2>2. /\ hosts_by_id' \in [Ids -> Conns \union {None}]
        /\ pc' \in [at : {"assigned"}, conn : Conns, stale : Conns \union {None}]
        /\ IndexInv' /\ PubInv' /\ TempInv'
    <3>1. /\ host_id' = [host_id EXCEPT ![c] = row.id]
          /\ host_key' = [host_key EXCEPT ![c] = row.key]
          /\ remove_sent' = [remove_sent EXCEPT ![c] = p]
          /\ OnHostIdAssigned(c, row.id)
          /\ UNCHANGED <<live, zombies, published>> /\ temp_ids' = temp_ids
      BY <1>6 DEF ExistingId
    <3> QED
      BY <2>1, <3>1, AssignStep
  <2>3. TypeOK'
    BY <1>t, <1>6, <2>1, <2>2, BoundsAssumption DEF TypeOK, ExistingId, dbVars
  <2> QED
    BY <2>2, <2>3 DEF HostInv
<1>7. ASSUME NEW c \in Conns, NotFound(c) PROVE HostInv'
  <2>1. TypeOK'
    BY <1>t, <1>7, BoundsAssumption DEF TypeOK, NotFound, MayRequest, dbVars
  <2> QED
    BY <1>7, <2>1, QuietStep DEF HostInv, NotFound
<1>8. CASE DropStale
  <2>1. pc.stale \in live /\ pc.conn \in Conns
    BY <1>t, <1>8, PcFacts DEF DropStale, HostInv, IndexInv
  <2>2. /\ live' \subseteq Conns /\ zombies' \subseteq Conns /\ published' \subseteq Ids
        /\ hosts_by_id' \in [Ids -> Conns \union {None}]
        /\ IndexInv' /\ PubInv' /\ TempInv'
    BY <1>8, <2>1, RemovalStep DEF DropStale
  <2>3. pc' \in [at : {"assigned"}, conn : Conns, stale : Conns \union {None}]
    BY <1>8, <2>1 DEF DropStale, Assigned
  <2>4. TypeOK'
    BY <1>t, <1>8, <2>2, <2>3 DEF TypeOK, DropStale, hostVars, dbVars
  <2> QED
    BY <2>2, <2>4 DEF HostInv
<1>9. CASE PublishAssigned
  <2>1. /\ pc.at = "assigned" /\ pc.conn \in Conns /\ pc.stale = None
        /\ host_id[pc.conn] \in Ids /\ hosts_by_id[host_id[pc.conn]] = pc.conn
    BY <1>t, <1>9, PcFacts DEF PublishAssigned, HostInv, IndexInv, TypeOK
  <2>2. /\ live' = live /\ zombies' = zombies /\ host_id' = host_id /\ host_key' = host_key
        /\ remove_sent' = remove_sent /\ hosts_by_id' = hosts_by_id /\ temp_ids' = temp_ids
        /\ pc' = Idle /\ pc'.at # "assigned"
    BY <1>9 DEF PublishAssigned, hostVars, Idle
  <2>3. published' = IF ~ remove_sent[pc.conn] THEN published \union {host_id[pc.conn]}
                                               ELSE published \ {host_id[pc.conn]}
    BY <1>9, <2>1 DEF PublishAssigned, PublishHostState
  <2>4. TypeOK'
    BY <1>t, <1>9, <2>1, <2>2, <2>3 DEF TypeOK, PublishAssigned, hostVars, dbVars
  <2>5. IndexInv'
    <3>1. \A d \in live : d # None
      BY <1>t DEF TypeOK
    <3>2. \A d \in live : host_id[d] # None => hosts_by_id[host_id[d]] = d
      BY <2>1, <3>1 DEF HostInv, IndexInv
    <3>3. IndexNeverDangles'
      BY <2>2 DEF HostInv, IndexInv, IndexNeverDangles
    <3> QED
      BY <2>2, <3>2, <3>3 DEF HostInv, IndexInv
  <2>6. PubInv'
    BY <1>t, <2>1, <2>2, <2>3 DEF HostInv, PubInv, TypeOK
  <2>7. TempInv'
    BY <2>2 DEF HostInv, TempInv, TempIdsUnique, Known
  <2> QED
    BY <2>4, <2>5, <2>6, <2>7 DEF HostInv
<1>10. ASSUME NEW id \in Ids, DoDisconnectHost(id) PROVE HostInv'
  <2>1. hosts_by_id[id] \in live
    BY <1>10 DEF DoDisconnectHost, HostInv, IndexInv, IndexNeverDangles
  <2> QED
    BY <1>t, <1>2, <1>10, <2>1, PcFacts DEF DoDisconnectHost, dbVars, TypeOK
<1>11. CASE DisconnectAll
  <2>1. TypeOK' /\ pc.at # "assigned" /\ pc'.at # "assigned"
    BY <1>t, <1>11, PcFacts DEF TypeOK, DisconnectAll, DisconnectingAll, hostVars, dbVars
  <2>2. IndexInv' /\ PubInv' /\ TempInv'
    BY <1>11, <2>1 DEF HostInv, IndexInv, PubInv, TempInv, IndexNeverDangles, TempIdsUnique, Known,
                       DisconnectAll, hostVars
  <2> QED
    BY <2>1, <2>2 DEF HostInv
<1>12. ASSUME NEW c \in Conns, DisconnectNext(c) PROVE HostInv'
  <2>1. pc.at # "assigned" /\ pc'.at # "assigned" /\ pc' \in {Idle, DisconnectingAll}
    BY <1>12 DEF DisconnectNext, Idle, DisconnectingAll
  <2> QED
    BY <1>t, <1>2, <1>12, <2>1 DEF DisconnectNext, dbVars, TypeOK
<1>13. ASSUME NEW r \in hosts, DoRemoveHost(r) PROVE HostInv'
  <2>1. /\ remove_sent' \in [Conns -> BOOLEAN] /\ published' \subseteq Ids
        /\ IndexInv' /\ PubInv' /\ TempInv'
    BY <1>13, RemoveHostStep
  <2>2. TypeOK'
    BY <1>t, <1>13, <2>1 DEF TypeOK, DoRemoveHost, Schedule
  <2> QED
    BY <2>1, <2>2 DEF HostInv
<1>14. ASSUME NEW id \in TempIds, DoApproveHost(id) PROVE HostInv'
  <2> DEFINE h == hosts_by_id[id]
  <2>1. h \in live /\ h \in Conns /\ host_key[h] \in Keys
    BY <1>t, <1>14 DEF DoApproveHost, HostInv, IndexInv, IndexNeverDangles, TypeOK, Ids
  <2>2. hosts' \subseteq Row /\ next_id' \in 1 .. MaxPermanent + 1
    BY <1>t, <1>14, <2>1, BoundsAssumption DEF DoApproveHost, AddHost, TypeOK, Row, PermIds
  <2> QED
    BY <1>t, <1>2, <1>14, <2>1, <2>2, PcFacts DEF DoApproveHost, TypeOK
<1>15. ASSUME NEW r \in hosts_remove, PruneRemoval(r) PROVE HostInv'
  <2>1. TypeOK'
    BY <1>t, <1>15 DEF TypeOK, PruneRemoval, hostVars
  <2> QED
    BY <1>15, <2>1, QuietStep DEF HostInv, PruneRemoval, hostVars
<1>16. ASSUME NEW clean \in BOOLEAN, Restart(clean) PROVE HostInv'
  <2>1. TypeOK'
    BY <1>t, <1>16, DestroyType DEF TypeOK, Restart
  <2>2. /\ live' = {} /\ zombies' = {} /\ published' = {} /\ pc' = Idle
        /\ \A c \in Conns : host_id'[c] = None /\ ~ remove_sent'[c]
        /\ \A i \in Ids : hosts_by_id'[i] = None
    BY <1>t, <1>16 DEF Restart, Destroy, TypeOK
  <2>3. IndexInv' /\ PubInv' /\ TempInv'
    BY <2>2 DEF IndexInv, PubInv, TempInv, IndexNeverDangles, TempIdsUnique, Known, Idle
  <2> QED
    BY <2>1, <2>3 DEF HostInv
<1>17. ASSUME NEW id \in Ids, PostOffer(id) PROVE HostInv'
  <2>1. host_key[hosts_by_id[id]] \in Keys
    BY <1>t, <1>17 DEF PostOffer, HostInv, IndexInv, IndexNeverDangles, TypeOK
  <2>2. TypeOK'
    BY <1>t, <1>17, <2>1 DEF TypeOK, PostOffer, hostVars, dbVars
  <2> QED
    BY <1>17, <2>2, QuietStep DEF HostInv, PostOffer, hostVars
<1>18. CASE SendConnectionOffer
  <2>1. TypeOK'
    BY <1>t, <1>18 DEF TypeOK, SendConnectionOffer, hostVars, dbVars
  <2> QED
    BY <1>18, <2>1, QuietStep DEF HostInv, SendConnectionOffer, hostVars
<1>19. ASSUME NEW c \in Conns, ReceiveRemove(c) PROVE HostInv'
  <2>1. host_key[c] \in Keys
    BY <1>t, <1>19 DEF ReceiveRemove, HostInv, IndexInv, TypeOK
  <2>2. TypeOK'
    BY <1>t, <1>19, <2>1 DEF TypeOK, ReceiveRemove, hostVars, dbVars
  <2> QED
    BY <1>19, <2>2, QuietStep DEF HostInv, ReceiveRemove, hostVars
<1> QED
  BY <1>1, <1>3, <1>4, <1>5, <1>6, <1>7, <1>8, <1>9, <1>10, <1>11, <1>12, <1>13, <1>14, <1>15,
     <1>16, <1>17, <1>18, <1>19 DEF Next

LEMMA HostInit == Init => HostInv
<1> SUFFICES ASSUME Init PROVE HostInv
  OBVIOUS
<1>1. TypeOK
  BY BoundsAssumption DEF Init, TypeOK, None
<1>2. IndexInv /\ PubInv /\ TempInv
  BY IdsFacts DEF Init, IndexInv, PubInv, TempInv, IndexNeverDangles, TempIdsUnique, Known, Idle, None
<1> QED
  BY <1>1, <1>2 DEF HostInv

\* The index, the publication and the reserved temporary ids stay consistent with each
\* other through every handler of HostWorker, its intermediate positions included.
THEOREM HostInvariant == Spec => []HostInv
<1>1. HostInv /\ [Next]_vars => HostInv'
  BY HostStep
<1> QED
  BY <1>1, HostInit, PTL DEF Spec

\* Every variable of the worker keeps its type.
THEOREM TypeCorrect == Spec => []TypeOK
<1>1. HostInv => TypeOK
  BY DEF HostInv
<1> QED
  BY <1>1, HostInvariant, PTL

\* hosts_by_id_ never points to an object that removeHostSession has given up.
THEOREM IndexSound == Spec => []IndexNeverDangles
<1>1. HostInv => IndexNeverDangles
  BY DEF HostInv, IndexInv
<1> QED
  BY <1>1, HostInvariant, PTL

\* Between handlers one connection holds an id, and the index names it.
THEOREM ConnectionsUnique == Spec => []OneConnectionPerId
<1>1. HostInv => OneConnectionPerId
  BY DEF HostInv, IndexInv, OneConnectionPerId
<1> QED
  BY <1>1, HostInvariant, PTL

\* Between handlers clients see exactly the indexed hosts that are welcome.
THEOREM PublicationExact == Spec => []PublishedExactly
<1>1. HostInv => PublishedExactly
  BY DEF HostInv, PubInv, PublishedExactly, TypeOK
<1> QED
  BY <1>1, HostInvariant, PTL

\* Temporary ids are unique among all objects, those awaiting deletion included.
THEOREM TempIdsNeverShared == Spec => []TempIdsUnique
<1>1. HostInv => TempIdsUnique
  BY DEF HostInv, TempInv
<1> QED
  BY <1>1, HostInvariant, PTL

----------------------------------------------------------------------------
(* What client threads see in the middle of onHostIdAssigned               *)

\* A step that ends inside onHostIdAssigned leaves what is published alone, unless it
\* drops the predecessor, and then the newcomer's state is what is published.
LEMMA AssigningStep ==
    ASSUME HostInv, HostInv', Next, pc'.at = "assigned"
    PROVE  \/ published' = published /\ hosts_remove' = hosts_remove
           \/ /\ hosts_remove' = hosts_remove
              /\ pc'.stale = None
              /\ host_id'[pc'.conn] \in published' <=> ~ remove_sent'[pc'.conn]
<1>t. TypeOK
  BY DEF HostInv
<1>i. pc' # Idle /\ pc' # DisconnectingAll
  BY DEF Idle, DisconnectingAll
<1>n. pc # Idle /\ pc # DisconnectingAll => pc.at = "assigned"
  BY <1>t, PcFacts
<1>1. CASE DropStale
  <2>1. /\ pc.stale # None /\ RemoveHostSession(pc.stale) /\ pc' = Assigned(pc.conn, None)
        /\ UNCHANGED <<hostVars, hosts_remove>> /\ pc.at = "assigned"
    BY <1>1 DEF DropStale, dbVars
  <2>2. /\ pc'.conn = pc.conn /\ pc'.stale = None /\ host_id' = host_id /\ remove_sent' = remove_sent
    BY <2>1, AssignedFacts DEF hostVars
  <2>3. host_id[pc.stale] = host_id[pc.conn] /\ host_id[pc.conn] # None
    BY <2>1 DEF HostInv, IndexInv
  <2>4. hosts_by_id'[host_id[pc.conn]] = pc.conn /\ pc.conn # None
    <3>1. pc.conn \in Conns
      BY <1>t, <2>1, PcFacts
    <3> QED
      BY <2>2, <3>1, IdsFacts DEF HostInv, IndexInv
  <2>5. published' = IF ~ remove_sent[pc.conn] THEN published \union {host_id[pc.conn]}
                                               ELSE published \ {host_id[pc.conn]}
    BY <2>1, <2>3, <2>4 DEF RemoveHostSession, PublishHostState
  <2> QED
    BY <2>1, <2>2, <2>5
<1>2. CASE pc = Idle /\ ~ DropStale
  <2>1. \/ \E c \in Conns, id \in TempIds, p \in BOOLEAN : IssueTempId(c, id, p)
        \/ \E c \in Conns, row \in hosts \union hosts_remove, p \in BOOLEAN : ExistingId(c, row, p)
    BY <1>i, <1>2, PcFacts, <1>t DEF Next, NewHostConnection, HostFinished, DropSilent, DestroyHost,
       NotFound, PublishAssigned, DoDisconnectHost, DisconnectAll, DisconnectNext, DoRemoveHost,
       DoApproveHost, PruneRemoval, Restart, PostOffer, SendConnectionOffer, ReceiveRemove
  <2> QED
    BY <2>1 DEF IssueTempId, ExistingId, dbVars
<1>3. CASE pc # Idle /\ ~ DropStale
  <2>1. (\E id \in Ids : PostOffer(id)) \/ (\E c \in Conns : ReceiveRemove(c))
    BY <1>i, <1>3 DEF Next, NewHostConnection, HostFinished, DropSilent, DestroyHost, IssueTempId,
       ExistingId, MayRequest, NotFound, PublishAssigned, DoDisconnectHost, DisconnectAll,
       DisconnectNext, DoRemoveHost, DoApproveHost, PruneRemoval, Restart, SendConnectionOffer
  <2> QED
    BY <2>1 DEF PostOffer, ReceiveRemove, dbVars
<1> QED
  BY <1>1, <1>2, <1>3

\* A host that reconnects and displaces its stale predecessor is never seen offline: it
\* leaves what is published only when no welcome connection of it is left.
THEOREM NeverOfflineGap == Spec => NoOfflineGap
<1>1. ASSUME HostInv, HostInv', [Next]_vars
      PROVE  [\A id \in published \ published' :
                 ~ \E c \in live' : host_id'[c] = id /\ ~ remove_sent'[c]]_vars
  <2> SUFFICES ASSUME Next, NEW id \in published, id \notin published', NEW c \in live',
                      host_id'[c] = id, ~ remove_sent'[c]
               PROVE  FALSE
    BY <1>1
  <2>1. /\ c \in Conns /\ id \in Ids /\ id # None /\ c # None
    BY <1>1, IdsFacts DEF HostInv, TypeOK
  <2>2. hosts_by_id'[id] = c \/ (pc'.at = "assigned" /\ pc'.stale = c)
    BY <1>1, <2>1 DEF HostInv, IndexInv
  <2>3. CASE pc'.at = "assigned" /\ host_id'[pc'.conn] = id
    <3>1. pc'.stale = None /\ remove_sent'[pc'.conn]
      BY <1>1, <2>3, AssigningStep
    <3>2. hosts_by_id'[id] = pc'.conn
      BY <1>1, <2>3 DEF HostInv, IndexInv
    <3> QED
      BY <2>1, <2>2, <3>1, <3>2
  <2>4. CASE ~ (pc'.at = "assigned" /\ host_id'[pc'.conn] = id)
    <3>1. ~ (hosts_by_id'[id] # None /\ ~ remove_sent'[hosts_by_id'[id]])
      BY <1>1, <2>1, <2>4 DEF HostInv, PubInv
    <3>2. ~ (pc'.at = "assigned" /\ pc'.stale = c)
      BY <1>1, <2>1, <2>4 DEF HostInv, IndexInv
    <3> QED
      BY <2>1, <2>2, <3>1, <3>2
  <2> QED
    BY <2>3, <2>4
<1> QED
  BY <1>1, HostInvariant, PTL DEF Spec, NoOfflineGap

----------------------------------------------------------------------------
(* Hosts whose removal is scheduled                                        *)

\* A connection that carries an id whose removal is scheduled was sent the command.
RemovalFlagged ==
    \A r \in hosts_remove, c \in live : host_id[c] = r.id => remove_sent[c]

\* With a database that answers, every step keeps the flags of the scheduled removals.
LEMMA FlaggedStep ==
    ASSUME DbMayFail = FALSE, HostInv, HostInv', RemovalFlagged, Next
    PROVE  RemovalFlagged'
<1> USE IdsFacts
<1>t. /\ live \subseteq Conns /\ zombies \subseteq Conns
      /\ host_id \in [Conns -> Ids \union {None}]
      /\ remove_sent \in [Conns -> BOOLEAN]
      /\ hosts_remove \subseteq Row /\ hosts \subseteq Row
      /\ \A r \in hosts \union hosts_remove : r.id \in PermIds /\ r.id \in Ids /\ r.id # None
  BY DEF HostInv, TypeOK, Row, Ids
<1>s. ASSUME hosts_remove' \subseteq hosts_remove,
             \A d \in live' : \/ d \in live /\ host_id'[d] = host_id[d]
                                            /\ remove_sent'[d] = remove_sent[d]
                              \/ host_id'[d] \notin PermIds
      PROVE  RemovalFlagged'
  BY <1>t, <1>s DEF RemovalFlagged
<1>1. ASSUME NEW c \in Conns, NewHostConnection(c) PROVE RemovalFlagged'
  <2>1. host_id[c] \notin PermIds
    BY <1>t, <1>1 DEF NewHostConnection, HostInv, IndexInv, Ids
  <2> QED
    BY <1>1, <1>s, <2>1 DEF NewHostConnection, hostVars, dbVars
<1>2. ASSUME NEW c, RemoveHostSession(c), UNCHANGED <<hostVars, hosts_remove>> PROVE RemovalFlagged'
  BY <1>s, <1>2 DEF RemoveHostSession, hostVars
<1>3. ASSUME NEW c \in Conns, DestroyHost(c) PROVE RemovalFlagged'
  <2>1. c \notin live /\ live' = live /\ hosts_remove' \subseteq hosts_remove
    BY <1>3 DEF DestroyHost, HostInv, IndexInv
  <2>2. \A d \in live : host_id'[d] = host_id[d] /\ (remove_sent'[d] = remove_sent[d])
    <3> SUFFICES ASSUME NEW d \in live PROVE host_id'[d] = host_id[d] /\ remove_sent'[d] = remove_sent[d]
      OBVIOUS
    <3>1. d \in Conns /\ d \notin {c}
      BY <1>t, <2>1
    <3>2. host_id'[d] = host_id[d]
      BY <1>3, <3>1 DEF DestroyHost, Destroy
    <3>3. remove_sent'[d] <=> remove_sent[d]
      BY <1>3, <3>1, Zenon DEF DestroyHost, Destroy
    <3>4. remove_sent'[d] \in BOOLEAN /\ remove_sent[d] \in BOOLEAN
      BY <1>t, <3>1 DEF HostInv, TypeOK
    <3> QED
      BY <3>2, <3>3, <3>4
  <2> QED
    BY <1>s, <2>1, <2>2
<1>4. ASSUME NEW c \in Conns, NEW id \in TempIds, NEW p \in BOOLEAN, IssueTempId(c, id, p)
      PROVE  RemovalFlagged'
  <2>1. \A d \in live : host_id'[d] = host_id[d] \/ host_id'[d] \notin PermIds
    BY <1>t, <1>4 DEF IssueTempId
  <2> QED
    BY <1>4, <1>s, <2>1 DEF IssueTempId, dbVars
<1>5. ASSUME NEW c \in Conns, NEW row \in hosts \union hosts_remove, NEW p \in BOOLEAN,
             ExistingId(c, row, p)
      PROVE  RemovalFlagged'
  <2>1. p = HasPendingHostRemoval(row.id)
    BY <1>5 DEF ExistingId, RemovalPending
  <2>2. /\ live' = live /\ hosts_remove' = hosts_remove
        /\ host_id' = [host_id EXCEPT ![c] = row.id]
        /\ remove_sent' = [remove_sent EXCEPT ![c] = p]
    BY <1>5 DEF ExistingId, dbVars
  <2> QED
    BY <1>t, <2>1, <2>2 DEF RemovalFlagged, HasPendingHostRemoval
<1>6. ASSUME NEW r \in hosts, DoRemoveHost(r) PROVE RemovalFlagged'
  <2>1. /\ live' = live /\ host_id' = host_id /\ hosts_by_id' = hosts_by_id
        /\ hosts_remove' \subseteq hosts_remove \union {r}
    BY <1>6 DEF DoRemoveHost, Schedule
  <2>2. pc.at # "assigned"
    BY <1>6, PcFacts DEF DoRemoveHost, HostInv
  <2>3. \A d \in live : host_id[d] = r.id => hosts_by_id[r.id] = d /\ d # None
    BY <1>t, <2>2 DEF HostInv, IndexInv
  <2>4. \A d \in live : remove_sent[d] \/ (host_id[d] = r.id) => remove_sent'[d]
    BY <1>t, <1>6, <2>3 DEF DoRemoveHost
  <2> QED
    BY <2>1, <2>4 DEF RemovalFlagged
<1>7. ASSUME NEW r \in hosts_remove, PruneRemoval(r) PROVE RemovalFlagged'
  BY <1>7, <1>s DEF PruneRemoval, hostVars
<1>8. ASSUME NEW clean \in BOOLEAN, Restart(clean) PROVE RemovalFlagged'
  BY <1>8 DEF Restart, RemovalFlagged
<1>9. ASSUME UNCHANGED <<live, host_id, remove_sent, hosts_remove>> PROVE RemovalFlagged'
  BY <1>9 DEF RemovalFlagged
<1>10. CASE \E c \in Conns : HostFinished(c) \/ DropSilent(c) \/ DisconnectNext(c)
  BY <1>2, <1>10 DEF HostFinished, DropSilent, DisconnectNext, dbVars
<1>11. CASE DropStale \/ (\E id \in Ids : DoDisconnectHost(id)) \/ (\E id \in TempIds : DoApproveHost(id))
  BY <1>2, <1>11 DEF DropStale, DoDisconnectHost, DoApproveHost, dbVars
<1>12. CASE \/ \E c \in Conns : NotFound(c) \/ ReceiveRemove(c)
            \/ PublishAssigned \/ DisconnectAll \/ SendConnectionOffer
            \/ \E id \in Ids : PostOffer(id)
  BY <1>9, <1>12 DEF NotFound, ReceiveRemove, PublishAssigned, DisconnectAll, SendConnectionOffer,
                     PostOffer, hostVars, dbVars
<1> QED
  BY <1>1, <1>3, <1>4, <1>5, <1>6, <1>7, <1>8, <1>10, <1>11, <1>12 DEF Next

\* If no read or deletion fails, a host whose removal is scheduled is never offered to a
\* client, whenever it reconnects and however its handlers interleave with the clients'.
THEOREM RemovedNeverOffered == ASSUME DbMayFail = FALSE PROVE Spec => []RemovedHostUnreachable
<1> DEFINE Inv == RemovalFlagged /\ RemovedHostUnreachable
<1>1. Init => Inv
  BY DEF Init, RemovalFlagged, RemovedHostUnreachable
<1>2. ASSUME HostInv, HostInv', Inv, [Next]_vars PROVE Inv'
  <2>1. CASE UNCHANGED vars
    BY <1>2, <2>1 DEF RemovalFlagged, RemovedHostUnreachable, vars
  <2>2. CASE Next
    <3>1. RemovalFlagged'
      BY <1>2, <2>2, FlaggedStep
    <3>2. ASSUME NEW r \in hosts_remove' PROVE r.id \notin published'
      <4>1. r.id \in Ids /\ r.id # None
        BY <1>2, IdsFacts DEF HostInv, TypeOK, Row, Ids
      <4>2. CASE pc'.at = "assigned" /\ host_id'[pc'.conn] = r.id
        <5>1. pc'.conn \in live' /\ remove_sent'[pc'.conn]
          BY <1>2, <3>1, <4>2 DEF HostInv, IndexInv, RemovalFlagged
        <5> QED
          BY <1>2, <2>2, <4>2, <5>1, AssigningStep DEF RemovedHostUnreachable
      <4>3. CASE ~ (pc'.at = "assigned" /\ host_id'[pc'.conn] = r.id)
        <5>1. r.id \in published' => hosts_by_id'[r.id] # None /\ ~ remove_sent'[hosts_by_id'[r.id]]
          BY <1>2, <4>1, <4>3 DEF HostInv, PubInv
        <5>2. hosts_by_id'[r.id] # None =>
                hosts_by_id'[r.id] \in live' /\ host_id'[hosts_by_id'[r.id]] = r.id
          BY <1>2, <4>1 DEF HostInv, IndexInv, IndexNeverDangles
        <5> QED
          BY <3>1, <3>2, <5>1, <5>2 DEF RemovalFlagged
      <4> QED
        BY <4>2, <4>3
    <3> QED
      BY <3>1, <3>2 DEF RemovedHostUnreachable
  <2> QED
    BY <1>2, <2>1, <2>2
<1> QED
  BY <1>1, <1>2, HostInvariant, PTL DEF Spec

----------------------------------------------------------------------------
(* One permanent id, one host                                              *)

\* A row of a table, an object or an offer on its way says that |id| is the host with |key|.
Claimed(id, key) ==
    \/ [id |-> id, key |-> key] \in hosts \union hosts_remove
    \/ \E c \in Known : host_id[c] = id /\ host_key[c] = key
    \/ \E i \in 1 .. Len(offers) : offers[i].id = id /\ offers[i].key = key

\* Whatever is said of a permanent id is said of one key, and only of ids handed out.
ClaimsAgree ==
    \A id \in PermIds, k \in Keys : Claimed(id, k) =>
        id < next_id /\ \A l \in Keys : Claimed(id, l) => k = l

\* Approving a host adds one claim: the host's key, under an id that was never used.
LEMMA ApproveStep ==
    ASSUME HostInv, NEW i \in TempIds, DoApproveHost(i), NEW id \in PermIds, NEW k \in Keys,
           Claimed(id, k)'
    PROVE  /\ next_id' = next_id + 1
           /\ Claimed(id, k) \/ (id = next_id /\ k = host_key[hosts_by_id[i]])
<1>1. hosts_by_id[i] \in live
  BY DEF DoApproveHost, HostInv, IndexInv, IndexNeverDangles, Ids
<1>2. /\ live' \union zombies' \subseteq live \union zombies
      /\ host_id' = host_id /\ host_key' = host_key
      /\ hosts' = hosts \union {[id |-> next_id, key |-> host_key[hosts_by_id[i]]]}
      /\ next_id' = next_id + 1 /\ hosts_remove' = hosts_remove /\ offers' = offers
  BY <1>1 DEF DoApproveHost, AddHost, RemoveHostSession, hostVars
<1> QED
  BY <1>2 DEF Claimed, Known

\* No other step adds a claim.
LEMMA ClaimStep ==
    ASSUME HostInv, HostInv', Next, ~ \E i \in TempIds : DoApproveHost(i),
           NEW id \in PermIds, NEW k \in Keys, Claimed(id, k)'
    PROVE  Claimed(id, k)
<1> USE IdsFacts
<1>t. TypeOK /\ TypeOK'
  BY DEF HostInv
<1>r. \A r \in hosts \union hosts_remove : r = [id |-> r.id, key |-> r.key] /\ r.id \in PermIds
  BY <1>t DEF TypeOK, Row
<1>s. ASSUME \A r \in hosts' \union hosts_remove' : r \in hosts \union hosts_remove,
             \A d \in live' \union zombies' :
                 \/ d \in live \union zombies /\ host_id'[d] = host_id[d] /\ host_key'[d] = host_key[d]
                 \/ host_id'[d] \notin PermIds,
             offers' = offers
      PROVE  Claimed(id, k)
  BY <1>s DEF Claimed, Known
<1>1. ASSUME NEW c \in Conns, NewHostConnection(c) PROVE Claimed(id, k)
  <2>1. host_id[c] \notin PermIds
    BY <1>1 DEF NewHostConnection, HostInv, IndexInv, Ids
  <2> QED
    BY <1>1, <1>s, <2>1 DEF NewHostConnection, hostVars, dbVars
<1>2. ASSUME NEW c, c \in live, RemoveHostSession(c), UNCHANGED <<hostVars, dbVars, offers>>
      PROVE  Claimed(id, k)
  BY <1>s, <1>2 DEF RemoveHostSession, hostVars, dbVars
<1>3. ASSUME NEW c \in Conns, DestroyHost(c) PROVE Claimed(id, k)
  <2>1. \A d \in live' \union zombies' : d \in live \union zombies /\ d \in Conns
    BY <1>t, <1>3 DEF DestroyHost, TypeOK
  <2>2. \A d \in Conns : \/ host_id'[d] = host_id[d] /\ host_key'[d] = host_key[d]
                         \/ host_id'[d] = None
    BY <1>t, <1>3 DEF DestroyHost, Destroy
  <2>3. None \notin PermIds
    BY DEF Ids
  <2> QED
    BY <1>3, <1>s, <2>1, <2>2, <2>3 DEF DestroyHost
<1>4. ASSUME NEW c \in Conns, NEW i \in TempIds, NEW p \in BOOLEAN, IssueTempId(c, i, p)
      PROVE  Claimed(id, k)
  <2>1. \A d \in live \union zombies : \/ host_id'[d] = host_id[d] /\ host_key'[d] = host_key[d]
                                       \/ host_id'[d] \notin PermIds
    BY <1>t, <1>4 DEF IssueTempId, TypeOK
  <2> QED
    BY <1>4, <1>s, <2>1 DEF IssueTempId, dbVars
<1>5. ASSUME NEW c \in Conns, NEW row \in hosts \union hosts_remove, NEW p \in BOOLEAN,
             ExistingId(c, row, p)
      PROVE  Claimed(id, k)
  <2>1. /\ live' = live /\ zombies' = zombies /\ hosts' = hosts /\ hosts_remove' = hosts_remove
        /\ offers' = offers
        /\ host_id' = [host_id EXCEPT ![c] = row.id] /\ host_key' = [host_key EXCEPT ![c] = row.key]
    BY <1>5 DEF ExistingId, dbVars
  <2>2. CASE \E d \in Known : d # c /\ host_id'[d] = id /\ host_key'[d] = k
    BY <1>t, <2>1, <2>2 DEF Claimed, Known, TypeOK
  <2>3. CASE host_id'[c] = id /\ host_key'[c] = k
    <3>1. row.id = id /\ row.key = k
      BY <1>t, <2>1, <2>3 DEF TypeOK
    <3> QED
      BY <1>r, <3>1 DEF Claimed
  <2>4. CASE \/ [id |-> id, key |-> k] \in hosts' \union hosts_remove'
             \/ \E i \in 1 .. Len(offers') : offers'[i].id = id /\ offers'[i].key = k
    BY <2>1, <2>4 DEF Claimed
  <2> QED
    BY <2>1, <2>2, <2>3, <2>4 DEF Claimed, Known
<1>6. ASSUME NEW r \in hosts, DoRemoveHost(r) PROVE Claimed(id, k)
  BY <1>6, <1>s DEF DoRemoveHost, Schedule
<1>7. ASSUME NEW r \in hosts_remove, PruneRemoval(r) PROVE Claimed(id, k)
  BY <1>7, <1>s DEF PruneRemoval, hostVars
<1>8. ASSUME NEW clean \in BOOLEAN, Restart(clean) PROVE Claimed(id, k)
  <2>1. live' = {} /\ zombies' = {} /\ Len(offers') = 0
        /\ hosts' = hosts /\ hosts_remove' \subseteq hosts_remove
    BY <1>8 DEF Restart
  <2> QED
    BY <2>1 DEF Claimed, Known
<1>9. CASE \E c \in Conns : HostFinished(c) \/ DropSilent(c) \/ DisconnectNext(c)
  BY <1>2, <1>9 DEF HostFinished, DropSilent, IsSilent, DisconnectNext
<1>10. CASE DropStale \/ (\E i \in Ids : DoDisconnectHost(i))
  BY <1>2, <1>10 DEF DropStale, DoDisconnectHost, HostInv, IndexInv, IndexNeverDangles
<1>11. CASE \/ \E c \in Conns : NotFound(c) \/ ReceiveRemove(c)
            \/ PublishAssigned \/ DisconnectAll
  BY <1>s, <1>11 DEF NotFound, ReceiveRemove, PublishAssigned, DisconnectAll, hostVars, dbVars
<1>12. ASSUME NEW i \in Ids, PostOffer(i) PROVE Claimed(id, k)
  <2> DEFINE h == hosts_by_id[i]
  <2>1. h \in Known /\ host_id[h] = i
    BY <1>12 DEF PostOffer, HostInv, IndexInv, IndexNeverDangles, Known
  <2>2. /\ Known' = Known /\ host_id' = host_id /\ host_key' = host_key
        /\ hosts' = hosts /\ hosts_remove' = hosts_remove
        /\ offers' = Append(offers, [id |-> i, key |-> host_key[h]])
    BY <1>12 DEF PostOffer, hostVars, dbVars, Known
  <2>3. offers \in Seq([id : Ids, key : Keys])
    BY <1>t DEF TypeOK
  <2>4. \A j \in 1 .. Len(offers') : \/ j \in 1 .. Len(offers) /\ offers'[j] = offers[j]
                                     \/ offers'[j] = [id |-> i, key |-> host_key[h]]
    BY <2>2, <2>3
  <2> QED
    BY <2>1, <2>2, <2>4 DEF Claimed
<1>13. CASE SendConnectionOffer
  <2>1. /\ Known' = Known /\ host_id' = host_id /\ host_key' = host_key
        /\ hosts' = hosts /\ hosts_remove' = hosts_remove
        /\ offers' = Tail(offers) /\ offers # <<>>
    BY <1>13 DEF SendConnectionOffer, hostVars, dbVars, Known
  <2>2. offers \in Seq([id : Ids, key : Keys])
    BY <1>t DEF TypeOK
  <2>3. \A j \in 1 .. Len(offers') : j + 1 \in 1 .. Len(offers) /\ offers'[j] = offers[j + 1]
    BY <2>1, <2>2
  <2> QED
    BY <2>1, <2>3 DEF Claimed
<1> QED
  BY <1>1, <1>3, <1>4, <1>5, <1>6, <1>7, <1>8, <1>9, <1>10, <1>11, <1>12, <1>13 DEF Next

\* The number behind next_id only grows, so an id that has been handed out stays below it.
LEMMA NextIdGrows == ASSUME HostInv, [Next]_vars PROVE next_id' >= next_id /\ next_id \in Nat
<1>1. next_id \in Nat
  BY BoundsAssumption DEF HostInv, TypeOK
<1>2. CASE \E id \in TempIds : DoApproveHost(id)
  BY <1>1, <1>2 DEF DoApproveHost, AddHost
<1>3. CASE ~ \E id \in TempIds : DoApproveHost(id)
  <2>1. next_id' = next_id
    BY <1>3 DEF Next, vars, dbVars, NewHostConnection, HostFinished, DropSilent, DestroyHost, IssueTempId,
       ExistingId, NotFound, DropStale, PublishAssigned, DoDisconnectHost, DisconnectAll,
       DisconnectNext, DoRemoveHost, PruneRemoval, Restart, PostOffer, SendConnectionOffer,
       ReceiveRemove
  <2> QED
    BY <1>1, <2>1
<1> QED
  BY <1>1, <1>2, <1>3

\* The tables, the connections and the offers under way never disagree on a permanent id.
THEOREM ClaimsInvariant == Spec => []ClaimsAgree
<1>1. Init => ClaimsAgree
  BY DEF Init, ClaimsAgree, Claimed, Known
<1>2. ASSUME HostInv, HostInv', ClaimsAgree, [Next]_vars PROVE ClaimsAgree'
  <2>1. CASE UNCHANGED vars
    BY <1>2, <2>1 DEF ClaimsAgree, Claimed, Known, vars
  <2>2. CASE Next
    <3> SUFFICES ASSUME NEW id \in PermIds, NEW k \in Keys, NEW l \in Keys,
                        Claimed(id, k)', Claimed(id, l)'
                 PROVE  id < next_id' /\ k = l
      BY DEF ClaimsAgree
    <3>1. next_id' >= next_id /\ next_id \in Nat /\ next_id' \in Nat /\ id \in Nat
      BY <1>2, NextIdGrows, IdsFacts, BoundsAssumption DEF HostInv, TypeOK
    <3>2. CASE \E i \in TempIds : DoApproveHost(i)
      <4>1. PICK i \in TempIds : DoApproveHost(i)
        BY <3>2
      <4> DEFINE new == host_key[hosts_by_id[i]]
      <4>2. /\ next_id' = next_id + 1
            /\ Claimed(id, k) \/ (id = next_id /\ k = new)
            /\ Claimed(id, l) \/ (id = next_id /\ l = new)
        BY <1>2, <4>1, ApproveStep
      <4>3. Claimed(id, k) \/ Claimed(id, l) => id < next_id
        BY <1>2 DEF ClaimsAgree
      <4>4. Claimed(id, k) /\ Claimed(id, l) => k = l
        BY <1>2 DEF ClaimsAgree
      <4> HIDE DEF new
      <4> QED
        BY <3>1, <4>2, <4>3, <4>4
    <3>3. CASE ~ \E i \in TempIds : DoApproveHost(i)
      <4>1. Claimed(id, k) /\ Claimed(id, l)
        BY <1>2, <2>2, <3>3, ClaimStep
      <4> QED
        BY <1>2, <3>1, <4>1 DEF ClaimsAgree
    <3> QED
      BY <3>2, <3>3
  <2> QED
    BY <1>2, <2>1, <2>2
<1> QED
  BY <1>1, <1>2, HostInvariant, PTL DEF Spec

LEMMA SeqElements ==
    ASSUME NEW S, NEW s \in Seq(S), NEW i \in DOMAIN s
    PROVE  i \in 1 .. Len(s) /\ s[i] \in S
<1>1. DOMAIN s = 1 .. Len(s)
  OBVIOUS
<1> QED
  BY <1>1

\* A connection that carries a permanent id carries it for the host the tables name, so
\* ~Host never finalizes the removal of another host.
THEOREM PermanentIdsNeverMove == Spec => []PermanentIdsFixed
<1>1. ASSUME HostInv, ClaimsAgree PROVE PermanentIdsFixed
  <2> SUFFICES ASSUME NEW c \in live \union zombies, NEW r \in hosts \union hosts_remove,
                      host_id[c] = r.id
               PROVE  host_key[c] = r.key
    BY DEF PermanentIdsFixed
  <2>1. /\ r = [id |-> r.id, key |-> r.key] /\ r.id \in PermIds /\ r.key \in Keys
        /\ c \in Conns /\ r.id # None
    BY <1>1, IdsFacts DEF HostInv, TypeOK, Row, Ids
  <2>2. host_key[c] \in Keys
    BY <1>1, <2>1 DEF HostInv, IndexInv, TypeOK
  <2>3. Claimed(r.id, r.key)
    BY <2>1 DEF Claimed
  <2>4. Claimed(r.id, host_key[c])
    BY DEF Claimed, Known
  <2> QED
    BY <1>1, <2>1, <2>2, <2>3, <2>4 DEF ClaimsAgree
<1> QED
  BY <1>1, HostInvariant, ClaimsInvariant, PTL

\* An offer that client threads posted for a registered host reaches that host or nobody.
THEOREM OffersNeverMisdelivered == Spec => []OfferReachesItsHost
<1>1. ASSUME HostInv, ClaimsAgree PROVE OfferReachesItsHost
  <2> SUFFICES ASSUME NEW i \in DOMAIN offers, offers[i].id \in PermIds,
                      hosts_by_id[offers[i].id] # None
               PROVE  host_key[hosts_by_id[offers[i].id]] = offers[i].key
    BY DEF OfferReachesItsHost
  <2> DEFINE id == offers[i].id
             c  == hosts_by_id[id]
  <2>1. i \in 1 .. Len(offers) /\ offers[i].key \in Keys /\ id \in Ids /\ id # None
    <3>1. offers \in Seq([id : Ids, key : Keys])
      BY <1>1 DEF HostInv, TypeOK
    <3>2. i \in 1 .. Len(offers) /\ offers[i] \in [id : Ids, key : Keys]
      BY <3>1, SeqElements
    <3> QED
      BY <3>2, IdsFacts
  <2>2. c \in Known /\ c \in Conns /\ host_id[c] = id
    BY <1>1, <2>1 DEF HostInv, IndexInv, IndexNeverDangles, TypeOK, Known
  <2>3. host_key[c] \in Keys
    BY <1>1, <2>1, <2>2 DEF HostInv, IndexInv, TypeOK
  <2>4. Claimed(id, offers[i].key) /\ Claimed(id, host_key[c])
    BY <2>1, <2>2 DEF Claimed
  <2> QED
    BY <1>1, <2>1, <2>3, <2>4 DEF ClaimsAgree
<1> QED
  BY <1>1, HostInvariant, ClaimsInvariant, PTL
============================================================================
