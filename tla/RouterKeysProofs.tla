-------------------------- MODULE RouterKeysProofs --------------------------
(* What every step of RouterKeys preserves, for every set of relay          *)
(* connections and every limit that the configuration allows.  The steps    *)
(* are put together in RouterOffersProofs.                                  *)
EXTENDS RouterKeys, FiniteSetTheorems, FunctionTheorems, SequenceTheorems, TLAPS

\* Ids of relays are not reused, and a connection that was not made announced nothing.
IdsInv ==
    /\ IsFiniteSet(relays)
    /\ \A c \in used_conns : session[c] \in 1 .. last_relay
    /\ \A c, d \in used_conns : session[c] = session[d] => c = d
    /\ \A c \in Conns \ used_conns : announced[c] = 0

\* Where keys are: in the message and in the pool, those of relays that are connected; a
\* relay's keys are filed under its id.
PlaceInv ==
    /\ reading # <<>> => leaving = "no"
    /\ \A i \in 1 .. Len(reading) :
          reading[i].owner \in relays /\ reading[i].id <= announced[reading[i].owner]
    /\ \A s \in Sessions : \A i \in 1 .. Len(pool[s]) :
          /\ pool[s][i].owner \in relays /\ session[pool[s][i].owner] = s
          /\ pool[s][i].id <= announced[pool[s][i].owner]
    /\ \A i \in 1 .. Len(offered) :
          offered[i].owner \in used_conns /\ offered[i].id <= announced[offered[i].owner]

\* A key is in one place, once.
DistinctInv ==
    /\ \A i, j \in 1 .. Len(reading) : reading[i] = reading[j] => i = j
    /\ \A s \in Sessions : \A i, j \in 1 .. Len(pool[s]) : pool[s][i] = pool[s][j] => i = j
    /\ \A i, j \in 1 .. Len(offered) : offered[i] = offered[j] => i = j
    /\ \A i \in 1 .. Len(reading), j \in 1 .. Len(offered) : reading[i] # offered[j]
    /\ \A s \in Sessions : \A i \in 1 .. Len(pool[s]), j \in 1 .. Len(reading) : pool[s][i] # reading[j]
    /\ \A s \in Sessions : \A i \in 1 .. Len(pool[s]), j \in 1 .. Len(offered) : pool[s][i] # offered[j]

\* A key that readKeyPool ignored is nowhere else.
IgnoredInv ==
    /\ \A k \in ignored : k.owner \in used_conns /\ k.id <= announced[k.owner]
    /\ \A i \in 1 .. Len(reading) : reading[i] \notin ignored
    /\ \A s \in Sessions : \A i \in 1 .. Len(pool[s]) : pool[s][i] \notin ignored
    /\ \A i \in 1 .. Len(offered) : offered[i] \notin ignored

CapacityInv == \A c \in relays : Cardinality(Untaken(c)) <= Capacity

\* A report carries the id of the connection its key was announced on.
ReportInv ==
    /\ \A i \in 1 .. Len(offer) :
          offer[i].key.owner \in used_conns /\ session[offer[i].key.owner] = offer[i].session
    /\ \A i \in 1 .. Len(reports) :
          reports[i].key.owner \in used_conns /\ session[reports[i].key.owner] = reports[i].session

KeysInv ==
    /\ TypeOK
    /\ IdsInv
    /\ PlaceInv
    /\ DistinctInv
    /\ IgnoredInv
    /\ CapacityInv
    /\ ReportInv
    /\ ReportsReachTheirRelay
    /\ AllAccounted

----------------------------------------------------------------------------
(* Constants and sequences                                                 *)

LEMMA KeysConstants ==
    /\ MaxRelays \in Nat /\ MaxKeysPerSession \in Nat /\ MaxKeysTotal \in Nat
    /\ Capacity \in Nat /\ MaxKeyId \in Nat /\ MaxSessions \in Nat /\ MaxKeysPerPool \in Nat
    /\ Capacity <= MaxKeysPerSession /\ MaxRelays * Capacity <= MaxKeysTotal
    /\ None \notin Sessions
BY CapacityAssumption DEF None, Sessions

LEMMA SeqFacts ==
    ASSUME NEW T, NEW q \in Seq(T)
    PROVE  /\ Len(q) \in Nat /\ DOMAIN q = 1 .. Len(q)
           /\ \A i \in 1 .. Len(q) : q[i] \in T
           /\ ToSet(q) = {q[i] : i \in 1 .. Len(q)}
           /\ q = <<>> <=> Len(q) = 0
BY DEF ToSet

LEMMA ToSetMember ==
    ASSUME NEW T, NEW q \in Seq(T), NEW e \in ToSet(q)
    PROVE  \E i \in 1 .. Len(q) : e = q[i]
BY SeqFacts

LEMMA FiniteFunctionIsSeq ==
    ASSUME NEW T, NEW n \in Nat, NEW q \in [1 .. n -> T]
    PROVE  q \in Seq(T) /\ Len(q) = n
OBVIOUS

LEMMA AppendFacts ==
    ASSUME NEW T, NEW q \in Seq(T), NEW e \in T
    PROVE  /\ Append(q, e) \in Seq(T) /\ Len(Append(q, e)) = Len(q) + 1
           /\ \A i \in 1 .. Len(q) : Append(q, e)[i] = q[i]
           /\ Append(q, e)[Len(q) + 1] = e
OBVIOUS

LEMMA TailFacts ==
    ASSUME NEW T, NEW q \in Seq(T), q # <<>>
    PROVE  /\ Tail(q) \in Seq(T) /\ Len(Tail(q)) = Len(q) - 1 /\ Len(q) - 1 \in Nat
           /\ \A i \in 1 .. Len(q) - 1 : Tail(q)[i] = q[i + 1]
           /\ Head(q) = q[1] /\ Head(q) \in T /\ 1 \in 1 .. Len(q)
<1>1. Len(q) \in Nat /\ Len(q) # 0
  OBVIOUS
<1>2. Tail(q) \in Seq(T) /\ Len(Tail(q)) = Len(q) - 1
  BY <1>1
<1>3. \A i \in 1 .. Len(q) - 1 : Tail(q)[i] = q[i + 1]
  BY <1>1
<1>4. Head(q) = q[1] /\ q[1] \in T
  BY <1>1
<1> QED
  BY <1>1, <1>2, <1>3, <1>4

LEMMA FrontFacts ==
    ASSUME NEW T, NEW q \in Seq(T), q # <<>>
    PROVE  /\ Front(q) \in Seq(T) /\ Len(Front(q)) = Len(q) - 1 /\ Len(q) - 1 \in Nat
           /\ \A i \in 1 .. Len(q) - 1 : Front(q)[i] = q[i]
           /\ Last(q) = q[Len(q)] /\ Last(q) \in T /\ Len(q) \in 1 .. Len(q)
<1>1. Len(q) \in Nat /\ Len(q) # 0
  OBVIOUS
<1>2. Last(q) = q[Len(q)] /\ q[Len(q)] \in T
  BY <1>1 DEF Last
<1>3. SubSeq(q, 1, Len(q) - 1) \in Seq(T) /\ Len(SubSeq(q, 1, Len(q) - 1)) = Len(q) - 1
  <2>1. 1 \in Int /\ Len(q) - 1 \in Int /\ \A i \in 1 .. Len(q) - 1 : q[i] \in T
    BY <1>1
  <2> DEFINE n == Len(q) - 1
  <2>2. SubSeq(q, 1, n) \in Seq(T) /\ Len(SubSeq(q, 1, n)) = IF 1 <= n THEN n - 1 + 1 ELSE 0
    <3> HIDE DEF n
    <3> QED
      BY <2>1, SubSeqProperties DEF n
  <2>3. n \in Nat
    BY <1>1
  <2>4. Len(SubSeq(q, 1, n)) = n
    <3> HIDE DEF n
    <3> QED
      BY <2>2, <2>3
  <2> QED
    BY <2>2, <2>4
<1>4. \A i \in 1 .. Len(q) - 1 : SubSeq(q, 1, Len(q) - 1)[i] = q[i]
  BY <1>1
<1> QED
  BY <1>1, <1>2, <1>3, <1>4 DEF Front

LEMMA ConcatFacts ==
    ASSUME NEW T, NEW q \in Seq(T), NEW r \in Seq(T)
    PROVE  /\ q \o r \in Seq(T) /\ Len(q \o r) = Len(q) + Len(r)
           /\ \A i \in 1 .. Len(q) : (q \o r)[i] = q[i]
           /\ \A i \in 1 .. Len(r) : (q \o r)[Len(q) + i] = r[i]
           /\ \A i \in 1 .. Len(q \o r) : i \in 1 .. Len(q) \/ (i - Len(q) \in 1 .. Len(r) /\ (q \o r)[i] = r[i - Len(q)])
<1>1. Len(q) \in Nat /\ Len(r) \in Nat
  OBVIOUS
<1>2. q \o r \in Seq(T) /\ Len(q \o r) = Len(q) + Len(r)
  OBVIOUS
<1>3. \A i \in 1 .. Len(q) : (q \o r)[i] = q[i]
  BY <1>1
<1>4. \A i \in 1 .. Len(r) : (q \o r)[Len(q) + i] = r[i]
  BY <1>1
<1>5. ASSUME NEW i \in 1 .. Len(q \o r)
      PROVE  i \in 1 .. Len(q) \/ (i - Len(q) \in 1 .. Len(r) /\ (q \o r)[i] = r[i - Len(q)])
  <2>1. i \in 1 .. Len(q) + Len(r)
    BY <1>2
  <2>2. (q \o r)[i] = IF i <= Len(q) THEN q[i] ELSE r[i - Len(q)]
    BY <2>1, ConcatProperties
  <2>3. i \in Nat /\ (i <= Len(q) => i \in 1 .. Len(q)) /\ (i > Len(q) => i - Len(q) \in 1 .. Len(r))
    BY <1>1, <2>1
  <2>4. CASE i <= Len(q)
    BY <2>3, <2>4
  <2>5. CASE i > Len(q)
    <3>1. ~ (i <= Len(q))
      BY <1>1, <2>3, <2>5
    <3> QED
      BY <2>2, <2>3, <2>5, <3>1, Zenon
  <2> QED
    BY <1>1, <2>3, <2>4, <2>5
<1> QED
  BY <1>2, <1>3, <1>4, <1>5

\* Keys are records of a connection and a number.
LEMMA KeyFacts ==
    /\ \A k \in Key : k.owner \in Conns /\ k.id \in 1 .. MaxKeyId /\ k.id \in Nat
    /\ \A k \in Key : k = [owner |-> k.owner, id |-> k.id]
    /\ \A c \in Conns, i \in 1 .. MaxKeyId : [owner |-> c, id |-> i] \in Key
BY KeysConstants DEF Key

\* What the operations on sequences do to the set of their elements.
LEMMA ToSetFacts ==
    ASSUME NEW T, NEW q \in Seq(T)
    PROVE  /\ \A e \in T : ToSet(Append(q, e)) = ToSet(q) \union {e}
           /\ q # <<>> => ToSet(q) = ToSet(Tail(q)) \union {Head(q)}
           /\ q # <<>> => ToSet(q) = ToSet(Front(q)) \union {Last(q)}
           /\ \A r \in Seq(T) : ToSet(q \o r) = ToSet(q) \union ToSet(r)
<1>0. \A t \in Seq(T) : ToSet(t) = {t[i] : i \in 1 .. Len(t)}
  BY SeqFacts
<1>1. ASSUME NEW e \in T PROVE ToSet(Append(q, e)) = ToSet(q) \union {e}
  <2>1. /\ Append(q, e) \in Seq(T) /\ Len(Append(q, e)) = Len(q) + 1
        /\ \A i \in 1 .. Len(q) : Append(q, e)[i] = q[i]
        /\ Append(q, e)[Len(q) + 1] = e
    BY AppendFacts
  <2>2. ToSet(Append(q, e)) = {Append(q, e)[i] : i \in 1 .. Len(q) + 1}
    BY <1>0, <2>1, Zenon
  <2>3. Len(q) \in Nat /\ ToSet(q) = {q[i] : i \in 1 .. Len(q)}
    BY SeqFacts
  <2>4. 1 .. Len(q) + 1 = (1 .. Len(q)) \union {Len(q) + 1}
    BY <2>3
  <2> QED
    BY <2>1, <2>2, <2>3, <2>4
<1>2. ASSUME q # <<>> PROVE ToSet(q) = ToSet(Tail(q)) \union {Head(q)}
  <2>1. /\ Tail(q) \in Seq(T) /\ Len(Tail(q)) = Len(q) - 1 /\ Len(q) - 1 \in Nat
        /\ \A i \in 1 .. Len(q) - 1 : Tail(q)[i] = q[i + 1]
        /\ Head(q) = q[1] /\ 1 \in 1 .. Len(q)
    BY <1>2, TailFacts
  <2>2. ToSet(Tail(q)) = {Tail(q)[i] : i \in 1 .. Len(q) - 1}
    BY <1>0, <2>1, Zenon
  <2>3. Len(q) \in Nat /\ ToSet(q) = {q[i] : i \in 1 .. Len(q)}
    BY SeqFacts
  <2>4. ASSUME NEW i \in 1 .. Len(q) PROVE q[i] \in ToSet(Tail(q)) \union {Head(q)}
    <3>1. i = 1 \/ (i - 1 \in 1 .. Len(q) - 1 /\ i = (i - 1) + 1)
      BY <2>3
    <3> QED
      BY <2>1, <2>2, <3>1
  <2>5. ASSUME NEW i \in 1 .. Len(q) - 1 PROVE Tail(q)[i] \in ToSet(q)
    <3>1. i + 1 \in 1 .. Len(q)
      BY <2>3
    <3> QED
      BY <2>1, <2>3, <3>1
  <2> QED
    BY <2>1, <2>2, <2>3, <2>4, <2>5
<1>3. ASSUME q # <<>> PROVE ToSet(q) = ToSet(Front(q)) \union {Last(q)}
  <2>1. /\ Front(q) \in Seq(T) /\ Len(Front(q)) = Len(q) - 1 /\ Len(q) - 1 \in Nat
        /\ \A i \in 1 .. Len(q) - 1 : Front(q)[i] = q[i]
        /\ Last(q) = q[Len(q)] /\ Len(q) \in 1 .. Len(q)
    BY <1>3, FrontFacts
  <2>2. ToSet(Front(q)) = {Front(q)[i] : i \in 1 .. Len(q) - 1}
    BY <2>1, SeqFacts
  <2>3. Len(q) \in Nat /\ ToSet(q) = {q[i] : i \in 1 .. Len(q)}
    BY SeqFacts
  <2>4. 1 .. Len(q) = (1 .. Len(q) - 1) \union {Len(q)}
    BY <2>1, <2>3
  <2> QED
    BY <2>1, <2>2, <2>3, <2>4
<1>4. ASSUME NEW r \in Seq(T) PROVE ToSet(q \o r) = ToSet(q) \union ToSet(r)
  <2>1. /\ q \o r \in Seq(T) /\ Len(q \o r) = Len(q) + Len(r)
        /\ \A i \in 1 .. Len(q) : (q \o r)[i] = q[i]
        /\ \A i \in 1 .. Len(r) : (q \o r)[Len(q) + i] = r[i]
        /\ \A i \in 1 .. Len(q \o r) :
              i \in 1 .. Len(q) \/ (i - Len(q) \in 1 .. Len(r) /\ (q \o r)[i] = r[i - Len(q)])
    BY ConcatFacts
  <2>2. /\ Len(q) \in Nat /\ ToSet(q) = {q[i] : i \in 1 .. Len(q)}
        /\ Len(r) \in Nat /\ ToSet(r) = {r[i] : i \in 1 .. Len(r)}
        /\ ToSet(q \o r) = {(q \o r)[i] : i \in 1 .. Len(q \o r)}
    <3>1. Len(q) \in Nat /\ Len(r) \in Nat
      BY SeqFacts
    <3> QED
      BY <1>0, <2>1, <3>1, Zenon
  <2>3. ASSUME NEW i \in 1 .. Len(q \o r) PROVE (q \o r)[i] \in ToSet(q) \union ToSet(r)
    BY <2>1, <2>2
  <2>4. ASSUME NEW i \in 1 .. Len(q) PROVE q[i] \in ToSet(q \o r)
    <3>1. i \in 1 .. Len(q \o r)
      BY <2>1, <2>2
    <3> QED
      BY <2>1, <2>2, <3>1
  <2>5. ASSUME NEW i \in 1 .. Len(r) PROVE r[i] \in ToSet(q \o r)
    <3>1. Len(q) + i \in 1 .. Len(q \o r)
      BY <2>1, <2>2
    <3> QED
      BY <2>1, <2>2, <3>1
  <2> QED
    BY <2>2, <2>3, <2>4, <2>5
<1> QED
  BY <1>1, <1>2, <1>3, <1>4

\* The sequences of the state, as the proofs use them.
LEMMA StateSeqs ==
    ASSUME TypeOK
    PROVE  /\ Len(reading) \in Nat /\ \A i \in 1 .. Len(reading) : reading[i] \in Key
           /\ ToSet(reading) = {reading[i] : i \in 1 .. Len(reading)}
           /\ \A s \in Sessions : /\ pool[s] \in Seq(Key) /\ Len(pool[s]) \in Nat
                                  /\ \A i \in 1 .. Len(pool[s]) : pool[s][i] \in Key
                                  /\ ToSet(pool[s]) = {pool[s][i] : i \in 1 .. Len(pool[s])}
           /\ Len(offered) \in Nat /\ \A i \in 1 .. Len(offered) : offered[i] \in Key
           /\ Len(offer) \in Nat /\ \A i \in 1 .. Len(offer) : offer[i] \in Credentials
           /\ Len(reports) \in Nat /\ \A i \in 1 .. Len(reports) : reports[i] \in Credentials
<1>1. /\ reading \in Seq(Key) /\ offered \in Seq(Key)
      /\ offer \in Seq(Credentials) /\ reports \in Seq(Credentials)
      /\ \A s \in Sessions : pool[s] \in Seq(Key)
  BY DEF TypeOK
<1> QED
  BY <1>1, SeqFacts

----------------------------------------------------------------------------
(* How many keys of a relay the router holds                               *)

LEMMA UntakenIsFinite ==
    ASSUME NEW c \in Conns
    PROVE  IsFiniteSet(Untaken(c)) /\ Cardinality(Untaken(c)) \in Nat
<1> DEFINE All == {[owner |-> c, id |-> i] : i \in 1 .. MaxKeyId}
           f == [i \in 1 .. MaxKeyId |-> [owner |-> c, id |-> i]]
<1>1. f \in Surjection(1 .. MaxKeyId, All)
  BY Fun_IsSurj
<1>2. IsFiniteSet(1 .. MaxKeyId)
  BY KeysConstants, FS_Interval
<1>3. IsFiniteSet(All)
  BY <1>1, <1>2, FS_Surjection
<1>4. Untaken(c) \in SUBSET All
  BY KeyFacts DEF Untaken
<1>5. IsFiniteSet(Untaken(c))
  BY <1>3, <1>4, FS_Subset
<1> QED
  BY <1>5, FS_CardinalityType

LEMMA UntakenShrinks ==
    ASSUME KeysInv, relays' \subseteq relays,
           \A c \in relays' : Untaken(c)' \subseteq Untaken(c)
    PROVE  CapacityInv'
<1>1. ASSUME NEW c \in relays' PROVE Cardinality(Untaken(c)') <= Capacity
  <2>1. c \in relays /\ c \in Conns
    BY DEF KeysInv, TypeOK
  <2>2. IsFiniteSet(Untaken(c)) /\ Cardinality(Untaken(c)) \in Nat
    BY <2>1, UntakenIsFinite
  <2>3. Untaken(c)' \in SUBSET Untaken(c)
    OBVIOUS
  <2>4. Cardinality(Untaken(c)') <= Cardinality(Untaken(c)) /\ IsFiniteSet(Untaken(c)')
    BY <2>2, <2>3, FS_Subset
  <2>5. Cardinality(Untaken(c)') \in Nat
    BY <2>4, FS_CardinalityType
  <2>6. Cardinality(Untaken(c)) <= Capacity
    BY <2>1 DEF KeysInv, CapacityInv
  <2> QED
    BY <2>2, <2>4, <2>5, <2>6, KeysConstants
<1> QED
  BY <1>1 DEF CapacityInv

----------------------------------------------------------------------------
(* RelayWorker                                                             *)

\* Steps that leave the keys where they are.
LEMMA KeptDistinct ==
    ASSUME DistinctInv, UNCHANGED <<pool, reading, offered>>
    PROVE  DistinctInv'
BY DEF DistinctInv

\* An id that was never given: the reports of an earlier relay cannot reach the new one.
LEMMA StepNewRelay ==
    ASSUME KeysInv, NEW c \in Conns, NEW id \in Sessions, NewRelayConnection(c, id)
    PROVE  KeysInv'
<1> USE KeysConstants DEF NewRelayConnection
<1>1. /\ id = last_relay + 1 /\ last_relay' = id /\ c \notin used_conns /\ c \notin relays
      /\ Cardinality(relays) < MaxRelays
  BY DEF CreateRelayId, HasRoom, KeysInv, TypeOK
<1>2. /\ session' \in [Conns -> Sessions \union {None}] /\ session'[c] = id
      /\ \A d \in Conns : d # c => session'[d] = session[d]
  BY DEF KeysInv, TypeOK
<1>3. IsFiniteSet(relays') /\ Cardinality(relays') <= MaxRelays
  <2>1. IsFiniteSet(relays) /\ Cardinality(relays) \in Nat
    BY FS_CardinalityType DEF KeysInv, IdsInv
  <2>2. IsFiniteSet(relays \union {c}) /\ Cardinality(relays \union {c}) = Cardinality(relays) + 1
    BY <1>1, <2>1, FS_AddElement
  <2> QED
    BY <1>1, <2>1, <2>2
<1>4. TypeOK'
  BY <1>1, <1>2, <1>3 DEF KeysInv, TypeOK, Sessions
<1>5. IdsInv'
  <2>1. ASSUME NEW d \in used_conns PROVE session[d] \in 1 .. last_relay /\ session'[d] = session[d]
    BY <1>1, <1>2 DEF KeysInv, TypeOK, IdsInv
  <2>2. last_relay \in Nat
    BY DEF KeysInv, TypeOK
  <2>3. \A d \in used_conns' : session'[d] \in 1 .. last_relay'
    BY <1>1, <1>2, <2>1, <2>2
  <2>4. \A d, e \in used_conns' : session'[d] = session'[e] => d = e
    BY <1>1, <1>2, <2>1, <2>2 DEF KeysInv, IdsInv
  <2> QED
    BY <1>3, <2>3, <2>4 DEF KeysInv, IdsInv
<1>6. PlaceInv'
  <2>1. \A d \in relays : d # c /\ d \in Conns
    BY <1>1 DEF KeysInv, TypeOK
  <2> QED
    BY <1>2, <2>1 DEF KeysInv, PlaceInv
<1>7. DistinctInv' /\ ReportsReachTheirRelay'
  BY KeptDistinct DEF KeysInv, ReportsReachTheirRelay
<1>8. CapacityInv'
  <2>1. \A d \in Conns : Untaken(d)' = Untaken(d)
    BY DEF Untaken
  <2>2. Untaken(c) = {}
    <3>1. ASSUME NEW k \in Untaken(c) PROVE k.owner \in used_conns /\ k.owner = c
      <4>1. TypeOK /\ relays \subseteq used_conns
        BY DEF KeysInv, TypeOK
      <4>2. k.owner = c /\ (k \in ToSet(reading) \/ k \in ignored \/ \E s \in Sessions : k \in ToSet(pool[s]))
        BY <3>1 DEF Untaken
      <4>3. CASE k \in ToSet(reading)
        BY <4>1, <4>2, <4>3, StateSeqs DEF KeysInv, PlaceInv
      <4>5. CASE k \in ignored
        BY <4>2, <4>5 DEF KeysInv, IgnoredInv
      <4>4. CASE \E s \in Sessions : k \in ToSet(pool[s])
        <5>1. PICK s \in Sessions : k \in ToSet(pool[s])
          BY <4>4
        <5>2. PICK i \in 1 .. Len(pool[s]) : k = pool[s][i]
          BY <4>1, <5>1, ToSetMember DEF TypeOK
        <5> QED
          BY <4>1, <4>2, <5>2 DEF KeysInv, PlaceInv
      <4> QED
        BY <4>2, <4>3, <4>4, <4>5
    <3> QED
      BY <1>1, <3>1
  <2>3. Cardinality(Untaken(c)) = 0
    BY <2>2, FS_EmptySet
  <2> QED
    BY <2>1, <2>3 DEF KeysInv, CapacityInv, TypeOK
<1>9. ReportInv'
  BY <1>1, <1>2 DEF KeysInv, TypeOK, ReportInv
<1>11. IgnoredInv'
  BY DEF KeysInv, IgnoredInv
<1>10. AllAccounted'
  <2>1. announced[c] = 0
    BY <1>1 DEF KeysInv, IdsInv
  <2>2. \A d \in relays : d # c /\ d \in Conns
    BY <1>1 DEF KeysInv, TypeOK
  <2>3. ASSUME NEW d \in relays', NEW i \in 1 .. MaxKeyId, i <= announced[d] PROVE d \in relays
    BY <2>1, <2>3
  <2> QED
    BY <1>2, <2>2, <2>3 DEF KeysInv, AllAccounted, Accounted
<1> QED
  BY <1>4, <1>5, <1>6, <1>7, <1>8, <1>9, <1>10, <1>11 DEF KeysInv

LEMMA IntervalCardinality ==
    ASSUME NEW n \in Nat
    PROVE  IsFiniteSet(1 .. n) /\ Cardinality(1 .. n) = n
<1>1. 1 \in Int /\ n \in Int
  OBVIOUS
<1>2. IsFiniteSet(1 .. n)
  BY <1>1, FS_Interval
<1>3. Cardinality(1 .. n) = IF 1 > n THEN 0 ELSE n - 1 + 1
  BY <1>1, FS_Interval
<1> QED
  BY <1>2, <1>3

\* The pool of a relay holds only keys of the relay, each once.
LEMMA NewKeysFacts ==
    ASSUME KeysInv, NEW c \in Conns, NEW n \in 1 .. Capacity, Announce(c, n)
    PROVE  LET new(i) == [owner |-> c, id |-> announced[c] + i] IN
           /\ c \in relays /\ reading = <<>> /\ leaving = "no" /\ c \in used_conns
           /\ n \in Nat /\ announced[c] \in Nat
           /\ \A i \in 1 .. n : new(i) \in Key /\ new(i).owner = c /\ new(i).id = announced[c] + i
           /\ NewKeys(c, n) \in Seq(Key) /\ Len(NewKeys(c, n)) = n
           /\ \A i \in 1 .. n : NewKeys(c, n)[i] = new(i)
           /\ ToSet(NewKeys(c, n)) = {new(i) : i \in 1 .. n}
           /\ announced' \in [Conns -> 0 .. MaxKeyId] /\ announced'[c] = announced[c] + n
           /\ \A d \in Conns : d # c => announced'[d] = announced[d]
           /\ \A d \in Conns : announced[d] <= announced'[d] /\ announced[d] \in Nat /\ announced'[d] \in Nat
<1> USE KeysConstants, KeyFacts
<1> DEFINE new(i) == [owner |-> c, id |-> announced[c] + i]
<1>1. /\ c \in relays /\ reading = <<>> /\ leaving = "no" /\ n \in Nat /\ announced[c] \in Nat
      /\ announced[c] + n <= MaxKeyId /\ c \in used_conns
      /\ announced' = [announced EXCEPT ![c] = @ + n]
  BY DEF KeysInv, TypeOK, Announce, Idle
<1>2. \A i \in 1 .. n : new(i) \in Key /\ new(i).owner = c /\ new(i).id = announced[c] + i
  <2>1. \A i \in 1 .. n : announced[c] + i \in 1 .. MaxKeyId
    BY <1>1
  <2> QED
    BY <2>1
<1>3. /\ NewKeys(c, n) \in [1 .. n -> Key] /\ \A i \in 1 .. n : NewKeys(c, n)[i] = new(i)
  BY <1>2 DEF NewKeys
<1>4. NewKeys(c, n) \in Seq(Key) /\ Len(NewKeys(c, n)) = n
  BY <1>1, <1>3, FiniteFunctionIsSeq
<1>5. ToSet(NewKeys(c, n)) = {new(i) : i \in 1 .. n}
  BY <1>3 DEF ToSet
<1>6. /\ announced' \in [Conns -> 0 .. MaxKeyId] /\ announced'[c] = announced[c] + n
      /\ \A d \in Conns : d # c => announced'[d] = announced[d]
      /\ \A d \in Conns : announced[d] <= announced'[d] /\ announced[d] \in Nat /\ announced'[d] \in Nat
  BY <1>1 DEF KeysInv, TypeOK
<1> QED
  BY <1>1, <1>2, <1>3, <1>4, <1>5, <1>6

\* What a relay announces fits its capacity.
LEMMA AnnouncedFits ==
    ASSUME KeysInv, NEW c \in Conns, NEW n \in 1 .. Capacity, Announce(c, n), relays' = relays,
           Untaken(c)' = Untaken(c) \union ToSet(NewKeys(c, n)),
           \A d \in Conns : d # c => Untaken(d)' = Untaken(d)
    PROVE  CapacityInv'
<1> USE KeysConstants
<1> DEFINE new(i) == [owner |-> c, id |-> announced[c] + i]
           News == {new(i) : i \in 1 .. n}
           f == [i \in 1 .. n |-> new(i)]
<1>1. n \in Nat /\ ToSet(NewKeys(c, n)) = News /\ Cardinality(Untaken(c)) + n <= Capacity
  BY NewKeysFacts DEF Announce
<1>4. IsFiniteSet(Untaken(c)) /\ Cardinality(Untaken(c)) \in Nat
  BY UntakenIsFinite
<1>5. IsFiniteSet(News) /\ Cardinality(News) <= n /\ Cardinality(News) \in Nat
  <2>1. f \in Surjection(1 .. n, News)
    BY Fun_IsSurj
  <2>2. IsFiniteSet(1 .. n) /\ Cardinality(1 .. n) = n
    BY <1>1, IntervalCardinality
  <2>3. IsFiniteSet(News) /\ Cardinality(News) <= Cardinality(1 .. n)
    BY <2>1, <2>2, FS_Surjection
  <2>4. Cardinality(News) \in Nat
    BY <2>3, FS_CardinalityType
  <2> QED
    BY <2>2, <2>3, <2>4
<1>6. Cardinality(Untaken(c) \union News) <= Capacity
  <2> HIDE DEF News
  <2>1. Cardinality(Untaken(c) \union News)
          = Cardinality(Untaken(c)) + Cardinality(News) - Cardinality(Untaken(c) \intersect News)
    BY <1>4, <1>5, FS_Union
  <2>2. IsFiniteSet(Untaken(c) \intersect News)
    BY <1>4, FS_Intersection
  <2>3. Cardinality(Untaken(c) \intersect News) \in Nat
    BY <2>2, FS_CardinalityType
  <2> QED
    BY <1>1, <1>4, <1>5, <2>1, <2>3
<1>7. ASSUME NEW d \in relays PROVE Cardinality(Untaken(d)') <= Capacity
  <2>1. CASE d = c
    BY <1>1, <1>6, <2>1
  <2>2. CASE d # c
    BY <2>2 DEF KeysInv, TypeOK, CapacityInv
  <2> QED
    BY <2>1, <2>2
<1> QED
  BY <1>7 DEF CapacityInv

\* The keys of a message are new, and fit the capacity of their relay.
LEMMA StepReadKeyPool ==
    ASSUME KeysInv, NEW c \in Conns, NEW n \in 1 .. Capacity, ReadKeyPool(c, n)
    PROVE  KeysInv'
<1> USE KeysConstants, KeyFacts
<1> DEFINE new(i) == [owner |-> c, id |-> announced[c] + i]
<1>0. /\ reading' = NewKeys(c, n) /\ Announce(c, n)
      /\ relays' = relays /\ session' = session /\ last_relay' = last_relay /\ pool' = pool
      /\ leaving' = leaving /\ reports' = reports /\ offer' = offer /\ used_conns' = used_conns
      /\ ignored' = ignored /\ offered' = offered /\ reported' = reported
  BY DEF ReadKeyPool
<1>1. /\ c \in relays /\ reading = <<>> /\ leaving = "no" /\ n \in Nat /\ announced[c] \in Nat
      /\ c \in used_conns
  BY <1>0, NewKeysFacts
<1>2. \A i \in 1 .. n : new(i) \in Key /\ new(i).owner = c /\ new(i).id = announced[c] + i
  BY <1>0, NewKeysFacts
<1>3. /\ reading' \in Seq(Key) /\ Len(reading') = n
      /\ \A i \in 1 .. n : reading'[i] = new(i)
  BY <1>0, NewKeysFacts
<1>4. ToSet(reading') = {new(i) : i \in 1 .. n}
  BY <1>0, NewKeysFacts
<1>5. /\ announced' \in [Conns -> 0 .. MaxKeyId] /\ announced'[c] = announced[c] + n
      /\ \A d \in Conns : d # c => announced'[d] = announced[d]
      /\ \A d \in Conns : announced[d] <= announced'[d] /\ announced[d] \in Nat /\ announced'[d] \in Nat
  BY <1>0, NewKeysFacts
<1>6. TypeOK'
  BY <1>0, <1>3, <1>5 DEF KeysInv, TypeOK
<1>7. IdsInv'
  BY <1>0, <1>1, <1>5 DEF KeysInv, IdsInv
<1>8. PlaceInv'
  <2>1. \A i \in 1 .. Len(reading') :
          reading'[i].owner \in relays /\ reading'[i].id <= announced'[reading'[i].owner]
    <3>1. \A i \in 1 .. n : announced[c] + i <= announced[c] + n
      BY <1>1
    <3> QED
      BY <1>1, <1>2, <1>3, <1>5, <3>1
  <2>2. ASSUME NEW s \in Sessions, NEW i \in 1 .. Len(pool[s])
        PROVE  /\ pool[s][i].owner \in relays /\ session[pool[s][i].owner] = s
               /\ pool[s][i].id <= announced'[pool[s][i].owner]
    <3>1. pool[s][i] \in Key /\ pool[s][i].owner \in Conns /\ pool[s][i].id \in Nat
      BY StateSeqs DEF KeysInv
    <3>2. /\ pool[s][i].owner \in relays /\ session[pool[s][i].owner] = s
          /\ pool[s][i].id <= announced[pool[s][i].owner]
      BY DEF KeysInv, PlaceInv
    <3> QED
      BY <1>5, <3>1, <3>2
  <2>3. ASSUME NEW i \in 1 .. Len(offered)
        PROVE  offered[i].owner \in used_conns /\ offered[i].id <= announced'[offered[i].owner]
    <3>1. offered[i] \in Key /\ offered[i].owner \in Conns /\ offered[i].id \in Nat
      BY StateSeqs DEF KeysInv
    <3>2. offered[i].owner \in used_conns /\ offered[i].id <= announced[offered[i].owner]
      BY DEF KeysInv, PlaceInv
    <3> QED
      BY <1>5, <3>1, <3>2
  <2> QED
    BY <1>0, <1>1, <2>1, <2>2, <2>3 DEF PlaceInv
<1>9. DistinctInv'
  <2>1. ASSUME NEW i \in 1 .. Len(reading'), NEW j \in 1 .. Len(reading'), reading'[i] = reading'[j]
        PROVE  i = j
    <3>1. i \in 1 .. n /\ j \in 1 .. n /\ new(i) = new(j)
      BY <1>3, <2>1
    <3>2. announced[c] + i = announced[c] + j
      BY <1>2, <3>1
    <3> QED
      BY <1>1, <3>1, <3>2
  <2>2. ASSUME NEW k \in Key, k.id <= announced[k.owner], NEW i \in 1 .. n PROVE reading'[i] # k
    BY <1>1, <1>2, <1>3, <2>2
  <2>3. \A i \in 1 .. Len(reading'), j \in 1 .. Len(offered) : reading'[i] # offered[j]
    BY <1>3, <2>2, StateSeqs DEF KeysInv, PlaceInv
  <2>4. \A s \in Sessions : \A i \in 1 .. Len(pool[s]), j \in 1 .. Len(reading') :
          pool[s][i] # reading'[j]
    BY <1>3, <2>2, StateSeqs DEF KeysInv, PlaceInv
  <2>5. pool' = pool /\ offered' = offered
    BY <1>0
  <2>6. /\ \A s \in Sessions : \A i, j \in 1 .. Len(pool[s]) : pool[s][i] = pool[s][j] => i = j
        /\ \A i, j \in 1 .. Len(offered) : offered[i] = offered[j] => i = j
        /\ \A s \in Sessions : \A i \in 1 .. Len(pool[s]), j \in 1 .. Len(offered) :
              pool[s][i] # offered[j]
    BY DEF KeysInv, DistinctInv
  <2> QED
    BY <2>1, <2>3, <2>4, <2>5, <2>6 DEF DistinctInv
<1>10. CapacityInv'
  <2>1. ToSet(reading) = {} /\ ToSet(reading') = ToSet(NewKeys(c, n))
    BY <1>0, <1>1 DEF ToSet
  <2>2. Untaken(c)' = Untaken(c) \union ToSet(NewKeys(c, n))
    BY <1>0, <1>2, <1>4, <2>1 DEF Untaken
  <2>3. \A d \in Conns : d # c => Untaken(d)' = Untaken(d)
    BY <1>0, <1>2, <1>4, <2>1 DEF Untaken
  <2> QED
    BY <1>0, <2>2, <2>3, AnnouncedFits
<1>11. ReportInv' /\ ReportsReachTheirRelay'
  BY <1>0 DEF KeysInv, ReportInv, ReportsReachTheirRelay
<1>13. IgnoredInv'
  <2>1. ASSUME NEW k \in ignored
        PROVE  /\ k.owner \in used_conns /\ k.id <= announced'[k.owner]
               /\ \A i \in 1 .. n : reading'[i] # k
    <3>1. k \in Key /\ k.owner \in used_conns /\ k.id <= announced[k.owner] /\ k.owner \in Conns
          /\ k.id \in Nat
      BY DEF KeysInv, TypeOK, IgnoredInv
    <3>2. k.id <= announced'[k.owner]
      BY <1>5, <3>1
    <3>3. ASSUME NEW i \in 1 .. n PROVE reading'[i] # k
      BY <1>1, <1>2, <1>3, <3>1
    <3> QED
      BY <3>1, <3>2, <3>3
  <2> QED
    BY <1>0, <1>3, <2>1 DEF KeysInv, IgnoredInv
<1>12. AllAccounted'
  <2>1. ASSUME NEW d \in relays, NEW i \in 1 .. MaxKeyId, i <= announced'[d]
        PROVE  \/ [owner |-> d, id |-> i] \in ToSet(reading')
               \/ i <= announced[d]
    <3>1. d \in Conns
      BY DEF KeysInv, TypeOK
    <3>2. CASE d = c /\ ~ (i <= announced[d])
      <4>1. i - announced[c] \in 1 .. n /\ announced[c] + (i - announced[c]) = i
        BY <1>1, <1>5, <2>1, <3>2
      <4>2. new(i - announced[c]) \in ToSet(reading')
        BY <1>4, <4>1
      <4> QED
        BY <3>2, <4>1, <4>2
    <3> QED
      BY <1>5, <2>1, <3>1, <3>2
  <2>2. ToSet(reading) = {}
    BY <1>1 DEF ToSet
  <2> QED
    BY <1>0, <2>1, <2>2 DEF KeysInv, AllAccounted, Accounted
<1> QED
  BY <1>6, <1>7, <1>8, <1>9, <1>10, <1>11, <1>12, <1>13 DEF KeysInv

\* A message that readKeyPool does not look into leaves its keys nowhere but with the relay.
LEMMA StepIgnoreKeyPool ==
    ASSUME KeysInv, NEW c \in Conns, NEW n \in 1 .. Capacity, IgnoreKeyPool(c, n)
    PROVE  KeysInv'
<1> USE KeysConstants, KeyFacts
<1> DEFINE new(i) == [owner |-> c, id |-> announced[c] + i]
<1>0. /\ ignored' = ignored \union ToSet(NewKeys(c, n)) /\ Announce(c, n)
      /\ relays' = relays /\ session' = session /\ last_relay' = last_relay /\ pool' = pool
      /\ leaving' = leaving /\ reports' = reports /\ offer' = offer /\ used_conns' = used_conns
      /\ reading' = reading /\ offered' = offered /\ reported' = reported
  BY DEF IgnoreKeyPool
<1>1. /\ c \in relays /\ reading = <<>> /\ leaving = "no" /\ n \in Nat /\ announced[c] \in Nat
      /\ c \in used_conns
  BY <1>0, NewKeysFacts
<1>2. \A i \in 1 .. n : new(i) \in Key /\ new(i).owner = c /\ new(i).id = announced[c] + i
  BY <1>0, NewKeysFacts
<1>4. ToSet(NewKeys(c, n)) = {new(i) : i \in 1 .. n}
  BY <1>0, NewKeysFacts
<1>5. /\ announced' \in [Conns -> 0 .. MaxKeyId] /\ announced'[c] = announced[c] + n
      /\ \A d \in Conns : d # c => announced'[d] = announced[d]
      /\ \A d \in Conns : announced[d] <= announced'[d] /\ announced[d] \in Nat /\ announced'[d] \in Nat
  BY <1>0, NewKeysFacts
<1>6. TypeOK'
  <2>1. ignored' \subseteq Key
    BY <1>0, <1>2, <1>4 DEF KeysInv, TypeOK
  <2> QED
    BY <1>0, <1>5, <2>1 DEF KeysInv, TypeOK
<1>7. IdsInv'
  BY <1>0, <1>1, <1>5 DEF KeysInv, IdsInv
<1>3. Len(reading') = 0
  BY <1>0, <1>1
<1>8. PlaceInv'
  <2>1. \A i \in 1 .. Len(reading') :
          reading'[i].owner \in relays /\ reading'[i].id <= announced'[reading'[i].owner]
    BY <1>3
  <2>2. ASSUME NEW s \in Sessions, NEW i \in 1 .. Len(pool[s])
        PROVE  /\ pool[s][i].owner \in relays /\ session[pool[s][i].owner] = s
               /\ pool[s][i].id <= announced'[pool[s][i].owner]
    <3>1. pool[s][i] \in Key /\ pool[s][i].owner \in Conns /\ pool[s][i].id \in Nat
      BY StateSeqs DEF KeysInv
    <3>2. /\ pool[s][i].owner \in relays /\ session[pool[s][i].owner] = s
          /\ pool[s][i].id <= announced[pool[s][i].owner]
      BY DEF KeysInv, PlaceInv
    <3> QED
      BY <1>5, <3>1, <3>2
  <2>3. ASSUME NEW i \in 1 .. Len(offered)
        PROVE  offered[i].owner \in used_conns /\ offered[i].id <= announced'[offered[i].owner]
    <3>1. offered[i] \in Key /\ offered[i].owner \in Conns /\ offered[i].id \in Nat
      BY StateSeqs DEF KeysInv
    <3>2. offered[i].owner \in used_conns /\ offered[i].id <= announced[offered[i].owner]
      BY DEF KeysInv, PlaceInv
    <3> QED
      BY <1>5, <3>1, <3>2
  <2> QED
    BY <1>0, <1>1, <2>1, <2>2, <2>3 DEF PlaceInv
<1>9. DistinctInv'
  BY <1>0, KeptDistinct DEF KeysInv
<1>10. CapacityInv'
  <2>1. Untaken(c)' = Untaken(c) \union ToSet(NewKeys(c, n))
    BY <1>0, <1>2, <1>4 DEF Untaken
  <2>2. \A d \in Conns : d # c => Untaken(d)' = Untaken(d)
    BY <1>0, <1>2, <1>4 DEF Untaken
  <2> QED
    BY <1>0, <2>1, <2>2, AnnouncedFits
<1>11. ReportInv' /\ ReportsReachTheirRelay'
  BY <1>0 DEF KeysInv, ReportInv, ReportsReachTheirRelay
<1>13. IgnoredInv'
  <2>1. ASSUME NEW k \in ignored' PROVE k.owner \in used_conns /\ k.id <= announced'[k.owner]
    <3>1. CASE k \in ignored
      <4>1. k \in Key /\ k.owner \in used_conns /\ k.id <= announced[k.owner] /\ k.owner \in Conns
            /\ k.id \in Nat
        BY <3>1 DEF KeysInv, TypeOK, IgnoredInv
      <4> QED
        BY <1>5, <4>1
    <3>2. CASE k \in {new(i) : i \in 1 .. n}
      <4>1. PICK i \in 1 .. n : k = new(i)
        BY <3>2
      <4>2. announced[c] + i <= announced[c] + n
        BY <1>1
      <4> QED
        BY <1>1, <1>2, <1>5, <4>1, <4>2
    <3> QED
      BY <1>0, <1>4, <3>1, <3>2
  <2>2. ASSUME NEW k \in Key, k.id <= announced[k.owner], k \notin ignored PROVE k \notin ignored'
    <3>1. \A i \in 1 .. n : new(i) # k
      BY <1>1, <1>2, <2>2
    <3> QED
      BY <1>0, <1>4, <2>2, <3>1
  <2>3. \A s \in Sessions : \A i \in 1 .. Len(pool[s]) : pool[s][i] \notin ignored'
    BY <2>2, StateSeqs DEF KeysInv, PlaceInv, IgnoredInv
  <2>4. \A i \in 1 .. Len(offered) : offered[i] \notin ignored'
    BY <2>2, StateSeqs DEF KeysInv, PlaceInv, IgnoredInv
  <2>5. used_conns' = used_conns /\ pool' = pool /\ offered' = offered
    BY <1>0
  <2> QED
    BY <1>3, <2>1, <2>3, <2>4, <2>5 DEF IgnoredInv
<1>12. AllAccounted'
  <2>1. ASSUME NEW d \in relays, NEW i \in 1 .. MaxKeyId, i <= announced'[d]
        PROVE  \/ [owner |-> d, id |-> i] \in ignored'
               \/ i <= announced[d]
    <3>1. d \in Conns
      BY DEF KeysInv, TypeOK
    <3>2. CASE d = c /\ ~ (i <= announced[d])
      <4>1. i - announced[c] \in 1 .. n /\ announced[c] + (i - announced[c]) = i
        BY <1>1, <1>5, <2>1, <3>2
      <4>2. new(i - announced[c]) \in ignored'
        BY <1>0, <1>4, <4>1
      <4> QED
        BY <3>2, <4>1, <4>2
    <3> QED
      BY <1>5, <2>1, <3>1, <3>2
  <2>2. ignored \subseteq ignored'
    BY <1>0
  <2> QED
    BY <1>0, <2>1, <2>2 DEF KeysInv, AllAccounted, Accounted
<1> QED
  BY <1>6, <1>7, <1>8, <1>9, <1>10, <1>11, <1>12, <1>13 DEF KeysInv

LEMMA PoolWithinUntaken ==
    ASSUME KeysInv, NEW c \in relays, NEW T \in SUBSET Untaken(c),
           \A i \in 1 .. Len(pool[session[c]]) : pool[session[c]][i] \in T
    PROVE  session[c] \in Sessions /\ Len(pool[session[c]]) <= Cardinality(T)
<1> DEFINE s == session[c]
           n == Len(pool[s])
           f == [i \in 1 .. n |-> pool[s][i]]
<1>1. c \in Conns /\ c \in used_conns /\ s \in Sessions
  BY KeysConstants DEF KeysInv, TypeOK, IdsInv, Sessions
<1>2. n \in Nat
  BY <1>1, StateSeqs DEF KeysInv
<1>3. f \in Injection(1 .. n, T)
  <2>1. f \in [1 .. n -> T]
    OBVIOUS
  <2>2. \A i, j \in 1 .. n : f[i] = f[j] => i = j
    BY <1>1 DEF KeysInv, DistinctInv
  <2> QED
    BY <2>1, <2>2, Fun_IsInj
<1>4. IsFiniteSet(T)
  BY <1>1, UntakenIsFinite, FS_Subset
<1>5. Cardinality(1 .. n) <= Cardinality(T)
  BY <1>3, <1>4, FS_Injection
<1>6. Cardinality(1 .. n) = n
  BY <1>2, IntervalCardinality
<1> QED
  BY <1>1, <1>5, <1>6

LEMMA PoolKeysAreUntaken ==
    ASSUME KeysInv, NEW c \in relays
    PROVE  \A i \in 1 .. Len(pool[session[c]]) : pool[session[c]][i] \in Untaken(c)
<1>1. c \in Conns /\ c \in used_conns /\ session[c] \in Sessions
  BY KeysConstants DEF KeysInv, TypeOK, IdsInv, Sessions
<1>2. ASSUME NEW i \in 1 .. Len(pool[session[c]]) PROVE pool[session[c]][i] \in Untaken(c)
  <2> DEFINE k == pool[session[c]][i]
  <2>1. k \in Key /\ k \in ToSet(pool[session[c]])
    BY <1>1, StateSeqs DEF KeysInv
  <2>2. k.owner \in relays /\ session[k.owner] = session[c]
    BY <1>1 DEF KeysInv, PlaceInv
  <2>3. k.owner = c
    BY <1>1, <2>2 DEF KeysInv, IdsInv, TypeOK
  <2> QED
    BY <1>1, <2>1, <2>3 DEF Untaken
<1> QED
  BY <1>2

LEMMA PoolWithinCapacity ==
    ASSUME KeysInv, NEW c \in relays
    PROVE  session[c] \in Sessions /\ Len(pool[session[c]]) <= Capacity
<1>1. session[c] \in Sessions /\ Len(pool[session[c]]) <= Cardinality(Untaken(c))
  BY PoolKeysAreUntaken, PoolWithinUntaken
<1>2. Cardinality(Untaken(c)) <= Capacity
  BY DEF KeysInv, CapacityInv
<1>3. Cardinality(Untaken(c)) \in Nat /\ Len(pool[session[c]]) \in Nat
  BY <1>1, UntakenIsFinite, StateSeqs DEF KeysInv, TypeOK
<1> QED
  BY <1>1, <1>2, <1>3, KeysConstants

\* The limits of SharedKeyPool are not met while a key waits to be added: the key itself
\* is one that its relay may have outstanding.
LEMMA PoolHasRoom ==
    ASSUME KeysInv, reading # <<>>
    PROVE  /\ Head(reading) \in Key /\ Head(reading).owner \in relays
           /\ session[Head(reading).owner] \in Sessions
           /\ Len(pool[session[Head(reading).owner]]) < MaxKeysPerSession
           /\ KeyCount < MaxKeysTotal
<1> USE KeysConstants
<1> DEFINE k == Head(reading)
           c == k.owner
           s == session[c]
<1>1. reading \in Seq(Key) /\ k = reading[1] /\ k \in Key /\ 1 \in 1 .. Len(reading)
  BY TailFacts DEF KeysInv, TypeOK
<1>2. c \in relays /\ c \in Conns /\ k \in ToSet(reading)
  BY <1>1, SeqFacts DEF KeysInv, PlaceInv, TypeOK
<1>3. k \in Untaken(c)
  BY <1>1, <1>2 DEF Untaken
<1>4. IsFiniteSet(Untaken(c)) /\ Cardinality(Untaken(c)) \in Nat /\ Cardinality(Untaken(c)) <= Capacity
  BY <1>2, UntakenIsFinite DEF KeysInv, CapacityInv
<1>5. s \in Sessions /\ Len(pool[s]) \in Nat
  BY <1>2, PoolWithinCapacity, StateSeqs DEF KeysInv
<1>6. Len(pool[s]) < Capacity
  <2> DEFINE T == Untaken(c) \ {k}
  <2>1. \A i \in 1 .. Len(pool[s]) : pool[s][i] # k
    BY <1>1, <1>5 DEF KeysInv, DistinctInv
  <2>2. \A i \in 1 .. Len(pool[s]) : pool[s][i] \in Untaken(c)
    BY <1>2, PoolKeysAreUntaken
  <2>3. T \in SUBSET Untaken(c) /\ \A i \in 1 .. Len(pool[s]) : pool[s][i] \in T
    BY <2>1, <2>2
  <2>4. Len(pool[s]) <= Cardinality(T)
    <3> HIDE DEF T, c
    <3> QED
      BY <1>2, <2>3, PoolWithinUntaken
  <2>5. Cardinality(T) = Cardinality(Untaken(c)) - 1
    BY <1>3, <1>4, FS_RemoveElement
  <2> QED
    BY <1>4, <1>5, <2>4, <2>5
<1>7. KeyCount < MaxKeysTotal
  <2> DEFINE Ids == {session[d] : d \in relays}
             Places == Ids \X (1 .. Capacity)
             Stored == UNION {{t} \X DOMAIN pool[t] : t \in Sessions}
             f == [d \in relays |-> session[d]]
             last == <<s, Capacity>>
  <2>1. /\ IsFiniteSet(Ids) /\ Cardinality(Ids) <= MaxRelays /\ Cardinality(Ids) \in Nat
    <3>1. f \in Surjection(relays, Ids)
      BY Fun_IsSurj
    <3>2. IsFiniteSet(relays) /\ Cardinality(relays) <= MaxRelays
      BY DEF KeysInv, TypeOK, IdsInv
    <3>3. IsFiniteSet(Ids) /\ Cardinality(Ids) <= Cardinality(relays)
      BY <3>1, <3>2, FS_Surjection
    <3>4. Cardinality(Ids) \in Nat /\ Cardinality(relays) \in Nat
      BY <3>2, <3>3, FS_CardinalityType
    <3> QED
      BY <3>2, <3>3, <3>4
  <2>2. IsFiniteSet(1 .. Capacity) /\ Cardinality(1 .. Capacity) = Capacity
    BY IntervalCardinality
  <2>3. IsFiniteSet(Places) /\ Cardinality(Places) = Cardinality(Ids) * Capacity
    <3> HIDE DEF Ids
    <3> QED
      BY <2>1, <2>2, FS_Product
  <2>4. ASSUME NEW p \in Stored PROVE p \in Places \ {last}
    <3>1. PICK t \in Sessions : p \in {t} \X DOMAIN pool[t]
      BY <2>4
    <3>2. /\ Len(pool[t]) \in Nat /\ DOMAIN pool[t] = 1 .. Len(pool[t])
      BY StateSeqs, SeqFacts DEF KeysInv
    <3>3. p = <<t, p[2]>> /\ p[2] \in 1 .. Len(pool[t])
      BY <3>1, <3>2
    <3> DEFINE d == pool[t][p[2]].owner
    <3>4. d \in relays /\ session[d] = t
      BY <3>3 DEF KeysInv, PlaceInv
    <3>5. Len(pool[t]) <= Capacity
      BY <3>4, PoolWithinCapacity
    <3>6. t \in Ids /\ p[2] \in 1 .. Capacity
      BY <3>2, <3>3, <3>4, <3>5
    <3>7. p # last
      BY <1>5, <1>6, <3>3
    <3> QED
      BY <3>3, <3>6, <3>7
  <2>5. last \in Places
    BY <1>2, <1>5, <1>6
  <2>6. /\ IsFiniteSet(Places \ {last}) /\ Cardinality(Places \ {last}) = Cardinality(Places) - 1
    BY <2>3, <2>5, FS_RemoveElement
  <2>7. IsFiniteSet(Stored) /\ Cardinality(Stored) <= Cardinality(Places \ {last})
    <3>1. Stored \in SUBSET (Places \ {last})
      BY <2>4
    <3> HIDE DEF Stored, Places
    <3> QED
      BY <2>6, <3>1, FS_Subset
  <2>8. Cardinality(Stored) \in Nat
    BY <2>7, FS_CardinalityType
  <2>9. Cardinality(Ids) * Capacity <= MaxRelays * Capacity
    <3> HIDE DEF Ids
    <3> QED
      BY <2>1
  <2>10. KeyCount = Cardinality(Stored)
    BY DEF KeyCount
  <2> HIDE DEF Ids, Places, Stored
  <2> QED
    BY <2>1, <2>3, <2>6, <2>7, <2>8, <2>9, <2>10
<1> QED
  BY <1>1, <1>2, <1>5, <1>6, <1>7

LEMMA KeyCountIsFinite ==
    ASSUME KeysInv
    PROVE  KeyCount \in Nat
<1> DEFINE Stored == UNION {{t} \X DOMAIN pool[t] : t \in Sessions}
           Places == Sessions \X (1 .. MaxKeysPerSession)
<1>1. IsFiniteSet(Sessions) /\ IsFiniteSet(1 .. MaxKeysPerSession)
  BY KeysConstants, IntervalCardinality DEF Sessions
<1>2. IsFiniteSet(Places)
  BY <1>1, FS_Product
<1>3. ASSUME NEW p \in Stored PROVE p \in Places
  <2>1. PICK t \in Sessions : p \in {t} \X DOMAIN pool[t]
    BY <1>3
  <2>2. DOMAIN pool[t] = 1 .. Len(pool[t]) /\ Len(pool[t]) \in Nat /\ Len(pool[t]) <= MaxKeysPerSession
    BY SeqFacts DEF KeysInv, TypeOK
  <2>3. \A i \in DOMAIN pool[t] : i \in 1 .. MaxKeysPerSession
    BY <2>2, KeysConstants
  <2> QED
    BY <2>1, <2>3
<1>4. Stored \in SUBSET Places
  BY <1>3
<1>5. IsFiniteSet(Stored)
  <2> HIDE DEF Stored, Places
  <2> QED
    BY <1>2, <1>4, FS_Subset
<1> QED
  BY <1>5, FS_CardinalityType DEF KeyCount

\* readKeyPool files the key it is at: the pool has room for it.
LEMMA StepAddNext ==
    ASSUME KeysInv, AddNext
    PROVE  KeysInv'
<1> USE KeysConstants
<1> DEFINE k == Head(reading)
           s == session[k.owner]
<1>1. /\ k \in Key /\ k.owner \in relays /\ s \in Sessions /\ reading # <<>>
      /\ Len(pool[s]) < MaxKeysPerSession /\ KeyCount < MaxKeysTotal
  BY PoolHasRoom DEF AddNext
<1>2. /\ reading \in Seq(Key) /\ pool \in [Sessions -> Seq(Key)] /\ pool[s] \in Seq(Key)
      /\ Len(pool[s]) \in Nat /\ KeyCount \in Nat
      /\ MaxKeysPerSession \in Nat /\ Len(reading) \in Nat
  <2>1. /\ reading \in Seq(Key) /\ pool \in [Sessions -> Seq(Key)] /\ pool[s] \in Seq(Key)
        /\ Len(pool[s]) \in Nat /\ Len(reading) \in Nat
    BY <1>1 DEF KeysInv, TypeOK
  <2>2. KeyCount \in Nat
    BY KeyCountIsFinite
  <2> QED
    BY <2>1, <2>2
<1>3. /\ pool' = [pool EXCEPT ![s] = Append(@, k)] /\ reading' = Tail(reading)
      /\ relays' = relays /\ session' = session /\ last_relay' = last_relay
      /\ leaving' = leaving /\ reports' = reports /\ offer' = offer /\ used_conns' = used_conns
      /\ announced' = announced /\ ignored' = ignored /\ offered' = offered /\ reported' = reported
  BY <1>1, <1>2 DEF AddNext, Add
<1>4. /\ Tail(reading) \in Seq(Key) /\ Len(Tail(reading)) = Len(reading) - 1 /\ Len(reading) - 1 \in Nat
      /\ \A i \in 1 .. Len(reading) - 1 : Tail(reading)[i] = reading[i + 1]
      /\ k = reading[1] /\ 1 \in 1 .. Len(reading)
  BY <1>1, <1>2, TailFacts
<1>5. /\ Append(pool[s], k) \in Seq(Key) /\ Len(Append(pool[s], k)) = Len(pool[s]) + 1
      /\ \A i \in 1 .. Len(pool[s]) : Append(pool[s], k)[i] = pool[s][i]
      /\ Append(pool[s], k)[Len(pool[s]) + 1] = k
  BY <1>1, <1>2, AppendFacts
<1>6. /\ pool' \in [Sessions -> Seq(Key)] /\ pool'[s] = Append(pool[s], k)
      /\ \A t \in Sessions : t # s => pool'[t] = pool[t]
  BY <1>1, <1>2, <1>3, <1>5
<1> HIDE DEF k, s
<1>7. ASSUME NEW i \in 1 .. Len(reading')
      PROVE  i + 1 \in 1 .. Len(reading) /\ reading'[i] = reading[i + 1] /\ i + 1 # 1
  BY <1>2, <1>3, <1>4
<1>8. ASSUME NEW t \in Sessions, NEW i \in 1 .. Len(pool'[t])
      PROVE  \/ i \in 1 .. Len(pool[t]) /\ pool'[t][i] = pool[t][i]
             \/ t = s /\ i = Len(pool[s]) + 1 /\ pool'[t][i] = reading[1]
  <2>1. CASE t = s
    <3>1. i \in 1 .. Len(pool[s]) \/ i = Len(pool[s]) + 1
      BY <1>2, <1>5, <1>6, <2>1
    <3>2. pool'[t] = Append(pool[s], k) /\ k = reading[1]
      BY <1>4, <1>6, <2>1
    <3> QED
      BY <1>5, <2>1, <3>1, <3>2
  <2>2. CASE t # s
    BY <1>6, <2>2
  <2> QED
    BY <2>1, <2>2
<1>9. TypeOK'
  <2>1. ASSUME NEW t \in Sessions PROVE Len(pool'[t]) <= MaxKeysPerSession
    <3>1. CASE t = s
      <4>1. Len(pool'[t]) = Len(pool[s]) + 1
        BY <1>5, <1>6, <3>1
      <4> QED
        BY <1>1, <1>2, <4>1
    <3>2. CASE t # s
      BY <1>6, <3>2 DEF KeysInv, TypeOK
    <3> QED
      BY <3>1, <3>2
  <2>2. reading' \in Seq(Key) /\ pool' \in [Sessions -> Seq(Key)]
    BY <1>3, <1>4, <1>6
  <2> QED
    BY <1>3, <2>1, <2>2 DEF KeysInv, TypeOK
<1>10. IdsInv' /\ ReportInv' /\ ReportsReachTheirRelay'
  BY <1>3 DEF KeysInv, IdsInv, ReportInv, ReportsReachTheirRelay
<1>11. PlaceInv'
  <2>0. /\ reading # <<>> => leaving = "no"
        /\ \A i \in 1 .. Len(reading) :
              reading[i].owner \in relays /\ reading[i].id <= announced[reading[i].owner]
        /\ \A t \in Sessions : \A i \in 1 .. Len(pool[t]) :
              /\ pool[t][i].owner \in relays /\ session[pool[t][i].owner] = t
              /\ pool[t][i].id <= announced[pool[t][i].owner]
        /\ \A i \in 1 .. Len(offered) :
              offered[i].owner \in used_conns /\ offered[i].id <= announced[offered[i].owner]
    BY DEF KeysInv, PlaceInv
  <2>1. leaving' = "no"
    BY <1>1, <1>3, <2>0
  <2>2. \A i \in 1 .. Len(reading') :
          reading'[i].owner \in relays /\ reading'[i].id <= announced[reading'[i].owner]
    BY <1>7, <2>0
  <2>3. \A t \in Sessions : \A i \in 1 .. Len(pool'[t]) :
          /\ pool'[t][i].owner \in relays /\ session[pool'[t][i].owner] = t
          /\ pool'[t][i].id <= announced[pool'[t][i].owner]
    <3>1. k.owner \in relays /\ session[k.owner] = s /\ k.id <= announced[k.owner] /\ k = reading[1]
      BY <1>1, <1>4, <2>0 DEF s
    <3> QED
      BY <1>8, <2>0, <3>1
  <2>4. /\ relays' = relays /\ session' = session /\ announced' = announced /\ ignored' = ignored
        /\ offered' = offered /\ used_conns' = used_conns
    BY <1>3
  <2> QED
    BY <2>0, <2>1, <2>2, <2>3, <2>4 DEF PlaceInv
<1>12. DistinctInv'
  <2>0. /\ \A i, j \in 1 .. Len(reading) : reading[i] = reading[j] => i = j
        /\ \A t \in Sessions : \A i, j \in 1 .. Len(pool[t]) : pool[t][i] = pool[t][j] => i = j
        /\ \A i, j \in 1 .. Len(offered) : offered[i] = offered[j] => i = j
        /\ \A i \in 1 .. Len(reading), j \in 1 .. Len(offered) : reading[i] # offered[j]
        /\ \A t \in Sessions : \A i \in 1 .. Len(pool[t]), j \in 1 .. Len(reading) : pool[t][i] # reading[j]
        /\ \A t \in Sessions : \A i \in 1 .. Len(pool[t]), j \in 1 .. Len(offered) : pool[t][i] # offered[j]
    BY DEF KeysInv, DistinctInv
  <2>1. ASSUME NEW i \in 1 .. Len(reading'), NEW j \in 1 .. Len(reading'), reading'[i] = reading'[j]
        PROVE  i = j
    <3>1. i + 1 = j + 1
      BY <1>7, <2>0, <2>1
    <3>2. i \in Int /\ j \in Int
      OBVIOUS
    <3> QED
      BY <3>1, <3>2
  <2>2. ASSUME NEW t \in Sessions, NEW i \in 1 .. Len(pool'[t]), NEW j \in 1 .. Len(pool'[t]),
               pool'[t][i] = pool'[t][j]
        PROVE  i = j
    BY <1>4, <1>8, <2>0, <2>2
  <2>3. \A i \in 1 .. Len(reading'), j \in 1 .. Len(offered) : reading'[i] # offered[j]
    BY <1>7, <2>0
  <2>4. ASSUME NEW t \in Sessions, NEW i \in 1 .. Len(pool'[t]), NEW j \in 1 .. Len(reading')
        PROVE  pool'[t][i] # reading'[j]
    <3>1. j + 1 \in 1 .. Len(reading) /\ reading'[j] = reading[j + 1] /\ j + 1 # 1
      BY <1>7
    <3>2. CASE i \in 1 .. Len(pool[t]) /\ pool'[t][i] = pool[t][i]
      BY <2>0, <3>1, <3>2
    <3>3. CASE pool'[t][i] = reading[1]
      BY <1>4, <2>0, <3>1, <3>3
    <3> QED
      BY <1>8, <3>2, <3>3
  <2>5. ASSUME NEW t \in Sessions, NEW i \in 1 .. Len(pool'[t]), NEW j \in 1 .. Len(offered)
        PROVE  pool'[t][i] # offered[j]
    BY <1>4, <1>8, <2>0
  <2>6. offered' = offered
    BY <1>3
  <2> QED
    BY <2>0, <2>1, <2>2, <2>3, <2>4, <2>5, <2>6 DEF DistinctInv
<1> USE DEF k, s
<1>13. /\ ToSet(reading) = ToSet(reading') \union {k} /\ ToSet(pool'[s]) = ToSet(pool[s]) \union {k}
  <2>1. ToSet(reading) = ToSet(Tail(reading)) \union {k}
    BY <1>1, <1>2, ToSetFacts
  <2>2. ToSet(Append(pool[s], k)) = ToSet(pool[s]) \union {k}
    BY <1>1, <1>2, ToSetFacts
  <2> QED
    BY <1>3, <1>6, <2>1, <2>2
<1>14. CapacityInv'
  <2>1. \A d \in relays' : Untaken(d)' \subseteq Untaken(d)
    BY <1>1, <1>3, <1>6, <1>13 DEF Untaken
  <2>2. relays' \subseteq relays
    BY <1>3
  <2> QED
    BY <2>1, <2>2, UntakenShrinks
<1>16. IgnoredInv'
  <2>1. \A i \in 1 .. Len(reading') : reading'[i] \notin ignored
    BY <1>7 DEF KeysInv, IgnoredInv
  <2>2. reading[1] \notin ignored
    BY <1>4 DEF KeysInv, IgnoredInv
  <2>3. \A t \in Sessions : \A i \in 1 .. Len(pool'[t]) : pool'[t][i] \notin ignored
    BY <1>8, <2>2 DEF KeysInv, IgnoredInv
  <2> QED
    BY <1>3, <2>1, <2>3 DEF KeysInv, IgnoredInv
<1>15. AllAccounted'
  <2>1. ASSUME NEW c \in relays, NEW i \in 1 .. MaxKeyId, i <= announced[c]
        PROVE  LET l == [owner |-> c, id |-> i] IN
                 \/ l \in ToSet(reading') \union ignored
                 \/ l \in ToSet(pool'[session[c]])
                 \/ \E o \in ToSet(offer) \union ToSet(reports) : o.key = l
                 \/ l \in reported[c]
    <3> DEFINE l == [owner |-> c, id |-> i]
    <3>1. /\ l.owner = c
          /\ \/ l \in ToSet(reading) \union ignored
             \/ l \in ToSet(pool[session[c]])
             \/ \E o \in ToSet(offer) \union ToSet(reports) : o.key = l
             \/ l \in reported[c]
      BY <2>1 DEF KeysInv, AllAccounted, Accounted
    <3>2. session[c] \in Sessions
      BY PoolWithinCapacity
    <3>3. l = k => session[c] = s
      BY <3>1
    <3> HIDE DEF l, k, s
    <3>4. l \in ToSet(reading) => l \in ToSet(reading') \/ l \in ToSet(pool'[session[c]])
      BY <1>13, <3>3
    <3>5. l \in ToSet(pool[session[c]]) => l \in ToSet(pool'[session[c]])
      BY <1>6, <1>13, <3>2
    <3> QED
      BY <3>1, <3>4, <3>5 DEF l
  <2>2. /\ relays' = relays /\ session' = session /\ announced' = announced /\ ignored' = ignored
        /\ offer' = offer /\ reports' = reports /\ reported' = reported
    BY <1>3
  <2> QED
    BY <2>1, <2>2 DEF AllAccounted, Accounted
<1> QED
  BY <1>9, <1>10, <1>11, <1>12, <1>14, <1>15, <1>16 DEF KeysInv

\* A key without material moves from the message to the ignored ones.
LEMMA StepSkipMalformed ==
    ASSUME KeysInv, SkipMalformed
    PROVE  KeysInv'
<1> USE KeysConstants
<1> DEFINE k == Head(reading)
<1>1. /\ reading' = Tail(reading) /\ ignored' = ignored \union {k} /\ reading # <<>>
      /\ relays' = relays /\ session' = session /\ last_relay' = last_relay /\ pool' = pool
      /\ leaving' = leaving /\ reports' = reports /\ offer' = offer /\ used_conns' = used_conns
      /\ announced' = announced /\ offered' = offered /\ reported' = reported
  BY DEF SkipMalformed
<1>2. reading \in Seq(Key) /\ Len(reading) \in Nat
  BY DEF KeysInv, TypeOK
<1>3. /\ Tail(reading) \in Seq(Key) /\ Len(Tail(reading)) = Len(reading) - 1 /\ Len(reading) - 1 \in Nat
      /\ \A i \in 1 .. Len(reading) - 1 : Tail(reading)[i] = reading[i + 1]
      /\ k = reading[1] /\ k \in Key /\ 1 \in 1 .. Len(reading)
  BY <1>1, <1>2, TailFacts
<1>4. ToSet(reading) = ToSet(reading') \union {k}
  BY <1>1, <1>2, ToSetFacts
<1> HIDE DEF k
<1>5. ASSUME NEW i \in 1 .. Len(reading')
      PROVE  i + 1 \in 1 .. Len(reading) /\ reading'[i] = reading[i + 1] /\ i + 1 # 1
  BY <1>1, <1>2, <1>3
<1>6. TypeOK'
  BY <1>1, <1>3 DEF KeysInv, TypeOK
<1>7. IdsInv' /\ ReportInv' /\ ReportsReachTheirRelay'
  BY <1>1 DEF KeysInv, IdsInv, ReportInv, ReportsReachTheirRelay
<1>8. k.owner \in used_conns /\ k.id <= announced[k.owner]
  BY <1>3 DEF KeysInv, PlaceInv, TypeOK
<1>9. PlaceInv'
  <2>1. \A i \in 1 .. Len(reading') :
          reading'[i].owner \in relays /\ reading'[i].id <= announced[reading'[i].owner]
    BY <1>5 DEF KeysInv, PlaceInv
  <2> QED
    BY <1>1, <2>1 DEF KeysInv, PlaceInv
<1>10. DistinctInv'
  <2>0. /\ \A i, j \in 1 .. Len(reading) : reading[i] = reading[j] => i = j
        /\ \A i \in 1 .. Len(reading), j \in 1 .. Len(offered) : reading[i] # offered[j]
        /\ \A t \in Sessions : \A i \in 1 .. Len(pool[t]), j \in 1 .. Len(reading) : pool[t][i] # reading[j]
    BY DEF KeysInv, DistinctInv
  <2>1. ASSUME NEW i \in 1 .. Len(reading'), NEW j \in 1 .. Len(reading'), reading'[i] = reading'[j]
        PROVE  i = j
    <3>1. i + 1 = j + 1
      BY <1>5, <2>0, <2>1
    <3>2. i \in Int /\ j \in Int
      OBVIOUS
    <3> QED
      BY <3>1, <3>2
  <2>2. \A i \in 1 .. Len(reading'), j \in 1 .. Len(offered) : reading'[i] # offered[j]
    BY <1>5, <2>0
  <2>3. \A t \in Sessions : \A i \in 1 .. Len(pool[t]), j \in 1 .. Len(reading') : pool[t][i] # reading'[j]
    BY <1>5, <2>0
  <2>4. pool' = pool /\ offered' = offered
    BY <1>1
  <2> QED
    BY <2>1, <2>2, <2>3, <2>4 DEF KeysInv, DistinctInv
<1>11. CapacityInv'
  <2>1. \A d \in relays' : Untaken(d)' \subseteq Untaken(d)
    BY <1>1, <1>4 DEF Untaken
  <2> QED
    BY <1>1, <2>1, UntakenShrinks
<1>12. IgnoredInv'
  <2>0. /\ \A i \in 1 .. Len(reading) : reading[i] \notin ignored
        /\ \A s \in Sessions : \A i \in 1 .. Len(pool[s]) : pool[s][i] \notin ignored
        /\ \A i \in 1 .. Len(offered) : offered[i] \notin ignored
        /\ \A l \in ignored : l.owner \in used_conns /\ l.id <= announced[l.owner]
    BY DEF KeysInv, IgnoredInv
  <2>1. ASSUME NEW i \in 1 .. Len(reading') PROVE reading'[i] \notin ignored'
    <3>1. reading[i + 1] # reading[1] /\ reading[i + 1] \notin ignored
      BY <1>3, <1>5, <2>0 DEF KeysInv, DistinctInv
    <3> QED
      BY <1>1, <1>3, <1>5, <3>1
  <2>2. \A s \in Sessions : \A i \in 1 .. Len(pool[s]) : pool[s][i] # k
    BY <1>3 DEF KeysInv, DistinctInv
  <2>3. \A i \in 1 .. Len(offered) : offered[i] # k
    BY <1>3 DEF KeysInv, DistinctInv
  <2> QED
    BY <1>1, <1>8, <2>0, <2>1, <2>2, <2>3 DEF IgnoredInv
<1>13. AllAccounted'
  <2>1. ToSet(reading) \union ignored = ToSet(reading') \union ignored'
    BY <1>1, <1>4
  <2>2. ASSUME NEW l PROVE Accounted(l) => Accounted(l)'
    BY <1>1, <2>1 DEF Accounted
  <2> QED
    BY <1>1, <2>2 DEF KeysInv, AllAccounted
<1> QED
  BY <1>6, <1>7, <1>9, <1>10, <1>11, <1>12, <1>13 DEF KeysInv

LEMMA PoolsShrink ==
    ASSUME KeysInv, reading' = reading, offered' = offered,
           \A t \in Sessions : \A i \in 1 .. Len(pool'[t]) : pool'[t] = pool[t]
    PROVE  DistinctInv'
<1>1. \A t \in Sessions : \A i, j \in 1 .. Len(pool'[t]) : pool'[t][i] = pool'[t][j] => i = j
  BY DEF KeysInv, DistinctInv
<1>2. ASSUME NEW t \in Sessions, NEW i \in 1 .. Len(pool'[t]), NEW j \in 1 .. Len(reading)
      PROVE  pool'[t][i] # reading[j]
  <2>1. pool'[t] = pool[t]
    OBVIOUS
  <2> QED
    BY <2>1 DEF KeysInv, DistinctInv
<1>3. ASSUME NEW t \in Sessions, NEW i \in 1 .. Len(pool'[t]), NEW j \in 1 .. Len(offered)
      PROVE  pool'[t][i] # offered[j]
  <2>1. pool'[t] = pool[t]
    OBVIOUS
  <2> QED
    BY <2>1 DEF KeysInv, DistinctInv
<1> QED
  BY <1>1, <1>2, <1>3 DEF KeysInv, DistinctInv

\* A relay goes with its keys, which nobody else has under its id.
LEMMA StepRemoveRelay ==
    ASSUME KeysInv, NEW c \in Conns, RemoveRelay(c), reading = <<>>
    PROVE  KeysInv'
<1> USE KeysConstants
<1> DEFINE s == session[c]
<1>1. /\ c \in relays /\ c \in used_conns /\ s \in Sessions
      /\ relays' = relays \ {c} /\ pool' = [pool EXCEPT ![s] = <<>>]
      /\ session' = session /\ last_relay' = last_relay /\ reading' = reading
      /\ leaving' = leaving /\ reports' = reports /\ offer' = offer /\ used_conns' = used_conns
      /\ announced' = announced /\ ignored' = ignored /\ offered' = offered /\ reported' = reported
  BY PoolWithinCapacity DEF RemoveRelay, RemoveKeys, KeysInv, TypeOK
<1>2. /\ pool \in [Sessions -> Seq(Key)] /\ pool' \in [Sessions -> Seq(Key)]
      /\ pool'[s] = <<>> /\ \A t \in Sessions : t # s => pool'[t] = pool[t]
  BY <1>1 DEF KeysInv, TypeOK
<1>3. \A t \in Sessions : \A i \in 1 .. Len(pool'[t]) : t # s /\ pool'[t] = pool[t]
  BY <1>2
<1>4. IsFiniteSet(relays') /\ Cardinality(relays') <= MaxRelays
  <2>1. IsFiniteSet(relays) /\ Cardinality(relays) \in Nat /\ Cardinality(relays) <= MaxRelays
    BY FS_CardinalityType DEF KeysInv, IdsInv, TypeOK
  <2>2. IsFiniteSet(relays \ {c}) /\ Cardinality(relays \ {c}) = Cardinality(relays) - 1
    BY <1>1, <2>1, FS_RemoveElement
  <2> QED
    BY <1>1, <2>1, <2>2
<1>5. TypeOK'
  <2>1. \A t \in Sessions : Len(pool'[t]) <= MaxKeysPerSession
    <3>1. Len(<<>>) = 0
      OBVIOUS
    <3> QED
      BY <1>2, <3>1 DEF KeysInv, TypeOK
  <2>2. relays' \subseteq used_conns'
    BY <1>1 DEF KeysInv, TypeOK
  <2> QED
    BY <1>1, <1>2, <1>4, <2>1, <2>2 DEF KeysInv, TypeOK
<1>6. IdsInv'
  BY <1>1, <1>4 DEF KeysInv, IdsInv
<1>7. PlaceInv'
  <2>1. ASSUME NEW t \in Sessions, NEW i \in 1 .. Len(pool'[t])
        PROVE  /\ pool'[t][i].owner \in relays' /\ session[pool'[t][i].owner] = t
               /\ pool'[t][i].id <= announced[pool'[t][i].owner]
    <3>1. t # s /\ pool'[t] = pool[t]
      BY <1>3
    <3>2. /\ pool[t][i].owner \in relays /\ session[pool[t][i].owner] = t
          /\ pool[t][i].id <= announced[pool[t][i].owner]
      BY <3>1 DEF KeysInv, PlaceInv
    <3> QED
      BY <1>1, <3>1, <3>2
  <2>2. Len(reading') = 0
    BY <1>1
  <2> QED
    BY <1>1, <2>1, <2>2 DEF KeysInv, PlaceInv
<1>8. DistinctInv'
  <2>1. reading' = reading /\ offered' = offered
    BY <1>1
  <2> QED
    BY <1>3, <2>1, PoolsShrink
<1>9. CapacityInv'
  <2>1. relays' \subseteq relays /\ reading' = reading /\ ignored' = ignored
    BY <1>1
  <2>2. \A t \in Sessions : ToSet(pool'[t]) \subseteq ToSet(pool[t])
    <3>1. ToSet(<<>>) = {}
      BY DEF ToSet
    <3> QED
      BY <1>2, <3>1
  <2>3. \A d \in relays' : Untaken(d)' \subseteq Untaken(d)
    BY <2>1, <2>2 DEF Untaken
  <2> QED
    BY <2>1, <2>3, UntakenShrinks
<1>10. ReportInv' /\ ReportsReachTheirRelay'
  BY <1>1 DEF KeysInv, ReportInv, ReportsReachTheirRelay
<1>11. AllAccounted'
  <2>1. ASSUME NEW d \in relays' PROVE d \in relays /\ pool'[session[d]] = pool[session[d]]
    <3>1. d \in relays /\ d # c /\ d \in used_conns
      BY <1>1 DEF KeysInv, TypeOK
    <3>2. session[d] # s /\ session[d] \in Sessions
      BY <1>1, <3>1, PoolWithinCapacity DEF KeysInv, IdsInv
    <3> QED
      BY <1>2, <3>1, <3>2
  <2>2. /\ session' = session /\ announced' = announced /\ ignored' = ignored /\ reading' = reading
        /\ offer' = offer /\ reports' = reports /\ reported' = reported
    BY <1>1
  <2> QED
    BY <2>1, <2>2 DEF KeysInv, AllAccounted, Accounted
<1>12. IgnoredInv'
  <2>1. ASSUME NEW t \in Sessions, NEW i \in 1 .. Len(pool'[t]) PROVE pool'[t][i] \notin ignored
    <3>1. pool'[t] = pool[t]
      BY <1>3
    <3> QED
      BY <3>1 DEF KeysInv, IgnoredInv
  <2> QED
    BY <1>1, <2>1 DEF KeysInv, IgnoredInv
<1> QED
  BY <1>5, <1>6, <1>7, <1>8, <1>9, <1>10, <1>11, <1>12 DEF KeysInv

LEMMA StepRelayFinished ==
    ASSUME KeysInv, NEW c \in Conns, RelayFinished(c)
    PROVE  KeysInv'
BY StepRemoveRelay DEF RelayFinished, Idle

\* No message is being read while doStopRelay or onStop drops the relays.
LEMMA StepStopNextRelay ==
    ASSUME KeysInv, NEW c \in Conns, StopNextRelay(c)
    PROVE  KeysInv'
BY StepRemoveRelay DEF StopNextRelay, KeysInv, PlaceInv

LEMMA StepStopAllRelays ==
    ASSUME KeysInv, NEW why \in {"all", "stop"}, StopAllRelays(why)
    PROVE  KeysInv'
<1>1. /\ relays' = relays /\ session' = session /\ last_relay' = last_relay /\ pool' = pool
      /\ reading' = reading /\ reports' = reports /\ offer' = offer /\ used_conns' = used_conns
      /\ announced' = announced /\ ignored' = ignored /\ offered' = offered /\ reported' = reported
      /\ reading = <<>> /\ leaving' = why
  BY DEF StopAllRelays, Idle
<1>2. TypeOK' /\ IdsInv'
  BY <1>1 DEF KeysInv, TypeOK, IdsInv
<1>5. PlaceInv'
  BY <1>1 DEF KeysInv, PlaceInv
<1>6. DistinctInv' /\ IgnoredInv'
  BY <1>1 DEF KeysInv, DistinctInv, IgnoredInv
<1>3. CapacityInv'
  BY <1>1 DEF KeysInv, CapacityInv, Untaken
<1>4. ReportInv' /\ ReportsReachTheirRelay' /\ AllAccounted'
  BY <1>1 DEF KeysInv, ReportInv, ReportsReachTheirRelay, AllAccounted, Accounted
<1> QED
  BY <1>2, <1>3, <1>4, <1>5, <1>6 DEF KeysInv

\* When the last relay has gone the pool is empty, cleared or not.
LEMMA StepStopped ==
    ASSUME KeysInv, Stopped
    PROVE  KeysInv'
<1> USE KeysConstants
<1>1. /\ relays' = relays /\ session' = session /\ last_relay' = last_relay /\ relays = {}
      /\ reading' = reading /\ reports' = reports /\ offer' = offer /\ used_conns' = used_conns
      /\ announced' = announced /\ ignored' = ignored /\ offered' = offered /\ reported' = reported
      /\ leaving' \in {"no", "stopped"}
  BY DEF Stopped
<1>2. /\ pool' \in [Sessions -> Seq(Key)]
      /\ \A t \in Sessions : pool'[t] = pool[t] \/ pool'[t] = <<>>
  <2>1. CASE pool' = pool
    BY <2>1 DEF KeysInv, TypeOK
  <2>2. CASE pool' = [t \in Sessions |-> <<>>]
    BY <2>2
  <2> QED
    BY <2>1, <2>2 DEF Stopped
<1>3. \A t \in Sessions : \A i \in 1 .. Len(pool'[t]) : pool'[t] = pool[t]
  BY <1>2
<1>4. reading = <<>>
  <2>1. leaving \in {"all", "stop"}
    BY DEF Stopped
  <2> QED
    BY <2>1 DEF KeysInv, PlaceInv
<1>5. TypeOK'
  <2>1. \A t \in Sessions : Len(pool'[t]) <= MaxKeysPerSession
    <3>1. Len(<<>>) = 0
      OBVIOUS
    <3> QED
      BY <1>2, <3>1 DEF KeysInv, TypeOK
  <2> QED
    BY <1>1, <1>2, <2>1 DEF KeysInv, TypeOK
<1>6. IdsInv' /\ ReportInv' /\ ReportsReachTheirRelay'
  BY <1>1 DEF KeysInv, IdsInv, ReportInv, ReportsReachTheirRelay
<1>7. PlaceInv'
  <2>1. Len(reading') = 0 /\ reading' = <<>>
    BY <1>1, <1>4
  <2> QED
    BY <1>1, <1>3, <2>1 DEF KeysInv, PlaceInv
<1>8. DistinctInv'
  <2>1. reading' = reading /\ offered' = offered
    BY <1>1
  <2> QED
    BY <1>3, <2>1, PoolsShrink
<1>9. CapacityInv' /\ AllAccounted'
  BY <1>1 DEF CapacityInv, AllAccounted, Accounted
<1>10. IgnoredInv'
  <2>1. ASSUME NEW t \in Sessions, NEW i \in 1 .. Len(pool'[t]) PROVE pool'[t][i] \notin ignored
    <3>1. pool'[t] = pool[t]
      BY <1>3
    <3> QED
      BY <3>1 DEF KeysInv, IgnoredInv
  <2> QED
    BY <1>1, <2>1 DEF KeysInv, IgnoredInv
<1> QED
  BY <1>5, <1>6, <1>7, <1>8, <1>9, <1>10 DEF KeysInv

\* A report reaches the relay that has its id, which is the one the key came from.
LEMMA StepSendKeyUsed ==
    ASSUME KeysInv, SendKeyUsed
    PROVE  KeysInv'
<1> USE KeysConstants
<1> DEFINE r == Head(reports)
<1>1. /\ relays' = relays /\ session' = session /\ last_relay' = last_relay /\ pool' = pool
      /\ reading' = reading /\ leaving' = leaving /\ offer' = offer /\ used_conns' = used_conns
      /\ announced' = announced /\ ignored' = ignored /\ offered' = offered
      /\ reports # <<>> /\ reports' = Tail(reports)
  BY DEF SendKeyUsed
<1>2. reports \in Seq(Credentials) /\ reported \in [Conns -> SUBSET Key]
  BY DEF KeysInv, TypeOK
<1>3. /\ Tail(reports) \in Seq(Credentials) /\ Len(Tail(reports)) = Len(reports) - 1
      /\ Len(reports) - 1 \in Nat
      /\ \A i \in 1 .. Len(reports) - 1 : Tail(reports)[i] = reports[i + 1]
      /\ r = reports[1] /\ r \in Credentials /\ 1 \in 1 .. Len(reports)
  BY <1>1, <1>2, TailFacts
<1>4. r.key \in Key /\ r.key.owner \in used_conns /\ session[r.key.owner] = r.session
  BY <1>3 DEF KeysInv, ReportInv, Credentials
<1>5. /\ reported' \in [Conns -> SUBSET Key]
      /\ \A c \in Conns : reported'[c] = IF c \in relays /\ session[c] = r.session
                                           THEN reported[c] \union {r.key} ELSE reported[c]
  BY <1>2, <1>4 DEF SendKeyUsed
<1>6. TypeOK'
  BY <1>1, <1>3, <1>5 DEF KeysInv, TypeOK
<1>7. IdsInv'
  BY <1>1 DEF KeysInv, IdsInv
<1>8. PlaceInv'
  BY <1>1 DEF KeysInv, PlaceInv
<1>9. DistinctInv' /\ IgnoredInv'
  BY <1>1 DEF KeysInv, DistinctInv, IgnoredInv
<1>10. CapacityInv'
  BY <1>1 DEF KeysInv, CapacityInv, Untaken
<1>11. ReportInv'
  <2>1. ASSUME NEW i \in 1 .. Len(reports')
        PROVE  reports'[i].key.owner \in used_conns /\ session[reports'[i].key.owner] = reports'[i].session
    <3>1. i + 1 \in 1 .. Len(reports) /\ reports'[i] = reports[i + 1]
      BY <1>1, <1>3
    <3> QED
      BY <3>1 DEF KeysInv, ReportInv
  <2>2. session' = session /\ used_conns' = used_conns /\ offer' = offer
    BY <1>1
  <2> QED
    BY <2>1, <2>2 DEF KeysInv, ReportInv
<1>12. ReportsReachTheirRelay'
  <2>1. ASSUME NEW c \in relays, session[c] = r.session PROVE r.key.owner = c
    BY <1>4, <2>1 DEF KeysInv, IdsInv, TypeOK
  <2> QED
    BY <1>5, <2>1 DEF KeysInv, ReportsReachTheirRelay
<1>13. AllAccounted'
  <2>1. ToSet(reports) = ToSet(reports') \union {r}
    BY <1>1, <1>2, ToSetFacts
  <2>2. ASSUME NEW c \in relays, NEW i \in 1 .. MaxKeyId, i <= announced[c]
        PROVE  LET l == [owner |-> c, id |-> i] IN
                 \/ l \in ToSet(reading) \union ignored
                 \/ l \in ToSet(pool[session[c]])
                 \/ \E o \in ToSet(offer) \union ToSet(reports') : o.key = l
                 \/ l \in reported'[c]
    <3> DEFINE l == [owner |-> c, id |-> i]
    <3>1. /\ l.owner = c /\ c \in Conns
          /\ \/ l \in ToSet(reading) \union ignored
             \/ l \in ToSet(pool[session[c]])
             \/ \E o \in ToSet(offer) \union ToSet(reports) : o.key = l
             \/ l \in reported[c]
      BY <2>2 DEF KeysInv, AllAccounted, Accounted, TypeOK
    <3>2. r.key = l => l \in reported'[c]
      BY <1>4, <1>5, <3>1
    <3>3. l \in reported[c] => l \in reported'[c]
      BY <1>5, <3>1
    <3> HIDE DEF l, r
    <3> QED
      BY <2>1, <3>1, <3>2, <3>3 DEF l
  <2>3. /\ relays' = relays /\ session' = session /\ announced' = announced /\ ignored' = ignored
        /\ offer' = offer /\ reading' = reading /\ pool' = pool
    BY <1>1
  <2> QED
    BY <2>2, <2>3 DEF AllAccounted, Accounted
<1> QED
  BY <1>6, <1>7, <1>8, <1>9, <1>10, <1>11, <1>12, <1>13 DEF KeysInv

----------------------------------------------------------------------------
(* The thread of the clients                                               *)

LEMMA StepNotifyKeyUsed ==
    ASSUME KeysInv, NotifyKeyUsed
    PROVE  KeysInv'
<1> USE KeysConstants
<1>1. /\ relays' = relays /\ session' = session /\ last_relay' = last_relay /\ pool' = pool
      /\ reading' = reading /\ leaving' = leaving /\ used_conns' = used_conns
      /\ announced' = announced /\ ignored' = ignored /\ offered' = offered /\ reported' = reported
      /\ reports' = reports \o offer /\ offer' = <<>>
  BY DEF NotifyKeyUsed, PostReport
<1>2. reports \in Seq(Credentials) /\ offer \in Seq(Credentials)
  BY DEF KeysInv, TypeOK
<1>3. /\ reports \o offer \in Seq(Credentials)
      /\ \A i \in 1 .. Len(reports) : (reports \o offer)[i] = reports[i]
      /\ \A i \in 1 .. Len(reports \o offer) :
            \/ i \in 1 .. Len(reports)
            \/ i - Len(reports) \in 1 .. Len(offer) /\ (reports \o offer)[i] = offer[i - Len(reports)]
  BY <1>2, ConcatFacts
<1>4. offer' \in Seq(Credentials) /\ Len(offer') = 0 /\ ToSet(offer') = {}
  BY <1>1 DEF ToSet
<1>5. TypeOK'
  BY <1>1, <1>3, <1>4 DEF KeysInv, TypeOK
<1>6. IdsInv' /\ ReportsReachTheirRelay'
  BY <1>1 DEF KeysInv, IdsInv, ReportsReachTheirRelay
<1>7. PlaceInv'
  BY <1>1 DEF KeysInv, PlaceInv
<1>8. DistinctInv' /\ IgnoredInv'
  BY <1>1 DEF KeysInv, DistinctInv, IgnoredInv
<1>9. CapacityInv'
  BY <1>1 DEF KeysInv, CapacityInv, Untaken
<1>10. ReportInv'
  <2>1. ASSUME NEW i \in 1 .. Len(reports')
        PROVE  reports'[i].key.owner \in used_conns /\ session[reports'[i].key.owner] = reports'[i].session
    <3>1. \/ \E j \in 1 .. Len(reports) : reports'[i] = reports[j]
          \/ \E j \in 1 .. Len(offer) : reports'[i] = offer[j]
      BY <1>1, <1>3
    <3> QED
      BY <3>1 DEF KeysInv, ReportInv
  <2>2. session' = session /\ used_conns' = used_conns
    BY <1>1
  <2> QED
    BY <1>4, <2>1, <2>2 DEF ReportInv
<1>11. AllAccounted'
  <2>1. ToSet(reports') = ToSet(reports) \union ToSet(offer)
    BY <1>1, <1>2, ToSetFacts
  <2>2. /\ relays' = relays /\ session' = session /\ announced' = announced /\ ignored' = ignored
        /\ reported' = reported /\ reading' = reading /\ pool' = pool
    BY <1>1
  <2>3. ToSet(offer') \union ToSet(reports') = ToSet(offer) \union ToSet(reports)
    BY <1>4, <2>1
  <2> QED
    BY <2>2, <2>3 DEF KeysInv, AllAccounted, Accounted
<1> QED
  BY <1>5, <1>6, <1>7, <1>8, <1>9, <1>10, <1>11 DEF KeysInv

\* The last key of a pool moves to the offer, and is nowhere else.
LEMMA StepTakeKey ==
    ASSUME KeysInv, NEW s \in Sessions, TakeKey(s)
    PROVE  KeysInv'
<1> USE KeysConstants
<1> DEFINE k == Last(pool[s])
           n == Len(pool[s])
           o == [session |-> s, key |-> k]
<1>1. /\ relays' = relays /\ session' = session /\ last_relay' = last_relay
      /\ reading' = reading /\ leaving' = leaving /\ used_conns' = used_conns
      /\ announced' = announced /\ ignored' = ignored /\ reported' = reported /\ reports' = reports
      /\ offer = <<>> /\ pool[s] # <<>> /\ offer' = <<o>> /\ offered' = Append(offered, k)
      /\ pool' = [pool EXCEPT ![s] = Front(@)]
  BY DEF TakeKey, TakeFrom, Preferred
<1>2. /\ pool \in [Sessions -> Seq(Key)] /\ pool[s] \in Seq(Key) /\ n \in Nat
      /\ offered \in Seq(Key) /\ Len(offered) \in Nat
  BY DEF KeysInv, TypeOK
<1>3. /\ Front(pool[s]) \in Seq(Key) /\ Len(Front(pool[s])) = n - 1 /\ n - 1 \in Nat
      /\ \A i \in 1 .. n - 1 : Front(pool[s])[i] = pool[s][i]
      /\ k = pool[s][n] /\ k \in Key /\ n \in 1 .. n
  BY <1>1, <1>2, FrontFacts
<1>4. /\ pool' \in [Sessions -> Seq(Key)] /\ pool'[s] = Front(pool[s])
      /\ \A t \in Sessions : t # s => pool'[t] = pool[t]
  BY <1>1, <1>2, <1>3
<1>5. ASSUME NEW t \in Sessions, NEW i \in 1 .. Len(pool'[t])
      PROVE  i \in 1 .. Len(pool[t]) /\ pool'[t][i] = pool[t][i] /\ (t = s => i # n)
  <2>1. CASE t = s
    BY <1>2, <1>3, <1>4, <2>1
  <2>2. CASE t # s
    BY <1>4, <2>2
  <2> QED
    BY <2>1, <2>2
<1>6. /\ Append(offered, k) \in Seq(Key) /\ Len(Append(offered, k)) = Len(offered) + 1
      /\ \A i \in 1 .. Len(offered) : Append(offered, k)[i] = offered[i]
      /\ Append(offered, k)[Len(offered) + 1] = k
  BY <1>2, <1>3, AppendFacts
<1>7. ASSUME NEW i \in 1 .. Len(offered')
      PROVE  \/ i \in 1 .. Len(offered) /\ offered'[i] = offered[i]
             \/ i = Len(offered) + 1 /\ offered'[i] = k
  <2>1. i \in 1 .. Len(offered) \/ i = Len(offered) + 1
    BY <1>1, <1>2, <1>6
  <2> QED
    BY <1>1, <1>6, <2>1
<1>8. /\ k.owner \in relays /\ k.owner \in used_conns /\ session[k.owner] = s
      /\ k.id <= announced[k.owner]
  BY <1>3 DEF KeysInv, TypeOK, PlaceInv
<1>9. /\ o \in Credentials /\ o.key = k /\ o.session = s /\ offer' \in Seq(Credentials)
      /\ Len(offer') = 1 /\ offer'[1] = o /\ ToSet(offer') = {o}
  <2>1. o \in Credentials /\ o.key = k /\ o.session = s
    BY <1>3 DEF Credentials
  <2>2. /\ offer' \in Seq(Credentials) /\ Len(offer') = 1 /\ offer'[1] = o
    <3> HIDE DEF o
    <3> QED
      BY <1>1, <2>1
  <2>3. ToSet(offer') = {o}
    <3> HIDE DEF o
    <3> QED
      BY <1>1 DEF ToSet
  <2> QED
    BY <2>1, <2>2, <2>3
<1>10. TypeOK'
  <2>1. ASSUME NEW t \in Sessions PROVE Len(pool'[t]) <= MaxKeysPerSession
    <3>1. Len(pool[t]) <= MaxKeysPerSession /\ Len(pool[t]) \in Nat
      BY DEF KeysInv, TypeOK
    <3>2. Len(pool'[t]) = Len(pool[t]) \/ Len(pool'[t]) = Len(pool[t]) - 1
      BY <1>3, <1>4
    <3> QED
      BY <3>1, <3>2
  <2>2. offered' \in Seq(Key)
    BY <1>1, <1>6
  <2> QED
    BY <1>1, <1>4, <1>9, <2>1, <2>2 DEF KeysInv, TypeOK
<1>11. IdsInv' /\ ReportsReachTheirRelay'
  BY <1>1 DEF KeysInv, IdsInv, ReportsReachTheirRelay
<1>12. PlaceInv'
  <2>0. /\ reading # <<>> => leaving = "no"
        /\ \A i \in 1 .. Len(reading) :
              reading[i].owner \in relays /\ reading[i].id <= announced[reading[i].owner]
        /\ \A t \in Sessions : \A i \in 1 .. Len(pool[t]) :
              /\ pool[t][i].owner \in relays /\ session[pool[t][i].owner] = t
              /\ pool[t][i].id <= announced[pool[t][i].owner]
        /\ \A i \in 1 .. Len(offered) :
              offered[i].owner \in used_conns /\ offered[i].id <= announced[offered[i].owner]
    BY DEF KeysInv, PlaceInv
  <2>1. ASSUME NEW t \in Sessions, NEW i \in 1 .. Len(pool'[t])
        PROVE  /\ pool'[t][i].owner \in relays /\ session[pool'[t][i].owner] = t
               /\ pool'[t][i].id <= announced[pool'[t][i].owner]
    <3>1. i \in 1 .. Len(pool[t]) /\ pool'[t][i] = pool[t][i]
      BY <1>5
    <3> QED
      BY <2>0, <3>1
  <2>2. \A i \in 1 .. Len(offered') :
          offered'[i].owner \in used_conns /\ offered'[i].id <= announced[offered'[i].owner]
    BY <1>7, <1>8, <2>0
  <2>3. /\ relays' = relays /\ session' = session /\ announced' = announced /\ ignored' = ignored
        /\ reading' = reading /\ leaving' = leaving /\ used_conns' = used_conns
    BY <1>1
  <2> QED
    BY <2>0, <2>1, <2>2, <2>3 DEF PlaceInv
<1>13. DistinctInv'
  <2>0. /\ \A i, j \in 1 .. Len(reading) : reading[i] = reading[j] => i = j
        /\ \A t \in Sessions : \A i, j \in 1 .. Len(pool[t]) : pool[t][i] = pool[t][j] => i = j
        /\ \A i, j \in 1 .. Len(offered) : offered[i] = offered[j] => i = j
        /\ \A i \in 1 .. Len(reading), j \in 1 .. Len(offered) : reading[i] # offered[j]
        /\ \A t \in Sessions : \A i \in 1 .. Len(pool[t]), j \in 1 .. Len(reading) : pool[t][i] # reading[j]
        /\ \A t \in Sessions : \A i \in 1 .. Len(pool[t]), j \in 1 .. Len(offered) : pool[t][i] # offered[j]
    BY DEF KeysInv, DistinctInv
  <2>1. \A i \in 1 .. Len(offered) : offered[i] # k
    BY <1>3, <2>0
  <2>2. \A i \in 1 .. Len(reading) : reading[i] # k
    BY <1>3, <2>0
  <2>3. ASSUME NEW t \in Sessions, NEW i \in 1 .. Len(pool'[t]) PROVE pool'[t][i] # k
    <3>1. i \in 1 .. Len(pool[t]) /\ pool'[t][i] = pool[t][i] /\ (t = s => i # n)
      BY <1>5
    <3>2. session[pool[t][i].owner] = t
      BY <3>1 DEF KeysInv, PlaceInv
    <3>3. CASE t = s
      BY <1>3, <2>0, <3>1, <3>3
    <3>4. CASE t # s
      BY <1>8, <3>1, <3>2, <3>4
    <3> QED
      BY <3>3, <3>4
  <2>4. ASSUME NEW i \in 1 .. Len(offered'), NEW j \in 1 .. Len(offered'), offered'[i] = offered'[j]
        PROVE  i = j
    BY <1>7, <2>0, <2>1, <2>4
  <2>5. \A i \in 1 .. Len(reading), j \in 1 .. Len(offered') : reading[i] # offered'[j]
    BY <1>7, <2>0, <2>2
  <2>6. ASSUME NEW t \in Sessions, NEW i \in 1 .. Len(pool'[t]), NEW j \in 1 .. Len(pool'[t]),
               pool'[t][i] = pool'[t][j]
        PROVE  i = j
    BY <1>5, <2>0, <2>6
  <2>7. \A t \in Sessions : \A i \in 1 .. Len(pool'[t]), j \in 1 .. Len(reading) : pool'[t][i] # reading[j]
    BY <1>5, <2>0
  <2>8. ASSUME NEW t \in Sessions, NEW i \in 1 .. Len(pool'[t]), NEW j \in 1 .. Len(offered')
        PROVE  pool'[t][i] # offered'[j]
    BY <1>5, <1>7, <2>0, <2>3
  <2>9. reading' = reading
    BY <1>1
  <2> QED
    BY <2>0, <2>4, <2>5, <2>6, <2>7, <2>8, <2>9 DEF DistinctInv
<1>14. /\ ToSet(pool[s]) = ToSet(pool'[s]) \union {k}
       /\ \A t \in Sessions : ToSet(pool'[t]) \subseteq ToSet(pool[t])
  <2>1. ToSet(pool[s]) = ToSet(pool'[s]) \union {k}
    BY <1>1, <1>2, <1>4, ToSetFacts
  <2> QED
    BY <1>4, <2>1
<1>15. CapacityInv'
  <2>1. relays' \subseteq relays /\ reading' = reading /\ ignored' = ignored
    BY <1>1
  <2>2. \A d \in relays' : Untaken(d)' \subseteq Untaken(d)
    BY <1>14, <2>1 DEF Untaken
  <2> QED
    BY <2>1, <2>2, UntakenShrinks
<1>18. IgnoredInv'
  <2>1. k \notin ignored
    BY <1>3 DEF KeysInv, IgnoredInv
  <2>2. \A t \in Sessions : \A i \in 1 .. Len(pool'[t]) : pool'[t][i] \notin ignored
    BY <1>5 DEF KeysInv, IgnoredInv
  <2>3. \A i \in 1 .. Len(offered') : offered'[i] \notin ignored
    BY <1>7, <2>1 DEF KeysInv, IgnoredInv
  <2>4. reading' = reading /\ used_conns' = used_conns /\ announced' = announced /\ ignored' = ignored
    BY <1>1
  <2> QED
    BY <2>2, <2>3, <2>4 DEF KeysInv, IgnoredInv
<1>16. ReportInv'
  <2>1. session' = session /\ used_conns' = used_conns /\ reports' = reports
    BY <1>1
  <2>2. \A i \in 1 .. Len(offer') : offer'[i].key = k /\ offer'[i].session = s
    BY <1>9
  <2> QED
    BY <1>8, <2>1, <2>2 DEF KeysInv, ReportInv
<1>17. AllAccounted'
  <2>1. ToSet(offer) = {}
    BY <1>1 DEF ToSet
  <2>2. ASSUME NEW c \in relays, NEW i \in 1 .. MaxKeyId, i <= announced[c]
        PROVE  LET l == [owner |-> c, id |-> i] IN
                 \/ l \in ToSet(reading) \union ignored
                 \/ l \in ToSet(pool'[session[c]])
                 \/ \E q \in ToSet(offer') \union ToSet(reports) : q.key = l
                 \/ l \in reported[c]
    <3> DEFINE l == [owner |-> c, id |-> i]
    <3>1. \/ l \in ToSet(reading) \union ignored
          \/ l \in ToSet(pool[session[c]])
          \/ \E q \in ToSet(offer) \union ToSet(reports) : q.key = l
          \/ l \in reported[c]
      BY <2>2 DEF KeysInv, AllAccounted, Accounted
    <3>2. session[c] \in Sessions
      BY PoolWithinCapacity
    <3> HIDE DEF l, o, k
    <3>3. l \in ToSet(pool[session[c]]) => l \in ToSet(pool'[session[c]]) \/ l = k
      BY <1>4, <1>14, <3>2
    <3>4. l = k => \E q \in ToSet(offer') \union ToSet(reports) : q.key = l
      BY <1>9
    <3> QED
      BY <2>1, <3>1, <3>3, <3>4 DEF l
  <2>3. /\ relays' = relays /\ session' = session /\ announced' = announced /\ ignored' = ignored
        /\ reports' = reports /\ reported' = reported /\ reading' = reading
    BY <1>1
  <2> QED
    BY <2>2, <2>3 DEF AllAccounted, Accounted
<1> QED
  BY <1>10, <1>11, <1>12, <1>13, <1>15, <1>16, <1>17, <1>18 DEF KeysInv

----------------------------------------------------------------------------
(* The invariant                                                           *)

LEMMA KeysInit == Init => KeysInv
<1> SUFFICES ASSUME Init PROVE KeysInv
  OBVIOUS
<1> USE KeysConstants DEF Init
<1>1. Cardinality(relays) = 0 /\ IsFiniteSet(relays)
  BY FS_EmptySet
<1>2. Len(<<>>) = 0
  OBVIOUS
<1>3. \A s \in Sessions : pool[s] = <<>>
  OBVIOUS
<1>4. pool \in [Sessions -> Seq(Key)] /\ offer \in Seq(Credentials) /\ reports \in Seq(Credentials)
  OBVIOUS
<1>5. TypeOK
  BY <1>1, <1>2, <1>3, <1>4 DEF TypeOK
<1>6. IdsInv
  BY <1>1 DEF IdsInv
<1>7. PlaceInv /\ DistinctInv /\ IgnoredInv
  BY <1>2, <1>3 DEF PlaceInv, DistinctInv, IgnoredInv
<1>8. CapacityInv /\ ReportInv /\ ReportsReachTheirRelay /\ AllAccounted
  BY <1>2 DEF CapacityInv, ReportInv, ReportsReachTheirRelay, AllAccounted, Accounted
<1> QED
  BY <1>5, <1>6, <1>7, <1>8 DEF KeysInv

LEMMA KeysStutter ==
    ASSUME KeysInv, UNCHANGED vars
    PROVE  KeysInv'
<1>1. /\ relays' = relays /\ session' = session /\ last_relay' = last_relay /\ pool' = pool
      /\ reading' = reading /\ leaving' = leaving /\ reports' = reports /\ offer' = offer
      /\ used_conns' = used_conns /\ announced' = announced /\ ignored' = ignored /\ offered' = offered
      /\ reported' = reported
  BY DEF vars
<1>2. TypeOK' /\ IdsInv'
  BY <1>1 DEF KeysInv, TypeOK, IdsInv
<1>3. PlaceInv'
  BY <1>1 DEF KeysInv, PlaceInv
<1>4. DistinctInv' /\ IgnoredInv'
  BY <1>1 DEF KeysInv, DistinctInv, IgnoredInv
<1>5. CapacityInv'
  BY <1>1 DEF KeysInv, CapacityInv, Untaken
<1>6. ReportInv' /\ ReportsReachTheirRelay' /\ AllAccounted'
  BY <1>1 DEF KeysInv, ReportInv, ReportsReachTheirRelay, AllAccounted, Accounted
<1> QED
  BY <1>2, <1>3, <1>4, <1>5, <1>6 DEF KeysInv

\* Whatever the relays and the two threads do, a key is in one place and stays accounted for.
LEMMA KeysStep ==
    ASSUME KeysInv, KeysNext
    PROVE  KeysInv'
BY StepNewRelay, StepReadKeyPool, StepIgnoreKeyPool, StepAddNext, StepSkipMalformed,
   StepRelayFinished, StepStopAllRelays, StepStopNextRelay, StepStopped, StepSendKeyUsed, StepNotifyKeyUsed DEF KeysNext

LEMMA KeysInvImplies ==
    ASSUME KeysInv
    PROVE  OfferedOnce /\ KeysAccounted /\ DeadRelayNotOffered /\ ReportsReachTheirRelay
<1>1. DOMAIN offered = 1 .. Len(offered)
  BY DEF KeysInv, TypeOK
<1>2. OfferedOnce
  BY <1>1 DEF KeysInv, DistinctInv, OfferedOnce
<1>3. ASSUME NEW s \in Sessions, NEW k \in ToSet(pool[s]) PROVE k.owner \in relays
  <2>1. PICK i \in 1 .. Len(pool[s]) : k = pool[s][i]
    BY ToSetMember DEF KeysInv, TypeOK
  <2> QED
    BY <2>1 DEF KeysInv, PlaceInv
<1>4. DeadRelayNotOffered
  BY <1>3 DEF DeadRelayNotOffered
<1>5. ASSUME NEW k \in ToSet(offered) PROVE k \notin ignored
  <2>1. PICK i \in 1 .. Len(offered) : k = offered[i]
    BY ToSetMember DEF KeysInv, TypeOK
  <2> QED
    BY <2>1 DEF KeysInv, IgnoredInv
<1> QED
  BY <1>2, <1>4, <1>5 DEF KeysInv, KeysAccounted
=============================================================================
