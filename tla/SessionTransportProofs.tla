------------------------ MODULE SessionTransportProofs ------------------------
(* Proofs about SessionTransport: neither side loses, repeats or reorders  *)
(* a user message while the session moves from TCP to UDP.                 *)
EXTENDS SessionTransport, SequenceTheorems, TLAPS

------------------------------------------------------------------------------
(* Runs of messages, and queues that carry one                             *)

LEMMA RunFacts ==
    ASSUME NEW lo \in Nat, NEW n \in Nat
    PROVE  /\ Run(lo, n) \in Seq(Nat) /\ Len(Run(lo, n)) = n
           /\ \A i \in 1..n : Run(lo, n)[i] = lo + i
BY DEF Run

LEMMA RunEmpty ==
    ASSUME NEW lo \in Nat
    PROVE  Run(lo, 0) = << >>
BY DEF Run

LEMMA RunAppend ==
    ASSUME NEW lo \in Nat, NEW n \in Nat
    PROVE  Append(Run(lo, n), lo + n + 1) = Run(lo, n + 1)
<1> DEFINE b == Run(lo, n)
           k == lo + n + 1
           s == Append(b, k)
           r == Run(lo, n + 1)
<1>1. b \in Seq(Nat) /\ Len(b) = n /\ \A i \in 1..n : b[i] = lo + i
  BY RunFacts
<1>2. r \in Seq(Nat) /\ Len(r) = n + 1 /\ \A i \in 1..(n + 1) : r[i] = lo + i
  BY RunFacts, n + 1 \in Nat
<1>3. k \in Nat
  OBVIOUS
<1> HIDE DEF b, k, r
<1>4. /\ s \in Seq(Nat) /\ Len(s) = n + 1 /\ s[n + 1] = k
      /\ \A i \in 1..n : s[i] = b[i]
  BY <1>1, <1>3
<1> HIDE DEF s
<1>5. \A i \in 1..(n + 1) : s[i] = r[i]
  BY <1>1, <1>2, <1>4 DEF k
<1>6. s = r
  BY <1>2, <1>4, <1>5, SeqEqual
<1> QED  BY <1>6 DEF s, r, b, k

LEMMA RunConcat ==
    ASSUME NEW lo \in Nat, NEW m \in Nat, NEW n \in Nat
    PROVE  Run(lo, m) \o Run(lo + m, n) = Run(lo, m + n)
<1> DEFINE x == Run(lo, m)
           y == Run(lo + m, n)
           s == x \o y
           r == Run(lo, m + n)
<1>1. y \in Seq(Nat) /\ Len(y) = n /\ \A i \in 1..n : y[i] = lo + m + i
  BY RunFacts, lo + m \in Nat
<1>2. x \in Seq(Nat) /\ Len(x) = m /\ \A i \in 1..m : x[i] = lo + i
  BY RunFacts
<1>3. r \in Seq(Nat) /\ Len(r) = m + n /\ \A i \in 1..(m + n) : r[i] = lo + i
  BY RunFacts, m + n \in Nat
<1> HIDE DEF x, y, r
<1>4. s \in Seq(Nat) /\ Len(s) = m + n
  BY <1>1, <1>2, ConcatProperties
<1>5. \A i \in 1..(m + n) : s[i] = r[i]
  <2> SUFFICES ASSUME NEW i \in 1..(m + n) PROVE s[i] = r[i]
    OBVIOUS
  <2>1. s[i] = IF i <= m THEN x[i] ELSE y[i - m]
    BY <1>1, <1>2, ConcatProperties
  <2>2. CASE i <= m
    BY <2>1, <2>2, <1>2, <1>3
  <2>3. CASE ~(i <= m)
    <3>1. i - m \in 1..n /\ lo + m + (i - m) = lo + i
      BY <2>3
    <3> QED  BY <2>1, <2>3, <3>1, <1>1, <1>3
  <2> QED  BY <2>2, <2>3
<1> HIDE DEF s
<1>6. s = r
  BY <1>3, <1>4, <1>5, SeqEqual
<1> QED  BY <1>6 DEF s, r, x, y

\* A queue without a user message carries the empty run.
LEMMA CarriesNothing ==
    ASSUME NEW M, NEW q \in Seq(M), NEW lo \in Nat, NEW hi \in Nat,
           \A i \in 1..Len(q) : ~IsData(q[i])
    PROVE  Carries(q, lo, hi) <=> lo = hi
<1>1. ASSUME Carries(q, lo, hi), lo # hi PROVE FALSE
  <2>1. lo + 1 \in (lo + 1)..hi
    BY <1>1 DEF Carries
  <2>2. PICK i \in 1..Len(q) : q[i] = Data(lo + 1)
    BY <1>1, <2>1 DEF Carries
  <2> QED  BY <2>2 DEF IsData, Data
<1>2. ASSUME lo = hi PROVE Carries(q, lo, hi)
  BY <1>2 DEF Carries
<1> QED  BY <1>1, <1>2

LEMMA CarriesEmpty ==
    ASSUME NEW lo \in Nat, NEW hi \in Nat
    PROVE  Carries(<< >>, lo, hi) <=> lo = hi
<1>1. << >> \in Seq({}) /\ \A i \in 1..Len(<< >>) : ~IsData((<< >>)[i])
  OBVIOUS
<1> HIDE DEF IsData
<1> QED  BY <1>1, CarriesNothing

LEMMA CarriesAppendOther ==
    ASSUME NEW M, NEW q \in Seq(M), NEW m \in M, NEW lo \in Nat, NEW hi \in Nat,
           ~IsData(m), Carries(q, lo, hi)
    PROVE  Carries(Append(q, m), lo, hi)
<1> DEFINE s == Append(q, m)
<1>1. /\ Len(q) \in Nat /\ Len(s) = Len(q) + 1 /\ s[Len(q) + 1] = m
      /\ \A i \in 1..Len(q) : s[i] = q[i]
  OBVIOUS
<1>2. \A i \in 1..Len(s) : IsData(s[i]) => i \in 1..Len(q) /\ s[i] = q[i]
  BY <1>1
<1> HIDE DEF s
<1>3. \A i \in 1..Len(s) : IsData(s[i]) => s[i].seq \in (lo + 1)..hi
  BY <1>2 DEF Carries
<1>4. \A n \in (lo + 1)..hi : \E i \in 1..Len(s) : s[i] = Data(n)
  BY <1>1 DEF Carries
<1>5. \A i, j \in 1..Len(s) :
        i < j /\ IsData(s[i]) /\ IsData(s[j]) => s[i].seq < s[j].seq
  BY <1>2 DEF Carries
<1>6. Carries(s, lo, hi)
  BY <1>3, <1>4, <1>5 DEF Carries
<1> QED  BY <1>6 DEF s

LEMMA CarriesAppendData ==
    ASSUME NEW M, NEW q \in Seq(M), NEW lo \in Nat, NEW hi \in Nat,
           Data(hi + 1) \in M, Carries(q, lo, hi)
    PROVE  Carries(Append(q, Data(hi + 1)), lo, hi + 1)
<1> DEFINE s == Append(q, Data(hi + 1))
<1>1. /\ Len(q) \in Nat /\ Len(s) = Len(q) + 1 /\ s[Len(q) + 1] = Data(hi + 1)
      /\ \A i \in 1..Len(q) : s[i] = q[i]
  OBVIOUS
<1>2. Data(hi + 1).seq = hi + 1 /\ IsData(Data(hi + 1))
  BY DEF Data, IsData
<1> HIDE DEF s
<1>3. \A i \in 1..Len(s) : IsData(s[i]) => s[i].seq \in (lo + 1)..(hi + 1)
  <2> SUFFICES ASSUME NEW i \in 1..Len(s), IsData(s[i])
               PROVE  s[i].seq \in (lo + 1)..(hi + 1)
    OBVIOUS
  <2>1. CASE i = Len(q) + 1
    BY <2>1, <1>1, <1>2 DEF Carries
  <2>2. CASE i # Len(q) + 1
    <3>1. i \in 1..Len(q) /\ s[i] = q[i]
      BY <2>2, <1>1
    <3>2. q[i].seq \in (lo + 1)..hi
      BY <3>1 DEF Carries
    <3> QED  BY <3>1, <3>2
  <2> QED  BY <2>1, <2>2
<1>4. \A n \in (lo + 1)..(hi + 1) : \E i \in 1..Len(s) : s[i] = Data(n)
  <2> SUFFICES ASSUME NEW n \in (lo + 1)..(hi + 1)
               PROVE  \E i \in 1..Len(s) : s[i] = Data(n)
    OBVIOUS
  <2>1. CASE n = hi + 1
    BY <2>1, <1>1
  <2>2. CASE n # hi + 1
    <3>1. PICK i \in 1..Len(q) : q[i] = Data(n)
      BY <2>2 DEF Carries
    <3> QED  BY <3>1, <1>1
  <2> QED  BY <2>1, <2>2
<1>5. \A i, j \in 1..Len(s) :
        i < j /\ IsData(s[i]) /\ IsData(s[j]) => s[i].seq < s[j].seq
  <2> SUFFICES ASSUME NEW i \in 1..Len(s), NEW j \in 1..Len(s),
                      i < j, IsData(s[i]), IsData(s[j])
               PROVE  s[i].seq < s[j].seq
    OBVIOUS
  <2>1. i \in 1..Len(q) /\ s[i] = q[i] /\ q[i].seq \in (lo + 1)..hi
    BY <1>1 DEF Carries
  <2>2. CASE j = Len(q) + 1
    BY <2>2, <2>1, <1>1, <1>2
  <2>3. CASE j # Len(q) + 1
    <3>1. j \in 1..Len(q) /\ s[j] = q[j]
      BY <2>3, <1>1
    <3> QED  BY <3>1, <2>1 DEF Carries
  <2> QED  BY <2>2, <2>3
<1>6. lo <= hi + 1
  BY DEF Carries
<1>7. Carries(s, lo, hi + 1)
  BY <1>3, <1>4, <1>5, <1>6 DEF Carries
<1> QED  BY <1>7 DEF s

LEMMA CarriesTail ==
    ASSUME NEW M, NEW q \in Seq(M), q # << >>, NEW lo \in Nat, NEW hi \in Nat,
           Carries(q, lo, hi)
    PROVE  /\ IsData(Head(q)) => /\ Head(q).seq = lo + 1 /\ lo < hi
                                 /\ Carries(Tail(q), lo + 1, hi)
           /\ ~IsData(Head(q)) => Carries(Tail(q), lo, hi)
<1> DEFINE s == Tail(q)
<1>1. /\ Len(q) \in Nat \ {0} /\ Len(s) = Len(q) - 1 /\ Head(q) = q[1]
      /\ \A i \in 1..Len(s) : i + 1 \in 1..Len(q) /\ s[i] = q[i + 1]
  OBVIOUS
<1> HIDE DEF s
<1>2. \A i \in 1..Len(q) : i # 1 => i - 1 \in 1..Len(s) /\ s[i - 1] = q[i]
  BY <1>1
<1>3. \A i, j \in 1..Len(s) :
        i < j /\ IsData(s[i]) /\ IsData(s[j]) => s[i].seq < s[j].seq
  <2> SUFFICES ASSUME NEW i \in 1..Len(s), NEW j \in 1..Len(s),
                      i < j, IsData(s[i]), IsData(s[j])
               PROVE  s[i].seq < s[j].seq
    OBVIOUS
  <2>1. /\ i + 1 \in 1..Len(q) /\ j + 1 \in 1..Len(q) /\ i + 1 < j + 1
        /\ s[i] = q[i + 1] /\ s[j] = q[j + 1]
    BY <1>1
  <2> QED  BY <2>1 DEF Carries
<1>4. ASSUME IsData(Head(q))
      PROVE  /\ Head(q).seq = lo + 1 /\ lo < hi
             /\ Carries(Tail(q), lo + 1, hi)
  <2>1. 1 \in 1..Len(q) /\ q[1].seq \in (lo + 1)..hi
    BY <1>1, <1>4 DEF Carries
  <2>2. lo + 1 \in (lo + 1)..hi
    BY <2>1
  <2>3. PICK k \in 1..Len(q) : q[k] = Data(lo + 1)
    BY <2>2 DEF Carries
  <2>4. IsData(q[k]) /\ q[k].seq = lo + 1
    BY <2>3 DEF Data, IsData
  <2>5. q[1].seq = lo + 1
    <3>1. CASE k = 1
      BY <3>1, <2>4
    <3>2. CASE k # 1
      <4>1. q[1].seq < q[k].seq
        BY <3>2, <2>1, <2>4, <1>1, <1>4 DEF Carries
      <4> QED  BY <4>1, <2>4, <2>1
    <3> QED  BY <3>1, <3>2
  <2>6. \A i \in 1..Len(s) : IsData(s[i]) => s[i].seq \in (lo + 2)..hi
    <3> SUFFICES ASSUME NEW i \in 1..Len(s), IsData(s[i])
                 PROVE  s[i].seq \in (lo + 2)..hi
      OBVIOUS
    <3>1. i + 1 \in 1..Len(q) /\ s[i] = q[i + 1] /\ 1 < i + 1
      BY <1>1
    <3>2. q[i + 1].seq \in (lo + 1)..hi
      BY <3>1 DEF Carries
    <3>3. q[1].seq < q[i + 1].seq
      BY <3>1, <2>1, <1>1, <1>4 DEF Carries
    <3> QED  BY <3>1, <3>2, <3>3, <2>5
  <2>7. \A n \in (lo + 2)..hi : \E i \in 1..Len(s) : s[i] = Data(n)
    <3> SUFFICES ASSUME NEW n \in (lo + 2)..hi
                 PROVE  \E i \in 1..Len(s) : s[i] = Data(n)
      OBVIOUS
    <3>1. n \in (lo + 1)..hi
      OBVIOUS
    <3>2. PICK i \in 1..Len(q) : q[i] = Data(n)
      BY <3>1 DEF Carries
    <3>3. i # 1
      BY <3>2, <2>5 DEF Data
    <3> QED  BY <3>2, <3>3, <1>2
  <2>8. Carries(s, lo + 1, hi)
    BY <2>2, <2>6, <2>7, <1>3 DEF Carries
  <2> QED  BY <2>8, <2>5, <2>2, <1>1 DEF s
<1>5. ASSUME ~IsData(Head(q)) PROVE Carries(Tail(q), lo, hi)
  <2>1. \A i \in 1..Len(s) : IsData(s[i]) => s[i].seq \in (lo + 1)..hi
    BY <1>1 DEF Carries
  <2>2. \A n \in (lo + 1)..hi : \E i \in 1..Len(s) : s[i] = Data(n)
    <3> SUFFICES ASSUME NEW n \in (lo + 1)..hi
                 PROVE  \E i \in 1..Len(s) : s[i] = Data(n)
      OBVIOUS
    <3>1. PICK i \in 1..Len(q) : q[i] = Data(n)
      BY DEF Carries
    <3>2. i # 1
      BY <3>1, <1>5, <1>1 DEF Data, IsData
    <3> QED  BY <3>1, <3>2, <1>2
  <2>3. Carries(s, lo, hi)
    BY <2>1, <2>2, <1>3 DEF Carries
  <2> QED  BY <2>3 DEF s
<1> QED  BY <1>4, <1>5

------------------------------------------------------------------------------
(* Messages, queues with a switch, and the channels of the attempts        *)

HasSwitch(q) == \E i \in 1..Len(q) : q[i] = Switch
\* A switch is the last word on its connection.
SwitchIsLast(q) == \A i \in 1..Len(q) : q[i] = Switch => i = Len(q)

LEMMA MessageKinds ==
    /\ ~IsData(Switch) /\ ~IsData(Probe) /\ ~IsData(Ack)
    /\ \A a : ~IsData(Request(a)) /\ ~IsData(Reply(a))
    /\ \A a : Request(a) # Switch /\ Reply(a) # Switch
    /\ \A n : IsData(Data(n)) /\ Data(n) # Switch /\ Data(n).seq = n
    /\ Probe # Switch /\ Ack # Switch
BY DEF IsData, Switch, Probe, Ack, Request, Reply, Data

LEMMA DownHead ==
    ASSUME NEW m \in DownMessages
    PROVE  /\ m.type = "udp_switch" => m = Switch
           /\ m.type = "data" => IsData(m) /\ m.seq \in 1..MaxHostData
           /\ m.type # "data" => ~IsData(m)
           /\ m.type # "udp_switch" => m # Switch
           /\ m.type = "udp_request" => m.attempt \in Attempts
BY DEF DownMessages, IsData, Switch, Request, Data

LEMMA UpHead ==
    ASSUME NEW m \in UpMessages
    PROVE  /\ m.type = "udp_switch" => m = Switch
           /\ m.type = "data" => IsData(m) /\ m.seq \in 1..MaxClientData
           /\ m.type # "data" => ~IsData(m)
           /\ m.type # "udp_switch" => m # Switch
           /\ m.type = "udp_reply" => m.attempt \in Attempts
BY DEF UpMessages, IsData, Switch, Reply, Data

LEMMA UdpHead ==
    ASSUME NEW last \in Nat
    PROVE  /\ \A m \in UdpMessages("DATA", last) : IsData(m) /\ m.seq \in 1..last
           /\ \A m \in UdpMessages("CONTROL", last) :
                m.type = "udp_switch" => m = Switch
           /\ Probe \in UdpMessages("CONTROL", last)
           /\ Ack \in UdpMessages("CONTROL", last)
           /\ Switch \in UdpMessages("CONTROL", last)
           /\ Probe \in UdpMessages("PROBE", last)
           /\ \A n \in 1..last : Data(n) \in UdpMessages("DATA", last)
BY DEF UdpMessages, IsData, Switch, Probe, Ack, Data

LEMMA SwitchAppend ==
    ASSUME NEW M, NEW q \in Seq(M), NEW m \in M
    PROVE  /\ HasSwitch(Append(q, m)) <=> HasSwitch(q) \/ m = Switch
           /\ SwitchIsLast(Append(q, m)) <=> ~HasSwitch(q)
<1> DEFINE s == Append(q, m)
<1>1. /\ Len(q) \in Nat /\ Len(s) = Len(q) + 1 /\ s[Len(q) + 1] = m
      /\ \A i \in 1..Len(q) : s[i] = q[i]
  OBVIOUS
<1> HIDE DEF s
<1>2. HasSwitch(s) <=> HasSwitch(q) \/ m = Switch
  BY <1>1 DEF HasSwitch
<1>3. SwitchIsLast(s) <=> ~HasSwitch(q)
  BY <1>1 DEF HasSwitch, SwitchIsLast
<1> QED  BY <1>2, <1>3 DEF s

LEMMA SwitchEmpty == ~HasSwitch(<< >>) /\ SwitchIsLast(<< >>)
BY DEF HasSwitch, SwitchIsLast

LEMMA SwitchTail ==
    ASSUME NEW M, NEW q \in Seq(M), q # << >>
    PROVE  /\ SwitchIsLast(q) => SwitchIsLast(Tail(q))
           /\ HasSwitch(q) <=> HasSwitch(Tail(q)) \/ Head(q) = Switch
           /\ SwitchIsLast(q) /\ Head(q) = Switch => Tail(q) = << >>
<1> DEFINE s == Tail(q)
<1>1. /\ Len(q) \in Nat \ {0} /\ Len(s) = Len(q) - 1 /\ Head(q) = q[1]
      /\ \A i \in 1..Len(s) : i + 1 \in 1..Len(q) /\ s[i] = q[i + 1]
      /\ s \in Seq(M)
  OBVIOUS
<1>2. Len(s) = 0 => s = << >>
  BY <1>1, EmptySeq
<1> HIDE DEF s
<1>3. \A i \in 1..Len(q) : i # 1 => i - 1 \in 1..Len(s) /\ s[i - 1] = q[i]
  BY <1>1
<1>4. SwitchIsLast(q) => SwitchIsLast(s)
  BY <1>1 DEF SwitchIsLast
<1>5. HasSwitch(q) <=> HasSwitch(s) \/ Head(q) = Switch
  <2>1. HasSwitch(q) => HasSwitch(s) \/ Head(q) = Switch
    BY <1>1, <1>3 DEF HasSwitch
  <2>2. HasSwitch(s) => HasSwitch(q)
    BY <1>1 DEF HasSwitch
  <2>3. Head(q) = Switch => HasSwitch(q)
    BY <1>1 DEF HasSwitch
  <2> QED  BY <2>1, <2>2, <2>3
<1>6. SwitchIsLast(q) /\ Head(q) = Switch => s = << >>
  BY <1>1, <1>2 DEF SwitchIsLast
<1> QED  BY <1>4, <1>5, <1>6 DEF s

\* What is on a channel keeps to the channel.
LEMMA NetFacts ==
    ASSUME NEW last \in Nat, NEW net \in UdpNet(last),
           NEW a \in Attempts, NEW c \in Channels
    PROVE  net[a][c] \in Seq(UdpMessages(c, last))
BY DEF UdpNet

LEMMA PutFacts ==
    ASSUME NEW last \in Nat, NEW net \in UdpNet(last), NEW a \in Attempts,
           NEW c \in Channels, NEW m \in UdpMessages(c, last)
    PROVE  /\ Put(net, a, c, m) \in UdpNet(last)
           /\ \A b \in Attempts, d \in Channels :
                Put(net, a, c, m)[b][d] =
                  IF b = a /\ d = c THEN Append(net[a][c], m) ELSE net[b][d]
<1> DEFINE x == Append(net[a][c], m)
           T == UNION {Seq(UdpMessages(d, last)) : d \in Channels}
<1>1. /\ net \in [Attempts -> [Channels -> T]]
      /\ \A b \in Attempts, d \in Channels : net[b][d] \in Seq(UdpMessages(d, last))
  BY DEF UdpNet
<1>2. x \in Seq(UdpMessages(c, last)) /\ x \in T
  BY <1>1
<1> HIDE DEF x, T
<1>3. Put(net, a, c, m) = [net EXCEPT ![a][c] = x]
  BY DEF Put, x
<1>4. /\ [net EXCEPT ![a][c] = x] \in [Attempts -> [Channels -> T]]
      /\ \A b \in Attempts, d \in Channels :
           [net EXCEPT ![a][c] = x][b][d] = IF b = a /\ d = c THEN x ELSE net[b][d]
  BY <1>1, <1>2
<1>5. \A b \in Attempts, d \in Channels :
        Put(net, a, c, m)[b][d] \in Seq(UdpMessages(d, last))
  BY <1>1, <1>2, <1>3, <1>4
<1> QED  BY <1>3, <1>4, <1>5 DEF UdpNet, x, T

LEMMA DropFacts ==
    ASSUME NEW last \in Nat, NEW net \in UdpNet(last), NEW a \in Attempts,
           NEW c \in Channels, net[a][c] # << >>
    PROVE  /\ Drop(net, a, c) \in UdpNet(last)
           /\ \A b \in Attempts, d \in Channels :
                Drop(net, a, c)[b][d] =
                  IF b = a /\ d = c THEN Tail(net[a][c]) ELSE net[b][d]
<1> DEFINE x == Tail(net[a][c])
           T == UNION {Seq(UdpMessages(d, last)) : d \in Channels}
<1>1. /\ net \in [Attempts -> [Channels -> T]]
      /\ \A b \in Attempts, d \in Channels : net[b][d] \in Seq(UdpMessages(d, last))
  BY DEF UdpNet
<1>2. x \in Seq(UdpMessages(c, last)) /\ x \in T
  BY <1>1
<1> HIDE DEF x, T
<1>3. Drop(net, a, c) = [net EXCEPT ![a][c] = x]
  BY DEF Drop, x
<1>4. /\ [net EXCEPT ![a][c] = x] \in [Attempts -> [Channels -> T]]
      /\ \A b \in Attempts, d \in Channels :
           [net EXCEPT ![a][c] = x][b][d] = IF b = a /\ d = c THEN x ELSE net[b][d]
  BY <1>1, <1>2
<1>5. \A b \in Attempts, d \in Channels :
        Drop(net, a, c)[b][d] \in Seq(UdpMessages(d, last))
  BY <1>1, <1>2, <1>3, <1>4
<1> QED  BY <1>3, <1>4, <1>5 DEF UdpNet, x, T

LEMMA NoPacketsFacts ==
    ASSUME NEW last \in Nat
    PROVE  /\ NoPackets \in UdpNet(last)
           /\ \A b \in Attempts, d \in Channels : NoPackets[b][d] = << >>
<1>1. \A d \in Channels : << >> \in Seq(UdpMessages(d, last))
  OBVIOUS
<1> QED  BY <1>1 DEF NoPackets, UdpNet

LEMMA LoseFacts ==
    ASSUME NEW last \in Nat, NEW net \in UdpNet(last), NEW S
    PROVE  /\ Lose(net, S) \in UdpNet(last)
           /\ \A b \in Attempts, d \in Channels :
                Lose(net, S)[b][d] = IF b \in S THEN << >> ELSE net[b][d]
<1> DEFINE T == UNION {Seq(UdpMessages(d, last)) : d \in Channels}
<1>1. /\ net \in [Attempts -> [Channels -> T]]
      /\ \A b \in Attempts, d \in Channels : net[b][d] \in Seq(UdpMessages(d, last))
  BY DEF UdpNet
<1>2. /\ NoPackets \in [Attempts -> [Channels -> T]]
      /\ \A b \in Attempts, d \in Channels : NoPackets[b][d] = << >>
      /\ \A b \in Attempts, d \in Channels : NoPackets[b][d] \in Seq(UdpMessages(d, last))
  BY NoPacketsFacts DEF UdpNet
<1> HIDE DEF T
<1>3. /\ Lose(net, S) \in [Attempts -> [Channels -> T]]
      /\ \A b \in Attempts :
           Lose(net, S)[b] = IF b \in S THEN NoPackets[b] ELSE net[b]
  BY <1>1, <1>2 DEF Lose
<1> HIDE DEF NoPackets
<1>4. \A b \in Attempts, d \in Channels :
        Lose(net, S)[b][d] = IF b \in S THEN << >> ELSE net[b][d]
  BY <1>2, <1>3
<1>5. \A b \in Attempts, d \in Channels :
        Lose(net, S)[b][d] \in Seq(UdpMessages(d, last))
  <2> SUFFICES ASSUME NEW b \in Attempts, NEW d \in Channels
               PROVE  Lose(net, S)[b][d] \in Seq(UdpMessages(d, last))
    OBVIOUS
  <2>1. Lose(net, S)[b][d] = << >> \/ Lose(net, S)[b][d] = net[b][d]
    BY <1>4
  <2>2. << >> \in Seq(UdpMessages(d, last)) /\ net[b][d] \in Seq(UdpMessages(d, last))
    BY <1>1
  <2> QED  BY <2>1, <2>2, Zenon
<1> QED  BY <1>3, <1>4, <1>5 DEF UdpNet, T

------------------------------------------------------------------------------
(* One direction of the session: what was delivered, what is on TCP up to  *)
(* message t, and what is held after it                                    *)

Flow(got, tcp, held, sent, t) ==
    /\ got = Run(0, Len(got))
    /\ Carries(tcp, Len(got), t)
    /\ held = Run(t, Len(held))
    /\ t + Len(held) <= sent

LEMMA FlowPrefix ==
    ASSUME NEW got, NEW tcp, NEW held, NEW sent \in Nat, NEW t \in Nat,
           Len(got) \in Nat, Len(held) \in Nat, Flow(got, tcp, held, sent, t)
    PROVE  got = Run(0, Len(got)) /\ Len(got) <= sent
BY DEF Flow, Carries

LEMMA FlowTcpSend ==
    ASSUME NEW M, NEW got, NEW tcp \in Seq(M), NEW sent \in Nat,
           Data(sent + 1) \in M, Len(got) \in Nat,
           Flow(got, tcp, << >>, sent, sent)
    PROVE  Flow(got, Append(tcp, Data(sent + 1)), << >>, sent + 1, sent + 1)
<1>1. Carries(Append(tcp, Data(sent + 1)), Len(got), sent + 1)
  BY CarriesAppendData DEF Flow
<1>2. Len(<< >>) = 0 /\ << >> = Run(sent + 1, 0)
  BY RunEmpty, sent + 1 \in Nat
<1> QED  BY <1>1, <1>2 DEF Flow

LEMMA FlowTcpOther ==
    ASSUME NEW M, NEW got, NEW tcp \in Seq(M), NEW held, NEW sent \in Nat,
           NEW t \in Nat, NEW m \in M, ~IsData(m), Len(got) \in Nat,
           Flow(got, tcp, held, sent, t)
    PROVE  Flow(got, Append(tcp, m), held, sent, t)
BY CarriesAppendOther DEF Flow

LEMMA FlowUdpSend ==
    ASSUME NEW got, NEW tcp, NEW held, NEW sent \in Nat, NEW t \in Nat,
           Len(held) \in Nat, Flow(got, tcp, held, sent, t)
    PROVE  Flow(got, tcp, held, sent + 1, t)
BY DEF Flow

LEMMA FlowTcpData ==
    ASSUME NEW M, NEW got, NEW tcp \in Seq(M), NEW held, NEW sent \in Nat,
           NEW t \in Nat, tcp # << >>, IsData(Head(tcp)), Len(got) \in Nat,
           Flow(got, tcp, held, sent, t)
    PROVE  Flow(Append(got, Head(tcp).seq), Tail(tcp), held, sent, t)
<1>1. Head(tcp).seq = Len(got) + 1 /\ Carries(Tail(tcp), Len(got) + 1, t)
  BY CarriesTail DEF Flow
<1>2. Append(got, Len(got) + 1) = Run(0, Len(got) + 1)
  <2>1. Append(Run(0, Len(got)), 0 + Len(got) + 1) = Run(0, Len(got) + 1)
    BY RunAppend
  <2>2. got = Run(0, Len(got))
    BY DEF Flow
  <2> QED  BY <2>1, <2>2
<1>3. Len(Run(0, Len(got) + 1)) = Len(got) + 1
  BY RunFacts, Len(got) + 1 \in Nat
<1> QED  BY <1>1, <1>2, <1>3 DEF Flow

LEMMA FlowTcpSkip ==
    ASSUME NEW M, NEW got, NEW tcp \in Seq(M), NEW held, NEW sent \in Nat,
           NEW t \in Nat, tcp # << >>, ~IsData(Head(tcp)), Len(got) \in Nat,
           Flow(got, tcp, held, sent, t)
    PROVE  Flow(got, Tail(tcp), held, sent, t)
BY CarriesTail DEF Flow

\* The switch is read: what was held follows what came on TCP.
LEMMA FlowSwitch ==
    ASSUME NEW M, NEW got, NEW tcp \in Seq(M), NEW held, NEW sent \in Nat,
           NEW t \in Nat, tcp # << >>, ~IsData(Head(tcp)), Tail(tcp) = << >>,
           Len(got) \in Nat, Len(held) \in Nat,
           Flow(got, tcp, held, sent, t)
    PROVE  /\ Flow(got \o held, << >>, << >>, sent, t + Len(held))
           /\ Len(got \o held) = t + Len(held)
<1>1. Carries(<< >>, Len(got), t)
  BY CarriesTail DEF Flow
<1>2. Len(got) = t
  BY <1>1, CarriesEmpty
<1>3. got \o held = Run(0, t + Len(held))
  <2>1. Run(0, t) \o Run(0 + t, Len(held)) = Run(0, t + Len(held))
    BY RunConcat
  <2>2. got = Run(0, t) /\ held = Run(t, Len(held)) /\ 0 + t = t
    BY <1>2 DEF Flow
  <2> QED  BY <2>1, <2>2
<1>4. Len(got \o held) = t + Len(held)
  BY <1>3, RunFacts, t + Len(held) \in Nat
<1>5. Carries(<< >>, t + Len(held), t + Len(held))
  BY CarriesEmpty, t + Len(held) \in Nat
<1>6. Len(<< >>) = 0 /\ << >> = Run(t + Len(held), 0)
  BY RunEmpty, t + Len(held) \in Nat
<1>7. t + Len(held) <= sent
  BY DEF Flow
<1> DEFINE x == got \o held
           y == t + Len(held)
<1>8. y \in Nat /\ y + 0 = y
  OBVIOUS
<1> HIDE DEF x, y
<1>9. Flow(x, << >>, << >>, sent, y)
  BY <1>3, <1>4, <1>5, <1>6, <1>7, <1>8 DEF Flow, x, y
<1> QED  BY <1>4, <1>9 DEF x, y

\* A message comes over UDP while the switch is awaited.
LEMMA FlowHold ==
    ASSUME NEW got, NEW tcp, NEW held, NEW sent \in Nat, NEW t \in Nat,
           Len(held) \in Nat, Flow(got, tcp, held, sent, t),
           t + Len(held) < sent
    PROVE  /\ Flow(got, tcp, Append(held, t + Len(held) + 1), sent, t)
           /\ Len(Append(held, t + Len(held) + 1)) = Len(held) + 1
<1>1. Append(held, t + Len(held) + 1) = Run(t, Len(held) + 1)
  <2>1. Append(Run(t, Len(held)), t + Len(held) + 1) = Run(t, Len(held) + 1)
    BY RunAppend
  <2>2. held = Run(t, Len(held))
    BY DEF Flow
  <2> QED  BY <2>1, <2>2
<1>2. Len(Run(t, Len(held) + 1)) = Len(held) + 1
  BY RunFacts, Len(held) + 1 \in Nat
<1> QED  BY <1>1, <1>2 DEF Flow

\* A message comes over UDP after the switch.
LEMMA FlowDeliver ==
    ASSUME NEW got, NEW sent \in Nat, NEW t \in Nat, Len(got) \in Nat,
           Flow(got, << >>, << >>, sent, t), t < sent
    PROVE  Flow(Append(got, t + 1), << >>, << >>, sent, t + 1)
<1>1. Len(got) = t
  BY CarriesEmpty DEF Flow
<1>2. Append(got, t + 1) = Run(0, t + 1)
  <2>1. Append(Run(0, t), 0 + t + 1) = Run(0, t + 1)
    BY RunAppend
  <2>2. got = Run(0, t)
    BY <1>1 DEF Flow
  <2> QED  BY <2>1, <2>2
<1>3. Len(Run(0, t + 1)) = t + 1
  BY RunFacts, t + 1 \in Nat
<1>4. Carries(<< >>, t + 1, t + 1)
  BY CarriesEmpty, t + 1 \in Nat
<1>5. Len(<< >>) = 0 /\ << >> = Run(t + 1, 0)
  BY RunEmpty, t + 1 \in Nat
<1> QED  BY <1>2, <1>3, <1>4, <1>5 DEF Flow

------------------------------------------------------------------------------
(* The inductive invariant                                                 *)

\* The host: it is READY exactly when it has chosen, then every attempt is
\* gone, and no attempt is probed before the peer was heard on TCP.
HostInv ==
    /\ hState = IF hUdp = NoAttempt THEN "DISCONNECTED" ELSE "READY"
    /\ \A a \in Attempts :
         /\ hAttempt[a] = "probing" \/ "crypto" \in hPath[a] => hPeerReady
         /\ hUdp # NoAttempt => hAttempt[a] = "gone"

\* The choice: an attempt the host did not choose carries at most the one
\* probe the client has not answered, so only the chosen one can give a
\* probed attempt a second message.
ChoiceInv ==
    /\ cUdp # NoAttempt =>
         /\ cUdp = hUdp
         /\ \A a \in Attempts : cAttempt[a] \in {"none", "gone"}
    /\ cReady => cUdp # NoAttempt
    /\ cOver => ~cReady /\ cUdp = NoAttempt
    /\ hUdp # NoAttempt => cAttempt[hUdp] \in {"probed", "gone"}
    /\ \A a \in Attempts :
         /\ udpUp[a]["CONTROL"] # << >> => cAttempt[a] \in {"probed", "gone"}
         /\ hUdp # a =>
              /\ udpDown[a]["PROBE"] = << >> /\ udpDown[a]["DATA"] = << >>
              /\ Len(udpDown[a]["CONTROL"]) <= 1
              /\ cAttempt[a] = "probed" => udpDown[a]["CONTROL"] = << >>
              /\ hAttempt[a] \in {"new", "waiting"} =>
                   udpDown[a]["CONTROL"] = << >> /\ cAttempt[a] # "probed"

\* The way down: while the host has not chosen nothing is held; afterwards
\* the client waits for the switch, the last message on TCP, or has read it
\* and TCP is empty.
DownInv ==
    /\ hUdp = NoAttempt => ~HasSwitch(tcpDown) /\ cHeld = << >>
    /\ ~cOver =>
        /\ hUdp = NoAttempt =>
             \A a \in Attempts : cAttempt[a] # "none" => cPending
        /\ hUdp # NoAttempt =>
             \/ cPending /\ HasSwitch(tcpDown) /\ SwitchIsLast(tcpDown)
             \/ ~cPending /\ tcpDown = << >> /\ cHeld = << >>
        /\ ~cTcp => cConfirmed /\ ~cPending

\* The way up: the same, and the client sends over UDP only after it has put
\* its switch on TCP.
UpInv ==
    /\ SwitchIsLast(tcpUp)
    /\ ~cOver /\ HasSwitch(tcpUp) => cReady
    /\ ~hOver =>
        /\ HasSwitch(tcpUp) => hUdp # NoAttempt /\ hPending
        /\ cReady => HasSwitch(tcpUp) \/ ~hPending
        /\ hUdp # NoAttempt /\ ~hPending =>
             tcpUp = << >> /\ hHeld = << >> /\ (cReady \/ cOver)
        /\ ~HasSwitch(tcpUp) /\ (hUdp = NoAttempt \/ hPending) =>
             hHeld = << >> /\ \A a \in Attempts : udpUp[a]["DATA"] = << >>

\* The host answers the client's switch only when nothing more can come on
\* TCP.
ConfirmInv ==
    ~cOver /\ (cConfirmed \/ \E a \in Attempts : HasSwitch(udpDown[a]["CONTROL"])) =>
        /\ hUdp # NoAttempt /\ ~hPending /\ hHeld = << >>
        /\ cReady /\ tcpUp = << >>

\* The messages of each direction are in the places NothingMissing names, as
\* long as the receiver lives; after that, a prefix of them was delivered.
DownFlow ==
    IF cOver
    THEN cGot = Run(0, Len(cGot)) /\ Len(cGot) <= hSent
    ELSE \E t \in 0..hSent :
           /\ Flow(cGot, tcpDown, cHeld, hSent, t)
           /\ hUdp = NoAttempt => t = hSent
           /\ hUdp # NoAttempt /\ ClientEnd(hUdp) =>
                Carries(udpDown[hUdp]["DATA"], t + Len(cHeld), hSent)

UpFlow ==
    IF hOver
    THEN hGot = Run(0, Len(hGot)) /\ Len(hGot) <= cSent
    ELSE \E t \in 0..cSent :
           /\ Flow(hGot, tcpUp, hHeld, cSent, t)
           /\ hUdp = NoAttempt => t = cSent
           /\ hUdp # NoAttempt =>
                Carries(udpUp[hUdp]["DATA"], t + Len(hHeld), cSent)

TransportInv == /\ TypeOK /\ HostInv /\ ChoiceInv /\ DownInv /\ UpInv
                /\ ConfirmInv /\ DownFlow /\ UpFlow

LEMMA TransportInit ==
    ASSUME Init PROVE TransportInv
<1> USE AttemptsAssumption, BoundsAssumption
<1>1. TypeOK
  <2>1. NoPackets \in UdpNet(MaxHostData) /\ NoPackets \in UdpNet(MaxClientData)
    BY NoPacketsFacts
  <2>2. tcpDown \in Seq(DownMessages) /\ tcpUp \in Seq(UpMessages)
    BY DEF Init, DownMessages
  <2> HIDE DEF NoPackets
  <2>3. /\ hSent \in 0..MaxHostData /\ cSent \in 0..MaxClientData
        /\ hGot \in Seq(1..MaxClientData) /\ hHeld \in Seq(1..MaxClientData)
        /\ cGot \in Seq(1..MaxHostData) /\ cHeld \in Seq(1..MaxHostData)
    BY DEF Init
  <2>4. /\ hAttempt \in [Attempts -> {"new", "waiting", "probing", "gone"}]
        /\ hPath \in [Attempts -> SUBSET {"enet", "crypto"}]
        /\ cAttempt \in [Attempts -> {"none", "starting", "started", "probed", "gone"}]
    BY DEF Init
  <2> QED  BY <2>1, <2>2, <2>3, <2>4 DEF Init, TypeOK
<1>2. HostInv
  BY DEF Init, HostInv
<1>3. ChoiceInv
  <2>1. \A b \in Attempts, d \in Channels : NoPackets[b][d] = << >>
    BY NoPacketsFacts
  <2> HIDE DEF NoPackets
  <2> QED  BY <2>1 DEF Init, ChoiceInv, Channels
<1>4. ~HasSwitch(tcpDown)
  BY MessageKinds DEF Init, HasSwitch
<1>5. DownInv
  BY <1>4 DEF Init, DownInv
<1>6. UpInv
  <2>1. \A b \in Attempts : NoPackets[b]["DATA"] = << >>
    BY NoPacketsFacts DEF Channels
  <2> HIDE DEF NoPackets
  <2> QED  BY <2>1, SwitchEmpty DEF Init, UpInv
<1>7. ConfirmInv
  <2>1. \A b \in Attempts : NoPackets[b]["CONTROL"] = << >>
    BY NoPacketsFacts DEF Channels
  <2> HIDE DEF NoPackets
  <2> QED  BY <2>1, SwitchEmpty DEF Init, ConfirmInv
<1>8. << >> = Run(0, 0) /\ Len(<< >>) = 0
  BY RunEmpty
<1>9. DownFlow
  <2>1. Carries(tcpDown, 0, 0)
    <3>1. tcpDown = <<Request(Direct)>> /\ ~IsData(Request(Direct))
      BY MessageKinds DEF Init
    <3>2. \A i \in 1..Len(tcpDown) : ~IsData(tcpDown[i])
      BY <3>1
    <3>3. tcpDown \in Seq(DownMessages)
      BY <1>1 DEF TypeOK
    <3> QED  BY <3>2, <3>3, CarriesNothing
  <2>2. Flow(cGot, tcpDown, cHeld, hSent, 0)
    BY <1>8, <2>1 DEF Init, Flow
  <2> QED  BY <2>2 DEF Init, DownFlow
<1>10. UpFlow
  <2>1. Flow(hGot, tcpUp, hHeld, cSent, 0)
    BY <1>8, CarriesEmpty DEF Init, Flow
  <2> QED  BY <2>1 DEF Init, UpFlow
<1> QED  BY <1>1, <1>2, <1>3, <1>5, <1>6, <1>7, <1>9, <1>10 DEF TransportInv

LEMMA HostAnnounceStep ==
    ASSUME TransportInv, NEW a \in Attempts, HostAnnounce(a)
    PROVE  TransportInv'
<1> USE AttemptsAssumption, BoundsAssumption
<1>1. /\ ~hOver /\ hAttempt[a] = "new"
      /\ hAttempt' = [hAttempt EXCEPT ![a] = "waiting"]
      /\ tcpDown' = Append(tcpDown, Request(a))
      /\ hState' = hState /\ hUdp' = hUdp /\ hPending' = hPending
      /\ hHeld' = hHeld /\ hPeerReady' = hPeerReady /\ hPath' = hPath
      /\ hTcp' = hTcp /\ hOver' = hOver /\ hSent' = hSent /\ hGot' = hGot
      /\ UNCHANGED clientVars
      /\ tcpUp' = tcpUp /\ udpDown' = udpDown /\ udpUp' = udpUp
  BY DEF HostAnnounce
<1>2. /\ cUdp' = cUdp /\ cReady' = cReady /\ cPending' = cPending
      /\ cConfirmed' = cConfirmed /\ cHeld' = cHeld /\ cAttempt' = cAttempt
      /\ cTcp' = cTcp /\ cOver' = cOver /\ cSent' = cSent /\ cGot' = cGot
  BY <1>1 DEF clientVars
<1>3. hUdp = NoAttempt
  BY <1>1 DEF TransportInv, HostInv
<1>4. /\ tcpDown \in Seq(DownMessages) /\ Request(a) \in DownMessages
      /\ tcpDown' \in Seq(DownMessages)
  BY <1>1 DEF TransportInv, TypeOK, DownMessages
<1>5. TypeOK'
  BY <1>1, <1>2, <1>4 DEF TransportInv, TypeOK
<1>6. HostInv'
  BY <1>1, <1>3 DEF TransportInv, HostInv, TypeOK
<1>7. ChoiceInv'
  BY <1>1, <1>2, <1>3 DEF TransportInv, ChoiceInv, TypeOK
<1>8. DownInv'
  <2>1. ~HasSwitch(tcpDown')
    BY <1>1, <1>3, <1>4, SwitchAppend, MessageKinds DEF TransportInv, DownInv
  <2> QED  BY <2>1, <1>1, <1>2, <1>3 DEF TransportInv, DownInv
<1>9. UpInv' /\ ConfirmInv' /\ UpFlow'
  BY <1>1, <1>2 DEF TransportInv, UpInv, ConfirmInv, UpFlow
<1>10. DownFlow'
  <2>1. CASE cOver
    BY <2>1, <1>1, <1>2 DEF TransportInv, DownFlow
  <2>2. CASE ~cOver
    <3>1. PICK t \in 0..hSent : Flow(cGot, tcpDown, cHeld, hSent, t) /\ t = hSent
      BY <2>2, <1>3 DEF TransportInv, DownFlow
    <3>2. Flow(cGot, tcpDown', cHeld, hSent, t)
      BY <3>1, <1>1, <1>4, FlowTcpOther, MessageKinds DEF TransportInv, TypeOK
    <3> QED  BY <3>1, <3>2, <2>2, <1>1, <1>2, <1>3 DEF DownFlow
  <2> QED  BY <2>1, <2>2
<1> QED  BY <1>5, <1>6, <1>7, <1>8, <1>9, <1>10 DEF TransportInv

------------------------------------------------------------------------------
(* The steps of the host                                                   *)

\* sendProbeIfReady() disturbs neither the choice nor the way down.
LEMMA SendProbeFacts ==
    ASSUME TransportInv, NEW a \in Attempts, hAttempt[a] = "waiting",
           NEW path \in [Attempts -> SUBSET {"enet", "crypto"}],
           SendProbeIfReady(a, path), hPeerReady' \in BOOLEAN,
           hPeerReady => hPeerReady',
           \A b \in Attempts : "crypto" \in path[b] => hPeerReady',
           UNCHANGED <<hState, hUdp, clientVars, hSent, tcpDown, udpUp>>
    PROVE  /\ hAttempt' \in [Attempts -> {"new", "waiting", "probing", "gone"}]
           /\ hPath' \in [Attempts -> SUBSET {"enet", "crypto"}]
           /\ udpDown' \in UdpNet(MaxHostData)
           /\ \A b \in Attempts : HasSwitch(udpDown'[b]["CONTROL"]) =>
                                  HasSwitch(udpDown[b]["CONTROL"])
           /\ hUdp = NoAttempt
           /\ HostInv' /\ ChoiceInv' /\ DownInv' /\ DownFlow'
<1> USE AttemptsAssumption, BoundsAssumption
<1> DEFINE due == path[a] = {"enet", "crypto"}
           net == Put(udpDown, a, "CONTROL", Probe)
<1>1. /\ hState' = hState /\ hUdp' = hUdp /\ hSent' = hSent
      /\ tcpDown' = tcpDown /\ udpUp' = udpUp
      /\ cUdp' = cUdp /\ cReady' = cReady /\ cPending' = cPending
      /\ cConfirmed' = cConfirmed /\ cHeld' = cHeld /\ cAttempt' = cAttempt
      /\ cTcp' = cTcp /\ cOver' = cOver /\ cSent' = cSent /\ cGot' = cGot
  BY DEF clientVars
<1>2. /\ hPath' = path
      /\ hAttempt' = IF due THEN [hAttempt EXCEPT ![a] = "probing"] ELSE hAttempt
      /\ udpDown' = IF due THEN net ELSE udpDown
  BY DEF SendProbeIfReady
<1>3. /\ hAttempt \in [Attempts -> {"new", "waiting", "probing", "gone"}]
      /\ udpDown \in UdpNet(MaxHostData) /\ HostInv /\ ChoiceInv
  BY DEF TransportInv, TypeOK
<1>4. hUdp = NoAttempt /\ udpDown[a]["CONTROL"] = << >> /\ cAttempt[a] # "probed"
  BY <1>3 DEF HostInv, ChoiceInv
<1>5. /\ net \in UdpNet(MaxHostData)
      /\ \A b \in Attempts, d \in Channels :
           net[b][d] = IF b = a /\ d = "CONTROL" THEN Append(udpDown[a]["CONTROL"], Probe)
                       ELSE udpDown[b][d]
  BY <1>3, PutFacts, UdpHead DEF Channels
<1> HIDE DEF net
<1>6. Append(udpDown[a]["CONTROL"], Probe) = <<Probe>>
  BY <1>4
<1>7. udpDown' \in UdpNet(MaxHostData)
  BY <1>2, <1>3, <1>5
<1>8. /\ hAttempt' \in [Attempts -> {"new", "waiting", "probing", "gone"}]
      /\ \A b \in Attempts : hAttempt'[b] = IF b = a /\ due THEN "probing" ELSE hAttempt[b]
  BY <1>2, <1>3
<1>9. \A b \in Attempts, d \in Channels :
        udpDown'[b][d] = IF b = a /\ d = "CONTROL" /\ due THEN <<Probe>> ELSE udpDown[b][d]
  BY <1>2, <1>5, <1>6
<1>10. /\ \A b \in Attempts :
            udpDown'[b]["CONTROL"] = IF b = a /\ due THEN <<Probe>> ELSE udpDown[b]["CONTROL"]
       /\ \A b \in Attempts : udpDown'[b]["PROBE"] = udpDown[b]["PROBE"]
       /\ \A b \in Attempts : udpDown'[b]["DATA"] = udpDown[b]["DATA"]
  BY <1>9 DEF Channels
<1>11. \A b \in Attempts : HasSwitch(udpDown'[b]["CONTROL"]) =>
                           HasSwitch(udpDown[b]["CONTROL"])
  <2>1. ~HasSwitch(<<Probe>>)
    BY MessageKinds DEF HasSwitch
  <2> QED  BY <2>1, <1>10
<1>12. HostInv'
  <2>1. due => hPeerReady'
    OBVIOUS
  <2> QED  BY <2>1, <1>1, <1>2, <1>3, <1>4, <1>8 DEF HostInv
<1>13. ChoiceInv'
  <2>1. Len(<<Probe>>) = 1
    OBVIOUS
  <2>2. ASSUME NEW b \in Attempts
        PROVE  /\ udpUp'[b]["CONTROL"] # << >> => cAttempt'[b] \in {"probed", "gone"}
               /\ udpDown'[b]["PROBE"] = << >> /\ udpDown'[b]["DATA"] = << >>
               /\ Len(udpDown'[b]["CONTROL"]) <= 1
               /\ cAttempt'[b] = "probed" => udpDown'[b]["CONTROL"] = << >>
               /\ hAttempt'[b] \in {"new", "waiting"} =>
                    udpDown'[b]["CONTROL"] = << >> /\ cAttempt'[b] # "probed"
    <3>1. hUdp # b
      BY <1>4
    <3>2. CASE b = a /\ due
      <4>1. /\ udpDown'[b]["CONTROL"] = <<Probe>> /\ hAttempt'[b] = "probing"
            /\ udpDown'[b]["PROBE"] = udpDown[b]["PROBE"]
            /\ udpDown'[b]["DATA"] = udpDown[b]["DATA"]
        BY <3>2, <1>8, <1>10
      <4> QED  BY <4>1, <3>1, <3>2, <2>1, <1>1, <1>3, <1>4 DEF ChoiceInv
    <3>3. CASE ~(b = a /\ due)
      <4>1. /\ udpDown'[b]["CONTROL"] = udpDown[b]["CONTROL"]
            /\ hAttempt'[b] = hAttempt[b]
            /\ udpDown'[b]["PROBE"] = udpDown[b]["PROBE"]
            /\ udpDown'[b]["DATA"] = udpDown[b]["DATA"]
        BY <3>3, <1>8, <1>10
      <4> QED  BY <4>1, <3>1, <1>1, <1>3 DEF ChoiceInv
    <3> QED  BY <3>2, <3>3
  <2> QED  BY <2>2, <1>1, <1>3, <1>4 DEF ChoiceInv
<1>14. DownInv' /\ DownFlow'
  BY <1>1, <1>4 DEF TransportInv, DownInv, DownFlow
<1> QED  BY <1>2, <1>4, <1>7, <1>8, <1>11, <1>12, <1>13, <1>14

LEMMA HostChannelReadyStep ==
    ASSUME TransportInv, NEW a \in Attempts, HostChannelReady(a)
    PROVE  TransportInv'
<1> USE AttemptsAssumption, BoundsAssumption
<1> DEFINE path == [hPath EXCEPT ![a] = @ \union {"enet"}]
<1>1. /\ hAttempt[a] = "waiting" /\ SendProbeIfReady(a, path)
      /\ hState' = hState /\ hUdp' = hUdp /\ hPending' = hPending
      /\ hHeld' = hHeld /\ hPeerReady' = hPeerReady /\ hTcp' = hTcp
      /\ hOver' = hOver /\ hSent' = hSent /\ hGot' = hGot
      /\ tcpDown' = tcpDown /\ tcpUp' = tcpUp /\ udpUp' = udpUp
      /\ UNCHANGED clientVars
  BY DEF HostChannelReady
<1>2. /\ cUdp' = cUdp /\ cReady' = cReady /\ cPending' = cPending
      /\ cConfirmed' = cConfirmed /\ cHeld' = cHeld /\ cAttempt' = cAttempt
      /\ cTcp' = cTcp /\ cOver' = cOver /\ cSent' = cSent /\ cGot' = cGot
  BY <1>1 DEF clientVars
<1>3. /\ path \in [Attempts -> SUBSET {"enet", "crypto"}]
      /\ \A b \in Attempts : "crypto" \in path[b] => hPeerReady'
      /\ hPeerReady' \in BOOLEAN
  BY <1>1 DEF TransportInv, TypeOK, HostInv
<1> HIDE DEF path
<1>4. /\ hAttempt' \in [Attempts -> {"new", "waiting", "probing", "gone"}]
      /\ hPath' \in [Attempts -> SUBSET {"enet", "crypto"}]
      /\ udpDown' \in UdpNet(MaxHostData)
      /\ \A b \in Attempts : HasSwitch(udpDown'[b]["CONTROL"]) =>
                             HasSwitch(udpDown[b]["CONTROL"])
      /\ HostInv' /\ ChoiceInv' /\ DownInv' /\ DownFlow'
  BY <1>1, <1>3, SendProbeFacts
<1>5. TypeOK'
  BY <1>1, <1>2, <1>4 DEF TransportInv, TypeOK
<1>6. UpInv' /\ UpFlow'
  BY <1>1, <1>2 DEF TransportInv, UpInv, UpFlow
<1>7. ConfirmInv'
  BY <1>1, <1>2, <1>4 DEF TransportInv, ConfirmInv
<1> QED  BY <1>4, <1>5, <1>6, <1>7 DEF TransportInv

\* The host reads a message on TCP that is no switch.
LEMMA HostPopsTcp ==
    ASSUME TransportInv, ~hOver, tcpUp # << >>, Head(tcpUp) # Switch,
           tcpUp' = Tail(tcpUp),
           UNCHANGED <<hUdp, hPending, hHeld, hOver, clientVars, udpUp>>,
           \A b \in Attempts : HasSwitch(udpDown'[b]["CONTROL"]) =>
                               HasSwitch(udpDown[b]["CONTROL"])
    PROVE  tcpUp' \in Seq(UpMessages) /\ UpInv' /\ ConfirmInv'
<1>1. /\ hUdp' = hUdp /\ hPending' = hPending /\ hHeld' = hHeld
      /\ hOver' = hOver /\ udpUp' = udpUp
      /\ cReady' = cReady /\ cConfirmed' = cConfirmed /\ cOver' = cOver
  BY DEF clientVars
<1>2. tcpUp \in Seq(UpMessages)
  BY DEF TransportInv, TypeOK
<1>3. tcpUp' \in Seq(UpMessages)
  BY <1>2
<1>4. /\ HasSwitch(tcpUp') <=> HasSwitch(tcpUp)
      /\ SwitchIsLast(tcpUp) => SwitchIsLast(tcpUp')
  BY <1>2, SwitchTail
<1>5. UpInv'
  BY <1>1, <1>4 DEF TransportInv, UpInv
<1>6. ConfirmInv'
  BY <1>1 DEF TransportInv, ConfirmInv
<1> QED  BY <1>3, <1>5, <1>6

LEMMA HostReadUdpReplyStep ==
    ASSUME TransportInv, HostReadUdpReply
    PROVE  TransportInv'
<1> USE AttemptsAssumption, BoundsAssumption
<1> DEFINE a == Head(tcpUp).attempt
           path == [hPath EXCEPT ![a] = @ \union {"crypto"}]
<1>1. /\ ~hOver /\ tcpUp # << >> /\ Head(tcpUp).type = "udp_reply"
      /\ tcpUp' = Tail(tcpUp) /\ hPeerReady' = TRUE
      /\ hState' = hState /\ hUdp' = hUdp /\ hPending' = hPending
      /\ hHeld' = hHeld /\ hTcp' = hTcp /\ hOver' = hOver /\ hSent' = hSent
      /\ hGot' = hGot /\ tcpDown' = tcpDown /\ udpUp' = udpUp
      /\ UNCHANGED clientVars
  BY DEF HostReadUdpReply, HostTcpHead
<1>2. IF hAttempt[a] = "waiting" THEN SendProbeIfReady(a, path)
      ELSE hPath' = hPath /\ hAttempt' = hAttempt /\ udpDown' = udpDown
  BY DEF HostReadUdpReply
<1>3. /\ cUdp' = cUdp /\ cReady' = cReady /\ cPending' = cPending
      /\ cConfirmed' = cConfirmed /\ cHeld' = cHeld /\ cAttempt' = cAttempt
      /\ cTcp' = cTcp /\ cOver' = cOver /\ cSent' = cSent /\ cGot' = cGot
  BY <1>1 DEF clientVars
<1>4. /\ tcpUp \in Seq(UpMessages) /\ Head(tcpUp) \in UpMessages
      /\ ~IsData(Head(tcpUp)) /\ Head(tcpUp) # Switch /\ a \in Attempts
  <2>1. tcpUp \in Seq(UpMessages) /\ Head(tcpUp) \in UpMessages
    BY <1>1 DEF TransportInv, TypeOK
  <2> QED  BY <2>1, <1>1, UpHead
<1>5. path \in [Attempts -> SUBSET {"enet", "crypto"}]
  BY <1>4 DEF TransportInv, TypeOK
<1> HIDE DEF a, path
<1>6. /\ hAttempt' \in [Attempts -> {"new", "waiting", "probing", "gone"}]
      /\ hPath' \in [Attempts -> SUBSET {"enet", "crypto"}]
      /\ udpDown' \in UdpNet(MaxHostData)
      /\ \A b \in Attempts : HasSwitch(udpDown'[b]["CONTROL"]) =>
                             HasSwitch(udpDown[b]["CONTROL"])
      /\ HostInv' /\ ChoiceInv' /\ DownInv' /\ DownFlow'
  <2>1. CASE hAttempt[a] = "waiting"
    <3>1. hPeerReady' \in BOOLEAN /\ hPeerReady'
      BY <1>1
    <3> QED  BY <2>1, <3>1, <1>1, <1>2, <1>4, <1>5, SendProbeFacts
  <2>2. CASE hAttempt[a] # "waiting"
    <3>1. hPath' = hPath /\ hAttempt' = hAttempt /\ udpDown' = udpDown
      BY <2>2, <1>2
    <3>2. HostInv' /\ ChoiceInv'
      BY <3>1, <1>1, <1>3 DEF TransportInv, HostInv, ChoiceInv
    <3>3. DownInv' /\ DownFlow'
      BY <3>1, <1>1, <1>3 DEF TransportInv, DownInv, DownFlow, ClientEnd
    <3> QED  BY <3>1, <3>2, <3>3 DEF TransportInv, TypeOK
  <2> QED  BY <2>1, <2>2
<1>7. tcpUp' \in Seq(UpMessages) /\ UpInv' /\ ConfirmInv'
  BY <1>1, <1>4, <1>6, HostPopsTcp
<1>8. TypeOK'
  BY <1>1, <1>3, <1>6, <1>7 DEF TransportInv, TypeOK
<1>9. UpFlow'
  <2>1. PICK t \in 0..cSent :
          /\ Flow(hGot, tcpUp, hHeld, cSent, t)
          /\ hUdp = NoAttempt => t = cSent
          /\ hUdp # NoAttempt => Carries(udpUp[hUdp]["DATA"], t + Len(hHeld), cSent)
    BY <1>1 DEF TransportInv, UpFlow
  <2>2. Flow(hGot, tcpUp', hHeld, cSent, t)
    BY <2>1, <1>1, <1>4, FlowTcpSkip DEF TransportInv, TypeOK
  <2> QED  BY <2>1, <2>2, <1>1, <1>3 DEF UpFlow
<1> QED  BY <1>6, <1>7, <1>8, <1>9 DEF TransportInv

LEMMA HostTcpDataStep ==
    ASSUME TransportInv, HostTcpData
    PROVE  TransportInv'
<1> USE AttemptsAssumption, BoundsAssumption
<1>1. /\ ~hOver /\ tcpUp # << >> /\ Head(tcpUp).type = "data"
      /\ tcpUp' = Tail(tcpUp) /\ hPeerReady' = TRUE
      /\ hGot' = Append(hGot, Head(tcpUp).seq)
      /\ hState' = hState /\ hUdp' = hUdp /\ hPending' = hPending
      /\ hHeld' = hHeld /\ hTcp' = hTcp /\ hOver' = hOver /\ hSent' = hSent
      /\ hAttempt' = hAttempt /\ hPath' = hPath
      /\ tcpDown' = tcpDown /\ udpDown' = udpDown /\ udpUp' = udpUp
      /\ UNCHANGED clientVars
  BY DEF HostTcpData, HostTcpHead
<1>2. /\ cUdp' = cUdp /\ cReady' = cReady /\ cPending' = cPending
      /\ cConfirmed' = cConfirmed /\ cHeld' = cHeld /\ cAttempt' = cAttempt
      /\ cTcp' = cTcp /\ cOver' = cOver /\ cSent' = cSent /\ cGot' = cGot
  BY <1>1 DEF clientVars
<1>3. /\ tcpUp \in Seq(UpMessages) /\ Head(tcpUp) \in UpMessages
      /\ IsData(Head(tcpUp)) /\ Head(tcpUp) # Switch
      /\ Head(tcpUp).seq \in 1..MaxClientData
  <2>1. tcpUp \in Seq(UpMessages) /\ Head(tcpUp) \in UpMessages
    BY <1>1 DEF TransportInv, TypeOK
  <2>2. "data" # "udp_switch"
    OBVIOUS
  <2> QED  BY <2>1, <2>2, <1>1, UpHead
<1>4. tcpUp' \in Seq(UpMessages) /\ UpInv' /\ ConfirmInv'
  BY <1>1, <1>3, HostPopsTcp
<1>5. hGot' \in Seq(1..MaxClientData)
  BY <1>1, <1>3 DEF TransportInv, TypeOK
<1>6. TypeOK'
  BY <1>1, <1>2, <1>4, <1>5 DEF TransportInv, TypeOK
<1>7. HostInv' /\ ChoiceInv'
  BY <1>1, <1>2 DEF TransportInv, HostInv, ChoiceInv
<1>8. DownInv' /\ DownFlow'
  BY <1>1, <1>2 DEF TransportInv, DownInv, DownFlow, ClientEnd
<1>9. UpFlow'
  <2>1. PICK t \in 0..cSent :
          /\ Flow(hGot, tcpUp, hHeld, cSent, t)
          /\ hUdp = NoAttempt => t = cSent
          /\ hUdp # NoAttempt => Carries(udpUp[hUdp]["DATA"], t + Len(hHeld), cSent)
    BY <1>1 DEF TransportInv, UpFlow
  <2>2. Flow(hGot', tcpUp', hHeld, cSent, t)
    BY <2>1, <1>1, <1>3, FlowTcpData DEF TransportInv, TypeOK
  <2> QED  BY <2>1, <2>2, <1>1, <1>2 DEF UpFlow
<1> QED  BY <1>4, <1>6, <1>7, <1>8, <1>9 DEF TransportInv

LEMMA HostAttemptErrorStep ==
    ASSUME TransportInv, NEW a \in Attempts, HostAttemptError(a)
    PROVE  TransportInv'
<1> USE AttemptsAssumption, BoundsAssumption
<1>1. /\ hAttempt[a] \in {"new", "waiting", "probing"}
      /\ hAttempt' = [hAttempt EXCEPT ![a] = "gone"]
      /\ hPath' = [hPath EXCEPT ![a] = {}] /\ udpUp' = Lose(udpUp, {a})
      /\ hState' = hState /\ hUdp' = hUdp /\ hPending' = hPending
      /\ hHeld' = hHeld /\ hPeerReady' = hPeerReady /\ hTcp' = hTcp
      /\ hOver' = hOver /\ hSent' = hSent /\ hGot' = hGot
      /\ tcpDown' = tcpDown /\ tcpUp' = tcpUp /\ udpDown' = udpDown
      /\ UNCHANGED clientVars
  BY DEF HostAttemptError
<1>2. /\ cUdp' = cUdp /\ cReady' = cReady /\ cPending' = cPending
      /\ cConfirmed' = cConfirmed /\ cHeld' = cHeld /\ cAttempt' = cAttempt
      /\ cTcp' = cTcp /\ cOver' = cOver /\ cSent' = cSent /\ cGot' = cGot
  BY <1>1 DEF clientVars
<1>3. hUdp = NoAttempt
  BY <1>1 DEF TransportInv, HostInv
<1>4. /\ udpUp' \in UdpNet(MaxClientData)
      /\ \A b \in Attempts, d \in Channels :
           udpUp'[b][d] = IF b \in {a} THEN << >> ELSE udpUp[b][d]
  BY <1>1, LoseFacts DEF TransportInv, TypeOK
<1>5. /\ \A b \in Attempts : udpUp'[b]["CONTROL"] \in {<< >>, udpUp[b]["CONTROL"]}
      /\ \A b \in Attempts : udpUp'[b]["DATA"] \in {<< >>, udpUp[b]["DATA"]}
  BY <1>4 DEF Channels
<1>6. TypeOK'
  BY <1>1, <1>2, <1>4 DEF TransportInv, TypeOK
<1>7. HostInv'
  BY <1>1, <1>3 DEF TransportInv, HostInv, TypeOK
<1>8. ChoiceInv'
  BY <1>1, <1>2, <1>3, <1>5 DEF TransportInv, ChoiceInv, TypeOK
<1>9. DownInv' /\ ConfirmInv' /\ DownFlow'
  BY <1>1, <1>2, <1>3 DEF TransportInv, DownInv, ConfirmInv, DownFlow
<1>10. UpInv'
  BY <1>1, <1>2, <1>3, <1>5 DEF TransportInv, UpInv
<1>11. UpFlow'
  BY <1>1, <1>2, <1>3 DEF TransportInv, UpFlow
<1> QED  BY <1>6, <1>7, <1>8, <1>9, <1>10, <1>11 DEF TransportInv

\* The choice of the host: the client has answered the probe of the attempt,
\* waits for the switch and has sent nothing over UDP.
LEMMA HostAttemptAckStep ==
    ASSUME TransportInv, NEW a \in Attempts, HostAttemptAck(a)
    PROVE  TransportInv'
<1> USE AttemptsAssumption, BoundsAssumption
<1> DEFINE one == Put(udpDown, a, "CONTROL", Probe)
           two == Put(one, a, "PROBE", Probe)
           up == Drop(udpUp, a, "CONTROL")
<1>1. /\ ~hOver /\ hAttempt[a] = "probing" /\ hUdp = NoAttempt
      /\ udpUp[a]["CONTROL"] # << >>
      /\ hUdp' = a /\ hPending' = TRUE
      /\ hAttempt' = [b \in Attempts |-> "gone"]
      /\ hPath' = [b \in Attempts |-> {}]
      /\ udpUp' = Lose(up, Attempts \ {a})
      /\ hState' = IF hPeerReady THEN "READY" ELSE "CONNECTED"
      /\ tcpDown' = IF hPeerReady THEN Append(tcpDown, Switch) ELSE tcpDown
      /\ udpDown' = IF hPeerReady THEN two ELSE udpDown
      /\ hHeld' = hHeld /\ hPeerReady' = hPeerReady /\ hTcp' = hTcp
      /\ hOver' = hOver /\ hSent' = hSent /\ hGot' = hGot /\ tcpUp' = tcpUp
      /\ UNCHANGED clientVars
  BY DEF HostAttemptAck, HostSelectAttempt
<1>2. /\ cUdp' = cUdp /\ cReady' = cReady /\ cPending' = cPending
      /\ cConfirmed' = cConfirmed /\ cHeld' = cHeld /\ cAttempt' = cAttempt
      /\ cTcp' = cTcp /\ cOver' = cOver /\ cSent' = cSent /\ cGot' = cGot
  BY <1>1 DEF clientVars
<1>3. /\ hPeerReady /\ cAttempt[a] \in {"probed", "gone"}
      /\ cUdp = NoAttempt /\ ~cReady
  BY <1>1 DEF TransportInv, HostInv, ChoiceInv
<1>4. /\ udpDown \in UdpNet(MaxHostData) /\ udpUp \in UdpNet(MaxClientData)
      /\ tcpDown \in Seq(DownMessages) /\ Switch \in DownMessages
  BY DEF TransportInv, TypeOK, DownMessages
<1>5. /\ one \in UdpNet(MaxHostData)
      /\ \A b \in Attempts, d \in Channels :
           one[b][d] = IF b = a /\ d = "CONTROL" THEN Append(udpDown[a]["CONTROL"], Probe)
                       ELSE udpDown[b][d]
  BY <1>4, PutFacts, UdpHead DEF Channels
<1> HIDE DEF one
<1>6. /\ two \in UdpNet(MaxHostData)
      /\ \A b \in Attempts, d \in Channels :
           two[b][d] = IF b = a /\ d = "PROBE" THEN Append(one[a]["PROBE"], Probe)
                       ELSE one[b][d]
  BY <1>5, PutFacts, UdpHead DEF Channels
<1> HIDE DEF two
<1>7. /\ up \in UdpNet(MaxClientData)
      /\ \A b \in Attempts, d \in Channels :
           up[b][d] = IF b = a /\ d = "CONTROL" THEN Tail(udpUp[a]["CONTROL"])
                      ELSE udpUp[b][d]
  BY <1>1, <1>4, DropFacts DEF Channels
<1> HIDE DEF up
<1>8. /\ udpUp' \in UdpNet(MaxClientData)
      /\ \A b \in Attempts, d \in Channels :
           udpUp'[b][d] = IF b \in Attempts \ {a} THEN << >> ELSE up[b][d]
  BY <1>1, <1>7, LoseFacts
<1>9. /\ udpDown' = two /\ hState' = "READY"
      /\ tcpDown' = Append(tcpDown, Switch) /\ tcpDown' \in Seq(DownMessages)
  BY <1>1, <1>3, <1>4
<1>10. /\ \A b \in Attempts : b # a =>
            /\ udpDown'[b]["CONTROL"] = udpDown[b]["CONTROL"]
            /\ udpDown'[b]["PROBE"] = udpDown[b]["PROBE"]
            /\ udpDown'[b]["DATA"] = udpDown[b]["DATA"]
            /\ udpUp'[b]["CONTROL"] = << >> /\ udpUp'[b]["DATA"] = << >>
       /\ udpDown'[a]["CONTROL"] = Append(udpDown[a]["CONTROL"], Probe)
       /\ udpDown'[a]["DATA"] = udpDown[a]["DATA"]
       /\ udpUp'[a]["DATA"] = udpUp[a]["DATA"]
  BY <1>5, <1>6, <1>7, <1>8, <1>9 DEF Channels
<1>11. udpDown[a]["DATA"] = << >>
  BY <1>1 DEF TransportInv, ChoiceInv
<1>12. TypeOK'
  BY <1>1, <1>2, <1>6, <1>8, <1>9 DEF TransportInv, TypeOK
<1>13. HostInv'
  BY <1>1, <1>3, <1>9 DEF HostInv
<1>14. ChoiceInv'
  <2>1. ASSUME NEW b \in Attempts, b # a
        PROVE  /\ udpUp'[b]["CONTROL"] = << >> /\ hAttempt'[b] = "gone"
               /\ udpDown'[b]["PROBE"] = << >> /\ udpDown'[b]["DATA"] = << >>
               /\ Len(udpDown'[b]["CONTROL"]) <= 1
               /\ cAttempt'[b] = "probed" => udpDown'[b]["CONTROL"] = << >>
    BY <2>1, <1>1, <1>2, <1>10 DEF TransportInv, ChoiceInv
  <2> QED  BY <2>1, <1>1, <1>2, <1>3 DEF TransportInv, ChoiceInv
<1>15. DownInv'
  <2>1. HasSwitch(tcpDown') /\ SwitchIsLast(tcpDown')
    BY <1>1, <1>4, <1>9, SwitchAppend DEF TransportInv, DownInv
  <2>2. ~cOver => cPending
    BY <1>1, <1>3 DEF TransportInv, DownInv
  <2> QED  BY <2>1, <2>2, <1>1, <1>2 DEF TransportInv, DownInv
<1>16. /\ ~HasSwitch(tcpUp) /\ hHeld = << >>
       /\ \A b \in Attempts : udpUp[b]["DATA"] = << >>
  BY <1>1 DEF TransportInv, UpInv
<1>17. UpInv'
  BY <1>1, <1>2, <1>3, <1>10, <1>16 DEF TransportInv, UpInv
<1>18. ConfirmInv'
  <2>1. udpDown[a]["CONTROL"] \in Seq(UdpMessages("CONTROL", MaxHostData))
    BY <1>4, NetFacts DEF Channels
  <2>2. HasSwitch(udpDown'[a]["CONTROL"]) => HasSwitch(udpDown[a]["CONTROL"])
    BY <2>1, <1>10, SwitchAppend, UdpHead, MessageKinds
  <2>3. \A b \in Attempts : HasSwitch(udpDown'[b]["CONTROL"]) =>
                            HasSwitch(udpDown[b]["CONTROL"])
    BY <2>2, <1>10
  <2> QED  BY <2>3, <1>1, <1>2 DEF TransportInv, ConfirmInv
<1>19. DownFlow'
  <2>1. CASE cOver
    BY <2>1, <1>1, <1>2 DEF TransportInv, DownFlow
  <2>2. CASE ~cOver
    <3>1. hSent \in Nat /\ Len(cGot) \in Nat
      BY DEF TransportInv, TypeOK
    <3>2. Flow(cGot, tcpDown, cHeld, hSent, hSent)
      BY <2>2, <1>1 DEF TransportInv, DownFlow
    <3>3. Flow(cGot, tcpDown', cHeld, hSent, hSent)
      BY <3>1, <3>2, <1>4, <1>9, FlowTcpOther, MessageKinds
    <3>4. cHeld = << >> /\ hSent + Len(cHeld) = hSent
      BY <3>1, <1>1 DEF TransportInv, DownInv
    <3>5. Carries(udpDown'[a]["DATA"], hSent + Len(cHeld), hSent)
      BY <3>1, <3>4, <1>10, <1>11, CarriesEmpty
    <3> QED  BY <3>1, <3>3, <3>5, <2>2, <1>1, <1>2 DEF DownFlow
  <2> QED  BY <2>1, <2>2
<1>20. UpFlow'
  <2>1. cSent \in Nat /\ cSent + Len(hHeld) = cSent
    BY <1>16 DEF TransportInv, TypeOK
  <2>2. Flow(hGot, tcpUp, hHeld, cSent, cSent)
    BY <1>1 DEF TransportInv, UpFlow
  <2>3. Carries(udpUp'[a]["DATA"], cSent + Len(hHeld), cSent)
    BY <2>1, <1>10, <1>16, CarriesEmpty
  <2> QED  BY <2>1, <2>2, <2>3, <1>1, <1>2 DEF UpFlow
<1> QED  BY <1>12, <1>13, <1>14, <1>15, <1>17, <1>18, <1>19, <1>20 DEF TransportInv

LEMMA HostReadUdpSwitchStep ==
    ASSUME TransportInv, HostReadUdpSwitch
    PROVE  TransportInv'
<1> USE AttemptsAssumption, BoundsAssumption
<1> DEFINE net == Put(udpDown, hUdp, "CONTROL", Switch)
<1>1. /\ ~hOver /\ tcpUp # << >> /\ Head(tcpUp).type = "udp_switch"
      /\ tcpUp' = Tail(tcpUp) /\ hPeerReady' = TRUE /\ hPending' = FALSE
      /\ hGot' = hGot \o hHeld /\ hHeld' = << >>
      /\ IF hState = "READY" /\ hUdp # NoAttempt
         THEN udpDown' = net /\ tcpDown' = tcpDown
         ELSE tcpDown' = Append(tcpDown, Switch) /\ udpDown' = udpDown
      /\ hState' = hState /\ hUdp' = hUdp /\ hTcp' = hTcp /\ hOver' = hOver
      /\ hSent' = hSent /\ hAttempt' = hAttempt /\ hPath' = hPath
      /\ udpUp' = udpUp /\ UNCHANGED clientVars
  BY DEF HostReadUdpSwitch, HostTcpHead
<1>2. /\ cUdp' = cUdp /\ cReady' = cReady /\ cPending' = cPending
      /\ cConfirmed' = cConfirmed /\ cHeld' = cHeld /\ cAttempt' = cAttempt
      /\ cTcp' = cTcp /\ cOver' = cOver /\ cSent' = cSent /\ cGot' = cGot
  BY <1>1 DEF clientVars
<1>3. /\ tcpUp \in Seq(UpMessages) /\ Head(tcpUp) = Switch /\ ~IsData(Head(tcpUp))
  <2>1. tcpUp \in Seq(UpMessages) /\ Head(tcpUp) \in UpMessages
    BY <1>1 DEF TransportInv, TypeOK
  <2> QED  BY <2>1, <1>1, UpHead, MessageKinds
<1>4. HasSwitch(tcpUp) /\ Tail(tcpUp) = << >>
  BY <1>1, <1>3, SwitchTail DEF TransportInv, UpInv
<1>5. hUdp \in Attempts /\ hState = "READY" /\ (cReady \/ cOver)
  BY <1>1, <1>4 DEF TransportInv, UpInv, HostInv, TypeOK
<1>6. udpDown' = net /\ tcpDown' = tcpDown
  BY <1>1, <1>5
<1>7. /\ net \in UdpNet(MaxHostData)
      /\ \A b \in Attempts, d \in Channels :
           net[b][d] = IF b = hUdp /\ d = "CONTROL"
                       THEN Append(udpDown[hUdp]["CONTROL"], Switch) ELSE udpDown[b][d]
  BY <1>5, PutFacts, UdpHead DEF Channels, TransportInv, TypeOK
<1> HIDE DEF net
<1>8. /\ \A b \in Attempts : b # hUdp =>
           udpDown'[b]["CONTROL"] = udpDown[b]["CONTROL"]
      /\ \A b \in Attempts : udpDown'[b]["PROBE"] = udpDown[b]["PROBE"]
      /\ \A b \in Attempts : udpDown'[b]["DATA"] = udpDown[b]["DATA"]
  BY <1>6, <1>7 DEF Channels
<1>9. TypeOK'
  <2>1. hGot' \in Seq(1..MaxClientData) /\ hHeld' \in Seq(1..MaxClientData)
    BY <1>1, ConcatProperties DEF TransportInv, TypeOK
  <2>2. tcpUp' \in Seq(UpMessages) /\ udpDown' \in UdpNet(MaxHostData)
    BY <1>1, <1>3, <1>6, <1>7
  <2> QED  BY <2>1, <2>2, <1>1, <1>2, <1>6 DEF TransportInv, TypeOK
<1>10. HostInv'
  BY <1>1 DEF TransportInv, HostInv
<1>11. ChoiceInv'
  BY <1>1, <1>2, <1>8 DEF TransportInv, ChoiceInv
<1>12. DownInv'
  BY <1>1, <1>2, <1>6 DEF TransportInv, DownInv
<1>13. tcpUp' = << >> /\ ~HasSwitch(tcpUp') /\ SwitchIsLast(tcpUp')
  BY <1>1, <1>4, SwitchEmpty
<1>14. UpInv'
  BY <1>1, <1>2, <1>5, <1>13 DEF UpInv
<1>15. ConfirmInv'
  BY <1>1, <1>2, <1>5, <1>13 DEF ConfirmInv
<1>16. DownFlow'
  BY <1>1, <1>2, <1>5, <1>6, <1>8 DEF TransportInv, DownFlow, ClientEnd
<1>17. UpFlow'
  <2>1. PICK t \in 0..cSent :
          /\ Flow(hGot, tcpUp, hHeld, cSent, t)
          /\ Carries(udpUp[hUdp]["DATA"], t + Len(hHeld), cSent)
    BY <1>1, <1>5 DEF TransportInv, UpFlow
  <2>2. cSent \in Nat /\ t \in Nat /\ Len(hGot) \in Nat /\ Len(hHeld) \in Nat
    BY DEF TransportInv, TypeOK
  <2>3. Flow(hGot', tcpUp', hHeld', cSent, t + Len(hHeld))
    <3>1. Flow(hGot \o hHeld, << >>, << >>, cSent, t + Len(hHeld))
      <4>1. tcpUp # << >>
        BY <1>1
      <4> QED  BY <4>1, <2>1, <2>2, <1>3, <1>4, FlowSwitch
    <3>2. hGot' = hGot \o hHeld /\ tcpUp' = << >> /\ hHeld' = << >>
      BY <1>1, <1>4
    <3> QED  BY <3>1, <3>2
  <2>4. /\ t + Len(hHeld) \in 0..cSent
        /\ t + Len(hHeld) + Len(hHeld') = t + Len(hHeld)
    BY <2>1, <2>2, <1>1 DEF Flow
  <2> QED  BY <2>1, <2>3, <2>4, <1>1, <1>2, <1>5 DEF UpFlow
<1> QED  BY <1>9, <1>10, <1>11, <1>12, <1>14, <1>15, <1>16, <1>17 DEF TransportInv

LEMMA HostUdpDataStep ==
    ASSUME TransportInv, HostUdpData
    PROVE  TransportInv'
<1> USE AttemptsAssumption, BoundsAssumption
<1> DEFINE q == udpUp[hUdp]["DATA"]
           n == Head(q).seq
<1>1. /\ ~hOver /\ hUdp # NoAttempt /\ q # << >>
      /\ IF hPending THEN hHeld' = Append(hHeld, n) /\ hGot' = hGot
         ELSE hGot' = Append(hGot, n) /\ hHeld' = hHeld
      /\ udpUp' = Drop(udpUp, hUdp, "DATA")
      /\ hState' = hState /\ hUdp' = hUdp /\ hPending' = hPending
      /\ hPeerReady' = hPeerReady /\ hAttempt' = hAttempt /\ hPath' = hPath
      /\ hTcp' = hTcp /\ hOver' = hOver /\ hSent' = hSent
      /\ tcpDown' = tcpDown /\ tcpUp' = tcpUp /\ udpDown' = udpDown
      /\ UNCHANGED clientVars
  BY DEF HostUdpData
<1>2. /\ cUdp' = cUdp /\ cReady' = cReady /\ cPending' = cPending
      /\ cConfirmed' = cConfirmed /\ cHeld' = cHeld /\ cAttempt' = cAttempt
      /\ cTcp' = cTcp /\ cOver' = cOver /\ cSent' = cSent /\ cGot' = cGot
  BY <1>1 DEF clientVars
<1>3. hUdp \in Attempts /\ udpUp \in UdpNet(MaxClientData)
  BY <1>1 DEF TransportInv, TypeOK
<1>4. /\ udpUp' \in UdpNet(MaxClientData)
      /\ \A b \in Attempts, d \in Channels :
           udpUp'[b][d] = IF b = hUdp /\ d = "DATA" THEN Tail(q) ELSE udpUp[b][d]
  BY <1>1, <1>3, DropFacts DEF Channels
<1>5. q \in Seq(UdpMessages("DATA", MaxClientData))
  BY <1>3, NetFacts DEF Channels
<1> HIDE DEF q
<1>6. Head(q) \in UdpMessages("DATA", MaxClientData)
  BY <1>1, <1>5
<1>7. IsData(Head(q)) /\ n \in 1..MaxClientData
  BY <1>6, UdpHead
<1> HIDE DEF n
<1>8. udpUp'[hUdp]["DATA"] = Tail(q)
  BY <1>3, <1>4 DEF Channels
<1>9. \A b \in Attempts : udpUp'[b]["CONTROL"] = udpUp[b]["CONTROL"]
  BY <1>4 DEF Channels
<1>10. TypeOK'
  <2>1. hGot \in Seq(1..MaxClientData) /\ hHeld \in Seq(1..MaxClientData)
    BY DEF TransportInv, TypeOK
  <2>2. hGot' \in Seq(1..MaxClientData) /\ hHeld' \in Seq(1..MaxClientData)
    <3>1. Append(hGot, n) \in Seq(1..MaxClientData) /\ Append(hHeld, n) \in Seq(1..MaxClientData)
      BY <2>1, <1>7
    <3>2. hGot' \in {hGot, Append(hGot, n)} /\ hHeld' \in {hHeld, Append(hHeld, n)}
      BY <1>1
    <3> QED  BY <2>1, <3>1, <3>2
  <2> QED  BY <2>2, <1>1, <1>2, <1>4 DEF TransportInv, TypeOK
<1>11. HostInv' /\ ChoiceInv'
  BY <1>1, <1>2, <1>9 DEF TransportInv, HostInv, ChoiceInv
<1>12. DownInv' /\ DownFlow'
  BY <1>1, <1>2 DEF TransportInv, DownInv, DownFlow, ClientEnd
<1>13. hPending => HasSwitch(tcpUp)
  BY <1>1, <1>3 DEF TransportInv, UpInv, q
<1>14. ~hPending => tcpUp = << >> /\ hHeld = << >> /\ hHeld' = << >>
  BY <1>1 DEF TransportInv, UpInv
<1>15. UpInv'
  BY <1>1, <1>2, <1>13, <1>14 DEF TransportInv, UpInv
<1>16. ConfirmInv'
  BY <1>1, <1>2, <1>14 DEF TransportInv, ConfirmInv
<1>17. UpFlow'
  <2>1. PICK t \in 0..cSent :
          Flow(hGot, tcpUp, hHeld, cSent, t) /\ Carries(q, t + Len(hHeld), cSent)
    BY <1>1 DEF TransportInv, UpFlow, q
  <2>2. /\ cSent \in Nat /\ Len(hGot) \in Nat /\ Len(hHeld) \in Nat /\ t \in Nat
        /\ t + Len(hHeld) \in Nat
    BY DEF TransportInv, TypeOK
  <2>3. /\ n = t + Len(hHeld) + 1 /\ t + Len(hHeld) < cSent
        /\ Carries(Tail(q), t + Len(hHeld) + 1, cSent)
    BY <2>1, <2>2, <1>1, <1>5, <1>7, CarriesTail DEF n
  <2>4. CASE hPending
    <3>1. /\ Flow(hGot, tcpUp, Append(hHeld, n), cSent, t)
          /\ Len(Append(hHeld, n)) = Len(hHeld) + 1
      BY <2>1, <2>2, <2>3, FlowHold
    <3>2. /\ Flow(hGot', tcpUp', hHeld', cSent', t)
          /\ t + Len(hHeld') = t + Len(hHeld) + 1
      <4>1. hGot' = hGot /\ tcpUp' = tcpUp /\ hHeld' = Append(hHeld, n) /\ cSent' = cSent
        BY <2>4, <1>1, <1>2
      <4> QED  BY <4>1, <3>1, <2>2
    <3>3. Carries(udpUp'[hUdp']["DATA"], t + Len(hHeld'), cSent')
      BY <3>2, <2>3, <1>1, <1>2, <1>8
    <3> QED  BY <3>2, <3>3, <1>1, <1>2 DEF UpFlow
  <2>5. CASE ~hPending
    <3>1. n = t + 1 /\ t < cSent /\ Carries(Tail(q), t + 1, cSent)
      BY <2>2, <2>3, <2>5, <1>14
    <3>2. Flow(Append(hGot, t + 1), << >>, << >>, cSent, t + 1)
      BY <2>1, <2>2, <2>5, <3>1, <1>14, FlowDeliver
    <3>3. Flow(hGot', tcpUp', hHeld', cSent', t + 1) /\ t + 1 + Len(hHeld') = t + 1
      <4>1. /\ hGot' = Append(hGot, t + 1) /\ tcpUp' = << >> /\ hHeld' = << >>
            /\ cSent' = cSent
        BY <3>1, <2>5, <1>1, <1>2, <1>14
      <4> QED  BY <4>1, <3>2, <2>2
    <3>4. Carries(udpUp'[hUdp']["DATA"], t + 1 + Len(hHeld'), cSent')
      BY <3>1, <3>3, <1>1, <1>2, <1>8
    <3>5. t + 1 \in 0..cSent
      BY <3>1, <2>2
    <3> QED  BY <3>3, <3>4, <3>5, <1>1, <1>2 DEF UpFlow
  <2> QED  BY <2>4, <2>5
<1> QED  BY <1>10, <1>11, <1>12, <1>15, <1>16, <1>17 DEF TransportInv

LEMMA HostSendStep ==
    ASSUME TransportInv, HostSend
    PROVE  TransportInv'
<1> USE AttemptsAssumption, BoundsAssumption
<1> DEFINE m == Data(hSent + 1)
           net == Put(udpDown, hUdp, "DATA", m)
<1>1. /\ ~hOver /\ hSent < MaxHostData /\ hSent' = hSent + 1
      /\ IF hState = "READY" /\ hUdp # NoAttempt
         THEN udpDown' = net /\ tcpDown' = tcpDown
         ELSE tcpDown' = Append(tcpDown, m) /\ udpDown' = udpDown
      /\ hState' = hState /\ hUdp' = hUdp /\ hPending' = hPending
      /\ hHeld' = hHeld /\ hPeerReady' = hPeerReady /\ hAttempt' = hAttempt
      /\ hPath' = hPath /\ hTcp' = hTcp /\ hOver' = hOver /\ hGot' = hGot
      /\ tcpUp' = tcpUp /\ udpUp' = udpUp /\ UNCHANGED clientVars
  BY DEF HostSend
<1>2. /\ cUdp' = cUdp /\ cReady' = cReady /\ cPending' = cPending
      /\ cConfirmed' = cConfirmed /\ cHeld' = cHeld /\ cAttempt' = cAttempt
      /\ cTcp' = cTcp /\ cOver' = cOver /\ cSent' = cSent /\ cGot' = cGot
  BY <1>1 DEF clientVars
<1>3. /\ hSent \in Nat /\ hSent + 1 \in 1..MaxHostData /\ hSent' \in 0..MaxHostData
      /\ Len(cGot) \in Nat /\ Len(cHeld) \in Nat
      /\ tcpDown \in Seq(DownMessages) /\ udpDown \in UdpNet(MaxHostData)
  BY <1>1 DEF TransportInv, TypeOK
<1>4. m \in DownMessages /\ m \in UdpMessages("DATA", MaxHostData) /\ m # Switch
  BY <1>3, UdpHead, MessageKinds DEF DownMessages
<1>5. UpInv' /\ UpFlow'
  BY <1>1, <1>2 DEF TransportInv, UpInv, UpFlow
<1>6. HostInv'
  BY <1>1 DEF TransportInv, HostInv
<1>7. CASE hUdp = NoAttempt
  <2>1. tcpDown' = Append(tcpDown, m) /\ udpDown' = udpDown
    BY <1>1, <1>7
  <2>2. TypeOK'
    <3>1. tcpDown' \in Seq(DownMessages)
      BY <2>1, <1>3, <1>4
    <3> QED  BY <3>1, <2>1, <1>1, <1>2, <1>3 DEF TransportInv, TypeOK
  <2>3. ChoiceInv' /\ ConfirmInv'
    BY <2>1, <1>1, <1>2 DEF TransportInv, ChoiceInv, ConfirmInv
  <2>4. DownInv'
    <3>1. ~HasSwitch(tcpDown')
      BY <2>1, <1>3, <1>4, <1>7, SwitchAppend DEF TransportInv, DownInv
    <3> QED  BY <3>1, <1>1, <1>2, <1>7 DEF TransportInv, DownInv
  <2>5. DownFlow'
    <3>1. CASE cOver
      BY <3>1, <1>1, <1>2, <1>3 DEF TransportInv, DownFlow
    <3>2. CASE ~cOver
      <4>1. cHeld = << >> /\ Flow(cGot, tcpDown, cHeld, hSent, hSent)
        BY <3>2, <1>7 DEF TransportInv, DownInv, DownFlow
      <4>2. Flow(cGot, Append(tcpDown, m), << >>, hSent + 1, hSent + 1)
        BY <4>1, <1>3, <1>4, FlowTcpSend
      <4>3. Flow(cGot', tcpDown', cHeld', hSent', hSent')
        BY <4>1, <4>2, <2>1, <1>1, <1>2
      <4>4. hSent' \in 0..hSent'
        BY <1>3
      <4> QED  BY <4>3, <4>4, <3>2, <1>1, <1>2, <1>7 DEF DownFlow
    <3> QED  BY <3>1, <3>2
  <2> QED  BY <2>2, <2>3, <2>4, <2>5, <1>5, <1>6 DEF TransportInv
<1>8. CASE hUdp # NoAttempt
  <2>1. udpDown' = net /\ tcpDown' = tcpDown /\ hUdp \in Attempts
    BY <1>1, <1>8 DEF TransportInv, HostInv, TypeOK
  <2>2. /\ net \in UdpNet(MaxHostData)
        /\ \A b \in Attempts, d \in Channels :
             net[b][d] = IF b = hUdp /\ d = "DATA" THEN Append(udpDown[hUdp]["DATA"], m)
                         ELSE udpDown[b][d]
    BY <2>1, <1>3, <1>4, PutFacts DEF Channels
  <2> HIDE DEF net
  <2>3. /\ \A b \in Attempts : b # hUdp => udpDown'[b]["DATA"] = udpDown[b]["DATA"]
        /\ \A b \in Attempts : udpDown'[b]["PROBE"] = udpDown[b]["PROBE"]
        /\ \A b \in Attempts : udpDown'[b]["CONTROL"] = udpDown[b]["CONTROL"]
        /\ udpDown'[hUdp]["DATA"] = Append(udpDown[hUdp]["DATA"], m)
    BY <2>1, <2>2 DEF Channels
  <2>4. TypeOK'
    BY <2>1, <2>2, <1>1, <1>2, <1>3 DEF TransportInv, TypeOK
  <2>5. ChoiceInv'
    BY <2>3, <1>1, <1>2 DEF TransportInv, ChoiceInv
  <2>6. DownInv' /\ ConfirmInv'
    BY <2>1, <2>3, <1>1, <1>2 DEF TransportInv, DownInv, ConfirmInv
  <2>7. DownFlow'
    <3>1. CASE cOver
      BY <3>1, <1>1, <1>2, <1>3 DEF TransportInv, DownFlow
    <3>2. CASE ~cOver
      <4>1. PICK t \in 0..hSent :
              /\ Flow(cGot, tcpDown, cHeld, hSent, t)
              /\ ClientEnd(hUdp) =>
                   Carries(udpDown[hUdp]["DATA"], t + Len(cHeld), hSent)
        BY <3>2, <1>8 DEF TransportInv, DownFlow
      <4>2. Flow(cGot, tcpDown, cHeld, hSent + 1, t)
        BY <4>1, <1>3, FlowUdpSend
      <4>3. udpDown[hUdp]["DATA"] \in Seq(UdpMessages("DATA", MaxHostData))
        BY <2>1, <1>3, NetFacts DEF Channels
      <4>4. ClientEnd(hUdp) => Carries(udpDown'[hUdp]["DATA"], t + Len(cHeld), hSent + 1)
        BY <4>1, <4>3, <2>3, <1>3, <1>4, CarriesAppendData
      <4>5. ClientEnd(hUdp)' <=> ClientEnd(hUdp)
        BY <1>1, <1>2 DEF ClientEnd
      <4>6. t \in 0..hSent'
        BY <1>1, <1>3
      <4> QED  BY <4>2, <4>4, <4>5, <4>6, <3>2, <2>1, <1>1, <1>2, <1>8 DEF DownFlow
    <3> QED  BY <3>1, <3>2
  <2> QED  BY <2>4, <2>5, <2>6, <2>7, <1>5, <1>6 DEF TransportInv
<1> QED  BY <1>7, <1>8

LEMMA HostFinishStep ==
    ASSUME TransportInv, ~hOver, HostFinish
    PROVE  TransportInv'
<1> USE AttemptsAssumption, BoundsAssumption
<1>1. /\ hOver' = TRUE /\ hTcp' = FALSE /\ hHeld' = << >>
      /\ hAttempt' = [a \in Attempts |-> "gone"]
      /\ hPath' = [a \in Attempts |-> {}]
      /\ tcpUp' = << >> /\ udpUp' = NoPackets
      /\ hState' = hState /\ hUdp' = hUdp /\ hPending' = hPending
      /\ hPeerReady' = hPeerReady /\ hSent' = hSent /\ hGot' = hGot
      /\ tcpDown' = tcpDown /\ udpDown' = udpDown /\ UNCHANGED clientVars
  BY DEF HostFinish
<1>2. /\ cUdp' = cUdp /\ cReady' = cReady /\ cPending' = cPending
      /\ cConfirmed' = cConfirmed /\ cHeld' = cHeld /\ cAttempt' = cAttempt
      /\ cTcp' = cTcp /\ cOver' = cOver /\ cSent' = cSent /\ cGot' = cGot
  BY <1>1 DEF clientVars
<1>3. /\ NoPackets \in UdpNet(MaxClientData)
      /\ \A b \in Attempts : NoPackets[b]["CONTROL"] = << >>
  BY NoPacketsFacts DEF Channels
<1> HIDE DEF NoPackets
<1>4. TypeOK'
  <2>1. tcpUp' \in Seq(UpMessages) /\ hHeld' \in Seq(1..MaxClientData)
    BY <1>1
  <2> QED  BY <2>1, <1>1, <1>2, <1>3 DEF TransportInv, TypeOK
<1>5. HostInv'
  BY <1>1 DEF TransportInv, HostInv
<1>6. ChoiceInv'
  BY <1>1, <1>2, <1>3 DEF TransportInv, ChoiceInv
<1>7. DownInv' /\ DownFlow'
  BY <1>1, <1>2 DEF TransportInv, DownInv, DownFlow, ClientEnd
<1>8. UpInv'
  BY <1>1, SwitchEmpty DEF UpInv
<1>9. ConfirmInv'
  BY <1>1, <1>2 DEF TransportInv, ConfirmInv
<1>10. UpFlow'
  <2>1. PICK t \in 0..cSent : Flow(hGot, tcpUp, hHeld, cSent, t)
    BY DEF TransportInv, UpFlow
  <2>2. hGot = Run(0, Len(hGot)) /\ Len(hGot) <= cSent
    <3>1. cSent \in Nat /\ t \in Nat /\ Len(hGot) \in Nat /\ Len(hHeld) \in Nat
      BY DEF TransportInv, TypeOK
    <3> QED  BY <2>1, <3>1, FlowPrefix
  <2> QED  BY <2>2, <1>1, <1>2 DEF UpFlow
<1> QED  BY <1>4, <1>5, <1>6, <1>7, <1>8, <1>9, <1>10 DEF TransportInv

LEMMA HostTcpErrorStep ==
    ASSUME TransportInv, HostTcpError
    PROVE  TransportInv'
<1>1. CASE hState = "READY" /\ ~hPending
  <2>1. /\ hTcp' = FALSE
        /\ UNCHANGED <<hState, hUdp, hPending, hHeld, hPeerReady, hAttempt,
                       hPath, hOver, hSent, hGot, clientVars, netVars>>
    BY <1>1 DEF HostTcpError
  <2>2. TypeOK'
    BY <2>1 DEF TransportInv, TypeOK, clientVars, netVars
  <2>3. HostInv' /\ ChoiceInv' /\ DownInv'
    BY <2>1 DEF TransportInv, HostInv, ChoiceInv, DownInv, clientVars, netVars
  <2>4. UpInv' /\ ConfirmInv'
    BY <2>1 DEF TransportInv, UpInv, ConfirmInv, clientVars, netVars
  <2>5. DownFlow' /\ UpFlow'
    BY <2>1 DEF TransportInv, DownFlow, UpFlow, ClientEnd, clientVars, netVars
  <2> QED  BY <2>2, <2>3, <2>4, <2>5 DEF TransportInv
<1>2. CASE ~(hState = "READY" /\ ~hPending)
  BY <1>2, HostFinishStep DEF HostTcpError
<1> QED  BY <1>1, <1>2

\* A host with a channel is READY, so the loss of the channel ends the session.
LEMMA HostUdpErrorStep ==
    ASSUME TransportInv, HostUdpError
    PROVE  TransportInv'
<1>1. hState = "READY" /\ ~hOver /\ HostFinish
  BY DEF TransportInv, HostInv, HostUdpError
<1> QED  BY <1>1, HostFinishStep

------------------------------------------------------------------------------
(* The steps of the client                                                 *)

HostUnchanged ==
    /\ hState' = hState /\ hUdp' = hUdp /\ hPending' = hPending
    /\ hHeld' = hHeld /\ hPeerReady' = hPeerReady /\ hAttempt' = hAttempt
    /\ hPath' = hPath /\ hTcp' = hTcp /\ hOver' = hOver /\ hSent' = hSent
    /\ hGot' = hGot

LEMMA ClientLeavesHost ==
    ASSUME UNCHANGED hostVars PROVE HostUnchanged
BY DEF hostVars, HostUnchanged

\* A reply may follow what is on TCP as long as the client has not chosen.
LEMMA ClientReplies ==
    ASSUME TransportInv, ~cOver, cUdp = NoAttempt, HostUnchanged,
           NEW a \in Attempts,
           tcpUp' = tcpUp \/ tcpUp' = Append(tcpUp, Reply(a)),
           UNCHANGED <<cReady, cConfirmed, cOver, cSent>>,
           udpUp' \in UdpNet(MaxClientData),
           \A b \in Attempts : udpUp'[b]["DATA"] = udpUp[b]["DATA"],
           \A b \in Attempts : HasSwitch(udpDown'[b]["CONTROL"]) =>
                               HasSwitch(udpDown[b]["CONTROL"])
    PROVE  tcpUp' \in Seq(UpMessages) /\ UpInv' /\ ConfirmInv' /\ UpFlow'
<1> USE AttemptsAssumption, BoundsAssumption
<1>1. /\ hUdp' = hUdp /\ hPending' = hPending /\ hHeld' = hHeld
      /\ hOver' = hOver /\ hGot' = hGot /\ cReady' = cReady
      /\ cConfirmed' = cConfirmed /\ cOver' = cOver /\ cSent' = cSent
  BY DEF HostUnchanged
<1>2. /\ tcpUp \in Seq(UpMessages) /\ Reply(a) \in UpMessages
      /\ Reply(a) # Switch /\ ~IsData(Reply(a))
  BY MessageKinds DEF TransportInv, TypeOK, UpMessages
<1>3. ~cReady /\ ~HasSwitch(tcpUp)
  BY DEF TransportInv, ChoiceInv, UpInv
<1>4. tcpUp' \in Seq(UpMessages) /\ ~HasSwitch(tcpUp') /\ SwitchIsLast(tcpUp')
  <2>1. CASE tcpUp' = tcpUp
    BY <2>1, <1>2, <1>3 DEF TransportInv, UpInv
  <2>2. CASE tcpUp' = Append(tcpUp, Reply(a))
    BY <2>2, <1>2, <1>3, SwitchAppend
  <2> QED  BY <2>1, <2>2
<1>5. UpInv'
  BY <1>1, <1>3, <1>4 DEF TransportInv, UpInv
<1>6. ConfirmInv'
  BY <1>1, <1>3 DEF TransportInv, ConfirmInv
<1>7. UpFlow'
  <2>1. CASE hOver
    BY <2>1, <1>1 DEF TransportInv, UpFlow
  <2>2. CASE ~hOver
    <3>1. PICK t \in 0..cSent :
            /\ Flow(hGot, tcpUp, hHeld, cSent, t)
            /\ hUdp = NoAttempt => t = cSent
            /\ hUdp # NoAttempt => Carries(udpUp[hUdp]["DATA"], t + Len(hHeld), cSent)
      BY <2>2 DEF TransportInv, UpFlow
    <3>2. cSent \in Nat /\ t \in Nat /\ Len(hGot) \in Nat /\ Len(hHeld) \in Nat
      BY DEF TransportInv, TypeOK
    <3>3. Flow(hGot, tcpUp', hHeld, cSent, t)
      <4>1. Flow(hGot, Append(tcpUp, Reply(a)), hHeld, cSent, t)
        BY <3>1, <3>2, <1>2, FlowTcpOther
      <4> QED  BY <4>1, <3>1
    <3>4. hUdp # NoAttempt => udpUp'[hUdp]["DATA"] = udpUp[hUdp]["DATA"]
      BY DEF TransportInv, TypeOK
    <3> QED  BY <3>1, <3>3, <3>4, <2>2, <1>1 DEF UpFlow
  <2> QED  BY <2>1, <2>2
<1> QED  BY <1>4, <1>5, <1>6, <1>7

LEMMA ClientReadUdpRequestStep ==
    ASSUME TransportInv, ClientReadUdpRequest
    PROVE  TransportInv'
<1> USE AttemptsAssumption, BoundsAssumption
<1> DEFINE a == Head(tcpDown).attempt
<1>1. /\ ~cOver /\ cTcp /\ tcpDown # << >> /\ Head(tcpDown).type = "udp_request"
      /\ tcpDown' = Tail(tcpDown)
      /\ cUdp' = cUdp /\ cReady' = cReady /\ cConfirmed' = cConfirmed
      /\ cHeld' = cHeld /\ cTcp' = cTcp /\ cOver' = cOver /\ cSent' = cSent
      /\ cGot' = cGot /\ udpDown' = udpDown /\ udpUp' = udpUp
      /\ HostUnchanged
  BY ClientLeavesHost DEF ClientReadUdpRequest, ClientTcpHead
<1>2. \/ /\ cUdp = NoAttempt /\ cAttempt[a] = "none" /\ cPending' = TRUE
         /\ \E s \in {"starting", "started", "gone"} : cAttempt' = [cAttempt EXCEPT ![a] = s]
         /\ tcpUp' = tcpUp \/ tcpUp' = Append(tcpUp, Reply(a))
      \/ cPending' = cPending /\ cAttempt' = cAttempt /\ tcpUp' = tcpUp
  BY DEF ClientReadUdpRequest
<1>3. /\ tcpDown \in Seq(DownMessages) /\ tcpDown' \in Seq(DownMessages)
      /\ ~IsData(Head(tcpDown)) /\ Head(tcpDown) # Switch /\ a \in Attempts
  <2>1. tcpDown \in Seq(DownMessages) /\ Head(tcpDown) \in DownMessages
    BY <1>1 DEF TransportInv, TypeOK
  <2> QED  BY <2>1, <1>1, DownHead
<1> HIDE DEF a
<1>4. /\ hState' = hState /\ hUdp' = hUdp /\ hPending' = hPending
      /\ hHeld' = hHeld /\ hPeerReady' = hPeerReady /\ hAttempt' = hAttempt
      /\ hPath' = hPath /\ hTcp' = hTcp /\ hOver' = hOver /\ hSent' = hSent
      /\ hGot' = hGot
  BY <1>1 DEF HostUnchanged
<1>5. /\ HasSwitch(tcpDown') <=> HasSwitch(tcpDown)
      /\ SwitchIsLast(tcpDown) => SwitchIsLast(tcpDown')
  BY <1>1, <1>3, SwitchTail
<1>6. HostInv'
  BY <1>4 DEF TransportInv, HostInv
<1>7. /\ cPending' \in BOOLEAN
      /\ cAttempt' \in [Attempts -> {"none", "starting", "started", "probed", "gone"}]
      /\ \A b \in Attempts : cAttempt'[b] = cAttempt[b] \/
           (b = a /\ cUdp = NoAttempt /\ cAttempt[b] = "none"
                  /\ cAttempt'[b] \in {"starting", "started", "gone"})
  BY <1>2, <1>3 DEF TransportInv, TypeOK
<1>8. tcpUp' \in Seq(UpMessages) /\ UpInv' /\ ConfirmInv' /\ UpFlow'
  <2>1. CASE cUdp = NoAttempt /\ (tcpUp' = tcpUp \/ tcpUp' = Append(tcpUp, Reply(a)))
    <3>1. udpUp' \in UdpNet(MaxClientData)
      BY <1>1 DEF TransportInv, TypeOK
    <3> QED  BY <3>1, <2>1, <1>1, <1>3, ClientReplies
  <2>2. CASE tcpUp' = tcpUp
    BY <2>2, <1>1, <1>4 DEF TransportInv, TypeOK, UpInv, ConfirmInv, UpFlow
  <2> QED  BY <2>1, <2>2, <1>2
<1>9. TypeOK'
  BY <1>1, <1>3, <1>4, <1>7, <1>8 DEF TransportInv, TypeOK
<1>10. ChoiceInv'
  <2>1. hUdp # NoAttempt => cAttempt'[hUdp] = cAttempt[hUdp]
    BY <1>7 DEF TransportInv, ChoiceInv, TypeOK
  <2> QED  BY <2>1, <1>1, <1>4, <1>7 DEF TransportInv, ChoiceInv
<1>11. DownInv'
  <2>1. /\ hUdp = NoAttempt => \A b \in Attempts : cAttempt'[b] # "none" => cPending'
        /\ cPending => cPending'
    BY <1>1, <1>2, <1>7 DEF TransportInv, DownInv
  <2> QED  BY <2>1, <1>1, <1>4, <1>5 DEF TransportInv, DownInv
<1>12. DownFlow'
  <2>1. PICK t \in 0..hSent :
          /\ Flow(cGot, tcpDown, cHeld, hSent, t)
          /\ hUdp = NoAttempt => t = hSent
          /\ hUdp # NoAttempt /\ ClientEnd(hUdp) =>
               Carries(udpDown[hUdp]["DATA"], t + Len(cHeld), hSent)
    BY <1>1 DEF TransportInv, DownFlow
  <2>2. hSent \in Nat /\ t \in Nat /\ Len(cGot) \in Nat
    BY DEF TransportInv, TypeOK
  <2>3. Flow(cGot, tcpDown', cHeld, hSent, t)
    BY <2>1, <2>2, <1>1, <1>3, FlowTcpSkip
  <2>4. hUdp # NoAttempt => (ClientEnd(hUdp)' <=> ClientEnd(hUdp))
    BY <1>1, <1>4, <1>7 DEF TransportInv, ChoiceInv, TypeOK, ClientEnd
  <2> QED  BY <2>1, <2>3, <2>4, <1>1, <1>4 DEF DownFlow
<1> QED  BY <1>6, <1>8, <1>9, <1>10, <1>11, <1>12 DEF TransportInv

LEMMA ClientAttemptStartedStep ==
    ASSUME TransportInv, NEW a \in Attempts, ClientAttemptStarted(a)
    PROVE  TransportInv'
<1> USE AttemptsAssumption, BoundsAssumption
<1>1. /\ ~cOver /\ cAttempt[a] = "starting"
      /\ cAttempt' = [cAttempt EXCEPT ![a] = "started"]
      /\ tcpUp' = Append(tcpUp, Reply(a))
      /\ cUdp' = cUdp /\ cReady' = cReady /\ cPending' = cPending
      /\ cConfirmed' = cConfirmed /\ cHeld' = cHeld /\ cTcp' = cTcp
      /\ cOver' = cOver /\ cSent' = cSent /\ cGot' = cGot
      /\ tcpDown' = tcpDown /\ udpDown' = udpDown /\ udpUp' = udpUp
      /\ HostUnchanged
  BY ClientLeavesHost DEF ClientAttemptStarted
<1>2. /\ hState' = hState /\ hUdp' = hUdp /\ hPending' = hPending
      /\ hHeld' = hHeld /\ hPeerReady' = hPeerReady /\ hAttempt' = hAttempt
      /\ hPath' = hPath /\ hTcp' = hTcp /\ hOver' = hOver /\ hSent' = hSent
      /\ hGot' = hGot
  BY <1>1 DEF HostUnchanged
<1>3. cUdp = NoAttempt /\ hUdp # a
  BY <1>1 DEF TransportInv, ChoiceInv
<1>4. tcpUp' \in Seq(UpMessages) /\ UpInv' /\ ConfirmInv' /\ UpFlow'
  <2>1. udpUp' \in UdpNet(MaxClientData)
    BY <1>1 DEF TransportInv, TypeOK
  <2> QED  BY <2>1, <1>1, <1>3, ClientReplies
<1>5. TypeOK'
  BY <1>1, <1>2, <1>4 DEF TransportInv, TypeOK
<1>6. HostInv'
  BY <1>2 DEF TransportInv, HostInv
<1>7. ChoiceInv'
  BY <1>1, <1>2, <1>3 DEF TransportInv, ChoiceInv, TypeOK
<1>8. DownInv'
  BY <1>1, <1>2 DEF TransportInv, DownInv, TypeOK
<1>9. DownFlow'
  <2>1. hUdp # NoAttempt => (ClientEnd(hUdp)' <=> ClientEnd(hUdp))
    BY <1>1, <1>2, <1>3 DEF TransportInv, TypeOK, ClientEnd
  <2> QED  BY <2>1, <1>1, <1>2 DEF TransportInv, DownFlow
<1> QED  BY <1>4, <1>5, <1>6, <1>7, <1>8, <1>9 DEF TransportInv

LEMMA ClientAttemptProbedStep ==
    ASSUME TransportInv, NEW a \in Attempts, ClientAttemptProbed(a)
    PROVE  TransportInv'
<1> USE AttemptsAssumption, BoundsAssumption
<1>1. /\ ~cOver /\ cAttempt[a] = "started" /\ udpDown[a]["CONTROL"] # << >>
      /\ cAttempt' = [cAttempt EXCEPT ![a] = "probed"]
      /\ udpDown' = Drop(udpDown, a, "CONTROL")
      /\ udpUp' = Put(udpUp, a, "CONTROL", Ack)
      /\ cUdp' = cUdp /\ cReady' = cReady /\ cPending' = cPending
      /\ cConfirmed' = cConfirmed /\ cHeld' = cHeld /\ cTcp' = cTcp
      /\ cOver' = cOver /\ cSent' = cSent /\ cGot' = cGot
      /\ tcpDown' = tcpDown /\ tcpUp' = tcpUp
      /\ HostUnchanged
  BY ClientLeavesHost DEF ClientAttemptProbed
<1>2. /\ hState' = hState /\ hUdp' = hUdp /\ hPending' = hPending
      /\ hHeld' = hHeld /\ hPeerReady' = hPeerReady /\ hAttempt' = hAttempt
      /\ hPath' = hPath /\ hTcp' = hTcp /\ hOver' = hOver /\ hSent' = hSent
      /\ hGot' = hGot
  BY <1>1 DEF HostUnchanged
<1>3. cUdp = NoAttempt /\ hUdp # a
  BY <1>1 DEF TransportInv, ChoiceInv
<1>4. udpDown \in UdpNet(MaxHostData) /\ udpUp \in UdpNet(MaxClientData)
  BY DEF TransportInv, TypeOK
<1>5. /\ udpDown' \in UdpNet(MaxHostData)
      /\ \A b \in Attempts, d \in Channels :
           udpDown'[b][d] = IF b = a /\ d = "CONTROL" THEN Tail(udpDown[a]["CONTROL"])
                            ELSE udpDown[b][d]
  BY <1>1, <1>4, DropFacts DEF Channels
<1>6. /\ udpUp' \in UdpNet(MaxClientData)
      /\ \A b \in Attempts, d \in Channels :
           udpUp'[b][d] = IF b = a /\ d = "CONTROL" THEN Append(udpUp[a]["CONTROL"], Ack)
                          ELSE udpUp[b][d]
  BY <1>1, <1>4, PutFacts, UdpHead DEF Channels
<1>7. Tail(udpDown[a]["CONTROL"]) = << >>
  <2>1. udpDown[a]["CONTROL"] \in Seq(UdpMessages("CONTROL", MaxHostData))
    BY <1>4, NetFacts DEF Channels
  <2>2. Len(udpDown[a]["CONTROL"]) <= 1
    BY <1>3 DEF TransportInv, ChoiceInv
  <2> QED  BY <2>1, <2>2, <1>1
<1>8. /\ \A b \in Attempts :
           udpDown'[b]["CONTROL"] = IF b = a THEN << >> ELSE udpDown[b]["CONTROL"]
      /\ \A b \in Attempts : udpDown'[b]["PROBE"] = udpDown[b]["PROBE"]
      /\ \A b \in Attempts : udpDown'[b]["DATA"] = udpDown[b]["DATA"]
      /\ \A b \in Attempts : udpUp'[b]["DATA"] = udpUp[b]["DATA"]
      /\ \A b \in Attempts : b # a => udpUp'[b]["CONTROL"] = udpUp[b]["CONTROL"]
  BY <1>5, <1>6, <1>7 DEF Channels
<1>9. \A b \in Attempts : HasSwitch(udpDown'[b]["CONTROL"]) =>
                          HasSwitch(udpDown[b]["CONTROL"])
  BY <1>8, SwitchEmpty
<1>10. tcpUp' \in Seq(UpMessages) /\ UpInv' /\ ConfirmInv' /\ UpFlow'
  BY <1>1, <1>3, <1>6, <1>8, <1>9, ClientReplies
<1>11. /\ cAttempt' \in [Attempts -> {"none", "starting", "started", "probed", "gone"}]
       /\ \A b \in Attempts : cAttempt'[b] = IF b = a THEN "probed" ELSE cAttempt[b]
  BY <1>1 DEF TransportInv, TypeOK
<1>12. TypeOK'
  BY <1>1, <1>2, <1>5, <1>6, <1>10, <1>11 DEF TransportInv, TypeOK
<1>13. HostInv'
  BY <1>2 DEF TransportInv, HostInv
<1>14. ChoiceInv'
  <2>1. hAttempt[a] \notin {"new", "waiting"}
    BY <1>1, <1>3 DEF TransportInv, ChoiceInv
  <2>2. ASSUME NEW b \in Attempts
        PROVE  /\ udpUp'[b]["CONTROL"] # << >> => cAttempt'[b] \in {"probed", "gone"}
               /\ hUdp # b =>
                    /\ udpDown'[b]["PROBE"] = << >> /\ udpDown'[b]["DATA"] = << >>
                    /\ Len(udpDown'[b]["CONTROL"]) <= 1
                    /\ cAttempt'[b] = "probed" => udpDown'[b]["CONTROL"] = << >>
                    /\ hAttempt[b] \in {"new", "waiting"} =>
                         udpDown'[b]["CONTROL"] = << >> /\ cAttempt'[b] # "probed"
    <3>1. CASE b = a
      BY <3>1, <2>1, <1>8, <1>11, Len(<< >>) = 0 DEF TransportInv, ChoiceInv
    <3>2. CASE b # a
      BY <3>2, <1>8, <1>11 DEF TransportInv, ChoiceInv
    <3> QED  BY <3>1, <3>2
  <2>3. hUdp # NoAttempt => cAttempt'[hUdp] = cAttempt[hUdp]
    BY <1>3, <1>11 DEF TransportInv, TypeOK
  <2> QED  BY <2>2, <2>3, <1>1, <1>2, <1>3 DEF TransportInv, ChoiceInv
<1>15. DownInv'
  BY <1>1, <1>2, <1>11 DEF TransportInv, DownInv
<1>16. DownFlow'
  <2>1. hUdp # NoAttempt => (ClientEnd(hUdp)' <=> ClientEnd(hUdp))
    BY <1>1, <1>2, <1>3, <1>11 DEF TransportInv, TypeOK, ClientEnd
  <2>2. hUdp # NoAttempt => udpDown'[hUdp]["DATA"] = udpDown[hUdp]["DATA"]
    BY <1>8 DEF TransportInv, TypeOK
  <2> QED  BY <2>1, <2>2, <1>1, <1>2 DEF TransportInv, DownFlow
<1> QED  BY <1>10, <1>12, <1>13, <1>14, <1>15, <1>16 DEF TransportInv

LEMMA ClientAttemptErrorStep ==
    ASSUME TransportInv, NEW a \in Attempts, ClientAttemptError(a)
    PROVE  TransportInv'
<1> USE AttemptsAssumption, BoundsAssumption
<1>1. /\ ~cOver /\ cAttempt[a] \in {"starting", "started", "probed"}
      /\ cAttempt' = [cAttempt EXCEPT ![a] = "gone"]
      /\ udpDown' = Lose(udpDown, {a})
      /\ cUdp' = cUdp /\ cReady' = cReady /\ cPending' = cPending
      /\ cConfirmed' = cConfirmed /\ cHeld' = cHeld /\ cTcp' = cTcp
      /\ cOver' = cOver /\ cSent' = cSent /\ cGot' = cGot
      /\ tcpDown' = tcpDown /\ tcpUp' = tcpUp /\ udpUp' = udpUp
      /\ HostUnchanged
  BY ClientLeavesHost DEF ClientAttemptError
<1>2. /\ hState' = hState /\ hUdp' = hUdp /\ hPending' = hPending
      /\ hHeld' = hHeld /\ hPeerReady' = hPeerReady /\ hAttempt' = hAttempt
      /\ hPath' = hPath /\ hTcp' = hTcp /\ hOver' = hOver /\ hSent' = hSent
      /\ hGot' = hGot
  BY <1>1 DEF HostUnchanged
<1>3. cUdp = NoAttempt
  BY <1>1 DEF TransportInv, ChoiceInv
<1>4. /\ udpDown' \in UdpNet(MaxHostData)
      /\ \A b \in Attempts, d \in Channels :
           udpDown'[b][d] = IF b \in {a} THEN << >> ELSE udpDown[b][d]
  BY <1>1, LoseFacts DEF TransportInv, TypeOK
<1>5. /\ \A b \in Attempts :
           udpDown'[b]["CONTROL"] = IF b = a THEN << >> ELSE udpDown[b]["CONTROL"]
      /\ \A b \in Attempts :
           udpDown'[b]["PROBE"] = IF b = a THEN << >> ELSE udpDown[b]["PROBE"]
      /\ \A b \in Attempts :
           udpDown'[b]["DATA"] = IF b = a THEN << >> ELSE udpDown[b]["DATA"]
  BY <1>4 DEF Channels
<1>6. \A b \in Attempts : HasSwitch(udpDown'[b]["CONTROL"]) =>
                          HasSwitch(udpDown[b]["CONTROL"])
  BY <1>5, SwitchEmpty
<1>7. tcpUp' \in Seq(UpMessages) /\ UpInv' /\ ConfirmInv' /\ UpFlow'
  <2>1. udpUp' \in UdpNet(MaxClientData)
    BY <1>1 DEF TransportInv, TypeOK
  <2> QED  BY <2>1, <1>1, <1>3, <1>6, ClientReplies
<1>8. /\ cAttempt' \in [Attempts -> {"none", "starting", "started", "probed", "gone"}]
      /\ \A b \in Attempts : cAttempt'[b] = IF b = a THEN "gone" ELSE cAttempt[b]
  BY <1>1 DEF TransportInv, TypeOK
<1>9. TypeOK'
  BY <1>1, <1>2, <1>4, <1>7, <1>8 DEF TransportInv, TypeOK
<1>10. HostInv'
  BY <1>2 DEF TransportInv, HostInv
<1>11. ChoiceInv'
  <2>1. ASSUME NEW b \in Attempts
        PROVE  /\ udpUp'[b]["CONTROL"] # << >> => cAttempt'[b] \in {"probed", "gone"}
               /\ hUdp # b =>
                    /\ udpDown'[b]["PROBE"] = << >> /\ udpDown'[b]["DATA"] = << >>
                    /\ Len(udpDown'[b]["CONTROL"]) <= 1
                    /\ cAttempt'[b] = "probed" => udpDown'[b]["CONTROL"] = << >>
                    /\ hAttempt[b] \in {"new", "waiting"} =>
                         udpDown'[b]["CONTROL"] = << >> /\ cAttempt'[b] # "probed"
    <3>1. CASE b = a
      BY <3>1, <1>5, <1>8, Len(<< >>) = 0
    <3>2. CASE b # a
      BY <3>2, <1>1, <1>5, <1>8 DEF TransportInv, ChoiceInv
    <3> QED  BY <3>1, <3>2
  <2>2. hUdp # NoAttempt => cAttempt'[hUdp] \in {"probed", "gone"}
    BY <1>8 DEF TransportInv, ChoiceInv, TypeOK
  <2> QED  BY <2>1, <2>2, <1>1, <1>2, <1>3 DEF TransportInv, ChoiceInv
<1>12. DownInv'
  BY <1>1, <1>2, <1>8 DEF TransportInv, DownInv
<1>13. DownFlow'
  <2>1. hUdp # NoAttempt /\ ClientEnd(hUdp)' => ClientEnd(hUdp) /\ hUdp # a
    BY <1>1, <1>2, <1>3, <1>8 DEF TransportInv, TypeOK, ClientEnd
  <2>2. hUdp # NoAttempt /\ hUdp # a => udpDown'[hUdp]["DATA"] = udpDown[hUdp]["DATA"]
    BY <1>5 DEF TransportInv, TypeOK
  <2> QED  BY <2>1, <2>2, <1>1, <1>2 DEF TransportInv, DownFlow
<1> QED  BY <1>7, <1>9, <1>10, <1>11, <1>12, <1>13 DEF TransportInv

\* What reaches the client over UDP after a probe comes from the host's choice.
LEMMA ClientTakesFacts ==
    ASSUME TransportInv, NEW a \in Attempts, NEW c \in Channels,
           ClientUdpTakes(a, c), HostUnchanged, cOver' = cOver, udpUp' = udpUp
    PROVE  /\ ~cOver /\ udpDown[a][c] # << >> /\ hUdp = a /\ cUdp' = a /\ ClientEnd(a)
           /\ cAttempt' \in [Attempts -> {"none", "starting", "started", "probed", "gone"}]
           /\ udpDown' \in UdpNet(MaxHostData)
           /\ \A d \in Channels :
                udpDown'[a][d] = IF d = c THEN Tail(udpDown[a][c]) ELSE udpDown[a][d]
           /\ \A b \in Attempts : HasSwitch(udpDown'[b]["CONTROL"]) =>
                                  HasSwitch(udpDown[b]["CONTROL"])
           /\ HostInv' /\ ChoiceInv'
<1> USE AttemptsAssumption, BoundsAssumption
<1> DEFINE net == Drop(udpDown, a, c)
<1>1. /\ hState' = hState /\ hUdp' = hUdp /\ hPeerReady' = hPeerReady
      /\ hAttempt' = hAttempt /\ hPath' = hPath
  BY DEF HostUnchanged
<1>2. /\ ~cOver /\ udpDown[a][c] # << >>
      /\ udpDown' = Lose(net, Attempts \ {a})
      /\ \/ cUdp = a /\ cUdp' = cUdp /\ cAttempt' = cAttempt
         \/ /\ cUdp = NoAttempt /\ cAttempt[a] = "probed" /\ cUdp' = a
            /\ cAttempt' = [b \in Attempts |->
                              IF cAttempt[b] = "none" THEN "none" ELSE "gone"]
  BY DEF ClientUdpTakes
<1>3. hUdp = a
  BY <1>2 DEF TransportInv, ChoiceInv, Channels
<1>4. cUdp' = a /\ ClientEnd(a)
  BY <1>2 DEF ClientEnd
<1>5. /\ cAttempt' \in [Attempts -> {"none", "starting", "started", "probed", "gone"}]
      /\ \A b \in Attempts : cAttempt'[b] \in {"none", "gone"}
      /\ cAttempt'[a] = "gone"
      /\ \A b \in Attempts : cAttempt[b] \in {"probed", "gone"} => cAttempt'[b] = "gone"
  BY <1>2, <1>3 DEF TransportInv, ChoiceInv, TypeOK
<1>6. /\ net \in UdpNet(MaxHostData)
      /\ \A b \in Attempts, d \in Channels :
           net[b][d] = IF b = a /\ d = c THEN Tail(udpDown[a][c]) ELSE udpDown[b][d]
  BY <1>2, DropFacts DEF TransportInv, TypeOK
<1> HIDE DEF net
<1>7. /\ udpDown' \in UdpNet(MaxHostData)
      /\ \A b \in Attempts, d \in Channels :
           udpDown'[b][d] = IF b \in Attempts \ {a} THEN << >> ELSE net[b][d]
  BY <1>2, <1>6, LoseFacts
<1>8. /\ \A d \in Channels :
           udpDown'[a][d] = IF d = c THEN Tail(udpDown[a][c]) ELSE udpDown[a][d]
      /\ \A b \in Attempts, d \in Channels : b # a => udpDown'[b][d] = << >>
  BY <1>6, <1>7
<1>9. \A b \in Attempts : HasSwitch(udpDown'[b]["CONTROL"]) =>
                          HasSwitch(udpDown[b]["CONTROL"])
  <2>1. udpDown[a]["CONTROL"] \in Seq(UdpMessages("CONTROL", MaxHostData))
    BY NetFacts DEF Channels, TransportInv, TypeOK
  <2>2. CASE c = "CONTROL"
    <3>1. udpDown'[a]["CONTROL"] = Tail(udpDown[a]["CONTROL"])
      BY <2>2, <1>8
    <3>2. HasSwitch(udpDown'[a]["CONTROL"]) => HasSwitch(udpDown[a]["CONTROL"])
      BY <3>1, <2>1, <2>2, <1>2, SwitchTail
    <3> QED  BY <3>2, <1>8, SwitchEmpty DEF Channels
  <2>3. CASE c # "CONTROL"
    BY <2>3, <1>8, SwitchEmpty DEF Channels
  <2> QED  BY <2>2, <2>3
<1>10. HostInv'
  BY <1>1 DEF TransportInv, HostInv
<1>11. ChoiceInv'
  <2>1. \A b \in Attempts : b # a =>
          /\ udpDown'[b]["CONTROL"] = << >> /\ udpDown'[b]["PROBE"] = << >>
          /\ udpDown'[b]["DATA"] = << >>
    BY <1>8 DEF Channels
  <2>2. \A b \in Attempts : udpUp'[b]["CONTROL"] # << >> => cAttempt'[b] = "gone"
    BY <1>5 DEF TransportInv, ChoiceInv
  <2>3. \A b \in Attempts : cAttempt'[b] # "probed"
    BY <1>5
  <2>4. hUdp' = a /\ cUdp' = a /\ a # NoAttempt /\ ~cOver'
    BY <1>1, <1>2, <1>3, <1>4
  <2>5. \A b \in Attempts : hUdp' # b => Len(udpDown'[b]["CONTROL"]) <= 1
    BY <2>1, <2>4, Len(<< >>) = 0
  <2>6. \A b \in Attempts : cAttempt'[b] \in {"none", "gone"}
    BY <1>5
  <2> QED  BY <2>1, <2>2, <2>3, <2>4, <2>5, <2>6, <1>5 DEF ChoiceInv
<1> QED  BY <1>2, <1>3, <1>4, <1>5, <1>7, <1>8, <1>9, <1>10, <1>11

LEMMA ClientUdpDataStep ==
    ASSUME TransportInv, NEW a \in Attempts, ClientUdpData(a)
    PROVE  TransportInv'
<1> USE AttemptsAssumption, BoundsAssumption
<1> DEFINE q == udpDown[a]["DATA"]
           n == Head(q).seq
<1>1. /\ ClientUdpTakes(a, "DATA")
      /\ IF cPending THEN cHeld' = Append(cHeld, n) /\ cGot' = cGot
         ELSE cGot' = Append(cGot, n) /\ cHeld' = cHeld
      /\ cReady' = cReady /\ cPending' = cPending /\ cConfirmed' = cConfirmed
      /\ cTcp' = cTcp /\ cOver' = cOver /\ cSent' = cSent
      /\ tcpDown' = tcpDown /\ tcpUp' = tcpUp /\ udpUp' = udpUp
      /\ HostUnchanged
  BY ClientLeavesHost DEF ClientUdpData
<1>2. /\ hState' = hState /\ hUdp' = hUdp /\ hPending' = hPending
      /\ hHeld' = hHeld /\ hPeerReady' = hPeerReady /\ hAttempt' = hAttempt
      /\ hPath' = hPath /\ hTcp' = hTcp /\ hOver' = hOver /\ hSent' = hSent
      /\ hGot' = hGot
  BY <1>1 DEF HostUnchanged
<1>3. "DATA" \in Channels /\ "CONTROL" \in Channels
  BY DEF Channels
<1>4. /\ ~cOver /\ q # << >> /\ hUdp = a /\ cUdp' = a /\ ClientEnd(a)
      /\ cAttempt' \in [Attempts -> {"none", "starting", "started", "probed", "gone"}]
      /\ udpDown' \in UdpNet(MaxHostData) /\ udpDown'[a]["DATA"] = Tail(q)
      /\ \A b \in Attempts : HasSwitch(udpDown'[b]["CONTROL"]) =>
                             HasSwitch(udpDown[b]["CONTROL"])
      /\ HostInv' /\ ChoiceInv'
  BY <1>1, <1>3, ClientTakesFacts
<1>5. q \in Seq(UdpMessages("DATA", MaxHostData))
  BY <1>3, NetFacts DEF TransportInv, TypeOK
<1> HIDE DEF q
<1>6. Head(q) \in UdpMessages("DATA", MaxHostData)
  BY <1>4, <1>5
<1>7. IsData(Head(q)) /\ n \in 1..MaxHostData
  BY <1>6, UdpHead
<1> HIDE DEF n
<1>8. TypeOK'
  <2>1. cGot \in Seq(1..MaxHostData) /\ cHeld \in Seq(1..MaxHostData)
    BY DEF TransportInv, TypeOK
  <2>2. Append(cGot, n) \in Seq(1..MaxHostData) /\ Append(cHeld, n) \in Seq(1..MaxHostData)
    BY <2>1, <1>7
  <2>3. cGot' \in {cGot, Append(cGot, n)} /\ cHeld' \in {cHeld, Append(cHeld, n)}
    BY <1>1
  <2>4. cGot' \in Seq(1..MaxHostData) /\ cHeld' \in Seq(1..MaxHostData)
    BY <2>1, <2>2, <2>3
  <2> QED  BY <2>4, <1>1, <1>2, <1>4 DEF TransportInv, TypeOK
<1>9. ~cPending => tcpDown = << >> /\ cHeld = << >> /\ cHeld' = << >>
  BY <1>1, <1>4 DEF TransportInv, DownInv
<1>10. DownInv'
  BY <1>1, <1>2, <1>4, <1>9 DEF TransportInv, DownInv
<1>11. UpInv' /\ UpFlow'
  BY <1>1, <1>2 DEF TransportInv, UpInv, UpFlow
<1>12. ConfirmInv'
  BY <1>1, <1>2, <1>4 DEF TransportInv, ConfirmInv
<1>13. DownFlow'
  <2>1. PICK t \in 0..hSent :
          Flow(cGot, tcpDown, cHeld, hSent, t) /\ Carries(q, t + Len(cHeld), hSent)
    BY <1>4 DEF TransportInv, DownFlow, q
  <2>2. /\ hSent \in Nat /\ Len(cGot) \in Nat /\ Len(cHeld) \in Nat /\ t \in Nat
        /\ t + Len(cHeld) \in Nat
    BY DEF TransportInv, TypeOK
  <2>3. /\ n = t + Len(cHeld) + 1 /\ t + Len(cHeld) < hSent
        /\ Carries(Tail(q), t + Len(cHeld) + 1, hSent)
    BY <2>1, <2>2, <1>4, <1>5, <1>7, CarriesTail DEF n
  <2>4. CASE cPending
    <3>1. /\ Flow(cGot, tcpDown, Append(cHeld, n), hSent, t)
          /\ Len(Append(cHeld, n)) = Len(cHeld) + 1
      BY <2>1, <2>2, <2>3, FlowHold
    <3>2. /\ Flow(cGot', tcpDown', cHeld', hSent', t)
          /\ t + Len(cHeld') = t + Len(cHeld) + 1
      <4>1. cGot' = cGot /\ tcpDown' = tcpDown /\ cHeld' = Append(cHeld, n) /\ hSent' = hSent
        BY <2>4, <1>1, <1>2
      <4> QED  BY <4>1, <3>1, <2>2
    <3>3. Carries(udpDown'[hUdp']["DATA"], t + Len(cHeld'), hSent')
      BY <3>2, <2>3, <1>2, <1>4
    <3> QED  BY <3>2, <3>3, <1>1, <1>2, <1>4 DEF DownFlow
  <2>5. CASE ~cPending
    <3>1. n = t + 1 /\ t < hSent /\ Carries(Tail(q), t + 1, hSent)
      BY <2>2, <2>3, <2>5, <1>9
    <3>2. Flow(Append(cGot, t + 1), << >>, << >>, hSent, t + 1)
      BY <2>1, <2>2, <2>5, <3>1, <1>9, FlowDeliver
    <3>3. Flow(cGot', tcpDown', cHeld', hSent', t + 1) /\ t + 1 + Len(cHeld') = t + 1
      <4>1. /\ cGot' = Append(cGot, t + 1) /\ tcpDown' = << >> /\ cHeld' = << >>
            /\ hSent' = hSent
        BY <3>1, <2>5, <1>1, <1>2, <1>9
      <4> QED  BY <4>1, <3>2, <2>2
    <3>4. Carries(udpDown'[hUdp']["DATA"], t + 1 + Len(cHeld'), hSent')
      BY <3>1, <3>3, <1>2, <1>4
    <3>5. t + 1 \in 0..hSent
      BY <3>1, <2>2
    <3> QED  BY <3>3, <3>4, <3>5, <1>1, <1>2, <1>4 DEF DownFlow
  <2> QED  BY <2>4, <2>5
<1> QED  BY <1>4, <1>8, <1>10, <1>11, <1>12, <1>13 DEF TransportInv

LEMMA ClientUdpProbeStep ==
    ASSUME TransportInv, NEW a \in Attempts, NEW c \in {"CONTROL", "PROBE"},
           ClientUdpProbe(a, c)
    PROVE  TransportInv'
<1> USE AttemptsAssumption, BoundsAssumption
<1>1. /\ ClientUdpTakes(a, c) /\ cReady' = TRUE
      /\ tcpUp' = IF ~cReady /\ cTcp THEN Append(tcpUp, Switch) ELSE tcpUp
      /\ cPending' = cPending /\ cConfirmed' = cConfirmed /\ cHeld' = cHeld
      /\ cTcp' = cTcp /\ cOver' = cOver /\ cSent' = cSent /\ cGot' = cGot
      /\ tcpDown' = tcpDown /\ udpUp' = udpUp /\ HostUnchanged
  BY ClientLeavesHost DEF ClientUdpProbe
<1>2. /\ hState' = hState /\ hUdp' = hUdp /\ hPending' = hPending
      /\ hHeld' = hHeld /\ hPeerReady' = hPeerReady /\ hAttempt' = hAttempt
      /\ hPath' = hPath /\ hTcp' = hTcp /\ hOver' = hOver /\ hSent' = hSent
      /\ hGot' = hGot
  BY <1>1 DEF HostUnchanged
<1>3. c \in Channels /\ c # "DATA" /\ "DATA" \in Channels
  BY DEF Channels
<1>4. /\ ~cOver /\ hUdp = a /\ cUdp' = a /\ ClientEnd(a)
      /\ cAttempt' \in [Attempts -> {"none", "starting", "started", "probed", "gone"}]
      /\ udpDown' \in UdpNet(MaxHostData)
      /\ udpDown'[a]["DATA"] = udpDown[a]["DATA"]
      /\ \A b \in Attempts : HasSwitch(udpDown'[b]["CONTROL"]) =>
                             HasSwitch(udpDown[b]["CONTROL"])
      /\ HostInv' /\ ChoiceInv'
  BY <1>1, <1>3, ClientTakesFacts
<1>5. ~cReady => cTcp
  BY <1>4 DEF TransportInv, DownInv, ConfirmInv
<1>6. tcpUp \in Seq(UpMessages) /\ Switch \in UpMessages
  BY DEF TransportInv, TypeOK, UpMessages
<1>7. tcpUp' \in Seq(UpMessages)
  BY <1>1, <1>6
<1>8. TypeOK'
  BY <1>1, <1>2, <1>4, <1>7 DEF TransportInv, TypeOK
<1>9. DownInv'
  BY <1>1, <1>2, <1>4 DEF TransportInv, DownInv
<1>10. UpInv'
  <2>1. CASE cReady
    <3>1. tcpUp' = tcpUp
      BY <2>1, <1>1
    <3> QED  BY <3>1, <2>1, <1>1, <1>2 DEF TransportInv, UpInv
  <2>2. CASE ~cReady
    <3>1. tcpUp' = Append(tcpUp, Switch) /\ ~HasSwitch(tcpUp)
      BY <2>2, <1>1, <1>4, <1>5 DEF TransportInv, UpInv
    <3>2. HasSwitch(tcpUp') /\ SwitchIsLast(tcpUp')
      BY <3>1, <1>6, SwitchAppend
    <3>3. hUdp # NoAttempt /\ (~hOver => hPending)
      BY <2>2, <1>4 DEF TransportInv, UpInv
    <3> QED  BY <3>2, <3>3, <1>1, <1>2 DEF UpInv
  <2> QED  BY <2>1, <2>2
<1>11. ConfirmInv'
  BY <1>1, <1>2, <1>4 DEF TransportInv, ConfirmInv
<1>12. DownFlow'
  BY <1>1, <1>2, <1>4 DEF TransportInv, DownFlow
<1>13. UpFlow'
  <2>1. CASE hOver
    BY <2>1, <1>1, <1>2 DEF TransportInv, UpFlow
  <2>2. CASE ~hOver
    <3>1. PICK t \in 0..cSent :
            /\ Flow(hGot, tcpUp, hHeld, cSent, t)
            /\ hUdp = NoAttempt => t = cSent
            /\ hUdp # NoAttempt => Carries(udpUp[hUdp]["DATA"], t + Len(hHeld), cSent)
      BY <2>2 DEF TransportInv, UpFlow
    <3>2. cSent \in Nat /\ t \in Nat /\ Len(hGot) \in Nat
      BY DEF TransportInv, TypeOK
    <3>3. Flow(hGot, Append(tcpUp, Switch), hHeld, cSent, t)
      BY <3>1, <3>2, <1>6, FlowTcpOther, MessageKinds
    <3>4. Flow(hGot, tcpUp', hHeld, cSent, t)
      BY <3>1, <3>3, <1>1
    <3> QED  BY <3>1, <3>4, <2>2, <1>1, <1>2 DEF UpFlow
  <2> QED  BY <2>1, <2>2
<1> QED  BY <1>4, <1>8, <1>9, <1>10, <1>11, <1>12, <1>13 DEF TransportInv

LEMMA ClientUdpSwitchStep ==
    ASSUME TransportInv, NEW a \in Attempts, ClientUdpSwitch(a)
    PROVE  TransportInv'
<1> USE AttemptsAssumption, BoundsAssumption
<1>1. /\ ClientUdpTakes(a, "CONTROL") /\ cConfirmed' = TRUE
      /\ Head(udpDown[a]["CONTROL"]).type = "udp_switch"
      /\ cTcp' = (cTcp /\ ~(TRUE /\ ~cPending))
      /\ cReady' = cReady /\ cPending' = cPending /\ cHeld' = cHeld
      /\ cOver' = cOver /\ cSent' = cSent /\ cGot' = cGot
      /\ tcpDown' = tcpDown /\ tcpUp' = tcpUp /\ udpUp' = udpUp /\ HostUnchanged
  BY ClientLeavesHost DEF ClientUdpSwitch, CloseTcpIfSwitched
<1>2. /\ hState' = hState /\ hUdp' = hUdp /\ hPending' = hPending
      /\ hHeld' = hHeld /\ hPeerReady' = hPeerReady /\ hAttempt' = hAttempt
      /\ hPath' = hPath /\ hTcp' = hTcp /\ hOver' = hOver /\ hSent' = hSent
      /\ hGot' = hGot
  BY <1>1 DEF HostUnchanged
<1>3. "CONTROL" \in Channels /\ "DATA" \in Channels
  BY DEF Channels
<1>4. /\ ~cOver /\ udpDown[a]["CONTROL"] # << >> /\ hUdp = a /\ cUdp' = a /\ ClientEnd(a)
      /\ cAttempt' \in [Attempts -> {"none", "starting", "started", "probed", "gone"}]
      /\ udpDown' \in UdpNet(MaxHostData)
      /\ udpDown'[a]["DATA"] = udpDown[a]["DATA"]
      /\ HostInv' /\ ChoiceInv'
  BY <1>1, <1>3, ClientTakesFacts
<1>5. HasSwitch(udpDown[a]["CONTROL"])
  <2>1. udpDown[a]["CONTROL"] \in Seq(UdpMessages("CONTROL", MaxHostData))
    BY <1>3, NetFacts DEF TransportInv, TypeOK
  <2>2. Head(udpDown[a]["CONTROL"]) \in UdpMessages("CONTROL", MaxHostData)
    BY <2>1, <1>4
  <2>3. Head(udpDown[a]["CONTROL"]) = Switch
    BY <2>2, <1>1, UdpHead
  <2> QED  BY <2>1, <2>3, <1>4, SwitchTail
<1>6. TypeOK'
  BY <1>1, <1>2, <1>4 DEF TransportInv, TypeOK
<1>7. DownInv'
  BY <1>1, <1>2, <1>4 DEF TransportInv, DownInv
<1>8. UpInv' /\ UpFlow'
  BY <1>1, <1>2 DEF TransportInv, UpInv, UpFlow
<1>9. ConfirmInv'
  BY <1>1, <1>2, <1>4, <1>5 DEF TransportInv, ConfirmInv
<1>10. DownFlow'
  BY <1>1, <1>2, <1>4 DEF TransportInv, DownFlow
<1> QED  BY <1>4, <1>6, <1>7, <1>8, <1>9, <1>10 DEF TransportInv

LEMMA ClientTcpDataStep ==
    ASSUME TransportInv, ClientTcpData
    PROVE  TransportInv'
<1> USE AttemptsAssumption, BoundsAssumption
<1>1. /\ ~cOver /\ tcpDown # << >> /\ Head(tcpDown).type = "data"
      /\ tcpDown' = Tail(tcpDown) /\ cGot' = Append(cGot, Head(tcpDown).seq)
      /\ cUdp' = cUdp /\ cReady' = cReady /\ cPending' = cPending
      /\ cConfirmed' = cConfirmed /\ cHeld' = cHeld /\ cAttempt' = cAttempt
      /\ cTcp' = cTcp /\ cOver' = cOver /\ cSent' = cSent
      /\ tcpUp' = tcpUp /\ udpDown' = udpDown /\ udpUp' = udpUp /\ HostUnchanged
  BY ClientLeavesHost DEF ClientTcpData, ClientTcpHead
<1>2. /\ hState' = hState /\ hUdp' = hUdp /\ hPending' = hPending
      /\ hHeld' = hHeld /\ hPeerReady' = hPeerReady /\ hAttempt' = hAttempt
      /\ hPath' = hPath /\ hTcp' = hTcp /\ hOver' = hOver /\ hSent' = hSent
      /\ hGot' = hGot
  BY <1>1 DEF HostUnchanged
<1>3. /\ tcpDown \in Seq(DownMessages) /\ tcpDown' \in Seq(DownMessages)
      /\ IsData(Head(tcpDown)) /\ Head(tcpDown) # Switch
      /\ Head(tcpDown).seq \in 1..MaxHostData
  <2>1. tcpDown \in Seq(DownMessages) /\ Head(tcpDown) \in DownMessages
    BY <1>1 DEF TransportInv, TypeOK
  <2>2. "data" # "udp_switch"
    OBVIOUS
  <2> QED  BY <2>1, <2>2, <1>1, DownHead
<1>4. /\ HasSwitch(tcpDown') <=> HasSwitch(tcpDown)
      /\ SwitchIsLast(tcpDown) => SwitchIsLast(tcpDown')
  BY <1>1, <1>3, SwitchTail
<1>5. cGot' \in Seq(1..MaxHostData)
  BY <1>1, <1>3 DEF TransportInv, TypeOK
<1>6. TypeOK'
  BY <1>1, <1>2, <1>3, <1>5 DEF TransportInv, TypeOK
<1>7. HostInv' /\ ChoiceInv'
  BY <1>1, <1>2 DEF TransportInv, HostInv, ChoiceInv
<1>8. DownInv'
  BY <1>1, <1>2, <1>4 DEF TransportInv, DownInv
<1>9. UpInv' /\ ConfirmInv' /\ UpFlow'
  BY <1>1, <1>2 DEF TransportInv, UpInv, ConfirmInv, UpFlow
<1>10. DownFlow'
  <2>1. PICK t \in 0..hSent :
          /\ Flow(cGot, tcpDown, cHeld, hSent, t)
          /\ hUdp = NoAttempt => t = hSent
          /\ hUdp # NoAttempt /\ ClientEnd(hUdp) =>
               Carries(udpDown[hUdp]["DATA"], t + Len(cHeld), hSent)
    BY <1>1 DEF TransportInv, DownFlow
  <2>2. hSent \in Nat /\ t \in Nat /\ Len(cGot) \in Nat
    BY DEF TransportInv, TypeOK
  <2>3. Flow(cGot', tcpDown', cHeld, hSent, t)
    BY <2>1, <2>2, <1>1, <1>3, FlowTcpData
  <2>4. ClientEnd(hUdp)' <=> ClientEnd(hUdp)
    BY <1>1, <1>2 DEF ClientEnd
  <2> QED  BY <2>1, <2>3, <2>4, <1>1, <1>2 DEF DownFlow
<1> QED  BY <1>6, <1>7, <1>8, <1>9, <1>10 DEF TransportInv

LEMMA ClientReadUdpSwitchStep ==
    ASSUME TransportInv, ClientReadUdpSwitch
    PROVE  TransportInv'
<1> USE AttemptsAssumption, BoundsAssumption
<1>1. /\ ~cOver /\ cTcp /\ tcpDown # << >> /\ Head(tcpDown).type = "udp_switch"
      /\ tcpDown' = Tail(tcpDown) /\ cPending' = FALSE
      /\ cGot' = cGot \o cHeld /\ cHeld' = << >>
      /\ cTcp' = (cTcp /\ ~(cConfirmed /\ ~FALSE))
      /\ cUdp' = cUdp /\ cReady' = cReady /\ cConfirmed' = cConfirmed
      /\ cAttempt' = cAttempt /\ cOver' = cOver /\ cSent' = cSent
      /\ tcpUp' = tcpUp /\ udpDown' = udpDown /\ udpUp' = udpUp /\ HostUnchanged
  BY ClientLeavesHost DEF ClientReadUdpSwitch, ClientTcpHead, CloseTcpIfSwitched
<1>2. /\ hState' = hState /\ hUdp' = hUdp /\ hPending' = hPending
      /\ hHeld' = hHeld /\ hPeerReady' = hPeerReady /\ hAttempt' = hAttempt
      /\ hPath' = hPath /\ hTcp' = hTcp /\ hOver' = hOver /\ hSent' = hSent
      /\ hGot' = hGot
  BY <1>1 DEF HostUnchanged
<1>3. tcpDown \in Seq(DownMessages) /\ Head(tcpDown) = Switch /\ ~IsData(Head(tcpDown))
  <2>1. tcpDown \in Seq(DownMessages) /\ Head(tcpDown) \in DownMessages
    BY <1>1 DEF TransportInv, TypeOK
  <2> QED  BY <2>1, <1>1, DownHead, MessageKinds
<1>4. HasSwitch(tcpDown)
  BY <1>1, <1>3, SwitchTail
<1>5. hUdp # NoAttempt /\ SwitchIsLast(tcpDown)
  BY <1>1, <1>4 DEF TransportInv, DownInv
<1>6. Tail(tcpDown) = << >>
  BY <1>1, <1>3, <1>5, SwitchTail
<1>7. TypeOK'
  <2>1. cGot' \in Seq(1..MaxHostData) /\ cHeld' \in Seq(1..MaxHostData)
    BY <1>1, ConcatProperties DEF TransportInv, TypeOK
  <2>2. tcpDown' \in Seq(DownMessages)
    BY <1>1, <1>3
  <2> QED  BY <2>1, <2>2, <1>1, <1>2 DEF TransportInv, TypeOK
<1>8. HostInv' /\ ChoiceInv'
  BY <1>1, <1>2 DEF TransportInv, HostInv, ChoiceInv
<1>9. DownInv'
  BY <1>1, <1>2, <1>5, <1>6 DEF TransportInv, DownInv
<1>10. UpInv' /\ ConfirmInv' /\ UpFlow'
  BY <1>1, <1>2 DEF TransportInv, UpInv, ConfirmInv, UpFlow
<1>11. DownFlow'
  <2>1. PICK t \in 0..hSent :
          /\ Flow(cGot, tcpDown, cHeld, hSent, t)
          /\ ClientEnd(hUdp) => Carries(udpDown[hUdp]["DATA"], t + Len(cHeld), hSent)
    BY <1>1, <1>5 DEF TransportInv, DownFlow
  <2>2. hSent \in Nat /\ t \in Nat /\ Len(cGot) \in Nat /\ Len(cHeld) \in Nat
    BY DEF TransportInv, TypeOK
  <2>3. Flow(cGot', tcpDown', cHeld', hSent, t + Len(cHeld))
    <3>1. tcpDown # << >>
      BY <1>1
    <3>2. Flow(cGot \o cHeld, << >>, << >>, hSent, t + Len(cHeld))
      BY <3>1, <2>1, <2>2, <1>3, <1>6, FlowSwitch
    <3>3. cGot' = cGot \o cHeld /\ tcpDown' = << >> /\ cHeld' = << >>
      BY <1>1, <1>6
    <3> QED  BY <3>2, <3>3
  <2>4. /\ t + Len(cHeld) \in 0..hSent
        /\ t + Len(cHeld) + Len(cHeld') = t + Len(cHeld)
    BY <2>1, <2>2, <1>1 DEF Flow
  <2>5. ClientEnd(hUdp)' <=> ClientEnd(hUdp)
    BY <1>1, <1>2 DEF ClientEnd
  <2> QED  BY <2>1, <2>3, <2>4, <2>5, <1>1, <1>2, <1>5 DEF DownFlow
<1> QED  BY <1>7, <1>8, <1>9, <1>10, <1>11 DEF TransportInv

LEMMA ClientSendStep ==
    ASSUME TransportInv, ClientSend
    PROVE  TransportInv'
<1> USE AttemptsAssumption, BoundsAssumption
<1> DEFINE m == Data(cSent + 1)
           net == Put(udpUp, cUdp, "DATA", m)
<1>1. /\ ~cOver /\ cSent < MaxClientData /\ cSent' = cSent + 1
      /\ \/ cReady /\ udpUp' = net /\ tcpUp' = tcpUp
         \/ ~cReady /\ tcpUp' = Append(tcpUp, m) /\ udpUp' = udpUp
      /\ cUdp' = cUdp /\ cReady' = cReady /\ cPending' = cPending
      /\ cConfirmed' = cConfirmed /\ cHeld' = cHeld /\ cAttempt' = cAttempt
      /\ cTcp' = cTcp /\ cOver' = cOver /\ cGot' = cGot
      /\ tcpDown' = tcpDown /\ udpDown' = udpDown /\ HostUnchanged
  BY ClientLeavesHost DEF ClientSend
<1>2. /\ hState' = hState /\ hUdp' = hUdp /\ hPending' = hPending
      /\ hHeld' = hHeld /\ hPeerReady' = hPeerReady /\ hAttempt' = hAttempt
      /\ hPath' = hPath /\ hTcp' = hTcp /\ hOver' = hOver /\ hSent' = hSent
      /\ hGot' = hGot
  BY <1>1 DEF HostUnchanged
<1>3. /\ cSent \in Nat /\ cSent + 1 \in 1..MaxClientData /\ cSent' \in 0..MaxClientData
      /\ Len(hGot) \in Nat /\ Len(hHeld) \in Nat
      /\ tcpUp \in Seq(UpMessages) /\ udpUp \in UdpNet(MaxClientData)
  BY <1>1 DEF TransportInv, TypeOK
<1>4. m \in UpMessages /\ m \in UdpMessages("DATA", MaxClientData) /\ m # Switch
  BY <1>3, UdpHead, MessageKinds DEF UpMessages
<1>5. DownInv' /\ DownFlow'
  BY <1>1, <1>2 DEF TransportInv, DownInv, DownFlow, ClientEnd
<1>6. HostInv'
  BY <1>2 DEF TransportInv, HostInv
<1>7. CASE cReady
  <2>1. udpUp' = net /\ tcpUp' = tcpUp
    BY <1>1, <1>7
  <2>2. cUdp \in Attempts /\ hUdp = cUdp
    BY <1>7 DEF TransportInv, ChoiceInv, TypeOK
  <2>3. /\ net \in UdpNet(MaxClientData)
        /\ \A b \in Attempts, d \in Channels :
             net[b][d] = IF b = cUdp /\ d = "DATA" THEN Append(udpUp[cUdp]["DATA"], m)
                         ELSE udpUp[b][d]
    BY <2>2, <1>3, <1>4, PutFacts DEF Channels
  <2> HIDE DEF net
  <2>4. /\ \A b \in Attempts : udpUp'[b]["CONTROL"] = udpUp[b]["CONTROL"]
        /\ udpUp'[hUdp]["DATA"] = Append(udpUp[hUdp]["DATA"], m)
    BY <2>1, <2>2, <2>3 DEF Channels
  <2>5. TypeOK'
    BY <2>1, <2>3, <1>1, <1>2, <1>3 DEF TransportInv, TypeOK
  <2>6. ChoiceInv'
    BY <2>4, <1>1, <1>2 DEF TransportInv, ChoiceInv
  <2>7. UpInv'
    BY <2>1, <2>2, <1>1, <1>2, <1>7 DEF TransportInv, UpInv
  <2>8. ConfirmInv'
    BY <2>1, <1>1, <1>2 DEF TransportInv, ConfirmInv
  <2>9. UpFlow'
    <3>1. CASE hOver
      BY <3>1, <1>1, <1>2, <1>3 DEF TransportInv, UpFlow
    <3>2. CASE ~hOver
      <4>1. PICK t \in 0..cSent :
              /\ Flow(hGot, tcpUp, hHeld, cSent, t)
              /\ Carries(udpUp[hUdp]["DATA"], t + Len(hHeld), cSent)
        BY <3>2, <2>2 DEF TransportInv, UpFlow
      <4>2. t \in Nat /\ t + Len(hHeld) \in Nat /\ t \in 0..cSent'
        BY <1>1, <1>3
      <4>3. Flow(hGot, tcpUp, hHeld, cSent + 1, t)
        BY <4>1, <4>2, <1>3, FlowUdpSend
      <4>4. udpUp[hUdp]["DATA"] \in Seq(UdpMessages("DATA", MaxClientData))
        BY <2>2, <1>3, NetFacts DEF Channels
      <4>5. Carries(udpUp'[hUdp]["DATA"], t + Len(hHeld), cSent + 1)
        BY <4>1, <4>2, <4>4, <2>4, <1>3, <1>4, CarriesAppendData
      <4> QED  BY <4>2, <4>3, <4>5, <3>2, <2>1, <2>2, <1>1, <1>2 DEF UpFlow
    <3> QED  BY <3>1, <3>2
  <2> QED  BY <2>5, <2>6, <2>7, <2>8, <2>9, <1>5, <1>6 DEF TransportInv
<1>8. CASE ~cReady
  <2>1. tcpUp' = Append(tcpUp, m) /\ udpUp' = udpUp
    BY <1>1, <1>8
  <2>2. ~HasSwitch(tcpUp)
    BY <1>1, <1>8 DEF TransportInv, UpInv
  <2>3. ~HasSwitch(tcpUp') /\ SwitchIsLast(tcpUp') /\ tcpUp' \in Seq(UpMessages)
    BY <2>1, <2>2, <1>3, <1>4, SwitchAppend
  <2>4. ~hOver => /\ hUdp = NoAttempt \/ hPending
                  /\ hHeld = << >> /\ \A b \in Attempts : udpUp[b]["DATA"] = << >>
    BY <2>2, <1>1, <1>8 DEF TransportInv, UpInv
  <2>5. TypeOK'
    BY <2>1, <2>3, <1>1, <1>2, <1>3 DEF TransportInv, TypeOK
  <2>6. ChoiceInv'
    BY <2>1, <1>1, <1>2 DEF TransportInv, ChoiceInv
  <2>7. UpInv'
    BY <2>1, <2>3, <2>4, <1>1, <1>2, <1>8 DEF UpInv
  <2>8. ConfirmInv'
    BY <1>1, <1>2, <1>8 DEF TransportInv, ConfirmInv
  <2>9. UpFlow'
    <3>1. CASE hOver
      BY <3>1, <1>1, <1>2, <1>3 DEF TransportInv, UpFlow
    <3>2. CASE ~hOver
      <4>1. PICK t \in 0..cSent :
              /\ Flow(hGot, tcpUp, hHeld, cSent, t)
              /\ hUdp = NoAttempt => t = cSent
              /\ hUdp # NoAttempt => Carries(udpUp[hUdp]["DATA"], t + Len(hHeld), cSent)
        BY <3>2 DEF TransportInv, UpFlow
      <4>2. t \in Nat /\ t + Len(hHeld) = t
        BY <3>2, <2>4, <1>3
      <4>3. hUdp # NoAttempt => hUdp \in Attempts /\ udpUp[hUdp]["DATA"] = << >>
        BY <3>2, <2>4 DEF TransportInv, TypeOK
      <4>4. t = cSent
        BY <4>1, <4>2, <4>3, <1>3, CarriesEmpty
      <4>5. Flow(hGot, Append(tcpUp, m), << >>, cSent + 1, cSent + 1)
        BY <4>1, <4>4, <3>2, <2>4, <1>3, <1>4, FlowTcpSend
      <4>6. Flow(hGot', tcpUp', hHeld', cSent', cSent') /\ cSent' + Len(hHeld') = cSent'
        BY <4>5, <3>2, <2>1, <2>4, <1>1, <1>2, <1>3
      <4>7. cSent' \in Nat /\ cSent' \in 0..cSent'
        BY <1>1, <1>3
      <4>8. hUdp # NoAttempt => Carries(udpUp'[hUdp]["DATA"], cSent', cSent')
        BY <4>3, <4>7, <2>1, CarriesEmpty
      <4> QED  BY <4>6, <4>7, <4>8, <3>2, <1>1, <1>2 DEF UpFlow
    <3> QED  BY <3>1, <3>2
  <2> QED  BY <2>5, <2>6, <2>7, <2>8, <2>9, <1>5, <1>6 DEF TransportInv
<1> QED  BY <1>7, <1>8

LEMMA ConnectionLostStep ==
    ASSUME TransportInv, ~cOver, ConnectionLost
    PROVE  TransportInv'
<1> USE AttemptsAssumption, BoundsAssumption
<1>1. /\ cOver' = TRUE /\ cTcp' = FALSE /\ cReady' = FALSE
      /\ cConfirmed' = FALSE /\ cHeld' = << >> /\ cUdp' = NoAttempt
      /\ cAttempt' = [a \in Attempts |-> "gone"]
      /\ tcpDown' = << >> /\ udpDown' = NoPackets
      /\ cPending' = cPending /\ cSent' = cSent /\ cGot' = cGot
      /\ tcpUp' = tcpUp /\ udpUp' = udpUp /\ HostUnchanged
  BY ClientLeavesHost DEF ConnectionLost
<1>2. /\ hState' = hState /\ hUdp' = hUdp /\ hPending' = hPending
      /\ hHeld' = hHeld /\ hPeerReady' = hPeerReady /\ hAttempt' = hAttempt
      /\ hPath' = hPath /\ hTcp' = hTcp /\ hOver' = hOver /\ hSent' = hSent
      /\ hGot' = hGot
  BY <1>1 DEF HostUnchanged
<1>3. /\ NoPackets \in UdpNet(MaxHostData)
      /\ \A b \in Attempts : /\ NoPackets[b]["CONTROL"] = << >>
                             /\ NoPackets[b]["PROBE"] = << >>
                             /\ NoPackets[b]["DATA"] = << >>
  BY NoPacketsFacts DEF Channels
<1> HIDE DEF NoPackets
<1>4. TypeOK'
  <2>1. tcpDown' \in Seq(DownMessages) /\ cHeld' \in Seq(1..MaxHostData)
    BY <1>1
  <2> QED  BY <2>1, <1>1, <1>2, <1>3 DEF TransportInv, TypeOK
<1>5. HostInv'
  BY <1>2 DEF TransportInv, HostInv
<1>6. ChoiceInv'
  <2>1. hUdp # NoAttempt => hUdp \in Attempts
    BY DEF TransportInv, TypeOK
  <2>2. \A b \in Attempts : Len(udpDown'[b]["CONTROL"]) <= 1
    BY <1>1, <1>3, Len(<< >>) = 0
  <2> QED  BY <2>1, <2>2, <1>1, <1>2, <1>3 DEF ChoiceInv
<1>7. DownInv'
  BY <1>1, SwitchEmpty DEF DownInv
<1>8. UpInv' /\ UpFlow'
  BY <1>1, <1>2 DEF TransportInv, UpInv, UpFlow
<1>9. ConfirmInv'
  BY <1>1 DEF ConfirmInv
<1>10. DownFlow'
  <2>1. PICK t \in 0..hSent : Flow(cGot, tcpDown, cHeld, hSent, t)
    BY DEF TransportInv, DownFlow
  <2>2. hSent \in Nat /\ t \in Nat /\ Len(cGot) \in Nat /\ Len(cHeld) \in Nat
    BY DEF TransportInv, TypeOK
  <2>3. cGot = Run(0, Len(cGot)) /\ Len(cGot) <= hSent
    BY <2>1, <2>2, FlowPrefix
  <2> QED  BY <2>3, <1>1, <1>2 DEF DownFlow
<1> QED  BY <1>4, <1>5, <1>6, <1>7, <1>8, <1>9, <1>10 DEF TransportInv

LEMMA ClientUdpErrorStep ==
    ASSUME TransportInv, ClientUdpError
    PROVE  TransportInv'
<1> USE AttemptsAssumption, BoundsAssumption
<1>1. CASE cReady
  BY <1>1, ConnectionLostStep DEF ClientUdpError
<1>2. CASE ~cReady
  <2>1. /\ ~cOver /\ cUdp # NoAttempt /\ cUdp' = NoAttempt
        /\ cReady' = cReady /\ cPending' = cPending /\ cConfirmed' = cConfirmed
        /\ cHeld' = cHeld /\ cAttempt' = cAttempt /\ cTcp' = cTcp
        /\ cOver' = cOver /\ cSent' = cSent /\ cGot' = cGot
        /\ tcpDown' = tcpDown /\ tcpUp' = tcpUp /\ udpDown' = udpDown
        /\ udpUp' = udpUp /\ HostUnchanged
    BY <1>2, ClientLeavesHost DEF ClientUdpError, netVars
  <2>2. /\ hState' = hState /\ hUdp' = hUdp /\ hPending' = hPending
        /\ hHeld' = hHeld /\ hPeerReady' = hPeerReady /\ hAttempt' = hAttempt
        /\ hPath' = hPath /\ hTcp' = hTcp /\ hOver' = hOver /\ hSent' = hSent
        /\ hGot' = hGot
    BY <2>1 DEF HostUnchanged
  <2>3. TypeOK'
    BY <2>1, <2>2 DEF TransportInv, TypeOK
  <2>4. HostInv' /\ ChoiceInv'
    BY <2>1, <2>2, <1>2 DEF TransportInv, HostInv, ChoiceInv
  <2>5. DownInv' /\ UpInv' /\ ConfirmInv' /\ UpFlow'
    BY <2>1, <2>2 DEF TransportInv, DownInv, UpInv, ConfirmInv, UpFlow
  <2>6. DownFlow'
    <3>1. hUdp = cUdp /\ cAttempt[hUdp] = "gone"
      BY <2>1 DEF TransportInv, ChoiceInv, TypeOK
    <3>2. hUdp # NoAttempt => ~ClientEnd(hUdp)'
      BY <3>1, <2>1, <2>2 DEF ClientEnd
    <3> QED  BY <3>2, <2>1, <2>2 DEF TransportInv, DownFlow
  <2> QED  BY <2>3, <2>4, <2>5, <2>6 DEF TransportInv
<1> QED  BY <1>1, <1>2

LEMMA TransportStutter ==
    ASSUME TransportInv, UNCHANGED vars
    PROVE  TransportInv'
<1>1. HostUnchanged
  BY ClientLeavesHost DEF vars
<1>2. UNCHANGED <<cUdp, cReady, cPending, cConfirmed, cHeld, cAttempt, cTcp,
                  cOver, cSent, cGot, tcpDown, tcpUp, udpDown, udpUp>>
  BY DEF vars, clientVars, netVars
<1>3. TypeOK'
  BY <1>1, <1>2 DEF TransportInv, TypeOK, HostUnchanged
<1>4. HostInv' /\ ChoiceInv' /\ DownInv'
  BY <1>1, <1>2 DEF TransportInv, HostInv, ChoiceInv, DownInv, HostUnchanged
<1>5. UpInv' /\ ConfirmInv'
  BY <1>1, <1>2 DEF TransportInv, UpInv, ConfirmInv, HostUnchanged
<1>6. DownFlow' /\ UpFlow'
  BY <1>1, <1>2 DEF TransportInv, DownFlow, UpFlow, ClientEnd, HostUnchanged
<1> QED  BY <1>3, <1>4, <1>5, <1>6 DEF TransportInv

LEMMA TransportStep ==
    ASSUME TransportInv, [Next]_vars
    PROVE  TransportInv'
<1>1. CASE HostNext
  <2>1. ASSUME NEW a \in Attempts, HostAnnounce(a) PROVE TransportInv'
    BY <2>1, HostAnnounceStep
  <2>2. ASSUME NEW a \in Attempts, HostChannelReady(a) PROVE TransportInv'
    BY <2>2, HostChannelReadyStep
  <2>3. ASSUME NEW a \in Attempts, HostAttemptError(a) PROVE TransportInv'
    BY <2>3, HostAttemptErrorStep
  <2>4. ASSUME NEW a \in Attempts, HostAttemptAck(a) PROVE TransportInv'
    BY <2>4, HostAttemptAckStep
  <2>5. CASE HostReadUdpReply   BY <2>5, HostReadUdpReplyStep
  <2>6. CASE HostTcpData        BY <2>6, HostTcpDataStep
  <2>7. CASE HostReadUdpSwitch  BY <2>7, HostReadUdpSwitchStep
  <2>8. CASE HostUdpData        BY <2>8, HostUdpDataStep
  <2>9. CASE HostSend           BY <2>9, HostSendStep
  <2>10. CASE HostStop          BY <2>10, HostFinishStep DEF HostStop
  <2>11. CASE HostTcpError      BY <2>11, HostTcpErrorStep
  <2>12. CASE HostUdpError      BY <2>12, HostUdpErrorStep
  <2> QED  BY <1>1, <2>1, <2>2, <2>3, <2>4, <2>5, <2>6, <2>7, <2>8, <2>9,
              <2>10, <2>11, <2>12 DEF HostNext, HostReceives
<1>2. CASE ClientNext
  <2>1. ASSUME NEW a \in Attempts, ClientAttemptStarted(a) PROVE TransportInv'
    BY <2>1, ClientAttemptStartedStep
  <2>2. ASSUME NEW a \in Attempts, ClientAttemptError(a) PROVE TransportInv'
    BY <2>2, ClientAttemptErrorStep
  <2>3. ASSUME NEW a \in Attempts, ClientAttemptProbed(a) PROVE TransportInv'
    BY <2>3, ClientAttemptProbedStep
  <2>4. ASSUME NEW a \in Attempts, ClientUdpData(a) PROVE TransportInv'
    BY <2>4, ClientUdpDataStep
  <2>5. ASSUME NEW a \in Attempts, ClientUdpSwitch(a) PROVE TransportInv'
    BY <2>5, ClientUdpSwitchStep
  <2>6. ASSUME NEW a \in Attempts, NEW c \in {"CONTROL", "PROBE"},
               ClientUdpProbe(a, c)
        PROVE  TransportInv'
    BY <2>6, ClientUdpProbeStep
  <2>7. CASE ClientReadUdpRequest  BY <2>7, ClientReadUdpRequestStep
  <2>8. CASE ClientTcpData         BY <2>8, ClientTcpDataStep
  <2>9. CASE ClientReadUdpSwitch   BY <2>9, ClientReadUdpSwitchStep
  <2>10. CASE ClientSend           BY <2>10, ClientSendStep
  <2>11. CASE ClientStop           BY <2>11, ConnectionLostStep DEF ClientStop
  <2>12. CASE ClientTcpError       BY <2>12, ConnectionLostStep DEF ClientTcpError
  <2>13. CASE ClientUdpError       BY <2>13, ClientUdpErrorStep
  <2> QED  BY <1>2, <2>1, <2>2, <2>3, <2>4, <2>5, <2>6, <2>7, <2>8, <2>9,
              <2>10, <2>11, <2>12, <2>13 DEF ClientNext, ClientReceives
<1>3. CASE UNCHANGED vars
  BY <1>3, TransportStutter
<1> QED  BY <1>1, <1>2, <1>3 DEF Next

------------------------------------------------------------------------------
(* The theorems                                                            *)

\* Every step of the host and the client keeps the messages of both
\* directions in their places, and only messages the handlers know are on
\* the way.
THEOREM TransportInvariant == Spec => []TransportInv
<1>1. Init => TransportInv
  BY TransportInit
<1>2. TransportInv /\ [Next]_vars => TransportInv'
  BY TransportStep
<1> QED  BY <1>1, <1>2, PTL DEF Spec

\* The transport keeps to its types: a handler meets only messages it knows.
THEOREM TypeCorrect == Spec => []TypeOK
<1>1. TransportInv => TypeOK
  BY DEF TransportInv
<1> QED  BY <1>1, TransportInvariant, PTL

\* selectAttempt() of the client never takes another attempt than
\* selectAttempt() of the host, for any number of attempts.
THEOREM OneAttemptForBoth == Spec => []SameAttempt
<1>1. TransportInv => SameAttempt
  BY DEF TransportInv, ChoiceInv, SameAttempt
<1> QED  BY <1>1, TransportInvariant, PTL

LEMMA InvMeansInOrder ==
    ASSUME TransportInv, Intact
    PROVE  /\ InOrder(cGot, tcpDown, cHeld, UserPackets(udpDown, hUdp), hSent)
           /\ InOrder(hGot, tcpUp, hHeld, UserPackets(udpUp, cUdp), cSent)
<1> USE AttemptsAssumption, BoundsAssumption
<1>1. /\ hSent \in Nat /\ cSent \in Nat /\ Len(cHeld) \in Nat /\ Len(hHeld) \in Nat
      /\ hUdp # NoAttempt => hUdp \in Attempts
  BY DEF TransportInv, TypeOK
<1>2. ~cOver /\ ~hOver /\ (hUdp # NoAttempt => ClientEnd(hUdp))
  BY DEF Intact
<1>3. InOrder(cGot, tcpDown, cHeld, UserPackets(udpDown, hUdp), hSent)
  <2>1. PICK t \in 0..hSent :
          /\ Flow(cGot, tcpDown, cHeld, hSent, t)
          /\ hUdp = NoAttempt => t = hSent
          /\ hUdp # NoAttempt => Carries(udpDown[hUdp]["DATA"], t + Len(cHeld), hSent)
    BY <1>2 DEF TransportInv, DownFlow
  <2>2. Carries(UserPackets(udpDown, hUdp), t + Len(cHeld), hSent)
    <3>1. CASE hUdp = NoAttempt
      <4>1. t + Len(cHeld) = hSent
        BY <3>1, <2>1, <1>1 DEF Flow
      <4>2. Carries(<< >>, hSent, hSent)
        BY <1>1, CarriesEmpty
      <4> QED  BY <3>1, <4>1, <4>2 DEF UserPackets
    <3>2. CASE hUdp # NoAttempt
      BY <3>2, <2>1 DEF UserPackets
    <3> QED  BY <3>1, <3>2
  <2> QED  BY <2>1, <2>2 DEF Flow, InOrder
<1>4. InOrder(hGot, tcpUp, hHeld, UserPackets(udpUp, cUdp), cSent)
  <2>1. PICK t \in 0..cSent :
          /\ Flow(hGot, tcpUp, hHeld, cSent, t)
          /\ hUdp = NoAttempt => t = cSent
          /\ hUdp # NoAttempt => Carries(udpUp[hUdp]["DATA"], t + Len(hHeld), cSent)
    BY <1>2 DEF TransportInv, UpFlow
  <2>2. Carries(UserPackets(udpUp, cUdp), t + Len(hHeld), cSent)
    <3>1. CASE cUdp # NoAttempt
      <4>1. cUdp = hUdp
        BY <3>1 DEF TransportInv, ChoiceInv
      <4> QED  BY <3>1, <4>1, <2>1 DEF UserPackets
    <3>2. CASE cUdp = NoAttempt
      <4>1. ~cReady
        BY <3>2 DEF TransportInv, ChoiceInv
      <4>2. ~HasSwitch(tcpUp) /\ (hUdp = NoAttempt \/ hPending)
        BY <4>1, <1>2 DEF TransportInv, UpInv
      <4>3. hUdp # NoAttempt => udpUp[hUdp]["DATA"] = << >>
        BY <4>2, <1>1, <1>2 DEF TransportInv, UpInv
      <4>4. t + Len(hHeld) \in Nat
        BY <1>1
      <4>5. t + Len(hHeld) = cSent
        <5>1. CASE hUdp = NoAttempt
          BY <5>1, <2>1, <1>1 DEF Flow
        <5>2. CASE hUdp # NoAttempt
          BY <5>2, <4>3, <4>4, <2>1, <1>1, CarriesEmpty
        <5> QED  BY <5>1, <5>2
      <4>6. Carries(<< >>, cSent, cSent)
        BY <1>1, CarriesEmpty
      <4> QED  BY <3>2, <4>5, <4>6 DEF UserPackets
    <3> QED  BY <3>1, <3>2
  <2> QED  BY <2>1, <2>2 DEF Flow, InOrder
<1> QED  BY <1>3, <1>4

\* No user message is lost, repeated or overtaken while both ends live, for
\* any number of messages and attempts: held_udp_messages_ and the switch as
\* the last word on TCP are enough.
THEOREM NoMessageMissing == Spec => []NothingMissing
<1>1. TransportInv => NothingMissing
  BY InvMeansInOrder DEF NothingMissing
<1> QED  BY <1>1, TransportInvariant, PTL

\* closeTcpIfSwitched() closes TCP only when it is spent in both directions
\* and the host expects its end.
THEOREM ClosesOnlySpentTcp == Spec => []ClosedTcpIsSpent
<1>1. TransportInv => ClosedTcpIsSpent
  <2> SUFFICES ASSUME TransportInv, ~cTcp, ~cOver
               PROVE  /\ tcpDown = << >> /\ tcpUp = << >>
                      /\ hState = "READY" /\ ~hPending /\ hHeld = << >>
    BY Len(<< >>) = 0 DEF ClosedTcpIsSpent
  <2>1. cConfirmed /\ ~cPending
    BY DEF TransportInv, DownInv
  <2>2. hUdp # NoAttempt /\ ~hPending /\ hHeld = << >> /\ tcpUp = << >>
    BY <2>1 DEF TransportInv, ConfirmInv
  <2>3. tcpDown = << >>
    BY <2>1, <2>2 DEF TransportInv, DownInv
  <2> QED  BY <2>2, <2>3 DEF TransportInv, HostInv
<1> QED  BY <1>1, TransportInvariant, PTL

\* What was delivered is a prefix of what was sent.
LEMMA DeliveredPrefix ==
    ASSUME TransportInv
    PROVE  /\ cGot = Run(0, Len(cGot)) /\ Len(cGot) \in 0..hSent
           /\ hGot = Run(0, Len(hGot)) /\ Len(hGot) \in 0..cSent
<1>1. /\ hSent \in Nat /\ Len(cGot) \in Nat /\ Len(cHeld) \in Nat
      /\ cSent \in Nat /\ Len(hGot) \in Nat /\ Len(hHeld) \in Nat
  BY BoundsAssumption DEF TransportInv, TypeOK
<1>2. cGot = Run(0, Len(cGot)) /\ Len(cGot) <= hSent
  <2>1. CASE cOver
    BY <2>1 DEF TransportInv, DownFlow
  <2>2. CASE ~cOver
    <3>1. PICK t \in 0..hSent : Flow(cGot, tcpDown, cHeld, hSent, t)
      BY <2>2 DEF TransportInv, DownFlow
    <3>2. t \in Nat
      BY <1>1
    <3> QED  BY <3>1, <3>2, <1>1, FlowPrefix
  <2> QED  BY <2>1, <2>2
<1>3. hGot = Run(0, Len(hGot)) /\ Len(hGot) <= cSent
  <2>1. CASE hOver
    BY <2>1 DEF TransportInv, UpFlow
  <2>2. CASE ~hOver
    <3>1. PICK t \in 0..cSent : Flow(hGot, tcpUp, hHeld, cSent, t)
      BY <2>2 DEF TransportInv, UpFlow
    <3>2. t \in Nat
      BY <1>1
    <3> QED  BY <3>1, <3>2, <1>1, FlowPrefix
  <2> QED  BY <2>1, <2>2
<1> QED  BY <1>1, <1>2, <1>3

\* A step sends one message, or delivers some, or does neither.
LEMMA StepGrows ==
    ASSUME TypeOK, [Next]_vars
    PROVE  /\ \/ hSent' = hSent + 1 /\ cGot' = cGot
              \/ hSent' = hSent /\ (cGot' = cGot \/ Len(cGot') >= Len(cGot))
           /\ \/ cSent' = cSent + 1 /\ hGot' = hGot
              \/ cSent' = cSent /\ (hGot' = hGot \/ Len(hGot') >= Len(hGot))
<1> DEFINE Down == \/ hSent' = hSent + 1 /\ cGot' = cGot
                   \/ hSent' = hSent /\ (cGot' = cGot \/ Len(cGot') >= Len(cGot))
           Up   == \/ cSent' = cSent + 1 /\ hGot' = hGot
                   \/ cSent' = cSent /\ (hGot' = hGot \/ Len(hGot') >= Len(hGot))
<1>1. /\ cGot \in Seq(1..MaxHostData) /\ cHeld \in Seq(1..MaxHostData)
      /\ hGot \in Seq(1..MaxClientData) /\ hHeld \in Seq(1..MaxClientData)
  BY DEF TypeOK
<1>2. \A n : Len(Append(cGot, n)) >= Len(cGot) /\ Len(Append(hGot, n)) >= Len(hGot)
  BY <1>1
<1>3. Len(cGot \o cHeld) >= Len(cGot) /\ Len(hGot \o hHeld) >= Len(hGot)
  BY <1>1, ConcatProperties
<1>4. HostFinish => Down /\ Up
  BY DEF HostFinish, clientVars
<1>5. ConnectionLost => Down /\ Up
  BY DEF ConnectionLost, hostVars
<1>6. CASE HostNext
  <2>1. ASSUME NEW a \in Attempts,
               HostAnnounce(a) \/ HostChannelReady(a) \/ HostAttemptError(a)
                 \/ HostAttemptAck(a)
        PROVE  Down /\ Up
    BY <2>1 DEF HostAnnounce, HostChannelReady, HostAttemptError,
                HostAttemptAck, clientVars
  <2>2. CASE HostReadUdpReply   BY <2>2 DEF HostReadUdpReply, clientVars
  <2>3. CASE HostTcpData        BY <2>3, <1>2 DEF HostTcpData, clientVars
  <2>4. CASE HostReadUdpSwitch  BY <2>4, <1>3 DEF HostReadUdpSwitch, clientVars
  <2>5. CASE HostUdpData        BY <2>5, <1>2 DEF HostUdpData, clientVars
  <2>6. CASE HostSend           BY <2>6 DEF HostSend, clientVars
  <2>7. CASE HostStop           BY <2>7, <1>4 DEF HostStop
  <2>8. CASE HostTcpError       BY <2>8, <1>4 DEF HostTcpError, clientVars
  <2>9. CASE HostUdpError       BY <2>9, <1>4 DEF HostUdpError, clientVars
  <2> QED  BY <1>6, <2>1, <2>2, <2>3, <2>4, <2>5, <2>6, <2>7, <2>8, <2>9
           DEF HostNext, HostReceives
<1>7. CASE ClientNext
  <2>1. ASSUME NEW a \in Attempts,
               ClientAttemptStarted(a) \/ ClientAttemptError(a)
                 \/ ClientAttemptProbed(a) \/ ClientUdpSwitch(a)
        PROVE  Down /\ Up
    BY <2>1 DEF ClientAttemptStarted, ClientAttemptError, ClientAttemptProbed,
                ClientUdpSwitch, hostVars
  <2>2. ASSUME NEW a \in Attempts, NEW c, ClientUdpProbe(a, c) PROVE Down /\ Up
    BY <2>2 DEF ClientUdpProbe, hostVars
  <2>3. ASSUME NEW a \in Attempts, ClientUdpData(a) PROVE Down /\ Up
    BY <2>3, <1>2 DEF ClientUdpData, hostVars
  <2>4. CASE ClientReadUdpRequest  BY <2>4 DEF ClientReadUdpRequest, hostVars
  <2>5. CASE ClientTcpData         BY <2>5, <1>2 DEF ClientTcpData, hostVars
  <2>6. CASE ClientReadUdpSwitch   BY <2>6, <1>3 DEF ClientReadUdpSwitch, hostVars
  <2>7. CASE ClientSend            BY <2>7 DEF ClientSend, hostVars
  <2>8. CASE ClientStop            BY <2>8, <1>5 DEF ClientStop
  <2>9. CASE ClientTcpError        BY <2>9, <1>5 DEF ClientTcpError
  <2>10. CASE ClientUdpError       BY <2>10, <1>5 DEF ClientUdpError, hostVars
  <2> QED  BY <1>7, <2>1, <2>2, <2>3, <2>4, <2>5, <2>6, <2>7, <2>8, <2>9, <2>10
           DEF ClientNext, ClientReceives
<1>8. CASE UNCHANGED vars
  BY <1>8 DEF vars, hostVars, clientVars
<1> QED  BY <1>6, <1>7, <1>8 DEF Next

LEMMA PipeStep ==
    ASSUME TransportInv, TransportInv', [Next]_vars
    PROVE  [ToClient!Next]_(ToClient!vars) /\ [ToHost!Next]_(ToHost!vars)
<1>1. /\ cGot = Run(0, Len(cGot)) /\ Len(cGot) \in Nat /\ hSent \in Nat
      /\ hGot = Run(0, Len(hGot)) /\ Len(hGot) \in Nat /\ cSent \in Nat
  BY DeliveredPrefix, BoundsAssumption DEF TransportInv, TypeOK
<1>2. /\ cGot' = Run(0, Len(cGot')) /\ Len(cGot') \in 0..hSent'
      /\ hGot' = Run(0, Len(hGot')) /\ Len(hGot') \in 0..cSent'
  <2>1. (cGot = Run(0, Len(cGot)) /\ Len(cGot) \in 0..hSent
         /\ hGot = Run(0, Len(hGot)) /\ Len(hGot) \in 0..cSent)'
    BY DeliveredPrefix, PTL
  <2> QED  BY <2>1
<1>3. /\ \/ hSent' = hSent + 1 /\ cGot' = cGot
         \/ hSent' = hSent /\ (cGot' = cGot \/ Len(cGot') >= Len(cGot))
      /\ \/ cSent' = cSent + 1 /\ hGot' = hGot
         \/ cSent' = cSent /\ (hGot' = hGot \/ Len(hGot') >= Len(hGot))
  BY StepGrows DEF TransportInv
<1>4. [ToClient!Next]_(ToClient!vars)
  <2>1. CASE hSent' = hSent + 1 /\ cGot' = cGot
    BY <2>1 DEF ToClient!Next, ToClient!Send
  <2>2. CASE hSent' = hSent /\ cGot' = cGot
    BY <2>2 DEF ToClient!vars
  <2>3. CASE hSent' = hSent /\ cGot' # cGot /\ Len(cGot') >= Len(cGot)
    <3>1. Len(cGot') # Len(cGot)
      BY <2>3, <1>1, <1>2
    <3>2. Len(cGot') \in (Len(cGot) + 1)..hSent
      BY <3>1, <2>3, <1>1, <1>2
    <3>3. cGot' = [i \in 1..Len(cGot') |-> i]
      <4>1. Run(0, Len(cGot')) = [i \in 1..Len(cGot') |-> i]
        BY DEF Run
      <4> QED  BY <4>1, <1>2
    <3> QED  BY <3>2, <3>3, <2>3 DEF ToClient!Next, ToClient!Deliver
  <2> QED  BY <2>1, <2>2, <2>3, <1>3
<1>5. [ToHost!Next]_(ToHost!vars)
  <2>1. CASE cSent' = cSent + 1 /\ hGot' = hGot
    BY <2>1 DEF ToHost!Next, ToHost!Send
  <2>2. CASE cSent' = cSent /\ hGot' = hGot
    BY <2>2 DEF ToHost!vars
  <2>3. CASE cSent' = cSent /\ hGot' # hGot /\ Len(hGot') >= Len(hGot)
    <3>1. Len(hGot') # Len(hGot)
      BY <2>3, <1>1, <1>2
    <3>2. Len(hGot') \in (Len(hGot) + 1)..cSent
      BY <3>1, <2>3, <1>1, <1>2
    <3>3. hGot' = [i \in 1..Len(hGot') |-> i]
      <4>1. Run(0, Len(hGot')) = [i \in 1..Len(hGot') |-> i]
        BY DEF Run
      <4> QED  BY <4>1, <1>2
    <3> QED  BY <3>2, <3>3, <2>3 DEF ToHost!Next, ToHost!Deliver
  <2> QED  BY <2>1, <2>2, <2>3, <1>3
<1> QED  BY <1>4, <1>5

\* Each direction of the session implements OrderedPipe, however the host and
\* the client choose, switch, fail and end.
THEOREM TransportImplementsPipes == Spec => ImplementsPipes
<1>1. Init => ToClient!Init /\ ToHost!Init
  BY DEF Init, ToClient!Init, ToHost!Init
<1>2. TransportInv /\ TransportInv' /\ [Next]_vars =>
        [ToClient!Next]_(ToClient!vars) /\ [ToHost!Next]_(ToHost!vars)
  BY PipeStep
<1> QED  BY <1>1, <1>2, TransportInvariant, PTL
         DEF Spec, ImplementsPipes, ToClient!Spec, ToHost!Spec
==============================================================================
