--------------------------- MODULE SessionTransport ---------------------------
(* The transport of a session between a host and a client, and its move    *)
(* from TCP to UDP (host/client.cc, client/workers/network_worker.cc and   *)
(* the two udp_attempt.cc).                                                *)
(*                                                                         *)
(* A session starts on TCP. The host opens several UDP attempts side by    *)
(* side, each announced by a request on TCP and answered by a reply; when  *)
(* the path of one is up the host probes it, the client acknowledges, and  *)
(* the first acknowledgement makes that attempt the session's channel.     *)
(* Each side then switches its sending to UDP on its own, says so by a     *)
(* udp_switch that is its last word on TCP, and holds what it gets over    *)
(* UDP until it has read the other side's udp_switch. When both have       *)
(* switched the client closes TCP.                                         *)
(*                                                                         *)
(* User traffic is numbered messages on one user channel. Padding, metrics,*)
(* receive rates and the acknowledgements after the winner is chosen carry *)
(* no transport state and are left out, and so are the branches for peers  *)
(* older than 3.0.34. TCP is a reliable stream. The channels of one UDP    *)
(* connection are reliable and ordered each, with no order between them.   *)
EXTENDS Naturals, Sequences, SequencesExt

CONSTANTS
    Attempts,       \* the request ids of the host's UDP attempts
    Direct,         \* the attempt that start() announces at once
    NoAttempt,      \* no UDP channel
    MaxHostData,    \* bound: messages the host sends
    MaxClientData   \* bound: messages the client sends

ASSUME AttemptsAssumption == Direct \in Attempts /\ NoAttempt \notin Attempts
ASSUME BoundsAssumption == MaxHostData \in Nat /\ MaxClientData \in Nat

Channels == {"CONTROL", "PROBE", "DATA"}

VARIABLES
    \* host/client.cc
    hState,         \* udp_state_
    hUdp,           \* the attempt udp_channel_ was taken from
    hPending,       \* udp_switch_pending_
    hHeld,          \* held_udp_messages_
    hPeerReady,     \* peer_ready_; the bandwidth estimate is not 0
    hAttempt,       \* attempts_: what each attempt has reached
    hPath,          \* per attempt: enet_ready_ and crypto_ready_
    hTcp,           \* the host's TCP channel works
    hOver,          \* sig_finished emitted, the session is torn down
    hSent, hGot,    \* user messages sent, and delivered by onMessage
    \* client/workers/network_worker.cc
    cUdp,           \* the attempt udp_channel_ was taken from
    cReady,         \* udp_ready_
    cPending,       \* udp_switch_pending_
    cConfirmed,     \* udp_switch_confirmed_
    cHeld,          \* held_udp_messages_
    cAttempt,       \* attempts_
    cTcp,           \* tcp_channel_ exists
    cOver,          \* connectionLost or onStop
    cSent, cGot,    \* user messages sent, and delivered by routeMessage
    \* the network
    tcpDown, tcpUp, \* in flight on TCP, to the client and to the host
    udpDown, udpUp  \* in flight per attempt and channel

hostVars   == <<hState, hUdp, hPending, hHeld, hPeerReady, hAttempt, hPath,
                hTcp, hOver, hSent, hGot>>
clientVars == <<cUdp, cReady, cPending, cConfirmed, cHeld, cAttempt, cTcp,
                cOver, cSent, cGot>>
netVars    == <<tcpDown, tcpUp, udpDown, udpUp>>
vars       == <<hostVars, clientVars, netVars>>

Request(a) == [type |-> "udp_request", attempt |-> a]
Reply(a)   == [type |-> "udp_reply", attempt |-> a]
Switch     == [type |-> "udp_switch"]
Probe      == [type |-> "bandwidth_probe"]
Ack        == [type |-> "bandwidth_probe_ack"]
Data(n)    == [type |-> "data", seq |-> n]


NoPackets  == [a \in Attempts |-> [c \in Channels |-> << >>]]
Put(net, a, c, m) == [net EXCEPT ![a][c] = Append(@, m)]
Drop(net, a, c)   == [net EXCEPT ![a][c] = Tail(@)]
\* What is on the way to the sockets of the attempts in S is lost with them.
Lose(net, S)      == [a \in Attempts |-> IF a \in S THEN NoPackets[a] ELSE net[a]]

Init ==
    /\ hState = "DISCONNECTED" /\ hUdp = NoAttempt
    /\ hPending = FALSE /\ hHeld = << >> /\ hPeerReady = FALSE
    /\ hAttempt = [a \in Attempts |-> IF a = Direct THEN "waiting" ELSE "new"]
    /\ hPath = [a \in Attempts |-> {}]
    /\ hTcp = TRUE /\ hOver = FALSE /\ hSent = 0 /\ hGot = << >>
    /\ cUdp = NoAttempt /\ cReady = FALSE /\ cPending = FALSE
    /\ cConfirmed = FALSE /\ cHeld = << >>
    /\ cAttempt = [a \in Attempts |-> "none"]
    /\ cTcp = TRUE /\ cOver = FALSE /\ cSent = 0 /\ cGot = << >>
    /\ tcpDown = <<Request(Direct)>> /\ tcpUp = << >>
    /\ udpDown = NoPackets /\ udpUp = NoPackets

\* The host has a socket for attempt a.
HostEnd(a) == ~hOver /\ (hUdp = a \/ hAttempt[a] \in {"waiting", "probing"})
\* The client has one.
ClientEnd(a) == ~cOver /\ (cUdp = a \/ cAttempt[a] \in {"started", "probed"})

------------------------------------------------------------------------------
(* The host                                                                *)

\* An attempt that has to ask a STUN server or a gateway first announces
\* itself when that is done.
HostAnnounce(a) ==
    /\ ~hOver /\ hTcp /\ hAttempt[a] = "new"
    /\ hAttempt' = [hAttempt EXCEPT ![a] = "waiting"]
    /\ tcpDown' = Append(tcpDown, Request(a))
    /\ UNCHANGED <<hState, hUdp, hPending, hHeld, hPeerReady, hPath, hTcp,
                   hOver, hSent, hGot, clientVars, tcpUp, udpDown, udpUp>>

\* sendProbeIfReady(): one probe once the path is up and encrypted.
SendProbeIfReady(a, path) ==
    LET due == path[a] = {"enet", "crypto"} /\ hAttempt[a] = "waiting" IN
    /\ hPath' = path
    /\ hAttempt' = IF due THEN [hAttempt EXCEPT ![a] = "probing"] ELSE hAttempt
    /\ udpDown' = IF due THEN Put(udpDown, a, "CONTROL", Probe) ELSE udpDown

\* onChannelReady(): ENet connected the two sockets.
HostChannelReady(a) ==
    /\ ~hOver /\ hAttempt[a] = "waiting" /\ ClientEnd(a)
    /\ "enet" \notin hPath[a]
    /\ SendProbeIfReady(a, [hPath EXCEPT ![a] = @ \union {"enet"}])
    /\ UNCHANGED <<hState, hUdp, hPending, hHeld, hPeerReady, hTcp, hOver,
                   hSent, hGot, clientVars, tcpDown, tcpUp, udpUp>>

\* The attempt's socket fails or its 15 seconds run out.
HostAttemptError(a) ==
    /\ ~hOver /\ hAttempt[a] \in {"new", "waiting", "probing"}
    /\ hAttempt' = [hAttempt EXCEPT ![a] = "gone"]
    /\ hPath' = [hPath EXCEPT ![a] = {}]
    /\ udpUp' = Lose(udpUp, {a})
    /\ UNCHANGED <<hState, hUdp, hPending, hHeld, hPeerReady, hTcp, hOver,
                   hSent, hGot, clientVars, tcpDown, tcpUp, udpDown>>

\* Mutant: the host does not wait for the client's switch.
HostSelectAttempt_NotPending(a) ==
    LET ready == hPeerReady IN
    /\ hUdp' = a
    /\ hAttempt' = [b \in Attempts |-> "gone"]
    /\ hPath' = [b \in Attempts |-> {}]
    /\ udpUp' = Lose(Drop(udpUp, a, "CONTROL"), Attempts \ {a})
    /\ UNCHANGED hPending
    /\ hState' = IF ready THEN "READY" ELSE "CONNECTED"
    /\ tcpDown' = IF ready THEN Append(tcpDown, Switch) ELSE tcpDown
    /\ udpDown' = IF ready
                  THEN Put(Put(udpDown, a, "CONTROL", Probe), a, "PROBE", Probe)
                  ELSE udpDown

\* selectAttempt(): the attempt's channel becomes the session's, the other
\* attempts go, and checkBandwidth() moves sending to UDP.
HostSelectAttempt(a) ==
    LET ready == hPeerReady IN
    /\ hUdp' = a
    /\ hAttempt' = [b \in Attempts |-> "gone"]
    /\ hPath' = [b \in Attempts |-> {}]
    /\ udpUp' = Lose(Drop(udpUp, a, "CONTROL"), Attempts \ {a})
    /\ hPending' = TRUE
    /\ hState' = IF ready THEN "READY" ELSE "CONNECTED"
    /\ tcpDown' = IF ready THEN Append(tcpDown, Switch) ELSE tcpDown
    /\ udpDown' = IF ready
                  THEN Put(Put(udpDown, a, "CONTROL", Probe), a, "PROBE", Probe)
                  ELSE udpDown

\* The client acknowledged the probe of an attempt: onAttemptConnected().
HostAttemptAck(a) ==
    /\ ~hOver /\ hAttempt[a] = "probing" /\ hUdp = NoAttempt
    /\ udpUp[a]["CONTROL"] # << >>
    /\ HostSelectAttempt(a)
    /\ UNCHANGED <<hHeld, hPeerReady, hTcp, hOver, hSent, hGot, clientVars,
                   tcpUp>>

HostTcpHead(type) == ~hOver /\ hTcp /\ tcpUp # << >> /\ Head(tcpUp).type = type

\* readUdpReply()
HostReadUdpReply ==
    /\ HostTcpHead("udp_reply")
    /\ tcpUp' = Tail(tcpUp) /\ hPeerReady' = TRUE
    /\ LET a == Head(tcpUp).attempt IN
       IF hAttempt[a] = "waiting"
       THEN SendProbeIfReady(a, [hPath EXCEPT ![a] = @ \union {"crypto"}])
       ELSE UNCHANGED <<hPath, hAttempt, udpDown>>
    /\ UNCHANGED <<hState, hUdp, hPending, hHeld, hTcp, hOver, hSent, hGot,
                   clientVars, tcpDown, udpUp>>

\* A user message on TCP goes straight to onMessage().
HostTcpData ==
    /\ HostTcpHead("data")
    /\ tcpUp' = Tail(tcpUp) /\ hPeerReady' = TRUE
    /\ hGot' = Append(hGot, Head(tcpUp).seq)
    /\ UNCHANGED <<hState, hUdp, hPending, hHeld, hAttempt, hPath, hTcp,
                   hOver, hSent, clientVars, tcpDown, udpDown, udpUp>>

\* readUdpSwitch(): the client sends nothing more on TCP, so what came over
\* UDP meanwhile follows, and the answer goes the way send() goes.
HostReadUdpSwitch ==
    /\ HostTcpHead("udp_switch")
    /\ tcpUp' = Tail(tcpUp) /\ hPeerReady' = TRUE
    /\ hPending' = FALSE
    /\ hGot' = hGot \o hHeld /\ hHeld' = << >>
    /\ IF hState = "READY" /\ hUdp # NoAttempt
       THEN /\ udpDown' = Put(udpDown, hUdp, "CONTROL", Switch)
            /\ UNCHANGED tcpDown
       ELSE /\ tcpDown' = Append(tcpDown, Switch)
            /\ UNCHANGED udpDown
    /\ UNCHANGED <<hState, hUdp, hAttempt, hPath, hTcp, hOver, hSent,
                   clientVars, udpUp>>

\* onUdpMessageReceived() for a user message.
HostUdpData ==
    /\ ~hOver /\ hUdp # NoAttempt /\ udpUp[hUdp]["DATA"] # << >>
    /\ LET n == Head(udpUp[hUdp]["DATA"]).seq IN
       IF hPending
       THEN hHeld' = Append(hHeld, n) /\ UNCHANGED hGot
       ELSE hGot' = Append(hGot, n) /\ UNCHANGED hHeld
    /\ udpUp' = Drop(udpUp, hUdp, "DATA")
    /\ UNCHANGED <<hState, hUdp, hPending, hPeerReady, hAttempt, hPath, hTcp,
                   hOver, hSent, clientVars, tcpDown, tcpUp, udpDown>>

\* send()
HostSend ==
    /\ ~hOver /\ hSent < MaxHostData
    /\ hSent' = hSent + 1
    /\ IF hState = "READY" /\ hUdp # NoAttempt
       THEN /\ udpDown' = Put(udpDown, hUdp, "DATA", Data(hSent + 1))
            /\ UNCHANGED tcpDown
       ELSE /\ tcpDown' = Append(tcpDown, Data(hSent + 1))
            /\ UNCHANGED udpDown
    /\ UNCHANGED <<hState, hUdp, hPending, hHeld, hPeerReady, hAttempt, hPath,
                   hTcp, hOver, hGot, clientVars, tcpUp, udpUp>>

\* The session ends on the host: finish(), its sockets close, and what was on
\* the way to them is gone.
HostFinish ==
    /\ hOver' = TRUE /\ hTcp' = FALSE
    /\ hHeld' = << >> /\ hAttempt' = [a \in Attempts |-> "gone"]
    /\ hPath' = [a \in Attempts |-> {}]
    /\ tcpUp' = << >> /\ udpUp' = NoPackets
    /\ UNCHANGED <<hState, hUdp, hPending, hPeerReady, hSent, hGot,
                   clientVars, tcpDown, udpDown>>

\* A peer's timeout or the service ends the session.
HostStop == ~hOver /\ HostFinish

\* Mutant: the host ignores the end of TCP in every state.
HostTcpError_Ignored ==
    /\ ~hOver /\ hTcp
    /\ hTcp' = FALSE
    /\ UNCHANGED <<hState, hUdp, hPending, hHeld, hPeerReady, hAttempt,
                   hPath, hOver, hSent, hGot, clientVars, netVars>>

\* onTcpErrorOccurred(): once both directions have left TCP its end is
\* expected.
HostTcpError ==
    /\ ~hOver /\ hTcp
    /\ IF hState = "READY" /\ ~hPending
       THEN /\ hTcp' = FALSE
            /\ UNCHANGED <<hState, hUdp, hPending, hHeld, hPeerReady, hAttempt,
                           hPath, hOver, hSent, hGot, clientVars, netVars>>
       ELSE HostFinish

\* onUdpErrorOccurred()
HostUdpError ==
    /\ ~hOver /\ hUdp # NoAttempt
    /\ IF hState = "READY"
       THEN HostFinish
       ELSE /\ hUdp' = NoAttempt /\ hState' = "DISCONNECTED"
            /\ UNCHANGED <<hPending, hHeld, hPeerReady, hAttempt, hPath, hTcp,
                           hOver, hSent, hGot, clientVars, netVars>>

------------------------------------------------------------------------------
(* The client                                                              *)

ClientTcpHead(type) ==
    ~cOver /\ cTcp /\ tcpDown # << >> /\ Head(tcpDown).type = type

\* readDirectUdpRequest(), readStunUdpRequest(), readGatewayUdpRequest() and
\* addAndStart(): the direct attempt replies at once unless it finds no
\* address to connect to, the others reply when they know their own.  The
\* request is ignored when a UDP channel is up, the method is not allowed, or
\* the attempt is not valid or one too many.
ClientReadUdpRequest ==
    /\ ClientTcpHead("udp_request")
    /\ tcpDown' = Tail(tcpDown)
    /\ LET a == Head(tcpDown).attempt IN
       \/ /\ cUdp = NoAttempt /\ cAttempt[a] = "none"
          /\ cPending' = TRUE
          /\ \/ /\ a = Direct
                /\ cAttempt' = [cAttempt EXCEPT ![a] = "started"]
                /\ tcpUp' = Append(tcpUp, Reply(a))
             \/ /\ a = Direct
                /\ cAttempt' = [cAttempt EXCEPT ![a] = "gone"]
                /\ UNCHANGED tcpUp
             \/ /\ a # Direct
                /\ cAttempt' = [cAttempt EXCEPT ![a] = "starting"]
                /\ UNCHANGED tcpUp
       \/ UNCHANGED <<cPending, cAttempt, tcpUp>>
    /\ UNCHANGED <<hostVars, cUdp, cReady, cConfirmed, cHeld, cTcp, cOver,
                   cSent, cGot, udpDown, udpUp>>

\* A STUN or gateway attempt has its address: it connects and replies.
ClientAttemptStarted(a) ==
    /\ ~cOver /\ cTcp /\ cAttempt[a] = "starting"
    /\ cAttempt' = [cAttempt EXCEPT ![a] = "started"]
    /\ tcpUp' = Append(tcpUp, Reply(a))
    /\ UNCHANGED <<hostVars, cUdp, cReady, cPending, cConfirmed, cHeld, cTcp,
                   cOver, cSent, cGot, tcpDown, udpDown, udpUp>>

\* onChannelMessage() of an attempt that waits for its probe.
ClientAttemptProbed(a) ==
    /\ ~cOver /\ cAttempt[a] = "started" /\ udpDown[a]["CONTROL"] # << >>
    /\ cAttempt' = [cAttempt EXCEPT ![a] = "probed"]
    /\ udpDown' = Drop(udpDown, a, "CONTROL")
    /\ udpUp' = Put(udpUp, a, "CONTROL", Ack)
    /\ UNCHANGED <<hostVars, cUdp, cReady, cPending, cConfirmed, cHeld, cTcp,
                   cOver, cSent, cGot, tcpDown, tcpUp>>

\* The attempt's socket fails or its 15 seconds run out.
ClientAttemptError(a) ==
    /\ ~cOver /\ cAttempt[a] \in {"starting", "started", "probed"}
    /\ cAttempt' = [cAttempt EXCEPT ![a] = "gone"]
    /\ udpDown' = Lose(udpDown, {a})
    /\ UNCHANGED <<hostVars, cUdp, cReady, cPending, cConfirmed, cHeld, cTcp,
                   cOver, cSent, cGot, tcpDown, tcpUp, udpUp>>

\* Mutant: the host's confirmation alone closes TCP.
CloseTcpIfSwitched_NoPending(confirmed, pending) ==
    cTcp' = (cTcp /\ ~confirmed)

\* closeTcpIfSwitched()
CloseTcpIfSwitched(confirmed, pending) ==
    cTcp' = (cTcp /\ ~(confirmed /\ ~pending))

\* Mutant: the first probe already selects the attempt.
ClientUdpTakes_FirstProbe(a, c) ==
    /\ ~cOver /\ udpDown[a][c] # << >>
    /\ udpDown' = Lose(Drop(udpDown, a, c), Attempts \ {a})
    /\ \/ /\ cUdp = a
          /\ UNCHANGED <<cUdp, cAttempt>>
       \/ /\ cUdp = NoAttempt /\ cAttempt[a] \in {"started", "probed"}
          /\ cUdp' = a
          /\ cAttempt' = [b \in Attempts |->
                            IF cAttempt[b] = "none" THEN "none" ELSE "gone"]

\* A message arrives on the session's channel, or on an attempt that was
\* probed before: selectAttempt() first, and the other attempts go.
ClientUdpTakes(a, c) ==
    /\ ~cOver /\ udpDown[a][c] # << >>
    /\ udpDown' = Lose(Drop(udpDown, a, c), Attempts \ {a})
    /\ \/ /\ cUdp = a
          /\ UNCHANGED <<cUdp, cAttempt>>
       \/ /\ cUdp = NoAttempt /\ cAttempt[a] = "probed"
          /\ cUdp' = a
          /\ cAttempt' = [b \in Attempts |->
                            IF cAttempt[b] = "none" THEN "none" ELSE "gone"]

\* onUdpMessageReceived() for a user message.
ClientUdpData(a) ==
    /\ ClientUdpTakes(a, "DATA")
    /\ LET n == Head(udpDown[a]["DATA"]).seq IN
       IF cPending
       THEN cHeld' = Append(cHeld, n) /\ UNCHANGED cGot
       ELSE cGot' = Append(cGot, n) /\ UNCHANGED cHeld
    /\ UNCHANGED <<hostVars, cReady, cPending, cConfirmed, cTcp, cOver, cSent,
                   tcpDown, tcpUp, udpUp>>

\* onUdpMessageReceived() for a probe: the first one shows that the host
\* sends over UDP, and the client follows.
ClientUdpProbe(a, c) ==
    /\ ClientUdpTakes(a, c)
    /\ Head(udpDown[a][c]).type = "bandwidth_probe"
    /\ cReady' = TRUE
    /\ tcpUp' = IF ~cReady /\ cTcp THEN Append(tcpUp, Switch) ELSE tcpUp
    /\ UNCHANGED <<hostVars, cPending, cConfirmed, cHeld, cTcp, cOver, cSent,
                   cGot, tcpDown, udpUp>>

\* onUdpMessageReceived() for the host's udp_switch.
ClientUdpSwitch(a) ==
    /\ ClientUdpTakes(a, "CONTROL")
    /\ Head(udpDown[a]["CONTROL"]).type = "udp_switch"
    /\ cConfirmed' = TRUE
    /\ CloseTcpIfSwitched(TRUE, cPending)
    /\ UNCHANGED <<hostVars, cReady, cPending, cHeld, cOver, cSent, cGot,
                   tcpDown, tcpUp, udpUp>>

\* Mutant: messages on TCP wait for the switch too.
ClientTcpData_Held ==
    /\ ClientTcpHead("data")
    /\ tcpDown' = Tail(tcpDown)
    /\ IF cPending
       THEN cHeld' = Append(cHeld, Head(tcpDown).seq) /\ UNCHANGED cGot
       ELSE cGot' = Append(cGot, Head(tcpDown).seq) /\ UNCHANGED cHeld
    /\ UNCHANGED <<hostVars, cUdp, cReady, cPending, cConfirmed, cAttempt, cTcp,
                   cOver, cSent, tcpUp, udpDown, udpUp>>

\* A user message on TCP goes straight to routeMessage().
ClientTcpData ==
    /\ ClientTcpHead("data")
    /\ tcpDown' = Tail(tcpDown)
    /\ cGot' = Append(cGot, Head(tcpDown).seq)
    /\ UNCHANGED <<hostVars, cUdp, cReady, cPending, cConfirmed, cHeld,
                   cAttempt, cTcp, cOver, cSent, tcpUp, udpDown, udpUp>>

\* Mutant: the held messages are taken from the wrong end.
ClientReadUdpSwitch_LastFirst ==
    /\ ClientTcpHead("udp_switch")
    /\ tcpDown' = Tail(tcpDown)
    /\ cPending' = FALSE
    /\ cGot' = cGot \o Reverse(cHeld) /\ cHeld' = << >>
    /\ CloseTcpIfSwitched(cConfirmed, FALSE)
    /\ UNCHANGED <<hostVars, cUdp, cReady, cConfirmed, cAttempt, cOver, cSent,
                   tcpUp, udpDown, udpUp>>

\* readUdpSwitch()
ClientReadUdpSwitch ==
    /\ ClientTcpHead("udp_switch")
    /\ tcpDown' = Tail(tcpDown)
    /\ cPending' = FALSE
    /\ cGot' = cGot \o cHeld /\ cHeld' = << >>
    /\ CloseTcpIfSwitched(cConfirmed, FALSE)
    /\ UNCHANGED <<hostVars, cUdp, cReady, cConfirmed, cAttempt, cOver, cSent,
                   tcpUp, udpDown, udpUp>>

\* onSendMessage()
ClientSend ==
    /\ ~cOver /\ cSent < MaxClientData
    /\ cSent' = cSent + 1
    /\ \/ /\ cReady
          /\ udpUp' = Put(udpUp, cUdp, "DATA", Data(cSent + 1))
          /\ UNCHANGED tcpUp
       \/ /\ ~cReady /\ cTcp
          /\ tcpUp' = Append(tcpUp, Data(cSent + 1))
          /\ UNCHANGED udpUp
    /\ UNCHANGED <<hostVars, cUdp, cReady, cPending, cConfirmed, cHeld,
                   cAttempt, cTcp, cOver, cGot, tcpDown, udpDown>>

\* connectionLost(): the attempts, the two channels and what was held go.
ConnectionLost ==
    /\ cOver' = TRUE /\ cTcp' = FALSE
    /\ cReady' = FALSE /\ cConfirmed' = FALSE /\ cHeld' = << >>
    /\ cUdp' = NoAttempt /\ cAttempt' = [a \in Attempts |-> "gone"]
    /\ tcpDown' = << >> /\ udpDown' = NoPackets
    /\ UNCHANGED <<hostVars, cPending, cSent, cGot, tcpUp, udpUp>>

\* onStop(): the user closes the session.
ClientStop == ~cOver /\ ConnectionLost

\* onTcpErrorOccurred()
ClientTcpError == ~cOver /\ cTcp /\ ConnectionLost

\* onUdpErrorOccurred()
ClientUdpError ==
    /\ ~cOver /\ cUdp # NoAttempt
    /\ IF cReady
       THEN ConnectionLost
       ELSE /\ cUdp' = NoAttempt
            /\ UNCHANGED <<hostVars, cReady, cPending, cConfirmed, cHeld,
                           cAttempt, cTcp, cOver, cSent, cGot, netVars>>

------------------------------------------------------------------------------
\* A message that is in flight is handled.
HostReceives ==
    \/ \E a \in Attempts : HostAttemptAck(a)
    \/ HostReadUdpReply \/ HostTcpData \/ HostReadUdpSwitch \/ HostUdpData

ClientReceives ==
    \/ \E a \in Attempts :
         \/ ClientAttemptProbed(a) \/ ClientUdpData(a) \/ ClientUdpSwitch(a)
         \/ \E c \in {"CONTROL", "PROBE"} : ClientUdpProbe(a, c)
    \/ ClientReadUdpRequest \/ ClientTcpData \/ ClientReadUdpSwitch

HostNext ==
    \/ \E a \in Attempts :
         HostAnnounce(a) \/ HostChannelReady(a) \/ HostAttemptError(a)
    \/ HostReceives \/ HostSend \/ HostStop \/ HostTcpError \/ HostUdpError

ClientNext ==
    \/ \E a \in Attempts : ClientAttemptStarted(a) \/ ClientAttemptError(a)
    \/ ClientReceives \/ ClientSend
    \/ ClientStop \/ ClientTcpError \/ ClientUdpError

Next == HostNext \/ ClientNext

Spec == Init /\ [][Next]_vars

\* Each side handles what reaches it, and a channel whose other end is gone
\* reports it. Nothing makes a user send, a session stop, an attempt succeed
\* or fail, or a network break.
FairSpec ==
    /\ Spec
    /\ WF_vars(HostReceives)
    /\ WF_vars(ClientReceives)
    /\ WF_vars(~cTcp /\ HostTcpError)
    /\ WF_vars(hUdp # NoAttempt /\ ~ClientEnd(hUdp) /\ HostUdpError)
    /\ WF_vars(~hTcp /\ ClientTcpError)
    /\ WF_vars(cUdp # NoAttempt /\ ~HostEnd(cUdp) /\ ClientUdpError)

------------------------------------------------------------------------------
(* Properties                                                              *)

\* What may be on each connection.
DownMessages == {Switch} \union {Request(a) : a \in Attempts}
                         \union {Data(n) : n \in 1..MaxHostData}
UpMessages   == {Switch} \union {Reply(a) : a \in Attempts}
                         \union {Data(n) : n \in 1..MaxClientData}
UdpMessages(c, last) ==
    CASE c = "CONTROL" -> {Probe, Switch, Ack}
      [] c = "PROBE"   -> {Probe}
      [] c = "DATA"    -> {Data(n) : n \in 1..last}
UdpNet(last) ==
    {net \in [Attempts -> [Channels -> UNION {Seq(UdpMessages(c, last)) : c \in Channels}]] :
        \A a \in Attempts, c \in Channels : net[a][c] \in Seq(UdpMessages(c, last))}

\* The handlers meet only messages they know: requests, replies and switches
\* on TCP, probes and user messages each on their own channel of UDP.
TypeOK ==
    /\ hState \in {"DISCONNECTED", "CONNECTED", "READY"}
    /\ hUdp \in Attempts \union {NoAttempt} /\ cUdp \in Attempts \union {NoAttempt}
    /\ {hPending, hPeerReady, hTcp, hOver, cReady, cPending, cConfirmed, cTcp,
        cOver} \subseteq BOOLEAN
    /\ hAttempt \in [Attempts -> {"new", "waiting", "probing", "gone"}]
    /\ hPath \in [Attempts -> SUBSET {"enet", "crypto"}]
    /\ cAttempt \in [Attempts -> {"none", "starting", "started", "probed", "gone"}]
    /\ hSent \in 0..MaxHostData /\ cSent \in 0..MaxClientData
    /\ hGot \in Seq(1..MaxClientData) /\ hHeld \in Seq(1..MaxClientData)
    /\ cGot \in Seq(1..MaxHostData) /\ cHeld \in Seq(1..MaxHostData)
    /\ tcpDown \in Seq(DownMessages) /\ tcpUp \in Seq(UpMessages)
    /\ udpDown \in UdpNet(MaxHostData) /\ udpUp \in UdpNet(MaxClientData)

\* Nothing was lost yet: both sides live and both ends of the channel exist.
Intact == ~hOver /\ ~cOver /\ (hUdp # NoAttempt => ClientEnd(hUdp))
UserPackets(net, a) == IF a = NoAttempt THEN << >> ELSE net[a]["DATA"]

IsData(m)  == m.type = "data"
\* The n messages that follow message lo.
Run(lo, n) == [i \in 1..n |-> lo + i]
\* The user messages in a queue are those after lo up to hi, each of them
\* once and in the order of sending.
Carries(q, lo, hi) ==
    /\ lo <= hi
    /\ \A i \in 1..Len(q) : IsData(q[i]) => q[i].seq \in (lo + 1)..hi
    /\ \A n \in (lo + 1)..hi : \E i \in 1..Len(q) : q[i] = Data(n)
    /\ \A i, j \in 1..Len(q) :
         i < j /\ IsData(q[i]) /\ IsData(q[j]) => q[i].seq < q[j].seq
\* A direction of the session: got was delivered, tcp is on TCP, held waits
\* for the switch and udp is on UDP.
InOrder(got, tcp, held, udp, sent) ==
    \E t \in 0..sent :
        /\ got = Run(0, Len(got))
        /\ Carries(tcp, Len(got), t)
        /\ held = Run(t, Len(held))
        /\ Carries(udp, t + Len(held), sent)

\* While the session is intact every user message that was sent is in exactly
\* one place, and the places are in the order of sending: delivered, then on
\* TCP, then held, then on UDP. The two connections overlap in time, and only
\* held_udp_messages_ keeps the faster one from overtaking.
NothingMissing ==
    Intact =>
        /\ InOrder(cGot, tcpDown, cHeld, UserPackets(udpDown, hUdp), hSent)
        /\ InOrder(hGot, tcpUp, hHeld, UserPackets(udpUp, cUdp), cSent)

\* The client uses no attempt but the one the host chose, although each side
\* chooses by itself and several attempts are probed at the same time.
SameAttempt == cUdp # NoAttempt => cUdp = hUdp

\* When the client closes TCP of a living session nothing that matters is
\* left on it, and the host takes its end for the expected one.
ClosedTcpIsSpent ==
    ~cTcp /\ ~cOver =>
        /\ \A i \in 1..Len(tcpDown) : ~IsData(tcpDown[i]) /\ tcpDown[i] # Switch
        /\ \A i \in 1..Len(tcpUp) : ~IsData(tcpUp[i])
        /\ hState = "READY" /\ ~hPending /\ hHeld = << >>

ToClient == INSTANCE OrderedPipe WITH sent <- hSent, got <- cGot
ToHost   == INSTANCE OrderedPipe WITH sent <- cSent, got <- hGot

\* Each direction of the session is an ordered pipe for its user, through
\* the choice of a channel, the switch and the end of TCP.
ImplementsPipes == ToClient!Spec /\ ToHost!Spec

\* The handover runs to its end: a host that switched gets rid of TCP, and
\* what was sent on either connection, the held messages included, arrives,
\* unless the session ends first.
HandoverCompletes ==
    /\ hState = "READY" ~> ~cTcp
    /\ []<>(Len(cGot) = hSent \/ cOver)
    /\ []<>(Len(hGot) = cSent \/ hOver)

\* Neither side stays in a session the other one has left, although the host
\* ignores the end of TCP and the client the loss of an unused channel.
EndsTogether == /\ hOver ~> cOver
                /\ cOver ~> hOver
==============================================================================
