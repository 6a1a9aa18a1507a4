------------------------- MODULE RelayCorpv4_proofs -------------------------
(***************************************************************************)
(* Proofs about RelayCorpv4, for every value of its constants: whatever    *)
(* the message limit, the number of bytes, failures and reconnects, with   *)
(* resuming on or off, and whether or not the relay's acks go backwards.   *)
(* The types and the downstream come first, then the upstream: what the    *)
(* host writes, sendWrite_ sends, the relay receives and the stream takes  *)
(* its acks for, over any number of connections that are lost and resumed. *)
(***************************************************************************)
EXTENDS RelayCorpv4, QueueLemmas

-----------------------------------------------------------------------------
(* Packets. *)

(* A packet's bytes are a sequence of positions. *)
LEMMA BytesType ==
  ASSUME NEW p \in DataPackets
  PROVE  Bytes(p) \in Seq(Nat)
<1>1. CASE p.hi - p.lo + 1 \in Nat
  BY <1>1 DEF Bytes, DataPackets
<1>2. CASE p.hi - p.lo + 1 \notin Nat
  <2>1. 1..(p.hi - p.lo + 1) = 1..0
    BY <1>2 DEF DataPackets
  <2>2. Bytes(p) \in [1..0 -> Nat]
    BY <2>1 DEF Bytes, DataPackets
  <2> QED  BY <2>2
<1> QED  BY <1>1, <1>2

(* The tag tells which fields a packet has. *)
LEMMA PacketFields ==
  /\ \A p \in ServerPackets : p.tag = "DATA" => p \in DataPackets
  /\ \A p \in ServerPackets : p.tag \in {"ACK", "RECONNECT_SUCCESS"} => p \in AckPackets
  /\ \A p \in ClientPackets : p.tag = "DATA" => p \in DataPackets
  /\ \A p \in ClientPackets : p.tag = "ACK" => p \in AckPackets
BY DEF ServerPackets, ClientPackets, DataPackets, AckPackets, ConnectSuccess, CloseFrame

(* What the actions put on the wire. *)
LEMMA PacketTypes ==
  /\ \A lo, hi \in Nat : Data(lo, hi) \in ServerPackets /\ Data(lo, hi) \in ClientPackets
  /\ \A n \in Nat : Ack(n) \in ServerPackets /\ Ack(n) \in ClientPackets
  /\ \A n \in Nat : ReconnectSuccess(n) \in ServerPackets
  /\ ConnectSuccess \in ServerPackets /\ CloseFrame \in ServerPackets
BY DEF Data, Ack, ReconnectSuccess, ServerPackets, ClientPackets, DataPackets, AckPackets

-----------------------------------------------------------------------------
(* Type correctness. *)

(* The variables start with their types. *)
LEMMA TypeInit == Init => TypeOK
BY DEF Init, Buf!Init, TypeOK, NoAck, Null

(* sendWrite_ changes three variables, all of them well. *)
LEMMA SendWriteType ==
  ASSUME TypeOK, NEW w \in Nat, NEW t \in Nat, SendWrite(w, t)
  PROVE  writeCount_' \in Nat /\ sendTimers' \in Nat /\ c2s' \in Seq(ClientPackets)
<1> USE ConstantsAssumption
<1> DEFINE hi == Buf!Smaller(writeCount_ + MaxLen, w)
<1>1. hi \in Nat /\ writeCount_ + 1 \in Nat
  BY DEF TypeOK, Buf!Smaller
<1>2. Data(writeCount_ + 1, hi) \in ClientPackets
  BY <1>1, PacketTypes
<1>3. Append(c2s, Data(writeCount_ + 1, hi)) \in Seq(ClientPackets)
  BY <1>2 DEF TypeOK
<1>4. /\ writeCount_' \in {writeCount_, hi}
      /\ sendTimers' \in {t, t + 1}
      /\ c2s' \in {c2s, Append(c2s, Data(writeCount_ + 1, hi))}
  BY DEF SendWrite
<1>5. writeCount_' \in Nat /\ sendTimers' \in Nat
  BY <1>1, <1>4 DEF TypeOK
<1>6. c2s' \in Seq(ClientPackets)
  <2>1. c2s \in Seq(ClientPackets)
    BY DEF TypeOK
  <2> QED  BY <1>3, <1>4, <2>1
<1> QED  BY <1>5, <1>6

(* close_ keeps the types of what it changes. *)
LEMMA CloseType ==
  ASSUME TypeOK, Close_
  PROVE  /\ open' \in {"new", "pending", "resolved", "rejected"}
         /\ socket_' \in {Null, "socket"} /\ host' \in {"open", "closed"}
         /\ ws' \in {"NONE", "CONNECTING", "OPEN", "CLOSING", "CLOSED"}
         /\ s2c' \in Seq(ServerPackets)
BY NoElements DEF TypeOK, Close_

(* So does reconnect_, whether it reconnects, throws or closes. *)
LEMMA ReconnectOrCloseType ==
  ASSUME TypeOK, events # <<>>, ReconnectOrClose
  PROVE  /\ open' \in {"new", "pending", "resolved", "rejected"}
         /\ socket_' \in {Null, "socket"} /\ host' \in {"open", "closed"}
         /\ ws' \in {"NONE", "CONNECTING", "OPEN", "CLOSING", "CLOSED"}
         /\ s2c' \in Seq(ServerPackets)
         /\ reconnectCount_' \in Nat /\ reconnectTimers' \in Nat
         /\ resumeAck' \in Nat \cup {NoAck}
         /\ events' \in Seq({"error", "close", "cleanClose"})
<1>1. reconnectCount_' \in Nat
  BY DEF ReconnectOrClose, CountAttempt, TypeOK
<1>2. CASE MayReconnect /\ socket_ # Null
  <2>1. Reconnect
    BY <1>2 DEF ReconnectOrClose
  <2>2. events' \in Seq({"error", "close", "cleanClose"})
    BY <2>1, NoElements DEF Reconnect
  <2>3. /\ resumeAck' \in Nat \cup {NoAck} /\ reconnectTimers' \in Nat
        /\ ws' = "CLOSED" /\ UNCHANGED <<open, socket_, host, s2c>>
    BY <2>1 DEF Reconnect, TypeOK
  <2> QED  BY <1>1, <2>2, <2>3 DEF TypeOK
<1>3. CASE MayReconnect /\ socket_ = Null
  BY <1>1, <1>3, TailProperties DEF ReconnectOrClose, TypeOK
<1>4. CASE ~MayReconnect
  BY <1>1, <1>4, CloseType, TailProperties DEF ReconnectOrClose, TypeOK
<1> QED  BY <1>2, <1>3, <1>4

(* And so does the end of onSocketData_ that releases acked bytes. *)
LEMMA ApplyAckType ==
  ASSUME TypeOK, s2c # <<>>, NEW ack \in Nat, ApplyAck(ack)
  PROVE  /\ open' \in {"new", "pending", "resolved", "rejected"}
         /\ socket_' \in {Null, "socket"} /\ host' \in {"open", "closed"}
         /\ ws' \in {"NONE", "CONNECTING", "OPEN", "CLOSING", "CLOSED"}
         /\ s2c' \in Seq(ServerPackets)
         /\ written' \in Nat /\ writeCount_' \in Nat /\ writeAckCount_' \in Nat
<1>1. CASE ack >= writeAckCount_
  <2>1. Buf!Ack(ack - writeAckCount_) /\ s2c' = Tail(s2c) /\ UNCHANGED <<open, socket_, ws, host>>
    BY <1>1 DEF ApplyAck, TypeOK
  <2>2. written' \in Nat /\ writeCount_' \in Nat /\ writeAckCount_' \in Nat
    BY <2>1 DEF Buf!Ack, TypeOK
  <2>3. s2c' \in Seq(ServerPackets)
    BY <2>1, TailProperties DEF TypeOK
  <2> QED  BY <2>1, <2>2, <2>3 DEF TypeOK
<1>2. CASE ack < writeAckCount_
  BY <1>2, CloseType DEF ApplyAck, buffer, TypeOK
<1> QED  BY <1>1, <1>2 DEF TypeOK

(* Every action keeps the types. *)
LEMMA TypeStep == TypeOK /\ [Next]_vars => TypeOK'
<1> SUFFICES ASSUME TypeOK, [Next]_vars PROVE TypeOK'
  OBVIOUS
<1> USE ConstantsAssumption
<1>1. CASE Open
  BY <1>1 DEF Open, TypeOK, buffer, link, server
<1>2. ASSUME NEW n \in 1..MaxUp, Write(n) PROVE TypeOK'
  <2>1. written + n \in Nat
    BY DEF TypeOK
  <2>2. SendWrite(written + n, sendTimers) /\ sendTimers \in Nat
    BY <1>2 DEF Write, TypeOK
  <2>3. writeCount_' \in Nat /\ sendTimers' \in Nat /\ c2s' \in Seq(ClientPackets)
    BY <2>1, <2>2, SendWriteType
  <2> QED  BY <1>2, <2>1, <2>3 DEF Write, TypeOK, server
<1>3. CASE OnSendTimer
  <2>1. sendTimers - 1 \in Nat /\ written \in Nat /\ SendWrite(written, sendTimers - 1)
    BY <1>3 DEF OnSendTimer, TypeOK
  <2>2. writeCount_' \in Nat /\ sendTimers' \in Nat /\ c2s' \in Seq(ClientPackets)
    BY <2>1, SendWriteType
  <2> QED  BY <1>3, <2>2 DEF OnSendTimer, TypeOK, server
<1>4. CASE HostClose
  BY <1>4 DEF HostClose, TypeOK, buffer, link, server
<1>5. CASE OnSocketError
  BY <1>5, ReconnectOrCloseType DEF OnSocketError, TypeOK, buffer, server
<1>6. CASE OnSocketClose
  <2>1. CASE Head(events) = "close" /\ ReconnectOrClose
    BY <1>6, <2>1, ReconnectOrCloseType DEF OnSocketClose, TypeOK, buffer, server
  <2>2. CASE /\ events' = Tail(events) /\ Close_
             /\ UNCHANGED <<reconnectCount_, resumeAck, reconnectTimers>>
    <3>1. events' \in Seq({"error", "close", "cleanClose"})
      BY <1>6, <2>2, TailProperties DEF OnSocketClose, TypeOK
    <3> QED  BY <1>6, <2>2, <3>1, CloseType DEF OnSocketClose, TypeOK, buffer, server
  <2> QED  BY <1>6, <2>1, <2>2 DEF OnSocketClose
<1>7. CASE OnReconnectTimer
  BY <1>7 DEF OnReconnectTimer, TypeOK, buffer, link, server
<1>8. CASE OnSocketOpen
  <2>1. Len(srvRecv) \in Nat
    BY DEF TypeOK
  <2>2. s2c' \in {<<ConnectSuccess>>, <<ReconnectSuccess(Len(srvRecv))>>}
    BY <1>8 DEF OnSocketOpen
  <2>3. s2c' \in Seq(ServerPackets)
    BY <2>1, <2>2, PacketTypes, OneElement
  <2>4. srvSent' \in Nat /\ session' \in {"none", "live", "ended"}
    BY <1>8 DEF OnSocketOpen, TypeOK
  <2> QED  BY <1>8, <2>1, <2>3, <2>4 DEF OnSocketOpen, TypeOK, buffer
<1>9. CASE OnConnectSuccess
  <2>1. s2c' \in Seq(ServerPackets)
    BY <1>9, TailProperties DEF OnConnectSuccess, Incoming, TypeOK
  <2> QED  BY <1>9, <2>1 DEF OnConnectSuccess, TypeOK, buffer, server
<1>10. CASE OnData
  <2>1. Head(s2c) \in DataPackets /\ s2c' \in Seq(ServerPackets)
    BY <1>10, TailProperties, PacketFields DEF OnData, Incoming, TypeOK
  <2>2. Bytes(Head(s2c)) \in Seq(Nat)
    BY <2>1, BytesType
  <2>3. delivered' \in Seq(Nat) /\ readCount_' \in Nat
    BY <1>10, <2>2 DEF OnData, TypeOK
  <2>4. c2s' \in Seq(ClientPackets)
    BY <1>10, <2>3, PacketTypes, AppendProperties DEF OnData, TypeOK
  <2> QED  BY <1>10, <2>1, <2>3, <2>4 DEF OnData, TypeOK, buffer, server
<1>11. CASE OnReconnectSuccess \/ OnAck
  <2>1. Head(s2c) \in AckPackets /\ s2c # <<>>
    BY <1>11, TailProperties, PacketFields DEF OnReconnectSuccess, OnAck, Incoming, TypeOK
  <2>2. Head(s2c).ack \in Nat /\ ApplyAck(Head(s2c).ack)
    BY <1>11, <2>1 DEF OnReconnectSuccess, OnAck, AckPackets
  <2>3. CASE OnReconnectSuccess
    BY <2>1, <2>2, <2>3, ApplyAckType DEF OnReconnectSuccess, TypeOK, server
  <2>4. CASE OnAck
    BY <2>1, <2>2, <2>4, ApplyAckType DEF OnAck, TypeOK, server
  <2> QED  BY <1>11, <2>3, <2>4
<1>12. CASE WsFail \/ WsServerClosed \/ WsCloseDone
  <2>1. events' \in {<<"error", "close">>, <<"cleanClose">>} /\ ws' = "CLOSED"
    BY <1>12 DEF WsFail, WsServerClosed, WsCloseDone
  <2>2. events' \in Seq({"error", "close", "cleanClose"})
    BY <2>1, OneElement, TwoElements
  <2>3. /\ drops' \in Nat /\ c2s' = <<>> /\ s2c' = <<>>
        /\ UNCHANGED <<open, socket_, sid_, reconnectCount_, buffer, readCount_, sendTimers,
                       reconnectTimers, resumeAck, host, delivered, server>>
    BY <1>12 DEF WsFail, WsServerClosed, WsCloseDone, TypeOK
  <2>4. c2s' \in Seq(ClientPackets) /\ s2c' \in Seq(ServerPackets)
    BY <2>3, NoElements
  <2> QED  BY <2>1, <2>2, <2>3, <2>4 DEF TypeOK, buffer, server
<1>13. CASE SrvReceive
  <2>1. c2s' \in Seq(ClientPackets)
    BY <1>13, TailProperties DEF SrvReceive, TypeOK
  <2>2. CASE Head(c2s).tag = "DATA"
    <3>1. Bytes(Head(c2s)) \in Seq(Nat)
      BY <1>13, <2>2, TailProperties, PacketFields, BytesType DEF SrvReceive, TypeOK
    <3>2. srvRecv' = srvRecv \o Bytes(Head(c2s)) /\ srvAcked' = srvAcked
      BY <1>13, <2>2 DEF SrvReceive
    <3>3. srvRecv' \in Seq(Nat) /\ srvAcked' \in Nat
      BY <3>1, <3>2 DEF TypeOK
    <3> QED  BY <1>13, <2>1, <3>3 DEF SrvReceive, TypeOK, client, buffer
  <2>3. CASE Head(c2s).tag = "ACK"
    <3>1. Head(c2s).ack \in Nat
      BY <1>13, <2>3, TailProperties, PacketFields DEF SrvReceive, TypeOK, AckPackets
    <3> QED  BY <1>13, <2>1, <2>3, <3>1 DEF SrvReceive, TypeOK, client, buffer
  <2> QED  BY <1>13, <2>2, <2>3 DEF SrvReceive
<1>14. ASSUME NEW n \in 1..MaxLen, SrvSend(n) PROVE TypeOK'
  <2>1. srvSent + 1 \in Nat /\ srvSent + n \in Nat
    BY DEF TypeOK
  <2>2. s2c' \in Seq(ServerPackets)
    BY <1>14, <2>1, PacketTypes, AppendProperties DEF SrvSend, TypeOK
  <2> QED  BY <1>14, <2>1, <2>2 DEF SrvSend, TypeOK, client, buffer
<1>15. CASE SrvAck \/ SrvReverseAck
  <2>1. Len(srvRecv) \in Nat /\ 0 \in Nat
    BY DEF TypeOK
  <2>2. s2c' \in {Append(s2c, Ack(Len(srvRecv))), Append(s2c, Ack(0))}
    BY <1>15 DEF SrvAck, SrvReverseAck
  <2>3. Ack(Len(srvRecv)) \in ServerPackets /\ Ack(0) \in ServerPackets
    BY <2>1, PacketTypes
  <2>4. s2c \in Seq(ServerPackets)
    BY DEF TypeOK
  <2>5. s2c' \in Seq(ServerPackets)
    BY <2>2, <2>3, <2>4, AppendProperties
  <2> QED  BY <1>15, <2>1, <2>5 DEF SrvAck, SrvReverseAck, TypeOK, client, buffer
<1>16. CASE SrvEnd
  <2>1. s2c' \in Seq(ServerPackets)
    BY <1>16, PacketTypes, AppendProperties DEF SrvEnd, TypeOK
  <2> QED  BY <1>16, <2>1 DEF SrvEnd, TypeOK, client, buffer
<1>17. CASE UNCHANGED vars
  BY <1>17 DEF vars, TypeOK, buffer, link, server
<1> QED  BY <1>1, <1>2, <1>3, <1>4, <1>5, <1>6, <1>7, <1>8, <1>9, <1>10, <1>11, <1>12, <1>13,
            <1>14, <1>15, <1>16, <1>17 DEF Next

(* Every variable keeps its type, for every value of the constants. *)
THEOREM TypeCorrect == Spec => []TypeOK
BY TypeInit, TypeStep, PTL DEF Spec

-----------------------------------------------------------------------------
(* The life of a connection. *)

(* The downstream invariant holds before open(). *)
LEMMA InvInit == Init => DownstreamInv
<1> SUFFICES ASSUME Init PROVE DownstreamInv
  OBVIOUS
<1>1. TypeOK
  BY TypeInit
<1>2. ConnectionStates /\ SingleReconnect /\ ResumeAckCurrent /\ DownstreamInFlight
  BY DEF Init, ConnectionStates, SingleReconnect, ResumeAckCurrent, DownstreamInFlight
<1>3. DownstreamExactlyOnce /\ srvSent <= srvProduced /\ ClientAcksAreRead
  <2>1. Down!FirstBytes(0) = <<>>
    BY DEF Down!FirstBytes
  <2> QED  BY <2>1 DEF Init, DownstreamExactlyOnce, ClientAcksAreRead
<1> QED  BY <1>1, <1>2, <1>3 DEF DownstreamInv

(* The callbacks of a closed socket find no message and no timer, and leave *)
(* at most one timer and then no event.                                     *)
LEMMA LostConnection ==
  ASSUME DownstreamInv, OnSocketError \/ OnSocketClose
  PROVE  /\ ws = "CLOSED" /\ ws' = "CLOSED" /\ s2c = <<>> /\ s2c' = <<>>
         /\ open # "new" /\ open' # "new"
         /\ reconnectTimers = 0
         /\ \/ reconnectTimers' = 0 /\ UNCHANGED resumeAck
            \/ reconnectTimers' = 1 /\ resumeAck' = readCount_ /\ events' = <<>> /\ socket_' # Null
<1>1. events # <<>> /\ (ReconnectOrClose \/ (Close_ /\ UNCHANGED <<resumeAck, reconnectTimers>>))
  BY DEF OnSocketError, OnSocketClose
<1>2. ws = "CLOSED" /\ s2c = <<>> /\ open # "new" /\ reconnectTimers = 0
  BY <1>1 DEF DownstreamInv, ConnectionStates, SingleReconnect, TypeOK
<1>3. Close_ => ws' = "CLOSED" /\ s2c' = <<>> /\ open' # "new"
  BY <1>2 DEF Close_
<1>4. CASE ReconnectOrClose
  BY <1>2, <1>3, <1>4 DEF ReconnectOrClose, Reconnect
<1> QED  BY <1>1, <1>2, <1>3, <1>4

(* What the actions that neither open nor lose a connection keep. *)
connection == <<open, socket_, ws, events, reconnectTimers, resumeAck, session>>

(* No step starts a second reconnect or mixes up the states of a socket. *)
LEMMA ConnectionStep ==
  ASSUME DownstreamInv, [Next]_vars
  PROVE  ConnectionStates' /\ SingleReconnect'
<1> USE DEF ConnectionStates, SingleReconnect
<1>0. TypeOK /\ ConnectionStates /\ SingleReconnect
  BY DEF DownstreamInv
<1>1. CASE Open
  BY <1>0, <1>1 DEF Open, link, server
<1>2. ASSUME UNCHANGED connection, UNCHANGED <<s2c, readCount_, srvSent>>
      PROVE  ConnectionStates' /\ SingleReconnect'
  BY <1>0, <1>2 DEF connection
<1>3. ASSUME UNCHANGED connection, ws = "OPEN", session # "none" PROVE ConnectionStates' /\ SingleReconnect'
  BY <1>0, <1>3 DEF connection
<1>4. CASE OnSocketError \/ OnSocketClose
  <2>1. UNCHANGED <<session, readCount_, srvSent>>
    BY <1>4 DEF OnSocketError, OnSocketClose, server
  <2>2. readCount_ \in Nat /\ ~(readCount_ = NoAck)
    BY <1>0 DEF TypeOK, NoAck
  <2> QED  BY <1>0, <1>4, <2>1, <2>2, LostConnection
<1>5. CASE OnReconnectTimer
  BY <1>0, <1>5 DEF OnReconnectTimer, link, server, TypeOK, NoAck
<1>6. CASE OnSocketOpen
  BY <1>0, <1>6 DEF OnSocketOpen, TypeOK
<1>7. CASE OnConnectSuccess \/ OnData
  BY <1>0, <1>3, <1>7 DEF OnConnectSuccess, OnData, Incoming, connection, server
<1>8. CASE OnReconnectSuccess \/ OnAck
  <2>1. /\ ws = "OPEN" /\ UNCHANGED <<events, reconnectTimers, resumeAck, session, readCount_, srvSent>>
        /\ \/ UNCHANGED <<open, socket_, ws>>
           \/ Close_
    BY <1>8 DEF OnReconnectSuccess, OnAck, Incoming, ApplyAck, server
  <2>2. CASE UNCHANGED <<open, socket_, ws>>
    BY <1>0, <1>3, <2>1, <2>2 DEF connection
  <2>3. CASE Close_
    BY <1>0, <2>1, <2>3 DEF Close_
  <2> QED  BY <2>1, <2>2, <2>3
<1>9. CASE WsFail \/ WsServerClosed \/ WsCloseDone
  BY <1>0, <1>9 DEF WsFail, WsServerClosed, WsCloseDone, Incoming, server, TypeOK
<1>10. ASSUME NEW n \in 1..MaxLen, SrvSend(n) PROVE ConnectionStates' /\ SingleReconnect'
  BY <1>0, <1>3, <1>10 DEF SrvSend, client, connection
<1>11. CASE SrvAck \/ SrvReverseAck
  BY <1>0, <1>3, <1>11 DEF SrvAck, SrvReverseAck, client, connection
<1>12. CASE SrvEnd
  BY <1>0, <1>12 DEF SrvEnd, client
<1>13. CASE \/ \E n \in 1..MaxUp : Write(n)
            \/ OnSendTimer \/ SrvReceive \/ HostClose \/ UNCHANGED vars
  BY <1>2, <1>13 DEF Write, OnSendTimer, SrvReceive, HostClose, vars, client, link, server, connection
<1> QED  BY <1>1, <1>4, <1>5, <1>6, <1>7, <1>8, <1>9, <1>10, <1>11, <1>12, <1>13 DEF Next

-----------------------------------------------------------------------------
(* What is in flight downstream. *)

(* A packet that carries no data may be taken off or added. *)
LEMMA InFlightTail ==
  ASSUME NEW q \in Seq(ServerPackets), q # <<>>, Head(q).tag # "DATA",
         NEW from \in Nat, NEW to \in Nat, InFlight(q, from, to)
  PROVE  InFlight(Tail(q), from, to)
<1> DEFINE t == Tail(q)
<1>1. /\ Head(q) = q[1] /\ t \in Seq(ServerPackets)
      /\ \A i \in DOMAIN t : i \in Nat /\ i + 1 \in DOMAIN q /\ t[i] = q[i + 1]
      /\ \A i \in DOMAIN q : i # 1 => i - 1 \in DOMAIN t /\ t[i - 1] = q[i]
  OBVIOUS
<1> HIDE DEF t
<1>2. \A i, j \in DOMAIN t : i < j => i + 1 < j + 1
  BY <1>1
<1>3. ASSUME NEW b \in from+1..to
      PROVE  \E i \in DOMAIN t : t[i].tag = "DATA" /\ t[i].lo <= b /\ b <= t[i].hi
  <2>1. PICK i \in DOMAIN q : q[i].tag = "DATA" /\ q[i].lo <= b /\ b <= q[i].hi
    BY DEF InFlight
  <2>2. i # 1
    BY <2>1, <1>1
  <2>3. i - 1 \in DOMAIN t /\ t[i - 1] = q[i]
    BY <1>1, <2>2
  <2> QED  BY <2>1, <2>3
<1>4. \A i \in DOMAIN t : t[i].tag = "DATA" => from < t[i].lo /\ t[i].lo <= t[i].hi /\ t[i].hi <= to
  BY <1>1 DEF InFlight
<1>5. \A i, j \in DOMAIN t : i < j /\ t[i].tag = "DATA" /\ t[j].tag = "DATA" => t[i].hi < t[j].lo
  BY <1>1, <1>2 DEF InFlight
<1>6. InFlight(t, from, to)
  BY <1>3, <1>4, <1>5 DEF InFlight
<1> QED  BY <1>6 DEF t

(* A packet without data does not change what is in flight. *)
LEMMA InFlightAppend ==
  ASSUME NEW q \in Seq(ServerPackets), NEW e \in ServerPackets, e.tag # "DATA",
         NEW from \in Nat, NEW to \in Nat, InFlight(q, from, to)
  PROVE  InFlight(Append(q, e), from, to)
<1> DEFINE t == Append(q, e)
<1>1. /\ DOMAIN t = DOMAIN q \cup {Len(q) + 1}
      /\ \A i \in DOMAIN q : t[i] = q[i]
      /\ t[Len(q) + 1] = e
  BY AppendProperties
<1> HIDE DEF t
<1>2. \A i \in DOMAIN t : t[i].tag = "DATA" => i \in DOMAIN q /\ t[i] = q[i]
  BY <1>1
<1>3. \A b \in from+1..to : \E i \in DOMAIN t : t[i].tag = "DATA" /\ t[i].lo <= b /\ b <= t[i].hi
  BY <1>1 DEF InFlight
<1>4. InFlight(t, from, to)
  BY <1>2, <1>3 DEF InFlight
<1> QED  BY <1>4 DEF t

(* The next DATA packet starts with the next byte. *)
LEMMA InFlightRead ==
  ASSUME NEW q \in Seq(ServerPackets), q # <<>>, Head(q).tag = "DATA",
         NEW from \in Nat, NEW to \in Nat, InFlight(q, from, to)
  PROVE  /\ Head(q).lo = from + 1 /\ Head(q).hi >= Head(q).lo /\ Head(q).hi <= to
         /\ InFlight(Tail(q), Head(q).hi, to)
<1> DEFINE t == Tail(q)
           h == Head(q)
<1>1. /\ h = q[1] /\ 1 \in DOMAIN q /\ t \in Seq(ServerPackets) /\ h \in ServerPackets
      /\ \A i \in DOMAIN t : i \in Nat /\ i >= 1 /\ i + 1 \in DOMAIN q /\ t[i] = q[i + 1]
      /\ \A i \in DOMAIN q : i \in Nat /\ i >= 1 /\ (i # 1 => i - 1 \in DOMAIN t /\ t[i - 1] = q[i])
      /\ \A i \in DOMAIN q : q[i] \in ServerPackets
  OBVIOUS
<1>2. h.lo \in Nat /\ h.hi \in Nat
  BY <1>1, PacketFields DEF DataPackets
<1>9. \A i \in DOMAIN q : q[i].tag = "DATA" => q[i].lo \in Nat /\ q[i].hi \in Nat
  BY <1>1, PacketFields DEF DataPackets
<1> HIDE DEF t, h
<1>3. from < h.lo /\ h.lo <= h.hi /\ h.hi <= to /\ h.tag = "DATA"
  BY <1>1 DEF InFlight, h
<1>4. h.lo = from + 1
  <2>1. from + 1 \in from+1..to
    BY <1>2, <1>3
  <2>2. PICK i \in DOMAIN q : q[i].tag = "DATA" /\ q[i].lo <= from + 1 /\ from + 1 <= q[i].hi
    BY <2>1 DEF InFlight
  <2>3. i # 1 => 1 < i
    BY <1>1
  <2>5. i # 1 => h.hi < q[i].lo
    BY <1>1, <1>3, <2>2, <2>3 DEF InFlight
  <2>4. q[i].lo \in Nat
    BY <1>9, <2>2
  <2> QED  BY <1>1, <1>2, <1>3, <2>2, <2>5, <2>4
<1>5. \A i \in DOMAIN t : t[i].tag = "DATA" => h.hi < t[i].lo /\ t[i].lo <= t[i].hi /\ t[i].hi <= to
  BY <1>1, <1>3 DEF InFlight
<1>6. \A i, j \in DOMAIN t : i < j /\ t[i].tag = "DATA" /\ t[j].tag = "DATA" => t[i].hi < t[j].lo
  <2>1. \A i, j \in DOMAIN t : i < j => i + 1 < j + 1
    BY <1>1
  <2> QED  BY <1>1, <2>1 DEF InFlight
<1>7. ASSUME NEW b \in h.hi+1..to
      PROVE  \E i \in DOMAIN t : t[i].tag = "DATA" /\ t[i].lo <= b /\ b <= t[i].hi
  <2>1. b \in from+1..to
    BY <1>2, <1>3
  <2>2. PICK i \in DOMAIN q : q[i].tag = "DATA" /\ q[i].lo <= b /\ b <= q[i].hi
    BY <2>1 DEF InFlight
  <2>3. i # 1
    BY <1>1, <1>2, <2>2
  <2>4. i - 1 \in DOMAIN t /\ t[i - 1] = q[i]
    BY <1>1, <2>3
  <2> QED  BY <2>2, <2>4
<1>8. InFlight(t, h.hi, to)
  BY <1>3, <1>5, <1>6, <1>7 DEF InFlight
<1> QED  BY <1>3, <1>4, <1>8, <1>2 DEF t, h

(* Sending the next n bytes. *)
LEMMA InFlightSend ==
  ASSUME NEW q \in Seq(ServerPackets), NEW from \in Nat, NEW to \in Nat,
         NEW n \in Nat \ {0}, InFlight(q, from, to)
  PROVE  InFlight(Append(q, Data(to + 1, to + n)), from, to + n)
<1> DEFINE e == Data(to + 1, to + n)
           t == Append(q, e)
<1>1. e \in ServerPackets /\ e.tag = "DATA" /\ e.lo = to + 1 /\ e.hi = to + n
  BY PacketTypes DEF Data
<1>2. /\ DOMAIN t = DOMAIN q \cup {Len(q) + 1}
      /\ \A i \in DOMAIN q : t[i] = q[i] /\ i \in Nat /\ i < Len(q) + 1
      /\ t[Len(q) + 1] = e /\ Len(q) \in Nat
  BY <1>1, AppendProperties
<1>3. \A i \in DOMAIN q : q[i].tag = "DATA" => q[i].lo \in Nat /\ q[i].hi \in Nat
  BY PacketFields DEF DataPackets
<1> HIDE DEF t, e
<1>4. \A i \in DOMAIN t : t[i].tag = "DATA" => from < t[i].lo /\ t[i].lo <= t[i].hi /\ t[i].hi <= to + n
  BY <1>1, <1>2, <1>3 DEF InFlight
<1>5. \A i, j \in DOMAIN t : i < j /\ t[i].tag = "DATA" /\ t[j].tag = "DATA" => t[i].hi < t[j].lo
  BY <1>1, <1>2, <1>3 DEF InFlight
<1>6. ASSUME NEW b \in from+1..(to + n)
      PROVE  \E i \in DOMAIN t : t[i].tag = "DATA" /\ t[i].lo <= b /\ b <= t[i].hi
  <2>1. CASE b <= to
    BY <1>2, <2>1 DEF InFlight
  <2>2. CASE b > to
    BY <1>1, <1>2, <2>2
  <2> QED  BY <2>1, <2>2
<1>7. InFlight(t, from, to + n)
  BY <1>4, <1>5, <1>6 DEF InFlight
<1> QED  BY <1>7 DEF t, e

(* The stream is handed the next bytes. *)
LEMMA Deliver ==
  ASSUME NEW r \in Nat, NEW p \in DataPackets, p.lo = r + 1, p.hi >= p.lo
  PROVE  /\ Down!FirstBytes(r) \o Bytes(p) = Down!FirstBytes(p.hi)
         /\ Len(Bytes(p)) = p.hi - r
<1>1. p.hi \in Nat /\ p.lo \in Nat /\ p.hi - p.lo + 1 = p.hi - r /\ p.hi - r \in Nat
  BY DEF DataPackets
<1>2. /\ Bytes(p) \in Seq(Nat) /\ Len(Bytes(p)) = p.hi - r
      /\ \A i \in 1..(p.hi - r) : Bytes(p)[i] = r + i
  BY <1>1, BytesType DEF Bytes
<1>3. Down!FirstBytes(r) \in Seq(Nat) /\ Len(Down!FirstBytes(r)) = r
  BY DEF Down!FirstBytes
<1>4. Down!FirstBytes(p.hi) \in Seq(Nat) /\ Len(Down!FirstBytes(p.hi)) = p.hi
  BY <1>1 DEF Down!FirstBytes
<1> DEFINE a == Down!FirstBytes(r)
           b == Bytes(p)
           c == a \o b
<1>5. /\ c \in Seq(Nat) /\ Len(c) = p.hi
      /\ \A i \in 1..p.hi : c[i] = IF i <= r THEN a[i] ELSE b[i - r]
  <2>1. a \in Seq(Nat) /\ Len(a) = r /\ b \in Seq(Nat) /\ Len(b) = p.hi - r
    BY <1>2, <1>3
  <2> HIDE DEF a, b
  <2>2. /\ c \in Seq(Nat) /\ Len(c) = Len(a) + Len(b)
        /\ \A i \in 1..(Len(a) + Len(b)) : c[i] = IF i <= Len(a) THEN a[i] ELSE b[i - Len(a)]
    BY <2>1, ConcatProperties
  <2>3. Len(a) + Len(b) = p.hi
    BY <1>1, <2>1
  <2> QED  BY <2>1, <2>2, <2>3
<1>6. \A i \in 1..p.hi : c[i] = i
  BY <1>1, <1>2, <1>5 DEF Down!FirstBytes
<1>7. c = Down!FirstBytes(p.hi)
  <2> DEFINE d == Down!FirstBytes(p.hi)
  <2>1. \A i \in 1..p.hi : d[i] = i
    BY DEF Down!FirstBytes
  <2> HIDE DEF a, b, c, d
  <2>2. d \in Seq(Nat) /\ Len(d) = p.hi
    BY <1>4 DEF d
  <2>3. c = d
    BY <1>5, <1>6, <2>1, <2>2, SameElements
  <2> QED  BY <2>3 DEF d
<1> QED  BY <1>2, <1>7

(* What the actions that move no data downstream keep. *)
downstream == <<readCount_, delivered, srvSent, srvProduced>>

(* No step loses, repeats or reorders a byte on its way to the host. *)
LEMMA DownstreamStep ==
  ASSUME DownstreamInv, [Next]_vars
  PROVE  DownstreamExactlyOnce' /\ srvSent' <= srvProduced' /\ DownstreamInFlight'
<1> DEFINE Goal == DownstreamExactlyOnce' /\ srvSent' <= srvProduced' /\ DownstreamInFlight'
<1>0. /\ TypeOK /\ DownstreamExactlyOnce /\ srvSent <= srvProduced /\ DownstreamInFlight
      /\ ConnectionStates /\ ResumeAckCurrent
      /\ s2c \in Seq(ServerPackets) /\ readCount_ \in Nat /\ srvSent \in Nat /\ srvProduced \in Nat
  BY DEF DownstreamInv, TypeOK
<1>1. ASSUME UNCHANGED downstream, ws' # "OPEN" PROVE Goal
  BY <1>0, <1>1 DEF downstream, DownstreamExactlyOnce, DownstreamInFlight
<1>2. ASSUME UNCHANGED downstream, UNCHANGED <<ws, s2c>> PROVE Goal
  BY <1>0, <1>2 DEF downstream, DownstreamExactlyOnce, DownstreamInFlight
<1>3. ASSUME UNCHANGED downstream, ws = "OPEN", InFlight(s2c', readCount_, srvSent) PROVE Goal
  BY <1>0, <1>3 DEF downstream, DownstreamExactlyOnce, DownstreamInFlight
<1>4. ASSUME UNCHANGED downstream, ws = "OPEN", s2c # <<>>, Head(s2c).tag # "DATA", s2c' = Tail(s2c)
      PROVE  Goal
  <2>1. InFlight(s2c', readCount_, srvSent)
    BY <1>0, <1>4, InFlightTail DEF DownstreamInFlight
  <2> QED  BY <1>3, <1>4, <2>1
<1>5. ASSUME UNCHANGED downstream, ws = "OPEN",
             NEW e \in ServerPackets, e.tag # "DATA", s2c' = Append(s2c, e)
      PROVE  Goal
  <2>1. InFlight(s2c', readCount_, srvSent)
    BY <1>0, <1>5, InFlightAppend DEF DownstreamInFlight
  <2> QED  BY <1>3, <1>5, <2>1
<1>6. CASE Open \/ OnSocketError \/ OnSocketClose \/ OnReconnectTimer
           \/ WsFail \/ WsServerClosed \/ WsCloseDone
  <2>1. UNCHANGED downstream
    BY <1>6 DEF Open, OnSocketError, OnSocketClose, OnReconnectTimer, WsFail, WsServerClosed,
                WsCloseDone, server, downstream
  <2>2. ws' # "OPEN"
    BY <1>6, LostConnection DEF Open, OnReconnectTimer, WsFail, WsServerClosed, WsCloseDone
  <2> QED  BY <1>1, <2>1, <2>2
<1>7. CASE OnSocketOpen
  <2>1. /\ UNCHANGED <<readCount_, delivered, srvProduced>> /\ srvSent' = readCount_
        /\ s2c' \in {<<ConnectSuccess>>, <<ReconnectSuccess(Len(srvRecv))>>}
    BY <1>0, <1>7 DEF OnSocketOpen, ConnectionStates, ResumeAckCurrent
  <2>2. DOMAIN s2c' = {1} /\ s2c'[1].tag # "DATA"
    BY <2>1 DEF ConnectSuccess, ReconnectSuccess
  <2>3. InFlight(s2c', readCount_, readCount_)
    BY <1>0, <2>2 DEF InFlight
  <2> QED  BY <1>0, <2>1, <2>3 DEF DownstreamExactlyOnce, DownstreamInFlight
<1>8. CASE OnConnectSuccess
  BY <1>4, <1>8 DEF OnConnectSuccess, Incoming, server, downstream
<1>9. CASE OnData
  <2> DEFINE p == Head(s2c)
  <2>1. ws = "OPEN" /\ s2c # <<>> /\ p.tag = "DATA" /\ s2c' = Tail(s2c)
    BY <1>9 DEF OnData, Incoming
  <2>2. p \in DataPackets
    BY <1>0, <2>1, TailProperties, PacketFields
  <2>3. /\ p.lo = readCount_ + 1 /\ p.hi >= p.lo /\ p.hi <= srvSent
        /\ InFlight(Tail(s2c), p.hi, srvSent)
    BY <1>0, <2>1, InFlightRead DEF DownstreamInFlight
  <2>4. delivered' = Down!FirstBytes(p.hi) /\ readCount_' = p.hi
    <3>1. /\ Down!FirstBytes(readCount_) \o Bytes(p) = Down!FirstBytes(p.hi)
          /\ Len(Bytes(p)) = p.hi - readCount_
      BY <1>0, <2>2, <2>3, Deliver
    <3>2. p.hi \in Nat
      BY <2>2 DEF DataPackets
    <3> QED  BY <1>0, <1>9, <3>1, <3>2 DEF OnData, DownstreamExactlyOnce
  <2>5. UNCHANGED <<srvSent, srvProduced>>
    BY <1>9 DEF OnData, server
  <2>6. p.hi \in Nat
    BY <2>2 DEF DataPackets
  <2> QED  BY <1>0, <2>1, <2>3, <2>4, <2>5, <2>6 DEF DownstreamExactlyOnce, DownstreamInFlight
<1>10. CASE OnReconnectSuccess \/ OnAck
  <2>1. /\ ws = "OPEN" /\ s2c # <<>> /\ Head(s2c).tag # "DATA" /\ UNCHANGED downstream
        /\ \/ s2c' = Tail(s2c)
           \/ Close_
    BY <1>10 DEF OnReconnectSuccess, OnAck, Incoming, ApplyAck, server, downstream
  <2>2. Close_ => ws' # "OPEN" \/ UNCHANGED <<ws, s2c>>
    BY DEF Close_
  <2> QED  BY <1>1, <1>2, <1>4, <2>1, <2>2
<1>11. ASSUME NEW n \in 1..MaxLen, SrvSend(n) PROVE Goal
  <2>1. /\ ws = "OPEN" /\ UNCHANGED <<ws, readCount_, delivered>> /\ srvSent' = srvSent + n
        /\ srvProduced' = IF srvSent + n > srvProduced THEN srvSent + n ELSE srvProduced
        /\ s2c' = Append(s2c, Data(srvSent + 1, srvSent + n))
    BY <1>11 DEF SrvSend, client
  <2>2. n \in Nat \ {0}
    BY ConstantsAssumption
  <2>3. InFlight(s2c', readCount_, srvSent + n)
    BY <1>0, <2>1, <2>2, InFlightSend DEF DownstreamInFlight
  <2> QED  BY <1>0, <2>1, <2>2, <2>3 DEF DownstreamExactlyOnce, DownstreamInFlight
<1>12. CASE SrvAck \/ SrvReverseAck
  <2>1. /\ ws = "OPEN" /\ UNCHANGED downstream
        /\ s2c' \in {Append(s2c, Ack(Len(srvRecv))), Append(s2c, Ack(0))}
    BY <1>12 DEF SrvAck, SrvReverseAck, client, downstream
  <2>2. \A n \in Nat : Ack(n) \in ServerPackets /\ Ack(n).tag # "DATA"
    BY PacketTypes DEF Ack
  <2>3. Len(srvRecv) \in Nat /\ 0 \in Nat
    BY <1>0 DEF TypeOK
  <2> QED  BY <1>5, <2>1, <2>2, <2>3
<1>13. CASE SrvEnd
  <2>1. UNCHANGED downstream /\ UNCHANGED ws
    BY <1>13 DEF SrvEnd, client, downstream
  <2>2. CASE ws = "OPEN"
    <3>1. s2c' = Append(s2c, CloseFrame) /\ CloseFrame \in ServerPackets /\ CloseFrame.tag # "DATA"
      BY <1>13, <2>2, PacketTypes DEF SrvEnd, CloseFrame
    <3> QED  BY <1>5, <2>1, <2>2, <3>1
  <2> QED  BY <1>1, <2>1, <2>2
<1>14. CASE \/ \E n \in 1..MaxUp : Write(n)
            \/ OnSendTimer \/ SrvReceive \/ HostClose \/ UNCHANGED vars
  BY <1>2, <1>14 DEF Write, OnSendTimer, SrvReceive, HostClose, vars, client, link, server, downstream
<1> QED  BY <1>6, <1>7, <1>8, <1>9, <1>10, <1>11, <1>12, <1>13, <1>14 DEF Next

-----------------------------------------------------------------------------
(* What the client acks, and what it reports on a reconnect. *)

(* The client acks nothing that it has not read. *)
LEMMA ClientAcksStep ==
  ASSUME DownstreamInv, [Next]_vars
  PROVE  ClientAcksAreRead'
<1>0. TypeOK /\ ClientAcksAreRead /\ c2s \in Seq(ClientPackets) /\ readCount_ \in Nat
  BY DEF DownstreamInv, TypeOK
<1>1. ASSUME UNCHANGED <<srvAcked, readCount_>>, c2s' = c2s \/ c2s' = <<>>
      PROVE  ClientAcksAreRead'
  BY <1>0, <1>1 DEF ClientAcksAreRead
<1>2. ASSUME UNCHANGED <<srvAcked, readCount_>>, NEW e \in ClientPackets, e.tag # "ACK",
             c2s' = Append(c2s, e)
      PROVE  ClientAcksAreRead'
  BY <1>0, <1>2, AppendProperties DEF ClientAcksAreRead
<1>3. ASSUME NEW w \in Nat, NEW t \in Nat, SendWrite(w, t), UNCHANGED <<srvAcked, readCount_>>
      PROVE  ClientAcksAreRead'
  <2> DEFINE e == Data(writeCount_ + 1, Buf!Smaller(writeCount_ + MaxLen, w))
  <2>1. c2s' = c2s \/ c2s' = Append(c2s, e)
    BY <1>3 DEF SendWrite
  <2>2. writeCount_ + 1 \in Nat /\ Buf!Smaller(writeCount_ + MaxLen, w) \in Nat
    BY <1>0, ConstantsAssumption DEF TypeOK, Buf!Smaller
  <2>3. e \in ClientPackets /\ e.tag # "ACK"
    BY <2>2, PacketTypes DEF Data
  <2> QED  BY <1>1, <1>2, <1>3, <2>1, <2>3
<1>4. CASE OnData
  <2>1. /\ c2s' = Append(c2s, Ack(readCount_')) /\ srvAcked' = srvAcked
    BY <1>4 DEF OnData, server
  <2>2. readCount_' \in Nat /\ readCount_ <= readCount_'
    <3>1. Head(s2c) \in DataPackets
      BY <1>0, <1>4, TailProperties, PacketFields DEF OnData, Incoming, TypeOK
    <3>2. Len(Bytes(Head(s2c))) \in Nat
      BY <3>1, BytesType
    <3> QED  BY <1>0, <1>4, <3>2 DEF OnData
  <2>3. Ack(readCount_') \in ClientPackets /\ Ack(readCount_').ack = readCount_'
    BY <2>2, PacketTypes DEF Ack
  <2>4. \A i \in DOMAIN c2s : c2s[i].tag = "ACK" => c2s[i].ack \in Nat
    BY <1>0, PacketFields DEF AckPackets
  <2>5. srvAcked \in Nat
    BY <1>0 DEF TypeOK
  <2> QED  BY <1>0, <2>1, <2>2, <2>3, <2>4, <2>5, AppendProperties DEF ClientAcksAreRead
<1>5. CASE SrvReceive
  <2>1. c2s # <<>> /\ c2s' = Tail(c2s) /\ readCount_' = readCount_
    BY <1>5 DEF SrvReceive, client
  <2>2. srvAcked' = srvAcked \/ (Head(c2s).tag = "ACK" /\ srvAcked' = Head(c2s).ack)
    BY <1>5 DEF SrvReceive
  <2>3. srvAcked' <= readCount_'
    BY <1>0, <2>1, <2>2, TailProperties DEF ClientAcksAreRead
  <2> QED  BY <1>0, <2>1, <2>3, TailProperties DEF ClientAcksAreRead
<1>6. ASSUME NEW n \in 1..MaxUp, Write(n) PROVE ClientAcksAreRead'
  <2>1. written + n \in Nat /\ sendTimers \in Nat
    BY <1>0 DEF TypeOK
  <2> QED  BY <1>3, <1>6, <2>1 DEF Write, server
<1>7. CASE OnSendTimer
  <2>1. written \in Nat /\ sendTimers - 1 \in Nat
    BY <1>0, <1>7 DEF OnSendTimer, TypeOK
  <2> QED  BY <1>3, <1>7, <2>1 DEF OnSendTimer, server
<1>8. CASE \/ Open \/ HostClose \/ OnSocketError \/ OnSocketClose \/ OnReconnectTimer
           \/ OnSocketOpen \/ OnConnectSuccess \/ OnReconnectSuccess \/ OnAck
           \/ WsFail \/ WsServerClosed \/ WsCloseDone
           \/ (\E n \in 1..MaxLen : SrvSend(n)) \/ SrvAck \/ SrvReverseAck \/ SrvEnd
           \/ UNCHANGED vars
  BY <1>1, <1>8 DEF Open, HostClose, OnSocketError, OnSocketClose, OnReconnectTimer, OnSocketOpen,
     OnConnectSuccess, OnReconnectSuccess, OnAck, WsFail, WsServerClosed, WsCloseDone,
     SrvSend, SrvAck, SrvReverseAck, SrvEnd, vars, client, link, server
<1> QED  BY <1>4, <1>5, <1>6, <1>7, <1>8 DEF Next

(* Nothing is read between the making of a URI and its use. *)
LEMMA ResumeAckStep ==
  ASSUME DownstreamInv, [Next]_vars
  PROVE  ResumeAckCurrent'
<1> DEFINE Pending == (ws = "CONNECTING" \/ reconnectTimers > 0) /\ resumeAck # NoAck
<1>1. srvAcked' <= readCount_' /\ readCount_' <= srvProduced'
  BY ClientAcksStep, DownstreamStep DEF ClientAcksAreRead, DownstreamExactlyOnce
<1>2. Pending => resumeAck = readCount_
  BY DEF DownstreamInv, ResumeAckCurrent
<1>3. Pending' => resumeAck' = readCount_'
  <2>0. TypeOK /\ ConnectionStates /\ SingleReconnect
    BY DEF DownstreamInv
  <2>1. CASE OnSocketError \/ OnSocketClose
    BY <2>1, LostConnection DEF OnSocketError, OnSocketClose, NoAck
  <2>2. CASE Open
    BY <2>0, <2>2 DEF Open, ConnectionStates
  <2>3. CASE OnReconnectTimer
    BY <1>2, <2>3 DEF OnReconnectTimer, TypeOK
  <2>4. CASE OnSocketOpen \/ WsFail \/ WsServerClosed \/ WsCloseDone
    BY <2>0, <2>4 DEF OnSocketOpen, WsFail, WsServerClosed, WsCloseDone, Incoming, SingleReconnect
  <2>5. CASE OnConnectSuccess \/ OnData \/ OnReconnectSuccess \/ OnAck
    <3>1. ws = "OPEN" /\ UNCHANGED reconnectTimers /\ (ws' = ws \/ Close_)
      BY <2>5 DEF OnConnectSuccess, OnData, OnReconnectSuccess, OnAck, Incoming, ApplyAck
    <3> QED  BY <2>0, <3>1 DEF SingleReconnect, Close_
  <2>6. CASE \/ (\E n \in 1..MaxUp : Write(n)) \/ OnSendTimer \/ HostClose
             \/ SrvReceive \/ (\E n \in 1..MaxLen : SrvSend(n)) \/ SrvAck \/ SrvReverseAck \/ SrvEnd
             \/ UNCHANGED vars
    <3>1. UNCHANGED <<ws, reconnectTimers, resumeAck, readCount_>>
      BY <2>6 DEF Write, OnSendTimer, HostClose, SrvReceive, SrvSend, SrvAck, SrvReverseAck, SrvEnd,
                  vars, client
    <3> QED  BY <1>2, <3>1
  <2> QED  BY <2>1, <2>2, <2>3, <2>4, <2>5, <2>6 DEF Next
<1> QED  BY <1>1, <1>3 DEF ResumeAckCurrent

-----------------------------------------------------------------------------
(* The invariant, and what follows from it. *)

(* The downstream invariant always holds: what has been read, what is in   *)
(* flight and what the relay still has fit together through every loss of  *)
(* a connection (reconnect_, onSocketData_).                               *)
THEOREM DownstreamInvariant == Spec => []DownstreamInv
<1>1. DownstreamInv /\ [Next]_vars => DownstreamInv'
  BY TypeStep, ConnectionStep, DownstreamStep, ClientAcksStep, ResumeAckStep DEF DownstreamInv
<1> QED  BY InvInit, <1>1, PTL DEF Spec

(* onDataAvailable is given the ssh server's bytes once each and in order, *)
(* and readCount_ is how many, however often the connection is lost.       *)
THEOREM DownstreamCorrect == Spec => []DownstreamExactlyOnce
<1>1. DownstreamInv => DownstreamExactlyOnce
  BY DEF DownstreamInv
<1> QED  BY DownstreamInvariant, <1>1, PTL

(* A failure starts one reconnect, however its events are interleaved. *)
THEOREM OneReconnect == Spec => []SingleReconnect
<1>1. DownstreamInv => SingleReconnect
  BY DEF DownstreamInv
<1> QED  BY DownstreamInvariant, <1>1, PTL

(* The position a reconnect reports is never stale. *)
THEOREM ReportedAckIsCurrent == Spec => []ResumeAckCurrent
<1>1. DownstreamInv => ResumeAckCurrent
  BY DEF DownstreamInv
<1> QED  BY DownstreamInvariant, <1>1, PTL

-----------------------------------------------------------------------------
(* The downstream half is an ordered pipe. *)

(* Every step takes the next bytes out of the pipe, puts some in, or does  *)
(* neither.                                                                *)
LEMMA DownstreamPipeStep ==
  ASSUME DownstreamInv, DownstreamInv', [Next]_vars
  PROVE  [Down!Next]_(Down!pipe)
<1> USE DEF Down!pipe
<1>1. /\ readCount_ \in Nat /\ readCount_' \in Nat /\ srvProduced \in Nat /\ srvSent \in Nat
      /\ delivered = Down!FirstBytes(readCount_) /\ delivered' = Down!FirstBytes(readCount_')
      /\ readCount_' <= srvProduced'
  BY DEF DownstreamInv, TypeOK, DownstreamExactlyOnce
<1>2. Len(delivered) = readCount_ /\ Len(delivered') = readCount_'
  BY <1>1 DEF Down!FirstBytes
<1>3. CASE OnData
  <2>1. Head(s2c) \in DataPackets
    BY <1>3, TailProperties, PacketFields DEF OnData, Incoming, DownstreamInv, TypeOK
  <2>2. Len(Bytes(Head(s2c))) \in Nat /\ readCount_' = readCount_ + Len(Bytes(Head(s2c)))
    BY <1>3, <2>1, BytesType DEF OnData
  <2>3. srvProduced' = srvProduced
    BY <1>3 DEF OnData, server
  <2>4. CASE readCount_' = readCount_
    BY <1>1, <2>3, <2>4
  <2>5. CASE readCount_' # readCount_
    <3>1. readCount_' > readCount_ /\ readCount_' <= srvProduced
      BY <1>1, <2>2, <2>3, <2>5
    <3>2. delivered' = [i \in 1..readCount_' |-> IF i <= readCount_ THEN delivered[i] ELSE i]
      BY <1>1, <3>1 DEF Down!FirstBytes
    <3>3. Down!Get
      BY <1>2, <2>3, <3>1, <3>2 DEF Down!Get
    <3> QED  BY <3>3 DEF Down!Next
  <2> QED  BY <2>4, <2>5
<1>4. ASSUME NEW n \in 1..MaxLen, SrvSend(n) PROVE [Down!Next]_(Down!pipe)
  <2>1. delivered' = delivered
    BY <1>4 DEF SrvSend, client
  <2>2. srvProduced' = srvProduced \/ (srvProduced' \in Nat /\ srvProduced' > srvProduced)
    BY <1>1, <1>4, ConstantsAssumption DEF SrvSend
  <2> QED  BY <2>1, <2>2 DEF Down!Next, Down!Put
<1>5. CASE \/ Open \/ (\E n \in 1..MaxUp : Write(n)) \/ OnSendTimer \/ HostClose
           \/ OnSocketError \/ OnSocketClose \/ OnReconnectTimer
           \/ OnSocketOpen \/ OnConnectSuccess \/ OnReconnectSuccess \/ OnAck
           \/ WsFail \/ WsServerClosed \/ WsCloseDone
           \/ SrvReceive \/ SrvAck \/ SrvReverseAck \/ SrvEnd \/ UNCHANGED vars
  BY <1>5 DEF Open, Write, OnSendTimer, HostClose, OnSocketError, OnSocketClose, OnReconnectTimer,
     OnSocketOpen, OnConnectSuccess, OnReconnectSuccess, OnAck, WsFail, WsServerClosed, WsCloseDone,
     SrvReceive, SrvAck, SrvReverseAck, SrvEnd, vars, client, server
<1> QED  BY <1>3, <1>4, <1>5 DEF Next

(* From the ssh server's output to onDataAvailable, connections lost and    *)
(* resumed on the way, the stream is an ordered pipe.                       *)
THEOREM DownstreamIsAPipe == Spec => DownSpec
<1>1. Init => Down!Init
  BY DEF Init, Down!Init
<1> QED  BY <1>1, DownstreamInvariant, DownstreamPipeStep, PTL DEF Spec, DownSpec, Down!Spec

-----------------------------------------------------------------------------
(* The relay's packets and the client's. *)

(* The fields of the packets in flight are positions. *)
LEMMA QueuedFields ==
  ASSUME TypeOK
  PROVE  /\ \A i \in DOMAIN c2s : c2s[i].tag = "DATA" => c2s[i].lo \in Nat /\ c2s[i].hi \in Nat
         /\ \A i \in DOMAIN s2c : s2c[i].tag \in {"ACK", "RECONNECT_SUCCESS"} => s2c[i].ack \in Nat
<1>1. c2s \in Seq(ClientPackets) /\ s2c \in Seq(ServerPackets)
  BY DEF TypeOK
<1> QED  BY <1>1, PacketFields DEF DataPackets, AckPackets

(* The bytes of a packet are its positions, one after another. *)
LEMMA BytesAre ==
  ASSUME NEW p \in DataPackets, p.lo <= p.hi
  PROVE  /\ Bytes(p) \in Seq(Nat) /\ Len(Bytes(p)) = p.hi - p.lo + 1
         /\ \A i \in 1..Len(Bytes(p)) : Bytes(p)[i] = p.lo + i - 1
<1>1. p.hi - p.lo + 1 \in Nat
  BY DEF DataPackets
<1> QED  BY <1>1, BytesType DEF Bytes

(* What the ssh server has is never more than has been sent. *)
LEMMA ReceivedIsSent ==
  ASSUME srvRecv \in Seq(Nat), writeCount_ \in Nat, UpstreamPositions, UpstreamNoDuplicate
  PROVE  Len(srvRecv) <= writeCount_
<1>1. CASE Len(srvRecv) = 0
  BY <1>1
<1>2. CASE Len(srvRecv) # 0
  <2>1. Len(srvRecv) \in DOMAIN srvRecv /\ srvRecv[Len(srvRecv)] \in Nat /\ Len(srvRecv) \in Nat
    BY <1>2
  <2> QED  BY <2>1 DEF UpstreamPositions, UpstreamNoDuplicate
<1> QED  BY <1>1, <1>2

-----------------------------------------------------------------------------
(* Bytes: sent once, in order. *)

(* What has been sent, is in flight and has arrived. *)
UpstreamBytes == UpstreamNoDuplicate /\ UpstreamPositions /\ UpstreamInFlight

(* sendWrite_ sends the bytes that follow those it has sent. *)
LEMMA SendWriteBytes ==
  ASSUME TypeOK, UpstreamBytes, NEW w \in Nat, NEW t \in Nat, SendWrite(w, t), UNCHANGED srvRecv,
         writeCount_ <= w
  PROVE  UpstreamBytes' /\ writeCount_' <= w
<1> DEFINE hi == Buf!Smaller(writeCount_ + MaxLen, w)
           e == Data(writeCount_ + 1, hi)
<1>0. writeCount_ \in Nat /\ c2s \in Seq(ClientPackets) /\ srvRecv \in Seq(Nat)
  BY DEF TypeOK
<1>1. CASE UNCHANGED <<writeCount_, c2s>>
  BY <1>1 DEF UpstreamBytes, UpstreamNoDuplicate, UpstreamPositions, UpstreamInFlight
<1>2. CASE writeCount_ < w /\ c2s' = Append(c2s, e) /\ writeCount_' = hi
  <2>1. hi \in Nat /\ writeCount_ < hi /\ hi <= w
    BY <1>0, <1>2, ConstantsAssumption DEF Buf!Smaller
  <2>2. e \in ClientPackets /\ e.tag = "DATA" /\ e.lo = writeCount_ + 1 /\ e.hi = hi
    BY <1>0, <2>1, PacketTypes DEF Data
  <2> HIDE DEF e, hi
  <2>3. /\ DOMAIN c2s' = DOMAIN c2s \cup {Len(c2s) + 1} /\ c2s'[Len(c2s) + 1] = e
        /\ \A i \in DOMAIN c2s : c2s'[i] = c2s[i] /\ i \in Nat /\ i < Len(c2s) + 1
        /\ Len(c2s) \in Nat
    BY <1>0, <1>2, <2>2, AppendProperties
  <2>4. \A k \in DOMAIN srvRecv : srvRecv[k] \in Nat /\ srvRecv[k] <= writeCount_
    BY <1>0 DEF UpstreamBytes, UpstreamNoDuplicate
  <2>5. UpstreamNoDuplicate' /\ UpstreamPositions'
    BY <1>0, <1>2, <2>1, <2>4 DEF UpstreamBytes, UpstreamNoDuplicate, UpstreamPositions
  <2>6. \A i \in DOMAIN c2s : c2s[i].tag = "DATA" =>
          /\ c2s[i].lo \in Nat /\ c2s[i].hi \in Nat /\ c2s[i].hi <= writeCount_
          /\ 1 <= c2s[i].lo /\ c2s[i].lo <= c2s[i].hi
          /\ \A k \in DOMAIN srvRecv : srvRecv[k] < c2s[i].lo
    BY QueuedFields DEF UpstreamBytes, UpstreamInFlight
  <2>7. \A i \in DOMAIN c2s' : c2s'[i].tag = "DATA" =>
          /\ 1 <= c2s'[i].lo /\ c2s'[i].lo <= c2s'[i].hi /\ c2s'[i].hi <= writeCount_'
          /\ \A k \in DOMAIN srvRecv' : srvRecv'[k] < c2s'[i].lo
    <3> SUFFICES ASSUME NEW i \in DOMAIN c2s', c2s'[i].tag = "DATA"
                 PROVE  /\ 1 <= c2s'[i].lo /\ c2s'[i].lo <= c2s'[i].hi /\ c2s'[i].hi <= writeCount_'
                        /\ \A k \in DOMAIN srvRecv : srvRecv[k] < c2s'[i].lo
      OBVIOUS
    <3>1. CASE i \in DOMAIN c2s
      <4>1. c2s'[i] = c2s[i]
        BY <2>3, <3>1
      <4> QED  BY <1>0, <1>2, <2>1, <2>6, <3>1, <4>1
    <3>2. CASE i = Len(c2s) + 1
      <4>1. c2s'[i] = e
        BY <2>3, <3>2
      <4>2. \A k \in DOMAIN srvRecv : srvRecv[k] < writeCount_ + 1
        BY <1>0, <2>4
      <4> QED  BY <1>0, <1>2, <2>1, <2>2, <4>1, <4>2
    <3> QED  BY <2>3, <3>1, <3>2
  <2>8. ASSUME NEW i \in DOMAIN c2s', NEW j \in DOMAIN c2s', i < j,
               c2s'[i].tag = "DATA", c2s'[j].tag = "DATA"
        PROVE  c2s'[i].hi < c2s'[j].lo
    <3>1. i \in DOMAIN c2s
      BY <2>3, <2>8
    <3>2. CASE j \in DOMAIN c2s
      BY <2>3, <2>8, <3>1, <3>2 DEF UpstreamBytes, UpstreamInFlight
    <3>3. CASE j = Len(c2s) + 1
      BY <1>0, <2>2, <2>3, <2>6, <2>8, <3>1, <3>3
    <3> QED  BY <2>3, <3>2, <3>3
  <2>9. UpstreamInFlight'
    BY <2>7, <2>8 DEF UpstreamInFlight
  <2> QED  BY <1>2, <2>1, <2>5, <2>9 DEF UpstreamBytes
<1>3. UNCHANGED <<writeCount_, c2s>> \/ (writeCount_ < w /\ c2s' = Append(c2s, e) /\ writeCount_' = hi)
  BY DEF SendWrite
<1> HIDE DEF e, hi
<1>4. CASE UNCHANGED <<writeCount_, c2s>>
  BY <1>1, <1>4
<1> QED  BY <1>1, <1>2, <1>3

(* Taking a packet off the queue leaves the others as they are. *)
LEMMA ReceiveRest ==
  ASSUME TypeOK, UpstreamBytes, c2s # <<>>, c2s' = Tail(c2s), UNCHANGED <<srvRecv, writeCount_>>
  PROVE  UpstreamBytes'
<1>1. /\ \A i \in DOMAIN c2s' : i \in Nat /\ i + 1 \in DOMAIN c2s /\ c2s'[i] = c2s[i + 1]
  BY TailProperties DEF TypeOK
<1>2. \A i, j \in DOMAIN c2s' : i < j => i + 1 < j + 1
  BY <1>1
<1> QED  BY <1>1, <1>2 DEF UpstreamBytes, UpstreamNoDuplicate, UpstreamPositions, UpstreamInFlight

(* The packet that arrives brings bytes beyond all those that are there,   *)
(* and before all those that are still to come.                            *)
LEMMA ReceiveData ==
  ASSUME TypeOK, UpstreamBytes, c2s # <<>>, c2s' = Tail(c2s), Head(c2s).tag = "DATA",
         srvRecv' = srvRecv \o Bytes(Head(c2s)), UNCHANGED writeCount_
  PROVE  UpstreamBytes'
<1> DEFINE p == Head(c2s)
           b == Bytes(p)
           n == Len(srvRecv)
<1>1. /\ p = c2s[1] /\ 1 \in DOMAIN c2s /\ p \in DataPackets
      /\ \A i \in DOMAIN c2s' : i \in Nat /\ i >= 1 /\ i + 1 \in DOMAIN c2s /\ c2s'[i] = c2s[i + 1]
  <2>1. c2s \in Seq(ClientPackets)
    BY DEF TypeOK
  <2>2. p \in ClientPackets
    BY <2>1, TailProperties
  <2>3. p \in DataPackets
    BY <2>2, PacketFields
  <2> QED  BY <2>1, <2>3, TailProperties
<1>2. /\ p.lo \in Nat /\ p.hi \in Nat /\ 1 <= p.lo /\ p.lo <= p.hi /\ p.hi <= writeCount_
      /\ \A k \in DOMAIN srvRecv : srvRecv[k] < p.lo
  BY <1>1 DEF UpstreamBytes, UpstreamInFlight, DataPackets
<1>3. /\ b \in Seq(Nat) /\ Len(b) = p.hi - p.lo + 1 /\ \A i \in 1..Len(b) : b[i] = p.lo + i - 1
  BY <1>1, <1>2, BytesAre
<1>4. srvRecv \in Seq(Nat) /\ n \in Nat /\ writeCount_ \in Nat
  BY DEF TypeOK
<1>5. n < p.lo
  <2>1. CASE n = 0
    BY <1>2, <2>1
  <2>2. CASE n # 0
    <3>1. n \in DOMAIN srvRecv /\ srvRecv[n] \in Nat
      BY <1>4, <2>2
    <3>2. n <= srvRecv[n] /\ srvRecv[n] < p.lo
      BY <1>2, <3>1 DEF UpstreamBytes, UpstreamPositions
    <3> QED  BY <1>2, <1>4, <3>1, <3>2
  <2> QED  BY <2>1, <2>2
<1>6. /\ srvRecv' = srvRecv \o b
      /\ c2s' = Tail(c2s)
  OBVIOUS
<1> HIDE DEF p, b
<1>7. /\ DOMAIN srvRecv' = 1..(n + Len(b)) /\ Len(b) \in Nat /\ DOMAIN srvRecv = 1..n
      /\ \A i \in 1..(n + Len(b)) : srvRecv'[i] = IF i <= n THEN srvRecv[i] ELSE b[i - n]
  <2>1. srvRecv' \in Seq(Nat) /\ Len(srvRecv') = n + Len(b)
    BY <1>3, <1>4, <1>6, ConcatProperties
  <2> QED  BY <1>3, <1>4, <1>6, <2>1, ConcatProperties
<1>8. \A i \in 1..(n + Len(b)) :
        \/ i \in 1..n /\ srvRecv'[i] = srvRecv[i] /\ srvRecv[i] \in Nat /\ srvRecv[i] < p.lo
        \/ i \in n+1..(n + Len(b)) /\ srvRecv'[i] = p.lo + (i - n) - 1
  <2> SUFFICES ASSUME NEW i \in 1..(n + Len(b))
               PROVE  \/ i \in 1..n /\ srvRecv'[i] = srvRecv[i] /\ srvRecv[i] \in Nat /\ srvRecv[i] < p.lo
                      \/ i \in n+1..(n + Len(b)) /\ srvRecv'[i] = p.lo + (i - n) - 1
    OBVIOUS
  <2>1. CASE i <= n
    <3>1. i \in 1..n /\ srvRecv[i] \in Nat
      BY <1>4, <1>7, <2>1
    <3> QED  BY <1>2, <1>4, <1>7, <2>1, <3>1
  <2>2. CASE i > n
    <3>1. i - n \in 1..Len(b) /\ i \in n+1..(n + Len(b)) /\ ~(i <= n)
      BY <1>4, <1>7, <2>2
    <3>2. b[i - n] = p.lo + (i - n) - 1
      BY <1>3, <3>1
    <3> QED  BY <1>7, <3>1, <3>2
  <2> QED  BY <1>4, <1>7, <2>1, <2>2
<1>9. \A i \in 1..(n + Len(b)) : srvRecv'[i] \in Nat /\ srvRecv'[i] <= p.hi /\ i <= srvRecv'[i]
  <2> SUFFICES ASSUME NEW i \in 1..(n + Len(b))
               PROVE  srvRecv'[i] \in Nat /\ srvRecv'[i] <= p.hi /\ i <= srvRecv'[i]
    OBVIOUS
  <2>1. CASE i \in 1..n
    <3>1. srvRecv'[i] = srvRecv[i] /\ srvRecv[i] \in Nat /\ srvRecv[i] < p.lo
      BY <1>4, <1>7, <1>8, <2>1
    <3>2. i <= srvRecv[i]
      BY <1>7, <2>1 DEF UpstreamBytes, UpstreamPositions
    <3> QED  BY <1>2, <1>4, <2>1, <3>1, <3>2
  <2>2. CASE i \in n+1..(n + Len(b))
    <3>1. srvRecv'[i] = p.lo + (i - n) - 1
      BY <1>4, <1>7, <1>8, <2>2
    <3>2. Len(b) = p.hi - p.lo + 1 /\ i \in Nat /\ n < i /\ i <= n + Len(b)
      BY <1>3, <1>4, <1>7, <2>2
    <3> DEFINE x == srvRecv'[i]
               lo == p.lo
               hi == p.hi
    <3>3. /\ x = lo + (i - n) - 1 /\ lo \in Nat /\ hi \in Nat /\ n \in Nat /\ i \in Nat
          /\ n < lo /\ n < i /\ i <= n + (hi - lo + 1)
      BY <1>2, <1>4, <1>5, <3>1, <3>2
    <3> HIDE DEF x, lo, hi, n
    <3>4. x \in Nat /\ x <= hi /\ i <= x
      BY <3>3
    <3> QED  BY <3>4 DEF x, hi
  <2> QED  BY <1>4, <1>7, <2>1, <2>2
<1>10. \A i, j \in 1..(n + Len(b)) : i < j => srvRecv'[i] < srvRecv'[j]
  <2> SUFFICES ASSUME NEW i \in 1..(n + Len(b)), NEW j \in 1..(n + Len(b)), i < j
               PROVE  srvRecv'[i] < srvRecv'[j]
    OBVIOUS
  <2>1. CASE j \in 1..n
    <3>1. i \in 1..n
      BY <1>4, <1>7, <2>1
    <3>2. srvRecv[i] < srvRecv[j]
      BY <1>7, <2>1, <3>1 DEF UpstreamBytes, UpstreamNoDuplicate
    <3> QED  BY <1>4, <1>8, <2>1, <3>1, <3>2
  <2>2. CASE i \in 1..n /\ j \in n+1..(n + Len(b))
    <3>1. srvRecv'[i] = srvRecv[i] /\ srvRecv[i] \in Nat /\ srvRecv[i] < p.lo
      BY <1>4, <1>7, <1>8, <2>2
    <3>2. srvRecv'[j] = p.lo + (j - n) - 1
      BY <1>4, <1>7, <1>8, <2>2
    <3> DEFINE x == srvRecv'[i]
               y == srvRecv'[j]
               lo == p.lo
    <3>3. x \in Nat /\ x < lo /\ y = lo + (j - n) - 1 /\ lo \in Nat
      BY <1>2, <1>4, <3>1, <3>2
    <3>4. j \in Nat /\ n \in Nat /\ n < j
      BY <1>4, <1>7, <2>2
    <3> HIDE DEF x, y, lo, n
    <3>5. x < y
      BY <3>3, <3>4
    <3> QED  BY <3>5 DEF x, y
  <2>3. CASE i \in n+1..(n + Len(b)) /\ j \in n+1..(n + Len(b))
    <3>1. srvRecv'[i] = p.lo + (i - n) - 1 /\ srvRecv'[j] = p.lo + (j - n) - 1
      BY <1>4, <1>7, <1>8, <2>3
    <3> DEFINE x == srvRecv'[i]
               y == srvRecv'[j]
               lo == p.lo
    <3>2. x = lo + (i - n) - 1 /\ y = lo + (j - n) - 1 /\ lo \in Nat
      BY <1>2, <1>4, <3>1
    <3>3. i \in Nat /\ j \in Nat /\ n \in Nat /\ i < j
      BY <1>4, <1>7, <2>3
    <3> HIDE DEF x, y, lo, n
    <3>4. x < y
      BY <3>2, <3>3
    <3> QED  BY <3>4 DEF x, y
  <2> QED  BY <1>4, <1>7, <2>1, <2>2, <2>3
<1>11. UpstreamNoDuplicate' /\ UpstreamPositions'
  <2>1. \A i \in 1..(n + Len(b)) : srvRecv'[i] <= writeCount_'
    <3>1. writeCount_' = writeCount_
      OBVIOUS
    <3>2. \A x \in Nat : x <= p.hi => x <= writeCount_
      BY <1>2, <1>4
    <3> QED  BY <1>9, <3>1, <3>2
  <2> QED  BY <1>7, <1>9, <1>10, <2>1 DEF UpstreamNoDuplicate, UpstreamPositions
<1>12. ASSUME NEW i \in DOMAIN c2s', c2s'[i].tag = "DATA"
       PROVE  /\ 1 <= c2s'[i].lo /\ c2s'[i].lo <= c2s'[i].hi /\ c2s'[i].hi <= writeCount_'
              /\ \A k \in DOMAIN srvRecv' : srvRecv'[k] < c2s'[i].lo
  <2>1. i + 1 \in DOMAIN c2s /\ c2s'[i] = c2s[i + 1] /\ 1 < i + 1
    BY <1>1
  <2>2. c2s[i + 1].lo \in Nat /\ p = c2s[1] /\ p.tag = "DATA"
    BY <1>1, <1>12, <2>1, QueuedFields DEF p
  <2>3. p.hi < c2s[i + 1].lo
    BY <1>1, <1>12, <2>1, <2>2 DEF UpstreamBytes, UpstreamInFlight
  <2>4. \A k \in DOMAIN srvRecv' : srvRecv'[k] < c2s'[i].lo
    BY <1>2, <1>7, <1>9, <2>1, <2>2, <2>3
  <2> QED  BY <1>12, <2>1, <2>4 DEF UpstreamBytes, UpstreamInFlight
<1>13. ASSUME NEW i \in DOMAIN c2s', NEW j \in DOMAIN c2s', i < j,
              c2s'[i].tag = "DATA", c2s'[j].tag = "DATA"
       PROVE  c2s'[i].hi < c2s'[j].lo
  <2>1. i + 1 \in DOMAIN c2s /\ j + 1 \in DOMAIN c2s /\ i + 1 < j + 1
        /\ c2s'[i] = c2s[i + 1] /\ c2s'[j] = c2s[j + 1]
    BY <1>1, <1>13
  <2> QED  BY <1>13, <2>1 DEF UpstreamBytes, UpstreamInFlight
<1>14. UpstreamInFlight'
  BY <1>12, <1>13 DEF UpstreamInFlight
<1> QED  BY <1>11, <1>14 DEF UpstreamBytes

(* No step loses the order of the bytes, or sends one twice. *)
LEMMA UpstreamBytesStep ==
  ASSUME TypeOK, UpstreamBytes, writeCount_ <= written, [Next]_vars
  PROVE  UpstreamBytes' /\ writeCount_' <= written' /\ Len(srvRecv) <= Len(srvRecv')
<1> DEFINE Goal == UpstreamBytes' /\ writeCount_' <= written' /\ Len(srvRecv) <= Len(srvRecv')
<1>0. /\ c2s \in Seq(ClientPackets) /\ srvRecv \in Seq(Nat) /\ Len(srvRecv) \in Nat
      /\ writeCount_ \in Nat /\ written \in Nat /\ sendTimers \in Nat
  BY DEF TypeOK
<1>1. ASSUME UNCHANGED <<srvRecv, writeCount_, written>>, c2s' = c2s \/ c2s' = <<>> PROVE Goal
  BY <1>0, <1>1 DEF UpstreamBytes, UpstreamNoDuplicate, UpstreamPositions, UpstreamInFlight
<1>2. CASE OnData
  <2>1. /\ c2s' = Append(c2s, Ack(readCount_')) /\ UNCHANGED <<srvRecv, writeCount_, written>>
    BY <1>2 DEF OnData, buffer, server
  <2>2. readCount_' \in Nat
    BY <1>2, TypeStep DEF TypeOK
  <2>3. Ack(readCount_') \in ClientPackets /\ Ack(readCount_').tag # "DATA"
    BY <2>2, PacketTypes DEF Ack
  <2>4. /\ DOMAIN c2s' = DOMAIN c2s \cup {Len(c2s) + 1} /\ c2s'[Len(c2s) + 1].tag # "DATA"
        /\ \A i \in DOMAIN c2s : c2s'[i] = c2s[i]
    BY <1>0, <2>1, <2>3, AppendProperties
  <2>5. \A i \in DOMAIN c2s' : c2s'[i].tag = "DATA" => i \in DOMAIN c2s /\ c2s'[i] = c2s[i]
    BY <2>4
  <2>6. UpstreamInFlight'
    BY <2>1, <2>5 DEF UpstreamBytes, UpstreamInFlight
  <2> QED  BY <1>0, <2>1, <2>6 DEF UpstreamBytes, UpstreamNoDuplicate, UpstreamPositions
<1>3. ASSUME NEW n \in 1..MaxUp, Write(n) PROVE Goal
  <2>1. /\ written + n \in Nat /\ SendWrite(written + n, sendTimers) /\ UNCHANGED srvRecv
        /\ written' = written + n /\ writeCount_ <= written + n
    BY <1>0, <1>3 DEF Write, server
  <2>2. UpstreamBytes' /\ writeCount_' <= written + n
    BY <1>0, <2>1, SendWriteBytes
  <2> QED  BY <1>0, <2>1, <2>2
<1>4. CASE OnSendTimer
  <2>1. /\ sendTimers - 1 \in Nat /\ SendWrite(written, sendTimers - 1)
        /\ UNCHANGED <<srvRecv, written>>
    BY <1>0, <1>4 DEF OnSendTimer, server
  <2>2. UpstreamBytes' /\ writeCount_' <= written
    BY <1>0, <2>1, SendWriteBytes
  <2> QED  BY <1>0, <2>1, <2>2
<1>5. CASE SrvReceive
  <2>1. c2s # <<>> /\ c2s' = Tail(c2s) /\ UNCHANGED <<writeCount_, written>>
    BY <1>5 DEF SrvReceive, client, buffer
  <2>2. CASE Head(c2s).tag = "DATA" /\ srvRecv' = srvRecv \o Bytes(Head(c2s))
    <3>1. UpstreamBytes'
      BY <2>1, <2>2, ReceiveData
    <3>2. Bytes(Head(c2s)) \in Seq(Nat)
      BY <1>0, <2>1, <2>2, TailProperties, PacketFields, BytesType
    <3>3. Len(srvRecv') = Len(srvRecv) + Len(Bytes(Head(c2s))) /\ Len(Bytes(Head(c2s))) \in Nat
      BY <1>0, <2>2, <3>2, ConcatProperties
    <3> QED  BY <1>0, <2>1, <3>1, <3>3
  <2>3. CASE UNCHANGED srvRecv
    BY <1>0, <2>1, <2>3, ReceiveRest
  <2> QED  BY <1>5, <2>2, <2>3 DEF SrvReceive
<1>6. CASE OnReconnectSuccess \/ OnAck
  <2>1. /\ UNCHANGED <<srvRecv, c2s>>
        /\ \/ Buf!Ack(Head(s2c).ack - writeAckCount_)
           \/ UNCHANGED buffer
    BY <1>6 DEF OnReconnectSuccess, OnAck, ApplyAck, server
  <2> QED  BY <1>1, <2>1 DEF Buf!Ack, buffer
<1>7. CASE \/ Open \/ HostClose \/ OnSocketError \/ OnSocketClose \/ OnReconnectTimer
           \/ OnSocketOpen \/ OnConnectSuccess \/ WsFail \/ WsServerClosed \/ WsCloseDone
           \/ (\E n \in 1..MaxLen : SrvSend(n)) \/ SrvAck \/ SrvReverseAck \/ SrvEnd
           \/ UNCHANGED vars
  BY <1>1, <1>7 DEF Open, HostClose, OnSocketError, OnSocketClose, OnReconnectTimer, OnSocketOpen,
     OnConnectSuccess, WsFail, WsServerClosed, WsCloseDone, SrvSend, SrvAck, SrvReverseAck, SrvEnd,
     vars, client, link, server, buffer
<1> QED  BY <1>2, <1>3, <1>4, <1>5, <1>6, <1>7 DEF Next

-----------------------------------------------------------------------------
(* Acks. *)

(* What is said of the acks on their way to the stream. *)
AckState == AcksAdvance /\ AcksInOrder /\ (session = "none" => srvRecv = <<>>)

(* An ack in a queue is a position. *)
IsAck(p) == p.tag \in {"ACK", "RECONNECT_SUCCESS"}

(* Acks are kept when the queue loses its head, or loses everything, and    *)
(* what has been released stays.                                            *)
LEMMA AcksRest ==
  ASSUME TypeOK, TypeOK', AckState, UNCHANGED <<writeAckCount_, session>>,
         Len(srvRecv) <= Len(srvRecv'), session = "none" => srvRecv' = <<>>,
         writeCount_' <= written', Len(srvRecv') <= writeCount_',
         s2c' = s2c \/ s2c' = <<>> \/ (s2c # <<>> /\ s2c' = Tail(s2c))
  PROVE  AckState'
<1>1. /\ s2c \in Seq(ServerPackets) /\ Len(srvRecv) \in Nat /\ Len(srvRecv') \in Nat
      /\ writeAckCount_ \in Nat
  <2>1. srvRecv \in Seq(Nat) /\ srvRecv' \in Seq(Nat) /\ s2c \in Seq(ServerPackets) /\ writeAckCount_ \in Nat
    BY DEF TypeOK
  <2> QED  BY <2>1
<1>2. \A i \in DOMAIN s2c : IsAck(s2c[i]) => s2c[i].ack \in Nat
  BY QueuedFields DEF IsAck
<1>3. PICK d \in {0, 1} : \A i \in DOMAIN s2c' : i \in Nat /\ i + d \in DOMAIN s2c /\ s2c'[i] = s2c[i + d]
  <2>1. CASE s2c' = s2c
    BY <1>1, <2>1
  <2>2. CASE s2c' = <<>>
    BY <2>2
  <2>3. CASE s2c # <<>> /\ s2c' = Tail(s2c)
    BY <1>1, <2>3, TailProperties
  <2> QED  BY <2>1, <2>2, <2>3
<1>4. AcksAdvance'
  BY <1>1, <1>2, <1>3 DEF AckState, AcksAdvance, IsAck
<1>5. AcksInOrder'
  <2>1. \A i, j \in DOMAIN s2c' : i < j => i + d < j + d
    BY <1>3
  <2> QED  BY <1>3, <2>1 DEF AckState, AcksInOrder
<1> QED  BY <1>4, <1>5 DEF AckState

(* The relay adds an ack of all it has. *)
LEMMA AcksAppend ==
  ASSUME TypeOK, AckState, UNCHANGED <<writeAckCount_, session, srvRecv, writeCount_, written>>,
         NEW e \in ServerPackets, s2c' = Append(s2c, e),
         IsAck(e) => /\ e.ack \in Nat /\ e.ack <= Len(srvRecv)
                     /\ ServerFaulty \/ e.ack = Len(srvRecv)
  PROVE  AckState'
<1>1. /\ s2c \in Seq(ServerPackets) /\ Len(srvRecv) \in Nat /\ writeAckCount_ \in Nat
  <2>1. srvRecv \in Seq(Nat) /\ s2c \in Seq(ServerPackets) /\ writeAckCount_ \in Nat
    BY DEF TypeOK
  <2> QED  BY <2>1
<1>2. \A i \in DOMAIN s2c : IsAck(s2c[i]) => s2c[i].ack \in Nat /\ s2c[i].ack <= Len(srvRecv)
  BY QueuedFields DEF IsAck, AckState, AcksAdvance
<1>3. /\ DOMAIN s2c' = DOMAIN s2c \cup {Len(s2c) + 1} /\ s2c'[Len(s2c) + 1] = e
      /\ \A i \in DOMAIN s2c : s2c'[i] = s2c[i] /\ i \in Nat /\ i < Len(s2c) + 1
      /\ Len(s2c) \in Nat
  BY <1>1, AppendProperties
<1>4. AcksAdvance'
  <2>1. writeAckCount_ <= Len(srvRecv) /\ Len(srvRecv) <= writeCount_ /\ writeCount_ <= written
    BY DEF AckState, AcksAdvance
  <2>2. ASSUME NEW i \in DOMAIN s2c', IsAck(s2c'[i])
        PROVE  s2c'[i].ack <= Len(srvRecv) /\ (ServerFaulty \/ writeAckCount_ <= s2c'[i].ack)
    <3>1. CASE i \in DOMAIN s2c
      BY <1>3, <2>2, <3>1 DEF AckState, AcksAdvance, IsAck
    <3>2. CASE i = Len(s2c) + 1
      BY <1>1, <1>3, <2>1, <2>2, <3>2
    <3> QED  BY <1>3, <3>1, <3>2
  <2> QED  BY <2>1, <2>2 DEF AcksAdvance, IsAck
<1>5. AcksInOrder'
  <2> SUFFICES ASSUME ~ServerFaulty, NEW i \in DOMAIN s2c', NEW j \in DOMAIN s2c', i < j,
                      IsAck(s2c'[i]), IsAck(s2c'[j])
               PROVE  s2c'[i].ack <= s2c'[j].ack
    BY DEF AcksInOrder, IsAck
  <2>1. i \in DOMAIN s2c
    BY <1>3
  <2>2. CASE j \in DOMAIN s2c
    BY <1>3, <2>1, <2>2 DEF AckState, AcksInOrder, IsAck
  <2>3. CASE j = Len(s2c) + 1
    BY <1>1, <1>2, <1>3, <2>1, <2>3
  <2> QED  BY <1>3, <2>2, <2>3
<1> QED  BY <1>4, <1>5 DEF AckState

(* Taking an ack: the stream releases what the relay has, or closes. *)
LEMMA AckTaken ==
  ASSUME TypeOK, AckState, s2c # <<>>, IsAck(Head(s2c)), ApplyAck(Head(s2c).ack),
         UNCHANGED <<session, srvRecv>>
  PROVE  AckState'
<1> DEFINE ack == Head(s2c).ack
<1>1. /\ s2c \in Seq(ServerPackets) /\ Len(srvRecv) \in Nat /\ writeAckCount_ \in Nat
  <2>1. srvRecv \in Seq(Nat) /\ s2c \in Seq(ServerPackets) /\ writeAckCount_ \in Nat
    BY DEF TypeOK
  <2> QED  BY <2>1
<1>2. \A i \in DOMAIN s2c : IsAck(s2c[i]) => s2c[i].ack \in Nat /\ s2c[i].ack <= Len(srvRecv)
  BY QueuedFields DEF IsAck, AckState, AcksAdvance
<1>3. /\ Head(s2c) = s2c[1] /\ 1 \in DOMAIN s2c
      /\ \A i \in DOMAIN Tail(s2c) :
           i \in Nat /\ 1 < i + 1 /\ i + 1 \in DOMAIN s2c /\ Tail(s2c)[i] = s2c[i + 1]
  BY <1>1, TailProperties
<1>4. ack \in Nat /\ ack <= Len(srvRecv)
  BY <1>2, <1>3
<1>5. CASE ack >= writeAckCount_
  <2>1. /\ writeAckCount_' = ack /\ UNCHANGED <<written, writeCount_>> /\ s2c' = Tail(s2c)
    <3>1. ~(ack < writeAckCount_)
      BY <1>1, <1>4, <1>5
    <3>2. Buf!Ack(ack - writeAckCount_) /\ s2c' = Tail(s2c)
      BY <3>1 DEF ApplyAck
    <3> QED  BY <1>1, <1>4, <3>2 DEF Buf!Ack
  <2>2. AcksAdvance'
    <3>1. ASSUME NEW i \in DOMAIN s2c', IsAck(s2c'[i])
          PROVE  s2c'[i].ack <= Len(srvRecv) /\ (ServerFaulty \/ ack <= s2c'[i].ack)
      <4>1. 1 < i + 1 /\ i + 1 \in DOMAIN s2c /\ s2c'[i] = s2c[i + 1]
        BY <1>3, <2>1
      <4> QED  BY <1>2, <1>3, <3>1, <4>1 DEF AckState, AcksInOrder, IsAck
    <3> QED  BY <1>4, <2>1, <3>1 DEF AckState, AcksAdvance, IsAck
  <2>3. AcksInOrder'
    <3>1. \A i, j \in DOMAIN s2c' : i < j => i + 1 < j + 1
      BY <1>3, <2>1
    <3> QED  BY <1>3, <2>1, <3>1 DEF AckState, AcksInOrder
  <2> QED  BY <2>2, <2>3 DEF AckState
<1>6. CASE ack < writeAckCount_
  <2>1. Close_ /\ UNCHANGED <<written, writeCount_, writeAckCount_>>
    BY <1>1, <1>4, <1>6 DEF ApplyAck, buffer
  <2>2. s2c' = s2c \/ s2c' = <<>>
    BY <2>1 DEF Close_
  <2> QED  BY <2>1, <2>2 DEF AckState, AcksAdvance, AcksInOrder
<1> QED  BY <1>1, <1>4, <1>5, <1>6

(* No step makes an ack pass what the ssh server has. *)
LEMMA AcksStep ==
  ASSUME TypeOK, TypeOK', ConnectionStates, UpstreamBytes, UpstreamBytes', AckState, [Next]_vars
  PROVE  AckState'
<1>0. /\ writeCount_' <= written' /\ Len(srvRecv) <= Len(srvRecv') /\ Len(srvRecv') <= writeCount_'
  <2>1. writeCount_ <= written
    BY DEF AckState, AcksAdvance
  <2>2. srvRecv' \in Seq(Nat) /\ writeCount_' \in Nat /\ UpstreamPositions' /\ UpstreamNoDuplicate'
    BY DEF TypeOK, UpstreamBytes
  <2>3. Len(srvRecv') <= writeCount_'
    <3>1. CASE Len(srvRecv') = 0
      BY <2>2, <3>1
    <3>2. CASE Len(srvRecv') # 0
      <4>1. Len(srvRecv') \in DOMAIN srvRecv' /\ srvRecv'[Len(srvRecv')] \in Nat /\ Len(srvRecv') \in Nat
        BY <2>2, <3>2
      <4> QED  BY <2>2, <4>1 DEF UpstreamPositions, UpstreamNoDuplicate
    <3> QED  BY <3>1, <3>2
  <2> QED  BY <2>1, <2>3, UpstreamBytesStep
<1>1. CASE \/ Open \/ (\E n \in 1..MaxUp : Write(n)) \/ OnSendTimer \/ HostClose
           \/ OnReconnectTimer \/ UNCHANGED vars
  <2>1. UNCHANGED <<writeAckCount_, session, srvRecv, s2c>>
    BY <1>1 DEF Open, Write, OnSendTimer, HostClose, OnReconnectTimer, vars, link, server, buffer
  <2> QED  BY <1>0, <2>1, AcksRest DEF AckState
<1>2. CASE OnSocketError \/ OnSocketClose
  <2>1. UNCHANGED <<writeAckCount_, session, srvRecv>>
    BY <1>2 DEF OnSocketError, OnSocketClose, server, buffer
  <2>2. Close_ => s2c' = s2c \/ s2c' = <<>>
    BY DEF Close_
  <2>3. ReconnectOrClose => s2c' = s2c \/ s2c' = <<>>
    BY <2>2 DEF ReconnectOrClose, Reconnect
  <2>4. s2c' = s2c \/ s2c' = <<>>
    BY <1>2, <2>2, <2>3 DEF OnSocketError, OnSocketClose
  <2> QED  BY <1>0, <2>1, <2>4, AcksRest DEF AckState
<1>3. CASE OnConnectSuccess \/ OnData \/ WsFail \/ WsServerClosed \/ WsCloseDone
  <2>1. /\ UNCHANGED <<writeAckCount_, session, srvRecv>>
        /\ s2c' = <<>> \/ (s2c # <<>> /\ s2c' = Tail(s2c))
    BY <1>3 DEF OnConnectSuccess, OnData, Incoming, WsFail, WsServerClosed, WsCloseDone, server, buffer
  <2> QED  BY <1>0, <2>1, AcksRest DEF AckState
<1>4. CASE SrvReceive
  <2>1. UNCHANGED <<writeAckCount_, session, s2c>> /\ session = "live"
    BY <1>4 DEF SrvReceive, client, buffer
  <2> QED  BY <1>0, <2>1, AcksRest DEF AckState
<1>5. CASE OnReconnectSuccess \/ OnAck
  <2>1. /\ s2c # <<>> /\ IsAck(Head(s2c)) /\ ApplyAck(Head(s2c).ack) /\ UNCHANGED <<session, srvRecv>>
    BY <1>5 DEF OnReconnectSuccess, OnAck, Incoming, IsAck, server
  <2> QED  BY <2>1, AckTaken
<1>6. CASE OnSocketOpen
  <2>1. /\ UNCHANGED <<writeAckCount_, written, writeCount_, srvRecv>> /\ session' = "live"
        /\ s2c' \in {<<ConnectSuccess>>, <<ReconnectSuccess(Len(srvRecv))>>}
    BY <1>6 DEF OnSocketOpen, buffer
  <2>2. Len(srvRecv) \in Nat /\ writeAckCount_ <= Len(srvRecv) /\ writeAckCount_ \in Nat
    <3>1. srvRecv \in Seq(Nat) /\ writeAckCount_ \in Nat
      BY DEF TypeOK
    <3> QED  BY <3>1 DEF AckState, AcksAdvance
  <2>3. DOMAIN s2c' = {1} /\ (IsAck(s2c'[1]) => s2c'[1].ack = Len(srvRecv))
    BY <2>1 DEF ConnectSuccess, ReconnectSuccess, IsAck
  <2> QED  BY <2>1, <2>2, <2>3 DEF AckState, AcksAdvance, AcksInOrder, IsAck
<1>7. CASE \/ (\E n \in 1..MaxLen : SrvSend(n)) \/ SrvAck \/ SrvReverseAck
  <2>1. UNCHANGED <<writeAckCount_, session, srvRecv, writeCount_, written>>
    BY <1>7 DEF SrvSend, SrvAck, SrvReverseAck, client, buffer
  <2>2. Len(srvRecv) \in Nat /\ srvSent \in Nat
    <3>1. srvRecv \in Seq(Nat) /\ srvSent \in Nat
      BY DEF TypeOK
    <3> QED  BY <3>1
  <2>3. ASSUME NEW n \in 1..MaxLen, SrvSend(n) PROVE AckState'
    <3>1. srvSent + 1 \in Nat /\ srvSent + n \in Nat
      BY <2>2
    <3> DEFINE e == Data(srvSent + 1, srvSent + n)
    <3>2. e \in ServerPackets /\ ~IsAck(e)
      BY <3>1, PacketTypes DEF Data, IsAck
    <3>3. s2c' = Append(s2c, e)
      BY <2>3 DEF SrvSend
    <3> HIDE DEF e
    <3> QED  BY <2>1, <3>2, <3>3, AcksAppend
  <2>4. CASE SrvAck
    <3>1. Ack(Len(srvRecv)) \in ServerPackets /\ Ack(Len(srvRecv)).ack = Len(srvRecv)
      BY <2>2, PacketTypes DEF Ack
    <3>2. s2c' = Append(s2c, Ack(Len(srvRecv)))
      BY <2>4 DEF SrvAck
    <3> QED  BY <2>1, <2>2, <3>1, <3>2, AcksAppend
  <2>5. CASE SrvReverseAck
    <3>1. Ack(0) \in ServerPackets /\ Ack(0).ack = 0
      BY PacketTypes DEF Ack
    <3>2. s2c' = Append(s2c, Ack(0)) /\ ServerFaulty
      BY <2>5 DEF SrvReverseAck
    <3> QED  BY <2>1, <2>2, <3>1, <3>2, AcksAppend
  <2> QED  BY <1>7, <2>3, <2>4, <2>5
<1>8. CASE SrvEnd
  <2>1. /\ UNCHANGED <<writeAckCount_, srvRecv, writeCount_, written>> /\ session' = "ended"
        /\ \/ s2c' = s2c
           \/ s2c' = Append(s2c, CloseFrame)
    BY <1>8 DEF SrvEnd, client, buffer
  <2>2. s2c \in Seq(ServerPackets) /\ CloseFrame \in ServerPackets /\ ~IsAck(CloseFrame)
    BY PacketTypes DEF TypeOK, CloseFrame, IsAck
  <2>3. \A i \in DOMAIN s2c' : IsAck(s2c'[i]) => i \in DOMAIN s2c /\ s2c'[i] = s2c[i]
    BY <2>1, <2>2, AppendProperties
  <2> QED  BY <2>1, <2>3 DEF AckState, AcksAdvance, AcksInOrder, IsAck
<1> QED  BY <1>1, <1>2, <1>3, <1>4, <1>5, <1>6, <1>7, <1>8 DEF Next

-----------------------------------------------------------------------------
(* Nothing is stuck. *)

(* What starts sendWrite_ again, or ends the connection, is on its way. *)
Restarts(q) == \E i \in DOMAIN q : q[i].tag \in {"RECONNECT_SUCCESS", "CLOSE"}

(* It stays there until it is taken. *)
LEMMA RestartsStay ==
  ASSUME NEW q \in Seq(ServerPackets), Restarts(q)
  PROVE  /\ q # <<>> /\ Head(q).tag \notin {"RECONNECT_SUCCESS", "CLOSE"} => Restarts(Tail(q))
         /\ \A e \in ServerPackets : Restarts(Append(q, e))
<1>1. PICK i \in DOMAIN q : q[i].tag \in {"RECONNECT_SUCCESS", "CLOSE"}
  BY DEF Restarts
<1>2. ASSUME q # <<>>, Head(q).tag \notin {"RECONNECT_SUCCESS", "CLOSE"} PROVE Restarts(Tail(q))
  <2>1. Head(q) = q[1] /\ i # 1
    BY <1>1, <1>2, TailProperties
  <2>2. i - 1 \in DOMAIN Tail(q) /\ Tail(q)[i - 1] = q[i]
    BY <1>2, <2>1
  <2> QED  BY <1>1, <2>2 DEF Restarts
<1>3. ASSUME NEW e \in ServerPackets PROVE Restarts(Append(q, e))
  BY <1>1, AppendProperties DEF Restarts
<1> QED  BY <1>2, <1>3

(* sendWrite_ leaves nothing behind without a timer. *)
LEMMA SendWriteRestarts ==
  ASSUME TypeOK, NEW w \in Nat, NEW t \in Nat, SendWrite(w, t), socket_ # Null, ws = "OPEN",
         writeCount_' < w
  PROVE  sendTimers' > 0
BY DEF TypeOK, SendWrite

(* No step leaves data in writeBuffer_ with nothing to send it. *)
LEMMA NoStuckStep ==
  ASSUME DownstreamInv, NoStuckBytes, AckState, [Next]_vars
  PROVE  NoStuckBytes'
<1>0. /\ TypeOK /\ ConnectionStates /\ sendTimers \in Nat /\ s2c \in Seq(ServerPackets)
      /\ written \in Nat /\ srvRecv \in Seq(Nat) /\ writeAckCount_ \in Nat
  BY DEF DownstreamInv, TypeOK
<1>1. ASSUME UNCHANGED <<written, writeCount_, sendTimers>>, UNCHANGED <<socket_, ws>>,
             Restarts(s2c) => Restarts(s2c')
      PROVE  NoStuckBytes'
  BY <1>1 DEF NoStuckBytes, Restarts
<1>2. ASSUME NEW n \in 1..MaxUp, Write(n) PROVE NoStuckBytes'
  <2>1. /\ written + n \in Nat /\ written' = written + n /\ SendWrite(written + n, sendTimers)
        /\ UNCHANGED <<socket_, ws>>
    BY <1>0, <1>2 DEF Write
  <2> QED  BY <1>0, <2>1, SendWriteRestarts DEF NoStuckBytes
<1>3. CASE OnSendTimer
  <2>1. /\ sendTimers - 1 \in Nat /\ written' = written /\ SendWrite(written, sendTimers - 1)
        /\ UNCHANGED <<socket_, ws>>
    BY <1>0, <1>3 DEF OnSendTimer
  <2> QED  BY <1>0, <2>1, SendWriteRestarts DEF NoStuckBytes
<1>4. CASE OnSocketOpen
  <2>1. \/ session = "none"
        \/ s2c' = <<ReconnectSuccess(Len(srvRecv))>>
    BY <1>4 DEF OnSocketOpen
  <2>2. CASE session = "none"
    <3>1. writeAckCount_ = 0
      BY <1>0, <2>2 DEF AckState, AcksAdvance
    <3>2. sendTimers' > 0
      BY <1>0, <1>4, <3>1 DEF OnSocketOpen
    <3> QED  BY <3>2 DEF NoStuckBytes
  <2>3. CASE s2c' = <<ReconnectSuccess(Len(srvRecv))>>
    <3>1. 1 \in DOMAIN s2c' /\ s2c'[1].tag = "RECONNECT_SUCCESS"
      BY <2>3 DEF ReconnectSuccess
    <3> QED  BY <3>1 DEF NoStuckBytes
  <2> QED  BY <2>1, <2>2, <2>3
<1>5. CASE OnConnectSuccess \/ OnData
  <2>1. /\ s2c # <<>> /\ Head(s2c).tag \notin {"RECONNECT_SUCCESS", "CLOSE"} /\ s2c' = Tail(s2c)
        /\ UNCHANGED <<written, writeCount_, sendTimers, socket_, ws>>
    BY <1>5 DEF OnConnectSuccess, OnData, Incoming, buffer
  <2> QED  BY <1>0, <1>1, <2>1, RestartsStay
<1>6. CASE OnAck
  <2>1. /\ s2c # <<>> /\ Head(s2c).tag \notin {"RECONNECT_SUCCESS", "CLOSE"}
        /\ UNCHANGED sendTimers /\ ApplyAck(Head(s2c).ack)
    BY <1>6 DEF OnAck, Incoming
  <2>2. CASE /\ UNCHANGED <<written, writeCount_>> /\ s2c' = Tail(s2c) /\ UNCHANGED <<socket_, ws>>
    BY <1>0, <1>1, <2>1, <2>2, RestartsStay
  <2>3. CASE Close_
    BY <2>3 DEF Close_, NoStuckBytes
  <2> QED  BY <2>1, <2>2, <2>3 DEF ApplyAck, Buf!Ack
<1>7. CASE OnReconnectSuccess
  BY <1>0, <1>7 DEF OnReconnectSuccess, NoStuckBytes
<1>8. CASE Open \/ OnSocketError \/ OnSocketClose \/ OnReconnectTimer
           \/ WsFail \/ WsServerClosed \/ WsCloseDone
  <2>1. ws' # "OPEN"
    BY <1>8, LostConnection DEF Open, OnReconnectTimer, WsFail, WsServerClosed, WsCloseDone
  <2> QED  BY <2>1 DEF NoStuckBytes
<1>9. CASE (\E n \in 1..MaxLen : SrvSend(n)) \/ SrvAck \/ SrvReverseAck \/ SrvEnd
  <2>1. UNCHANGED <<written, writeCount_, sendTimers, socket_, ws>>
    BY <1>9 DEF SrvSend, SrvAck, SrvReverseAck, SrvEnd, client, buffer
  <2>2. /\ \A n \in 1..MaxLen : Data(srvSent + 1, srvSent + n) \in ServerPackets
        /\ Ack(Len(srvRecv)) \in ServerPackets /\ Ack(0) \in ServerPackets
        /\ CloseFrame \in ServerPackets
    <3>1. srvSent \in Nat /\ Len(srvRecv) \in Nat
      BY <1>0 DEF TypeOK
    <3>2. \A n \in 1..MaxLen : srvSent + 1 \in Nat /\ srvSent + n \in Nat
      BY <3>1
    <3> QED  BY <3>1, <3>2, PacketTypes
  <2>3. s2c' = s2c \/ \E e \in ServerPackets : s2c' = Append(s2c, e)
    BY <1>9, <2>2 DEF SrvSend, SrvAck, SrvReverseAck, SrvEnd
  <2> QED  BY <1>0, <1>1, <2>1, <2>3, RestartsStay
<1>10. CASE HostClose \/ SrvReceive \/ UNCHANGED vars
  <2>1. UNCHANGED <<written, writeCount_, sendTimers, socket_, ws, s2c>>
    BY <1>10 DEF HostClose, SrvReceive, vars, client, link, buffer
  <2> QED  BY <1>1, <2>1
<1> QED  BY <1>2, <1>3, <1>4, <1>5, <1>6, <1>7, <1>8, <1>9, <1>10 DEF Next

-----------------------------------------------------------------------------
(* The upstream invariant. *)

(* The upstream invariant holds before open(). *)
LEMMA UpstreamInit == Init => UpstreamInv
BY DEF Init, Buf!Init, UpstreamInv, UpstreamNoDuplicate, AcksAdvance, NoStuckBytes, UpstreamInFlight,
       UpstreamPositions, AcksInOrder

(* No step breaks it. *)
LEMMA UpstreamStep ==
  ASSUME DownstreamInv, DownstreamInv', UpstreamInv, [Next]_vars
  PROVE  UpstreamInv'
<1>1. TypeOK /\ TypeOK' /\ ConnectionStates
  BY DEF DownstreamInv
<1>2. UpstreamBytes /\ AckState /\ NoStuckBytes /\ writeCount_ <= written
  BY DEF UpstreamInv, UpstreamBytes, AckState, AcksAdvance
<1>3. UpstreamBytes'
  BY <1>1, <1>2, UpstreamBytesStep
<1>4. AckState'
  BY <1>1, <1>2, <1>3, AcksStep
<1>5. NoStuckBytes'
  BY <1>2, NoStuckStep
<1> QED  BY <1>3, <1>4, <1>5 DEF UpstreamInv, UpstreamBytes, AckState

(* However often the connection is lost and resumed, and whatever the      *)
(* relay acks: the ssh server gets no byte twice or out of order, no ack   *)
(* makes writeBuffer_ release a byte that has not arrived or not been      *)
(* sent, and data never waits on an open connection with nothing to send   *)
(* it (sendWrite_, onSocketOpen_, onSocketData_).                          *)
THEOREM UpstreamInvariant == Spec => []UpstreamInv
<1>1. DownstreamInv /\ DownstreamInv' /\ UpstreamInv /\ [Next]_vars => UpstreamInv'
  BY UpstreamStep
<1> QED  BY DownstreamInvariant, UpstreamInit, <1>1, PTL DEF Spec

-----------------------------------------------------------------------------
(* Without resuming the upstream half is an ordered pipe too. *)

(* The client's packets are among those the lemmas on what is in flight    *)
(* speak of.                                                               *)
LEMMA ClientQueues == ASSUME NEW q \in Seq(ClientPackets) PROVE q \in Seq(ServerPackets)
<1>1. ClientPackets \subseteq ServerPackets
  BY DEF ClientPackets, ServerPackets
<1> QED  BY <1>1

(* Before open() there is no connection. *)
LEMMA OneConnectionInit == Init => OneConnection
<1>1. Up!FirstBytes(0) = <<>>
  BY DEF Up!FirstBytes
<1> QED  BY <1>1 DEF Init, Buf!Init, OneConnection

(* sendWrite_ adds what it sends to what is in flight. *)
LEMMA SendWriteInFlight ==
  ASSUME TypeOK, OneConnection, NEW w \in Nat, NEW t \in Nat, SendWrite(w, t),
         UNCHANGED <<srvRecv, ws, resumeAck, reconnectTimers>>
  PROVE  OneConnection'
<1> DEFINE hi == Buf!Smaller(writeCount_ + MaxLen, w)
<1>0. /\ writeCount_ \in Nat /\ c2s \in Seq(ServerPackets) /\ Len(srvRecv) \in Nat
  <2>1. writeCount_ \in Nat /\ c2s \in Seq(ClientPackets) /\ srvRecv \in Seq(Nat)
    BY DEF TypeOK
  <2> QED  BY <2>1, ClientQueues
<1>1. CASE UNCHANGED <<writeCount_, c2s>>
  BY <1>1 DEF OneConnection
<1>2. CASE /\ ws = "OPEN" /\ writeCount_ < w
           /\ c2s' = Append(c2s, Data(writeCount_ + 1, hi)) /\ writeCount_' = hi
  <2>1. hi \in Nat /\ hi - writeCount_ \in Nat \ {0} /\ hi = writeCount_ + (hi - writeCount_)
    BY <1>0, <1>2, ConstantsAssumption DEF Buf!Smaller
  <2> HIDE DEF hi
  <2>2. InFlight(c2s, Len(srvRecv), writeCount_)
    BY <1>2 DEF OneConnection
  <2> DEFINE n == hi - writeCount_
  <2>3. n \in Nat \ {0} /\ writeCount_ + n = hi
    BY <1>0, <2>1
  <2> HIDE DEF n
  <2>4. InFlight(Append(c2s, Data(writeCount_ + 1, writeCount_ + n)), Len(srvRecv), writeCount_ + n)
    BY <1>0, <2>2, <2>3, InFlightSend
  <2>5. InFlight(c2s', Len(srvRecv), writeCount_')
    BY <1>2, <2>3, <2>4
  <2>6. Len(srvRecv') = Len(srvRecv)
    OBVIOUS
  <2> QED  BY <1>2, <2>5, <2>6 DEF OneConnection
<1>3. \/ UNCHANGED <<writeCount_, c2s>>
      \/ /\ ws = "OPEN" /\ writeCount_ < w
         /\ c2s' = Append(c2s, Data(writeCount_ + 1, hi)) /\ writeCount_' = hi
  BY DEF SendWrite
<1> HIDE DEF hi
<1> QED  BY <1>1, <1>2, <1>3

(* The ssh server is handed the next bytes. *)
LEMMA ServerGets ==
  ASSUME TypeOK, OneConnection, c2s # <<>>, c2s' = Tail(c2s), Head(c2s).tag = "DATA",
         srvRecv' = srvRecv \o Bytes(Head(c2s)),
         UNCHANGED <<writeCount_, ws, resumeAck, reconnectTimers>>
  PROVE  OneConnection'
<1> DEFINE p == Head(c2s)
           n == Len(srvRecv)
<1>0. /\ writeCount_ \in Nat /\ c2s \in Seq(ServerPackets) /\ n \in Nat
      /\ ws \in {"NONE", "CONNECTING", "OPEN", "CLOSING", "CLOSED"}
  <2>1. /\ writeCount_ \in Nat /\ c2s \in Seq(ClientPackets) /\ srvRecv \in Seq(Nat)
        /\ ws \in {"NONE", "CONNECTING", "OPEN", "CLOSING", "CLOSED"}
    BY DEF TypeOK
  <2> QED  BY <2>1, ClientQueues
<1>1. ws \in {"OPEN", "CLOSING"} /\ InFlight(c2s, n, writeCount_)
  BY <1>0 DEF OneConnection
<1>2. p \in DataPackets
  BY <1>0, TailProperties, PacketFields
<1>3. p.lo = n + 1 /\ p.hi >= p.lo /\ p.hi <= writeCount_ /\ InFlight(Tail(c2s), p.hi, writeCount_)
  BY <1>0, <1>1, InFlightRead
<1>4. Down!FirstBytes(n) \o Bytes(p) = Down!FirstBytes(p.hi)
  BY <1>0, <1>2, <1>3, Deliver
<1>5. p.hi \in Nat
  BY <1>2 DEF DataPackets
<1>6. Up!FirstBytes(p.hi) = Down!FirstBytes(p.hi) /\ Up!FirstBytes(n) = Down!FirstBytes(n)
  BY DEF Up!FirstBytes, Down!FirstBytes
<1>7. srvRecv = Up!FirstBytes(n)
  BY DEF OneConnection
<1>8. srvRecv' = Up!FirstBytes(p.hi)
  BY <1>4, <1>6, <1>7
<1>9. Len(srvRecv') = p.hi
  BY <1>5, <1>8 DEF Up!FirstBytes
<1> QED  BY <1>1, <1>3, <1>8, <1>9 DEF OneConnection

(* Without resuming a lost connection is not replaced. *)
LEMMA OneConnectionStep ==
  ASSUME ~Resume, DownstreamInv, DownstreamInv', UpstreamInv, OneConnection, [Next]_vars
  PROVE  OneConnection'
<1>0. /\ TypeOK /\ ConnectionStates /\ c2s \in Seq(ServerPackets) /\ Len(srvRecv) \in Nat
      /\ writeCount_ \in Nat /\ written \in Nat /\ sendTimers \in Nat
      /\ resumeAck = NoAck /\ reconnectTimers = 0
  <2>1. /\ TypeOK /\ ConnectionStates /\ c2s \in Seq(ClientPackets) /\ srvRecv \in Seq(Nat)
        /\ writeCount_ \in Nat /\ written \in Nat /\ sendTimers \in Nat
    BY DEF DownstreamInv, TypeOK
  <2> QED  BY <2>1, ClientQueues DEF OneConnection
<1>1. ASSUME UNCHANGED <<ws, c2s, srvRecv, writeCount_, resumeAck, reconnectTimers>>
      PROVE  OneConnection'
  BY <1>1 DEF OneConnection
<1>2. ASSUME ws' = "CLOSED", c2s' = <<>>, UNCHANGED <<srvRecv, resumeAck, reconnectTimers>>
      PROVE  OneConnection'
  BY <1>2 DEF OneConnection
<1>3. CASE Open
  BY <1>0, <1>3 DEF Open, ConnectionStates, OneConnection, buffer, link, server
<1>4. ASSUME NEW n \in 1..MaxUp, Write(n) PROVE OneConnection'
  <2>1. /\ written + n \in Nat /\ SendWrite(written + n, sendTimers)
        /\ UNCHANGED <<srvRecv, ws, resumeAck, reconnectTimers>>
    BY <1>0, <1>4 DEF Write, server
  <2> QED  BY <1>0, <2>1, SendWriteInFlight
<1>5. CASE OnSendTimer
  <2>1. /\ sendTimers - 1 \in Nat /\ SendWrite(written, sendTimers - 1)
        /\ UNCHANGED <<srvRecv, ws, resumeAck, reconnectTimers>>
    BY <1>0, <1>5 DEF OnSendTimer, server
  <2> QED  BY <1>0, <2>1, SendWriteInFlight
<1>6. CASE OnSocketError \/ OnSocketClose
  <2>1. ws = "CLOSED" /\ ws' = "CLOSED" /\ UNCHANGED <<c2s, srvRecv, writeCount_>>
    BY <1>6, LostConnection DEF OnSocketError, OnSocketClose, server, buffer
  <2>2. UNCHANGED <<resumeAck, reconnectTimers>>
    BY <1>6 DEF OnSocketError, OnSocketClose, ReconnectOrClose, MayReconnect
  <2> QED  BY <1>1, <2>1, <2>2
<1>7. CASE OnSocketOpen
  <2>1. /\ ws = "CONNECTING" /\ ws' = "OPEN"
        /\ UNCHANGED <<c2s, srvRecv, writeCount_, resumeAck, reconnectTimers>>
    BY <1>7 DEF OnSocketOpen, buffer
  <2>2. writeCount_ = 0 /\ c2s = <<>> /\ srvRecv = <<>>
    BY <2>1 DEF OneConnection
  <2>3. InFlight(c2s, Len(srvRecv), writeCount_)
    BY <2>2 DEF InFlight
  <2> QED  BY <2>1, <2>3 DEF OneConnection
<1>8. CASE OnData
  <2>1. /\ ws = "OPEN" /\ c2s' = Append(c2s, Ack(readCount_'))
        /\ UNCHANGED <<ws, srvRecv, writeCount_, resumeAck, reconnectTimers>>
    BY <1>8 DEF OnData, Incoming, buffer, server
  <2>2. readCount_' \in Nat
    BY DEF DownstreamInv, TypeOK
  <2>3. Ack(readCount_') \in ServerPackets /\ Ack(readCount_').tag # "DATA"
    BY <2>2, PacketTypes DEF Ack
  <2>4. InFlight(c2s', Len(srvRecv), writeCount_)
    BY <1>0, <2>1, <2>3, InFlightAppend DEF OneConnection
  <2> QED  BY <2>1, <2>4 DEF OneConnection
<1>9. CASE OnReconnectSuccess \/ OnAck
  <2>1. /\ ws = "OPEN" /\ UNCHANGED <<c2s, srvRecv, writeCount_, resumeAck, reconnectTimers>>
        /\ ws' = ws \/ Close_
    BY <1>9 DEF OnReconnectSuccess, OnAck, Incoming, ApplyAck, Buf!Ack, buffer, server
  <2>2. ws' \in {"OPEN", "CLOSING"}
    BY <2>1 DEF Close_
  <2> QED  BY <2>1, <2>2 DEF OneConnection
<1>10. CASE WsFail \/ WsServerClosed \/ WsCloseDone
  <2>1. ws' = "CLOSED" /\ c2s' = <<>> /\ UNCHANGED <<srvRecv, resumeAck, reconnectTimers>>
    BY <1>10 DEF WsFail, WsServerClosed, WsCloseDone, server
  <2> QED  BY <1>2, <2>1
<1>11. CASE SrvReceive
  <2>1. /\ c2s # <<>> /\ c2s' = Tail(c2s)
        /\ UNCHANGED <<writeCount_, ws, resumeAck, reconnectTimers>>
    BY <1>11 DEF SrvReceive, client, buffer
  <2>2. CASE Head(c2s).tag = "DATA"
    <3>1. srvRecv' = srvRecv \o Bytes(Head(c2s))
      BY <1>11, <2>2 DEF SrvReceive
    <3> QED  BY <1>0, <2>1, <2>2, <3>1, ServerGets
  <2>3. CASE Head(c2s).tag = "ACK"
    <3>1. srvRecv' = srvRecv
      BY <1>11, <2>3 DEF SrvReceive
    <3>2. ws \in {"OPEN", "CLOSING"} /\ InFlight(c2s, Len(srvRecv), writeCount_)
      BY <1>0, <2>1 DEF OneConnection, TypeOK
    <3>3. InFlight(c2s', Len(srvRecv), writeCount_)
      BY <1>0, <2>1, <2>3, <3>2, InFlightTail
    <3> QED  BY <2>1, <3>1, <3>2, <3>3 DEF OneConnection
  <2> QED  BY <1>11, <2>2, <2>3 DEF SrvReceive
<1>12. CASE \/ HostClose \/ OnConnectSuccess \/ (\E n \in 1..MaxLen : SrvSend(n))
            \/ SrvAck \/ SrvReverseAck \/ SrvEnd \/ UNCHANGED vars
  <2>1. UNCHANGED <<ws, c2s, srvRecv, writeCount_, resumeAck, reconnectTimers>>
    BY <1>12 DEF HostClose, OnConnectSuccess, SrvSend, SrvAck, SrvReverseAck, SrvEnd, vars, client,
                 link, server, buffer
  <2> QED  BY <1>1, <2>1
<1>13. ~OnReconnectTimer
  BY <1>0 DEF OnReconnectTimer
<1> QED  BY <1>3, <1>4, <1>5, <1>6, <1>7, <1>8, <1>9, <1>10, <1>11, <1>12, <1>13 DEF Next

(* One connection, and nothing missing on it. *)
LEMMA OneConnectionInvariant == ASSUME ~Resume PROVE Spec => [](DownstreamInv /\ UpstreamInv /\ OneConnection)
<1>1. /\ DownstreamInv /\ DownstreamInv' /\ UpstreamInv /\ OneConnection /\ [Next]_vars
      => OneConnection'
  BY OneConnectionStep
<1> QED  BY DownstreamInvariant, UpstreamInvariant, OneConnectionInit, <1>1, PTL DEF Spec

(* Without resuming there is no hole in what the ssh server has of the     *)
(* host's data.                                                            *)
THEOREM NoGapWithoutResume == ASSUME ~Resume PROVE Spec => []UpstreamNoGap
<1>1. OneConnection => UpstreamNoGap
  BY DEF OneConnection, UpstreamNoGap
<1> QED  BY OneConnectionInvariant, <1>1, PTL

(* What a stream that does not resume keeps, in one formula, for the       *)
(* modules that have such a stream as a part.                              *)
PipeInv == DownstreamInv /\ UpstreamInv /\ OneConnection

(* It holds at first.                                                      *)
LEMMA PipeInit == Init => PipeInv
BY InvInit, UpstreamInit, OneConnectionInit DEF PipeInv

(* Then what writeBuffer_ has released has arrived.                        *)
LEMMA PipeReleased == PipeInv => TypeOK /\ ReleasedIsReceived
<1> SUFFICES ASSUME PipeInv, NEW b \in 1..writeAckCount_
             PROVE  \E i \in DOMAIN srvRecv : srvRecv[i] = b
  BY DEF ReleasedIsReceived, PipeInv, DownstreamInv
<1>1. writeAckCount_ \in Nat /\ srvRecv \in Seq(Nat) /\ writeAckCount_ <= Len(srvRecv)
  BY DEF PipeInv, DownstreamInv, TypeOK, UpstreamInv, AcksAdvance
<1>2. b \in 1..Len(srvRecv) /\ DOMAIN srvRecv = 1..Len(srvRecv)
  BY <1>1
<1>3. srvRecv[b] = b
  BY <1>2 DEF PipeInv, OneConnection, Up!FirstBytes
<1> QED  BY <1>2, <1>3

(* Without resuming a byte that writeBuffer_ has released has arrived.     *)
THEOREM ReleasedWithoutResume == ASSUME ~Resume PROVE Spec => []ReleasedIsReceived
BY OneConnectionInvariant, PipeReleased, PTL DEF PipeInv

(* Every step puts bytes into the pipe, takes the next ones out, or does   *)
(* neither.                                                                *)
LEMMA UpstreamPipeStep ==
  ASSUME DownstreamInv, DownstreamInv', UpstreamInv, UpstreamInv', OneConnection, OneConnection',
         [Next]_vars
  PROVE  [Up!Next]_(Up!pipe)
<1> USE DEF Up!pipe
<1>0. /\ written \in Nat /\ Len(srvRecv) \in Nat /\ Len(srvRecv') \in Nat
      /\ srvRecv = Up!FirstBytes(Len(srvRecv)) /\ srvRecv' = Up!FirstBytes(Len(srvRecv'))
      /\ Len(srvRecv') <= written' /\ written' \in Nat
  <2>1. /\ written \in Nat /\ srvRecv \in Seq(Nat) /\ srvRecv' \in Seq(Nat) /\ written' \in Nat
        /\ writeCount_' \in Nat
    BY DEF DownstreamInv, TypeOK
  <2>2. Len(srvRecv') <= writeCount_' /\ writeCount_' <= written'
    BY DEF UpstreamInv, AcksAdvance
  <2>3. Len(srvRecv) \in Nat /\ Len(srvRecv') \in Nat
    BY <2>1
  <2> QED  BY <2>1, <2>2, <2>3 DEF OneConnection
<1>1. ASSUME NEW n \in 1..MaxUp, Write(n) PROVE [Up!Next]_(Up!pipe)
  BY <1>0, <1>1 DEF Write, server, Up!Next, Up!Put
<1>2. CASE SrvReceive
  <2>1. written' = written
    BY <1>2 DEF SrvReceive, client, buffer
  <2>2. Len(srvRecv) <= Len(srvRecv')
    <3>1. TypeOK /\ UpstreamBytes /\ writeCount_ <= written
      BY DEF DownstreamInv, UpstreamInv, UpstreamBytes, AcksAdvance
    <3> QED  BY <3>1, UpstreamBytesStep
  <2>3. CASE Len(srvRecv') = Len(srvRecv)
    BY <1>0, <2>1, <2>3
  <2>4. CASE Len(srvRecv') > Len(srvRecv)
    <3>1. srvRecv' = [i \in 1..Len(srvRecv') |-> IF i <= Len(srvRecv) THEN srvRecv[i] ELSE i]
      BY <1>0, <2>4 DEF Up!FirstBytes
    <3>2. Up!Get
      BY <1>0, <2>1, <2>4, <3>1 DEF Up!Get
    <3> QED  BY <3>2 DEF Up!Next
  <2> QED  BY <1>0, <2>2, <2>3, <2>4
<1>3. CASE \/ Open \/ OnSendTimer \/ HostClose
           \/ OnSocketError \/ OnSocketClose \/ OnReconnectTimer
           \/ OnSocketOpen \/ OnConnectSuccess \/ OnData \/ OnReconnectSuccess \/ OnAck
           \/ WsFail \/ WsServerClosed \/ WsCloseDone
           \/ (\E n \in 1..MaxLen : SrvSend(n)) \/ SrvAck \/ SrvReverseAck \/ SrvEnd
           \/ UNCHANGED vars
  BY <1>3 DEF Open, OnSendTimer, HostClose, OnSocketError, OnSocketClose, OnReconnectTimer,
     OnSocketOpen, OnConnectSuccess, OnData, OnReconnectSuccess, OnAck, ApplyAck, Buf!Ack, WsFail,
     WsServerClosed, WsCloseDone, SrvSend, SrvAck, SrvReverseAck, SrvEnd, vars, client, server, buffer
<1> QED  BY <1>1, <1>2, <1>3 DEF Next

(* Every step keeps it and is a step of the pipe.                          *)
LEMMA PipeStep ==
  ASSUME ~Resume, PipeInv, [Next]_vars
  PROVE  PipeInv' /\ [Up!Next]_(Up!pipe)
<1>1. DownstreamInv'
  BY TypeStep, ConnectionStep, DownstreamStep, ClientAcksStep, ResumeAckStep DEF PipeInv, DownstreamInv
<1>2. UpstreamInv'
  BY <1>1, UpstreamStep DEF PipeInv
<1>3. OneConnection'
  BY <1>1, OneConnectionStep DEF PipeInv
<1> QED  BY <1>1, <1>2, <1>3, UpstreamPipeStep DEF PipeInv

(* From write() to the ssh server the stream is an ordered pipe as long as *)
(* no connection is resumed.                                               *)
THEOREM UpstreamIsAPipe == ASSUME ~Resume PROVE Spec => UpSpec
<1>1. Init => Up!Init
  BY DEF Init, Buf!Init, Up!Init
<1> QED  BY <1>1, PipeInit, PipeStep, PTL DEF Spec, UpSpec, Up!Spec

=============================================================================
