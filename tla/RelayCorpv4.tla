---------------------------- MODULE RelayCorpv4 -----------------------------
(***************************************************************************)
(* RelayCorpv4WsStream (nassh/js/nassh_stream_relay_corpv4.js): one ssh    *)
(* connection carried over WebSockets to a Corp v4 relay.  When a socket   *)
(* is lost and the session may be resumed, the stream reconnects to the    *)
(* same session, telling the relay how much it has read; the relay answers *)
(* with how much it has received.                                          *)
(*                                                                         *)
(* Bytes are numbered from 1 in each direction, so a DATA frame is a range *)
(* lo..hi and a byte count is a position.  "c2s" and "s2c" are the two     *)
(* directions of the current WebSocket: reliable and in order until the    *)
(* connection fails, when both are lost.                                   *)
(*                                                                         *)
(* The relay server, the WebSocket and the host that calls open(), write() *)
(* and close() are external.  Ack latency metrics and overlays are left    *)
(* out: no state below depends on them.                                    *)
(***************************************************************************)
EXTENDS Integers, Sequences

CONSTANTS
  Resume,           \* settings.resume
  RECONNECT_LIMIT,  \* failed reconnect attempts until we give up
  MaxLen,           \* maxDataWriteLength, in bytes of the model
  MaxUp, MaxDown,   \* bound: bytes the host and the ssh server ever send
  MaxDrops,         \* bound: how often a connection attempt or a connection fails
  ServerFaulty      \* whether the relay may send an ack that goes backwards

ASSUME ConstantsAssumption ==
  /\ Resume \in BOOLEAN /\ ServerFaulty \in BOOLEAN
  /\ RECONNECT_LIMIT \in Nat
  /\ MaxLen \in Nat \ {0}
  /\ MaxUp \in Nat /\ MaxDown \in Nat /\ MaxDrops \in Nat

VARIABLES
  \* The stream.
  open,              \* the promise open() returned: "new", "pending", "resolved", "rejected"
  socket_,           \* this.socket_: Null or "socket", the WebSocket below
  sid_,              \* Null until CONNECT_SUCCESS
  reconnectCount_,
  written,           \* bytes put in writeBuffer_
  writeCount_,       \* bytes read out of writeBuffer_ and sent
  writeAckCount_,    \* bytes acked by the relay and released from writeBuffer_
  readCount_,
  sendTimers,        \* pending setTimeout(sendWrite_)
  reconnectTimers,   \* pending setTimeout of reconnect_
  resumeAck,         \* the ack in the newest WebSocket's URI, NoAck for v4/connect
  \* The newest WebSocket.
  ws,                \* its readyState
  events,            \* error and close events still to be dispatched to the callbacks
  c2s, s2c,
  drops,
  \* The host.
  host,              \* "closed" once onClose() has been called
  delivered,         \* the bytes passed to onDataAvailable, in order
  \* The relay server.
  session,           \* "none", "live", "ended"
  srvRecv,           \* the bytes passed on to the ssh server, in order
  srvSent,           \* position of the last byte sent on this connection
  srvProduced,       \* bytes the ssh server has produced
  srvAcked,          \* the client's last ack: bytes the relay has discarded
  srvAckSent         \* last ack sent on this connection

Null == "null"

buffer == <<written, writeCount_, writeAckCount_>>
link == <<c2s, s2c, drops>>
server == <<session, srvRecv, srvSent, srvProduced, srvAcked, srvAckSent>>
vars == <<open, socket_, sid_, reconnectCount_, buffer, readCount_, sendTimers,
          reconnectTimers, resumeAck, ws, events, link, host, delivered, server>>

Buf == INSTANCE StreamBuffer
         WITH read <- writeCount_, acked <- writeAckCount_

Up == INSTANCE OrderedPipe WITH put <- written, got <- srvRecv
Down == INSTANCE OrderedPipe WITH put <- srvProduced, got <- delivered

-----------------------------------------------------------------------------
(* Packets. *)

NoAck == -1

Data(lo, hi) == [tag |-> "DATA", lo |-> lo, hi |-> hi]
Ack(n) == [tag |-> "ACK", ack |-> n]
ConnectSuccess == [tag |-> "CONNECT_SUCCESS"]
ReconnectSuccess(n) == [tag |-> "RECONNECT_SUCCESS", ack |-> n]
CloseFrame == [tag |-> "CLOSE"]

Bytes(packet) == [i \in 1..(packet.hi - packet.lo + 1) |-> packet.lo + i - 1]

-----------------------------------------------------------------------------
Init ==
  /\ open = "new" /\ socket_ = Null /\ sid_ = Null /\ reconnectCount_ = 0
  /\ Buf!Init
  /\ readCount_ = 0
  /\ sendTimers = 0 /\ reconnectTimers = 0 /\ resumeAck = NoAck
  /\ ws = "NONE" /\ events = <<>> /\ c2s = <<>> /\ s2c = <<>> /\ drops = 0
  /\ host = "open" /\ delivered = <<>>
  /\ session = "none" /\ srvRecv = <<>> /\ srvSent = 0 /\ srvProduced = 0
  /\ srvAcked = 0 /\ srvAckSent = 0

(* open() and connect_(). *)
Open ==
  /\ open = "new"
  /\ open' = "pending" /\ socket_' = "socket" /\ ws' = "CONNECTING"
  /\ UNCHANGED <<sid_, reconnectCount_, buffer, readCount_, sendTimers, reconnectTimers,
                 resumeAck, events, link, host, delivered, server>>

(* sendWrite_, called with the host's data already in the buffer (up to w)  *)
(* and t other timers pending.  bufferedAmount may exceed the limit while   *)
(* data is in flight; then the call only goes back to sleep.                *)
SendWrite(w, t) ==
  IF socket_ # Null /\ ws = "OPEN" /\ writeCount_ < w
  THEN \/ /\ c2s # <<>>
          /\ sendTimers' = t + 1 /\ UNCHANGED <<writeCount_, c2s>>
       \/ LET hi == Buf!Smaller(writeCount_ + MaxLen, w)
          IN  /\ c2s' = Append(c2s, Data(writeCount_ + 1, hi))
              /\ writeCount_' = hi
              /\ sendTimers' = IF hi < w THEN t + 1 ELSE t
  ELSE sendTimers' = t /\ UNCHANGED <<writeCount_, c2s>>

(* The host queues n bytes: write(). *)
Write(n) ==
  /\ host = "open" /\ open \in {"pending", "resolved"}
  /\ written + n <= MaxUp
  /\ written' = written + n
  /\ SendWrite(written + n, sendTimers)
  /\ UNCHANGED <<open, socket_, sid_, reconnectCount_, writeAckCount_, readCount_,
                 reconnectTimers, resumeAck, ws, events, s2c, drops, host, delivered, server>>

OnSendTimer ==
  /\ sendTimers > 0
  /\ SendWrite(written, sendTimers - 1)
  /\ UNCHANGED <<open, socket_, sid_, reconnectCount_, written, writeAckCount_, readCount_,
                 reconnectTimers, resumeAck, ws, events, s2c, drops, host, delivered, server>>

(* Stream.close(), which this class inherits: it only tells the host. *)
HostClose ==
  /\ host = "open" /\ open = "resolved"
  /\ host' = "closed"
  /\ UNCHANGED <<open, socket_, sid_, reconnectCount_, buffer, readCount_, sendTimers,
                 reconnectTimers, resumeAck, ws, events, link, delivered, server>>

-----------------------------------------------------------------------------
(* Losing the connection. *)

(* Mutation of Close_: the promise of open() is left alone. *)
CloseForgetsOpen ==
  IF socket_ # Null
  THEN /\ socket_' = Null
       /\ host' = "closed"
       /\ ws' = IF ws = "CLOSED" THEN ws ELSE "CLOSING"
       /\ s2c' = <<>>
       /\ UNCHANGED open
  ELSE UNCHANGED <<socket_, host, open, ws, s2c>>

(* close_: nothing to do when there is no socket.  A WebSocket that is not  *)
(* closed yet starts its closing handshake and delivers no more messages.   *)
Close_ ==
  IF socket_ # Null
  THEN /\ socket_' = Null
       /\ host' = "closed"
       /\ open' = IF open = "pending" THEN "rejected" ELSE open
       /\ ws' = IF ws = "CLOSED" THEN ws ELSE "CLOSING"
       /\ s2c' = <<>>
  ELSE UNCHANGED <<socket_, host, open, ws, s2c>>

(* reconnect_ counts the attempt before it looks at the limit and the sid. *)
CountAttempt ==
  reconnectCount_' = IF Resume THEN reconnectCount_ + 1 ELSE reconnectCount_

(* Mutation of MayReconnect: the setting is not looked at. *)
MayReconnectAlways == reconnectCount_ + 1 <= RECONNECT_LIMIT /\ sid_ # Null

MayReconnect == Resume /\ reconnectCount_ + 1 <= RECONNECT_LIMIT /\ sid_ # Null

(* Mutations of Reconnect: the wrong count in the URI; no timer. *)
ReconnectWrongAck ==
  /\ resumeAck' = writeAckCount_
  /\ events' = <<>>
  /\ ws' = "CLOSED"
  /\ reconnectTimers' = reconnectTimers + 1
  /\ UNCHANGED <<open, socket_, host, s2c>>

ReconnectWithoutTimer ==
  /\ resumeAck' = readCount_
  /\ events' = <<>>
  /\ ws' = "CLOSED"
  /\ UNCHANGED <<open, socket_, host, s2c, reconnectTimers>>

(* reconnect_ returning true: the URI is made now, the socket later, and   *)
(* the events the old socket has still to report find no callback.         *)
Reconnect ==
  /\ resumeAck' = readCount_
  /\ events' = <<>>
  /\ ws' = "CLOSED"
  /\ reconnectTimers' = reconnectTimers + 1
  /\ UNCHANGED <<open, socket_, host, s2c>>

(* onSocketError_, and onSocketClose_ of an unclean close.  With no socket  *)
(* left, reconnect_ throws as it takes the callbacks off null.              *)
ReconnectOrClose ==
  /\ CountAttempt
  /\ \/ /\ MayReconnect /\ socket_ # Null
        /\ Reconnect
     \/ /\ MayReconnect /\ socket_ = Null
        /\ events' = Tail(events)
        /\ UNCHANGED <<resumeAck, ws, reconnectTimers, open, socket_, host, s2c>>
     \/ /\ ~MayReconnect
        /\ events' = Tail(events)
        /\ Close_
        /\ UNCHANGED <<resumeAck, reconnectTimers>>

OnSocketError ==
  /\ events # <<>> /\ Head(events) = "error"
  /\ ReconnectOrClose
  /\ UNCHANGED <<sid_, buffer, readCount_, sendTimers, c2s, drops, delivered, server>>

OnSocketClose ==
  /\ events # <<>>
  /\ \/ Head(events) = "close" /\ ReconnectOrClose
     \/ /\ Head(events) = "cleanClose"
        /\ events' = Tail(events)
        /\ Close_
        /\ UNCHANGED <<reconnectCount_, resumeAck, reconnectTimers>>
  /\ UNCHANGED <<sid_, buffer, readCount_, sendTimers, c2s, drops, delivered, server>>

(* RECONNECT_DELAY after reconnect_. *)
OnReconnectTimer ==
  /\ reconnectTimers > 0
  /\ reconnectTimers' = reconnectTimers - 1
  /\ socket_' = "socket" /\ ws' = "CONNECTING"
  /\ UNCHANGED <<open, sid_, reconnectCount_, buffer, readCount_, sendTimers, resumeAck,
                 events, link, host, delivered, server>>

-----------------------------------------------------------------------------
(* Connecting, and messages from the relay. *)

(* The relay accepts the connection and onSocketOpen_ runs. *)
OnSocketOpen ==
  /\ ws = "CONNECTING"
  /\ \/ /\ resumeAck = NoAck /\ session = "none"
        /\ session' = "live"
        /\ s2c' = <<ConnectSuccess>>
        /\ UNCHANGED srvSent
     \/ /\ resumeAck # NoAck /\ session = "live"
        /\ srvSent' = resumeAck
        /\ s2c' = <<ReconnectSuccess(Len(srvRecv))>>
        /\ UNCHANGED session
  /\ srvAckSent' = Len(srvRecv)
  /\ ws' = "OPEN"
  /\ open' = IF open = "pending" THEN "resolved" ELSE open
  /\ sendTimers' = IF writeAckCount_ = 0 THEN sendTimers + 1 ELSE sendTimers
  /\ UNCHANGED <<socket_, sid_, reconnectCount_, buffer, readCount_, reconnectTimers, resumeAck,
                 events, c2s, drops, host, delivered, srvRecv, srvProduced, srvAcked>>

Incoming(tag) == ws = "OPEN" /\ s2c # <<>> /\ Head(s2c).tag = tag

OnConnectSuccess ==
  /\ Incoming("CONNECT_SUCCESS")
  /\ sid_' = "sid"
  /\ s2c' = Tail(s2c)
  /\ UNCHANGED <<open, socket_, reconnectCount_, buffer, readCount_, sendTimers, reconnectTimers,
                 resumeAck, ws, events, c2s, drops, host, delivered, server>>

OnData ==
  /\ Incoming("DATA")
  /\ LET data == Bytes(Head(s2c))
     IN  /\ delivered' = delivered \o data
         /\ readCount_' = readCount_ + Len(data)
  /\ c2s' = Append(c2s, Ack(readCount_'))
  /\ s2c' = Tail(s2c)
  /\ UNCHANGED <<open, socket_, sid_, reconnectCount_, buffer, sendTimers, reconnectTimers,
                 resumeAck, ws, events, drops, host, server>>

(* Mutation of ApplyAck: the absolute position taken for a delta. *)
ApplyAckAsDelta(ack) ==
  /\ Buf!Ack(ack)
  /\ s2c' = Tail(s2c)
  /\ UNCHANGED <<open, socket_, ws, host>>

(* The end of onSocketData_ for RECONNECT_SUCCESS and ACK. *)
ApplyAck(ack) ==
  \/ /\ ack >= writeAckCount_
     /\ Buf!Ack(ack - writeAckCount_)
     /\ s2c' = Tail(s2c)
     /\ UNCHANGED <<open, socket_, ws, host>>
  \/ /\ ack < writeAckCount_
     /\ Close_
     /\ UNCHANGED buffer

(* Mutation of OnReconnectSuccess: the queued output is not started again. *)
OnReconnectSuccessNoTimer ==
  /\ Incoming("RECONNECT_SUCCESS")
  /\ reconnectCount_' = 0
  /\ ApplyAck(Head(s2c).ack)
  /\ UNCHANGED <<sid_, readCount_, reconnectTimers, resumeAck, events, c2s, drops,
                 delivered, server, sendTimers>>

OnReconnectSuccess ==
  /\ Incoming("RECONNECT_SUCCESS")
  /\ reconnectCount_' = 0
  /\ sendTimers' = sendTimers + 1
  /\ ApplyAck(Head(s2c).ack)
  /\ UNCHANGED <<sid_, readCount_, reconnectTimers, resumeAck, events, c2s, drops,
                 delivered, server>>

OnAck ==
  /\ Incoming("ACK")
  /\ ApplyAck(Head(s2c).ack)
  /\ UNCHANGED <<sid_, reconnectCount_, readCount_, sendTimers, reconnectTimers, resumeAck,
                 events, c2s, drops, delivered, server>>

-----------------------------------------------------------------------------
(* The WebSocket: a failure is an error event and then an unclean close. *)

WsFail ==
  /\ ws \in {"CONNECTING", "OPEN"}
  /\ \/ drops < MaxDrops /\ drops' = drops + 1
     \/ ws = "CONNECTING" /\ session = "ended" /\ UNCHANGED drops
  /\ ws' = "CLOSED"
  /\ events' = <<"error", "close">>
  /\ c2s' = <<>> /\ s2c' = <<>>
  /\ UNCHANGED <<open, socket_, sid_, reconnectCount_, buffer, readCount_, sendTimers,
                 reconnectTimers, resumeAck, host, delivered, server>>

(* The relay's close frame arrives after everything it sent before it. *)
WsServerClosed ==
  /\ Incoming("CLOSE")
  /\ ws' = "CLOSED"
  /\ events' = <<"cleanClose">>
  /\ c2s' = <<>> /\ s2c' = <<>>
  /\ UNCHANGED <<open, socket_, sid_, reconnectCount_, buffer, readCount_, sendTimers,
                 reconnectTimers, resumeAck, drops, host, delivered, server>>

(* The closing handshake close_ began ends, well or badly. *)
WsCloseDone ==
  /\ ws = "CLOSING"
  /\ ws' = "CLOSED"
  /\ events' \in {<<"cleanClose">>, <<"error", "close">>}
  /\ c2s' = <<>> /\ s2c' = <<>>
  /\ UNCHANGED <<open, socket_, sid_, reconnectCount_, buffer, readCount_, sendTimers,
                 reconnectTimers, resumeAck, drops, host, delivered, server>>

-----------------------------------------------------------------------------
(* The relay server. *)

client == <<open, socket_, sid_, reconnectCount_, buffer, readCount_, sendTimers,
            reconnectTimers, resumeAck, ws, events, drops, host, delivered>>

SrvReceive ==
  /\ session = "live" /\ c2s # <<>>
  /\ \/ /\ Head(c2s).tag = "DATA"
        /\ srvRecv' = srvRecv \o Bytes(Head(c2s))
        /\ UNCHANGED srvAcked
     \/ /\ Head(c2s).tag = "ACK"
        /\ srvAcked' = Head(c2s).ack
        /\ UNCHANGED srvRecv
  /\ c2s' = Tail(c2s)
  /\ UNCHANGED <<client, s2c, session, srvSent, srvProduced, srvAckSent>>

(* Output of the ssh server is passed on in packets of n bytes. *)
SrvSend(n) ==
  /\ session = "live" /\ ws = "OPEN"
  /\ srvSent + n <= MaxDown
  /\ s2c' = Append(s2c, Data(srvSent + 1, srvSent + n))
  /\ srvSent' = srvSent + n
  /\ srvProduced' = IF srvSent + n > srvProduced THEN srvSent + n ELSE srvProduced
  /\ UNCHANGED <<client, c2s, session, srvRecv, srvAcked, srvAckSent>>

SrvAck ==
  /\ session = "live" /\ ws = "OPEN"
  /\ srvAckSent < Len(srvRecv)
  /\ s2c' = Append(s2c, Ack(Len(srvRecv)))
  /\ srvAckSent' = Len(srvRecv)
  /\ UNCHANGED <<client, c2s, session, srvRecv, srvSent, srvProduced, srvAcked>>

(* A relay that loses its count, at most once per connection at a time. *)
SrvReverseAck ==
  /\ ServerFaulty
  /\ session = "live" /\ ws = "OPEN" /\ srvAckSent > 0
  /\ \A i \in DOMAIN s2c : s2c[i] # Ack(0)
  /\ s2c' = Append(s2c, Ack(0))
  /\ srvAckSent' = 0
  /\ UNCHANGED <<client, c2s, session, srvRecv, srvSent, srvProduced, srvAcked>>

(* The ssh server hangs up: the relay closes the WebSocket if there is one. *)
SrvEnd ==
  /\ session = "live"
  /\ session' = "ended"
  /\ s2c' = IF ws = "OPEN" THEN Append(s2c, CloseFrame) ELSE s2c
  /\ UNCHANGED <<client, c2s, srvRecv, srvSent, srvProduced, srvAcked, srvAckSent>>

-----------------------------------------------------------------------------
Next ==
  \/ Open
  \/ \E n \in 1..MaxUp : Write(n)
  \/ OnSendTimer
  \/ HostClose
  \/ OnSocketError \/ OnSocketClose \/ OnReconnectTimer
  \/ OnSocketOpen \/ OnConnectSuccess \/ OnData \/ OnReconnectSuccess \/ OnAck
  \/ WsFail \/ WsServerClosed \/ WsCloseDone
  \/ SrvReceive \/ (\E n \in 1..MaxLen : SrvSend(n)) \/ SrvAck \/ SrvReverseAck \/ SrvEnd

Spec == Init /\ [][Next]_vars

(***************************************************************************)
(* Fairness.  Timers fire, queued events are dispatched, a connection that *)
(* has been started is accepted or refused, and messages on a connection   *)
(* that stays up arrive.  The relay answers and passes on what it has.     *)
(* Nothing obliges the host to write, the ssh server to produce or end, or *)
(* a connection to fail.  bufferedAmount drains while the connection lives,*)
(* so a sendWrite_ that keeps going back to sleep sends in the end.        *)
(***************************************************************************)
Fairness ==
  /\ WF_vars(OnSendTimer)
  /\ WF_vars(OnSocketError) /\ WF_vars(OnSocketClose) /\ WF_vars(OnReconnectTimer)
  /\ WF_vars(OnSocketOpen) /\ WF_vars(OnConnectSuccess) /\ WF_vars(OnData)
  /\ WF_vars(OnReconnectSuccess) /\ WF_vars(OnAck)
  /\ WF_vars(session = "ended" /\ ws = "CONNECTING" /\ WsFail)
  /\ WF_vars(WsServerClosed) /\ WF_vars(WsCloseDone)
  /\ WF_vars(SrvReceive) /\ WF_vars(SrvAck)
  /\ WF_vars(srvSent < srvProduced /\ \E n \in 1..MaxLen : SrvSend(n))

FairSpec == Spec /\ Fairness

-----------------------------------------------------------------------------
(* Safety. *)

DataPackets == [tag : {"DATA"}, lo : Nat, hi : Nat]
AckPackets == [tag : {"ACK", "RECONNECT_SUCCESS"}, ack : Nat]
ServerPackets == DataPackets \cup AckPackets \cup {ConnectSuccess, CloseFrame}
ClientPackets == DataPackets \cup AckPackets

(* Every variable has its type. *)
TypeOK ==
  /\ open \in {"new", "pending", "resolved", "rejected"}
  /\ socket_ \in {Null, "socket"} /\ sid_ \in {Null, "sid"} /\ host \in {"open", "closed"}
  /\ ws \in {"NONE", "CONNECTING", "OPEN", "CLOSING", "CLOSED"}
  /\ session \in {"none", "live", "ended"}
  /\ reconnectCount_ \in Nat /\ sendTimers \in Nat /\ reconnectTimers \in Nat
  /\ written \in Nat /\ writeCount_ \in Nat /\ writeAckCount_ \in Nat
  /\ readCount_ \in Nat /\ resumeAck \in Nat \cup {NoAck} /\ drops \in Nat
  /\ events \in Seq({"error", "close", "cleanClose"})
  /\ s2c \in Seq(ServerPackets) /\ c2s \in Seq(ClientPackets)
  /\ delivered \in Seq(Nat) /\ srvRecv \in Seq(Nat)
  /\ srvSent \in Nat /\ srvProduced \in Nat /\ srvAcked \in Nat /\ srvAckSent \in Nat

(* onDataAvailable gets the ssh server's bytes once each and in order, and *)
(* readCount_, which a reconnect reports, is exactly what it got: whatever *)
(* connections were lost with data on the way.                             *)
DownstreamExactlyOnce ==
  /\ delivered = Down!FirstBytes(readCount_)
  /\ readCount_ <= srvProduced

(* The ssh server never gets a byte of the host's twice or out of order,   *)
(* nor one that sendWrite_ has not sent.                                   *)
UpstreamNoDuplicate ==
  /\ \A i, j \in DOMAIN srvRecv : i < j => srvRecv[i] < srvRecv[j]
  /\ \A i \in DOMAIN srvRecv : srvRecv[i] <= writeCount_

(* What the ssh server has of the host's data has no hole in it. *)
UpstreamNoGap == srvRecv = Up!FirstBytes(Len(srvRecv))

(* A byte released from writeBuffer_ has reached the ssh server. *)
ReleasedIsReceived ==
  \A b \in 1..writeAckCount_ : \E i \in DOMAIN srvRecv : srvRecv[i] = b

(* Over all the connections of a session, whatever the relay acks: no ack  *)
(* passes what the ssh server has, nor that what was sent, so that         *)
(* writeBuffer_.ack() is only asked to release bytes that have been read.  *)
(* From a relay that keeps its count no ack goes back and closes the       *)
(* stream.                                                                 *)
AcksAdvance ==
  /\ writeAckCount_ <= Len(srvRecv) /\ Len(srvRecv) <= writeCount_ /\ writeCount_ <= written
  /\ \A i \in DOMAIN s2c : s2c[i].tag \in {"ACK", "RECONNECT_SUCCESS"} =>
       /\ s2c[i].ack <= Len(srvRecv)
       /\ ServerFaulty \/ writeAckCount_ <= s2c[i].ack

(* One failure of a connection, reported as an error and then as a close,  *)
(* starts one reconnect: at most one timer is pending, nothing else of the *)
(* old socket can start a second one, and no second socket is live.        *)
SingleReconnect ==
  reconnectTimers > 0 => reconnectTimers = 1 /\ ws = "CLOSED" /\ events = <<>> /\ socket_ # Null

(* The ack in the URI of a reconnect is made RECONNECT_DELAY before the    *)
(* socket is: it is still what has been delivered, and the relay still has *)
(* every byte after it.                                                    *)
ResumeAckCurrent ==
  (ws = "CONNECTING" \/ reconnectTimers > 0) /\ resumeAck # NoAck =>
    resumeAck = readCount_ /\ srvAcked <= resumeAck /\ resumeAck <= srvProduced

(* The life of the connection.  Nothing exists before open(); the events   *)
(* of a socket are queued when it has closed, and messages only while it   *)
(* is open; a socket that connects for the first time finds no session.    *)
ConnectionStates ==
  /\ open = "new" => ws = "NONE" /\ reconnectTimers = 0
  /\ ws = "NONE" => session = "none" /\ resumeAck = NoAck
  /\ ws = "CONNECTING" /\ resumeAck = NoAck => session = "none"
  /\ ws = "OPEN" => session # "none"
  /\ reconnectTimers > 0 => resumeAck # NoAck
  /\ session = "none" => readCount_ = 0 /\ srvSent = 0
  /\ events # <<>> => ws = "CLOSED"
  /\ ws # "OPEN" => s2c = <<>>

(* The DATA packets of queue q carry the bytes from+1 .. to: none missing, *)
(* none twice, in order.                                                   *)
InFlight(q, from, to) ==
  LET IsData(i) == q[i].tag = "DATA"
  IN  /\ from <= to
      /\ \A i \in DOMAIN q : IsData(i) => from < q[i].lo /\ q[i].lo <= q[i].hi /\ q[i].hi <= to
      /\ \A i, j \in DOMAIN q : i < j /\ IsData(i) /\ IsData(j) => q[i].hi < q[j].lo
      /\ \A b \in from+1..to : \E i \in DOMAIN q : IsData(i) /\ q[i].lo <= b /\ b <= q[i].hi

(* What is in flight to the client on an open connection is exactly what   *)
(* it has not read of what the relay has sent.                             *)
DownstreamInFlight == ws = "OPEN" => InFlight(s2c, readCount_, srvSent)

(* The relay discards only what the client has read. *)
ClientAcksAreRead ==
  /\ srvAcked <= readCount_
  /\ \A i \in DOMAIN c2s : c2s[i].tag = "ACK" => c2s[i].ack <= readCount_

(* The inductive invariant behind the downstream properties. *)
DownstreamInv ==
  /\ TypeOK
  /\ ConnectionStates
  /\ SingleReconnect
  /\ DownstreamExactlyOnce
  /\ srvSent <= srvProduced
  /\ DownstreamInFlight
  /\ ClientAcksAreRead
  /\ ResumeAckCurrent

(* The host's data never waits on an open connection with nothing to send  *)
(* it: a send timer is pending, or RECONNECT_SUCCESS, which starts one, is *)
(* on its way.                                                             *)
NoStuckBytes ==
  socket_ # Null /\ ws = "OPEN" /\ writeCount_ < written =>
    sendTimers > 0 \/ \E i \in DOMAIN s2c : s2c[i].tag \in {"RECONNECT_SUCCESS", "CLOSE"}

(* The bytes on their way up lie beyond those that have arrived, each      *)
(* packet's beyond those of the packet before it, and all have been sent.  *)
UpstreamInFlight ==
  LET IsData(i) == c2s[i].tag = "DATA"
  IN  /\ \A i \in DOMAIN c2s : IsData(i) =>
           /\ 1 <= c2s[i].lo /\ c2s[i].lo <= c2s[i].hi /\ c2s[i].hi <= writeCount_
           /\ \A k \in DOMAIN srvRecv : srvRecv[k] < c2s[i].lo
      /\ \A i, j \in DOMAIN c2s : i < j /\ IsData(i) /\ IsData(j) => c2s[i].hi < c2s[j].lo

(* The k-th byte to arrive is byte k or a later one. *)
UpstreamPositions == \A k \in DOMAIN srvRecv : k <= srvRecv[k]

(* Acks from a relay that keeps its count come in order. *)
AcksInOrder ==
  LET IsAck(i) == s2c[i].tag \in {"ACK", "RECONNECT_SUCCESS"}
  IN  ~ServerFaulty =>
        \A i, j \in DOMAIN s2c : i < j /\ IsAck(i) /\ IsAck(j) => s2c[i].ack <= s2c[j].ack

(* The upstream direction: nothing twice, acks in bounds, nothing stuck,   *)
(* and what makes these inductive: what is in flight both ways.            *)
UpstreamInv ==
  /\ UpstreamNoDuplicate /\ AcksAdvance /\ NoStuckBytes
  /\ UpstreamInFlight /\ UpstreamPositions /\ AcksInOrder
  /\ session = "none" => srvRecv = <<>>

(* Without resuming the life of a stream is one connection, on which all   *)
(* that has been sent has arrived or is in flight; when it is lost nothing *)
(* more arrives.                                                           *)
OneConnection ==
  /\ resumeAck = NoAck /\ reconnectTimers = 0
  /\ srvRecv = Up!FirstBytes(Len(srvRecv))
  /\ ws \in {"NONE", "CONNECTING"} => writeCount_ = 0 /\ c2s = <<>> /\ srvRecv = <<>>
  /\ ws \in {"OPEN", "CLOSING"} => InFlight(c2s, Len(srvRecv), writeCount_)
  /\ ws = "CLOSED" => c2s = <<>>

(* Once close_ has run no late event or timer brings the stream back: no   *)
(* socket, no reconnect, nothing more delivered, the promise of open()     *)
(* settled and the host told.                                              *)
ClosedIsFinal ==
  [][open # "new" /\ socket_ = Null =>
       /\ socket_' = Null /\ reconnectTimers' = 0 /\ UNCHANGED <<delivered, writeCount_>>
       /\ open' \in {"resolved", "rejected"} /\ host' = "closed"]_vars

(* In each direction the stream is an ordered pipe: downstream whatever    *)
(* happens to the connection, upstream as long as none is resumed.         *)
DownSpec == Down!Spec
UpSpec == Up!Spec

-----------------------------------------------------------------------------
(* Liveness. *)

(* A connection that was lost is resumed, with the session, or the stream  *)
(* is closed: reconnecting never stalls and never goes on for ever.        *)
LostIsResumedOrClosed ==
  socket_ # Null /\ ws = "CLOSED" ~> (ws = "OPEN" /\ reconnectCount_ = 0) \/ socket_ = Null

(* Bytes the ssh server produced reach the host unless the stream closes   *)
(* or the ssh server ended the session.                                    *)
DownstreamDelivered ==
  \A k \in 1..MaxDown : srvProduced >= k ~> readCount_ >= k \/ socket_ = Null \/ session = "ended"

(* Every byte the host wrote has reached the ssh server, unless the stream *)
(* is closed or the ssh server has ended the session.                      *)
UpstreamCaughtUp ==
  \/ \A k \in 1..written : \E i \in DOMAIN srvRecv : srvRecv[i] = k
  \/ socket_ = Null \/ session = "ended"

(* The host's bytes are all sent: even those that were lost with a         *)
(* connection.                                                             *)
AllWrittenAreSent ==
  \A k \in 1..MaxUp : written >= k ~> writeCount_ >= k \/ socket_ = Null \/ session = "ended"

(* Data moves both ways again after every failure. *)
DataMoves == DownstreamDelivered /\ AllWrittenAreSent

=============================================================================
