----------------------------- MODULE RelaySimple ----------------------------
(***************************************************************************)
(* The relay streams that do not resume: RelayWebsockifyStream             *)
(* (nassh/js/nassh_stream_relay_websockify.js) and RelaySshfeWsStream      *)
(* (nassh/js/nassh_stream_relay_sshfe.js), with the RelaySocket            *)
(* (wassh/js/sockets.js) whose connect(), write() and close() the program  *)
(* calls.  SSH-FE first has a challenge signed by an agent, and puts the   *)
(* count of bytes read, modulo Wrap, before each message.                  *)
(*                                                                         *)
(* Bytes are numbered from 1 in each direction.  fetch, the agent,         *)
(* WebSocket, the relay and the program are external.                      *)
(***************************************************************************)
EXTENDS Integers, Sequences

CONSTANTS
  MaxMessage,       \* maxMessageLength, in bytes of the model
  Wrap,             \* SSH-FE counts are modulo Wrap (2^24)
  MaxUp, MaxDown    \* bound: bytes the program and the ssh server ever send

VARIABLES
  relay,            \* "websockify" or "ssh-fe"
  open,             \* how far open() is; "connected" and "failed" are its ends
  callback_,        \* RelaySocket.callback_: the stream, or null
  socket_, ws,      \* the stream's socket_, and its readyState
  events,           \* its error and close events, not dispatched yet
  timers,           \* pending setTimeout(sendWrite_)
  written, sent,    \* bytes put in writeBuffer_ and read out of it
  readCount_,
  c2s, s2c,         \* the messages on the socket
  delivered,        \* the bytes passed to onDataAvailable, in order
  srvRecv,          \* the bytes passed on to the ssh server, in order
  srvProduced       \* bytes of the ssh server sent to the client

Null == "null"
stream == <<open, callback_, socket_, timers, written, sent, readCount_, delivered>>
server == <<srvRecv, srvProduced>>
vars == <<relay, stream, ws, events, c2s, s2c, server>>

Up == INSTANCE OrderedPipe WITH put <- written, got <- srvRecv
Down == INSTANCE OrderedPipe WITH put <- srvProduced, got <- delivered

Init ==
  /\ relay \in {"websockify", "ssh-fe"}
  /\ open = "new" /\ callback_ = Null /\ socket_ = Null /\ ws = "NONE" /\ events = <<>>
  /\ timers = 0 /\ written = 0 /\ sent = 0 /\ readCount_ = 0
  /\ c2s = <<>> /\ s2c = <<>> /\ delivered = <<>> /\ srvRecv = <<>> /\ srvProduced = 0

Positions(lo, hi) == [i \in 1..(hi - lo + 1) |-> lo + i - 1]

-----------------------------------------------------------------------------
(* Connecting. *)

(* connect_, after which open() resolves and RelaySocket takes the stream, *)
(* in the same task.                                                       *)
Connect_ == open' = "connected" /\ socket_' = "socket" /\ ws' = "CONNECTING" /\ callback_' = "stream"

(* RelaySocket.connect(), and open() up to its first await. *)
Connect ==
  /\ open = "new"
  /\ \/ relay = "websockify" /\ Connect_
     \/ relay = "ssh-fe" /\ open' = "challenge" /\ UNCHANGED <<socket_, ws, callback_>>
  /\ UNCHANGED <<relay, events, timers, written, sent, readCount_, c2s, s2c, delivered, server>>

(* getChallenge_ and the two messages of signChallenge_ are answered. *)
ChallengeGoesOn ==
  /\ \/ open = "challenge" /\ open' = "list" /\ UNCHANGED <<socket_, ws, callback_>>
     \/ open = "list" /\ open' = "sign" /\ UNCHANGED <<socket_, ws, callback_>>
     \/ open = "sign" /\ Connect_
  /\ UNCHANGED <<relay, events, timers, written, sent, readCount_, c2s, s2c, delivered, server>>

(* Any of them may fail: connect() returns ENETUNREACH. *)
ChallengeFails ==
  /\ open \in {"challenge", "list", "sign"} /\ open' = "failed"
  /\ UNCHANGED <<relay, callback_, socket_, ws, events, timers, written, sent, readCount_, c2s, s2c, delivered,
                 server>>

-----------------------------------------------------------------------------
(* Sending. *)

(* sendWrite_, with the program's bytes up to w in the buffer and t other  *)
(* timers.  bufferedAmount may be over the limit while data is in flight;  *)
(* then the call goes back to sleep.                                       *)
SendWrite(w, t) ==
  IF socket_ = Null \/ ws # "OPEN" \/ sent = w
  THEN timers' = t /\ UNCHANGED <<sent, c2s>>
  ELSE \/ c2s # <<>> /\ timers' = t + 1 /\ UNCHANGED <<sent, c2s>>
       \/ LET hi == IF sent + MaxMessage < w THEN sent + MaxMessage ELSE w IN
          /\ c2s' = Append(c2s, [ack |-> IF relay = "ssh-fe" THEN readCount_ ELSE 0,
                                 data |-> Positions(sent + 1, hi)])
          /\ sent' = hi
          /\ timers' = IF hi < w THEN t + 1 ELSE t

(* RelaySocket.write() and the stream's write(). *)
Write(n) ==
  /\ callback_ # Null /\ written + n <= MaxUp
  /\ written' = written + n
  /\ SendWrite(written + n, timers)
  /\ UNCHANGED <<relay, open, callback_, socket_, ws, events, readCount_, s2c, delivered, server>>

OnSendTimer ==
  /\ timers > 0
  /\ SendWrite(written, timers - 1)
  /\ UNCHANGED <<relay, open, callback_, socket_, ws, events, written, readCount_, s2c, delivered, server>>

-----------------------------------------------------------------------------
(* Closing. *)

(* RelaySocket.close(): Stream.close() only calls onClose, so the stream   *)
(* and its socket go on.                                                   *)
Close ==
  /\ callback_ # Null /\ callback_' = Null
  /\ UNCHANGED <<relay, open, socket_, ws, events, timers, written, sent, readCount_, c2s, s2c, delivered, server>>

(* close_: the first call closes the WebSocket, which delivers no more     *)
(* messages, and tells RelaySocket.                                        *)
Close_ ==
  IF socket_ = Null
  THEN UNCHANGED <<socket_, ws, callback_, s2c>>
  ELSE /\ socket_' = Null /\ callback_' = Null
       /\ ws' = IF ws = "CLOSED" THEN ws ELSE "CLOSING"
       /\ s2c' = <<>>

(* onSocketError_ and onSocketClose_. *)
OnSocketEvent ==
  /\ events # <<>> /\ events' = Tail(events)
  /\ Close_
  /\ UNCHANGED <<relay, open, timers, written, sent, readCount_, c2s, delivered, server>>

-----------------------------------------------------------------------------
(* The connection comes up, and messages arrive. *)

OnSocketOpen ==
  /\ ws = "CONNECTING" /\ ws' = "OPEN"
  /\ timers' = timers + 1
  /\ UNCHANGED <<relay, open, callback_, socket_, events, written, sent, readCount_, c2s, s2c, delivered, server>>

OnSocketData ==
  /\ ws = "OPEN" /\ s2c # <<>> /\ Head(s2c).is = "data"
  /\ delivered' = delivered \o Head(s2c).data
  /\ readCount_' = IF relay = "ssh-fe" THEN (readCount_ + Len(Head(s2c).data)) % Wrap ELSE readCount_
  /\ s2c' = Tail(s2c)
  /\ UNCHANGED <<relay, open, callback_, socket_, ws, events, timers, written, sent, c2s, server>>

(* SSH-FE: a count over 24 bits is an error. *)
OnSocketDataError ==
  /\ ws = "OPEN" /\ s2c # <<>> /\ Head(s2c).is = "error"
  /\ Close_
  /\ UNCHANGED <<relay, open, events, timers, written, sent, readCount_, c2s, delivered, server>>

-----------------------------------------------------------------------------
(* WebSocket and the relay. *)

WsEnds(why) == ws' = "CLOSED" /\ events' = why /\ c2s' = <<>> /\ s2c' = <<>> /\ UNCHANGED <<relay, stream, server>>

WsFail == ws \in {"CONNECTING", "OPEN"} /\ WsEnds(<<"error", "close">>)
WsServerClosed == ws = "OPEN" /\ s2c # <<>> /\ Head(s2c).is = "close" /\ WsEnds(<<"close">>)
WsCloseDone == ws = "CLOSING" /\ (WsEnds(<<"close">>) \/ WsEnds(<<"error", "close">>))

SrvReceive ==
  /\ ws \in {"OPEN", "CLOSING"} /\ c2s # <<>>
  /\ srvRecv' = srvRecv \o Head(c2s).data /\ c2s' = Tail(c2s)
  /\ UNCHANGED <<relay, stream, ws, events, s2c, srvProduced>>

Sends(message) == /\ ws = "OPEN" /\ s2c' = Append(s2c, message)
                  /\ \A i \in DOMAIN s2c : s2c[i].is = "data"
                  /\ UNCHANGED <<relay, stream, ws, events, c2s, srvRecv>>

SrvSend(n) == /\ srvProduced + n <= MaxDown /\ srvProduced' = srvProduced + n
              /\ Sends([is |-> "data", data |-> Positions(srvProduced + 1, srvProduced + n)])
SrvError == relay = "ssh-fe" /\ Sends([is |-> "error"]) /\ UNCHANGED srvProduced
SrvEnd == Sends([is |-> "close"]) /\ UNCHANGED srvProduced

-----------------------------------------------------------------------------
Next ==
  \/ Connect \/ ChallengeGoesOn \/ ChallengeFails
  \/ (\E n \in 1..MaxUp : Write(n)) \/ OnSendTimer \/ Close
  \/ OnSocketEvent \/ OnSocketOpen \/ OnSocketData \/ OnSocketDataError
  \/ WsFail \/ WsServerClosed \/ WsCloseDone
  \/ SrvReceive \/ (\E n \in 1..MaxMessage : SrvSend(n)) \/ SrvError \/ SrvEnd

(* Timers fire, events are dispatched, messages on a connection that stays *)
(* up arrive, and an attempt to connect ends.                              *)
Arrives == OnSocketData \/ OnSocketDataError \/ WsServerClosed
Fairness == /\ WF_vars(OnSendTimer) /\ WF_vars(OnSocketEvent) /\ WF_vars(OnSocketOpen)
            /\ WF_vars(Arrives) /\ WF_vars(SrvReceive)
Spec == Init /\ [][Next]_vars /\ Fairness

-----------------------------------------------------------------------------
TypeOK ==
  /\ open \in {"new", "challenge", "list", "sign", "connected", "failed"}
  /\ callback_ \in {Null, "stream"} /\ socket_ \in {Null, "socket"}
  /\ ws \in {"NONE", "CONNECTING", "OPEN", "CLOSING", "CLOSED"} /\ timers \in Nat
  /\ sent \in 0..written /\ written \in 0..MaxUp /\ readCount_ \in 0..Wrap-1

(* Both directions are ordered pipes, also when several timers of          *)
(* sendWrite_ are pending.                                                 *)
Pipes == Up!Spec /\ Down!Spec

(* What the program has written has arrived, or the stream is lost and     *)
(* RelaySocket knows.                                                      *)
CaughtUp ==
  IF ws \in {"CLOSING", "CLOSED"} THEN callback_ = Null ELSE Len(srvRecv) = written

=============================================================================
