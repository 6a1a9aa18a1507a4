----------------------------- MODULE RelayCorp ------------------------------
(***************************************************************************)
(* The Corp relay streams (nassh/js/nassh_stream_relay_corp.js): one       *)
(* session with a relay, asked for by open(), over which bytes travel      *)
(* either in XHR requests, one /read and one /write at a time              *)
(* (RelayCorpXhrStream), or over a WebSocket (RelayCorpWsStream).  Both    *)
(* share the back-off of RelayCorpStream: a failure starts a timer, and    *)
(* when it expires, or something else succeeds, both directions start      *)
(* again.                                                                  *)
(*                                                                         *)
(* Bytes are numbered from 1 in each direction.  XMLHttpRequest,           *)
(* WebSocket, the relay and the host that calls open(), write() and        *)
(* close() are external.  Ack latency and overlays are left out.           *)
(***************************************************************************)
EXTENDS Integers, Sequences

CONSTANTS
  MaxMessage,       \* maxMessageLength, in bytes of the model
  Wrap,             \* the WebSocket's counts are sent modulo Wrap (2^24)
  MaxUp, MaxDown,   \* bound: bytes the host and the ssh server ever send
  MaxFailures       \* bound: how often a request or a connection fails

ASSUME CorpAssumption ==
  /\ MaxMessage \in Nat \ {0} /\ Wrap \in Nat \ {0}
  /\ MaxUp \in Nat /\ MaxDown \in Nat /\ MaxFailures \in Nat

VARIABLES
  transport,       \* the class of the stream: "xhr" or "ws"
  resume_,         \* settings.resume
  open,            \* the promise open() returned
  sessionID_,
  backoffMS_, backoffTimeout_,
  timers,          \* pending timeouts of onBackoffExpired_
  written, sent,   \* bytes put in writeBuffer_ and read out of it
  writeCount_,     \* bytes acked by the relay and released from writeBuffer_
  readCount_,
  \* RelayCorpXhrStream: the requests in flight, at most one each.
  readRequest_, writeRequest_,
  \* RelayCorpWsStream.
  socket_, ws,     \* this.socket_, and its readyState
  uri,             \* ack and pos in the newest WebSocket's URI
  sendTimers,      \* pending setTimeout(sendWrite_)
  c2s, s2c,        \* the messages on the socket
  \* The host and the relay.
  host,            \* "closed" once onClose() has been called
  delivered,       \* the bytes passed to onDataAvailable, in order
  session,         \* "none", "live", "ended"
  srvRecv,         \* the bytes passed on to the ssh server, in order
  srvProduced,     \* bytes the ssh server has produced
  srvSent,         \* position of the last byte sent on this WebSocket
  srvAcked,        \* bytes the client is known to have read
  srvAckSent,      \* last count acked on this WebSocket
  failures

Null == "null"

setup == <<transport, resume_>>
backoff == <<backoffMS_, backoffTimeout_, timers>>
buffer == <<written, sent, writeCount_>>
requests == <<readRequest_, writeRequest_>>
socket == <<socket_, ws, uri>>
wire == <<c2s, s2c>>
relay == <<session, srvRecv, srvProduced, srvSent, srvAcked, srvAckSent>>
vars == <<setup, open, sessionID_, backoff, buffer, readCount_, requests, socket,
          sendTimers, wire, host, delivered, relay, failures>>

Buf == INSTANCE StreamBuffer WITH read <- sent, acked <- writeCount_
Up == INSTANCE OrderedPipe WITH put <- written, got <- srvRecv
Down == INSTANCE OrderedPipe WITH put <- srvProduced, got <- delivered

Positions(lo, hi) == [i \in 1..(hi - lo + 1) |-> lo + i - 1]

Init ==
  /\ transport \in {"xhr", "ws"} /\ resume_ \in BOOLEAN
  /\ open = "new" /\ sessionID_ = Null
  /\ backoffMS_ = 0 /\ backoffTimeout_ = Null /\ timers = 0
  /\ Buf!Init /\ readCount_ = 0
  /\ readRequest_ = <<>> /\ writeRequest_ = <<>>
  /\ socket_ = Null /\ ws = "NONE" /\ uri = [ack |-> 0, pos |-> 0]
  /\ sendTimers = 0 /\ c2s = <<>> /\ s2c = <<>>
  /\ host = "open" /\ delivered = <<>>
  /\ session = "none" /\ srvRecv = <<>> /\ srvProduced = 0
  /\ srvSent = 0 /\ srvAcked = 0 /\ srvAckSent = 0
  /\ failures = 0

-----------------------------------------------------------------------------
(* Reading and writing.  A request's status is 0 while it has no answer.   *)

(* Mutation of ReadRequest: the count is the one of the last request. *)
ReadRequestStale(sid, count) == [sid |-> sid, rcnt |-> readCount_, status |-> 0, last |-> 0]

ReadRequest(sid, count) == [sid |-> sid, rcnt |-> count, status |-> 0, last |-> 0]
WriteRequest(lo, hi) == [sid |-> sessionID_, lo |-> lo, hi |-> hi, status |-> 0]

(* resumeRead_ with the session sid and count bytes read so far; idle says *)
(* that no /read is in flight.  A WebSocket is made when there is none.    *)
ResumeRead(sid, idle, count) ==
  IF transport = "xhr"
  THEN /\ readRequest_' = (IF idle THEN <<ReadRequest(sid, count)>> ELSE readRequest_)
       /\ UNCHANGED socket
  ELSE /\ UNCHANGED readRequest_
       /\ IF sid # Null /\ socket_ = Null
          THEN /\ socket_' = "socket" /\ ws' = "CONNECTING"
               /\ uri' = [ack |-> count % Wrap, pos |-> writeCount_ % Wrap]
          ELSE UNCHANGED socket

(* The end of what writeBuffer_.read(maxMessageLength) returns, when total *)
(* bytes have been written.                                                *)
Chunk(total) == Buf!Smaller(sent + MaxMessage, total)

RestTimer(total, pending) == IF Chunk(total) < total THEN pending + 1 ELSE pending

(* sendWrite_ with total bytes written, count bytes read and pending timers *)
(* besides the one that called; ready says that no /write is in flight, or  *)
(* that the WebSocket is open.  While a WebSocket has data in flight        *)
(* bufferedAmount may be over its limit: then it goes back to sleep.        *)
SendWrite(ready, total, pending, count) ==
  LET message == [lo |-> sent + 1, hi |-> Chunk(total)]
  IN  IF ready /\ sent < total
      THEN \/ /\ transport = "xhr"
              /\ writeRequest_' = <<WriteRequest(message.lo, message.hi)>>
              /\ sent' = message.hi /\ sendTimers' = pending /\ UNCHANGED c2s
           \/ /\ transport = "ws"
              /\ c2s' = Append(c2s, [data |-> message, ack |-> count % Wrap])
              /\ sent' = message.hi /\ sendTimers' = RestTimer(total, pending)
              /\ UNCHANGED writeRequest_
           \/ /\ transport = "ws" /\ c2s # <<>>
              /\ sendTimers' = pending + 1 /\ UNCHANGED <<sent, c2s, writeRequest_>>
      ELSE /\ writeRequest_' = (IF ready THEN <<>> ELSE writeRequest_)
           /\ sendTimers' = pending /\ UNCHANGED <<sent, c2s>>

ReadIdle == readRequest_ = <<>>
WriteReady ==
  IF transport = "xhr" THEN writeRequest_ = <<>> ELSE socket_ # Null /\ ws = "OPEN"

-----------------------------------------------------------------------------
(* Backing off. *)

(* Mutation of BackoffTest: a second failure starts a second timer. *)
BackoffTestSession == sessionID_ # Null

(* requestError_ does nothing without a session or while backing off. *)
BackoffTest == sessionID_ # Null /\ backoffTimeout_ = Null

(* Milliseconds, 10000 at most: the limit is spread so that clients that    *)
(* lost the same relay do not all come back together.                       *)
NextBackoff(ms) ==
  LET longer == 2 * ms + 13
  IN  IF ms = 0 THEN 1
      ELSE IF longer > 10000 THEN 10000 - (longer % 9000) ELSE longer

RequestError ==
  IF BackoffTest
  THEN /\ backoffMS_' = NextBackoff(backoffMS_)
       /\ backoffTimeout_' = "timer"
       /\ timers' = timers + 1
  ELSE UNCHANGED backoff

(* requestSuccess_: count bytes have now been read; readIdle and writeReady *)
(* say which direction is free.  Without a back-off only the direction that *)
(* succeeded goes on; with one its timer is cleared and both go on.         *)
RequestSuccess(isRead, readIdle, writeReady, count) ==
  /\ backoffMS_' = 0 /\ backoffTimeout_' = Null
  /\ timers' = IF backoffTimeout_ # Null THEN timers - 1 ELSE timers
  /\ IF isRead \/ backoffTimeout_ # Null
     THEN ResumeRead(sessionID_, readIdle, count)
     ELSE UNCHANGED <<readRequest_, socket_, uri>>
  /\ IF ~isRead \/ backoffTimeout_ # Null
     THEN SendWrite(writeReady, written, sendTimers, count)
     ELSE UNCHANGED <<writeRequest_, sent, sendTimers, c2s>>

(* Mutation of OnBackoffExpired: only the direction that failed goes on. *)
OnBackoffExpiredReads ==
  /\ timers > 0
  /\ timers' = timers - 1 /\ backoffTimeout_' = Null
  /\ ResumeRead(sessionID_, ReadIdle, readCount_)
  /\ UNCHANGED <<setup, open, sessionID_, backoffMS_, buffer, readCount_, writeRequest_,
                 sendTimers, wire, host, delivered, relay, failures>>

(* onBackoffExpired_ *)
OnBackoffExpired ==
  /\ timers > 0
  /\ timers' = timers - 1 /\ backoffTimeout_' = Null
  /\ ResumeRead(sessionID_, ReadIdle, readCount_)
  /\ SendWrite(WriteReady, written, sendTimers, readCount_)
  /\ UNCHANGED <<setup, open, sessionID_, backoffMS_, written, writeCount_, readCount_,
                 s2c, host, delivered, relay, failures>>

-----------------------------------------------------------------------------
(* The host. *)

(* open(): the /proxy request is on its way. *)
Open ==
  /\ open = "new" /\ open' = "pending"
  /\ UNCHANGED <<setup, sessionID_, backoff, buffer, readCount_, requests, socket,
                 sendTimers, wire, host, delivered, relay, failures>>

OnSession ==
  /\ open = "pending"
  /\ sessionID_' = "sid" /\ session' = "live" /\ open' = "resolved"
  /\ ResumeRead("sid", ReadIdle, readCount_)
  /\ UNCHANGED <<setup, backoff, buffer, readCount_, writeRequest_, sendTimers, wire, host,
                 delivered, srvRecv, srvProduced, srvSent, srvAcked, srvAckSent, failures>>

OnSessionError ==
  /\ open = "pending" /\ failures < MaxFailures
  /\ open' = "rejected" /\ failures' = failures + 1
  /\ UNCHANGED <<setup, sessionID_, backoff, buffer, readCount_, requests, socket,
                 sendTimers, wire, host, delivered, relay>>

(* write() of n bytes.  The WebSocket's counts are unambiguous while fewer  *)
(* than Wrap bytes are unacked, which the host's own flow control sees to.  *)
Write(n) ==
  /\ open = "resolved" /\ host = "open"
  /\ written + n <= MaxUp /\ written + n < writeCount_ + Wrap
  /\ written' = written + n
  /\ IF backoffTimeout_ = Null
     THEN SendWrite(WriteReady, written + n, sendTimers, readCount_)
     ELSE UNCHANGED <<writeRequest_, sent, sendTimers, c2s>>
  /\ UNCHANGED <<setup, open, sessionID_, backoff, writeCount_, readCount_, readRequest_,
                 socket, s2c, host, delivered, relay, failures>>

(* Stream.close(), inherited, which only tells the host. *)
HostClose ==
  /\ open = "resolved" /\ host = "open"
  /\ host' = "closed"
  /\ UNCHANGED <<setup, open, sessionID_, backoff, buffer, readCount_, requests, socket,
                 sendTimers, wire, delivered, relay, failures>>

-----------------------------------------------------------------------------
(* The relay and the ssh server behind it. *)

SshServerSends ==
  /\ session = "live" /\ srvProduced < MaxDown
  /\ transport = "ws" => srvProduced + 1 < srvAcked + Wrap
  /\ srvProduced' = srvProduced + 1
  /\ UNCHANGED <<setup, open, sessionID_, backoff, buffer, readCount_, requests, socket, sendTimers,
                 wire, host, delivered, session, srvRecv, srvSent, srvAcked, srvAckSent, failures>>

SessionEnds ==
  /\ session = "live" /\ session' = "ended"
  /\ UNCHANGED <<setup, open, sessionID_, backoff, buffer, readCount_, requests, socket, sendTimers,
                 wire, host, delivered, srvRecv, srvProduced, srvSent, srvAcked, srvAckSent, failures>>

(* /read is answered when there is data, or with 410 when the ssh server is *)
(* gone; a request for no session with some other error.                    *)
RelayAnswersRead ==
  LET r == readRequest_[1]
  IN
    /\ readRequest_ # <<>> /\ r.status = 0
    /\ \/ /\ r.sid # Null /\ session = "live"
          /\ \E last \in r.rcnt+1..srvProduced :
               readRequest_' = <<[r EXCEPT !.status = 200, !.last = last]>>
       \/ /\ r.sid # Null /\ session = "ended"
          /\ readRequest_' = <<[r EXCEPT !.status = 410]>>
       \/ /\ r.sid = Null /\ readRequest_' = <<[r EXCEPT !.status = 404]>>
    /\ UNCHANGED <<setup, open, sessionID_, backoff, buffer, readCount_, writeRequest_, socket,
                   sendTimers, wire, host, delivered, relay, failures>>

(* /write is answered with 200 once its data is passed on. *)
RelayAnswersWrite ==
  LET r == writeRequest_[1]
  IN
    /\ writeRequest_ # <<>> /\ r.status = 0
    /\ \/ /\ r.sid # Null /\ session = "live"
          /\ srvRecv' = srvRecv \o Positions(r.lo, r.hi)
          /\ writeRequest_' = <<[r EXCEPT !.status = 200]>>
       \/ /\ r.sid # Null /\ session = "ended"
          /\ writeRequest_' = <<[r EXCEPT !.status = 410]>> /\ UNCHANGED srvRecv
       \/ /\ r.sid = Null
          /\ writeRequest_' = <<[r EXCEPT !.status = 404]>> /\ UNCHANGED srvRecv
    /\ UNCHANGED <<setup, open, sessionID_, backoff, buffer, readCount_, readRequest_, socket,
                   sendTimers, wire, host, delivered, session, srvProduced, srvSent, srvAcked,
                   srvAckSent, failures>>

(* Mutation of Forward: how far it moved is not taken modulo Wrap. *)
ForwardUnwrapped(from, count) == count - (from % Wrap)

(* How far from has to move to be count modulo Wrap. *)
Forward(from, count) == (count - (from % Wrap)) % Wrap

RelayReceives ==
  /\ ws = "OPEN" /\ c2s # <<>>
  /\ c2s' = Tail(c2s)
  /\ IF session = "live"
     THEN /\ srvRecv' = srvRecv \o Positions(c2s[1].data.lo, c2s[1].data.hi)
          /\ srvAcked' = srvAcked + Forward(srvAcked, c2s[1].ack)
     ELSE UNCHANGED <<srvRecv, srvAcked>>
  /\ UNCHANGED <<setup, open, sessionID_, backoff, buffer, readCount_, requests, socket, sendTimers,
                 s2c, host, delivered, session, srvProduced, srvSent, srvAckSent, failures>>

(* A message of the relay carries the count of what it has received. *)
RelaySends ==
  /\ ws = "OPEN" /\ session = "live"
  /\ \E last \in srvSent..srvProduced :
       /\ last > srvSent \/ srvAckSent # Len(srvRecv)
       /\ s2c' = Append(s2c, [data |-> [lo |-> srvSent + 1, hi |-> last],
                              ack |-> Len(srvRecv) % Wrap])
       /\ srvSent' = last
  /\ srvAckSent' = Len(srvRecv)
  /\ UNCHANGED <<setup, open, sessionID_, backoff, buffer, readCount_, requests, socket, sendTimers,
                 c2s, host, delivered, session, srvRecv, srvProduced, srvAcked, failures>>

(* When the ssh server is gone the relay says so with an ack over 24 bits. *)
ErrorAck == Wrap

RelaySendsError ==
  /\ ws = "OPEN" /\ session = "ended" /\ sessionID_ # Null
  /\ \A i \in DOMAIN s2c : s2c[i].ack # ErrorAck
  /\ s2c' = Append(s2c, [data |-> [lo |-> 1, hi |-> 0], ack |-> ErrorAck])
  /\ UNCHANGED <<setup, open, sessionID_, backoff, buffer, readCount_, requests, socket, sendTimers,
                 c2s, host, delivered, relay, failures>>

-----------------------------------------------------------------------------
(* RelayCorpXhrStream. *)

(* onReadReady_ with status 200, and with 410. *)
OnReadReady ==
  /\ readRequest_ # <<>> /\ readRequest_[1].status = 200
  /\ LET data == Positions(readRequest_[1].rcnt + 1, readRequest_[1].last)
     IN  /\ delivered' = delivered \o data
         /\ readCount_' = readCount_ + Len(data)
  /\ RequestSuccess(TRUE, TRUE, WriteReady, readCount_')
  /\ UNCHANGED <<setup, open, sessionID_, written, writeCount_, socket, s2c, host, relay, failures>>

OnReadGone ==
  /\ readRequest_ # <<>> /\ readRequest_[1].status = 410
  /\ readRequest_' = <<>>
  /\ host' = "closed" /\ sessionID_' = Null
  /\ UNCHANGED <<setup, open, backoff, buffer, readCount_, writeRequest_, socket, sendTimers,
                 wire, delivered, relay, failures>>

(* onWriteDone_ with status 200, and with 410, which keeps the session id. *)
OnWriteDone ==
  /\ writeRequest_ # <<>> /\ writeRequest_[1].status = 200
  /\ writeCount_' = writeCount_ + (writeRequest_[1].hi - writeRequest_[1].lo + 1)
  /\ RequestSuccess(FALSE, ReadIdle, TRUE, readCount_)
  /\ UNCHANGED <<setup, open, sessionID_, written, readCount_, socket, s2c, host, delivered,
                 relay, failures>>

OnWriteGone ==
  /\ writeRequest_ # <<>> /\ writeRequest_[1].status = 410
  /\ writeRequest_' = <<>> /\ host' = "closed"
  /\ UNCHANGED <<setup, open, sessionID_, backoff, buffer, readCount_, readRequest_, socket,
                 sendTimers, wire, delivered, relay, failures>>

(* A request fails at any time, or is answered with another status.  The   *)
(* error event and the loadend event both lead to onRequestError_; the     *)
(* second one finds the back-off pending.                                  *)
Failing(request) ==
  /\ request # <<>>
  /\ IF request[1].status = 404 THEN UNCHANGED failures
     ELSE failures < MaxFailures /\ failures' = failures + 1

ReadFails ==
  /\ Failing(readRequest_)
  /\ readRequest_' = <<>>
  /\ RequestError
  /\ UNCHANGED <<setup, open, sessionID_, buffer, readCount_, writeRequest_, socket, sendTimers,
                 wire, host, delivered, relay>>

WriteFails ==
  /\ Failing(writeRequest_)
  /\ writeRequest_' = <<>>
  /\ RequestError
  /\ UNCHANGED <<setup, open, sessionID_, buffer, readCount_, readRequest_, socket, sendTimers,
                 wire, host, delivered, relay>>

-----------------------------------------------------------------------------
(* RelayCorpWsStream. *)

(* The relay accepts the WebSocket and goes on from the counts in its URI: *)
(* onSocketOpen_.                                                          *)
OnSocketOpen ==
  /\ ws = "CONNECTING" /\ ws' = "OPEN"
  /\ srvAcked' = srvAcked + Forward(srvAcked, uri.ack)
  /\ srvSent' = srvAcked'
  /\ srvAckSent' = Len(srvRecv) - Forward(uri.pos, Len(srvRecv) % Wrap)
  /\ RequestSuccess(FALSE, FALSE, TRUE, readCount_)
  /\ UNCHANGED <<setup, open, sessionID_, written, writeCount_, readCount_, readRequest_, socket_,
                 uri, s2c, host, delivered, session, srvRecv, srvProduced, failures>>

(* onSocketData_ with a count, and with an error. *)
OnSocketData ==
  /\ s2c # <<>> /\ s2c[1].ack < Wrap
  /\ s2c' = Tail(s2c)
  /\ writeCount_' = writeCount_ + Forward(writeCount_, s2c[1].ack)
  /\ LET data == Positions(s2c[1].data.lo, s2c[1].data.hi)
     IN  /\ delivered' = delivered \o data
         /\ readCount_' = readCount_ + Len(data)
  /\ RequestSuccess(FALSE, FALSE, WriteReady, readCount_')
  /\ UNCHANGED <<setup, open, sessionID_, written, readRequest_, socket, host, relay, failures>>

OnSocketErrorAck ==
  /\ s2c # <<>> /\ s2c[1].ack >= Wrap
  /\ s2c' = Tail(s2c)
  /\ host' = "closed" /\ sessionID_' = Null
  /\ UNCHANGED <<setup, open, backoff, buffer, readCount_, requests, socket, sendTimers, c2s,
                 delivered, relay, failures>>

(* onSocketError_: the connection fails, and what is under way is lost. *)
OnSocketError ==
  /\ socket_ # Null /\ failures < MaxFailures
  /\ failures' = failures + 1
  /\ socket_' = Null /\ ws' = "CLOSED" /\ c2s' = <<>> /\ s2c' = <<>>
  /\ IF resume_ THEN RequestError /\ UNCHANGED host
                ELSE host' = "closed" /\ UNCHANGED backoff
  /\ UNCHANGED <<setup, open, sessionID_, buffer, readCount_, requests, uri, sendTimers, delivered,
                 relay>>

OnSendTimer ==
  /\ sendTimers > 0
  /\ SendWrite(WriteReady, written, sendTimers - 1, readCount_)
  /\ UNCHANGED <<setup, open, sessionID_, backoff, written, writeCount_, readCount_, readRequest_,
                 socket, s2c, host, delivered, relay, failures>>

-----------------------------------------------------------------------------
Host == Open \/ (\E n \in 1..MaxUp : Write(n)) \/ HostClose
Xhr == OnReadReady \/ OnReadGone \/ OnWriteDone \/ OnWriteGone
WebSocket == OnSocketOpen \/ OnSocketData \/ OnSocketErrorAck \/ OnSendTimer
Relay == RelayAnswersRead \/ RelayAnswersWrite \/ RelayReceives \/ RelaySends \/ RelaySendsError
Failure == OnSessionError \/ ReadFails \/ WriteFails \/ OnSocketError

Next ==
  Host \/ OnSession \/ OnBackoffExpired \/ Xhr \/ WebSocket \/ Relay \/ Failure
    \/ SshServerSends \/ SessionEnds

Spec == Init /\ [][Next]_vars

(* Timers expire, and the events of requests and sockets are dispatched;    *)
(* the relay answers.  Hosts may stop, and failures need not happen: those  *)
(* that do happen are MaxFailures at most.                                  *)
Fairness ==
  /\ WF_vars(OnSession) /\ WF_vars(OnBackoffExpired)
  /\ WF_vars(OnReadReady) /\ WF_vars(OnReadGone)
  /\ WF_vars(OnWriteDone) /\ WF_vars(OnWriteGone)
  /\ WF_vars(OnSocketOpen) /\ WF_vars(OnSocketData) /\ WF_vars(OnSocketErrorAck)
  /\ WF_vars(OnSendTimer)
  /\ WF_vars(RelayAnswersRead) /\ WF_vars(RelayAnswersWrite)
  /\ WF_vars(RelayReceives) /\ WF_vars(RelaySends) /\ WF_vars(RelaySendsError)

FairSpec == Spec /\ Fairness

-----------------------------------------------------------------------------
(* Types; the buffer's positions are in order. *)
TypeOK ==
  /\ transport \in {"xhr", "ws"} /\ resume_ \in BOOLEAN
  /\ open \in {"new", "pending", "resolved", "rejected"}
  /\ sessionID_ \in {Null, "sid"}
  /\ backoffMS_ \in 0..10000 /\ backoffTimeout_ \in {Null, "timer"} /\ timers \in Nat
  /\ written \in Nat /\ sent \in Nat /\ writeCount_ \in Nat
  /\ writeCount_ <= sent /\ sent <= written
  /\ readCount_ \in Nat /\ readCount_ = Len(delivered)
  /\ socket_ \in {Null, "socket"} /\ ws \in {"NONE", "CONNECTING", "OPEN", "CLOSED"}
  /\ sendTimers \in Nat
  /\ host \in {"open", "closed"} /\ session \in {"none", "live", "ended"}

(* While the session lasts the stream never sits idle: data comes in over   *)
(* a read in flight or a WebSocket, unread data has a write in flight or a  *)
(* timer that will send it, or else the one timer of the back-off is        *)
(* pending and will start both again (requestSuccess_, requestError_).      *)
OneTimer == timers = IF backoffTimeout_ = Null THEN 0 ELSE 1

ReadGoesOn ==
  backoffTimeout_ = Null =>
    IF transport = "xhr" THEN readRequest_ # <<>> ELSE socket_ # Null

WriteGoesOn ==
  sent < written /\ backoffTimeout_ = Null =>
    IF transport = "xhr" THEN writeRequest_ # <<>> ELSE ws = "CONNECTING" \/ sendTimers > 0

NeverIdle == OneTimer /\ (sessionID_ # Null /\ host = "open" => ReadGoesOn /\ WriteGoesOn)

(* writeCount_ counts bytes the relay has received, also when the counts    *)
(* on the wire wrap: it never runs ahead, and when no ack is under way it   *)
(* is the last count the relay sent.                                        *)
CountsAgree ==
  /\ writeCount_ <= Len(srvRecv)
  /\ ws = "OPEN" /\ s2c = <<>> => writeCount_ = srvAckSent

(* A message names a range of bytes and a count of bytes, modulo Wrap. *)
ReadRequests == [sid : {Null, "sid"}, rcnt : Nat, status : Nat, last : Nat]
WriteRequests == [sid : {Null, "sid"}, lo : Nat, hi : Nat, status : Nat]
Messages == [data : [lo : Nat, hi : Nat], ack : Nat]

WireTypes ==
  /\ readRequest_ \in Seq(ReadRequests) /\ Len(readRequest_) <= 1
  /\ writeRequest_ \in Seq(WriteRequests) /\ Len(writeRequest_) <= 1
  /\ c2s \in Seq(Messages) /\ s2c \in Seq(Messages) /\ uri \in [ack : Nat, pos : Nat]
  /\ delivered \in Seq(Nat) /\ srvRecv \in Seq(Nat)
  /\ srvProduced \in Nat /\ srvSent \in Nat /\ srvAcked \in Nat /\ srvAckSent \in Nat

(* What has been delivered, and the windows that keep counts unambiguous.  *)
WindowsHold ==
  /\ delivered = Down!FirstBytes(readCount_) /\ readCount_ <= srvProduced
  /\ written < writeCount_ + Wrap
  /\ srvAcked <= readCount_
  /\ transport = "ws" => srvProduced < srvAcked + Wrap

(* A /read asks for what follows the bytes read. *)
ReadsHold ==
  \A i \in DOMAIN readRequest_ :
    /\ readRequest_[i].rcnt = readCount_
    /\ readRequest_[i].status = 200 =>
         readCount_ < readRequest_[i].last /\ readRequest_[i].last <= srvProduced

(* A /write in flight holds bytes that are not acked, and once it has been *)
(* answered they have arrived.                                             *)
WritesHold ==
  \A i \in DOMAIN writeRequest_ :
    /\ writeCount_ < writeRequest_[i].lo /\ writeRequest_[i].lo <= writeRequest_[i].hi
    /\ writeRequest_[i].hi <= sent
    /\ writeRequest_[i].status = 200 =>
         writeCount_ + (writeRequest_[i].hi - writeRequest_[i].lo + 1) <= Len(srvRecv)

(* The messages of q carry bytes beyond the first from, in order, none of  *)
(* them after to, and counts, from acked on up to read.                    *)
Upward(q, from, to, acked, read) ==
  LET Count(i) == acked + Forward(acked, q[i].ack)
  IN  /\ \A i \in DOMAIN q :
           /\ from < q[i].data.lo /\ q[i].data.lo <= q[i].data.hi /\ q[i].data.hi <= to
           /\ q[i].ack < Wrap /\ Count(i) <= read
      /\ \A i, j \in DOMAIN q : i < j => q[i].data.hi < q[j].data.lo /\ Count(i) <= Count(j)

UpWire ==
  /\ c2s # <<>> => ws = "OPEN"
  /\ transport = "ws" => Len(srvRecv) <= sent
  /\ Upward(c2s, Len(srvRecv), sent, srvAcked, readCount_)

(* The first n messages of q carry the bytes from+1 .. to, none missing,    *)
(* and counts, from count on up to acked.                                   *)
Downward(q, n, from, to, count, acked) ==
  LET Before(i) == IF i = 0 THEN from ELSE q[i].data.hi
      Count(i) == IF i = 0 THEN count ELSE count + Forward(count, q[i].ack)
  IN  /\ \A i \in 1..n : q[i].data.lo = Before(i - 1) + 1 /\ q[i].ack < Wrap
      /\ \A i, j \in 0..n : i <= j => Before(i) <= Before(j) /\ Count(i) <= Count(j)
      /\ Before(n) = to /\ Count(n) = acked

Counting(n) == Downward(s2c, n, readCount_, srvSent, writeCount_, srvAckSent)

(* What is on its way down leads up to what the relay has sent last; only   *)
(* an error comes after it.                                                 *)
DownWire ==
  /\ ws # "OPEN" => s2c = <<>>
  /\ srvSent <= srvProduced
  /\ ws = "OPEN" =>
       /\ srvAckSent <= Len(srvRecv)
       /\ \/ Counting(Len(s2c))
          \/ /\ session = "ended" /\ s2c # <<>> /\ s2c[Len(s2c)].ack = ErrorAck
             /\ Counting(Len(s2c) - 1)
  /\ ws = "CONNECTING" => uri = [ack |-> readCount_ % Wrap, pos |-> writeCount_ % Wrap]

CountsInv ==
  /\ TypeOK /\ CountsAgree
  /\ WireTypes /\ WindowsHold /\ ReadsHold /\ WritesHold /\ UpWire /\ DownWire

(* The ssh server's bytes reach the host in order and once, whatever fails. *)
DownSpec == Down!Spec

(* All the ssh server has sent is delivered and all the host has written is *)
(* sent, unless the stream is closed.  That comes again and again, as       *)
(* failures are retried until they end.                                     *)
CaughtUp == (Len(delivered) = srvProduced /\ sent = written) \/ host = "closed"

(* docs/relay-protocol.md:348, "Data will continue to be sent via new       *)
(* /write requests": the ssh server gets the host's bytes without a hole.   *)
UpstreamNoGap == \A i \in DOMAIN srvRecv : srvRecv[i] = i

=============================================================================
