------------------------- MODULE Connections_proofs -------------------------
(***************************************************************************)
(* Proofs about the parts of MCConnections.                                *)
(*                                                                         *)
(* The Corp relay streams come first, for any maxMessageLength, any        *)
(* modulus of the WebSocket's counts, however many bytes and failures.     *)
(* NeverIdle is not inductive: what is missing is which parts of the state *)
(* go with which transport, and that a stream with a WebSocket is not      *)
(* backing off (Shape).  That the counts agree with the relay's and that   *)
(* the downstream is an ordered pipe is built up in three parts: the       *)
(* arithmetic of counts sent modulo Wrap (what Forward returns), the two   *)
(* ways of the WebSocket as sequences (Upward and Downward under Tail and  *)
(* Append), and the steps, one lemma per kind of step, for the part of the *)
(* invariant that is about bytes (Data).                                   *)
(*                                                                         *)
(* Then the search for a relay, for any destinations, however often the    *)
(* user goes elsewhere while a lookup is under way; the pages that share   *)
(* the list of profiles; and the pipes without resume.                     *)
(***************************************************************************)
EXTENDS MCConnections, QueueLemmas

-----------------------------------------------------------------------------
Shape ==
  /\ transport \in {"xhr", "ws"}
  /\ timers \in Nat /\ sendTimers \in Nat
  /\ transport = "xhr" => socket_ = Null /\ ws = "NONE" /\ s2c = <<>>
  /\ transport = "ws" => readRequest_ = <<>> /\ writeRequest_ = <<>>
  /\ socket_ # Null <=> ws \in {"CONNECTING", "OPEN"}
  /\ s2c # <<>> => ws = "OPEN"
  /\ socket_ # Null => backoffTimeout_ = Null
  /\ open # "resolved" =>
       /\ sessionID_ = Null /\ backoffTimeout_ = Null /\ socket_ = Null
       /\ written = 0 /\ sent = 0

IdleInv == Shape /\ NeverIdle

(* The back-off of requestError_ is at least 1 ms and at most 10 s, after   *)
(* any number of failures.                                                  *)
THEOREM BackoffBounds ==
  ASSUME NEW ms \in Nat, ms <= 10000
  PROVE  NextBackoff(ms) \in Nat /\ 1 <= NextBackoff(ms) /\ NextBackoff(ms) <= 10000
<1>1. (2 * ms + 13) % 9000 \in 0..8999
  <2> DEFINE longer == 2 * ms + 13
  <2>1. longer \in Nat
    OBVIOUS
  <2> HIDE DEF longer
  <2>2. longer % 9000 \in 0..8999
    BY <2>1, SMTT(30)
  <2> QED  BY <2>2 DEF longer
<1> QED
    BY <1>1, SMTT(30) DEF NextBackoff

USE DEF Null

(* sendWrite_ leaves no unread data behind without a write in flight or a   *)
(* timer, when it may write at all.                                         *)
LEMMA SendWriteGoesOn ==
  ASSUME Shape, NEW ready \in BOOLEAN, NEW total, NEW pending \in Nat, NEW count,
         SendWrite(ready, total, pending, count)
  PROVE  /\ sendTimers' \in Nat
         /\ transport = "ws" => writeRequest_' = <<>>
         /\ ready /\ sent' < total =>
              IF transport = "xhr" THEN writeRequest_' # <<>> ELSE sendTimers' > 0
         /\ ~ready => writeRequest_' = writeRequest_ /\ sent' = sent /\ sendTimers' = pending
<1>1. CASE ready /\ sent < total /\ transport = "xhr"
      BY <1>1 DEF SendWrite, Shape
<1>2. CASE ready /\ sent < total /\ transport = "ws"
      BY <1>2 DEF SendWrite, Shape, RestTimer
<1>3. CASE ~(ready /\ sent < total)
      BY <1>3 DEF SendWrite, Shape
<1> QED
    BY <1>1, <1>2, <1>3 DEF Shape

(* A stream that is being opened has nothing to do yet. *)
LEMMA IdleInit == Init => IdleInv
  BY DEF Init, Buf!Init, IdleInv, Shape, NeverIdle, OneTimer

(* Every step leaves a request, a socket or a timer behind. *)
LEMMA IdleNext == IdleInv /\ [Next]_vars => IdleInv'
<1> SUFFICES ASSUME IdleInv, [Next]_vars PROVE IdleInv'
    OBVIOUS
<1> USE DEF IdleInv, Shape, NeverIdle, OneTimer, ReadGoesOn, WriteGoesOn,
            setup, backoff, buffer, requests, socket, wire, relay
<1>1. CASE UNCHANGED vars
      BY <1>1 DEF vars
<1>2. CASE Open
      BY <1>2 DEF Open
<1>3. CASE OnSession
      BY <1>3 DEF OnSession, ResumeRead, ReadRequest, ReadIdle
<1>4. CASE OnSessionError
      BY <1>4 DEF OnSessionError
<1>5. ASSUME NEW n \in 1..MaxUp, Write(n) PROVE IdleInv'
  <2>1. CASE backoffTimeout_ # Null
        BY <1>5, <2>1 DEF Write
  <2>2. CASE backoffTimeout_ = Null
    <3>1. WriteReady \in BOOLEAN
          BY DEF WriteReady
    <3>2. SendWrite(WriteReady, written + n, sendTimers, readCount_)
          BY <1>5, <2>2 DEF Write
    <3> QED
        BY <1>5, <2>2, <3>1, <3>2, SendWriteGoesOn DEF Write, WriteReady
  <2> QED
      BY <2>1, <2>2
<1>6. CASE HostClose
      BY <1>6 DEF HostClose
<1>7. CASE OnBackoffExpired
      BY <1>7 DEF OnBackoffExpired, ResumeRead, ReadRequest, ReadIdle, SendWrite, WriteReady,
                  RestTimer, WriteRequest
<1>8. CASE OnReadReady
  <2>1. /\ readRequest_ # <<>>
        /\ RequestSuccess(TRUE, TRUE, WriteReady, readCount_')
        /\ UNCHANGED <<setup, open, sessionID_, written, socket, s2c, host>>
        BY <1>8 DEF OnReadReady
  <2>2. CASE backoffTimeout_ # Null
    <3>1. WriteReady \in BOOLEAN
          BY DEF WriteReady
    <3>2. /\ SendWrite(WriteReady, written, sendTimers, readCount_')
          /\ ResumeRead(sessionID_, TRUE, readCount_')
          BY <2>1, <2>2 DEF RequestSuccess
    <3>3. /\ readRequest_' # <<>> /\ UNCHANGED <<ws, s2c>>
          /\ backoffTimeout_' = Null /\ timers' = timers - 1
          BY <2>1, <2>2, <3>2 DEF RequestSuccess, ResumeRead
    <3>4. transport = "xhr" /\ timers = 1
          BY <2>1, <2>2
    <3>5. /\ sendTimers' \in Nat
          /\ WriteReady /\ sent' < written => writeRequest_' # <<>>
          /\ ~WriteReady => writeRequest_' = writeRequest_
          BY <3>1, <3>2, <3>4, SendWriteGoesOn
    <3>6. sent' < written => writeRequest_' # <<>>
          BY <3>4, <3>5 DEF WriteReady
    <3> QED
        BY <2>1, <3>3, <3>4, <3>5, <3>6
  <2>3. CASE backoffTimeout_ = Null
        BY <2>1, <2>3 DEF RequestSuccess, ResumeRead, ReadRequest
  <2> QED
      BY <2>2, <2>3
<1>9. CASE OnReadGone
      BY <1>9 DEF OnReadGone
<1>10. CASE OnWriteDone
      BY <1>10 DEF OnWriteDone, RequestSuccess, ResumeRead, ReadRequest, ReadIdle, SendWrite,
                  RestTimer, WriteRequest
<1>11. CASE OnWriteGone
      BY <1>11 DEF OnWriteGone
<1>12. CASE OnSocketOpen
      BY <1>12 DEF OnSocketOpen, RequestSuccess, ResumeRead, SendWrite, RestTimer
<1>13. CASE OnSocketData
      BY <1>13 DEF OnSocketData, RequestSuccess, ResumeRead, SendWrite, WriteReady, RestTimer
<1>14. CASE OnSocketErrorAck
      BY <1>14 DEF OnSocketErrorAck
<1>15. CASE OnSendTimer
      BY <1>15 DEF OnSendTimer, SendWrite, WriteReady, RestTimer, WriteRequest
<1>16. CASE RelayAnswersRead
  <2>1. readRequest_ # <<>> /\ (\E r : readRequest_' = <<r>>)
        BY <1>16, Zenon DEF RelayAnswersRead
  <2>2. UNCHANGED <<setup, open, sessionID_, backoff, buffer, writeRequest_, socket, sendTimers,
                    wire, host>>
        BY <1>16, Zenon DEF RelayAnswersRead
  <2> QED
      BY <2>1, <2>2
<1>17. CASE RelayAnswersWrite
      BY <1>17 DEF RelayAnswersWrite
<1>18. CASE RelayReceives
      BY <1>18 DEF RelayReceives
<1>19. CASE RelaySends
      BY <1>19 DEF RelaySends
<1>20. CASE RelaySendsError
      BY <1>20 DEF RelaySendsError
<1>21. CASE ReadFails
      BY <1>21 DEF ReadFails, Failing, RequestError, BackoffTest
<1>22. CASE WriteFails
      BY <1>22 DEF WriteFails, Failing, RequestError, BackoffTest
<1>23. CASE OnSocketError
      BY <1>23 DEF OnSocketError, RequestError, BackoffTest
<1>24. CASE SshServerSends
      BY <1>24 DEF SshServerSends
<1>25. CASE SessionEnds
      BY <1>25 DEF SessionEnds
<1> QED
      BY <1>1, <1>2, <1>3, <1>4, <1>5, <1>6, <1>7, <1>8, <1>9, <1>10, <1>11, <1>12, <1>13,
         <1>14, <1>15, <1>16, <1>17, <1>18, <1>19, <1>20, <1>21, <1>22, <1>23, <1>24, <1>25
      DEF Next, Host, Xhr, WebSocket, Relay, Failure

(* NeverIdle holds in every behaviour: while its session lasts a stream has *)
(* a read and, for unread data, a write under way, or the one back-off      *)
(* timer that will start them.                                              *)
THEOREM NeverIdleHolds == Spec => []NeverIdle
<1>1. Spec => []IdleInv
      BY IdleInit, IdleNext, PTL DEF Spec
<1>2. IdleInv => NeverIdle
      BY DEF IdleInv
<1> QED
    BY <1>1, <1>2, PTL

-----------------------------------------------------------------------------
(* Counts modulo Wrap. *)

(* A number is its quotient times W and its remainder. *)
LEMMA Quotient ==
  ASSUME NEW x \in Int, NEW W \in Nat \ {0}
  PROVE  /\ x \div W \in Int /\ x = W * (x \div W) + (x % W)
         /\ x % W \in Nat /\ x % W < W
<1>1. x \div W \in Int
  OBVIOUS
<1>2. x = W * (x \div W) + (x % W)
  OBVIOUS
<1>3. x % W \in 0..W-1
  OBVIOUS
<1> QED  BY <1>1, <1>2, <1>3

(* Numbers below W that differ by a multiple of W are equal. *)
LEMMA SameRemainder ==
  ASSUME NEW W \in Nat \ {0}, NEW k \in Int, NEW d \in Nat, NEW e \in Nat, d < W, e < W, W * k + d = e
  PROVE  d = e
<1>1. CASE k = 0
  BY <1>1
<1>2. CASE k >= 1
  <2>1. W * k >= W
    BY <1>2
  <2>2. W * k \in Int
    OBVIOUS
  <2> QED  BY <2>1, <2>2
<1>3. CASE k <= -1
  <2>1. W * k <= -W
    BY <1>3
  <2>2. W * k \in Int
    OBVIOUS
  <2> QED  BY <2>1, <2>2
<1> QED  BY <1>1, <1>2, <1>3

(* A count that is less than Wrap ahead is found from its remainder: what  *)
(* onSocketData_ makes of a 24-bit ack.                                    *)
LEMMA ForwardTo ==
  ASSUME NEW from \in Nat, NEW to \in Nat, from <= to, to < from + Wrap
  PROVE  Forward(from, to % Wrap) = to - from
<1> DEFINE x == (to % Wrap) - (from % Wrap)
           p == to \div Wrap
           q == from \div Wrap
           r == x \div Wrap
<1>0. Wrap \in Nat \ {0}
  BY CorpAssumption
<1>1. /\ to = Wrap * p + (to % Wrap) /\ p \in Int /\ to % Wrap \in Nat
      /\ from = Wrap * q + (from % Wrap) /\ q \in Int /\ from % Wrap \in Nat
  BY <1>0, Quotient
<1>2. x \in Int
  BY <1>1
<1>3. x = Wrap * r + (x % Wrap) /\ r \in Int /\ x % Wrap \in Nat /\ x % Wrap < Wrap
  BY <1>0, <1>2, Quotient
<1> DEFINE d == x % Wrap
           e == to - from
           k == p - q + r
           m == to % Wrap
           n == from % Wrap
<1> HIDE DEF p, q, r
<1>4. e \in Nat /\ e < Wrap /\ k \in Int /\ d \in Nat /\ d < Wrap
  BY <1>0, <1>1, <1>3
<1>5. Wrap * k + d = e
  <2>1. /\ to = Wrap * p + m /\ from = Wrap * q + n /\ m - n = Wrap * r + d
        /\ m \in Nat /\ n \in Nat /\ d \in Nat
    BY <1>1, <1>3
  <2> HIDE DEF m, n, d
  <2>2. Wrap * k = Wrap * p - Wrap * q + Wrap * r
    BY <1>0, <1>1, <1>3
  <2>3. Wrap * p \in Int /\ Wrap * q \in Int /\ Wrap * r \in Int
    BY <1>0, <1>1, <1>3
  <2> QED  BY <2>1, <2>2, <2>3
<1> HIDE DEF d, e, k
<1>6. d = e
  BY <1>0, <1>4, <1>5, SameRemainder
<1> QED  BY <1>6 DEF d, e, Forward

(* Forward moves by less than Wrap, to a number with that remainder. *)
LEMMA ForwardSame ==
  ASSUME NEW from \in Nat, NEW count \in Nat, count < Wrap
  PROVE  /\ Forward(from, count) \in Nat /\ Forward(from, count) < Wrap
         /\ (from + Forward(from, count)) % Wrap = count
<1> DEFINE n == from % Wrap
           x == count - n
           d == x % Wrap
           q == from \div Wrap
           r == x \div Wrap
           y == from + d
           s == y \div Wrap
           e == y % Wrap
<1>0. Wrap \in Nat \ {0}
  BY CorpAssumption
<1>1. from = Wrap * q + n /\ q \in Int /\ n \in Nat
  BY <1>0, Quotient
<1>2. x \in Int
  BY <1>1
<1>3. x = Wrap * r + d /\ r \in Int /\ d \in Nat /\ d < Wrap
  BY <1>0, <1>2, Quotient
<1>4. y \in Int
  BY <1>3
<1>5. y = Wrap * s + e /\ s \in Int /\ e \in Nat /\ e < Wrap
  BY <1>0, <1>4, Quotient
<1> DEFINE k == s - q + r
<1>6. Forward(from, count) = d
  BY DEF Forward
<1> HIDE DEF n, d, q, r, s, e
<1>7. Wrap * k + e = count
  <2>1. Wrap * k = Wrap * s - Wrap * q + Wrap * r
    BY <1>0, <1>1, <1>3, <1>5
  <2>2. Wrap * s \in Int /\ Wrap * q \in Int /\ Wrap * r \in Int
    BY <1>0, <1>1, <1>3, <1>5
  <2>3. from = Wrap * q + n /\ count - n = Wrap * r + d /\ from + d = Wrap * s + e
    BY <1>1, <1>3, <1>5
  <2> DEFINE a == Wrap * q
             b == Wrap * r
             c == Wrap * s
             z == Wrap * k
  <2>4. /\ z = c - a + b /\ from = a + n /\ count - n = b + d /\ from + d = c + e
        /\ a \in Int /\ b \in Int /\ c \in Int /\ n \in Nat /\ d \in Nat /\ e \in Nat
    BY <1>1, <1>3, <1>5, <2>1, <2>2, <2>3
  <2> HIDE DEF a, b, c, z
  <2>5. z + e = count
    BY <2>4
  <2> QED  BY <2>5 DEF z
<1>8. k \in Int
  BY <1>1, <1>3, <1>5
<1> HIDE DEF k
<1>9. e = count
  BY <1>0, <1>5, <1>7, <1>8, SameRemainder
<1> QED  BY <1>3, <1>6, <1>9 DEF e

(* Moving part of the way first does not change where Forward ends. *)
LEMMA ForwardMoves ==
  ASSUME NEW from \in Nat, NEW count \in Nat, count < Wrap, NEW mid \in Nat,
         from <= mid, mid <= from + Forward(from, count)
  PROVE  mid + Forward(mid, count) = from + Forward(from, count)
<1> DEFINE to == from + Forward(from, count)
<1>0. Wrap \in Nat \ {0}
  BY CorpAssumption
<1>1. to \in Nat /\ to < from + Wrap /\ to % Wrap = count
  <2>1. /\ Forward(from, count) \in Nat /\ Forward(from, count) < Wrap
        /\ (from + Forward(from, count)) % Wrap = count
    BY ForwardSame
  <2> QED  BY <1>0, <2>1
<1>2. mid <= to /\ to < mid + Wrap
  BY <1>0, <1>1
<1> HIDE DEF to
<1>3. Forward(mid, to % Wrap) = to - mid
  BY <1>1, <1>2, ForwardTo
<1> QED  BY <1>1, <1>3 DEF to

-----------------------------------------------------------------------------
(* The messages on the two ways of the WebSocket.                          *)

(* What a message carries are numbers. *)
LEMMA MessageFields ==
  ASSUME NEW m \in Messages
  PROVE  m.data.lo \in Nat /\ m.data.hi \in Nat /\ m.ack \in Nat
BY DEF Messages

(* Nothing is on its way down. *)
LEMMA DownwardEmpty ==
  ASSUME NEW from \in Nat, NEW count \in Nat
  PROVE  Downward(<<>>, 0, from, from, count, count)
BY DEF Downward

(* Taking the first message off the way down: it carries the next bytes    *)
(* and a count that has been reached, and the rest goes on from there.     *)
LEMMA DownwardTail ==
  ASSUME NEW q \in Seq(Messages), NEW n \in 1..Len(q), NEW from \in Nat, NEW to \in Nat,
         NEW count \in Nat, NEW acked \in Nat, Downward(q, n, from, to, count, acked)
  PROVE  /\ q[1].data.lo = from + 1 /\ from <= q[1].data.hi /\ q[1].data.hi <= to /\ q[1].ack < Wrap
         /\ q[1].data.hi \in Nat /\ q[1].ack \in Nat
         /\ count + Forward(count, q[1].ack) <= acked
         /\ Downward(Tail(q), n - 1, q[1].data.hi, to, count + Forward(count, q[1].ack), acked)
<1> DEFINE Before(i) == IF i = 0 THEN from ELSE q[i].data.hi
           Count(i) == IF i = 0 THEN count ELSE count + Forward(count, q[i].ack)
           t == Tail(q)
           mid == Count(1)
<1>1. /\ \A i \in 1..n : q[i].data.lo = Before(i - 1) + 1 /\ q[i].ack < Wrap
      /\ \A i, j \in 0..n : i <= j => Before(i) <= Before(j) /\ Count(i) <= Count(j)
      /\ Before(n) = to /\ Count(n) = acked
  BY DEF Downward
<1>2. \A i \in 1..n : q[i].data.hi \in Nat /\ q[i].ack \in Nat
  BY MessageFields
<1>3. \A i \in 1..n : Count(i) \in Nat
  <2> SUFFICES ASSUME NEW i \in 1..n PROVE Count(i) \in Nat
    OBVIOUS
  <2>1. q[i].ack \in Nat /\ q[i].ack < Wrap /\ i # 0
    BY <1>1, <1>2
  <2>2. Forward(count, q[i].ack) \in Nat
    BY <2>1, ForwardSame
  <2> QED  BY <2>1, <2>2
<1>4. \A i \in 1..(n - 1) : t[i] = q[i + 1]
  OBVIOUS
<1> DEFINE TBefore(i) == IF i = 0 THEN q[1].data.hi ELSE t[i].data.hi
           TCount(i) == IF i = 0 THEN mid ELSE mid + Forward(mid, t[i].ack)
<1>5. \A i \in 0..(n - 1) : TBefore(i) = Before(i + 1)
  BY <1>4
<1>6. \A i \in 0..(n - 1) : TCount(i) = Count(i + 1)
  <2> SUFFICES ASSUME NEW i \in 0..(n - 1) PROVE TCount(i) = Count(i + 1)
    OBVIOUS
  <2>1. CASE i = 0
    BY <2>1
  <2>2. CASE i # 0
    <3>1. /\ i + 1 \in 1..n /\ t[i] = q[i + 1] /\ 1 <= i + 1 /\ i \in 1..(n - 1)
          /\ q[i + 1].ack \in Nat /\ q[i + 1].ack < Wrap
      BY <1>1, <1>2, <1>4, <2>2
    <3>2. count <= mid /\ mid <= count + Forward(count, q[i + 1].ack) /\ mid \in Nat
      <4>1. Count(0) <= Count(1) /\ Count(1) <= Count(i + 1) /\ 1 \in 1..n
        BY <1>1, <3>1
      <4> QED  BY <1>3, <3>1, <4>1
    <3> HIDE DEF mid
    <3>3. mid + Forward(mid, q[i + 1].ack) = count + Forward(count, q[i + 1].ack)
      BY <3>1, <3>2, ForwardMoves
    <3> QED  BY <2>2, <3>1, <3>3
  <2> QED  BY <2>1, <2>2
<1>7. /\ Before(0) = from /\ Before(1) = q[1].data.hi /\ Count(1) = count + Forward(count, q[1].ack)
  OBVIOUS
<1>8. 1 \in 1..n /\ 0 \in 0..n /\ 1 \in 0..n /\ n \in 0..n
  OBVIOUS
<1>9. /\ q[1].data.lo = from + 1 /\ from <= q[1].data.hi /\ q[1].data.hi <= to /\ q[1].ack < Wrap
      /\ mid <= acked
  BY <1>1, <1>7, <1>8
<1>10. \A i \in 1..(n - 1) : t[i].data.lo = TBefore(i - 1) + 1 /\ t[i].ack < Wrap
  <2> SUFFICES ASSUME NEW i \in 1..(n - 1) PROVE t[i].data.lo = TBefore(i - 1) + 1 /\ t[i].ack < Wrap
    OBVIOUS
  <2>1. i + 1 \in 1..n /\ i - 1 \in 0..(n - 1) /\ (i + 1) - 1 = i /\ (i - 1) + 1 = i /\ t[i] = q[i + 1]
    BY <1>4
  <2>2. q[i + 1].data.lo = Before(i) + 1 /\ q[i + 1].ack < Wrap
    BY <1>1, <2>1
  <2>3. TBefore(i - 1) = Before(i)
    BY <1>5, <2>1
  <2> HIDE DEF Before, TBefore
  <2> QED  BY <2>1, <2>2, <2>3
<1>11. \A i, j \in 0..(n - 1) : i <= j => TBefore(i) <= TBefore(j) /\ TCount(i) <= TCount(j)
  <2> SUFFICES ASSUME NEW i \in 0..(n - 1), NEW j \in 0..(n - 1), i <= j
               PROVE  TBefore(i) <= TBefore(j) /\ TCount(i) <= TCount(j)
    OBVIOUS
  <2>1. i + 1 \in 0..n /\ j + 1 \in 0..n /\ i + 1 <= j + 1
    OBVIOUS
  <2> HIDE DEF Before, Count, TBefore, TCount
  <2> QED  BY <1>1, <1>5, <1>6, <2>1
<1>12. TBefore(n - 1) = to /\ TCount(n - 1) = acked
  <2> HIDE DEF Before, Count, TBefore, TCount
  <2> QED  BY <1>1, <1>5, <1>6
<1>13. Downward(t, n - 1, q[1].data.hi, to, mid, acked)
  BY <1>10, <1>11, <1>12 DEF Downward
<1> QED  BY <1>2, <1>8, <1>9, <1>13, <1>7

(* Putting a message behind the counting ones leaves those as they are. *)
LEMMA DownwardFrame ==
  ASSUME NEW q \in Seq(Messages), NEW e \in Messages, NEW n \in 0..Len(q), NEW from \in Nat,
         NEW to \in Nat, NEW count \in Nat, NEW acked \in Nat,
         Downward(q, n, from, to, count, acked)
  PROVE  Downward(Append(q, e), n, from, to, count, acked)
<1> DEFINE t == Append(q, e)
           Before(i) == IF i = 0 THEN from ELSE q[i].data.hi
           Count(i) == IF i = 0 THEN count ELSE count + Forward(count, q[i].ack)
           TBefore(i) == IF i = 0 THEN from ELSE t[i].data.hi
           TCount(i) == IF i = 0 THEN count ELSE count + Forward(count, t[i].ack)
<1>1. /\ \A i \in 1..n : q[i].data.lo = Before(i - 1) + 1 /\ q[i].ack < Wrap
      /\ \A i, j \in 0..n : i <= j => Before(i) <= Before(j) /\ Count(i) <= Count(j)
      /\ Before(n) = to /\ Count(n) = acked
  BY DEF Downward
<1>2. \A i \in 1..n : t[i] = q[i]
  OBVIOUS
<1> HIDE DEF t
<1>3. \A i \in 0..n : TBefore(i) = Before(i) /\ TCount(i) = Count(i)
  BY <1>2
<1>4. n \in 0..n /\ \A i \in 1..n : i - 1 \in 0..n
  OBVIOUS
<1>5. /\ \A i \in 1..n : t[i].data.lo = TBefore(i - 1) + 1 /\ t[i].ack < Wrap
      /\ \A i, j \in 0..n : i <= j => TBefore(i) <= TBefore(j) /\ TCount(i) <= TCount(j)
      /\ TBefore(n) = to /\ TCount(n) = acked
  <2> HIDE DEF Before, Count, TBefore, TCount
  <2> QED  BY <1>1, <1>2, <1>3, <1>4
<1>6. Downward(t, n, from, to, count, acked)
  BY <1>5 DEF Downward
<1> QED  BY <1>6 DEF t

(* The relay sends what follows the last message, with a later count. *)
LEMMA DownwardAppend ==
  ASSUME NEW q \in Seq(Messages), NEW e \in Messages, NEW from \in Nat,
         NEW to \in Nat, NEW count \in Nat, NEW acked \in Nat, NEW recv \in Nat,
         Downward(q, Len(q), from, to, count, acked),
         e.data.lo = to + 1, to <= e.data.hi,
         e.ack = recv % Wrap, acked <= recv, recv < count + Wrap
  PROVE  Downward(Append(q, e), Len(q) + 1, from, e.data.hi, count, recv)
<1> DEFINE t == Append(q, e)
           n == Len(q)
           Before(i) == IF i = 0 THEN from ELSE q[i].data.hi
           Count(i) == IF i = 0 THEN count ELSE count + Forward(count, q[i].ack)
           TBefore(i) == IF i = 0 THEN from ELSE t[i].data.hi
           TCount(i) == IF i = 0 THEN count ELSE count + Forward(count, t[i].ack)
<1>0. Wrap \in Nat \ {0} /\ n \in Nat /\ e.data.hi \in Nat
  BY CorpAssumption, MessageFields
<1>1. /\ \A i \in 1..n : q[i].data.lo = Before(i - 1) + 1 /\ q[i].ack < Wrap
      /\ \A i, j \in 0..n : i <= j => Before(i) <= Before(j) /\ Count(i) <= Count(j)
      /\ Before(n) = to /\ Count(n) = acked
  BY DEF Downward
<1>2. /\ \A i \in 1..n : t[i] = q[i]
      /\ t[n + 1] = e /\ n + 1 # 0
  BY <1>0
<1> HIDE DEF t
<1>3. /\ \A i \in 0..n : TBefore(i) = Before(i) /\ TCount(i) = Count(i)
      /\ TBefore(n + 1) = e.data.hi
  BY <1>0, <1>2
<1>4. count <= recv
  <2>1. Count(0) <= Count(n) /\ Count(0) = count
    BY <1>0, <1>1
  <2> HIDE DEF Count
  <2> QED  BY <1>1, <2>1
<1>5. Forward(count, recv % Wrap) = recv - count
  BY <1>4, ForwardTo
<1>6. TCount(n + 1) = recv
  BY <1>0, <1>2, <1>5
<1>7. e.ack < Wrap
  <2>1. recv % Wrap < Wrap
    BY <1>0, Quotient
  <2> QED  BY <2>1
<1>8. \A i \in 0..n : Before(i) \in Nat /\ Count(i) \in Nat
  <2>1. \A i \in 1..n : q[i].data.hi \in Nat /\ q[i].ack \in Nat
    BY MessageFields
  <2>2. ASSUME NEW i \in 1..n PROVE Forward(count, q[i].ack) \in Nat
    BY <1>1, <2>1, ForwardSame
  <2> QED  BY <2>1, <2>2
<1>9. \A i \in 1..(n + 1) : t[i].data.lo = TBefore(i - 1) + 1 /\ t[i].ack < Wrap
  <2> SUFFICES ASSUME NEW i \in 1..(n + 1) PROVE t[i].data.lo = TBefore(i - 1) + 1 /\ t[i].ack < Wrap
    OBVIOUS
  <2>1. i - 1 \in 0..n /\ (i \in 1..n \/ i = n + 1) /\ n \in 0..n
    BY <1>0
  <2>2. n + 1 - 1 = n
    BY <1>0
  <2> HIDE DEF Before, TBefore, Count, TCount
  <2> QED  BY <1>1, <1>2, <1>3, <1>7, <2>1, <2>2
<1>10. \A i, j \in 0..(n + 1) : i <= j => TBefore(i) <= TBefore(j) /\ TCount(i) <= TCount(j)
  <2> SUFFICES ASSUME NEW i \in 0..(n + 1), NEW j \in 0..(n + 1), i <= j
               PROVE  TBefore(i) <= TBefore(j) /\ TCount(i) <= TCount(j)
    OBVIOUS
  <2> HIDE DEF Before, TBefore, Count, TCount
  <2>1. CASE j \in 0..n
    BY <1>0, <1>1, <1>3, <2>1
  <2>2. CASE i \in 0..n /\ j = n + 1
    <3>1. Before(i) <= to /\ Count(i) <= acked /\ Before(i) \in Nat /\ Count(i) \in Nat
      BY <1>0, <1>1, <1>8, <2>2
    <3> QED  BY <1>0, <1>3, <1>6, <2>2, <3>1
  <2>3. CASE i = n + 1 /\ j = n + 1
    BY <1>0, <1>3, <1>6, <2>3
  <2> QED  BY <1>0, <2>1, <2>2, <2>3
<1>11. Downward(t, n + 1, from, e.data.hi, count, recv)
  BY <1>3, <1>6, <1>9, <1>10 DEF Downward
<1> QED  BY <1>11 DEF t

(* The counts on their way up are remainders. *)
LEMMA UpwardFacts ==
  ASSUME NEW q \in Seq(Messages), NEW from, NEW to, NEW acked \in Nat, NEW read,
         Upward(q, from, to, acked, read)
  PROVE  \A i \in DOMAIN q : /\ q[i].data.lo \in Nat /\ q[i].data.hi \in Nat /\ q[i].ack \in Nat
                             /\ q[i].ack < Wrap /\ Forward(acked, q[i].ack) \in Nat
<1> SUFFICES ASSUME NEW i \in DOMAIN q
             PROVE  /\ q[i].data.lo \in Nat /\ q[i].data.hi \in Nat /\ q[i].ack \in Nat
                    /\ q[i].ack < Wrap /\ Forward(acked, q[i].ack) \in Nat
  OBVIOUS
<1>1. q[i].data.lo \in Nat /\ q[i].data.hi \in Nat /\ q[i].ack \in Nat
  BY MessageFields
<1>2. q[i].ack < Wrap
  BY DEF Upward
<1> QED  BY <1>1, <1>2, ForwardSame

(* More may have been sent and read than the messages say. *)
LEMMA UpwardLoosen ==
  ASSUME NEW q \in Seq(Messages), NEW from \in Nat, NEW to \in Nat, NEW acked \in Nat, NEW read \in Nat,
         Upward(q, from, to, acked, read), NEW to2 \in Nat, to <= to2, NEW read2 \in Nat, read <= read2
  PROVE  Upward(q, from, to2, acked, read2)
<1>1. \A i \in DOMAIN q : /\ q[i].data.lo \in Nat /\ q[i].data.hi \in Nat /\ q[i].ack \in Nat
                          /\ q[i].ack < Wrap /\ Forward(acked, q[i].ack) \in Nat
  BY UpwardFacts
<1> QED  BY <1>1 DEF Upward

(* Taking the first message off the way up: what it carries is beyond what *)
(* has arrived, and so is all behind it.                                   *)
LEMMA UpwardTake ==
  ASSUME NEW q \in Seq(Messages), q # <<>>, NEW from \in Nat, NEW to \in Nat, NEW acked \in Nat,
         NEW read \in Nat, Upward(q, from, to, acked, read)
  PROVE  /\ from < q[1].data.lo /\ q[1].data.lo <= q[1].data.hi /\ q[1].data.hi <= to
         /\ q[1].data.lo \in Nat /\ q[1].data.hi \in Nat
         /\ Forward(acked, q[1].ack) \in Nat /\ acked + Forward(acked, q[1].ack) <= read
         /\ Upward(Tail(q), from, to, acked, read)
         /\ \A next \in Nat : next <= q[1].data.hi =>
              Upward(Tail(q), next, to, acked + Forward(acked, q[1].ack), read)
<1> DEFINE mid == acked + Forward(acked, q[1].ack)
           t == Tail(q)
<1>1. \A i \in DOMAIN q : /\ q[i].data.lo \in Nat /\ q[i].data.hi \in Nat /\ q[i].ack \in Nat
                          /\ q[i].ack < Wrap /\ Forward(acked, q[i].ack) \in Nat
  BY UpwardFacts
<1>2. /\ 1 \in DOMAIN q
      /\ \A i \in DOMAIN t : i \in Nat /\ i + 1 \in DOMAIN q /\ 1 < i + 1 /\ t[i] = q[i + 1]
  OBVIOUS
<1>3. /\ from < q[1].data.lo /\ q[1].data.lo <= q[1].data.hi /\ q[1].data.hi <= to
      /\ mid <= read /\ mid \in Nat /\ acked <= mid
  BY <1>1, <1>2 DEF Upward
<1> HIDE DEF t
<1>4. \A i, j \in DOMAIN t : i < j => i + 1 < j + 1
  BY <1>2
<1>5. Upward(t, from, to, acked, read)
  BY <1>2, <1>4 DEF Upward
<1>6. ASSUME NEW i \in DOMAIN t
      PROVE  /\ mid + Forward(mid, t[i].ack) = acked + Forward(acked, t[i].ack)
             /\ q[1].data.hi < t[i].data.lo
  <2>1. /\ i + 1 \in DOMAIN q /\ 1 < i + 1 /\ t[i] = q[i + 1] /\ 1 \in DOMAIN q
    BY <1>2
  <2>2. mid <= acked + Forward(acked, q[i + 1].ack) /\ q[1].data.hi < q[i + 1].data.lo
    BY <2>1 DEF Upward
  <2>3. q[i + 1].ack \in Nat /\ q[i + 1].ack < Wrap
    BY <1>1, <2>1
  <2> HIDE DEF mid
  <2>4. mid + Forward(mid, q[i + 1].ack) = acked + Forward(acked, q[i + 1].ack)
    BY <1>3, <2>2, <2>3, ForwardMoves
  <2> QED  BY <2>1, <2>2, <2>4
<1>7. ASSUME NEW next \in Nat, next <= q[1].data.hi
      PROVE  Upward(t, next, to, mid, read)
  <2>1. \A i \in DOMAIN t :
           /\ next < t[i].data.lo /\ t[i].data.lo <= t[i].data.hi /\ t[i].data.hi <= to
           /\ t[i].ack < Wrap /\ mid + Forward(mid, t[i].ack) <= read
    <3> SUFFICES ASSUME NEW i \in DOMAIN t
                 PROVE  /\ next < t[i].data.lo /\ t[i].data.lo <= t[i].data.hi /\ t[i].data.hi <= to
                        /\ t[i].ack < Wrap /\ mid + Forward(mid, t[i].ack) <= read
      OBVIOUS
    <3>1. /\ t[i].data.lo <= t[i].data.hi /\ t[i].data.hi <= to /\ t[i].ack < Wrap
          /\ acked + Forward(acked, t[i].ack) <= read
      BY <1>5 DEF Upward
    <3>2. t[i].data.lo \in Nat /\ q[1].data.hi < t[i].data.lo /\ q[1].data.hi \in Nat
      BY <1>1, <1>2, <1>6
    <3>3. next < t[i].data.lo
      BY <1>7, <3>2
    <3> QED  BY <1>6, <3>1, <3>3
  <2>2. \A i, j \in DOMAIN t : i < j =>
          /\ t[i].data.hi < t[j].data.lo
          /\ mid + Forward(mid, t[i].ack) <= mid + Forward(mid, t[j].ack)
    BY <1>5, <1>6 DEF Upward
  <2> HIDE DEF mid
  <2> QED  BY <2>1, <2>2 DEF Upward
<1> QED  BY <1>1, <1>2, <1>3, <1>5, <1>7 DEF t

(* Sending what follows the last byte sent, with the count of bytes read. *)
LEMMA UpwardSend ==
  ASSUME NEW q \in Seq(Messages), NEW e \in Messages, NEW from \in Nat, NEW to \in Nat, from <= to,
         NEW acked \in Nat, NEW read \in Nat, NEW read2 \in Nat,
         acked <= read, read <= read2, read2 < acked + Wrap,
         Upward(q, from, to, acked, read),
         e.data.lo = to + 1, to < e.data.hi, e.ack = read2 % Wrap
  PROVE  Upward(Append(q, e), from, e.data.hi, acked, read2)
<1> DEFINE t == Append(q, e)
           n == Len(q)
           hi == e.data.hi
           Count(i) == acked + Forward(acked, t[i].ack)
<1>0. hi \in Nat /\ e.data.lo \in Nat /\ n \in Nat /\ Wrap \in Nat \ {0}
  BY MessageFields, CorpAssumption
<1>1. e.ack < Wrap /\ acked + Forward(acked, e.ack) = read2
  <2>1. Forward(acked, read2 % Wrap) = read2 - acked
    BY ForwardTo
  <2>2. read2 % Wrap < Wrap
    BY <1>0, Quotient
  <2> QED  BY <2>1, <2>2
<1>2. /\ DOMAIN t = DOMAIN q \cup {n + 1} /\ t[n + 1] = e
      /\ \A i \in DOMAIN q : t[i] = q[i] /\ i \in Nat /\ i < n + 1
  OBVIOUS
<1>3. \A i \in DOMAIN q : /\ q[i].data.lo \in Nat /\ q[i].data.hi \in Nat /\ q[i].ack \in Nat
                          /\ q[i].ack < Wrap /\ Forward(acked, q[i].ack) \in Nat
  BY UpwardFacts
<1> HIDE DEF t
<1>4. \A i \in DOMAIN q :
        /\ from < t[i].data.lo /\ t[i].data.lo <= t[i].data.hi /\ t[i].data.hi <= to
        /\ t[i].ack < Wrap /\ Count(i) <= read /\ Count(i) \in Nat /\ t[i].data.hi \in Nat
  BY <1>2, <1>3 DEF Upward
<1>5. Count(n + 1) = read2
  BY <1>1, <1>2
<1>6. \A i \in DOMAIN t :
        /\ from < t[i].data.lo /\ t[i].data.lo <= t[i].data.hi /\ t[i].data.hi <= hi
        /\ t[i].ack < Wrap /\ Count(i) <= read2
  <2> SUFFICES ASSUME NEW i \in DOMAIN t
               PROVE  /\ from < t[i].data.lo /\ t[i].data.lo <= t[i].data.hi /\ t[i].data.hi <= hi
                      /\ t[i].ack < Wrap /\ Count(i) <= read2
    OBVIOUS
  <2>1. CASE i \in DOMAIN q
    <3>1. /\ from < t[i].data.lo /\ t[i].data.lo <= t[i].data.hi /\ t[i].data.hi <= to
          /\ t[i].ack < Wrap /\ Count(i) <= read /\ Count(i) \in Nat /\ t[i].data.hi \in Nat
      BY <1>4, <2>1
    <3> HIDE DEF Count, hi
    <3>2. to <= hi
      BY <1>0 DEF hi
    <3> QED  BY <1>0, <3>1, <3>2
  <2>2. CASE i = n + 1
    <3>1. t[i] = e /\ Count(i) = read2
      BY <1>2, <1>5, <2>2
    <3> HIDE DEF Count
    <3> QED  BY <1>0, <1>1, <3>1
  <2> QED  BY <1>2, <2>1, <2>2
<1>7. \A i, j \in DOMAIN t : i < j => t[i].data.hi < t[j].data.lo /\ Count(i) <= Count(j)
  <2> SUFFICES ASSUME NEW i \in DOMAIN t, NEW j \in DOMAIN t, i < j
               PROVE  t[i].data.hi < t[j].data.lo /\ Count(i) <= Count(j)
    OBVIOUS
  <2>0. i \in DOMAIN q
    BY <1>0, <1>2
  <2>1. CASE j \in DOMAIN q
    BY <1>2, <2>0, <2>1 DEF Upward
  <2>2. CASE j = n + 1
    <3>1. t[j] = e /\ Count(j) = read2
      BY <1>2, <1>5, <2>2
    <3>2. t[i].data.hi <= to /\ Count(i) <= read /\ Count(i) \in Nat /\ t[i].data.hi \in Nat
      BY <1>4, <2>0
    <3> HIDE DEF Count
    <3> QED  BY <1>0, <3>1, <3>2
  <2> QED  BY <1>2, <2>1, <2>2
<1>8. Upward(t, from, hi, acked, read2)
  BY <1>6, <1>7 DEF Upward
<1> QED  BY <1>8 DEF t

-----------------------------------------------------------------------------
(* What is delivered, and what sendWrite_ sends.                           *)

(* The positions lo .. hi are hi - lo + 1 numbers. *)
LEMMA PositionsAre ==
  ASSUME NEW lo \in Nat, NEW hi \in Nat, lo <= hi + 1
  PROVE  Positions(lo, hi) \in Seq(Nat) /\ Len(Positions(lo, hi)) = hi - lo + 1
<1>1. hi - lo + 1 \in Nat
  OBVIOUS
<1>2. \A i \in 1..(hi - lo + 1) : lo + i - 1 \in Nat
  OBVIOUS
<1> DEFINE n == hi - lo + 1
<1>3. [i \in 1..n |-> lo + i - 1] \in [1..n -> Nat] /\ n \in Nat
  BY <1>1, <1>2
<1> HIDE DEF n
<1>4. [i \in 1..n |-> lo + i - 1] \in Seq(Nat) /\ Len([i \in 1..n |-> lo + i - 1]) = n
  BY <1>3
<1> QED  BY <1>4 DEF Positions, n

(* Delivering the bytes after the first r makes them the first h. *)
LEMMA DeliverNext ==
  ASSUME NEW r \in Nat, NEW h \in Nat, r <= h
  PROVE  Down!FirstBytes(r) \o Positions(r + 1, h) = Down!FirstBytes(h)
<1> DEFINE a == Down!FirstBytes(r)
           b == Positions(r + 1, h)
           c == a \o b
<1>1. b \in Seq(Nat) /\ Len(b) = h - r
  <2>1. r + 1 \in Nat /\ r + 1 <= h + 1
    OBVIOUS
  <2>2. b \in Seq(Nat) /\ Len(b) = h - (r + 1) + 1
    BY <2>1, PositionsAre
  <2> QED  BY <2>2
<1>2. a \in Seq(Nat) /\ Len(a) = r
  BY DEF Down!FirstBytes
<1>3. \A i \in 1..(h - r) : b[i] = r + i
  BY DEF Positions
<1>4. \A i \in 1..r : a[i] = i
  BY DEF Down!FirstBytes
<1> HIDE DEF a, b
<1>5. c \in Seq(Nat) /\ Len(c) = Len(a) + Len(b)
  BY <1>1, <1>2
<1>6. \A i \in 1..h : c[i] = i
  <2> SUFFICES ASSUME NEW i \in 1..h PROVE c[i] = i
    OBVIOUS
  <2>1. CASE i <= r
    <3>1. i \in 1..r /\ c[i] = a[i]
      BY <1>1, <1>2, <2>1
    <3> QED  BY <1>4, <3>1
  <2>2. CASE i > r
    <3>1. i - r \in 1..(h - r) /\ c[i] = b[i - r]
      BY <1>1, <1>2, <2>2
    <3> QED  BY <1>3, <3>1
  <2>3. i <= r \/ i > r
    OBVIOUS
  <2> QED  BY <2>1, <2>2, <2>3
<1>7. Len(c) = h
  BY <1>1, <1>2, <1>5
<1>8. Down!FirstBytes(h) \in Seq(Nat) /\ Len(Down!FirstBytes(h)) = h
      /\ \A i \in 1..h : Down!FirstBytes(h)[i] = i
  BY DEF Down!FirstBytes
<1> HIDE DEF c
<1>9. c = Down!FirstBytes(h)
  BY <1>5, <1>6, <1>7, <1>8
<1> QED  BY <1>9 DEF a, b, c

(* What one sendWrite_ sends: a /write, or a message on the WebSocket. *)
LEMMA SendWriteSends ==
  ASSUME transport \in {"xhr", "ws"}, sent \in Nat, NEW total \in Nat, sent <= total,
         NEW ready, NEW pending, NEW count, SendWrite(ready, total, pending, count)
  PROVE  /\ sent' \in Nat /\ sent <= sent' /\ sent' <= total
         /\ \/ UNCHANGED <<c2s, sent>>
            \/ c2s' = c2s /\ transport = "xhr"
            \/ /\ transport = "ws" /\ ready /\ sent < sent'
               /\ c2s' = Append(c2s, [data |-> [lo |-> sent + 1, hi |-> sent'], ack |-> count % Wrap])
         /\ \/ writeRequest_' = <<>>
            \/ writeRequest_' = writeRequest_ /\ (transport = "ws" \/ ~ready)
            \/ transport = "xhr" /\ sent < sent' /\ writeRequest_' = <<WriteRequest(sent + 1, sent')>>
<1> DEFINE hi == Chunk(total)
<1>1. CASE ready /\ sent < total
  <2>1. hi \in Nat /\ sent < hi /\ hi <= total
    BY <1>1, CorpAssumption DEF Chunk, Buf!Smaller
  <2> HIDE DEF hi
  <2>2. CASE /\ transport = "xhr" /\ writeRequest_' = <<WriteRequest(sent + 1, hi)>>
             /\ sent' = hi /\ UNCHANGED c2s
    BY <2>1, <2>2
  <2>3. CASE /\ transport = "ws" /\ c2s' = Append(c2s, [data |-> [lo |-> sent + 1, hi |-> hi], ack |-> count % Wrap])
             /\ sent' = hi /\ UNCHANGED writeRequest_
    BY <1>1, <2>1, <2>3
  <2>4. CASE transport = "ws" /\ UNCHANGED <<sent, c2s, writeRequest_>>
    BY <2>4
  <2>5. \/ /\ transport = "xhr" /\ writeRequest_' = <<WriteRequest(sent + 1, hi)>>
           /\ sent' = hi /\ UNCHANGED c2s
        \/ /\ transport = "ws" /\ c2s' = Append(c2s, [data |-> [lo |-> sent + 1, hi |-> hi], ack |-> count % Wrap])
           /\ sent' = hi /\ UNCHANGED writeRequest_
        \/ transport = "ws" /\ UNCHANGED <<sent, c2s, writeRequest_>>
    BY <1>1 DEF SendWrite, hi
  <2> QED  BY <2>2, <2>3, <2>4, <2>5
<1>2. CASE ~(ready /\ sent < total)
  <2>1. UNCHANGED <<sent, c2s>> /\ writeRequest_' = (IF ready THEN <<>> ELSE writeRequest_)
    BY <1>2 DEF SendWrite
  <2> QED  BY <2>1
<1> QED  BY <1>1, <1>2

(* After sendWrite_ the way up is still in order. *)
LEMMA SendWriteUp ==
  ASSUME transport \in {"xhr", "ws"}, sent \in Nat, NEW total \in Nat, sent <= total,
         c2s \in Seq(Messages), NEW ready, NEW pending, NEW read \in Nat, NEW count \in Nat, read <= count,
         SendWrite(ready, total, pending, count),
         NEW from \in Nat, NEW acked \in Nat, transport = "ws" => from <= sent /\ count < acked + Wrap,
         acked <= read, Upward(c2s, from, sent, acked, read)
  PROVE  /\ c2s' \in Seq(Messages) /\ Upward(c2s', from, sent', acked, count)
         /\ c2s' # <<>> => c2s # <<>> \/ (transport = "ws" /\ ready)
<1>1. sent' \in Nat /\ sent <= sent' /\ sent' <= total
  BY SendWriteSends
<1>2. CASE c2s' = c2s
  BY <1>1, <1>2, UpwardLoosen
<1>3. CASE /\ transport = "ws" /\ ready /\ sent < sent'
           /\ c2s' = Append(c2s, [data |-> [lo |-> sent + 1, hi |-> sent'], ack |-> count % Wrap])
  <2> DEFINE e == [data |-> [lo |-> sent + 1, hi |-> sent'], ack |-> count % Wrap]
  <2>1. count % Wrap \in Nat
    BY CorpAssumption, Quotient
  <2>2. e \in Messages /\ e.data.lo = sent + 1 /\ e.data.hi = sent' /\ e.ack = count % Wrap
    BY <1>1, <2>1 DEF Messages
  <2>3. c2s' = Append(c2s, e)
    BY <1>3
  <2> HIDE DEF e
  <2>4. Upward(Append(c2s, e), from, e.data.hi, acked, count)
    BY <1>3, <2>2, UpwardSend
  <2> QED  BY <1>3, <2>2, <2>3, <2>4
<1> QED  BY <1>2, <1>3, SendWriteSends

(* After sendWrite_ the /write in flight holds bytes that are not acked. *)
LEMMA SendWriteWrites ==
  ASSUME transport \in {"xhr", "ws"}, sent \in Nat, NEW total \in Nat, sent <= total,
         srvRecv \in Seq(Nat), sessionID_ \in {Null, "sid"}, writeCount_ \in Nat, writeCount_' \in Nat,
         writeRequest_ \in Seq(WriteRequests), Len(writeRequest_) <= 1,
         NEW ready, NEW pending, NEW count, SendWrite(ready, total, pending, count),
         WritesHold, writeCount_' <= sent, UNCHANGED srvRecv,
         transport = "ws" => writeRequest_ = <<>>,
         transport = "xhr" /\ ~ready => UNCHANGED writeCount_
  PROVE  writeRequest_' \in Seq(WriteRequests) /\ Len(writeRequest_') <= 1 /\ WritesHold'
<1>1. sent' \in Nat /\ sent <= sent' /\ sent' <= total
  BY SendWriteSends
<1>2. CASE writeRequest_' = <<>>
  BY <1>2 DEF WritesHold
<1>3. CASE writeRequest_' = writeRequest_ /\ transport = "xhr" /\ ~ready
  <2>0. \A i \in DOMAIN writeRequest_ : writeRequest_[i] \in WriteRequests
    OBVIOUS
  <2>1. \A i \in DOMAIN writeRequest_ : writeRequest_[i].hi \in Nat
    BY <2>0 DEF WriteRequests
  <2>2. \A n \in Nat : n <= sent => n <= sent'
    BY <1>1
  <2>3. UNCHANGED <<writeCount_, srvRecv>>
    BY <1>3
  <2> QED  BY <1>3, <2>1, <2>2, <2>3 DEF WritesHold
<1>4. CASE sent < sent' /\ writeRequest_' = <<WriteRequest(sent + 1, sent')>>
  <2> DEFINE r == WriteRequest(sent + 1, sent')
  <2>1. r \in WriteRequests /\ r.lo = sent + 1 /\ r.hi = sent' /\ r.status = 0
    BY <1>1 DEF WriteRequest, WriteRequests
  <2> HIDE DEF r
  <2>2. writeRequest_' = <<r>>
    BY <1>4 DEF r
  <2>3. writeCount_' < sent + 1 /\ sent + 1 <= sent'
    BY <1>1, <1>4
  <2>4. /\ writeRequest_' \in Seq(WriteRequests) /\ Len(writeRequest_') = 1
        /\ DOMAIN writeRequest_' = {1} /\ writeRequest_'[1] = r
    BY <2>1, <2>2
  <2>5. WritesHold'
    BY <1>1, <2>1, <2>3, <2>4 DEF WritesHold
  <2> QED  BY <2>4, <2>5
<1>5. \/ writeRequest_' = <<>>
      \/ writeRequest_' = writeRequest_ /\ (transport = "ws" \/ ~ready)
      \/ sent < sent' /\ writeRequest_' = <<WriteRequest(sent + 1, sent')>>
  BY SendWriteSends
<1>6. transport = "xhr" \/ writeRequest_ = <<>>
  OBVIOUS
<1> QED  BY <1>2, <1>3, <1>4, <1>5, <1>6

-----------------------------------------------------------------------------
(* Steps.                                                                  *)

(* The positions of the buffers; what is acked has been received. *)
Numbers ==
  /\ written \in Nat /\ sent \in Nat /\ writeCount_ \in Nat /\ readCount_ \in Nat
  /\ writeCount_ <= sent /\ sent <= written /\ readCount_ = Len(delivered)
  /\ writeCount_ <= Len(srvRecv)

(* All that is said of bytes and counts, and what decides which of them move. *)
Data ==
  /\ Numbers /\ WireTypes /\ WindowsHold /\ ReadsHold /\ WritesHold /\ UpWire /\ DownWire

Kinds ==
  /\ transport \in {"xhr", "ws"} /\ sessionID_ \in {Null, "sid"}
  /\ session \in {"none", "live", "ended"}

dataVars == <<transport, buffer, readCount_, requests, ws, uri, wire, delivered, relay>>

(* A step that touches none of this keeps it. *)
LEMMA DataFrame ==
  ASSUME Data, UNCHANGED dataVars
  PROVE  Data'
BY DEF Data, dataVars, buffer, requests, wire, relay, Numbers, WireTypes, WindowsHold, ReadsHold, WritesHold,
       UpWire, DownWire, Counting

(* No request is in flight. *)
LEMMA EmptyRequest ==
  ASSUME NEW S
  PROVE  <<>> \in Seq(S) /\ Len(<<>>) = 0 /\ DOMAIN <<>> = {}
OBVIOUS

(* What each part of Data looks at. *)
LEMMA Frames ==
  ASSUME Data
  PROVE  /\ UNCHANGED <<buffer, readCount_, delivered, srvRecv>> => Numbers'
         /\ UNCHANGED <<transport, written, writeCount_, readCount_, delivered, srvProduced, srvAcked>> =>
              WindowsHold'
         /\ UNCHANGED <<readRequest_, readCount_, srvProduced>> => ReadsHold'
         /\ UNCHANGED <<writeRequest_, writeCount_, sent, srvRecv>> => WritesHold'
         /\ UNCHANGED <<transport, c2s, ws, sent, readCount_, srvRecv, srvAcked>> => UpWire'
         /\ UNCHANGED <<s2c, ws, uri, writeCount_, readCount_, srvRecv, srvProduced, srvSent,
                        srvAckSent, session>> => DownWire'
         /\ UNCHANGED <<readRequest_, writeRequest_, wire, uri, delivered, srvRecv, srvProduced,
                        srvSent, srvAcked, srvAckSent>> => WireTypes'
<1>1. UNCHANGED <<buffer, readCount_, delivered, srvRecv>> => Numbers'
  BY DEF Data, buffer, Numbers
<1>2. UNCHANGED <<transport, written, writeCount_, readCount_, delivered, srvProduced, srvAcked>> =>
        WindowsHold'
  BY DEF Data, WindowsHold
<1>3. UNCHANGED <<readRequest_, readCount_, srvProduced>> => ReadsHold'
  BY DEF Data, ReadsHold
<1>4. UNCHANGED <<writeRequest_, writeCount_, sent, srvRecv>> => WritesHold'
  BY DEF Data, WritesHold
<1>5. UNCHANGED <<transport, c2s, ws, sent, readCount_, srvRecv, srvAcked>> => UpWire'
  BY DEF Data, UpWire
<1>6. UNCHANGED <<s2c, ws, uri, writeCount_, readCount_, srvRecv, srvProduced, srvSent, srvAckSent,
                  session>> => DownWire'
  BY DEF Data, DownWire, Counting
<1>7. UNCHANGED <<readRequest_, writeRequest_, wire, uri, delivered, srvRecv, srvProduced, srvSent,
                  srvAcked, srvAckSent>> => WireTypes'
  BY DEF Data, WireTypes, wire
<1> QED  BY <1>1, <1>2, <1>3, <1>4, <1>5, <1>6, <1>7

(* Failures and ends lose requests and messages, and never disturb a count. *)
LEMMA DataSimple ==
  ASSUME Data, IdleInv, Kinds
  PROVE  /\ Open \/ OnSessionError \/ HostClose => Data'
         /\ OnReadGone \/ ReadFails => Data'
         /\ OnWriteGone \/ WriteFails => Data'
         /\ SessionEnds => Data'
         /\ SshServerSends => Data'
         /\ OnSocketError => Data'
         /\ OnSocketErrorAck => Data'
<1>1. Open \/ OnSessionError \/ HostClose => UNCHANGED dataVars
  BY DEF Open, OnSessionError, HostClose, dataVars, setup, buffer, requests, socket, wire, relay
<1>2. ASSUME OnReadGone \/ ReadFails PROVE Data'
  <2>1. /\ readRequest_' = <<>>
        /\ UNCHANGED <<transport, buffer, readCount_, writeRequest_, ws, uri, wire, delivered, relay>>
    BY <1>2 DEF OnReadGone, ReadFails, setup, socket
  <2>2. Numbers' /\ WindowsHold' /\ WritesHold' /\ UpWire' /\ DownWire'
    BY <2>1, Frames DEF relay, wire, buffer
  <2>3. ReadsHold'
    BY <2>1, EmptyRequest DEF ReadsHold
  <2>4. WireTypes'
    BY <2>1, EmptyRequest DEF WireTypes, Data, relay, wire
  <2> QED  BY <2>2, <2>3, <2>4 DEF Data
<1>3. ASSUME OnWriteGone \/ WriteFails PROVE Data'
  <2>1. /\ writeRequest_' = <<>>
        /\ UNCHANGED <<transport, buffer, readCount_, readRequest_, ws, uri, wire, delivered, relay>>
    BY <1>3 DEF OnWriteGone, WriteFails, setup, socket
  <2>2. Numbers' /\ WindowsHold' /\ ReadsHold' /\ UpWire' /\ DownWire'
    BY <2>1, Frames DEF relay, wire, buffer
  <2>3. WritesHold'
    BY <2>1, EmptyRequest DEF WritesHold
  <2>4. WireTypes'
    BY <2>1, EmptyRequest DEF WireTypes, Data, relay, wire
  <2> QED  BY <2>2, <2>3, <2>4 DEF Data
<1>4. ASSUME SessionEnds PROVE Data'
  <2>1. /\ session' = "ended" /\ UNCHANGED <<srvRecv, srvProduced, srvSent, srvAcked, srvAckSent>>
        /\ UNCHANGED <<transport, buffer, readCount_, requests, ws, uri, wire, delivered>>
    BY <1>4 DEF SessionEnds, setup, socket
  <2> QED  BY <2>1 DEF Data, buffer, wire, requests, Numbers, WireTypes, WindowsHold, ReadsHold, WritesHold,
       UpWire, DownWire, Counting
<1>5. ASSUME SshServerSends PROVE Data'
  <2>1. /\ srvProduced' = srvProduced + 1 /\ (transport = "ws" => srvProduced + 1 < srvAcked + Wrap)
        /\ UNCHANGED <<session, srvRecv, srvSent, srvAcked, srvAckSent>>
        /\ UNCHANGED <<transport, buffer, readCount_, requests, ws, uri, wire, delivered>>
    BY <1>5 DEF SshServerSends, setup, socket
  <2>0. srvProduced \in Nat /\ readCount_ \in Nat
    BY DEF Data, WireTypes, Numbers
  <2>2. \A n \in Nat : n <= srvProduced => n <= srvProduced'
    BY <2>1, <2>0
  <2>3. Numbers' /\ WritesHold' /\ UpWire'
    BY <2>1, Frames DEF wire, buffer, requests
  <2>4. ReadsHold'
    <3>1. \A i \in DOMAIN readRequest_ : readRequest_[i] \in ReadRequests
      BY DEF Data, WireTypes
    <3>2. \A i \in DOMAIN readRequest_ : readRequest_[i].last \in Nat
      BY <3>1 DEF ReadRequests
    <3> QED  BY <2>1, <2>2, <3>2 DEF Data, requests, ReadsHold
  <2>5. DownWire'
    BY <2>1, <2>2 DEF Data, DownWire, Counting, WireTypes, buffer, wire
  <2>6. WireTypes'
    <3>1. srvProduced' \in Nat
      BY <2>0, <2>1
    <3> QED  BY <2>1, <3>1 DEF WireTypes, Data, wire, requests
  <2>7. WindowsHold'
    BY <2>0, <2>1, <2>2 DEF Data, WindowsHold, buffer
  <2> QED  BY <2>3, <2>4, <2>5, <2>6, <2>7 DEF Data
<1>6. ASSUME OnSocketError PROVE Data'
  <2>1. /\ c2s' = <<>> /\ s2c' = <<>> /\ ws' = "CLOSED"
        /\ UNCHANGED <<transport, buffer, readCount_, requests, uri, delivered, relay>>
    BY <1>6 DEF OnSocketError, setup
  <2>2. Upward(<<>>, Len(srvRecv), sent, srvAcked, readCount_)
    BY DEF Upward
  <2>3. c2s' \in Seq(Messages) /\ s2c' \in Seq(Messages)
    BY <2>1
  <2>4. UpWire' /\ DownWire'
    BY <2>1, <2>2 DEF Data, UpWire, DownWire, relay, buffer
  <2> QED  BY <2>1, <2>3, <2>4 DEF Data, buffer, requests, relay, Numbers, WireTypes, WindowsHold, ReadsHold, WritesHold
<1>7. ASSUME OnSocketErrorAck PROVE Data'
  <2>1. /\ s2c # <<>> /\ s2c[1].ack >= Wrap /\ s2c' = Tail(s2c)
        /\ UNCHANGED <<transport, buffer, readCount_, requests, ws, uri, c2s, delivered, relay>>
    BY <1>7 DEF OnSocketErrorAck, setup, socket
  <2>2. Numbers' /\ WindowsHold' /\ ReadsHold' /\ WritesHold' /\ UpWire'
    BY <2>1, Frames DEF relay, requests, buffer
  <2>3. WireTypes'
    <3>1. s2c' \in Seq(Messages)
      BY <2>1 DEF Data, WireTypes
    <3> QED  BY <2>1, <3>1 DEF Data, WireTypes, requests, relay
  <2>4. DownWire'
    <3>1. /\ ws = "OPEN" /\ s2c \in Seq(Messages) /\ Len(s2c) \in Nat /\ Len(s2c) >= 1
          /\ Wrap \in Nat
      BY <2>1, CorpAssumption DEF Data, DownWire, WireTypes
    <3>2. s2c[1].ack \in Nat
      BY <3>1, MessageFields
    <3>3. ASSUME NEW n \in 1..Len(s2c), Counting(n) PROVE FALSE
      <4>1. 1 \in 1..n
        OBVIOUS
      <4>2. s2c[1].ack < Wrap
        BY <3>3, <4>1 DEF Counting, Downward
      <4> QED  BY <2>1, <3>1, <3>2, <4>2
    <3>4. Len(s2c) = 1 /\ Counting(0)
      <4>1. Counting(Len(s2c)) \/ Counting(Len(s2c) - 1)
        BY <3>1 DEF Data, DownWire
      <4>2. Len(s2c) \in 1..Len(s2c)
        BY <3>1
      <4>3. Len(s2c) > 1 => Len(s2c) - 1 \in 1..Len(s2c)
        BY <3>1
      <4>4. ~Counting(Len(s2c))
        BY <3>3, <4>2
      <4>5. Counting(Len(s2c) - 1)
        BY <4>1, <4>4
      <4>6. ~(Len(s2c) > 1)
        <5> SUFFICES ASSUME Len(s2c) > 1 PROVE FALSE
          OBVIOUS
        <5>1. Len(s2c) - 1 \in 1..Len(s2c)
          BY <4>3
        <5> QED  BY <3>3, <4>5, <5>1
      <4>7. Len(s2c) = 1 /\ Len(s2c) - 1 = 0
        <5> DEFINE n == Len(s2c)
        <5>1. n \in Nat /\ n >= 1 /\ ~(n > 1)
          BY <3>1, <4>6
        <5> HIDE DEF n
        <5>2. n = 1 /\ n - 1 = 0
          BY <5>1
        <5> QED  BY <5>2 DEF n
      <4> QED  BY <4>5, <4>7
    <3>5. s2c' = <<>> /\ Len(s2c') = 0
      BY <2>1, <3>1, <3>4
    <3>6. readCount_ = srvSent /\ writeCount_ = srvAckSent
      BY <3>4 DEF Counting, Downward
    <3>7. Counting(Len(s2c))'
      <4>1. Downward(<<>>, 0, readCount_, readCount_, writeCount_, writeCount_)
        BY DownwardEmpty DEF Data, Numbers
      <4> QED  BY <2>1, <3>5, <3>6, <4>1 DEF Counting, relay, buffer
    <3> QED  BY <2>1, <3>5, <3>7 DEF Data, DownWire, relay, buffer
  <2> QED  BY <2>2, <2>3, <2>4 DEF Data
<1> QED  BY <1>1, <1>2, <1>3, <1>4, <1>5, <1>6, <1>7, DataFrame

(* What is not above b is in b's window. *)
LEMMA Below ==
  ASSUME NEW a \in Nat, NEW b \in Nat, NEW c \in Nat, NEW w \in Nat, a <= b, b < c + w
  PROVE  a < c + w
OBVIOUS

(* A step that sends, or does not, while counts only move forward within   *)
(* their windows, keeps the buffers and the way up in order.               *)
LEMMA Sending ==
  ASSUME Data, Shape, Kinds, NEW total \in Nat, NEW ready, NEW pending,
         \/ SendWrite(ready, total, pending, readCount_')
         \/ UNCHANGED <<writeRequest_, sent, c2s, writeCount_>>,
         sent <= total, written' = total, total < writeCount_' + Wrap,
         readCount_' \in Nat, readCount_ <= readCount_', delivered' = Down!FirstBytes(readCount_'),
         readCount_' <= srvProduced,
         writeCount_' \in Nat, writeCount_' <= sent, writeCount_' <= Len(srvRecv),
         transport = "xhr" /\ ~ready => UNCHANGED writeCount_,
         UNCHANGED <<transport, srvRecv, srvProduced>>,
         srvAcked' \in Nat, srvAcked' <= readCount_,
         transport = "ws" => srvProduced < srvAcked' + Wrap,
         Upward(c2s, Len(srvRecv), sent, srvAcked', readCount_),
         ws = "OPEN" => ws' = "OPEN", transport = "ws" /\ ready => ws' = "OPEN"
  PROVE  /\ Numbers' /\ WindowsHold' /\ WritesHold' /\ UpWire'
         /\ c2s' \in Seq(Messages)
         /\ writeRequest_' \in Seq(WriteRequests) /\ Len(writeRequest_') <= 1
<1>1. /\ transport \in {"xhr", "ws"} /\ sessionID_ \in {Null, "sid"}
      /\ sent \in Nat /\ writeCount_ \in Nat /\ readCount_ \in Nat
      /\ srvRecv \in Seq(Nat) /\ c2s \in Seq(Messages) /\ srvProduced \in Nat
      /\ writeRequest_ \in Seq(WriteRequests) /\ Len(writeRequest_) <= 1 /\ WritesHold
      /\ transport = "ws" => writeRequest_ = <<>> /\ Len(srvRecv) <= sent
      /\ c2s # <<>> => ws = "OPEN"
  BY DEF Data, Numbers, WireTypes, Kinds, Shape, UpWire
<1>2. Len(srvRecv) \in Nat /\ Wrap \in Nat
  BY <1>1, CorpAssumption
<1>0. srvProduced \in Nat /\ readCount_ \in Nat /\ Wrap \in Nat
  BY <1>1, <1>2
<1>3. sent' \in Nat /\ sent <= sent' /\ sent' <= total
  <2>1. CASE SendWrite(ready, total, pending, readCount_')
    BY <1>1, <2>1, SendWriteSends
  <2>2. CASE UNCHANGED <<writeRequest_, sent, c2s, writeCount_>>
    BY <1>1, <2>2
  <2> QED  BY <2>1, <2>2
<1>4. /\ c2s' \in Seq(Messages) /\ Upward(c2s', Len(srvRecv), sent', srvAcked', readCount_')
      /\ c2s' # <<>> => c2s # <<>> \/ (transport = "ws" /\ ready)
  <2>1. ASSUME transport = "ws" PROVE Len(srvRecv) <= sent /\ readCount_' < srvAcked' + Wrap
    <3>1. srvProduced < srvAcked' + Wrap
      BY <2>1
    <3>2. readCount_' < srvAcked' + Wrap
      BY <1>0, <3>1, Below
    <3> QED  BY <1>1, <2>1, <3>2
  <2>2. /\ transport \in {"xhr", "ws"} /\ sent \in Nat /\ c2s \in Seq(Messages) /\ readCount_ \in Nat
        /\ Len(srvRecv) \in Nat
    BY <1>1, <1>2
  <2>3. /\ c2s' \in Seq(Messages) /\ Upward(c2s', Len(srvRecv), sent', srvAcked', readCount_')
        /\ c2s' # <<>> => c2s # <<>> \/ (transport = "ws" /\ ready)
    <3>1. CASE SendWrite(ready, total, pending, readCount_')
      BY <2>1, <2>2, <3>1, SendWriteUp
    <3>2. CASE UNCHANGED <<writeRequest_, sent, c2s, writeCount_>>
      <4>1. Upward(c2s, Len(srvRecv), sent, srvAcked', readCount_')
        BY <2>2, UpwardLoosen
      <4> QED  BY <2>2, <3>2, <4>1
    <3> QED  BY <3>1, <3>2
  <2> QED  BY <2>3
<1>5. writeRequest_' \in Seq(WriteRequests) /\ Len(writeRequest_') <= 1 /\ WritesHold'
  <2>1. CASE SendWrite(ready, total, pending, readCount_')
    BY <1>1, <2>1, SendWriteWrites
  <2>2. CASE UNCHANGED <<writeRequest_, sent, c2s, writeCount_>>
    BY <1>1, <2>2 DEF WritesHold
  <2> QED  BY <2>1, <2>2
<1>6. Numbers'
  <2>1. Len(delivered') = readCount_'
    BY DEF Down!FirstBytes
  <2> QED  BY <1>1, <1>3, <2>1 DEF Numbers
<1>7. WindowsHold'
  <2>1. /\ readCount_' <= srvProduced' /\ written' < writeCount_' + Wrap
        /\ transport' = "ws" => srvProduced' < srvAcked' + Wrap
    OBVIOUS
  <2>2. srvAcked' <= readCount_'
    BY <1>0
  <2> QED  BY <2>1, <2>2 DEF WindowsHold
<1>8. UpWire'
  BY <1>1, <1>2, <1>3, <1>4 DEF UpWire
<1> QED  BY <1>4, <1>5, <1>6, <1>7, <1>8

(* write() and the timer of sendWrite_, which only send. *)
LEMMA SendingOnly ==
  ASSUME Data, Shape, Kinds, NEW total \in Nat, NEW ready, NEW pending,
         \/ SendWrite(ready, total, pending, readCount_)
         \/ UNCHANGED <<writeRequest_, sent, c2s>>,
         written <= total, written' = total, total < writeCount_ + Wrap,
         transport = "ws" /\ ready => ws = "OPEN",
         UNCHANGED <<transport, writeCount_, readCount_, readRequest_, ws, uri, s2c, delivered, relay>>
  PROVE  Data'
<1>1. /\ sent \in Nat /\ written \in Nat /\ sent <= written /\ readCount_ \in Nat /\ writeCount_ \in Nat
      /\ writeCount_ <= sent /\ writeCount_ <= Len(srvRecv)
      /\ delivered = Down!FirstBytes(readCount_) /\ readCount_ <= srvProduced
      /\ srvAcked \in Nat /\ srvAcked <= readCount_ /\ (transport = "ws" => srvProduced < srvAcked + Wrap)
      /\ Upward(c2s, Len(srvRecv), sent, srvAcked, readCount_)
  BY DEF Data, Numbers, WireTypes, WindowsHold, UpWire
<1>2. UNCHANGED <<srvRecv, srvProduced, srvSent, srvAcked, srvAckSent, session>>
  BY DEF relay
<1>3. sent <= total
  BY <1>1
<1>4. \/ SendWrite(ready, total, pending, readCount_')
      \/ UNCHANGED <<writeRequest_, sent, c2s, writeCount_>>
  OBVIOUS
<1>5. /\ Numbers' /\ WindowsHold' /\ WritesHold' /\ UpWire'
      /\ c2s' \in Seq(Messages)
      /\ writeRequest_' \in Seq(WriteRequests) /\ Len(writeRequest_') <= 1
  <2>1. total < writeCount_' + Wrap /\ readCount_ <= readCount_'
    BY <1>1
  <2> QED  BY <1>1, <1>2, <1>3, <1>4, <2>1, Sending
<1>6. WireTypes'
  BY <1>2, <1>5 DEF Data, WireTypes
<1>7. ReadsHold' /\ DownWire'
  BY <1>2, Frames
<1> QED  BY <1>5, <1>6, <1>7 DEF Data

(* write() and the timer keep the counts. *)
LEMMA DataSending ==
  ASSUME Data, IdleInv, Kinds
  PROVE  /\ \A n \in 1..MaxUp : Write(n) => Data'
         /\ OnSendTimer => Data'
<1>1. /\ written \in Nat /\ readCount_ \in Nat /\ writeCount_ \in Nat /\ written < writeCount_ + Wrap /\ Shape
  BY DEF Data, Numbers, WindowsHold, IdleInv
<1>2. transport = "ws" /\ WriteReady => ws = "OPEN"
  BY DEF WriteReady
<1>3. ASSUME NEW n \in 1..MaxUp, Write(n) PROVE Data'
  <2>1. written + n \in Nat /\ written <= written + n
    BY <1>1
  <2>2. /\ \/ SendWrite(WriteReady, written + n, sendTimers, readCount_)
           \/ UNCHANGED <<writeRequest_, sent, c2s>>
        /\ written' = written + n /\ written + n < writeCount_ + Wrap
        /\ UNCHANGED <<transport, writeCount_, readCount_, readRequest_, ws, uri, s2c, delivered, relay>>
    BY <1>3 DEF Write, setup, socket
  <2> QED  BY <1>1, <1>2, <2>1, <2>2, SendingOnly
<1>4. ASSUME OnSendTimer PROVE Data'
  <2>1. /\ SendWrite(WriteReady, written, sendTimers - 1, readCount_)
        /\ written' = written
        /\ UNCHANGED <<transport, writeCount_, readCount_, readRequest_, ws, uri, s2c, delivered, relay>>
    BY <1>4 DEF OnSendTimer, setup, socket
  <2>2. written <= written
    BY <1>1
  <2> QED  BY <1>1, <1>2, <2>1, <2>2, SendingOnly
<1> QED  BY <1>3, <1>4

(* resumeRead_ leaves a /read for what follows the bytes read. *)
LEMMA ResumeReadReads ==
  ASSUME Data, Kinds, Shape, NEW sid \in {Null, "sid"}, NEW idle, ResumeRead(sid, idle, readCount_'),
         readCount_' \in Nat, transport = "xhr" => idle \/ UNCHANGED readCount_, UNCHANGED srvProduced
  PROVE  readRequest_' \in Seq(ReadRequests) /\ Len(readRequest_') <= 1 /\ ReadsHold'
<1>1. CASE transport = "xhr" /\ idle
  <2> DEFINE r == ReadRequest(sid, readCount_')
  <2>1. r \in ReadRequests /\ r.rcnt = readCount_' /\ r.status = 0
    BY DEF ReadRequest, ReadRequests
  <2> HIDE DEF r
  <2>2. readRequest_' = <<r>>
    BY <1>1 DEF ResumeRead, r
  <2>3. /\ readRequest_' \in Seq(ReadRequests) /\ Len(readRequest_') = 1
        /\ DOMAIN readRequest_' = {1} /\ readRequest_'[1] = r
    BY <2>1, <2>2
  <2> QED  BY <2>1, <2>3 DEF ReadsHold
<1>2. CASE transport = "xhr" /\ ~idle
  <2>1. readRequest_' = readRequest_
    BY <1>2 DEF ResumeRead
  <2> QED  BY <1>2, <2>1 DEF Data, WireTypes, ReadsHold
<1>3. CASE transport = "ws"
  <2>1. readRequest_' = readRequest_ /\ readRequest_ = <<>>
    BY <1>3 DEF ResumeRead, Shape
  <2> QED  BY <2>1, EmptyRequest DEF ReadsHold
<1> QED  BY <1>1, <1>2, <1>3 DEF Kinds

(* ... and makes a WebSocket only where there is none. *)
LEMMA ResumeReadSocket ==
  ASSUME Data, Shape, NEW sid, NEW idle, NEW count, ResumeRead(sid, idle, count)
  PROVE  \/ UNCHANGED socket
         \/ /\ transport = "ws" /\ ws # "OPEN" /\ ws' = "CONNECTING" /\ s2c = <<>> /\ c2s = <<>>
            /\ uri' = [ack |-> count % Wrap, pos |-> writeCount_ % Wrap]
BY DEF ResumeRead, Shape, Data, UpWire

(* ... whose URI has the counts of now. *)
LEMMA DownWireResumed ==
  ASSUME Data, Shape, NEW sid, NEW idle, ResumeRead(sid, idle, readCount_),
         UNCHANGED <<s2c, writeCount_, readCount_, srvRecv, srvProduced, srvSent, srvAckSent>>,
         UNCHANGED session \/ ws # "OPEN"
  PROVE  DownWire' /\ uri' \in [ack : Nat, pos : Nat]
<1>1. CASE UNCHANGED socket /\ UNCHANGED session
  BY <1>1, Frames DEF socket, Data, WireTypes
<1>2. CASE UNCHANGED socket /\ ws # "OPEN"
  BY <1>2 DEF socket, Data, WireTypes, DownWire
<1>3. CASE /\ ws' = "CONNECTING" /\ s2c = <<>>
           /\ uri' = [ack |-> readCount_ % Wrap, pos |-> writeCount_ % Wrap]
  <2>1. readCount_ % Wrap \in Nat /\ writeCount_ % Wrap \in Nat
    BY CorpAssumption, Quotient DEF Data, Numbers
  <2>2. srvSent <= srvProduced
    BY DEF Data, DownWire
  <2> QED  BY <1>3, <2>1, <2>2 DEF DownWire
<1> QED  BY <1>1, <1>2, <1>3, ResumeReadSocket

(* A new session, and the end of a back-off, keep the counts. *)
LEMMA DataResuming ==
  ASSUME Data, IdleInv, Kinds
  PROVE  /\ OnSession => Data'
         /\ OnBackoffExpired => Data'
<1>0. /\ Shape /\ readCount_ \in Nat /\ sessionID_ \in {Null, "sid"} /\ "sid" \in {Null, "sid"}
  BY DEF IdleInv, Data, Numbers, Kinds
<1>1. ASSUME OnSession PROVE Data'
  <2>1. /\ ResumeRead("sid", ReadIdle, readCount_) /\ open = "pending"
        /\ UNCHANGED <<transport, buffer, readCount_, writeRequest_, wire, delivered,
                       srvRecv, srvProduced, srvSent, srvAcked, srvAckSent>>
    BY <1>1 DEF OnSession, setup
  <2>2. ws # "OPEN"
    BY <1>0, <2>1 DEF Shape
  <2>3. DownWire' /\ uri' \in [ack : Nat, pos : Nat]
    BY <1>0, <2>1, <2>2, DownWireResumed DEF buffer, wire
  <2>4. readRequest_' \in Seq(ReadRequests) /\ Len(readRequest_') <= 1 /\ ReadsHold'
    BY <1>0, <2>1, ResumeReadReads
  <2>5. Numbers' /\ WindowsHold' /\ WritesHold'
    BY <2>1, Frames DEF buffer
  <2>6. UpWire'
    <3>1. c2s = <<>>
      BY <2>2 DEF Data, UpWire
    <3> QED  BY <2>1, <3>1 DEF Data, UpWire, buffer, wire
  <2>7. WireTypes'
    BY <2>1, <2>3, <2>4 DEF Data, WireTypes, wire
  <2> QED  BY <2>3, <2>4, <2>5, <2>6, <2>7 DEF Data
<1>2. ASSUME OnBackoffExpired PROVE Data'
  <2>1. /\ ResumeRead(sessionID_, ReadIdle, readCount_)
        /\ SendWrite(WriteReady, written, sendTimers, readCount_)
        /\ UNCHANGED <<transport, written, writeCount_, readCount_, s2c, delivered, session, srvRecv,
                       srvProduced, srvSent, srvAcked, srvAckSent>>
    BY <1>2 DEF OnBackoffExpired, setup, relay
  <2>2. DownWire' /\ uri' \in [ack : Nat, pos : Nat]
    BY <1>0, <2>1, DownWireResumed
  <2>3. readRequest_' \in Seq(ReadRequests) /\ Len(readRequest_') <= 1 /\ ReadsHold'
    BY <1>0, <2>1, ResumeReadReads
  <2>4. /\ ws = "OPEN" => ws' = "OPEN"
        /\ transport = "ws" /\ WriteReady => ws' = "OPEN"
    BY <1>0, <2>1, ResumeReadSocket DEF WriteReady, socket
  <2>5. /\ sent \in Nat /\ written \in Nat /\ sent <= written /\ writeCount_ \in Nat
        /\ writeCount_ <= sent /\ writeCount_ <= Len(srvRecv) /\ written < writeCount_ + Wrap
        /\ delivered = Down!FirstBytes(readCount_) /\ readCount_ <= srvProduced
        /\ srvAcked \in Nat /\ srvAcked <= readCount_ /\ (transport = "ws" => srvProduced < srvAcked + Wrap)
        /\ Upward(c2s, Len(srvRecv), sent, srvAcked, readCount_)
    BY DEF Data, Numbers, WireTypes, WindowsHold, UpWire
  <2>6. readCount_ <= readCount_' /\ SendWrite(WriteReady, written, sendTimers, readCount_')
    BY <1>0, <2>1
  <2>7. /\ Numbers' /\ WindowsHold' /\ WritesHold' /\ UpWire'
        /\ c2s' \in Seq(Messages)
        /\ writeRequest_' \in Seq(WriteRequests) /\ Len(writeRequest_') <= 1
    BY <1>0, <2>1, <2>4, <2>5, <2>6, Sending
  <2>8. WireTypes'
    BY <2>1, <2>2, <2>3, <2>7 DEF Data, WireTypes
  <2> QED  BY <2>2, <2>3, <2>7, <2>8 DEF Data
<1> QED  BY <1>1, <1>2

(* onReadReady_: what has been read is what the /read asked for. *)
LEMMA DataRead ==
  ASSUME Data, IdleInv, Kinds, OnReadReady
  PROVE  /\ Data'
         /\ readCount_ < readCount_' /\ readCount_' <= srvProduced /\ UNCHANGED srvProduced
<1>0. /\ Shape /\ readCount_ \in Nat /\ sessionID_ \in {Null, "sid"} /\ srvProduced \in Nat
  BY DEF IdleInv, Data, Numbers, Kinds, WireTypes
<1> DEFINE last == readRequest_[1].last
<1>1. /\ readRequest_[1].rcnt = readCount_ /\ last \in Nat /\ readCount_ < last /\ last <= srvProduced
      /\ transport = "xhr"
  <2>1. readRequest_ # <<>> /\ readRequest_ \in Seq(ReadRequests) /\ readRequest_[1].status = 200
    BY DEF OnReadReady, Data, WireTypes
  <2>2. 1 \in DOMAIN readRequest_ /\ readRequest_[1] \in ReadRequests
    BY <2>1
  <2>3. readRequest_[1].last \in Nat
    BY <2>2 DEF ReadRequests
  <2>4. transport = "xhr"
    BY <1>0, <2>1 DEF Shape, Kinds
  <2> QED  BY <2>1, <2>2, <2>3, <2>4 DEF Data, ReadsHold
<1> HIDE DEF last
<1>2. /\ delivered' = delivered \o Positions(readCount_ + 1, last)
      /\ readCount_' = readCount_ + Len(Positions(readCount_ + 1, last))
  BY <1>1 DEF OnReadReady, last
<1>3. /\ RequestSuccess(TRUE, TRUE, WriteReady, readCount_')
      /\ UNCHANGED <<transport, written, writeCount_, socket, s2c, relay>>
  BY DEF OnReadReady, setup
<1>4. readCount_' = last
  <2> DEFINE lo == readCount_ + 1
  <2>1. lo \in Nat /\ last \in Nat /\ lo <= last + 1
    BY <1>0, <1>1
  <2> HIDE DEF lo
  <2>2. Len(Positions(lo, last)) = last - lo + 1
    BY <2>1, PositionsAre
  <2>3. readCount_' = readCount_ + (last - lo + 1)
    BY <1>2, <2>2 DEF lo
  <2> QED  BY <1>0, <1>1, <2>3 DEF lo
<1>5. delivered' = Down!FirstBytes(readCount_') /\ delivered' \in Seq(Nat)
  <2>1. delivered = Down!FirstBytes(readCount_)
    BY DEF Data, WindowsHold
  <2>0. readCount_ <= last
    BY <1>0, <1>1
  <2>2. delivered' = Down!FirstBytes(last)
    BY <1>0, <1>1, <1>2, <2>0, <2>1, DeliverNext
  <2>3. Down!FirstBytes(last) \in Seq(Nat)
    BY <1>1 DEF Down!FirstBytes
  <2> QED  BY <1>4, <2>2, <2>3
<1>6. /\ ResumeRead(sessionID_, TRUE, readCount_')
      /\ \/ SendWrite(WriteReady, written, sendTimers, readCount_')
         \/ UNCHANGED <<writeRequest_, sent, c2s, writeCount_>>
  BY <1>3 DEF RequestSuccess
<1>7. UNCHANGED <<ws, uri, session, srvRecv, srvProduced, srvSent, srvAcked, srvAckSent>>
  BY <1>3 DEF socket, relay
<1>8. readRequest_' \in Seq(ReadRequests) /\ Len(readRequest_') <= 1 /\ ReadsHold'
  BY <1>0, <1>1, <1>4, <1>6, <1>7, ResumeReadReads
<1>9. /\ Numbers' /\ WindowsHold' /\ WritesHold' /\ UpWire'
      /\ c2s' \in Seq(Messages)
      /\ writeRequest_' \in Seq(WriteRequests) /\ Len(writeRequest_') <= 1
  <2>1. /\ sent \in Nat /\ written \in Nat /\ sent <= written /\ writeCount_ \in Nat
        /\ writeCount_ <= sent /\ writeCount_ <= Len(srvRecv) /\ written < writeCount_ + Wrap
        /\ srvAcked \in Nat /\ srvAcked <= readCount_
        /\ Upward(c2s, Len(srvRecv), sent, srvAcked, readCount_)
    BY DEF Data, Numbers, WireTypes, WindowsHold, UpWire
  <2>2. readCount_ <= readCount_' /\ readCount_' \in Nat /\ readCount_' <= srvProduced
    BY <1>0, <1>1, <1>4
  <2>3. transport = "ws" => srvProduced < srvAcked' + Wrap
    BY <1>1
  <2>4. /\ ws = "OPEN" => ws' = "OPEN"
        /\ transport = "ws" /\ WriteReady => ws' = "OPEN"
    BY <1>1, <1>7
  <2> QED  BY <1>0, <1>3, <1>5, <1>6, <1>7, <2>1, <2>2, <2>3, <2>4, Sending
<1>10. WireTypes'
  BY <1>3, <1>5, <1>7, <1>8, <1>9 DEF Data, WireTypes
<1>11. DownWire'
  <2>1. ws = "NONE" /\ s2c = <<>>
    BY <1>0, <1>1 DEF Shape
  <2> QED  BY <1>3, <1>7, <2>1 DEF Data, DownWire
<1>12. readCount_ < readCount_' /\ readCount_' <= srvProduced
  BY <1>1, <1>4
<1> QED  BY <1>7, <1>8, <1>9, <1>10, <1>11, <1>12 DEF Data

(* onWriteDone_: the bytes of the /write have arrived. *)
LEMMA DataWritten ==
  ASSUME Data, IdleInv, Kinds, OnWriteDone
  PROVE  Data'
<1>0. /\ Shape /\ readCount_ \in Nat /\ sessionID_ \in {Null, "sid"} /\ srvProduced \in Nat
      /\ writeCount_ \in Nat /\ sent \in Nat /\ written \in Nat /\ sent <= written
      /\ srvRecv \in Seq(Nat)
  BY DEF IdleInv, Data, Numbers, Kinds, WireTypes
<1> DEFINE lo == writeRequest_[1].lo
           hi == writeRequest_[1].hi
<1>1. /\ lo \in Nat /\ hi \in Nat /\ writeCount_ < lo /\ lo <= hi /\ hi <= sent
      /\ writeCount_ + (hi - lo + 1) <= Len(srvRecv)
      /\ transport = "xhr"
  <2>1. writeRequest_ # <<>> /\ writeRequest_ \in Seq(WriteRequests) /\ writeRequest_[1].status = 200
    BY DEF OnWriteDone, Data, WireTypes
  <2>2. 1 \in DOMAIN writeRequest_ /\ writeRequest_[1] \in WriteRequests
    BY <2>1
  <2>3. writeRequest_[1].lo \in Nat /\ writeRequest_[1].hi \in Nat
    BY <2>2 DEF WriteRequests
  <2>4. transport = "xhr"
    BY <1>0, <2>1 DEF Shape, Kinds
  <2> QED  BY <2>1, <2>2, <2>3, <2>4 DEF Data, WritesHold
<1>2. writeCount_' = writeCount_ + (hi - lo + 1)
  BY DEF OnWriteDone
<1> HIDE DEF lo, hi
<1>3. /\ RequestSuccess(FALSE, ReadIdle, TRUE, readCount_)
      /\ UNCHANGED <<transport, written, readCount_, socket, s2c, delivered, relay>>
  BY DEF OnWriteDone, setup
<1>4. UNCHANGED <<ws, uri, session, srvRecv, srvProduced, srvSent, srvAcked, srvAckSent>>
  BY <1>3 DEF socket, relay
<1>5. SendWrite(TRUE, written, sendTimers, readCount_')
  BY <1>3 DEF RequestSuccess
<1>6. readRequest_' \in Seq(ReadRequests) /\ Len(readRequest_') <= 1 /\ ReadsHold'
  <2>1. CASE ResumeRead(sessionID_, ReadIdle, readCount_)
    BY <1>0, <1>3, <1>4, <2>1, ResumeReadReads
  <2>2. CASE UNCHANGED readRequest_
    BY <1>3, <1>4, <2>2, Frames DEF Data, WireTypes
  <2> QED  BY <1>3, <2>1, <2>2 DEF RequestSuccess
<1>7. /\ Numbers' /\ WindowsHold' /\ WritesHold' /\ UpWire'
      /\ c2s' \in Seq(Messages)
      /\ writeRequest_' \in Seq(WriteRequests) /\ Len(writeRequest_') <= 1
  <2>1. /\ written < writeCount_ + Wrap /\ delivered = Down!FirstBytes(readCount_)
        /\ srvAcked \in Nat /\ srvAcked <= readCount_ /\ readCount_ <= srvProduced
        /\ Upward(c2s, Len(srvRecv), sent, srvAcked, readCount_)
    BY DEF Data, Numbers, WireTypes, WindowsHold, UpWire
  <2>2. /\ writeCount_' \in Nat /\ writeCount_ <= writeCount_' /\ writeCount_' <= sent
        /\ writeCount_' <= Len(srvRecv)
    BY <1>0, <1>1, <1>2
  <2>3. written < writeCount_' + Wrap
    <3>1. Wrap \in Nat
      BY CorpAssumption
    <3> DEFINE n == writeCount_'
    <3>2. n \in Nat /\ writeCount_ <= n /\ written < writeCount_ + Wrap
      BY <2>1, <2>2
    <3> HIDE DEF n
    <3>3. written < n + Wrap
      BY <1>0, <3>1, <3>2
    <3> QED  BY <3>3 DEF n
  <2>4. readCount_ <= readCount_' /\ readCount_' <= srvProduced /\ readCount_' \in Nat
    BY <1>0, <1>3, <2>1
  <2>5. /\ ws = "OPEN" => ws' = "OPEN"
        /\ transport = "ws" /\ TRUE => ws' = "OPEN"
        /\ transport = "ws" => srvProduced < srvAcked' + Wrap
    BY <1>1, <1>4
  <2> QED  BY <1>0, <1>3, <1>4, <1>5, <2>1, <2>2, <2>3, <2>4, <2>5, Sending
<1>8. WireTypes'
  BY <1>3, <1>4, <1>6, <1>7 DEF Data, WireTypes
<1>9. DownWire'
  <2>1. ws = "NONE" /\ s2c = <<>>
    BY <1>0, <1>1 DEF Shape
  <2> QED  BY <1>3, <1>4, <2>1 DEF Data, DownWire
<1> QED  BY <1>6, <1>7, <1>8, <1>9 DEF Data

(* The answer to a /read says how far it reads, which is beyond what is read. *)
LEMMA DataAnswersRead ==
  ASSUME Data, RelayAnswersRead
  PROVE  Data'
<1> DEFINE r == readRequest_[1]
<1>1. /\ r \in ReadRequests /\ r.rcnt = readCount_ /\ readCount_ \in Nat /\ srvProduced \in Nat
  <2>1. readRequest_ # <<>> /\ readRequest_ \in Seq(ReadRequests)
    BY Zenon DEF RelayAnswersRead, Data, WireTypes
  <2>2. 1 \in DOMAIN readRequest_ /\ r \in ReadRequests
    BY <2>1
  <2> QED  BY <2>2 DEF Data, ReadsHold, Numbers, WireTypes
<1>2. UNCHANGED <<transport, buffer, readCount_, writeRequest_, ws, uri, wire, delivered, relay>>
  <2>1. UNCHANGED <<setup, buffer, readCount_, writeRequest_, socket, wire, delivered, relay>>
    BY Zenon DEF RelayAnswersRead
  <2> QED  BY <2>1 DEF setup, socket
<1>3. PICK a : /\ readRequest_' = <<a>> /\ a \in ReadRequests /\ a.rcnt = readCount_
               /\ a.status = 200 => readCount_ < a.last /\ a.last <= srvProduced
  <2>1. \/ \E last \in r.rcnt+1..srvProduced :
             readRequest_' = <<[r EXCEPT !.status = 200, !.last = last]>>
        \/ readRequest_' = <<[r EXCEPT !.status = 410]>>
        \/ readRequest_' = <<[r EXCEPT !.status = 404]>>
    BY Zenon DEF RelayAnswersRead
  <2> HIDE DEF r
  <2>2. ASSUME NEW last \in r.rcnt+1..srvProduced,
               readRequest_' = <<[r EXCEPT !.status = 200, !.last = last]>>
        PROVE  \E a : /\ readRequest_' = <<a>> /\ a \in ReadRequests /\ a.rcnt = readCount_
                      /\ a.status = 200 => readCount_ < a.last /\ a.last <= srvProduced
    <3> DEFINE b == [r EXCEPT !.status = 200, !.last = last]
    <3>1. last \in Nat /\ 200 \in Nat /\ readCount_ < last /\ last <= srvProduced
      BY <1>1, <2>2
    <3>2. b \in ReadRequests /\ b.rcnt = r.rcnt /\ b.last = last
      BY <1>1, <3>1, Zenon DEF ReadRequests
    <3>3. readRequest_' = <<b>>
      BY <2>2, Zenon
    <3> HIDE DEF b
    <3> QED  BY <1>1, <3>1, <3>2, <3>3
  <2>3. ASSUME NEW status \in {404, 410}, readRequest_' = <<[r EXCEPT !.status = status]>>
        PROVE  \E a : /\ readRequest_' = <<a>> /\ a \in ReadRequests /\ a.rcnt = readCount_
                      /\ a.status = 200 => readCount_ < a.last /\ a.last <= srvProduced
    <3> DEFINE b == [r EXCEPT !.status = status]
    <3>1. status \in Nat /\ status # 200 /\ 0 \in Nat
      OBVIOUS
    <3>2. b \in ReadRequests /\ b.rcnt = r.rcnt /\ b.status = status
      BY <1>1, <3>1, Zenon DEF ReadRequests
    <3>3. readRequest_' = <<b>>
      BY <2>3, Zenon
    <3> HIDE DEF b
    <3> QED  BY <1>1, <3>1, <3>2, <3>3
  <2> DEFINE P == \E a : /\ readRequest_' = <<a>> /\ a \in ReadRequests /\ a.rcnt = readCount_
                         /\ a.status = 200 => readCount_ < a.last /\ a.last <= srvProduced
  <2>4. CASE \E last \in r.rcnt+1..srvProduced :
               readRequest_' = <<[r EXCEPT !.status = 200, !.last = last]>>
    BY <2>2, <2>4, Zenon
  <2>5. 404 \in {404, 410} /\ 410 \in {404, 410}
    OBVIOUS
  <2>6. CASE readRequest_' = <<[r EXCEPT !.status = 410]>>
    BY <2>3, <2>5, <2>6, Zenon
  <2>7. CASE readRequest_' = <<[r EXCEPT !.status = 404]>>
    BY <2>3, <2>5, <2>7, Zenon
  <2> QED  BY <2>1, <2>4, <2>6, <2>7, Zenon
<1>4. /\ readRequest_' \in Seq(ReadRequests) /\ Len(readRequest_') = 1
      /\ DOMAIN readRequest_' = {1} /\ readRequest_'[1] = a
  BY <1>3
<1>5. ReadsHold'
  BY <1>2, <1>3, <1>4 DEF ReadsHold, relay
<1>6. WireTypes'
  BY <1>2, <1>4 DEF Data, WireTypes, relay, wire
<1>7. Numbers' /\ WindowsHold' /\ WritesHold' /\ UpWire' /\ DownWire'
  BY <1>2, Frames DEF relay, wire, buffer
<1> QED  BY <1>5, <1>6, <1>7 DEF Data

(* The relay passes the bytes of a /write on and answers it. *)
LEMMA DataAnswersWrite ==
  ASSUME Data, Shape, Kinds, RelayAnswersWrite
  PROVE  Data'
<1> DEFINE r == writeRequest_[1]
<1>1. /\ r \in WriteRequests /\ r.lo \in Nat /\ r.hi \in Nat
      /\ writeCount_ < r.lo /\ r.lo <= r.hi /\ r.hi <= sent
      /\ writeCount_ \in Nat /\ sent \in Nat
      /\ writeCount_ <= Len(srvRecv) /\ srvRecv \in Seq(Nat) /\ r.status = 0 /\ transport = "xhr"
  <2>1. writeRequest_ # <<>> /\ writeRequest_ \in Seq(WriteRequests) /\ r.status = 0
    BY Zenon DEF RelayAnswersWrite, Data, WireTypes
  <2>2. 1 \in DOMAIN writeRequest_ /\ r \in WriteRequests
    BY <2>1
  <2>3. r.lo \in Nat /\ r.hi \in Nat
    BY <2>2 DEF WriteRequests
  <2>4. transport = "xhr"
    BY <2>1 DEF Shape, Kinds
  <2> QED  BY <2>1, <2>2, <2>3, <2>4 DEF Data, WritesHold, Numbers, WireTypes
<1>2. UNCHANGED <<transport, buffer, readCount_, readRequest_, ws, uri, wire, delivered, session,
                  srvProduced, srvSent, srvAcked, srvAckSent>>
  <2>1. UNCHANGED <<setup, buffer, readCount_, readRequest_, socket, wire, delivered, session,
                    srvProduced, srvSent, srvAcked, srvAckSent>>
    BY Zenon DEF RelayAnswersWrite
  <2> QED  BY <2>1 DEF setup, socket
<1>3. PICK a : /\ writeRequest_' = <<a>> /\ a \in WriteRequests /\ a.lo = r.lo /\ a.hi = r.hi
               /\ \/ srvRecv' = srvRecv \o Positions(r.lo, r.hi)
                  \/ srvRecv' = srvRecv /\ a.status # 200
  <2>1. \/ /\ srvRecv' = srvRecv \o Positions(r.lo, r.hi)
           /\ writeRequest_' = <<[r EXCEPT !.status = 200]>>
        \/ writeRequest_' = <<[r EXCEPT !.status = 410]>> /\ srvRecv' = srvRecv
        \/ writeRequest_' = <<[r EXCEPT !.status = 404]>> /\ srvRecv' = srvRecv
    BY Zenon DEF RelayAnswersWrite
  <2> HIDE DEF r
  <2>2. ASSUME NEW status \in {200, 404, 410}, writeRequest_' = <<[r EXCEPT !.status = status]>>,
               \/ srvRecv' = srvRecv \o Positions(r.lo, r.hi)
               \/ srvRecv' = srvRecv /\ status # 200
        PROVE  \E a : /\ writeRequest_' = <<a>> /\ a \in WriteRequests /\ a.lo = r.lo /\ a.hi = r.hi
                      /\ \/ srvRecv' = srvRecv \o Positions(r.lo, r.hi)
                         \/ srvRecv' = srvRecv /\ a.status # 200
    <3> DEFINE b == [r EXCEPT !.status = status]
    <3>1. status \in Nat /\ 0 \in Nat
      OBVIOUS
    <3>0. r \in WriteRequests
      BY <1>1
    <3>4. b \in WriteRequests /\ b.status = status
      BY <3>0, <3>1, Zenon DEF WriteRequests
    <3>5. b.lo = r.lo /\ b.hi = r.hi
      BY <3>0, <3>1, Zenon DEF WriteRequests
    <3>2. b \in WriteRequests /\ b.lo = r.lo /\ b.hi = r.hi /\ b.status = status
      BY <3>4, <3>5
    <3>3. writeRequest_' = <<b>>
      BY <2>2, Zenon
    <3> HIDE DEF b
    <3> QED  BY <2>2, <3>2, <3>3
  <2> QED  BY <2>1, <2>2
<1> HIDE DEF r
<1>4. /\ writeRequest_' \in Seq(WriteRequests) /\ Len(writeRequest_') = 1
      /\ DOMAIN writeRequest_' = {1} /\ writeRequest_'[1] = a
  BY <1>3
<1>5. /\ srvRecv' \in Seq(Nat)
      /\ Len(srvRecv') >= Len(srvRecv) /\ Len(srvRecv') \in Nat
      /\ a.status = 200 => Len(srvRecv') = Len(srvRecv) + (r.hi - r.lo + 1)
  <2>1. CASE srvRecv' = srvRecv \o Positions(r.lo, r.hi)
    <3>1. Positions(r.lo, r.hi) \in Seq(Nat) /\ Len(Positions(r.lo, r.hi)) = r.hi - r.lo + 1
      <4>1. r.lo <= r.hi + 1
        BY <1>1
      <4> QED  BY <1>1, <4>1, PositionsAre
    <3>2. r.hi - r.lo + 1 \in Nat
      BY <1>1
    <3> DEFINE p == Positions(r.lo, r.hi)
    <3>5. p \in Seq(Nat) /\ srvRecv \in Seq(Nat)
      BY <1>1, <3>1
    <3> HIDE DEF p
    <3>6. Len(srvRecv \o p) = Len(srvRecv) + Len(p)
      BY <3>5
    <3>3. Len(srvRecv) \in Nat /\ Len(srvRecv \o Positions(r.lo, r.hi)) = Len(srvRecv) + (r.hi - r.lo + 1)
      BY <1>1, <3>1, <3>6 DEF p
    <3>4. srvRecv' \in Seq(Nat)
      BY <1>1, <2>1, <3>1
    <3> QED  BY <2>1, <3>2, <3>3, <3>4
  <2>2. CASE srvRecv' = srvRecv /\ a.status # 200
    BY <1>1, <2>2
  <2> QED  BY <1>3, <2>1, <2>2
<1>6. WritesHold'
  <2>1. a.status = 200 => writeCount_ + (r.hi - r.lo + 1) <= Len(srvRecv')
    <3>1. Len(srvRecv) \in Nat /\ r.hi - r.lo + 1 \in Nat
      BY <1>1
    <3> QED  BY <1>1, <1>5, <3>1
  <2> QED  BY <1>1, <1>2, <1>3, <1>4, <2>1 DEF WritesHold, buffer
<1>7. WireTypes'
  BY <1>2, <1>4, <1>5 DEF Data, WireTypes, wire
<1>8. Numbers'
  <2>1. writeCount_ <= Len(srvRecv')
    <3>1. Len(srvRecv) \in Nat
      BY <1>1
    <3> QED  BY <1>1, <1>5, <3>1
  <2> QED  BY <1>2, <2>1 DEF Data, Numbers, buffer
<1>9. WindowsHold' /\ ReadsHold'
  BY <1>2, Frames DEF buffer
<1>10. UpWire' /\ DownWire'
  <2>1. c2s = <<>> /\ s2c = <<>> /\ ws = "NONE"
    BY <1>1 DEF Data, UpWire, Shape
  <2>2. Upward(<<>>, Len(srvRecv'), sent, srvAcked, readCount_)
    BY DEF Upward
  <2>3. UpWire'
    BY <1>1, <1>2, <2>1, <2>2 DEF UpWire, wire, buffer
  <2>4. DownWire'
    BY <1>2, <2>1 DEF Data, DownWire, wire
  <2> QED  BY <2>3, <2>4
<1> QED  BY <1>6, <1>7, <1>8, <1>9, <1>10 DEF Data

(* A message on its way up arrives: what it carries is beyond what has. *)
LEMMA DataReceives ==
  ASSUME Data, Shape, Kinds, RelayReceives
  PROVE  Data'
<1> DEFINE lo == c2s[1].data.lo
           hi == c2s[1].data.hi
           mid == srvAcked + Forward(srvAcked, c2s[1].ack)
           got == Len(srvRecv)
<1>1. /\ ws = "OPEN" /\ c2s # <<>> /\ c2s' = Tail(c2s) /\ transport = "ws"
      /\ UNCHANGED <<transport, buffer, readCount_, requests, ws, uri, s2c, delivered, session,
                     srvProduced, srvSent, srvAckSent>>
  BY DEF RelayReceives, setup, socket, Shape, Kinds
<1>2. /\ c2s \in Seq(Messages) /\ srvRecv \in Seq(Nat) /\ srvAcked \in Nat /\ readCount_ \in Nat
      /\ sent \in Nat /\ writeCount_ \in Nat /\ srvProduced \in Nat /\ srvAckSent \in Nat
  BY DEF Data, Numbers, WireTypes
<1>3. got \in Nat /\ Wrap \in Nat /\ got <= sent /\ writeCount_ <= got /\ srvAckSent <= got
  BY <1>1, <1>2, CorpAssumption DEF Data, UpWire, Numbers, DownWire
<1>4. Upward(c2s, got, sent, srvAcked, readCount_)
  BY DEF Data, UpWire
<1> HIDE DEF got
<1>5. /\ got < lo /\ lo <= hi /\ hi <= sent /\ lo \in Nat /\ hi \in Nat
      /\ Forward(srvAcked, c2s[1].ack) \in Nat /\ mid <= readCount_
      /\ Upward(Tail(c2s), got, sent, srvAcked, readCount_)
      /\ \A next \in Nat : next <= hi => Upward(Tail(c2s), next, sent, mid, readCount_)
  BY <1>1, <1>2, <1>3, <1>4, UpwardTake
<1>6. mid \in Nat /\ srvAcked <= mid
  BY <1>2, <1>5
<1>7. \/ srvRecv' = srvRecv \o Positions(lo, hi) /\ srvAcked' = mid
      \/ UNCHANGED <<srvRecv, srvAcked>>
  BY DEF RelayReceives
<1> HIDE DEF lo, hi, mid
<1>8. /\ srvRecv' \in Seq(Nat) /\ srvAcked' \in Nat /\ Len(srvRecv') \in Nat
      /\ got <= Len(srvRecv') /\ Len(srvRecv') <= sent
      /\ srvAcked <= srvAcked' /\ srvAcked' <= readCount_
      /\ Upward(Tail(c2s), Len(srvRecv'), sent, srvAcked', readCount_)
  <2>1. CASE srvRecv' = srvRecv \o Positions(lo, hi) /\ srvAcked' = mid
    <3> DEFINE p == Positions(lo, hi)
    <3>1. p \in Seq(Nat) /\ Len(p) = hi - lo + 1
      <4>1. lo <= hi + 1
        BY <1>5
      <4> QED  BY <1>5, <4>1, PositionsAre
    <3>2. srvRecv' = srvRecv \o p
      BY <2>1
    <3> HIDE DEF p
    <3>3. srvRecv' \in Seq(Nat) /\ Len(srvRecv') = got + (hi - lo + 1)
      <4>0. p \in Seq(Nat) /\ srvRecv \in Seq(Nat)
        BY <1>2, <3>1
      <4>1. Len(srvRecv \o p) = Len(srvRecv) + Len(p) /\ srvRecv \o p \in Seq(Nat)
        BY <4>0
      <4> QED  BY <3>1, <3>2, <4>1 DEF got
    <3> DEFINE n == got + (hi - lo + 1)
    <3>4. n \in Nat /\ got <= n /\ n <= hi /\ n <= sent
      BY <1>2, <1>3, <1>5
    <3> HIDE DEF n
    <3>5. Upward(Tail(c2s), n, sent, mid, readCount_)
      BY <1>5, <3>4
    <3> QED  BY <1>5, <1>6, <2>1, <3>3, <3>4, <3>5 DEF n
  <2>2. CASE UNCHANGED <<srvRecv, srvAcked>>
    <3>1. srvAcked <= readCount_
      BY DEF Data, WindowsHold
    <3> QED  BY <1>2, <1>3, <1>5, <2>2, <3>1 DEF got
  <2> QED  BY <1>7, <2>1, <2>2
<1>9. WireTypes'
  <2>1. c2s' \in Seq(Messages)
    BY <1>1, <1>2
  <2> QED  BY <1>1, <1>8, <2>1 DEF Data, WireTypes, requests
<1>10. Numbers'
  <2>1. writeCount_ <= Len(srvRecv')
    BY <1>2, <1>3, <1>8
  <2> QED  BY <1>1, <2>1 DEF Data, Numbers, buffer
<1>11. WindowsHold'
  <2>1. srvProduced < srvAcked' + Wrap
    <3>1. srvProduced < srvAcked + Wrap
      BY <1>1 DEF Data, WindowsHold
    <3> DEFINE n == srvAcked'
    <3>2. n \in Nat /\ srvAcked <= n
      BY <1>8
    <3> HIDE DEF n
    <3>3. srvProduced < n + Wrap
      BY <1>2, <1>3, <3>1, <3>2
    <3> QED  BY <3>3 DEF n
  <2> QED  BY <1>1, <1>8, <2>1 DEF Data, WindowsHold, buffer
<1>12. ReadsHold'
  BY <1>1, Frames DEF requests
<1>13. WritesHold'
  BY <1>1 DEF Shape, WritesHold, requests
<1>14. UpWire'
  BY <1>1, <1>8 DEF UpWire, buffer
<1>15. DownWire'
  <2>1. srvAckSent <= Len(srvRecv')
    BY <1>2, <1>3, <1>8
  <2> QED  BY <1>1, <2>1 DEF Data, DownWire, Counting, buffer
<1> QED  BY <1>9, <1>10, <1>11, <1>12, <1>13, <1>14, <1>15 DEF Data

(* The relay sends the next bytes with its count, or its error. *)
LEMMA DataRelaySends ==
  ASSUME Data, Shape, Kinds, RelaySends \/ RelaySendsError
  PROVE  Data'
<1>1. /\ ws = "OPEN" /\ transport = "ws"
      /\ UNCHANGED <<transport, buffer, readCount_, requests, ws, uri, c2s, delivered, session, srvRecv,
                     srvProduced, srvAcked>>
  BY DEF RelaySends, RelaySendsError, setup, socket, relay, Shape, Kinds
<1>2. /\ s2c \in Seq(Messages) /\ srvRecv \in Seq(Nat) /\ srvAcked \in Nat /\ readCount_ \in Nat
      /\ writeCount_ \in Nat /\ srvProduced \in Nat /\ srvSent \in Nat /\ srvAckSent \in Nat
      /\ sent \in Nat /\ written \in Nat
  BY DEF Data, Numbers, WireTypes
<1>3. Len(s2c) \in Nat /\ Len(srvRecv) \in Nat /\ Wrap \in Nat /\ 0 \in 0..Len(s2c)
  BY <1>2, CorpAssumption
<1>4. Numbers' /\ WindowsHold' /\ ReadsHold' /\ WritesHold' /\ UpWire'
  BY <1>1, Frames DEF buffer, requests
<1>5. ASSUME RelaySends PROVE WireTypes' /\ DownWire'
  <2>1. PICK last \in srvSent..srvProduced :
          /\ s2c' = Append(s2c, [data |-> [lo |-> srvSent + 1, hi |-> last],
                                 ack |-> Len(srvRecv) % Wrap])
          /\ srvSent' = last /\ srvAckSent' = Len(srvRecv) /\ session = "live"
    BY <1>5, Zenon DEF RelaySends
  <2> DEFINE e == [data |-> [lo |-> srvSent + 1, hi |-> last], ack |-> Len(srvRecv) % Wrap]
  <2>2. last \in Nat /\ srvSent <= last /\ last <= srvProduced
    BY <1>2
  <2>3. e \in Messages /\ e.data.lo = srvSent + 1 /\ e.data.hi = last /\ e.ack = Len(srvRecv) % Wrap
    <3>1. Len(srvRecv) % Wrap \in Nat
      BY <1>3, CorpAssumption, Quotient
    <3> QED  BY <1>2, <2>2, <3>1 DEF Messages
  <2>4. s2c' = Append(s2c, e)
    BY <2>1
  <2> HIDE DEF e
  <2>5. s2c' \in Seq(Messages) /\ Len(s2c') = Len(s2c) + 1
    BY <1>2, <2>3, <2>4
  <2>6. Counting(Len(s2c)) /\ srvAckSent <= Len(srvRecv)
    BY <1>1, <2>1 DEF Data, DownWire
  <2>7. Len(srvRecv) < writeCount_ + Wrap
    <3>1. Len(srvRecv) <= sent /\ sent <= written /\ written < writeCount_ + Wrap
      BY <1>1 DEF Data, UpWire, Numbers, WindowsHold
    <3> QED  BY <1>2, <1>3, <3>1
  <2>8. Downward(s2c, Len(s2c), readCount_, srvSent, writeCount_, srvAckSent)
    BY <2>6 DEF Counting
  <2>9. Downward(Append(s2c, e), Len(s2c) + 1, readCount_, last, writeCount_, Len(srvRecv))
    <3>1. srvSent <= e.data.hi
      BY <2>2, <2>3
    <3>2. Downward(Append(s2c, e), Len(s2c) + 1, readCount_, e.data.hi, writeCount_, Len(srvRecv))
      BY <1>2, <1>3, <2>3, <2>6, <2>7, <2>8, <3>1, DownwardAppend
    <3> QED  BY <2>3, <3>2
  <2>10. Counting(Len(s2c))'
    BY <1>1, <2>1, <2>4, <2>5, <2>9 DEF Counting, buffer
  <2>11. srvAckSent' <= Len(srvRecv')
    BY <1>1, <1>3, <2>1
  <2>12. WireTypes'
    BY <1>1, <1>3, <2>1, <2>2, <2>5 DEF Data, WireTypes, requests
  <2>13. DownWire'
    BY <1>1, <2>1, <2>2, <2>10, <2>11 DEF Data, DownWire
  <2> QED  BY <2>12, <2>13
<1>6. ASSUME RelaySendsError PROVE WireTypes' /\ DownWire'
  <2> DEFINE e == [data |-> [lo |-> 1, hi |-> 0], ack |-> ErrorAck]
  <2>1. /\ s2c' = Append(s2c, e) /\ session = "ended"
        /\ \A i \in DOMAIN s2c : s2c[i].ack # ErrorAck
        /\ UNCHANGED <<srvSent, srvAckSent>>
    BY <1>6 DEF RelaySendsError, relay
  <2>2. e \in Messages /\ e.ack = ErrorAck
    BY <1>3 DEF Messages, ErrorAck
  <2> HIDE DEF e
  <2>3. /\ s2c' \in Seq(Messages) /\ Len(s2c') = Len(s2c) + 1 /\ s2c' # <<>> /\ s2c'[Len(s2c')] = e
    BY <1>2, <2>1, <2>2
  <2>4. Counting(Len(s2c)) /\ srvAckSent <= Len(srvRecv)
    <3>1. s2c # <<>> => Len(s2c) \in DOMAIN s2c
      BY <1>2
    <3> QED  BY <1>1, <2>1, <3>1 DEF Data, DownWire
  <2>5. Downward(s2c, Len(s2c), readCount_, srvSent, writeCount_, srvAckSent)
    BY <2>4 DEF Counting
  <2>6. Downward(Append(s2c, e), Len(s2c), readCount_, srvSent, writeCount_, srvAckSent)
    <3>1. Len(s2c) \in 0..Len(s2c)
      BY <1>3
    <3> QED  BY <1>2, <2>2, <2>5, <3>1, DownwardFrame
  <2>7. Counting(Len(s2c) - 1)'
    <3>1. Len(s2c') - 1 = Len(s2c)
      BY <1>3, <2>3
    <3> QED  BY <1>1, <2>1, <2>6, <3>1 DEF Counting, buffer
  <2>8. s2c'[Len(s2c')].ack = ErrorAck
    BY <2>2, <2>3
  <2>9. WireTypes'
    BY <1>1, <2>1, <2>3 DEF Data, WireTypes, requests
  <2>10. DownWire'
    BY <1>1, <2>1, <2>3, <2>4, <2>7, <2>8 DEF Data, DownWire, ErrorAck
  <2> QED  BY <2>9, <2>10
<1> QED  BY <1>4, <1>5, <1>6 DEF Data

(* A remainder is its own remainder. *)
LEMMA RemainderAgain ==
  ASSUME NEW x \in Nat
  PROVE  (x % Wrap) % Wrap = x % Wrap
<1> DEFINE y == x % Wrap
           k == y \div Wrap
           d == y % Wrap
<1>0. Wrap \in Nat \ {0}
  BY CorpAssumption
<1>1. y \in Nat /\ y < Wrap
  BY <1>0, Quotient
<1> HIDE DEF y
<1>2. k \in Int /\ y = Wrap * k + d /\ d \in Nat /\ d < Wrap
  BY <1>0, <1>1, Quotient
<1> HIDE DEF k, d
<1>3. Wrap * k + d = y
  BY <1>2
<1>4. d = y
  BY <1>0, <1>1, <1>2, <1>3, SameRemainder
<1> QED  BY <1>4 DEF d, y

(* The relay goes on from the counts in the WebSocket's URI. *)
LEMMA DataSocketOpen ==
  ASSUME Data, Shape, Kinds, OnSocketOpen
  PROVE  Data'
<1> DEFINE recv == Len(srvRecv)
<1>1. /\ ws = "CONNECTING" /\ ws' = "OPEN" /\ transport = "ws" /\ socket_ # Null /\ backoffTimeout_ = Null
      /\ RequestSuccess(FALSE, FALSE, TRUE, readCount_)
      /\ UNCHANGED <<transport, written, writeCount_, readCount_, readRequest_, uri, s2c, delivered,
                     session, srvRecv, srvProduced>>
  BY DEF OnSocketOpen, setup, Shape, Kinds
<1>2. /\ srvRecv \in Seq(Nat) /\ srvAcked \in Nat /\ readCount_ \in Nat
      /\ writeCount_ \in Nat /\ srvProduced \in Nat /\ sent \in Nat /\ written \in Nat
      /\ c2s = <<>> /\ s2c = <<>>
  BY <1>1 DEF Data, Numbers, WireTypes, UpWire, DownWire
<1>3. Wrap \in Nat /\ recv \in Nat
  BY <1>2, CorpAssumption
<1>4. /\ recv <= sent /\ sent <= written /\ written < writeCount_ + Wrap /\ writeCount_ <= recv
      /\ writeCount_ <= sent
      /\ srvAcked <= readCount_ /\ readCount_ <= srvProduced /\ srvProduced < srvAcked + Wrap
      /\ uri = [ack |-> readCount_ % Wrap, pos |-> writeCount_ % Wrap]
      /\ delivered = Down!FirstBytes(readCount_)
  BY <1>1 DEF Data, UpWire, DownWire, Numbers, WindowsHold
<1> HIDE DEF recv
<1>5. srvAcked' = readCount_ /\ srvSent' = readCount_
  <2>1. readCount_ < srvAcked + Wrap
    BY <1>2, <1>3, <1>4
  <2>2. Forward(srvAcked, readCount_ % Wrap) = readCount_ - srvAcked
    BY <1>2, <1>4, <2>1, ForwardTo
  <2>3. srvAcked' = srvAcked + Forward(srvAcked, readCount_ % Wrap) /\ srvSent' = srvAcked'
    BY <1>4 DEF OnSocketOpen
  <2> QED  BY <1>2, <2>2, <2>3
<1>6. srvAckSent' = writeCount_
  <2>1. recv < writeCount_ + Wrap
    BY <1>2, <1>3, <1>4
  <2>2. Forward(writeCount_, recv % Wrap) = recv - writeCount_
    BY <1>2, <1>3, <1>4, <2>1, ForwardTo
  <2>3. Forward(writeCount_ % Wrap, recv % Wrap) = Forward(writeCount_, recv % Wrap)
    <3>1. (writeCount_ % Wrap) % Wrap = writeCount_ % Wrap
      BY <1>2, RemainderAgain
    <3> QED  BY <3>1, Zenon DEF Forward
  <2>4. srvAckSent' = recv - Forward(writeCount_ % Wrap, recv % Wrap)
    BY <1>4 DEF OnSocketOpen, recv
  <2> QED  BY <1>2, <1>3, <2>2, <2>3, <2>4
<1>7. SendWrite(TRUE, written, sendTimers, readCount_')
  BY <1>1 DEF RequestSuccess
<1>8. /\ Numbers' /\ WindowsHold' /\ WritesHold' /\ UpWire'
      /\ c2s' \in Seq(Messages)
      /\ writeRequest_' \in Seq(WriteRequests) /\ Len(writeRequest_') <= 1
  <2>1. Upward(c2s, Len(srvRecv), sent, srvAcked', readCount_)
    BY <1>2 DEF Upward
  <2>2. srvProduced < srvAcked' + Wrap /\ srvAcked' \in Nat /\ srvAcked' <= readCount_
    <3>1. srvProduced < readCount_ + Wrap
      BY <1>2, <1>3, <1>4
    <3> QED  BY <1>2, <1>5, <3>1
  <2>3. readCount_' \in Nat /\ readCount_ <= readCount_' /\ written < writeCount_' + Wrap
    BY <1>1, <1>2, <1>4
  <2>4. writeCount_ <= Len(srvRecv)
    BY <1>4 DEF recv
  <2> QED  BY <1>1, <1>2, <1>4, <1>7, <2>1, <2>2, <2>3, <2>4, Sending
<1>9. WireTypes'
  BY <1>1, <1>2, <1>5, <1>6, <1>8 DEF Data, WireTypes
<1>10. ReadsHold'
  BY <1>1, Frames
<1>11. DownWire'
  <2>1. Downward(<<>>, 0, readCount_, readCount_, writeCount_, writeCount_)
    BY <1>2, DownwardEmpty
  <2>2. Counting(Len(s2c))'
    BY <1>1, <1>2, <1>5, <1>6, <2>1 DEF Counting
  <2> QED  BY <1>1, <1>2, <1>4, <1>5, <1>6, <2>2 DEF DownWire, recv
<1> QED  BY <1>8, <1>9, <1>10, <1>11 DEF Data

(* onSocketData_: the message is the next one, and its count is one the    *)
(* relay has reached.                                                      *)
LEMMA DataSocketData ==
  ASSUME Data, Shape, Kinds, OnSocketData
  PROVE  /\ Data'
         /\ readCount_ <= readCount_' /\ readCount_' <= srvProduced /\ UNCHANGED srvProduced
<1> DEFINE hi == s2c[1].data.hi
           ack == s2c[1].ack
           count == writeCount_ + Forward(writeCount_, ack)
<1>1. /\ s2c # <<>> /\ ack < Wrap /\ s2c' = Tail(s2c)
      /\ ws = "OPEN" /\ transport = "ws" /\ socket_ # Null /\ backoffTimeout_ = Null
      /\ RequestSuccess(FALSE, FALSE, WriteReady, readCount_')
      /\ writeCount_' = count
      /\ UNCHANGED <<transport, written, readRequest_, ws, uri, session, srvRecv, srvProduced, srvSent,
                     srvAcked, srvAckSent>>
  BY DEF OnSocketData, setup, socket, relay, Shape, Kinds
<1>2. /\ srvRecv \in Seq(Nat) /\ srvAcked \in Nat /\ readCount_ \in Nat
      /\ writeCount_ \in Nat /\ srvProduced \in Nat /\ sent \in Nat /\ written \in Nat
      /\ s2c \in Seq(Messages) /\ srvSent \in Nat /\ srvAckSent \in Nat
  BY DEF Data, Numbers, WireTypes
<1>3. Wrap \in Nat /\ Len(srvRecv) \in Nat /\ Len(s2c) \in Nat /\ Len(s2c) >= 1
  BY <1>1, <1>2, CorpAssumption
<1>4. /\ Len(srvRecv) <= sent /\ sent <= written /\ written < writeCount_ + Wrap
      /\ srvAcked <= readCount_ /\ srvProduced < srvAcked + Wrap
      /\ delivered = Down!FirstBytes(readCount_)
      /\ srvSent <= srvProduced /\ srvAckSent <= Len(srvRecv)
      /\ Upward(c2s, Len(srvRecv), sent, srvAcked, readCount_)
  BY <1>1 DEF Data, UpWire, DownWire, Numbers, WindowsHold
<1>5. PICK n \in 1..Len(s2c) :
        /\ Counting(n)
        /\ n = Len(s2c) \/ (n = Len(s2c) - 1 /\ session = "ended" /\ s2c[Len(s2c)].ack = ErrorAck)
  <2>1. CASE Counting(Len(s2c))
    <3>1. Len(s2c) \in 1..Len(s2c)
      BY <1>3
    <3> QED  BY <2>1, <3>1
  <2>2. CASE Counting(Len(s2c) - 1) /\ session = "ended" /\ s2c[Len(s2c)].ack = ErrorAck
    <3>1. Len(s2c) # 1
      BY <1>1, <1>3, <2>2 DEF ErrorAck
    <3>2. Len(s2c) - 1 \in 1..Len(s2c)
      <4> DEFINE l == Len(s2c)
      <4>1. l \in Nat /\ l >= 1 /\ l # 1
        BY <1>3, <3>1
      <4> HIDE DEF l
      <4>2. l - 1 \in 1..l
        BY <4>1
      <4> QED  BY <4>2 DEF l
    <3> QED  BY <2>2, <3>2
  <2> QED  BY <1>1, <2>1, <2>2 DEF Data, DownWire
<1>6. Downward(s2c, n, readCount_, srvSent, writeCount_, srvAckSent)
  BY <1>5 DEF Counting
<1>7. /\ s2c[1].data.lo = readCount_ + 1 /\ readCount_ <= hi /\ hi <= srvSent
      /\ hi \in Nat /\ ack \in Nat /\ count <= srvAckSent
      /\ Downward(Tail(s2c), n - 1, hi, srvSent, count, srvAckSent)
  BY <1>2, <1>6, DownwardTail
<1>8. count \in Nat /\ writeCount_ <= count
  <2>1. Forward(writeCount_, ack) \in Nat
    BY <1>1, <1>2, <1>7, ForwardSame
  <2> QED  BY <1>2, <2>1
<1>9. /\ delivered' = delivered \o Positions(readCount_ + 1, hi)
      /\ readCount_' = readCount_ + Len(Positions(readCount_ + 1, hi))
  BY <1>7 DEF OnSocketData
<1> HIDE DEF hi, ack, count
<1>10. readCount_' = hi
  <2> DEFINE lo == readCount_ + 1
  <2>1. lo \in Nat /\ hi \in Nat /\ lo <= hi + 1
    BY <1>2, <1>7
  <2> HIDE DEF lo
  <2>2. Len(Positions(lo, hi)) = hi - lo + 1
    BY <2>1, PositionsAre
  <2>3. readCount_' = readCount_ + (hi - lo + 1)
    BY <1>9, <2>2 DEF lo
  <2> QED  BY <1>2, <1>7, <2>3 DEF lo
<1>11. delivered' = Down!FirstBytes(readCount_') /\ delivered' \in Seq(Nat)
  <2>1. delivered' = Down!FirstBytes(hi)
    BY <1>2, <1>4, <1>7, <1>9, DeliverNext
  <2>2. Down!FirstBytes(hi) \in Seq(Nat)
    BY <1>7 DEF Down!FirstBytes
  <2> QED  BY <1>10, <2>1, <2>2
<1>12. readCount_' \in Nat /\ readCount_ <= readCount_' /\ readCount_' <= srvProduced
  BY <1>2, <1>4, <1>7, <1>10
<1>13. SendWrite(WriteReady, written, sendTimers, readCount_')
  BY <1>1 DEF RequestSuccess
<1>14. /\ Numbers' /\ WindowsHold' /\ WritesHold' /\ UpWire'
       /\ c2s' \in Seq(Messages)
       /\ writeRequest_' \in Seq(WriteRequests) /\ Len(writeRequest_') <= 1
  <2>1. writeCount_' \in Nat /\ writeCount_' <= Len(srvRecv) /\ writeCount_' <= sent
    <3>1. count <= Len(srvRecv) /\ count <= sent
      BY <1>2, <1>3, <1>4, <1>7, <1>8
    <3> QED  BY <1>1, <1>8, <3>1
  <2>2. written < writeCount_' + Wrap
    <3>1. written < count + Wrap
      BY <1>2, <1>3, <1>4, <1>8
    <3> QED  BY <1>1, <3>1
  <2>3. srvAcked' = srvAcked /\ sent <= written /\ written' = written
    BY <1>1, <1>4
  <2>4. /\ ws = "OPEN" => ws' = "OPEN"
        /\ transport = "ws" /\ WriteReady => ws' = "OPEN"
    BY <1>1
  <2>5. /\ srvAcked' \in Nat /\ srvAcked' <= readCount_ /\ (transport = "ws" => srvProduced < srvAcked' + Wrap)
        /\ Upward(c2s, Len(srvRecv), sent, srvAcked', readCount_)
    BY <1>2, <1>4, <2>3
  <2>6. transport = "xhr" /\ ~WriteReady => UNCHANGED writeCount_
    BY <1>1
  <2>7. UNCHANGED <<transport, srvRecv, srvProduced>>
    BY <1>1
  <2> QED  BY <1>2, <1>11, <1>12, <1>13, <2>1, <2>2, <2>3, <2>4, <2>5, <2>6, <2>7, Sending
<1>15. s2c' \in Seq(Messages) /\ Len(s2c') = Len(s2c) - 1
  BY <1>1, <1>2
<1>16. WireTypes'
  BY <1>1, <1>11, <1>14, <1>15 DEF Data, WireTypes
<1>17. ReadsHold'
  BY <1>1 DEF Shape, ReadsHold
<1>18. DownWire'
  <2>1. Counting(n - 1)'
    BY <1>1, <1>7, <1>10 DEF Counting
  <2>2. CASE n = Len(s2c)
    BY <1>1, <1>4, <1>15, <2>1, <2>2 DEF DownWire
  <2>3. CASE n = Len(s2c) - 1 /\ session = "ended" /\ s2c[Len(s2c)].ack = ErrorAck
    <3>1. s2c' # <<>> /\ s2c'[Len(s2c')] = s2c[Len(s2c)]
      <4>1. n \in Nat /\ n >= 1 /\ Len(s2c') = n /\ Len(s2c) = n + 1
        BY <1>3, <1>15, <2>3
      <4>2. \A i \in 1..n : Tail(s2c)[i] = s2c[i + 1]
        BY <1>2, <4>1
      <4>3. n \in 1..n
        BY <4>1
      <4>4. Tail(s2c)[n] = s2c[n + 1]
        BY <4>2, <4>3
      <4>5. s2c' # <<>>
        BY <4>1
      <4> QED  BY <1>1, <4>1, <4>4, <4>5
    <3>2. n - 1 = Len(s2c') - 1
      BY <1>3, <1>15, <2>3
    <3> QED  BY <1>1, <1>4, <2>1, <2>3, <3>1, <3>2 DEF DownWire, ErrorAck
  <2> QED  BY <1>5, <2>2, <2>3
<1> QED  BY <1>1, <1>12, <1>14, <1>16, <1>17, <1>18 DEF Data

-----------------------------------------------------------------------------
(* The theorems.                                                           *)

(* The types of what is not about bytes. *)
Control ==
  /\ Kinds /\ resume_ \in BOOLEAN
  /\ open \in {"new", "pending", "resolved", "rejected"}
  /\ backoffMS_ \in 0..10000 /\ backoffTimeout_ \in {Null, "timer"}
  /\ socket_ \in {Null, "socket"} /\ ws \in {"NONE", "CONNECTING", "OPEN", "CLOSED"}
  /\ host \in {"open", "closed"}

(* A failure leaves the back-off within its bounds. *)
LEMMA BackoffSteps ==
  ASSUME backoffMS_ \in 0..10000, backoffTimeout_ \in {Null, "timer"}, RequestError
  PROVE  backoffMS_' \in 0..10000 /\ backoffTimeout_' \in {Null, "timer"}
<1>1. backoffMS_ \in Nat /\ backoffMS_ <= 10000
  OBVIOUS
<1>2. NextBackoff(backoffMS_) \in 0..10000
  <2>1. NextBackoff(backoffMS_) \in Nat /\ NextBackoff(backoffMS_) <= 10000
    BY <1>1, BackoffBounds
  <2> DEFINE b == NextBackoff(backoffMS_)
  <2> HIDE DEF b
  <2>2. b \in Nat /\ b <= 10000
    BY <2>1 DEF b
  <2>3. b \in 0..10000
    BY <2>2
  <2> QED  BY <2>3 DEF b
<1>3. CASE BackoffTest
  BY <1>2, <1>3 DEF RequestError
<1>4. CASE ~BackoffTest
  BY <1>4 DEF RequestError, backoff
<1> QED  BY <1>3, <1>4

(* Every step keeps those types. *)
LEMMA ControlNext ==
  ASSUME Control, IdleInv, Next
  PROVE  Control'
<1>1. ASSUME NEW n \in 1..MaxUp, Write(n) PROVE Control'
  BY <1>1 DEF Write, Control, Kinds, setup, backoff, socket, relay
<1>3. CASE OnSession
  BY <1>3 DEF OnSession, ResumeRead, Control, Kinds, setup, backoff, socket, relay
<1>4. CASE OnBackoffExpired
  BY <1>4 DEF OnBackoffExpired, ResumeRead, Control, Kinds, setup, backoff, socket, relay
<1>5. CASE OnReadReady
  <2>1. UNCHANGED <<setup, open, sessionID_, socket, host, relay>>
    BY <1>5 DEF OnReadReady
  <2>2. backoffMS_' = 0 /\ backoffTimeout_' = Null
    BY <1>5 DEF OnReadReady, RequestSuccess
  <2> QED  BY <2>1, <2>2 DEF Control, Kinds, setup, backoff, socket, relay
<1>6. CASE OnReadGone
  BY <1>6 DEF OnReadGone, Control, Kinds, setup, backoff, socket, relay
<1>7. CASE OnWriteDone
  BY <1>7 DEF OnWriteDone, RequestSuccess, ResumeRead, Control, Kinds, setup, backoff, socket, relay
<1>8. CASE OnWriteGone
  BY <1>8 DEF OnWriteGone, Control, Kinds, setup, backoff, socket, relay
<1>9. CASE OnSocketOpen
  BY <1>9 DEF OnSocketOpen, RequestSuccess, ResumeRead, Control, Kinds, setup, backoff, socket, relay
<1>10. CASE OnSocketData
  <2>1. UNCHANGED <<setup, open, sessionID_, socket, host, relay>>
    BY <1>10 DEF OnSocketData
  <2>2. backoffMS_' = 0 /\ backoffTimeout_' = Null
    BY <1>10 DEF OnSocketData, RequestSuccess
  <2> QED  BY <2>1, <2>2 DEF Control, Kinds, setup, backoff, socket, relay
<1>11. CASE OnSocketErrorAck
  BY <1>11 DEF OnSocketErrorAck, Control, Kinds, setup, backoff, socket, relay
<1>12. CASE OnSendTimer
  BY <1>12 DEF OnSendTimer, Control, Kinds, setup, backoff, socket, relay
<1>13. CASE RelayAnswersRead
  <2>1. UNCHANGED <<setup, open, sessionID_, backoff, socket, host, relay>>
    BY <1>13, Zenon DEF RelayAnswersRead
  <2> QED  BY <2>1 DEF Control, Kinds, setup, backoff, socket, relay
<1>14. CASE RelayAnswersWrite
  <2>1. UNCHANGED <<setup, open, sessionID_, backoff, socket, host, session>>
    BY <1>14, Zenon DEF RelayAnswersWrite
  <2> QED  BY <2>1 DEF Control, Kinds, setup, backoff, socket, relay
<1>15. CASE RelayReceives
  <2>1. UNCHANGED <<setup, open, sessionID_, backoff, socket, host, session>>
    BY <1>15 DEF RelayReceives
  <2> QED  BY <2>1 DEF Control, Kinds, setup, backoff, socket, relay
<1>16. CASE RelaySends
  BY <1>16 DEF RelaySends, Control, Kinds, setup, backoff, socket, relay
<1>17. CASE RelaySendsError
  BY <1>17 DEF RelaySendsError, Control, Kinds, setup, backoff, socket, relay
<1>18. CASE OnSessionError
  BY <1>18 DEF OnSessionError, Control, Kinds, setup, backoff, socket, relay
<1>19. CASE ReadFails
  <2>1. RequestError /\ UNCHANGED <<setup, open, sessionID_, socket, host, relay>>
    BY <1>19, Zenon DEF ReadFails
  <2>2. backoffMS_' \in 0..10000 /\ backoffTimeout_' \in {Null, "timer"}
    BY <2>1, BackoffSteps DEF Control
  <2> QED  BY <2>1, <2>2 DEF Control, Kinds, setup, socket, relay
<1>20. CASE WriteFails
  <2>1. RequestError /\ UNCHANGED <<setup, open, sessionID_, socket, host, relay>>
    BY <1>20, Zenon DEF WriteFails
  <2>2. backoffMS_' \in 0..10000 /\ backoffTimeout_' \in {Null, "timer"}
    BY <2>1, BackoffSteps DEF Control
  <2> QED  BY <2>1, <2>2 DEF Control, Kinds, setup, socket, relay
<1>21. CASE OnSocketError
  <2>1. UNCHANGED <<setup, open, sessionID_, relay>> /\ socket_' = Null /\ ws' = "CLOSED"
    BY <1>21 DEF OnSocketError
  <2>2. \/ RequestError /\ UNCHANGED host
        \/ host' = "closed" /\ UNCHANGED backoff
    BY <1>21, Zenon DEF OnSocketError
  <2>3. CASE RequestError /\ UNCHANGED host
    <3>1. backoffMS_' \in 0..10000 /\ backoffTimeout_' \in {Null, "timer"}
      BY <2>3, BackoffSteps DEF Control
    <3> QED  BY <2>1, <2>3, <3>1 DEF Control, Kinds, setup, relay
  <2>4. CASE host' = "closed" /\ UNCHANGED backoff
    BY <2>1, <2>4 DEF Control, Kinds, setup, backoff, relay
  <2> QED  BY <2>2, <2>3, <2>4
<1>22. CASE SshServerSends
  BY <1>22 DEF SshServerSends, Control, Kinds, setup, backoff, socket, relay
<1>23. CASE SessionEnds
  BY <1>23 DEF SessionEnds, Control, Kinds, setup, backoff, socket, relay
<1>24. CASE Open
  BY <1>24 DEF Open, Control, Kinds, setup, backoff, socket, relay
<1>25. CASE HostClose
  BY <1>25 DEF HostClose, Control, Kinds, setup, backoff, socket, relay
<1> QED
  BY <1>1, <1>3, <1>4, <1>5, <1>6, <1>7, <1>8, <1>9, <1>10, <1>11, <1>12, <1>13, <1>14, <1>15, <1>16, <1>17, <1>18, <1>19, <1>20, <1>21, <1>22, <1>23, <1>24, <1>25
  DEF Next, Host, Xhr, WebSocket, Relay, Failure

(* Every step keeps the counts. *)
LEMMA DataNext ==
  ASSUME Data, Control, IdleInv, Next
  PROVE  Data'
<1>1. Kinds /\ Shape
  BY DEF Control, IdleInv
<1> QED
  BY <1>1, DataSimple, DataSending, DataResuming, DataRead, DataWritten, DataAnswersRead,
     DataAnswersWrite, DataReceives, DataRelaySends, DataSocketOpen, DataSocketData, Zenon
  DEF Next, Host, Xhr, WebSocket, Relay, Failure

(* The inductive invariant: which parts go with which transport (IdleInv), *)
(* the types and the counts.                                               *)
StreamInv == IdleInv /\ Control /\ Data

(* It holds initially. *)
LEMMA StreamInit == Init => StreamInv
<1> SUFFICES ASSUME Init PROVE StreamInv
  OBVIOUS
<1>1. IdleInv
  BY IdleInit
<1>2. Control
  BY DEF Init, Control, Kinds
<1>3. Numbers /\ WindowsHold
  <2>1. Down!FirstBytes(0) = <<>>
    BY DEF Down!FirstBytes
  <2> QED  BY <2>1, CorpAssumption DEF Init, Buf!Init, Numbers, WindowsHold
<1>4. WireTypes
  BY DEF Init, WireTypes
<1>5. ReadsHold /\ WritesHold
  BY DEF Init, ReadsHold, WritesHold
<1>6. UpWire /\ DownWire
  <2>1. Upward(<<>>, Len(srvRecv), sent, srvAcked, readCount_)
    BY DEF Upward
  <2> QED  BY <2>1 DEF Init, Buf!Init, UpWire, DownWire
<1> QED  BY <1>1, <1>2, <1>3, <1>4, <1>5, <1>6 DEF StreamInv, Data

(* Every step keeps it. *)
LEMMA StreamNext == StreamInv /\ [Next]_vars => StreamInv'
<1> SUFFICES ASSUME StreamInv, [Next]_vars PROVE StreamInv'
  OBVIOUS
<1>1. IdleInv'
  BY IdleNext DEF StreamInv
<1>2. CASE Next
  BY <1>1, <1>2, ControlNext, DataNext DEF StreamInv
<1>3. CASE UNCHANGED vars
  <2>1. UNCHANGED dataVars
    BY <1>3 DEF vars, dataVars, setup, socket
  <2>2. Control'
    BY <1>3 DEF vars, StreamInv, Control, Kinds, setup, socket, backoff, relay
  <2> QED  BY <1>1, <2>1, <2>2, DataFrame DEF StreamInv
<1> QED  BY <1>2, <1>3

(* It says what the run checks. *)
LEMMA StreamImplies == StreamInv => CountsInv
<1> SUFFICES ASSUME StreamInv PROVE CountsInv
  OBVIOUS
<1>1. TypeOK
  BY DEF StreamInv, IdleInv, Shape, Control, Kinds, Data, Numbers, TypeOK
<1>2. CountsAgree
  <2>1. writeCount_ <= Len(srvRecv)
    BY DEF StreamInv, Data, Numbers
  <2>2. ASSUME ws = "OPEN", s2c = <<>> PROVE writeCount_ = srvAckSent
    <3>1. Counting(0)
      BY <2>2 DEF StreamInv, Data, DownWire
    <3> QED  BY <3>1 DEF Counting, Downward
  <2> QED  BY <2>1, <2>2 DEF CountsAgree
<1> QED  BY <1>1, <1>2 DEF StreamInv, Data, CountsInv

(* The counts the stream keeps agree with the relay's, also when they wrap. *)
THEOREM CountsInvariant == Spec => []CountsInv
<1>1. Spec => []StreamInv
  BY StreamInit, StreamNext, PTL DEF Spec
<1> QED  BY <1>1, StreamImplies, PTL

(* Initially nothing has been produced or delivered. *)
LEMMA DownInit == Init => Down!Init
BY DEF Init, Down!Init

(* Every step puts a byte in, takes the next ones out, or leaves both alone. *)
LEMMA DownNext ==
  ASSUME StreamInv, StreamInv', [Next]_vars
  PROVE  [Down!Next]_(Down!pipe)
<1> USE DEF Down!pipe
<1>0. /\ IdleInv /\ Data /\ Kinds /\ Shape
      /\ delivered = Down!FirstBytes(readCount_) /\ delivered' = Down!FirstBytes(readCount_')
      /\ readCount_ \in Nat /\ readCount_' \in Nat /\ srvProduced \in Nat
  BY DEF StreamInv, IdleInv, Control, Data, Numbers, WindowsHold, WireTypes
<1>1. Len(delivered) = readCount_ /\ Len(delivered') = readCount_'
  BY <1>0 DEF Down!FirstBytes
<1>2. ASSUME OnReadReady \/ OnSocketData PROVE [Down!Next]_(Down!pipe)
  <2>1. readCount_ <= readCount_' /\ readCount_' <= srvProduced /\ UNCHANGED srvProduced
    <3>1. CASE OnReadReady
      <4>1. readCount_ < readCount_' /\ readCount_' <= srvProduced /\ UNCHANGED srvProduced
        BY <1>0, <3>1, DataRead
      <4> QED  BY <1>0, <4>1
    <3>2. CASE OnSocketData
      BY <1>0, <3>2, DataSocketData
    <3> QED  BY <1>2, <3>1, <3>2
  <2>2. CASE readCount_' = readCount_
    BY <1>0, <2>1, <2>2
  <2>3. CASE readCount_' # readCount_
    <3>1. readCount_' > readCount_
      BY <1>0, <2>1, <2>3
    <3>2. delivered' = [i \in 1..readCount_' |-> IF i <= readCount_ THEN delivered[i] ELSE i]
      BY <1>0, <3>1 DEF Down!FirstBytes
    <3>3. Down!Get
      BY <1>1, <2>1, <3>1, <3>2 DEF Down!Get
    <3> QED  BY <3>3 DEF Down!Next
  <2> QED  BY <2>2, <2>3
<1>3. ASSUME SshServerSends PROVE [Down!Next]_(Down!pipe)
  <2>1. srvProduced' = srvProduced + 1 /\ UNCHANGED delivered
    BY <1>3 DEF SshServerSends
  <2>2. Down!Put
    BY <1>0, <2>1 DEF Down!Put
  <2> QED  BY <2>2 DEF Down!Next
<1>4. ASSUME \/ OnSession \/ OnBackoffExpired \/ OnReadGone \/ OnWriteDone \/ OnWriteGone
             \/ OnSocketOpen \/ OnSocketErrorAck \/ OnSendTimer \/ RelayReceives \/ RelaySends
             \/ RelaySendsError \/ Failure \/ SessionEnds \/ Host
      PROVE  UNCHANGED Down!pipe
  BY <1>4 DEF OnSession, OnBackoffExpired, OnReadGone, OnWriteDone, OnWriteGone, OnSocketOpen,
     OnSocketErrorAck, OnSendTimer, RelayReceives, RelaySends, RelaySendsError, Failure, SessionEnds,
     Host, Open, Write, HostClose, OnSessionError, ReadFails, WriteFails, OnSocketError, relay
<1>5. ASSUME RelayAnswersRead \/ RelayAnswersWrite PROVE UNCHANGED Down!pipe
  <2>1. UNCHANGED delivered /\ UNCHANGED srvProduced
    BY <1>5, Zenon DEF RelayAnswersRead, RelayAnswersWrite, relay
  <2> QED  BY <2>1
<1>6. CASE UNCHANGED vars
  BY <1>6 DEF vars, relay
<1> QED  BY <1>2, <1>3, <1>4, <1>5, <1>6 DEF Next, Xhr, WebSocket, Relay

(* The ssh server's bytes reach the host in order and once, whatever fails: *)
(* the stream implements an ordered pipe.                                   *)
THEOREM DownstreamIsAPipe == Spec => DownSpec
<1>1. Spec => []StreamInv
  BY StreamInit, StreamNext, PTL DEF Spec
<1> QED  BY <1>1, DownInit, DownNext, PTL DEF Spec, DownSpec, Down!Spec

-----------------------------------------------------------------------------
(* Finding a Corp relay. *)

(* The relay page's answer in session storage is for the destination left   *)
(* there, and the tab that is away asks for that one.                       *)
LookupInv ==
  /\ Lookup!TypeOK /\ Lookup!RelayIsForItsDestination
  /\ relayHost # "none" => relayHost = resumePath
  /\ page = "cookie" => path = resumePath

(* It holds in a new tab. *)
LEMMA LookupInit == Lookup!Init => LookupInv
BY DEF Lookup!Init, Lookup!None, Lookup!LIMIT, LookupInv, Lookup!TypeOK, Lookup!Ends, Lookup!RelayIsForItsDestination

(* Every step of the page, the relay's page and the user keeps it. *)
LEMMA LookupNext == LookupInv /\ Lookup!Next => LookupInv'
<1> USE DEF Lookup!None, Lookup!LIMIT, LookupInv, Lookup!TypeOK, Lookup!Ends, Lookup!RelayIsForItsDestination,
        Lookup!session, Lookup!Direct
<1> SUFFICES ASSUME LookupInv, Lookup!Next PROVE LookupInv'
  OBVIOUS
<1>1. ASSUME NEW d \in Destinations, Lookup!GoTo(d) PROVE LookupInv'
  BY <1>1 DEF Lookup!GoTo
<1>2. CASE Lookup!ShowDialog
  BY <1>2 DEF Lookup!ShowDialog
<1>3. CASE Lookup!InitFound
  BY <1>3 DEF Lookup!InitFound, Lookup!Expected
<1>4. CASE Lookup!InitRedirects
  BY <1>4 DEF Lookup!InitRedirects, Lookup!Expected
<1>5. ASSUME NEW answer \in {"none", path}, Lookup!RelayPage(answer) PROVE LookupInv'
  BY <1>5 DEF Lookup!RelayPage
<1>6. CASE Lookup!InitDirect
  BY <1>6 DEF Lookup!InitDirect
<1>7. CASE Lookup!FetchEndpoint
  BY <1>7 DEF Lookup!FetchEndpoint
<1>8. CASE Lookup!ValidateCookie
  BY <1>8 DEF Lookup!ValidateCookie, Lookup!AfterFailure
<1>9. CASE Lookup!RefreshTicket
  BY <1>9 DEF Lookup!RefreshTicket
<1>10. CASE Lookup!ShowLoginPopup
  BY <1>10 DEF Lookup!ShowLoginPopup
<1> QED
  BY <1>1, <1>2, <1>3, <1>4, <1>5, <1>6, <1>7, <1>8, <1>9, <1>10
  DEF Lookup!Next, Lookup!Redirect, Lookup!Authenticate

(* The relay a session is opened with is the one looked up for the          *)
(* destination on the page, and not for one the user has left.              *)
THEOREM LookupsHold == MCSpec => []LookupsAreRight
<1>1. MCInit => LookupInv
  BY LookupInit DEF MCInit
<1>2. LookupInv /\ [MCNext]_allVars => LookupInv'
  <2>1. LookupInv /\ UNCHANGED setupVars => LookupInv'
    BY DEF LookupInv, setupVars, Lookup!TypeOK, Lookup!RelayIsForItsDestination
  <2>2. UNCHANGED allVars => UNCHANGED setupVars
    BY DEF allVars
  <2>3. MCNext => Lookup!Next \/ UNCHANGED setupVars
    BY DEF MCNext
  <2> QED  BY <2>1, <2>2, <2>3, LookupNext
<1>3. LookupInv => LookupsAreRight
  BY DEF LookupInv, LookupsAreRight
<1> QED  BY <1>1, <1>2, <1>3, PTL DEF MCSpec

-----------------------------------------------------------------------------
(* The profiles, as several pages see them. *)

Agreeing == INSTANCE Preferences_proofs WITH requests <- storageRequests, events <- edits

(* What a handler does of a page is the same in both, call by call.        *)
LEMMA SameCalls ==
  /\ Profiles!LIST = Agreeing!LIST /\ Profiles!DEFAULT = Agreeing!DEFAULT
  /\ \A key, value, m : Profiles!Write(key, value, m) = Agreeing!Write(key, value, m)
  /\ \A key, m : Profiles!Get(key, m) = Agreeing!Get(key, m)
  /\ \A p : Profiles!Page(p) = Agreeing!Page(p)
  /\ \A w, request : Profiles!Send(w, request) = Agreeing!Send(w, request)
  /\ \A w, m, value : Profiles!Edit(w, m, value) = Agreeing!Edit(w, m, value)
  /\ \A w, id : Profiles!NewManager(w, id) = Agreeing!NewManager(w, id)
  /\ \A w, ids, dropped, loading :
       Profiles!SyncFrom(w, ids, dropped, loading) = Agreeing!SyncFrom(w, ids, dropped, loading)
  /\ \A w, ids, loading : Profiles!ListBecomes(w, ids, loading) = Agreeing!ListBecomes(w, ids, loading)
  /\ \A w, id : Profiles!AddChild(w, id) = Agreeing!AddChild(w, id)
  /\ \A w, id : Profiles!DropChild(w, id) = Agreeing!DropChild(w, id)
<1>1. Profiles!LIST = Agreeing!LIST /\ Profiles!DEFAULT = Agreeing!DEFAULT
  BY Zenon DEF Profiles!LIST, Agreeing!LIST, Profiles!DEFAULT, Agreeing!DEFAULT
<1>2. ASSUME NEW key, NEW value, NEW m PROVE Profiles!Write(key, value, m) = Agreeing!Write(key, value, m)
  BY Zenon DEF Profiles!Write, Agreeing!Write
<1>3. ASSUME NEW key, NEW m PROVE Profiles!Get(key, m) = Agreeing!Get(key, m)
  BY <1>1, Zenon DEF Profiles!Get, Agreeing!Get
<1>4. ASSUME NEW p PROVE Profiles!Page(p) = Agreeing!Page(p)
  BY Zenon DEF Profiles!Page, Agreeing!Page
<1>5. ASSUME NEW w, NEW request PROVE Profiles!Send(w, request) = Agreeing!Send(w, request)
  BY Zenon DEF Profiles!Send, Agreeing!Send
<1>6. ASSUME NEW f, NEW key, NEW value PROVE Profiles!With(f, key, value) = Agreeing!With(f, key, value)
  BY Zenon DEF Profiles!With, Agreeing!With
<1>7. ASSUME NEW w, NEW m PROVE Profiles!InitCache(w, m) = Agreeing!InitCache(w, m)
  BY <1>3, <1>5 DEF Profiles!InitCache, Agreeing!InitCache
<1>8. ASSUME NEW w, NEW m, NEW value PROVE Profiles!Edit(w, m, value) = Agreeing!Edit(w, m, value)
  BY <1>7 DEF Profiles!Edit, Agreeing!Edit
<1>9. ASSUME NEW w, NEW id PROVE Profiles!NewManager(w, id) = Agreeing!NewManager(w, id)
  BY <1>1, <1>6 DEF Profiles!NewManager, Agreeing!NewManager
<1>10. ASSUME NEW w, NEW id PROVE Profiles!NewChild(w, id) = Agreeing!NewChild(w, id)
  BY <1>6, <1>9 DEF Profiles!NewChild, Agreeing!NewChild
<1>11. ASSUME NEW f, NEW ids PROVE Profiles!Without(f, ids) = Agreeing!Without(f, ids)
  BY Zenon DEF Profiles!Without, Agreeing!Without, Profiles!Restrict, Agreeing!Restrict
<1>12. ASSUME NEW S PROVE Profiles!Min(S) = Agreeing!Min(S)
  BY Zenon DEF Profiles!Min, Agreeing!Min
<1>13. ASSUME NEW f, NEW v PROVE Profiles!RemoveFirst(f, v) = Agreeing!RemoveFirst(f, v)
  BY <1>12, Zenon DEF Profiles!RemoveFirst, Agreeing!RemoveFirst, Profiles!RemoveAt, Agreeing!RemoveAt,
    Profiles!SelectInSeq, Agreeing!SelectInSeq
<1>14. ASSUME NEW w, NEW ids, NEW dropped, NEW loading
       PROVE  Profiles!SyncFrom(w, ids, dropped, loading) = Agreeing!SyncFrom(w, ids, dropped, loading)
  BY <1>7, <1>10, <1>11, <1>12, Zenon DEF Profiles!SyncFrom, Agreeing!SyncFrom, Profiles!SelectInSeq,
    Agreeing!SelectInSeq
<1>15. ASSUME NEW w, NEW loading PROVE Profiles!SyncChildList(w, loading) = Agreeing!SyncChildList(w, loading)
  BY <1>14 DEF Profiles!SyncChildList, Agreeing!SyncChildList, Profiles!Range, Agreeing!Range
<1>16. ASSUME NEW w, NEW ids, NEW loading
       PROVE  Profiles!ListBecomes(w, ids, loading) = Agreeing!ListBecomes(w, ids, loading)
  BY <1>15 DEF Profiles!ListBecomes, Agreeing!ListBecomes
<1>17. ASSUME NEW w, NEW ids PROVE Profiles!SetList(w, ids) = Agreeing!SetList(w, ids)
  BY <1>1, <1>2, <1>5, <1>16 DEF Profiles!SetList, Agreeing!SetList
<1>18. ASSUME NEW w, NEW id PROVE Profiles!ResetChild(w, id) = Agreeing!ResetChild(w, id)
  BY <1>1, <1>8 DEF Profiles!ResetChild, Agreeing!ResetChild
<1>19. ASSUME NEW w, NEW id PROVE Profiles!AddChild(w, id) = Agreeing!AddChild(w, id)
  BY <1>10, <1>17, <1>18 DEF Profiles!AddChild, Agreeing!AddChild
<1>20. ASSUME NEW w, NEW id PROVE Profiles!DropChild(w, id) = Agreeing!DropChild(w, id)
  BY <1>11, <1>17, <1>18, <1>13 DEF Profiles!DropChild, Agreeing!DropChild
<1> QED
  BY <1>1, <1>2, <1>3, <1>4, <1>5, <1>8, <1>9, <1>14, <1>16, <1>19, <1>20, Zenon

(* The pages of the run take the steps Preferences_proofs is about.        *)
LEMMA SameSteps == Profiles!Next => Agreeing!Next
<1>1. ASSUME NEW p, NEW w PROVE Profiles!Become(p, w) => Agreeing!Become(p, w)
  BY Zenon DEF Profiles!Become, Agreeing!Become, Profiles!Busy, Agreeing!Busy, Profiles!Restrict,
    Agreeing!Restrict, Profiles!Range, Agreeing!Range
<1>2. Profiles!Event => Agreeing!Event
  BY Zenon DEF Profiles!Event, Agreeing!Event
<1>3. ASSUME NEW p PROVE Profiles!Shown(p) => Agreeing!Shown(p)
  BY SameCalls DEF Profiles!Shown, Agreeing!Shown
<1>5. ASSUME NEW p, NEW id, NEW value PROVE Profiles!Set(p, id, value) => Agreeing!Set(p, id, value)
  BY SameCalls, <1>1, <1>2, <1>3 DEF Profiles!Set, Agreeing!Set
<1>6. ASSUME NEW p, NEW id PROVE Profiles!CreateChild(p, id) => Agreeing!CreateChild(p, id)
  BY SameCalls, <1>1, <1>2, <1>3 DEF Profiles!CreateChild, Agreeing!CreateChild, Profiles!Range,
    Agreeing!Range
<1>7. ASSUME NEW p, NEW id PROVE Profiles!RemoveChild(p, id) => Agreeing!RemoveChild(p, id)
  BY SameCalls, <1>1, <1>2, <1>3 DEF Profiles!RemoveChild, Agreeing!RemoveChild
<1>8. ASSUME NEW p, NEW id, NEW value
      PROVE  Profiles!ImportFromJson(p, id, value) => Agreeing!ImportFromJson(p, id, value)
  BY SameCalls, <1>1, <1>2, <1>3 DEF Profiles!ImportFromJson, Agreeing!ImportFromJson
<1>9. ASSUME NEW p PROVE Profiles!Load(p) => Agreeing!Load(p)
  BY SameCalls, <1>1, <1>2, <1>3 DEF Profiles!Load, Agreeing!Load, Profiles!Writes, Agreeing!Writes
<1>10. ASSUME NEW p PROVE Profiles!OnSyncTimer(p) => Agreeing!OnSyncTimer(p)
  BY SameCalls, <1>1, <1>2, <1>3 DEF Profiles!OnSyncTimer, Agreeing!OnSyncTimer
<1>11. ASSUME NEW p PROVE Profiles!OnStorageChange(p) => Agreeing!OnStorageChange(p)
  BY SameCalls, <1>1, <1>2, <1>3 DEF Profiles!OnStorageChange, Agreeing!OnStorageChange
<1>12. ASSUME NEW p PROVE Profiles!ReadList(p) => Agreeing!ReadList(p)
  BY SameCalls, <1>1, <1>2, <1>3 DEF Profiles!ReadList, Agreeing!ReadList
<1>13. ASSUME NEW p PROVE Profiles!CacheIsRead(p) => Agreeing!CacheIsRead(p)
  BY SameCalls, <1>1, <1>2, <1>3 DEF Profiles!CacheIsRead, Agreeing!CacheIsRead
<1>14. ASSUME NEW p PROVE Profiles!Retry(p) => Agreeing!Retry(p)
  BY Zenon DEF Profiles!Retry, Agreeing!Retry
<1>15. ASSUME NEW p PROVE Profiles!Answer(p) => Agreeing!Answer(p)
  BY Zenon DEF Profiles!Answer, Agreeing!Answer, Profiles!Items, Agreeing!Items
<1>16. ASSUME NEW p PROVE Profiles!Store(p) => Agreeing!Store(p)
  BY Zenon DEF Profiles!Store, Agreeing!Store, Profiles!Changed, Agreeing!Changed, Profiles!LIST,
    Agreeing!LIST
<1>17. ASSUME NEW p PROVE Profiles!Refuse(p) => Agreeing!Refuse(p)
  BY Zenon DEF Profiles!Refuse, Agreeing!Refuse, Profiles!Event, Agreeing!Event
<1> QED
  BY SameCalls, <1>5, <1>6, <1>7, <1>8, <1>9, <1>10, <1>11, <1>12, <1>13, <1>14, <1>15, <1>16, <1>17,
    Zenon DEF Profiles!Next, Agreeing!Next, Profiles!UserNext, Agreeing!UserNext, Profiles!GoOn,
    Agreeing!GoOn, Profiles!Serve, Agreeing!Serve, Profiles!HearNews, Agreeing!HearNews,
    Profiles!TimerFires, Agreeing!TimerFires

(* A page of the run that has nothing under way shows the list that is     *)
(* stored and the values it was the last to write, whatever the other      *)
(* pages do and however their writes and news cross.                       *)
THEOREM PagesAgree == MCSpec => []PagesSeeTheSame
<1>1. MCInit => Agreeing!PagesInv
  <2>1. Ids # {} /\ Agreeing!LIST \notin Ids
    BY IdsAssumption, Zenon DEF Profiles!LIST, Agreeing!LIST
  <2>2. Profiles!Init => Agreeing!Init
    BY Zenon DEF Profiles!Init, Agreeing!Init, Profiles!LIST, Agreeing!LIST, Profiles!DEFAULT, Agreeing!DEFAULT
  <2> QED  BY <2>1, <2>2, Agreeing!PagesInit DEF MCInit
<1>2. Agreeing!PagesInv /\ [MCNext]_allVars => Agreeing!PagesInv'
  <2>1. UNCHANGED profileVars => UNCHANGED Agreeing!vars
    BY Zenon DEF profileVars, Agreeing!vars, Agreeing!pageVars
  <2>2. UNCHANGED allVars => UNCHANGED profileVars
    BY DEF allVars
  <2>3. MCNext => Profiles!Next \/ UNCHANGED profileVars
    BY DEF MCNext
  <2> QED  BY <2>1, <2>2, <2>3, SameSteps, Agreeing!PagesNext
<1>3. Agreeing!PagesInv => PagesSeeTheSame
  <2>1. Agreeing!TypeOK => Profiles!TypeOK
    BY SameCalls, Zenon DEF Profiles!TypeOK, Agreeing!TypeOK
  <2>2. Agreeing!PagesSeeWhatIsStored => Profiles!PagesSeeWhatIsStored
    BY SameCalls, Zenon DEF Profiles!PagesSeeWhatIsStored, Agreeing!PagesSeeWhatIsStored, Profiles!Quiet,
      Agreeing!Quiet, Profiles!Busy, Agreeing!Busy
  <2> QED  BY <2>1, <2>2, Agreeing!PagesImply DEF PagesSeeTheSame
<1> QED  BY <1>1, <1>2, <1>3, PTL DEF MCSpec

-----------------------------------------------------------------------------
(* A Corp v4 stream that does not resume. *)

(* The stream of the run that does not resume, as RelayCorpv4_proofs sees  *)
(* it.                                                                     *)
Unresumed == INSTANCE RelayCorpv4_proofs WITH
  Resume <- FALSE, ServerFaulty <- FALSE, MaxUp <- MaxUp4, MaxDown <- MaxDown4, MaxDrops <- MaxDrops4,
  open <- open4, socket_ <- socket4, sid_ <- sid4, reconnectCount_ <- reconnects4, written <- written4,
  writeCount_ <- writeCount4, writeAckCount_ <- writeAcks4, readCount_ <- readCount4,
  sendTimers <- sendTimers4, reconnectTimers <- reconnectTimers4, resumeAck <- resumeAck4, ws <- ws4,
  events <- events4, c2s <- c2s4, s2c <- s2c4, drops <- drops4, host <- host4, delivered <- delivered4,
  session <- session4, srvRecv <- srvRecv4, srvSent <- srvSent4, srvProduced <- srvProduced4,
  srvAcked <- srvAcked4, srvAckSent <- srvAckSent4

(* The part of the run that is a Corp v4 stream without resume takes the   *)
(* steps RelayCorpv4_proofs is about.                                      *)
LEMMA UnresumedSteps == Plain!Next => Unresumed!Next
<1>1. Plain!Open => Unresumed!Open
  BY Zenon DEF Plain!Open, Unresumed!Open, Plain!buffer, Unresumed!buffer, Plain!link, Unresumed!link,
    Plain!server, Unresumed!server
<1>2. Plain!OnSendTimer => Unresumed!OnSendTimer
  BY Zenon DEF Plain!OnSendTimer, Unresumed!OnSendTimer, Plain!SendWrite, Unresumed!SendWrite, Plain!server,
    Unresumed!server, Plain!Null, Unresumed!Null, Plain!Buf!Smaller, Unresumed!Buf!Smaller, Plain!Data,
    Unresumed!Data
<1>3. Plain!HostClose => Unresumed!HostClose
  BY Zenon DEF Plain!HostClose, Unresumed!HostClose, Plain!buffer, Unresumed!buffer, Plain!link, Unresumed!link,
    Plain!server, Unresumed!server
<1>4. Plain!OnSocketError => Unresumed!OnSocketError
  BY Zenon DEF Plain!OnSocketError, Unresumed!OnSocketError, Plain!ReconnectOrClose, Unresumed!ReconnectOrClose,
    Plain!buffer, Unresumed!buffer, Plain!server, Unresumed!server, Plain!CountAttempt,
    Unresumed!CountAttempt, Plain!MayReconnect, Unresumed!MayReconnect, Plain!Null, Unresumed!Null,
    Plain!Reconnect, Unresumed!Reconnect, Plain!Close_, Unresumed!Close_
<1>5. Plain!OnSocketClose => Unresumed!OnSocketClose
  BY Zenon DEF Plain!OnSocketClose, Unresumed!OnSocketClose, Plain!ReconnectOrClose, Unresumed!ReconnectOrClose,
    Plain!Close_, Unresumed!Close_, Plain!buffer, Unresumed!buffer, Plain!server, Unresumed!server,
    Plain!CountAttempt, Unresumed!CountAttempt, Plain!MayReconnect, Unresumed!MayReconnect, Plain!Null,
    Unresumed!Null, Plain!Reconnect, Unresumed!Reconnect
<1>6. Plain!OnReconnectTimer => Unresumed!OnReconnectTimer
  BY Zenon DEF Plain!OnReconnectTimer, Unresumed!OnReconnectTimer, Plain!buffer, Unresumed!buffer, Plain!link,
    Unresumed!link, Plain!server, Unresumed!server
<1>7. Plain!OnSocketOpen => Unresumed!OnSocketOpen
  BY Zenon DEF Plain!OnSocketOpen, Unresumed!OnSocketOpen, Plain!NoAck, Unresumed!NoAck, Plain!ConnectSuccess,
    Unresumed!ConnectSuccess, Plain!ReconnectSuccess, Unresumed!ReconnectSuccess, Plain!buffer,
    Unresumed!buffer
<1>8. Plain!OnConnectSuccess => Unresumed!OnConnectSuccess
  BY Zenon DEF Plain!OnConnectSuccess, Unresumed!OnConnectSuccess, Plain!Incoming, Unresumed!Incoming,
    Plain!buffer, Unresumed!buffer, Plain!server, Unresumed!server
<1>9. Plain!OnData => Unresumed!OnData
  BY Zenon DEF Plain!OnData, Unresumed!OnData, Plain!Incoming, Unresumed!Incoming, Plain!Bytes, Unresumed!Bytes,
    Plain!Ack, Unresumed!Ack, Plain!buffer, Unresumed!buffer, Plain!server, Unresumed!server
<1>10. Plain!OnReconnectSuccess => Unresumed!OnReconnectSuccess
  BY Zenon DEF Plain!OnReconnectSuccess, Unresumed!OnReconnectSuccess, Plain!Incoming, Unresumed!Incoming,
    Plain!ApplyAck, Unresumed!ApplyAck, Plain!server, Unresumed!server, Plain!Buf!Ack,
    Unresumed!Buf!Ack, Plain!Close_, Unresumed!Close_, Plain!buffer, Unresumed!buffer, Plain!Null,
    Unresumed!Null
<1>11. Plain!OnAck => Unresumed!OnAck
  BY Zenon DEF Plain!OnAck, Unresumed!OnAck, Plain!Incoming, Unresumed!Incoming, Plain!ApplyAck,
    Unresumed!ApplyAck, Plain!server, Unresumed!server, Plain!Buf!Ack, Unresumed!Buf!Ack, Plain!Close_,
    Unresumed!Close_, Plain!buffer, Unresumed!buffer, Plain!Null, Unresumed!Null
<1>12. Plain!WsFail => Unresumed!WsFail
  BY Zenon DEF Plain!WsFail, Unresumed!WsFail, Plain!buffer, Unresumed!buffer, Plain!server, Unresumed!server
<1>13. Plain!WsServerClosed => Unresumed!WsServerClosed
  BY Zenon DEF Plain!WsServerClosed, Unresumed!WsServerClosed, Plain!Incoming, Unresumed!Incoming, Plain!buffer,
    Unresumed!buffer, Plain!server, Unresumed!server
<1>14. Plain!WsCloseDone => Unresumed!WsCloseDone
  BY Zenon DEF Plain!WsCloseDone, Unresumed!WsCloseDone, Plain!buffer, Unresumed!buffer, Plain!server,
    Unresumed!server
<1>15. Plain!SrvReceive => Unresumed!SrvReceive
  BY Zenon DEF Plain!SrvReceive, Unresumed!SrvReceive, Plain!Bytes, Unresumed!Bytes, Plain!client,
    Unresumed!client, Plain!buffer, Unresumed!buffer
<1>16. Plain!SrvAck => Unresumed!SrvAck
  BY Zenon DEF Plain!SrvAck, Unresumed!SrvAck, Plain!Ack, Unresumed!Ack, Plain!client, Unresumed!client,
    Plain!buffer, Unresumed!buffer
<1>17. Plain!SrvReverseAck => Unresumed!SrvReverseAck
  BY Zenon DEF Plain!SrvReverseAck, Unresumed!SrvReverseAck, Plain!Ack, Unresumed!Ack, Plain!client,
    Unresumed!client, Plain!buffer, Unresumed!buffer
<1>18. Plain!SrvEnd => Unresumed!SrvEnd
  BY Zenon DEF Plain!SrvEnd, Unresumed!SrvEnd, Plain!CloseFrame, Unresumed!CloseFrame, Plain!client,
    Unresumed!client, Plain!buffer, Unresumed!buffer
<1>19. ASSUME NEW n PROVE Plain!Write(n) => Unresumed!Write(n)
  BY Zenon DEF Plain!Write, Unresumed!Write, Plain!SendWrite, Unresumed!SendWrite, Plain!server, Unresumed!server,
    Plain!Null, Unresumed!Null, Plain!Buf!Smaller, Unresumed!Buf!Smaller, Plain!Data, Unresumed!Data
<1>20. ASSUME NEW n PROVE Plain!SrvSend(n) => Unresumed!SrvSend(n)
  BY Zenon DEF Plain!SrvSend, Unresumed!SrvSend, Plain!Data, Unresumed!Data, Plain!client, Unresumed!client,
    Plain!buffer, Unresumed!buffer
<1> QED
  BY <1>1, <1>2, <1>3, <1>4, <1>5, <1>6, <1>7, <1>8, <1>9, <1>10,
     <1>11, <1>12, <1>13, <1>14, <1>15, <1>16, <1>17, <1>18, <1>19, <1>20, Zenon
  DEF Plain!Next, Unresumed!Next

(* It has what that module assumes.                                        *)
LEMMA UnresumedAssumptions == ~FALSE /\ Unresumed!ConstantsAssumption
BY PartsAssumption DEF Unresumed!ConstantsAssumption

(* The stream at first.                                                    *)
LEMMA UnresumedInit == Plain!Init => Unresumed!PipeInv
<1>1. Plain!Init => Unresumed!Init
  BY Zenon DEF Plain!Init, Unresumed!Init, Plain!Null, Unresumed!Null, Plain!Buf!Init, Unresumed!Buf!Init,
    Plain!NoAck, Unresumed!NoAck
<1> QED  BY <1>1, UnresumedAssumptions, Unresumed!PipeInit

(* Every step of it.                                                       *)
LEMMA UnresumedStep ==
  ASSUME Unresumed!PipeInv, [Plain!Next]_plainVars
  PROVE  Unresumed!PipeInv' /\ [Plain!Up!Next]_(Plain!Up!pipe)
<1>1. [Unresumed!Next]_(Unresumed!vars)
  <2>1. UNCHANGED plainVars => UNCHANGED Unresumed!vars
    BY Zenon DEF plainVars, Unresumed!vars, Unresumed!buffer, Unresumed!link, Unresumed!server
  <2> QED  BY <2>1, UnresumedSteps, Zenon
<1>2. Unresumed!PipeInv' /\ [Unresumed!Up!Next]_(Unresumed!Up!pipe)
  BY <1>1, UnresumedAssumptions, Unresumed!PipeStep
<1>3. [Unresumed!Up!Next]_(Unresumed!Up!pipe) => [Plain!Up!Next]_(Plain!Up!pipe)
  BY Zenon DEF Unresumed!Up!Next, Plain!Up!Next, Unresumed!Up!pipe, Plain!Up!pipe, Unresumed!Up!Put, Plain!Up!Put,
    Unresumed!Up!Get, Plain!Up!Get
<1> QED  BY <1>2, <1>3, Zenon

(* What that gives the run.                                                *)
LEMMA UnresumedReleased == Unresumed!PipeInv => Plain!TypeOK /\ Plain!ReleasedIsReceived
<1>1. Unresumed!PipeInv => Unresumed!TypeOK /\ Unresumed!ReleasedIsReceived
  BY UnresumedAssumptions, Unresumed!PipeReleased
<1>2. Unresumed!TypeOK => Plain!TypeOK
  BY Zenon DEF Plain!TypeOK, Unresumed!TypeOK, Plain!Null, Unresumed!Null, Plain!NoAck, Unresumed!NoAck,
    Plain!ServerPackets, Unresumed!ServerPackets, Plain!ClientPackets, Unresumed!ClientPackets,
    Plain!DataPackets, Unresumed!DataPackets, Plain!AckPackets, Unresumed!AckPackets,
    Plain!ConnectSuccess, Unresumed!ConnectSuccess, Plain!CloseFrame, Unresumed!CloseFrame
<1>3. Unresumed!ReleasedIsReceived => Plain!ReleasedIsReceived
  BY Zenon DEF Plain!ReleasedIsReceived, Unresumed!ReleasedIsReceived
<1> QED  BY <1>1, <1>2, <1>3, Zenon

-----------------------------------------------------------------------------
(* Websockify and SSH-FE streams: what is on its way continues what has    *)
(* arrived.                                                                *)

First(n) == [i \in 1..n |-> i]

(* The first n messages of q carry the bytes from + 1 .. to, each at least *)
(* one of them, cut where b says.                                          *)
Carries(q, n, from, to) ==
  \E b \in [0..n -> Nat] :
    /\ b[0] = from /\ b[n] = to
    /\ \A i, j \in 0..n : i < j => b[i] < b[j]
    /\ \A i \in 1..n : q[i].data = Simple!Positions(b[i - 1] + 1, b[i])

(* A message more carries the bytes that follow.                           *)
LEMMA CarriesMore ==
  ASSUME NEW S, NEW q \in Seq(S), NEW e \in S, NEW from \in Nat, NEW to \in Nat, NEW hi \in Nat,
         to < hi, e.data = Simple!Positions(to + 1, hi), Carries(q, Len(q), from, to)
  PROVE  Carries(Append(q, e), Len(Append(q, e)), from, hi)
<1> DEFINE n == Len(q)
           p == Append(q, e)
<1>1. /\ n \in Nat /\ Len(p) = n + 1 /\ p[n + 1] = e
      /\ \A i \in 1..n : p[i] = q[i]
  OBVIOUS
<1>2. PICK b \in [0..n -> Nat] :
        /\ b[0] = from /\ b[n] = to
        /\ \A i, j \in 0..n : i < j => b[i] < b[j]
        /\ \A i \in 1..n : q[i].data = Simple!Positions(b[i - 1] + 1, b[i])
  BY Zenon DEF Carries
<1> HIDE DEF n, p
<1> DEFINE c == [i \in 0..(n + 1) |-> IF i = n + 1 THEN hi ELSE b[i]]
<1>3. c \in [0..(n + 1) -> Nat]
  <2>1. ASSUME NEW i \in 0..(n + 1) PROVE (IF i = n + 1 THEN hi ELSE b[i]) \in Nat
    <3>1. i # n + 1 => i \in 0..n
      BY <1>1
    <3> QED  BY <1>2, <3>1
  <2> QED  BY <2>1, Zenon
<1>4. c[0] = from /\ c[n + 1] = hi
  BY <1>1, <1>2
<1>5. ASSUME NEW i \in 1..(n + 1)
      PROVE  p[i].data = Simple!Positions(c[i - 1] + 1, c[i])
  <2>1. CASE i = n + 1
    <3>1. c[i] = hi /\ c[i - 1] = to
      BY <1>1, <1>2, <2>1
    <3> HIDE DEF c
    <3> QED  BY <1>1, <2>1, <3>1
  <2>2. CASE i # n + 1
    <3>1. i \in 1..n /\ c[i] = b[i] /\ c[i - 1] = b[i - 1]
      BY <1>1, <2>2
    <3> HIDE DEF c
    <3> QED  BY <1>1, <1>2, <3>1
  <2> QED  BY <2>1, <2>2
<1>6. ASSUME NEW i \in 0..(n + 1), NEW j \in 0..(n + 1), i < j PROVE c[i] < c[j]
  <2>1. i \in 0..n /\ c[i] = b[i] /\ b[i] \in Nat /\ b[i] <= to
    <3>1. i \in 0..n /\ n \in 0..n
      BY <1>1, <1>6
    <3>2. b[i] \in Nat /\ (i = n \/ b[i] < b[n])
      BY <1>1, <1>2, <3>1
    <3> QED  BY <1>1, <1>2, <3>1, <3>2
  <2>2. CASE j = n + 1
    BY <1>1, <2>1, <2>2
  <2>3. CASE j # n + 1
    BY <1>1, <1>2, <1>6, <2>1, <2>3
  <2> QED  BY <2>2, <2>3
<1> HIDE DEF c
<1>7. Carries(p, n + 1, from, hi)
  BY <1>3, <1>4, <1>5, <1>6, Zenon DEF Carries
<1> QED  BY <1>1, <1>7 DEF p

(* The first message, added to what came before it, carries it on.         *)
LEMMA CarriesHead ==
  ASSUME NEW S, NEW q \in Seq(S), NEW n \in 1..Len(q), NEW from \in Nat, NEW to \in Nat,
         Carries(q, n, from, to)
  PROVE  \E mid \in Nat :
           /\ from < mid /\ mid <= to
           /\ Head(q).data = Simple!Positions(from + 1, mid)
           /\ Carries(Tail(q), n - 1, mid, to)
<1>1. PICK b \in [0..n -> Nat] :
        /\ b[0] = from /\ b[n] = to
        /\ \A i, j \in 0..n : i < j => b[i] < b[j]
        /\ \A i \in 1..n : q[i].data = Simple!Positions(b[i - 1] + 1, b[i])
  BY Zenon DEF Carries
<1> DEFINE mid == b[1]
           c == [i \in 0..(n - 1) |-> b[i + 1]]
           p == Tail(q)
<1>2. q # <<>> /\ n \in Nat /\ 1 \in 1..n /\ Head(q) = q[1]
  BY TailProperties
<1>3. mid \in Nat /\ from < mid /\ mid <= to /\ Head(q).data = Simple!Positions(from + 1, mid)
  BY <1>1, <1>2
<1>4. \A i \in 1..(n - 1) : p[i] = q[i + 1]
  BY <1>2, TailProperties
<1> HIDE DEF mid, p
<1>6. c \in [0..(n - 1) -> Nat]
  BY <1>1, <1>2
<1>7. c[0] = mid /\ c[n - 1] = to
  BY <1>1, <1>2 DEF mid
<1>8. ASSUME NEW i \in 1..(n - 1)
      PROVE  p[i].data = Simple!Positions(c[i - 1] + 1, c[i])
  <2>1. c[i - 1] = b[i] /\ c[i] = b[i + 1] /\ i + 1 \in 1..n /\ (i + 1) - 1 = i
    BY <1>2
  <2> HIDE DEF c
  <2> QED  BY <1>1, <1>4, <2>1
<1>5. ASSUME NEW i \in 0..(n - 1), NEW j \in 0..(n - 1), i < j PROVE c[i] < c[j]
  <2>1. i + 1 \in 0..n /\ j + 1 \in 0..n /\ i + 1 < j + 1 /\ c[i] = b[i + 1] /\ c[j] = b[j + 1]
    BY <1>2, <1>5
  <2> HIDE DEF c
  <2> QED  BY <1>1, <2>1
<1> HIDE DEF c
<1>9. Carries(p, n - 1, mid, to)
  BY <1>5, <1>6, <1>7, <1>8, Zenon DEF Carries
<1> QED  BY <1>3, <1>9 DEF p

(* Bytes from a + 1 to b are what comes after the first a.                 *)
LEMMA FirstMore ==
  ASSUME NEW a \in Nat, NEW b \in Nat, a <= b
  PROVE  /\ Simple!Positions(a + 1, b) \in Seq(Nat)
         /\ Len(Simple!Positions(a + 1, b)) = b - a
         /\ First(a) \o Simple!Positions(a + 1, b) = First(b)
<1> DEFINE d == Simple!Positions(a + 1, b)
           p == First(a) \o d
           q == First(b)
<1>1. /\ d \in Seq(Nat) /\ Len(d) = b - a /\ \A i \in 1..(b - a) : d[i] = a + i
      /\ First(a) \in Seq(Nat) /\ Len(First(a)) = a /\ \A i \in 1..a : First(a)[i] = i
      /\ q \in Seq(Nat) /\ Len(q) = b /\ \A i \in 1..b : q[i] = i
  BY DEF Simple!Positions, First
<1> HIDE DEF d, q
<1>2. p \in Seq(Nat) /\ Len(p) = b
  BY <1>1, ConcatProperties
<1>3. ASSUME NEW i \in 1..Len(p) PROVE p[i] = q[i]
  <2>1. i \in 1..(Len(First(a)) + Len(d)) /\ i \in 1..b
    BY <1>1, <1>2
  <2>2. p[i] = IF i <= a THEN First(a)[i] ELSE d[i - a]
    BY <1>1, <2>1, ConcatProperties
  <2> HIDE DEF p
  <2> QED  BY <1>1, <2>1, <2>2
<1> HIDE DEF p
<1>4. p = q
  BY <1>1, <1>2, <1>3, SameElements
<1> QED  BY <1>1, <1>4 DEF p, q, d

-----------------------------------------------------------------------------
ToRelay == [ack : Nat, data : Seq(Nat)]
ToClient == [is : {"data"}, data : Seq(Nat)] \cup [is : {"error", "close"}]

(* Before the connection is up nothing is sent, and after it has ended     *)
(* nothing is on its way.                                                  *)
SimpleLife ==
  /\ simpleOpen # "connected" => simpleWs = "NONE" /\ simpleSocket = Simple!Null
  /\ simpleWs \in {"NONE", "CONNECTING"} => simpleSent = 0 /\ simpleSrvRecv = <<>>
  /\ simpleWs \notin {"OPEN", "CLOSING"} => simpleUp = <<>>
  /\ simpleWs # "OPEN" => simpleDown = <<>>
  /\ simpleWs \in {"NONE", "CONNECTING"} => simpleDelivered = <<>> /\ simpleSrvProduced = 0

(* What has arrived is the first bytes, and while there is a connection    *)
(* the bytes after them, up to the last one sent, are on their way.        *)
SimpleUpward ==
  /\ simpleSrvRecv = First(Len(simpleSrvRecv)) /\ Len(simpleSrvRecv) <= simpleSent
  /\ simpleWs \in {"OPEN", "CLOSING"} =>
       Carries(simpleUp, Len(simpleUp), Len(simpleSrvRecv), simpleSent)

(* The same downstream, where an error or the relay's close may follow.    *)
SimpleDownward ==
  /\ simpleDelivered = First(Len(simpleDelivered)) /\ Len(simpleDelivered) <= simpleSrvProduced
  /\ simpleWs = "OPEN" =>
       \E n \in 0..Len(simpleDown) :
         /\ \A i \in 1..Len(simpleDown) : simpleDown[i].is = "data" <=> i <= n
         /\ Carries(simpleDown, n, Len(simpleDelivered), simpleSrvProduced)

SimpleTypes ==
  /\ Simple!TypeOK
  /\ simpleUp \in Seq(ToRelay) /\ simpleDown \in Seq(ToClient)
  /\ simpleSrvRecv \in Seq(Nat) /\ simpleDelivered \in Seq(Nat) /\ simpleSrvProduced \in Nat

SimpleInv == SimpleTypes /\ SimpleLife /\ SimpleUpward /\ SimpleDownward

(* No messages carry no bytes.                                             *)
LEMMA CarriesNothing == \A q : \A a \in Nat : Carries(q, 0, a, a)
<1> SUFFICES ASSUME NEW q, NEW a \in Nat PROVE Carries(q, 0, a, a)
  OBVIOUS
<1> DEFINE b == [i \in 0..0 |-> a]
<1>1. b \in [0..0 -> Nat] /\ b[0] = a /\ \A i, j \in 0..0 : ~(i < j)
  OBVIOUS
<1>2. \A i \in 1..0 : FALSE
  OBVIOUS
<1> HIDE DEF b
<1> QED  BY <1>1, <1>2, Zenon DEF Carries

(* A stream that has not been opened.                                      *)
LEMMA SimpleInit == Simple!Init => SimpleInv
<1> SUFFICES ASSUME Simple!Init PROVE SimpleInv
  OBVIOUS
<1> USE DEF Simple!Init, Simple!Null
<1>1. SimpleTypes
  BY PartsAssumption DEF SimpleTypes, Simple!TypeOK
<1>2. SimpleLife
  BY DEF SimpleLife
<1>3. <<>> = First(0) /\ Len(<<>>) = 0
  BY DEF First
<1>4. SimpleUpward /\ SimpleDownward
  BY <1>3 DEF SimpleUpward, SimpleDownward
<1> QED  BY <1>1, <1>2, <1>4 DEF SimpleInv

(* sendWrite_ sends the next bytes of the buffer, once the connection is   *)
(* up, or nothing.                                                         *)
LEMMA SimpleSendWrite ==
  ASSUME SimpleInv, NEW w \in Nat, simpleSent <= w, NEW t \in Nat, Simple!SendWrite(w, t)
  PROVE  /\ simpleSent' \in Nat /\ simpleSent <= simpleSent' /\ simpleSent' <= w
         /\ simpleTimers' \in Nat /\ simpleUp' \in Seq(ToRelay)
         /\ simpleWs # "OPEN" => UNCHANGED <<simpleSent, simpleUp>>
         /\ simpleWs = "OPEN" => Carries(simpleUp', Len(simpleUp'), Len(simpleSrvRecv), simpleSent')
<1> DEFINE hi == IF simpleSent + SimpleMaxMessage < w THEN simpleSent + SimpleMaxMessage ELSE w
           m == [ack |-> IF simpleRelay = "ssh-fe" THEN simpleReadCount ELSE 0,
                 data |-> Simple!Positions(simpleSent + 1, hi)]
<1>0. /\ simpleSent \in Nat /\ simpleReadCount \in Nat /\ SimpleMaxMessage \in Nat /\ SimpleMaxMessage > 0
      /\ simpleUp \in Seq(ToRelay) /\ Len(simpleSrvRecv) \in Nat
      /\ simpleWs = "OPEN" => Carries(simpleUp, Len(simpleUp), Len(simpleSrvRecv), simpleSent)
  BY PartsAssumption DEF SimpleInv, SimpleTypes, Simple!TypeOK, SimpleUpward
<1>1. hi \in Nat /\ hi <= w /\ simpleSent <= hi /\ (simpleSent # w => simpleSent < hi)
  BY <1>0
<1>2. m \in ToRelay /\ m.data = Simple!Positions(simpleSent + 1, hi)
  <2>1. Simple!Positions(simpleSent + 1, hi) \in Seq(Nat)
    BY <1>0, <1>1, FirstMore
  <2> QED  BY <1>0, <2>1 DEF ToRelay
<1>3. \/ /\ UNCHANGED <<simpleSent, simpleUp>> /\ simpleTimers' \in {t, t + 1}
      \/ /\ simpleSent # w /\ simpleWs = "OPEN"
         /\ simpleUp' = Append(simpleUp, m) /\ simpleSent' = hi /\ simpleTimers' \in {t, t + 1}
  BY DEF Simple!SendWrite
<1> HIDE DEF hi, m
<1>4. CASE UNCHANGED <<simpleSent, simpleUp>> /\ simpleTimers' \in {t, t + 1}
  BY <1>0, <1>4
<1>5. CASE /\ simpleSent # w /\ simpleWs = "OPEN"
           /\ simpleUp' = Append(simpleUp, m) /\ simpleSent' = hi /\ simpleTimers' \in {t, t + 1}
  <2>1. Carries(simpleUp', Len(simpleUp'), Len(simpleSrvRecv), simpleSent')
    BY <1>0, <1>1, <1>2, <1>5, CarriesMore
  <2> QED  BY <1>0, <1>1, <1>2, <1>5, <2>1
<1> QED  BY <1>3, <1>4, <1>5

(* write() and its timer keep the invariant.                               *)
LEMMA SimpleWriteStep ==
  ASSUME SimpleInv,
         (\E n \in 1..SimpleMaxUp : Simple!Write(n)) \/ Simple!OnSendTimer
  PROVE  SimpleInv'
<1> USE DEF Simple!server
<1>0. SimpleTypes /\ SimpleLife /\ SimpleUpward /\ SimpleDownward /\ SimpleMaxUp \in Nat
  BY PartsAssumption DEF SimpleInv
<1>1. PICK w \in Nat, t \in Nat :
        /\ simpleWritten <= w /\ w <= SimpleMaxUp /\ simpleWritten' = w /\ Simple!SendWrite(w, t)
  <2>1. CASE \E n \in 1..SimpleMaxUp : Simple!Write(n)
    <3>1. PICK n \in 1..SimpleMaxUp : Simple!Write(n)
      BY <2>1
    <3> DEFINE w == simpleWritten + n
    <3>2. w \in Nat /\ simpleWritten <= w /\ w <= SimpleMaxUp /\ simpleTimers \in Nat
      BY <1>0, <3>1 DEF Simple!Write, SimpleTypes, Simple!TypeOK
    <3>3. simpleWritten' = w /\ Simple!SendWrite(w, simpleTimers)
      BY <3>1 DEF Simple!Write
    <3> HIDE DEF w
    <3> QED  BY <3>2, <3>3, Zenon
  <2>2. CASE Simple!OnSendTimer
    <3>1. simpleWritten \in Nat /\ simpleWritten <= SimpleMaxUp /\ simpleTimers - 1 \in Nat
      BY <1>0, <2>2 DEF Simple!OnSendTimer, SimpleTypes, Simple!TypeOK
    <3>2. simpleWritten' = simpleWritten /\ Simple!SendWrite(simpleWritten, simpleTimers - 1)
      BY <2>2 DEF Simple!OnSendTimer
    <3> QED  BY <3>1, <3>2
  <2> QED  BY <2>1, <2>2
<1>2. UNCHANGED <<simpleRelay, simpleOpen, callback_, simpleSocket, simpleWs, simpleEvents, simpleReadCount,
                  simpleDown, simpleDelivered, simpleSrvRecv, simpleSrvProduced>>
  BY DEF Simple!Write, Simple!OnSendTimer
<1>3. simpleSent \in Nat /\ simpleSent <= w /\ Len(simpleSrvRecv) \in Nat
  BY <1>0, <1>1 DEF SimpleTypes, Simple!TypeOK
<1>4. /\ simpleSent' \in Nat /\ simpleSent <= simpleSent' /\ simpleSent' <= w
      /\ simpleTimers' \in Nat /\ simpleUp' \in Seq(ToRelay)
      /\ simpleWs # "OPEN" => UNCHANGED <<simpleSent, simpleUp>>
      /\ simpleWs = "OPEN" => Carries(simpleUp', Len(simpleUp'), Len(simpleSrvRecv), simpleSent')
  BY <1>1, <1>3, SimpleSendWrite
<1>5. SimpleTypes'
  BY <1>0, <1>1, <1>2, <1>3, <1>4 DEF SimpleTypes, Simple!TypeOK
<1>6. SimpleLife'
  BY <1>0, <1>2, <1>4 DEF SimpleLife
<1>7. SimpleUpward'
  <2>1. simpleSrvRecv' = First(Len(simpleSrvRecv')) /\ Len(simpleSrvRecv') <= simpleSent'
    BY <1>0, <1>2, <1>3, <1>4 DEF SimpleUpward
  <2>2. simpleWs' \in {"OPEN", "CLOSING"} => Carries(simpleUp', Len(simpleUp'), Len(simpleSrvRecv'), simpleSent')
    BY <1>0, <1>2, <1>4, Zenon DEF SimpleUpward
  <2> QED  BY <2>1, <2>2 DEF SimpleUpward
<1>8. SimpleDownward'
  BY <1>0, <1>2, Zenon DEF SimpleDownward
<1> QED  BY <1>5, <1>6, <1>7, <1>8 DEF SimpleInv

(* So does a message of the stream's that reaches the relay.               *)
LEMMA SimpleReceiveStep ==
  ASSUME SimpleInv, Simple!SrvReceive
  PROVE  SimpleInv' /\ Len(simpleSrvRecv) < Len(simpleSrvRecv')
<1> USE DEF Simple!stream, Simple!SrvReceive
<1>0. SimpleTypes /\ SimpleLife /\ SimpleUpward /\ SimpleDownward
  BY DEF SimpleInv
<1>1. UNCHANGED <<simpleRelay, simpleOpen, callback_, simpleSocket, simpleWs, simpleEvents, simpleTimers, simpleWritten,
                  simpleSent, simpleReadCount, simpleDown, simpleDelivered, simpleSrvProduced>>
      /\ simpleWs \in {"OPEN", "CLOSING"} /\ simpleUp # <<>>
      /\ simpleSrvRecv' = simpleSrvRecv \o Head(simpleUp).data /\ simpleUp' = Tail(simpleUp)
  OBVIOUS
<1>2. /\ simpleUp \in Seq(ToRelay) /\ Len(simpleSrvRecv) \in Nat /\ simpleSent \in Nat
      /\ Len(simpleUp) \in 1..Len(simpleUp) /\ Len(Tail(simpleUp)) = Len(simpleUp) - 1
      /\ Tail(simpleUp) \in Seq(ToRelay)
  BY <1>0, <1>1 DEF SimpleTypes, Simple!TypeOK
<1>3. Carries(simpleUp, Len(simpleUp), Len(simpleSrvRecv), simpleSent)
  BY <1>0, <1>1 DEF SimpleUpward
<1>4. PICK mid \in Nat :
        /\ Len(simpleSrvRecv) < mid /\ mid <= simpleSent
        /\ Head(simpleUp).data = Simple!Positions(Len(simpleSrvRecv) + 1, mid)
        /\ Carries(Tail(simpleUp), Len(simpleUp) - 1, mid, simpleSent)
  BY <1>2, <1>3, CarriesHead
<1>5. simpleSrvRecv' = First(mid)
  <2>1. simpleSrvRecv = First(Len(simpleSrvRecv))
    BY <1>0 DEF SimpleUpward
  <2>2. First(Len(simpleSrvRecv)) \o Simple!Positions(Len(simpleSrvRecv) + 1, mid) = First(mid)
    <3>1. Len(simpleSrvRecv) <= mid
      BY <1>2, <1>4
    <3> QED  BY <1>2, <3>1, FirstMore
  <2> QED  BY <1>1, <1>4, <2>1, <2>2
<1>6. First(mid) \in Seq(Nat) /\ Len(First(mid)) = mid
  BY DEF First
<1>7. SimpleTypes'
  BY <1>0, <1>1, <1>2, <1>5, <1>6 DEF SimpleTypes, Simple!TypeOK
<1>8. SimpleLife'
  BY <1>0, <1>1 DEF SimpleLife
<1>9. SimpleUpward'
  <2>1. Carries(simpleUp', Len(simpleUp'), Len(simpleSrvRecv'), simpleSent')
    BY <1>1, <1>2, <1>4, <1>5, <1>6
  <2>2. simpleSrvRecv' = First(Len(simpleSrvRecv')) /\ Len(simpleSrvRecv') <= simpleSent'
    BY <1>1, <1>4, <1>5, <1>6
  <2> QED  BY <2>1, <2>2 DEF SimpleUpward
<1>10. SimpleDownward'
  BY <1>0, <1>1, Zenon DEF SimpleDownward
<1>11. Len(simpleSrvRecv) < Len(simpleSrvRecv')
  BY <1>4, <1>5, <1>6
<1> QED  BY <1>7, <1>8, <1>9, <1>10, <1>11 DEF SimpleInv

(* So does a message of the relay's that reaches the stream.               *)
LEMMA SimpleDataStep ==
  ASSUME SimpleInv, Simple!OnSocketData
  PROVE  SimpleInv' /\ Len(simpleDelivered) < Len(simpleDelivered')
<1> USE DEF Simple!server, Simple!OnSocketData
<1>0. SimpleTypes /\ SimpleLife /\ SimpleUpward /\ SimpleDownward
  BY DEF SimpleInv
<1>1. UNCHANGED <<simpleRelay, simpleOpen, callback_, simpleSocket, simpleWs, simpleEvents, simpleTimers, simpleWritten,
                  simpleSent, simpleUp, simpleSrvRecv, simpleSrvProduced>>
      /\ simpleWs = "OPEN" /\ simpleDown # <<>> /\ Head(simpleDown).is = "data"
      /\ simpleDelivered' = simpleDelivered \o Head(simpleDown).data /\ simpleDown' = Tail(simpleDown)
  OBVIOUS
<1>2. /\ simpleDown \in Seq(ToClient) /\ Len(simpleDelivered) \in Nat /\ simpleSrvProduced \in Nat
      /\ Len(simpleDown) \in Nat /\ 1 \in 1..Len(simpleDown) /\ Head(simpleDown) = simpleDown[1]
      /\ Tail(simpleDown) \in Seq(ToClient) /\ Len(Tail(simpleDown)) = Len(simpleDown) - 1
      /\ \A i \in 1..(Len(simpleDown) - 1) : Tail(simpleDown)[i] = simpleDown[i + 1]
  BY <1>0, <1>1 DEF SimpleTypes
<1>3. PICK n \in 0..Len(simpleDown) :
        /\ \A i \in 1..Len(simpleDown) : simpleDown[i].is = "data" <=> i <= n
        /\ Carries(simpleDown, n, Len(simpleDelivered), simpleSrvProduced)
  BY <1>0, <1>1, Zenon DEF SimpleDownward
<1>4. n \in 1..Len(simpleDown)
  BY <1>1, <1>2, <1>3
<1>5. PICK mid \in Nat :
        /\ Len(simpleDelivered) < mid /\ mid <= simpleSrvProduced
        /\ Head(simpleDown).data = Simple!Positions(Len(simpleDelivered) + 1, mid)
        /\ Carries(Tail(simpleDown), n - 1, mid, simpleSrvProduced)
  BY <1>2, <1>3, <1>4, CarriesHead
<1>6. simpleDelivered' = First(mid)
  <2>1. simpleDelivered = First(Len(simpleDelivered)) /\ Len(simpleDelivered) <= mid
    BY <1>0, <1>2, <1>5 DEF SimpleUpward, SimpleDownward
  <2>2. First(Len(simpleDelivered)) \o Simple!Positions(Len(simpleDelivered) + 1, mid) = First(mid)
    BY <1>2, <2>1, FirstMore
  <2> QED  BY <1>1, <1>5, <2>1, <2>2
<1>7. First(mid) \in Seq(Nat) /\ Len(First(mid)) = mid
  BY DEF First
<1>8. simpleReadCount' \in 0..SimpleWrap-1
  <2>1. simpleReadCount \in 0..SimpleWrap-1 /\ SimpleWrap \in Nat /\ SimpleWrap > 0
    BY <1>0, PartsAssumption DEF SimpleTypes, Simple!TypeOK
  <2>2. Len(Head(simpleDown).data) \in Nat
    <3>1. Len(simpleDelivered) <= mid /\ mid - Len(simpleDelivered) \in Nat
      BY <1>2, <1>5
    <3> QED  BY <1>2, <1>5, <3>1, FirstMore
  <2>3. simpleReadCount' \in {simpleReadCount, (simpleReadCount + Len(Head(simpleDown).data)) % SimpleWrap}
    BY DEF Simple!OnSocketData
  <2>4. \A r, l, w \in Nat : w > 0 => (r + l) % w \in 0..w-1
    OBVIOUS
  <2>5. (simpleReadCount + Len(Head(simpleDown).data)) % SimpleWrap \in 0..SimpleWrap-1
    <3>1. simpleReadCount \in Nat
      BY <2>1
    <3> QED  BY <2>1, <2>2, <2>4, <3>1, Zenon
  <2> QED  BY <2>1, <2>3, <2>5, Zenon
<1>9. SimpleTypes'
  BY <1>0, <1>1, <1>2, <1>6, <1>7, <1>8 DEF SimpleTypes, Simple!TypeOK
<1>10. SimpleLife'
  BY <1>0, <1>1 DEF SimpleLife
<1>11. SimpleUpward'
  BY <1>0, <1>1, Zenon DEF SimpleUpward
<1>12. SimpleDownward'
  <2>1. simpleDelivered' = First(Len(simpleDelivered')) /\ Len(simpleDelivered') <= simpleSrvProduced'
    BY <1>1, <1>5, <1>6, <1>7
  <2>2. n - 1 \in 0..Len(simpleDown')
    BY <1>1, <1>2, <1>4
  <2>3. \A i \in 1..Len(simpleDown') : simpleDown'[i].is = "data" <=> i <= n - 1
    BY <1>1, <1>2, <1>3, <1>4
  <2>4. Carries(simpleDown', n - 1, Len(simpleDelivered'), simpleSrvProduced')
    BY <1>1, <1>5, <1>6, <1>7
  <2> QED  BY <2>1, <2>2, <2>3, <2>4, Zenon DEF SimpleDownward
<1>13. Len(simpleDelivered) < Len(simpleDelivered')
  BY <1>5, <1>6, <1>7
<1> QED  BY <1>9, <1>10, <1>11, <1>12, <1>13 DEF SimpleInv

(* So does the relay when it sends.                                        *)
LEMMA SimpleSrvStep ==
  ASSUME SimpleInv,
         (\E n \in 1..SimpleMaxMessage : Simple!SrvSend(n)) \/ Simple!SrvError \/ Simple!SrvEnd
  PROVE  SimpleInv'
<1>0. SimpleTypes /\ SimpleLife /\ SimpleUpward /\ SimpleDownward
  BY DEF SimpleInv
<1>1. UNCHANGED <<simpleRelay, simpleOpen, callback_, simpleSocket, simpleWs, simpleEvents, simpleTimers, simpleWritten,
                  simpleSent, simpleReadCount, simpleUp, simpleDelivered, simpleSrvRecv>>
      /\ simpleWs = "OPEN" /\ \A i \in DOMAIN simpleDown : simpleDown[i].is = "data"
  BY DEF Simple!stream, Simple!SrvSend, Simple!SrvError, Simple!SrvEnd, Simple!Sends
<1>2. /\ simpleDown \in Seq(ToClient) /\ Len(simpleDelivered) \in Nat /\ simpleSrvProduced \in Nat
      /\ Len(simpleDown) \in Nat /\ DOMAIN simpleDown = 1..Len(simpleDown)
  BY <1>0 DEF SimpleTypes
<1>10. Len(simpleDown) \in Nat
  BY <1>2
<1>3. Carries(simpleDown, Len(simpleDown), Len(simpleDelivered), simpleSrvProduced)
  <2>1. PICK n \in 0..Len(simpleDown) :
          /\ \A i \in 1..Len(simpleDown) : simpleDown[i].is = "data" <=> i <= n
          /\ Carries(simpleDown, n, Len(simpleDelivered), simpleSrvProduced)
    BY <1>0, <1>1, Zenon DEF SimpleDownward
  <2>2. n = Len(simpleDown)
    <3>1. CASE Len(simpleDown) = 0
      BY <1>2, <2>1, <3>1
    <3>2. CASE Len(simpleDown) # 0
      <4>1. Len(simpleDown) \in 1..Len(simpleDown)
        BY <1>10, <3>2
      <4>2. Len(simpleDown) <= n
        BY <1>1, <1>2, <2>1, <4>1, Zenon
      <4> QED  BY <1>10, <4>2
    <3> QED  BY <3>1, <3>2
  <2> QED  BY <2>1, <2>2
<1>4. PICK m \in ToClient, hi \in Nat, n \in 0..(Len(simpleDown) + 1) :
        /\ simpleDown' = Append(simpleDown, m) /\ simpleSrvProduced' = hi /\ simpleSrvProduced <= hi
        /\ m.is = "data" <=> n = Len(simpleDown) + 1
        /\ n \in {Len(simpleDown), Len(simpleDown) + 1}
        /\ Carries(Append(simpleDown, m), n, Len(simpleDelivered), hi)
  <2>1. CASE \E n \in 1..SimpleMaxMessage : Simple!SrvSend(n)
    <3>1. PICK n \in 1..SimpleMaxMessage : Simple!SrvSend(n)
      BY <2>1
    <3> DEFINE hi == simpleSrvProduced + n
               d == Simple!Positions(simpleSrvProduced + 1, hi)
               m == [is |-> "data", data |-> d]
    <3>2. hi \in Nat /\ simpleSrvProduced < hi
      BY <1>2, <3>1, PartsAssumption
    <3>3. simpleDown' = Append(simpleDown, m) /\ simpleSrvProduced' = hi
      BY <3>1 DEF Simple!SrvSend, Simple!Sends
    <3>4. m \in ToClient /\ m.is = "data" /\ m.data = d
      <4>1. d \in Seq(Nat)
        <5>1. simpleSrvProduced \in Nat /\ simpleSrvProduced <= hi
          BY <1>2, <3>2
        <5> HIDE DEF hi
        <5> QED  BY <3>2, <5>1, FirstMore
      <4> HIDE DEF d
      <4> QED  BY <4>1 DEF ToClient
    <3> HIDE DEF hi, m
    <3>5. Carries(Append(simpleDown, m), Len(Append(simpleDown, m)), Len(simpleDelivered), hi)
      BY <1>2, <1>3, <3>2, <3>4, CarriesMore
    <3>6. Len(Append(simpleDown, m)) = Len(simpleDown) + 1
      BY <1>2, <3>4, AppendProperties
    <3>7. Len(simpleDown) + 1 \in 0..(Len(simpleDown) + 1) /\ simpleSrvProduced <= hi
      BY <1>10, <1>2, <3>2
    <3> QED  BY <3>2, <3>3, <3>4, <3>5, <3>6, <3>7, Zenon
  <2>2. CASE Simple!SrvError \/ Simple!SrvEnd
    <3>1. PICK m \in [is : {"error", "close"}] : simpleDown' = Append(simpleDown, m) /\ UNCHANGED simpleSrvProduced
      BY <2>2 DEF Simple!SrvError, Simple!SrvEnd, Simple!Sends
    <3>2. m \in ToClient /\ m.is # "data"
      BY <3>1 DEF ToClient
    <3>3. Carries(Append(simpleDown, m), Len(simpleDown), Len(simpleDelivered), simpleSrvProduced)
      <4>1. \A i \in 1..Len(simpleDown) : Append(simpleDown, m)[i] = simpleDown[i]
        BY <1>2, <3>2, AppendProperties
      <4> QED  BY <1>3, <4>1, Zenon DEF Carries
    <3>4. Len(simpleDown) \in 0..(Len(simpleDown) + 1) /\ Len(simpleDown) # Len(simpleDown) + 1
      BY <1>10
    <3>5. simpleSrvProduced <= simpleSrvProduced
      BY <1>2
    <3> QED  BY <1>2, <3>1, <3>2, <3>3, <3>4, <3>5, Zenon
  <2> QED  BY <2>1, <2>2
<1>5. /\ simpleDown' \in Seq(ToClient) /\ Len(simpleDown') = Len(simpleDown) + 1
      /\ \A i \in 1..Len(simpleDown) : simpleDown'[i] = simpleDown[i]
      /\ simpleDown'[Len(simpleDown) + 1] = m
  BY <1>2, <1>4, AppendProperties
<1>6. SimpleTypes'
  BY <1>0, <1>1, <1>4, <1>5 DEF SimpleTypes, Simple!TypeOK
<1>7. SimpleLife'
  BY <1>0, <1>1 DEF SimpleLife
<1>8. SimpleUpward'
  BY <1>0, <1>1, Zenon DEF SimpleUpward
<1>9. SimpleDownward'
  <2>1. simpleDelivered' = First(Len(simpleDelivered')) /\ Len(simpleDelivered') <= simpleSrvProduced'
    <3>1. simpleDelivered = First(Len(simpleDelivered)) /\ Len(simpleDelivered) <= simpleSrvProduced
      BY <1>0 DEF SimpleDownward
    <3>2. Len(simpleDelivered) <= hi /\ UNCHANGED simpleDelivered /\ simpleSrvProduced' = hi
      <4>1. simpleSrvProduced <= hi /\ simpleSrvProduced' = hi
        BY <1>4
      <4> QED  BY <1>1, <1>2, <3>1, <4>1
    <3> QED  BY <3>1, <3>2
  <2>2. n \in 0..Len(simpleDown')
    BY <1>4, <1>5
  <2>3. ASSUME NEW i \in 1..Len(simpleDown') PROVE simpleDown'[i].is = "data" <=> i <= n
    <3>1. CASE i = Len(simpleDown) + 1
      <4>1. simpleDown'[i] = m
        BY <1>5, <3>1
      <4>2. i <= n <=> n = Len(simpleDown) + 1
        BY <1>4, <1>10, <3>1
      <4> QED  BY <1>4, <4>1, <4>2, Zenon
    <3>2. CASE i # Len(simpleDown) + 1
      <4>1. i \in 1..Len(simpleDown) /\ i <= n
        BY <1>4, <1>5, <1>10, <3>2
      <4>2. simpleDown'[i].is = "data"
        BY <1>1, <1>2, <1>5, <4>1, Zenon
      <4> QED  BY <4>1, <4>2, Zenon
    <3> QED  BY <3>1, <3>2
  <2>4. Carries(simpleDown', n, Len(simpleDelivered'), simpleSrvProduced')
    BY <1>1, <1>4
  <2> QED  BY <2>1, <2>2, <2>3, <2>4, Zenon DEF SimpleDownward
<1> QED  BY <1>6, <1>7, <1>8, <1>9 DEF SimpleInv

(* So do open(), close() and a connection that comes up.                   *)
LEMMA SimpleOpenStep ==
  ASSUME SimpleInv,
         \/ Simple!Connect \/ Simple!ChallengeGoesOn \/ Simple!ChallengeFails \/ Simple!Close
         \/ Simple!OnSocketOpen
  PROVE  SimpleInv'
<1>0. SimpleTypes /\ SimpleLife /\ SimpleUpward /\ SimpleDownward
  BY DEF SimpleInv
<1>1. UNCHANGED <<simpleRelay, simpleEvents, simpleWritten, simpleSent, simpleReadCount, simpleUp, simpleDown,
                  simpleDelivered, simpleSrvRecv, simpleSrvProduced>>
  BY DEF Simple!Connect, Simple!ChallengeGoesOn, Simple!ChallengeFails, Simple!Close, Simple!OnSocketOpen,
     Simple!server
<1>2. \/ UNCHANGED simpleWs
      \/ simpleWs = "NONE" /\ simpleWs' = "CONNECTING" /\ simpleOpen' = "connected"
      \/ simpleWs = "CONNECTING" /\ simpleWs' = "OPEN"
  BY <1>0 DEF Simple!Connect, Simple!ChallengeGoesOn, Simple!ChallengeFails, Simple!Close, Simple!OnSocketOpen,
     Simple!Connect_, SimpleLife
<1>3. SimpleTypes'
  BY <1>0, <1>1 DEF Simple!Connect, Simple!ChallengeGoesOn, Simple!ChallengeFails, Simple!Close,
     Simple!OnSocketOpen, Simple!Connect_, SimpleTypes, Simple!TypeOK, Simple!Null
<1>4. SimpleLife'
  BY <1>0, <1>1 DEF Simple!Connect, Simple!ChallengeGoesOn, Simple!ChallengeFails, Simple!Close,
     Simple!OnSocketOpen, Simple!Connect_, SimpleLife, Simple!Null
<1>5. CASE UNCHANGED simpleWs
  BY <1>0, <1>1, <1>3, <1>4, <1>5, Zenon DEF SimpleUpward, SimpleDownward, SimpleInv
<1>6. CASE simpleWs = "NONE" /\ simpleWs' = "CONNECTING"
  BY <1>0, <1>1, <1>3, <1>4, <1>6 DEF SimpleUpward, SimpleDownward, SimpleInv
<1>7. CASE simpleWs = "CONNECTING" /\ simpleWs' = "OPEN"
  <2>1. /\ simpleSent = 0 /\ simpleSrvRecv = <<>> /\ simpleUp = <<>> /\ simpleDown = <<>>
        /\ simpleDelivered = <<>> /\ simpleSrvProduced = 0
    BY <1>0, <1>7 DEF SimpleLife
  <2>2. Len(<<>>) = 0 /\ 0 \in 0..0 /\ 0 \in Nat /\ \A i \in 1..0 : FALSE
    OBVIOUS
  <2>3. Carries(<<>>, 0, 0, 0)
    BY <2>2, CarriesNothing
  <2>4. SimpleUpward'
    BY <1>0, <1>1, <2>1, <2>2, <2>3, Zenon DEF SimpleUpward
  <2>5. SimpleDownward'
    BY <1>0, <1>1, <2>1, <2>2, <2>3, Zenon DEF SimpleDownward
  <2> QED  BY <1>3, <1>4, <2>4, <2>5 DEF SimpleInv
<1> QED  BY <1>2, <1>5, <1>6, <1>7

(* So does a connection that is closed or fails: what is on its way up     *)
(* arrives until it has ended, and what is on its way down never does.     *)
LEMMA SimpleEndStep ==
  ASSUME SimpleInv,
         \/ Simple!OnSocketEvent \/ Simple!OnSocketDataError
         \/ Simple!WsFail \/ Simple!WsServerClosed \/ Simple!WsCloseDone
  PROVE  SimpleInv'
<1> USE DEF Simple!server, Simple!stream
<1>0. SimpleTypes /\ SimpleLife /\ SimpleUpward /\ SimpleDownward
  BY DEF SimpleInv
<1>1. /\ UNCHANGED <<simpleRelay, simpleOpen, simpleTimers, simpleWritten, simpleSent, simpleReadCount,
                     simpleDelivered, simpleSrvRecv, simpleSrvProduced>>
      /\ simpleSocket' \in {simpleSocket, Simple!Null} /\ callback_' \in {callback_, Simple!Null}
  BY DEF Simple!OnSocketEvent, Simple!OnSocketDataError, Simple!Close_, Simple!WsFail, Simple!WsServerClosed,
     Simple!WsCloseDone, Simple!WsEnds
<1>2. \/ UNCHANGED <<simpleWs, simpleUp, simpleDown>>
      \/ /\ simpleSocket # Simple!Null /\ simpleWs # "CLOSED" /\ simpleWs' = "CLOSING"
         /\ UNCHANGED simpleUp /\ simpleDown' = <<>>
      \/ simpleWs # "NONE" /\ simpleWs' = "CLOSED" /\ simpleUp' = <<>> /\ simpleDown' = <<>>
  <2>1. CASE Simple!OnSocketEvent \/ Simple!OnSocketDataError
    <3>1. CASE simpleSocket = Simple!Null
      BY <2>1, <3>1 DEF Simple!OnSocketEvent, Simple!OnSocketDataError, Simple!Close_
    <3>2. CASE simpleSocket # Simple!Null
      <4>1. simpleWs' = (IF simpleWs = "CLOSED" THEN simpleWs ELSE "CLOSING")
            /\ simpleDown' = <<>> /\ UNCHANGED simpleUp
        BY <2>1, <3>2 DEF Simple!OnSocketEvent, Simple!OnSocketDataError, Simple!Close_
      <4>2. simpleWs = "CLOSED" => simpleUp = <<>>
        BY <1>0 DEF SimpleLife
      <4> QED  BY <3>2, <4>1, <4>2
    <3> QED  BY <3>1, <3>2
  <2>2. CASE Simple!WsFail \/ Simple!WsServerClosed \/ Simple!WsCloseDone
    BY <2>2 DEF Simple!WsFail, Simple!WsServerClosed, Simple!WsCloseDone, Simple!WsEnds
  <2> QED  BY <2>1, <2>2
<1>3. <<>> \in Seq(ToRelay) /\ <<>> \in Seq(ToClient)
  BY NoElements
<1>4. SimpleTypes'
  BY <1>0, <1>1, <1>2, <1>3 DEF SimpleTypes, Simple!TypeOK
<1>5. SimpleLife'
  BY <1>0, <1>1, <1>2 DEF SimpleLife
<1>6. SimpleUpward'
  <2>1. simpleWs' = "CLOSING" => simpleUp' = simpleUp
    BY <1>2
  <2>2. simpleWs' \in {"OPEN", "CLOSING"} =>
          Carries(simpleUp, Len(simpleUp), Len(simpleSrvRecv), simpleSent) /\ simpleUp' = simpleUp
    <3>1. CASE simpleWs \in {"OPEN", "CLOSING"}
      BY <1>0, <1>2, <3>1 DEF SimpleUpward
    <3>2. CASE simpleWs \in {"NONE", "CONNECTING"}
      <4>1. simpleSent = 0 /\ simpleSrvRecv = <<>> /\ simpleUp = <<>>
        BY <1>0, <3>2 DEF SimpleLife
      <4>2. Len(<<>>) = 0 /\ 0 \in Nat
        OBVIOUS
      <4>3. Carries(<<>>, 0, 0, 0)
        BY <4>2, CarriesNothing
      <4>4. simpleWs' \in {"OPEN", "CLOSING"} => simpleUp' = simpleUp
        BY <1>2
      <4> QED  BY <4>1, <4>2, <4>3, <4>4, Zenon
    <3>3. CASE simpleWs = "CLOSED"
      BY <1>2, <3>3
    <3> QED  BY <1>0, <3>1, <3>2, <3>3 DEF SimpleTypes, Simple!TypeOK
  <2> QED  BY <1>0, <1>1, <2>2, Zenon DEF SimpleUpward
<1>7. SimpleDownward'
  <2>1. simpleWs' = "OPEN" => UNCHANGED <<simpleWs, simpleDown>>
    BY <1>2
  <2> QED  BY <1>0, <1>1, <2>1, Zenon DEF SimpleDownward
<1> QED  BY <1>4, <1>5, <1>6, <1>7 DEF SimpleInv

(* Every step keeps the invariant and is a step of both pipes.             *)
LEMMA SimpleStep ==
  ASSUME SimpleInv, [Simple!Next]_simpleVars
  PROVE  SimpleInv' /\ [Simple!Up!Next]_(Simple!Up!pipe) /\ [Simple!Down!Next]_(Simple!Down!pipe)
<1> USE DEF Simple!Up!pipe, Simple!Down!pipe
<1>0. /\ Len(simpleSrvRecv) \in Nat /\ Len(simpleDelivered) \in Nat /\ simpleSrvProduced \in Nat
      /\ simpleWritten \in Nat
  BY PartsAssumption DEF SimpleInv, SimpleTypes, Simple!TypeOK
<1>1. CASE \E n \in 1..SimpleMaxUp : Simple!Write(n)
  <2>1. SimpleInv'
    BY <1>1, SimpleWriteStep
  <2>2. PICK n \in 1..SimpleMaxUp : Simple!Write(n)
    BY <1>1
  <2>3. simpleWritten' = simpleWritten + n /\ UNCHANGED <<simpleSrvRecv, simpleDelivered, simpleSrvProduced>>
    BY <2>2 DEF Simple!Write, Simple!server
  <2>4. simpleWritten' \in Nat /\ simpleWritten' > simpleWritten
    BY <1>0, <2>2, <2>3, PartsAssumption
  <2> QED  BY <2>1, <2>3, <2>4 DEF Simple!Up!Next, Simple!Up!Put
<1>2. CASE Simple!OnSendTimer
  BY <1>2, SimpleWriteStep DEF Simple!OnSendTimer, Simple!server
<1>3. CASE Simple!SrvReceive
  <2>1. SimpleInv' /\ Len(simpleSrvRecv) < Len(simpleSrvRecv')
    BY <1>3, SimpleReceiveStep
  <2>2. UNCHANGED <<simpleWritten, simpleDelivered, simpleSrvProduced>>
    BY <1>3 DEF Simple!SrvReceive, Simple!stream
  <2>3. /\ simpleSrvRecv = First(Len(simpleSrvRecv)) /\ simpleSrvRecv' = First(Len(simpleSrvRecv'))
        /\ Len(simpleSrvRecv') <= simpleSent' /\ simpleSent' \in 0..simpleWritten' /\ Len(simpleSrvRecv') \in Nat
    BY <2>1 DEF SimpleInv, SimpleUpward, SimpleTypes, Simple!TypeOK
  <2>4. simpleSrvRecv' = [i \in 1..Len(simpleSrvRecv') |-> IF i <= Len(simpleSrvRecv) THEN simpleSrvRecv[i] ELSE i]
    BY <1>0, <2>1, <2>3 DEF First
  <2>5. Len(simpleSrvRecv') <= simpleWritten
    BY <1>0, <2>2, <2>3
  <2>6. Simple!Up!Get
    BY <1>0, <2>1, <2>2, <2>4, <2>5 DEF Simple!Up!Get
  <2> QED  BY <2>1, <2>2, <2>6 DEF Simple!Up!Next
<1>4. CASE Simple!OnSocketData
  <2>1. SimpleInv' /\ Len(simpleDelivered) < Len(simpleDelivered')
    BY <1>4, SimpleDataStep
  <2>2. UNCHANGED <<simpleWritten, simpleSrvRecv, simpleSrvProduced>>
    BY <1>4 DEF Simple!OnSocketData, Simple!server
  <2>3. /\ simpleDelivered = First(Len(simpleDelivered)) /\ simpleDelivered' = First(Len(simpleDelivered'))
        /\ Len(simpleDelivered') <= simpleSrvProduced' /\ Len(simpleDelivered') \in Nat
    BY <2>1 DEF SimpleInv, SimpleDownward, SimpleTypes
  <2>4. simpleDelivered' = [i \in 1..Len(simpleDelivered') |-> IF i <= Len(simpleDelivered) THEN simpleDelivered[i] ELSE i]
    BY <1>0, <2>1, <2>3 DEF First
  <2>5. Simple!Down!Get
    BY <1>0, <2>1, <2>2, <2>3, <2>4 DEF Simple!Down!Get
  <2> QED  BY <2>1, <2>2, <2>5 DEF Simple!Down!Next
<1>5. CASE \E n \in 1..SimpleMaxMessage : Simple!SrvSend(n)
  <2>1. SimpleInv'
    BY <1>5, SimpleSrvStep
  <2>2. PICK n \in 1..SimpleMaxMessage : Simple!SrvSend(n)
    BY <1>5
  <2>3. simpleSrvProduced' = simpleSrvProduced + n /\ UNCHANGED <<simpleSrvRecv, simpleDelivered, simpleWritten>>
    BY <2>2 DEF Simple!SrvSend, Simple!Sends, Simple!stream
  <2>4. simpleSrvProduced' \in Nat /\ simpleSrvProduced' > simpleSrvProduced
    BY <1>0, <2>2, <2>3, PartsAssumption
  <2> QED  BY <2>1, <2>3, <2>4 DEF Simple!Down!Next, Simple!Down!Put
<1>6. CASE Simple!SrvError \/ Simple!SrvEnd
  <2>1. UNCHANGED <<simpleSrvRecv, simpleDelivered, simpleWritten, simpleSrvProduced>>
    BY <1>6 DEF Simple!SrvError, Simple!SrvEnd, Simple!Sends, Simple!stream
  <2> QED  BY <1>6, <2>1, SimpleSrvStep
<1>7. CASE \/ Simple!Connect \/ Simple!ChallengeGoesOn \/ Simple!ChallengeFails \/ Simple!Close
           \/ Simple!OnSocketOpen
  <2>1. UNCHANGED <<simpleSrvRecv, simpleDelivered, simpleWritten, simpleSrvProduced>>
    BY <1>7 DEF Simple!Connect, Simple!ChallengeGoesOn, Simple!ChallengeFails, Simple!Close, Simple!OnSocketOpen,
       Simple!server
  <2> QED  BY <1>7, <2>1, SimpleOpenStep
<1>8. CASE \/ Simple!OnSocketEvent \/ Simple!OnSocketDataError
           \/ Simple!WsFail \/ Simple!WsServerClosed \/ Simple!WsCloseDone
  <2>1. UNCHANGED <<simpleSrvRecv, simpleDelivered, simpleWritten, simpleSrvProduced>>
    BY <1>8 DEF Simple!OnSocketEvent, Simple!OnSocketDataError, Simple!WsFail, Simple!WsServerClosed,
       Simple!WsCloseDone, Simple!WsEnds, Simple!server, Simple!stream
  <2> QED  BY <1>8, <2>1, SimpleEndStep
<1>9. CASE UNCHANGED simpleVars
  BY <1>9, Zenon DEF simpleVars, SimpleInv, SimpleTypes, Simple!TypeOK, SimpleLife, SimpleUpward, SimpleDownward
<1> QED  BY <1>1, <1>2, <1>3, <1>4, <1>5, <1>6, <1>7, <1>8, <1>9 DEF Simple!Next

-----------------------------------------------------------------------------
(* Every stream of a connection that does not resume is an ordered pipe,   *)
(* however its timers, events and messages interleave: upstream to the ssh *)
(* server, where nothing is released that has not arrived, and for         *)
(* websockify and SSH-FE downstream too.                                   *)
THEOREM PipesHold == MCSpec => OrderedPipes
<1> DEFINE Inv == Unresumed!PipeInv /\ SimpleInv
<1>1. MCInit => Inv /\ Plain!Up!Init /\ Simple!Up!Init /\ Simple!Down!Init
  <2>1. Plain!Init => Plain!Up!Init
    BY DEF Plain!Init, Plain!Buf!Init, Plain!Up!Init
  <2>2. Simple!Init => Simple!Up!Init /\ Simple!Down!Init
    BY DEF Simple!Init, Simple!Up!Init, Simple!Down!Init
  <2> QED  BY <2>1, <2>2, UnresumedInit, SimpleInit DEF MCInit
<1>2. ASSUME Inv, [MCNext]_allVars
      PROVE  /\ Inv' /\ [Plain!Up!Next]_(Plain!Up!pipe)
             /\ [Simple!Up!Next]_(Simple!Up!pipe) /\ [Simple!Down!Next]_(Simple!Down!pipe)
  <2>1. [Plain!Next]_plainVars /\ [Simple!Next]_simpleVars
    <3>1. UNCHANGED allVars => UNCHANGED plainVars /\ UNCHANGED simpleVars
      BY DEF allVars
    <3> QED  BY <1>2, <3>1 DEF MCNext
  <2> QED  BY <1>2, <2>1, UnresumedStep, SimpleStep
<1>3. Inv => Plain!TypeOK /\ Plain!ReleasedIsReceived /\ Simple!TypeOK
  BY UnresumedReleased DEF SimpleInv, SimpleTypes
<1> HIDE DEF Inv
<1> QED
  BY <1>1, <1>2, <1>3, PTL
  DEF MCSpec, OrderedPipes, Plain!UpSpec, Plain!Up!Spec, Simple!Pipes, Simple!Up!Spec, Simple!Down!Spec
=============================================================================
