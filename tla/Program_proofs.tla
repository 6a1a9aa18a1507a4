--------------------------- MODULE Program_proofs ---------------------------
(***************************************************************************)
(* Proofs about the parts of a running program (MCProgram), for any number *)
(* of sockets, bytes, signals, clients, polls and calls.  The sockets and  *)
(* the clients of a listening one come first, then polls and signals, then *)
(* the bytes that are read, then the bridge with late wake-ups, for which  *)
(* the proofs about SyscallBridge are instantiated, and the theorems about *)
(* all of them at the end.                                                 *)
(***************************************************************************)
EXTENDS MCProgram, SyscallBridge_proofs, FiniteSetTheorems

-----------------------------------------------------------------------------
(* The sockets. *)

(* The properties of the sockets are inductive as they stand: clients keep *)
(* their order because those that wait and those that are on their way are *)
(* all that have arrived.                                                  *)
SocketInv == S!TypeOK /\ S!NobodyWaitsInVain /\ S!ClientsInOrder

(* It holds of a socket that has been connected. *)
LEMMA SocketInit == S!Init => SocketInv
<1> SUFFICES ASSUME S!Init PROVE SocketInv
  OBVIOUS
<1>1. S!TypeOK
  BY NoElements DEF S!Init, S!TypeOK, S!Kinds, S!Closers
<1>2. S!NobodyWaitsInVain
  BY DEF S!Init, S!NobodyWaitsInVain
<1>3. S!ClientsInOrder
  <2>1. <<>> \o (<<>> \o <<>>) = <<>> /\ [n \in 1..0 |-> n] = <<>>
    OBVIOUS
  <2> QED  BY <2>1 DEF S!Init, S!ClientsInOrder
<1> QED  BY <1>1, <1>2, <1>3 DEF SocketInv


(* The client that is pushed next has arrived. *)
LEMMA ArrivingHasArrived ==
  ASSUME SocketInv, arriving # <<>>
  PROVE  /\ Head(arriving) \in 1..arrived /\ Head(arriving) \in Nat
         /\ Tail(arriving) \in Seq(Nat)
<1> DEFINE p == accepted \o clients_
           all == p \o arriving
           i == Len(p) + 1
<1>1. accepted \in Seq(Nat) /\ clients_ \in Seq(Nat) /\ arriving \in Seq(Nat) /\ arrived \in Nat
  BY DEF SocketInv, S!TypeOK
<1>2. p \in Seq(Nat)
  BY <1>1, ConcatProperties
<1>3. all = [n \in 1..arrived |-> n]
  BY DEF SocketInv, S!ClientsInOrder
<1> HIDE DEF p, all
<1>4. all \in Seq(Nat) /\ Len(all) = Len(p) + Len(arriving) /\ Len(p) \in Nat /\ Len(arriving) \in Nat \ {0}
  BY <1>1, <1>2, ConcatProperties DEF all
<1>5. i \in 1..(Len(p) + Len(arriving)) /\ ~(i <= Len(p)) /\ i - Len(p) = 1
  BY <1>4
<1>6. all[i] = arriving[1]
  BY <1>1, <1>2, <1>5, ConcatProperties DEF all
<1>7. i \in DOMAIN all
  BY <1>4, <1>5
<1>8. i \in 1..arrived /\ all[i] = i
  BY <1>3, <1>7
<1> HIDE DEF i
<1>9. Head(arriving) = i
  BY <1>1, <1>6, <1>8, TailProperties
<1> QED  BY <1>1, <1>8, <1>9, TailProperties

(* Clients keep their order when the one that waits longest is pushed, *)
LEMMA ClientIsPushed ==
  ASSUME SocketInv, arriving # <<>>,
         \/ clients_' = Append(clients_, Head(arriving)) /\ accepted' = accepted
         \/ /\ accepted' = Append(accepted, Head(Append(clients_, Head(arriving))))
            /\ clients_' = Tail(Append(clients_, Head(arriving))),
         arriving' = Tail(arriving), arrived' = arrived
  PROVE  /\ clients_' \in Seq(Nat) /\ arriving' \in Seq(Nat) /\ accepted' \in Seq(Nat)
         /\ S!ClientsInOrder'
<1> DEFINE c == Head(arriving)
           q == Append(clients_, c)
<1>1. /\ accepted \in Seq(Nat) /\ clients_ \in Seq(Nat) /\ arriving \in Seq(Nat)
      /\ accepted \o clients_ \o arriving = [n \in 1..arrived |-> n]
  BY DEF SocketInv, S!TypeOK, S!ClientsInOrder
<1>2. c \in Nat /\ Tail(arriving) \in Seq(Nat)
  BY ArrivingHasArrived
<1>3. accepted \o clients_ \in Seq(Nat)
  BY <1>1, ConcatProperties
<1>4. Append(accepted \o clients_, c) \o Tail(arriving) = accepted \o clients_ \o arriving
  BY <1>1, <1>3, MoveAcross
<1> HIDE DEF c
<1>5. q \in Seq(Nat) /\ q # <<>>
  <2>1. q \in Seq(Nat) /\ Len(q) = Len(clients_) + 1 /\ Len(clients_) \in Nat
    BY <1>1, <1>2, AppendProperties
  <2> QED  BY <2>1
<1>6. accepted \o q = Append(accepted \o clients_, c)
  BY <1>1, <1>2, AppendToSecond
<1> HIDE DEF q
<1>7. CASE clients_' = q /\ accepted' = accepted
  BY <1>1, <1>2, <1>4, <1>5, <1>6, <1>7 DEF S!ClientsInOrder
<1>8. CASE accepted' = Append(accepted, Head(q)) /\ clients_' = Tail(q)
  <2>1. Head(q) \in Nat /\ Tail(q) \in Seq(Nat) /\ Append(accepted, Head(q)) \in Seq(Nat)
    BY <1>1, <1>5
  <2>2. Append(accepted, Head(q)) \o Tail(q) = accepted \o q
    BY <1>1, <1>5, MoveAcross
  <2>3. accepted' \o clients_' = accepted \o q
    BY <1>8, <2>2
  <2> QED  BY <1>1, <1>2, <1>4, <1>6, <1>8, <2>1, <2>3 DEF S!ClientsInOrder
<1> QED  BY <1>7, <1>8 DEF q, c

(* when one is accepted, *)
LEMMA ClientIsAccepted ==
  ASSUME SocketInv, clients_ # <<>>,
         accepted' = Append(accepted, Head(clients_)), clients_' = Tail(clients_),
         UNCHANGED <<arriving, arrived>>
  PROVE  /\ clients_' \in Seq(Nat) /\ accepted' \in Seq(Nat)
         /\ S!ClientsInOrder'
<1>1. /\ accepted \in Seq(Nat) /\ clients_ \in Seq(Nat)
      /\ accepted \o clients_ \o arriving = [n \in 1..arrived |-> n]
  BY DEF SocketInv, S!TypeOK, S!ClientsInOrder
<1>2. accepted' \o clients_' = accepted \o clients_
  BY <1>1, MoveAcross
<1>3. clients_' \in Seq(Nat) /\ accepted' \in Seq(Nat)
  BY <1>1, TailProperties
<1> QED  BY <1>1, <1>2, <1>3 DEF S!ClientsInOrder

(* and when one arrives. *)
LEMMA ClientArrives ==
  ASSUME SocketInv, arriving' = Append(arriving, arrived + 1), arrived' = arrived + 1,
         UNCHANGED <<clients_, accepted>>
  PROVE  arriving' \in Seq(Nat) /\ S!ClientsInOrder'
<1>1. /\ accepted \in Seq(Nat) /\ clients_ \in Seq(Nat) /\ arriving \in Seq(Nat) /\ arrived \in Nat
      /\ (accepted \o clients_) \o arriving = [n \in 1..arrived |-> n]
  BY DEF SocketInv, S!TypeOK, S!ClientsInOrder
<1>2. accepted \o clients_ \in Seq(Nat)
  BY <1>1, ConcatProperties
<1>3. /\ Append(arriving, arrived + 1) \in Seq(Nat)
      /\ (accepted \o clients_) \o Append(arriving, arrived + 1) = [n \in 1..(arrived + 1) |-> n]
  BY <1>1, <1>2, CountedOn
<1> QED  BY <1>3, Zenon DEF S!ClientsInOrder

(* Every step of the back ends and of the program keeps it. *)
LEMMA SocketStep == SocketInv /\ S!Next => SocketInv'
<1> SUFFICES ASSUME SocketInv, S!Next PROVE SocketInv'
  OBVIOUS
<1> USE DEF S!Awake, S!Kinds, S!Closers, S!connection, S!listener
<1>1. CASE S!OnRecv
  <2> USE <1>1 DEF S!OnRecv, S!Wake
  <2>1. arrivedBytes \in Nat /\ socketData \in Seq(Nat) /\ taken \in Seq(Nat)
    BY DEF SocketInv, S!TypeOK
  <2>2. /\ Append(socketData, arrivedBytes + 1) \in Seq(Nat)
        /\ taken \o Append(socketData, arrivedBytes + 1) \in Seq(Nat)
    BY <2>1, ConcatProperties
  <2>3. arrivedBytes' \in Nat /\ socketData' \in Seq(Nat) /\ taken' \in Seq(Nat)
    <3>1. arrivedBytes' = arrivedBytes + 1
      OBVIOUS
    <3>2. CASE user = "reading"
      <4>1. socketData' = <<>> /\ taken' = taken \o Append(socketData, arrivedBytes + 1)
        BY <3>2
      <4>2. arrivedBytes' \in Nat
        BY <2>1, <3>1
      <4>3. taken' \in Seq(Nat)
        BY <2>2, <4>1, Zenon
      <4> QED  BY <4>1, <4>2, <4>3, NoElements, Zenon
    <3>3. CASE user # "reading"
      <4>1. socketData' = Append(socketData, arrivedBytes + 1) /\ taken' = taken
        BY <3>3
      <4> QED  BY <2>1, <2>2, <3>1, <4>1
    <3> QED  BY <3>2, <3>3
  <2>4. UNCHANGED <<backEnd, socket_, socketReader_, writer_, pollData_, closers, S!listener>>
    OBVIOUS
  <2>5. user' \in {user, "running"} /\ user' # "reading" /\ user' # "polling"
    BY DEF SocketInv, S!TypeOK
  <2> HIDE <1>1 DEF S!OnRecv, S!Wake
  <2> QED  BY <2>3, <2>4, <2>5 DEF SocketInv, S!TypeOK, S!NobodyWaitsInVain, S!ClientsInOrder
<1>2. CASE S!Read
  <2>1. user' \in {"running", "reading"} /\ (user' = "reading" => socketData' = <<>>)
        /\ socketData' \in Seq(Nat) /\ taken' \in Seq(Nat)
    <3>1. CASE socketData = <<>>
      BY <1>2, <3>1 DEF S!Read, SocketInv, S!TypeOK
    <3>2. CASE socketData # <<>>
      <4>1. socketData \in Seq(Nat) /\ taken \in Seq(Nat)
        BY DEF SocketInv, S!TypeOK
      <4>2. Head(socketData) \in Nat /\ Tail(socketData) \in Seq(Nat)
        BY <3>2, <4>1, TailProperties
      <4>3. Append(taken, Head(socketData)) \in Seq(Nat)
        BY <4>1, <4>2
      <4>4. socketData' = Tail(socketData) /\ taken' = Append(taken, Head(socketData)) /\ user' = "running"
        BY <1>2, <3>2 DEF S!Read
      <4> QED  BY <4>2, <4>3, <4>4
    <3> QED  BY <3>1, <3>2
  <2>2. UNCHANGED <<backEnd, arrivedBytes, socket_, socketReader_, writer_, pollData_, closers, S!listener>>
    BY <1>2 DEF S!Read
  <2> QED  BY <2>1, <2>2 DEF SocketInv, S!TypeOK, S!NobodyWaitsInVain, S!ClientsInOrder
<1>3. CASE S!OnClose
  BY <1>3 DEF S!OnClose, SocketInv, S!TypeOK, S!NobodyWaitsInVain, S!ClientsInOrder
<1>4. CASE S!Close
  <2>1. socket_' \in BOOLEAN /\ closers' \in [S!Closers -> {"none", "cancel", "abort", "close", "done", "threw"}]
    BY <1>4 DEF S!Close, SocketInv, S!TypeOK
  <2>2. UNCHANGED <<backEnd, user, arrivedBytes, socketData, taken, socketReader_, writer_, pollData_, S!listener>>
    BY <1>4 DEF S!Close
  <2> QED  BY <2>1, <2>2 DEF SocketInv, S!TypeOK, S!NobodyWaitsInVain, S!ClientsInOrder
<1>5. CASE S!StreamEnds
  BY <1>5 DEF S!StreamEnds, SocketInv, S!TypeOK, S!NobodyWaitsInVain, S!ClientsInOrder
<1>6. CASE S!PollDataEnds
  BY <1>6 DEF S!PollDataEnds, SocketInv, S!TypeOK, S!NobodyWaitsInVain, S!ClientsInOrder
<1>7. ASSUME NEW c \in S!Closers, S!CloseStep(c) PROVE SocketInv'
  <2>1. /\ socket_' \in BOOLEAN /\ socketReader_' \in BOOLEAN /\ writer_' \in BOOLEAN
        /\ closers' \in [S!Closers -> {"none", "cancel", "abort", "close", "done", "threw"}]
    BY <1>7 DEF S!CloseStep, S!AfterAbort, S!To, SocketInv, S!TypeOK
  <2>2. UNCHANGED <<backEnd, user, arrivedBytes, socketData, taken, pollData_, S!listener>>
    BY <1>7 DEF S!CloseStep
  <2> QED  BY <2>1, <2>2 DEF SocketInv, S!TypeOK, S!NobodyWaitsInVain, S!ClientsInOrder
<1>8. CASE S!Arrive
  BY <1>8, ClientArrives DEF S!Arrive, SocketInv, S!TypeOK, S!NobodyWaitsInVain
<1>9. CASE S!OnAccept
  BY <1>9, ArrivingHasArrived, ClientIsPushed DEF S!OnAccept, S!Push, SocketInv, S!TypeOK, S!NobodyWaitsInVain
<1>10. ASSUME NEW n \in unpausing, S!Unpaused(n) PROVE SocketInv'
  BY <1>10 DEF S!Unpaused, SocketInv, S!TypeOK, S!NobodyWaitsInVain, S!ClientsInOrder
<1>11. CASE S!Accept
  BY <1>11, ClientIsAccepted DEF S!Accept, SocketInv, S!TypeOK, S!NobodyWaitsInVain, S!ClientsInOrder
<1>12. CASE S!CloseListener
  BY <1>12 DEF S!CloseListener, SocketInv, S!TypeOK, S!NobodyWaitsInVain, S!ClientsInOrder
<1>13. CASE S!ListenerEnds
  BY <1>13 DEF S!ListenerEnds, SocketInv, S!TypeOK, S!NobodyWaitsInVain, S!ClientsInOrder
<1>14. CASE S!Poll
  BY <1>14 DEF S!Poll, SocketInv, S!TypeOK, S!NobodyWaitsInVain, S!ClientsInOrder
<1> QED  BY <1>1, <1>2, <1>3, <1>4, <1>5, <1>6, <1>7, <1>8, <1>9, <1>10, <1>11, <1>12, <1>13, <1>14
  DEF S!Next

-----------------------------------------------------------------------------
(* Polls and signals. *)

(* The handler runs while the program polls, for something; what it has    *)
(* taken off the queue it has replied; the one timer is the sleep's.       *)
Handler ==
  /\ poll # "none" => program = "polling" /\ (subs.fds # {} \/ subs.deadline # P!Never)
  /\ poll # "replied" => reply.signals = <<>>
OwnTimer ==
  /\ poll # "sleeping" => timers = {}
  /\ poll = "sleeping" => sleeps # 0 /\ \E d \in Nat : timers = {[due |-> d, nth |-> sleeps]}

(* With these the properties of a poll are inductive. *)
PollInv ==
  /\ P!TypeOK /\ Handler /\ OwnTimer
  /\ P!NoLostWakeup /\ P!EventsAreTrue /\ P!SignalsOnceInOrder

(* What every step of a poll is, with or without bounds. *)
PollStep ==
  \/ P!Tick \/ P!Scan \/ (\E t \in timers : P!TimerFires(t)) \/ P!PollReturn \/ P!SendSignal
  \/ P!FillIov \/ P!BlockReader \/ P!ReadAgain \/ P!ReadReturn
  \/ \E fds \in SUBSET (P!Fds \cup {P!Ready}), timeout \in {P!Never} \cup 0..MaxTime :
       P!Poll(fds, timeout) \/ Polls!Poll(fds, timeout)
  \/ \E fd \in P!Fds : P!OnRecv(fd) \/ Polls!OnRecv(fd)
  \/ \E fd \in P!Fds, iovs \in 1..MaxIovs, block \in {"yes", "no"} : P!Read(fd, iovs, block)

(* The steps of both bounds are of that kind. *)
LEMMA PollSteps == P!Next \/ Polls!Next => PollStep
<1>1. P!Next => PollStep
  BY Zenon DEF P!Next, PollStep
<1>2. /\ Polls!Fds = P!Fds /\ Polls!Ready = P!Ready /\ Polls!Never = P!Never
  BY DEF P!Fds, Polls!Fds, P!Tty, Polls!Tty, P!Ready, Polls!Ready, P!Never, Polls!Never
<1>3. Polls!Tick => P!Tick
  BY Zenon DEF P!Tick, Polls!Tick, P!Fds, Polls!Fds, P!Ready, Polls!Ready, P!Tty, Polls!Tty, P!clock, Polls!clock, P!polling, Polls!polling, P!signals, Polls!signals, P!bytes, Polls!bytes, P!reading, Polls!reading
<1>4. Polls!Scan => P!Scan
  BY Zenon DEF P!Scan, Polls!Scan, P!OnlyClock, Polls!OnlyClock, P!Events, Polls!Events, P!TimedOut, Polls!TimedOut, P!Readable, Polls!Readable, P!Sleep, Polls!Sleep, P!Return, Polls!Return, P!Never, Polls!Never, P!Fds, Polls!Fds, P!Ready, Polls!Ready, P!Tty, Polls!Tty, P!clock, Polls!clock, P!polling, Polls!polling, P!signals, Polls!signals, P!bytes, Polls!bytes, P!reading, Polls!reading
<1>5. Polls!PollReturn => P!PollReturn
  BY Zenon DEF P!PollReturn, Polls!PollReturn, P!NoReply, Polls!NoReply, P!Never, Polls!Never, P!Fds, Polls!Fds, P!Ready, Polls!Ready, P!Tty, Polls!Tty, P!clock, Polls!clock, P!polling, Polls!polling, P!signals, Polls!signals, P!bytes, Polls!bytes, P!reading, Polls!reading
<1>6. Polls!SendSignal => P!SendSignal
  BY Zenon DEF P!SendSignal, Polls!SendSignal, P!Notify, Polls!Notify, P!None, Polls!None, P!Fds, Polls!Fds, P!Ready, Polls!Ready, P!Tty, Polls!Tty, P!clock, Polls!clock, P!polling, Polls!polling, P!signals, Polls!signals, P!bytes, Polls!bytes, P!reading, Polls!reading
<1>7. Polls!FillIov => P!FillIov
  BY Zenon DEF P!FillIov, Polls!FillIov, P!First, Polls!First, P!Rest, Polls!Rest, P!Tty, Polls!Tty, P!Fds, Polls!Fds, P!Ready, Polls!Ready, P!clock, Polls!clock, P!polling, Polls!polling, P!signals, Polls!signals, P!bytes, Polls!bytes, P!reading, Polls!reading
<1>8. Polls!BlockReader => P!BlockReader
  BY Zenon DEF P!BlockReader, Polls!BlockReader, P!Tty, Polls!Tty, P!Fds, Polls!Fds, P!Ready, Polls!Ready, P!clock, Polls!clock, P!polling, Polls!polling, P!signals, Polls!signals, P!bytes, Polls!bytes, P!reading, Polls!reading
<1>9. Polls!ReadAgain => P!ReadAgain
  BY Zenon DEF P!ReadAgain, Polls!ReadAgain, P!Tty, Polls!Tty, P!NoRead, Polls!NoRead, P!Fds, Polls!Fds, P!Ready, Polls!Ready, P!clock, Polls!clock, P!polling, Polls!polling, P!signals, Polls!signals, P!bytes, Polls!bytes, P!reading, Polls!reading
<1>10. Polls!ReadReturn => P!ReadReturn
  BY Zenon DEF P!ReadReturn, Polls!ReadReturn, P!NoRead, Polls!NoRead, P!Tty, Polls!Tty, P!Fds, Polls!Fds, P!Ready, Polls!Ready, P!clock, Polls!clock, P!polling, Polls!polling, P!signals, Polls!signals, P!bytes, Polls!bytes, P!reading, Polls!reading
<1>11. ASSUME NEW t \in timers PROVE Polls!TimerFires(t) => P!TimerFires(t)
  BY Zenon DEF P!TimerFires, Polls!TimerFires, P!None, Polls!None, P!clock, Polls!clock, P!polling, Polls!polling, P!signals, Polls!signals, P!bytes, Polls!bytes, P!reading, Polls!reading
<1>12. ASSUME NEW fd, NEW iovs, NEW block PROVE Polls!Read(fd, iovs, block) => P!Read(fd, iovs, block)
  BY Zenon DEF P!Read, Polls!Read, P!clock, Polls!clock, P!polling, Polls!polling, P!signals, Polls!signals, P!bytes, Polls!bytes, P!reading, Polls!reading
<1> QED  BY <1>1, <1>2, <1>3, <1>4, <1>5, <1>6, <1>7, <1>8, <1>9, <1>10, <1>11, <1>12, Zenon DEF Polls!Next, PollStep

(* Descriptors are neither of the other things a poll waits for. *)
LEMMA Names == P!Ready \notin P!Fds /\ "clock" \notin P!Fds /\ P!Tty \in P!Fds /\ "clock" # P!Ready
BY PollAssumption DEF P!ConstantsAssumption, P!Fds, P!Ready, P!Tty

(* The invariant holds before the first poll. *)
LEMMA PollInit == P!Init => PollInv
<1> SUFFICES ASSUME P!Init PROVE PollInv
  OBVIOUS
<1>1. P!TypeOK
  BY NoElements, Names DEF P!Init, P!TypeOK, P!Stages, P!None, P!Never, P!NoReply, P!NoRead
<1>2. Handler /\ OwnTimer /\ P!NoLostWakeup /\ P!EventsAreTrue
  BY DEF P!Init, P!None, P!Never, P!NoReply, Handler, OwnTimer, P!NoLostWakeup, P!EventsAreTrue
<1>3. P!SignalsOnceInOrder
  <2>1. (<<>> \o <<>>) \o <<>> = <<>> /\ [n \in 1..0 |-> n] = <<>>
    OBVIOUS
  <2> QED  BY <2>1 DEF P!Init, P!NoReply, P!SignalsOnceInOrder
<1> QED  BY <1>1, <1>2, <1>3 DEF PollInv

(* A step that is not about polling keeps what is. *)
LEMMA NotPolling ==
  ASSUME PollInv, P!TypeOK', UNCHANGED <<polls, subs, poll, reply, timers, notify_, sleeps, queue, sent, caught>>,
         poll # "none" => now' >= now /\ program' = program /\ pollData' = pollData
  PROVE  PollInv'
<1>1. Handler' /\ OwnTimer'
  BY DEF PollInv, Handler, OwnTimer
<1>2. P!NoLostWakeup'
  BY DEF PollInv, P!NoLostWakeup, P!Fds, P!Never
<1>3. P!EventsAreTrue'
  <2>1. now' \in Nat /\ now \in Nat /\ subs.deadline \in Nat \cup {-1}
    BY DEF PollInv, P!TypeOK, P!Never
  <2> QED  BY <2>1 DEF PollInv, P!EventsAreTrue, P!OnlyClock
<1>4. P!SignalsOnceInOrder'
  BY DEF PollInv, P!SignalsOnceInOrder
<1> QED  BY <1>1, <1>2, <1>3, <1>4 DEF PollInv

(* Time passes. *)
LEMMA TickStep == PollInv /\ P!Tick => PollInv'
<1> SUFFICES ASSUME PollInv, P!Tick PROVE PollInv'
  OBVIOUS
<1>1. P!TypeOK'
  BY DEF PollInv, P!TypeOK, P!Tick, P!polling, P!signals, P!bytes, P!reading
<1>2. now' >= now
  BY DEF PollInv, P!TypeOK, P!Tick
<1> QED  BY <1>1, <1>2, NotPolling DEF P!Tick, P!polling, P!signals, P!bytes

(* A poll begins. *)
LEMMA PollBegins ==
  ASSUME PollInv, NEW fds \in SUBSET (P!Fds \cup {P!Ready}), NEW timeout \in {P!Never} \cup 0..MaxTime,
         P!Poll(fds, timeout) \/ Polls!Poll(fds, timeout)
  PROVE  PollInv'
<1>1. /\ program = "running" /\ (fds # {} \/ timeout # P!Never)
      /\ program' = "polling" /\ polls' = polls + 1 /\ poll' = "scan"
      /\ subs' = [fds |-> fds, deadline |-> IF timeout = P!Never THEN P!Never ELSE now + timeout]
  BY DEF P!Poll, Polls!Poll, P!Never, Polls!Never
<1>2. UNCHANGED <<now, reply, timers, notify_, sleeps, queue, sent, caught, pollData, received, got, read, reader_>>
  BY DEF P!Poll, Polls!Poll, P!clock, Polls!clock, P!signals, Polls!signals, P!bytes, Polls!bytes, P!reading, Polls!reading
<1>3. poll = "none"
  BY <1>1 DEF PollInv, Handler, P!TypeOK, P!Stages
<1>4. subs'.fds = fds /\ subs'.deadline \in Nat \cup {P!Never} /\ (subs'.deadline = P!Never <=> timeout = P!Never)
  BY <1>1, PollAssumption DEF P!ConstantsAssumption, PollInv, P!TypeOK, P!Never
<1>5. P!TypeOK'
  BY <1>1, <1>2, <1>4 DEF PollInv, P!TypeOK, P!Stages
<1>6. Handler' /\ OwnTimer' /\ P!NoLostWakeup' /\ P!EventsAreTrue'
  BY <1>1, <1>2, <1>3, <1>4 DEF PollInv, Handler, OwnTimer, P!NoLostWakeup, P!EventsAreTrue
<1>7. P!SignalsOnceInOrder'
  BY <1>2 DEF PollInv, P!SignalsOnceInOrder
<1> QED  BY <1>5, <1>6, <1>7 DEF PollInv

(* It sleeps, when there is nothing to report, *)
LEMMA SleepStep ==
  ASSUME PollInv, NEW msec \in Int, now + msec \in Nat, P!Sleep(msec), poll \in {"scan", "woken"},
         P!Events = {}, subs.deadline = P!Never => queue = <<>>,
         UNCHANGED <<now, program, polls, subs, sent, caught, pollData, received, got, read, reader_>>
  PROVE  PollInv'
<1>1. /\ sleeps' = sleeps + 1 /\ notify_' = sleeps + 1 /\ poll' = "sleeping"
      /\ timers = {} /\ timers' = {[due |-> now + msec, nth |-> sleeps + 1]}
      /\ UNCHANGED <<reply, queue>> /\ sleeps \in Nat
  BY DEF P!Sleep, PollInv, OwnTimer, P!TypeOK
<1>2. P!TypeOK'
  BY <1>1 DEF PollInv, P!TypeOK, P!Stages
<1>3. Handler' /\ OwnTimer'
  BY <1>1 DEF PollInv, Handler, OwnTimer
<1>4. ASSUME NEW fd \in subs.fds PROVE fd \in P!Fds /\ pollData[fd] = <<>>
  BY DEF P!Events, P!Readable, PollInv, P!TypeOK
<1>5. P!NoLostWakeup'
  BY <1>1, <1>4 DEF P!NoLostWakeup, P!Fds, P!Never
<1>6. P!EventsAreTrue'
  BY <1>1 DEF P!EventsAreTrue
<1>7. P!SignalsOnceInOrder'
  BY <1>1 DEF PollInv, P!SignalsOnceInOrder
<1> QED  BY <1>2, <1>3, <1>5, <1>6, <1>7 DEF PollInv

(* or reports what there is, or its own timeout. *)
LEMMA ReplyStep ==
  ASSUME PollInv, NEW events, P!Return(events), poll \in {"scan", "woken"},
         events \subseteq P!Events \/ (P!OnlyClock /\ events = {"clock"}),
         UNCHANGED <<now, program, polls, subs, sent, caught, pollData, received, got, read, reader_>>
  PROVE  PollInv'
<1>1. /\ reply' = [events |-> events, signals |-> queue] /\ queue' = <<>> /\ poll' = "replied"
      /\ UNCHANGED <<timers, notify_, sleeps>> /\ timers = {} /\ reply.signals = <<>>
  BY DEF P!Return, PollInv, OwnTimer, Handler
<1>2. events \subseteq P!Fds \cup {P!Ready, "clock"}
  BY DEF P!Events, PollInv, P!TypeOK
<1>3. P!TypeOK'
  BY <1>1, <1>2, NoElements DEF PollInv, P!TypeOK, P!Stages
<1>4. Handler' /\ OwnTimer' /\ P!NoLostWakeup'
  BY <1>1 DEF PollInv, Handler, OwnTimer, P!NoLostWakeup
<1>5. ASSUME NEW fd \in events \cap P!Fds PROVE pollData[fd] # <<>>
  BY <1>5, Names DEF P!Events, P!Readable
<1>6. ASSUME "clock" \in events, ~P!OnlyClock PROVE subs.deadline <= now
  <2>1. "clock" \notin subs.fds
    BY Names DEF PollInv, P!TypeOK
  <2> QED  BY <1>6, <2>1 DEF P!Events, P!TimedOut
<1>7. P!EventsAreTrue'
  BY <1>1, <1>5, <1>6 DEF P!EventsAreTrue, P!OnlyClock, P!Fds, P!Tty
<1>8. P!SignalsOnceInOrder'
  <2>1. caught \in Seq(Nat) /\ queue \in Seq(Nat)
    BY DEF PollInv, P!TypeOK
  <2>2. (caught \o <<>>) \o queue = (caught \o queue) \o <<>>
    BY <2>1, ConcatEmpty, ConcatProperties
  <2> QED  BY <1>1, <2>2 DEF PollInv, P!SignalsOnceInOrder
<1> QED  BY <1>3, <1>4, <1>7, <1>8 DEF PollInv

(* These are all a look at the subscriptions comes to. *)
LEMMA ScanStep == PollInv /\ P!Scan => PollInv'
<1> SUFFICES ASSUME PollInv, P!Scan PROVE PollInv'
  OBVIOUS
<1>1. /\ poll \in {"scan", "woken"}
      /\ UNCHANGED <<now, program, polls, subs, sent, caught, pollData, received, got, read, reader_>>
  BY DEF P!Scan, P!clock, P!bytes, P!reading
<1>2. /\ now \in Nat /\ subs.deadline \in Nat \cup {P!Never} /\ P!Never = -1
      /\ SLEEP \in Nat /\ (P!OnlyClock => subs.deadline # P!Never)
  BY <1>1, PollAssumption DEF P!ConstantsAssumption, PollInv, P!TypeOK, P!Never, Handler, P!OnlyClock
<1>3. CASE P!OnlyClock /\ poll = "scan" /\ ~P!TimedOut /\ P!Sleep(subs.deadline - now)
  <2>1. P!Events = {}
    BY <1>3 DEF P!Events, P!OnlyClock
  <2> QED  BY <1>1, <1>2, <1>3, <2>1, SleepStep
<1>4. CASE P!OnlyClock /\ P!Return({"clock"})
  BY <1>1, <1>4, ReplyStep
<1>5. CASE P!Return(P!Events)
  BY <1>1, <1>5, ReplyStep
<1>6. CASE P!Events = {} /\ subs.deadline # P!Never /\ P!Sleep(subs.deadline - now)
  BY <1>1, <1>2, <1>6, SleepStep
<1>7. CASE P!Return({})
  BY <1>1, <1>7, ReplyStep
<1>8. CASE P!Events = {} /\ queue = <<>> /\ P!Sleep(SLEEP)
  BY <1>1, <1>2, <1>8, SleepStep
<1> QED  BY <1>3, <1>4, <1>5, <1>6, <1>7, <1>8 DEF P!Scan

(* Whoever wakes a sleep up, *)
LEMMA WokenUp ==
  ASSUME PollInv, P!TypeOK', timers' = {}, poll' # "sleeping",
         poll' = IF poll = "sleeping" THEN "woken" ELSE poll,
         UNCHANGED <<now, program, polls, subs, reply, sleeps, caught>>,
         \A fd \in P!Fds : pollData[fd] # <<>> => pollData'[fd] # <<>>,
         P!SignalsOnceInOrder'
  PROVE  PollInv'
<1>1. Handler' /\ OwnTimer' /\ P!NoLostWakeup'
  BY DEF PollInv, Handler, OwnTimer, P!NoLostWakeup
<1>2. P!EventsAreTrue'
  BY DEF PollInv, P!EventsAreTrue, P!OnlyClock, P!Fds, P!Tty
<1> QED  BY <1>1, <1>2 DEF PollInv

(* the timer *)
LEMMA TimerStep ==
  ASSUME PollInv, NEW t \in timers, P!TimerFires(t)
  PROVE  PollInv'
<1>1. /\ timers' = timers \ {t} /\ notify_' = 0
      /\ poll' = IF poll = "sleeping" /\ t.nth = sleeps THEN "woken" ELSE poll
      /\ UNCHANGED <<now, program, polls, subs, reply, sleeps, queue, sent, caught, pollData, received, got, read, reader_>>
  BY DEF P!TimerFires, P!None, P!clock, P!signals, P!bytes, P!reading
<1>2. poll = "sleeping" /\ t.nth = sleeps /\ timers' = {}
  BY <1>1 DEF PollInv, OwnTimer
<1>3. poll' = "woken"
  BY <1>1, <1>2
<1>4. P!TypeOK'
  BY <1>1, <1>2, <1>3 DEF PollInv, P!TypeOK, P!Stages
<1>5. P!SignalsOnceInOrder'
  BY <1>1 DEF PollInv, P!SignalsOnceInOrder
<1> QED  BY <1>1, <1>2, <1>3, <1>4, <1>5, WokenUp

(* or notify_: *)
LEMMA NotifyWakes ==
  ASSUME PollInv, P!Notify
  PROVE  /\ timers' = {} /\ notify_' \in Nat
         /\ poll' = IF poll = "sleeping" THEN "woken" ELSE poll
         /\ poll' # "sleeping" /\ poll' \in P!Stages
<1>1. poll \in P!Stages /\ notify_ \in Nat /\ sleeps \in Nat
  BY DEF PollInv, P!TypeOK
<1>2. CASE poll = "sleeping"
  <2>1. notify_ = sleeps /\ sleeps # 0 /\ \A t \in timers : t.nth = sleeps
    BY <1>2 DEF PollInv, P!NoLostWakeup, OwnTimer
  <2>2. timers' = {t \in timers : t.nth # notify_} /\ poll' = "woken" /\ notify_' = 0
    BY <1>2, <2>1 DEF P!Notify, P!None
  <2> QED  BY <1>2, <2>1, <2>2 DEF P!Stages
<1>3. CASE poll # "sleeping"
  <2>1. timers = {}
    BY <1>3 DEF PollInv, OwnTimer
  <2> QED  BY <1>1, <1>3, <2>1 DEF P!Notify, P!None
<1> QED  BY <1>2, <1>3

(* a signal that is sent *)
LEMMA SignalStep == PollInv /\ P!SendSignal => PollInv'
<1> SUFFICES ASSUME PollInv, P!SendSignal PROVE PollInv'
  OBVIOUS
<1>1. /\ sent' = sent + 1 /\ queue' = Append(queue, sent + 1) /\ P!Notify
      /\ UNCHANGED <<now, program, polls, subs, reply, sleeps, caught, pollData, received, got, read, reader_>>
  BY DEF P!SendSignal, P!clock, P!bytes, P!reading
<1>2. /\ sent \in Nat /\ caught \in Seq(Nat) /\ queue \in Seq(Nat) /\ reply.signals \in Seq(Nat)
      /\ (caught \o reply.signals) \o queue = [n \in 1..sent |-> n]
  BY DEF PollInv, P!TypeOK, P!SignalsOnceInOrder
<1>3. caught \o reply.signals \in Seq(Nat)
  BY <1>2, ConcatProperties
<1>4. /\ Append(queue, sent + 1) \in Seq(Nat)
      /\ (caught \o reply.signals) \o Append(queue, sent + 1) = [n \in 1..(sent + 1) |-> n]
  BY <1>2, <1>3, CountedOn
<1>5. P!SignalsOnceInOrder'
  BY <1>1, <1>4, Zenon DEF P!SignalsOnceInOrder
<1>6. P!TypeOK'
  BY <1>1, <1>2, <1>4, NotifyWakes DEF PollInv, P!TypeOK
<1> QED  BY <1>1, <1>5, <1>6, NotifyWakes, WokenUp

(* or a byte that arrives, with whichever bound. *)
LEMMA ByteArrives ==
  ASSUME PollInv, NEW fd \in P!Fds, P!OnRecv(fd) \/ Polls!OnRecv(fd)
  PROVE  /\ received' = [received EXCEPT ![fd] = @ + 1]
         /\ pollData' = [pollData EXCEPT ![fd] = Append(@, received[fd] + 1)]
         /\ P!Notify /\ reader_' \in {reader_, "awake"}
         /\ UNCHANGED <<now, program, polls, subs, reply, sleeps, queue, sent, caught, got, read>>
BY DEF P!OnRecv, Polls!OnRecv, P!Wake, Polls!Wake, P!Notify, Polls!Notify, P!None, Polls!None,
  P!clock, Polls!clock, P!signals, Polls!signals

(* It wakes up a poll and takes nothing away that was there. *)
LEMMA ByteStep ==
  ASSUME PollInv, NEW fd \in P!Fds, P!OnRecv(fd) \/ Polls!OnRecv(fd)
  PROVE  PollInv'
<1>1. /\ received' = [received EXCEPT ![fd] = @ + 1]
      /\ pollData' = [pollData EXCEPT ![fd] = Append(@, received[fd] + 1)]
      /\ P!Notify /\ reader_' \in {reader_, "awake"}
      /\ UNCHANGED <<now, program, polls, subs, reply, sleeps, queue, sent, caught, got, read>>
  BY ByteArrives
<1>2. received \in [P!Fds -> Nat] /\ pollData \in [P!Fds -> Seq(Nat)]
  BY DEF PollInv, P!TypeOK
<1>3. /\ Append(pollData[fd], received[fd] + 1) \in Seq(Nat)
      /\ Append(pollData[fd], received[fd] + 1) # <<>>
  <2>1. received[fd] + 1 \in Nat /\ pollData[fd] \in Seq(Nat)
    BY <1>2
  <2>2. Len(Append(pollData[fd], received[fd] + 1)) = Len(pollData[fd]) + 1 /\ Len(pollData[fd]) \in Nat
    BY <2>1, AppendProperties
  <2> QED  BY <2>1, <2>2
<1>4. received' \in [P!Fds -> Nat] /\ pollData' \in [P!Fds -> Seq(Nat)]
  BY <1>1, <1>2, <1>3
<1>5. \A f \in P!Fds : pollData[f] # <<>> => pollData'[f] # <<>>
  BY <1>1, <1>2, <1>3
<1>6. P!TypeOK'
  BY <1>1, <1>4, NotifyWakes DEF PollInv, P!TypeOK, P!Fds, P!Tty
<1>7. P!SignalsOnceInOrder'
  BY <1>1 DEF PollInv, P!SignalsOnceInOrder
<1> QED  BY <1>1, <1>5, <1>6, <1>7, NotifyWakes, WokenUp

(* The end of a poll delivers its signals. *)
LEMMA PollReturnStep == PollInv /\ P!PollReturn => PollInv'
<1> SUFFICES ASSUME PollInv, P!PollReturn PROVE PollInv'
  OBVIOUS
<1>1. /\ poll = "replied" /\ caught' = caught \o reply.signals
      /\ program' = "running" /\ poll' = "none" /\ reply' = [events |-> {}, signals |-> <<>>]
      /\ subs' = [fds |-> {}, deadline |-> P!Never]
      /\ UNCHANGED <<now, polls, timers, notify_, sleeps, queue, sent, pollData, received, got, read, reader_>>
  BY DEF P!PollReturn, P!NoReply, P!clock, P!bytes, P!reading
<1>2. caught \in Seq(Nat) /\ reply.signals \in Seq(Nat) /\ queue \in Seq(Nat)
  BY DEF PollInv, P!TypeOK
<1>3. caught' \in Seq(Nat) /\ caught' \o <<>> = caught'
  BY <1>1, <1>2, ConcatProperties, ConcatEmpty
<1>4. P!TypeOK'
  BY <1>1, <1>3, NoElements DEF PollInv, P!TypeOK, P!Stages, P!Never
<1>5. Handler' /\ OwnTimer' /\ P!NoLostWakeup' /\ P!EventsAreTrue'
  BY <1>1 DEF PollInv, Handler, OwnTimer, P!NoLostWakeup, P!EventsAreTrue
<1>6. P!SignalsOnceInOrder'
  <2>1. reply'.signals = <<>>
    BY <1>1
  <2>2. (caught' \o reply'.signals) \o queue' = (caught \o reply.signals) \o queue
    BY <1>1, <1>3, <2>1
  <2> QED  BY <1>1, <2>2 DEF PollInv, P!SignalsOnceInOrder
<1> QED  BY <1>4, <1>5, <1>6 DEF PollInv

(* A read begins when nothing is polled. *)
LEMMA ReadBegins ==
  ASSUME PollInv, NEW fd \in P!Fds, NEW iovs \in 1..MaxIovs, NEW block \in {"yes", "no"}, P!Read(fd, iovs, block)
  PROVE  PollInv'
<1>1. /\ program = "running" /\ program' = "reading"
      /\ read' = [fd |-> fd, left |-> iovs, acc |-> <<>>, block |-> block]
      /\ UNCHANGED <<now, polls, subs, poll, reply, timers, notify_, sleeps, queue, sent, caught,
                     pollData, received, got, reader_>>
  BY DEF P!Read, P!clock, P!polling, P!signals, P!bytes
<1>2. iovs \in Nat
  BY PollAssumption DEF P!ConstantsAssumption
<1>3. P!TypeOK'
  BY <1>1, <1>2, NoElements DEF PollInv, P!TypeOK
<1>4. poll = "none"
  BY <1>1 DEF PollInv, Handler
<1> QED  BY <1>1, <1>3, <1>4, NotPolling

(* A buffer takes the first byte there is, and the rest stays. *)
LEMMA NextByte ==
  ASSUME NEW s \in Seq(Nat), NEW a \in Seq(Nat)
  PROVE  /\ a \o P!First(s) \in Seq(Nat) /\ P!Rest(s) \in Seq(Nat)
         /\ (a \o P!First(s)) \o P!Rest(s) = a \o s
<1>1. CASE s = <<>>
  <2>1. P!First(s) = <<>> /\ P!Rest(s) = <<>> /\ a \o <<>> = a
    BY <1>1, ConcatEmpty DEF P!First, P!Rest
  <2> QED  BY <1>1, <2>1, NoElements, Zenon
<1>2. CASE s # <<>>
  <2>1. P!First(s) = <<Head(s)>> /\ P!Rest(s) = Tail(s) /\ Head(s) \in Nat /\ Tail(s) \in Seq(Nat)
    BY <1>2, TailProperties DEF P!First, P!Rest
  <2>2. a \o <<Head(s)>> = Append(a, Head(s)) /\ Append(a, Head(s)) \in Seq(Nat)
    BY <2>1
  <2>3. Append(a, Head(s)) \o Tail(s) = a \o s
    BY <1>2, MoveAcross
  <2> QED  BY <2>1, <2>2, <2>3
<1> QED  BY <1>1, <1>2

(* Bytes are taken, and a reader waits, gives up or returns: none of it     *)
(* while a poll could be looking.                                           *)
LEMMA FillStep == PollInv /\ P!FillIov => PollInv'
<1> SUFFICES ASSUME PollInv, P!FillIov PROVE PollInv'
  OBVIOUS
<1>1. /\ program = "reading" /\ read.left > 0 /\ reader_' = "none"
      /\ read' = [read EXCEPT !.left = @ - 1, !.acc = @ \o P!First(pollData[read.fd])]
      /\ pollData' = [pollData EXCEPT ![read.fd] = P!Rest(@)]
      /\ UNCHANGED <<now, program, polls, subs, poll, reply, timers, notify_, sleeps, queue, sent, caught, received, got>>
  BY DEF P!FillIov, P!clock, P!polling, P!signals
<1>2. /\ read \in [fd : P!Fds, left : Nat, acc : Seq(Nat), block : {"yes", "no"}]
      /\ pollData \in [P!Fds -> Seq(Nat)]
  BY DEF PollInv, P!TypeOK
<1>3. read.acc \o P!First(pollData[read.fd]) \in Seq(Nat) /\ P!Rest(pollData[read.fd]) \in Seq(Nat)
  BY <1>2, NextByte
<1>4. read' \in [fd : P!Fds, left : Nat, acc : Seq(Nat), block : {"yes", "no"}]
  <2> DEFINE acc == read.acc \o P!First(pollData[read.fd])
  <2>1. read.left - 1 \in Nat /\ acc \in Seq(Nat)
    BY <1>1, <1>2, <1>3
  <2>2. read' = [read EXCEPT !.left = read.left - 1, !.acc = acc]
    BY <1>1
  <2> HIDE DEF acc
  <2> QED  BY <1>2, <2>1, <2>2
<1>5. pollData' \in [P!Fds -> Seq(Nat)]
  BY <1>1, <1>2, <1>3
<1>6. P!TypeOK'
  BY <1>1, <1>4, <1>5 DEF PollInv, P!TypeOK, P!Fds, P!Tty
<1>7. poll = "none"
  BY <1>1 DEF PollInv, Handler
<1> QED  BY <1>1, <1>6, <1>7, NotPolling

(* The same of the reader's other steps. *)
LEMMA ReaderStep == PollInv /\ (P!BlockReader \/ P!ReadAgain \/ P!ReadReturn) => PollInv'
<1> SUFFICES ASSUME PollInv, P!BlockReader \/ P!ReadAgain \/ P!ReadReturn PROVE PollInv'
  OBVIOUS
<1>1. /\ program = "reading"
      /\ UNCHANGED <<now, polls, subs, poll, reply, timers, notify_, sleeps, queue, sent, caught, pollData, received>>
  BY DEF P!BlockReader, P!ReadAgain, P!ReadReturn, P!clock, P!polling, P!signals, P!bytes
<1>2. poll = "none"
  BY <1>1 DEF PollInv, Handler
<1>3. P!NoRead \in [fd : P!Fds, left : Nat, acc : Seq(Nat), block : {"yes", "no"}]
  BY NoElements, Names DEF P!NoRead
<1>4. P!TypeOK'
  <2>1. CASE P!BlockReader
    BY <1>1, <2>1 DEF PollInv, P!TypeOK, P!BlockReader, P!bytes, P!Fds, P!Tty
  <2>2. CASE P!ReadAgain
    BY <1>1, <1>3, <2>2 DEF PollInv, P!TypeOK, P!ReadAgain, P!bytes, P!Fds, P!Tty
  <2>3. CASE P!ReadReturn
    <3>1. got' = [got EXCEPT ![read.fd] = @ \o read.acc] /\ got \in [P!Fds -> Seq(Nat)]
          /\ read.fd \in P!Fds /\ read.acc \in Seq(Nat)
      BY <2>3 DEF P!ReadReturn, PollInv, P!TypeOK
    <3>2. got[read.fd] \o read.acc \in Seq(Nat)
      BY <3>1, ConcatProperties
    <3>3. got' \in [P!Fds -> Seq(Nat)]
      BY <3>1, <3>2
    <3> QED  BY <1>1, <1>3, <2>3, <3>3 DEF PollInv, P!TypeOK, P!ReadReturn, P!Fds, P!Tty
  <2> QED  BY <2>1, <2>2, <2>3
<1> QED  BY <1>1, <1>2, <1>4, NotPolling

(* So every step keeps the invariant. *)
LEMMA PollInvStep == PollInv /\ PollStep => PollInv'
BY TickStep, ScanStep, TimerStep, PollReturnStep, SignalStep, FillStep, ReaderStep, PollBegins, ByteStep,
  ReadBegins DEF PollStep

-----------------------------------------------------------------------------
(* Bytes that are read.                                                    *)

(* A read that has bytes has filled its one buffer; no other holds any. *)
OneBuffer ==
  /\ program # "reading" => read = P!NoRead
  /\ read.left > 0 => read.left = 1 /\ read.acc = <<>>

(* What the read in progress holds of a descriptor. *)
Held(fd) == IF read.fd = fd THEN read.acc ELSE <<>>

(* The bytes of one descriptor. *)
InOrder(fd) == got[fd] \o Held(fd) \o pollData[fd] = [n \in 1..received[fd] |-> n]

(* With one buffer, no byte is dropped. *)
BytesInv == OneBuffer /\ P!BytesReachProgram

(* The property is about each descriptor on its own. *)
LEMMA BytesAreInOrder == P!BytesReachProgram <=> \A fd \in P!Fds : InOrder(fd)
BY Zenon DEF P!BytesReachProgram, InOrder, Held

(* Where the bytes of a descriptor are. *)
LEMMA ByteTypes ==
  ASSUME PollInv, NEW fd \in P!Fds
  PROVE  /\ got[fd] \in Seq(Nat) /\ pollData[fd] \in Seq(Nat) /\ Held(fd) \in Seq(Nat)
         /\ read.acc \in Seq(Nat) /\ read.fd \in P!Fds
         /\ received[fd] \in Nat /\ got[fd] \o Held(fd) \in Seq(Nat)
<1>1. /\ got \in [P!Fds -> Seq(Nat)] /\ pollData \in [P!Fds -> Seq(Nat)] /\ received \in [P!Fds -> Nat]
      /\ read \in [fd : P!Fds, left : Nat, acc : Seq(Nat), block : {"yes", "no"}]
  BY DEF PollInv, P!TypeOK
<1>2. Held(fd) \in Seq(Nat)
  BY <1>1, NoElements DEF Held
<1>3. got[fd] \in Seq(Nat)
  BY <1>1
<1> QED  BY <1>1, <1>2, <1>3, ConcatProperties

(* At first there are none. *)
LEMMA BytesInit == P!Init => BytesInv
<1> SUFFICES ASSUME P!Init PROVE BytesInv
  OBVIOUS
<1>1. OneBuffer
  BY DEF P!Init, OneBuffer, P!NoRead
<1>2. ASSUME NEW fd \in P!Fds PROVE InOrder(fd)
  <2>1. got[fd] = <<>> /\ Held(fd) = <<>> /\ pollData[fd] = <<>> /\ received[fd] = 0
    BY DEF P!Init, P!NoRead, Held
  <2>2. (<<>> \o <<>>) \o <<>> = <<>> /\ [n \in 1..0 |-> n] = <<>>
    OBVIOUS
  <2> QED  BY <2>1, <2>2 DEF InOrder
<1> QED  BY <1>1, <1>2, BytesAreInOrder DEF BytesInv

(* A step that touches no bytes. *)
LEMMA BytesStay ==
  ASSUME BytesInv, program' # "reading" => program # "reading", UNCHANGED <<read, pollData, received, got>>
  PROVE  BytesInv'
BY Zenon DEF BytesInv, OneBuffer, P!BytesReachProgram, P!NoRead, P!Fds, P!Tty

(* A byte that arrives is the next one. *)
LEMMA ByteArrivesInOrder ==
  ASSUME PollInv, BytesInv, NEW fd \in P!Fds, P!OnRecv(fd) \/ Polls!OnRecv(fd)
  PROVE  BytesInv'
<1>1. /\ received' = [received EXCEPT ![fd] = @ + 1]
      /\ pollData' = [pollData EXCEPT ![fd] = Append(@, received[fd] + 1)]
      /\ UNCHANGED <<program, got, read>>
  BY ByteArrives
<1>2. pollData \in [P!Fds -> Seq(Nat)] /\ received \in [P!Fds -> Nat]
  BY DEF PollInv, P!TypeOK
<1>3. ASSUME NEW f \in P!Fds PROVE InOrder(f)'
  <2>1. Held(f)' = Held(f) /\ got'[f] = got[f]
    BY <1>1 DEF Held
  <2>2. InOrder(f)
    BY BytesAreInOrder DEF BytesInv
  <2>3. CASE f = fd
    <3>1. pollData'[f] = Append(pollData[f], received[f] + 1) /\ received'[f] = received[f] + 1
      BY <1>1, <1>2, <2>3
    <3>2. (got[f] \o Held(f)) \o Append(pollData[f], received[f] + 1) = [n \in 1..(received[f] + 1) |-> n]
      BY <2>2, ByteTypes, CountedOn DEF InOrder
    <3> QED  BY <2>1, <3>1, <3>2, Zenon DEF InOrder
  <2>4. CASE f # fd
    <3>1. pollData'[f] = pollData[f] /\ received'[f] = received[f]
      BY <1>1, <1>2, <2>4
    <3> QED  BY <2>1, <2>2, <3>1, Zenon DEF InOrder
  <2> QED  BY <2>3, <2>4
<1>4. OneBuffer'
  BY <1>1 DEF BytesInv, OneBuffer, P!NoRead, P!Tty
<1>5. P!BytesReachProgram'
  BY <1>3, Zenon DEF P!BytesReachProgram, InOrder, Held, P!Fds, P!Tty
<1> QED  BY <1>4, <1>5 DEF BytesInv

(* When a read begins nothing is held, and when one is given up nothing was. *)
LEMMA NothingHeld ==
  ASSUME PollInv, BytesInv, read.acc = <<>>, read'.acc = <<>>, OneBuffer', UNCHANGED <<pollData, received, got>>
  PROVE  BytesInv'
<1>1. ASSUME NEW f \in P!Fds PROVE InOrder(f)'
  <2>1. Held(f)' = Held(f)
    BY DEF Held
  <2>2. InOrder(f)
    BY BytesAreInOrder DEF BytesInv
  <2> QED  BY <2>1, <2>2, Zenon DEF InOrder
<1>2. P!BytesReachProgram'
  BY <1>1, Zenon DEF P!BytesReachProgram, InOrder, Held, P!Fds, P!Tty
<1> QED  BY <1>2 DEF BytesInv

(* A byte that is taken is held in its place. *)
LEMMA BufferIsFilled ==
  ASSUME PollInv, BytesInv, P!FillIov
  PROVE  BytesInv'
<1> DEFINE acc == read.acc \o P!First(pollData[read.fd])
           rest == P!Rest(pollData[read.fd])
<1>1. /\ program = "reading" /\ program' = "reading" /\ read.left > 0
      /\ read' = [read EXCEPT !.left = read.left - 1, !.acc = acc]
      /\ pollData' = [pollData EXCEPT ![read.fd] = rest]
      /\ UNCHANGED <<received, got>>
  BY DEF P!FillIov
<1>2. /\ pollData \in [P!Fds -> Seq(Nat)]
      /\ read \in [fd : P!Fds, left : Nat, acc : Seq(Nat), block : {"yes", "no"}]
  BY DEF PollInv, P!TypeOK
<1>3. acc \in Seq(Nat) /\ rest \in Seq(Nat) /\ acc \o rest = read.acc \o pollData[read.fd]
  BY <1>2, NextByte
<1> HIDE DEF acc, rest
<1>4. read'.fd = read.fd /\ read'.acc = acc /\ read'.left = read.left - 1
  BY <1>1, <1>2
<1>5. OneBuffer'
  BY <1>1, <1>2, <1>4 DEF BytesInv, OneBuffer
<1>6. ASSUME NEW f \in P!Fds PROVE InOrder(f)'
  <2>1. InOrder(f) /\ got'[f] = got[f] /\ received'[f] = received[f]
    BY <1>1, BytesAreInOrder DEF BytesInv
  <2>2. CASE f = read.fd
    <3>1. Held(f) = read.acc /\ Held(f)' = acc /\ pollData'[f] = rest
      BY <1>1, <1>2, <1>4, <2>2 DEF Held
    <3>2. got[f] \in Seq(Nat) /\ read.acc \in Seq(Nat) /\ pollData[f] \in Seq(Nat)
      BY ByteTypes
    <3>3. acc \o rest = read.acc \o pollData[f]
      BY <1>3, <2>2
    <3>4. (got[f] \o acc) \o rest = got[f] \o (acc \o rest)
      <4>1. Associative(Nat)
        BY ConcatAssociative
      <4> QED  BY <1>3, <3>2, <4>1, Zenon DEF Associative
    <3>5. (got[f] \o read.acc) \o pollData[f] = got[f] \o (read.acc \o pollData[f])
      <4>1. Associative(Nat)
        BY ConcatAssociative
      <4> QED  BY <3>2, <4>1, Zenon DEF Associative
    <3>6. (got[f] \o acc) \o rest = (got[f] \o read.acc) \o pollData[f]
      BY <3>3, <3>4, <3>5, Zenon
    <3> QED  BY <2>1, <3>1, <3>6, Zenon DEF InOrder
  <2>3. CASE f # read.fd
    <3>1. Held(f) = <<>> /\ Held(f)' = <<>> /\ pollData'[f] = pollData[f]
      BY <1>1, <1>2, <1>4, <2>3 DEF Held
    <3> QED  BY <2>1, <3>1, Zenon DEF InOrder
  <2> QED  BY <2>2, <2>3
<1>7. P!BytesReachProgram'
  BY <1>6, Zenon DEF P!BytesReachProgram, InOrder, Held, P!Fds, P!Tty
<1> QED  BY <1>5, <1>7 DEF BytesInv

(* What was held is given to the program. *)
LEMMA ReadIsGiven ==
  ASSUME PollInv, BytesInv, P!ReadReturn
  PROVE  BytesInv'
<1>1. /\ got' = [got EXCEPT ![read.fd] = got[read.fd] \o read.acc]
      /\ read' = P!NoRead /\ UNCHANGED <<received, pollData>>
  BY DEF P!ReadReturn
<1>2. got \in [P!Fds -> Seq(Nat)]
  BY DEF PollInv, P!TypeOK
<1>3. OneBuffer'
  BY <1>1 DEF OneBuffer, P!NoRead, P!Tty
<1>4. ASSUME NEW f \in P!Fds PROVE InOrder(f)'
  <2>1. InOrder(f) /\ pollData'[f] = pollData[f] /\ received'[f] = received[f] /\ Held(f)' = <<>>
    BY <1>1, BytesAreInOrder DEF BytesInv, Held, P!NoRead
  <2>2. got'[f] = got[f] \o Held(f)
    <3>1. CASE f = read.fd
      BY <1>1, <1>2, <3>1 DEF Held
    <3>2. CASE f # read.fd
      <4>1. got[f] \o <<>> = got[f]
        BY ByteTypes, ConcatEmpty
      <4> QED  BY <1>1, <1>2, <3>2, <4>1 DEF Held
    <3> QED  BY <3>1, <3>2
  <2>3. (got[f] \o Held(f)) \o <<>> = got[f] \o Held(f)
    BY ByteTypes, ConcatEmpty
  <2>4. got'[f] \o Held(f)' = got[f] \o Held(f)
    BY <2>1, <2>2, <2>3, Zenon
  <2> QED  BY <2>1, <2>4, Zenon DEF InOrder
<1>5. P!BytesReachProgram'
  BY <1>4, Zenon DEF P!BytesReachProgram, InOrder, Held, P!Fds, P!Tty
<1> QED  BY <1>3, <1>5 DEF BytesInv

(* So is every step, when a read has one buffer: with more, the EAGAIN of   *)
(* a later one would drop what an earlier one holds.                        *)
LEMMA BytesStep ==
  ASSUME MaxIovs = 1, PollInv, BytesInv, PollStep
  PROVE  BytesInv'
<1>1. ASSUME P!Tick \/ P!Scan \/ (\E t \in timers : P!TimerFires(t)) \/ P!PollReturn \/ P!SendSignal \/ P!BlockReader
      PROVE  BytesInv'
  <2>1. UNCHANGED <<read, pollData, received, got>> /\ (program' # "reading" => program # "reading")
    BY <1>1 DEF P!Tick, P!Scan, P!TimerFires, P!PollReturn, P!SendSignal, P!BlockReader, P!bytes, P!reading,
      PollInv, Handler
  <2> QED  BY <2>1, BytesStay
<1>2. ASSUME NEW fds \in SUBSET (P!Fds \cup {P!Ready}), NEW timeout \in {P!Never} \cup 0..MaxTime,
             P!Poll(fds, timeout) \/ Polls!Poll(fds, timeout)
      PROVE  BytesInv'
  <2>1. UNCHANGED <<read, pollData, received, got>> /\ program = "running"
    BY <1>2 DEF P!Poll, Polls!Poll, P!bytes, Polls!bytes, P!reading, Polls!reading
  <2> QED  BY <2>1, BytesStay
<1>3. ASSUME NEW fd \in P!Fds, NEW iovs \in 1..MaxIovs, NEW block \in {"yes", "no"}, P!Read(fd, iovs, block)
      PROVE  BytesInv'
  <2>1. /\ program = "running" /\ program' = "reading" /\ UNCHANGED <<pollData, received, got>>
        /\ read' = [fd |-> fd, left |-> 1, acc |-> <<>>, block |-> block]
    BY <1>3 DEF P!Read, P!bytes
  <2>2. read.acc = <<>>
    BY <2>1 DEF BytesInv, OneBuffer, P!NoRead
  <2> QED  BY <2>1, <2>2, NothingHeld DEF OneBuffer
<1>4. CASE P!ReadAgain
  <2>1. read.left > 0 /\ read' = P!NoRead /\ UNCHANGED <<pollData, received, got>>
    BY <1>4 DEF P!ReadAgain, P!bytes
  <2>2. read.acc = <<>> /\ read'.acc = <<>> /\ OneBuffer'
    BY <2>1 DEF BytesInv, OneBuffer, P!NoRead, P!Tty
  <2> QED  BY <2>1, <2>2, NothingHeld
<1> QED  BY <1>1, <1>2, <1>3, <1>4, ByteArrivesInOrder, BufferIsFilled, ReadIsGiven DEF PollStep

-----------------------------------------------------------------------------
(* The bridge with late wake-ups. *)

LateBridge == INSTANCE SyscallBridge_proofs WITH LateNotify <- TRUE,
        worker <- worker2, calls <- calls2, seen <- seen2, ended <- ended2, lock <- lock2,
        retcode <- retcode2, data <- data2, toMain <- toMain2, handling <- handling2,
        resolve_ <- resolve2, outcome <- outcome2, process_ <- process2

(* Its steps are those the proofs are about. *)
LEMMA LateSteps == Late!Next => LateBridge!Next
<1>1. Late!Load => LateBridge!Load
  BY Zenon DEF Late!Load, LateBridge!Load, Late!Error, LateBridge!Error, Late!shared, LateBridge!shared, Late!promise, LateBridge!promise, Late!thread, LateBridge!thread
<1>2. Late!Dispatch => LateBridge!Dispatch
  BY Zenon DEF Late!Dispatch, LateBridge!Dispatch, Late!Syscall, LateBridge!Syscall, Late!shared, LateBridge!shared, Late!promise, LateBridge!promise, Late!thread, LateBridge!thread
<1>3. Late!Overlapped => LateBridge!Overlapped
  BY Zenon DEF Late!Overlapped, LateBridge!Overlapped, Late!ENOTRECOVERABLE, LateBridge!ENOTRECOVERABLE, Late!shared, LateBridge!shared, Late!promise, LateBridge!promise, Late!thread, LateBridge!thread
<1>4. Late!Wait => LateBridge!Wait
  BY Zenon DEF Late!Wait, LateBridge!Wait, Late!NotifyPending, LateBridge!NotifyPending, Late!shared, LateBridge!shared, Late!promise, LateBridge!promise, Late!thread, LateBridge!thread
<1>5. Late!Return => LateBridge!Return
  BY Zenon DEF Late!Return, LateBridge!Return, Late!Result, LateBridge!Result, Late!shared, LateBridge!shared, Late!promise, LateBridge!promise, Late!thread, LateBridge!thread
<1>6. Late!ReturnFromMain => LateBridge!ReturnFromMain
  BY Zenon DEF Late!ReturnFromMain, LateBridge!ReturnFromMain, Late!FirstEnd, LateBridge!FirstEnd, Late!Exit, LateBridge!Exit, Late!Exited, LateBridge!Exited, Late!NotYet, LateBridge!NotYet, Late!shared, LateBridge!shared, Late!promise, LateBridge!promise, Late!thread, LateBridge!thread
<1>7. Late!ProcRaise => LateBridge!ProcRaise
  BY Zenon DEF Late!ProcRaise, LateBridge!ProcRaise, Late!Signal, LateBridge!Signal, Late!FirstEnd, LateBridge!FirstEnd, Late!Signalled, LateBridge!Signalled, Late!NotYet, LateBridge!NotYet, Late!shared, LateBridge!shared, Late!promise, LateBridge!promise, Late!thread, LateBridge!thread
<1>8. Late!Unreachable => LateBridge!Unreachable
  BY Zenon DEF Late!Unreachable, LateBridge!Unreachable, Late!Exit, LateBridge!Exit, Late!ABORTED, LateBridge!ABORTED, Late!FirstEnd, LateBridge!FirstEnd, Late!Exited, LateBridge!Exited, Late!NotYet, LateBridge!NotYet, Late!shared, LateBridge!shared, Late!promise, LateBridge!promise, Late!thread, LateBridge!thread
<1>9. Late!OtherTrap => LateBridge!OtherTrap
  BY Zenon DEF Late!OtherTrap, LateBridge!OtherTrap, Late!shared, LateBridge!shared, Late!promise, LateBridge!promise, Late!thread, LateBridge!thread
<1>10. Late!Run => LateBridge!Run
  BY Zenon DEF Late!Run, LateBridge!Run, Late!shared, LateBridge!shared, Late!promise, LateBridge!promise, Late!thread, LateBridge!thread
<1>11. Late!OnSyscall => LateBridge!OnSyscall
  BY Zenon DEF Late!OnSyscall, LateBridge!OnSyscall, Late!Message, LateBridge!Message, Late!Idle, LateBridge!Idle, Late!shared, LateBridge!shared, Late!promise, LateBridge!promise, Late!thread, LateBridge!thread
<1>12. Late!OnExit => LateBridge!OnExit
  BY Zenon DEF Late!OnExit, LateBridge!OnExit, Late!Message, LateBridge!Message, Late!Idle, LateBridge!Idle, Late!Terminate, LateBridge!Terminate, Late!Exited, LateBridge!Exited, Late!Null, LateBridge!Null, Late!shared, LateBridge!shared, Late!promise, LateBridge!promise, Late!thread, LateBridge!thread
<1>13. Late!OnSignal => LateBridge!OnSignal
  BY Zenon DEF Late!OnSignal, LateBridge!OnSignal, Late!Message, LateBridge!Message, Late!Idle, LateBridge!Idle, Late!Terminate, LateBridge!Terminate, Late!Signalled, LateBridge!Signalled, Late!Null, LateBridge!Null, Late!shared, LateBridge!shared, Late!promise, LateBridge!promise, Late!thread, LateBridge!thread
<1>14. Late!OnError => LateBridge!OnError
  BY Zenon DEF Late!OnError, LateBridge!OnError, Late!Message, LateBridge!Message, Late!Idle, LateBridge!Idle, Late!Terminate, LateBridge!Terminate, Late!Failed, LateBridge!Failed, Late!Null, LateBridge!Null, Late!shared, LateBridge!shared, Late!promise, LateBridge!promise, Late!thread, LateBridge!thread
<1>15. Late!HostTerminate => LateBridge!HostTerminate
  BY Zenon DEF Late!HostTerminate, LateBridge!HostTerminate, Late!Idle, LateBridge!Idle, Late!Terminate, LateBridge!Terminate, Late!Undefined, LateBridge!Undefined, Late!Null, LateBridge!Null, Late!shared, LateBridge!shared, Late!promise, LateBridge!promise, Late!thread, LateBridge!thread
<1>16. ASSUME NEW status PROVE Late!ProcExit(status) => LateBridge!ProcExit(status)
  BY Zenon DEF Late!ProcExit, LateBridge!ProcExit, Late!Exit, LateBridge!Exit, Late!Exited, LateBridge!Exited, Late!FirstEnd, LateBridge!FirstEnd, Late!NotYet, LateBridge!NotYet, Late!shared, LateBridge!shared, Late!promise, LateBridge!promise, Late!thread, LateBridge!thread
<1>17. ASSUME NEW id PROVE Late!HandlerErrno(id) => LateBridge!HandlerErrno(id)
  BY Zenon DEF Late!HandlerErrno, LateBridge!HandlerErrno, Late!Idle, LateBridge!Idle, Late!shared, LateBridge!shared, Late!promise, LateBridge!promise, Late!thread, LateBridge!thread
<1>18. ASSUME NEW id PROVE Late!HandlerObject(id) => LateBridge!HandlerObject(id)
  BY Zenon DEF Late!HandlerObject, LateBridge!HandlerObject, Late!Idle, LateBridge!Idle, Late!shared, LateBridge!shared, Late!promise, LateBridge!promise, Late!thread, LateBridge!thread
<1>19. ASSUME NEW id PROVE Late!HandlerThrows(id) => LateBridge!HandlerThrows(id)
  BY Zenon DEF Late!HandlerThrows, LateBridge!HandlerThrows, Late!Idle, LateBridge!Idle, Late!Terminate, LateBridge!Terminate, Late!Failed, LateBridge!Failed, Late!Null, LateBridge!Null, Late!shared, LateBridge!shared, Late!promise, LateBridge!promise, Late!thread, LateBridge!thread
<1>20. ASSUME NEW id PROVE Late!SetRetcode(id) => LateBridge!SetRetcode(id)
  BY Zenon DEF Late!SetRetcode, LateBridge!SetRetcode, Late!shared, LateBridge!shared, Late!promise, LateBridge!promise, Late!thread, LateBridge!thread
<1>21. ASSUME NEW id PROVE Late!Store(id) => LateBridge!Store(id)
  BY Zenon DEF Late!Store, LateBridge!Store, Late!shared, LateBridge!shared, Late!promise, LateBridge!promise, Late!thread, LateBridge!thread
<1>22. ASSUME NEW id PROVE Late!Notify(id) => LateBridge!Notify(id)
  BY Zenon DEF Late!Notify, LateBridge!Notify, Late!shared, LateBridge!shared, Late!promise, LateBridge!promise, Late!thread, LateBridge!thread
<1> QED  BY <1>1, <1>2, <1>3, <1>4, <1>5, <1>6, <1>7, <1>8, <1>9, <1>10, <1>11, <1>12, <1>13, <1>14, <1>15, <1>16, <1>17, <1>18, <1>19, <1>20, <1>21, <1>22, Zenon DEF Late!Next, LateBridge!Next, Late!WorkerStep, LateBridge!WorkerStep, Late!HandlerStep, LateBridge!HandlerStep


(* So what they show at first and of every step goes for it. *)
LEMMA LateInit == Late!Init => LateBridge!SettledInv
<1>1. Late!Init => LateBridge!Init
  BY Zenon DEF Late!Init, LateBridge!Init, Late!Null, LateBridge!Null, Late!NotYet, LateBridge!NotYet
<1>2. LateBridge!ConstantsAssumption
  BY ConstantsAssumption DEF LateBridge!ConstantsAssumption, LateBridge!ABORTED, ABORTED
<1> QED  BY <1>1, <1>2, LateBridge!SettledInit

(* A step keeps its invariant, and a settled run() settled. *)
LEMMA LateStep == LateBridge!SettledInv /\ [Late!Next]_lateVars => LateBridge!SettledInv' /\ LateBridge!Settled
<1>1. [Late!Next]_lateVars => [LateBridge!Next]_LateBridge!vars
  BY LateSteps DEF lateVars, LateBridge!vars, LateBridge!thread, LateBridge!shared, LateBridge!promise
<1>2. LateBridge!ConstantsAssumption
  BY ConstantsAssumption DEF LateBridge!ConstantsAssumption, LateBridge!ABORTED, ABORTED
<1> QED  BY <1>1, <1>2, LateBridge!SettledStep


-----------------------------------------------------------------------------
(* All of them. *)

(* Each part has its invariant, whichever part a behaviour is of. *)
ProgramInv == SettledInv /\ LateBridge!SettledInv /\ PollInv /\ SocketInv

(* They hold at first. *)
LEMMA ProgramInit == MCInit => ProgramInv
BY SettledInit, LateInit, PollInit, SocketInit DEF MCInit, ProgramInv

(* A step is of one part, and leaves the others alone. *)
LEMMA ProgramStep == [MCNext]_allVars =>
  /\ [Next]_vars /\ [Late!Next]_lateVars
  /\ PollStep \/ UNCHANGED pollVars
  /\ S!Next \/ UNCHANGED socketVars
<1>1. UNCHANGED allVars => UNCHANGED <<vars, lateVars, pollVars, socketVars>>
  BY DEF allVars
<1>2. MCNext =>
        /\ Next \/ UNCHANGED vars
        /\ Late!Next \/ UNCHANGED lateVars
        /\ P!Next \/ Polls!Next \/ UNCHANGED pollVars
        /\ S!Next \/ UNCHANGED socketVars
  BY Zenon DEF MCNext
<1> QED  BY <1>1, <1>2, PollSteps

(* A part that is left alone keeps its invariant. *)
LEMMA PollStays == PollInv /\ UNCHANGED pollVars => PollInv'
BY Zenon DEF pollVars, PollInv, P!TypeOK, Handler, OwnTimer, P!NoLostWakeup, P!EventsAreTrue, P!SignalsOnceInOrder,
  P!Fds, P!Tty, P!Ready, P!Never, P!Stages, P!OnlyClock

(* The same of the sockets. *)
LEMMA SocketsStay == SocketInv /\ UNCHANGED socketVars => SocketInv'
BY Zenon DEF socketVars, SocketInv, S!TypeOK, S!NobodyWaitsInVain, S!ClientsInOrder, S!Kinds, S!Closers

(* Every step keeps all of them. *)
LEMMA ProgramInvStep == ProgramInv /\ [MCNext]_allVars => ProgramInv'
<1> SUFFICES ASSUME ProgramInv, [MCNext]_allVars PROVE ProgramInv'
  OBVIOUS
<1>1. SettledInv' /\ LateBridge!SettledInv'
  BY ProgramStep, SettledStep, LateStep DEF ProgramInv
<1>2. PollInv'
  BY ProgramStep, PollInvStep, PollStays DEF ProgramInv
<1>3. SocketInv'
  BY ProgramStep, SocketStep, SocketsStay DEF ProgramInv
<1> QED  BY <1>1, <1>2, <1>3 DEF ProgramInv

(* The invariant behind the theorems below. *)
THEOREM ProgramInvariant == MCSpec => []ProgramInv
BY ProgramInit, ProgramInvStep, PTL DEF MCSpec

(* Every variable of every part keeps its type. *)
THEOREM TypesHold == MCSpec => []TypesOK
<1>1. LateBridge!TypeOK => Late!TypeOK
  BY Zenon DEF LateBridge!TypeOK, Late!TypeOK, LateBridge!Messages, Late!Messages, LateBridge!Reasons, Late!Reasons, LateBridge!ENOTRECOVERABLE,
    Late!ENOTRECOVERABLE, LateBridge!NotYet, Late!NotYet, LateBridge!Signalled, Late!Signalled, LateBridge!Failed, Late!Failed,
    LateBridge!Undefined, Late!Undefined, LateBridge!Null, Late!Null
<1>2. ProgramInv => TypesOK
  BY <1>1, Zenon DEF ProgramInv, LateBridge!SettledInv, PollInv, SocketInv, TypesOK
<1> QED  BY <1>2, ProgramInvariant, PTL

(* No read, accept or poll waits for what is there, and clients are         *)
(* accepted once each and in order.                                         *)
THEOREM SocketsHold == MCSpec => []SocketsInOrder
<1>1. ProgramInv => SocketsInOrder
  BY DEF ProgramInv, SocketInv, SocketsInOrder
<1> QED  BY <1>1, ProgramInvariant, PTL

(* A poll never sleeps through what would end it, has one timer while it    *)
(* sleeps and none otherwise, and reports nothing that is not so.           *)
THEOREM PollsHold == MCSpec => []PollsAreTrue
<1>1. PollInv => P!OneTimer
  <2> SUFFICES ASSUME PollInv PROVE P!OneTimer
    OBVIOUS
  <2>1. CASE poll = "sleeping"
    <3>1. PICK d \in Nat : timers = {[due |-> d, nth |-> sleeps]}
      BY <2>1 DEF PollInv, OwnTimer
    <3>2. Cardinality(timers) = 1
      BY <3>1, FS_Singleton
    <3>3. P!Cardinality(timers) = Cardinality(timers)
      BY DEF P!Cardinality, Cardinality
    <3> QED  BY <2>1, <3>1, <3>2, <3>3 DEF P!OneTimer
  <2>2. CASE poll # "sleeping"
    BY <2>2 DEF PollInv, OwnTimer, P!OneTimer
  <2> QED  BY <2>1, <2>2
<1>2. ProgramInv => PollsAreTrue
  BY <1>1 DEF ProgramInv, PollInv, PollsAreTrue
<1> QED  BY <1>2, ProgramInvariant, PTL

(* Signals reach the program once each and in order, whatever is read. *)
THEOREM SignalsHold == MCSpec => []P!SignalsOnceInOrder
<1>1. ProgramInv => P!SignalsOnceInOrder
  BY DEF ProgramInv, PollInv
<1> QED  BY <1>1, ProgramInvariant, PTL

(* With reads of one buffer, which is what read() makes, bytes do so too.   *)
THEOREM ProgramIsReached ==
  ASSUME MaxIovs = 1
  PROVE  MCSpec => []ReachesProgram
<1>1. MCInit => ProgramInv /\ BytesInv
  BY ProgramInit, BytesInit DEF MCInit
<1>2. BytesInv /\ UNCHANGED pollVars => BytesInv'
  BY Zenon DEF pollVars, BytesInv, OneBuffer, P!BytesReachProgram, P!NoRead, P!Fds, P!Tty
<1>3. ProgramInv /\ BytesInv /\ [MCNext]_allVars => (ProgramInv /\ BytesInv)'
  BY <1>2, ProgramInvStep, ProgramStep, BytesStep DEF ProgramInv
<1>4. ProgramInv /\ BytesInv => ReachesProgram
  BY DEF ProgramInv, PollInv, BytesInv, ReachesProgram
<1> QED  BY <1>1, <1>3, <1>4, PTL DEF MCSpec

(* run() is settled once, with the way the program ended first, whether or  *)
(* not wake-ups come late.                                                  *)
THEOREM SettledOnceAndForAll == MCSpec => SettledStays
<1>1. MCInit => ProgramInv
  BY ProgramInit
<1>2. ProgramInv /\ [MCNext]_allVars => [Settled]_vars /\ [LateBridge!Settled]_lateVars
  BY ProgramStep, SettledStep, LateStep DEF ProgramInv
<1>3. LateBridge!ExitStatusKept => Late!ExitStatusKept
  BY Zenon DEF LateBridge!ExitStatusKept, Late!ExitStatusKept
<1>4. ProgramInv => ExitStatusKept /\ Late!ExitStatusKept
  BY <1>3, Zenon DEF ProgramInv, SettledInv, LateBridge!SettledInv
<1>5. MCSpec => [](ExitStatusKept /\ Late!ExitStatusKept)
  BY <1>4, ProgramInvariant, PTL
<1>6. MCSpec => [][Settled]_vars /\ [][LateBridge!Settled]_lateVars
  BY <1>2, ProgramInvariant, PTL DEF MCSpec
<1>7. [Settled]_vars => [outcome # NotYet =>
       /\ UNCHANGED outcome
       /\ \A id \in 1..MaxCalls : handling[id] = "none" => handling'[id] = "none"]_vars
  BY DEF Settled
<1>8. MCSpec => SettledIsFinal
  BY <1>6, <1>7, PTL DEF SettledIsFinal
<1>9. [LateBridge!Settled]_lateVars => [outcome2 # Late!NotYet =>
       /\ UNCHANGED outcome2
       /\ \A id \in 1..MaxCalls : handling2[id] = "none" => handling2'[id] = "none"]_Late!vars
  BY DEF LateBridge!Settled, LateBridge!NotYet, Late!NotYet, lateVars, Late!vars, Late!thread, Late!shared, Late!promise
<1>10. MCSpec => Late!SettledIsFinal
  BY <1>6, <1>9, PTL DEF Late!SettledIsFinal
<1> QED  BY <1>5, <1>8, <1>10, PTL DEF SettledStays
=============================================================================
