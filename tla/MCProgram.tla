----------------------------- MODULE MCProgram ------------------------------
(***************************************************************************)
(* The parts of a running wassh program, each on its own in one run: kind  *)
(* says which part a behaviour is of, the others stay as they begin.       *)
(*   "bridge"   its system calls, answered with prompt wake-ups            *)
(*   "late"     the same with wake-ups that may come late                  *)
(*   "poll"     a poll, with signals and reads of several bytes            *)
(*   "polls"    two polls, with signals and reads of one byte              *)
(*   "sockets"  its connection and its listening socket                    *)
(***************************************************************************)
EXTENDS SyscallBridge

CONSTANTS Sockets, SLEEP, MaxTime, MaxBytes, MaxSignals, MaxIovs, MaxClients

VARIABLES
  kind,
  \* SyscallBridge with late wake-ups
  worker2, calls2, seen2, ended2, lock2, retcode2, data2, toMain2, handling2, resolve2, outcome2, process2,
  \* PollOneoff
  now, program, polls, subs, poll, reply, timers, notify_, sleeps, queue, sent, caught,
  pollData, received, read, reader_, got,
  \* WasshSockets
  backEnd, user, arrivedBytes, socketData, taken, socket_, socketReader_, writer_, pollData_, closers,
  listening, clients_, arriving, unpausing, arrived, accepted

Late == INSTANCE SyscallBridge WITH LateNotify <- TRUE,
          worker <- worker2, calls <- calls2, seen <- seen2, ended <- ended2, lock <- lock2,
          retcode <- retcode2, data <- data2, toMain <- toMain2, handling <- handling2,
          resolve_ <- resolve2, outcome <- outcome2, process_ <- process2
P == INSTANCE PollOneoff WITH data <- pollData, MaxPolls <- 1
Polls == INSTANCE PollOneoff WITH data <- pollData, MaxPolls <- 2, MaxBytes <- 1
S == INSTANCE WasshSockets WITH kind <- backEnd, program <- user, received <- arrivedBytes,
       data <- socketData, got <- taken, reader_ <- socketReader_

ASSUME PollAssumption == P!ConstantsAssumption

lateVars == <<worker2, calls2, seen2, ended2, lock2, retcode2, data2, toMain2, handling2, resolve2, outcome2, process2>>
pollVars == <<now, program, polls, subs, poll, reply, timers, notify_, sleeps, queue, sent, caught, pollData,
              received, read, reader_, got>>
socketVars == <<backEnd, user, arrivedBytes, socketData, taken, socket_, socketReader_, writer_, pollData_, closers,
                listening, clients_, arriving, unpausing, arrived, accepted>>
allVars == <<kind, vars, lateVars, pollVars, socketVars>>

MCInit == kind \in {"bridge", "late", "poll", "polls", "sockets"} /\ Init /\ Late!Init /\ P!Init /\ S!Init
          /\ (kind # "sockets" => backEnd = "unix")

MCNext ==
  /\ UNCHANGED kind
  /\ \/ kind = "bridge" /\ Next /\ UNCHANGED <<lateVars, pollVars, socketVars>>
     \/ kind = "late" /\ Late!Next /\ UNCHANGED <<vars, pollVars, socketVars>>
     \/ kind = "poll" /\ P!Next /\ UNCHANGED <<vars, lateVars, socketVars>>
     \/ kind = "polls" /\ Polls!Next /\ UNCHANGED <<vars, lateVars, socketVars>>
     \/ kind = "sockets" /\ S!Next /\ UNCHANGED <<vars, lateVars, pollVars>>

(* The fairness of each part, of its own behaviours.  What one thread does *)
(* next is one action: its steps exclude each other and stay possible.     *)
WorkerGoesOn == Load \/ Wait \/ Return \/ (worker = "exiting" /\ Unreachable)
OnMessage == OnSyscall \/ OnExit \/ OnSignal \/ OnError
Answering == \E id \in 1..MaxCalls : SetRetcode(id) \/ Store(id) \/ Notify(id)
Polling == kind \in {"poll", "polls"}
ProgramGoesOn == P!Scan \/ P!PollReturn \/ P!FillIov \/ P!ReadAgain \/ P!ReadReturn

MCFairness ==
  /\ WF_vars(kind = "bridge" /\ WorkerGoesOn) /\ WF_vars(kind = "bridge" /\ OnMessage)
  /\ WF_vars(kind = "bridge" /\ Answering)
  /\ WF_pollVars(Polling /\ P!Tick) /\ WF_pollVars(Polling /\ ProgramGoesOn)
  /\ WF_pollVars(Polling /\ \E t \in timers : P!TimerFires(t))
  /\ WF_socketVars(kind = "sockets" /\ \E c \in S!Closers : S!CloseStep(c))
  /\ WF_socketVars(kind = "sockets" /\ S!PollDataEnds) /\ WF_socketVars(kind = "sockets" /\ S!OnAccept)
  /\ WF_socketVars(kind = "sockets" /\ \E n \in unpausing : S!Unpaused(n))

MCSpec == MCInit /\ [][MCNext]_allVars /\ MCFairness

-----------------------------------------------------------------------------
(* Types of every part. *)
TypesOK == Late!TypeOK /\ P!TypeOK /\ S!TypeOK

(* run() is settled once, with the way the program ended first, whatever   *)
(* messages, handlers and terminate() calls come later, and also when      *)
(* wake-ups come late.                                                     *)
SettledStays == /\ [](ExitStatusKept /\ Late!ExitStatusKept)
                /\ SettledIsFinal /\ Late!SettledIsFinal

(* An answered call returns in the worker, and a program that ends settles *)
(* run().                                                                  *)
CallsEnd == AnswerIsSeen /\ EndIsReported

(* A poll never sleeps through data or a signal, and no earlier sleep's    *)
(* timer is left to wake a later one.  What it reports is so: the program  *)
(* finds data where it was told to read, and a deadline that was reported  *)
(* has passed.                                                             *)
PollsAreTrue == P!NoLostWakeup /\ P!OneTimer /\ P!EventsAreTrue

(* Signals, and the bytes a socket receives, reach the program once each   *)
(* and in order, whatever the page was doing when they came.               *)
ReachesProgram == P!SignalsOnceInOrder /\ P!BytesReachProgram

(* A poll with a timeout returns, one whose socket has data does too, and  *)
(* every signal is caught by a program that goes on polling.               *)
PollsEnd == P!PollEnds /\ P!DataEndsPoll /\ P!SignalsAreCaught

(* No read, accept or poll waits for what is there, and accept() returns   *)
(* the clients of a listening socket once each, in the order they came.    *)
SocketsInOrder == S!NobodyWaitsInVain /\ S!ClientsInOrder

(* A web socket that begins to close is closed, though two close() may be  *)
(* at it and one throws, and a poll that sleeps while a client is there    *)
(* wakes up.                                                               *)
SocketAwaitsEnd == S!SocketAwaitsEnd

=============================================================================
