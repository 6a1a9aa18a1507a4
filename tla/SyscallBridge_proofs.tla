------------------------ MODULE SyscallBridge_proofs ------------------------
(***************************************************************************)
(* Proofs about SyscallBridge, for any number of calls and any exit        *)
(* statuses: first that each call gets its own answer, when a notify never *)
(* comes so late that it finds the worker in its next system call          *)
(* (~LateNotify), then that run() is settled once and rightly, whether it  *)
(* does or not.                                                            *)
(***************************************************************************)
EXTENDS SyscallBridge, QueueLemmas

(* What the worker posts is a message. *)
LEMMA MessageTypes ==
  /\ \A n \in Nat : Syscall(n) \in Messages /\ Exit(n) \in Messages
  /\ Signal \in Messages /\ Error \in Messages
  /\ Exit(0) \in Messages /\ Exit(ABORTED) \in Messages
  /\ \A n \in Nat : Exit(n).name # "syscall"
  /\ Signal.name # "syscall" /\ Error.name # "syscall"
  /\ Exit(ABORTED).name # "syscall" /\ Exit(0).name # "syscall"
BY DEF Messages, Syscall, Exit, Signal, Error, ABORTED

(* A program that is not blocked has no system call in the queue, whatever *)
(* else it posts.                                                          *)
LEMMA NothingRequested ==
  ASSUME BridgeInv, Running, NEW m \in Messages, m.name # "syscall"
  PROVE  /\ Append(toMain, m) \in Seq(Messages)
         /\ \A i \in DOMAIN Append(toMain, m) : Append(toMain, m)[i].name # "syscall"
<1>1. \A i \in DOMAIN toMain : toMain[i].name # "syscall"
  BY DEF BridgeInv, AnswerIsReady, PostedIsNewest, Requested
<1> QED  BY <1>1, AppendProperties DEF BridgeInv, TypeOK

(* The message the page takes off the queue. *)
LEMMA HeadOfQueue ==
  ASSUME BridgeInv, toMain # <<>>
  PROVE  /\ Head(toMain) \in Messages /\ Tail(toMain) \in Seq(Messages)
         /\ Head(toMain).argv \in Nat
         /\ Head(toMain).name = "syscall" =>
              /\ Head(toMain).argv = calls /\ calls \in 1..MaxCalls
              /\ handling[calls] = "none" /\ lock = "LOCKED" /\ Blocked
              /\ \A i \in DOMAIN Tail(toMain) : Tail(toMain)[i].name # "syscall"
<1> USE ConstantsAssumption
<1>1. toMain \in Seq(Messages) /\ toMain # <<>>
  BY DEF BridgeInv, TypeOK
<1>2. Head(toMain) \in Messages /\ Tail(toMain) \in Seq(Messages)
  BY <1>1, TailProperties
<1>3. Head(toMain).argv \in Nat
  BY <1>2 DEF Messages
<1>4. ASSUME Head(toMain).name = "syscall"
      PROVE  /\ Head(toMain).argv = calls /\ calls \in 1..MaxCalls
             /\ handling[calls] = "none" /\ lock = "LOCKED" /\ Blocked
  <2>1. 1 \in DOMAIN toMain /\ Requested(1) /\ toMain[1].argv = Head(toMain).argv
    BY <1>1, <1>4, TailProperties DEF Requested
  <2>2. /\ Head(toMain).argv = calls /\ handling[calls] = "none"
        /\ lock = "LOCKED" /\ Blocked
    BY <2>1 DEF BridgeInv, PostedIsNewest
  <2>3. calls \in 1..MaxCalls
    BY <2>2 DEF BridgeInv, TypeOK, AnswersKeepUp
  <2> QED  BY <2>2, <2>3
<1>5. ASSUME Head(toMain).name = "syscall", NEW i \in DOMAIN Tail(toMain)
      PROVE  Tail(toMain)[i].name # "syscall"
  <2>1. i + 1 \in DOMAIN toMain /\ Tail(toMain)[i] = toMain[i + 1] /\ i + 1 # 1
    BY <1>1, TailProperties
  <2>2. 1 \in DOMAIN toMain /\ toMain[1].name = "syscall"
    BY <1>1, <1>5, TailProperties
  <2> QED  BY <2>1, <2>2 DEF BridgeInv, PostedIsNewest, Requested
<1> QED  BY <1>2, <1>3, <1>4, <1>5

(* The invariant holds before the process is run. *)
LEMMA BridgeInit == Init => BridgeInv
BY ConstantsAssumption, NoElements DEF Init, BridgeInv, TypeOK, AnswersKeepUp, ServedIsNewest,
  PostedIsNewest, AnswerIsReady, Served, Requested, Running, Blocked, NotifyPending,
  Result, Reasons, NotYet, Null

(* Every step of the worker or of the page keeps it. *)
LEMMA BridgeStep ==
  ASSUME ~LateNotify
  PROVE  BridgeInv /\ [Next]_vars => BridgeInv'
<1> SUFFICES ASSUME BridgeInv, [Next]_vars
             PROVE  BridgeInv'
  OBVIOUS
<1> USE ConstantsAssumption
    DEF BridgeInv, TypeOK, AnswersKeepUp, ServedIsNewest, PostedIsNewest, AnswerIsReady,
        shared, thread, promise, Running, Blocked, Served, Requested, Result, Null
<1>1. CASE Load
  <2>1. /\ Error \in Messages /\ Error.name # "syscall" /\ Running
    BY <1>1, MessageTypes DEF Load
  <2>2. /\ toMain' \in Seq(Messages) /\ \A i \in DOMAIN toMain' : toMain'[i].name # "syscall"
    BY <1>1, <2>1, NothingRequested DEF Load
  <2>3. TypeOK'
    BY <1>1, <2>1, <2>2 DEF Load
  <2>4. AnswersKeepUp'
    BY <1>1, <2>1, <2>2 DEF Load
  <2>5. ServedIsNewest'
    BY <1>1, <2>1, <2>2 DEF Load
  <2>6. PostedIsNewest'
    BY <1>1, <2>1, <2>2 DEF Load
  <2>7. AnswerIsReady'
    BY <1>1, <2>1, <2>2 DEF Load, NotifyPending
  <2> QED  BY <2>3, <2>4, <2>5, <2>6, <2>7
<1>2. CASE Dispatch
  <2>1. TypeOK'
    BY <1>2, AppendProperties, MessageTypes DEF Dispatch
  <2>2. AnswersKeepUp'
    BY <1>2 DEF Dispatch
  <2>3. ServedIsNewest'
    BY <1>2 DEF Dispatch
  <2>4. PostedIsNewest'
    BY <1>2, AppendProperties, MessageTypes DEF Dispatch, Syscall
  <2>5. AnswerIsReady'
    BY <1>2 DEF Dispatch, NotifyPending
  <2> QED  BY <2>1, <2>2, <2>3, <2>4, <2>5
<1>3. CASE Overlapped
  <2>1. TypeOK'
    BY <1>3, AppendProperties DEF Overlapped, ENOTRECOVERABLE
  <2>2. AnswersKeepUp'
    BY <1>3, AppendProperties DEF Overlapped
  <2>3. ServedIsNewest'
    BY <1>3 DEF Overlapped
  <2>4. PostedIsNewest'
    BY <1>3 DEF Overlapped
  <2>5. AnswerIsReady'
    BY <1>3 DEF Overlapped, NotifyPending
  <2> QED  BY <2>1, <2>2, <2>3, <2>4, <2>5
<1>4. CASE Wait
  <2>1. TypeOK'
    BY <1>4 DEF Wait
  <2>2. AnswersKeepUp'
    BY <1>4 DEF Wait
  <2>3. ServedIsNewest'
    BY <1>4 DEF Wait
  <2>4. PostedIsNewest'
    BY <1>4 DEF Wait
  <2>5. AnswerIsReady'
    BY <1>4 DEF Wait, NotifyPending
  <2> QED  BY <2>1, <2>2, <2>3, <2>4, <2>5
<1>5. CASE Return
  <2>1. TypeOK'
    BY <1>5, AppendProperties DEF Return
  <2>2. AnswersKeepUp'
    BY <1>5, AppendProperties DEF Return
  <2>3. ServedIsNewest'
    BY <1>5 DEF Return
  <2>4. PostedIsNewest'
    BY <1>5 DEF Return
  <2>5. AnswerIsReady'
    BY <1>5 DEF Return, NotifyPending
  <2> QED  BY <2>1, <2>2, <2>3, <2>4, <2>5
<1>6. CASE ReturnFromMain
  <2>1. /\ Exit(0) \in Messages /\ Exit(0).name # "syscall" /\ Running
    BY <1>6, MessageTypes DEF ReturnFromMain
  <2>2. /\ toMain' \in Seq(Messages) /\ \A i \in DOMAIN toMain' : toMain'[i].name # "syscall"
    BY <1>6, <2>1, NothingRequested DEF ReturnFromMain
  <2>3. TypeOK'
    BY <1>6, <2>1, <2>2 DEF ReturnFromMain, FirstEnd, Reasons, Exited
  <2>4. AnswersKeepUp'
    BY <1>6, <2>1, <2>2 DEF ReturnFromMain
  <2>5. ServedIsNewest'
    BY <1>6, <2>1, <2>2 DEF ReturnFromMain
  <2>6. PostedIsNewest'
    BY <1>6, <2>1, <2>2 DEF ReturnFromMain
  <2>7. AnswerIsReady'
    BY <1>6, <2>1, <2>2 DEF ReturnFromMain, NotifyPending
  <2> QED  BY <2>3, <2>4, <2>5, <2>6, <2>7
<1>7. ASSUME NEW status \in Statuses, ProcExit(status)
      PROVE  BridgeInv'
  <2>1. /\ Exit(status) \in Messages /\ Exit(status).name # "syscall" /\ Running
    BY <1>7, MessageTypes DEF ProcExit
  <2>2. /\ toMain' \in Seq(Messages) /\ \A i \in DOMAIN toMain' : toMain'[i].name # "syscall"
    BY <1>7, <2>1, NothingRequested DEF ProcExit
  <2>3. TypeOK'
    BY <1>7, <2>1, <2>2 DEF ProcExit, FirstEnd, Reasons, Exited
  <2>4. AnswersKeepUp'
    BY <1>7, <2>1, <2>2 DEF ProcExit
  <2>5. ServedIsNewest'
    BY <1>7, <2>1, <2>2 DEF ProcExit
  <2>6. PostedIsNewest'
    BY <1>7, <2>1, <2>2 DEF ProcExit
  <2>7. AnswerIsReady'
    BY <1>7, <2>1, <2>2 DEF ProcExit, NotifyPending
  <2> QED  BY <2>3, <2>4, <2>5, <2>6, <2>7
<1>8. CASE ProcRaise
  <2>1. /\ Signal \in Messages /\ Signal.name # "syscall" /\ Running
    BY <1>8, MessageTypes DEF ProcRaise
  <2>2. /\ toMain' \in Seq(Messages) /\ \A i \in DOMAIN toMain' : toMain'[i].name # "syscall"
    BY <1>8, <2>1, NothingRequested DEF ProcRaise
  <2>3. TypeOK'
    BY <1>8, <2>1, <2>2 DEF ProcRaise, FirstEnd, Reasons, Signalled
  <2>4. AnswersKeepUp'
    BY <1>8, <2>1, <2>2 DEF ProcRaise
  <2>5. ServedIsNewest'
    BY <1>8, <2>1, <2>2 DEF ProcRaise
  <2>6. PostedIsNewest'
    BY <1>8, <2>1, <2>2 DEF ProcRaise
  <2>7. AnswerIsReady'
    BY <1>8, <2>1, <2>2 DEF ProcRaise, NotifyPending
  <2> QED  BY <2>3, <2>4, <2>5, <2>6, <2>7
<1>9. CASE Unreachable
  <2>1. /\ Exit(ABORTED) \in Messages /\ Exit(ABORTED).name # "syscall" /\ Running
    BY <1>9, MessageTypes DEF Unreachable
  <2>2. /\ toMain' \in Seq(Messages) /\ \A i \in DOMAIN toMain' : toMain'[i].name # "syscall"
    BY <1>9, <2>1, NothingRequested DEF Unreachable
  <2>3. TypeOK'
    BY <1>9, <2>1, <2>2 DEF Unreachable, FirstEnd, Reasons, Exited, ABORTED
  <2>4. AnswersKeepUp'
    BY <1>9, <2>1, <2>2 DEF Unreachable
  <2>5. ServedIsNewest'
    BY <1>9, <2>1, <2>2 DEF Unreachable
  <2>6. PostedIsNewest'
    BY <1>9, <2>1, <2>2 DEF Unreachable
  <2>7. AnswerIsReady'
    BY <1>9, <2>1, <2>2 DEF Unreachable, NotifyPending
  <2> QED  BY <2>3, <2>4, <2>5, <2>6, <2>7
<1>10. CASE OtherTrap
  <2>1. TypeOK'
    BY <1>10 DEF OtherTrap
  <2>2. AnswersKeepUp'
    BY <1>10 DEF OtherTrap
  <2>3. ServedIsNewest'
    BY <1>10 DEF OtherTrap
  <2>4. PostedIsNewest'
    BY <1>10 DEF OtherTrap
  <2>5. AnswerIsReady'
    BY <1>10 DEF OtherTrap, NotifyPending
  <2> QED  BY <2>1, <2>2, <2>3, <2>4, <2>5
<1>11. CASE Run
  <2>1. TypeOK'
    BY <1>11 DEF Run
  <2>2. AnswersKeepUp'
    BY <1>11 DEF Run
  <2>3. ServedIsNewest'
    BY <1>11 DEF Run
  <2>4. PostedIsNewest'
    BY <1>11 DEF Run
  <2>5. AnswerIsReady'
    BY <1>11 DEF Run, NotifyPending
  <2> QED  BY <2>1, <2>2, <2>3, <2>4, <2>5
<1>12. CASE OnSyscall
  <2>1. /\ toMain # <<>> /\ Head(toMain).name = "syscall" /\ toMain' = Tail(toMain)
    BY <1>12 DEF OnSyscall, Message
  <2>2. /\ calls \in 1..MaxCalls /\ handling[calls] = "none" /\ lock = "LOCKED" /\ Blocked
        /\ toMain' \in Seq(Messages) /\ \A i \in DOMAIN toMain' : toMain'[i].name # "syscall"
    BY <2>1, HeadOfQueue
  <2>3. \/ handling' = [handling EXCEPT ![calls] = "running"] /\ UNCHANGED retcode
        \/ handling' = [handling EXCEPT ![calls] = "store"] /\ retcode' = calls
    BY <1>12, <2>1, HeadOfQueue DEF OnSyscall
  <2>4. UNCHANGED <<thread, lock, data, promise, process_>> /\ ~NotifyPending'
    BY <1>12, <2>2, <2>3 DEF OnSyscall, NotifyPending, Idle, Message
  <2>5. TypeOK'
    <3>1. calls \in Nat /\ retcode' \in {retcode, calls}
      BY <2>3
    <3>2. handling' \in [1..MaxCalls -> {"none", "running", "retcode", "store", "notify", "answered"}]
      BY <2>2, <2>3
    <3>3. worker' = worker /\ calls' = calls /\ seen' = seen /\ ended' = ended /\ outcome' = outcome
          /\ lock' = lock /\ data' = data /\ resolve_' = resolve_ /\ process_' = process_
      BY <2>4
    <3> QED  BY <2>2, <3>1, <3>2, <3>3
  <2>6. AnswersKeepUp'
    BY <2>2, <2>3, <2>4
  <2>7. ServedIsNewest'
    BY <2>2, <2>3, <2>4
  <2>8. PostedIsNewest'
    BY <2>2, <2>3, <2>4
  <2>9. AnswerIsReady'
    BY <2>2, <2>3, <2>4
  <2> QED  BY <2>5, <2>6, <2>7, <2>8, <2>9
<1>13. CASE OnExit
  <2>1. TypeOK'
    BY <1>13, NoElements, HeadOfQueue DEF OnExit, Terminate, Message, Reasons, Exited
  <2>2. AnswersKeepUp'
    BY <1>13 DEF OnExit, Terminate
  <2>3. ServedIsNewest'
    BY <1>13 DEF OnExit, Terminate
  <2>4. PostedIsNewest'
    BY <1>13 DEF OnExit, Terminate
  <2>5. AnswerIsReady'
    BY <1>13 DEF OnExit, Terminate
  <2> QED  BY <2>1, <2>2, <2>3, <2>4, <2>5
<1>14. CASE OnSignal
  <2>1. TypeOK'
    BY <1>14, NoElements DEF OnSignal, Terminate, Reasons, Signalled
  <2>2. AnswersKeepUp'
    BY <1>14 DEF OnSignal, Terminate
  <2>3. ServedIsNewest'
    BY <1>14 DEF OnSignal, Terminate
  <2>4. PostedIsNewest'
    BY <1>14 DEF OnSignal, Terminate
  <2>5. AnswerIsReady'
    BY <1>14 DEF OnSignal, Terminate
  <2> QED  BY <2>1, <2>2, <2>3, <2>4, <2>5
<1>15. CASE OnError
  <2>1. TypeOK'
    BY <1>15, NoElements DEF OnError, Terminate, Reasons, Failed
  <2>2. AnswersKeepUp'
    BY <1>15 DEF OnError, Terminate
  <2>3. ServedIsNewest'
    BY <1>15 DEF OnError, Terminate
  <2>4. PostedIsNewest'
    BY <1>15 DEF OnError, Terminate
  <2>5. AnswerIsReady'
    BY <1>15 DEF OnError, Terminate
  <2> QED  BY <2>1, <2>2, <2>3, <2>4, <2>5
<1>16. CASE HostTerminate
  <2>1. TypeOK'
    BY <1>16, NoElements DEF HostTerminate, Terminate, Reasons, Undefined
  <2>2. AnswersKeepUp'
    BY <1>16 DEF HostTerminate, Terminate
  <2>3. ServedIsNewest'
    BY <1>16 DEF HostTerminate, Terminate
  <2>4. PostedIsNewest'
    BY <1>16 DEF HostTerminate, Terminate
  <2>5. AnswerIsReady'
    BY <1>16 DEF HostTerminate, Terminate
  <2> QED  BY <2>1, <2>2, <2>3, <2>4, <2>5
<1>17. ASSUME NEW id \in 1..MaxCalls, HandlerErrno(id)
      PROVE  BridgeInv'
  <2>1. TypeOK'
    BY <1>17 DEF HandlerErrno
  <2>2. AnswersKeepUp'
    BY <1>17 DEF HandlerErrno
  <2>3. ServedIsNewest'
    BY <1>17 DEF HandlerErrno
  <2>4. PostedIsNewest'
    BY <1>17 DEF HandlerErrno
  <2>5. AnswerIsReady'
    BY <1>17 DEF HandlerErrno, Idle, NotifyPending
  <2> QED  BY <2>1, <2>2, <2>3, <2>4, <2>5
<1>18. ASSUME NEW id \in 1..MaxCalls, HandlerObject(id)
      PROVE  BridgeInv'
  <2>1. TypeOK'
    BY <1>18 DEF HandlerObject
  <2>2. AnswersKeepUp'
    BY <1>18 DEF HandlerObject
  <2>3. ServedIsNewest'
    BY <1>18 DEF HandlerObject
  <2>4. PostedIsNewest'
    BY <1>18 DEF HandlerObject
  <2>5. AnswerIsReady'
    BY <1>18 DEF HandlerObject, Idle, NotifyPending
  <2> QED  BY <2>1, <2>2, <2>3, <2>4, <2>5
<1>19. ASSUME NEW id \in 1..MaxCalls, HandlerThrows(id)
      PROVE  BridgeInv'
  <2>1. TypeOK'
    BY <1>19, NoElements DEF HandlerThrows, Terminate, Reasons, Failed
  <2>2. AnswersKeepUp'
    BY <1>19 DEF HandlerThrows, Terminate
  <2>3. ServedIsNewest'
    BY <1>19 DEF HandlerThrows, Terminate
  <2>4. PostedIsNewest'
    BY <1>19 DEF HandlerThrows, Terminate
  <2>5. AnswerIsReady'
    BY <1>19 DEF HandlerThrows, Terminate, Idle, NotifyPending
  <2> QED  BY <2>1, <2>2, <2>3, <2>4, <2>5
<1>20. ASSUME NEW id \in 1..MaxCalls, SetRetcode(id)
      PROVE  BridgeInv'
  <2>1. TypeOK'
    BY <1>20 DEF SetRetcode
  <2>2. AnswersKeepUp'
    BY <1>20 DEF SetRetcode
  <2>3. ServedIsNewest'
    BY <1>20 DEF SetRetcode
  <2>4. PostedIsNewest'
    BY <1>20 DEF SetRetcode
  <2>5. AnswerIsReady'
    BY <1>20 DEF SetRetcode, Idle, NotifyPending
  <2> QED  BY <2>1, <2>2, <2>3, <2>4, <2>5
<1>21. ASSUME NEW id \in 1..MaxCalls, Store(id)
      PROVE  BridgeInv'
  <2>1. TypeOK'
    BY <1>21 DEF Store
  <2>2. AnswersKeepUp'
    BY <1>21 DEF Store
  <2>3. ServedIsNewest'
    BY <1>21 DEF Store
  <2>4. PostedIsNewest'
    BY <1>21 DEF Store
  <2>5. AnswerIsReady'
    BY <1>21 DEF Store, Idle, NotifyPending
  <2> QED  BY <2>1, <2>2, <2>3, <2>4, <2>5
<1>22. ASSUME NEW id \in 1..MaxCalls, Notify(id)
      PROVE  BridgeInv'
  <2>1. worker = "asleep" => lock = "UNLOCKED"
    BY <1>22 DEF Notify, NotifyPending
  <2>2. TypeOK'
    BY <1>22 DEF Notify
  <2>3. AnswersKeepUp'
    BY <1>22 DEF Notify
  <2>4. ServedIsNewest'
    BY <1>22, <2>1 DEF Notify
  <2>5. PostedIsNewest'
    BY <1>22, <2>1 DEF Notify
  <2>6. AnswerIsReady'
    BY <1>22, <2>1 DEF Notify, NotifyPending
  <2> QED  BY <2>2, <2>3, <2>4, <2>5, <2>6
<1>23. CASE UNCHANGED vars
  BY <1>23 DEF vars, NotifyPending
<1> QED  BY <1>1, <1>2, <1>3, <1>4, <1>5, <1>6, <1>7, <1>8, <1>9, <1>10, <1>11,
  <1>12, <1>13, <1>14, <1>15, <1>16, <1>17, <1>18, <1>19, <1>20, <1>21, <1>22, <1>23
  DEF Next, WorkerStep, HandlerStep

-----------------------------------------------------------------------------
(* When notifies come in time, a call is either posted, served or answered *)
(* and the lock says which (dispatch_ and onMessage_syscall).              *)
THEOREM BridgeInvariant ==
  ASSUME ~LateNotify
  PROVE  Spec => []BridgeInv
BY BridgeInit, BridgeStep, PTL DEF Spec

(* Then the program never finds the lock taken ("Overlapped syscall"). *)
THEOREM NoOverlappedSyscall ==
  ASSUME ~LateNotify
  PROVE  Spec => []NoOverlap
<1>1. BridgeInv => NoOverlap
  BY DEF BridgeInv, AnswersKeepUp, AnswerIsReady, Running, NoOverlap
<1> QED  BY <1>1, BridgeInvariant, PTL

(* wait() does what its comment says. *)
THEOREM WaitBlocks ==
  ASSUME ~LateNotify
  PROVE  Spec => []WaitBlocksWhileLocked
<1>1. BridgeInv => WaitBlocksWhileLocked
  BY DEF BridgeInv, AnswerIsReady, Running, WaitBlocksWhileLocked
<1> QED  BY <1>1, BridgeInvariant, PTL

(* The page serves one call at a time. *)
THEOREM OneCallAtATime ==
  ASSUME ~LateNotify
  PROVE  Spec => []OneCallServed
<1>1. BridgeInv => OneCallServed
  BY DEF BridgeInv, TypeOK, ServedIsNewest, Served, Running, OneCallServed
<1> QED  BY <1>1, BridgeInvariant, PTL

-----------------------------------------------------------------------------
(* Every step makes a call, answers the newest one, or is neither. *)
LEMMA CallerStep == BridgeInv /\ [Next]_vars => [Caller!Next]_<<calls, seen>>
<1> SUFFICES ASSUME BridgeInv, [Next]_vars
             PROVE  Caller!Next \/ UNCHANGED <<calls, seen>>
  OBVIOUS
<1> USE DEF BridgeInv, AnswersKeepUp, AnswerIsReady, Running
<1>1. CASE Dispatch
  BY <1>1 DEF Dispatch, Caller!Next, Caller!Ask
<1>2. CASE Overlapped
  BY <1>2 DEF Overlapped
<1>3. CASE Return
  <2>1. Result = calls /\ calls >= 1 /\ Len(seen) = calls - 1 /\ calls \in Nat
    BY <1>3, ConstantsAssumption DEF Return, TypeOK
  <2> QED  BY <1>3, <2>1 DEF Return, Caller!Next, Caller!Answer
<1>4. CASE Load \/ Wait \/ ReturnFromMain \/ (\E status \in Statuses : ProcExit(status))
           \/ ProcRaise \/ Unreachable \/ OtherTrap
  BY <1>4 DEF Load, Wait, ReturnFromMain, ProcExit, ProcRaise, Unreachable, OtherTrap
<1>5. CASE Run \/ OnSyscall \/ OnExit \/ OnSignal \/ OnError \/ HostTerminate
  BY <1>5 DEF Run, OnSyscall, OnExit, OnSignal, OnError, HostTerminate, thread
<1>6. CASE \E id \in 1..MaxCalls : HandlerStep(id)
  BY <1>6 DEF HandlerStep, HandlerErrno, HandlerObject, HandlerThrows, SetRetcode, Store,
    Notify, thread
<1>7. CASE UNCHANGED vars
  BY <1>7 DEF vars, thread
<1> QED  BY <1>1, <1>2, <1>3, <1>4, <1>5, <1>6, <1>7 DEF Next, WorkerStep

(* The n-th system call returns the answer to the n-th system call: the    *)
(* bridge implements RemoteCall.                                           *)
THEOREM AnswersAreTheCalls ==
  ASSUME ~LateNotify
  PROVE  Spec => AnswersMatchCalls
<1>1. Init => Caller!Init
  BY DEF Init, Caller!Init
<1> QED  BY <1>1, CallerStep, BridgeInvariant, PTL DEF Spec, AnswersMatchCalls, Caller!Spec

-----------------------------------------------------------------------------
(* A message that says how the program ended, and what it says. *)
IsEnd(m) == m.name \in {"exit", "signal"}
EndOf(m) == IF m.name = "exit" THEN Exited(m.argv) ELSE Signalled

(* The program has not ended, or the first message that says how it ended  *)
(* is on its way, or it has been dealt with.                               *)
EndIsPosted ==
  \/ worker = "terminated"
  \/ ended = NotYet /\ \A i \in DOMAIN toMain : ~IsEnd(toMain[i])
  \/ \E i \in DOMAIN toMain :
       /\ IsEnd(toMain[i]) /\ ended = EndOf(toMain[i])
       /\ \A j \in DOMAIN toMain : j < i => ~IsEnd(toMain[j])

(* Only such a message settles run() with an exit status, and a settled     *)
(* run() has no worker left to post another.                                *)
SettledInv ==
  /\ TypeOK /\ EndIsPosted /\ ExitStatusKept
  /\ worker = "terminated" => toMain = <<>>
  /\ outcome # NotYet => worker = "terminated" /\ resolve_ = Null

(* It holds before the process is run. *)
LEMMA SettledInit == Init => SettledInv
BY ConstantsAssumption, NoElements DEF Init, SettledInv, EndIsPosted, ExitStatusKept, TypeOK, Reasons, NotYet, Null

(* What is posted keeps its place, *)
LEMMA OtherIsPosted ==
  ASSUME SettledInv, worker # "terminated", NEW m \in Messages, ~IsEnd(m),
         toMain' = Append(toMain, m), ended' = ended
  PROVE  toMain' \in Seq(Messages) /\ EndIsPosted'
<1>1. toMain \in Seq(Messages)
  BY DEF SettledInv, TypeOK
<1>2. /\ toMain' \in Seq(Messages)
      /\ DOMAIN toMain' = DOMAIN toMain \cup {Len(toMain) + 1}
      /\ \A i \in DOMAIN toMain : toMain'[i] = toMain[i] /\ i \in Nat /\ i < Len(toMain) + 1
      /\ toMain'[Len(toMain) + 1] = m /\ Len(toMain) + 1 \in Nat
  BY <1>1, AppendProperties
<1>3. CASE ended = NotYet /\ \A i \in DOMAIN toMain : ~IsEnd(toMain[i])
  BY <1>2, <1>3 DEF EndIsPosted
<1>4. ASSUME NEW i \in DOMAIN toMain, IsEnd(toMain[i]), ended = EndOf(toMain[i]),
             \A j \in DOMAIN toMain : j < i => ~IsEnd(toMain[j])
      PROVE  EndIsPosted'
  <2>1. \A j \in DOMAIN toMain' : j < i => ~IsEnd(toMain'[j])
    BY <1>2, <1>4
  <2> QED  BY <1>2, <1>4, <2>1 DEF EndIsPosted
<1> QED  BY <1>2, <1>3, <1>4 DEF SettledInv, EndIsPosted

(* and the first end that is posted is how the program ended. *)
LEMMA FirstEndIsPosted ==
  ASSUME SettledInv, worker # "terminated", NEW m \in Messages, IsEnd(m),
         toMain' = Append(toMain, m), FirstEnd(EndOf(m))
  PROVE  toMain' \in Seq(Messages) /\ EndIsPosted'
<1>1. toMain \in Seq(Messages)
  BY DEF SettledInv, TypeOK
<1>2. /\ toMain' \in Seq(Messages)
      /\ DOMAIN toMain' = DOMAIN toMain \cup {Len(toMain) + 1}
      /\ \A i \in DOMAIN toMain : toMain'[i] = toMain[i] /\ i \in Nat /\ i < Len(toMain) + 1
      /\ toMain'[Len(toMain) + 1] = m /\ Len(toMain) + 1 \in Nat
  BY <1>1, AppendProperties
<1>3. CASE ended = NotYet /\ \A i \in DOMAIN toMain : ~IsEnd(toMain[i])
  <2>1. ended' = EndOf(m)
    BY <1>3 DEF FirstEnd
  <2>2. \A j \in DOMAIN toMain' : j < Len(toMain) + 1 => ~IsEnd(toMain'[j])
    BY <1>2, <1>3
  <2> QED  BY <1>2, <2>1, <2>2 DEF EndIsPosted
<1>4. ASSUME NEW i \in DOMAIN toMain, IsEnd(toMain[i]), ended = EndOf(toMain[i]),
             \A j \in DOMAIN toMain : j < i => ~IsEnd(toMain[j])
      PROVE  EndIsPosted'
  <2>1. \A j \in DOMAIN toMain' : j < i => ~IsEnd(toMain'[j])
    BY <1>2, <1>4
  <2>2. ended' = ended
    BY <1>4 DEF FirstEnd, EndOf, Exited, Signalled, NotYet
  <2> QED  BY <1>2, <1>4, <2>1, <2>2 DEF EndIsPosted
<1> QED  BY <1>2, <1>3, <1>4 DEF SettledInv, EndIsPosted

(* Taking a system call off the queue, *)
LEMMA SyscallIsTaken ==
  ASSUME SettledInv, toMain # <<>>, Head(toMain).name = "syscall",
         toMain' = Tail(toMain), UNCHANGED <<worker, ended>>
  PROVE  toMain' \in Seq(Messages) /\ EndIsPosted'
<1>1. toMain \in Seq(Messages)
  BY DEF SettledInv, TypeOK
<1>2. /\ toMain' \in Seq(Messages) /\ toMain[1].name = "syscall" /\ 1 \in DOMAIN toMain
      /\ \A i \in DOMAIN toMain' : i + 1 \in DOMAIN toMain /\ toMain'[i] = toMain[i + 1]
      /\ \A i \in DOMAIN toMain : i # 1 => i - 1 \in DOMAIN toMain'
  BY <1>1, TailProperties
<1>3. CASE worker = "terminated" \/ (ended = NotYet /\ \A i \in DOMAIN toMain : ~IsEnd(toMain[i]))
  BY <1>2, <1>3 DEF EndIsPosted
<1>4. ASSUME NEW i \in DOMAIN toMain, IsEnd(toMain[i]), ended = EndOf(toMain[i]),
             \A j \in DOMAIN toMain : j < i => ~IsEnd(toMain[j])
      PROVE  EndIsPosted'
  <2>1. i # 1 /\ i \in Int
    BY <1>1, <1>2, <1>4 DEF IsEnd
  <2>2. i - 1 \in DOMAIN toMain' /\ toMain'[i - 1] = toMain[i]
    BY <1>2, <2>1
  <2>3. \A j \in DOMAIN toMain' : j < i - 1 => ~IsEnd(toMain'[j])
    <3>1. DOMAIN toMain' \subseteq Int
      BY <1>2
    <3> QED  BY <1>2, <1>4, <2>1, <3>1
  <2> QED  BY <1>4, <2>2, <2>3 DEF EndIsPosted
<1> QED  BY <1>2, <1>3, <1>4 DEF SettledInv, EndIsPosted

(* and the first message that says how the program ended says it right. *)
LEMMA FirstEndIsHow ==
  ASSUME SettledInv, toMain # <<>>, IsEnd(Head(toMain))
  PROVE  ended = EndOf(Head(toMain)) /\ Head(toMain) \in Messages
<1>1. toMain \in Seq(Messages)
  BY DEF SettledInv, TypeOK
<1>2. Head(toMain) = toMain[1] /\ 1 \in DOMAIN toMain /\ DOMAIN toMain = 1..Len(toMain) /\ Head(toMain) \in Messages
  BY <1>1, TailProperties
<1>3. worker # "terminated"
  BY DEF SettledInv
<1>4. ASSUME NEW i \in DOMAIN toMain, ended = EndOf(toMain[i]),
             \A j \in DOMAIN toMain : j < i => ~IsEnd(toMain[j])
      PROVE  ended = EndOf(Head(toMain))
  <2>1. i = 1
    BY <1>2, <1>4
  <2> QED  BY <1>2, <1>4, <2>1
<1> QED  BY <1>2, <1>3, <1>4 DEF SettledInv, EndIsPosted

(* terminate(), with a reason that tells how the program ended if it tells *)
(* of an exit.                                                             *)
LEMMA TerminateStep ==
  ASSUME SettledInv, NEW reason \in Reasons, reason # NotYet, reason[1] = "exit" => reason = ended,
         Terminate(reason), UNCHANGED <<calls, seen, ended, lock, retcode, data>>,
         process_' \in {Null, "process"},
         handling' \in [1..MaxCalls -> {"none", "running", "retcode", "store", "notify", "answered"}]
  PROVE  SettledInv' /\ (outcome # NotYet => outcome' = outcome)
<1>1. worker' = "terminated" /\ toMain' = <<>>
  BY DEF Terminate
<1>2. CASE resolve_ # Null
  <2>1. resolve_' = Null /\ outcome' = reason
    BY <1>2 DEF Terminate
  <2>2. outcome = NotYet
    BY <1>2 DEF SettledInv
  <2>3. TypeOK'
    BY <1>1, <2>1, NoElements DEF SettledInv, TypeOK, Null
  <2> QED  BY <1>1, <2>1, <2>2, <2>3 DEF SettledInv, EndIsPosted, ExitStatusKept
<1>3. CASE resolve_ = Null
  <2>1. resolve_' = Null /\ outcome' = outcome
    BY <1>3 DEF Terminate, promise
  <2>2. TypeOK'
    BY <1>1, <2>1, NoElements DEF SettledInv, TypeOK, Null
  <2> QED  BY <1>1, <2>1, <2>2 DEF SettledInv, EndIsPosted, ExitStatusKept
<1> QED  BY <1>2, <1>3

(* What SettledIsFinal says of a step. *)
Settled ==
  outcome # NotYet =>
    /\ UNCHANGED outcome
    /\ \A id \in 1..MaxCalls : handling[id] = "none" => handling'[id] = "none"

(* Every step keeps it, and leaves what is settled. *)
LEMMA SettledStep == SettledInv /\ [Next]_vars => SettledInv' /\ Settled
<1> SUFFICES ASSUME SettledInv, [Next]_vars PROVE SettledInv' /\ Settled
  OBVIOUS
<1> USE ConstantsAssumption
<1>1. CASE Load
  <2>1. worker = "loading" /\ worker' \in {"program", "done"}
        /\ UNCHANGED <<calls, seen, ended, lock, retcode, data, handling, resolve_, outcome, process_>>
    BY <1>1 DEF Load, shared, promise
  <2>2. Error \in Messages /\ ~IsEnd(Error)
    BY DEF Error, Messages, IsEnd
  <2>3. toMain' \in Seq(Messages) /\ EndIsPosted'
    <3>1. CASE toMain' = Append(toMain, Error)
      BY <2>1, <2>2, <3>1, OtherIsPosted
    <3>2. CASE UNCHANGED toMain
      BY <2>1, <3>2 DEF SettledInv, TypeOK, EndIsPosted
    <3> QED  BY <1>1, <3>1, <3>2 DEF Load
  <2> QED  BY <2>1, <2>3 DEF SettledInv, TypeOK, ExitStatusKept, Settled
<1>2. CASE Dispatch
  <2>1. worker = "program" /\ worker' = "dispatch" /\ calls' = calls + 1 /\ calls < MaxCalls /\ lock' = "LOCKED"
        /\ toMain' = Append(toMain, Syscall(calls + 1))
        /\ UNCHANGED <<seen, ended, retcode, data, handling, resolve_, outcome, process_>>
    BY <1>2 DEF Dispatch, promise
  <2>2. calls \in 0..MaxCalls /\ calls + 1 \in 0..MaxCalls
    BY <2>1 DEF SettledInv, TypeOK
  <2>3. Syscall(calls + 1) \in Messages /\ ~IsEnd(Syscall(calls + 1))
    BY <2>2 DEF Syscall, Messages, IsEnd
  <2>4. toMain' \in Seq(Messages) /\ EndIsPosted'
    BY <2>1, <2>3, OtherIsPosted
  <2> QED  BY <2>1, <2>2, <2>4 DEF SettledInv, TypeOK, ExitStatusKept, Settled
<1>3. CASE Overlapped \/ Return
  <2>1. /\ worker \in {"program", "woken"} /\ worker' = "program" /\ calls' \in 0..MaxCalls
        /\ \E answer \in Nat \cup {ENOTRECOVERABLE} : seen' = Append(seen, answer)
        /\ UNCHANGED <<ended, lock, retcode, data, toMain, handling, resolve_, outcome, process_>>
    <3>1. CASE Overlapped
      <4>1. calls' \in 0..MaxCalls
        BY <3>1 DEF Overlapped, SettledInv, TypeOK
      <4>2. \E answer \in Nat \cup {ENOTRECOVERABLE} : seen' = Append(seen, answer)
        BY <3>1, Zenon DEF Overlapped
      <4> QED  BY <3>1, <4>1, <4>2, Zenon DEF Overlapped, shared, promise
    <3>2. CASE Return
      <4>1. Result \in Nat
        BY DEF Result, SettledInv, TypeOK
      <4> QED  BY <3>2, <4>1 DEF Return, SettledInv, TypeOK, shared, promise
    <3> QED  BY <1>3, <3>1, <3>2
  <2>2. seen' \in Seq(Nat \cup {ENOTRECOVERABLE})
    BY <2>1, AppendProperties DEF SettledInv, TypeOK
  <2> QED  BY <2>1, <2>2 DEF SettledInv, TypeOK, EndIsPosted, ExitStatusKept, Settled
<1>4. CASE Wait \/ OtherTrap \/ Run
  BY <1>4 DEF Wait, OtherTrap, Run, SettledInv, TypeOK, EndIsPosted, ExitStatusKept, Settled, shared, promise, Null
<1>5. ASSUME NEW status \in Nat,
             ProcExit(status) \/ (ReturnFromMain /\ status = 0) \/ (Unreachable /\ status = ABORTED)
      PROVE  SettledInv' /\ Settled
  <2>1. worker \in {"program", "exiting"} /\ worker' \in {"done", "exiting"} /\ toMain' = Append(toMain, Exit(status))
        /\ FirstEnd(Exited(status))
        /\ UNCHANGED <<calls, seen, lock, retcode, data, handling, resolve_, outcome, process_>>
    BY <1>5 DEF ProcExit, ReturnFromMain, Unreachable, shared, promise
  <2>2. Exit(status) \in Messages /\ IsEnd(Exit(status)) /\ EndOf(Exit(status)) = Exited(status)
    BY DEF Exit, Messages, IsEnd, EndOf
  <2>3. toMain' \in Seq(Messages) /\ EndIsPosted'
    BY <2>1, <2>2, FirstEndIsPosted
  <2>4. ended' \in Reasons
    BY <2>1 DEF FirstEnd, Reasons, Exited, SettledInv, TypeOK
  <2>5. outcome = NotYet
    BY <2>1 DEF SettledInv
  <2> QED  BY <2>1, <2>3, <2>4, <2>5 DEF SettledInv, TypeOK, ExitStatusKept, Settled, NotYet
<1>6. CASE ProcRaise
  <2>1. worker = "program" /\ worker' = worker /\ toMain' = Append(toMain, Signal) /\ FirstEnd(Signalled)
        /\ UNCHANGED <<calls, seen, lock, retcode, data, handling, resolve_, outcome, process_>>
    BY <1>6 DEF ProcRaise, shared, promise
  <2>2. Signal \in Messages /\ IsEnd(Signal) /\ EndOf(Signal) = Signalled
    BY DEF Signal, Messages, IsEnd, EndOf
  <2>3. toMain' \in Seq(Messages) /\ EndIsPosted'
    BY <2>1, <2>2, FirstEndIsPosted
  <2>4. ended' \in Reasons
    BY <2>1 DEF FirstEnd, Reasons, SettledInv, TypeOK
  <2>5. outcome = NotYet
    BY <2>1 DEF SettledInv
  <2> QED  BY <2>1, <2>3, <2>4, <2>5 DEF SettledInv, TypeOK, ExitStatusKept, Settled, NotYet
<1>7. CASE OnSyscall
  <2>1. /\ toMain # <<>> /\ Head(toMain).name = "syscall" /\ toMain' = Tail(toMain)
        /\ UNCHANGED <<worker, calls, seen, ended, lock, data, resolve_, outcome, process_>>
        /\ \/ handling' = [handling EXCEPT ![Head(toMain).argv] = "running"] /\ UNCHANGED retcode
           \/ handling' = [handling EXCEPT ![Head(toMain).argv] = "store"] /\ retcode' = Head(toMain).argv
    BY <1>7 DEF OnSyscall, Message, thread, promise
  <2>2. Head(toMain).argv \in Nat
    <3>1. toMain \in Seq(Messages)
      BY DEF SettledInv, TypeOK
    <3>2. Head(toMain) \in Messages
      BY <2>1, <3>1, TailProperties
    <3> QED  BY <3>2 DEF Messages
  <2>3. toMain' \in Seq(Messages) /\ EndIsPosted'
    BY <2>1, SyscallIsTaken
  <2>4. retcode' \in Nat \cup {-1}
        /\ handling' \in [1..MaxCalls -> {"none", "running", "retcode", "store", "notify", "answered"}]
    BY <2>1, <2>2 DEF SettledInv, TypeOK
  <2>5. worker # "terminated" /\ outcome = NotYet
    BY <2>1 DEF SettledInv
  <2> QED  BY <2>1, <2>3, <2>4, <2>5 DEF SettledInv, TypeOK, ExitStatusKept, Settled
<1>8. ASSUME NEW reason \in Reasons, reason # NotYet, reason[1] = "exit" => reason = ended,
             Terminate(reason), UNCHANGED <<calls, seen, ended, lock, retcode, data>>,
             process_' \in {Null, "process"}, UNCHANGED handling
      PROVE  SettledInv' /\ Settled
  <2>1. handling' \in [1..MaxCalls -> {"none", "running", "retcode", "store", "notify", "answered"}]
    BY <1>8 DEF SettledInv, TypeOK
  <2> QED  BY <1>8, <2>1, TerminateStep DEF Settled
<1>9. CASE OnExit
  <2>1. /\ toMain # <<>> /\ Head(toMain).name = "exit" /\ Terminate(Exited(Head(toMain).argv))
        /\ UNCHANGED <<calls, seen, ended, lock, retcode, data, handling, process_>>
    BY <1>9 DEF OnExit, Message, shared
  <2>2. Head(toMain) \in Messages /\ ended = Exited(Head(toMain).argv)
    BY <2>1, FirstEndIsHow DEF IsEnd, EndOf
  <2>3. Exited(Head(toMain).argv) \in Reasons /\ Exited(Head(toMain).argv) # NotYet
    BY <2>2 DEF Messages, Reasons, Exited, NotYet
  <2>4. process_' \in {Null, "process"}
    BY <2>1 DEF SettledInv, TypeOK
  <2> QED  BY <1>8, <2>1, <2>2, <2>3, <2>4
<1>10. CASE OnSignal \/ OnError \/ HostTerminate
  <2>1. /\ \E reason \in {Signalled, Failed, Undefined} : Terminate(reason)
        /\ UNCHANGED <<calls, seen, ended, lock, retcode, data, handling>> /\ process_' \in {process_, Null}
    BY <1>10 DEF OnSignal, OnError, HostTerminate, shared
  <2>2. \A reason \in {Signalled, Failed, Undefined} :
          reason \in Reasons /\ reason # NotYet /\ reason[1] # "exit"
    BY DEF Signalled, Failed, Undefined, Reasons, NotYet
  <2>3. process_' \in {Null, "process"}
    BY <2>1 DEF SettledInv, TypeOK
  <2> QED  BY <1>8, <2>1, <2>2, <2>3
<1>11. ASSUME NEW id \in 1..MaxCalls, HandlerThrows(id)
      PROVE  SettledInv' /\ Settled
  <2>1. /\ handling' = [handling EXCEPT ![id] = "answered"] /\ handling[id] = "running" /\ Terminate(Failed)
        /\ UNCHANGED <<calls, seen, ended, lock, retcode, data, process_>>
    BY <1>11 DEF HandlerThrows, shared
  <2>2. handling \in [1..MaxCalls -> {"none", "running", "retcode", "store", "notify", "answered"}]
        /\ process_' \in {Null, "process"}
    BY <2>1 DEF SettledInv, TypeOK
  <2>3. handling' \in [1..MaxCalls -> {"none", "running", "retcode", "store", "notify", "answered"}]
        /\ \A i \in 1..MaxCalls : handling[i] = "none" => handling'[i] = "none"
    BY <2>1, <2>2
  <2>4. Failed \in Reasons /\ Failed # NotYet /\ Failed[1] # "exit"
    BY DEF Failed, Reasons, NotYet
  <2> QED  BY <2>1, <2>2, <2>3, <2>4, TerminateStep DEF Settled
<1>12. ASSUME NEW id \in 1..MaxCalls,
              HandlerErrno(id) \/ HandlerObject(id) \/ SetRetcode(id) \/ Store(id) \/ Notify(id)
       PROVE  SettledInv' /\ Settled
  <2>1. /\ \E to \in {"retcode", "store", "notify", "answered"} : handling' = [handling EXCEPT ![id] = to]
        /\ handling[id] # "none"
        /\ retcode' \in {retcode, id, -1} /\ data' \in {data, id} /\ lock' \in {lock, "UNLOCKED"}
        /\ worker' = worker \/ (worker = "asleep" /\ worker' = "woken")
        /\ UNCHANGED <<calls, seen, ended, toMain, resolve_, outcome, process_>>
    BY <1>12 DEF HandlerErrno, HandlerObject, SetRetcode, Store, Notify, thread, shared, promise
  <2>2. handling' \in [1..MaxCalls -> {"none", "running", "retcode", "store", "notify", "answered"}]
        /\ \A i \in 1..MaxCalls : handling[i] = "none" => handling'[i] = "none"
    BY <2>1 DEF SettledInv, TypeOK
  <2>3. retcode' \in Nat \cup {-1} /\ data' \in Nat
    BY <2>1 DEF SettledInv, TypeOK
  <2>4. TypeOK'
    BY <2>1, <2>2, <2>3 DEF SettledInv, TypeOK
  <2> QED  BY <2>1, <2>2, <2>4 DEF SettledInv, EndIsPosted, ExitStatusKept, Settled
<1>13. CASE UNCHANGED vars
  BY <1>13 DEF vars, thread, shared, promise, SettledInv, TypeOK, EndIsPosted, ExitStatusKept, Settled
<1>14. 0 \in Nat /\ ABORTED \in Nat /\ Statuses \subseteq Nat
  BY DEF ABORTED
<1> QED  BY <1>1, <1>2, <1>3, <1>4, <1>5, <1>6, <1>7, <1>9, <1>10, <1>11, <1>12, <1>13, <1>14
  DEF Next, WorkerStep, HandlerStep

(* Every variable keeps its type. *)
THEOREM BridgeTypeCorrect == Spec => []TypeOK
<1>1. SettledInv => TypeOK
  BY DEF SettledInv
<1> QED  BY <1>1, SettledInit, SettledStep, PTL DEF Spec

(* run() is settled once, and then no further call is served. *)
THEOREM SettledOnce == Spec => SettledIsFinal
<1>1. SettledInv /\ [Next]_vars => [Settled]_vars
  BY SettledStep
<1> QED  BY <1>1, SettledInit, SettledStep, PTL DEF Spec, SettledIsFinal, Settled

(* A program that has called exit() is not reported as aborted. *)
THEOREM FirstEndIsReported == Spec => []ExitStatusKept
<1>1. SettledInv => ExitStatusKept
  BY DEF SettledInv
<1> QED  BY <1>1, SettledInit, SettledStep, PTL DEF Spec
=============================================================================
