---------------------------- MODULE SyscallBridge ----------------------------
(***************************************************************************)
(* A WASM program in a Web Worker and the page that serves its system      *)
(* calls (wasi-js-bindings/js: process.js, worker.js, syscall_handler.js,  *)
(* syscall_lock.js, syscall_entry.js).                                     *)
(*                                                                         *)
(* The worker posts a "syscall" message and blocks on a word of shared     *)
(* memory; the page runs the handler, which may take its time, leaves the  *)
(* answer in the shared memory and wakes the worker up.  The program's end *)
(* is a message too, and settles the promise run() returned.               *)
(*                                                                         *)
(* The n-th system call is the number n, and so is its answer, whether it  *)
(* is an errno (in retcode) or an object (in data, with retcode -1).  The  *)
(* program, the browser's threads and message queues, and the user of the  *)
(* process who may terminate() it are external.                            *)
(***************************************************************************)
EXTENDS Integers, Sequences

CONSTANTS
  MaxCalls,   \* bound: system calls the program makes
  Statuses,   \* exit statuses
  LateNotify  \* whether a notify may come so long after its store that the
              \* worker is asleep in its next system call by then

ABORTED == 134            \* 128+signum, what an aborted program exits with
ENOTRECOVERABLE == -2     \* what the program gets for an exception in a syscall

ASSUME ConstantsAssumption ==
  /\ MaxCalls \in Nat
  /\ Statuses \subseteq Nat /\ ABORTED \notin Statuses /\ 0 \in Statuses
  /\ LateNotify \in BOOLEAN

VARIABLES
  \* The worker's thread: "none", "loading", "program" (running), "dispatch"
  \* (call posted), "asleep", "woken", "exiting" (proc_exit posted, the trap to
  \* come), "done", "stuck" (a trap nothing is posted for), "terminated".
  worker,
  calls,      \* calls posted
  seen,       \* answers returned to the program (history)
  ended,      \* how the program ended first, NotYet while it runs (history)
  \* Shared memory.
  lock, retcode, data,
  \* The page's thread.
  toMain,     \* messages posted by the worker
  handling,   \* of each call: "none", "running", "retcode", "store", "notify", "answered"
  resolve_,   \* Null before run() and after settling it, else "pending"
  outcome,    \* what run() was settled with, or NotYet
  process_    \* WasmSubproc.process_: Null after its terminate()

Null == "null"

(* What run() is settled with, and how a program ended. *)
NotYet == <<"none", 0>>
Exited(status) == <<"exit", status>>
Signalled == <<"signal", 0>>
Failed == <<"message", 0>>
Undefined == <<"undefined", 0>>

shared == <<lock, retcode, data>>
thread == <<worker, calls, seen, ended>>
promise == <<resolve_, outcome>>
vars == <<thread, shared, toMain, handling, promise, process_>>

Caller == INSTANCE RemoteCall WITH asked <- calls, answers <- seen

Syscall(id) == [name |-> "syscall", argv |-> id]
Exit(status) == [name |-> "exit", argv |-> status]
Signal == [name |-> "signal", argv |-> 0]
Error == [name |-> "error", argv |-> 0]

Init ==
  /\ worker = "none" /\ calls = 0 /\ seen = <<>> /\ ended = NotYet
  /\ lock = "UNLOCKED" /\ retcode = 0 /\ data = 0
  /\ toMain = <<>>
  /\ handling = [id \in 1..MaxCalls |-> "none"]
  /\ resolve_ = Null /\ outcome = NotYet /\ process_ = "process"

-----------------------------------------------------------------------------
(* The worker. *)

(* The worker loads its script and instantiates the program: an error is   *)
(* either the worker's own or the "error" message of onMessage's catch.    *)
Load ==
  /\ worker = "loading"
  /\ \/ worker' = "program" /\ UNCHANGED toMain
     \/ worker' = "done" /\ toMain' = Append(toMain, Error)
  /\ UNCHANGED <<calls, seen, ended, shared, handling, promise, process_>>

(* dispatch_ up to wait(). *)
Dispatch ==
  /\ worker = "program" /\ calls < MaxCalls
  /\ lock = "UNLOCKED" /\ lock' = "LOCKED"
  /\ calls' = calls + 1
  /\ toMain' = Append(toMain, Syscall(calls + 1))
  /\ worker' = "dispatch"
  /\ UNCHANGED <<seen, ended, retcode, data, handling, promise, process_>>

(* "Overlapped syscall": lock() fails and the exception becomes an errno. *)
Overlapped ==
  /\ worker = "program" /\ calls < MaxCalls
  /\ lock = "LOCKED"
  /\ calls' = calls + 1
  /\ seen' = Append(seen, ENOTRECOVERABLE)
  /\ UNCHANGED <<worker, ended, shared, toMain, handling, promise, process_>>

NotifyPending == \E id \in 1..MaxCalls : handling[id] = "notify"

(* Atomics.wait: sleep if the word says LOCKED.  It is not looked at again *)
(* after waking up.                                                        *)
Wait ==
  /\ worker = "dispatch"
  /\ \/ lock = "UNLOCKED" /\ worker' = "woken"
     \/ lock = "LOCKED" /\ (LateNotify \/ ~NotifyPending) /\ worker' = "asleep"
  /\ UNCHANGED <<calls, seen, ended, shared, toMain, handling, promise, process_>>

Result == IF retcode = -1 THEN data ELSE retcode

(* The end of dispatch_: getRetcode and getData. *)
Return ==
  /\ worker = "woken"
  /\ seen' = Append(seen, Result)
  /\ worker' = "program"
  /\ UNCHANGED <<calls, ended, shared, toMain, handling, promise, process_>>

FirstEnd(how) == ended' = IF ended = NotYet THEN how ELSE ended

(* main() returns 0. *)
ReturnFromMain ==
  /\ worker = "program"
  /\ toMain' = Append(toMain, Exit(0))
  /\ worker' = "done" /\ FirstEnd(Exited(0))
  /\ UNCHANGED <<calls, seen, shared, handling, promise, process_>>

(* exit(), or a main() that returns something else.  The exception made    *)
(* for it is returned to the program, which then traps.                    *)
ProcExit(status) ==
  /\ worker = "program"
  /\ toMain' = Append(toMain, Exit(status))
  /\ worker' = "exiting" /\ FirstEnd(Exited(status))
  /\ UNCHANGED <<calls, seen, shared, handling, promise, process_>>

(* The program is told of the signal it raised like of any other result,   *)
(* and runs on until the page terminates it.                               *)
ProcRaise ==
  /\ worker = "program" /\ ended = NotYet
  /\ toMain' = Append(toMain, Signal)
  /\ FirstEnd(Signalled)
  /\ UNCHANGED <<worker, calls, seen, shared, handling, promise, process_>>

(* A trap of the kind abort() and exit() make.  This process's exit_status *)
(* is never set, as proc_exit is proxied: it always counts as an abort.    *)
Unreachable ==
  /\ worker \in {"program", "exiting"}
  /\ toMain' = Append(toMain, Exit(ABORTED))
  /\ worker' = "done" /\ FirstEnd(Exited(ABORTED))
  /\ UNCHANGED <<calls, seen, shared, handling, promise, process_>>

(* Any other trap (a division by zero, an address out of range) is thrown  *)
(* again inside the executor of a promise, which makes nothing of it.      *)
OtherTrap ==
  /\ worker = "program"
  /\ worker' = "stuck"
  /\ UNCHANGED <<calls, seen, ended, shared, toMain, handling, promise, process_>>

-----------------------------------------------------------------------------
(* The page.  Its code runs to completion: nothing else of it runs while   *)
(* an answer is being stored.                                              *)

Idle == \A id \in 1..MaxCalls : handling[id] \notin {"retcode", "store", "notify"}

(* Background.run(). *)
Run ==
  /\ worker = "none"
  /\ worker' = "loading" /\ resolve_' = "pending"
  /\ UNCHANGED <<calls, seen, ended, shared, toMain, handling, outcome, process_>>

(* Mutation of Terminate: the promise is settled every time. *)
TerminateSettlesAgain(reason) ==
  /\ resolve_' = Null /\ outcome' = reason
  /\ worker' = "terminated"
  /\ toMain' = <<>>

(* terminate(): what the worker has posted and nobody has read is dropped. *)
Terminate(reason) ==
  /\ IF resolve_ # Null
     THEN resolve_' = Null /\ outcome' = reason
     ELSE UNCHANGED promise
  /\ worker' = "terminated"
  /\ toMain' = <<>>

Message(name) == Idle /\ toMain # <<>> /\ Head(toMain).name = name

(* onMessage_syscall up to its await: an unknown syscall is answered now. *)
OnSyscall ==
  /\ Message("syscall")
  /\ LET id == Head(toMain).argv
     IN  \/ handling' = [handling EXCEPT ![id] = "running"] /\ UNCHANGED retcode
         \/ handling' = [handling EXCEPT ![id] = "store"] /\ retcode' = id
  /\ toMain' = Tail(toMain)
  /\ UNCHANGED <<thread, lock, data, promise, process_>>

(* The handler's promise is fulfilled, with an errno or with an object.    *)
HandlerErrno(id) ==
  /\ Idle /\ handling[id] = "running"
  /\ retcode' = id
  /\ handling' = [handling EXCEPT ![id] = "store"]
  /\ UNCHANGED <<thread, lock, data, toMain, promise, process_>>

HandlerObject(id) ==
  /\ Idle /\ handling[id] = "running"
  /\ data' = id
  /\ handling' = [handling EXCEPT ![id] = "retcode"]
  /\ UNCHANGED <<thread, lock, retcode, toMain, promise, process_>>

(* Mutation of SetRetcode: the object is there, and no word of it. *)
SetRetcodeNothing(id) ==
  /\ handling[id] = "retcode"
  /\ handling' = [handling EXCEPT ![id] = "store"]
  /\ UNCHANGED <<thread, lock, retcode, data, toMain, promise, process_>>

SetRetcode(id) ==
  /\ handling[id] = "retcode"
  /\ retcode' = -1
  /\ handling' = [handling EXCEPT ![id] = "store"]
  /\ UNCHANGED <<thread, lock, data, toMain, promise, process_>>

(* Mutation of Store: the word is left LOCKED. *)
StoreNothing(id) ==
  /\ handling[id] = "store"
  /\ handling' = [handling EXCEPT ![id] = "notify"]
  /\ UNCHANGED <<thread, shared, toMain, promise, process_>>

(* unlock(): the store, *)
Store(id) ==
  /\ handling[id] = "store"
  /\ lock' = "UNLOCKED"
  /\ handling' = [handling EXCEPT ![id] = "notify"]
  /\ UNCHANGED <<thread, retcode, data, toMain, promise, process_>>

(* Mutation of Notify: nobody is woken up. *)
NotifyNobody(id) ==
  /\ handling[id] = "notify"
  /\ handling' = [handling EXCEPT ![id] = "answered"]
  /\ UNCHANGED <<thread, shared, toMain, promise, process_>>

(* and the notify. *)
Notify(id) ==
  /\ handling[id] = "notify"
  /\ worker' = IF worker = "asleep" THEN "woken" ELSE worker
  /\ handling' = [handling EXCEPT ![id] = "answered"]
  /\ UNCHANGED <<calls, seen, ended, shared, toMain, promise, process_>>

(* A handler that throws, or whose answer does not fit the shared memory,  *)
(* takes the process down; the lock stays as it is.                        *)
HandlerThrows(id) ==
  /\ Idle /\ handling[id] = "running"
  /\ handling' = [handling EXCEPT ![id] = "answered"]
  /\ Terminate(Failed)
  /\ UNCHANGED <<calls, seen, ended, shared, process_>>

OnExit ==
  /\ Message("exit")
  /\ Terminate(Exited(Head(toMain).argv))
  /\ UNCHANGED <<calls, seen, ended, shared, handling, process_>>

OnSignal ==
  /\ Message("signal")
  /\ Terminate(Signalled)
  /\ UNCHANGED <<calls, seen, ended, shared, handling, process_>>

OnError ==
  /\ Message("error")
  /\ Terminate(Failed)
  /\ UNCHANGED <<calls, seen, ended, shared, handling, process_>>

(* WasmSubproc.terminate(), called by the command: with no reason. *)
HostTerminate ==
  /\ Idle /\ process_ # Null /\ worker # "none"
  /\ process_' = Null
  /\ Terminate(Undefined)
  /\ UNCHANGED <<calls, seen, ended, shared, handling>>

-----------------------------------------------------------------------------
WorkerStep ==
  \/ Load \/ Dispatch \/ Overlapped \/ Wait \/ Return
  \/ ReturnFromMain \/ (\E status \in Statuses : ProcExit(status))
  \/ ProcRaise \/ Unreachable \/ OtherTrap

HandlerStep(id) ==
  \/ HandlerErrno(id) \/ HandlerObject(id) \/ HandlerThrows(id)
  \/ SetRetcode(id) \/ Store(id) \/ Notify(id)

Next ==
  \/ WorkerStep
  \/ Run \/ OnSyscall \/ OnExit \/ OnSignal \/ OnError \/ HostTerminate
  \/ \E id \in 1..MaxCalls : HandlerStep(id)

Spec == Init /\ [][Next]_vars

(***************************************************************************)
(* Fairness: both threads run on when they are not blocked, and messages   *)
(* are delivered.  A handler need not finish (a read may wait for ever),   *)
(* the program need not end or make calls, and nobody need call            *)
(* terminate().  A program in proc_exit traps next.                        *)
(***************************************************************************)
Fairness ==
  /\ WF_vars(Load) /\ WF_vars(Wait) /\ WF_vars(Return)
  /\ WF_vars(worker = "exiting" /\ Unreachable)
  /\ WF_vars(OnSyscall) /\ WF_vars(OnExit) /\ WF_vars(OnSignal) /\ WF_vars(OnError)
  /\ \A id \in 1..MaxCalls :
       WF_vars(SetRetcode(id)) /\ WF_vars(Store(id)) /\ WF_vars(Notify(id))

FairSpec == Spec /\ Fairness

-----------------------------------------------------------------------------
(* Safety. *)

Messages == [name : {"syscall", "exit", "signal", "error"}, argv : Nat]
Reasons == ({"exit"} \X Nat) \cup {NotYet, Signalled, Failed, Undefined}

(* Every variable has its type. *)
TypeOK ==
  /\ worker \in {"none", "loading", "program", "dispatch", "asleep", "woken",
                 "exiting", "done", "stuck", "terminated"}
  /\ calls \in 0..MaxCalls /\ seen \in Seq(Nat \cup {ENOTRECOVERABLE})
  /\ ended \in Reasons /\ outcome \in Reasons
  /\ lock \in {"UNLOCKED", "LOCKED"} /\ retcode \in Nat \cup {-1} /\ data \in Nat
  /\ toMain \in Seq(Messages)
  /\ handling \in [1..MaxCalls -> {"none", "running", "retcode", "store", "notify", "answered"}]
  /\ resolve_ \in {Null, "pending"} /\ process_ \in {Null, "process"}

(* dispatch_ returns from wait() with the lock released ("Blocks execution *)
(* of the caller while lockIndex remains in the LOCKED state").            *)
WaitBlocksWhileLocked == worker = "woken" => lock = "UNLOCKED"

(* dispatch_ never finds the lock taken ("Overlapped syscall"): whenever   *)
(* the program runs, every call it made has been answered and the answer   *)
(* read.                                                                   *)
NoOverlap == worker = "program" => lock = "UNLOCKED" /\ Len(seen) = calls

(* The page serves one call at a time, and while it stores an answer the   *)
(* program is not running.                                                 *)
OneCallServed ==
  /\ \A i, j \in 1..MaxCalls :
       handling[i] \in {"running", "retcode", "store"}
         /\ handling[j] \in {"running", "retcode", "store"} => i = j
  /\ \A i \in 1..MaxCalls :
       handling[i] \in {"retcode", "store"} =>
         worker \in {"dispatch", "asleep", "terminated"} /\ lock = "LOCKED"

Served(id) == handling[id] \in {"running", "retcode", "store"}
Requested(i) == toMain[i].name = "syscall"
Running == worker \in {"none", "loading", "program", "woken", "exiting", "done", "stuck"}
Blocked == worker \in {"dispatch", "asleep"}

(* A blocked program is one answer behind, a running one is not. *)
AnswersKeepUp ==
  /\ Blocked \/ worker = "woken" => calls >= 1 /\ Len(seen) = calls - 1
  /\ Running /\ worker # "woken" => Len(seen) = calls

(* Only the newest call is posted or served, with the program blocked (or  *)
(* gone) and the lock taken, and the answer is complete before the unlock. *)
ServedIsNewest ==
  \A id \in 1..MaxCalls :
    /\ id > calls => handling[id] = "none"
    /\ Served(id) => id = calls /\ lock = "LOCKED" /\ ~Running
    /\ handling[id] = "retcode" => data = id
    /\ handling[id] = "store" => Result = id

PostedIsNewest ==
  /\ \A i \in DOMAIN toMain :
       Requested(i) => /\ toMain[i].argv = calls /\ handling[calls] = "none"
                       /\ lock = "LOCKED" /\ Blocked
  /\ \A i, j \in DOMAIN toMain : Requested(i) /\ Requested(j) => i = j

(* A released lock means an answer to read, for a program that waits. *)
AnswerIsReady ==
  /\ Running => lock = "UNLOCKED"
  /\ worker = "woken" \/ (Blocked /\ lock = "UNLOCKED") => Result = calls
  /\ worker = "asleep" /\ lock = "LOCKED" => ~NotifyPending
  /\ worker = "terminated" => toMain = <<>>

(* The inductive invariant behind the properties above and below: a call   *)
(* is either posted, served or answered, the lock says which, and only the *)
(* newest call can be any of these.                                        *)
BridgeInv ==
  TypeOK /\ AnswersKeepUp /\ ServedIsNewest /\ PostedIsNewest /\ AnswerIsReady

(* A program that has called exit() is not reported as aborted, although   *)
(* it traps afterwards and a second "exit" message follows: what run()     *)
(* resolves with is how the program ended first.                           *)
ExitStatusKept == outcome[1] = "exit" => outcome = ended

(* The n-th system call returns the answer to the n-th system call. *)
AnswersMatchCalls == Caller!Spec

(* run() is settled once, and then no further call is served. *)
SettledIsFinal ==
  [][outcome # NotYet =>
       /\ UNCHANGED outcome
       /\ \A id \in 1..MaxCalls : handling[id] = "none" => handling'[id] = "none"]_vars

-----------------------------------------------------------------------------
(* Liveness. *)

(* An answer the page has begun to store wakes the program up, whether it  *)
(* had already gone to sleep or not.                                       *)
AnswerIsSeen ==
  \A id \in 1..MaxCalls :
    handling[id] \in {"retcode", "store", "notify"} ~> Len(seen) >= id \/ worker = "terminated"

(* A program that exits, aborts or cannot be started ends run(). *)
EndIsReported == worker \in {"exiting", "done"} ~> outcome # NotYet

(* So does one that traps in any way ("If the program aborts, WASM will    *)
(* throw an exception which our Program class will catch & process").      *)
TrapIsReported == worker = "stuck" ~> outcome # NotYet

=============================================================================
