----------------------------- MODULE PollOneoff ------------------------------
(***************************************************************************)
(* Waiting and reading in wassh: handle_poll_oneoff with its sleep timer   *)
(* and notify_ callback, the queue of signals, the data of a terminal and  *)
(* of stream sockets, and the two system call entries that use them,       *)
(* sys_poll_oneoff and sys_fd_read (wassh/js/syscall_handler.js,           *)
(* process.js, sockets.js; wasi-js-bindings/js/syscall_entry.js).          *)
(*                                                                         *)
(* The program makes one call at a time (SyscallBridge).  The bytes of a   *)
(* file descriptor are numbered from 1 in the order they arrive, the       *)
(* signals in the order they are sent.  Time is in units that matter to    *)
(* the deadlines; the page may be late for a timer but never early.  The   *)
(* program, the terminal, the network and the clock are external.          *)
(***************************************************************************)
EXTENDS Integers, Sequences, FiniteSets

CONSTANTS
  Sockets,     \* stream sockets the program has open; it has the terminal too
  SLEEP,       \* the 30000 ms of a sleep with no timeout
  MaxTime, MaxBytes, MaxSignals, MaxPolls,   \* bounds
  MaxIovs      \* bound: buffers in one read

Tty == "tty"
Ready == "ready"   \* any subscription that is ready at once: FD_WRITE, a regular file, EBADF
Fds == Sockets \cup {Tty}

ConstantsAssumption ==
  /\ {Tty, Ready, "clock"} \cap Sockets = {}
  /\ SLEEP \in Nat \ {0} /\ MaxTime \in Nat /\ MaxIovs \in Nat \ {0}
  /\ MaxBytes \in Nat /\ MaxSignals \in Nat /\ MaxPolls \in Nat

VARIABLES
  now,
  program,     \* "running", "polling", "reading"
  polls,       \* polls made
  subs,        \* what the poll waits for: fds, and the deadline or Never
  poll,        \* the handler: "none", "scan", "sleeping", "woken", "replied"
  reply,       \* what it returned: events and signals
  timers,      \* setTimeout of the sleeps: when due, and for which sleep
  notify_,     \* the sleep notify_() ends, or None
  sleeps,      \* number of the newest sleep
  queue,       \* signal_queue
  sent,        \* signals sent
  caught,      \* signals delivered to the program, in order
  data,        \* of each descriptor, bytes that have arrived and not been read
  received,    \* bytes that have arrived
  read,        \* the read in progress: descriptor, buffers left, bytes read, block
  reader_,     \* of the read in progress: "none", "waiting", "awake"
  got          \* bytes the program was given, in order

Never == -1
None == 0
NoReply == [events |-> {}, signals |-> <<>>]
NoRead == [fd |-> Tty, left |-> 0, acc |-> <<>>, block |-> "yes"]

clock == <<now>>
polling == <<polls, subs, poll, reply, timers, notify_, sleeps>>
signals == <<queue, sent, caught>>
bytes == <<data, received, got>>
reading == <<read, reader_>>
vars == <<clock, program, polling, signals, bytes, reading>>

Init ==
  /\ now = 0 /\ program = "running" /\ polls = 0
  /\ subs = [fds |-> {}, deadline |-> Never] /\ poll = "none" /\ reply = NoReply
  /\ timers = {} /\ notify_ = None /\ sleeps = 0
  /\ queue = <<>> /\ sent = 0 /\ caught = <<>>
  /\ data = [fd \in Fds |-> <<>>] /\ received = [fd \in Fds |-> 0]
  /\ read = NoRead /\ reader_ = "none" /\ got = [fd \in Fds |-> <<>>]

Tick ==
  /\ now < MaxTime
  /\ now' = now + 1
  /\ UNCHANGED <<program, polling, signals, bytes, reading>>

-----------------------------------------------------------------------------
(* poll_oneoff. *)

(* The program polls, with or without a timeout (from now on). *)
Poll(fds, timeout) ==
  /\ program = "running" /\ polls < MaxPolls
  /\ fds # {} \/ timeout # Never
  /\ program' = "polling" /\ polls' = polls + 1
  /\ subs' = [fds |-> fds, deadline |-> IF timeout = Never THEN Never ELSE now + timeout]
  /\ poll' = "scan"
  /\ UNCHANGED <<clock, reply, timers, notify_, sleeps, signals, bytes, reading>>

OnlyClock == subs.fds = {}

Readable(fd) == fd = Ready \/ (fd \in Fds /\ data[fd] # <<>>)

TimedOut == subs.deadline # Never /\ subs.deadline <= now

Events ==
  {fd \in subs.fds : Readable(fd)} \cup (IF TimedOut THEN {"clock"} ELSE {})

(* Mutation of Sleep: no callback. *)
SleepDeaf(msec) ==
  /\ sleeps' = sleeps + 1
  /\ timers' = timers \cup {[due |-> now + msec, nth |-> sleeps + 1]}
  /\ poll' = "sleeping"
  /\ UNCHANGED <<notify_, reply, queue>>

Sleep(msec) ==
  /\ sleeps' = sleeps + 1
  /\ timers' = timers \cup {[due |-> now + msec, nth |-> sleeps + 1]}
  /\ notify_' = sleeps + 1
  /\ poll' = "sleeping"
  /\ UNCHANGED <<reply, queue>>

(* Mutation of Return: the queue of signals is not emptied. *)
ReturnKeepsQueue(events) ==
  /\ reply' = [events |-> events, signals |-> queue]
  /\ poll' = "replied"
  /\ UNCHANGED <<timers, notify_, sleeps, queue>>

(* Return events, with the signals that came in. *)
Return(events) ==
  /\ reply' = [events |-> events, signals |-> queue]
  /\ queue' = <<>>
  /\ poll' = "replied"
  /\ UNCHANGED <<timers, notify_, sleeps>>

(* Only a timeout: sleep once, and report the timeout.  Otherwise look at  *)
(* everything, and sleep as long as there is nothing to report; signals    *)
(* are something to report only when there is no timeout.                  *)
Scan ==
  /\ poll \in {"scan", "woken"}
  /\ \/ OnlyClock /\ poll = "scan" /\ ~TimedOut /\ Sleep(subs.deadline - now)
     \/ OnlyClock /\ (poll = "woken" \/ TimedOut) /\ Return({"clock"})
     \/ ~OnlyClock /\ Events # {} /\ Return(Events)
     \/ ~OnlyClock /\ Events = {} /\ subs.deadline # Never /\ Sleep(subs.deadline - now)
     \/ Events = {} /\ subs.deadline = Never /\ queue # <<>> /\ Return({})
     \/ Events = {} /\ subs.deadline = Never /\ queue = <<>> /\ Sleep(SLEEP)
  /\ UNCHANGED <<clock, program, polls, subs, sent, caught, bytes, reading>>

(* Mutation of TimerFires: the sleep is not resolved. *)
TimerFiresQuietly(t) ==
  /\ t \in timers /\ t.due <= now
  /\ timers' = timers \ {t}
  /\ notify_' = None
  /\ UNCHANGED <<clock, program, polls, subs, poll, reply, sleeps, signals, bytes, reading>>

(* The timer of a sleep: resolves that sleep, and clears notify_. *)
TimerFires(t) ==
  /\ t \in timers /\ t.due <= now
  /\ timers' = timers \ {t}
  /\ notify_' = None
  /\ poll' = IF poll = "sleeping" /\ t.nth = sleeps THEN "woken" ELSE poll
  /\ UNCHANGED <<clock, program, polls, subs, reply, sleeps, signals, bytes, reading>>

(* The call to notify_, if there is one, that data and signals make. *)
Notify ==
  IF notify_ = None
  THEN UNCHANGED <<timers, notify_, poll>>
  ELSE /\ timers' = {t \in timers : t.nth # notify_}
       /\ poll' = IF poll = "sleeping" /\ notify_ = sleeps THEN "woken" ELSE poll
       /\ notify_' = None

(* The end of sys_poll_oneoff: __wassh_signal_deliver for each signal; no  *)
(* event at all is EINTR.                                                  *)
PollReturn ==
  /\ poll = "replied"
  /\ caught' = caught \o reply.signals
  /\ program' = "running" /\ poll' = "none" /\ reply' = NoReply
  /\ subs' = [fds |-> {}, deadline |-> Never]
  /\ UNCHANGED <<clock, polls, timers, notify_, sleeps, queue, sent, bytes, reading>>

(* send_signal: the terminal is resized. *)
SendSignal ==
  /\ sent < MaxSignals
  /\ sent' = sent + 1
  /\ queue' = Append(queue, sent + 1)
  /\ Notify
  /\ UNCHANGED <<clock, program, polls, subs, reply, sleeps, caught, bytes, reading>>

-----------------------------------------------------------------------------
(* Data. *)

Wake(fd) ==
  reader_' = IF read.fd = fd /\ reader_ = "waiting" THEN "awake" ELSE reader_

(* A socket's onRecv, the terminal's onData_. *)
OnRecv(fd) ==
  /\ received[fd] < MaxBytes
  /\ received' = [received EXCEPT ![fd] = @ + 1]
  /\ data' = [data EXCEPT ![fd] = Append(@, received[fd] + 1)]
  /\ Wake(fd)
  /\ Notify
  /\ UNCHANGED <<clock, program, polls, subs, reply, sleeps, signals, got, read>>

(* sys_fd_read with iovs buffers of one byte.  block says whether the      *)
(* descriptor blocks.                                                      *)
Read(fd, iovs, block) ==
  /\ program = "running"
  /\ program' = "reading"
  /\ read' = [fd |-> fd, left |-> iovs, acc |-> <<>>, block |-> block]
  /\ UNCHANGED <<clock, polling, signals, bytes, reader_>>

First(s) == IF s = <<>> THEN <<>> ELSE <<Head(s)>>
Rest(s) == IF s = <<>> THEN <<>> ELSE Tail(s)

(* Mutation of FillIov: one buffer too many. *)
FillIovOneMore ==
  /\ program = "reading" /\ read.left >= 0
  /\ \/ reader_ = "awake"
     \/ reader_ = "none" /\ (read.fd = Tty \/ data[read.fd] # <<>>)
  /\ read' = [read EXCEPT !.left = @ - 1, !.acc = @ \o First(data[read.fd])]
  /\ data' = [data EXCEPT ![read.fd] = Rest(@)]
  /\ reader_' = "none"
  /\ UNCHANGED <<clock, program, polling, signals, received, got>>

(* One buffer: handle_fd_read takes what there is, at most its length; the *)
(* terminal's may be nothing.  A reader that was woken up looks no more.   *)
FillIov ==
  /\ program = "reading" /\ read.left > 0
  /\ \/ reader_ = "awake"
     \/ reader_ = "none" /\ (read.fd = Tty \/ data[read.fd] # <<>>)
  /\ read' = [read EXCEPT !.left = @ - 1, !.acc = @ \o First(data[read.fd])]
  /\ data' = [data EXCEPT ![read.fd] = Rest(@)]
  /\ reader_' = "none"
  /\ UNCHANGED <<clock, program, polling, signals, received, got>>

(* A stream socket with no data: wait for some, *)
BlockReader ==
  /\ program = "reading" /\ read.left > 0 /\ reader_ = "none"
  /\ read.fd # Tty /\ data[read.fd] = <<>> /\ read.block = "yes"
  /\ reader_' = "waiting"
  /\ UNCHANGED <<clock, program, polling, signals, bytes, read>>

(* or EAGAIN, whatever the buffers before this one have got. *)
ReadAgain ==
  /\ program = "reading" /\ read.left > 0 /\ reader_ = "none"
  /\ read.fd # Tty /\ data[read.fd] = <<>> /\ read.block = "no"
  /\ program' = "running" /\ read' = NoRead
  /\ UNCHANGED <<clock, polling, signals, bytes, reader_>>

ReadReturn ==
  /\ program = "reading" /\ read.left = 0
  /\ got' = [got EXCEPT ![read.fd] = @ \o read.acc]
  /\ program' = "running" /\ read' = NoRead
  /\ UNCHANGED <<clock, polling, signals, data, received, reader_>>

-----------------------------------------------------------------------------
Next ==
  \/ Tick
  \/ \E fds \in SUBSET (Fds \cup {Ready}), timeout \in {Never} \cup 0..MaxTime :
       now + timeout <= MaxTime /\ Poll(fds, timeout)
  \/ Scan \/ (\E t \in timers : TimerFires(t)) \/ PollReturn
  \/ SendSignal
  \/ \E fd \in Fds : OnRecv(fd)
  \/ \E fd \in Fds, iovs \in 1..MaxIovs, block \in {"yes", "no"} : Read(fd, iovs, block)
  \/ FillIov \/ BlockReader \/ ReadAgain \/ ReadReturn

Spec == Init /\ [][Next]_vars

(***************************************************************************)
(* Fairness: time passes, timers fire once they are due, and both threads  *)
(* run on.  Nobody has to send data or signals, and the program need not   *)
(* make calls.                                                             *)
(***************************************************************************)
Fairness ==
  /\ WF_vars(Tick) /\ WF_vars(Scan) /\ WF_vars(PollReturn)
  /\ WF_vars(\E t \in timers : TimerFires(t))
  /\ WF_vars(FillIov) /\ WF_vars(ReadAgain) /\ WF_vars(ReadReturn)

FairSpec == Spec /\ Fairness

-----------------------------------------------------------------------------
(* Safety. *)

Stages == {"none", "scan", "sleeping", "woken", "replied"}

(* Every variable has its type. *)
TypeOK ==
  /\ now \in Nat /\ polls \in Nat /\ sleeps \in Nat /\ notify_ \in Nat
  /\ program \in {"running", "polling", "reading"}
  /\ subs \in [fds : SUBSET (Fds \cup {Ready}), deadline : Nat \cup {Never}]
  /\ poll \in Stages
  /\ reply.events \subseteq Fds \cup {Ready, "clock"} /\ reply.signals \in Seq(Nat)
  /\ \A t \in timers : t \in [due : Nat, nth : Nat]
  /\ sent \in Nat /\ queue \in Seq(Nat) /\ caught \in Seq(Nat)
  /\ data \in [Fds -> Seq(Nat)] /\ received \in [Fds -> Nat] /\ got \in [Fds -> Seq(Nat)]
  /\ read \in [fd : Fds, left : Nat, acc : Seq(Nat), block : {"yes", "no"}]
  /\ reader_ \in {"none", "waiting", "awake"}

(* A poll never sleeps through what would end it: while it sleeps nothing  *)
(* it waits for is there, and notify_ ends this very sleep.  Without a     *)
(* timeout that goes for signals too.                                      *)
NoLostWakeup ==
  poll = "sleeping" =>
    /\ notify_ = sleeps
    /\ \A fd \in subs.fds : fd \in Fds /\ data[fd] = <<>>
    /\ subs.deadline = Never => queue = <<>>

(* Each sleep leaves nothing behind: there is one timer while it lasts,    *)
(* its own, and none at any other time.                                    *)
OneTimer ==
  /\ \A t \in timers : poll = "sleeping" /\ t.nth = sleeps
  /\ poll = "sleeping" => Cardinality(timers) = 1

(* What poll reports is so: the program will find data on a descriptor it  *)
(* was told to read, and a deadline among others has passed.               *)
EventsAreTrue ==
  poll = "replied" =>
    /\ \A fd \in reply.events \cap Fds : data[fd] # <<>>
    /\ "clock" \in reply.events /\ ~OnlyClock => subs.deadline <= now

(* Signals reach the program once each and in the order they were sent,    *)
(* whether they come before a poll, while it sleeps or as it returns.      *)
SignalsOnceInOrder ==
  caught \o reply.signals \o queue = [n \in 1..sent |-> n]

(* The bytes of a descriptor reach the program once each and in order;     *)
(* none is dropped between the socket and the program's buffers.           *)
BytesReachProgram ==
  \A fd \in Fds :
    got[fd] \o (IF read.fd = fd THEN read.acc ELSE <<>>) \o data[fd]
      = [n \in 1..received[fd] |-> n]

(* "if any signals are queued, we return a timeout event with the list of  *)
(* pending signals": poll does not sleep on with signals queued.           *)
SignalsEndPoll == poll = "sleeping" => queue = <<>>

-----------------------------------------------------------------------------
(* Liveness. *)

(* A poll with a timeout returns, whatever else happens. *)
PollEnds == program = "polling" /\ subs.deadline # Never ~> program # "polling"

(* A poll returns once there is data on a descriptor it waits for. *)
DataEndsPoll ==
  \A fd \in Fds : program = "polling" /\ fd \in subs.fds /\ data[fd] # <<>> ~> program # "polling"

(* A signal sent to a program whose poll has not returned yet reaches it. *)
SignalsAreCaught ==
  \A n \in 1..MaxSignals :
    poll \in {"scan", "sleeping", "woken"} /\ sent >= n ~> Len(caught) >= n

=============================================================================
