------------------------------- MODULE FdTable -------------------------------
(***************************************************************************)
(* The file descriptor table of wassh (FdMap and VFS in wassh/js/vfs.js)   *)
(* and the system calls that change it (wassh/js/syscall_handler.js).      *)
(* Descriptors are numbers, handles are numbered in the order they are     *)
(* made.  A program makes one call at a time, so a call is one step.       *)
(***************************************************************************)
EXTENDS Integers, FiniteSets

CONSTANTS
  MaxFds,      \* FdMap.max_
  MaxTarget,   \* bound: highest number given to fd_renumber and dup2
  MaxHandles,  \* bound: handles made
  MaxCalls     \* bound: calls made

ASSUME TableAssumption ==
  /\ MaxFds \in Nat /\ MaxFds >= 5 /\ MaxTarget \in Nat /\ MaxTarget >= MaxFds
  /\ MaxHandles \in Nat /\ MaxCalls \in Nat

VARIABLES
  fds_,      \* from the open descriptors to their handles
  next_,     \* where the search for a free number goes on
  made,      \* number of the newest handle
  sockets,   \* the handles that are sockets
  closed,    \* the handles whose close() has been called
  replaced,  \* the handles that a call closed while they had a descriptor
  answer,    \* the last call's: "fd" with a number, ESUCCESS or an error
  fd,        \* that number
  calls      \* calls made

vars == <<fds_, next_, made, sockets, closed, replaced, answer, fd, calls>>

Full == -1
Undefined == 0     \* the "handle" of an open that returned undefined
Open_ == DOMAIN fds_
Refers(h) == \E n \in Open_ : fds_[n] = h

(* initStdio(tty), then open('/') and open('.'): descriptors 0 to 4. *)
Init ==
  /\ fds_ = [n \in 0..4 |-> IF n <= 2 THEN 1 ELSE n - 1]
  /\ next_ = 5 /\ made = 3 /\ sockets = {} /\ closed = {} /\ replaced = {}
  /\ answer = "ESUCCESS" /\ fd = 0 /\ calls = 0

-----------------------------------------------------------------------------
(* The first free number from n on, as a set of one. *)
FirstFree(n) ==
  {k \in n..(n + MaxTarget + 1) : k \notin Open_ /\ n..(k - 1) \subseteq Open_}

(* Mutation of FreeFd: the second round takes the first number. *)
FreeFdReuses(n) ==
  \E k \in FirstFree(next_) : n = IF k < MaxFds THEN k ELSE 0

(* next(): from next_ up, and once again from 0; -1 if all are taken. *)
FreeFd(n) ==
  \E k \in FirstFree(next_), m \in FirstFree(0) :
    n = IF k < MaxFds THEN k ELSE IF m < MaxFds THEN m ELSE Full

(* next_ is left one past the number looked at last. *)
Advance(n) ==
  IF n # Full THEN next_' = n + 1 ELSE \E m \in FirstFree(MaxFds) : next_' = m + 1

Set(n, h) == fds_' = [k \in Open_ \cup {n} |-> IF k = n THEN h ELSE fds_[k]]

Answer(a, n) == answer' = a /\ fd' = n /\ calls' = calls + 1
Call == calls < MaxCalls

(* openHandle of a handle h just made, whose call then returns {fd}; with  *)
(* the table full h is closed again.                                       *)
OpenHandle(h) ==
  /\ made' = made + 1 /\ h = made'
  /\ \E n \in {Full} \cup 0..MaxFds :
       /\ FreeFd(n) /\ Advance(n)
       /\ IF n = Full
          THEN Answer("EMFILE", Full) /\ closed' = closed \cup {h} /\ UNCHANGED fds_
          ELSE Answer("fd", n) /\ Set(n, h) /\ UNCHANGED closed
  /\ UNCHANGED replaced

(* path_open of something that can be opened. *)
PathOpen ==
  /\ Call /\ made < MaxHandles
  /\ OpenHandle(made + 1)
  /\ UNCHANGED sockets

(* path_open of a directory without O_DIRECTORY, or with it of a file or   *)
(* of nothing, under /.ssh: WASI.oflags has no error numbers, so open()    *)
(* returns undefined, which gets a descriptor.                             *)
PathOpenUndefined ==
  /\ Call
  /\ \E n \in 0..MaxFds :
       FreeFd(n) /\ Advance(n) /\ Set(n, Undefined) /\ Answer("fd", n)
  /\ UNCHANGED <<made, sockets, closed, replaced>>

(* sock_create, and sock_accept with a client there. *)
SockCreate ==
  /\ Call /\ made < MaxHandles
  /\ OpenHandle(made + 1)
  /\ sockets' = sockets \cup {made + 1}

(* getFileHandle(n) is undefined. *)
Bad(n) == IF n \in Open_ THEN fds_[n] = Undefined ELSE TRUE

BadFd ==
  /\ Call
  /\ \E n \in 0..MaxTarget : Bad(n)
  /\ Answer("EBADF", Full)
  /\ UNCHANGED <<fds_, next_, made, sockets, closed, replaced>>

(* The handle is closed with its last descriptor. *)
CloseHandle(n) ==
  closed' = IF \E k \in Open_ \ {n} : fds_[k] = fds_[n] THEN closed ELSE closed \cup {fds_[n]}

(* Mutation of FdClose: a number without a handle is not refused. *)
FdCloseUnchecked(n) ==
  /\ Call
  /\ fds_' = [k \in Open_ \ {n} |-> fds_[k]]
  /\ CloseHandle(n)
  /\ Answer("ESUCCESS", Full)
  /\ UNCHANGED <<next_, made, sockets, replaced>>

FdClose(n) ==
  /\ Call /\ ~Bad(n)
  /\ fds_' = [k \in Open_ \ {n} |-> fds_[k]]
  /\ CloseHandle(n)
  /\ Answer("ESUCCESS", Full)
  /\ UNCHANGED <<next_, made, sockets, replaced>>

(* dup: -1 counts as a descriptor, as only false is an error; FdMap.open   *)
(* does not store a handle under it.                                       *)
FdDup(n) ==
  /\ Call /\ n \in Open_
  /\ IF Bad(n) THEN Answer("EBADF", Full) /\ UNCHANGED <<fds_, next_>>
     ELSE \E k \in {Full} \cup 0..MaxFds :
            /\ FreeFd(k) /\ Advance(k) /\ Answer("fd", k)
            /\ IF k = Full THEN UNCHANGED fds_ ELSE Set(k, fds_[n])
  /\ UNCHANGED <<made, sockets, closed, replaced>>

(* fd_renumber is FdMap.dup2: what the target had is closed, whoever else  *)
(* refers to it; the old number stays open.                                *)
FdRenumber(n, to) ==
  /\ Call /\ ~Bad(n)
  /\ Answer("ESUCCESS", Full)
  /\ IF n = to THEN UNCHANGED <<fds_, closed, replaced>>
     ELSE /\ Set(to, fds_[n])
          /\ IF Bad(to) THEN UNCHANGED <<closed, replaced>>
             ELSE closed' = closed \cup {fds_[to]} /\ replaced' = replaced \cup {fds_[to]}
  /\ UNCHANGED <<next_, made, sockets>>

(* dup2, whose handler calls vfs.dup with the target as an argument too    *)
(* many.                                                                   *)
FdDup2(n, to) == FdDup(n)

(* sock_bind of a TCP socket: another handle takes its place. *)
SockBind(n) ==
  /\ Call /\ ~Bad(n) /\ fds_[n] \in sockets /\ made < MaxHandles
  /\ made' = made + 1 /\ sockets' = sockets \cup {made'}
  /\ closed' = closed \cup {fds_[n]} /\ replaced' = replaced \cup {fds_[n]}
  /\ Set(n, made')
  /\ Answer("ESUCCESS", Full)
  /\ UNCHANGED next_

SockShutdown(n) ==
  /\ Call /\ ~Bad(n) /\ fds_[n] \in sockets
  /\ closed' = closed \cup {fds_[n]} /\ replaced' = replaced \cup {fds_[n]}
  /\ Answer("ESUCCESS", Full)
  /\ UNCHANGED <<fds_, next_, made, sockets>>

Next ==
  \/ PathOpen \/ PathOpenUndefined \/ SockCreate \/ BadFd
  \/ \E n \in Open_ : FdClose(n) \/ FdDup(n) \/ SockBind(n) \/ SockShutdown(n)
  \/ \E n \in Open_, to \in 0..MaxTarget : FdRenumber(n, to) \/ FdDup2(n, to)

Spec == Init /\ [][Next]_vars

-----------------------------------------------------------------------------
(* Every variable has its type. *)
TypeOK ==
  /\ Open_ \subseteq 0..MaxTarget /\ fds_ \in [Open_ -> 0..made]
  /\ next_ \in Nat /\ made \in Nat \ {0}
  /\ sockets \subseteq 1..made /\ closed \subseteq 1..made /\ replaced \subseteq closed
  /\ answer \in {"fd", "ESUCCESS", "EBADF", "EMFILE"} /\ fd \in Nat \cup {Full} /\ calls \in Nat

(* A handle lives as long as a descriptor refers to it: "if no other fds   *)
(* refer to this handle, close it".  None is left open without a           *)
(* descriptor, whatever was duplicated, overwritten, swapped or refused,   *)
(* and none is closed early unless a call did that on purpose.             *)
HandleLife ==
  \A h \in 1..made :
    /\ ~Refers(h) => h \in closed
    /\ h \in closed => ~Refers(h) \/ h \in replaced

(* A call is refused for want of a descriptor only if all are taken,       *)
(* wherever the search started.                                            *)
RefusedOnlyWhenFull == fd = Full /\ answer \in {"fd", "EMFILE"} => 0..MaxFds-1 \subseteq Open_

(* Both: after any sequence of opens, duplications, closes and failures    *)
(* the table neither loses a handle nor a number.                          *)
DescriptorsHold == HandleLife /\ RefusedOnlyWhenFull

(* "Same semantics as standard Linux/POSIX dup2": the new descriptor is    *)
(* the old one's double.                                                   *)
Dup2Doubles ==
  [][\A n \in Open_, to \in 0..MaxTarget :
       FdDup2(n, to) /\ answer' # "EBADF" => to \in DOMAIN fds_' /\ fds_'[to] = fds_[n]]_vars

=============================================================================
