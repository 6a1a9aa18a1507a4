--------------------------- MODULE Handles_proofs ---------------------------
(***************************************************************************)
(* That handles live as long as what they are for: those of wassh's        *)
(* descriptors, and those of the SFTP server in the hands of the file      *)
(* system provider's chains of requests.                                   *)
(*                                                                         *)
(* First the descriptor table (FdTable), for tables of every size and any  *)
(* number of calls.                                                        *)
(*                                                                         *)
(* Then the provider of MCFiles: that every reply, error and request keeps *)
(* the invariant of Files_proofs (Orderly), and what follows from it.      *)
(*                                                                         *)
(* Last, with what Files_proofs has of its other parts, the types of       *)
(* MCFiles.                                                                *)
(***************************************************************************)
EXTENDS Files_proofs, FdTable

-----------------------------------------------------------------------------
(* What the search of next() finds is free, or the table is full. *)
LEMMA FreeFdIsFree ==
  ASSUME TypeOK, NEW n, FreeFd(n)
  PROVE  /\ n \in Nat \cup {Full}
         /\ n # Full => n \notin Open_
         /\ n = Full => 0..MaxFds-1 \subseteq Open_
<1>1. PICK k \in FirstFree(next_), m \in FirstFree(0) :
        n = IF k < MaxFds THEN k ELSE IF m < MaxFds THEN m ELSE Full
  BY DEF FreeFd
<1>2. k \in Nat /\ k \notin Open_ /\ m \in Nat /\ m \notin Open_ /\ 0..(m - 1) \subseteq Open_
  BY TableAssumption DEF FirstFree, TypeOK
<1>3. CASE n = Full
  <2>1. m >= MaxFds
    BY <1>1, <1>2, <1>3, TableAssumption DEF Full
  <2> QED BY <2>1, <1>2, <1>3, TableAssumption
<1>4. CASE n # Full
  BY <1>1, <1>2, <1>4
<1> QED BY <1>3, <1>4

(* The search for a free descriptor stays among the numbers. *)
LEMMA AdvanceIsNat ==
  ASSUME TypeOK, NEW n \in Nat \cup {Full}, Advance(n)
  PROVE  next_' \in Nat
<1>1. CASE n = Full
  <2>1. PICK m \in FirstFree(MaxFds) : next_' = m + 1
    BY <1>1 DEF Advance
  <2> QED BY <2>1, TableAssumption DEF FirstFree
<1>2. CASE n # Full
  BY <1>2 DEF Advance
<1> QED BY <1>1, <1>2

(* What Set does to the table. *)
LEMMA SetStores ==
  ASSUME TypeOK, NEW n \in 0..MaxTarget, NEW m \in {made, made + 1}, NEW h \in 0..m, Set(n, h)
  PROVE  /\ Open_' = Open_ \cup {n}
         /\ fds_'[n] = h
         /\ \A k \in Open_ \ {n} : fds_'[k] = fds_[k]
         /\ Open_' \subseteq 0..MaxTarget /\ fds_' \in [Open_' -> 0..m]
<1>1. Open_' = Open_ \cup {n} /\ fds_'[n] = h /\ \A k \in Open_ \ {n} : fds_'[k] = fds_[k]
  BY DEF Set, Open_
<1>2. \A k \in Open_ : fds_[k] \in 0..m
  BY DEF TypeOK
<1>3. fds_' \in [Open_' -> 0..m]
  BY <1>1, <1>2 DEF Set
<1> QED BY <1>1, <1>3 DEF TypeOK

-----------------------------------------------------------------------------
IInv == TypeOK /\ HandleLife /\ RefusedOnlyWhenFull

(* The invariant holds of the standard descriptors, *)
LEMMA InitIInv == Init => IInv
<1> SUFFICES ASSUME Init PROVE IInv
  OBVIOUS
<1>1. Open_ = 0..4 /\ fds_[0] = 1 /\ fds_[1] = 1 /\ fds_[2] = 1 /\ fds_[3] = 2 /\ fds_[4] = 3
  BY DEF Init, Open_
<1>2. TypeOK
  BY <1>1, TableAssumption DEF Init, TypeOK, Open_
<1>3. HandleLife
  BY <1>1 DEF Init, HandleLife, Refers
<1> QED BY <1>2, <1>3 DEF IInv, Init, RefusedOnlyWhenFull

(* A handle that is made and stored under a free number, or closed again.  *)
LEMMA OpenHandleIInv ==
  ASSUME IInv, Call, OpenHandle(made + 1), sockets' \in {sockets, sockets \cup {made + 1}}
  PROVE  IInv'
<1> USE DEF IInv, Call
<1>1. PICK n \in {Full} \cup 0..MaxFds :
        /\ FreeFd(n) /\ Advance(n)
        /\ IF n = Full
           THEN Answer("EMFILE", Full) /\ closed' = closed \cup {made + 1} /\ UNCHANGED fds_
           ELSE Answer("fd", n) /\ Set(n, made + 1) /\ UNCHANGED closed
  BY DEF OpenHandle
<1>2. /\ n \in Nat \cup {Full}
      /\ n # Full => n \notin Open_
      /\ n = Full => 0..MaxFds-1 \subseteq Open_
  BY <1>1, FreeFdIsFree
<1>3. made' = made + 1 /\ replaced' = replaced /\ next_' \in Nat
  BY <1>1, <1>2, AdvanceIsNat DEF OpenHandle
<1>4. \A h \in 1..made : Refers(h) <=> \E k \in Open_ : fds_[k] = h
  BY DEF Refers
<1>5. CASE n = Full
  <2>1. TypeOK'
    <3>1. fds_' = fds_ /\ fds_ \in [DOMAIN fds_ -> 0..made+1] /\ DOMAIN fds_ \subseteq 0..MaxTarget
      BY <1>1, <1>5 DEF TypeOK, Open_
    <3> QED BY <1>1, <1>3, <1>5, <3>1 DEF TypeOK, Open_, Answer, Full
  <2>2. HandleLife'
    BY <1>1, <1>3, <1>5 DEF TypeOK, HandleLife, Refers, Open_
  <2>3. RefusedOnlyWhenFull'
    BY <1>1, <1>2, <1>5 DEF RefusedOnlyWhenFull, Open_, Answer
  <2> QED BY <2>1, <2>2, <2>3
<1>6. CASE n # Full
  <2>1. /\ Open_' = Open_ \cup {n} /\ fds_'[n] = made + 1
        /\ \A k \in Open_ \ {n} : fds_'[k] = fds_[k]
        /\ Open_' \subseteq 0..MaxTarget /\ fds_' \in [Open_' -> 0..made+1]
    BY <1>1, <1>6, SetStores, TableAssumption DEF TypeOK
  <2>2. TypeOK'
    <3>1. Open_' \subseteq 0..MaxTarget /\ fds_' \in [Open_' -> 0..made']
      BY <1>1, <1>3, <1>6, <2>1 DEF OpenHandle
    <3>2. next_' \in Nat /\ made' \in Nat \ {0}
      BY <1>1, <1>3, <1>6, <2>1 DEF OpenHandle, TypeOK
    <3>3. sockets' \subseteq 1..made' /\ closed' \subseteq 1..made' /\ replaced' \subseteq closed'
      <4>1. 1..made \subseteq 1..made' /\ made + 1 \in 1..made'
        BY <1>3 DEF TypeOK
      <4>2. closed' = closed
        BY <1>1, <1>6
      <4>3. sockets' \subseteq sockets \cup {made + 1}
        OBVIOUS
      <4> QED BY <4>1, <4>2, <4>3, <1>3 DEF TypeOK
    <3>4. answer' \in {"fd", "ESUCCESS", "EBADF", "EMFILE"} /\ fd' \in Nat \cup {Full} /\ calls' \in Nat
      BY <1>1, <1>3, <1>6, <2>1 DEF OpenHandle, TypeOK, Answer, Full
    <3> QED BY <3>1, <3>2, <3>3, <3>4 DEF TypeOK
  <2>3. HandleLife'
    BY <1>1, <1>2, <1>3, <1>6, <2>1 DEF TypeOK, HandleLife, Refers
  <2>4. RefusedOnlyWhenFull'
    BY <1>1, <1>6 DEF RefusedOnlyWhenFull, Answer, Full
  <2> QED BY <2>2, <2>3, <2>4
<1> QED BY <1>5, <1>6

(* The calls that make no handle. *)
LEMMA FdCloseIInv == ASSUME IInv, NEW n \in Open_, FdClose(n) PROVE IInv'
<1> USE DEF IInv
<1>1. /\ Open_' = Open_ \ {n}
      /\ \A k \in Open_ \ {n} : fds_'[k] = fds_[k]
      /\ fds_' \in [Open_ \ {n} -> 0..made]
  BY DEF FdClose, TypeOK, Open_
<1>a. Open_' \subseteq 0..MaxTarget /\ fds_' \in [Open_' -> 0..made]
  BY <1>1 DEF TypeOK
<1>2. fds_[n] \in 1..made
  BY DEF FdClose, Bad, TypeOK, Undefined
<1>3. TypeOK'
  <2>1. Open_' \subseteq 0..MaxTarget /\ fds_' \in [Open_' -> 0..made']
    BY <1>a, <1>2 DEF FdClose
  <2>2. next_' \in Nat /\ made' \in Nat \ {0}
    BY <1>a, <1>2 DEF FdClose, TypeOK
  <2>3. sockets' \subseteq 1..made' /\ closed' \subseteq 1..made' /\ replaced' \subseteq closed'
    BY <1>a, <1>2 DEF FdClose, TypeOK, CloseHandle
  <2>4. answer' \in {"fd", "ESUCCESS", "EBADF", "EMFILE"} /\ fd' \in Nat \cup {Full} /\ calls' \in Nat
    BY <1>a, <1>2 DEF FdClose, TypeOK, Answer, Full
  <2> QED BY <2>1, <2>2, <2>3, <2>4 DEF TypeOK
<1>4. HandleLife'
  BY <1>1, <1>2 DEF FdClose, CloseHandle, TypeOK, HandleLife, Refers
<1>5. RefusedOnlyWhenFull'
  BY DEF FdClose, Answer, RefusedOnlyWhenFull
<1> QED BY <1>3, <1>4, <1>5

(* dup() keeps it, *)
LEMMA FdDupIInv == ASSUME IInv, NEW n \in Open_, FdDup(n) PROVE IInv'
<1> USE DEF IInv
<1>1. CASE Answer("EBADF", Full) /\ UNCHANGED <<fds_, next_>>
  <2>1. TypeOK'
    BY <1>1 DEF FdDup, TypeOK, Open_, Answer, Full
  <2>2. HandleLife'
    BY <1>1 DEF FdDup, HandleLife, Refers, Open_
  <2>3. RefusedOnlyWhenFull'
    BY <1>1 DEF Answer, RefusedOnlyWhenFull
  <2> QED BY <2>1, <2>2, <2>3
<1>2. CASE ~Bad(n)
  <2>1. PICK k \in {Full} \cup 0..MaxFds :
          /\ FreeFd(k) /\ Advance(k) /\ Answer("fd", k)
          /\ IF k = Full THEN UNCHANGED fds_ ELSE Set(k, fds_[n])
    BY <1>2 DEF FdDup
  <2>2. /\ k \in Nat \cup {Full}
        /\ k # Full => k \notin Open_
        /\ k = Full => 0..MaxFds-1 \subseteq Open_
    BY <2>1, FreeFdIsFree
  <2>3. next_' \in Nat
    BY <2>1, <2>2, AdvanceIsNat
  <2>4. CASE k = Full
    <3>1. TypeOK'
      BY <2>1, <2>3, <2>4 DEF FdDup, TypeOK, Open_, Answer, Full
    <3>2. HandleLife'
      BY <2>1, <2>4 DEF FdDup, HandleLife, Refers, Open_
    <3>3. RefusedOnlyWhenFull'
      BY <2>1, <2>2, <2>4 DEF RefusedOnlyWhenFull, Open_, Answer
    <3> QED BY <3>1, <3>2, <3>3
  <2>5. CASE k # Full
    <3>1. /\ Open_' = Open_ \cup {k} /\ fds_'[k] = fds_[n]
          /\ \A j \in Open_ \ {k} : fds_'[j] = fds_[j]
          /\ Open_' \subseteq 0..MaxTarget /\ fds_' \in [Open_' -> 0..made]
      BY <2>1, <2>5, SetStores, TableAssumption DEF TypeOK
    <3>2. TypeOK'
      BY <2>1, <2>3, <2>5, <3>1, TableAssumption DEF FdDup, TypeOK, Answer, Full
    <3>3. HandleLife'
      BY <2>2, <2>5, <3>1 DEF FdDup, HandleLife, Refers
    <3>4. RefusedOnlyWhenFull'
      BY <2>1, <2>5 DEF RefusedOnlyWhenFull, Answer, Full
    <3> QED BY <3>2, <3>3, <3>4
  <2> QED BY <2>4, <2>5
<1> QED BY <1>1, <1>2 DEF FdDup

(* so does dup2(), *)
LEMMA FdRenumberIInv ==
  ASSUME IInv, NEW n \in Open_, NEW to \in 0..MaxTarget, FdRenumber(n, to)
  PROVE  IInv'
<1> USE DEF IInv
<1>1. RefusedOnlyWhenFull'
  BY DEF FdRenumber, Answer, RefusedOnlyWhenFull
<1>2. CASE n = to
  <2>1. TypeOK'
    BY <1>2 DEF FdRenumber, TypeOK, Open_, Answer, Full
  <2>2. HandleLife'
    BY <1>2 DEF FdRenumber, HandleLife, Refers, Open_
  <2> QED BY <1>1, <2>1, <2>2
<1>3. CASE n # to
  <2>1. /\ Open_' = Open_ \cup {to} /\ fds_'[to] = fds_[n]
        /\ \A j \in Open_ \ {to} : fds_'[j] = fds_[j]
        /\ Open_' \subseteq 0..MaxTarget /\ fds_' \in [Open_' -> 0..made]
    BY <1>3, SetStores DEF FdRenumber, TypeOK
  <2>2. CASE Bad(to)
    <3>1. TypeOK'
      <4>1. Open_' \subseteq 0..MaxTarget /\ fds_' \in [Open_' -> 0..made']
        BY <1>3, <2>1, <2>2 DEF FdRenumber
      <4>2. next_' \in Nat /\ made' \in Nat \ {0}
        BY <1>3, <2>1, <2>2 DEF FdRenumber, TypeOK
      <4>3. sockets' \subseteq 1..made' /\ closed' \subseteq 1..made' /\ replaced' \subseteq closed'
        BY <1>3, <2>1, <2>2 DEF FdRenumber, TypeOK
      <4>4. answer' \in {"fd", "ESUCCESS", "EBADF", "EMFILE"} /\ fd' \in Nat \cup {Full} /\ calls' \in Nat
        BY <1>3, <2>1, <2>2 DEF FdRenumber, TypeOK, Answer, Full
      <4> QED BY <4>1, <4>2, <4>3, <4>4 DEF TypeOK
    <3>2. HandleLife'
      BY <1>3, <2>1, <2>2 DEF FdRenumber, HandleLife, Refers, Bad, Undefined, TypeOK
    <3> QED BY <1>1, <3>1, <3>2
  <2>3. CASE ~Bad(to)
    <3>1. fds_[to] \in 1..made /\ to \in Open_
      BY <2>3 DEF Bad, TypeOK, Undefined
    <3>2. TypeOK'
      <4>1. Open_' \subseteq 0..MaxTarget /\ fds_' \in [Open_' -> 0..made']
        BY <1>3, <2>1, <2>3, <3>1 DEF FdRenumber
      <4>2. next_' \in Nat /\ made' \in Nat \ {0}
        BY <1>3, <2>1, <2>3, <3>1 DEF FdRenumber, TypeOK
      <4>3. sockets' \subseteq 1..made' /\ closed' \subseteq 1..made' /\ replaced' \subseteq closed'
        BY <1>3, <2>1, <2>3, <3>1 DEF FdRenumber, TypeOK
      <4>4. answer' \in {"fd", "ESUCCESS", "EBADF", "EMFILE"} /\ fd' \in Nat \cup {Full} /\ calls' \in Nat
        BY <1>3, <2>1, <2>3, <3>1 DEF FdRenumber, TypeOK, Answer, Full
      <4> QED BY <4>1, <4>2, <4>3, <4>4 DEF TypeOK
    <3>3. HandleLife'
      BY <1>3, <2>1, <2>3, <3>1 DEF FdRenumber, HandleLife, Refers, TypeOK
    <3> QED BY <1>1, <3>2, <3>3
  <2> QED BY <2>2, <2>3
<1> QED BY <1>2, <1>3

(* The calls on sockets that close a handle under its descriptor. *)
LEMMA SockBindIInv == ASSUME IInv, NEW n \in Open_, SockBind(n) PROVE IInv'
<1> USE DEF IInv
<1>1. /\ Open_' = Open_ \cup {n} /\ fds_'[n] = made + 1
      /\ \A j \in Open_ \ {n} : fds_'[j] = fds_[j]
      /\ Open_' \subseteq 0..MaxTarget /\ fds_' \in [Open_' -> 0..made+1]
  BY SetStores DEF SockBind, TypeOK
<1>2. fds_[n] \in 1..made /\ made' = made + 1
  BY DEF SockBind, Bad, TypeOK, Undefined
<1>3. TypeOK'
  <2>1. Open_' \subseteq 0..MaxTarget /\ fds_' \in [Open_' -> 0..made']
    BY <1>1, <1>2 DEF SockBind
  <2>2. next_' \in Nat /\ made' \in Nat \ {0}
    BY <1>1, <1>2 DEF SockBind, TypeOK
  <2>3. sockets' \subseteq 1..made' /\ closed' \subseteq 1..made' /\ replaced' \subseteq closed'
    <3>1. 1..made \subseteq 1..made' /\ made' \in 1..made' /\ fds_[n] \in 1..made
      BY <1>2 DEF TypeOK
    <3>2. /\ sockets' = sockets \cup {made'} /\ closed' = closed \cup {fds_[n]}
          /\ replaced' = replaced \cup {fds_[n]}
      BY DEF SockBind
    <3> QED BY <3>1, <3>2 DEF TypeOK
  <2>4. answer' \in {"fd", "ESUCCESS", "EBADF", "EMFILE"} /\ fd' \in Nat \cup {Full} /\ calls' \in Nat
    BY <1>1, <1>2 DEF SockBind, TypeOK, Answer, Full
  <2> QED BY <2>1, <2>2, <2>3, <2>4 DEF TypeOK
<1>4. HandleLife'
  BY <1>1, <1>2 DEF SockBind, HandleLife, Refers, TypeOK
<1>5. RefusedOnlyWhenFull'
  BY DEF SockBind, Answer, RefusedOnlyWhenFull
<1> QED BY <1>3, <1>4, <1>5

(* so does shutdown(), *)
LEMMA SockShutdownIInv == ASSUME IInv, NEW n \in Open_, SockShutdown(n) PROVE IInv'
<1> USE DEF IInv
<1>1. fds_[n] \in 1..made
  BY DEF SockShutdown, Bad, TypeOK, Undefined
<1>2. TypeOK'
  BY <1>1 DEF SockShutdown, TypeOK, Open_, Answer, Full
<1>3. HandleLife'
  BY <1>1 DEF SockShutdown, HandleLife, Refers, Open_
<1>4. RefusedOnlyWhenFull'
  BY DEF SockShutdown, Answer, RefusedOnlyWhenFull
<1> QED BY <1>2, <1>3, <1>4

(* and an open() of nothing, *)
LEMMA UndefinedIInv == ASSUME IInv, PathOpenUndefined PROVE IInv'
<1> USE DEF IInv
<1>1. PICK n \in 0..MaxFds : FreeFd(n) /\ Advance(n) /\ Set(n, Undefined) /\ Answer("fd", n)
  BY DEF PathOpenUndefined
<1>2. n # Full /\ n \in Nat /\ n \notin Open_
  BY <1>1, FreeFdIsFree, TableAssumption DEF Full
<1>3. next_' \in Nat
  BY <1>1, <1>2, AdvanceIsNat
<1>4. /\ Open_' = Open_ \cup {n} /\ fds_'[n] = Undefined
      /\ \A j \in Open_ \ {n} : fds_'[j] = fds_[j]
      /\ Open_' \subseteq 0..MaxTarget /\ fds_' \in [Open_' -> 0..made]
  BY <1>1, SetStores, TableAssumption DEF TypeOK, Undefined
<1>5. TypeOK'
  BY <1>1, <1>3, <1>4, TableAssumption DEF PathOpenUndefined, TypeOK, Answer, Undefined
<1>6. HandleLife'
  BY <1>2, <1>4 DEF PathOpenUndefined, HandleLife, Refers, Undefined
<1>7. RefusedOnlyWhenFull'
  BY <1>1, <1>2 DEF RefusedOnlyWhenFull, Answer
<1> QED BY <1>5, <1>6, <1>7

(* and so does every step. *)
LEMMA NextIInv == IInv /\ [Next]_vars => IInv'
<1> SUFFICES ASSUME IInv, [Next]_vars PROVE IInv'
  OBVIOUS
<1>1. CASE PathOpen
  BY <1>1, OpenHandleIInv DEF PathOpen
<1>2. CASE SockCreate
  BY <1>2, OpenHandleIInv DEF SockCreate
<1>3. CASE PathOpenUndefined
  BY <1>3, UndefinedIInv
<1>4. CASE BadFd
  BY <1>4 DEF BadFd, IInv, TypeOK, HandleLife, RefusedOnlyWhenFull, Refers, Open_, Answer, Full
<1>5. CASE \E n \in Open_ : FdClose(n) \/ FdDup(n) \/ SockBind(n) \/ SockShutdown(n)
  BY <1>5, FdCloseIInv, FdDupIInv, SockBindIInv, SockShutdownIInv
<1>6. CASE \E n \in Open_, to \in 0..MaxTarget : FdRenumber(n, to) \/ FdDup2(n, to)
  BY <1>6, FdRenumberIInv, FdDupIInv DEF FdDup2
<1>7. CASE UNCHANGED vars
  BY <1>7 DEF vars, IInv, TypeOK, HandleLife, RefusedOnlyWhenFull, Refers, Open_
<1> QED BY <1>1, <1>2, <1>3, <1>4, <1>5, <1>6, <1>7 DEF Next

(* Every variable of the table keeps its type. *)
THEOREM TableTypeCorrect == Spec => []TypeOK
<1>1. IInv => TypeOK
  BY DEF IInv
<1> QED BY InitIInv, NextIInv, <1>1, PTL DEF Spec

(* A handle is closed with the last of its descriptors and not before,      *)
(* unless a call closed it on purpose, and a call is refused only when      *)
(* every descriptor is taken: for any size of the table and any sequence    *)
(* of calls.                                                                *)
THEOREM DescriptorsAlwaysHold == Spec => []DescriptorsHold
<1>1. IInv => DescriptorsHold
  BY DEF IInv, DescriptorsHold
<1> QED BY InitIInv, NextIInv, <1>1, PTL DEF Spec

-----------------------------------------------------------------------------
(* The replies that a chain goes on after.                                 *)
(* What of its operation a handler relies on when the reply is the only    *)
(* one it waits for.                                                       *)
Single(u, hs, r, i) ==
  /\ Orderly(u, {i}) /\ u \in FspStates /\ u.ops = f.ops /\ u.handles = hs /\ u.openedFiles = f.openedFiles
  /\ i \in DOMAIN f.ops /\ i \in Nat /\ i # 0 /\ i = r.of /\ f.ops[i] \in ChainOps /\ Local(f.ops[i])
  /\ f.ops[i].stage = r.does /\ f.ops[i].stage # "done" /\ ~f.ops[i].failed
  /\ f.ops[i].source # 0 => f.handles[f.ops[i].source] = i
  /\ f.ops[i].target # 0 => f.handles[f.ops[i].target] = i /\ f.ops[i].target # f.ops[i].source
  /\ r.h # 0 => f.handles[r.h] = (IF f.ops[i].on = 0 THEN i ELSE f.ops[i].on)
  /\ Matches(r, f.ops[i], f.openedFiles)
  /\ \A q \in f.openedFiles : q.request # i
  /\ \A k \in DOMAIN u.wire : u.wire[k].of # i
  /\ \A g \in Provider!Handles : f.handles[g] = i => f.ops[i].source = g \/ f.ops[i].target = g
  /\ f.ops[i].stage # "rmdir" => \A j \in DOMAIN f.ops : f.ops[j].parent # i
  /\ \A j \in DOMAIN f.ops : f.ops[j].parent = i => f.ops[j].stage = "done" /\ ~f.ops[j].failed

(* A request that comes alone, but for the closes of a copy.                *)
LEMMA SingleCame ==
  ASSUME NEW hs, NEW u, NEW r, NEW i, AtHand(f, hs, u, r, i), r.does \in OneRequest \ {"closeSource", "closeTarget"}
  PROVE  Single(u, hs, r, i)
<1>1. OneAtHand(f, u, r, i)
  BY OneCame
<1>2. f.ops[i].stage = r.does /\ f.ops[i].stage \in OneRequest \ {"closeSource", "closeTarget"}
  BY <1>1 DEF OneAtHand
<1>3. ~f.ops[i].failed
  BY <1>2, Zenon DEF AtHand, Local, Holding, OneRequest
<1>4. f.ops[i].stage # "rmdir" => \A j \in DOMAIN f.ops : f.ops[j].parent # i
  BY <1>2, Zenon DEF AtHand, OneRequest
<1>5. \A j \in DOMAIN f.ops : f.ops[j].parent = i => f.ops[j].stage = "done" /\ ~f.ops[j].failed
  BY <1>2, <1>3, Zenon DEF AtHand, OneRequest
<1> QED  BY <1>1, <1>2, <1>3, <1>4, <1>5, Zenon DEF AtHand, OneAtHand, Single, OneRequest

(* OnReadLink keeps the order: the link is made at the target.              *)
LEMMA OnReadLinkKeeps ==
  ASSUME Orderly(f, {}), Provider!OnReadLink
  PROVE  Orderly(f', {})
<1> DEFINE i == Provider!R.of
           r == Provider!R
           u == Provider!Served
           op == f.ops[i]
           o == [op EXCEPT !.stage = "symlink"]
<1>1. f.wire # <<>> /\ r.does = "readlink" /\ f' = Provider!Ask(u, i, "symlink", 0)
  BY DEF Provider!OnReadLink, Provider!Replied, Provider!Unopened
<1>2. Single(u, f.handles, r, i)
  <2>1. AtHand(f, f.handles, u, r, i)
    BY <1>1, Passed DEF Provider!Opens, Provider!Closes
  <2> QED  BY <1>1, <2>1, SingleCame DEF OneRequest
<1> HIDE DEF op, u, i, r
<1>6. /\ o \in ChainOps /\ o.stage = "symlink" /\ o.does = op.does /\ o.size = op.size /\ o.parent = op.parent
      /\ o.source = op.source /\ o.target = op.target /\ o.left = op.left /\ o.entries = op.entries
      /\ o.failed = op.failed /\ o.answers = op.answers /\ o.on = op.on /\ o.content = op.content
  BY <1>2 DEF ChainOps, Stages, OneRequest, Single, op
<1> HIDE DEF o
<1>7. op.does = "copyLink" /\ op.source = 0 /\ op.target = 0 /\ op.on = 0
  BY <1>1, <1>2 DEF Single, Local, StageFits, Holding, Born, Provider!OfFiles, op
<1>8. Local(o)
  BY <1>1, <1>2, <1>6, <1>7 DEF Single, Local, StageFits, Holding, Told, Copied, Born, Many, op
<1>9. Continues(u, i, o, 0)
  BY <1>1, <1>2, <1>6, <1>7, <1>8, NoHandle DEF Continues, OneRequest, op, Single
<1>10. Asking(u, i, o, 0)
  BY <1>2, <1>9, AskNext DEF Single
<1> QED  BY <1>1, <1>2, <1>10, AskHere DEF o, op, OneRequest, Single

(* OnOpenSource keeps the order: the source is open, the target is opened.  *)
LEMMA OnOpenSourceKeeps ==
  ASSUME Orderly(f, {}), Provider!OnOpenSource
  PROVE  Orderly(f', {})
<1> DEFINE i == Provider!R.of
           r == Provider!R
           u == Provider!Served
           g == Provider!Got
           hs == [f.handles EXCEPT ![g] = i]
           op == f.ops[i]
           q == [op EXCEPT !.source = g]
           o == [q EXCEPT !.stage = "openTarget"]
<1>1. /\ f.wire # <<>> /\ r.does = "openSource" /\ r.does \in Provider!Opens
      /\ \E h \in Provider!Handles : f.handles[h] = 0
      /\ f' = Provider!Ask([u EXCEPT !.ops[i].source = g], i, "openTarget", 0)
  BY DEF Provider!OnOpenSource, Provider!Replied, Provider!Unopened, Provider!Opens
<1>2. /\ AtHand(f, hs, u, r, i) /\ g \in Provider!Handles /\ f.handles[g] = 0 /\ hs[g] = i
      /\ \A h \in Provider!Handles : h # g => hs[h] = f.handles[h]
  BY <1>1, Opened
<1>3. Single(u, hs, r, i)
  BY <1>1, <1>2, SingleCame DEF OneRequest
<1> HIDE DEF op, u, i, r, g, hs
<1>4. u \in FspStates /\ u.ops[i] = op /\ op \in ChainOps /\ g \in Numbers /\ i \in DOMAIN u.ops
  BY <1>2, <1>3 DEF Single, op, Numbers
<1>5. [u EXCEPT !.ops[i].source = g] = Put(u, i, q)
  BY <1>4 DEF Put, q
<1>6. q \in ChainOps
  BY <1>4 DEF ChainOps
<1>7. /\ o \in ChainOps /\ o.stage = "openTarget" /\ o.does = op.does /\ o.size = op.size /\ o.parent = op.parent
      /\ o.source = g /\ o.target = op.target /\ o.left = op.left /\ o.entries = op.entries /\ o.failed = op.failed
      /\ o.answers = op.answers /\ o.on = op.on /\ o.content = op.content
  BY <1>4 DEF ChainOps, Stages, OneRequest
<1> HIDE DEF o, q
<1>8. op.does = "copyFile" /\ op.source = 0 /\ op.target = 0 /\ op.on = 0
  BY <1>1, <1>3 DEF Single, Local, StageFits, Holding, Born, Provider!OfFiles, op
<1>9. Local(o)
  BY <1>1, <1>2, <1>3, <1>7, <1>8, NoHandle DEF Single, Local, StageFits, Holding, Told, Copied, Born, Many, op
<1>10. Continues(u, i, o, 0)
  BY <1>1, <1>2, <1>3, <1>7, <1>8, <1>9, NoHandle DEF Continues, OneRequest, op, Single
<1>11. Asking(u, i, o, 0)
  BY <1>3, <1>10, AskNext DEF Single
<1>12. Orderly(Provider!Ask(Put(u, i, q), i, "openTarget", 0), {})
  BY <1>3, <1>6, <1>11, AskOf DEF Single, OneRequest, o
<1> QED  BY <1>1, <1>5, <1>12

(* Requests sent at once. *)
AtOnce(name, i, h, n) == [k \in 1..n |-> [does |-> name, of |-> i, h |-> h, chunk |-> k]]

Sending(o, name, n) == [[o EXCEPT !.stage = name] EXCEPT !.left = n]

(* SendAll puts the operation at its stage and sends the requests.          *)
LEMMA SendAllIs ==
  ASSUME NEW t \in FspStates, NEW i \in DOMAIN t.ops, NEW name, NEW h, NEW n
  PROVE  Provider!SendAll(t, i, name, h, n) =
           More(Put(t, i, Sending(t.ops[i], name, n)), AtOnce(name, i, h, n))
<1> DEFINE w == t.wire \o AtOnce(name, i, h, n)
           q == [t.ops[i] EXCEPT !.stage = name]
           o == [q EXCEPT !.left = n]
           a == [t.ops EXCEPT ![i] = q]
           b == [t.ops EXCEPT ![i] = o]
           u == [t EXCEPT !.wire = w]
           v == [u EXCEPT !.ops = a]
<1>1. t.ops \in Seq(ChainOps)
  BY DEF FspStates
<1>2. Provider!SendAll(t, i, name, h, n) = [t EXCEPT !.wire = w, !.ops[i].stage = name, !.ops[i].left = n]
  BY DEF Provider!SendAll, AtOnce
<1>3. a[i] = q /\ [a EXCEPT ![i] = o] = b
  BY <1>1
<1> HIDE DEF w
<1>4. u.ops = t.ops
  BY DEF FspStates
<1> HIDE DEF u
<1>5. [u EXCEPT !.ops[i].stage = name] = [u EXCEPT !.ops = [u.ops EXCEPT ![i] = [u.ops[i] EXCEPT !.stage = name]]]
  OBVIOUS
<1>6. [u EXCEPT !.ops[i].stage = name] = v
  BY <1>4, <1>5
<1> HIDE DEF a, b, q, o
<1>7. v.ops = a /\ [v EXCEPT !.ops = b] = [u EXCEPT !.ops = b]
  <2>1. \A x, y : [[t EXCEPT !.wire = w] EXCEPT !.ops = x].ops = x
    BY DEF FspStates
  <2>2. \A x, y : [[[t EXCEPT !.wire = w] EXCEPT !.ops = x] EXCEPT !.ops = y] = [[t EXCEPT !.wire = w] EXCEPT !.ops = y]
    BY DEF FspStates
  <2> QED  BY <2>1, <2>2, Zenon DEF u
<1> HIDE DEF v
<1>8. [v EXCEPT !.ops[i].left = n] = [v EXCEPT !.ops = [v.ops EXCEPT ![i] = [v.ops[i] EXCEPT !.left = n]]]
  OBVIOUS
<1>9. [v EXCEPT !.ops[i].left = n] = [u EXCEPT !.ops = b]
  BY <1>3, <1>7, <1>8 DEF o
<1>10. [t EXCEPT !.wire = w, !.ops[i].stage = name, !.ops[i].left = n] = [v EXCEPT !.ops[i].left = n]
  BY <1>6 DEF u
<1> DEFINE p == [t EXCEPT !.ops = b]
<1>11. [[t EXCEPT !.wire = w] EXCEPT !.ops = b] = [p EXCEPT !.wire = w] /\ p.wire = t.wire
  BY DEF FspStates
<1> HIDE DEF p
<1>12. p = Put(t, i, o)
  BY DEF p, Put, b
<1>13. [p EXCEPT !.wire = w] = More(p, AtOnce(name, i, h, n))
  BY <1>11 DEF More, w
<1> QED  BY <1>2, <1>9, <1>10, <1>11, <1>12, <1>13 DEF u, o, q, Sending

(* The operation i in hand asks for all at once. *)
AsksAll(t, i, o, h, n) ==
  /\ i \in DOMAIN t.ops /\ t.ops[i].stage # "done" /\ o \in ChainOps /\ o.stage \in Many /\ h \in Numbers
  /\ n \in Nat /\ n >= 1 /\ o.left = n /\ (o.stage = "chunkRead" => o.size = n /\ o.content = <<>>)
  /\ Local(o) /\ o.parent = t.ops[i].parent /\ o.on = t.ops[i].on /\ o.does = t.ops[i].does /\ o.does # "close"
  /\ o.source # 0 => t.handles[o.source] = i
  /\ o.target # 0 => t.handles[o.target] = i /\ o.target # o.source
  /\ \A k \in DOMAIN t.wire : t.wire[k].of # i
  /\ h # 0 => /\ t.handles[h] = (IF o.on = 0 THEN i ELSE o.on)
              /\ \A j \in DOMAIN t.wire : t.wire[j].h = h => t.wire[j].does \notin Provider!Closes
  /\ \A j \in DOMAIN t.ops : t.ops[j].parent # i
  /\ \A q \in t.openedFiles : q.request # i
  /\ \A g \in Provider!Handles : t.handles[g] = i => o.source = g \/ o.target = g

(* The requests sent at once.                                               *)
LEMMA AtOnceAre ==
  ASSUME NEW name \in Many, NEW i \in Nat, NEW h \in Numbers, NEW n \in Nat
  PROVE  /\ AtOnce(name, i, h, n) \in Seq(Sent) /\ DOMAIN AtOnce(name, i, h, n) = 1..n
         /\ \A k \in 1..n : /\ AtOnce(name, i, h, n)[k].does = name /\ AtOnce(name, i, h, n)[k].of = i
                            /\ AtOnce(name, i, h, n)[k].h = h /\ AtOnce(name, i, h, n)[k].chunk = k
<1>1. \A k \in 1..n : [does |-> name, of |-> i, h |-> h, chunk |-> k] \in Sent
  BY DEF Sent
<1>2. \A k \in 1..n : AtOnce(name, i, h, n)[k] = [does |-> name, of |-> i, h |-> h, chunk |-> k]
  BY DEF AtOnce
<1>3. AtOnce(name, i, h, n) \in [1..n -> Sent]
  BY <1>1 DEF AtOnce
<1>4. AtOnce(name, i, h, n) \in Seq(Sent) /\ DOMAIN AtOnce(name, i, h, n) = 1..n
  BY <1>3
<1> QED  BY <1>2, <1>4

(* What of an operation is on the way in two parts of it.                   *)
LEMMA WireOfBoth ==
  ASSUME NEW w \in Seq(Sent), NEW n \in Seq(Sent), NEW j, NEW does, NEW x
  PROVE  OnWire(w \o n, j, does, x) <=> (OnWire(w, j, does, x) \/ OnWire(n, j, does, x))
<1> DEFINE v == w \o n
<1>1. /\ \A k \in DOMAIN w : k \in DOMAIN v /\ v[k] = w[k]
      /\ \A k \in DOMAIN n : k + Len(w) \in DOMAIN v /\ v[k + Len(w)] = n[k]
      /\ \A k \in DOMAIN v : k \notin DOMAIN w => k - Len(w) \in DOMAIN n /\ v[k] = n[k - Len(w)]
  BY Joined
<1> HIDE DEF v
<1>2. ASSUME OnWire(w, j, does, x) \/ OnWire(n, j, does, x) PROVE OnWire(v, j, does, x)
  BY <1>1, <1>2 DEF OnWire
<1>3. ASSUME OnWire(v, j, does, x) PROVE OnWire(w, j, does, x) \/ OnWire(n, j, does, x)
  BY <1>1, <1>3 DEF OnWire
<1> QED  BY <1>2, <1>3 DEF v

(* Of a file no chunk is nothing.                                           *)
LEMMA NothingOfWhole == SubSeq(Provider!Whole, 1, 0) = <<>>
<1>1. Chunks \in Nat
  BY FilesAssumption DEF Provider!ProviderAssumption
<1> QED  BY <1>1 DEF Provider!Whole

(* An operation that has sent many requests waits for all of them.          *)
LEMMA AllAreAwaited ==
  ASSUME NEW w \in Seq(Sent), NEW i \in Nat, NEW o \in ChainOps, NEW h \in Numbers, o.stage \in Many, o.left >= 1,
         \A k \in DOMAIN w : w[k].of # i, o.stage = "chunkRead" => o.size = o.left /\ o.content = <<>>, NEW ops, ops[i] = o
  PROVE  Waits(ops, w \o AtOnce(o.stage, i, h, o.left), i)
<1> DEFINE l == o.left
           n == AtOnce(o.stage, i, h, l)
           v == w \o n
<1>0. l \in Nat /\ l >= 1
  BY DEF ChainOps
<1>1. /\ n \in Seq(Sent) /\ DOMAIN n = 1..l
      /\ \A k \in 1..l : n[k].does = o.stage /\ n[k].of = i /\ n[k].h = h /\ n[k].chunk = k
  <2> DEFINE name == o.stage
  <2>1. name \in Many
    OBVIOUS
  <2> HIDE DEF name, l
  <2>2. /\ AtOnce(name, i, h, l) \in Seq(Sent) /\ DOMAIN AtOnce(name, i, h, l) = 1..l
        /\ \A k \in 1..l : /\ AtOnce(name, i, h, l)[k].does = name /\ AtOnce(name, i, h, l)[k].of = i
                          /\ AtOnce(name, i, h, l)[k].h = h /\ AtOnce(name, i, h, l)[k].chunk = k
    BY <1>0, <2>1, AtOnceAre
  <2> QED  BY <2>2 DEF name
<1> HIDE DEF n
<1>2. \A does, x : OnWire(v, i, does, x) <=> OnWire(n, i, does, x)
  <2>1. \A does, x : ~OnWire(w, i, does, x)
    BY DEF OnWire
  <2> QED  BY <1>1, <2>1, WireOfBoth
<1> HIDE DEF v, l
<1>3. \A does, x : OnWire(n, i, does, x) <=> (does = o.stage /\ x \in 1..l)
  BY <1>1 DEF OnWire
<1>4. o.stage = "chunkRead" => Copying(o, v, i)
  <2>1. ASSUME o.stage = "chunkRead" PROVE Copying(o, v, i)
    <3>1. Len(o.content) = 0 /\ o.size = l /\ o.left = l
      BY <2>1 DEF l
    <3>2. o.content = SubSeq(Provider!Whole, 1, 0)
      BY <2>1, NothingOfWhole
    <3>3. \A x \in Nat : OnWire(v, i, "chunkRead", x) <=> (1 <= x /\ x <= l)
      BY <1>2, <1>3, <2>1, <1>0
    <3>4. \A x \in Nat : OnWire(v, i, "chunkWrite", x) <=> (0 < x /\ x < 1)
      BY <1>2, <1>3, <2>1
    <3> QED  BY <1>0, <3>1, <3>2, <3>3, <3>4 DEF Copying
  <2> QED  BY <2>1
<1>5. o.stage \in {"write", "fileStatus"} => Counting(o, v, i)
  <2>1. \A x \in Nat : OnWire(v, i, o.stage, x) <=> (0 < x /\ x <= 0 + l)
    BY <1>2, <1>3, <1>0
  <2> QED  BY <2>1 DEF Counting, l
<1>6. Waits(ops, v, i)
  BY <1>4, <1>5 DEF Waits, Many, OneRequest
<1> QED  BY <1>6 DEF v, n, l

(* An operation that may ask for many requests at once.                     *)
LEMMA SendAllKeeps ==
  ASSUME NEW t, NEW i, NEW o, NEW h, NEW m, Orderly(t, {i}), AsksAll(t, i, o, h, m)
  PROVE  Orderly(More(Put(t, i, o), AtOnce(o.stage, i, h, m)), {})
<1> DEFINE n == AtOnce(o.stage, i, h, m)
           p == Put(t, i, o)
           u == More(p, n)
<1>1. /\ t \in FspStates /\ AllParents(t.ops, {i}) /\ WireFits(t.ops, t.wire, t.openedFiles)
  BY DEF Orderly
<1>2. i \in DOMAIN t.ops /\ i \in Nat /\ i # 0 /\ o \in ChainOps /\ o.stage \in Many /\ Local(o) /\ t.wire \in Seq(Sent)
  BY <1>1 DEF AsksAll, FspStates
<1>3. /\ n \in Seq(Sent) /\ DOMAIN n = 1..m
      /\ \A k \in 1..m : n[k].does = o.stage /\ n[k].of = i /\ n[k].h = h /\ n[k].chunk = k
  <2> DEFINE name == o.stage
  <2>1. name \in Many /\ h \in Numbers /\ m \in Nat /\ i \in Nat
    BY <1>2 DEF AsksAll
  <2> HIDE DEF name
  <2>2. /\ AtOnce(name, i, h, m) \in Seq(Sent) /\ DOMAIN AtOnce(name, i, h, m) = 1..m
        /\ \A k \in 1..m : /\ AtOnce(name, i, h, m)[k].does = name /\ AtOnce(name, i, h, m)[k].of = i
                          /\ AtOnce(name, i, h, m)[k].h = h /\ AtOnce(name, i, h, m)[k].chunk = k
    BY <2>1, AtOnceAre
  <2> QED  BY <2>2 DEF name
<1>4. o.stage \notin {"children", "closeSource", "closeTarget", "close", "done"} \cup OneRequest
  BY <1>2 DEF Many, OneRequest
<1>5. Changeable(t, {i}, i, o)
  <2>2. o.parent # 0 /\ o.parent \notin {i} =>
          /\ t.ops[o.parent].stage = "children" => o.stage # "done"
          /\ t.ops[o.parent].stage # "children" /\ ~t.ops[o.parent].failed => o.stage = "done" /\ ~o.failed
    BY <1>1, <1>2, <1>4 DEF AllParents, Parents, AsksAll
  <2> QED  BY <1>4, <2>2 DEF Changeable, AsksAll
<1>6. Orderly(p, {i})
  <2>1. i \in {i}
    OBVIOUS
  <2> QED  BY <1>2, <1>5, <2>1, Change DEF Put
<1>7. /\ p \in FspStates /\ p.wire = t.wire /\ p.handles = t.handles /\ p.openedFiles = t.openedFiles
      /\ DOMAIN p.ops = DOMAIN t.ops /\ p.ops[i] = o /\ \A j \in DOMAIN t.ops : j # i => p.ops[j] = t.ops[j]
  <2>2. IsPut(p, t, i, o)
    BY <1>1, <1>2, PutFields
  <2> QED  BY <2>2 DEF IsPut
<1> HIDE DEF p, n
<1>8. Sendable(p.ops, p.wire, n, p.handles, p.openedFiles, {i})
  <2>1. ASSUME NEW k \in DOMAIN n PROVE Matches(n[k], o, t.openedFiles)
    BY <1>2, <1>3, <2>1 DEF Matches, Local, Holding, StageFits, Many
  <2>2. ASSUME NEW k \in DOMAIN n PROVE n[k].h # 0 => t.handles[n[k].h] = OwnerOf(p.ops, n[k])
    BY <1>3, <1>7, <2>2 DEF AsksAll, OwnerOf
  <2>3. \A k \in DOMAIN n : \A j \in DOMAIN t.wire : (n[k].h # 0 /\ t.wire[j].h = n[k].h) => t.wire[j].does \notin Provider!Closes
    BY <1>3 DEF AsksAll
  <2>4. \A k \in DOMAIN n : n[k].does \notin Provider!Closes
    BY <1>3, <1>4 DEF Provider!Closes
  <2>5. \A k \in DOMAIN n : \A j \in DOMAIN t.wire : Precedes(t.wire[j], n[k])
    BY <1>3 DEF AsksAll, Precedes
  <2>6. \A k, j \in DOMAIN n : j < k => Precedes(n[j], n[k])
    BY <1>2, <1>3, <1>4 DEF Precedes
  <2> QED  BY <1>2, <1>3, <1>7, <2>1, <2>2, <2>3, <2>4, <2>5, <2>6 DEF Sendable
<1>9. Orderly(u, {i})
  BY <1>3, <1>6, <1>8, Post DEF More
<1>10. /\ u.wire = t.wire \o n /\ u.handles = t.handles /\ u.openedFiles = t.openedFiles /\ u.ops = p.ops
  <2>1. IsMore(u, p, n)
    BY <1>3, <1>7, MoreFields
  <2> QED  BY <1>7, <2>1 DEF IsMore
<1> HIDE DEF u
<1>12. Settled(u, i)
  <2>1. Waits(u.ops, u.wire, i)
    <3>1. o.left = m /\ o.left >= 1 /\ h \in Numbers /\ (\A k \in DOMAIN t.wire : t.wire[k].of # i)
          /\ (o.stage = "chunkRead" => o.size = o.left /\ o.content = <<>>)
      BY DEF AsksAll
    <3>2. p.ops[i] = o
      BY <1>7
    <3>3. Waits(p.ops, t.wire \o AtOnce(o.stage, i, h, o.left), i)
      BY <1>2, <3>1, <3>2, AllAreAwaited
    <3> QED  BY <1>10, <3>1, <3>3 DEF n
  <2>2. \A j \in DOMAIN u.ops : u.ops[j].parent # i
    <3>1. \A j \in DOMAIN t.ops : t.ops[j].parent # i
      BY DEF AsksAll
    <3>2. o.parent # i
      BY <3>1, <1>2 DEF AsksAll
    <3> QED  BY <1>7, <1>10, <3>1, <3>2
  <2>3. \A g \in Provider!Handles : u.handles[g] = i => o.source = g \/ o.target = g
    BY <1>10 DEF AsksAll
  <2>4. \A q \in u.openedFiles : q.request # i
    BY <1>10 DEF AsksAll
  <2>5. o.does # "close"
    BY DEF AsksAll
  <2> QED  BY <1>2, <1>4, <1>7, <1>10, <2>1, <2>2, <2>3, <2>4, <2>5 DEF Settled
<1>13. Orderly(u, {i} \ {i})
  BY <1>9, <1>12, PutDown
<1>14. {i} \ {i} = {}
  OBVIOUS
<1> QED  BY <1>13, <1>14 DEF u, p, n

(* The handlers of replies: those that end their chain. *)
LEMMA FreeSingle ==
  ASSUME NEW u, NEW hs, NEW r, NEW i, Single(u, hs, r, i), f.ops[i].source = 0, f.ops[i].does \notin {"list", "copyFile"},
         \A g \in Provider!Handles : hs[g] = i => f.handles[g] = i
  PROVE  Free(u, i) /\ Orderly(u, {i}) /\ \A g \in Provider!Handles : u.handles[g] # i
<1> DEFINE op == f.ops[i]
<1>1. u.ops[i] = op /\ u.ops = f.ops /\ Local(op) /\ op.stage # "done" /\ u.openedFiles = f.openedFiles /\ u.handles = hs
  BY DEF Single
<1> HIDE DEF op
<1>2. op.target = 0 /\ op.source = 0 /\ op.does # "list" /\ op.does # "copyFile"
  BY <1>1 DEF Local, Holding, op
<1>3. op.answers = 0 /\ op.content = <<>> /\ Born(op)
  BY <1>1, <1>2 DEF Local, Told, Copied
<1>4. \A g \in Provider!Handles : u.handles[g] # i
  BY <1>1, <1>2, NoHandle DEF Single, op
<1>5. Free(u, i)
  BY <1>1, <1>2, <1>3, <1>4 DEF Free, Single
<1> QED  BY <1>4, <1>5 DEF Single

(* Settle after a request that came alone.                                  *)
LEMMA SettleSingle ==
  ASSUME NEW u, NEW hs, NEW r, NEW i, NEW ok \in BOOLEAN, Single(u, hs, r, i), f.ops[i].source = 0,
         f.ops[i].does \notin {"list", "copyFile"}, \A g \in Provider!Handles : hs[g] = i => f.handles[g] = i
  PROVE  Orderly(Provider!Settle(u, i, ok), {})
<1>1. Free(u, i) /\ Orderly(u, {i}) /\ \A g \in Provider!Handles : u.handles[g] # i
  BY FreeSingle
<1>2. u.ops = f.ops /\ (\A k \in DOMAIN u.wire : u.wire[k].of # i)
      /\ \A j \in DOMAIN f.ops : f.ops[j].parent = i => f.ops[j].stage = "done" /\ ~f.ops[j].failed
  BY DEF Single
<1>3. Over(u, i, ok)
  BY <1>1, <1>2 DEF Over
<1> QED  BY <1>1, <1>3, SettleKeeps

(* OnRemoveDirectory keeps the order: the removal is over.                  *)
LEMMA OnRemoveDirectoryKeeps ==
  ASSUME Orderly(f, {}), Provider!OnRemoveDirectory
  PROVE  Orderly(f', {})
<1> DEFINE i == Provider!R.of
           r == Provider!R
           u == Provider!Served
<1>1. f.wire # <<>> /\ r.does = "rmdir" /\ f' = Provider!Settle(u, i, TRUE)
  BY DEF Provider!OnRemoveDirectory, Provider!Replied
<1>2. Single(u, f.handles, r, i)
  <2>1. AtHand(f, f.handles, u, r, i)
    BY <1>1, Passed DEF Provider!Opens, Provider!Closes
  <2> QED  BY <1>1, <2>1, SingleCame DEF OneRequest
<1> HIDE DEF u, i, r
<1>3. f.ops[i].source = 0 /\ f.ops[i].does = "removeDirectory"
  BY <1>1, <1>2 DEF Single, Local, StageFits, Holding
<1> QED  BY <1>1, <1>2, <1>3, SettleSingle

(* OnMakeDirectory keeps the order: the request is over, or the directory   *)
(* is read.                                                                 *)
LEMMA OnMakeDirectoryKeeps ==
  ASSUME Orderly(f, {}), Provider!OnMakeDirectory
  PROVE  Orderly(f', {})
<1> DEFINE i == Provider!R.of
           r == Provider!R
           u == Provider!Served
           op == f.ops[i]
           o == [op EXCEPT !.stage = "readdir"]
<1>1. /\ f.wire # <<>> /\ r.does = "mkdir"
      /\ f' = IF op.does = "mkdir" THEN Provider!Settle(u, i, TRUE) ELSE Provider!Ask(u, i, "readdir", op.source)
  BY DEF Provider!OnMakeDirectory, Provider!Replied, Provider!Op
<1>2. Single(u, f.handles, r, i)
  <2>1. AtHand(f, f.handles, u, r, i)
    BY <1>1, Passed DEF Provider!Opens, Provider!Closes
  <2> QED  BY <1>1, <2>1, SingleCame DEF OneRequest
<1> HIDE DEF op, u, i, r
<1>6. /\ o \in ChainOps /\ o.stage = "readdir" /\ o.does = op.does /\ o.size = op.size /\ o.parent = op.parent
      /\ o.source = op.source /\ o.target = op.target /\ o.left = op.left /\ o.entries = op.entries
      /\ o.failed = op.failed /\ o.answers = op.answers /\ o.on = op.on /\ o.content = op.content
  BY <1>2 DEF ChainOps, Stages, OneRequest, Single, op
<1> HIDE DEF o
<1>7. op.does \in {"mkdir", "copyDirectory"} /\ op.target = 0 /\ op.on = 0 /\ (op.does = "mkdir" => op.source = 0)
      /\ (op.does = "copyDirectory" => op.source # 0)
  BY <1>1, <1>2 DEF Single, Local, StageFits, Holding, Born, Provider!OfFiles, op
<1>8. CASE op.does = "mkdir"
  BY <1>1, <1>2, <1>7, <1>8, SettleSingle DEF op
<1>9. CASE op.does = "copyDirectory"
  <2>1. Local(o)
    BY <1>1, <1>2, <1>6, <1>7, <1>9 DEF Single, Local, StageFits, Holding, Told, Copied, Born, Many, op, Directories
  <2> DEFINE h == op.source
  <2>2. Continues(u, i, o, h)
    BY <1>1, <1>2, <1>6, <1>7, <1>9, <2>1, NoHandle DEF Continues, OneRequest, op, Single
  <2> HIDE DEF h
  <2>3. Asking(u, i, o, h)
    BY <1>2, <2>2, AskNext DEF Single
  <2>4. Orderly(Provider!Ask(u, i, "readdir", h), {})
    BY <1>2, <2>3, AskHere DEF o, op, OneRequest, Single
  <2> QED  BY <1>1, <1>9, <2>4 DEF h
<1> QED  BY <1>7, <1>8, <1>9

(* OnOpenDirectory keeps the order: the directory is read, or made where    *)
(* it is copied to.                                                         *)
LEMMA OnOpenDirectoryKeeps ==
  ASSUME Orderly(f, {}), Provider!OnOpenDirectory
  PROVE  Orderly(f', {})
<1> DEFINE i == Provider!R.of
           r == Provider!R
           u == Provider!Served
           g == Provider!Got
           hs == [f.handles EXCEPT ![g] = i]
           op == f.ops[i]
           q == [op EXCEPT !.source = g]
           name == IF op.does = "copyDirectory" THEN "mkdir" ELSE "readdir"
           h == IF op.does = "copyDirectory" THEN 0 ELSE g
           o == [q EXCEPT !.stage = name]
<1>1. /\ f.wire # <<>> /\ r.does = "opendir" /\ r.does \in Provider!Opens
      /\ \E x \in Provider!Handles : f.handles[x] = 0
      /\ f' = Provider!Ask([u EXCEPT !.ops[i].source = g], i, name, h)
  BY DEF Provider!OnOpenDirectory, Provider!Replied, Provider!Unopened, Provider!Opens, Provider!Op
<1>2. /\ AtHand(f, hs, u, r, i) /\ g \in Provider!Handles /\ f.handles[g] = 0 /\ hs[g] = i
      /\ \A x \in Provider!Handles : x # g => hs[x] = f.handles[x]
  BY <1>1, Opened
<1>3. Single(u, hs, r, i)
  BY <1>1, <1>2, SingleCame DEF OneRequest
<1>0. /\ name \in {"mkdir", "readdir"} /\ (name = "mkdir" <=> op.does = "copyDirectory") /\ h \in {0, g}
      /\ name \in OneRequest
  BY DEF OneRequest
<1> HIDE DEF op, u, i, r, g, hs, name, h
<1>4. u \in FspStates /\ u.ops[i] = op /\ op \in ChainOps /\ g \in Numbers /\ i \in DOMAIN u.ops
  BY <1>2, <1>3 DEF Single, op, Numbers
<1>5. [u EXCEPT !.ops[i].source = g] = Put(u, i, q)
  BY <1>4 DEF Put, q
<1>6. q \in ChainOps
  BY <1>4 DEF ChainOps
<1>7. /\ o \in ChainOps /\ o.stage = name /\ o.does = op.does /\ o.size = op.size /\ o.parent = op.parent
      /\ o.source = g /\ o.target = op.target /\ o.left = op.left /\ o.entries = op.entries /\ o.failed = op.failed
      /\ o.answers = op.answers /\ o.on = op.on /\ o.content = op.content
  BY <1>0, <1>4 DEF ChainOps, Stages
<1> HIDE DEF o, q
<1>8. op.does \in Directories \cup {"list"} /\ op.source = 0 /\ op.target = 0 /\ op.on = 0
  BY <1>1, <1>3 DEF Single, Local, StageFits, Holding, Born, Provider!OfFiles, op, Directories
<1>9. Local(o)
  BY <1>0, <1>1, <1>2, <1>3, <1>7, <1>8, NoHandle DEF Single, Local, StageFits, Holding, Told, Copied, Born, Many, op, Directories
<1>10. Continues(u, i, o, h)
  BY <1>0, <1>1, <1>2, <1>3, <1>7, <1>8, <1>9, NoHandle DEF Continues, OneRequest, op, Single, Directories
<1>11. Asking(u, i, o, h)
  BY <1>3, <1>10, AskNext DEF Single
<1>12. Orderly(Provider!Ask(Put(u, i, q), i, name, h), {})
  BY <1>0, <1>3, <1>6, <1>11, AskOf DEF Single, o
<1> QED  BY <1>1, <1>5, <1>12

(* What is sent on a handle that an operation holds does not close it.      *)
LEMMA OwnHandle ==
  ASSUME NEW t, NEW i, NEW h, Orderly(t, {i}), i \in DOMAIN t.ops, t.ops[i].does \notin {"open", "create"},
         \A k \in DOMAIN t.wire : t.wire[k].of # i, h # 0, t.handles[h] = i, NEW j \in DOMAIN t.wire, t.wire[j].h = h
  PROVE  t.wire[j].does \notin Provider!Closes
<1>1. WireOwned(t.ops, t.wire, t.handles) /\ WireFits(t.ops, t.wire, t.openedFiles) /\ InTurn(t.ops)
  BY DEF Orderly
<1>2. i = OwnerOf(t.ops, t.wire[j]) /\ t.wire[j].of \in DOMAIN t.ops /\ i # 0
  BY <1>1, OpOf, Zenon DEF WireOwned, WireFits
<1>3. t.ops[t.wire[j].of].on = i
  BY <1>2, Zenon DEF OwnerOf
<1>4. t.ops[i].does \in {"open", "create"}
  BY <1>1, <1>2, <1>3 DEF InTurn
<1> QED  BY <1>4

(* What the lstat found. *)
Become(op, does, size) == [[op EXCEPT !.does = does] EXCEPT !.size = size]

Becoming(t, i, does, size) == [t EXCEPT !.ops[i].does = does, !.ops[i].size = size]

(* An operation becomes another where it is.                                *)
LEMMA BecomeInPlace ==
  ASSUME NEW t \in FspStates, NEW i \in DOMAIN t.ops, NEW does, NEW size
  PROVE  Becoming(t, i, does, size) = Put(t, i, Become(t.ops[i], does, size))
<1> DEFINE op == t.ops[i]
           q == [op EXCEPT !.does = does]
           a == [t.ops EXCEPT ![i] = q]
<1>1. t.ops \in Seq(ChainOps) /\ op \in ChainOps
  BY DEF FspStates
<1>2. [t EXCEPT !.ops[i].does = does] = [t EXCEPT !.ops = a]
  OBVIOUS
<1>3. a[i] = q /\ \A x : [a EXCEPT ![i] = x] = [t.ops EXCEPT ![i] = x]
  BY <1>1
<1> HIDE DEF a, q, op
<1> DEFINE u == [t EXCEPT !.ops = a]
<1>4. u.ops = a /\ \A x : [u EXCEPT !.ops = x] = [t EXCEPT !.ops = x]
  BY Zenon DEF FspStates
<1> HIDE DEF u
<1>5. [u EXCEPT !.ops[i].size = size] = [u EXCEPT !.ops = [u.ops EXCEPT ![i] = [u.ops[i] EXCEPT !.size = size]]]
  OBVIOUS
<1>6. [u EXCEPT !.ops[i].size = size] = [t EXCEPT !.ops = [t.ops EXCEPT ![i] = [q EXCEPT !.size = size]]]
  BY <1>3, <1>4, <1>5
<1>7. [t EXCEPT !.ops[i].does = does, !.ops[i].size = size] = [u EXCEPT !.ops[i].size = size]
  BY <1>2 DEF u
<1> QED  BY <1>6, <1>7 DEF Put, Become, Becoming, q, op

(* OnLstat keeps the order: the copy or removal becomes that of what was    *)
(* found.                                                                   *)
LEMMA OnLstatKeeps ==
  ASSUME Orderly(f, {}), NEW knd \in EntryKinds, Provider!OnLstat(knd)
  PROVE  Orderly(f', {})
<1> DEFINE i == Provider!R.of
           r == Provider!R
           u == Provider!Served
           op == f.ops[i]
           does == Provider!Of(knd, op.does = "copy")
           name == Provider!First(does)
           size == Provider!Size(knd)
           q == Become(op, does, size)
           o == [q EXCEPT !.stage = name]
<1>1. /\ f.wire # <<>> /\ r.does = "lstat"
      /\ f' = Provider!Ask(Becoming(u, i, does, size), i, name, 0)
  BY DEF Becoming, Provider!OnLstat, Provider!Replied, Provider!Op, Provider!Unopened
<1>2. Single(u, f.handles, r, i)
  <2>1. AtHand(f, f.handles, u, r, i)
    BY <1>1, Passed DEF Provider!Opens, Provider!Closes
  <2> QED  BY <1>1, <2>1, SingleCame DEF OneRequest
<1> HIDE DEF u, i, r
<1>3. does \in {"copyDirectory", "removeDirectory", "copyLink", "removeFile", "copyFile"}
  BY DEF Provider!Of
<1>4. /\ size \in 0..Chunks
      /\ name = CASE does = "copyFile" -> "openSource"
                  [] does \in Directories -> "opendir"
                  [] does = "copyLink" -> "readlink"
                  [] OTHER -> "removeFile"
  <2>1. Chunks \in Nat
    BY FilesAssumption DEF Provider!ProviderAssumption
  <2> HIDE DEF does
  <2> QED  BY <1>3, <2>1 DEF Provider!Size, Provider!First, Directories
<1>5. name \in {"openSource", "opendir", "readlink", "removeFile"} /\ name \in OneRequest /\ does \in Chains
  BY <1>3, <1>4 DEF OneRequest, Chains
<1> HIDE DEF does, size, name, op
<1>6. op \in ChainOps /\ u \in FspStates /\ u.ops[i] = op /\ i \in DOMAIN u.ops
  BY <1>2 DEF Single, op
<1>7. Becoming(u, i, does, size) = Put(u, i, q)
  <2>1. Becoming(u, i, does, size) = Put(u, i, Become(u.ops[i], does, size))
    BY <1>6, BecomeInPlace
  <2> QED  BY <1>6, <2>1 DEF q
<1>8. /\ q \in ChainOps /\ q.stage = op.stage /\ q.does = does /\ q.size = size /\ q.parent = op.parent
      /\ q.source = op.source /\ q.target = op.target /\ q.left = op.left /\ q.entries = op.entries
      /\ q.failed = op.failed /\ q.answers = op.answers /\ q.on = op.on /\ q.content = op.content
  <2> DEFINE p == [op EXCEPT !.does = does]
  <2>1. /\ p \in ChainOps /\ p.stage = op.stage /\ p.does = does /\ p.size = op.size /\ p.parent = op.parent
      /\ p.source = op.source /\ p.target = op.target /\ p.left = op.left /\ p.entries = op.entries
      /\ p.failed = op.failed /\ p.answers = op.answers /\ p.on = op.on /\ p.content = op.content
    BY <1>5, <1>6 DEF ChainOps
  <2>2. q = [p EXCEPT !.size = size]
    BY DEF Become
  <2> HIDE DEF p
  <2> QED  BY <1>4, <2>1, <2>2 DEF ChainOps
<1> HIDE DEF q
<1>9. /\ o \in ChainOps /\ o.stage = name /\ o.does = does /\ o.size = size /\ o.parent = op.parent
      /\ o.source = op.source /\ o.target = op.target /\ o.left = op.left /\ o.entries = op.entries
      /\ o.failed = op.failed /\ o.answers = op.answers /\ o.on = op.on /\ o.content = op.content
  BY <1>5, <1>8 DEF ChainOps, Stages
<1> HIDE DEF o
<1>10. op.does \in {"copy", "remove"} /\ op.source = 0 /\ op.target = 0 /\ op.on = 0 /\ op.parent = 0 /\ op.entries = <<>>
  BY <1>1, <1>2 DEF Single, Local, StageFits, Holding, Born, Provider!OfFiles, op, Directories
<1>11. op.answers = 0 /\ op.content = <<>> /\ ~op.failed /\ op.left \in Nat
  BY <1>1, <1>2, <1>6, <1>10 DEF Single, Local, Told, Copied, op, ChainOps
<1>12. Local(o)
  <2>1. StageFits(o)
    BY <1>3, <1>4, <1>9 DEF StageFits, Directories
  <2>2. Holding(o) /\ Told(o) /\ Copied(o)
    BY <1>5, <1>9, <1>10, <1>11 DEF Holding, Told, Copied, Many
  <2>3. Born(o)
    BY <1>3, <1>9, <1>10 DEF Born, Provider!OfFiles
  <2> QED  BY <2>1, <2>2, <2>3 DEF Local
<1>13. Continues(u, i, o, 0)
  <2>1. {o.does, op.does} \subseteq Chains \ {"open", "create", "close"}
    BY <1>3, <1>9, <1>10 DEF Chains
  <2> QED  BY <1>1, <1>2, <1>3, <1>5, <1>9, <1>10, <1>12, <2>1, NoHandle DEF Continues, OneRequest, op, Single
<1>14. Asking(u, i, o, 0)
  BY <1>2, <1>13, AskNext DEF Single
<1>15. Orderly(Provider!Ask(Put(u, i, q), i, name, 0), {})
  BY <1>2, <1>5, <1>8, <1>14, AskOf DEF o, Single
<1> QED  BY <1>1, <1>7, <1>15

(* An entry of a listing is looked up, and another chunk written.           *)
LEMMA CountsDown ==
  ASSUME NEW t, NEW hs, NEW u, NEW r, NEW i, AtHand(t, hs, u, r, i), r.does \in {"write", "fileStatus"},
         t.ops[i].stage = r.does, t.wire \in Seq(Sent), t.wire # <<>>
  PROVE  /\ t.ops[i].left \in Nat /\ t.ops[i].left >= 1
         /\ \E a \in Nat : \A x \in Nat : OnWire(u.wire, i, r.does, x) <=> (a < x /\ x <= a + (t.ops[i].left - 1))
<1> DEFINE op == t.ops[i]
           l == op.left
           v == u.wire
<1>1. Waits(t.ops, t.wire, i) /\ op \in ChainOps /\ Local(op) /\ r \in Sent /\ r = t.wire[1] /\ i = r.of /\ v = Tail(t.wire)
  BY Zenon DEF AtHand
<1>2. l \in Nat /\ l >= 1
  BY <1>1 DEF ChainOps, Local, Holding, Many
<1>3. PICK a \in Nat : \A x \in Nat : OnWire(t.wire, i, r.does, x) <=> (a < x /\ x <= a + l)
  BY <1>1 DEF Waits, Counting
<1>4. /\ 1 \in DOMAIN t.wire
      /\ \A k \in DOMAIN v : k \in Nat /\ k + 1 \in DOMAIN t.wire /\ v[k] = t.wire[k + 1]
      /\ \A k \in DOMAIN t.wire : k \in Nat /\ (k # 1 => k - 1 \in DOMAIN v /\ v[k - 1] = t.wire[k])
  BY <1>1, HeadAndTail
<1>5. \A k \in DOMAIN v : v[k].of = i /\ v[k].does = r.does => r.chunk < v[k].chunk
  BY <1>1, Zenon DEF AtHand, Precedes
<1>6. r.chunk \in Nat /\ OnWire(t.wire, i, r.does, r.chunk)
  BY <1>1, <1>4 DEF OnWire, Sent
<1> HIDE DEF l, v, op
<1>7. \A x : OnWire(t.wire, i, r.does, x) <=> (x = r.chunk \/ OnWire(v, i, r.does, x))
  <2>1. ASSUME NEW x, OnWire(t.wire, i, r.does, x) PROVE x = r.chunk \/ OnWire(v, i, r.does, x)
    <3>1. PICK k \in DOMAIN t.wire : t.wire[k].of = i /\ t.wire[k].does = r.does /\ t.wire[k].chunk = x
      BY <2>1 DEF OnWire
    <3> QED  BY <1>1, <1>4, <3>1 DEF OnWire
  <2>2. ASSUME NEW x, OnWire(v, i, r.does, x) PROVE OnWire(t.wire, i, r.does, x)
    BY <1>4, <2>2 DEF OnWire
  <2> QED  BY <1>6, <2>1, <2>2
<1>8. \A x : OnWire(v, i, r.does, x) => r.chunk < x
  BY <1>5 DEF OnWire
<1>9. r.chunk = a + 1
  <2>1. a < r.chunk /\ OnWire(t.wire, i, r.does, a + 1)
    BY <1>2, <1>3, <1>6
  <2> QED  BY <1>3, <1>6, <1>7, <1>8, <2>1
<1>10. \A x \in Nat : OnWire(v, i, r.does, x) <=> (a + 1 < x /\ x <= (a + 1) + (l - 1))
  BY <1>2, <1>3, <1>6, <1>7, <1>8, <1>9
<1>11. a + 1 \in Nat
  BY <1>3
<1> QED  BY <1>2, <1>10, <1>11, Zenon DEF l, v, op

(* SendAll keeps the order.                                                 *)
LEMMA SendAllOf ==
  ASSUME NEW t, NEW i, NEW name \in Many, NEW h, NEW n \in Nat, NEW q \in ChainOps, NEW o,
         o = Sending(q, name, n), Orderly(t, {i}), AsksAll(t, i, o, h, n)
  PROVE  Orderly(Provider!SendAll(Put(t, i, q), i, name, h, n), {})
<1>1. t \in FspStates /\ i \in DOMAIN t.ops
  BY DEF Orderly, AsksAll
<1> DEFINE p == [q EXCEPT !.stage = name]
<1>2. p \in ChainOps /\ p.stage = name
  BY DEF ChainOps, Stages
<1>3. o = [p EXCEPT !.left = n]
  BY DEF Sending
<1> HIDE DEF p
<1>4. o.stage = name
  BY <1>2, <1>3 DEF ChainOps
<1> DEFINE u == Put(t, i, q)
<1>8. u \in FspStates /\ i \in DOMAIN u.ops /\ u.ops[i] = q
  <2>1. IsPut(u, t, i, q)
    BY <1>1, PutFields
  <2> QED  BY <1>1, <2>1 DEF IsPut
<1>9. Put(u, i, o) = Put(t, i, o)
  BY <1>1, PutPut
<1> HIDE DEF u
<1>10. Provider!SendAll(u, i, name, h, n) =
         More(Put(u, i, Sending(u.ops[i], name, n)), AtOnce(name, i, h, n))
  BY <1>8, SendAllIs
<1>11. Orderly(More(Put(t, i, o), AtOnce(o.stage, i, h, n)), {})
  BY SendAllKeeps
<1> QED  BY <1>4, <1>8, <1>9, <1>10, <1>11 DEF u

(* An operation of which a reply has come, and that waits for others.      *)
Rests(u, r, i, q) ==
  /\ q \in ChainOps /\ q.stage = f.ops[i].stage /\ q.does = f.ops[i].does /\ q.parent = f.ops[i].parent
  /\ q.source = f.ops[i].source /\ q.target = f.ops[i].target /\ q.failed = f.ops[i].failed /\ q.on = f.ops[i].on
  /\ Local(q) /\ q.stage # "children" /\ q.does # "close" /\ r.does \notin Provider!Closes
  /\ q.stage = "done" => q.parent = 0
  /\ \A ops : ops[i] = q => Waits(ops, u.wire, i)

(* An operation waits on for the rest of its requests.                      *)
LEMMA RestsKeeps ==
  ASSUME NEW u, NEW r, NEW i, NEW q, AtHand(f, f.handles, u, r, i), Rests(u, r, i, q)
  PROVE  Orderly(Put(u, i, q), {})
<1> DEFINE op == f.ops[i]
           p == Put(u, i, q)
<1>1. /\ Orderly(u, {i}) /\ u.ops = f.ops /\ u.handles = f.handles /\ u.openedFiles = f.openedFiles /\ u \in FspStates
      /\ i \in DOMAIN f.ops /\ i \in Nat /\ i # 0 /\ Parents(f.ops, i, {i}) /\ op.parent # i
  BY OpOf, Zenon DEF AtHand
<1>2. /\ q \in ChainOps /\ q.stage = op.stage /\ q.does = op.does /\ q.parent = op.parent /\ q.on = op.on
      /\ q.source = op.source /\ q.target = op.target /\ q.failed = op.failed
  BY DEF Rests
<1>9. \A k \in DOMAIN u.wire : u.wire[k].of = i => Matches(u.wire[k], op, f.openedFiles)
  BY Zenon DEF AtHand
<1>10. /\ op.source # 0 => f.handles[op.source] = i
       /\ op.target # 0 /\ op.stage # "done" => f.handles[op.target] = i /\ op.target # op.source
  BY Zenon DEF AtHand
<1>11. \A x \in f.openedFiles : x.request = i => op.stage = "done" /\ op.does \in {"open", "create"}
  BY Zenon DEF AtHand
<1>12. \A g \in Provider!Handles : f.handles[g] = i =>
         \/ op.source = g
         \/ op.target = g /\ op.stage # "done"
         \/ r.does = "closeSource" /\ r.h = g
         \/ \E k \in DOMAIN u.wire : u.wire[k].of = i /\ u.wire[k].does = "closeSource" /\ u.wire[k].h = g
         \/ [request |-> i, handle |-> g] \in f.openedFiles
  BY Zenon DEF AtHand
<1>13. \A j \in DOMAIN f.ops : f.ops[j].parent = i =>
         /\ op.does \in Directories /\ op.stage \in {"children", "closeSource", "rmdir", "done"}
         /\ op.stage # "children" /\ ~op.failed => f.ops[j].stage = "done" /\ ~f.ops[j].failed
  BY Zenon DEF AtHand
<1> HIDE DEF op
<1>3. Changeable(u, {i}, i, q)
  <2>1. \A k \in DOMAIN u.wire : u.wire[k].of = i => Matches(u.wire[k], q, u.openedFiles)
    BY <1>1, <1>2, <1>9 DEF Matches
  <2>2. /\ q.source # 0 => u.handles[q.source] = i
        /\ q.target # 0 /\ q.stage \notin {"done", "closeTarget"} => u.handles[q.target] = i /\ q.target # q.source
    BY <1>1, <1>2, <1>10
  <2>3. (\E j \in DOMAIN u.ops : u.ops[j].parent = i) =>
           q.does \in Directories /\ q.stage \in {"children", "closeSource", "rmdir", "done"}
    BY <1>1, <1>2, <1>13
  <2>4. q.parent # 0 /\ q.parent \notin {i} =>
          /\ u.ops[q.parent].stage = "children" /\ q.stage = "done" => ~q.failed
          /\ u.ops[q.parent].stage # "children" /\ ~u.ops[q.parent].failed => q.stage = "done" /\ ~q.failed
    BY <1>1, <1>2 DEF Parents, op
  <2>5. q.parent # 0 /\ u.ops[q.parent].stage = "children" => q.stage # "done"
    BY <1>1, <1>2 DEF Rests
  <2> QED  BY <1>1, <1>2, <2>1, <2>2, <2>3, <2>4, <2>5 DEF Changeable, op
<1>4. Orderly(p, {i})
  <2>1. i \in {i} /\ i \in DOMAIN u.ops
    BY <1>1
  <2> QED  BY <1>1, <1>2, <1>3, <2>1, Change DEF Put
<1>5. /\ p \in FspStates /\ p.wire = u.wire /\ p.handles = u.handles /\ p.openedFiles = u.openedFiles
      /\ DOMAIN p.ops = DOMAIN u.ops /\ p.ops[i] = q /\ \A j \in DOMAIN u.ops : j # i => p.ops[j] = u.ops[j]
  <2>1. i \in DOMAIN u.ops
    BY <1>1
  <2>2. IsPut(p, u, i, q)
    BY <1>1, <1>2, <2>1, PutFields
  <2> QED  BY <2>2 DEF IsPut
<1> HIDE DEF p
<1>6. Settled(p, i)
  <2>1. Waits(p.ops, p.wire, i)
    BY <1>5 DEF Rests
  <2>2. q.target # 0 /\ q.stage = "closeTarget" => p.handles[q.target] = i /\ q.target # q.source
    BY <1>1, <1>2, <1>5, <1>10
  <2>3. \A j \in DOMAIN p.ops : p.ops[j].parent = i =>
          q.stage # "children" /\ (~q.failed => p.ops[j].stage = "done" /\ ~p.ops[j].failed)
    <3>1. ASSUME NEW j \in DOMAIN f.ops, p.ops[j].parent = i PROVE ~q.failed => p.ops[j].stage = "done" /\ ~p.ops[j].failed
      <4>1. j # i
        BY <1>1, <1>2, <1>5, <3>1
      <4>2. op.stage # "children"
        BY <1>2 DEF Rests
      <4> QED  BY <1>1, <1>2, <1>5, <1>13, <3>1, <4>1, <4>2
    <3>2. q.stage # "children"
      BY DEF Rests
    <3> QED  BY <1>1, <1>5, <3>1, <3>2
  <2>4. \A x \in p.openedFiles : x.request = i => q.stage = "done"
    BY <1>1, <1>2, <1>5, <1>11
  <2>5. \A h \in Provider!Handles : p.handles[h] = i =>
          \/ q.source = h
          \/ q.target = h /\ q.stage # "done"
          \/ \E k \in DOMAIN p.wire : p.wire[k].of = i /\ p.wire[k].does = "closeSource" /\ p.wire[k].h = h
          \/ [request |-> i, handle |-> h] \in p.openedFiles
    <3>1. r.does # "closeSource"
      BY DEF Rests, Provider!Closes
    <3> QED  BY <1>1, <1>2, <1>5, <1>12, <3>1
  <2>6. Local(q) /\ q.does # "close"
    BY DEF Rests
  <2> QED  BY <1>1, <1>5, <2>1, <2>2, <2>3, <2>4, <2>5, <2>6 DEF Settled
<1>7. Orderly(p, {i} \ {i})
  BY <1>4, <1>6, PutDown
<1>8. {i} \ {i} = {}
  OBVIOUS
<1> QED  BY <1>7, <1>8 DEF p

(* An operation put where it is changes nothing.                            *)
LEMMA PutSame ==
  ASSUME NEW t \in FspStates, NEW i \in DOMAIN t.ops
  PROVE  Put(t, i, t.ops[i]) = t
<1>1. t.ops \in Seq(ChainOps)
  BY DEF FspStates
<1>2. [t.ops EXCEPT ![i] = t.ops[i]] = t.ops
  BY <1>1
<1>3. [t EXCEPT !.ops = t.ops] = t
  BY DEF FspStates
<1> QED  BY <1>2, <1>3 DEF Put

(* Of an operation with many requests only those are on the way.            *)
LEMMA OnlyThose ==
  ASSUME NEW u, NEW r, NEW i, AtHand(f, f.handles, u, r, i), r.does \in {"write", "fileStatus"}, f.ops[i].stage = r.does,
         NEW k \in DOMAIN u.wire, u.wire[k].of = i
  PROVE  u.wire[k].does = r.does
<1>1. Matches(u.wire[k], f.ops[i], f.openedFiles)
  BY Zenon DEF AtHand
<1>2. Local(f.ops[i])
  BY Zenon DEF AtHand
<1> QED  BY <1>1, <1>2 DEF Matches, Local, StageFits

(* One request of many is over.                                             *)
LEMMA OneLess ==
  ASSUME NEW u, NEW r, NEW i, AtHand(f, f.handles, u, r, i), f.wire # <<>>, f.wire \in Seq(Sent),
         r.does \in {"write", "fileStatus"}, f.ops[i].stage = r.does, f.ops[i].left > 1
  PROVE  Orderly([u EXCEPT !.ops[i].left = @ - 1], {})
<1> DEFINE op == f.ops[i]
           l == op.left - 1
           q == [op EXCEPT !.left = l]
<1>1. op \in ChainOps /\ Local(op) /\ u \in FspStates /\ u.ops = f.ops /\ i \in DOMAIN u.ops
  BY Zenon DEF AtHand
<1>2. /\ op.left \in Nat
      /\ \E a \in Nat : \A x \in Nat : OnWire(u.wire, i, r.does, x) <=> (a < x /\ x <= a + (op.left - 1))
  BY CountsDown
<1>3. l \in Nat /\ l >= 1
  BY <1>2
<1>4. [u EXCEPT !.ops[i].left = @ - 1] = Put(u, i, q)
  <2>1. [u EXCEPT !.ops[i].left = @ - 1] = Put(u, i, [u.ops[i] EXCEPT !.left = u.ops[i].left - 1])
    BY <1>1, LeftInPlace
  <2> QED  BY <1>1, <2>1
<1> HIDE DEF l
<1>5. /\ q \in ChainOps /\ q.stage = op.stage /\ q.does = op.does /\ q.size = op.size /\ q.parent = op.parent
      /\ q.source = op.source /\ q.target = op.target /\ q.left = l /\ q.entries = op.entries /\ q.failed = op.failed
      /\ q.answers = op.answers /\ q.on = op.on /\ q.content = op.content
  BY <1>1, <1>3 DEF ChainOps
<1> HIDE DEF q, op
<1>6. op.stage = r.does
  BY DEF op
<1>7. Local(q)
  BY <1>1, <1>3, <1>5, <1>6 DEF Local, StageFits, Holding, Told, Copied, Born, WholeOf, Many
<1>8. Counting(q, u.wire, i)
  BY <1>2, <1>5, <1>6 DEF Counting, l
<1>9. \A ops : ops[i] = q => Waits(ops, u.wire, i)
  BY <1>5, <1>6, <1>8 DEF Waits, OneRequest
<1>10. q.does # "close" /\ q.stage \notin {"children", "done"} /\ r.does \notin Provider!Closes
  BY <1>1, <1>5, <1>6 DEF Local, StageFits, Provider!Closes
<1>11. Rests(u, r, i, q)
  BY <1>5, <1>7, <1>9, <1>10 DEF Rests, op
<1> QED  BY <1>4, <1>11, RestsKeeps

(* The last of many is over: nothing of the operation is on the way.        *)
LEMMA NoneLeft ==
  ASSUME NEW u, NEW r, NEW i, AtHand(f, f.handles, u, r, i), f.wire # <<>>, f.wire \in Seq(Sent),
         r.does \in {"write", "fileStatus"}, f.ops[i].stage = r.does, ~(f.ops[i].left > 1)
  PROVE  \A k \in DOMAIN u.wire : u.wire[k].of # i
<1>1. /\ f.ops[i].left \in Nat /\ f.ops[i].left >= 1
      /\ \E a \in Nat : \A x \in Nat : OnWire(u.wire, i, r.does, x) <=> (a < x /\ x <= a + (f.ops[i].left - 1))
  BY CountsDown
<1>2. \A x \in Nat : ~OnWire(u.wire, i, r.does, x)
  BY <1>1
<1>3. ASSUME NEW k \in DOMAIN u.wire, u.wire[k].of = i PROVE FALSE
  <2>0. u.wire \in Seq(Sent)
    BY Zenon DEF AtHand
  <2>1. u.wire[k].does = r.does /\ u.wire[k] \in Sent
    BY <1>3, <2>0, OnlyThose
  <2>2. u.wire[k].chunk \in Nat
    BY <2>1 DEF Sent
  <2> QED  BY <1>2, <1>3, <2>1, <2>2 DEF OnWire
<1> QED  BY <1>3

(* OnFileStatus keeps the order: the next link is awaited, or the           *)
(* directory read on.                                                       *)
LEMMA OnFileStatusKeeps ==
  ASSUME Orderly(f, {}), Provider!OnFileStatus
  PROVE  Orderly(f', {})
<1> DEFINE i == Provider!R.of
           r == Provider!R
           u == Provider!Served
           op == f.ops[i]
           o == [op EXCEPT !.stage = "readdir"]
<1>1. /\ f.wire # <<>> /\ r.does = "fileStatus"
      /\ f' = IF op.left > 1 THEN [u EXCEPT !.ops[i].left = @ - 1] ELSE Provider!Ask(u, i, "readdir", op.source)
  BY DEF Provider!OnFileStatus, Provider!Op
<1>2. AtHand(f, f.handles, u, r, i)
  BY <1>1, Passed DEF Provider!Opens, Provider!Closes
<1>3. f.wire \in Seq(Sent)
  BY DEF Orderly, FspStates
<1> HIDE DEF op, u, i, r
<1>4. op.stage = r.does /\ op.does = "list" /\ op \in ChainOps /\ Local(op)
  <2>1. Matches(r, op, f.openedFiles) /\ Local(op) /\ op \in ChainOps
    BY <1>2, Zenon DEF AtHand, op
  <2> QED  BY <1>1, <2>1 DEF Matches, Local, StageFits
<1>5. CASE op.left > 1
  <2>1. f.ops[i].stage = r.does /\ f.ops[i].left > 1 /\ r.does \in {"write", "fileStatus"}
    BY <1>1, <1>4, <1>5 DEF op
  <2>2. Orderly([u EXCEPT !.ops[i].left = @ - 1], {})
    BY <1>1, <1>2, <1>3, <2>1, OneLess
  <2> QED  BY <1>1, <1>5, <2>2
<1>6. CASE ~(op.left > 1)
  <2>1. \A k \in DOMAIN u.wire : u.wire[k].of # i
    <3>1. f.ops[i].stage = r.does /\ ~(f.ops[i].left > 1) /\ r.does \in {"write", "fileStatus"}
      BY <1>1, <1>4, <1>6 DEF op
    <3> QED  BY <1>1, <1>2, <1>3, <3>1, NoneLeft
  <2>2. /\ o \in ChainOps /\ o.stage = "readdir" /\ o.does = op.does /\ o.size = op.size /\ o.parent = op.parent
        /\ o.source = op.source /\ o.target = op.target /\ o.left = op.left /\ o.entries = op.entries
        /\ o.failed = op.failed /\ o.answers = op.answers /\ o.on = op.on /\ o.content = op.content
    BY <1>4 DEF ChainOps, Stages, OneRequest
  <2>3. op.source # 0 /\ op.target = 0 /\ op.on = 0
    BY <1>1, <1>4 DEF Local, Holding, Born, Provider!OfFiles
  <2> HIDE DEF o
  <2>4. Local(o)
    BY <1>1, <1>4, <2>2, <2>3 DEF Local, StageFits, Holding, Told, Copied, Born, Many
  <2> DEFINE h == op.source
  <2>5. /\ u.ops = f.ops /\ u.handles = f.handles /\ u.openedFiles = f.openedFiles /\ i \in DOMAIN u.ops /\ Orderly(u, {i})
    BY <1>2, Zenon DEF AtHand
  <2>6. f.handles[op.source] = i /\ \A x \in f.openedFiles : x.request # i
    BY <1>1, <1>2, <1>4, <2>3, Zenon DEF AtHand, op
  <2>7. \A j \in DOMAIN f.ops : f.ops[j].parent # i
    BY <1>1, <1>2, <1>4, Zenon DEF AtHand, op
  <2>8. \A g \in Provider!Handles : f.handles[g] = i => op.source = g
    <3>1. ASSUME NEW g \in Provider!Handles, f.handles[g] = i PROVE op.source = g
      <4>1. [request |-> i, handle |-> g].request = i
        OBVIOUS
      <4>2. [request |-> i, handle |-> g] \notin f.openedFiles
        BY <2>6, <4>1
      <4> QED  BY <1>1, <1>2, <2>1, <2>3, <3>1, <4>2, NoHandle, Zenon DEF AtHand, op
    <3> QED  BY <3>1
  <2>9. Continues(u, i, o, h)
    BY <1>1, <1>4, <2>1, <2>2, <2>3, <2>4, <2>5, <2>6, <2>7, <2>8 DEF Continues, OneRequest, op
  <2> HIDE DEF h
  <2>10. Asking(u, i, o, h)
    BY <2>5, <2>9, AskNext
  <2>11. o = [u.ops[i] EXCEPT !.stage = "readdir"] /\ "readdir" \in OneRequest
    BY <2>5 DEF o, op, OneRequest
  <2>12. Orderly(Provider!Ask(u, i, "readdir", h), {})
    BY <2>5, <2>10, <2>11, AskHere
  <2> QED  BY <1>1, <1>6, <2>12 DEF h
<1> QED  BY <1>5, <1>6

(* The end of a write, whether or not its other chunks are on the way.     *)
LEMMA WriteEnds ==
  ASSUME NEW u, NEW r, NEW i, NEW ok \in BOOLEAN, AtHand(f, f.handles, u, r, i), r.does = "write", f.ops[i].stage = "write"
  PROVE  Orderly(Provider!Settle(u, i, ok), {})
<1> DEFINE op == f.ops[i]
<1>1. /\ u.ops = f.ops /\ u.handles = f.handles /\ u.openedFiles = f.openedFiles /\ i \in DOMAIN u.ops /\ Orderly(u, {i})
      /\ Local(op) /\ op.stage = "write"
  BY Zenon DEF AtHand
<1>2. op.does = "write" /\ op.source = 0 /\ op.target = 0 /\ op.answers = 0 /\ op.content = <<>> /\ Born(op)
  BY <1>1 DEF Local, StageFits, Holding, Told, Copied
<1>3. \A k \in DOMAIN u.wire : u.wire[k].of = i => u.wire[k].does = "write"
  <2>1. r.does \in {"write", "fileStatus"} /\ f.ops[i].stage = r.does
    OBVIOUS
  <2> QED  BY <2>1, OnlyThose
<1>4. \A x \in f.openedFiles : x.request # i
  BY Zenon DEF AtHand
<1>5. \A j \in DOMAIN f.ops : f.ops[j].parent # i
  BY Zenon DEF AtHand
<1>6. \A g \in Provider!Handles : f.handles[g] # i
  <2>1. ASSUME NEW g \in Provider!Handles, f.handles[g] = i PROVE FALSE
    <3>1. [request |-> i, handle |-> g].request = i
      OBVIOUS
    <3>2. [request |-> i, handle |-> g] \notin f.openedFiles
      BY <1>4, <3>1
    <3>3. \/ op.source = g
          \/ op.target = g /\ op.stage # "done"
          \/ r.does = "closeSource" /\ r.h = g
          \/ \E k \in DOMAIN u.wire : u.wire[k].of = i /\ u.wire[k].does = "closeSource" /\ u.wire[k].h = g
          \/ [request |-> i, handle |-> g] \in f.openedFiles
      BY <2>1, Zenon DEF AtHand
    <3> QED  BY <1>2, <1>3, <3>2, <3>3, NoHandle
  <2> QED  BY <2>1
<1> HIDE DEF op
<1>7. u.ops[i] = op
  BY <1>1 DEF op
<1>8. Over(u, i, ok)
  BY <1>1, <1>2, <1>3, <1>4, <1>5, <1>6, <1>7 DEF Over, Free
<1> QED  BY <1>1, <1>8, SettleKeeps

(* What is late is of no effect. *)
LEMMA LateKeeps ==
  ASSUME NEW u, NEW r, NEW i, AtHand(f, f.handles, u, r, i), Rests(u, r, i, f.ops[i])
  PROVE  Orderly(u, {})
<1>1. u \in FspStates /\ i \in DOMAIN u.ops /\ u.ops[i] = f.ops[i]
  BY Zenon DEF AtHand
<1>2. Put(u, i, f.ops[i]) = u
  BY <1>1, PutSame
<1> QED  BY <1>2, RestsKeeps

(* A write that comes when its request has failed.                          *)
LEMMA LateWrite ==
  ASSUME NEW u, NEW r, NEW i, AtHand(f, f.handles, u, r, i), r.does = "write", f.ops[i].stage # "write"
  PROVE  Orderly(u, {})
<1> DEFINE op == f.ops[i]
<1>1. Local(op) /\ op \in ChainOps /\ Matches(r, op, f.openedFiles)
  BY Zenon DEF AtHand
<1> HIDE DEF op
<1>2. op.stage = "done" /\ op.does = "write"
  BY <1>1 DEF Matches, op
<1>3. op.parent = 0
  BY <1>1, <1>2 DEF Local, Born, Provider!OfFiles
<1>4. \A ops : ops[i] = op => Waits(ops, u.wire, i)
  BY <1>2 DEF Waits, OneRequest
<1>5. Rests(u, r, i, op)
  BY <1>1, <1>2, <1>3, <1>4 DEF Rests, Provider!Closes, op
<1> QED  BY <1>5, LateKeeps DEF op

(* OnWrite keeps the order: the next write is awaited, or the request is    *)
(* over.                                                                    *)
LEMMA OnWriteKeeps ==
  ASSUME Orderly(f, {}), Provider!OnWrite
  PROVE  Orderly(f', {})
<1> DEFINE i == Provider!R.of
           r == Provider!R
           u == Provider!Served
           op == f.ops[i]
<1>1. /\ f.wire # <<>> /\ r.does = "write"
      /\ f' = IF op.stage # "write" THEN u
              ELSE IF op.left > 1 THEN [u EXCEPT !.ops[i].left = @ - 1]
              ELSE Provider!Settle(u, i, TRUE)
  BY DEF Provider!OnWrite, Provider!Op, Provider!Replied
<1>2. AtHand(f, f.handles, u, r, i)
  BY <1>1, Passed DEF Provider!Opens, Provider!Closes
<1>3. f.wire \in Seq(Sent)
  BY DEF Orderly, FspStates
<1> HIDE DEF op, u, i, r
<1>4. op.stage # "write" => Orderly(u, {})
  BY <1>1, <1>2, LateWrite DEF op
<1>5. op.stage = "write" /\ op.left > 1 => Orderly([u EXCEPT !.ops[i].left = @ - 1], {})
  <2>1. r.does \in {"write", "fileStatus"}
    BY <1>1
  <2> QED  BY <1>1, <1>2, <1>3, <2>1, OneLess DEF op
<1>6. op.stage = "write" => Orderly(Provider!Settle(u, i, TRUE), {})
  BY <1>1, <1>2, WriteEnds DEF op
<1> QED  BY <1>1, <1>4, <1>5, <1>6

(* The sizes of sets in the provider's module are those here.               *)
LEMMA SameCardinality == \A A : Provider!Cardinality(A) = Cardinality(A)
BY DEF Provider!Cardinality, Cardinality

(* OnReadDirectory keeps the order: the links of a batch are looked up, or  *)
(* the next batch is read.                                                  *)
LEMMA OnReadDirectoryKeeps ==
  ASSUME Orderly(f, {}), NEW batch \in Seq(EntryKinds), Provider!OnReadDirectory(batch)
  PROVE  Orderly(f', {})
<1> DEFINE i == Provider!R.of
           r == Provider!R
           u == Provider!Served
           op == f.ops[i]
           links == Cardinality({k \in DOMAIN batch : batch[k] = "link"})
           q == [op EXCEPT !.entries = batch]
           t == [u EXCEPT !.ops[i].entries = batch]
<1>1. /\ f.wire # <<>> /\ r.does = "readdir" /\ op.parent = 0
      /\ f' = IF op.does = "list" /\ links > 0 THEN Provider!SendAll(t, i, "fileStatus", 0, links)
              ELSE Provider!Ask(t, i, "readdir", op.source)
  <2>1. f.wire # <<>> /\ r.does = "readdir" /\ op.parent = 0
    BY DEF Provider!OnReadDirectory, Provider!Replied, Provider!Op
  <2>2. f' = IF op.does = "list" /\ links > 0 THEN Provider!SendAll(t, i, "fileStatus", 0, links)
             ELSE Provider!Ask(t, i, "readdir", op.source)
    <3> DEFINE ls == Provider!Cardinality({k \in DOMAIN batch : batch[k] = "link"})
    <3>1. f' = IF op.does = "list" /\ ls > 0 THEN Provider!SendAll(t, i, "fileStatus", 0, ls)
               ELSE Provider!Ask(t, i, "readdir", op.source)
      BY DEF Provider!OnReadDirectory, Provider!Op, Provider!Unopened
    <3>2. ls = links
      BY SameCardinality
    <3> HIDE DEF ls, links
    <3> QED  BY <3>1, <3>2
  <2> QED  BY <2>1, <2>2
<1>2. Single(u, f.handles, r, i)
  <2>1. AtHand(f, f.handles, u, r, i)
    BY <1>1, Passed DEF Provider!Opens, Provider!Closes
  <2> QED  BY <1>1, <2>1, SingleCame DEF OneRequest
<1>3. links \in Nat
  <2>1. IsFiniteSet(1..Len(batch))
    BY FS_Interval
  <2>2. {k \in DOMAIN batch : batch[k] = "link"} \subseteq 1..Len(batch)
    OBVIOUS
  <2> QED  BY <2>1, <2>2, FS_Subset, FS_CardinalityType
<1> HIDE DEF op, u, i, r, links
<1>4. u \in FspStates /\ u.ops[i] = op /\ op \in ChainOps /\ i \in DOMAIN u.ops
  BY <1>2 DEF Single, op
<1>5. t = Put(u, i, q)
  BY <1>4 DEF Put, q
<1>6. /\ q \in ChainOps /\ q.stage = op.stage /\ q.does = op.does /\ q.size = op.size /\ q.parent = op.parent
      /\ q.source = op.source /\ q.target = op.target /\ q.left = op.left /\ q.entries = batch
      /\ q.failed = op.failed /\ q.answers = op.answers /\ q.on = op.on /\ q.content = op.content
  BY <1>4 DEF ChainOps
<1> HIDE DEF q, t
<1>7. /\ op.does \in Directories \cup {"list"} /\ op.source # 0 /\ op.target = 0 /\ op.on = 0 /\ op.answers = 0
      /\ op.content = <<>> /\ ~op.failed /\ Born(op)
  BY <1>1, <1>2 DEF Single, Local, StageFits, Holding, Born, Told, Copied, Provider!OfFiles, op, Directories
<1> DEFINE h == op.source
<1>8. CASE op.does = "list" /\ links > 0
  <2> DEFINE p == [q EXCEPT !.stage = "fileStatus"]
             o == Sending(q, "fileStatus", links)
  <2>1. /\ p \in ChainOps /\ p.stage = "fileStatus" /\ p.does = q.does /\ p.size = q.size /\ p.parent = q.parent
      /\ p.source = q.source /\ p.target = q.target /\ p.left = q.left /\ p.entries = q.entries
      /\ p.failed = q.failed /\ p.answers = q.answers /\ p.on = q.on /\ p.content = q.content
    BY <1>6 DEF ChainOps, Stages, Many
  <2>2. o = [p EXCEPT !.left = links]
    BY DEF Sending
  <2> HIDE DEF p
  <2>3. /\ o \in ChainOps /\ o.stage = p.stage /\ o.does = p.does /\ o.size = p.size /\ o.parent = p.parent
      /\ o.source = p.source /\ o.target = p.target /\ o.left = links /\ o.entries = p.entries /\ o.failed = p.failed
      /\ o.answers = p.answers /\ o.on = p.on /\ o.content = p.content
    BY <1>3, <2>1, <2>2 DEF ChainOps
  <2> HIDE DEF o
  <2>4. Local(o)
    BY <1>1, <1>3, <1>6, <1>7, <1>8, <2>1, <2>3 DEF Local, StageFits, Holding, Told, Copied, Born, Many, Provider!OfFiles
  <2>5. AsksAll(u, i, o, 0, links)
    BY <1>1, <1>2, <1>3, <1>6, <1>7, <1>8, <2>1, <2>3, <2>4 DEF AsksAll, Single, Many, op, Numbers
  <2>6. "fileStatus" \in Many /\ o = Sending(q, "fileStatus", links) /\ q \in ChainOps /\ Orderly(u, {i})
    BY <1>2, <1>6 DEF Many, o, Single
  <2>7. Orderly(Provider!SendAll(Put(u, i, q), i, "fileStatus", 0, links), {})
    BY <1>3, <2>5, <2>6, SendAllOf
  <2> QED  BY <1>1, <1>5, <1>8, <2>7
<1>9. CASE ~(op.does = "list" /\ links > 0)
  <2> DEFINE o == [q EXCEPT !.stage = "readdir"]
  <2>1. /\ o \in ChainOps /\ o.stage = "readdir" /\ o.does = q.does /\ o.size = q.size /\ o.parent = q.parent
      /\ o.source = q.source /\ o.target = q.target /\ o.left = q.left /\ o.entries = q.entries
      /\ o.failed = q.failed /\ o.answers = q.answers /\ o.on = q.on /\ o.content = q.content
    BY <1>6 DEF ChainOps, Stages, OneRequest
  <2> HIDE DEF o
  <2>2. Local(o)
    BY <1>1, <1>6, <1>7, <2>1 DEF Local, StageFits, Holding, Told, Copied, Born, Many, Provider!OfFiles, Directories
  <2>3. Continues(u, i, o, h)
    BY <1>1, <1>2, <1>6, <1>7, <2>1, <2>2, NoHandle DEF Continues, OneRequest, op, Single, Directories
  <2> HIDE DEF h
  <2>4. Asking(u, i, o, h)
    BY <1>2, <2>3, AskNext DEF Single
  <2>5. "readdir" \in OneRequest /\ o = [q EXCEPT !.stage = "readdir"] /\ q \in ChainOps /\ Orderly(u, {i})
    BY <1>2, <1>6 DEF OneRequest, o, Single
  <2>6. Orderly(Provider!Ask(Put(u, i, q), i, "readdir", h), {})
    BY <2>4, <2>5, AskOf
  <2> QED  BY <1>1, <1>5, <1>9, <2>6 DEF h
<1> QED  BY <1>8, <1>9

(* An operation goes to its finally()s as q. *)
Ready(hs, i, q) ==
  /\ q \in ChainOps /\ q.stage = f.ops[i].stage /\ q.does = f.ops[i].does /\ q.parent = f.ops[i].parent /\ q.on = f.ops[i].on
  /\ Born(q) /\ q.answers = IF q.parent = 0 /\ q.does = "list" THEN 1 ELSE 0
  /\ q.does # "copyFile" => q.content = <<>> /\ q.target = 0
  /\ q.does = "copyFile" /\ ~q.failed => WholeOf(q)
  /\ q.source # 0 => /\ q.does \in Directories \cup {"copyFile", "list", "truncate"}
                     /\ hs[q.source] = i /\ q.target # q.source /\ q.stage # "closeTarget"
  /\ q.target # 0 /\ q.stage # "closeTarget" => hs[q.target] = i
  /\ \A h \in Provider!Handles : hs[h] = i => q.source = h \/ (q.target = h /\ q.stage # "closeTarget")

(* Finally after a request that came alone.                                 *)
LEMMA FinallySingle ==
  ASSUME NEW u, NEW hs, NEW r, NEW i, NEW q, Single(u, hs, r, i), Ready(hs, i, q)
  PROVE  Orderly(Provider!Finally(Put(u, i, q), i), {})
<1> DEFINE op == f.ops[i]
           p == Put(u, i, q)
<1>1. /\ Orderly(u, {i}) /\ u \in FspStates /\ u.ops = f.ops /\ u.handles = hs /\ u.openedFiles = f.openedFiles
      /\ i \in DOMAIN u.ops /\ i \in Nat /\ i # 0 /\ Parents(f.ops, i, {i}) /\ op.parent # i /\ Local(op)
      /\ op.stage # "done" /\ i \in {i}
  BY OpOf DEF Single
<1>2. /\ q \in ChainOps /\ q.stage = op.stage /\ q.does = op.does /\ q.parent = op.parent /\ q.on = op.on
  BY DEF Ready
<1>3. /\ \A x \in f.openedFiles : x.request # i
      /\ \A k \in DOMAIN u.wire : u.wire[k].of # i
      /\ op.stage # "rmdir" => \A j \in DOMAIN f.ops : f.ops[j].parent # i
      /\ \A j \in DOMAIN f.ops : f.ops[j].parent = i => f.ops[j].stage = "done" /\ ~f.ops[j].failed
  BY DEF Single
<1>4. op.stage = "rmdir" => op.does = "removeDirectory"
  BY <1>1 DEF Local, StageFits
<1> HIDE DEF op
<1>5. u.ops[i] = op
  BY <1>1 DEF op
<1>6. Changeable(u, {i}, i, q)
  <2>1. /\ q.source # 0 => u.handles[q.source] = i
        /\ q.target # 0 /\ q.stage \notin {"done", "closeTarget"} => u.handles[q.target] = i /\ q.target # q.source
    BY <1>1, <1>2 DEF Ready
  <2>2. (\E j \in DOMAIN u.ops : u.ops[j].parent = i) =>
           q.does \in Directories /\ q.stage \in {"children", "closeSource", "rmdir", "done"}
    BY <1>1, <1>2, <1>3, <1>4 DEF Directories
  <2>3. q.parent # 0 => ~(u.ops[q.parent].stage # "children" /\ ~u.ops[q.parent].failed)
    BY <1>1, <1>2 DEF Parents, op
  <2> QED  BY <1>1, <1>2, <1>3, <1>5, <2>1, <2>2, <2>3 DEF Changeable
<1>7. Orderly(p, {i})
  BY <1>1, <1>2, <1>6, Change DEF Put
<1>8. /\ p \in FspStates /\ p.wire = u.wire /\ p.handles = u.handles /\ p.openedFiles = u.openedFiles
      /\ DOMAIN p.ops = DOMAIN u.ops /\ p.ops[i] = q /\ \A j \in DOMAIN u.ops : j # i => p.ops[j] = u.ops[j]
  <2>2. IsPut(p, u, i, q)
    BY <1>1, <1>2, PutFields
  <2> QED  BY <2>2 DEF IsPut
<1> HIDE DEF p
<1>9. \A j \in DOMAIN p.ops : p.ops[j].parent = i => p.ops[j].stage = "done" /\ ~p.ops[j].failed
  <2>1. ASSUME NEW j \in DOMAIN u.ops, p.ops[j].parent = i PROVE p.ops[j].stage = "done" /\ ~p.ops[j].failed
    <3>1. j # i
      BY <1>1, <1>2, <1>8, <2>1
    <3> QED  BY <1>1, <1>3, <1>8, <2>1, <3>1
  <2> QED  BY <1>8, <2>1
<1>10. Free(p, i)
  <2>1. q.stage # "done"
    BY <1>1, <1>2
  <2> QED  BY <1>1, <1>3, <1>8, <1>9, <2>1 DEF Free, Ready
<1>11. Orderly(Provider!Finally(p, i), {})
  BY <1>7, <1>10, FinallyKeeps
<1> QED  BY <1>11 DEF p

(* OnOpenTarget keeps the order: the chunks are read, the server copies,    *)
(* or there is nothing to copy.                                             *)
LEMMA OnOpenTargetKeeps ==
  ASSUME Orderly(f, {}), NEW copyData \in BOOLEAN, Provider!OnOpenTarget(copyData)
  PROVE  Orderly(f', {})
<1> DEFINE i == Provider!R.of
           r == Provider!R
           u == Provider!Served
           g == Provider!Got
           hs == [f.handles EXCEPT ![g] = i]
           op == f.ops[i]
           q == [op EXCEPT !.target = g]
           t == [u EXCEPT !.ops[i].target = g]
<1>1. /\ f.wire # <<>> /\ r.does = "openTarget" /\ r.does \in Provider!Opens
      /\ \E x \in Provider!Handles : f.handles[x] = 0
      /\ f' = IF copyData THEN Provider!Ask(t, i, "copydata", g)
              ELSE IF op.size = 0 THEN Provider!Finally(t, i)
              ELSE Provider!SendAll(t, i, "chunkRead", op.source, op.size)
  BY DEF Provider!OnOpenTarget, Provider!Replied, Provider!Opens, Provider!Op
<1>2. /\ AtHand(f, hs, u, r, i) /\ g \in Provider!Handles /\ f.handles[g] = 0 /\ hs[g] = i
      /\ \A x \in Provider!Handles : x # g => hs[x] = f.handles[x]
  BY <1>1, Opened
<1>3. Single(u, hs, r, i)
  BY <1>1, <1>2, SingleCame DEF OneRequest
<1> HIDE DEF op, u, i, r, g, hs
<1>4. u \in FspStates /\ u.ops[i] = op /\ op \in ChainOps /\ g \in Numbers /\ i \in DOMAIN u.ops /\ g # 0 /\ op.source \in Numbers
      /\ op.size \in Nat
  <2>1. Chunks \in Nat
    BY FilesAssumption DEF Provider!ProviderAssumption
  <2> QED  BY <1>2, <1>3, <2>1, NoHandle DEF Single, op, Numbers, ChainOps
<1>5. t = Put(u, i, q)
  BY <1>4 DEF Put, q
<1>6. /\ q \in ChainOps /\ q.stage = op.stage /\ q.does = op.does /\ q.size = op.size /\ q.parent = op.parent
      /\ q.source = op.source /\ q.target = g /\ q.left = op.left /\ q.entries = op.entries /\ q.failed = op.failed
      /\ q.answers = op.answers /\ q.on = op.on /\ q.content = op.content
  BY <1>4 DEF ChainOps
<1> HIDE DEF q, t
<1>7. /\ op.does = "copyFile" /\ op.source # 0 /\ op.target = 0 /\ op.on = 0 /\ op.answers = 0 /\ op.content = <<>>
      /\ ~op.failed /\ op.entries = <<>> /\ f.handles[op.source] = i /\ op.source # g /\ hs[op.source] = i
      /\ op.stage = "openTarget"
  <2>1. /\ op.does = "copyFile" /\ op.source # 0 /\ op.target = 0 /\ op.on = 0 /\ op.answers = 0 /\ op.content = <<>>
        /\ ~op.failed /\ op.entries = <<>> /\ op.stage = "openTarget"
    BY <1>1, <1>3 DEF Single, Local, StageFits, Holding, Born, Told, Copied, Provider!OfFiles, op, Directories
  <2>2. f.handles[op.source] = i /\ i # 0
    BY <1>3, <2>1 DEF Single, op
  <2> QED  BY <1>2, <1>4, <2>1, <2>2 DEF Numbers
<1>8. \A x \in Provider!Handles : hs[x] = i => x = op.source \/ x = g
  BY <1>2, <1>3, <1>7, NoHandle DEF Single, op
<1>9. CASE copyData
  <2> DEFINE o == [q EXCEPT !.stage = "copydata"]
  <2>1. /\ o \in ChainOps /\ o.stage = "copydata" /\ o.does = q.does /\ o.size = q.size /\ o.parent = q.parent
      /\ o.source = q.source /\ o.target = q.target /\ o.left = q.left /\ o.entries = q.entries
      /\ o.failed = q.failed /\ o.answers = q.answers /\ o.on = q.on /\ o.content = q.content
    BY <1>6 DEF ChainOps, Stages, OneRequest
  <2> HIDE DEF o
  <2>2. Local(o)
    BY <1>3, <1>4, <1>6, <1>7, <2>1 DEF Local, StageFits, Holding, Told, Copied, Born, Many, Provider!OfFiles, Single, op
  <2>3. Continues(u, i, o, g)
    <3>1. /\ i \in DOMAIN u.ops /\ u.ops[i].stage # "done" /\ o \in ChainOps
          /\ o.stage \in OneRequest \ {"close", "closeSource", "closeTarget", "rmdir"} /\ Local(o)
      BY <1>4, <1>7, <2>1, <2>2 DEF OneRequest
    <3>2. /\ o.parent = u.ops[i].parent /\ o.on = 0 /\ u.ops[i].on = 0 /\ o.does # "close"
          /\ o.does = u.ops[i].does /\ o.does \notin {"open", "create"}
      BY <1>4, <1>6, <1>7, <2>1
    <3>3. /\ o.source # 0 => u.handles[o.source] = i
          /\ o.target # 0 => u.handles[o.target] = i /\ o.target # o.source
          /\ g \in {0, o.source, o.target} /\ (o.stage = "copydata" => g # 0 /\ g = o.target)
      BY <1>2, <1>3, <1>4, <1>6, <1>7, <2>1 DEF Single
    <3>4. /\ \A k \in DOMAIN u.wire : u.wire[k].of # i
          /\ \A x \in u.openedFiles : x.request # i
          /\ \A j \in DOMAIN u.ops : u.ops[j].parent # i
      BY <1>3, <1>7 DEF Single, op
    <3>5. \A x \in Provider!Handles : u.handles[x] = i => o.source = x \/ o.target = x
      BY <1>3, <1>6, <1>8, <2>1 DEF Single
    <3> QED  BY <3>1, <3>2, <3>3, <3>4, <3>5 DEF Continues
  <2>4. Asking(u, i, o, g)
    BY <1>3, <2>3, AskNext DEF Single
  <2>5. "copydata" \in OneRequest /\ o = [q EXCEPT !.stage = "copydata"] /\ q \in ChainOps /\ Orderly(u, {i})
    BY <1>3, <1>6 DEF OneRequest, o, Single
  <2>6. Orderly(Provider!Ask(Put(u, i, q), i, "copydata", g), {})
    BY <2>4, <2>5, AskOf
  <2> QED  BY <1>1, <1>5, <1>9, <2>6
<1>10. CASE ~copyData /\ op.size = 0
  <2>1. WholeOf(q)
    BY <1>6, <1>7, <1>10, NothingOfWhole DEF WholeOf
  <2>2. Born(q)
    BY <1>3, <1>6 DEF Born, Single, Local, op
  <2>3. Ready(hs, i, q)
    BY <1>2, <1>6, <1>7, <1>8, <2>1, <2>2 DEF Ready, op
  <2>4. Orderly(Provider!Finally(Put(u, i, q), i), {})
    BY <1>3, <2>3, FinallySingle
  <2> QED  BY <1>1, <1>5, <1>10, <2>4
<1>11. CASE ~copyData /\ op.size # 0
  <2> DEFINE p == [q EXCEPT !.stage = "chunkRead"]
             n == op.size
             h == op.source
             o == Sending(q, "chunkRead", n)
  <2>0. n \in Nat /\ n >= 1
    BY <1>4, <1>11
  <2>1. /\ p \in ChainOps /\ p.stage = "chunkRead" /\ p.does = q.does /\ p.size = q.size /\ p.parent = q.parent
      /\ p.source = q.source /\ p.target = q.target /\ p.left = q.left /\ p.entries = q.entries
      /\ p.failed = q.failed /\ p.answers = q.answers /\ p.on = q.on /\ p.content = q.content
    BY <1>6 DEF ChainOps, Stages, Many
  <2>2. o = [p EXCEPT !.left = n]
    BY DEF Sending
  <2> HIDE DEF p
  <2>3. /\ o \in ChainOps /\ o.stage = p.stage /\ o.does = p.does /\ o.size = p.size /\ o.parent = p.parent
      /\ o.source = p.source /\ o.target = p.target /\ o.left = n /\ o.entries = p.entries /\ o.failed = p.failed
      /\ o.answers = p.answers /\ o.on = p.on /\ o.content = p.content
    BY <2>0, <2>1, <2>2 DEF ChainOps
  <2> HIDE DEF o
  <2>4. Local(o)
    <3>1. Local(op)
      BY <1>3 DEF Single, op
    <3> QED  BY <1>4, <1>6, <1>7, <2>0, <2>1, <2>3, <3>1 DEF Local, StageFits, Holding, Told, Copied, Born, Many
  <2>5. \A j \in DOMAIN u.wire : u.wire[j].h = h => u.wire[j].does \notin Provider!Closes
    <3>1. /\ Orderly(u, {i}) /\ i \in DOMAIN u.ops /\ u.ops[i].does \notin {"open", "create"} /\ h # 0 /\ u.handles[h] = i
          /\ \A k \in DOMAIN u.wire : u.wire[k].of # i
      BY <1>3, <1>4, <1>7 DEF Single
    <3> HIDE DEF h
    <3> QED  BY <3>1, OwnHandle
  <2>6. AsksAll(u, i, o, h, n)
    <3>1. /\ i \in DOMAIN u.ops /\ u.ops[i].stage # "done" /\ o \in ChainOps /\ o.stage \in Many /\ h \in Numbers
          /\ n \in Nat /\ n >= 1 /\ o.left = n /\ (o.stage = "chunkRead" => o.size = n /\ o.content = <<>>)
      BY <1>4, <1>6, <1>7, <2>0, <2>1, <2>3 DEF Many
    <3>2. /\ o.parent = u.ops[i].parent /\ o.on = u.ops[i].on /\ o.does = u.ops[i].does /\ o.does # "close"
          /\ o.source # 0 => u.handles[o.source] = i
          /\ o.target # 0 => u.handles[o.target] = i /\ o.target # o.source
          /\ h # 0 => u.handles[h] = (IF o.on = 0 THEN i ELSE o.on)
      BY <1>2, <1>3, <1>4, <1>6, <1>7, <2>1, <2>3 DEF Single
    <3>3. /\ \A k \in DOMAIN u.wire : u.wire[k].of # i
          /\ \A j \in DOMAIN u.ops : u.ops[j].parent # i
          /\ \A x \in u.openedFiles : x.request # i
      BY <1>3, <1>7 DEF Single, op
    <3>4. \A x \in Provider!Handles : u.handles[x] = i => o.source = x \/ o.target = x
      BY <1>3, <1>6, <1>8, <2>1, <2>3 DEF Single
    <3> HIDE DEF h, n
    <3> QED  BY <2>4, <2>5, <3>1, <3>2, <3>3, <3>4 DEF AsksAll
  <2>7. "chunkRead" \in Many /\ o = Sending(q, "chunkRead", n) /\ q \in ChainOps /\ Orderly(u, {i})
    BY <1>3, <1>6 DEF Many, o, Single
  <2> HIDE DEF n, h
  <2>8. Orderly(Provider!SendAll(Put(u, i, q), i, "chunkRead", h, n), {})
    BY <2>0, <2>6, <2>7, SendAllOf
  <2> QED  BY <1>1, <1>5, <1>11, <2>8 DEF n, h
<1> QED  BY <1>9, <1>10, <1>11

(* The chain goes to its next finally() when a handle of its own is closed. *)
Then(op, q) ==
  /\ q \in ChainOps /\ q.stage = op.stage /\ q.does = op.does /\ q.size = op.size /\ q.parent = op.parent
  /\ q.source = op.source /\ q.target = op.target /\ q.on = op.on /\ q.answers = op.answers /\ q.content = op.content
  /\ q.entries = op.entries /\ (op.failed => q.failed)

(* Finally after a close.                                                   *)
LEMMA FinallyOfClosed ==
  ASSUME NEW hs, NEW u, NEW r, NEW i, NEW q, AtHand(f, hs, u, r, i), r.does \in {"closeSource", "closeTarget"},
         hs[r.h] = 0, \A h \in Provider!Handles : h # r.h => hs[h] = f.handles[h], Then(f.ops[i], q)
  PROVE  Orderly(Provider!Finally(Put(u, i, q), i), {})
<1> DEFINE op == f.ops[i]
           p == Put(u, i, q)
<1>1. OneAtHand(f, u, r, i)
  BY OneCame DEF OneRequest
<1>2. /\ Orderly(u, {i}) /\ u \in FspStates /\ u.ops = f.ops /\ u.handles = hs /\ u.openedFiles = f.openedFiles
      /\ i \in DOMAIN u.ops /\ i \in Nat /\ i # 0 /\ Parents(f.ops, i, {i}) /\ Parents(f.ops, i, {}) /\ Local(op)
      /\ op.stage # "done" /\ i \in {i} /\ op \in ChainOps /\ op.stage = r.does /\ Matches(r, op, f.openedFiles)
  BY <1>1, Zenon DEF AtHand, OneAtHand
<1>3. /\ \A x \in f.openedFiles : x.request # i
      /\ \A k \in DOMAIN u.wire : u.wire[k].of = i =>
           /\ u.wire[k].does = "chunkWrite" /\ op.failed /\ op.stage = "closeSource"
           /\ op.target # 0 /\ u.wire[k].h = op.target
      /\ \A g \in Provider!Handles : f.handles[g] = i => op.source = g \/ op.target = g \/ (r.does = "closeSource" /\ r.h = g)
  BY <1>1 DEF OneAtHand
<1>4. \A k \in DOMAIN u.wire : u.wire[k].of = i => Matches(u.wire[k], op, f.openedFiles)
  BY Zenon DEF AtHand
<1>5. /\ \A j \in DOMAIN f.ops : f.ops[j].parent = i =>
           /\ op.does \in Directories /\ op.stage \in {"children", "closeSource", "rmdir", "done"}
           /\ op.stage # "children" /\ ~op.failed => f.ops[j].stage = "done" /\ ~f.ops[j].failed
  BY Zenon DEF AtHand
<1>6. op.target # 0 /\ op.stage # "done" => f.handles[op.target] = i /\ op.target # op.source
  BY Zenon DEF AtHand
<1>t. op.target \in Numbers /\ op.parent # i
  BY <1>2, OpOf
<1> HIDE DEF op
<1>7. u.ops[i] = op /\ op.source = 0 /\ op.on = 0
  BY <1>2 DEF op, Local, Holding, StageFits, Born, Directories, Provider!OfFiles
<1>8. /\ q \in ChainOps /\ q.stage = op.stage /\ q.does = op.does /\ q.size = op.size /\ q.parent = op.parent
      /\ q.source = 0 /\ q.target = op.target /\ q.on = op.on /\ q.answers = op.answers /\ q.content = op.content
      /\ q.entries = op.entries /\ (op.failed => q.failed)
  BY <1>7 DEF Then, op
<1>9. op.target # 0 /\ op.stage # "closeTarget" => hs[op.target] = i
  BY <1>2, <1>6, <1>8, <1>t DEF Matches, Numbers
<1>10. Changeable(u, {i}, i, q)
  <2>1. \A k \in DOMAIN u.wire : u.wire[k].of = i => Matches(u.wire[k], q, u.openedFiles)
    <3>1. ASSUME NEW k \in DOMAIN u.wire, u.wire[k].of = i PROVE Matches(u.wire[k], q, u.openedFiles)
      <4> DEFINE x == u.wire[k]
      <4>1. x.does = "chunkWrite" /\ op.failed /\ op.stage = "closeSource" /\ op.target # 0 /\ x.h = op.target
        BY <1>3, <3>1
      <4> HIDE DEF x
      <4>2. Matches(x, q, u.openedFiles)
        BY <1>8, <4>1 DEF Matches
      <4> QED  BY <4>2 DEF x
    <3> QED  BY <3>1
  <2>2. /\ q.parent = u.ops[i].parent /\ q.on = u.ops[i].on /\ q.does = u.ops[i].does /\ u.ops[i].stage # "done" /\ q.source = 0
        /\ q.target # 0 /\ q.stage \notin {"done", "closeTarget"} => u.handles[q.target] = i /\ q.target # q.source
    BY <1>2, <1>7, <1>8, <1>9
  <2>3. (\E j \in DOMAIN u.ops : u.ops[j].parent = i) =>
           q.does \in Directories /\ q.stage \in {"children", "closeSource", "rmdir", "done"}
    BY <1>2, <1>5, <1>8
  <2>4. q.parent # 0 =>
          /\ u.ops[q.parent].stage = "children" => q.stage # "done"
          /\ u.ops[q.parent].stage # "children" /\ ~u.ops[q.parent].failed => q.stage = "done" /\ ~q.failed
    BY <1>2, <1>8 DEF Parents, op
  <2>5. q.stage # "done"
    BY <1>2, <1>8
  <2> QED  BY <2>1, <2>2, <2>3, <2>4, <2>5 DEF Changeable
<1>11. Orderly(p, {i})
  BY <1>2, <1>8, <1>10, Change DEF Put
<1>12. /\ p \in FspStates /\ p.wire = u.wire /\ p.handles = u.handles /\ p.openedFiles = u.openedFiles
       /\ DOMAIN p.ops = DOMAIN u.ops /\ p.ops[i] = q /\ \A j \in DOMAIN u.ops : j # i => p.ops[j] = u.ops[j]
  <2>2. IsPut(p, u, i, q)
    BY <1>2, <1>8, PutFields
  <2> QED  BY <2>2 DEF IsPut
<1> HIDE DEF p
<1>13. \A j \in DOMAIN p.ops : p.ops[j].parent = i /\ ~q.failed => p.ops[j].stage = "done" /\ ~p.ops[j].failed
  <2>1. ASSUME NEW j \in DOMAIN u.ops, p.ops[j].parent = i, ~q.failed PROVE p.ops[j].stage = "done" /\ ~p.ops[j].failed
    <3>1. j # i
      BY <1>2, <1>t, <1>8, <1>12, <2>1
    <3>2. op.stage # "children"
      BY <1>2 DEF OneRequest
    <3> QED  BY <1>2, <1>5, <1>8, <1>12, <2>1, <3>1, <3>2
  <2> QED  BY <1>12, <2>1
<1>14. Free(p, i)
  <2>1. Born(q) /\ q.answers = (IF q.parent = 0 /\ q.does = "list" THEN 1 ELSE 0)
    BY <1>2, <1>8 DEF Local, Born, Told, StageFits
  <2>2. /\ q.does # "copyFile" => q.content = <<>> /\ q.target = 0
        /\ q.does = "copyFile" /\ ~q.failed => WholeOf(q)
    BY <1>2, <1>8 DEF Local, Copied, Holding, WholeOf
  <2>3. \A k \in DOMAIN p.wire : p.wire[k].of = i =>
          /\ p.wire[k].does = "chunkWrite" /\ q.failed /\ q.target # 0 /\ p.wire[k].h = q.target /\ q.stage # "closeTarget"
    BY <1>3, <1>8, <1>12
  <2>4. \A h \in Provider!Handles : p.handles[h] = i => q.target = h /\ q.stage # "closeTarget"
    <3>1. ASSUME NEW h \in Provider!Handles, hs[h] = i PROVE q.target = h /\ q.stage # "closeTarget"
      <4>1. h # r.h /\ f.handles[h] = i /\ h # 0
        BY <1>2, <3>1, NoHandle
      <4>2. op.target = h
        BY <1>3, <1>7, <4>1
      <4>3. op.stage # "closeTarget"
        BY <1>2, <4>1, <4>2 DEF Matches
      <4> QED  BY <1>8, <4>2, <4>3
    <3> QED  BY <1>2, <1>12, <3>1
  <2>5. q.stage # "done" /\ i \in DOMAIN p.ops /\ (q.target # 0 /\ q.stage # "closeTarget" => p.handles[q.target] = i)
    BY <1>2, <1>8, <1>9, <1>12
  <2> QED  BY <1>2, <1>3, <1>8, <1>12, <1>13, <2>1, <2>2, <2>3, <2>4, <2>5 DEF Free
<1>15. Orderly(Provider!Finally(p, i), {})
  BY <1>11, <1>14, FinallyKeeps
<1> QED  BY <1>15 DEF p

(* The chain goes to its finally()s after its only request has a reply. *)
Thereby(op, q) ==
  /\ q \in ChainOps /\ q.stage = op.stage /\ q.does = op.does /\ q.size = op.size /\ q.parent = op.parent
  /\ q.source = op.source /\ q.target = op.target /\ q.on = op.on /\ q.entries = op.entries
  /\ q.answers = (IF op.does = "list" THEN 1 ELSE op.answers)
  /\ op.does # "copyFile" => q.content = op.content
  /\ op.does = "copyFile" => q.failed \/ WholeOf(q)

(* Finally after a request that came alone and told the operation           *)
(* something.                                                               *)
LEMMA FinallyThereby ==
  ASSUME NEW u, NEW r, NEW i, NEW q, Single(u, f.handles, r, i), r.does \notin {"closeSource", "closeTarget"},
         Thereby(f.ops[i], q)
  PROVE  Orderly(Provider!Finally(Put(u, i, q), i), {})
<1> DEFINE op == f.ops[i]
<1>1. /\ op \in ChainOps /\ Local(op) /\ op.stage = r.does /\ op.stage # "done" /\ i # 0
      /\ op.source # 0 => f.handles[op.source] = i
      /\ op.target # 0 => f.handles[op.target] = i /\ op.target # op.source
      /\ \A g \in Provider!Handles : f.handles[g] = i => op.source = g \/ op.target = g
  BY DEF Single
<1> HIDE DEF op
<1>2. /\ q \in ChainOps /\ q.stage = op.stage /\ q.does = op.does /\ q.size = op.size /\ q.parent = op.parent
      /\ q.source = op.source /\ q.target = op.target /\ q.on = op.on /\ q.entries = op.entries
      /\ q.answers = (IF op.does = "list" THEN 1 ELSE op.answers)
      /\ op.does # "copyFile" => q.content = op.content
      /\ op.does = "copyFile" => q.failed \/ WholeOf(q)
  BY DEF Thereby, op
<1>3. Born(q)
  BY <1>1, <1>2 DEF Born, Local
<1>4. q.answers = IF q.parent = 0 /\ q.does = "list" THEN 1 ELSE 0
  BY <1>1, <1>2 DEF Born, Local, Told
<1>5. q.does # "copyFile" => q.content = <<>> /\ q.target = 0
  BY <1>1, <1>2 DEF Copied, Local, Holding
<1>6. q.source # 0 => q.does \in Directories \cup {"copyFile", "list", "truncate"}
  BY <1>1, <1>2 DEF Local, Holding, StageFits, Directories
<1>7. Ready(f.handles, i, q)
  BY <1>1, <1>2, <1>3, <1>4, <1>5, <1>6 DEF Ready, op
<1> QED  BY <1>7, FinallySingle

(* Finally after a request that came alone, of an operation with nothing    *)
(* to be told.                                                              *)
LEMMA FinallySame ==
  ASSUME NEW u, NEW r, NEW i, Single(u, f.handles, r, i), r.does \notin {"closeSource", "closeTarget"},
         f.ops[i].does \notin {"list", "copyFile"}
  PROVE  Orderly(Provider!Finally(u, i), {})
<1>1. /\ u \in FspStates /\ i \in DOMAIN u.ops /\ u.ops[i] = f.ops[i] /\ f.ops[i] \in ChainOps
  BY DEF Single
<1>2. Thereby(f.ops[i], f.ops[i])
  BY <1>1 DEF Thereby
<1>3. Put(u, i, f.ops[i]) = u
  BY <1>1, PutSame
<1> QED  BY <1>2, <1>3, FinallyThereby

(* The server has copied the file itself. *)
Filled(o, bytes) == [o EXCEPT !.content = bytes]

(* The server copies all of a file.                                         *)
LEMMA CopiedWhole ==
  ASSUME Orderly(f, {}), f.wire # <<>>, Provider!R.does = "copydata"
  PROVE  /\ Provider!Served = Put(Provider!Taken, Provider!R.of,
                                  Filled(f.ops[Provider!R.of], SubSeq(Provider!Whole, 1, f.ops[Provider!R.of].size)))
         /\ AtHand(f, f.handles, Provider!Taken, Provider!R, Provider!R.of) /\ f.handles[Provider!R.h] = Provider!R.of
<1> DEFINE r == Provider!R
           i == Provider!R.of
           v == Provider!Taken
           b == SubSeq(Provider!Whole, 1, f.ops[i].size)
<1>1. AtHand(f, f.handles, v, r, i)
  BY Passed
<1>2. /\ v \in FspStates /\ v.ops = f.ops /\ i \in DOMAIN v.ops /\ Matches(r, f.ops[i], f.openedFiles) /\ Local(f.ops[i])
      /\ f.ops[i].target # 0 /\ f.ops[i].stage # "done" => f.handles[f.ops[i].target] = i
  BY <1>1, Zenon DEF AtHand
<1>3. f.handles[r.h] = i
  BY <1>2 DEF Matches
<1>4. Provider!Served = [v EXCEPT !.ops[f.handles[r.h]].content = b]
  BY DEF Provider!Served, Provider!Opens, Provider!Closes, Provider!Op
<1>5. Provider!Served = [v EXCEPT !.ops[i].content = b]
  BY <1>3, <1>4
<1> HIDE DEF v, r, i, b
<1>6. [v EXCEPT !.ops[i].content = b] = Put(v, i, Filled(f.ops[i], b))
  BY <1>2 DEF Put, Filled
<1> QED  BY <1>1, <1>3, <1>5, <1>6 DEF v, r, i, b

(* OnLast keeps the order: the finally()s follow.                           *)
LEMMA OnLastKeeps ==
  ASSUME Orderly(f, {}), Provider!OnLast
  PROVE  Orderly(f', {})
<1> DEFINE i == Provider!R.of
           r == Provider!R
           u == Provider!Served
           v == Provider!Taken
<1>1. /\ f.wire # <<>> /\ r.does \in {"copydata", "symlink", "closeSource", "closeTarget", "removeFile", "stat", "move"}
      /\ f' = Provider!Finally(u, i)
  BY DEF Provider!OnLast, Provider!Replied
<1>2. CASE r.does \in {"symlink", "removeFile", "stat", "move"}
  <2>1. AtHand(f, f.handles, u, r, i)
    BY <1>1, <1>2, Passed DEF Provider!Opens, Provider!Closes
  <2>2. Single(u, f.handles, r, i)
    BY <1>2, <2>1, SingleCame DEF OneRequest
  <2> HIDE DEF u, i, r
  <2>3. f.ops[i].does \notin {"list", "copyFile"}
    BY <1>2, <2>2 DEF Single, Local, StageFits
  <2>4. r.does \notin {"closeSource", "closeTarget"}
    BY <1>2
  <2> QED  BY <1>1, <2>2, <2>3, <2>4, FinallySame
<1>3. CASE r.does \in {"closeSource", "closeTarget"}
  <2> DEFINE hs == [f.handles EXCEPT ![r.h] = 0]
  <2>1. /\ AtHand(f, hs, u, r, i) /\ hs[r.h] = 0 /\ \A h \in Provider!Handles : h # r.h => hs[h] = f.handles[h]
    BY <1>1, <1>3, Closed, Zenon DEF Provider!Closes
  <2> HIDE DEF u, i, r, hs
  <2>2. u \in FspStates /\ i \in DOMAIN u.ops /\ u.ops[i] = f.ops[i] /\ f.ops[i] \in ChainOps
    BY <2>1, Zenon DEF AtHand
  <2>3. Then(f.ops[i], f.ops[i])
    BY <2>2 DEF Then
  <2>4. Put(u, i, f.ops[i]) = u
    BY <2>2, PutSame
  <2> QED  BY <1>1, <1>3, <2>1, <2>3, <2>4, FinallyOfClosed
<1>4. CASE r.does = "copydata"
  <2> DEFINE op == f.ops[i]
             b == SubSeq(Provider!Whole, 1, f.ops[i].size)
             q == Filled(op, b)
  <2>1. u = Put(v, i, q) /\ AtHand(f, f.handles, v, r, i)
    BY <1>1, <1>4, CopiedWhole
  <2>2. Single(v, f.handles, r, i)
    BY <1>4, <2>1, SingleCame DEF OneRequest
  <2> HIDE DEF u, v, i, r
  <2>3. op \in ChainOps /\ op.does = "copyFile"
    BY <1>4, <2>2 DEF Single, Local, StageFits
  <2>4. b \in Seq(Nat)
    <3>1. Chunks \in Nat /\ op.size \in 0..Chunks
      BY <2>3, FilesAssumption DEF Provider!ProviderAssumption, ChainOps
    <3> HIDE DEF op
    <3>2. Provider!Whole \in Seq(Nat) /\ Len(Provider!Whole) = Chunks
      BY <3>1 DEF Provider!Whole
    <3>3. SubSeq(Provider!Whole, 1, op.size) \in Seq(Nat)
      BY <3>1, <3>2
    <3> QED  BY <3>3 DEF op
  <2> HIDE DEF op
  <2>5. Thereby(op, q)
    <3>1. b = SubSeq(Provider!Whole, 1, op.size)
      BY DEF op
    <3> HIDE DEF b
    <3>2. LET x == [op EXCEPT !.content = b] IN
      /\ x \in ChainOps /\ x.stage = op.stage /\ x.does = op.does /\ x.size = op.size /\ x.parent = op.parent
      /\ x.source = op.source /\ x.target = op.target /\ x.left = op.left /\ x.entries = op.entries
      /\ x.failed = op.failed /\ x.answers = op.answers /\ x.on = op.on /\ x.content = b
      BY <2>3, <2>4, FieldsOf
    <3>3. q = [op EXCEPT !.content = b]
      BY DEF Filled
    <3> HIDE DEF q
    <3>4. /\ q \in ChainOps /\ q.stage = op.stage /\ q.does = op.does /\ q.size = op.size /\ q.parent = op.parent
      /\ q.source = op.source /\ q.target = op.target /\ q.entries = op.entries
      /\ q.answers = op.answers /\ q.on = op.on /\ q.content = b
      BY <3>2, <3>3
    <3>5. WholeOf(q)
      BY <3>1, <3>4 DEF WholeOf
    <3> QED  BY <2>3, <3>4, <3>5 DEF Thereby
  <2>6. r.does \notin {"closeSource", "closeTarget"}
    BY <1>4
  <2>7. Orderly(Provider!Finally(Put(v, i, q), i), {})
    <3> HIDE DEF q
    <3> QED  BY <2>2, <2>5, <2>6, FinallyThereby DEF op
  <2> QED  BY <1>1, <2>1, <2>7
<1> QED  BY <1>1, <1>2, <1>3, <1>4

(* A file is opened. *)
LEMMA OnOpenKeeps ==
  ASSUME Orderly(f, {}), Provider!OnOpen
  PROVE  Orderly(f', {})
<1> DEFINE i == Provider!R.of
           r == Provider!R
           u == Provider!Served
           g == Provider!Got
           hs == [f.handles EXCEPT ![g] = i]
           op == f.ops[i]
           q == [op EXCEPT !.source = g]
           new == [request |-> i, handle |-> g]
           t == [u EXCEPT !.openedFiles = u.openedFiles \cup {new}]
<1>1. /\ f.wire # <<>> /\ r.does = "open" /\ r.does \in Provider!Opens
      /\ \E x \in Provider!Handles : f.handles[x] = 0
      /\ f' = IF op.does = "truncate" THEN Provider!Finally([u EXCEPT !.ops[i].source = g], i)
              ELSE Provider!Settle([u EXCEPT !.openedFiles = @ \cup {[request |-> i, handle |-> g]}], i, TRUE)
  BY DEF Provider!OnOpen, Provider!Replied, Provider!Opens, Provider!Op
<1>2. /\ AtHand(f, hs, u, r, i) /\ g \in Provider!Handles /\ f.handles[g] = 0 /\ hs[g] = i
      /\ \A x \in Provider!Handles : x # g => hs[x] = f.handles[x]
  BY <1>1, Opened
<1>3. Single(u, hs, r, i)
  BY <1>1, <1>2, SingleCame DEF OneRequest
<1> HIDE DEF op, u, i, r, g, hs
<1>4. /\ u \in FspStates /\ u.ops[i] = op /\ op \in ChainOps /\ g \in Numbers /\ i \in DOMAIN u.ops /\ g # 0 /\ i # 0
      /\ Local(op) /\ op.stage = "open" /\ ~op.failed /\ u.ops = f.ops /\ u.handles = hs /\ u.openedFiles = f.openedFiles
      /\ Orderly(u, {i}) /\ \A x \in f.openedFiles : x.request # i
  BY <1>1, <1>2, <1>3, NoHandle DEF Single, op, Numbers
<1>5. /\ op.does \in {"open", "create", "truncate"} /\ op.source = 0 /\ op.target = 0 /\ op.content = <<>> /\ op.answers = 0
      /\ Born(op) /\ op.parent = 0 /\ op.on = 0
  BY <1>4 DEF Local, StageFits, Holding, Copied, Told, Born, Provider!OfFiles, Directories
<1>6. \A x \in Provider!Handles : hs[x] = i => x = g
  <2>1. \A x \in Provider!Handles : f.handles[x] = i => op.source = x \/ op.target = x
    BY <1>3 DEF Single, op
  <2> QED  BY <1>2, <1>5, <2>1, NoHandle
<1>7. \A j \in DOMAIN u.ops : u.ops[j].parent # i
  BY <1>3, <1>4 DEF Single, op
<1>8. \A k \in DOMAIN u.wire : u.wire[k].of # i
  BY <1>3 DEF Single
<1>9. CASE op.does = "truncate"
  <2>1. [u EXCEPT !.ops[i].source = g] = Put(u, i, q)
    BY <1>4 DEF Put
  <2>2. /\ q \in ChainOps /\ q.stage = op.stage /\ q.does = op.does /\ q.size = op.size /\ q.parent = op.parent
        /\ q.source = g /\ q.target = op.target /\ q.left = op.left /\ q.entries = op.entries /\ q.failed = op.failed
        /\ q.answers = op.answers /\ q.on = op.on /\ q.content = op.content
    BY <1>4 DEF ChainOps
  <2> HIDE DEF q
  <2>3. Born(q)
    BY <1>5, <2>2 DEF Born
  <2>4. Ready(hs, i, q)
    BY <1>2, <1>4, <1>5, <1>6, <1>9, <2>2, <2>3 DEF Ready, op
  <2>5. Orderly(Provider!Finally(Put(u, i, q), i), {})
    BY <1>3, <2>4, FinallySingle
  <2> QED  BY <1>1, <1>9, <2>1, <2>5
<1>10. CASE op.does # "truncate"
  <2>1. Orderly(t, {i})
    <3>1. /\ Orderly(u, {i}) /\ i \in DOMAIN u.ops /\ u.ops[i].does \in {"open", "create"} /\ u.handles[g] = i
          /\ \A o \in u.openedFiles : o.request # i /\ g \in Provider!Handles
      BY <1>2, <1>4, <1>5, <1>10
    <3>2. Orderly([u EXCEPT !.openedFiles = u.openedFiles \cup {[request |-> i, handle |-> g]}], {i})
      BY <1>2, <3>1, OpenNew
    <3> QED  BY <3>2
  <2>2. /\ t.ops = u.ops /\ t.wire = u.wire /\ t.handles = u.handles /\ t.openedFiles = u.openedFiles \cup {new}
    BY <1>4 DEF FspStates
  <2>3. new.request = i /\ new = [request |-> i, handle |-> g]
    OBVIOUS
  <2> HIDE DEF t, new
  <2>4. Free(t, i)
    <3>1. \A x \in t.openedFiles : x.request = i => t.ops[i].does \in {"open", "create"}
      BY <1>4, <1>5, <1>10, <2>2
    <3>2. \A h \in Provider!Handles : t.handles[h] = i => [request |-> i, handle |-> h] \in t.openedFiles
      BY <1>4, <1>6, <2>2, <2>3
    <3>3. /\ i \in DOMAIN t.ops /\ t.ops[i] = op /\ \A k \in DOMAIN t.wire : t.wire[k].of # i
          /\ \A j \in DOMAIN t.ops : t.ops[j].parent # i
      BY <1>4, <1>7, <1>8, <2>2
    <3> QED  BY <1>4, <1>5, <1>10, <3>1, <3>2, <3>3 DEF Free
  <2>5. Over(t, i, TRUE)
    <3>1. \A h \in Provider!Handles : t.handles[h] = i => [request |-> i, handle |-> h] \in t.openedFiles
      BY <1>4, <1>6, <2>2, <2>3
    <3>2. /\ t.ops[i] = op /\ \A k \in DOMAIN t.wire : t.wire[k].of # i
          /\ \A j \in DOMAIN t.ops : t.ops[j].parent # i
      BY <1>4, <1>7, <1>8, <2>2
    <3> QED  BY <1>5, <2>4, <3>1, <3>2 DEF Over
  <2>6. Orderly(Provider!Settle(t, i, TRUE), {})
    BY <2>1, <2>5, SettleKeeps
  <2> QED  BY <1>1, <1>10, <2>6 DEF t, new
<1> QED  BY <1>9, <1>10

(* A file is closed. *)
LEMMA OnCloseKeeps ==
  ASSUME Orderly(f, {}), Provider!OnClose
  PROVE  Orderly(f', {})
<1> DEFINE i == Provider!R.of
           r == Provider!R
           u == Provider!Served
           hs == [f.handles EXCEPT ![r.h] = 0]
           op == f.ops[i]
           kept == {o \in u.openedFiles : o.request # op.on}
           t == [u EXCEPT !.openedFiles = kept]
<1>1. /\ f.wire # <<>> /\ r.does = "close" /\ r.does \in Provider!Closes
      /\ f' = Provider!Settle([u EXCEPT !.openedFiles = {o \in @ : o.request # op.on}], i, TRUE)
  BY DEF Provider!OnClose, Provider!Replied, Provider!Closes, Provider!Op
<1>2. /\ AtHand(f, hs, u, r, i) /\ hs[r.h] = 0 /\ r.h \in Provider!Handles
      /\ \A x \in Provider!Handles : x # r.h => hs[x] = f.handles[x]
  BY <1>1, Closed
<1>3. Single(u, hs, r, i)
  BY <1>1, <1>2, SingleCame DEF OneRequest
<1> HIDE DEF op, u, i, r, hs
<1>4. /\ u \in FspStates /\ u.ops[i] = op /\ op \in ChainOps /\ i \in DOMAIN u.ops /\ i # 0
      /\ Local(op) /\ op.stage = "close" /\ ~op.failed /\ u.ops = f.ops /\ u.handles = hs /\ u.openedFiles = f.openedFiles
      /\ Orderly(u, {i}) /\ Matches(r, op, f.openedFiles)
  BY <1>1, <1>3 DEF Single, op
<1>5. op.does = "close" /\ op.source = 0 /\ op.on # 0
  BY <1>4 DEF Local, StageFits, Holding, Born, Provider!OfFiles
<1>6. [request |-> op.on, handle |-> r.h] \in u.openedFiles
  BY <1>1, <1>4 DEF Matches
<1>7. Free(u, i) /\ \A g \in Provider!Handles : u.handles[g] # i
  BY <1>2, <1>3, <1>4, <1>5, FreeSingle DEF op
<1>8. \A k \in DOMAIN u.wire : u.wire[k].of # i
  BY <1>3 DEF Single
<1>9. \A j \in DOMAIN u.ops : u.ops[j].parent # i
  BY <1>3, <1>4 DEF Single, op
<1>10. Orderly(t, {i})
  <2> DEFINE q == [request |-> op.on, handle |-> r.h]
  <2>1. q \in u.openedFiles /\ q.request = u.ops[i].on /\ u.handles[q.handle] # q.request
    BY <1>2, <1>4, <1>5, <1>6
  <2>2. u.ops[i].does = "close" /\ u.ops[i].on # 0 /\ op = u.ops[i]
    BY <1>4, <1>5
  <2> HIDE DEF q
  <2>3. Orderly([u EXCEPT !.openedFiles = {o \in u.openedFiles : o.request # u.ops[i].on}], {i})
    BY <1>4, <1>8, <2>1, <2>2, CloseOld
  <2> QED  BY <2>2, <2>3
<1>11. /\ t.ops = u.ops /\ t.wire = u.wire /\ t.handles = u.handles /\ t.openedFiles = kept
  BY <1>4 DEF FspStates
<1> HIDE DEF t
<1>12. Free(t, i)
  <2>1. t.openedFiles \subseteq u.openedFiles
    BY <1>11
  <2>2. \A h \in Provider!Handles : t.handles[h] # i
    BY <1>7, <1>11
  <2>3. \A q \in t.openedFiles : q.request = i => t.ops[i].does \in {"open", "create"}
    BY <1>7, <1>11, <2>1 DEF Free
  <2> QED  BY <1>7, <1>8, <1>11, <2>2, <2>3 DEF Free
<1>13. Over(t, i, TRUE)
  <2>1. /\ t.ops[i] = op /\ \A k \in DOMAIN t.wire : t.wire[k].of # i
        /\ \A j \in DOMAIN t.ops : t.ops[j].parent # i
        /\ \A h \in Provider!Handles : t.handles[h] # i
    BY <1>4, <1>7, <1>8, <1>9, <1>11
  <2> QED  BY <1>5, <1>12, <2>1 DEF Over
<1>14. Orderly(Provider!Settle(t, i, TRUE), {})
  BY <1>10, <1>13, SettleKeeps
<1> QED  BY <1>1, <1>14 DEF t

(* The requests about an open file: nothing of it is closed before. *)
LEMMA FileHandle ==
  ASSUME NEW t, NEW i, NEW h, Orderly(t, {i}), i \in DOMAIN t.ops, t.ops[i].on # 0,
         t.ops[i].stage # "done", \A k \in DOMAIN t.wire : t.wire[k].of # i, h # 0, t.handles[h] = t.ops[i].on,
         NEW j \in DOMAIN t.wire, t.wire[j].h = h
  PROVE  t.wire[j].does \notin Provider!Closes
<1> DEFINE r == t.wire[j]
           k == r.of
           g == t.ops[i].on
           o == t.ops[k]
<1>1. SUFFICES ASSUME r.does \in Provider!Closes PROVE FALSE
  OBVIOUS
<1>2. k \in DOMAIN t.ops /\ Matches(r, o, t.openedFiles) /\ k # i /\ k \in Nat /\ i \in Nat /\ i # 0 /\ k # 0
  BY OpOf DEF Orderly, WireFits
<1>3. t.handles[r.h] = OwnerOf(t.ops, r)
  BY DEF Orderly, WireOwned
<1>4. InTurn(t.ops) /\ Local(o)
  BY <1>2 DEF Orderly, AllLocal
<1> HIDE DEF o, k
<1>5. g = IF o.on = 0 THEN k ELSE o.on
  BY <1>3 DEF OwnerOf, o, k
<1>6. o.stage = r.does
  BY <1>1, <1>2 DEF Matches, Provider!Closes
<1>7. t.ops[g].does \in {"open", "create"} /\ g \in DOMAIN t.ops
  BY <1>4 DEF InTurn
<1>8. o.on # 0
  <2>1. SUFFICES ASSUME o.on = 0 PROVE FALSE
    OBVIOUS
  <2>2. o.does \in {"open", "create"}
    BY <1>5, <1>7, <2>1 DEF o
  <2> QED  BY <1>1, <1>4, <1>6, <2>2 DEF Local, StageFits, Provider!Closes, Directories
<1>9. o.does = "close" /\ o.stage # "done"
  BY <1>1, <1>4, <1>6, <1>8 DEF Local, StageFits, Provider!Closes, Directories, Born, Provider!OfFiles
<1>10. t.ops[i].on = t.ops[k].on
  BY <1>5, <1>8 DEF o
<1>11. CASE k < i
  <2>1. k \in 1..(i - 1)
    BY <1>2, <1>11
  <2>2. t.ops[k].stage = "done"
    BY <1>4, <1>10, <2>1 DEF InTurn
  <2> QED  BY <1>9, <2>2 DEF o
<1>12. CASE i < k
  <2>1. i \in 1..(k - 1)
    BY <1>2, <1>12
  <2>2. t.ops[i].stage = "done"
    BY <1>2, <1>4, <1>8, <1>10, <2>1 DEF InTurn, o
  <2> QED  BY <2>2
<1> QED  BY <1>2, <1>11, <1>12

(* A chunk is read, and the next one asked for. *)
LEMMA OnReadKeeps ==
  ASSUME Orderly(f, {}), NEW ends \in BOOLEAN, Provider!OnRead(ends)
  PROVE  Orderly(f', {})
<1> DEFINE i == Provider!R.of
           r == Provider!R
           u == Provider!Served
           h == Provider!R.h
           op == f.ops[i]
           q == [op EXCEPT !.left = op.left - 1]
           req == [does |-> "read", of |-> i, h |-> h, chunk |-> 0]
           t == [u EXCEPT !.ops[i].left = @ - 1]
<1>1. /\ f.wire # <<>> /\ r.does = "read"
      /\ f' = IF ends \/ op.left = 1 THEN Provider!Settle(u, i, TRUE)
              ELSE Provider!Send([u EXCEPT !.ops[i].left = @ - 1], i, "read", r.h, 0)
  BY DEF Provider!OnRead, Provider!Replied, Provider!Op
<1>2. AtHand(f, f.handles, u, r, i)
  BY <1>1, Passed DEF Provider!Opens, Provider!Closes
<1>3. Single(u, f.handles, r, i)
  BY <1>1, <1>2, SingleCame DEF OneRequest
<1>h. h = r.h
  OBVIOUS
<1> HIDE DEF op, u, i, r, h
<1>4. /\ u \in FspStates /\ u.ops[i] = op /\ op \in ChainOps /\ i \in DOMAIN u.ops /\ i \in Nat /\ i # 0
      /\ Local(op) /\ op.stage = "read" /\ ~op.failed /\ u.ops = f.ops /\ u.handles = f.handles
      /\ u.openedFiles = f.openedFiles /\ Orderly(u, {i})
  BY <1>1, <1>3 DEF Single, op
<1>5. op.does = "read" /\ op.source = 0 /\ op.target = 0 /\ op.on # 0 /\ op.left \in Nat /\ op.left >= 1
  BY <1>4 DEF Local, StageFits, Holding, Born, Provider!OfFiles, ChainOps
<1>6. CASE ends \/ op.left = 1
  <2>1. Orderly(Provider!Settle(u, i, TRUE), {})
    BY <1>3, <1>4, <1>5, SettleSingle DEF op
  <2> QED  BY <1>1, <1>6, <2>1
<1>7. CASE ~(ends \/ op.left = 1)
  <2>1. h \in Numbers /\ i \in Nat
    BY <1>2, <1>h, Zenon DEF AtHand, Sent
  <2>2. req \in Sent
    BY <1>4, <2>1 DEF Sent, OneRequest
  <2>3. t = Put(u, i, q)
    BY <1>4, LeftInPlace
  <2>4. /\ q \in ChainOps /\ q.stage = op.stage /\ q.does = op.does /\ q.size = op.size /\ q.parent = op.parent
        /\ q.source = op.source /\ q.target = op.target /\ q.left = op.left - 1 /\ q.entries = op.entries
        /\ q.failed = op.failed /\ q.answers = op.answers /\ q.on = op.on /\ q.content = op.content
    <3> DEFINE m == op.left - 1
    <3>1. m \in Nat
      BY <1>5
    <3> HIDE DEF m
    <3>2. LET o == [op EXCEPT !.left = m] IN
      /\ o \in ChainOps /\ o.stage = op.stage /\ o.does = op.does /\ o.size = op.size /\ o.parent = op.parent
      /\ o.source = op.source /\ o.target = op.target /\ o.left = m /\ o.entries = op.entries
      /\ o.failed = op.failed /\ o.answers = op.answers /\ o.on = op.on /\ o.content = op.content
      BY <1>4, <3>1, FieldsOf
    <3> QED  BY <3>2 DEF m
  <2> HIDE DEF q
  <2>5. IsPut(Put(u, i, q), u, i, q)
    BY <1>4, <2>4, PutFields
  <2>6. Local(q)
    <3>1. op.left - 1 >= 1
      BY <1>5, <1>7
    <3> QED  BY <1>4, <1>5, <2>4, <3>1 DEF Local, StageFits, Holding, Told, Copied, Born
  <2>7. req = Request(q, i, h)
    BY <1>4, <2>4 DEF Request
  <2>8. /\ req.does = "read" /\ req.of = i /\ req.h = h
    OBVIOUS
  <2> HIDE DEF req
  <2>9. Asking(u, i, q, h)
    <3>1. Matches(Request(q, i, h), q, u.openedFiles)
      <4>1. Matches(req, q, u.openedFiles)
        BY <1>4, <2>4, <2>8 DEF Matches
      <4> QED  BY <2>7, <4>1
    <3>2. h # 0 => u.handles[h] = op.on
      BY <1>3, <1>4, <1>5, <1>h DEF Single, op
    <3>3. \A k \in DOMAIN u.wire : u.wire[k].of # i
      BY <1>3 DEF Single
    <3>4. h # 0 => \A j \in DOMAIN u.wire : u.wire[j].h = h => u.wire[j].does \notin Provider!Closes
      <4>1. /\ Orderly(u, {i}) /\ i \in DOMAIN u.ops /\ u.ops[i].on # 0
            /\ u.ops[i].stage # "done" /\ u.ops[i].on = op.on
        BY <1>4, <1>5
      <4> QED  BY <3>2, <3>3, <4>1, FileHandle
    <3>5. /\ \A j \in DOMAIN u.ops : u.ops[j].parent # i
          /\ \A x \in u.openedFiles : x.request # i
      BY <1>3, <1>4 DEF Single, op
    <3>6. \A g \in Provider!Handles : u.handles[g] = i => q.source = g \/ q.target = g
      BY <1>3, <1>4, <2>4 DEF Single, op
    <3>7. /\ i \in DOMAIN u.ops /\ u.ops[i].stage # "done" /\ q.stage \in OneRequest /\ h \in Numbers
          /\ Local(q) /\ q.parent = u.ops[i].parent /\ q.on = u.ops[i].on /\ q.does = u.ops[i].does
          /\ q.source = 0 /\ q.target = 0 /\ q.does # "close" /\ q.on # 0 /\ q.on = op.on
      BY <1>4, <1>5, <2>1, <2>4, <2>6 DEF OneRequest
    <3> QED  BY <3>1, <3>2, <3>3, <3>4, <3>5, <3>6, <3>7 DEF Asking
  <2>10. Orderly(More(Put(u, i, q), <<req>>), {})
    BY <1>4, <2>4, <2>7, <2>9, AskKeeps
  <2>11. Provider!Send(t, i, "read", h, 0) = More(Put(u, i, q), <<req>>)
    <3>1. Put(u, i, q).wire \in Seq(Sent)
      BY <2>5 DEF IsPut, FspStates
    <3>2. Append(Put(u, i, q).wire, req) = Put(u, i, q).wire \o <<req>>
      BY <2>2, <3>1, AppendIsMore
    <3>3. Provider!Send(Put(u, i, q), i, "read", h, 0) =
            [Put(u, i, q) EXCEPT !.wire = Append(Put(u, i, q).wire, [does |-> "read", of |-> i, h |-> h, chunk |-> 0])]
      BY DEF Provider!Send
    <3>4. Provider!Send(Put(u, i, q), i, "read", h, 0) = [Put(u, i, q) EXCEPT !.wire = Append(Put(u, i, q).wire, req)]
      BY <3>3 DEF req
    <3> HIDE DEF t
    <3> QED  BY <2>3, <3>2, <3>4 DEF More
  <2> QED  BY <1>1, <1>7, <1>h, <2>10, <2>11
<1> QED  BY <1>6, <1>7

(* What of an operation is on the way before and after the server takes    *)
(* its next request.                                                       *)
LEMMA OnWireTaken ==
  ASSUME NEW u, NEW r, NEW i, AtHand(f, f.handles, u, r, i), f.wire # <<>>, f.wire \in Seq(Sent)
  PROVE  /\ \A does, x : OnWire(f.wire, i, does, x) <=> ((r.does = does /\ r.chunk = x) \/ OnWire(u.wire, i, does, x))
         /\ \A x : OnWire(u.wire, i, r.does, x) => r.chunk < x
<1> DEFINE v == u.wire
<1>1. r = f.wire[1] /\ i = r.of /\ v = Tail(f.wire)
  BY Zenon DEF AtHand
<1>2. /\ 1 \in DOMAIN f.wire
      /\ \A k \in DOMAIN v : k \in Nat /\ k + 1 \in DOMAIN f.wire /\ v[k] = f.wire[k + 1]
      /\ \A k \in DOMAIN f.wire : k \in Nat /\ (k # 1 => k - 1 \in DOMAIN v /\ v[k - 1] = f.wire[k])
  BY <1>1, HeadAndTail
<1>3. \A k \in DOMAIN v : v[k].of = i => Precedes(r, v[k])
  BY Zenon DEF AtHand
<1> HIDE DEF v
<1>4. ASSUME NEW does, NEW x, OnWire(f.wire, i, does, x) PROVE (r.does = does /\ r.chunk = x) \/ OnWire(v, i, does, x)
  <2>1. PICK k \in DOMAIN f.wire : f.wire[k].of = i /\ f.wire[k].does = does /\ f.wire[k].chunk = x
    BY <1>4 DEF OnWire
  <2>2. CASE k = 1
    BY <1>1, <2>1, <2>2
  <2>3. CASE k # 1
    <3>1. k - 1 \in DOMAIN v /\ v[k - 1] = f.wire[k]
      BY <1>2, <2>1, <2>3
    <3> QED  BY <2>1, <3>1 DEF OnWire
  <2> QED  BY <2>2, <2>3
<1>5. ASSUME NEW does, NEW x, OnWire(v, i, does, x) PROVE OnWire(f.wire, i, does, x)
  BY <1>2, <1>5 DEF OnWire
<1>6. OnWire(f.wire, i, r.does, r.chunk)
  BY <1>1, <1>2 DEF OnWire
<1>7. ASSUME NEW x, OnWire(v, i, r.does, x) PROVE r.chunk < x
  BY <1>1, <1>3, <1>7 DEF OnWire, Precedes
<1> QED  BY <1>4, <1>5, <1>6, <1>7 DEF v

(* The copy whose chunk it is. *)
ChunkOf(u, r, i) ==
  /\ Orderly(u, {i}) /\ u \in FspStates /\ u.ops = f.ops /\ u.handles = f.handles /\ u.openedFiles = f.openedFiles
  /\ i \in DOMAIN f.ops /\ i \in Nat /\ i # 0 /\ f.ops[i] \in ChainOps /\ Local(f.ops[i]) /\ r \in Sent /\ i = r.of
  /\ f.ops[i].does = "copyFile" /\ f.ops[i].on = 0 /\ f.ops[i].target # 0 /\ f.ops[i].target \in Numbers
  /\ f.ops[i].stage \in {"chunkRead", "closeSource", "closeTarget"}
  /\ r.does = "chunkRead" => f.ops[i].stage # "closeTarget"
  /\ r.does = "chunkWrite" => r.h = f.ops[i].target
  /\ f.ops[i].failed <=> f.ops[i].stage # "chunkRead"
  /\ f.ops[i].source # 0 <=> f.ops[i].stage = "chunkRead"
  /\ f.ops[i].source # 0 => f.handles[f.ops[i].source] = i
  /\ f.handles[f.ops[i].target] = i /\ f.ops[i].target # f.ops[i].source
  /\ \A j \in DOMAIN f.ops : f.ops[j].parent # i
  /\ \A x \in f.openedFiles : x.request # i
  /\ \A k \in DOMAIN u.wire : u.wire[k].of = i =>
       Matches(u.wire[k], f.ops[i], f.openedFiles) /\ Precedes(r, u.wire[k])
  /\ \A g \in Provider!Handles : f.handles[g] = i =>
       \/ f.ops[i].source = g \/ f.ops[i].target = g
       \/ \E k \in DOMAIN u.wire : u.wire[k].of = i /\ u.wire[k].does = "closeSource" /\ u.wire[k].h = g

(* A request of a copy's chunks: the closes of the copy may be on the way   *)
(* with it.                                                                 *)
LEMMA ChunkCame ==
  ASSUME NEW u, NEW r, NEW i, AtHand(f, f.handles, u, r, i), r.does \in {"chunkRead", "chunkWrite"}
  PROVE  ChunkOf(u, r, i)
<1> DEFINE op == f.ops[i]
<1>1. /\ Orderly(u, {i}) /\ u \in FspStates /\ u.ops = f.ops /\ u.handles = f.handles /\ u.openedFiles = f.openedFiles
      /\ i \in DOMAIN f.ops /\ i \in Nat /\ i # 0 /\ op \in ChainOps /\ Local(op) /\ r \in Sent /\ i = r.of
      /\ Matches(r, op, f.openedFiles)
  BY Zenon DEF AtHand
<1>2. /\ op.source # 0 => f.handles[op.source] = i
      /\ op.target # 0 /\ op.stage # "done" => f.handles[op.target] = i /\ op.target # op.source
  BY Zenon DEF AtHand
<1>3. \A x \in f.openedFiles : x.request = i => op.stage = "done" /\ op.does \in {"open", "create"}
  BY Zenon DEF AtHand
<1>4. \A g \in Provider!Handles : f.handles[g] = i =>
         \/ op.source = g
         \/ op.target = g /\ op.stage # "done"
         \/ r.does = "closeSource" /\ r.h = g
         \/ \E k \in DOMAIN u.wire : u.wire[k].of = i /\ u.wire[k].does = "closeSource" /\ u.wire[k].h = g
         \/ [request |-> i, handle |-> g] \in f.openedFiles
  BY Zenon DEF AtHand
<1>5. \A j \in DOMAIN f.ops : f.ops[j].parent = i => op.does \in Directories
  BY Zenon DEF AtHand
<1>6. \A k \in DOMAIN u.wire : u.wire[k].of = i => Matches(u.wire[k], op, f.openedFiles) /\ Precedes(r, u.wire[k])
  BY Zenon DEF AtHand
<1> HIDE DEF op
<1>7. /\ op.stage \in {"chunkRead", "closeSource", "closeTarget"} /\ op.target # 0
      /\ r.does = "chunkRead" => op.stage # "closeTarget"
      /\ r.does = "chunkWrite" => r.h = op.target
      /\ ~op.failed => op.stage = "chunkRead"
  BY <1>1 DEF Matches
<1>8. op.does = "copyFile" /\ op.on = 0
  BY <1>1, <1>7 DEF Local, Holding, Born, Provider!OfFiles
<1>9. /\ op.failed <=> op.stage # "chunkRead"
      /\ op.source # 0 <=> op.stage = "chunkRead"
  BY <1>1, <1>7 DEF Local, Holding
<1>10. op.target \in Numbers
  BY <1>1 DEF ChainOps
<1>11. \A x \in f.openedFiles : x.request # i
  BY <1>3, <1>8
<1>12. \A j \in DOMAIN f.ops : f.ops[j].parent # i
  BY <1>5, <1>8 DEF Directories
<1>13. \A g \in Provider!Handles : f.handles[g] = i =>
         \/ op.source = g \/ op.target = g
         \/ \E k \in DOMAIN u.wire : u.wire[k].of = i /\ u.wire[k].does = "closeSource" /\ u.wire[k].h = g
  <2>1. ASSUME NEW g \in Provider!Handles PROVE [request |-> i, handle |-> g] \notin f.openedFiles
    <3>1. [request |-> i, handle |-> g].request = i
      OBVIOUS
    <3> QED  BY <1>11, <3>1
  <2>2. r.does # "closeSource"
    OBVIOUS
  <2> QED  BY <1>4, <2>1, <2>2
<1>14. f.handles[op.target] = i /\ op.target # op.source
  BY <1>2, <1>7
<1> QED  BY <1>1, <1>2, <1>6, <1>7, <1>8, <1>9, <1>10, <1>11, <1>12, <1>13, <1>14 DEF ChunkOf, op

(* No close of the copy's target is before a chunk of it. *)
LEMMA TargetOpen ==
  ASSUME NEW u, NEW r, NEW i, ChunkOf(u, r, i), r.does = "chunkRead", NEW j \in DOMAIN u.wire, u.wire[j].h = f.ops[i].target
  PROVE  u.wire[j].does \notin Provider!Closes
<1> DEFINE op == f.ops[i]
           x == u.wire[j]
<1>1. /\ Orderly(u, {i}) /\ u.ops = f.ops /\ u.handles = f.handles /\ i \in DOMAIN u.ops /\ op.does = "copyFile"
      /\ op.target # 0 /\ f.handles[op.target] = i /\ op.stage # "closeTarget" /\ i # 0
  BY DEF ChunkOf
<1>2. WireOwned(u.ops, u.wire, u.handles) /\ WireFits(u.ops, u.wire, u.openedFiles) /\ InTurn(u.ops)
  BY <1>1 DEF Orderly
<1>3. i = OwnerOf(u.ops, x) /\ x.of \in DOMAIN u.ops
  BY <1>1, <1>2 DEF WireOwned, WireFits
<1>4. u.ops[x.of].on # i
  BY <1>1, <1>2, <1>3 DEF InTurn
<1>5. x.of = i
  BY <1>3, <1>4, Zenon DEF OwnerOf
<1>6. Matches(x, op, f.openedFiles)
  BY <1>5 DEF ChunkOf
<1>7. Local(op)
  BY DEF ChunkOf
<1> HIDE DEF x, op
<1>8. x.does \notin Provider!Closes
  BY <1>1, <1>6, <1>7 DEF Matches, Provider!Closes, Local, StageFits, op, x
<1> QED  BY <1>8 DEF x

(* A chunk that was read is on its way to be written. *)
Written(r, i, h) == [does |-> "chunkWrite", of |-> i, h |-> h, chunk |-> r.chunk]

(* A chunk that was read is written.                                        *)
LEMMA WriteSent ==
  ASSUME NEW u, NEW r, NEW i, ChunkOf(u, r, i), r.does = "chunkRead"
  PROVE  Orderly(More(u, <<Written(r, i, f.ops[i].target)>>), {i})
<1> DEFINE op == f.ops[i]
           x == Written(r, i, op.target)
           n == <<x>>
<1>1. /\ Orderly(u, {i}) /\ u \in FspStates /\ u.ops = f.ops /\ u.handles = f.handles /\ u.openedFiles = f.openedFiles
      /\ i \in DOMAIN u.ops /\ i \in Nat /\ op \in ChainOps /\ r \in Sent /\ op.on = 0 /\ op.target # 0
      /\ op.target \in Numbers /\ op.stage \in {"chunkRead", "closeSource"} /\ f.handles[op.target] = i
      /\ op.failed <=> op.stage # "chunkRead"
  BY DEF ChunkOf
<1>2. x \in Sent
  BY <1>1 DEF Sent, Written
<1>3. x.does = "chunkWrite" /\ x.of = i /\ x.h = op.target /\ x.chunk = r.chunk
  BY DEF Written
<1>4. n \in Seq(Sent) /\ DOMAIN n = {1} /\ n[1] = x
  BY <1>2
<1>5. ASSUME NEW k \in DOMAIN u.wire, u.wire[k].of = i
      PROVE  Matches(u.wire[k], op, f.openedFiles) /\ Precedes(r, u.wire[k]) /\ u.wire[k] \in Sent
  <2>1. Matches(u.wire[k], op, f.openedFiles) /\ Precedes(r, u.wire[k])
    BY <1>5 DEF ChunkOf
  <2> QED  BY <1>1, <2>1 DEF FspStates
<1>6. \A j \in DOMAIN u.wire : u.wire[j].h = op.target => u.wire[j].does \notin Provider!Closes
  BY TargetOpen
<1>7. i = r.of
  BY DEF ChunkOf
<1> HIDE DEF x, op, n
<1>8. Matches(x, op, f.openedFiles)
  BY <1>1, <1>3 DEF Matches
<1>9. ASSUME NEW j \in DOMAIN u.wire PROVE Precedes(u.wire[j], x)
  <2> DEFINE y == u.wire[j]
  <2>1. SUFFICES ASSUME y.of = i PROVE Precedes(y, x)
    BY <1>3 DEF Precedes
  <2>2. Matches(y, op, f.openedFiles) /\ Precedes(r, y)
    BY <1>5, <2>1
  <2> HIDE DEF y
  <2> QED  BY <1>1, <1>3, <1>7, <2>1, <2>2 DEF Matches, Precedes, Many
<1>10. Sendable(u.ops, u.wire, n, u.handles, u.openedFiles, {i})
  <2>1. OwnerOf(u.ops, x) = i
    BY <1>1, <1>3 DEF OwnerOf, op
  <2>2. u.ops[i] = op
    BY <1>1 DEF op
  <2> QED  BY <1>1, <1>3, <1>4, <1>6, <1>8, <1>9, <2>1, <2>2 DEF Sendable
<1>11. Orderly([u EXCEPT !.wire = u.wire \o n], {i})
  BY <1>1, <1>4, <1>10, Post
<1> QED  BY <1>11 DEF More, n, x, op

(* What the copy waits for when a chunk has been read. *)
LEMMA ReadWaits ==
  ASSUME NEW u, NEW r, NEW i, AtHand(f, f.handles, u, r, i), ChunkOf(u, r, i), r.does = "chunkRead", f.wire # <<>>,
         f.wire \in Seq(Sent), NEW h \in Numbers
  PROVE  Waits(u.ops, u.wire \o <<Written(r, i, h)>>, i)
<1> DEFINE op == f.ops[i]
           x == Written(r, i, h)
           v == u.wire
           w == v \o <<x>>
<1>1. /\ Waits(f.ops, f.wire, i) /\ r \in Sent /\ u.wire \in Seq(Sent) /\ i \in Nat /\ u.ops = f.ops
  BY Zenon DEF AtHand
<1>2. op.stage \in {"chunkRead", "closeSource"} /\ op \in ChainOps
  BY DEF ChunkOf
<1>3. /\ \A does, y : OnWire(f.wire, i, does, y) <=> ((r.does = does /\ r.chunk = y) \/ OnWire(v, i, does, y))
      /\ \A y : OnWire(v, i, r.does, y) => r.chunk < y
  BY OnWireTaken
<1>4. \A does, y : OnWire(w, i, does, y) <=> (OnWire(v, i, does, y) \/ (does = "chunkWrite" /\ y = r.chunk))
  <2>1. x \in Sent /\ x.does = "chunkWrite" /\ x.of = i /\ x.chunk = r.chunk
    BY <1>1 DEF Written, Sent
  <2> HIDE DEF x
  <2>2. <<x>> \in Seq(Sent) /\ DOMAIN <<x>> = {1} /\ <<x>>[1] = x
    BY <2>1
  <2>3. \A does, y : OnWire(<<x>>, i, does, y) <=> (does = "chunkWrite" /\ y = r.chunk)
    BY <2>1, <2>2 DEF OnWire
  <2>4. \A does, y : OnWire(v \o <<x>>, i, does, y) <=> (OnWire(v, i, does, y) \/ OnWire(<<x>>, i, does, y))
    BY <1>1, <2>2, WireOfBoth
  <2> QED  BY <2>3, <2>4
<1> HIDE DEF x, v, w, op
<1>5. CASE op.stage = "closeSource"
  <2>1. OnWire(f.wire, i, "closeSource", 0)
    BY <1>1, <1>5 DEF Waits, OneRequest, op
  <2>2. OnWire(w, i, "closeSource", 0)
    BY <1>3, <1>4, <2>1
  <2>3. Waits(u.ops, w, i)
    BY <1>1, <1>5, <2>2 DEF Waits, OneRequest, op
  <2> QED  BY <2>3 DEF w, v, x
<1>6. CASE op.stage = "chunkRead"
  <2>1. Copying(op, f.wire, i)
    BY <1>1, <1>6 DEF Waits, op
  <2>2. PICK a \in Nat : 
          /\ Len(op.content) < a /\ a <= op.size + 1
          /\ \A y \in Nat : OnWire(f.wire, i, "chunkRead", y) <=> (a <= y /\ y <= op.size)
          /\ \A y \in Nat : OnWire(f.wire, i, "chunkWrite", y) <=> (Len(op.content) < y /\ y < a)
    BY <2>1 DEF Copying
  <2> DEFINE l == Len(op.content)
             z == op.size
             b == r.chunk
  <2>3. z \in Nat /\ l \in Nat /\ b \in Nat
    <3>1. Chunks \in Nat
      BY FilesAssumption DEF Provider!ProviderAssumption
    <3> QED  BY <1>1, <1>2, <3>1 DEF ChainOps, Sent
  <2> HIDE DEF l, z, b
  <2>4. /\ l < a /\ a <= z + 1
        /\ \A y \in Nat : OnWire(f.wire, i, "chunkRead", y) <=> (a <= y /\ y <= z)
        /\ \A y \in Nat : OnWire(f.wire, i, "chunkWrite", y) <=> (l < y /\ y < a)
    BY <2>2 DEF l, z
  <2>5. b = a /\ a <= z
    <3>1. a <= b /\ b <= z
      BY <1>3, <2>3, <2>4 DEF b
    <3>2. OnWire(f.wire, i, "chunkRead", a)
      BY <2>3, <2>4, <3>1
    <3>3. a = b \/ b < a
      BY <1>3, <3>2 DEF b
    <3> QED  BY <2>3, <3>1, <3>3
  <2>6. \A y \in Nat : OnWire(w, i, "chunkRead", y) <=> (a + 1 <= y /\ y <= z)
    <3>1. ASSUME NEW y \in Nat PROVE OnWire(w, i, "chunkRead", y) <=> OnWire(v, i, "chunkRead", y)
      BY <1>4
    <3>2. ASSUME NEW y \in Nat PROVE OnWire(v, i, "chunkRead", y) <=> OnWire(f.wire, i, "chunkRead", y) /\ y # b
      <4>1. OnWire(v, i, "chunkRead", y) => b < y
        BY <1>3 DEF b
      <4>2. OnWire(f.wire, i, "chunkRead", y) <=> (b = y \/ OnWire(v, i, "chunkRead", y))
        BY <1>3 DEF b
      <4> QED  BY <2>3, <4>1, <4>2
    <3>3. ASSUME NEW y \in Nat PROVE (a <= y /\ y <= z /\ y # b) <=> (a + 1 <= y /\ y <= z)
      BY <2>3, <2>5
    <3> QED  BY <2>4, <3>1, <3>2, <3>3
  <2>7. \A y \in Nat : OnWire(w, i, "chunkWrite", y) <=> (l < y /\ y < a + 1)
    <3>1. ASSUME NEW y \in Nat PROVE OnWire(w, i, "chunkWrite", y) <=> (OnWire(f.wire, i, "chunkWrite", y) \/ y = b)
      BY <1>3, <1>4 DEF b
    <3>2. ASSUME NEW y \in Nat PROVE ((l < y /\ y < a) \/ y = b) <=> (l < y /\ y < a + 1)
      BY <2>3, <2>4, <2>5
    <3> QED  BY <2>4, <3>1, <3>2
  <2>8. Copying(op, w, i)
    <3>1. a + 1 \in Nat /\ l < a + 1 /\ a + 1 <= z + 1
      BY <2>3, <2>4, <2>5
    <3>2. \E c2 \in Nat :
            /\ Len(op.content) < c2 /\ c2 <= op.size + 1
            /\ \A y \in Nat : OnWire(w, i, "chunkRead", y) <=> (c2 <= y /\ y <= op.size)
            /\ \A y \in Nat : OnWire(w, i, "chunkWrite", y) <=> (Len(op.content) < y /\ y < c2)
      BY <2>6, <2>7, <3>1 DEF l, z
    <3> QED  BY <2>1, <3>2 DEF Copying
  <2>9. Waits(u.ops, w, i)
    BY <1>1, <1>6, <2>8 DEF Waits, OneRequest, op
  <2> QED  BY <2>9 DEF w, v, x
<1> QED  BY <1>2, <1>5, <1>6

(* OnChunkRead keeps the order: what was read is written, also when the     *)
(* copy has failed.                                                         *)
LEMMA OnChunkReadKeeps ==
  ASSUME Orderly(f, {}), Provider!OnChunkRead
  PROVE  Orderly(f', {})
<1> DEFINE i == Provider!R.of
           r == Provider!R
           u == Provider!Served
           op == f.ops[i]
           x == Written(r, i, op.target)
           t == More(u, <<x>>)
<1>1. /\ f.wire # <<>> /\ r.does = "chunkRead"
      /\ f' = Provider!Send(u, i, "chunkWrite", op.target, r.chunk)
  BY DEF Provider!OnChunkRead, Provider!Replied, Provider!Op
<1>2. AtHand(f, f.handles, u, r, i)
  BY <1>1, Passed DEF Provider!Opens, Provider!Closes
<1>3. f.wire \in Seq(Sent)
  BY DEF Orderly, FspStates
<1> HIDE DEF u, i, r
<1>4. ChunkOf(u, r, i)
  BY <1>1, <1>2, ChunkCame
<1>5. /\ Orderly(u, {i}) /\ u \in FspStates /\ u.ops = f.ops /\ u.handles = f.handles /\ u.openedFiles = f.openedFiles
      /\ i \in DOMAIN f.ops /\ i \in Nat /\ Local(op) /\ op.does = "copyFile" /\ op.target \in Numbers /\ r \in Sent
      /\ op.stage \in {"chunkRead", "closeSource"}
      /\ \A j \in DOMAIN f.ops : f.ops[j].parent # i
      /\ \A o \in f.openedFiles : o.request # i
      /\ \A g \in Provider!Handles : f.handles[g] = i =>
           \/ op.source = g \/ op.target = g
           \/ \E k \in DOMAIN u.wire : u.wire[k].of = i /\ u.wire[k].does = "closeSource" /\ u.wire[k].h = g
  BY <1>1, <1>4 DEF ChunkOf
<1>6. Orderly(t, {i})
  BY <1>1, <1>4, WriteSent
<1> HIDE DEF op
<1>7. x \in Sent /\ <<x>> \in Seq(Sent) /\ u.wire \in Seq(Sent)
  BY <1>5 DEF Sent, Written, FspStates
<1>8. IsMore(t, u, <<x>>)
  BY <1>5, <1>7, MoreFields
<1>9. t.ops = u.ops /\ t.wire = u.wire \o <<x>> /\ t.handles = u.handles /\ t.openedFiles = u.openedFiles
  BY <1>8 DEF IsMore
<1>10. Waits(t.ops, t.wire, i)
  <2> HIDE DEF t
  <2>1. op.target \in Numbers
    BY <1>5
  <2>2. Waits(u.ops, u.wire \o <<Written(r, i, op.target)>>, i)
    BY <1>1, <1>2, <1>3, <1>4, <2>1, ReadWaits
  <2> QED  BY <1>9, <2>2
<1>11. \A k \in DOMAIN u.wire : k \in DOMAIN t.wire /\ t.wire[k] = u.wire[k]
  BY <1>7, <1>9, Joined
<1>12. f' = t
  <2>1. Append(u.wire, x) = u.wire \o <<x>>
    BY <1>7, AppendIsMore
  <2>2. Provider!Send(u, i, "chunkWrite", op.target, r.chunk) = [u EXCEPT !.wire = Append(u.wire, x)]
    BY DEF Provider!Send, Written
  <2> QED  BY <1>1, <2>1, <2>2 DEF More, op
<1> HIDE DEF t, x
<1>13. u.ops[i] = op
  BY <1>5 DEF op
<1>14. Settled(t, i)
  <2>1. \A g \in Provider!Handles : t.handles[g] = i =>
          \/ op.source = g \/ op.target = g
          \/ \E k \in DOMAIN t.wire : t.wire[k].of = i /\ t.wire[k].does = "closeSource" /\ t.wire[k].h = g
    BY <1>5, <1>9, <1>11
  <2> QED  BY <1>5, <1>9, <1>10, <1>13, <2>1 DEF Settled
<1>15. Orderly(t, {i} \ {i})
  BY <1>6, <1>14, PutDown
<1>16. {i} \ {i} = {}
  OBVIOUS
<1> QED  BY <1>12, <1>15, <1>16

(* Of a file one chunk more.                                                *)
LEMMA WholeGrows ==
  ASSUME NEW l \in Nat, l + 1 <= Chunks
  PROVE  Append(SubSeq(Provider!Whole, 1, l), l + 1) = SubSeq(Provider!Whole, 1, l + 1)
<1> DEFINE w == Provider!Whole
           p == SubSeq(w, 1, l)
           q == SubSeq(w, 1, l + 1)
<1>1. Chunks \in Nat
  BY FilesAssumption DEF Provider!ProviderAssumption
<1>2. w \in Seq(Nat) /\ Len(w) = Chunks /\ \A k \in 1..Chunks : w[k] = k
  BY <1>1 DEF Provider!Whole
<1> HIDE DEF w
<1>3. q \in Seq(Nat) /\ Len(q) = l + 1 /\ \A k \in 1..(l + 1) : q[k] = k
  BY <1>1, <1>2
<1>4. p \in Seq(Nat) /\ Len(p) = l /\ \A k \in 1..l : p[k] = k
  BY <1>1, <1>2
<1> HIDE DEF p, q
<1>5. Append(p, l + 1) \in Seq(Nat) /\ Len(Append(p, l + 1)) = l + 1 /\ \A k \in 1..(l + 1) : Append(p, l + 1)[k] = k
  BY <1>4
<1> QED  BY <1>3, <1>5 DEF p, q, w

(* The fields of an operation whose target is written to.                   *)
LEMMA FilledIs ==
  ASSUME NEW op \in ChainOps, NEW b \in Seq(Nat)
  PROVE  LET q == Filled(op, b) IN
         /\ q \in ChainOps /\ q.stage = op.stage /\ q.does = op.does /\ q.size = op.size /\ q.parent = op.parent
         /\ q.source = op.source /\ q.target = op.target /\ q.left = op.left /\ q.entries = op.entries
         /\ q.failed = op.failed /\ q.answers = op.answers /\ q.on = op.on /\ q.content = b
<1>1. LET x == [op EXCEPT !.content = b] IN
      /\ x \in ChainOps /\ x.stage = op.stage /\ x.does = op.does /\ x.size = op.size /\ x.parent = op.parent
      /\ x.source = op.source /\ x.target = op.target /\ x.left = op.left /\ x.entries = op.entries
      /\ x.failed = op.failed /\ x.answers = op.answers /\ x.on = op.on /\ x.content = b
  BY FieldsOf
<1> QED  BY <1>1 DEF Filled

(* The server writes a chunk to the target.                                 *)
LEMMA ChunkServed ==
  ASSUME Orderly(f, {}), f.wire # <<>>, Provider!R.does = "chunkWrite"
  PROVE  Provider!Served = Put(Provider!Taken, Provider!R.of,
                               Filled(f.ops[Provider!R.of], Append(f.ops[Provider!R.of].content, Provider!R.chunk)))
<1> DEFINE r == Provider!R
           i == Provider!R.of
           v == Provider!Taken
           b == Append(f.ops[i].content, r.chunk)
<1>1. AtHand(f, f.handles, v, r, i)
  BY Passed
<1>2. v \in FspStates /\ v.ops = f.ops /\ i \in DOMAIN v.ops
  BY <1>1, Zenon DEF AtHand
<1>3. ChunkOf(v, r, i)
  BY <1>1, ChunkCame
<1>4. f.handles[r.h] = i
  BY <1>3 DEF ChunkOf
<1>5. Provider!Served = [v EXCEPT !.ops[f.handles[r.h]].content = Append(@, r.chunk)]
  BY DEF Provider!Served, Provider!Opens, Provider!Closes
<1>6. Provider!Served = [v EXCEPT !.ops[i].content = Append(@, r.chunk)]
  BY <1>4, <1>5
<1> HIDE DEF v, r, i
<1>7. [v EXCEPT !.ops[i].content = Append(@, r.chunk)] = Put(v, i, [v.ops[i] EXCEPT !.content = Append(v.ops[i].content, r.chunk)])
  BY <1>2 DEF Put
<1>8. [v.ops[i] EXCEPT !.content = Append(v.ops[i].content, r.chunk)] = Filled(f.ops[i], b)
  BY <1>2 DEF Filled
<1> QED  BY <1>6, <1>7, <1>8 DEF v, r, i

(* The chunk that is written is the next of the file. *)
NextWritten(op, r, v, i) ==
  /\ op.content = SubSeq(Provider!Whole, 1, Len(op.content)) /\ op.left + Len(op.content) = op.size
  /\ r.chunk = Len(op.content) + 1 /\ r.chunk <= op.size
  /\ \E a \in Nat :
       /\ r.chunk < a /\ a <= op.size + 1
       /\ \A y \in Nat : OnWire(v, i, "chunkRead", y) <=> (a <= y /\ y <= op.size)
       /\ \A y \in Nat : OnWire(v, i, "chunkWrite", y) <=> (r.chunk < y /\ y < a)

(* The chunk that is written is the next of the file.                       *)
LEMMA WrittenNext ==
  ASSUME NEW u, NEW r, NEW i, AtHand(f, f.handles, u, r, i), ChunkOf(u, r, i), r.does = "chunkWrite", f.wire # <<>>,
         f.wire \in Seq(Sent), f.ops[i].stage = "chunkRead"
  PROVE  NextWritten(f.ops[i], r, u.wire, i)
<1> DEFINE op == f.ops[i]
           v == u.wire
<1>1. /\ Waits(f.ops, f.wire, i) /\ r \in Sent /\ u.wire \in Seq(Sent) /\ i \in Nat /\ u.ops = f.ops
  BY Zenon DEF AtHand
<1>2. op.stage = "chunkRead" /\ op \in ChainOps
  BY DEF ChunkOf
<1>3. /\ \A does, y : OnWire(f.wire, i, does, y) <=> ((r.does = does /\ r.chunk = y) \/ OnWire(v, i, does, y))
      /\ \A y : OnWire(v, i, r.does, y) => r.chunk < y
  BY OnWireTaken
<1> HIDE DEF v, op
<1>4. Copying(op, f.wire, i)
  BY <1>1, <1>2 DEF Waits, op
<1>5. PICK a \in Nat : 
        /\ Len(op.content) < a /\ a <= op.size + 1
        /\ \A y \in Nat : OnWire(f.wire, i, "chunkRead", y) <=> (a <= y /\ y <= op.size)
        /\ \A y \in Nat : OnWire(f.wire, i, "chunkWrite", y) <=> (Len(op.content) < y /\ y < a)
  BY <1>4 DEF Copying
<1> DEFINE l == Len(op.content)
           z == op.size
           b == r.chunk
<1>6. z \in Nat /\ l \in Nat /\ b \in Nat
  <2>1. Chunks \in Nat
    BY FilesAssumption DEF Provider!ProviderAssumption
  <2> QED  BY <1>1, <1>2, <2>1 DEF ChainOps, Sent
<1> HIDE DEF l, z, b
<1>7. /\ l < a /\ a <= z + 1
      /\ \A y \in Nat : OnWire(f.wire, i, "chunkRead", y) <=> (a <= y /\ y <= z)
      /\ \A y \in Nat : OnWire(f.wire, i, "chunkWrite", y) <=> (l < y /\ y < a)
  BY <1>5 DEF l, z
<1>8. b = l + 1 /\ b < a
  <2>1. l < b /\ b < a
    BY <1>3, <1>6, <1>7 DEF b
  <2>2. l + 1 \in Nat /\ l < l + 1 /\ l + 1 < a
    BY <1>6, <2>1
  <2>3. OnWire(f.wire, i, "chunkWrite", l + 1)
    BY <1>7, <2>2
  <2>4. l + 1 = b \/ b < l + 1
    BY <1>3, <2>3 DEF b
  <2> QED  BY <1>6, <2>1, <2>4
<1>9. \A y \in Nat : OnWire(v, i, "chunkWrite", y) <=> (b < y /\ y < a)
  <2>1. ASSUME NEW y \in Nat PROVE OnWire(v, i, "chunkWrite", y) <=> OnWire(f.wire, i, "chunkWrite", y) /\ y # b
    <3>1. OnWire(v, i, "chunkWrite", y) => b < y
      BY <1>3 DEF b
    <3>2. OnWire(f.wire, i, "chunkWrite", y) <=> (b = y \/ OnWire(v, i, "chunkWrite", y))
      BY <1>3 DEF b
    <3> QED  BY <1>6, <3>1, <3>2
  <2>2. ASSUME NEW y \in Nat PROVE (l < y /\ y < a /\ y # b) <=> (b < y /\ y < a)
    BY <1>6, <1>8
  <2> QED  BY <1>7, <2>1, <2>2
<1>10. \A y \in Nat : OnWire(v, i, "chunkRead", y) <=> (a <= y /\ y <= z)
  BY <1>3, <1>7
<1>11. b <= z
  BY <1>6, <1>7, <1>8
<1>12. \E x \in Nat :
         /\ r.chunk < x /\ x <= op.size + 1
         /\ \A y \in Nat : OnWire(v, i, "chunkRead", y) <=> (x <= y /\ y <= op.size)
         /\ \A y \in Nat : OnWire(v, i, "chunkWrite", y) <=> (r.chunk < y /\ y < x)
  BY <1>7, <1>8, <1>9, <1>10 DEF b, z
<1> QED  BY <1>4, <1>8, <1>11, <1>12 DEF NextWritten, Copying, b, l, z, op, v

(* The copy goes to its finally()s: whole, or failed with chunks still on  *)
(* the way.                                                                *)
CopyOver(op, q, v, i) ==
  /\ q \in ChainOps /\ q.stage = op.stage /\ q.does = op.does /\ q.size = op.size /\ q.parent = op.parent
  /\ q.source = op.source /\ q.target = op.target /\ q.on = op.on /\ q.answers = op.answers /\ q.entries = op.entries
  /\ q.failed \/ (WholeOf(q) /\ \A k \in DOMAIN v : v[k].of # i)

(* Finally after the last chunk, or the first that failed.                  *)
LEMMA FinallyOfCopy ==
  ASSUME NEW u, NEW r, NEW i, NEW q, AtHand(f, f.handles, u, r, i), ChunkOf(u, r, i), f.ops[i].stage = "chunkRead",
         CopyOver(f.ops[i], q, u.wire, i)
  PROVE  Orderly(Provider!Finally(Put(u, i, q), i), {})
<1> DEFINE op == f.ops[i]
           p == Put(u, i, q)
<1>1. /\ Orderly(u, {i}) /\ u \in FspStates /\ u.ops = f.ops /\ u.handles = f.handles /\ u.openedFiles = f.openedFiles
      /\ i \in DOMAIN u.ops /\ i \in Nat /\ i # 0 /\ op \in ChainOps /\ Local(op) /\ op.does = "copyFile" /\ op.on = 0
      /\ op.target # 0 /\ op.target \in Numbers /\ op.stage = "chunkRead" /\ ~op.failed /\ op.source # 0
      /\ f.handles[op.source] = i /\ f.handles[op.target] = i /\ op.target # op.source
      /\ \A j \in DOMAIN f.ops : f.ops[j].parent # i
      /\ \A x \in f.openedFiles : x.request # i
  BY DEF ChunkOf
<1>2. \A k \in DOMAIN u.wire : u.wire[k].of = i => Matches(u.wire[k], op, f.openedFiles)
  BY DEF ChunkOf
<1>3. \A g \in Provider!Handles : f.handles[g] = i =>
        \/ op.source = g \/ op.target = g
        \/ \E k \in DOMAIN u.wire : u.wire[k].of = i /\ u.wire[k].does = "closeSource" /\ u.wire[k].h = g
  BY DEF ChunkOf
<1>4. Parents(f.ops, i, {i}) /\ op.parent # i
  BY <1>1, OpOf, Zenon DEF AtHand
<1>5. /\ q \in ChainOps /\ q.stage = op.stage /\ q.does = op.does /\ q.size = op.size /\ q.parent = op.parent
      /\ q.source = op.source /\ q.target = op.target /\ q.on = op.on /\ q.answers = op.answers /\ q.entries = op.entries
      /\ q.failed \/ (WholeOf(q) /\ \A k \in DOMAIN u.wire : u.wire[k].of # i)
  BY DEF CopyOver
<1> HIDE DEF op
<1>6. ASSUME NEW k \in DOMAIN u.wire, u.wire[k].of = i
      PROVE  /\ u.wire[k].does \in {"chunkRead", "chunkWrite"} /\ (u.wire[k].does = "chunkWrite" => u.wire[k].h = op.target)
             /\ q.failed /\ Matches(u.wire[k], q, f.openedFiles)
  <2> DEFINE x == u.wire[k]
  <2>1. Matches(x, op, f.openedFiles) /\ q.failed /\ x \in Sent
    BY <1>1, <1>2, <1>5, <1>6 DEF FspStates
  <2> HIDE DEF x
  <2>2. x.does \in {"chunkRead", "chunkWrite"} /\ (x.does = "chunkWrite" => x.h = op.target) /\ Matches(x, q, f.openedFiles)
    BY <1>1, <1>5, <2>1 DEF Matches, Sent, OneRequest, Many
  <2> QED  BY <2>1, <2>2 DEF x
<1>7. u.ops[i] = op
  BY <1>1 DEF op
<1>8. Changeable(u, {i}, i, q)
  <2>1. \A k \in DOMAIN u.wire : u.wire[k].of = i => Matches(u.wire[k], q, u.openedFiles)
    BY <1>1, <1>6
  <2>2. /\ q.parent = u.ops[i].parent /\ q.on = u.ops[i].on /\ q.does = u.ops[i].does /\ u.ops[i].stage # "done"
        /\ u.handles[q.source] = i /\ u.handles[q.target] = i /\ q.target # q.source
    BY <1>1, <1>5, <1>7
  <2>3. ~ \E j \in DOMAIN u.ops : u.ops[j].parent = i
    BY <1>1
  <2>4. (q.parent # 0 /\ u.ops[q.parent].stage # "children" /\ ~u.ops[q.parent].failed) => (q.stage = "done" /\ ~q.failed)
    BY <1>1, <1>4, <1>5 DEF Parents, op
  <2>5. q.stage # "done"
    BY <1>1, <1>5
  <2> QED  BY <2>1, <2>2, <2>3, <2>4, <2>5 DEF Changeable
<1>9. Orderly(p, {i})
  <2>1. i \in {i} /\ i \in DOMAIN u.ops
    BY <1>1
  <2> QED  BY <1>1, <1>5, <1>8, <2>1, Change DEF Put
<1>10. /\ p \in FspStates /\ p.wire = u.wire /\ p.handles = u.handles /\ p.openedFiles = u.openedFiles
       /\ DOMAIN p.ops = DOMAIN u.ops /\ p.ops[i] = q /\ \A j \in DOMAIN u.ops : j # i => p.ops[j] = u.ops[j]
  <2>2. IsPut(p, u, i, q)
    BY <1>1, <1>5, PutFields
  <2> QED  BY <2>2 DEF IsPut
<1> HIDE DEF p
<1>11. \A j \in DOMAIN p.ops : p.ops[j].parent # i
  <2>1. ASSUME NEW j \in DOMAIN u.ops PROVE p.ops[j].parent # i
    <3>1. CASE j = i
      BY <1>4, <1>5, <1>10, <3>1
    <3>2. CASE j # i
      BY <1>1, <1>10, <3>2
    <3> QED  BY <3>1, <3>2
  <2> QED  BY <1>10, <2>1
<1>12. Free(p, i)
  <2>1. Born(q) /\ q.answers = (IF q.parent = 0 /\ q.does = "list" THEN 1 ELSE 0)
    BY <1>1, <1>5 DEF Local, Born, Told
  <2>2. ~q.failed => WholeOf(q)
    BY <1>5
  <2>3. \A k \in DOMAIN p.wire : p.wire[k].of = i =>
          /\ p.wire[k].does \in {"chunkRead", "chunkWrite"} /\ q.failed /\ q.target # 0 /\ q.source # 0
          /\ p.wire[k].does = "chunkWrite" => p.wire[k].h = q.target /\ q.stage # "closeTarget"
    BY <1>1, <1>5, <1>6, <1>10
  <2>4. \A h \in Provider!Handles : p.handles[h] = i => q.source = h \/ (q.target = h /\ q.stage # "closeTarget")
    BY <1>1, <1>3, <1>5, <1>6, <1>10
  <2> QED  BY <1>1, <1>5, <1>10, <1>11, <2>1, <2>2, <2>3, <2>4 DEF Free
<1>13. Orderly(Provider!Finally(p, i), {})
  BY <1>9, <1>12, FinallyKeeps
<1> QED  BY <1>13 DEF p

(* A chunk of a copy that has failed meanwhile. *)
LEMMA LateChunk ==
  ASSUME NEW u, NEW r, NEW i, NEW b \in Seq(Nat), AtHand(f, f.handles, u, r, i), r.does \in {"chunkRead", "chunkWrite"},
         f.ops[i].stage # "chunkRead", f.wire # <<>>, f.wire \in Seq(Sent)
  PROVE  Orderly(Put(u, i, Filled(f.ops[i], b)), {})
<1> DEFINE op == f.ops[i]
           q == Filled(op, b)
<1>1. ChunkOf(u, r, i)
  BY ChunkCame
<1>2. /\ op \in ChainOps /\ Local(op) /\ op.stage \in {"closeSource", "closeTarget"} /\ op.does = "copyFile" /\ op.failed
  BY <1>1 DEF ChunkOf
<1>3. Waits(f.ops, f.wire, i)
  BY Zenon DEF AtHand
<1>4. \A does, y : OnWire(f.wire, i, does, y) <=> ((r.does = does /\ r.chunk = y) \/ OnWire(u.wire, i, does, y))
  BY OnWireTaken
<1> HIDE DEF op
<1>5. /\ q \in ChainOps /\ q.stage = op.stage /\ q.does = op.does /\ q.size = op.size /\ q.parent = op.parent
      /\ q.source = op.source /\ q.target = op.target /\ q.left = op.left /\ q.entries = op.entries
      /\ q.failed = op.failed /\ q.answers = op.answers /\ q.on = op.on /\ q.content = b
  BY <1>2, FilledIs
<1> HIDE DEF q
<1>6. Local(q)
  BY <1>2, <1>5 DEF Local, StageFits, Holding, Told, Copied, Born
<1>7. OnWire(u.wire, i, op.stage, 0)
  <2>1. OnWire(f.wire, i, op.stage, 0)
    BY <1>2, <1>3 DEF Waits, OneRequest, op
  <2> QED  BY <1>2, <1>4, <2>1
<1>8. \A ops : ops[i] = q => Waits(ops, u.wire, i)
  BY <1>2, <1>5, <1>7 DEF Waits, OneRequest
<1>9. Rests(u, r, i, q)
  BY <1>2, <1>5, <1>6, <1>8 DEF Rests, Provider!Closes, op
<1>10. Orderly(Put(u, i, q), {})
  BY <1>9, RestsKeeps
<1> QED  BY <1>10 DEF q, op

(* A target that is not written to.                                         *)
LEMMA SameFilled ==
  ASSUME NEW op \in ChainOps
  PROVE  Filled(op, op.content) = op /\ op.content \in Seq(Nat)
BY DEF Filled, ChainOps

(* A chunk is not read or written: the copy fails once.                     *)
LEMMA ChunkFails ==
  ASSUME NEW u, NEW r, NEW i, AtHand(f, f.handles, u, r, i), r.does \in {"chunkRead", "chunkWrite"}, f.wire # <<>>,
         f.wire \in Seq(Sent)
  PROVE  /\ f.ops[i].stage # "chunkRead" => Orderly(u, {})
         /\ f.ops[i].stage = "chunkRead" => Orderly(Provider!Reject(u, i), {})
<1> DEFINE op == f.ops[i]
           q == [op EXCEPT !.failed = TRUE]
<1>1. ChunkOf(u, r, i)
  BY ChunkCame
<1>2. /\ op \in ChainOps /\ u.ops[i] = op /\ u \in FspStates /\ i \in DOMAIN u.ops
  BY <1>1 DEF ChunkOf
<1>3. CASE op.stage # "chunkRead"
  <2>1. op.content \in Seq(Nat) /\ Filled(op, op.content) = op
    BY <1>2, SameFilled
  <2>2. Orderly(Put(u, i, Filled(op, op.content)), {})
    BY <1>3, <2>1, LateChunk
  <2>3. Put(u, i, op) = u
    BY <1>2, PutSame
  <2> QED  BY <1>3, <2>1, <2>2, <2>3
<1>4. CASE op.stage = "chunkRead"
  <2>1. /\ q \in ChainOps /\ q.stage = op.stage /\ q.does = op.does /\ q.size = op.size /\ q.parent = op.parent
        /\ q.source = op.source /\ q.target = op.target /\ q.left = op.left /\ q.entries = op.entries
        /\ q.failed = TRUE /\ q.answers = op.answers /\ q.on = op.on /\ q.content = op.content
    BY <1>2 DEF ChainOps
  <2>2. Provider!Reject(u, i) = Provider!Finally(Put(u, i, q), i)
    BY <1>2 DEF Provider!Reject, Put
  <2> HIDE DEF q
  <2>3. CopyOver(op, q, u.wire, i)
    BY <2>1 DEF CopyOver
  <2>4. Orderly(Provider!Finally(Put(u, i, q), i), {})
    BY <1>1, <1>4, <2>3, FinallyOfCopy
  <2> QED  BY <1>4, <2>2, <2>4
<1> QED  BY <1>3, <1>4

(* A chunk is written. *)
LEMMA OnChunkWriteKeeps ==
  ASSUME Orderly(f, {}), Provider!OnChunkWrite
  PROVE  Orderly(f', {})
<1> DEFINE i == Provider!R.of
           r == Provider!R
           u == Provider!Taken
           t == Provider!Served
           op == f.ops[i]
           b == Append(op.content, r.chunk)
           q == Filled(op, b)
<1>1. /\ f.wire # <<>> /\ r.does = "chunkWrite"
      /\ f' = IF op.stage # "chunkRead" THEN t
              ELSE IF op.left > 1 THEN [t EXCEPT !.ops[i].left = @ - 1]
              ELSE Provider!Finally(t, i)
  BY DEF Provider!OnChunkWrite, Provider!Replied, Provider!Op
<1>2. AtHand(f, f.handles, u, r, i)
  BY <1>1, Passed
<1>3. f.wire \in Seq(Sent)
  BY DEF Orderly, FspStates
<1>4. t = Put(u, i, q)
  BY <1>1, ChunkServed, Zenon
<1> HIDE DEF u, i, r, t
<1>5. ChunkOf(u, r, i)
  BY <1>1, <1>2, ChunkCame
<1>6. /\ op \in ChainOps /\ u.ops = f.ops /\ u \in FspStates /\ i \in DOMAIN u.ops /\ Local(op) /\ op.does = "copyFile"
      /\ r \in Sent /\ Orderly(u, {i})
  BY <1>5 DEF ChunkOf
<1>7. b \in Seq(Nat) /\ op.content \in Seq(Nat) /\ r.chunk \in Nat
  <2>1. op.content \in Seq(Nat) /\ r.chunk \in Nat
    BY <1>6 DEF ChainOps, Sent
  <2> QED  BY <2>1
<1>b. b = Append(op.content, r.chunk)
  OBVIOUS
<1> HIDE DEF b, op
<1>8. /\ q \in ChainOps /\ q.stage = op.stage /\ q.does = op.does /\ q.size = op.size /\ q.parent = op.parent
      /\ q.source = op.source /\ q.target = op.target /\ q.left = op.left /\ q.entries = op.entries
      /\ q.failed = op.failed /\ q.answers = op.answers /\ q.on = op.on /\ q.content = b
  BY <1>6, <1>7, FilledIs
<1>9. CASE op.stage # "chunkRead"
  <2>1. Orderly(Put(u, i, Filled(op, b)), {})
    BY <1>1, <1>2, <1>3, <1>7, <1>9, LateChunk DEF op
  <2> QED  BY <1>1, <1>4, <1>9, <2>1
<1> HIDE DEF q
<1>10. ASSUME op.stage = "chunkRead"
       PROVE  /\ NextWritten(op, r, u.wire, i) /\ b = SubSeq(Provider!Whole, 1, Len(b)) /\ Len(b) = Len(op.content) + 1
              /\ op.size <= Chunks /\ op.size \in Nat /\ op.left \in Nat /\ op.left >= 1 /\ Len(op.content) \in Nat
              /\ Len(b) \in Nat /\ r.chunk = Len(b)
  <2>1. NextWritten(op, r, u.wire, i)
    BY <1>1, <1>2, <1>3, <1>5, <1>10, WrittenNext DEF op
  <2>2. Chunks \in Nat
    BY FilesAssumption DEF Provider!ProviderAssumption
  <2>3. op.size \in Nat /\ op.size <= Chunks /\ op.left \in Nat /\ op.left >= 1
    BY <1>6, <1>10, <2>2 DEF ChainOps, Local, Holding, Many
  <2> DEFINE l == Len(op.content)
  <2>4. l \in Nat /\ Len(b) = l + 1 /\ r.chunk = l + 1 /\ op.content = SubSeq(Provider!Whole, 1, l) /\ l + 1 <= op.size
    BY <1>7, <1>b, <2>1 DEF NextWritten
  <2> HIDE DEF l
  <2>5. Append(SubSeq(Provider!Whole, 1, l), l + 1) = SubSeq(Provider!Whole, 1, l + 1)
    <3>1. l + 1 <= Chunks
      BY <2>2, <2>3, <2>4
    <3> QED  BY <2>4, <3>1, WholeGrows
  <2>6. b = SubSeq(Provider!Whole, 1, l + 1)
    BY <1>b, <2>4, <2>5
  <2> QED  BY <2>1, <2>3, <2>4, <2>6 DEF l
<1>11. CASE op.stage = "chunkRead" /\ op.left > 1
  <2> DEFINE m == op.left - 1
             o == [q EXCEPT !.left = m]
  <2>0. /\ op.left \in Nat /\ op.left >= 1 /\ Len(op.content) \in Nat /\ Len(b) = Len(op.content) + 1 /\ op.size \in Nat
        /\ Len(b) \in Nat
    BY <1>10, <1>11, Zenon
  <2>n. op.left + Len(op.content) = op.size
    BY <1>10, <1>11, Zenon DEF NextWritten
  <2>1. m \in Nat /\ m >= 1
    BY <1>11, <2>0
  <2>2. [t EXCEPT !.ops[i].left = @ - 1] = Put(u, i, o)
    <3>1. IsPut(t, u, i, q)
      BY <1>4, <1>6, <1>8, PutFields
    <3>2. t \in FspStates /\ i \in DOMAIN t.ops /\ t.ops[i] = q
      BY <1>6, <3>1 DEF IsPut
    <3>3. [t EXCEPT !.ops[i].left = @ - 1] = Put(t, i, [t.ops[i] EXCEPT !.left = t.ops[i].left - 1])
      BY <3>2, LeftInPlace
    <3>4. [t.ops[i] EXCEPT !.left = t.ops[i].left - 1] = o
      BY <1>8, <3>2
    <3> HIDE DEF o
    <3>5. Put(t, i, o) = Put(u, i, o)
      BY <1>4, <1>6, PutPut
    <3> QED  BY <3>3, <3>4, <3>5
  <2> HIDE DEF m
  <2>3. /\ o \in ChainOps /\ o.stage = q.stage /\ o.does = q.does /\ o.size = q.size /\ o.parent = q.parent
        /\ o.source = q.source /\ o.target = q.target /\ o.left = m /\ o.entries = q.entries
        /\ o.failed = q.failed /\ o.answers = q.answers /\ o.on = q.on /\ o.content = q.content
    BY <1>8, <2>1, FieldsOf
  <2> HIDE DEF o
  <2>4. Local(o)
    BY <1>6, <1>8, <1>11, <2>1, <2>3 DEF Local, StageFits, Holding, Told, Copied, Born
  <2>5. Copying(o, u.wire, i)
    <3>1. PICK a \in Nat :
            /\ r.chunk < a /\ a <= op.size + 1
            /\ \A y \in Nat : OnWire(u.wire, i, "chunkRead", y) <=> (a <= y /\ y <= op.size)
            /\ \A y \in Nat : OnWire(u.wire, i, "chunkWrite", y) <=> (r.chunk < y /\ y < a)
      BY <1>10, <1>11, Zenon DEF NextWritten
    <3>2. o.size = op.size /\ o.content = b /\ Len(b) = r.chunk
      BY <1>8, <1>10, <1>11, <2>3, Zenon
    <3>3. o.left + Len(o.content) = o.size
      <4>1. Len(o.content) = Len(op.content) + 1
        BY <2>0, <3>2
      <4>2. o.left = op.left - 1
        BY <2>3 DEF m
      <4> HIDE DEF m
      <4> QED  BY <2>0, <2>n, <3>2, <4>1, <4>2
    <3>4. \E x \in Nat :
            /\ Len(o.content) < x /\ x <= o.size + 1
            /\ \A y \in Nat : OnWire(u.wire, i, "chunkRead", y) <=> (x <= y /\ y <= o.size)
            /\ \A y \in Nat : OnWire(u.wire, i, "chunkWrite", y) <=> (Len(o.content) < y /\ y < x)
      BY <3>1, <3>2
    <3>5. o.content = SubSeq(Provider!Whole, 1, Len(o.content))
      BY <1>10, <1>11, <3>2
    <3> QED  BY <3>3, <3>4, <3>5 DEF Copying
  <2>6. \A ops : ops[i] = o => Waits(ops, u.wire, i)
    BY <1>8, <1>11, <2>3, <2>5 DEF Waits, OneRequest
  <2>7. Rests(u, r, i, o)
    BY <1>1, <1>6, <1>8, <1>11, <2>3, <2>4, <2>6 DEF Rests, Provider!Closes, op
  <2>8. Orderly(Put(u, i, o), {})
    BY <1>2, <2>7, RestsKeeps
  <2> QED  BY <1>1, <1>11, <2>2, <2>8
<1>12. CASE op.stage = "chunkRead" /\ ~(op.left > 1)
  <2>0. /\ op.left \in Nat /\ op.left >= 1 /\ Len(op.content) \in Nat /\ Len(b) = Len(op.content) + 1 /\ op.size \in Nat
        /\ Len(b) \in Nat
    BY <1>10, <1>12, Zenon
  <2>n. op.left + Len(op.content) = op.size
    BY <1>10, <1>12, Zenon DEF NextWritten
  <2>1. Len(b) = op.size
    BY <1>12, <2>0, <2>n
  <2>2. WholeOf(q)
    BY <1>8, <1>10, <1>12, <2>1 DEF WholeOf
  <2>3. PICK a \in Nat :
            /\ r.chunk < a /\ a <= op.size + 1
            /\ \A y \in Nat : OnWire(u.wire, i, "chunkRead", y) <=> (a <= y /\ y <= op.size)
            /\ \A y \in Nat : OnWire(u.wire, i, "chunkWrite", y) <=> (r.chunk < y /\ y < a)
    BY <1>10, <1>12, Zenon DEF NextWritten
  <2>4. \A y \in Nat : ~OnWire(u.wire, i, "chunkRead", y) /\ ~OnWire(u.wire, i, "chunkWrite", y)
    BY <1>10, <1>12, <2>1, <2>3
  <2>5. ASSUME NEW k \in DOMAIN u.wire, u.wire[k].of = i PROVE FALSE
    <3> DEFINE x == u.wire[k]
    <3>1. Matches(x, op, f.openedFiles)
      BY <1>5, <2>5 DEF ChunkOf, op
    <3>2. x \in Sent
      BY <1>6 DEF FspStates
    <3>3. x.does \notin {"chunkRead", "chunkWrite"}
      <4>1. x.chunk \in Nat
        BY <3>2 DEF Sent
      <4> QED  BY <2>4, <2>5, <4>1 DEF OnWire
    <3> HIDE DEF x
    <3> QED  BY <1>6, <1>12, <3>1, <3>2, <3>3 DEF Matches, Sent, OneRequest, Many
  <2>6. CopyOver(op, q, u.wire, i)
    BY <1>8, <2>2, <2>5 DEF CopyOver
  <2>7. Orderly(Provider!Finally(Put(u, i, q), i), {})
    BY <1>2, <1>5, <1>12, <2>6, FinallyOfCopy DEF op
  <2> QED  BY <1>1, <1>4, <1>12, <2>7
<1> QED  BY <1>9, <1>11, <1>12

(* Replies of failure. *)
Failing(op) == [op EXCEPT !.failed = TRUE]

(* The fields of an operation that fails.                                   *)
LEMMA FailingIs ==
  ASSUME NEW op \in ChainOps
  PROVE  LET q == Failing(op) IN
         /\ q \in ChainOps /\ q.stage = op.stage /\ q.does = op.does /\ q.size = op.size /\ q.parent = op.parent
         /\ q.source = op.source /\ q.target = op.target /\ q.left = op.left /\ q.entries = op.entries
         /\ q.failed = TRUE /\ q.answers = op.answers /\ q.on = op.on /\ q.content = op.content
BY DEF Failing, ChainOps

(* Reject is the failure and the finally()s.                                *)
LEMMA RejectIs ==
  ASSUME NEW t \in FspStates, NEW i \in DOMAIN t.ops
  PROVE  Provider!Reject(t, i) = Provider!Finally(Put(t, i, Failing(t.ops[i])), i)
BY DEF Provider!Reject, Put, Failing

(* Reject after a request that came alone.                                  *)
LEMMA RejectOther ==
  ASSUME NEW u, NEW r, NEW i, Single(u, f.handles, r, i), r.does \notin {"closeSource", "closeTarget"}, f.ops[i].does # "list"
  PROVE  Orderly(Provider!Reject(u, i), {})
<1> DEFINE op == f.ops[i]
           q == Failing(op)
<1>1. u \in FspStates /\ i \in DOMAIN u.ops /\ u.ops[i] = op /\ op \in ChainOps
  BY DEF Single
<1>2. /\ q \in ChainOps /\ q.stage = op.stage /\ q.does = op.does /\ q.size = op.size /\ q.parent = op.parent
      /\ q.source = op.source /\ q.target = op.target /\ q.left = op.left /\ q.entries = op.entries
      /\ q.failed = TRUE /\ q.answers = op.answers /\ q.on = op.on /\ q.content = op.content
  BY <1>1, FailingIs
<1>3. Provider!Reject(u, i) = Provider!Finally(Put(u, i, q), i)
  BY <1>1, RejectIs
<1> HIDE DEF q
<1>4. Thereby(op, q)
  BY <1>2 DEF Thereby
<1> QED  BY <1>3, <1>4, FinallyThereby

(* Reject of a listing, which answers first.                                *)
LEMMA RejectList ==
  ASSUME NEW u, NEW r, NEW i, Single(u, f.handles, r, i), r.does \notin {"closeSource", "closeTarget"}, f.ops[i].does = "list"
  PROVE  Orderly(Provider!Reject(Provider!Answer(u, i), i), {})
<1> DEFINE op == f.ops[i]
           a == Paid(op)
           t == Put(u, i, a)
           q == Failing(a)
<1>1. u \in FspStates /\ i \in DOMAIN u.ops /\ u.ops[i] = op /\ op \in ChainOps /\ Local(op) /\ op.stage = r.does
      /\ op.stage # "done"
  BY DEF Single
<1>2. /\ a \in ChainOps /\ a.stage = op.stage /\ a.does = op.does /\ a.size = op.size /\ a.parent = op.parent
      /\ a.source = op.source /\ a.target = op.target /\ a.left = op.left /\ a.entries = op.entries
      /\ a.failed = op.failed /\ a.answers = op.answers + 1 /\ a.on = op.on /\ a.content = op.content
  BY <1>1, PaidIs
<1>3. Provider!Answer(u, i) = t
  BY <1>1, PaidInPlace
<1> HIDE DEF a
<1>4. /\ q \in ChainOps /\ q.stage = a.stage /\ q.does = a.does /\ q.size = a.size /\ q.parent = a.parent
      /\ q.source = a.source /\ q.target = a.target /\ q.left = a.left /\ q.entries = a.entries
      /\ q.failed = TRUE /\ q.answers = a.answers /\ q.on = a.on /\ q.content = a.content
  BY <1>2, FailingIs
<1>5. IsPut(t, u, i, a)
  BY <1>1, <1>2, PutFields
<1>6. t \in FspStates /\ i \in DOMAIN t.ops /\ t.ops[i] = a
  BY <1>1, <1>5 DEF IsPut
<1>7. Provider!Reject(t, i) = Provider!Finally(Put(t, i, q), i)
  BY <1>6, RejectIs
<1> HIDE DEF q
<1>8. Put(t, i, q) = Put(u, i, q)
  BY <1>1, PutPut
<1>9. op.answers = 0
  BY <1>1 DEF Local, Told
<1> HIDE DEF t
<1>10. Thereby(op, q)
  BY <1>2, <1>4, <1>9 DEF Thereby
<1>11. Orderly(Provider!Finally(Put(u, i, q), i), {})
  BY <1>10, FinallyThereby
<1> QED  BY <1>3, <1>7, <1>8, <1>11

(* OnError keeps the order, whatever fails.                                 *)
LEMMA OnErrorKeeps ==
  ASSUME Orderly(f, {}), Provider!OnError
  PROVE  Orderly(f', {})
<1> DEFINE i == Provider!R.of
           r == Provider!R
           v == Provider!Taken
           s2 == Provider!Served
           t == IF r.does \in Provider!Closes THEN s2 ELSE v
           op == f.ops[i]
           hs == [f.handles EXCEPT ![r.h] = 0]
<1>1. /\ f.wire # <<>> /\ r.does # "fileStatus"
      /\ f' = CASE r.does \in {"chunkRead", "chunkWrite"} -> IF op.stage = "chunkRead" THEN Provider!Reject(t, i) ELSE t
                [] r.does \in {"write", "read", "close", "open", "rmdir"} ->
                     IF op.stage = "done" THEN t ELSE Provider!Settle(t, i, FALSE)
                [] op.does = "list" /\ r.does # "closeSource" -> Provider!Reject(Provider!Answer(t, i), i)
                [] OTHER -> Provider!Reject(t, i)
  BY DEF Provider!OnError, Provider!Op
<1>2. AtHand(f, f.handles, v, r, i)
  BY <1>1, Passed
<1>3. f.wire \in Seq(Sent)
  BY DEF Orderly, FspStates
<1>4. r.does \in Provider!Closes =>
        /\ AtHand(f, hs, s2, r, i) /\ hs[r.h] = 0 /\ \A h \in Provider!Handles : h # r.h => hs[h] = f.handles[h]
  BY <1>1, Closed, Zenon
<1> HIDE DEF v, i, r, s2, hs
<1>5. r \in Sent /\ op \in ChainOps /\ Local(op) /\ Matches(r, op, f.openedFiles) /\ i # 0
  BY <1>2, Zenon DEF AtHand
<1> HIDE DEF op
<1>6. CASE r.does \in {"chunkRead", "chunkWrite"}
  <2>1. op.does = "copyFile"
    <3>1. ChunkOf(v, r, i)
      BY <1>2, <1>6, ChunkCame
    <3> QED  BY <3>1 DEF ChunkOf, op
  <2>2. f' = IF op.stage = "chunkRead" THEN Provider!Reject(v, i) ELSE v
    BY <1>1, <1>6, <2>1 DEF Provider!Closes
  <2> QED  BY <1>1, <1>2, <1>3, <1>6, <2>2, ChunkFails DEF op
<1>7. CASE r.does = "write"
  <2>1. op.does = "write" /\ op.stage \in {"write", "done"}
    BY <1>5, <1>7 DEF Matches
  <2>2. f' = IF op.stage = "done" THEN v ELSE Provider!Settle(v, i, FALSE)
    BY <1>1, <1>7, <2>1 DEF Provider!Closes
  <2>3. CASE op.stage = "done"
    BY <1>2, <1>7, <2>2, <2>3, LateWrite DEF op
  <2>4. CASE op.stage = "write"
    BY <1>2, <1>7, <2>2, <2>4, WriteEnds DEF op
  <2> QED  BY <2>1, <2>3, <2>4
<1>8. CASE r.does \in {"read", "open", "rmdir"}
  <2>1. Single(v, f.handles, r, i)
    BY <1>2, <1>8, SingleCame DEF OneRequest
  <2>2. op.stage = r.does /\ op.stage # "done"
    BY <2>1 DEF Single, op
  <2>3. op.does \notin {"list", "copyFile"} /\ op.source = 0
    BY <1>5, <1>8, <2>2 DEF Local, StageFits, Holding
  <2>4. f' = Provider!Settle(v, i, FALSE)
    BY <1>1, <1>8, <2>2, <2>3 DEF Provider!Closes
  <2>5. Orderly(Provider!Settle(v, i, FALSE), {})
    BY <2>1, <2>3, SettleSingle DEF op
  <2> QED  BY <2>4, <2>5
<1>9. CASE r.does = "close"
  <2>1. AtHand(f, hs, s2, r, i) /\ hs[r.h] = 0 /\ \A h \in Provider!Handles : h # r.h => hs[h] = f.handles[h]
    BY <1>4, <1>9 DEF Provider!Closes
  <2>2. Single(s2, hs, r, i)
    BY <1>9, <2>1, SingleCame DEF OneRequest
  <2>3. op.stage = r.does /\ op.stage # "done"
    BY <2>2 DEF Single, op
  <2>4. op.does \notin {"list", "copyFile"} /\ op.source = 0
    BY <1>5, <1>9, <2>3 DEF Local, StageFits, Holding
  <2>5. f' = Provider!Settle(s2, i, FALSE)
    BY <1>1, <1>9, <2>3, <2>4 DEF Provider!Closes
  <2>6. \A g \in Provider!Handles : hs[g] = i => f.handles[g] = i
    BY <1>5, <2>1
  <2>7. Orderly(Provider!Settle(s2, i, FALSE), {})
    BY <2>2, <2>4, <2>6, SettleSingle DEF op
  <2> QED  BY <2>5, <2>7
<1>10. CASE r.does \notin {"chunkRead", "chunkWrite", "write", "read", "open", "rmdir", "close"}
  <2>1. r.does = op.stage /\ r.does \in OneRequest
    BY <1>1, <1>5, <1>10 DEF Matches, Sent, Many
  <2>2. f' = IF op.does = "list" /\ r.does # "closeSource" THEN Provider!Reject(Provider!Answer(t, i), i)
             ELSE Provider!Reject(t, i)
    BY <1>1, <1>10
  <2>3. CASE r.does \in {"closeSource", "closeTarget"}
    <3>1. AtHand(f, hs, s2, r, i) /\ hs[r.h] = 0 /\ \A h \in Provider!Handles : h # r.h => hs[h] = f.handles[h]
      BY <1>4, <2>3 DEF Provider!Closes
    <3>2. op.does # "list" \/ r.does = "closeSource"
      BY <1>5, <2>1, <2>3 DEF Local, StageFits
    <3>3. f' = Provider!Reject(s2, i)
      BY <2>2, <2>3, <3>2 DEF Provider!Closes
    <3>4. s2 \in FspStates /\ i \in DOMAIN s2.ops /\ s2.ops[i] = op
      BY <3>1, Zenon DEF AtHand, op
    <3>5. Provider!Reject(s2, i) = Provider!Finally(Put(s2, i, Failing(op)), i)
      BY <3>4, RejectIs
    <3> DEFINE q == Failing(op)
    <3>6. /\ q \in ChainOps /\ q.stage = op.stage /\ q.does = op.does /\ q.size = op.size /\ q.parent = op.parent
          /\ q.source = op.source /\ q.target = op.target /\ q.left = op.left /\ q.entries = op.entries
          /\ q.failed = TRUE /\ q.answers = op.answers /\ q.on = op.on /\ q.content = op.content
      BY <1>5, FailingIs
    <3> HIDE DEF q
    <3>7. Then(op, q)
      BY <3>6 DEF Then
    <3>8. Orderly(Provider!Finally(Put(s2, i, q), i), {})
      BY <2>3, <3>1, <3>7, FinallyOfClosed DEF op
    <3> QED  BY <3>3, <3>5, <3>8 DEF q
  <2>4. CASE r.does \notin {"closeSource", "closeTarget"}
    <3>1. t = v
      BY <1>10, <2>4 DEF Provider!Closes
    <3>2. Single(v, f.handles, r, i)
      BY <1>2, <2>1, <2>4, SingleCame
    <3> HIDE DEF t
    <3>3. CASE op.does = "list"
      BY <2>2, <2>4, <3>1, <3>2, <3>3, RejectList DEF op
    <3>4. CASE op.does # "list"
      BY <2>2, <2>4, <3>1, <3>2, <3>4, RejectOther DEF op
    <3> QED  BY <3>3, <3>4
  <2> QED  BY <2>3, <2>4
<1> QED  BY <1>6, <1>7, <1>8, <1>9, <1>10

(* Operations that begin, each with its first request. *)
LEMMA FirstIs ==
  ASSUME NEW does \in Chains
  PROVE  /\ does # "write" => Provider!First(does) \in OneRequest \ {"copydata", "closeSource", "closeTarget", "rmdir"}
         /\ does \notin {"write", "close"} => Provider!First(does) # "close"
         /\ does = "write" => Provider!First(does) = "write"
         /\ does \in {"read", "close"} => Provider!First(does) = does
BY DEF Chains, Provider!First, OneRequest

-----------------------------------------------------------------------------
(* The requests of the Files app, and the entries of a directory.          *)
(* The fields of a new operation.                                           *)
LEMMA OperationIs ==
  ASSUME NEW does \in Chains, NEW size \in 0..Chunks, NEW parent \in Nat, NEW o, o = Provider!Operation(does, size, parent)
  PROVE  /\ o \in ChainOps /\ o.does = does /\ o.size = size /\ o.parent = parent /\ o.stage = Provider!First(does)
         /\ o.source = 0 /\ o.target = 0 /\ o.left = 0 /\ o.entries = <<>> /\ ~o.failed /\ o.answers = 0 /\ o.on = 0
         /\ o.content = <<>>
<1> DEFINE z == Provider!First(does)
<1>1. z \in Stages
  BY FirstIs DEF Stages, Many
<1>2. 0 \in Numbers /\ FALSE \in BOOLEAN /\ 0 \in Nat /\ <<>> \in Seq(EntryKinds) /\ <<>> \in Seq(Nat)
  BY DEF Numbers
<1>3. o = [does |-> does, size |-> size, parent |-> parent, stage |-> z, source |-> 0, target |-> 0,
           left |-> 0, entries |-> <<>>, failed |-> FALSE, answers |-> 0, on |-> 0, content |-> <<>>]
  BY DEF Provider!Operation, Provider!Unopened
<1> HIDE DEF z
<1>4. o \in ChainOps
  BY <1>1, <1>2, <1>3 DEF ChainOps
<1> QED  BY <1>3, <1>4 DEF z

(* A new operation is as it should be.                                      *)
LEMMA BornLocal ==
  ASSUME NEW does \in Chains \ Provider!OfFiles, NEW size \in 0..Chunks, NEW parent \in Nat, NEW o,
         o = Provider!Operation(does, size, parent),
         parent # 0 => does \in {"copyFile", "copyDirectory", "copyLink", "removeDirectory", "removeFile"}
  PROVE  Local(o)
<1>1. /\ o \in ChainOps /\ o.does = does /\ o.size = size /\ o.parent = parent /\ o.stage = Provider!First(does)
      /\ o.source = 0 /\ o.target = 0 /\ o.left = 0 /\ o.entries = <<>> /\ ~o.failed /\ o.answers = 0 /\ o.on = 0
      /\ o.content = <<>>
  BY OperationIs
<1>2. Born(o)
  BY <1>1 DEF Born, Provider!OfFiles
<1>3. StageFits(o) /\ o.stage \notin Many \cup {"children", "read", "done", "closeSource", "closeTarget"}
  BY <1>1 DEF StageFits, Chains, Provider!First, Provider!OfFiles, Directories, Many
<1>4. Holding(o)
  BY <1>1, <1>3 DEF Holding, Provider!First, Chains, Provider!OfFiles
<1>5. Told(o)
  BY <1>1, <1>3 DEF Told
<1>6. Copied(o)
  BY <1>1, <1>3 DEF Copied
<1> QED  BY <1>2, <1>3, <1>4, <1>5, <1>6 DEF Local

Starts(o) ==
  /\ o \in ChainOps /\ Local(o) /\ o.on = 0 /\ o.source = 0 /\ o.target = 0 /\ o.does # "close"
  /\ o.stage \in OneRequest \ {"copydata", "closeSource", "closeTarget", "rmdir", "close"}
Firsts(more, l) == [k \in 1..Len(more) |-> [does |-> more[k].stage, of |-> l + k, h |-> 0, chunk |-> 0]]

(* The first requests of new operations.                                    *)
LEMMA FirstsAre ==
  ASSUME NEW more \in Seq(ChainOps), NEW l \in Nat, \A k \in DOMAIN more : Starts(more[k])
  PROVE  /\ Firsts(more, l) \in Seq(Sent) /\ DOMAIN Firsts(more, l) = DOMAIN more
         /\ \A k \in DOMAIN more : /\ Firsts(more, l)[k].does = more[k].stage /\ Firsts(more, l)[k].of = l + k
                                   /\ Firsts(more, l)[k].h = 0 /\ Firsts(more, l)[k].chunk = 0
<1>1. DOMAIN more = 1..Len(more) /\ Len(more) \in Nat
  OBVIOUS
<1>2. \A k \in 1..Len(more) : [does |-> more[k].stage, of |-> l + k, h |-> 0, chunk |-> 0] \in Sent
  BY <1>1 DEF Starts, Sent, Numbers
<1> QED  BY <1>1, <1>2 DEF Firsts

Begun(t, more) == More([t EXCEPT !.ops = t.ops \o more], Firsts(more, Len(t.ops)))

(* New operations begin, each with its first request.                       *)
LEMMA BeginAll ==
  ASSUME NEW t, NEW I, NEW more \in Seq(ChainOps), Orderly(t, I), Beginning(t, I, more), I \subseteq DOMAIN t.ops,
         \A k \in DOMAIN more : Starts(more[k])
  PROVE  Orderly(Begun(t, more), I)
<1> DEFINE l == Len(t.ops)
           m == Len(more)
           new == (l + 1)..(l + m)
           J == I \cup new
           u == [t EXCEPT !.ops = t.ops \o more]
           n == Firsts(more, l)
           v == More(u, n)
<1>1. t \in FspStates /\ t.ops \in Seq(ChainOps) /\ t.wire \in Seq(Sent) /\ l \in Nat /\ m \in Nat
  <2>1. t \in FspStates
    BY DEF Orderly
  <2>2. t.ops \in Seq(ChainOps) /\ t.wire \in Seq(Sent)
    BY <2>1 DEF FspStates
  <2> QED  BY <2>1, <2>2
<1>2. Orderly(u, J)
  BY Arrive
<1>3. u \in FspStates /\ u.ops = t.ops \o more /\ u.wire = t.wire /\ u.handles = t.handles /\ u.openedFiles = t.openedFiles
  BY <1>1, <1>2 DEF FspStates, Orderly
<1>4. /\ n \in Seq(Sent) /\ DOMAIN n = DOMAIN more
      /\ \A k \in DOMAIN more : n[k].does = more[k].stage /\ n[k].of = l + k /\ n[k].h = 0 /\ n[k].chunk = 0
  BY <1>1, FirstsAre
<1>5. /\ DOMAIN t.ops = 1..l /\ DOMAIN more = 1..m /\ DOMAIN u.ops = 1..(l + m)
      /\ \A k \in 1..m : u.ops[l + k] = more[k]
      /\ \A k \in 1..l : u.ops[k] = t.ops[k]
  BY <1>1, <1>3
<1> HIDE DEF n, u, v
<1>6. Sendable(u.ops, u.wire, n, u.handles, u.openedFiles, J)
  <2>1. ASSUME NEW k \in DOMAIN n
        PROVE  /\ n[k].of \in new /\ n[k].of \in DOMAIN u.ops /\ n[k].h = 0 /\ n[k].does \notin Provider!Closes
               /\ Matches(n[k], u.ops[n[k].of], u.openedFiles) /\ n[k].of = l + k /\ k \in Nat /\ k >= 1
    <3>1. k \in 1..m /\ l + k \in new /\ l + k \in 1..(l + m)
      BY <1>1, <1>4, <1>5
    <3>2. u.ops[n[k].of] = more[k] /\ Starts(more[k]) /\ n[k].does = more[k].stage /\ n[k].h = 0 /\ n[k].of = l + k
      BY <1>4, <1>5, <3>1
    <3>3. n[k].does \notin Provider!Closes
      BY <3>2 DEF Starts, Provider!Closes
    <3>4. Matches(n[k], more[k], u.openedFiles)
      BY <3>2 DEF Starts, Matches, OneRequest
    <3> QED  BY <1>5, <3>1, <3>2, <3>3, <3>4
  <2>2. ASSUME NEW j \in DOMAIN u.wire PROVE u.wire[j].of \in 1..l
    BY <1>3, <1>5, <2>2 DEF Orderly, WireFits
  <2>3. ASSUME NEW k \in DOMAIN n, NEW j \in DOMAIN u.wire PROVE Precedes(u.wire[j], n[k])
    <3>1. u.wire[j].of # n[k].of
      BY <1>1, <2>1, <2>2
    <3> QED  BY <3>1 DEF Precedes
  <2>4. ASSUME NEW k \in DOMAIN n, NEW j \in DOMAIN n, j < k PROVE Precedes(n[j], n[k])
    <3>1. n[j].of # n[k].of
      BY <1>1, <2>1, <2>4
    <3> QED  BY <3>1 DEF Precedes
  <2> QED  BY <2>1, <2>3, <2>4 DEF Sendable
<1>7. Orderly([u EXCEPT !.wire = u.wire \o n], J)
  BY <1>2, <1>4, <1>6, Post
<1>8. v = [u EXCEPT !.wire = u.wire \o n]
  BY DEF v, More
<1>9. Orderly(v, J)
  BY <1>7, <1>8
<1>10. v.ops = u.ops /\ v.wire = t.wire \o n /\ v.handles = t.handles /\ v.openedFiles = t.openedFiles
  <2>1. IsMore(v, u, n)
    BY <1>3, <1>4, MoreFields DEF v
  <2> QED  BY <1>3, <2>1 DEF IsMore
<1>11. ASSUME NEW i \in new PROVE Settled(v, i)
  <2> DEFINE k == i - l
             o == more[k]
  <2>1. k \in 1..m /\ i = l + k /\ i \in Nat /\ i # 0 /\ i \notin DOMAIN t.ops /\ i \in DOMAIN u.ops
    BY <1>1, <1>5, <1>11
  <2>2. u.ops[i] = o /\ Starts(o)
    BY <1>5, <2>1
  <2>3. OnWire(v.wire, i, o.stage, 0)
    <3>1. k \in DOMAIN n /\ n[k].does = o.stage /\ n[k].of = i /\ n[k].chunk = 0
      BY <1>4, <1>5, <2>1
    <3>2. OnWire(n, i, o.stage, 0)
      BY <3>1 DEF OnWire
    <3>3. OnWire(t.wire \o n, i, o.stage, 0)
      BY <1>1, <1>4, <3>2, WireOfBoth
    <3> QED  BY <1>10, <3>3
  <2> HIDE DEF o
  <2>4. /\ o.stage \in OneRequest \ {"copydata", "closeSource", "closeTarget", "rmdir", "close"} /\ Local(o) /\ o.does # "close"
        /\ o.target = 0
    BY <2>2 DEF Starts
  <2>5. Waits(v.ops, v.wire, i)
    BY <1>10, <2>2, <2>3, <2>4 DEF Waits, OneRequest
  <2>6. \A j \in DOMAIN v.ops : v.ops[j].parent # i
    <3>1. ASSUME NEW j \in DOMAIN v.ops, v.ops[j].parent = i PROVE FALSE
      <4>1. Parents(v.ops, j, J)
        BY <1>9, <3>1 DEF Orderly, AllParents
      <4>2. v.ops[i].stage \in {"children", "closeSource", "rmdir", "done"}
        BY <2>1, <3>1, <4>1 DEF Parents
      <4> QED  BY <1>10, <2>2, <2>4, <4>2 DEF OneRequest
    <3> QED  BY <3>1
  <2>7. \A x \in v.openedFiles : x.request # i
    BY <1>10, <2>1 DEF Orderly, OpenedWell
  <2>8. \A h \in Provider!Handles : v.handles[h] # i
    BY <1>10, <2>1 DEF Orderly, Accounted
  <2> QED  BY <1>10, <2>1, <2>2, <2>4, <2>5, <2>6, <2>7, <2>8 DEF Settled
<1>12. Orderly(v, J \ new)
  BY <1>9, <1>11, PutDownAll
<1>13. J \ new = I
  BY <1>1, <1>5
<1> QED  BY <1>12, <1>13 DEF Begun, v, u, n

(* The requests of the Files app. *)
LEMMA OneAppended ==
  ASSUME NEW t \in FspStates, NEW o \in ChainOps
  PROVE  /\ Append(t.ops, o) = t.ops \o <<o>> /\ <<o>> \in Seq(ChainOps) /\ DOMAIN <<o>> = {1} /\ <<o>>[1] = o
         /\ Len(<<o>>) = 1 /\ Len(t.ops) \in Nat
<1>1. t.ops \in Seq(ChainOps)
  BY DEF FspStates
<1> QED  BY <1>1, AppendIsMore

(* Request keeps the order: a new operation begins.                         *)
LEMMA RequestKeeps ==
  ASSUME Orderly(f, {}), NEW does \in Chains \ {"copyFile", "copyDirectory", "copyLink", "removeDirectory", "removeFile"},
         Provider!Request(does)
  PROVE  Orderly(f', {})
<1> DEFINE o == Provider!Operation(does, 0, 0)
           l == Len(f.ops)
           more == <<o>>
           x == [does |-> Provider!First(does), of |-> l + 1, h |-> 0, chunk |-> 0]
<1>1. /\ does \notin Provider!OfFiles
      /\ f' = [f EXCEPT !.ops = Append(@, o), !.wire = Append(@, Provider!FirstRequest(does, l + 1))]
  BY DEF Provider!Request
<1>2. Provider!FirstRequest(does, l + 1) = x
  BY DEF Provider!FirstRequest, Provider!Unopened
<1>3. f \in FspStates /\ f.wire \in Seq(Sent)
  BY DEF Orderly, FspStates
<1>4. 0 \in 0..Chunks
  BY FilesAssumption DEF Provider!ProviderAssumption
<1>5. /\ o \in ChainOps /\ o.does = does /\ o.size = 0 /\ o.parent = 0 /\ o.stage = Provider!First(does)
      /\ o.source = 0 /\ o.target = 0 /\ o.left = 0 /\ o.entries = <<>> /\ ~o.failed /\ o.answers = 0 /\ o.on = 0
      /\ o.content = <<>>
  BY <1>4, OperationIs
<1>6. Local(o)
  BY <1>1, <1>4, BornLocal
<1> HIDE DEF o
<1>7. Starts(o)
  BY <1>1, <1>5, <1>6, FirstIs DEF Starts, Provider!OfFiles
<1>8. /\ Append(f.ops, o) = f.ops \o more /\ more \in Seq(ChainOps) /\ DOMAIN more = {1} /\ more[1] = o
      /\ Len(more) = 1 /\ l \in Nat
  BY <1>3, <1>5, OneAppended
<1>9. Firsts(more, l) = <<x>>
  BY <1>5, <1>8 DEF Firsts
<1>10. x \in Sent
  BY <1>7, <1>5, <1>8 DEF Starts, Sent, Numbers
<1> HIDE DEF x, more
<1>11. Append(f.wire, x) = f.wire \o <<x>>
  BY <1>3, <1>10, AppendIsMore
<1>12. f' = Begun(f, more)
  <2>1. f' = [[f EXCEPT !.ops = f.ops \o more] EXCEPT !.wire = f.wire \o <<x>>]
    BY <1>1, <1>2, <1>8, <1>11
  <2>2. [f EXCEPT !.ops = f.ops \o more].wire = f.wire
    BY <1>3 DEF FspStates
  <2> QED  BY <1>9, <2>1, <2>2 DEF Begun, More
<1>13. Beginning(f, {}, more)
  BY <1>5, <1>8 DEF Beginning
<1>14. Orderly(Begun(f, more), {})
  BY <1>7, <1>8, <1>13, BeginAll
<1> QED  BY <1>12, <1>14

(* RequestRefused keeps the order: a new operation is over at once.         *)
LEMMA RequestRefusedKeeps ==
  ASSUME Orderly(f, {}), Provider!RequestRefused
  PROVE  Orderly(f', {})
<1> DEFINE b == Provider!Operation("mkdir", 0, 0)
           o == [[[b EXCEPT !.stage = "done"] EXCEPT !.failed = TRUE] EXCEPT !.answers = 1]
           l == Len(f.ops)
           i == l + 1
           more == <<o>>
           t == [f EXCEPT !.ops = f.ops \o more]
<1>1. f' = [f EXCEPT !.ops = Append(@, [b EXCEPT !.stage = "done", !.failed = TRUE, !.answers = 1])]
  BY DEF Provider!RequestRefused
<1>2. f \in FspStates /\ f.ops \in Seq(ChainOps)
  BY DEF Orderly, FspStates
<1>3. /\ b \in ChainOps /\ b.does = "mkdir" /\ b.parent = 0 /\ b.source = 0 /\ b.target = 0 /\ b.entries = <<>> /\ b.on = 0
      /\ b.content = <<>> /\ b.size = 0 /\ b.left = 0
  <2>1. 0 \in 0..Chunks /\ "mkdir" \in Chains
    BY FilesAssumption DEF Provider!ProviderAssumption, Chains
  <2> QED  BY <2>1, OperationIs
<1> HIDE DEF b
<1>4. /\ o \in ChainOps /\ o.does = "mkdir" /\ o.parent = 0 /\ o.source = 0 /\ o.target = 0 /\ o.entries = <<>> /\ o.on = 0
      /\ o.content = <<>> /\ o.size = 0 /\ o.left = 0 /\ o.stage = "done" /\ o.failed = TRUE /\ o.answers = 1
  <2>1. "done" \in Stages
    BY DEF Stages
  <2> QED  BY <1>3, <2>1 DEF ChainOps
<1>5. [b EXCEPT !.stage = "done", !.failed = TRUE, !.answers = 1] = o
  BY <1>3 DEF ChainOps
<1> HIDE DEF o
<1>6. Local(o)
  BY <1>4 DEF Local, StageFits, Holding, Told, Copied, Born, Many, OneRequest, Directories, Provider!OfFiles
<1>7. /\ Append(f.ops, o) = f.ops \o more /\ more \in Seq(ChainOps) /\ DOMAIN more = {1} /\ more[1] = o
      /\ Len(more) = 1 /\ l \in Nat
  BY <1>2, <1>4, OneAppended
<1>8. f' = t
  BY <1>1, <1>5, <1>7
<1>9. Beginning(f, {}, more)
  BY <1>4, <1>7 DEF Beginning
<1>10. Orderly(t, {i})
  <2>1. Orderly(t, {} \cup (l + 1)..(l + Len(more)))
    BY <1>7, <1>9, Arrive
  <2>2. {} \cup (l + 1)..(l + Len(more)) = {i}
    BY <1>7
  <2> QED  BY <2>1, <2>2
<1>11. t.ops = f.ops \o more /\ t.wire = f.wire /\ t.handles = f.handles /\ t.openedFiles = f.openedFiles
  BY <1>2 DEF FspStates
<1>12. /\ DOMAIN f.ops = 1..l /\ DOMAIN t.ops = 1..i /\ t.ops[i] = o /\ i \notin DOMAIN f.ops
       /\ \A k \in 1..l : t.ops[k] = f.ops[k]
  BY <1>2, <1>7, <1>11
<1> HIDE DEF t, more
<1>13. Settled(t, i)
  <2>1. i \in DOMAIN t.ops /\ i # 0
    BY <1>7, <1>12
  <2>2. Waits(t.ops, t.wire, i)
    BY <1>4, <1>12 DEF Waits, OneRequest
  <2>3. \A j \in DOMAIN t.ops : t.ops[j].parent # i
    <3>1. ASSUME NEW j \in DOMAIN t.ops, t.ops[j].parent = i PROVE FALSE
      <4>1. Parents(t.ops, j, {i})
        BY <1>10, <3>1 DEF Orderly, AllParents
      <4> QED  BY <1>4, <1>12, <2>1, <3>1, <4>1 DEF Parents, Directories
    <3> QED  BY <3>1
  <2>4. \A h \in Provider!Handles : t.handles[h] # i
    BY <1>11, <1>12, <2>1 DEF Orderly, Accounted
  <2> QED  BY <1>4, <1>6, <1>12, <2>1, <2>2, <2>3, <2>4 DEF Settled
<1>14. Orderly(t, {i} \ {i})
  BY <1>10, <1>13, PutDown
<1>15. {i} \ {i} = {}
  OBVIOUS
<1> QED  BY <1>8, <1>14, <1>15

(* A request about a file that is open. *)
Asked(does, on, n) == [[Provider!Operation(does, 0, 0) EXCEPT !.on = on] EXCEPT !.left = n]
AskedOf(op, does, on, n) ==
  /\ op \in ChainOps /\ op.does = does /\ op.size = 0 /\ op.parent = 0 /\ op.stage = does /\ op.source = 0 /\ op.target = 0
  /\ op.left = n /\ op.entries = <<>> /\ ~op.failed /\ op.answers = 0 /\ op.on = on /\ op.content = <<>>

(* The fields of a request about an open file.                              *)
LEMMA AskedIs ==
  ASSUME NEW does \in Provider!OfFiles, NEW on \in Nat, NEW n \in Nat
  PROVE  AskedOf(Asked(does, on, n), does, on, n)
<1> DEFINE b == Provider!Operation(does, 0, 0)
           c2 == [b EXCEPT !.on = on]
           d == [c2 EXCEPT !.left = n]
<1>1. 0 \in 0..Chunks /\ does \in Chains /\ does \in {"write", "read", "close"}
  BY FilesAssumption DEF Provider!ProviderAssumption, Chains, Provider!OfFiles
<1>2. /\ b \in ChainOps /\ b.does = does /\ b.parent = 0 /\ b.source = 0 /\ b.target = 0 /\ b.entries = <<>> /\ b.on = 0
      /\ b.content = <<>> /\ b.size = 0 /\ b.left = 0 /\ b.stage = does /\ ~b.failed /\ b.answers = 0
  <2>1. Provider!First(does) = does
    BY <1>1, FirstIs
  <2> QED  BY <1>1, <2>1, OperationIs
<1> HIDE DEF b
<1>3. /\ c2 \in ChainOps /\ c2.does = does /\ c2.parent = 0 /\ c2.source = 0 /\ c2.target = 0 /\ c2.entries = <<>> /\ c2.on = on
      /\ c2.content = <<>> /\ c2.size = 0 /\ c2.left = 0 /\ c2.stage = does /\ ~c2.failed /\ c2.answers = 0
  BY <1>2 DEF ChainOps
<1> HIDE DEF c2
<1>4. /\ d \in ChainOps /\ d.does = does /\ d.parent = 0 /\ d.source = 0 /\ d.target = 0 /\ d.entries = <<>> /\ d.on = on
      /\ d.content = <<>> /\ d.size = 0 /\ d.left = n /\ d.stage = does /\ ~d.failed /\ d.answers = 0
  BY <1>3 DEF ChainOps
<1> HIDE DEF d
<1>5. AskedOf(d, does, on, n)
  BY <1>4 DEF AskedOf
<1> QED  BY <1>5 DEF d, c2, b, Asked

(* What the operation relies on when it begins. *)
Begins(t, op, does, h, i) ==
  /\ Orderly(t, {i}) /\ i \in DOMAIN t.ops /\ i # 0 /\ t \in FspStates /\ t.ops[i] = op /\ AskedOf(op, does, op.on, op.left)
  /\ op.left >= 1 /\ op.on # 0 /\ h \in Numbers /\ h # 0 /\ t.handles[h] = op.on
  /\ [request |-> op.on, handle |-> h] \in t.openedFiles
  /\ \A q \in t.openedFiles : q.request = op.on => t.handles[q.handle] = q.request
  /\ \A k \in DOMAIN t.wire : t.wire[k].of # i
  /\ \A j \in DOMAIN t.wire : t.wire[j].h = h => t.wire[j].does \notin Provider!Closes
  /\ \A j \in DOMAIN t.ops : t.ops[j].parent # i
  /\ \A x \in t.openedFiles : x.request # i
  /\ \A g \in Provider!Handles : t.handles[g] # i

(* A request about an open file begins when the others about it are over.   *)
LEMMA FileBegins ==
  ASSUME Orderly(f, {}), NEW does \in Provider!OfFiles, NEW o \in f.openedFiles, NEW n \in Nat, n >= 1, Provider!Idle(o),
         NEW op, op = Asked(does, o.request, n), NEW t, t = [f EXCEPT !.ops = f.ops \o <<op>>], NEW i, i = Len(f.ops) + 1
  PROVE  Begins(t, op, does, o.handle, i)
<1> DEFINE l == Len(f.ops)
           more == <<op>>
           h == o.handle
<1>1. f \in FspStates /\ f.ops \in Seq(ChainOps) /\ o \in OpenedFiles /\ f.wire \in Seq(Sent)
  BY DEF Orderly, FspStates
<1>2. o.request \in Nat /\ h \in Provider!Handles /\ o = [request |-> o.request, handle |-> h] /\ h # 0 /\ h \in Numbers
  BY <1>1, NoHandle DEF OpenedFiles, Numbers
<1>3. /\ o.request \in DOMAIN f.ops /\ f.ops[o.request].does \in {"open", "create"} /\ f.ops[o.request].stage = "done"
      /\ \/ f.handles[h] = o.request
         \/ \E j \in DOMAIN f.ops : f.ops[j].on = o.request /\ f.ops[j].does = "close" /\ f.ops[j].stage = "done"
      /\ \A q \in f.openedFiles : q.request = o.request => q = o
  BY DEF Orderly, OpenedWell
<1>4. \A j \in DOMAIN f.ops : f.ops[j].on = o.request => f.ops[j].stage = "done" /\ f.ops[j].does # "close"
  BY DEF Provider!Idle
<1>5. f.handles[h] = o.request /\ o.request # 0
  BY <1>1, <1>3, <1>4
<1>6. AskedOf(op, does, o.request, n)
  BY <1>2, AskedIs
<1>7. /\ op \in ChainOps /\ op.does = does /\ op.size = 0 /\ op.parent = 0 /\ op.stage = does /\ op.source = 0 /\ op.target = 0
      /\ op.left = n /\ op.entries = <<>> /\ ~op.failed /\ op.answers = 0 /\ op.on = o.request /\ op.content = <<>>
  BY <1>6 DEF AskedOf
<1>8. /\ more \in Seq(ChainOps) /\ DOMAIN more = {1} /\ more[1] = op /\ Len(more) = 1 /\ l \in Nat
  BY <1>1, <1>7, OneAppended
<1>9. Beginning(f, {}, more)
  BY <1>3, <1>4, <1>7, <1>8 DEF Beginning
<1>10. Orderly(t, {i})
  <2>1. Orderly([f EXCEPT !.ops = f.ops \o more], {} \cup (l + 1)..(l + Len(more)))
    BY <1>8, <1>9, Arrive
  <2>2. {} \cup (l + 1)..(l + Len(more)) = {i}
    BY <1>8
  <2> QED  BY <2>1, <2>2
<1>11. t.ops = f.ops \o more /\ t.wire = f.wire /\ t.handles = f.handles /\ t.openedFiles = f.openedFiles /\ t \in FspStates
  BY <1>1, <1>10 DEF FspStates, Orderly
<1>12. /\ DOMAIN f.ops = 1..l /\ DOMAIN t.ops = 1..i /\ t.ops[i] = op /\ i \notin DOMAIN f.ops
       /\ \A k \in 1..l : t.ops[k] = f.ops[k]
  BY <1>1, <1>8, <1>11
<1> HIDE DEF more, h
<1>13. i \in DOMAIN t.ops /\ i # 0
  BY <1>8, <1>12
<1>14. \A k \in DOMAIN t.wire : t.wire[k].of # i
  BY <1>11, <1>12 DEF Orderly, WireFits
<1>15. \A j \in DOMAIN t.ops : t.ops[j].parent # i
  <2>1. ASSUME NEW j \in DOMAIN t.ops, t.ops[j].parent = i PROVE FALSE
    <3>1. Parents(t.ops, j, {i})
      BY <1>10, <2>1 DEF Orderly, AllParents
    <3> QED  BY <1>7, <1>12, <1>13, <2>1, <3>1, Zenon DEF Parents, Directories, Provider!OfFiles
  <2> QED  BY <2>1
<1>16. \A x \in t.openedFiles : x.request # i
  BY <1>11, <1>12 DEF Orderly, OpenedWell
<1>17. \A g \in Provider!Handles : t.handles[g] # i
  BY <1>11, <1>12, <1>13 DEF Orderly, Accounted
<1>18. \A j \in DOMAIN t.wire : t.wire[j].h = h => t.wire[j].does \notin Provider!Closes
  <2>1. op.stage # "done"
    BY <1>7 DEF Provider!OfFiles
  <2>2. t.ops[i].on # 0 /\ t.ops[i].stage # "done" /\ t.handles[h] = t.ops[i].on
    BY <1>5, <1>7, <1>11, <1>12, <2>1
  <2> QED  BY <1>2, <1>10, <1>13, <1>14, <2>2, FileHandle
<1>19. \A q \in t.openedFiles : q.request = op.on => t.handles[q.handle] = q.request
  BY <1>3, <1>5, <1>7, <1>11 DEF h
<1>20. t.handles[h] = op.on /\ op.on # 0 /\ op.left >= 1 /\ AskedOf(op, does, op.on, op.left)
       /\ [request |-> op.on, handle |-> h] \in t.openedFiles
  BY <1>2, <1>5, <1>6, <1>7, <1>11
<1> QED  BY <1>2, <1>10, <1>11, <1>12, <1>13, <1>14, <1>15, <1>16, <1>17, <1>18, <1>19, <1>20 DEF Begins, h

(* RequestOfFile keeps the order.                                           *)
LEMMA RequestOfFileKeeps ==
  ASSUME Orderly(f, {}), NEW does, NEW o \in f.openedFiles, NEW n \in 1..Chunks, Provider!RequestOfFile(does, o, n)
  PROVE  Orderly(f', {})
<1> DEFINE l == Len(f.ops)
           i == l + 1
           b == Provider!Operation(does, 0, 0)
           op == Asked(does, o.request, n)
           t == [f EXCEPT !.ops = f.ops \o <<op>>]
           h == o.handle
<1>1. /\ does \in Provider!OfFiles /\ Provider!Idle(o)
      /\ LET t2 == [f EXCEPT !.ops = Append(@, [b EXCEPT !.on = o.request, !.left = n])]
         IN  f' = IF does = "write" THEN Provider!SendAll(t2, i, "write", h, n) ELSE Provider!Ask(t2, i, does, h)
  BY DEF Provider!RequestOfFile
<1>2. n \in Nat /\ n >= 1
  BY FilesAssumption DEF Provider!ProviderAssumption
<1>3. f \in FspStates /\ o.request \in Nat
  BY DEF Orderly, FspStates, OpenedFiles
<1>4. AskedOf(op, does, o.request, n)
  BY <1>1, <1>2, <1>3, AskedIs
<1>5. [b EXCEPT !.on = o.request, !.left = n] = op
  <2>1. [b EXCEPT !.on = o.request, !.left = n] = [[b EXCEPT !.on = o.request] EXCEPT !.left = n]
    BY DEF Provider!Operation
  <2> QED  BY <2>1 DEF Asked
<1>6. Append(f.ops, op) = f.ops \o <<op>>
  BY <1>3, <1>4, OneAppended DEF AskedOf
<1> HIDE DEF b, op
<1>7. f' = IF does = "write" THEN Provider!SendAll(t, i, "write", h, n) ELSE Provider!Ask(t, i, does, h)
  BY <1>1, <1>5, <1>6
<1>8. Begins(t, op, does, h, i)
  BY <1>1, <1>2, FileBegins DEF op
<1> HIDE DEF t, i, h
<1>9. /\ op \in ChainOps /\ op.does = does /\ op.size = 0 /\ op.parent = 0 /\ op.stage = does /\ op.source = 0 /\ op.target = 0
      /\ op.left = n /\ op.entries = <<>> /\ ~op.failed /\ op.answers = 0 /\ op.on = o.request /\ op.content = <<>>
  BY <1>4 DEF AskedOf
<1>10. /\ Orderly(t, {i}) /\ i \in DOMAIN t.ops /\ t \in FspStates /\ t.ops[i] = op /\ op.on # 0 /\ h \in Numbers /\ h # 0
       /\ t.handles[h] = op.on /\ [request |-> op.on, handle |-> h] \in t.openedFiles
       /\ \A q \in t.openedFiles : q.request = op.on => t.handles[q.handle] = q.request
       /\ \A k \in DOMAIN t.wire : t.wire[k].of # i
       /\ \A j \in DOMAIN t.wire : t.wire[j].h = h => t.wire[j].does \notin Provider!Closes
       /\ \A j \in DOMAIN t.ops : t.ops[j].parent # i
       /\ \A x \in t.openedFiles : x.request # i
       /\ \A g \in Provider!Handles : t.handles[g] # i
  BY <1>8 DEF Begins
<1>11. does \in {"write", "read", "close"}
  BY <1>1 DEF Provider!OfFiles
<1>12. Local(op)
  BY <1>2, <1>9, <1>10, <1>11 DEF Local, StageFits, Holding, Told, Copied, Born, Directories, Provider!OfFiles
<1>13. CASE does = "write"
  <2> DEFINE q == Sending(op, "write", n)
  <2>1. q = op
    BY <1>9, <1>13 DEF Sending, ChainOps
  <2> HIDE DEF q
  <2>2. AsksAll(t, i, q, h, n)
    BY <1>2, <1>9, <1>10, <1>12, <1>13, <2>1 DEF AsksAll, Many
  <2>3. Put(t, i, op) = t
    BY <1>10, PutSame
  <2>4. "write" \in Many /\ q = Sending(op, "write", n)
    BY DEF Many, q
  <2>5. Orderly(Provider!SendAll(Put(t, i, op), i, "write", h, n), {})
    BY <1>2, <1>9, <1>10, <2>2, <2>4, SendAllOf
  <2> QED  BY <1>7, <1>13, <2>3, <2>5
<1>14. CASE does \in {"read", "close"}
  <2> DEFINE q == [op EXCEPT !.stage = does]
             x == Request(q, i, h)
  <2>1. q = op
    BY <1>9 DEF ChainOps
  <2>2. x.does = does /\ x.h = h /\ x.of = i
    BY <1>9, <2>1 DEF Request
  <2> HIDE DEF q, x
  <2>3. Matches(x, q, t.openedFiles)
    BY <1>9, <1>10, <1>14, <2>1, <2>2 DEF Matches
  <2>4. Asking(t, i, q, h)
    <3>1. does \in OneRequest /\ does # "done"
      BY <1>14 DEF OneRequest
    <3> QED  BY <1>9, <1>10, <1>12, <2>1, <2>3, <3>1 DEF Asking, x
  <2>5. does \in OneRequest /\ q = [t.ops[i] EXCEPT !.stage = does]
    BY <1>10, <1>14 DEF OneRequest, q
  <2>6. Orderly(Provider!Ask(t, i, does, h), {})
    BY <1>10, <2>4, <2>5, AskHere
  <2> QED  BY <1>7, <1>14, <2>6
<1> QED  BY <1>11, <1>13, <1>14

(* A directory with its entries. *)
Filling(t, i, name, n) == [t EXCEPT !.ops[i].stage = name, !.ops[i].left = n]

(* An operation is at a stage with many requests where it is.               *)
LEMMA FillingInPlace ==
  ASSUME NEW t \in FspStates, NEW i \in DOMAIN t.ops, NEW name, NEW n
  PROVE  Filling(t, i, name, n) = Put(t, i, Sending(t.ops[i], name, n))
<1> DEFINE op == t.ops[i]
           q == [op EXCEPT !.stage = name]
           a == [t.ops EXCEPT ![i] = q]
<1>1. t.ops \in Seq(ChainOps) /\ op \in ChainOps
  BY DEF FspStates
<1>2. [t EXCEPT !.ops[i].stage = name] = [t EXCEPT !.ops = a]
  OBVIOUS
<1>3. a[i] = q /\ \A x : [a EXCEPT ![i] = x] = [t.ops EXCEPT ![i] = x]
  BY <1>1
<1> HIDE DEF a, q, op
<1> DEFINE u == [t EXCEPT !.ops = a]
<1>4. u.ops = a /\ \A x : [u EXCEPT !.ops = x] = [t EXCEPT !.ops = x]
  BY Zenon DEF FspStates
<1> HIDE DEF u
<1>5. [u EXCEPT !.ops[i].left = n] = [u EXCEPT !.ops = [u.ops EXCEPT ![i] = [u.ops[i] EXCEPT !.left = n]]]
  OBVIOUS
<1>6. [u EXCEPT !.ops[i].left = n] = [t EXCEPT !.ops = [t.ops EXCEPT ![i] = [q EXCEPT !.left = n]]]
  BY <1>3, <1>4, <1>5
<1>7. [t EXCEPT !.ops[i].stage = name, !.ops[i].left = n] = [u EXCEPT !.ops[i].left = n]
  BY <1>2 DEF u
<1> QED  BY <1>6, <1>7 DEF Put, Sending, Filling, q, op

Entries(entries, copy, i) ==
  [k \in 1..Len(entries) |-> Provider!Operation(Provider!Of(entries[k], copy), Provider!Size(entries[k]), i)]

(* The operations of the entries of a directory.                            *)
LEMMA EntriesAre ==
  ASSUME NEW entries \in Seq(EntryKinds), NEW copy \in BOOLEAN, NEW i \in Nat, i # 0
  PROVE  LET more == Entries(entries, copy, i) IN
         /\ more \in Seq(ChainOps) /\ DOMAIN more = 1..Len(entries) /\ Len(more) = Len(entries)
         /\ \A k \in 1..Len(entries) :
              /\ Starts(more[k]) /\ more[k].parent = i /\ more[k].stage = Provider!First(Provider!Of(entries[k], copy))
              /\ more[k].stage # "done"
<1> DEFINE more == Entries(entries, copy, i)
<1>1. ASSUME NEW k \in 1..Len(entries)
      PROVE  /\ Starts(more[k]) /\ more[k].parent = i /\ more[k].stage = Provider!First(Provider!Of(entries[k], copy))
             /\ more[k].stage # "done" /\ more[k] \in ChainOps
  <2> DEFINE does == Provider!Of(entries[k], copy)
             size == Provider!Size(entries[k])
             o == Provider!Operation(does, size, i)
  <2>1. more[k] = o
    BY DEF Entries
  <2>2. does \in {"copyFile", "copyDirectory", "copyLink", "removeDirectory", "removeFile"}
    BY DEF Provider!Of
  <2>3. size \in 0..Chunks
    BY FilesAssumption DEF Provider!ProviderAssumption, Provider!Size
  <2> HIDE DEF does, size
  <2>4. does \in Chains /\ does \notin Provider!OfFiles
    BY <2>2 DEF Chains, Provider!OfFiles
  <2>5. /\ o \in ChainOps /\ o.does = does /\ o.parent = i /\ o.stage = Provider!First(does)
        /\ o.source = 0 /\ o.target = 0 /\ o.on = 0
    BY <2>3, <2>4, OperationIs
  <2>6. Local(o)
    BY <2>2, <2>3, <2>4, BornLocal
  <2> HIDE DEF o
  <2>7. Starts(o)
    BY <2>2, <2>4, <2>5, <2>6, FirstIs DEF Starts
  <2>8. o.stage # "done"
    BY <2>7 DEF Starts, OneRequest
  <2> QED  BY <2>1, <2>5, <2>7, <2>8 DEF does
<1>2. DOMAIN more = 1..Len(entries) /\ Len(entries) \in Nat
  BY DEF Entries
<1>3. more \in [1..Len(entries) -> ChainOps]
  BY <1>1, <1>2 DEF Entries
<1> HIDE DEF more
<1>4. more \in Seq(ChainOps) /\ Len(more) = Len(entries)
  BY <1>2, <1>3
<1> QED  BY <1>1, <1>2, <1>4 DEF more

(* Children is the directory waiting and its entries beginning.             *)
LEMMA ChildrenIs ==
  ASSUME NEW t \in FspStates, NEW i \in DOMAIN t.ops, i \in Nat, i # 0, t.ops[i].entries # <<>>, NEW n, n = Len(t.ops[i].entries),
         NEW more, more = Entries(t.ops[i].entries, t.ops[i].does = "copyDirectory", i)
  PROVE  Provider!Children(t, i) = Begun(Put(t, i, Sending(t.ops[i], "children", n)), more)
<1> DEFINE op == t.ops[i]
           es == op.entries
           copy == op.does = "copyDirectory"
           l == Len(t.ops)
           p == Filling(t, i, "children", n)
           z == Put(t, i, Sending(op, "children", n))
           does == [k \in 1..n |-> Provider!Of(es[k], copy)]
           ops2 == [k \in 1..n |-> Provider!Operation(does[k], Provider!Size(es[k]), i)]
           w2 == [k \in 1..n |-> Provider!FirstRequest(does[k], l + k)]
<1>1. t.ops \in Seq(ChainOps) /\ op \in ChainOps
  BY DEF FspStates
<1>2. es \in Seq(EntryKinds) /\ n \in Nat /\ copy \in BOOLEAN /\ l \in Nat
  BY <1>1 DEF ChainOps
<1>3. Provider!Children(t, i) = [p EXCEPT !.ops = @ \o ops2, !.wire = @ \o w2]
  BY DEF Provider!Children, Filling
<1>4. p = z
  BY FillingInPlace
<1>5. Sending(op, "children", n) \in ChainOps
  BY <1>1, <1>2 DEF Sending, ChainOps, Stages
<1>6. IsPut(z, t, i, Sending(op, "children", n))
  BY <1>5, PutFields
<1> HIDE DEF p
<1>7. z \in FspStates /\ Len(z.ops) = l /\ z.ops \in Seq(ChainOps) /\ DOMAIN z.ops = DOMAIN t.ops
  <2>1. z \in FspStates /\ DOMAIN z.ops = DOMAIN t.ops
    BY <1>6 DEF IsPut
  <2>2. z.ops \in Seq(ChainOps)
    BY <2>1 DEF FspStates
  <2>3. DOMAIN z.ops = 1..Len(z.ops) /\ DOMAIN t.ops = 1..l /\ Len(z.ops) \in Nat
    BY <1>1, <2>2
  <2>4. Len(z.ops) = l
    <3> HIDE DEF z, l
    <3>1. 1..Len(z.ops) = 1..l
      BY <2>1, <2>3
    <3>2. Len(z.ops) \in 0..l /\ l \in 0..Len(z.ops)
      BY <1>2, <2>3, <3>1
    <3> QED  BY <1>2, <2>3, <3>2
  <2> QED  BY <2>1, <2>2, <2>4
<1>8. ops2 = more
  <2>1. \A k \in 1..n : does[k] = Provider!Of(es[k], copy)
    OBVIOUS
  <2> QED  BY <2>1 DEF Entries
<1>9. w2 = Firsts(more, l)
  <2>1. /\ more \in Seq(ChainOps) /\ DOMAIN more = 1..n /\ Len(more) = n
        /\ \A k \in 1..n : more[k].stage = Provider!First(Provider!Of(es[k], copy))
    <3>1. more = Entries(es, copy, i) /\ n = Len(es)
      OBVIOUS
    <3>2. es \in Seq(EntryKinds) /\ copy \in BOOLEAN
      BY <1>2
    <3> HIDE DEF es, copy
    <3> QED  BY <3>1, <3>2, EntriesAre
  <2>2. \A k \in 1..n : Provider!FirstRequest(does[k], l + k) = [does |-> more[k].stage, of |-> l + k, h |-> 0, chunk |-> 0]
    BY <2>1 DEF Provider!FirstRequest, Provider!Unopened
  <2> HIDE DEF does
  <2> QED  BY <2>1, <2>2 DEF Firsts
<1> HIDE DEF z, ops2, w2
<1>10. [z EXCEPT !.ops = @ \o ops2, !.wire = @ \o w2] = [[z EXCEPT !.ops = z.ops \o more] EXCEPT !.wire = z.wire \o Firsts(more, l)]
  BY <1>7, <1>8, <1>9 DEF FspStates
<1>11. [z EXCEPT !.ops = z.ops \o more].wire = z.wire
  BY <1>7 DEF FspStates
<1>12. Begun(z, more) = [[z EXCEPT !.ops = z.ops \o more] EXCEPT !.wire = z.wire \o Firsts(more, l)]
  BY <1>7, <1>11 DEF Begun, More
<1> QED  BY <1>3, <1>4, <1>10, <1>12 DEF z

(* The size of an interval.                                                 *)
LEMMA IntervalSize ==
  ASSUME NEW l \in Nat, NEW n \in Nat
  PROVE  Cardinality((l + 1)..(l + n)) = n
<1>1. Cardinality((l + 1)..(l + n)) = IF (l + 1) > (l + n) THEN 0 ELSE (l + n) - (l + 1) + 1
  BY FS_Interval
<1> QED  BY <1>1

(* All the entries at once. *)
LEMMA ChildrenKeeps ==
  ASSUME NEW u, NEW r, NEW i, Single(u, f.handles, r, i), r.does = "readdir", f.ops[i].does \in Directories
  PROVE  Orderly(Provider!Children(u, i), {})
<1> DEFINE op == f.ops[i]
           es == op.entries
           n == Len(es)
           copy == op.does = "copyDirectory"
           more == Entries(es, copy, i)
           q == Sending(op, "children", n)
           p == Put(u, i, q)
           v == Begun(p, more)
           l == Len(u.ops)
<1>1. /\ Orderly(u, {i}) /\ u \in FspStates /\ u.ops = f.ops /\ u.handles = f.handles /\ u.openedFiles = f.openedFiles
      /\ i \in DOMAIN u.ops /\ i \in Nat /\ i # 0 /\ op \in ChainOps /\ Local(op) /\ op.stage = "readdir" /\ u.ops[i] = op
      /\ ~op.failed /\ (op.source # 0 => f.handles[op.source] = i)
      /\ \A x \in f.openedFiles : x.request # i
      /\ \A k \in DOMAIN u.wire : u.wire[k].of # i
      /\ \A g \in Provider!Handles : f.handles[g] = i => op.source = g \/ op.target = g
      /\ \A j \in DOMAIN f.ops : f.ops[j].parent # i
  BY DEF Single
<1>2. Parents(f.ops, i, {i}) /\ op.parent # i /\ u.ops \in Seq(ChainOps)
  BY <1>1, OpOf
<1>3. op.source # 0 /\ op.target = 0 /\ op.on = 0 /\ op.content = <<>> /\ op.answers = 0
  BY <1>1 DEF Local, Holding, Born, Told, Copied, Provider!OfFiles, Directories
<1>4. CASE es = <<>>
  <2>1. Provider!Children(u, i) = Provider!Finally(u, i)
    BY <1>1, <1>4 DEF Provider!Children
  <2>2. f.ops[i].does \notin {"list", "copyFile"} /\ r.does \notin {"closeSource", "closeTarget"}
    BY DEF Directories
  <2> QED  BY <2>1, <2>2, FinallySame
<1>5. CASE es # <<>>
  <2>1. es \in Seq(EntryKinds) /\ n \in Nat /\ n >= 1 /\ copy \in BOOLEAN
    BY <1>1, <1>5 DEF ChainOps
  <2>2. Provider!Children(u, i) = v
    <3>1. /\ i \in DOMAIN u.ops /\ i \in Nat /\ i # 0 /\ u.ops[i].entries # <<>> /\ n = Len(u.ops[i].entries)
          /\ more = Entries(u.ops[i].entries, u.ops[i].does = "copyDirectory", i) /\ q = Sending(u.ops[i], "children", n)
          /\ u \in FspStates
      BY <1>1, <1>5
    <3> HIDE DEF n, more, q
    <3> QED  BY <3>1, ChildrenIs
  <2>3. /\ more \in Seq(ChainOps) /\ DOMAIN more = 1..n /\ Len(more) = n
        /\ \A k \in 1..n : Starts(more[k]) /\ more[k].parent = i /\ more[k].stage # "done"
    <3> HIDE DEF es, copy
    <3> QED  BY <1>1, <2>1, EntriesAre
  <2> HIDE DEF op, es, n, copy, more
  <2>4. /\ q \in ChainOps /\ q.stage = "children" /\ q.does = op.does /\ q.size = op.size /\ q.parent = op.parent
        /\ q.source = op.source /\ q.target = op.target /\ q.left = n /\ q.entries = op.entries
        /\ q.failed = op.failed /\ q.answers = op.answers /\ q.on = op.on /\ q.content = op.content
    BY <1>1, <2>1 DEF Sending, ChainOps, Stages
  <2> HIDE DEF q
  <2>5. Changeable(u, {i}, i, q)
    <3>1. (q.parent # 0 /\ u.ops[q.parent].stage # "children" /\ ~u.ops[q.parent].failed) => (q.stage = "done" /\ ~q.failed)
      BY <1>1, <1>2, <2>4 DEF Parents, op
    <3> QED  BY <1>1, <1>3, <2>4, <3>1 DEF Changeable
  <2>6. Orderly(p, {i})
    <3>1. i \in {i}
      OBVIOUS
    <3> QED  BY <1>1, <2>4, <2>5, <3>1, Change DEF Put
  <2>7. IsPut(p, u, i, q)
    BY <1>1, <2>4, PutFields
  <2>8. /\ p \in FspStates /\ p.wire = u.wire /\ p.handles = u.handles /\ p.openedFiles = u.openedFiles
        /\ DOMAIN p.ops = DOMAIN u.ops /\ p.ops[i] = q /\ \A j \in DOMAIN u.ops : j # i => p.ops[j] = u.ops[j]
        /\ p.ops = [u.ops EXCEPT ![i] = q]
    BY <2>7 DEF IsPut
  <2> HIDE DEF p
  <2>9. Beginning(p, {i}, more)
    <3>1. p.ops[i].parent = 0
      <4>1. \A k \in DOMAIN op.entries : op.parent = 0
        BY <1>1, <1>5 DEF Local, Born, es
      <4> QED  BY <1>1, <1>5, <2>4, <2>8 DEF Local, Born, es
    <3>2. ASSUME NEW k \in DOMAIN more
          PROVE  more[k].source = 0 /\ more[k].target = 0 /\ more[k].parent = i /\ more[k].on = 0
      BY <2>3, <3>2 DEF Starts
    <3> QED  BY <1>1, <2>4, <2>8, <3>1, <3>2 DEF Beginning, op
  <2>10. Orderly(v, {i})
    <3>1. {i} \subseteq DOMAIN p.ops
      BY <1>1, <2>8
    <3> QED  BY <2>3, <2>6, <2>9, <3>1, BeginAll
  <2>11. /\ Len(p.ops) = l /\ l \in Nat /\ DOMAIN u.ops = 1..l /\ p.ops \in Seq(ChainOps)
    <3>1. p.ops \in Seq(ChainOps)
      BY <2>8 DEF FspStates
    <3>2. Len([u.ops EXCEPT ![i] = q]) = Len(u.ops)
      BY <1>1, <1>2, <2>4
    <3> QED  BY <1>2, <2>8, <3>1, <3>2
  <2>12. v.ops = p.ops \o more /\ v.handles = f.handles /\ v.openedFiles = f.openedFiles
    <3> DEFINE a == [p EXCEPT !.ops = p.ops \o more]
               fs == Firsts(more, Len(p.ops))
    <3>1. p.ops \o more \in Seq(ChainOps)
      BY <2>3, <2>11
    <3>2. a \in FspStates /\ a.ops = p.ops \o more /\ a.handles = p.handles /\ a.openedFiles = p.openedFiles
      BY <2>8, <3>1 DEF FspStates
    <3>3. fs \in Seq(Sent)
      <4>1. Len(p.ops) \in Nat
        BY <2>11
      <4> QED  BY <2>3, <4>1, FirstsAre
    <3>4. v = More(a, fs)
      BY DEF Begun
    <3> HIDE DEF a, fs, v
    <3>5. IsMore(v, a, fs)
      BY <3>2, <3>3, <3>4, MoreFields
    <3> QED  BY <1>1, <2>8, <3>2, <3>5 DEF IsMore
  <2> HIDE DEF v
  <2>13. /\ DOMAIN v.ops = 1..(l + n) /\ v.ops[i] = q /\ i \in 1..l
         /\ \A j \in 1..l : j # i => v.ops[j] = f.ops[j]
         /\ \A j \in (l + 1)..(l + n) : v.ops[j].parent = i /\ v.ops[j].stage # "done"
    <3>1. DOMAIN p.ops = 1..l
      BY <2>8, <2>11
    <3>2. \A j \in 1..l : v.ops[j] = p.ops[j]
      BY <2>3, <2>11, <2>12
    <3>3. Len(more) = n /\ n \in Nat /\ DOMAIN more = 1..n
      BY <2>1, <2>3
    <3>4. /\ DOMAIN v.ops = 1..(Len(p.ops) + Len(more))
          /\ \A j \in DOMAIN v.ops :
               j \notin DOMAIN p.ops => j - Len(p.ops) \in DOMAIN more /\ v.ops[j] = more[j - Len(p.ops)]
      <4>1. more \in Seq(ChainOps)
        BY <2>3
      <4> HIDE DEF l, n, more
      <4>2. p.ops \in Seq(ChainOps) /\ v.ops = p.ops \o more
        BY <2>11, <2>12
      <4> DEFINE w == p.ops
      <4> HIDE DEF w
      <4>3. w \in Seq(ChainOps) /\ v.ops = w \o more /\ w = p.ops
        BY <4>2 DEF w
      <4>4. /\ DOMAIN (w \o more) = 1..(Len(w) + Len(more))
            /\ \A k \in DOMAIN (w \o more) :
                 k \notin DOMAIN w => k - Len(w) \in DOMAIN more /\ (w \o more)[k] = more[k - Len(w)]
        BY <4>1, <4>3, JoinedOps
      <4> QED  BY <4>3, <4>4
    <3>5. DOMAIN v.ops = 1..(l + n)
      <4> HIDE DEF l, n, more
      <4> QED  BY <3>3, <3>4, <2>11
    <3>6. \A j \in (l + 1)..(l + n) : v.ops[j] = more[j - l] /\ j - l \in 1..n
      <4> HIDE DEF l, n, more
      <4> TAKE j \in (l + 1)..(l + n)
      <4>1. j \in 1..(l + n) /\ j \notin 1..l /\ j - l \in 1..n
        BY <2>11, <3>3
      <4>2. j \in DOMAIN v.ops /\ j \notin DOMAIN p.ops
        BY <4>1, <3>1, <3>5
      <4> QED  BY <4>1, <4>2, <2>11, <3>4
    <3> QED  BY <1>1, <2>3, <2>8, <2>11, <3>2, <3>5, <3>6
  <2>14. Undone(v.ops, i) = (l + 1)..(l + n)
    <3>1. \A j \in 1..l : v.ops[j].parent # i
      BY <1>1, <1>2, <2>4, <2>11, <2>13
    <3> QED  BY <2>1, <2>11, <2>13, <3>1 DEF Undone
  <2>15. Cardinality(Undone(v.ops, i)) = n
    BY <2>1, <2>11, <2>14, IntervalSize
  <2>16. Settled(v, i)
    <3>1. Local(q)
      BY <1>1, <1>3, <2>1, <2>4 DEF Local, StageFits, Holding, Told, Copied, Born, Many, op
    <3>2. Waits(v.ops, v.wire, i)
      BY <2>4, <2>13, <2>15 DEF Waits, OneRequest
    <3>3. \A j \in DOMAIN v.ops : v.ops[j].parent = i => v.ops[j].stage # "done" \/ ~v.ops[j].failed
      <4>1. \A j \in 1..l : v.ops[j].parent # i
        BY <1>1, <1>2, <2>4, <2>11, <2>13
      <4>2. ASSUME NEW j \in 1..(l + n), v.ops[j].parent = i PROVE v.ops[j].stage # "done"
        <5>1. j \in (l + 1)..(l + n)
          BY <2>1, <2>11, <4>1, <4>2
        <5> QED  BY <2>13, <5>1
      <4> QED  BY <2>13, <4>2
    <3>4. \A h \in Provider!Handles : v.handles[h] = i => q.source = h
      BY <1>1, <1>3, <2>4, <2>12, NoHandle
    <3>5. i \in DOMAIN v.ops
      BY <2>1, <2>11, <2>13
    <3>6. q.does \in Directories
      BY <2>4 DEF op
    <3> QED  BY <1>1, <1>3, <2>4, <2>12, <2>13, <3>1, <3>2, <3>3, <3>4, <3>5, <3>6 DEF Settled, Directories
  <2>17. Orderly(v, {i} \ {i})
    BY <2>10, <2>16, PutDown
  <2>18. {i} \ {i} = {}
    OBVIOUS
  <2> QED  BY <2>2, <2>17, <2>18
<1> QED  BY <1>4, <1>5

(* OnEndOfDirectory keeps the order: the listing is answered, or the        *)
(* entries begin.                                                           *)
LEMMA OnEndOfDirectoryKeeps ==
  ASSUME Orderly(f, {}), Provider!OnEndOfDirectory
  PROVE  Orderly(f', {})
<1> DEFINE i == Provider!R.of
           r == Provider!R
           u == Provider!Served
           op == f.ops[i]
           q == Paid(op)
<1>1. /\ f.wire # <<>> /\ r.does = "readdir"
      /\ f' = IF op.does = "list" THEN Provider!Finally(Provider!Answer(u, i), i) ELSE Provider!Children(u, i)
  BY DEF Provider!OnEndOfDirectory, Provider!Replied, Provider!Op
<1>2. AtHand(f, f.handles, u, r, i)
  BY <1>1, Passed DEF Provider!Opens, Provider!Closes
<1>3. Single(u, f.handles, r, i)
  BY <1>1, <1>2, SingleCame DEF OneRequest
<1> HIDE DEF op, u, i, r
<1>4. u \in FspStates /\ i \in DOMAIN u.ops /\ u.ops[i] = op /\ op \in ChainOps /\ Local(op) /\ op.stage = "readdir"
  BY <1>1, <1>3 DEF Single, op
<1>5. op.does \in Directories \cup {"list"} /\ op.answers = 0
  BY <1>4 DEF Local, StageFits, Told
<1>6. CASE op.does = "list"
  <2>1. Provider!Answer(u, i) = Put(u, i, q)
    BY <1>4, PaidInPlace
  <2>2. /\ q \in ChainOps /\ q.stage = op.stage /\ q.does = op.does /\ q.size = op.size /\ q.parent = op.parent
        /\ q.source = op.source /\ q.target = op.target /\ q.left = op.left /\ q.entries = op.entries
        /\ q.failed = op.failed /\ q.answers = op.answers + 1 /\ q.on = op.on /\ q.content = op.content
    BY <1>4, PaidIs
  <2> HIDE DEF q
  <2>3. Thereby(op, q)
    BY <1>5, <1>6, <2>2 DEF Thereby
  <2>4. Orderly(Provider!Finally(Put(u, i, q), i), {})
    BY <1>1, <1>3, <2>3, FinallyThereby DEF op
  <2> QED  BY <1>1, <1>6, <2>1, <2>4
<1>7. CASE op.does # "list"
  <2>1. Orderly(Provider!Children(u, i), {})
    BY <1>1, <1>3, <1>5, <1>7, ChildrenKeeps DEF op
  <2> QED  BY <1>1, <1>7, <2>1
<1> QED  BY <1>6, <1>7

-----------------------------------------------------------------------------
(* What the invariant says, and that it holds.                             *)
(* It holds at the beginning. *)
LEMMA ProviderBegins ==
  ASSUME Provider!Init
  PROVE  Orderly(f, {})
<1>1. /\ f.ops = <<>> /\ f.wire = <<>> /\ f.handles = [h \in Provider!Handles |-> 0] /\ f.openedFiles = {} /\ f.mounted = TRUE
      /\ f \in FspStates
  BY DEF Provider!Init, FspStates
<1>2. DOMAIN f.ops = {} /\ DOMAIN f.wire = {}
  BY <1>1
<1>3. /\ AllLocal(f.ops, {}) /\ AllWait(f.ops, f.wire, {}) /\ Owned(f.ops, f.handles, {}) /\ WireOwned(f.ops, f.wire, f.handles)
      /\ WireFits(f.ops, f.wire, f.openedFiles) /\ WireOrder(f.wire) /\ AllParents(f.ops, {}) /\ InTurn(f.ops)
  BY <1>2 DEF AllLocal, AllWait, Owned, WireOwned, WireFits, WireOrder, AllParents, InTurn
<1>4. OpenedWell(f.ops, f.handles, f.openedFiles, {}) /\ Accounted(f.ops, f.wire, f.handles, f.openedFiles, {})
  BY <1>1 DEF OpenedWell, Accounted
<1> QED  BY <1>1, <1>3, <1>4 DEF Orderly

(* What is sent on a handle gets there before the handle is closed. *)
LEMMA OrderlyOwns ==
  ASSUME Orderly(f, {})
  PROVE  Provider!HandlesAreTheirOwn
<1>1. WireOwned(f.ops, f.wire, f.handles) /\ f \in FspStates
  BY DEF Orderly
<1>2. ASSUME NEW k \in DOMAIN f.wire, f.wire[k].h # 0
      PROVE  /\ f.handles[f.wire[k].h] = Provider!Owner(f.wire[k])
             /\ \A j \in 1..(k - 1) : f.wire[j].h = f.wire[k].h => f.wire[j].does \notin Provider!Closes
  <2>1. /\ f.handles[f.wire[k].h] = OwnerOf(f.ops, f.wire[k])
        /\ \A j \in DOMAIN f.wire : (j < k /\ f.wire[j].h = f.wire[k].h) => f.wire[j].does \notin Provider!Closes
    BY <1>1, <1>2 DEF WireOwned
  <2>2. f.handles[f.wire[k].h] = Provider!Owner(f.wire[k])
    BY <2>1 DEF OwnerOf, Provider!Owner
  <2>3. \A j \in 1..(k - 1) : j \in DOMAIN f.wire /\ j < k
    <3>1. f.wire \in Seq(Sent)
      BY <1>1 DEF FspStates
    <3> QED  BY <3>1
  <2> QED  BY <2>1, <2>2, <2>3
<1> QED  BY <1>2 DEF Provider!HandlesAreTheirOwn, Provider!Unopened

(* Each request is answered once. *)
LEMMA OrderlyAnswers ==
  ASSUME Orderly(f, {})
  PROVE  Provider!AnsweredOnce
<1>1. \A i \in DOMAIN f.ops : Told(f.ops[i])
  BY DEF Orderly, AllLocal, Local
<1> QED  BY <1>1 DEF Provider!AnsweredOnce, Told

(* The state has its type. *)
LEMMA OrderlyTypes ==
  ASSUME Orderly(f, {})
  PROVE  Provider!TypeOK
<1>1. /\ f \in FspStates /\ Accounted(f.ops, f.wire, f.handles, f.openedFiles, {}) /\ AllParents(f.ops, {})
  BY DEF Orderly
<1>2. /\ f.ops \in Seq(ChainOps) /\ f.handles \in [Provider!Handles -> Nat] /\ f.mounted = TRUE
  BY <1>1 DEF FspStates
<1>3. Len(f.ops) \in Nat /\ DOMAIN f.ops = 1..Len(f.ops)
  BY <1>2
<1>4. f.handles \in [Provider!Handles -> 0..Len(f.ops)]
  <2>1. \A h \in Provider!Handles : f.handles[h] # 0 => f.handles[h] \in DOMAIN f.ops
    BY <1>1 DEF Accounted
  <2>2. \A h \in Provider!Handles : f.handles[h] \in 0..Len(f.ops)
    BY <1>2, <1>3, <2>1
  <2> QED  BY <1>2, <2>2
<1>5. ASSUME NEW i \in DOMAIN f.ops
      PROVE  /\ f.ops[i].source \in Provider!Handles \cup {Provider!Unopened}
             /\ f.ops[i].target \in Provider!Handles \cup {Provider!Unopened}
             /\ f.ops[i].parent \in 0..(i - 1) /\ f.ops[i].left \in Nat
  <2>1. f.ops[i] \in ChainOps
    BY <1>2
  <2>2. f.ops[i].parent # 0 => f.ops[i].parent < i
    BY <1>1 DEF AllParents, Parents
  <2>3. f.ops[i].source \in Numbers /\ f.ops[i].target \in Numbers /\ f.ops[i].parent \in Nat /\ f.ops[i].left \in 0..Chunks \cup Nat
    BY <2>1 DEF ChainOps
  <2>4. i \in Nat /\ i >= 1
    BY <1>3
  <2>5. f.ops[i].parent \in 0..(i - 1)
    BY <2>2, <2>3, <2>4
  <2>6. f.ops[i].left \in Nat
    BY <2>1 DEF ChainOps
  <2> QED  BY <2>3, <2>5, <2>6 DEF Numbers, Provider!Unopened
<1> QED  BY <1>2, <1>4, <1>5 DEF Provider!TypeOK

(* A copy that is told to have succeeded is whole. *)
LEMMA OrderlyIsWhole ==
  ASSUME Orderly(f, {})
  PROVE  Provider!SuccessIsWhole
<1>1. /\ AllLocal(f.ops, {}) /\ AllParents(f.ops, {}) /\ WireFits(f.ops, f.wire, f.openedFiles)
  BY DEF Orderly
<1>2. ASSUME NEW i \in DOMAIN f.ops, f.ops[i].stage = "done", ~f.ops[i].failed
      PROVE  /\ f.ops[i].does = "copyFile" => f.ops[i].content = SubSeq(Provider!Whole, 1, f.ops[i].size)
             /\ \A j \in DOMAIN f.ops : f.ops[j].parent = i => (f.ops[j].stage = "done" /\ ~f.ops[j].failed)
  <2>1. Copied(f.ops[i])
    BY <1>1 DEF AllLocal, Local
  <2>2. f.ops[i].does = "copyFile" => f.ops[i].content = SubSeq(Provider!Whole, 1, f.ops[i].size)
    BY <1>2, <2>1 DEF Copied, WholeOf
  <2>3. ASSUME NEW j \in DOMAIN f.ops, f.ops[j].parent = i
        PROVE  f.ops[j].stage = "done" /\ ~f.ops[j].failed
    <3>1. i # 0
      BY DEF Orderly, FspStates
    <3>2. Parents(f.ops, j, {})
      BY <1>1 DEF AllParents
    <3> QED  BY <1>2, <2>3, <3>1, <3>2 DEF Parents
  <2> QED  BY <2>2, <2>3
<1>3. ASSUME NEW k \in DOMAIN f.wire, f.wire[k].does = "rmdir"
      PROVE  \A j \in DOMAIN f.ops : f.ops[j].parent = f.wire[k].of => (f.ops[j].stage = "done" /\ ~f.ops[j].failed)
  <2> DEFINE p == f.wire[k].of
  <2>1. p \in DOMAIN f.ops /\ Matches(f.wire[k], f.ops[p], f.openedFiles)
    BY <1>1 DEF WireFits
  <2>2. p # 0 /\ Local(f.ops[p])
    BY <1>1, <2>1 DEF Orderly, FspStates, AllLocal
  <2>3. f.ops[p].stage = "rmdir"
    BY <1>3, <2>1 DEF Matches
  <2>4. ~f.ops[p].failed
    BY <2>2, <2>3 DEF Local, Holding
  <2> HIDE DEF p
  <2>5. ASSUME NEW j \in DOMAIN f.ops, f.ops[j].parent = p
        PROVE  f.ops[j].stage = "done" /\ ~f.ops[j].failed
    <3>1. Parents(f.ops, j, {})
      BY <1>1 DEF AllParents
    <3> QED  BY <2>2, <2>3, <2>4, <2>5, <3>1 DEF Parents
  <2> QED  BY <2>5 DEF p
<1> QED  BY <1>2, <1>3 DEF Provider!SuccessIsWhole

(* When nothing is asked of the server every chain is over. *)
LEMMA OrderlyIsOver ==
  ASSUME Orderly(f, {}), f.wire = <<>>
  PROVE  \A i \in DOMAIN f.ops : f.ops[i].stage = "done"
<1>1. /\ f \in FspStates /\ AllLocal(f.ops, {}) /\ AllWait(f.ops, f.wire, {}) /\ AllParents(f.ops, {})
  BY DEF Orderly
<1>2. DOMAIN f.wire = {}
  OBVIOUS
<1>3. \A j, n, x : ~OnWire(f.wire, j, n, x)
  BY <1>2 DEF OnWire
<1>4. ASSUME NEW i \in DOMAIN f.ops
      PROVE  f.ops[i].stage \in {"children", "done"}
  <2>1. Waits(f.ops, f.wire, i) /\ Local(f.ops[i]) /\ f.ops[i] \in ChainOps
    BY <1>1 DEF AllWait, AllLocal, FspStates
  <2>2. f.ops[i].stage \notin OneRequest
    BY <1>3, <2>1 DEF Waits
  <2>3. f.ops[i].stage \in Many => f.ops[i].left \in Nat /\ f.ops[i].left >= 1
    BY <2>1 DEF Local, Holding, ChainOps
  <2>4. f.ops[i].stage \notin {"write", "fileStatus"}
    <3> SUFFICES ASSUME f.ops[i].stage \in {"write", "fileStatus"} PROVE FALSE
      OBVIOUS
    <3>1. PICK a \in Nat : \A x \in Nat : OnWire(f.wire, i, f.ops[i].stage, x) <=> (a < x /\ x <= a + f.ops[i].left)
      BY <2>1 DEF Waits, Counting
    <3>2. a + 1 \in Nat /\ a < a + 1 /\ a + 1 <= a + f.ops[i].left
      BY <2>3 DEF Many
    <3>3. OnWire(f.wire, i, f.ops[i].stage, a + 1)
      BY <3>1, <3>2
    <3> QED  BY <1>3, <3>3
  <2>5. f.ops[i].stage # "chunkRead"
    <3> SUFFICES ASSUME f.ops[i].stage = "chunkRead" PROVE FALSE
      OBVIOUS
    <3> DEFINE n == Len(f.ops[i].content)
               m == f.ops[i].size
    <3>1. Copying(f.ops[i], f.wire, i)
      BY <2>1 DEF Waits
    <3>2. f.ops[i].left >= 1 /\ f.ops[i].left \in Nat
      BY <2>3 DEF Many
    <3>3. n \in Nat /\ m \in Nat
      <4>1. f.ops[i].content \in Seq(Nat) /\ m \in Nat
        BY <2>1 DEF ChainOps
      <4> QED  BY <4>1
    <3>4. f.ops[i].left + n = m
      BY <3>1 DEF Copying
    <3>5. PICK a \in Nat : 
             /\ n < a /\ a <= m + 1
             /\ \A x \in Nat : OnWire(f.wire, i, "chunkRead", x) <=> (a <= x /\ x <= m)
             /\ \A x \in Nat : OnWire(f.wire, i, "chunkWrite", x) <=> (n < x /\ x < a)
      BY <3>1 DEF Copying
    <3> HIDE DEF n, m
    <3>6. n < m /\ n + 1 \in Nat
      BY <3>2, <3>3, <3>4
    <3>7. CASE a <= m
      <4>1. OnWire(f.wire, i, "chunkRead", m)
        BY <3>3, <3>5, <3>7
      <4> QED  BY <1>3, <4>1
    <3>8. CASE a > m
      <4>1. OnWire(f.wire, i, "chunkWrite", m)
        BY <3>3, <3>5, <3>6, <3>8
      <4> QED  BY <1>3, <4>1
    <3> QED  BY <3>3, <3>5, <3>7, <3>8
  <2> QED  BY <2>1, <2>2, <2>4, <2>5 DEF ChainOps, Stages, Many
<1>5. ASSUME NEW i \in DOMAIN f.ops, f.ops[i].stage = "children"
      PROVE  \E j \in DOMAIN f.ops : f.ops[j].parent = i /\ f.ops[j].stage = "children"
  <2>1. Waits(f.ops, f.wire, i) /\ Local(f.ops[i]) /\ f.ops[i] \in ChainOps
    BY <1>1 DEF AllWait, AllLocal, FspStates
  <2>2. Cardinality(Undone(f.ops, i)) = f.ops[i].left /\ f.ops[i].left >= 1 /\ f.ops[i].left \in Nat
    BY <1>5, <2>1 DEF Waits, Local, Holding, ChainOps
  <2>3. Undone(f.ops, i) # {}
    <3>1. IsFiniteSet({}) /\ Cardinality({}) = 0
      BY FS_EmptySet
    <3>2. Undone(f.ops, i) = {} => Cardinality(Undone(f.ops, i)) = 0
      BY <3>1, Zenon
    <3>3. Cardinality(Undone(f.ops, i)) # 0
      <4> HIDE DEF Undone
      <4> QED  BY <2>2
    <3> QED  BY <3>2, <3>3
  <2>4. PICK j \in Undone(f.ops, i) : TRUE
    BY <2>3
  <2>5. j \in DOMAIN f.ops /\ f.ops[j].parent = i /\ f.ops[j].stage # "done"
    BY <2>4 DEF Undone
  <2> QED  BY <1>4, <2>5
<1>6. ASSUME NEW i \in DOMAIN f.ops, f.ops[i].stage = "children"
      PROVE  FALSE
  <2>1. PICK j \in DOMAIN f.ops : f.ops[j].parent = i /\ f.ops[j].stage = "children"
    BY <1>5, <1>6
  <2>2. PICK k \in DOMAIN f.ops : f.ops[k].parent = j /\ f.ops[k].stage = "children"
    BY <1>5, <2>1
  <2>3. i # 0 /\ j # 0
    BY <1>1 DEF FspStates
  <2>4. f.ops[j].parent = 0
    BY <1>1, <2>2, <2>3 DEF AllParents, Parents
  <2> QED  BY <2>1, <2>3, <2>4
<1> QED  BY <1>4, <1>6

(* Then the server has no file open but those that the Files app opened. *)
LEMMA OrderlyLeavesNothing ==
  ASSUME Orderly(f, {})
  PROVE  Provider!NothingLeftOpen
<1> SUFFICES ASSUME f.wire = <<>>, NEW h \in Provider!Handles, f.handles[h] # 0
             PROVE  h \in {o.handle : o \in f.openedFiles}
  BY DEF Provider!NothingLeftOpen
<1> DEFINE g == f.handles[h]
<1>1. Accounted(f.ops, f.wire, f.handles, f.openedFiles, {}) /\ AllLocal(f.ops, {})
  BY DEF Orderly
<1>2. /\ g \in DOMAIN f.ops
      /\ \/ f.ops[g].source = h
         \/ f.ops[g].target = h /\ f.ops[g].stage # "done"
         \/ \E k \in DOMAIN f.wire : f.wire[k].of = g /\ f.wire[k].does = "closeSource" /\ f.wire[k].h = h
         \/ [request |-> g, handle |-> h] \in f.openedFiles
  BY <1>1 DEF Accounted
<1> HIDE DEF g
<1>3. f.ops[g].stage = "done" /\ Local(f.ops[g]) /\ DOMAIN f.wire = {}
  BY <1>1, <1>2, OrderlyIsOver DEF AllLocal
<1>4. h # 0
  BY DEF Provider!Handles
<1>5. f.ops[g].source # h
  BY <1>3, <1>4 DEF Local, Holding
<1> QED  BY <1>2, <1>3, <1>5

(* Unmount: no reply comes any more.                                        *)
LEMMA Unmounts ==
  ASSUME Orderly(f, {}), Provider!Unmount
  PROVE  ProviderInv'
<1>1. /\ Provider!SuccessIsWhole /\ Provider!AnsweredOnce /\ Provider!TypeOK
  BY OrderlyIsWhole, OrderlyAnswers, OrderlyTypes
<1>2. /\ f'.mounted = FALSE /\ f'.wire = <<>> /\ f'.openedFiles = {} /\ f'.ops = f.ops /\ f'.handles = f.handles
  <2>1. f \in FspStates /\ f' = [f EXCEPT !.mounted = FALSE, !.wire = <<>>, !.openedFiles = {}]
    BY DEF Orderly, Provider!Unmount
  <2> QED  BY <2>1 DEF FspStates
<1>3. Provider!SuccessIsWhole'
  <2>1. DOMAIN f'.wire = {}
    BY <1>2
  <2> QED  BY <1>1, <1>2, <2>1 DEF Provider!SuccessIsWhole
<1>4. Provider!AnsweredOnce'
  BY <1>1, <1>2 DEF Provider!AnsweredOnce
<1>5. Provider!TypeOK'
  BY <1>1, <1>2 DEF Provider!TypeOK
<1> QED  BY <1>2, <1>3, <1>4, <1>5 DEF ProviderInv

(* A reply of the server. *)
LEMMA RepliesKeep ==
  ASSUME Orderly(f, {}), Provider!Reply, Provider!ProviderAssumption
  PROVE  Orderly(f', {})
<1>1. CASE \E knd \in EntryKinds : Provider!OnLstat(knd)
  BY <1>1, OnLstatKeeps
<1>2. CASE \E copyData \in BOOLEAN : Provider!OnOpenTarget(copyData)
  BY <1>2, OnOpenTargetKeeps
<1>3. CASE \E batch \in Seq(EntryKinds) : Provider!OnReadDirectory(batch)
  BY <1>3, OnReadDirectoryKeeps
<1>4. CASE \E ends \in BOOLEAN : Provider!OnRead(ends)
  BY <1>4, OnReadKeeps
<1>5. CASE Provider!OnReadLink \/ Provider!OnOpenSource \/ Provider!OnChunkRead \/ Provider!OnChunkWrite \/ Provider!OnWrite
  BY <1>5, OnReadLinkKeeps, OnOpenSourceKeeps, OnChunkReadKeeps, OnChunkWriteKeeps, OnWriteKeeps
<1>6. CASE Provider!OnOpenDirectory \/ Provider!OnMakeDirectory \/ Provider!OnFileStatus \/ Provider!OnEndOfDirectory
  BY <1>6, OnOpenDirectoryKeeps, OnMakeDirectoryKeeps, OnFileStatusKeeps, OnEndOfDirectoryKeeps
<1>7. CASE Provider!OnOpen \/ Provider!OnClose \/ Provider!OnLast \/ Provider!OnRemoveDirectory \/ Provider!OnError
  BY <1>7, OnOpenKeeps, OnCloseKeeps, OnLastKeeps, OnRemoveDirectoryKeeps, OnErrorKeeps
<1>8. \A batch \in {<<"file">>, <<"link", "dir">>} : batch \in Seq(EntryKinds)
  BY DEF Provider!ProviderAssumption, EntryKinds
<1>9. \/ \E knd \in EntryKinds : Provider!OnLstat(knd)
      \/ \E copyData \in BOOLEAN : Provider!OnOpenTarget(copyData)
      \/ \E batch \in Seq(EntryKinds) : Provider!OnReadDirectory(batch)
      \/ \E ends \in BOOLEAN : Provider!OnRead(ends)
      \/ Provider!OnReadLink \/ Provider!OnOpenSource \/ Provider!OnChunkRead \/ Provider!OnChunkWrite \/ Provider!OnWrite
      \/ Provider!OnOpenDirectory \/ Provider!OnMakeDirectory \/ Provider!OnFileStatus \/ Provider!OnEndOfDirectory
      \/ Provider!OnOpen \/ Provider!OnClose \/ Provider!OnLast \/ Provider!OnRemoveDirectory \/ Provider!OnError
  BY <1>8 DEF Provider!Reply, EntryKinds
<1> QED  BY <1>1, <1>2, <1>3, <1>4, <1>5, <1>6, <1>7, <1>9

(* Every step of the provider keeps its invariant.                          *)
LEMMA ProviderNext ==
  ASSUME Orderly(f, {}), Provider!Next
  PROVE  ProviderInv'
<1>1. Provider!ProviderAssumption
  BY FilesAssumption
<1>2. CASE Provider!Reply
  BY <1>1, <1>2, RepliesKeep DEF ProviderInv
<1>3. CASE Provider!RequestRefused
  BY <1>3, RequestRefusedKeeps DEF ProviderInv
<1>4. CASE Provider!Unmount
  BY <1>4, Unmounts
<1>5. CASE \E does \in Requests : Provider!Request(does)
  <2>1. PICK does \in Requests : Provider!Request(does)
    BY <1>5
  <2>2. does \in Chains \ {"copyFile", "copyDirectory", "copyLink", "removeDirectory", "removeFile"}
    BY <1>1 DEF Provider!ProviderAssumption, Chains
  <2> QED  BY <2>1, <2>2, RequestKeeps DEF ProviderInv
<1>6. CASE \E does \in Requests, o \in f.openedFiles, n \in 1..Chunks : Provider!RequestOfFile(does, o, n)
  BY <1>6, RequestOfFileKeeps DEF ProviderInv
<1> QED  BY <1>2, <1>3, <1>4, <1>5, <1>6 DEF Provider!Next

(* Once it is unmounted nothing happens. *)
LEMMA UnmountedStays ==
  ASSUME ~f.mounted, f.wire = <<>>
  PROVE  ~Provider!Next
<1>1. ~Provider!MayAsk /\ ~Provider!Unmount /\ ~Provider!RequestRefused
  BY DEF Provider!MayAsk, Provider!Unmount, Provider!RequestRefused
<1>2. \A does : ~Provider!Request(does)
  BY <1>1 DEF Provider!Request
<1>3. \A does, o, n : ~Provider!RequestOfFile(does, o, n)
  BY <1>1 DEF Provider!RequestOfFile
<1>4. \A names : ~Provider!Replied(names)
  BY DEF Provider!Replied
<1>5. ~Provider!Reply
  <2>1. \A x : ~Provider!OnLstat(x) /\ ~Provider!OnOpenTarget(x) /\ ~Provider!OnReadDirectory(x) /\ ~Provider!OnRead(x)
    BY <1>4 DEF Provider!OnLstat, Provider!OnOpenTarget, Provider!OnReadDirectory, Provider!OnRead
  <2>2. /\ ~Provider!OnReadLink /\ ~Provider!OnOpenSource /\ ~Provider!OnChunkRead /\ ~Provider!OnChunkWrite
        /\ ~Provider!OnWrite /\ ~Provider!OnOpenDirectory /\ ~Provider!OnMakeDirectory /\ ~Provider!OnEndOfDirectory
    BY <1>4 DEF Provider!OnReadLink, Provider!OnOpenSource, Provider!OnChunkRead, Provider!OnChunkWrite,
                Provider!OnWrite, Provider!OnOpenDirectory, Provider!OnMakeDirectory, Provider!OnEndOfDirectory
  <2>3. ~Provider!OnOpen /\ ~Provider!OnClose /\ ~Provider!OnLast /\ ~Provider!OnRemoveDirectory
    BY <1>4 DEF Provider!OnOpen, Provider!OnClose, Provider!OnLast, Provider!OnRemoveDirectory
  <2>4. ~Provider!OnFileStatus /\ ~Provider!OnError
    BY DEF Provider!OnFileStatus, Provider!OnError
  <2> QED  BY <2>1, <2>2, <2>3, <2>4 DEF Provider!Reply
<1> QED  BY <1>1, <1>2, <1>3, <1>5 DEF Provider!Next

(* The invariant of the provider has its properties. *)
LEMMA ProviderKeeps ==
  ASSUME ProviderInv
  PROVE  /\ Provider!HandlesAreTheirOwn /\ Provider!NothingLeftOpen /\ Provider!SuccessIsWhole /\ Provider!AnsweredOnce
         /\ Provider!TypeOK
<1>1. CASE Orderly(f, {})
  BY <1>1, OrderlyOwns, OrderlyLeavesNothing, OrderlyIsWhole, OrderlyAnswers, OrderlyTypes
<1>2. CASE ~f.mounted /\ f.wire = <<>> /\ Provider!SuccessIsWhole /\ Provider!AnsweredOnce /\ Provider!TypeOK
  <2>1. DOMAIN f.wire = {}
    BY <1>2
  <2>2. Provider!HandlesAreTheirOwn
    BY <2>1 DEF Provider!HandlesAreTheirOwn
  <2>3. Provider!NothingLeftOpen
    BY <1>2 DEF Provider!NothingLeftOpen
  <2> QED  BY <1>2, <2>2, <2>3
<1> QED  BY <1>1, <1>2 DEF ProviderInv

(* The provider's invariant holds whatever the Files app asks and whatever  *)
(* fails.                                                                   *)
LEMMA ProviderAlways == MCSpec => []ProviderInv
<1>1. MCInit => ProviderInv
  BY ProviderBegins DEF MCInit, ProviderInv
<1>2. ProviderInv /\ [MCNext]_allVars => ProviderInv'
  <2> SUFFICES ASSUME ProviderInv, [MCNext]_allVars
               PROVE  ProviderInv'
    OBVIOUS
  <2>1. CASE f' = f
    BY <2>1 DEF ProviderInv, Provider!SuccessIsWhole, Provider!AnsweredOnce, Provider!TypeOK
  <2>2. CASE Provider!Next
    BY <2>2, ProviderNext, UnmountedStays DEF ProviderInv
  <2> QED  BY <2>1, <2>2 DEF MCNext, allVars
<1> QED  BY <1>1, <1>2, PTL DEF MCSpec

(* The provider's chains of requests, many at once and any of them failing *)
(* at any place, send nothing on a handle they have closed, leave none     *)
(* open, tell the Files app once, and tell success of a copy only when all *)
(* of it is there (nassh_sftp_fsp.js).                                     *)
THEOREM ChainsHold == MCSpec => []ChainsAreSound
<1>1. ProviderInv => ChainsAreSound
  BY ProviderKeeps DEF ChainsAreSound
<1> QED  BY <1>1, ProviderAlways, PTL

(* The variables of every part of the run keep their types: among them,    *)
(* no command of the nasftp shell closes what it has not opened or ends    *)
(* with a handle open, its history keeps to its limit, and a reply in the  *)
(* SFTP client's buffer is of a request that waits for it                  *)
(* (nassh_sftp_client.js, nasftp_cli.js, nassh_sftp_fsp.js,                *)
(* nassh_command_instance.js).                                             *)
THEOREM EveryPartIsTyped == MCSpec => []TypesOK
<1> DEFINE Parts == (IF kind = "asks" THEN Asks!TypeOK ELSE File!TypeOK) /\ Shell!TypeOK /\ Command!TypeOK
<1>1. ProviderInv /\ Parts => TypesOK
  BY ProviderKeeps DEF TypesOK
<1>2. MCSpec => []Parts
  BY PartsAreTyped
<1> HIDE DEF Parts
<1> QED  BY <1>1, <1>2, ProviderAlways, PTL

=============================================================================
