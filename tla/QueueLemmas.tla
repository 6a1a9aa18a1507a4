---------------------------- MODULE QueueLemmas ----------------------------
(***************************************************************************)
(* Facts about queues (sequences) the proofs of several components use.    *)
(***************************************************************************)
EXTENDS Integers, Sequences, TLAPS, WellFoundedInduction

(* A queue that has been cleared is a queue. *)
LEMMA NoElements == \A S : <<>> \in Seq(S)
OBVIOUS

(* What has been put into an empty queue makes a queue of one. *)
LEMMA OneElement == \A S : \A e \in S : <<e>> \in Seq(S)
OBVIOUS

(* And a queue of two. *)
LEMMA TwoElements == \A S : \A d, e \in S : <<d, e>> \in Seq(S)
OBVIOUS

(* Taking the head off a queue. *)
LEMMA TailProperties ==
  ASSUME NEW S, NEW s \in Seq(S), s # <<>>
  PROVE  /\ Head(s) \in S /\ Head(s) = s[1] /\ 1 \in DOMAIN s
         /\ Tail(s) \in Seq(S)
         /\ Len(Tail(s)) = Len(s) - 1
         /\ \A i \in DOMAIN Tail(s) : i + 1 \in DOMAIN s /\ Tail(s)[i] = s[i + 1]
         /\ \A i \in DOMAIN s : i # 1 => i - 1 \in DOMAIN Tail(s)
OBVIOUS

(* Adding to the end of a queue. *)
LEMMA AppendProperties ==
  ASSUME NEW S, NEW s \in Seq(S), NEW e \in S
  PROVE  /\ Append(s, e) \in Seq(S)
         /\ Len(Append(s, e)) = Len(s) + 1
         /\ DOMAIN Append(s, e) = DOMAIN s \cup {Len(s) + 1}
         /\ \A i \in DOMAIN s : Append(s, e)[i] = s[i]
         /\ Append(s, e)[Len(s) + 1] = e
         /\ Len(s) + 1 \notin DOMAIN s
         /\ \A i \in DOMAIN s : i \in Nat /\ i < Len(s) + 1
OBVIOUS

(* Joining two sequences. *)
LEMMA ConcatProperties ==
  ASSUME NEW S, NEW a \in Seq(S), NEW b \in Seq(S)
  PROVE  /\ a \o b \in Seq(S)
         /\ Len(a \o b) = Len(a) + Len(b)
         /\ \A i \in 1..(Len(a) + Len(b)) :
              (a \o b)[i] = IF i <= Len(a) THEN a[i] ELSE b[i - Len(a)]
OBVIOUS

(* Sequences of the same elements are the same. *)
LEMMA SameElements ==
  ASSUME NEW S, NEW a \in Seq(S), NEW b \in Seq(S),
         Len(a) = Len(b), \A i \in 1..Len(a) : a[i] = b[i]
  PROVE  a = b
OBVIOUS

(* An empty part adds nothing. *)
LEMMA ConcatEmpty ==
  ASSUME NEW S, NEW a \in Seq(S)
  PROVE  a \o <<>> = a /\ <<>> \o a = a
OBVIOUS

Associative(S) == \A a, b, c \in Seq(S) : (a \o b) \o c = a \o (b \o c)

(* Parts may be joined in any grouping. *)
LEMMA ConcatAssociative == \A S : Associative(S)
<1> SUFFICES ASSUME NEW S, NEW a \in Seq(S), NEW b \in Seq(S), NEW c \in Seq(S)
             PROVE  (a \o b) \o c = a \o (b \o c)
  BY DEF Associative
<1> DEFINE p == (a \o b) \o c
           q == a \o (b \o c)
<1>1. a \o b \in Seq(S) /\ b \o c \in Seq(S)
  BY ConcatProperties
<1>2. p \in Seq(S) /\ q \in Seq(S) /\ Len(p) = Len(a) + Len(b) + Len(c) /\ Len(q) = Len(p)
  BY <1>1, ConcatProperties
<1>3. ASSUME NEW i \in 1..Len(p) PROVE p[i] = q[i]
  BY <1>1, <1>2, ConcatProperties
<1> HIDE DEF p, q
<1>4. p = q
  BY <1>2, <1>3, SameElements
<1> QED  BY <1>4 DEF p, q

(* A queue cut in two is put together again. *)
LEMMA CutInTwo ==
  ASSUME NEW S, NEW a \in Seq(S), NEW n \in 0..Len(a)
  PROVE  /\ SubSeq(a, 1, n) \in Seq(S) /\ Len(SubSeq(a, 1, n)) = n
         /\ SubSeq(a, n + 1, Len(a)) \in Seq(S) /\ Len(SubSeq(a, n + 1, Len(a))) = Len(a) - n
         /\ \A i \in 1..(Len(a) - n) : SubSeq(a, n + 1, Len(a))[i] = a[n + i]
         /\ SubSeq(a, 1, n) \o SubSeq(a, n + 1, Len(a)) = a
<1> DEFINE b == SubSeq(a, 1, n)
           d == SubSeq(a, n + 1, Len(a))
           p == b \o d
<1>1. /\ b \in Seq(S) /\ Len(b) = n /\ d \in Seq(S) /\ Len(d) = Len(a) - n /\ Len(a) \in Nat
      /\ \A i \in 1..n : b[i] = a[i]
      /\ \A i \in 1..(Len(a) - n) : d[i] = a[n + i]
  OBVIOUS
<1> HIDE DEF b, d
<1>2. /\ p \in Seq(S) /\ Len(p) = Len(b) + Len(d)
      /\ \A i \in 1..(Len(b) + Len(d)) : p[i] = IF i <= Len(b) THEN b[i] ELSE d[i - Len(b)]
  BY <1>1, ConcatProperties
<1> HIDE DEF p
<1>3. ASSUME NEW i \in 1..Len(a) PROVE p[i] = a[i]
  <2>1. CASE i <= n
    BY <1>1, <1>2, <2>1
  <2>2. CASE i > n
    <3>1. i - n \in 1..(Len(a) - n) /\ n + (i - n) = i
      BY <1>1, <2>2
    <3> QED  BY <1>1, <1>2, <2>2, <3>1
  <2> QED  BY <1>1, <2>1, <2>2
<1>4. p = a
  BY <1>1, <1>2, <1>3, SameElements
<1> QED  BY <1>1, <1>4 DEF b, d, p

(* The head of the second of two parts moves to the end of the first. *)
LEMMA MoveAcross ==
  ASSUME NEW S, NEW a \in Seq(S), NEW b \in Seq(S), b # <<>>
  PROVE  Append(a, Head(b)) \o Tail(b) = a \o b
<1> DEFINE p == Append(a, Head(b)) \o Tail(b)
           q == a \o b
<1>1. Append(a, Head(b)) \in Seq(S) /\ Tail(b) \in Seq(S)
  OBVIOUS
<1>2. p \in Seq(S) /\ q \in Seq(S) /\ Len(p) = Len(a) + Len(b) /\ Len(q) = Len(p)
  BY <1>1, ConcatProperties
<1>3. ASSUME NEW i \in 1..Len(p) PROVE p[i] = q[i]
  BY <1>1, <1>2, ConcatProperties
<1> HIDE DEF p, q
<1>4. p = q
  BY <1>2, <1>3, SameElements
<1> QED  BY <1>4 DEF p, q

(* Adding to the second part is adding to the whole. *)
LEMMA AppendToSecond ==
  ASSUME NEW S, NEW a \in Seq(S), NEW b \in Seq(S), NEW e \in S
  PROVE  a \o Append(b, e) = Append(a \o b, e)
<1> DEFINE p == a \o Append(b, e)
           q == Append(a \o b, e)
<1>1. Append(b, e) \in Seq(S) /\ a \o b \in Seq(S)
  OBVIOUS
<1>2. p \in Seq(S) /\ q \in Seq(S) /\ Len(p) = Len(a) + Len(b) + 1 /\ Len(q) = Len(p)
  BY <1>1, ConcatProperties
<1>3. ASSUME NEW i \in 1..Len(p) PROVE p[i] = q[i]
  <2>1. Len(Append(b, e)) = Len(b) + 1 /\ Len(a) \in Nat /\ Len(b) \in Nat /\ Len(a \o b) = Len(a) + Len(b)
    BY ConcatProperties
  <2>2. p[i] = IF i <= Len(a) THEN a[i] ELSE Append(b, e)[i - Len(a)]
    <3>1. i \in 1..(Len(a) + Len(Append(b, e)))
      BY <1>2, <2>1
    <3> QED  BY <1>1, <3>1, ConcatProperties
  <2>3. i <= Len(a) + Len(b) => q[i] = (a \o b)[i]
    BY <1>1, <1>2, <2>1
  <2>4. i = Len(a) + Len(b) + 1 => q[i] = e
    BY <1>1, <1>2, <2>1
  <2>5. i <= Len(a) + Len(b) => (a \o b)[i] = IF i <= Len(a) THEN a[i] ELSE b[i - Len(a)]
    BY <1>1, <1>2, <2>1, ConcatProperties
  <2> HIDE DEF p, q
  <2> QED  BY <1>2, <2>1, <2>2, <2>3, <2>4, <2>5
<1> HIDE DEF p, q
<1>4. p = q
  BY <1>2, <1>3, SameElements
<1> QED  BY <1>4 DEF p, q

(* Counting on by one. *)
LEMMA OneMore ==
  ASSUME NEW n \in Nat
  PROVE  Append([i \in 1..n |-> i], n + 1) = [i \in 1..(n + 1) |-> i]
OBVIOUS

(* Parts that count up to n together count on when the next number is     *)
(* added to the second.                                                   *)
LEMMA CountedOn ==
  ASSUME NEW n \in Nat, NEW a \in Seq(Nat), NEW b \in Seq(Nat)
  PROVE  /\ Append(b, n + 1) \in Seq(Nat)
         /\ a \o b = [i \in 1..n |-> i] => a \o Append(b, n + 1) = [i \in 1..(n + 1) |-> i]
<1> DEFINE e == n + 1
<1>1. e \in Nat
  OBVIOUS
<1>2. Append([i \in 1..n |-> i], e) = [i \in 1..(n + 1) |-> i]
  BY OneMore
<1> HIDE DEF e
<1>3. Append(b, e) \in Seq(Nat) /\ a \o Append(b, e) = Append(a \o b, e)
  BY <1>1, AppendToSecond
<1> QED  BY <1>2, <1>3 DEF e
-----------------------------------------------------------------------------
(* A set of numbers that has 0 and, with each number, the next has them    *)
(* all.                                                                    *)
LEMMA CountingUp ==
  ASSUME NEW S, 0 \in S, \A n \in Nat : n \in S => n + 1 \in S
  PROVE  Nat \subseteq S
<1> DEFINE R == {p \in Nat \X Nat : p[1] < p[2]}
           T == Nat \ S
<1>1. IsWellFoundedOn(R, Nat)
  BY NatLessThanWellFounded DEF OpToRel
<1> SUFFICES ASSUME T # {} PROVE FALSE
  OBVIOUS
<1>2. PICK x \in T : \A y \in T : ~(<<y, x>> \in R)
  BY <1>1, WFMin
<1>3. x \in Nat /\ x # 0
  OBVIOUS
<1>4. x - 1 \in Nat /\ <<x - 1, x>> \in R
  BY <1>3
<1>5. x - 1 \in S
  BY <1>2, <1>3, <1>4
<1>6. x \in S
  BY <1>3, <1>4, <1>5
<1> QED  BY <1>6

(* Every set of numbers that is not empty has a least. *)
LEMMA Least ==
  ASSUME NEW I, I \in SUBSET Nat, I # {}
  PROVE  \E x \in I : \A i \in I : x <= i
<1> DEFINE R == {p \in Nat \X Nat : p[1] < p[2]}
<1>1. IsWellFoundedOn(R, Nat)
  BY NatLessThanWellFounded DEF OpToRel
<1>2. PICK x \in I : \A y \in I : ~(<<y, x>> \in R)
  BY <1>1, WFMin
<1>3. \A y \in I : x <= y
  <2> SUFFICES ASSUME NEW y \in I PROVE x <= y
    OBVIOUS
  <2>1. x \in Nat /\ y \in Nat /\ ~(<<y, x>> \in R)
    BY <1>2
  <2>2. ~(y < x)
    BY <2>1
  <2> QED  BY <2>1, <2>2
<1> QED  BY <1>3

(* What begins in a set and stays in it at each step is in it at the end. *)
LEMMA StaysIn ==
  ASSUME NEW A, NEW N \in Nat, NEW u, u[0] \in A, \A k \in 1..N : u[k - 1] \in A => u[k] \in A
  PROVE  \A k \in 0..N : u[k] \in A
<1> DEFINE S == {n \in Nat : n <= N => u[n] \in A}
<1>1. 0 \in S
  OBVIOUS
<1>2. ASSUME NEW n \in Nat, n \in S PROVE n + 1 \in S
  <2>1. CASE n + 1 <= N
    <3>1. n + 1 \in 1..N /\ (n + 1) - 1 = n /\ n <= N
      BY <2>1
    <3>2. u[n] \in A
      BY <1>2, <3>1
    <3>3. u[n + 1] \in A
      BY <3>1, <3>2
    <3> QED  BY <3>3
  <2>2. CASE ~(n + 1 <= N)
    BY <2>2
  <2> QED  BY <2>1, <2>2
<1> HIDE DEF S
<1>3. Nat \subseteq S
  BY <1>1, <1>2, CountingUp
<1> QED  BY <1>3 DEF S

(* What is defined step by step. *)
Follows(f, n, first, step) == f[0] = first /\ \A k \in 1..n : f[k] = step[k][f[k - 1]]

(* A function may be defined step by step: each value from the one before. *)
LEMMA StepByStep ==
  ASSUME NEW A, NEW N \in Nat, NEW first \in A, NEW step \in [1..N -> [A -> A]]
  PROVE  \E f \in [0..N -> A] : Follows(f, N, first, step)
<1> USE DEF Follows
<1> DEFINE Is(n, f) == Follows(f, n, first, step)
           S == {n \in Nat : n <= N => \E f \in [0..n -> A] : Is(n, f)}
<1>1. 0 \in S
  <2> DEFINE f == [k \in 0..0 |-> first]
  <2>1. f \in [0..0 -> A] /\ Is(0, f)
    OBVIOUS
  <2> QED  BY <2>1
<1>2. ASSUME NEW n \in Nat, n \in S PROVE n + 1 \in S
  <2> SUFFICES ASSUME n + 1 <= N PROVE \E g \in [0..(n + 1) -> A] : Is(n + 1, g)
    OBVIOUS
  <2>1. n <= N /\ n + 1 \in 1..N
    OBVIOUS
  <2>2. PICK f \in [0..n -> A] : Is(n, f)
    BY <1>2, <2>1
  <2> DEFINE new == step[n + 1][f[n]]
             g == [k \in 0..(n + 1) |-> IF k = n + 1 THEN new ELSE f[k]]
  <2>3. new \in A
    BY <2>1
  <2> HIDE DEF new
  <2>4. g \in [0..(n + 1) -> A]
    BY <2>3
  <2>5. g[0] = first
    BY <2>2
  <2>6. ASSUME NEW k \in 1..(n + 1) PROVE g[k] = step[k][g[k - 1]]
    <3>1. k - 1 \in 0..n /\ k - 1 \in 0..(n + 1) /\ k - 1 # n + 1
      OBVIOUS
    <3>2. g[k - 1] = f[k - 1]
      BY <3>1
    <3>3. CASE k = n + 1
      <4>1. g[k] = new /\ k - 1 = n
        BY <3>3
      <4> QED  BY <3>2, <3>3, <4>1 DEF new
    <3>4. CASE k # n + 1
      <4>1. k \in 1..n
        BY <3>4
      <4>2. g[k] = f[k]
        BY <3>4
      <4> QED  BY <2>2, <3>2, <4>1, <4>2
    <3> QED  BY <3>3, <3>4
  <2> HIDE DEF g
  <2> QED  BY <2>4, <2>5, <2>6
<1> HIDE DEF S
<1>3. Nat \subseteq S
  BY <1>1, <1>2, CountingUp
<1>4. \E f \in [0..N -> A] : Is(N, f)
  BY <1>3 DEF S
<1> QED  BY <1>4

=============================================================================
