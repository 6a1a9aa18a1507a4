-------------------------- MODULE Preferences_proofs -------------------------
(***************************************************************************)
(* Proofs about the profiles of Secure Shell, for any number of pages,     *)
(* profiles, values and edits: a page that has nothing under way shows what *)
(* is stored.  A handler runs several calls of the page, each of which     *)
(* changes the page's record; PageAfter says what every prefix of a handler *)
(* keeps of the page it began with, one lemma per call, and PageStep takes  *)
(* it to the state.                                                        *)
(***************************************************************************)
EXTENDS Preferences, QueueLemmas

(* What profiles hold, and what pages, the area and managers send. *)
Contents == {DEFAULT} \cup {<<v>> : v \in Values}
ListWrites == [op : {"write"}, key : {LIST}, value : Seq(Ids), manager : {0}]
ValueWrites == [op : {"write"}, key : Ids, value : Contents, manager : Nat]
ValueGets == [op : {"get"}, key : Ids, value : {DEFAULT}, manager : Nat]
ListGets == {Get(LIST, 0)}
Requests == ListWrites \cup ValueWrites \cup ValueGets \cup ListGets
ListNews == [is : {"changed", "get"}, key : {LIST}, value : Seq(Ids), manager : {0}]
ValueNews == [is : {"get"}, key : Ids, value : Contents, manager : Nat]

(* Managers, what they wait for, and pages. *)
Manager == [id : Ids, value : Contents, cache : {"unread", "asked", "ready"}, edited : BOOLEAN, timer : BOOLEAN]
Maps(S, T) == UNION {[D -> T] : D \in SUBSET S}
Syncs == [manager : Nat, dropped : SUBSET Ids, loading : BOOLEAN, ids : Seq(Ids)]
PageRecords == [list : Seq(Ids), children : Maps(Ids, Nat), managers : Maps(Nat, Manager),
                syncs : SUBSET Syncs, made : Nat, out : Seq(Requests)]

(* What a manager may become while a handler runs: what has been written   *)
(* of it stays so unless its timer runs.                                   *)
Keeps(old, new) ==
  /\ new.id = old.id
  /\ old.cache = "ready" => new.cache = "ready" /\ (new.timer \/ (new.value = old.value /\ new.timer = old.timer))
  /\ old.cache = "asked" => new.cache = "asked"
  /\ new.cache = "unread" => old.cache = "unread"

(* A page in itself. *)
PageTypes(page) ==
  /\ page \in PageRecords
  /\ DOMAIN page.managers \subseteq 1..page.made
  /\ \A id \in DOMAIN page.children :
       page.children[id] \in DOMAIN page.managers /\ page.managers[page.children[id]].id = id
  /\ \A m \in DOMAIN page.managers : page.managers[m].timer => page.managers[m].cache = "ready"

(* What a handler makes of the page it began with. *)
PageAfter(base, page) ==
  /\ PageTypes(page)
  /\ base.made \in Nat /\ base.made <= page.made
  /\ \A m \in DOMAIN base.managers : m \in DOMAIN page.managers /\ Keeps(base.managers[m], page.managers[m])
  /\ \A m \in DOMAIN page.managers : m \in DOMAIN base.managers \/ base.made < m
  /\ \A i \in DOMAIN page.out :
       \/ page.out[i] \in ListWrites
       \/ /\ page.out[i] \in ValueGets /\ page.out[i].manager \in DOMAIN page.managers
          /\ page.managers[page.out[i].manager].cache = "asked"
          /\ page.managers[page.out[i].manager].id = page.out[i].key
          /\ page.out[i].manager \in DOMAIN base.managers =>
               base.managers[page.out[i].manager].cache = "unread"
  /\ \A i, j \in DOMAIN page.out :
       page.out[i] \in ValueGets /\ page.out[j] \in ValueGets /\ page.out[i].manager = page.out[j].manager => i = j

(* What was sent stays, and the list is not touched. *)
SameList(page, q) ==
  /\ q.list = page.list
  /\ \A i \in DOMAIN page.out : i \in DOMAIN q.out /\ q.out[i] = page.out[i]

(* What waits to be written again, and what a page is sent. *)
PageWrites == ListWrites \cup ValueWrites
News == ListNews \cup ValueNews

(* Every get of a profile, on its way to the area or answered, is that of  *)
(* a manager that has asked and waits, and there is one of it: the answer  *)
(* finds the manager as the get left it.                                   *)
Awaits(mans, r) ==
  r.manager \in DOMAIN mans /\ mans[r.manager].cache = "asked" /\ mans[r.manager].id = r.key
AskedOnce(queue, gets) ==
  \A i, j \in DOMAIN queue : queue[i] \in gets /\ queue[j] \in gets /\ queue[i].manager = queue[j].manager => i = j
GetsAwaited(req, nws, mans) ==
  /\ \A i \in DOMAIN req : req[i] \in ValueGets => Awaits(mans, req[i])
  /\ \A i \in DOMAIN nws : nws[i] \in ValueNews => Awaits(mans, nws[i])
  /\ AskedOnce(req, ValueGets) /\ AskedOnce(nws, ValueNews)
  /\ \A i \in DOMAIN req, j \in DOMAIN nws :
       ~(req[i] \in ValueGets /\ nws[j] \in ValueNews /\ req[i].manager = nws[j].manager)

(* Every profile of a page is current: a timer of its manager runs, or the *)
(* last write of the manager on its way has its value, or none is on its   *)
(* way and if the manager was the last to write, its value is stored. Only *)
(* a manager that is ready has written, and none that is yet to be made.   *)
WriteOf(w, m) == w \in ValueWrites /\ w.manager = m
Current(p, req, wri, sto, m, man) ==
  \/ man.timer
  \/ \E i \in DOMAIN req :
       /\ WriteOf(req[i], m) /\ req[i].key = man.id /\ req[i].value = man.value
       /\ \A j \in DOMAIN req : WriteOf(req[j], m) => j <= i
  \/ /\ \A i \in DOMAIN req : ~WriteOf(req[i], m)
     /\ wri[man.id] = <<p, m>> => sto[man.id] = man.value
WritesReady(req, mans, top) ==
  \A i \in DOMAIN req : req[i] \in ValueWrites =>
    /\ req[i].manager <= top
    /\ req[i].manager \in DOMAIN mans =>
         mans[req[i].manager].cache = "ready" /\ mans[req[i].manager].id = req[i].key
WrittenReady(p, mans, top, wri) ==
  /\ \A id \in Ids, m \in Nat : wri[id] = <<p, m>> => m <= top
  /\ \A m \in DOMAIN mans : wri[mans[m].id] = <<p, m>> => mans[m].cache = "ready"
ValuesCurrent(p, req, mans, top, wri, sto) ==
  /\ WritesReady(req, mans, top) /\ WrittenReady(p, mans, top, wri)
  /\ \A m \in DOMAIN mans : Current(p, req, wri, sto, m, mans[m])

(* Every page will have heard of a list that is stored, or about to be:    *)
(* the last news of the list it is sent, or its own list if none is sent,  *)
(* is the stored one, or one of its own writes is, or it has asked for the *)
(* list and has none.                                                      *)
Tells(new) == new \in ListNews /\ (new.is = "get" => new.value # DEFAULT)
Heard(nws, lst, v) ==
  \/ \E i \in DOMAIN nws : Tells(nws[i]) /\ nws[i].value = v /\ \A j \in DOMAIN nws : Tells(nws[j]) => j <= i
  \/ (\A i \in DOMAIN nws : ~Tells(nws[i])) /\ v = lst
Coming(req, ret, v, sto) ==
  \/ v = sto[LIST]
  \/ Write(LIST, v, 0) \in ret
  \/ \E i \in DOMAIN req : req[i] = Write(LIST, v, 0)
  \/ v = DEFAULT /\ \E i \in DOMAIN req : req[i] = Get(LIST, 0)
ListFollows(req, nws, ret, lst, sto) == \E v : Heard(nws, lst, v) /\ Coming(req, ret, v, sto)

(* What the state is.  The list is kept under a key that no profile has. *)
VariableTypes ==
  /\ LIST \notin Ids
  /\ stored \in [{LIST} \cup Ids -> Seq(Ids) \cup Contents]
  /\ stored[LIST] \in Seq(Ids) /\ \A id \in Ids : stored[id] \in Contents
  /\ writer \in [Ids -> {<<>>} \cup (Pages \X Nat)]
  /\ requests \in [Pages -> Seq(Requests)] /\ news \in [Pages -> Seq(News)]
  /\ retries \in [Pages -> SUBSET PageWrites]
  /\ list \in [Pages -> Seq(Ids)] /\ childLists_ \in [Pages -> Maps(Ids, Nat)]
  /\ managers \in [Pages -> Maps(Nat, Manager)] /\ syncs \in [Pages -> SUBSET Syncs]
  /\ made \in [Pages -> Nat]
(* The inductive invariant. *)
PageInv(p) ==
  /\ PageTypes(Page(p))
  /\ GetsAwaited(requests[p], news[p], managers[p])
  /\ p \notin refused => retries[p] = {} /\ ValuesCurrent(p, requests[p], managers[p], made[p], writer, stored)
  /\ ListFollows(requests[p], news[p], retries[p], list[p], stored)
PagesInv == VariableTypes /\ \A p \in Pages : PageInv(p)

-----------------------------------------------------------------------------
(* What Writes picks out of a queue: writes, each of them one of the queue *)
(* (Load drops a page's gets).                                             *)
LEMMA WritesAre ==
  ASSUME NEW S, NEW queue \in Seq(S)
  PROVE  Writes(queue) \in Seq({r \in S : r.op = "write" /\ \E i \in DOMAIN queue : queue[i] = r})
<1> DEFINE N == Len(queue)
           T == {r \in S : r.op = "write" /\ \E i \in DOMAIN queue : queue[i] = r}
           A == Seq(T)
           new(k, a) == IF queue[k].op = "write" THEN Append(a, queue[k]) ELSE a
           step == [k \in 1..N |-> [a \in A |-> new(k, a)]]
           Is(f) == f = [n \in 0..N |-> IF n = 0 THEN <<>>
                                        ELSE IF queue[n].op = "write" THEN Append(f[n - 1], queue[n]) ELSE f[n - 1]]
           u == CHOOSE u : Is(u)
<1>1. N \in Nat /\ \A k \in 1..N : queue[k].op = "write" => queue[k] \in T
  OBVIOUS
<1> HIDE DEF T
<1>2. \A k \in 1..N : \A a \in A : new(k, a) \in A
  BY <1>1
<1> HIDE DEF A, N, new
<1>3. step \in [1..N -> [A -> A]] /\ \A k \in 1..N : \A a \in A : step[k][a] = new(k, a)
  BY <1>2
<1>4. <<>> \in A
  BY NoElements DEF A
<1> DEFINE first == <<>>
<1> HIDE DEF step, first
<1>5. \E f \in [0..N -> A] : Follows(f, N, first, step)
  <2>1. N \in Nat /\ first \in A /\ step \in [1..N -> [A -> A]]
    BY <1>1, <1>3, <1>4 DEF first
  <2> QED  BY <2>1, StepByStep
<1>6. PICK f \in [0..N -> A] : f[0] = first /\ \A k \in 1..N : f[k] = step[k][f[k - 1]]
  BY <1>5 DEF Follows
<1>7. Is(f)
  <2>1. ASSUME NEW n \in 0..N
        PROVE  f[n] = IF n = 0 THEN <<>>
                      ELSE IF queue[n].op = "write" THEN Append(f[n - 1], queue[n]) ELSE f[n - 1]
    <3>1. CASE n = 0
      BY <1>6, <3>1 DEF first
    <3>2. CASE n # 0
      <4>1. n \in 1..N /\ n - 1 \in 0..N
        BY <1>1, <3>2
      <4>2. f[n - 1] \in A
        BY <4>1
      <4>3. f[n] = new(n, f[n - 1])
        BY <1>3, <1>6, <4>1, <4>2
      <4> QED  BY <3>2, <4>3 DEF new
    <3> QED  BY <3>1, <3>2
  <2> QED  BY <2>1
<1>8. Is(u)
  BY <1>7
<1> HIDE DEF u
<1>9. u[0] = <<>> /\ \A k \in 0..N : k # 0 => u[k] = new(k, u[k - 1])
  <2>1. 0 \in 0..N
    BY <1>1
  <2> QED  BY <1>8, <2>1 DEF new
<1>10. \A k \in 1..N : u[k - 1] \in A => u[k] \in A
  <2> SUFFICES ASSUME NEW k \in 1..N, u[k - 1] \in A PROVE u[k] \in A
    OBVIOUS
  <2>1. k \in 0..N /\ k # 0
    BY <1>1
  <2>2. u[k] = new(k, u[k - 1])
    BY <1>9, <2>1
  <2> QED  BY <1>2, <2>2
<1>11. u[0] \in A
  BY <1>4, <1>9
<1> HIDE DEF Is
<1>12. \A k \in 0..N : u[k] \in A
  BY <1>1, <1>10, <1>11, StaysIn
<1>13. u[N] \in A
  BY <1>1, <1>12
<1>14. Writes(queue) = u[N]
  BY DEF Writes, u, Is, N
<1> QED  BY <1>13, <1>14 DEF A, T

(* What a map has for its keys. *)
LEMMA MapsFields == ASSUME NEW S, NEW T, NEW f \in Maps(S, T)
                    PROVE  DOMAIN f \in SUBSET S /\ f \in [DOMAIN f -> T] /\ \A x \in DOMAIN f : x \in S /\ f[x] \in T
BY DEF Maps

(* A function of some keys is a map. *)
LEMMA MapsIs == ASSUME NEW S, NEW T, NEW D \in SUBSET S, NEW f \in [D -> T]
                PROVE  f \in Maps(S, T)
BY DEF Maps

(* A map with one more entry. *)
LEMMA WithIs ==
  ASSUME NEW S, NEW T, NEW f, f \in Maps(S, T), NEW key, key \in S, NEW value, value \in T
  PROVE  With(f, key, value) \in Maps(S, T)
<1>1. DOMAIN f \in SUBSET S /\ f \in [DOMAIN f -> T]
  BY MapsFields
<1>2. With(f, key, value) \in [DOMAIN f \cup {key} -> T]
  BY <1>1 DEF With
<1> QED  BY <1>1, <1>2 DEF Maps

(* A map with another value for a key it has. *)
LEMMA ExceptIs ==
  ASSUME NEW S, NEW T, NEW f \in Maps(S, T), NEW key \in DOMAIN f, NEW value \in T
  PROVE  /\ [f EXCEPT ![key] = value] \in Maps(S, T)
         /\ DOMAIN [f EXCEPT ![key] = value] = DOMAIN f
         /\ [f EXCEPT ![key] = value][key] = value
         /\ \A x \in DOMAIN f : x # key => [f EXCEPT ![key] = value][x] = f[x]
<1>1. DOMAIN f \in SUBSET S /\ f \in [DOMAIN f -> T]
  BY MapsFields
<1>2. [f EXCEPT ![key] = value] \in [DOMAIN f -> T]
  BY <1>1
<1> QED  BY <1>1, <1>2 DEF Maps

(* A map with some of its keys only. *)
LEMMA RestrictIs ==
  ASSUME NEW S, NEW T, NEW f \in Maps(S, T), NEW D \in SUBSET DOMAIN f
  PROVE  /\ Restrict(f, D) \in Maps(S, T) /\ DOMAIN Restrict(f, D) = D
         /\ \A x \in D : Restrict(f, D)[x] = f[x]
<1>1. DOMAIN f \in SUBSET S /\ f \in [DOMAIN f -> T]
  BY MapsFields
<1>2. Restrict(f, D) \in [D -> T]
  BY <1>1 DEF Restrict
<1> QED  BY <1>1, <1>2 DEF Maps, Restrict

(* What sending a request changes of a page. *)
LEMMA SendFields ==
  ASSUME NEW page \in PageRecords, NEW w \in Requests, NEW q, q = Send(page, w)
  PROVE  /\ q \in PageRecords
         /\ q.list = page.list /\ q.children = page.children /\ q.managers = page.managers
         /\ q.syncs = page.syncs /\ q.made = page.made
         /\ q.out = Append(page.out, w)
         /\ DOMAIN q.out = DOMAIN page.out \cup {Len(page.out) + 1}
         /\ \A i \in DOMAIN page.out : q.out[i] = page.out[i]
         /\ q.out[Len(page.out) + 1] = w /\ Len(page.out) + 1 \notin DOMAIN page.out
<1>1. q = [page EXCEPT !.out = Append(@, w)]
  BY Zenon DEF Send
<1>2. page.out \in Seq(Requests)
  BY DEF PageRecords
<1> DEFINE o == Append(page.out, w)
<1>3. /\ o \in Seq(Requests) /\ DOMAIN o = DOMAIN page.out \cup {Len(page.out) + 1}
      /\ \A i \in DOMAIN page.out : o[i] = page.out[i]
      /\ o[Len(page.out) + 1] = w /\ Len(page.out) + 1 \notin DOMAIN page.out
  BY <1>2, AppendProperties
<1>4. q = [page EXCEPT !.out = o]
  BY <1>1
<1> HIDE DEF o
<1>5. /\ q \in PageRecords
      /\ q.list = page.list /\ q.children = page.children /\ q.managers = page.managers
      /\ q.syncs = page.syncs /\ q.made = page.made
      /\ q.out = o
  BY <1>3, <1>4 DEF PageRecords
<1> QED  BY <1>3, <1>5 DEF o

(* A page may send a list. *)
LEMMA SendListIs ==
  ASSUME NEW base, NEW page, PageAfter(base, page), NEW v \in Seq(Ids)
  PROVE  /\ PageAfter(base, Send(page, Write(LIST, v, 0)))
         /\ SameList(page, Send(page, Write(LIST, v, 0)))
         /\ \E i \in DOMAIN Send(page, Write(LIST, v, 0)).out : Send(page, Write(LIST, v, 0)).out[i] = Write(LIST, v, 0)
<1> DEFINE w == Write(LIST, v, 0)
<1>1. w \in ListWrites
  BY DEF Write, ListWrites
<1>2. w \notin ValueGets
  BY DEF Write, ValueGets
<1>3. page \in PageRecords /\ w \in Requests
  BY <1>1 DEF PageAfter, PageTypes, Requests
<1> HIDE DEF w
<1> SUFFICES ASSUME NEW q, q = Send(page, w)
             PROVE  PageAfter(base, q) /\ SameList(page, q) /\ \E i \in DOMAIN q.out : q.out[i] = w
  BY DEF w
<1>4. /\ q \in PageRecords /\ q.list = page.list
      /\ q.children = page.children /\ q.managers = page.managers /\ q.made = page.made
  BY <1>3, SendFields
<1>5. PageTypes(q)
  BY <1>4 DEF PageAfter, PageTypes
<1>6. /\ DOMAIN q.out = DOMAIN page.out \cup {Len(page.out) + 1}
      /\ \A i \in DOMAIN page.out : q.out[i] = page.out[i]
      /\ q.out[Len(page.out) + 1] = w
  BY <1>3, SendFields
<1>7. SameList(page, q)
  BY <1>4, <1>6 DEF SameList
<1>8. PageAfter(base, q)
  BY <1>1, <1>2, <1>4, <1>5, <1>6 DEF PageAfter
<1> QED  BY <1>6, <1>7, <1>8

(* A get of a manager that was unread. *)
LEMMA SendGetIs ==
  ASSUME NEW base, NEW page, PageAfter(base, page), NEW m \in DOMAIN page.managers,
         page.managers[m].cache = "asked",
         m \in DOMAIN base.managers => base.managers[m].cache = "unread",
         \A i \in DOMAIN page.out : ~(page.out[i] \in ValueGets /\ page.out[i].manager = m),
         NEW q, q = Send(page, Get(page.managers[m].id, m))
  PROVE  PageAfter(base, q) /\ SameList(page, q)
<1> DEFINE w == Get(page.managers[m].id, m)
<1>1. page \in PageRecords
  BY DEF PageAfter, PageTypes
<1>2. m \in Nat /\ page.managers[m] \in Manager
  BY <1>1, MapsFields DEF PageRecords
<1>3. w \in ValueGets /\ w.manager = m /\ w.key = page.managers[m].id
  BY <1>2 DEF Get, ValueGets, Manager
<1>4. w \notin ListWrites /\ w \in Requests
  BY <1>3 DEF ListWrites, ValueGets, Requests
<1> HIDE DEF w
<1>5. q = Send(page, w)
  BY DEF w
<1>6. /\ q \in PageRecords /\ q.list = page.list
      /\ q.children = page.children /\ q.managers = page.managers /\ q.made = page.made
  BY <1>1, <1>4, <1>5, SendFields
<1>7. PageTypes(q)
  <2>1. PageTypes(page)
    BY DEF PageAfter
  <2> QED  BY <1>6, <2>1 DEF PageTypes
<1>8. /\ DOMAIN q.out = DOMAIN page.out \cup {Len(page.out) + 1}
      /\ \A i \in DOMAIN page.out : q.out[i] = page.out[i]
      /\ q.out[Len(page.out) + 1] = w
  BY <1>1, <1>4, <1>5, SendFields
<1>9. SameList(page, q)
  BY <1>6, <1>8 DEF SameList
<1>a. /\ page.managers[m].cache = "asked"
      /\ m \in DOMAIN base.managers => base.managers[m].cache = "unread"
      /\ \A i \in DOMAIN page.out : ~(page.out[i] \in ValueGets /\ page.out[i].manager = m)
  OBVIOUS
<1>10. ASSUME NEW i \in DOMAIN q.out
       PROVE  \/ q.out[i] \in ListWrites
              \/ /\ q.out[i] \in ValueGets /\ q.out[i].manager \in DOMAIN q.managers
                 /\ q.managers[q.out[i].manager].cache = "asked"
                 /\ q.managers[q.out[i].manager].id = q.out[i].key
                 /\ q.out[i].manager \in DOMAIN base.managers =>
                      base.managers[q.out[i].manager].cache = "unread"
  <2>1. CASE i = Len(page.out) + 1
    <3>1. q.out[i] = w
      BY <1>8, <2>1
    <3> QED  BY <1>3, <1>6, <1>a, <3>1
  <2>2. CASE i # Len(page.out) + 1
    <3>1. i \in DOMAIN page.out /\ q.out[i] = page.out[i]
      BY <1>8, <1>10, <2>2
    <3>2. \/ page.out[i] \in ListWrites
          \/ /\ page.out[i] \in ValueGets /\ page.out[i].manager \in DOMAIN page.managers
             /\ page.managers[page.out[i].manager].cache = "asked"
             /\ page.managers[page.out[i].manager].id = page.out[i].key
             /\ page.out[i].manager \in DOMAIN base.managers =>
                  base.managers[page.out[i].manager].cache = "unread"
      BY <3>1 DEF PageAfter
    <3> QED  BY <1>6, <3>1, <3>2
  <2> QED  BY <2>1, <2>2
<1>11. ASSUME NEW i \in DOMAIN q.out, NEW j \in DOMAIN q.out,
              q.out[i] \in ValueGets, q.out[j] \in ValueGets, q.out[i].manager = q.out[j].manager
       PROVE  i = j
  <2>1. CASE i \in DOMAIN page.out /\ j \in DOMAIN page.out
    <3>1. q.out[i] = page.out[i] /\ q.out[j] = page.out[j]
      BY <1>8, <2>1
    <3> QED  BY <1>11, <2>1, <3>1 DEF PageAfter
  <2>2. CASE i \in DOMAIN page.out /\ j = Len(page.out) + 1
    <3>1. q.out[i] = page.out[i] /\ q.out[j] = w
      BY <1>8, <2>2
    <3> QED  BY <1>3, <1>11, <1>a, <2>2, <3>1
  <2>3. CASE i = Len(page.out) + 1 /\ j \in DOMAIN page.out
    <3>1. q.out[i] = w /\ q.out[j] = page.out[j]
      BY <1>8, <2>3
    <3> QED  BY <1>3, <1>11, <1>a, <2>3, <3>1
  <2>4. CASE i = Len(page.out) + 1 /\ j = Len(page.out) + 1
    BY <2>4
  <2> QED  BY <1>8, <1>11, <2>1, <2>2, <2>3, <2>4
<1>12. /\ base.made \in Nat /\ base.made =< q.made
       /\ \A n \in DOMAIN base.managers : n \in DOMAIN q.managers /\ Keeps(base.managers[n], q.managers[n])
       /\ \A n \in DOMAIN q.managers : n \in DOMAIN base.managers \/ base.made < n
  BY <1>6 DEF PageAfter
<1> QED  BY <1>7, <1>9, <1>10, <1>11, <1>12 DEF PageAfter

(* One manager of a page changes. *)
LEMMA ManagerFields ==
  ASSUME NEW page \in PageRecords, NEW m \in DOMAIN page.managers, NEW new \in Manager,
         NEW q, q = [page EXCEPT !.managers = [page.managers EXCEPT ![m] = new]]
  PROVE  /\ q \in PageRecords
         /\ q.list = page.list /\ q.children = page.children /\ q.syncs = page.syncs
         /\ q.made = page.made /\ q.out = page.out
         /\ DOMAIN q.managers = DOMAIN page.managers
         /\ q.managers[m] = new
         /\ \A n \in DOMAIN page.managers : n # m => q.managers[n] = page.managers[n]
<1> DEFINE f == [page.managers EXCEPT ![m] = new]
<1>1. page.managers \in Maps(Nat, Manager)
  BY DEF PageRecords
<1>2. /\ f \in Maps(Nat, Manager) /\ DOMAIN f = DOMAIN page.managers /\ f[m] = new
      /\ \A n \in DOMAIN page.managers : n # m => f[n] = page.managers[n]
  BY <1>1, ExceptIs
<1>3. q = [page EXCEPT !.managers = f]
  OBVIOUS
<1> HIDE DEF f
<1>4. /\ q \in PageRecords
      /\ q.list = page.list /\ q.children = page.children /\ q.syncs = page.syncs
      /\ q.made = page.made /\ q.out = page.out /\ q.managers = f
  BY <1>2, <1>3 DEF PageRecords
<1> QED  BY <1>2, <1>4

(* What two steps of a handler keep, both keep. *)
LEMMA KeepsKept ==
  ASSUME NEW a, NEW b \in Manager, NEW c \in Manager, Keeps(a, b), Keeps(b, c)
  PROVE  Keeps(a, c)
BY DEF Keeps, Manager

(* A handler changes a manager of the page. *)
LEMMA ManagerBecomes ==
  ASSUME NEW base, NEW page, PageAfter(base, page), NEW m \in DOMAIN page.managers, NEW new \in Manager,
         Keeps(page.managers[m], new), new.timer => new.cache = "ready",
         NEW q, q = [page EXCEPT !.managers = [page.managers EXCEPT ![m] = new]]
  PROVE  PageAfter(base, q) /\ SameList(page, q)
<1>1. page \in PageRecords
  BY DEF PageAfter, PageTypes
<1>2. page.managers[m] \in Manager
  BY <1>1, MapsFields DEF PageRecords
<1>3. /\ q \in PageRecords
      /\ q.list = page.list /\ q.children = page.children
      /\ q.made = page.made /\ q.out = page.out
      /\ DOMAIN q.managers = DOMAIN page.managers
      /\ q.managers[m] = new
      /\ \A n \in DOMAIN page.managers : n # m => q.managers[n] = page.managers[n]
  BY <1>1, ManagerFields
<1>4. PageTypes(q)
  BY <1>2, <1>3 DEF PageAfter, PageTypes, Keeps
<1>5. \A n \in DOMAIN base.managers : n \in DOMAIN q.managers /\ Keeps(base.managers[n], q.managers[n])
  <2> SUFFICES ASSUME NEW n \in DOMAIN base.managers
               PROVE  n \in DOMAIN q.managers /\ Keeps(base.managers[n], q.managers[n])
    OBVIOUS
  <2>1. n \in DOMAIN page.managers /\ Keeps(base.managers[n], page.managers[n])
    BY DEF PageAfter
  <2>2. CASE n = m
    BY <1>2, <1>3, <2>1, <2>2, KeepsKept
  <2>3. CASE n # m
    BY <1>3, <2>1, <2>3
  <2> QED  BY <2>2, <2>3
<1>6. \A i \in DOMAIN q.out :
       \/ q.out[i] \in ListWrites
       \/ /\ q.out[i] \in ValueGets /\ q.out[i].manager \in DOMAIN q.managers
          /\ q.managers[q.out[i].manager].cache = "asked"
          /\ q.managers[q.out[i].manager].id = q.out[i].key
          /\ q.out[i].manager \in DOMAIN base.managers =>
               base.managers[q.out[i].manager].cache = "unread"
  BY <1>3 DEF PageAfter, Keeps
<1>7. /\ base.made \in Nat /\ base.made =< q.made
      /\ \A n \in DOMAIN q.managers : n \in DOMAIN base.managers \/ base.made < n
      /\ \A i, j \in DOMAIN q.out :
           q.out[i] \in ValueGets /\ q.out[j] \in ValueGets /\ q.out[i].manager = q.out[j].manager => i = j
  BY <1>3 DEF PageAfter
<1>8. SameList(page, q)
  BY <1>3 DEF SameList
<1> QED  BY <1>4, <1>5, <1>6, <1>7, <1>8 DEF PageAfter

(* initCache_ asks once for what is stored. *)
LEMMA InitCacheIs ==
  ASSUME NEW base, NEW page, PageAfter(base, page), NEW m \in DOMAIN page.managers
  PROVE  PageAfter(base, InitCache(page, m)) /\ SameList(page, InitCache(page, m))
<1>1. page \in PageRecords
  BY DEF PageAfter, PageTypes
<1>2. page.managers[m] \in Manager /\ page.managers \in Maps(Nat, Manager)
  BY <1>1, MapsFields DEF PageRecords
<1>3. CASE page.managers[m].cache # "unread"
  <2>1. InitCache(page, m) = page
    BY <1>3, Zenon DEF InitCache
  <2> QED  BY <2>1, <1>1 DEF SameList
<1>4. CASE page.managers[m].cache = "unread"
  <2> DEFINE new == [page.managers[m] EXCEPT !.cache = "asked"]
             r == [page EXCEPT !.managers = [page.managers EXCEPT ![m] = new]]
             g == Get(page.managers[m].id, m)
  <2>1. [page EXCEPT !.managers[m].cache = "asked"] = r
    BY <1>1, <1>2 DEF PageRecords
  <2>2. InitCache(page, m) = Send(r, g)
    BY <1>4, <2>1 DEF InitCache
  <2>3. new \in Manager /\ Keeps(page.managers[m], new) /\ new.id = page.managers[m].id /\ new.cache = "asked"
        /\ new.timer = page.managers[m].timer
    BY <1>2, <1>4 DEF Manager, Keeps
  <2>4. ~page.managers[m].timer
    BY <1>4 DEF PageAfter, PageTypes
  <2> HIDE DEF r, new, g
  <2>5. r = [page EXCEPT !.managers = [page.managers EXCEPT ![m] = new]]
    BY DEF r
  <2>6. PageAfter(base, r) /\ SameList(page, r)
    BY <2>3, <2>4, <2>5, ManagerBecomes
  <2>7. r.managers[m] = new /\ m \in DOMAIN r.managers /\ r.out = page.out
    BY <1>1, <2>3, <2>5, ManagerFields
  <2>8. m \in DOMAIN base.managers => base.managers[m].cache = "unread"
    BY <1>4 DEF PageAfter, Keeps
  <2>9. \A i \in DOMAIN r.out : ~(r.out[i] \in ValueGets /\ r.out[i].manager = m)
    BY <1>4, <2>7 DEF PageAfter, ListWrites, ValueGets
  <2>10. g = Get(r.managers[m].id, m)
    BY <2>3, <2>7 DEF g
  <2> DEFINE q == Send(r, g)
  <2>11. q = Send(r, Get(r.managers[m].id, m))
    BY <2>10
  <2> HIDE DEF q
  <2>12. PageAfter(base, q) /\ SameList(r, q)
    BY <2>3, <2>6, <2>7, <2>8, <2>9, <2>11, SendGetIs
  <2>13. SameList(page, q)
    BY <2>6, <2>12 DEF SameList
  <2> QED  BY <2>2, <2>12, <2>13 DEF q
<1> QED  BY <1>3, <1>4

(* set() or reset() of a profile's preference writes nothing yet: it is    *)
(* left to the timer, or to initCache_.                                    *)
LEMMA EditIs ==
  ASSUME NEW base, NEW page, PageAfter(base, page), NEW m \in DOMAIN page.managers, NEW value \in Contents
  PROVE  PageAfter(base, Edit(page, m, value)) /\ SameList(page, Edit(page, m, value))
<1>1. page \in PageRecords
  BY DEF PageAfter, PageTypes
<1>2. page.managers[m] \in Manager /\ page.managers \in Maps(Nat, Manager)
  BY <1>1, MapsFields DEF PageRecords
<1> DEFINE edited == [page EXCEPT !.managers[m].value = value]
<1>3. CASE page.managers[m].cache = "ready"
  <2> DEFINE new == [page.managers[m] EXCEPT !.value = value, !.timer = TRUE]
             q == [page EXCEPT !.managers = [page.managers EXCEPT ![m] = new]]
  <2>1. [edited EXCEPT !.managers[m].timer = TRUE] = q
    BY <1>1, <1>2 DEF PageRecords, Manager
  <2>2. Edit(page, m, value) = q
    BY <1>3, <2>1 DEF Edit
  <2>3. new \in Manager /\ Keeps(page.managers[m], new) /\ new.cache = "ready"
    BY <1>2, <1>3 DEF Manager, Keeps
  <2> HIDE DEF new
  <2> QED  BY <2>2, <2>3, ManagerBecomes
<1>4. CASE page.managers[m].cache # "ready"
  <2> DEFINE new == [page.managers[m] EXCEPT !.value = value, !.edited = TRUE]
             q == [page EXCEPT !.managers = [page.managers EXCEPT ![m] = new]]
  <2>1. [edited EXCEPT !.managers[m].edited = TRUE] = q
    BY <1>1, <1>2 DEF PageRecords, Manager
  <2>2. Edit(page, m, value) = InitCache(q, m)
    BY <1>4, <2>1 DEF Edit
  <2>3. new \in Manager /\ Keeps(page.managers[m], new) /\ new.timer = page.managers[m].timer
    BY <1>2, <1>4 DEF Manager, Keeps
  <2>4. ~page.managers[m].timer
    BY <1>4 DEF PageAfter, PageTypes
  <2> HIDE DEF new
  <2>5. PageAfter(base, q) /\ SameList(page, q)
    BY <2>3, <2>4, ManagerBecomes
  <2>6. m \in DOMAIN q.managers
    BY <1>1, <2>3, ManagerFields
  <2> HIDE DEF q
  <2>7. PageAfter(base, InitCache(q, m)) /\ SameList(q, InitCache(q, m))
    BY <2>5, <2>6, InitCacheIs
  <2> QED  BY <2>2, <2>5, <2>7 DEF SameList
<1> QED  BY <1>3, <1>4

(* A new manager is not one of those there have been. *)
LEMMA NewManagerIs ==
  ASSUME NEW base, NEW page, PageAfter(base, page), NEW id \in Ids, NEW q, q = NewManager(page, id)
  PROVE  /\ PageAfter(base, q) /\ SameList(page, q)
         /\ q.made = page.made + 1 /\ q.made \in DOMAIN q.managers /\ q.managers[q.made].id = id
         /\ q.children = page.children /\ q.out = page.out /\ q.syncs = page.syncs
<1> DEFINE new == [id |-> id, value |-> DEFAULT, cache |-> "unread", edited |-> FALSE, timer |-> FALSE]
           k == page.made + 1
           f == With(page.managers, k, new)
<1>1. page \in PageRecords
  BY DEF PageAfter, PageTypes
<1>2. k \in Nat /\ page.made \in Nat /\ page.managers \in Maps(Nat, Manager) /\ new \in Manager
  BY <1>1 DEF PageRecords, Manager, Contents
<1>3. q = [page EXCEPT !.made = k, !.managers = f]
  BY <1>1 DEF NewManager, PageRecords
<1>4. new.id = id /\ ~new.timer
  OBVIOUS
<1>5. k \notin DOMAIN page.managers
  BY <1>2 DEF PageAfter, PageTypes
<1>k. k \in Nat /\ k = page.made + 1
  BY <1>2
<1> HIDE DEF new, k
<1>6. /\ f \in Maps(Nat, Manager) /\ DOMAIN f = DOMAIN page.managers \cup {k} /\ f[k] = new
      /\ \A n \in DOMAIN page.managers : f[n] = page.managers[n]
  <2>1. /\ f \in Maps(Nat, Manager) /\ DOMAIN f = DOMAIN page.managers \cup {k} /\ f[k] = new
        /\ \A n \in DOMAIN page.managers : n # k => f[n] = page.managers[n]
    <3>1. f \in Maps(Nat, Manager)
      BY <1>2, WithIs, Zenon
    <3> QED  BY <3>1 DEF With
  <2> QED  BY <1>5, <2>1
<1> HIDE DEF f
<1>7. /\ q \in PageRecords
      /\ q.list = page.list /\ q.children = page.children /\ q.syncs = page.syncs
      /\ q.made = k /\ q.out = page.out /\ q.managers = f
  BY <1>1, <1>2, <1>3, <1>6 DEF PageRecords
<1>8. PageTypes(q)
  <2>1. DOMAIN q.managers \subseteq 1..q.made
    BY <1>2, <1>6, <1>7, <1>k DEF PageAfter, PageTypes
  <2> QED  BY <1>4, <1>6, <1>7, <2>1 DEF PageAfter, PageTypes
<1>9. \A n \in DOMAIN base.managers : n \in DOMAIN q.managers /\ Keeps(base.managers[n], q.managers[n])
  BY <1>6, <1>7 DEF PageAfter
<1>10. base.made <= q.made /\ base.made < k
  <2>1. base.made \in Nat /\ base.made <= page.made
    BY DEF PageAfter
  <2> QED  BY <1>2, <1>7, <2>1 DEF k
<1>11. \A n \in DOMAIN q.managers : n \in DOMAIN base.managers \/ base.made < n
  BY <1>6, <1>7, <1>10, <1>k DEF PageAfter
<1>12. \A i \in DOMAIN q.out :
       \/ q.out[i] \in ListWrites
       \/ /\ q.out[i] \in ValueGets /\ q.out[i].manager \in DOMAIN q.managers
          /\ q.managers[q.out[i].manager].cache = "asked"
          /\ q.managers[q.out[i].manager].id = q.out[i].key
          /\ q.out[i].manager \in DOMAIN base.managers =>
               base.managers[q.out[i].manager].cache = "unread"
  BY <1>6, <1>7 DEF PageAfter
<1>13. PageAfter(base, q)
  BY <1>7, <1>8, <1>9, <1>10, <1>11, <1>12 DEF PageAfter
<1> QED  BY <1>4, <1>6, <1>7, <1>13, <1>k DEF SameList

(* A new child of the list. *)
LEMMA NewChildIs ==
  ASSUME NEW base, NEW page, PageAfter(base, page), NEW id \in Ids, NEW q, q = NewChild(page, id)
  PROVE  /\ PageAfter(base, q) /\ SameList(page, q)
         /\ q.made \in DOMAIN q.managers /\ id \in DOMAIN q.children /\ q.children[id] = q.made
         /\ q.out = page.out /\ q.syncs = page.syncs
<1> DEFINE r == NewManager(page, id)
           k == page.made + 1
           c == With(page.children, id, k)
<1>1. /\ PageAfter(base, r) /\ SameList(page, r)
      /\ r.made = k /\ r.made \in DOMAIN r.managers /\ r.managers[r.made].id = id
      /\ r.children = page.children /\ r.out = page.out /\ r.syncs = page.syncs
  BY NewManagerIs
<1> HIDE DEF r
<1>2. r \in PageRecords /\ page \in PageRecords
  BY <1>1 DEF PageAfter, PageTypes
<1>3. page.children \in Maps(Ids, Nat) /\ k \in Nat
  BY <1>2 DEF PageRecords
<1>4. q = [r EXCEPT !.children = c]
  BY <1>1, <1>2 DEF NewChild, r, PageRecords
<1> HIDE DEF k
<1>5. /\ c \in Maps(Ids, Nat) /\ DOMAIN c = DOMAIN page.children \cup {id} /\ c[id] = k
      /\ \A i \in DOMAIN page.children : i # id => c[i] = page.children[i]
  <2>1. c \in Maps(Ids, Nat)
    BY <1>3, WithIs, Zenon
  <2> QED  BY <2>1 DEF With
<1> HIDE DEF c
<1>6. /\ q \in PageRecords
      /\ q.list = r.list /\ q.children = c /\ q.syncs = r.syncs
      /\ q.made = r.made /\ q.out = r.out /\ q.managers = r.managers
  BY <1>2, <1>4, <1>5 DEF PageRecords
<1>7. \A i \in DOMAIN q.children : q.children[i] \in DOMAIN q.managers /\ q.managers[q.children[i]].id = i
  BY <1>1, <1>5, <1>6 DEF PageAfter, PageTypes
<1>8. PageTypes(q)
  BY <1>1, <1>6, <1>7 DEF PageAfter, PageTypes
<1>9. PageAfter(base, q)
  BY <1>1, <1>6, <1>8 DEF PageAfter
<1> QED  BY <1>1, <1>5, <1>6, <1>9 DEF SameList

(* A page that waits for a child in one more synchronisation, or in one    *)
(* less, or that has fewer children.                                       *)
Otherwise(page, c, w) == [page EXCEPT !.children = Restrict(page.children, c), !.syncs = w]

(* Fewer children and other synchronisations change no manager and send    *)
(* nothing.                                                                *)
LEMMA OtherFieldsAre ==
  ASSUME NEW base, NEW page, PageAfter(base, page), NEW c \in SUBSET DOMAIN page.children, NEW w \in SUBSET Syncs,
         NEW q, q = Otherwise(page, c, w)
  PROVE  PageAfter(base, q) /\ SameList(page, q) /\ q.managers = page.managers /\ q.made = page.made
<1> DEFINE f == Restrict(page.children, c)
<1>1. page \in PageRecords
  BY DEF PageAfter, PageTypes
<1>2. page.children \in Maps(Ids, Nat)
  BY <1>1 DEF PageRecords
<1>3. f \in Maps(Ids, Nat) /\ DOMAIN f = c /\ \A i \in c : f[i] = page.children[i]
  BY <1>2, RestrictIs
<1> HIDE DEF f
<1>4. /\ q \in PageRecords
      /\ q.list = page.list /\ q.children = f /\ q.syncs = w
      /\ q.made = page.made /\ q.out = page.out /\ q.managers = page.managers
  BY <1>1, <1>3 DEF PageRecords, Otherwise, f
<1>5. PageTypes(q)
  BY <1>3, <1>4 DEF PageAfter, PageTypes
<1> QED  BY <1>4, <1>5 DEF PageAfter, SameList

LEMMA MinIs ==
  ASSUME NEW I, I \in SUBSET Nat, I # {}
  PROVE  Min(I) \in I /\ \A i \in I : Min(I) <= i
<1>1. \E x \in I : \A i \in I : x <= i
  BY Least
<1> QED  BY <1>1 DEF Min

(* The rest of a queue. *)
LEMMA RestIs == ASSUME NEW S, NEW s \in Seq(S), NEW a \in 1..Len(s) PROVE SubSeq(s, a + 1, Len(s)) \in Seq(S)
OBVIOUS

(* syncChildList makes managers and asks for what they have, and touches   *)
(* no other.                                                               *)
LEMMA SyncFromIs ==
  ASSUME NEW base, NEW page, PageAfter(base, page), NEW ids \in Seq(Ids), NEW dropped \in SUBSET Ids,
         NEW loading \in BOOLEAN
  PROVE  /\ PageAfter(base, SyncFrom(page, ids, dropped, loading))
         /\ SameList(page, SyncFrom(page, ids, dropped, loading))
<1> DEFINE I == {i \in 1..Len(ids) : ids[i] \notin DOMAIN page.children}
           missing == IF I # {} THEN Min(I) ELSE 0
           q == SyncFrom(page, ids, dropped, loading)
<1>1. page \in PageRecords
  BY DEF PageAfter, PageTypes
<1>2. missing \in 0..Len(ids)
  BY MinIs
<1>3. CASE missing = 0
  <2> DEFINE c == DOMAIN page.children \ dropped
             p1 == Otherwise(page, c, page.syncs)
  <2>1. q = p1
    BY <1>1, <1>3, <1>2 DEF SyncFrom, SelectInSeq, Without, PageRecords, Otherwise
  <2>2. page.syncs \in SUBSET Syncs
    BY <1>1 DEF PageRecords
  <2>3. c \in SUBSET DOMAIN page.children
    OBVIOUS
  <2> HIDE DEF c
  <2>4. PageAfter(base, p1) /\ SameList(page, p1)
    BY <2>2, <2>3, OtherFieldsAre
  <2> QED  BY <2>1, <2>4
<1>4. CASE missing # 0
  <2> DEFINE id == ids[missing]
             new == NewChild(page, id)
             w == {[manager |-> new.made, dropped |-> dropped, loading |-> loading,
                    ids |-> SubSeq(ids, missing + 1, Len(ids))]}
             r == [new EXCEPT !.syncs = @ \cup w]
  <2>1. missing \in 1..Len(ids) /\ id \in Ids
    BY <1>2, <1>4
  <2>2. q = InitCache(r, new.made)
    BY <1>4 DEF SyncFrom, SelectInSeq
  <2>3. SubSeq(ids, missing + 1, Len(ids)) \in Seq(Ids)
    BY <2>1, RestIs
  <2> HIDE DEF missing
  <2>4. /\ PageAfter(base, new) /\ SameList(page, new)
        /\ new.made \in DOMAIN new.managers /\ new.out = page.out /\ new.syncs = page.syncs
    BY <2>1, NewChildIs
  <2>5. new \in PageRecords
    BY <2>4 DEF PageAfter, PageTypes
  <2>6. new.made \in Nat /\ new.syncs \in SUBSET Syncs
    BY <2>5 DEF PageRecords
  <2>7. w \in SUBSET Syncs
    BY <2>3, <2>6 DEF Syncs
  <2> HIDE DEF w, new
  <2> DEFINE s == new.syncs \cup w
             c == DOMAIN new.children
             p1 == Otherwise(new, c, s)
  <2>8. r = p1
    <3>1. new.children = Restrict(new.children, DOMAIN new.children)
      BY <2>5, MapsFields DEF PageRecords, Restrict
    <3> QED  BY <2>5, <3>1 DEF PageRecords, Otherwise
  <2>9. s \in SUBSET Syncs /\ c \in SUBSET DOMAIN new.children
    BY <2>6, <2>7
  <2> HIDE DEF s, r, c
  <2>10. PageAfter(base, r) /\ SameList(new, r) /\ r.managers = new.managers
    <3> HIDE DEF p1
    <3>1. p1 = Otherwise(new, c, s)
      BY DEF p1
    <3>2. PageAfter(base, p1) /\ SameList(new, p1) /\ p1.managers = new.managers
      BY <2>4, <2>9, <3>1, OtherFieldsAre
    <3> QED  BY <2>8, <3>2
  <2>11. PageAfter(base, InitCache(r, new.made)) /\ SameList(r, InitCache(r, new.made))
    BY <2>4, <2>10, InitCacheIs
  <2> HIDE DEF q
  <2>12. SameList(page, q)
    BY <2>2, <2>4, <2>10, <2>11 DEF SameList
  <2> QED  BY <2>2, <2>11, <2>12 DEF q
<1> QED  BY <1>2, <1>3, <1>4

(* syncChildList from the beginning. *)
LEMMA SyncChildListIs ==
  ASSUME NEW base, NEW page, PageAfter(base, page), NEW loading \in BOOLEAN
  PROVE  PageAfter(base, SyncChildList(page, loading)) /\ SameList(page, SyncChildList(page, loading))
<1>1. page \in PageRecords
  BY DEF PageAfter, PageTypes
<1>2. page.list \in Seq(Ids) /\ page.children \in Maps(Ids, Nat)
  BY <1>1 DEF PageRecords
<1> DEFINE dropped == DOMAIN page.children \ Range(page.list)
<1>3. dropped \in SUBSET Ids
  BY <1>2, MapsFields
<1> HIDE DEF dropped
<1>4. SyncChildList(page, loading) = SyncFrom(page, page.list, dropped, loading)
  BY DEF SyncChildList, dropped
<1>5. PageAfter(base, SyncFrom(page, page.list, dropped, loading)) /\ SameList(page, SyncFrom(page, page.list, dropped, loading))
  BY <1>2, <1>3, SyncFromIs
<1> QED  BY <1>4, <1>5

(* A page with another list. *)
LEMMA ListChanges ==
  ASSUME NEW base, NEW page, PageAfter(base, page), NEW ids \in Seq(Ids)
  PROVE  /\ PageAfter(base, [page EXCEPT !.list = ids])
         /\ [page EXCEPT !.list = ids].list = ids /\ [page EXCEPT !.list = ids].out = page.out
<1> DEFINE q == [page EXCEPT !.list = ids]
<1>1. page \in PageRecords
  BY DEF PageAfter, PageTypes
<1>2. /\ q \in PageRecords
      /\ q.list = ids /\ q.children = page.children /\ q.syncs = page.syncs
      /\ q.made = page.made /\ q.out = page.out /\ q.managers = page.managers
  BY <1>1 DEF PageRecords
<1> HIDE DEF q
<1>3. PageTypes(q)
  BY <1>2 DEF PageAfter, PageTypes
<1>4. PageAfter(base, q)
  BY <1>2, <1>3 DEF PageAfter
<1> QED  BY <1>2, <1>4 DEF q

(* What was sent stays sent. *)
StillSent(page, q) == \A i \in DOMAIN page.out : i \in DOMAIN q.out /\ q.out[i] = page.out[i]

(* A page has the list it is given, and sends none. *)
LEMMA ListBecomesIs ==
  ASSUME NEW base, NEW page, PageAfter(base, page), NEW ids \in Seq(Ids), NEW loading \in BOOLEAN
  PROVE  /\ PageAfter(base, ListBecomes(page, ids, loading)) /\ ListBecomes(page, ids, loading).list = ids
         /\ StillSent(page, ListBecomes(page, ids, loading))
<1>1. CASE ids = page.list
  <2>1. ListBecomes(page, ids, loading) = page
    BY <1>1, Zenon DEF ListBecomes
  <2> QED  BY <1>1, <2>1 DEF StillSent
<1>2. CASE ids # page.list
  <2> DEFINE r == [page EXCEPT !.list = ids]
             q == SyncChildList(r, loading)
  <2>1. ListBecomes(page, ids, loading) = q
    BY <1>2, Zenon DEF ListBecomes
  <2>2. PageAfter(base, r) /\ r.list = ids /\ r.out = page.out
    BY ListChanges
  <2> HIDE DEF r
  <2>3. PageAfter(base, q) /\ SameList(r, q)
    BY <2>2, SyncChildListIs
  <2> HIDE DEF q
  <2> QED  BY <2>1, <2>2, <2>3 DEF SameList, StillSent
<1> QED  BY <1>1, <1>2

(* A list a page sets is remembered, and sent if it is new. *)
LEMMA SetListIs ==
  ASSUME NEW base, NEW page, PageAfter(base, page), NEW ids \in Seq(Ids), NEW q, q = SetList(page, ids)
  PROVE  /\ PageAfter(base, q) /\ StillSent(page, q) /\ q.list = ids
         /\ ids = page.list \/ \E i \in DOMAIN q.out : q.out[i] = Write(LIST, ids, 0)
<1>1. CASE ids = page.list
  <2>1. q = page
    BY <1>1, Zenon DEF SetList
  <2> QED  BY <1>1, <2>1 DEF StillSent
<1>2. CASE ids # page.list
  <2> DEFINE w == Write(LIST, ids, 0)
             r == Send(page, w)
  <2>1. q = ListBecomes(r, ids, FALSE)
    BY <1>2, Zenon DEF SetList
  <2>2. PageAfter(base, r) /\ SameList(page, r) /\ \E i \in DOMAIN r.out : r.out[i] = w
    BY SendListIs
  <2> HIDE DEF r, w
  <2>3. PageAfter(base, q) /\ q.list = ids /\ StillSent(r, q)
    <3>1. FALSE \in BOOLEAN
      OBVIOUS
    <3>2. LET l == ListBecomes(r, ids, FALSE) IN PageAfter(base, l) /\ l.list = ids /\ StillSent(r, l)
      BY <2>2, <3>1, ListBecomesIs, Zenon
    <3> QED  BY <2>1, <3>2
  <2>4. StillSent(page, q) /\ \E i \in DOMAIN q.out : q.out[i] = w
    BY <2>2, <2>3 DEF SameList, StillSent
  <2> QED  BY <2>3, <2>4 DEF w
<1> QED  BY <1>1, <1>2

(* createChild: the list it makes is sent, if it is new. *)
LEMMA AddChildIs ==
  ASSUME NEW base, NEW page, PageAfter(base, page), NEW id \in Ids, NEW q, q = AddChild(page, id)
  PROVE  /\ PageAfter(base, q)
         /\ q.list = page.list \/ \E i \in DOMAIN q.out : q.out[i] = Write(LIST, q.list, 0)
<1> DEFINE r == NewChild(page, id)
           e == Edit(r, r.children[id], DEFAULT)
           ids == Append(page.list, id)
<1>1. q = SetList(e, ids)
  BY Zenon DEF AddChild, ResetChild
<1>2. /\ PageAfter(base, r) /\ SameList(page, r)
      /\ r.made \in DOMAIN r.managers /\ r.children[id] = r.made
  BY NewChildIs
<1> HIDE DEF r
<1>3. DEFAULT \in Contents
  BY DEF Contents
<1>4. PageAfter(base, e) /\ SameList(r, e)
  BY <1>2, <1>3, EditIs
<1> HIDE DEF e
<1>5. ids \in Seq(Ids)
  BY DEF PageAfter, PageTypes, PageRecords
<1> HIDE DEF ids
<1>6. /\ PageAfter(base, q) /\ q.list = ids
      /\ ids = e.list \/ \E i \in DOMAIN q.out : q.out[i] = Write(LIST, ids, 0)
  BY <1>1, <1>4, <1>5, SetListIs
<1> QED  BY <1>2, <1>4, <1>6 DEF SameList

(* removeChild: the list it makes is sent, if it is new. *)
LEMMA DropChildIs ==
  ASSUME NEW base, NEW page, PageAfter(base, page), NEW id \in DOMAIN page.children, NEW q, q = DropChild(page, id)
  PROVE  /\ PageAfter(base, q)
         /\ q.list = page.list \/ \E i \in DOMAIN q.out : q.out[i] = Write(LIST, q.list, 0)
<1> DEFINE e == Edit(page, page.children[id], DEFAULT)
           ids == RemoveFirst(page.list, id)
           r == SetList(e, ids)
           c == DOMAIN r.children \ {id}
           p1 == Otherwise(r, c, r.syncs)
<1>1. DEFAULT \in Contents
  BY DEF Contents
<1>2. page.children[id] \in DOMAIN page.managers
  BY DEF PageAfter, PageTypes
<1>3. PageAfter(base, e) /\ SameList(page, e)
  BY <1>1, <1>2, EditIs
<1> HIDE DEF e
<1>4. ids \in Seq(Ids)
  <2> DEFINE l == page.list
             I == {i \in 1..Len(l) : l[i] = id}
  <2>1. l \in Seq(Ids)
    BY DEF PageAfter, PageTypes, PageRecords
  <2>2. CASE I = {}
    BY <2>1, <2>2 DEF RemoveFirst
  <2>3. CASE I # {}
    <3> DEFINE k == Min(I)
    <3>1. k \in 1..Len(l)
      BY <2>3, MinIs
    <3>2. ids = RemoveAt(l, k)
      BY <2>3 DEF RemoveFirst, SelectInSeq
    <3> HIDE DEF k, l
    <3>3. RemoveAt(l, k) \in Seq(Ids)
      BY <2>1, <3>1 DEF RemoveAt
    <3> QED  BY <3>2, <3>3
  <2> QED  BY <2>2, <2>3
<1> HIDE DEF ids
<1>5. /\ PageAfter(base, r) /\ r.list = ids
      /\ ids = e.list \/ \E i \in DOMAIN r.out : r.out[i] = Write(LIST, ids, 0)
  BY <1>3, <1>4, SetListIs
<1>6. q = [r EXCEPT !.children = Restrict(@, c)]
  BY DEF DropChild, ResetChild, Without, e, ids
<1> HIDE DEF r
<1>7. r \in PageRecords /\ r.syncs \in SUBSET Syncs
  BY <1>5 DEF PageAfter, PageTypes, PageRecords
<1>8. q = p1
  BY <1>6, <1>7 DEF PageRecords, Otherwise
<1>9. c \in SUBSET DOMAIN r.children
  OBVIOUS
<1> HIDE DEF c
<1>10. PageAfter(base, p1) /\ SameList(r, p1)
  BY <1>5, <1>7, <1>9, OtherFieldsAre
<1> HIDE DEF p1
<1> QED  BY <1>3, <1>5, <1>8, <1>10 DEF SameList

(* Two queues, one behind the other. *)
LEMMA JoinedIs ==
  ASSUME NEW S, NEW a \in Seq(S), NEW b \in Seq(S), NEW c, c = a \o b
  PROVE  /\ c \in Seq(S)
         /\ \A i \in DOMAIN a : i \in DOMAIN c /\ c[i] = a[i]
         /\ \A i \in DOMAIN c : i \in DOMAIN a \/ (i - Len(a) \in DOMAIN b /\ c[i] = b[i - Len(a)] /\ i \notin DOMAIN a)
         /\ \A i, j \in DOMAIN c : i - Len(a) = j - Len(a) => i = j
         /\ \A j \in DOMAIN b : j + Len(a) \in DOMAIN c /\ c[j + Len(a)] = b[j]
<1>1. /\ a \o b \in Seq(S) /\ Len(a \o b) = Len(a) + Len(b)
      /\ \A i \in 1..(Len(a) + Len(b)) : (a \o b)[i] = IF i <= Len(a) THEN a[i] ELSE b[i - Len(a)]
  BY ConcatProperties
<1>2. Len(a) \in Nat /\ Len(b) \in Nat /\ DOMAIN a = 1..Len(a) /\ DOMAIN b = 1..Len(b) /\ DOMAIN c = 1..(Len(a) + Len(b))
  BY <1>1
<1>3. ASSUME NEW i \in DOMAIN c
      PROVE  i \in DOMAIN a \/ (i - Len(a) \in DOMAIN b /\ c[i] = b[i - Len(a)] /\ i \notin DOMAIN a)
  BY <1>1, <1>2
<1>4. ASSUME NEW i \in DOMAIN a PROVE i \in DOMAIN c /\ c[i] = a[i]
  BY <1>1, <1>2
<1>5. \A i, j \in DOMAIN c : i - Len(a) = j - Len(a) => i = j
  BY <1>2
<1>6. ASSUME NEW j \in DOMAIN b PROVE j + Len(a) \in DOMAIN c /\ c[j + Len(a)] = b[j]
  <2>1. j + Len(a) \in 1..(Len(a) + Len(b)) /\ ~(j + Len(a) <= Len(a)) /\ (j + Len(a)) - Len(a) = j
    BY <1>2
  <2> QED  BY <1>1, <1>2, <2>1
<1> QED  BY <1>1, <1>3, <1>4, <1>5, <1>6

(* What a page waits for, after a handler. *)
LEMMA GetsAfter ==
  ASSUME NEW base, NEW page, PageAfter(base, page), NEW req \in Seq(Requests), NEW nws \in Seq(News),
         GetsAwaited(req, nws, base.managers),
         NEW K \in SUBSET DOMAIN page.managers,
         \A m \in DOMAIN page.managers : page.managers[m].cache # "ready" => m \in K
  PROVE  GetsAwaited(req \o page.out, nws, Restrict(page.managers, K))
<1> DEFINE c == req \o page.out
           mans == Restrict(page.managers, K)
<1>1. page.managers \in Maps(Nat, Manager) /\ page.out \in Seq(Requests)
  BY DEF PageAfter, PageTypes, PageRecords
<1>2. mans \in Maps(Nat, Manager) /\ DOMAIN mans = K /\ \A m \in K : mans[m] = page.managers[m]
  BY <1>1, RestrictIs
<1>3. /\ \A i \in DOMAIN req : i \in DOMAIN c /\ c[i] = req[i]
      /\ \A i \in DOMAIN c : i \in DOMAIN req \/
           (i - Len(req) \in DOMAIN page.out /\ c[i] = page.out[i - Len(req)] /\ i \notin DOMAIN req)
      /\ \A i, j \in DOMAIN c : i - Len(req) = j - Len(req) => i = j
  BY <1>1, JoinedIs
<1>4. ListWrites \cap ValueGets = {}
  BY DEF ListWrites, ValueGets
<1> HIDE DEF c, mans
<1>5. ASSUME NEW r, Awaits(base.managers, r) PROVE Awaits(mans, r)
  <2>1. r.manager \in DOMAIN page.managers /\ Keeps(base.managers[r.manager], page.managers[r.manager])
        /\ base.managers[r.manager].cache = "asked" /\ base.managers[r.manager].id = r.key
    BY <1>5 DEF PageAfter, Awaits
  <2>2. page.managers[r.manager].cache = "asked" /\ page.managers[r.manager].id = r.key
    BY <2>1 DEF Keeps
  <2> QED  BY <1>2, <2>1, <2>2 DEF Awaits
<1>6. ASSUME NEW i \in DOMAIN page.out, page.out[i] \in ValueGets
      PROVE  Awaits(mans, page.out[i]) /\ ~Awaits(base.managers, page.out[i])
  <2>1. /\ page.out[i].manager \in DOMAIN page.managers
        /\ page.managers[page.out[i].manager].cache = "asked"
        /\ page.managers[page.out[i].manager].id = page.out[i].key
        /\ page.out[i].manager \in DOMAIN base.managers => base.managers[page.out[i].manager].cache = "unread"
    BY <1>4, <1>6 DEF PageAfter
  <2> QED  BY <1>2, <2>1 DEF Awaits
<1>7. ASSUME NEW i \in DOMAIN c, c[i] \in ValueGets PROVE Awaits(mans, c[i])
  BY <1>3, <1>5, <1>6, <1>7 DEF GetsAwaited
<1>8. \A i \in DOMAIN nws : nws[i] \in ValueNews => Awaits(mans, nws[i])
  BY <1>5 DEF GetsAwaited
<1>9. ASSUME NEW r, NEW i \in DOMAIN page.out, page.out[i] \in ValueGets, Awaits(base.managers, r)
      PROVE  r.manager # page.out[i].manager
  <2>1. page.out[i].manager \in DOMAIN base.managers => base.managers[page.out[i].manager].cache = "unread"
    BY <1>4, <1>9 DEF PageAfter
  <2> QED  BY <1>9, <2>1 DEF Awaits
<1>10. AskedOnce(c, ValueGets)
  <2> SUFFICES ASSUME NEW i \in DOMAIN c, NEW j \in DOMAIN c, c[i] \in ValueGets, c[j] \in ValueGets,
                      c[i].manager = c[j].manager
               PROVE  i = j
    BY DEF AskedOnce
  <2>1. CASE i \in DOMAIN req /\ j \in DOMAIN req
    BY <1>3, <2>1 DEF GetsAwaited, AskedOnce
  <2>2. CASE i \in DOMAIN req /\ j \notin DOMAIN req
    <3>1. Awaits(base.managers, c[i])
      BY <1>3, <2>2 DEF GetsAwaited
    <3>2. page.out[j - Len(req)] = c[j] /\ j - Len(req) \in DOMAIN page.out
      BY <1>3, <2>2
    <3> QED  BY <1>9, <3>1, <3>2
  <2>3. CASE i \notin DOMAIN req /\ j \in DOMAIN req
    <3>1. Awaits(base.managers, c[j])
      BY <1>3, <2>3 DEF GetsAwaited
    <3>2. page.out[i - Len(req)] = c[i] /\ i - Len(req) \in DOMAIN page.out
      BY <1>3, <2>3
    <3> QED  BY <1>9, <3>1, <3>2
  <2>4. CASE i \notin DOMAIN req /\ j \notin DOMAIN req
    <3>1. i - Len(req) = j - Len(req)
      BY <1>3, <2>4 DEF PageAfter
    <3> QED  BY <1>3, <3>1
  <2> QED  BY <2>1, <2>2, <2>3, <2>4
<1>11. ASSUME NEW i \in DOMAIN c, NEW j \in DOMAIN nws, c[i] \in ValueGets, nws[j] \in ValueNews
       PROVE  c[i].manager # nws[j].manager
  <2>1. CASE i \in DOMAIN req
    BY <1>3, <1>11, <2>1 DEF GetsAwaited
  <2>2. CASE i \notin DOMAIN req
    BY <1>3, <1>9, <1>11, <2>2 DEF GetsAwaited
  <2> QED  BY <2>1, <2>2
<1>12. AskedOnce(nws, ValueNews)
  BY DEF GetsAwaited
<1>13. GetsAwaited(c, nws, mans)
  BY <1>7, <1>8, <1>10, <1>11, <1>12 DEF GetsAwaited
<1> QED  BY <1>13 DEF c, mans

(* What a page has written, after a handler that writes nothing. *)
LEMMA ValuesAfter ==
  ASSUME LIST \notin Ids, NEW p, NEW wri, NEW sto,
         NEW base, NEW page, PageAfter(base, page), NEW req \in Seq(Requests),
         base.managers \in Maps(Nat, Manager),
         ValuesCurrent(p, req, base.managers, base.made, wri, sto),
         NEW K \in SUBSET DOMAIN page.managers
  PROVE  ValuesCurrent(p, req \o page.out, Restrict(page.managers, K), page.made, wri, sto)
<1> DEFINE c == req \o page.out
           mans == Restrict(page.managers, K)
<1>1. page.managers \in Maps(Nat, Manager) /\ page.out \in Seq(Requests) /\ page.made \in Nat
  BY DEF PageAfter, PageTypes, PageRecords
<1>2. mans \in Maps(Nat, Manager) /\ DOMAIN mans = K /\ \A m \in K : mans[m] = page.managers[m]
  BY <1>1, RestrictIs
<1>3. /\ \A i \in DOMAIN req : i \in DOMAIN c /\ c[i] = req[i]
      /\ \A i \in DOMAIN c : i \in DOMAIN req \/
           (i - Len(req) \in DOMAIN page.out /\ c[i] = page.out[i - Len(req)] /\ i \notin DOMAIN req)
  BY <1>1, JoinedIs
<1>4. \A i \in DOMAIN page.out : page.out[i] \notin ValueWrites
  <2>1. ListWrites \cap ValueWrites = {}
    BY DEF ListWrites, ValueWrites
  <2>2. ValueGets \cap ValueWrites = {}
    BY DEF ValueGets, ValueWrites
  <2> QED  BY <2>1, <2>2 DEF PageAfter
<1>t. base.made \in Nat /\ base.made <= page.made
  BY DEF PageAfter
<1> HIDE DEF c, mans
<1>5. \A i \in DOMAIN c : c[i] \in ValueWrites => i \in DOMAIN req /\ c[i] = req[i]
  BY <1>3, <1>4
<1>6. ASSUME NEW m \in DOMAIN mans, m \notin DOMAIN base.managers PROVE m \in Nat /\ ~(m <= base.made)
  <2>1. m \in Nat
    BY <1>1, <1>2, MapsFields
  <2>2. base.made < m
    BY <1>2, <1>6 DEF PageAfter
  <2> QED  BY <1>t, <2>1, <2>2
<1>7. ASSUME NEW m \in DOMAIN mans, m \in DOMAIN base.managers
      PROVE  Keeps(base.managers[m], mans[m])
  BY <1>2, <1>7 DEF PageAfter
<1>8. WritesReady(c, mans, page.made)
  <2> SUFFICES ASSUME NEW i \in DOMAIN req, req[i] \in ValueWrites
               PROVE  /\ req[i].manager <= page.made
                      /\ req[i].manager \in DOMAIN mans =>
                           mans[req[i].manager].cache = "ready" /\ mans[req[i].manager].id = req[i].key
    BY <1>5 DEF WritesReady
  <2> DEFINE m == req[i].manager
  <2>1. /\ m <= base.made
        /\ m \in DOMAIN base.managers => base.managers[m].cache = "ready" /\ base.managers[m].id = req[i].key
    BY DEF ValuesCurrent, WritesReady
  <2>2. m \in Nat
    BY DEF ValueWrites
  <2> HIDE DEF m
  <2>3. m <= page.made
    BY <1>1, <1>t, <2>1, <2>2
  <2>4. m \in DOMAIN mans => mans[m].cache = "ready" /\ mans[m].id = req[i].key
    BY <1>6, <1>7, <2>1 DEF Keeps
  <2> QED  BY <2>3, <2>4 DEF m
<1>9. WrittenReady(p, mans, page.made, wri)
  <2>1. ASSUME NEW id \in Ids, NEW m \in Nat, wri[id] = <<p, m>> PROVE m <= page.made
    <3>1. m <= base.made
      BY <2>1 DEF ValuesCurrent, WrittenReady
    <3> QED  BY <1>1, <1>t, <3>1
  <2>2. ASSUME NEW m \in DOMAIN mans, wri[mans[m].id] = <<p, m>> PROVE mans[m].cache = "ready"
    <3>1. m \in Nat /\ mans[m].id \in Ids
      <4>1. m \in Nat /\ mans[m] \in Manager
        BY <1>2, MapsFields
      <4> QED  BY <4>1 DEF Manager
    <3>2. m <= base.made
      BY <2>2, <3>1 DEF ValuesCurrent, WrittenReady
    <3>3. m \in DOMAIN base.managers
      BY <1>6, <3>2
    <3>4. Keeps(base.managers[m], mans[m])
      BY <1>7, <3>3
    <3>5. base.managers[m].id = mans[m].id
      BY <3>4 DEF Keeps
    <3>6. base.managers[m].cache = "ready"
      BY <2>2, <3>3, <3>5 DEF ValuesCurrent, WrittenReady
    <3> QED  BY <3>4, <3>6 DEF Keeps
  <2> QED  BY <2>1, <2>2 DEF WrittenReady
<1>10. ASSUME NEW m \in DOMAIN mans PROVE Current(p, c, wri, sto, m, mans[m])
  <2>1. m \in Nat /\ mans[m].id \in Ids
    <3>1. m \in Nat /\ mans[m] \in Manager
      BY <1>2, MapsFields
    <3> QED  BY <3>1 DEF Manager
  <2>2. CASE m \notin DOMAIN base.managers
    <3>1. \A i \in DOMAIN c : ~WriteOf(c[i], m)
      BY <1>5, <1>6, <2>2 DEF ValuesCurrent, WritesReady, WriteOf
    <3>2. wri[mans[m].id] # <<p, m>>
      BY <1>6, <2>1, <2>2 DEF ValuesCurrent, WrittenReady
    <3> QED  BY <3>1, <3>2 DEF Current
  <2>3. CASE m \in DOMAIN base.managers
    <3> DEFINE old == base.managers[m]
               new == mans[m]
    <3>1. Keeps(old, new) /\ Current(p, req, wri, sto, m, old)
      BY <1>7, <2>3 DEF ValuesCurrent
    <3>2. old.cache # "ready" => wri[old.id] # <<p, m>> /\ \A i \in DOMAIN req : ~WriteOf(req[i], m)
      BY <2>3 DEF ValuesCurrent, WritesReady, WrittenReady, WriteOf
    <3> HIDE DEF old, new
    <3>3. new.id = old.id
      BY <3>1 DEF Keeps
    <3>4. CASE old.cache # "ready"
      <4>1. \A i \in DOMAIN c : ~WriteOf(c[i], m)
        BY <1>5, <3>2, <3>4 DEF WriteOf
      <4> QED  BY <3>2, <3>3, <3>4, <4>1 DEF Current, new
    <3>5. CASE old.cache = "ready" /\ new.timer
      BY <3>5 DEF Current, new
    <3>6. CASE old.cache = "ready" /\ ~new.timer
      <4>1. new.value = old.value /\ ~old.timer
        BY <3>1, <3>6 DEF Keeps
      <4>2. CASE \A i \in DOMAIN req : ~WriteOf(req[i], m)
        <5>1. \A i \in DOMAIN c : ~WriteOf(c[i], m)
          BY <1>5, <4>2 DEF WriteOf
        <5>2. wri[new.id] = <<p, m>> => sto[new.id] = new.value
          BY <3>1, <3>3, <4>1, <4>2 DEF Current
        <5> QED  BY <5>1, <5>2 DEF Current, new
      <4>3. CASE ~(\A i \in DOMAIN req : ~WriteOf(req[i], m))
        <5>1. PICK i \in DOMAIN req : /\ WriteOf(req[i], m) /\ req[i].key = old.id /\ req[i].value = old.value
                                      /\ \A j \in DOMAIN req : WriteOf(req[j], m) => j <= i
          BY <3>1, <4>1, <4>3 DEF Current
        <5>2. i \in DOMAIN c /\ c[i] = req[i]
          BY <1>3
        <5>3. \A j \in DOMAIN c : WriteOf(c[j], m) => j <= i
          BY <1>5, <5>1 DEF WriteOf
        <5>4. WriteOf(c[i], m) /\ c[i].key = new.id /\ c[i].value = new.value
          BY <3>3, <4>1, <5>1, <5>2
        <5> QED  BY <5>2, <5>3, <5>4 DEF Current, new
      <4> QED  BY <4>2, <4>3
    <3> QED  BY <3>4, <3>5, <3>6
  <2> QED  BY <2>2, <2>3
<1>11. ValuesCurrent(p, c, mans, page.made, wri, sto)
  BY <1>8, <1>9, <1>10 DEF ValuesCurrent
<1> QED  BY <1>11 DEF c, mans

(* A page nothing happens to. *)
LEMMA OtherPages ==
  ASSUME NEW q \in Pages, PageInv(q),
         stored' = stored, writer' = writer, requests'[q] = requests[q], news'[q] = news[q],
         retries'[q] = retries[q], list'[q] = list[q], childLists_'[q] = childLists_[q],
         managers'[q] = managers[q], syncs'[q] = syncs[q], made'[q] = made[q], q \in refused => q \in refused'
  PROVE  PageInv(q)'
<1>1. Page(q)' = Page(q)
  BY Zenon DEF Page
<1>2. PageTypes(Page(q))'
  BY <1>1, Zenon DEF PageInv, PageTypes
<1>3. GetsAwaited(requests[q], news[q], managers[q])'
  BY Zenon DEF PageInv
<1>4. ListFollows(requests[q], news[q], retries[q], list[q], stored)'
  BY Zenon DEF PageInv
<1>5. (q \notin refused => retries[q] = {} /\ ValuesCurrent(q, requests[q], managers[q], made[q], writer, stored))'
  BY Zenon DEF PageInv
<1> QED  BY <1>2, <1>3, <1>4, <1>5, Zenon DEF PageInv

(* A page that forgets managers it has no more use for. *)
LEMMA KeptPage ==
  ASSUME NEW page, PageTypes(page), NEW K \in SUBSET DOMAIN page.managers,
         \A id \in DOMAIN page.children : page.children[id] \in K,
         NEW r, r = [list |-> page.list, children |-> page.children, managers |-> Restrict(page.managers, K),
                     syncs |-> page.syncs, made |-> page.made, out |-> <<>>]
  PROVE  PageTypes(r) /\ r.managers \in Maps(Nat, Manager)
<1> DEFINE f == Restrict(page.managers, K)
<1>1. page \in PageRecords
  BY DEF PageTypes
<1>2. page.managers \in Maps(Nat, Manager)
  BY <1>1 DEF PageRecords
<1>3. f \in Maps(Nat, Manager) /\ DOMAIN f = K /\ \A m \in K : f[m] = page.managers[m]
  BY <1>2, RestrictIs
<1> HIDE DEF f
<1>4. /\ r.list = page.list /\ r.children = page.children /\ r.managers = f
      /\ r.syncs = page.syncs /\ r.made = page.made /\ r.out = <<>>
  BY DEF f
<1>5. r \in PageRecords
  <2>1. r = [list |-> page.list, children |-> page.children, managers |-> f,
             syncs |-> page.syncs, made |-> page.made, out |-> <<>>]
    BY DEF f
  <2>2. <<>> \in Seq(Requests)
    BY NoElements
  <2> QED  BY <1>1, <1>3, <2>1, <2>2 DEF PageRecords
<1> QED  BY <1>3, <1>4, <1>5 DEF PageTypes

(* A step of one page, whatever it makes of the page and its queues, keeps *)
(* the invariant if it keeps that of the queues.                           *)
LEMMA PageStep ==
  ASSUME PagesInv, NEW p \in Pages, NEW base, NEW page, PageAfter(base, page), base.managers \in Maps(Nat, Manager),
         NEW K \in SUBSET DOMAIN page.managers,
         \A id \in DOMAIN page.children : page.children[id] \in K,
         \A m \in DOMAIN page.managers : page.managers[m].cache # "ready" => m \in K,
         NEW req \in Seq(Requests), NEW nws \in Seq(News), NEW ret \in SUBSET PageWrites,
         list' = [list EXCEPT ![p] = page.list], childLists_' = [childLists_ EXCEPT ![p] = page.children],
         managers' = [managers EXCEPT ![p] = Restrict(page.managers, K)],
         syncs' = [syncs EXCEPT ![p] = page.syncs], made' = [made EXCEPT ![p] = page.made],
         requests' = [requests EXCEPT ![p] = req \o page.out], news' = [news EXCEPT ![p] = nws],
         retries' = [retries EXCEPT ![p] = ret],
         stored' = stored, writer' = writer, refused \subseteq refused',
         GetsAwaited(req, nws, base.managers),
         p \notin refused' => ret = {} /\ ValuesCurrent(p, req, base.managers, base.made, writer, stored),
         ListFollows(req \o page.out, nws, ret, page.list, stored)
  PROVE  PagesInv'
<1> DEFINE f == Restrict(page.managers, K)
           c == req \o page.out
<1>1. /\ list' = [list EXCEPT ![p] = page.list] /\ childLists_' = [childLists_ EXCEPT ![p] = page.children]
      /\ managers' = [managers EXCEPT ![p] = f] /\ syncs' = [syncs EXCEPT ![p] = page.syncs]
      /\ made' = [made EXCEPT ![p] = page.made] /\ requests' = [requests EXCEPT ![p] = c]
  OBVIOUS
<1>2. PageTypes(page) /\ page \in PageRecords
  BY DEF PageAfter, PageTypes
<1>3. /\ page.list \in Seq(Ids) /\ page.children \in Maps(Ids, Nat) /\ page.managers \in Maps(Nat, Manager)
      /\ page.syncs \in SUBSET Syncs /\ page.made \in Nat /\ page.out \in Seq(Requests)
  BY <1>2 DEF PageRecords
<1>7. f \in Maps(Nat, Manager)
  BY <1>3, RestrictIs
<1>8. c \in Seq(Requests)
  BY <1>3, ConcatProperties
<1>9. GetsAwaited(c, nws, f)
  BY GetsAfter
<1>10. p \notin refused' => ret = {} /\ ValuesCurrent(p, c, f, page.made, writer, stored)
  <2>1. LIST \notin Ids
    BY DEF PagesInv, VariableTypes
  <2> QED  BY <2>1, ValuesAfter
<1> DEFINE r == [list |-> page.list, children |-> page.children, managers |-> f,
                 syncs |-> page.syncs, made |-> page.made, out |-> <<>>]
<1>11. PageTypes(r)
  BY <1>2, KeptPage
<1>12. ListFollows(c, nws, ret, page.list, stored)
  OBVIOUS
<1> HIDE DEF f, c
<1>13. /\ VariableTypes
       /\ list \in [Pages -> Seq(Ids)] /\ childLists_ \in [Pages -> Maps(Ids, Nat)]
       /\ managers \in [Pages -> Maps(Nat, Manager)] /\ syncs \in [Pages -> SUBSET Syncs]
       /\ made \in [Pages -> Nat] /\ requests \in [Pages -> Seq(Requests)] /\ news \in [Pages -> Seq(News)]
       /\ retries \in [Pages -> SUBSET PageWrites]
  BY DEF PagesInv, VariableTypes
<1>14. /\ list'[p] = page.list /\ childLists_'[p] = page.children /\ managers'[p] = f /\ syncs'[p] = page.syncs
       /\ made'[p] = page.made /\ requests'[p] = c /\ news'[p] = nws
       /\ retries'[p] = ret
  BY <1>1, <1>13
<1>15. VariableTypes'
  <2>1. /\ list' \in [Pages -> Seq(Ids)] /\ childLists_' \in [Pages -> Maps(Ids, Nat)]
        /\ syncs' \in [Pages -> SUBSET Syncs]
        /\ made' \in [Pages -> Nat]
    BY <1>1, <1>3, <1>13
  <2>2. managers' \in [Pages -> Maps(Nat, Manager)]
    BY <1>1, <1>7, <1>13
  <2>3. requests' \in [Pages -> Seq(Requests)] /\ news' \in [Pages -> Seq(News)]
    <3>1. requests' \in [Pages -> Seq(Requests)]
      BY <1>1, <1>8, <1>13
    <3>2. news' \in [Pages -> Seq(News)]
      BY <1>13
    <3> QED  BY <3>1, <3>2
  <2>4. retries' \in [Pages -> SUBSET PageWrites]
    BY <1>13
  <2> QED  BY <1>13, <2>1, <2>2, <2>3, <2>4, Zenon DEF VariableTypes
<1>16. PageInv(p)'
  <2>1. Page(p)' = r
    BY <1>14, Zenon DEF Page
  <2> HIDE DEF r
  <2>2. PageTypes(Page(p))'
    BY <1>11, <2>1, Zenon DEF PageTypes
  <2>3. GetsAwaited(requests[p], news[p], managers[p])'
    BY <1>9, <1>14, Zenon
  <2>4. ListFollows(requests[p], news[p], retries[p], list[p], stored)'
    BY <1>12, <1>14, Zenon
  <2>6. (p \notin refused => retries[p] = {} /\ ValuesCurrent(p, requests[p], managers[p], made[p], writer, stored))'
    BY <1>10, <1>14, Zenon
  <2> QED  BY <2>2, <2>3, <2>4, <2>6, Zenon DEF PageInv
<1>17. ASSUME NEW q \in Pages, q # p PROVE PageInv(q)'
  <2>1. /\ list'[q] = list[q] /\ childLists_'[q] = childLists_[q] /\ managers'[q] = managers[q]
        /\ syncs'[q] = syncs[q] /\ made'[q] = made[q] /\ requests'[q] = requests[q] /\ news'[q] = news[q]
        /\ retries'[q] = retries[q]
    BY <1>1, <1>13, <1>17
  <2>2. PageInv(q)
    BY DEF PagesInv
  <2> QED  BY <2>1, <2>2, OtherPages, Zenon
<1> QED  BY <1>15, <1>16, <1>17 DEF PagesInv

(* A handler that has done nothing yet. *)
LEMMA NothingDone ==
  ASSUME NEW page, PageTypes(page), page.out = <<>>
  PROVE  PageAfter(page, page)
<1>1. page \in PageRecords
  BY DEF PageTypes
<1>2. page.made \in Nat /\ page.made <= page.made
  BY <1>1 DEF PageRecords
<1>3. \A i : i \notin DOMAIN page.out
  OBVIOUS
<1>4. \A m \in DOMAIN page.managers : Keeps(page.managers[m], page.managers[m])
  BY DEF Keeps
<1> QED  BY <1>2, <1>3, <1>4 DEF PageAfter

(* A page, as it is. *)
LEMMA PageIs ==
  ASSUME PagesInv, NEW p \in Pages
  PROVE  /\ PageAfter(Page(p), Page(p)) /\ PageTypes(Page(p)) /\ Page(p).out = <<>>
         /\ Page(p).list = list[p] /\ Page(p).children = childLists_[p] /\ Page(p).managers = managers[p]
         /\ Page(p).syncs = syncs[p] /\ Page(p).made = made[p]
         /\ requests[p] \in Seq(Requests) /\ news[p] \in Seq(News) /\ retries[p] \in SUBSET PageWrites
         /\ list[p] \in Seq(Ids) /\ managers[p] \in Maps(Nat, Manager) /\ made[p] \in Nat
         /\ GetsAwaited(requests[p], news[p], managers[p])
         /\ p \notin refused => retries[p] = {} /\ ValuesCurrent(p, requests[p], managers[p], made[p], writer, stored)
         /\ ListFollows(requests[p], news[p], retries[p], list[p], stored)
<1>1. /\ Page(p).out = <<>>
      /\ Page(p).list = list[p] /\ Page(p).children = childLists_[p] /\ Page(p).managers = managers[p]
      /\ Page(p).syncs = syncs[p] /\ Page(p).made = made[p]
  BY DEF Page
<1>2. PageInv(p)
  BY DEF PagesInv
<1>3. PageTypes(Page(p))
  BY <1>2 DEF PageInv
<1>4. PageAfter(Page(p), Page(p))
  BY <1>1, <1>3, NothingDone
<1>5. /\ requests[p] \in Seq(Requests) /\ news[p] \in Seq(News) /\ retries[p] \in SUBSET PageWrites
      /\ list[p] \in Seq(Ids) /\ managers[p] \in Maps(Nat, Manager) /\ made[p] \in Nat
  BY DEF PagesInv, VariableTypes
<1> QED  BY <1>1, <1>2, <1>3, <1>4, <1>5 DEF PageInv

(* The same of a handler that runs to its end. *)
LEMMA PageBecomes ==
  ASSUME PagesInv, NEW p \in Pages, NEW base, NEW page, PageAfter(base, page), Become(p, page),
         base.managers \in Maps(Nat, Manager),
         NEW nws \in Seq(News), news' = [news EXCEPT ![p] = nws],
         GetsAwaited(requests[p], nws, base.managers),
         p \notin refused => ValuesCurrent(p, requests[p], base.managers, base.made, writer, stored),
         ListFollows(requests[p] \o page.out, nws, retries[p], page.list, stored),
         stored' = stored, writer' = writer, retries' = retries, refused' = refused
  PROVE  PagesInv'
<1> DEFINE K == {m \in DOMAIN page.managers : m \in Range(page.children) \/ Busy(page.managers[m])}
           c == requests[p] \o page.out
           r == retries[p]
<1>1. /\ list' = [list EXCEPT ![p] = page.list] /\ childLists_' = [childLists_ EXCEPT ![p] = page.children]
      /\ managers' = [managers EXCEPT ![p] = Restrict(page.managers, K)] /\ syncs' = [syncs EXCEPT ![p] = page.syncs]
      /\ made' = [made EXCEPT ![p] = page.made] /\ requests' = [requests EXCEPT ![p] = c]
  <2>1. requests' = [requests EXCEPT ![p] = @ \o page.out]
    BY Zenon DEF Become
  <2> QED  BY <2>1, Zenon DEF Become
<1>2. PageTypes(page)
  BY DEF PageAfter
<1>3. K \in SUBSET DOMAIN page.managers
  OBVIOUS
<1>4. \A id \in DOMAIN page.children : page.children[id] \in K
  BY <1>2 DEF PageTypes, Range
<1>5. \A m \in DOMAIN page.managers : page.managers[m].cache # "ready" => m \in K
  BY DEF Busy
<1>6. requests[p] \in Seq(Requests) /\ r \in SUBSET PageWrites
  BY PageIs
<1>7. retries' = [retries EXCEPT ![p] = r]
  BY DEF PagesInv, VariableTypes
<1>8. p \notin refused => r = {} /\ ValuesCurrent(p, requests[p], base.managers, base.made, writer, stored)
  BY PageIs
<1>9. ListFollows(c, nws, r, page.list, stored)
  OBVIOUS
<1> HIDE DEF K, r
<1> QED  BY <1>1, <1>3, <1>4, <1>5, <1>6, <1>7, <1>8, <1>9, PageStep

(* A page whose handlers do not run. *)
LEMMA PageStays ==
  ASSUME PagesInv, NEW p \in Pages,
         UNCHANGED <<list, childLists_, managers, syncs, made, stored, writer>>,
         NEW req \in Seq(Requests), NEW nws \in Seq(News), NEW ret \in SUBSET PageWrites,
         requests' = [requests EXCEPT ![p] = req], news' = [news EXCEPT ![p] = nws],
         retries' = [retries EXCEPT ![p] = ret], refused \subseteq refused',
         GetsAwaited(req, nws, managers[p]),
         p \notin refused' => ret = {} /\ ValuesCurrent(p, req, managers[p], made[p], writer, stored),
         ListFollows(req, nws, ret, list[p], stored)
  PROVE  PagesInv'
<1> DEFINE base == Page(p)
           K == DOMAIN base.managers
<1>1. /\ PageAfter(base, base) /\ PageTypes(base) /\ base.out = <<>>
      /\ base.list = list[p] /\ base.children = childLists_[p] /\ base.managers = managers[p]
      /\ base.syncs = syncs[p] /\ base.made = made[p] /\ managers[p] \in Maps(Nat, Manager)
  BY PageIs
<1> HIDE DEF base
<1>2. Restrict(base.managers, K) = base.managers
  BY <1>1, MapsFields DEF Restrict
<1>3. req \o base.out = req
  BY <1>1, ConcatEmpty
<1>4. \A id \in DOMAIN base.children : base.children[id] \in K
  BY <1>1 DEF PageTypes
<1>5. /\ list \in [Pages -> Seq(Ids)] /\ childLists_ \in [Pages -> Maps(Ids, Nat)]
      /\ managers \in [Pages -> Maps(Nat, Manager)] /\ syncs \in [Pages -> SUBSET Syncs]
      /\ made \in [Pages -> Nat]
  BY DEF PagesInv, VariableTypes
<1>6. /\ list' = [list EXCEPT ![p] = base.list] /\ childLists_' = [childLists_ EXCEPT ![p] = base.children]
      /\ managers' = [managers EXCEPT ![p] = Restrict(base.managers, K)] /\ syncs' = [syncs EXCEPT ![p] = base.syncs]
      /\ made' = [made EXCEPT ![p] = base.made] /\ requests' = [requests EXCEPT ![p] = req \o base.out]
  BY <1>1, <1>2, <1>3, <1>5
<1>7. /\ base.managers \in Maps(Nat, Manager)
      /\ GetsAwaited(req, nws, base.managers)
      /\ p \notin refused' => ret = {} /\ ValuesCurrent(p, req, base.managers, base.made, writer, stored)
      /\ ListFollows(req \o base.out, nws, ret, base.list, stored)
  BY <1>1, <1>3, Zenon
<1>8. K \in SUBSET DOMAIN base.managers /\ \A m \in DOMAIN base.managers : base.managers[m].cache # "ready" => m \in K
  OBVIOUS
<1> HIDE DEF K
<1> QED  BY <1>1, <1>4, <1>6, <1>7, <1>8, PageStep

(* A page that takes the next of what it is sent will have heard the same  *)
(* list in the end.                                                        *)
LEMMA HeardNext ==
  ASSUME NEW nws \in Seq(News), nws # <<>>, NEW lst, NEW v, Heard(nws, lst, v), NEW new,
         new = IF Tells(Head(nws)) THEN Head(nws).value ELSE lst
  PROVE  Heard(Tail(nws), new, v)
<1> DEFINE t == Tail(nws)
<1>1. /\ Head(nws) = nws[1] /\ 1 \in DOMAIN nws /\ t \in Seq(News) /\ Len(t) = Len(nws) - 1
      /\ \A i \in DOMAIN t : i + 1 \in DOMAIN nws /\ t[i] = nws[i + 1]
      /\ \A i \in DOMAIN nws : i # 1 => i - 1 \in DOMAIN t
  BY TailProperties
<1>2. (\A i \in DOMAIN t : i \in Nat) /\ (\A i \in DOMAIN nws : i \in Nat)
  BY <1>1
<1> HIDE DEF t
<1>3. CASE \E i \in DOMAIN nws : Tells(nws[i]) /\ nws[i].value = v /\ \A j \in DOMAIN nws : Tells(nws[j]) => j <= i
  <2>1. PICK i \in DOMAIN nws : Tells(nws[i]) /\ nws[i].value = v /\ \A j \in DOMAIN nws : Tells(nws[j]) => j <= i
    BY <1>3
  <2>2. CASE i = 1
    <3>1. v = new
      BY <1>1, <2>1, <2>2
    <3>2. ASSUME NEW j \in DOMAIN t PROVE ~Tells(t[j])
      <4>1. j + 1 \in DOMAIN nws /\ t[j] = nws[j + 1] /\ j \in Nat /\ ~(j + 1 <= 1)
        <5>1. j \in Nat /\ j >= 1
          BY <1>1
        <5> QED  BY <1>1, <5>1
      <4> QED  BY <2>1, <2>2, <4>1
    <3> QED  BY <3>1, <3>2 DEF Heard, t
  <2>3. CASE i # 1
    <3> DEFINE k == i - 1
    <3>1. k \in DOMAIN t /\ k + 1 = i /\ k \in Nat
      BY <1>1, <1>2, <2>3
    <3> HIDE DEF k
    <3>2. t[k] = nws[i]
      BY <1>1, <3>1
    <3>3. ASSUME NEW j \in DOMAIN t, Tells(t[j]) PROVE j <= k
      <4>1. j + 1 <= i /\ j \in Nat
        BY <1>1, <1>2, <2>1, <3>3
      <4> QED  BY <3>1, <4>1
    <3> QED  BY <2>1, <3>1, <3>2, <3>3 DEF Heard, t
  <2> QED  BY <2>2, <2>3
<1>4. CASE (\A i \in DOMAIN nws : ~Tells(nws[i])) /\ v = lst
  BY <1>1, <1>4 DEF Heard, t
<1> QED  BY <1>3, <1>4 DEF Heard

(* Sending more leaves what is coming on its way. *)
LEMMA ComingMore ==
  ASSUME NEW req \in Seq(Requests), NEW out \in Seq(Requests), NEW ret, NEW v, NEW sto, Coming(req, ret, v, sto)
  PROVE  Coming(req \o out, ret, v, sto)
<1> DEFINE c == req \o out
<1>1. \A i \in DOMAIN req : i \in DOMAIN c /\ c[i] = req[i]
  BY JoinedIs
<1> HIDE DEF c
<1>2. Coming(c, ret, v, sto)
  BY <1>1 DEF Coming
<1> QED  BY <1>2 DEF c

(* A page hears the next of what it is sent. *)
LEMMA ListHears ==
  ASSUME NEW req \in Seq(Requests), NEW out \in Seq(Requests), NEW nws \in Seq(News), nws # <<>>,
         NEW ret, NEW lst, NEW sto, ListFollows(req, nws, ret, lst, sto),
         NEW new, new = IF Tells(Head(nws)) THEN Head(nws).value ELSE lst
  PROVE  ListFollows(req \o out, Tail(nws), ret, new, sto)
<1>1. PICK v : Heard(nws, lst, v) /\ Coming(req, ret, v, sto)
  BY DEF ListFollows
<1>2. Heard(Tail(nws), new, v) /\ Coming(req \o out, ret, v, sto)
  BY <1>1, HeardNext, ComingMore
<1> QED  BY <1>2 DEF ListFollows

(* A page changes its list, and sends it. *)
LEMMA ListIsSent ==
  ASSUME NEW req \in Seq(Requests), NEW out \in Seq(Requests), NEW nws,
         NEW ret, NEW lst, NEW sto, ListFollows(req, nws, ret, lst, sto),
         NEW new, new = lst \/ \E i \in DOMAIN out : out[i] = Write(LIST, new, 0)
  PROVE  ListFollows(req \o out, nws, ret, new, sto)
<1> DEFINE c == req \o out
<1>1. PICK v : Heard(nws, lst, v) /\ Coming(req, ret, v, sto)
  BY DEF ListFollows
<1>2. Coming(c, ret, v, sto)
  BY <1>1, ComingMore
<1>3. \A j \in DOMAIN out : j + Len(req) \in DOMAIN c /\ c[j + Len(req)] = out[j]
  BY JoinedIs
<1> HIDE DEF c
<1>4. CASE new = lst \/ \E i \in DOMAIN nws : Tells(nws[i])
  <2>1. Heard(nws, new, v)
    BY <1>1, <1>4 DEF Heard
  <2> QED  BY <1>2, <2>1 DEF ListFollows, c
<1>5. CASE new # lst /\ \A i \in DOMAIN nws : ~Tells(nws[i])
  <2>1. Heard(nws, new, new) /\ Coming(c, ret, new, sto)
    BY <1>3, <1>5 DEF Heard, Coming
  <2> QED  BY <2>1 DEF ListFollows, c
<1> QED  BY <1>4, <1>5

(* What the user does to a page. *)
LEMMA UserChanges ==
  ASSUME PagesInv, NEW p \in Pages, NEW page, PageAfter(Page(p), page), Become(p, page),
         page.list = list[p] \/ \E i \in DOMAIN page.out : page.out[i] = Write(LIST, page.list, 0),
         UNCHANGED <<stored, writer, news, retries, refused>>
  PROVE  PagesInv'
<1> DEFINE base == Page(p)
           nws == news[p]
<1>1. /\ base.managers = managers[p] /\ base.made = made[p] /\ requests[p] \in Seq(Requests) /\ nws \in Seq(News)
      /\ managers[p] \in Maps(Nat, Manager)
      /\ GetsAwaited(requests[p], nws, managers[p])
      /\ p \notin refused => ValuesCurrent(p, requests[p], managers[p], made[p], writer, stored)
      /\ ListFollows(requests[p], nws, retries[p], list[p], stored)
  BY PageIs
<1>2. page.out \in Seq(Requests)
  BY DEF PageAfter, PageTypes, PageRecords
<1>3. ListFollows(requests[p] \o page.out, nws, retries[p], page.list, stored)
  BY <1>1, <1>2, ListIsSent
<1>4. news' = [news EXCEPT ![p] = nws]
  BY DEF PagesInv, VariableTypes
<1>5. PageAfter(base, page)
  OBVIOUS
<1> HIDE DEF base, nws
<1>6. /\ base.managers \in Maps(Nat, Manager) /\ GetsAwaited(requests[p], nws, base.managers)
      /\ p \notin refused => ValuesCurrent(p, requests[p], base.managers, base.made, writer, stored)
  BY <1>1
<1> QED  BY <1>1, <1>3, <1>4, <1>5, <1>6, PageBecomes

(* The user sets a preference of a profile. *)
LEMMA SetStep ==
  ASSUME PagesInv, NEW p \in Pages, NEW id \in Ids, NEW value \in Contents, Set(p, id, value)
  PROVE  PagesInv'
<1> DEFINE m == childLists_[p][id]
           page == Edit(Page(p), m, value)
<1>1. /\ PageAfter(Page(p), Page(p)) /\ PageTypes(Page(p)) /\ Page(p).list = list[p]
      /\ Page(p).children = childLists_[p] /\ Page(p).managers = managers[p]
  BY PageIs
<1>2. m \in DOMAIN Page(p).managers
  BY <1>1 DEF Set, PageTypes
<1>3. Become(p, page) /\ UNCHANGED <<stored, writer, news, retries, refused>>
  BY DEF Set
<1> HIDE DEF m
<1>4. PageAfter(Page(p), page) /\ SameList(Page(p), page)
  BY <1>1, <1>2, EditIs
<1>5. page.list = list[p]
  BY <1>1, <1>4 DEF SameList
<1> HIDE DEF page
<1> QED  BY <1>3, <1>4, <1>5, UserChanges

(* The user makes a profile. *)
LEMMA CreateStep == ASSUME PagesInv, NEW p \in Pages, NEW id \in Ids, CreateChild(p, id) PROVE PagesInv'
<1> DEFINE page == AddChild(Page(p), id)
<1>1. PageAfter(Page(p), Page(p)) /\ Page(p).list = list[p]
  BY PageIs
<1>2. Become(p, page) /\ UNCHANGED <<stored, writer, news, retries, refused>>
  BY DEF CreateChild
<1>3. PageAfter(Page(p), page) /\ (page.list = list[p] \/ \E i \in DOMAIN page.out : page.out[i] = Write(LIST, page.list, 0))
  BY <1>1, AddChildIs
<1> HIDE DEF page
<1> QED  BY <1>2, <1>3, UserChanges

(* The user removes a profile. *)
LEMMA RemoveStep == ASSUME PagesInv, NEW p \in Pages, NEW id \in Ids, RemoveChild(p, id) PROVE PagesInv'
<1> DEFINE page == DropChild(Page(p), id)
<1>1. PageAfter(Page(p), Page(p)) /\ Page(p).list = list[p] /\ Page(p).children = childLists_[p]
  BY PageIs
<1>2. Become(p, page) /\ UNCHANGED <<stored, writer, news, retries, refused>> /\ id \in DOMAIN childLists_[p]
  BY DEF RemoveChild
<1>3. PageAfter(Page(p), page) /\ (page.list = list[p] \/ \E i \in DOMAIN page.out : page.out[i] = Write(LIST, page.list, 0))
  BY <1>1, <1>2, DropChildIs
<1> HIDE DEF page
<1> QED  BY <1>2, <1>3, UserChanges

(* The user imports a backup. *)
LEMMA ImportStep ==
  ASSUME PagesInv, NEW p \in Pages, NEW id \in Ids, NEW value \in Contents, ImportFromJson(p, id, value)
  PROVE  PagesInv'
<1> DEFINE a == Send(Page(p), Write(LIST, DEFAULT, 0))
           new == NewManager(a, id)
           e == Edit(new, new.made, value)
           page == Send(e, Write(LIST, <<id>>, 0))
<1>1. PageAfter(Page(p), Page(p)) /\ Page(p).list = list[p]
  BY PageIs
<1>2. Become(p, page) /\ UNCHANGED <<stored, writer, news, retries, refused>>
  BY DEF ImportFromJson
<1>3. DEFAULT \in Seq(Ids) /\ <<id>> \in Seq(Ids)
  BY NoElements, OneElement DEF DEFAULT
<1>4. PageAfter(Page(p), a) /\ SameList(Page(p), a)
  BY <1>1, <1>3, SendListIs
<1> HIDE DEF a
<1>5. PageAfter(Page(p), new) /\ SameList(a, new) /\ new.made \in DOMAIN new.managers
  BY <1>4, NewManagerIs
<1> HIDE DEF new
<1>6. PageAfter(Page(p), e) /\ SameList(new, e)
  BY <1>5, EditIs
<1> HIDE DEF e
<1>7. PageAfter(Page(p), page) /\ SameList(e, page)
  BY <1>3, <1>6, SendListIs
<1> HIDE DEF page
<1>8. page.list = list[p]
  BY <1>1, <1>4, <1>5, <1>6, <1>7 DEF SameList
<1> QED  BY <1>2, <1>7, <1>8, UserChanges

(* A page hears of a list. *)
LEMMA ListNewsIs ==
  ASSUME PagesInv, NEW p \in Pages, NEW page, PageAfter(Page(p), page), Become(p, page),
         news[p] # <<>>, Head(news[p]) \notin ValueNews,
         page.list = (IF Tells(Head(news[p])) THEN Head(news[p]).value ELSE list[p]),
         news' = [news EXCEPT ![p] = Tail(@)],
         UNCHANGED <<stored, writer, retries, refused>>
  PROVE  PagesInv'
<1> DEFINE base == Page(p)
           nws == news[p]
           t == Tail(nws)
<1>1. /\ base.managers = managers[p] /\ base.made = made[p] /\ requests[p] \in Seq(Requests) /\ nws \in Seq(News)
      /\ managers[p] \in Maps(Nat, Manager)
      /\ GetsAwaited(requests[p], nws, managers[p])
      /\ p \notin refused => ValuesCurrent(p, requests[p], managers[p], made[p], writer, stored)
      /\ ListFollows(requests[p], nws, retries[p], list[p], stored)
  BY PageIs
<1>2. page.out \in Seq(Requests)
  BY DEF PageAfter, PageTypes, PageRecords
<1>3. ListFollows(requests[p] \o page.out, t, retries[p], page.list, stored)
  BY <1>1, <1>2, ListHears
<1>4. news' = [news EXCEPT ![p] = t]
  BY DEF PagesInv, VariableTypes
<1>5. /\ t \in Seq(News)
      /\ \A i \in DOMAIN t : i + 1 \in DOMAIN nws /\ t[i] = nws[i + 1]
  BY <1>1, TailProperties
<1>6. \A i, j \in DOMAIN t : i + 1 = j + 1 => i = j
  BY <1>5
<1>7. PageAfter(base, page)
  OBVIOUS
<1> HIDE DEF base, nws, t
<1>8. GetsAwaited(requests[p], t, managers[p])
  <2>1. AskedOnce(t, ValueNews)
    BY <1>1, <1>5, <1>6 DEF GetsAwaited, AskedOnce
  <2> QED  BY <1>1, <1>5, <2>1 DEF GetsAwaited
<1>9. /\ base.managers \in Maps(Nat, Manager) /\ GetsAwaited(requests[p], t, base.managers)
      /\ p \notin refused => ValuesCurrent(p, requests[p], base.managers, base.made, writer, stored)
  BY <1>1, <1>8
<1> QED  BY <1>3, <1>4, <1>5, <1>7, <1>9, PageBecomes

(* onStorageChange_ of the list. *)
LEMMA ChangeStep == ASSUME PagesInv, NEW p \in Pages, OnStorageChange(p) PROVE PagesInv'
<1> DEFINE h == Head(news[p])
           page == ListBecomes(Page(p), h.value, FALSE)
<1>1. PageAfter(Page(p), Page(p)) /\ Page(p).list = list[p] /\ news[p] \in Seq(News)
  BY PageIs
<1>2. /\ news[p] # <<>> /\ h.is = "changed" /\ Become(p, page) /\ news' = [news EXCEPT ![p] = Tail(@)]
      /\ UNCHANGED <<stored, writer, retries, refused>>
  BY DEF OnStorageChange
<1>3. h \in News
  BY <1>1, <1>2, TailProperties
<1>4. h \in ListNews /\ h \notin ValueNews /\ h.value \in Seq(Ids) /\ Tells(h)
  BY <1>2, <1>3 DEF News, ListNews, ValueNews, Tells
<1>5. FALSE \in BOOLEAN
  OBVIOUS
<1>6. PageAfter(Page(p), page) /\ page.list = h.value
  BY <1>1, <1>4, <1>5, ListBecomesIs
<1> HIDE DEF page
<1> QED  BY <1>2, <1>4, <1>6, ListNewsIs

(* readStorage goes on with the list. *)
LEMMA ReadStep == ASSUME PagesInv, NEW p \in Pages, ReadList(p) PROVE PagesInv'
<1> DEFINE h == Head(news[p])
           page == IF h.value = DEFAULT THEN Page(p) ELSE ListBecomes(Page(p), h.value, TRUE)
<1>k. LIST \notin Ids
  BY DEF PagesInv, VariableTypes
<1>1. PageAfter(Page(p), Page(p)) /\ Page(p).list = list[p] /\ news[p] \in Seq(News)
  BY PageIs
<1>2. /\ news[p] # <<>> /\ h.is = "get" /\ h.key = LIST /\ Become(p, page) /\ news' = [news EXCEPT ![p] = Tail(@)]
      /\ UNCHANGED <<stored, writer, retries, refused>>
  BY DEF ReadList
<1>3. h \in News
  BY <1>1, <1>2, TailProperties
<1>4. h \in ListNews /\ h \notin ValueNews /\ h.value \in Seq(Ids) /\ (Tells(h) <=> h.value # DEFAULT)
  BY <1>2, <1>3, <1>k DEF News, ListNews, ValueNews, Tells
<1>5. TRUE \in BOOLEAN
  OBVIOUS
<1>6. LET l == ListBecomes(Page(p), h.value, TRUE) IN PageAfter(Page(p), l) /\ l.list = h.value
  BY <1>1, <1>4, <1>5, ListBecomesIs
<1>7. PageAfter(Page(p), page) /\ page.list = (IF Tells(h) THEN h.value ELSE list[p])
  BY <1>1, <1>4, <1>6
<1> HIDE DEF page
<1> QED  BY <1>2, <1>4, <1>7, ListNewsIs

(* The manager whose value has come is ready. *)
LEMMA GetsRead ==
  ASSUME NEW req \in Seq(Requests), NEW nws \in Seq(News), nws # <<>>, NEW mans, GetsAwaited(req, nws, mans),
         Head(nws) \in ValueNews, NEW f, DOMAIN f = DOMAIN mans,
         \A m \in DOMAIN mans : m # Head(nws).manager => f[m] = mans[m]
  PROVE  GetsAwaited(req, Tail(nws), f)
<1> DEFINE t == Tail(nws)
           h == Head(nws)
<1>1. /\ h = nws[1] /\ 1 \in DOMAIN nws
      /\ \A i \in DOMAIN t : i + 1 \in DOMAIN nws /\ t[i] = nws[i + 1]
  BY TailProperties
<1>2. (\A i, j \in DOMAIN t : i + 1 = j + 1 => i = j) /\ \A i \in DOMAIN t : i + 1 # 1
  <2>1. \A i \in DOMAIN t : i \in Nat /\ i >= 1
    BY TailProperties
  <2> QED  BY <2>1
<1> HIDE DEF t, h
<1>3. \A i \in DOMAIN req : req[i] \in ValueGets => req[i].manager # h.manager
  BY <1>1 DEF GetsAwaited, h
<1>4. \A i \in DOMAIN t : t[i] \in ValueNews => t[i].manager # h.manager
  BY <1>1, <1>2 DEF GetsAwaited, AskedOnce, h
<1>5. \A i \in DOMAIN req : req[i] \in ValueGets => Awaits(f, req[i])
  BY <1>3 DEF GetsAwaited, Awaits, h
<1>6. \A i \in DOMAIN t : t[i] \in ValueNews => Awaits(f, t[i])
  BY <1>1, <1>4 DEF GetsAwaited, Awaits, h
<1>7. AskedOnce(t, ValueNews)
  BY <1>1, <1>2 DEF GetsAwaited, AskedOnce
<1>8. GetsAwaited(req, t, f)
  BY <1>1, <1>5, <1>6, <1>7 DEF GetsAwaited
<1> QED  BY <1>8 DEF t

(* A manager that reads its value has written nothing yet. *)
LEMMA ValuesRead ==
  ASSUME NEW p, NEW req \in Seq(Requests), NEW mans \in Maps(Nat, Manager), NEW top, NEW wri, NEW sto,
         ValuesCurrent(p, req, mans, top, wri, sto),
         NEW m \in DOMAIN mans, mans[m].cache = "asked", NEW f, DOMAIN f = DOMAIN mans,
         f[m].cache = "ready", f[m].id = mans[m].id,
         \A n \in DOMAIN mans : n # m => f[n] = mans[n]
  PROVE  ValuesCurrent(p, req, f, top, wri, sto)
<1>1. \A n \in DOMAIN mans : f[n].id = mans[n].id /\ (mans[n].cache = "ready" => f[n].cache = "ready")
  OBVIOUS
<1>2. WritesReady(req, f, top)
  BY <1>1 DEF ValuesCurrent, WritesReady
<1>3. WrittenReady(p, f, top, wri)
  BY <1>1 DEF ValuesCurrent, WrittenReady
<1>4. \A i \in DOMAIN req : ~WriteOf(req[i], m)
  BY DEF ValuesCurrent, WritesReady, WriteOf
<1>5. wri[f[m].id] # <<p, m>>
  BY DEF ValuesCurrent, WrittenReady
<1>6. ASSUME NEW n \in DOMAIN f PROVE Current(p, req, wri, sto, n, f[n])
  <2>1. CASE n = m
    BY <1>4, <1>5, <2>1 DEF Current
  <2>2. CASE n # m
    BY <2>2, Zenon DEF ValuesCurrent
  <2> QED  BY <2>1, <2>2
<1> QED  BY <1>2, <1>3, <1>6 DEF ValuesCurrent

(* A condenser goes on with what is stored. *)
LEMMA CacheStep == ASSUME PagesInv, NEW p \in Pages, CacheIsRead(p) PROVE PagesInv'
<1> DEFINE h == Head(news[p])
           m == h.manager
           mans == managers[p]
           nws == Tail(news[p])
           req == requests[p]
           nm == [mans[m] EXCEPT !.cache = "ready", !.edited = FALSE, !.timer = mans[m].edited,
                                 !.value = IF mans[m].edited THEN mans[m].value ELSE h.value]
           base == [Page(p) EXCEPT !.managers = [Page(p).managers EXCEPT ![m] = nm]]
           waits == {sync \in syncs[p] : sync.manager = m}
           after(sync) == SyncFrom([base EXCEPT !.syncs = @ \ {sync}], sync.ids, sync.dropped, sync.loading)
<1>1. /\ PageAfter(Page(p), Page(p)) /\ PageTypes(Page(p)) /\ Page(p).list = list[p] /\ Page(p).out = <<>>
      /\ Page(p).managers = mans /\ Page(p).made = made[p] /\ Page(p).syncs = syncs[p]
      /\ Page(p).children = childLists_[p]
      /\ mans \in Maps(Nat, Manager) /\ req \in Seq(Requests) /\ news[p] \in Seq(News)
      /\ GetsAwaited(req, news[p], mans)
      /\ p \notin refused => ValuesCurrent(p, req, mans, made[p], writer, stored)
      /\ ListFollows(req, news[p], retries[p], list[p], stored)
  BY PageIs
<1>2. /\ news[p] # <<>> /\ h.is = "get" /\ h.key # LIST /\ news' = [news EXCEPT ![p] = Tail(@)]
      /\ UNCHANGED <<stored, writer, retries, refused>>
  BY DEF CacheIsRead
<1>3. h \in News /\ h = news[p][1] /\ 1 \in DOMAIN news[p] /\ nws \in Seq(News)
  BY <1>1, <1>2, TailProperties
<1>4. h \in ValueNews /\ ~Tells(h)
  BY <1>2, <1>3 DEF News, ListNews, Tells
<1>5. m \in DOMAIN mans /\ mans[m].cache = "asked"
  BY <1>1, <1>3, <1>4 DEF GetsAwaited, Awaits
<1>6. mans[m] \in Manager /\ Page(p) \in PageRecords
  BY <1>1, <1>5, MapsFields DEF PageTypes
<1>7. nm \in Manager /\ nm.cache = "ready" /\ nm.id = mans[m].id
  BY <1>4, <1>6 DEF Manager, ValueNews
<1>8. \/ waits = {} /\ Become(p, base)
      \/ \E sync \in waits : Become(p, after(sync))
  BY Zenon DEF CacheIsRead
<1> HIDE DEF nm
<1>9. /\ base \in PageRecords
      /\ base.list = list[p] /\ base.children = Page(p).children /\ base.syncs = syncs[p]
      /\ base.made = made[p] /\ base.out = <<>>
      /\ DOMAIN base.managers = DOMAIN mans /\ base.managers[m] = nm
      /\ \A n \in DOMAIN mans : n # m => base.managers[n] = mans[n]
  BY <1>1, <1>5, <1>6, <1>7, ManagerFields
<1>10. UNCHANGED <<stored, writer, retries, refused>> /\ news' = [news EXCEPT ![p] = nws]
  BY <1>2 DEF PagesInv, VariableTypes
<1> HIDE DEF base, h, mans, nws, req
<1>11. PageTypes(base) /\ base.managers \in Maps(Nat, Manager)
  <2>1. PageTypes(base)
    BY <1>1, <1>7, <1>9 DEF PageTypes
  <2>2. base.managers \in Maps(Nat, Manager)
    BY <1>9 DEF PageRecords
  <2> QED  BY <2>1, <2>2
<1>12. PageAfter(base, base)
  BY <1>9, <1>11, NothingDone
<1>13. GetsAwaited(req, nws, base.managers)
  BY <1>1, <1>2, <1>4, <1>9, GetsRead DEF h, nws
<1>14. p \notin refused => ValuesCurrent(p, req, base.managers, base.made, writer, stored)
  BY <1>1, <1>5, <1>7, <1>9, ValuesRead
<1>15. ASSUME NEW page, PageAfter(base, page), page.list = list[p], Become(p, page) PROVE PagesInv'
  <2>1. page.out \in Seq(Requests)
    BY <1>15 DEF PageAfter, PageTypes, PageRecords
  <2>2. ListFollows(req \o page.out, nws, retries[p], page.list, stored)
    BY <1>1, <1>2, <1>4, <1>15, <2>1, ListHears DEF h, nws
  <2> QED  BY <1>3, <1>10, <1>11, <1>13, <1>14, <1>15, <2>2, PageBecomes DEF req
<1>16. CASE Become(p, base)
  BY <1>9, <1>12, <1>15, <1>16
<1>17. ASSUME NEW sync \in waits, Become(p, after(sync)) PROVE PagesInv'
  <2> DEFINE w == base.syncs \ {sync}
             c == DOMAIN base.children
             r == Otherwise(base, c, w)
  <2>1. sync \in Syncs /\ w \in SUBSET Syncs
    BY <1>9 DEF PageRecords
  <2>2. sync.ids \in Seq(Ids) /\ sync.dropped \in SUBSET Ids /\ sync.loading \in BOOLEAN
    BY <2>1 DEF Syncs
  <2>3. [base EXCEPT !.syncs = @ \ {sync}] = r
    <3>1. base.children = Restrict(base.children, DOMAIN base.children)
      BY <1>9, MapsFields DEF PageRecords, Restrict
    <3> QED  BY <1>9, <3>1 DEF PageRecords, Otherwise
  <2>4. c \in SUBSET DOMAIN base.children
    OBVIOUS
  <2> HIDE DEF w, c
  <2>5. PageAfter(base, r) /\ SameList(base, r)
    BY <1>12, <2>1, <2>4, OtherFieldsAre
  <2> HIDE DEF r
  <2> DEFINE page == SyncFrom(r, sync.ids, sync.dropped, sync.loading)
  <2>6. PageAfter(base, page) /\ SameList(r, page)
    BY <2>2, <2>5, SyncFromIs
  <2>7. Become(p, page)
    BY <1>17, <2>3
  <2> HIDE DEF page
  <2>8. page.list = list[p]
    BY <1>9, <2>5, <2>6 DEF SameList
  <2> QED  BY <1>15, <2>6, <2>7, <2>8
<1> QED  BY <1>8, <1>16, <1>17

(* A queue without its head. *)
LEMMA RestOf ==
  ASSUME NEW S, NEW s \in Seq(S), s # <<>>, NEW t, t = Tail(s)
  PROVE  /\ t \in Seq(S) /\ Head(s) \in S /\ Head(s) = s[1] /\ 1 \in DOMAIN s
         /\ \A i \in DOMAIN t : i + 1 \in DOMAIN s /\ t[i] = s[i + 1] /\ i + 1 # 1
         /\ \A i \in DOMAIN s : i # 1 => i - 1 \in DOMAIN t /\ (i - 1) + 1 = i
         /\ \A i, j \in DOMAIN t : (i + 1 = j + 1 => i = j) /\ (i + 1 <= j + 1 => i <= j)
<1>1. /\ Head(s) \in S /\ Head(s) = s[1] /\ 1 \in DOMAIN s
      /\ t \in Seq(S)
      /\ \A i \in DOMAIN t : i + 1 \in DOMAIN s /\ t[i] = s[i + 1]
      /\ \A i \in DOMAIN s : i # 1 => i - 1 \in DOMAIN t
  BY TailProperties
<1>2. (\A i \in DOMAIN t : i \in Nat /\ i >= 1) /\ \A i \in DOMAIN s : i \in Nat
  BY <1>1
<1>3. \A i \in DOMAIN t : i + 1 # 1
  BY <1>2
<1>4. \A i \in DOMAIN s : i # 1 => i - 1 \in DOMAIN t /\ (i - 1) + 1 = i
  BY <1>1, <1>2
<1>5. \A i, j \in DOMAIN t : (i + 1 = j + 1 => i = j) /\ (i + 1 <= j + 1 => i <= j)
  BY <1>2
<1> QED  BY <1>1, <1>3, <1>4, <1>5

(* The area takes the head of a page's requests. *)
LEMMA GetsTail ==
  ASSUME NEW req \in Seq(Requests), req # <<>>, NEW nws, NEW mans, GetsAwaited(req, nws, mans)
  PROVE  GetsAwaited(Tail(req), nws, mans)
<1> DEFINE t == Tail(req)
<1>1. /\ \A i \in DOMAIN t : i + 1 \in DOMAIN req /\ t[i] = req[i + 1] /\ i + 1 # 1
      /\ \A i, j \in DOMAIN t : i + 1 = j + 1 => i = j
  BY RestOf
<1> HIDE DEF t
<1>2. AskedOnce(t, ValueGets)
  BY <1>1 DEF GetsAwaited, AskedOnce
<1>3. GetsAwaited(t, nws, mans)
  BY <1>1, <1>2 DEF GetsAwaited
<1> QED  BY <1>3 DEF t

(* A request that is no get of a profile. *)
LEMMA GetsMore ==
  ASSUME NEW req \in Seq(Requests), NEW w \in Requests, w \notin ValueGets, NEW nws, NEW mans, NEW f,
         GetsAwaited(req, nws, mans),
         \A m \in DOMAIN mans : mans[m].cache = "asked" => m \in DOMAIN f /\ f[m] = mans[m]
  PROVE  GetsAwaited(Append(req, w), nws, f)
<1> DEFINE c == Append(req, w)
<1>1. \A i \in DOMAIN c : c[i] \in ValueGets => i \in DOMAIN req /\ c[i] = req[i]
  BY AppendProperties
<1> HIDE DEF c
<1>2. \A r : Awaits(mans, r) => Awaits(f, r)
  BY DEF Awaits
<1>3. AskedOnce(c, ValueGets) /\ AskedOnce(nws, ValueNews)
  BY <1>1 DEF GetsAwaited, AskedOnce
<1>4. GetsAwaited(c, nws, f)
  BY <1>1, <1>2, <1>3 DEF GetsAwaited
<1> QED  BY <1>4 DEF c

(* A get is answered: what waited for the one waits for the other. *)
LEMMA GetsAnswered ==
  ASSUME NEW req \in Seq(Requests), req # <<>>, NEW nws \in Seq(News), NEW mans, GetsAwaited(req, nws, mans),
         NEW new \in News,
         new \in ValueNews => Head(req) \in ValueGets /\ new.manager = Head(req).manager /\ new.key = Head(req).key
  PROVE  GetsAwaited(Tail(req), Append(nws, new), mans)
<1> DEFINE t == Tail(req)
           h == Head(req)
           c == Append(nws, new)
           n == Len(nws) + 1
<1>1. /\ h = req[1] /\ 1 \in DOMAIN req
      /\ \A i \in DOMAIN t : i + 1 \in DOMAIN req /\ t[i] = req[i + 1] /\ i + 1 # 1
      /\ \A i, j \in DOMAIN t : i + 1 = j + 1 => i = j
  BY RestOf
<1>2. /\ DOMAIN c = DOMAIN nws \cup {n} /\ c[n] = new
      /\ \A i \in DOMAIN nws : c[i] = nws[i]
  BY AppendProperties
<1> HIDE DEF t, h, c, n
<1>3. AskedOnce(t, ValueGets)
  BY <1>1 DEF GetsAwaited, AskedOnce
<1>4. AskedOnce(c, ValueNews)
  BY <1>1, <1>2 DEF GetsAwaited, AskedOnce, h
<1>5. \A i \in DOMAIN c : c[i] \in ValueNews => Awaits(mans, c[i])
  BY <1>1, <1>2 DEF GetsAwaited, Awaits, h
<1>6. \A i \in DOMAIN t, j \in DOMAIN c : ~(t[i] \in ValueGets /\ c[j] \in ValueNews /\ t[i].manager = c[j].manager)
  BY <1>1, <1>2 DEF GetsAwaited, AskedOnce, h
<1>7. GetsAwaited(t, c, mans)
  BY <1>1, <1>3, <1>4, <1>5, <1>6 DEF GetsAwaited
<1> QED  BY <1>7 DEF t, c

(* A request that is no write of a profile is taken. *)
LEMMA ValuesTail ==
  ASSUME NEW p, NEW req \in Seq(Requests), req # <<>>, NEW mans, NEW top, NEW wri, NEW sto,
         ValuesCurrent(p, req, mans, top, wri, sto), Head(req) \notin ValueWrites
  PROVE  ValuesCurrent(p, Tail(req), mans, top, wri, sto)
<1> DEFINE t == Tail(req)
<1>t. t = Tail(req)
  OBVIOUS
<1> HIDE DEF t
<1>1. /\ Head(req) = req[1] /\ 1 \in DOMAIN req
      /\ \A i \in DOMAIN t : i + 1 \in DOMAIN req /\ t[i] = req[i + 1] /\ i + 1 # 1
      /\ \A i \in DOMAIN req : i # 1 => i - 1 \in DOMAIN t /\ (i - 1) + 1 = i
      /\ \A i, j \in DOMAIN t : (i + 1 = j + 1 => i = j) /\ (i + 1 <= j + 1 => i <= j)
  BY <1>t, RestOf
<1>2. WritesReady(t, mans, top)
  BY <1>1 DEF ValuesCurrent, WritesReady
<1>3. ASSUME NEW m \in DOMAIN mans PROVE Current(p, t, wri, sto, m, mans[m])
  <2>1. Current(p, req, wri, sto, m, mans[m])
    BY DEF ValuesCurrent
  <2>2. CASE \E i \in DOMAIN req :
               /\ WriteOf(req[i], m) /\ req[i].key = mans[m].id /\ req[i].value = mans[m].value
               /\ \A j \in DOMAIN req : WriteOf(req[j], m) => j <= i
    <3>1. PICK i \in DOMAIN req :
               /\ WriteOf(req[i], m) /\ req[i].key = mans[m].id /\ req[i].value = mans[m].value
               /\ \A j \in DOMAIN req : WriteOf(req[j], m) => j <= i
      BY <2>2
    <3>2. i # 1
      BY <1>1, <3>1 DEF WriteOf
    <3> DEFINE k == i - 1
    <3>3. k \in DOMAIN t /\ k + 1 = i
      BY <1>1, <3>2
    <3> HIDE DEF k
    <3>4. t[k] = req[i]
      BY <1>1, <3>3
    <3>5. \A j \in DOMAIN t : WriteOf(t[j], m) => j <= k
      BY <1>1, <3>1, <3>3
    <3> QED  BY <3>1, <3>3, <3>4, <3>5 DEF Current
  <2>3. CASE \A i \in DOMAIN req : ~WriteOf(req[i], m)
    <3>1. \A i \in DOMAIN t : ~WriteOf(t[i], m)
      BY <1>1, <2>3
    <3> QED  BY <2>1, <2>3, <3>1 DEF Current
  <2> QED  BY <2>1, <2>2, <2>3 DEF Current
<1>4. ValuesCurrent(p, t, mans, top, wri, sto)
  BY <1>2, <1>3 DEF ValuesCurrent
<1> QED  BY <1>4 DEF t

(* A manager writes what it has. *)
LEMMA ValuesWritten ==
  ASSUME NEW p, NEW req \in Seq(Requests), NEW mans \in Maps(Nat, Manager), NEW top, NEW wri, NEW sto,
         ValuesCurrent(p, req, mans, top, wri, sto),
         NEW m \in DOMAIN mans, m <= top, NEW f, DOMAIN f = DOMAIN mans,
         f[m].cache = "ready", f[m].id = mans[m].id, f[m].value = mans[m].value, mans[m].cache = "ready",
         \A n \in DOMAIN mans : n # m => f[n] = mans[n],
         NEW w, w = Write(mans[m].id, mans[m].value, m)
  PROVE  ValuesCurrent(p, Append(req, w), f, top, wri, sto) /\ w \in ValueWrites
<1> DEFINE c == Append(req, w)
           k == Len(req) + 1
<1>1. mans[m] \in Manager /\ m \in Nat
  BY MapsFields
<1>2. w \in ValueWrites /\ w.key = mans[m].id /\ w.value = mans[m].value /\ w.manager = m
  BY <1>1 DEF Write, ValueWrites, Manager
<1>3. w \in Requests
  BY <1>2 DEF Requests
<1>4. /\ DOMAIN c = DOMAIN req \cup {k} /\ \A i \in DOMAIN req : c[i] = req[i]
      /\ c[k] = w /\ k \notin DOMAIN req
      /\ k <= k /\ \A i \in DOMAIN req : i <= k
  <2>1. /\ DOMAIN c = DOMAIN req \cup {k} /\ \A i \in DOMAIN req : c[i] = req[i]
        /\ c[k] = w /\ k \notin DOMAIN req
        /\ \A i \in DOMAIN req : i \in Nat /\ i < k
    BY <1>3, AppendProperties
  <2>2. k \in Nat
    OBVIOUS
  <2> HIDE DEF k, c
  <2> QED  BY <2>1, <2>2
<1> HIDE DEF c, k
<1>5. \A n \in DOMAIN mans : f[n].id = mans[n].id /\ (mans[n].cache = "ready" => f[n].cache = "ready")
  OBVIOUS
<1>6. WritesReady(c, f, top)
  BY <1>2, <1>4, <1>5 DEF ValuesCurrent, WritesReady
<1>7. WrittenReady(p, f, top, wri)
  BY <1>5 DEF ValuesCurrent, WrittenReady
<1>8. ASSUME NEW n \in DOMAIN f PROVE Current(p, c, wri, sto, n, f[n])
  <2>1. CASE n = m
    <3>1. WriteOf(c[k], m) /\ c[k].key = f[m].id /\ c[k].value = f[m].value
      BY <1>2, <1>4 DEF WriteOf
    <3>2. k \in DOMAIN c /\ \A j \in DOMAIN c : WriteOf(c[j], m) => j <= k
      BY <1>4
    <3> QED  BY <2>1, <3>1, <3>2 DEF Current
  <2>2. CASE n # m
    <3>1. Current(p, req, wri, sto, n, f[n])
      BY <2>2, Zenon DEF ValuesCurrent
    <3>2. \A i \in DOMAIN c : WriteOf(c[i], n) => i \in DOMAIN req
      BY <1>2, <1>4, <2>2 DEF WriteOf
    <3> QED  BY <1>4, <3>1, <3>2 DEF Current
  <2> QED  BY <2>1, <2>2
<1>9. ValuesCurrent(p, c, f, top, wri, sto)
  BY <1>6, <1>7, <1>8 DEF ValuesCurrent
<1> QED  BY <1>2, <1>9 DEF c

(* The condenser's timer writes what the manager has. *)
LEMMA TimerStep == ASSUME PagesInv, NEW p \in Pages, OnSyncTimer(p) PROVE PagesInv'
<1> DEFINE mans == managers[p]
<1>1. PICK m \in DOMAIN managers[p] :
        /\ managers[p][m].timer
        /\ Become(p, Send([Page(p) EXCEPT !.managers[m].timer = FALSE],
                          Write(managers[p][m].id, managers[p][m].value, m)))
  BY DEF OnSyncTimer
<1> DEFINE nm == [mans[m] EXCEPT !.timer = FALSE]
           base == [Page(p) EXCEPT !.managers = [Page(p).managers EXCEPT ![m] = nm]]
           w == Write(mans[m].id, mans[m].value, m)
           req == requests[p]
           sent == Send(base, w)
           K == {n \in DOMAIN base.managers : n \in Range(base.children) \/ Busy(base.managers[n])}
           nws == news[p]
           ret == retries[p]
           c == Append(req, w)
<1>2. /\ PageTypes(Page(p)) /\ Page(p).list = list[p] /\ Page(p).out = <<>>
      /\ Page(p).managers = mans /\ Page(p).made = made[p] /\ Page(p).syncs = syncs[p]
      /\ Page(p).children = childLists_[p]
      /\ mans \in Maps(Nat, Manager) /\ req \in Seq(Requests) /\ nws \in Seq(News) /\ ret \in SUBSET PageWrites
      /\ GetsAwaited(req, nws, mans)
      /\ p \notin refused => ret = {} /\ ValuesCurrent(p, req, mans, made[p], writer, stored)
      /\ ListFollows(req, nws, ret, list[p], stored)
  BY PageIs
<1>3. UNCHANGED <<stored, writer, news, retries, refused>>
  BY DEF OnSyncTimer
<1>4. mans[m] \in Manager /\ m \in Nat /\ Page(p) \in PageRecords
  BY <1>2, MapsFields DEF PageTypes
<1>5. nm \in Manager /\ nm.id = mans[m].id /\ nm.value = mans[m].value /\ nm.cache = mans[m].cache /\ ~nm.timer
  BY <1>4 DEF Manager
<1>6. mans[m].cache = "ready" /\ m <= made[p]
  BY <1>1, <1>2 DEF PageTypes
<1>7. Become(p, sent)
  <2>1. [Page(p) EXCEPT !.managers[m].timer = FALSE] = base
    BY <1>2, <1>4 DEF PageRecords, Manager
  <2> QED  BY <1>1, <2>1
<1> HIDE DEF nm
<1>8. /\ base \in PageRecords
      /\ base.list = list[p] /\ base.children = childLists_[p] /\ base.syncs = syncs[p]
      /\ base.made = made[p] /\ base.out = <<>>
      /\ DOMAIN base.managers = DOMAIN mans /\ base.managers[m] = nm
      /\ \A n \in DOMAIN mans : n # m => base.managers[n] = mans[n]
  BY <1>2, <1>4, <1>5, ManagerFields
<1>9. w \in ValueWrites /\ w \in Requests /\ w \notin ValueGets
  BY <1>4 DEF Write, ValueWrites, ValueGets, Requests, Manager
<1> HIDE DEF base, w
<1>10. /\ sent.list = base.list /\ sent.children = base.children /\ sent.managers = base.managers
       /\ sent.syncs = base.syncs /\ sent.made = base.made /\ sent.out = Append(base.out, w)
  BY <1>8, <1>9, SendFields
<1>11. PageTypes(base) /\ base.managers \in Maps(Nat, Manager)
  <2>1. PageTypes(base)
    BY <1>2, <1>5, <1>8 DEF PageTypes
  <2>2. base.managers \in Maps(Nat, Manager)
    BY <1>8 DEF PageRecords
  <2> QED  BY <2>1, <2>2
<1>12. PageAfter(base, base)
  BY <1>8, <1>11, NothingDone
<1>13. c \in Seq(Requests) /\ c \o base.out = c /\ req \o sent.out = c
  <2>1. c \in Seq(Requests)
    BY <1>2, <1>9
  <2>2. c \o base.out = c
    BY <1>8, <2>1, ConcatEmpty
  <2>3. sent.out = <<w>>
    BY <1>8, <1>10
  <2>4. req \o <<w>> = c
    BY <1>2, <1>9
  <2> QED  BY <2>1, <2>2, <2>3, <2>4
<1>14. /\ list' = [list EXCEPT ![p] = base.list] /\ childLists_' = [childLists_ EXCEPT ![p] = base.children]
       /\ managers' = [managers EXCEPT ![p] = Restrict(base.managers, K)] /\ syncs' = [syncs EXCEPT ![p] = base.syncs]
       /\ made' = [made EXCEPT ![p] = base.made] /\ requests' = [requests EXCEPT ![p] = c \o base.out]
  <2>1. requests' = [requests EXCEPT ![p] = requests[p] \o sent.out]
    BY <1>7, Zenon DEF Become
  <2>2. /\ list' = [list EXCEPT ![p] = sent.list] /\ childLists_' = [childLists_ EXCEPT ![p] = sent.children]
        /\ syncs' = [syncs EXCEPT ![p] = sent.syncs] /\ made' = [made EXCEPT ![p] = sent.made]
        /\ managers' = [managers EXCEPT ![p] = Restrict(sent.managers,
             {n \in DOMAIN sent.managers : n \in Range(sent.children) \/ Busy(sent.managers[n])})]
    BY <1>7, Zenon DEF Become
  <2> HIDE DEF sent, c
  <2>3. requests' = [requests EXCEPT ![p] = c \o base.out]
    BY <1>13, <2>1, Zenon DEF req
  <2> QED  BY <1>10, <2>2, <2>3, Zenon
<1>15. news' = [news EXCEPT ![p] = nws] /\ retries' = [retries EXCEPT ![p] = ret]
  BY <1>3 DEF PagesInv, VariableTypes
<1>16. GetsAwaited(c, nws, base.managers)
  <2>1. \A n \in DOMAIN mans : mans[n].cache = "asked" => n \in DOMAIN base.managers /\ base.managers[n] = mans[n]
    BY <1>6, <1>8
  <2> QED  BY <1>2, <1>9, <2>1, GetsMore
<1>17. p \notin refused' => ret = {} /\ ValuesCurrent(p, c, base.managers, base.made, writer, stored)
  <2>1. w = Write(mans[m].id, mans[m].value, m)
    BY DEF w
  <2> QED  BY <1>2, <1>3, <1>5, <1>6, <1>8, <2>1, ValuesWritten
<1>18. ListFollows(c \o base.out, nws, ret, base.list, stored)
  <2>1. sent.out \in Seq(Requests)
    BY <1>8, <1>9, <1>10
  <2>2. ListFollows(req \o sent.out, nws, ret, list[p], stored)
    BY <1>2, <2>1, ListIsSent
  <2> QED  BY <1>8, <1>13, <2>2
<1>19. K \in SUBSET DOMAIN base.managers
  OBVIOUS
<1>20. \A id \in DOMAIN base.children : base.children[id] \in K
  BY <1>11 DEF PageTypes, Range
<1>21. \A n \in DOMAIN base.managers : base.managers[n].cache # "ready" => n \in K
  BY DEF Busy
<1> HIDE DEF K, nws, ret, c
<1> QED  BY <1>2, <1>3, <1>11, <1>12, <1>13, <1>14, <1>15, <1>16, <1>17, <1>18, <1>19, <1>20, <1>21, PageStep

(* A write put off is made again. *)
LEMMA RetryStep == ASSUME PagesInv, NEW p \in Pages, Retry(p) PROVE PagesInv'
<1> DEFINE req == requests[p]
           nws == news[p]
<1>1. PICK w \in retries[p] :
        /\ retries' = [retries EXCEPT ![p] = @ \ {w}]
        /\ requests' = [requests EXCEPT ![p] = Append(@, w)]
        /\ UNCHANGED <<stored, writer, news, list, childLists_, managers, syncs, made, events, refused>>
  BY DEF Retry
<1> DEFINE c == Append(req, w)
           ret == retries[p] \ {w}
<1>2. /\ req \in Seq(Requests) /\ nws \in Seq(News) /\ retries[p] \in SUBSET PageWrites
      /\ GetsAwaited(req, nws, managers[p])
      /\ p \notin refused => retries[p] = {}
      /\ ListFollows(req, nws, retries[p], list[p], stored)
  BY PageIs
<1>3. w \in Requests /\ w \notin ValueGets
  BY <1>2 DEF PageWrites, Requests, ListWrites, ValueWrites, ValueGets
<1>4. /\ requests' = [requests EXCEPT ![p] = c] /\ retries' = [retries EXCEPT ![p] = ret]
      /\ news' = [news EXCEPT ![p] = nws]
  BY <1>1 DEF PagesInv, VariableTypes
<1>5. c \in Seq(Requests) /\ ret \in SUBSET PageWrites
  BY <1>2, <1>3
<1>6. GetsAwaited(c, nws, managers[p])
  BY <1>2, <1>3, GetsMore
<1>7. ListFollows(c, nws, ret, list[p], stored)
  <2>1. PICK v : Heard(nws, list[p], v) /\ Coming(req, retries[p], v, stored)
    BY <1>2 DEF ListFollows
  <2>2. /\ \A i \in DOMAIN req : i \in DOMAIN c /\ c[i] = req[i]
        /\ Len(req) + 1 \in DOMAIN c /\ c[Len(req) + 1] = w
    BY <1>2, <1>3, AppendProperties
  <2> HIDE DEF c
  <2>3. Coming(c, ret, v, stored)
    BY <2>1, <2>2 DEF Coming
  <2> QED  BY <2>1, <2>3 DEF ListFollows
<1>8. p \in refused' /\ refused \subseteq refused'
  BY <1>1, <1>2
<1> HIDE DEF c, ret, nws
<1> QED  BY <1>1, <1>2, <1>4, <1>5, <1>6, <1>7, <1>8, PageStays

(* A write over the quota is put off. *)
LEMMA RefuseStep == ASSUME PagesInv, NEW p \in Pages, Refuse(p) PROVE PagesInv'
<1> DEFINE req == requests[p]
           nws == news[p]
           w == Head(req)
           c == Tail(req)
           ret == retries[p] \cup {w}
<1>1. /\ req # <<>> /\ w.op = "write"
      /\ retries' = [retries EXCEPT ![p] = @ \cup {w}] /\ requests' = [requests EXCEPT ![p] = Tail(@)]
      /\ refused' = refused \cup {p}
      /\ UNCHANGED <<stored, writer, news, list, childLists_, managers, syncs, made>>
  BY DEF Refuse
<1>2. /\ req \in Seq(Requests) /\ nws \in Seq(News) /\ retries[p] \in SUBSET PageWrites
      /\ GetsAwaited(req, nws, managers[p])
      /\ ListFollows(req, nws, retries[p], list[p], stored)
  BY PageIs
<1>3. w \in Requests /\ w = req[1] /\ c \in Seq(Requests)
      /\ \A i \in DOMAIN req : i # 1 => i - 1 \in DOMAIN c /\ c[i - 1] = req[i]
  <2>1. /\ c \in Seq(Requests) /\ w \in Requests /\ w = req[1]
        /\ \A i \in DOMAIN c : i + 1 \in DOMAIN req /\ c[i] = req[i + 1] /\ i + 1 # 1
        /\ \A i \in DOMAIN req : i # 1 => i - 1 \in DOMAIN c /\ (i - 1) + 1 = i
    BY <1>1, <1>2, RestOf
  <2> QED  BY <2>1
<1>4. w \in PageWrites /\ w # Get(LIST, 0)
  BY <1>1, <1>3 DEF PageWrites, Requests, ListGets, ValueGets, Get
<1>5. /\ requests' = [requests EXCEPT ![p] = c] /\ retries' = [retries EXCEPT ![p] = ret]
      /\ news' = [news EXCEPT ![p] = nws]
  BY <1>1 DEF PagesInv, VariableTypes
<1>6. GetsAwaited(c, nws, managers[p])
  BY <1>1, <1>2, GetsTail
<1> HIDE DEF c, w
<1>7. ListFollows(c, nws, ret, list[p], stored)
  <2>1. PICK v : Heard(nws, list[p], v) /\ Coming(req, retries[p], v, stored)
    BY <1>2 DEF ListFollows
  <2>2. Coming(c, ret, v, stored)
    BY <1>3, <1>4, <2>1 DEF Coming
  <2> QED  BY <2>1, <2>2 DEF ListFollows
<1>8. ret \in SUBSET PageWrites
  BY <1>2, <1>4
<1>9. p \in refused' /\ refused \subseteq refused'
  BY <1>1
<1> HIDE DEF ret, nws
<1> QED  BY <1>1, <1>2, <1>3, <1>5, <1>6, <1>7, <1>8, <1>9, PageStays

(* A page is sent one more thing. *)
LEMMA HeardMore ==
  ASSUME NEW nws \in Seq(News), NEW new \in News, NEW lst, NEW v, Heard(nws, lst, v),
         NEW u, u = IF Tells(new) THEN new.value ELSE v
  PROVE  Heard(Append(nws, new), lst, u)
<1> DEFINE c == Append(nws, new)
           n == Len(nws) + 1
<1>1. /\ DOMAIN c = DOMAIN nws \cup {n} /\ c[n] = new
      /\ \A i \in DOMAIN nws : c[i] = nws[i]
      /\ n <= n /\ \A i \in DOMAIN nws : i <= n
  <2>1. /\ DOMAIN c = DOMAIN nws \cup {n} /\ c[n] = new
        /\ \A i \in DOMAIN nws : c[i] = nws[i]
        /\ \A i \in DOMAIN nws : i \in Nat /\ i < n
    BY AppendProperties
  <2>2. n \in Nat
    OBVIOUS
  <2> HIDE DEF n, c
  <2> QED  BY <2>1, <2>2
<1> HIDE DEF c, n
<1>2. CASE Tells(new)
  <2>1. Tells(c[n]) /\ c[n].value = u /\ n \in DOMAIN c /\ \A j \in DOMAIN c : Tells(c[j]) => j <= n
    BY <1>1, <1>2
  <2> QED  BY <2>1 DEF Heard, c
<1>3. CASE ~Tells(new)
  <2>1. \A j \in DOMAIN c : Tells(c[j]) => j \in DOMAIN nws /\ c[j] = nws[j]
    BY <1>1, <1>3
  <2>2. Heard(c, lst, v)
    BY <1>1, <2>1 DEF Heard
  <2> QED  BY <1>3, <2>2 DEF c
<1> QED  BY <1>2, <1>3

(* Taking the head of the requests leaves a list on its way, unless it is  *)
(* that list or the answer has none.                                       *)
LEMMA ComingTail ==
  ASSUME NEW req \in Seq(Requests), req # <<>>, NEW ret, NEW v, NEW sto, Coming(req, ret, v, sto),
         Head(req) = Write(LIST, v, 0) => v = sto[LIST],
         Head(req) = Get(LIST, 0) /\ v = DEFAULT => v = sto[LIST]
  PROVE  Coming(Tail(req), ret, v, sto)
<1> DEFINE t == Tail(req)
           h == Head(req)
<1>1. h = req[1] /\ \A i \in DOMAIN req : i # 1 => i - 1 \in DOMAIN t /\ t[i - 1] = req[i]
  <2>1. /\ h = req[1]
        /\ \A i \in DOMAIN t : i + 1 \in DOMAIN req /\ t[i] = req[i + 1] /\ i + 1 # 1
        /\ \A i \in DOMAIN req : i # 1 => i - 1 \in DOMAIN t /\ (i - 1) + 1 = i
    BY RestOf
  <2> QED  BY <2>1
<1>2. (h = Write(LIST, v, 0) => v = sto[LIST]) /\ (h = Get(LIST, 0) /\ v = DEFAULT => v = sto[LIST])
  OBVIOUS
<1> HIDE DEF t, h
<1>3. Coming(t, ret, v, sto)
  BY <1>1, <1>2 DEF Coming
<1> QED  BY <1>3 DEF t

(* The area answers a get. *)
LEMMA AnswerStep == ASSUME PagesInv, NEW p \in Pages, Answer(p) PROVE PagesInv'
<1> DEFINE req == requests[p]
           nws == news[p]
           ret == retries[p]
           h == Head(req)
           t == Tail(req)
           new == Items(h, stored[h.key])
           c == Append(nws, new)
<1>k. LIST \notin Ids
  BY DEF PagesInv, VariableTypes
<1>1. /\ req # <<>> /\ h.op = "get"
      /\ news' = [news EXCEPT ![p] = Append(@, new)] /\ requests' = [requests EXCEPT ![p] = Tail(@)]
      /\ UNCHANGED <<stored, writer, retries, list, childLists_, managers, syncs, made, refused>>
  BY DEF Answer
<1>2. /\ req \in Seq(Requests) /\ nws \in Seq(News) /\ ret \in SUBSET PageWrites
      /\ GetsAwaited(req, nws, managers[p])
      /\ p \notin refused => ret = {} /\ ValuesCurrent(p, req, managers[p], made[p], writer, stored)
      /\ ListFollows(req, nws, ret, list[p], stored)
  BY PageIs
<1>3. h \in Requests /\ t \in Seq(Requests)
  BY <1>1, <1>2, RestOf
<1>4. h \in ValueGets \/ h = Get(LIST, 0)
  BY <1>1, <1>3 DEF Requests, ListWrites, ValueWrites, ListGets
<1>5. stored[LIST] \in Seq(Ids) /\ \A id \in Ids : stored[id] \in Contents
  BY DEF PagesInv, VariableTypes
<1>6. CASE h \in ValueGets
  <2>1. new \in ValueNews /\ new \in News /\ new.manager = h.manager /\ new.key = h.key
    BY <1>5, <1>6 DEF ValueGets, Items, ValueNews, News
  <2>2. ~Tells(new) /\ h # Get(LIST, 0) /\ \A v : h # Write(LIST, v, 0)
    BY <1>6, <2>1, <1>k DEF Tells, ListNews, ValueNews, ValueGets, Get, Write
  <2> QED  
    <3>1. GetsAwaited(t, c, managers[p])
      BY <1>1, <1>2, <1>6, <2>1, GetsAnswered
    <3>2. ListFollows(t, c, ret, list[p], stored)
      <4>1. PICK v : Heard(nws, list[p], v) /\ Coming(req, ret, v, stored)
        BY <1>2 DEF ListFollows
      <4>2. Heard(c, list[p], v)
        BY <1>2, <2>1, <2>2, <4>1, HeardMore
      <4>3. Coming(t, ret, v, stored)
        BY <1>1, <1>2, <2>2, <4>1, ComingTail
      <4> QED  BY <4>2, <4>3 DEF ListFollows
    <3>3. h \notin ValueWrites
      BY <1>1 DEF ValueWrites
    <3>4. p \notin refused => ret = {} /\ ValuesCurrent(p, t, managers[p], made[p], writer, stored)
      BY <1>1, <1>2, <3>3, ValuesTail
    <3>5. c \in Seq(News)
      BY <1>2, <2>1
    <3>6. news' = [news EXCEPT ![p] = c] /\ requests' = [requests EXCEPT ![p] = t] /\ retries' = [retries EXCEPT ![p] = ret]
      BY <1>1 DEF PagesInv, VariableTypes
    <3> HIDE DEF c, t, ret
    <3> QED  BY <1>1, <1>2, <1>3, <3>1, <3>2, <3>4, <3>5, <3>6, PageStays
<1>7. CASE h = Get(LIST, 0)
  <2>1. new \in ListNews /\ new \in News /\ new \notin ValueNews /\ new.value = stored[LIST] /\ new.is = "get"
    BY <1>5, <1>7, <1>k DEF Get, Items, ValueNews, News, ListNews
  <2>2. (Tells(new) <=> stored[LIST] # DEFAULT) /\ \A v : h # Write(LIST, v, 0)
    BY <1>1, <2>1 DEF Tells, Write
  <2> QED  
    <3>1. GetsAwaited(t, c, managers[p])
      BY <1>1, <1>2, <2>1, GetsAnswered
    <3>2. ListFollows(t, c, ret, list[p], stored)
      <4>1. PICK v : Heard(nws, list[p], v) /\ Coming(req, ret, v, stored)
        BY <1>2 DEF ListFollows
      <4>2. CASE Tells(new)
        <5>1. Heard(c, list[p], stored[LIST])
          BY <1>2, <2>1, <4>1, <4>2, HeardMore
        <5> QED  BY <5>1 DEF ListFollows, Coming
      <4>3. CASE ~Tells(new)
        <5>1. Heard(c, list[p], v)
          BY <1>2, <2>1, <4>1, <4>3, HeardMore
        <5>2. Coming(t, ret, v, stored)
          BY <1>1, <1>2, <2>2, <4>1, <4>3, ComingTail
        <5> QED  BY <5>1, <5>2 DEF ListFollows
      <4> QED  BY <4>2, <4>3
    <3>3. h \notin ValueWrites
      BY <1>1 DEF ValueWrites
    <3>4. p \notin refused => ret = {} /\ ValuesCurrent(p, t, managers[p], made[p], writer, stored)
      BY <1>1, <1>2, <3>3, ValuesTail
    <3>5. c \in Seq(News)
      BY <1>2, <2>1
    <3>6. news' = [news EXCEPT ![p] = c] /\ requests' = [requests EXCEPT ![p] = t] /\ retries' = [retries EXCEPT ![p] = ret]
      BY <1>1 DEF PagesInv, VariableTypes
    <3> HIDE DEF c, t, ret
    <3> QED  BY <1>1, <1>2, <1>3, <3>1, <3>2, <3>4, <3>5, <3>6, PageStays
<1> QED  BY <1>4, <1>6, <1>7

(* A page that is opened has nothing in mind, and has asked for the list. *)
LEMMA LoadStep == ASSUME PagesInv, NEW p \in Pages, Load(p) PROVE PagesInv'
<1> DEFINE w == Writes(requests[p])
           req == Append(w, Get(LIST, 0))
           base == [list |-> DEFAULT, children |-> <<>>, managers |-> <<>>, syncs |-> {}, made |-> made[p], out |-> <<>>]
           T == {r \in Requests : r.op = "write" /\ \E i \in DOMAIN requests[p] : requests[p][i] = r}
<1>k. LIST \notin Ids
  BY DEF PagesInv, VariableTypes
<1>1. /\ list' = [list EXCEPT ![p] = DEFAULT] /\ childLists_' = [childLists_ EXCEPT ![p] = <<>>]
      /\ managers' = [managers EXCEPT ![p] = <<>>] /\ syncs' = [syncs EXCEPT ![p] = {}]
      /\ requests' = [requests EXCEPT ![p] = Append(Writes(@), Get(LIST, 0))]
      /\ news' = [news EXCEPT ![p] = <<>>] /\ retries' = [retries EXCEPT ![p] = {}]
      /\ UNCHANGED <<stored, writer, made, refused>>
  BY DEF Load
<1>2. /\ requests[p] \in Seq(Requests) /\ made[p] \in Nat
      /\ p \notin refused => ValuesCurrent(p, requests[p], managers[p], made[p], writer, stored)
  BY PageIs
<1>3. w \in Seq(T)
  BY <1>2, WritesAre
<1>4. Get(LIST, 0) \in Requests /\ Get(LIST, 0) \notin ValueGets /\ Get(LIST, 0) \notin ValueWrites
  BY <1>k DEF Get, Requests, ListGets, ValueGets, ValueWrites
<1>5. \A i \in DOMAIN w : /\ w[i] \in Requests /\ w[i].op = "write"
                          /\ \E j \in DOMAIN requests[p] : requests[p][j] = w[i]
  BY <1>3
<1>6. w \in Seq(Requests)
  BY <1>3
<1> HIDE DEF w, T
<1>7. /\ req \in Seq(Requests)
      /\ DOMAIN req = DOMAIN w \cup {Len(w) + 1} /\ req[Len(w) + 1] = Get(LIST, 0)
      /\ \A i \in DOMAIN w : req[i] = w[i]
  BY <1>4, <1>6, AppendProperties
<1> HIDE DEF req
<1>8. \A i \in DOMAIN req : req[i] \notin ValueGets
  BY <1>4, <1>5, <1>7 DEF ValueGets
<1>9. <<>> \in Maps(Nat, Manager) /\ <<>> \in Maps(Ids, Nat) /\ <<>> \in Seq(Requests) /\ <<>> \in Seq(News)
      /\ DEFAULT \in Seq(Ids)
  <2>1. <<>> = [x \in {} |-> 0] /\ DOMAIN <<>> = {}
    OBVIOUS
  <2>2. <<>> \in [{} -> Manager] /\ <<>> \in [{} -> Nat]
    BY <2>1
  <2> QED  BY <2>2, NoElements DEF Maps, DEFAULT
<1>10. base \in PageRecords
  BY <1>2, <1>9 DEF PageRecords
<1>11. /\ base.list = DEFAULT /\ base.children = <<>> /\ base.managers = <<>> /\ base.syncs = {}
       /\ base.made = made[p] /\ base.out = <<>>
  OBVIOUS
<1> HIDE DEF base
<1>12. \A m : m \notin DOMAIN base.managers /\ m \notin DOMAIN base.children
  BY <1>11
<1>13. PageAfter(base, base)
  <2>1. PageTypes(base)
    BY <1>10, <1>12 DEF PageTypes
  <2> QED  BY <1>11, <2>1, NothingDone
<1>14. Restrict(base.managers, {}) = <<>>
  BY DEF Restrict
<1>15. req \o base.out = req
  BY <1>7, <1>11, ConcatEmpty
<1>16. /\ list' = [list EXCEPT ![p] = base.list] /\ childLists_' = [childLists_ EXCEPT ![p] = base.children]
       /\ managers' = [managers EXCEPT ![p] = Restrict(base.managers, {})]
       /\ syncs' = [syncs EXCEPT ![p] = base.syncs] /\ made' = [made EXCEPT ![p] = base.made]
       /\ requests' = [requests EXCEPT ![p] = req \o base.out]
  <2>1. made' = [made EXCEPT ![p] = base.made]
    BY <1>1, <1>11 DEF PagesInv, VariableTypes
  <2>2. requests' = [requests EXCEPT ![p] = req]
    BY <1>1 DEF req, w
  <2> QED  BY <1>1, <1>11, <1>14, <1>15, <2>1, <2>2
<1>17. GetsAwaited(req, <<>>, base.managers)
  BY <1>8 DEF GetsAwaited, AskedOnce
<1>18. p \notin refused' => ValuesCurrent(p, req, base.managers, base.made, writer, stored)
  <2> SUFFICES ASSUME p \notin refused PROVE ValuesCurrent(p, req, base.managers, base.made, writer, stored)
    BY <1>1
  <2>1. WritesReady(req, base.managers, base.made)
    BY <1>2, <1>4, <1>5, <1>7, <1>11, <1>12 DEF ValuesCurrent, WritesReady
  <2>2. WrittenReady(p, base.managers, base.made, writer)
    BY <1>2, <1>11, <1>12 DEF ValuesCurrent, WrittenReady
  <2> QED  BY <1>12, <2>1, <2>2 DEF ValuesCurrent
<1>19. ListFollows(req \o base.out, <<>>, {}, base.list, stored)
  <2>1. Heard(<<>>, base.list, DEFAULT)
    BY <1>11 DEF Heard
  <2>2. Coming(req, {}, DEFAULT, stored)
    BY <1>7 DEF Coming
  <2> QED  BY <1>15, <2>1, <2>2 DEF ListFollows
<1> DEFINE K == {}
           nws == <<>>
           ret == {}
<1>20. /\ base.managers \in Maps(Nat, Manager) /\ K \in SUBSET DOMAIN base.managers
       /\ nws \in Seq(News) /\ ret \in SUBSET PageWrites
       /\ \A id \in DOMAIN base.children : base.children[id] \in K
       /\ \A m \in DOMAIN base.managers : base.managers[m].cache # "ready" => m \in K
  BY <1>9, <1>11, <1>12
<1>21. /\ managers' = [managers EXCEPT ![p] = Restrict(base.managers, K)]
       /\ news' = [news EXCEPT ![p] = nws] /\ retries' = [retries EXCEPT ![p] = ret]
       /\ stored' = stored /\ writer' = writer /\ refused \subseteq refused'
  BY <1>1, <1>16
<1>22. /\ GetsAwaited(req, nws, base.managers)
       /\ p \notin refused' => ret = {} /\ ValuesCurrent(p, req, base.managers, base.made, writer, stored)
       /\ ListFollows(req \o base.out, nws, ret, base.list, stored)
  BY <1>17, <1>18, <1>19
<1> HIDE DEF K, nws, ret
<1> QED  BY <1>7, <1>13, <1>16, <1>20, <1>21, <1>22, PageStep

(* News of the list are no answer to a manager. *)
LEMMA GetsTold ==
  ASSUME NEW req, NEW nws \in Seq(News), NEW mans, GetsAwaited(req, nws, mans), NEW new \in News, new \notin ValueNews
  PROVE  GetsAwaited(req, Append(nws, new), mans)
<1> DEFINE c == Append(nws, new)
<1>1. \A i \in DOMAIN c : c[i] \in ValueNews => i \in DOMAIN nws /\ c[i] = nws[i]
  BY AppendProperties
<1> HIDE DEF c
<1>2. AskedOnce(c, ValueNews)
  BY <1>1 DEF GetsAwaited, AskedOnce
<1>3. GetsAwaited(req, c, mans)
  BY <1>1, <1>2 DEF GetsAwaited
<1> QED  BY <1>3 DEF c

(* What others write is no page's own. *)
LEMMA ValuesElse ==
  ASSUME NEW q, NEW req, NEW mans \in Maps(Nat, Manager), NEW top, NEW wri, NEW sto,
         ValuesCurrent(q, req, mans, top, wri, sto), NEW wri2, NEW sto2,
         \A id \in Ids : (wri2[id] = wri[id] /\ sto2[id] = sto[id]) \/ \A m : wri2[id] # <<q, m>>
  PROVE  ValuesCurrent(q, req, mans, top, wri2, sto2)
<1>1. \A m \in DOMAIN mans : mans[m].id \in Ids
  <2>1. \A m \in DOMAIN mans : mans[m] \in Manager
    BY MapsFields
  <2> QED  BY <2>1 DEF Manager
<1>2. WrittenReady(q, mans, top, wri2)
  BY <1>1 DEF ValuesCurrent, WrittenReady
<1>3. ASSUME NEW m \in DOMAIN mans PROVE Current(q, req, wri2, sto2, m, mans[m])
  <2>1. Current(q, req, wri, sto, m, mans[m])
    BY DEF ValuesCurrent
  <2>2. wri2[mans[m].id] = <<q, m>> => wri[mans[m].id] = <<q, m>> /\ sto2[mans[m].id] = sto[mans[m].id]
    BY <1>1
  <2> QED  BY <2>1, <2>2 DEF Current
<1> QED  BY <1>2, <1>3 DEF ValuesCurrent

(* What a page writes is stored. *)
LEMMA ValuesStored ==
  ASSUME NEW p, NEW req \in Seq(Requests), req # <<>>, NEW mans \in Maps(Nat, Manager), NEW top, NEW wri, NEW sto,
         ValuesCurrent(p, req, mans, top, wri, sto),
         NEW w, w = Head(req), w \in ValueWrites, NEW wri2, NEW sto2,
         wri2[w.key] = <<p, w.manager>>, sto2[w.key] = w.value,
         \A id \in Ids : id # w.key => wri2[id] = wri[id] /\ sto2[id] = sto[id]
  PROVE  ValuesCurrent(p, Tail(req), mans, top, wri2, sto2)
<1> DEFINE t == Tail(req)
<1>t. t = Tail(req)
  OBVIOUS
<1> HIDE DEF t
<1>1. /\ w = req[1] /\ 1 \in DOMAIN req
      /\ \A i \in DOMAIN t : i + 1 \in DOMAIN req /\ t[i] = req[i + 1] /\ i + 1 # 1
      /\ \A i \in DOMAIN req : i # 1 => i - 1 \in DOMAIN t /\ (i - 1) + 1 = i
      /\ \A i, j \in DOMAIN t : i + 1 <= j + 1 => i <= j
  BY <1>t, RestOf
<1>2. \A m \in DOMAIN mans : mans[m].id \in Ids /\ m \in Nat
  <2>1. \A m \in DOMAIN mans : mans[m] \in Manager /\ m \in Nat
    BY MapsFields
  <2> QED  BY <2>1 DEF Manager
<1>3. w.manager \in Nat /\ w.key \in Ids
  BY DEF ValueWrites
<1>4. WritesReady(t, mans, top)
  BY <1>1 DEF ValuesCurrent, WritesReady
<1>5. w.manager <= top /\ (w.manager \in DOMAIN mans => mans[w.manager].cache = "ready" /\ mans[w.manager].id = w.key)
  BY <1>1 DEF ValuesCurrent, WritesReady
<1>6. \A id \in Ids, m \in Nat : wri2[id] = <<p, m>> => (id = w.key /\ m = w.manager) \/ (id # w.key /\ wri[id] = <<p, m>>)
  <2> SUFFICES ASSUME NEW id \in Ids, NEW m \in Nat, wri2[id] = <<p, m>>
               PROVE  (id = w.key /\ m = w.manager) \/ (id # w.key /\ wri[id] = <<p, m>>)
    OBVIOUS
  <2>1. CASE id = w.key
    <3>1. <<p, m>> = <<p, w.manager>>
      BY <2>1
    <3> QED  BY <2>1, <3>1
  <2>2. CASE id # w.key
    BY <2>2
  <2> QED  BY <2>1, <2>2
<1>7. WrittenReady(p, mans, top, wri2)
  BY <1>2, <1>5, <1>6 DEF ValuesCurrent, WrittenReady
<1>8. ASSUME NEW m \in DOMAIN mans PROVE Current(p, t, wri2, sto2, m, mans[m])
  <2>1. Current(p, req, wri, sto, m, mans[m])
    BY DEF ValuesCurrent
  <2>2. CASE mans[m].timer
    BY <2>2 DEF Current
  <2>3. CASE \E i \in DOMAIN req :
               /\ WriteOf(req[i], m) /\ req[i].key = mans[m].id /\ req[i].value = mans[m].value
               /\ \A j \in DOMAIN req : WriteOf(req[j], m) => j <= i
    <3>1. PICK i \in DOMAIN req :
               /\ WriteOf(req[i], m) /\ req[i].key = mans[m].id /\ req[i].value = mans[m].value
               /\ \A j \in DOMAIN req : WriteOf(req[j], m) => j <= i
      BY <2>3
    <3>2. CASE i # 1
      <4> DEFINE k == i - 1
      <4>1. k \in DOMAIN t /\ k + 1 = i
        BY <1>1, <3>2
      <4> HIDE DEF k
      <4>2. t[k] = req[i]
        BY <1>1, <4>1
      <4>3. \A j \in DOMAIN t : WriteOf(t[j], m) => j <= k
        BY <1>1, <3>1, <4>1
      <4> QED  BY <3>1, <4>1, <4>2, <4>3 DEF Current
    <3>3. CASE i = 1
      <4>1. ASSUME NEW j \in DOMAIN t PROVE ~WriteOf(t[j], m)
        <5>1. j + 1 \in DOMAIN req /\ t[j] = req[j + 1] /\ j \in Nat /\ j >= 1
          BY <1>1, <1>t
        <5>2. ~(j + 1 <= 1)
          BY <5>1
        <5> QED  BY <3>1, <3>3, <5>1, <5>2
      <4>2. mans[m].id = w.key /\ mans[m].value = w.value
        BY <1>1, <3>1, <3>3
      <4> QED  BY <4>1, <4>2 DEF Current
    <3> QED  BY <3>2, <3>3
  <2>4. CASE ~mans[m].timer /\ \A i \in DOMAIN req : ~WriteOf(req[i], m)
    <3>1. \A i \in DOMAIN t : ~WriteOf(t[i], m)
      BY <1>1, <2>4
    <3>2. wri[mans[m].id] = <<p, m>> => sto[mans[m].id] = mans[m].value
      BY <2>1, <2>4 DEF Current
    <3>3. w.manager # m
      BY <1>1, <2>4 DEF WriteOf
    <3>4. wri2[mans[m].id] = <<p, m>> => sto2[mans[m].id] = mans[m].value
      BY <1>2, <1>6, <3>2, <3>3
    <3> QED  BY <3>1, <3>4 DEF Current
  <2> QED  BY <2>1, <2>2, <2>3, <2>4 DEF Current
<1>9. ValuesCurrent(p, t, mans, top, wri2, sto2)
  BY <1>4, <1>7, <1>8 DEF ValuesCurrent
<1> QED  BY <1>9 DEF t

(* A page, when the area has changed. *)
LEMMA PageStored ==
  ASSUME NEW q \in Pages, PageInv(q), UNCHANGED <<list, childLists_, managers, syncs, made, retries, refused>>,
         GetsAwaited(requests'[q], news'[q], managers[q]),
         q \notin refused => ValuesCurrent(q, requests'[q], managers[q], made[q], writer', stored'),
         ListFollows(requests'[q], news'[q], retries[q], list[q], stored')
  PROVE  PageInv(q)'
<1>1. Page(q)' = Page(q)
  BY DEF Page
<1>2. PageTypes(Page(q))'
  BY <1>1, Zenon DEF PageInv, PageTypes
<1>3. list' = list /\ managers' = managers /\ made' = made /\ retries' = retries /\ refused' = refused
  OBVIOUS
<1>4. GetsAwaited(requests[q], news[q], managers[q])'
  BY <1>3, Zenon
<1>5. ListFollows(requests[q], news[q], retries[q], list[q], stored)'
  BY <1>3, Zenon
<1>6. (q \notin refused => retries[q] = {} /\ ValuesCurrent(q, requests[q], managers[q], made[q], writer, stored))'
  BY <1>3, Zenon DEF PageInv
<1> QED  BY <1>2, <1>4, <1>5, <1>6, Zenon DEF PageInv

(* The list is stored as it was. *)
LEMMA SameListStep ==
  ASSUME PagesInv, NEW p \in Pages, Store(p), Head(requests[p]) \in ListWrites,
         stored[LIST] = Head(requests[p]).value
  PROVE  PagesInv'
<1> DEFINE req == requests[p]
           nws == news[p]
           ret == retries[p]
           w == Head(req)
           t == Tail(req)
<1>k. LIST \notin Ids
  BY DEF PagesInv, VariableTypes
<1>1. /\ req # <<>>
      /\ stored' = [stored EXCEPT ![w.key] = w.value]
      /\ writer' = IF w.key = LIST THEN writer ELSE [writer EXCEPT ![w.key] = <<p, w.manager>>]
      /\ news' = IF w.key # LIST \/ stored[LIST] = w.value THEN news
                 ELSE [page \in Pages |-> Append(news[page], Changed(w.value))]
      /\ requests' = [requests EXCEPT ![p] = Tail(@)]
      /\ UNCHANGED <<retries, list, childLists_, managers, syncs, made, refused>>
  BY DEF Store
<1>2. /\ req \in Seq(Requests) /\ nws \in Seq(News) /\ ret \in SUBSET PageWrites
      /\ GetsAwaited(req, nws, managers[p])
      /\ p \notin refused => ret = {} /\ ValuesCurrent(p, req, managers[p], made[p], writer, stored)
      /\ ListFollows(req, nws, ret, list[p], stored)
  BY PageIs
<1>3. w.key = LIST /\ w \notin ValueWrites /\ w # Get(LIST, 0)
  BY <1>k DEF ListWrites, ValueWrites, Get
<1>4. stored' = stored /\ writer' = writer
  BY <1>1, <1>3 DEF PagesInv, VariableTypes
<1>5. news' = [news EXCEPT ![p] = nws] /\ requests' = [requests EXCEPT ![p] = t] /\ retries' = [retries EXCEPT ![p] = ret]
  BY <1>1, <1>3 DEF PagesInv, VariableTypes
<1>6. t \in Seq(Requests) /\ GetsAwaited(t, nws, managers[p])
  BY <1>1, <1>2, GetsTail
<1>7. p \notin refused' => ret = {} /\ ValuesCurrent(p, t, managers[p], made[p], writer, stored)
  BY <1>1, <1>2, <1>3, ValuesTail
<1>8. ListFollows(t, nws, ret, list[p], stored)
  <2>1. PICK v : Heard(nws, list[p], v) /\ Coming(req, ret, v, stored)
    BY <1>2 DEF ListFollows
  <2>2. w = Write(LIST, v, 0) => v = stored[LIST]
    BY DEF Write
  <2>3. Coming(t, ret, v, stored)
    BY <1>1, <1>2, <1>3, <2>1, <2>2, ComingTail
  <2> QED  BY <2>1, <2>3 DEF ListFollows
<1>9. UNCHANGED <<list, childLists_, managers, syncs, made, stored, writer>> /\ refused \subseteq refused'
  BY <1>1, <1>4
<1> HIDE DEF t, ret, nws
<1> QED  BY <1>2, <1>5, <1>6, <1>7, <1>8, <1>9, PageStays

(* Another list is stored, and every page will hear of it. *)
LEMMA OtherListStep ==
  ASSUME PagesInv, NEW p \in Pages, Store(p), Head(requests[p]) \in ListWrites,
         stored[LIST] # Head(requests[p]).value
  PROVE  PagesInv'
<1> DEFINE w == Head(requests[p])
           u == w.value
           new == Changed(u)
<1>k. LIST \notin Ids
  BY DEF PagesInv, VariableTypes
<1>1. /\ requests[p] # <<>>
      /\ stored' = [stored EXCEPT ![w.key] = w.value]
      /\ writer' = IF w.key = LIST THEN writer ELSE [writer EXCEPT ![w.key] = <<p, w.manager>>]
      /\ news' = IF w.key # LIST \/ stored[LIST] = w.value THEN news
                 ELSE [page \in Pages |-> Append(news[page], new)]
      /\ requests' = [requests EXCEPT ![p] = Tail(@)]
      /\ UNCHANGED <<retries, list, childLists_, managers, syncs, made, refused>>
  BY DEF Store
<1>2. w.key = LIST /\ w \notin ValueWrites /\ u \in Seq(Ids)
  BY <1>k DEF ListWrites, ValueWrites
<1>3. stored' = [stored EXCEPT ![LIST] = u] /\ writer' = writer /\ news' = [page \in Pages |-> Append(news[page], new)]
  BY <1>1, <1>2
<1>4. new \in ListNews /\ new \in News /\ new \notin ValueNews /\ Tells(new) /\ new.value = u
  BY <1>2, <1>k DEF Changed, ListNews, ValueNews, News, Tells
<1> HIDE DEF u, new
<1>5. VariableTypes
  BY DEF PagesInv
<1>6. stored'[LIST] = u /\ \A id \in Ids : stored'[id] = stored[id]
  BY <1>3, <1>5, <1>k DEF VariableTypes
<1>7. VariableTypes'
  <2>1. stored' \in [{LIST} \cup Ids -> Seq(Ids) \cup Contents]
    BY <1>2, <1>3, <1>5 DEF VariableTypes
  <2>2. stored'[LIST] \in Seq(Ids) /\ \A id \in Ids : stored'[id] \in Contents
    BY <1>2, <1>5, <1>6 DEF VariableTypes
  <2>3. news' \in [Pages -> Seq(News)]
    BY <1>3, <1>4, <1>5 DEF VariableTypes
  <2>4. requests' \in [Pages -> Seq(Requests)]
    <3>1. Tail(requests[p]) \in Seq(Requests)
      BY <1>1, PageIs, RestOf
    <3> QED  BY <1>1, <1>5, <3>1 DEF VariableTypes
  <2> QED  BY <1>1, <1>3, <1>5, <2>1, <2>2, <2>3, <2>4, Zenon DEF VariableTypes
<1>8. ASSUME NEW q \in Pages PROVE PageInv(q)'
  <2> DEFINE req == requests[q]
             nws == news[q]
             r2 == IF q = p THEN Tail(req) ELSE req
             n2 == Append(nws, new)
  <2>1. requests'[q] = r2 /\ news'[q] = n2
    BY <1>1, <1>3, <1>5 DEF VariableTypes
  <2>2. /\ req \in Seq(Requests) /\ nws \in Seq(News) /\ managers[q] \in Maps(Nat, Manager)
        /\ GetsAwaited(req, nws, managers[q])
        /\ q \notin refused => ValuesCurrent(q, req, managers[q], made[q], writer, stored)
        /\ ListFollows(req, nws, retries[q], list[q], stored)
    BY PageIs
  <2>3. GetsAwaited(req, n2, managers[q])
    BY <1>4, <2>2, GetsTold
  <2>4. q \notin refused => ValuesCurrent(q, req, managers[q], made[q], writer', stored')
    BY <1>3, <1>6, <2>2, ValuesElse
  <2> HIDE DEF n2
  <2>5. GetsAwaited(r2, n2, managers[q]) /\ (q \notin refused => ValuesCurrent(q, r2, managers[q], made[q], writer', stored'))
    <3>1. CASE q = p
      BY <1>1, <1>2, <2>2, <2>3, <2>4, <3>1, GetsTail, ValuesTail
    <3>2. CASE q # p
      BY <2>3, <2>4, <3>2
    <3> QED  BY <3>1, <3>2
  <2>6. ListFollows(r2, n2, retries[q], list[q], stored')
    <3>1. PICK v : Heard(nws, list[q], v)
      BY <2>2 DEF ListFollows
    <3>2. Heard(n2, list[q], u)
      BY <1>4, <2>2, <3>1, HeardMore DEF n2
    <3>3. Coming(r2, retries[q], u, stored')
      BY <1>6 DEF Coming
    <3> QED  BY <3>2, <3>3 DEF ListFollows
  <2>7. PageInv(q)
    BY DEF PagesInv
  <2> HIDE DEF r2
  <2>8. UNCHANGED <<list, childLists_, managers, syncs, made, retries, refused>>
    BY <1>1
  <2> QED  BY <2>1, <2>5, <2>6, <2>7, <2>8, PageStored
<1> QED  BY <1>7, <1>8 DEF PagesInv

(* A profile's value is stored. *)
LEMMA ValueStep ==
  ASSUME PagesInv, NEW p \in Pages, Store(p), Head(requests[p]) \in ValueWrites
  PROVE  PagesInv'
<1> DEFINE w == Head(requests[p])
<1>k. LIST \notin Ids
  BY DEF PagesInv, VariableTypes
<1>1. /\ requests[p] # <<>>
      /\ stored' = [stored EXCEPT ![w.key] = w.value]
      /\ writer' = IF w.key = LIST THEN writer ELSE [writer EXCEPT ![w.key] = <<p, w.manager>>]
      /\ news' = IF w.key # LIST \/ stored[LIST] = w.value THEN news
                 ELSE [page \in Pages |-> Append(news[page], Changed(w.value))]
      /\ requests' = [requests EXCEPT ![p] = Tail(@)]
      /\ UNCHANGED <<retries, list, childLists_, managers, syncs, made, refused>>
  BY DEF Store
<1>2. w.key # LIST /\ w.key \in Ids /\ w.value \in Contents /\ w.manager \in Nat /\ w \in ValueWrites
      /\ w # Get(LIST, 0) /\ \A v : w # Write(LIST, v, 0)
  BY <1>k DEF ValueWrites, Get, Write
<1>3. writer' = [writer EXCEPT ![w.key] = <<p, w.manager>>] /\ news' = news
  BY <1>1, <1>2
<1>w. w = Head(requests[p])
  OBVIOUS
<1> HIDE DEF w
<1>5. VariableTypes
  BY DEF PagesInv
<1>6. /\ stored'[LIST] = stored[LIST] /\ stored'[w.key] = w.value /\ writer'[w.key] = <<p, w.manager>>
      /\ \A id \in Ids : id # w.key => stored'[id] = stored[id] /\ writer'[id] = writer[id]
  BY <1>1, <1>2, <1>3, <1>5 DEF VariableTypes
<1>7. VariableTypes'
  <2>1. stored' \in [{LIST} \cup Ids -> Seq(Ids) \cup Contents]
    BY <1>1, <1>2, <1>5 DEF VariableTypes
  <2>2. stored'[LIST] \in Seq(Ids) /\ \A id \in Ids : stored'[id] \in Contents
    BY <1>2, <1>5, <1>6 DEF VariableTypes
  <2>3. writer' \in [Ids -> {<<>>} \cup (Pages \X Nat)]
    BY <1>2, <1>3, <1>5 DEF VariableTypes
  <2>4. requests' \in [Pages -> Seq(Requests)]
    <3>1. Tail(requests[p]) \in Seq(Requests)
      BY <1>1, PageIs, RestOf
    <3> QED  BY <1>1, <1>5, <3>1 DEF VariableTypes
  <2> QED  BY <1>1, <1>3, <1>5, <2>1, <2>2, <2>3, <2>4, Zenon DEF VariableTypes
<1>8. ASSUME NEW q \in Pages PROVE PageInv(q)'
  <2> DEFINE req == requests[q]
             nws == news[q]
             r2 == IF q = p THEN Tail(req) ELSE req
  <2>1. requests'[q] = r2 /\ news'[q] = nws
    BY <1>1, <1>3, <1>5 DEF VariableTypes
  <2>2. /\ req \in Seq(Requests) /\ nws \in Seq(News) /\ managers[q] \in Maps(Nat, Manager)
        /\ GetsAwaited(req, nws, managers[q])
        /\ q \notin refused => ValuesCurrent(q, req, managers[q], made[q], writer, stored)
        /\ ListFollows(req, nws, retries[q], list[q], stored)
    BY PageIs
  <2>3. PICK v : Heard(nws, list[q], v) /\ Coming(req, retries[q], v, stored)
    BY <2>2 DEF ListFollows
  <2>4. Coming(req, retries[q], v, stored')
    BY <1>6, <2>3 DEF Coming
  <2>5. /\ GetsAwaited(r2, nws, managers[q])
        /\ q \notin refused => ValuesCurrent(q, r2, managers[q], made[q], writer', stored')
        /\ Coming(r2, retries[q], v, stored')
    <3>1. CASE q = p
      <4>1. GetsAwaited(Tail(req), nws, managers[q])
        BY <1>1, <2>2, <3>1, GetsTail
      <4>2. Coming(Tail(req), retries[q], v, stored')
        <5>1. Head(req) # Get(LIST, 0) /\ Head(req) # Write(LIST, v, 0)
          BY <1>2, <1>w, <3>1
        <5> QED  BY <1>1, <2>2, <2>4, <3>1, <5>1, ComingTail
      <4>3. q \notin refused => ValuesCurrent(q, Tail(req), managers[q], made[q], writer', stored')
        <5> SUFFICES ASSUME q \notin refused
                     PROVE  ValuesCurrent(q, Tail(req), managers[q], made[q], writer', stored')
          OBVIOUS
        <5>1. ValuesCurrent(q, req, managers[q], made[q], writer, stored) /\ req # <<>> /\ w = Head(req)
              /\ writer'[w.key] = <<q, w.manager>>
          BY <1>1, <1>6, <1>w, <2>2, <3>1
        <5> HIDE DEF req
        <5> QED  BY <1>2, <1>6, <2>2, <5>1, ValuesStored
      <4> QED  BY <3>1, <4>1, <4>2, <4>3
    <3>2. CASE q # p
      <4>1. \A id \in Ids : (writer'[id] = writer[id] /\ stored'[id] = stored[id]) \/ \A m : writer'[id] # <<q, m>>
        <5>1. \A m : <<p, w.manager>> # <<q, m>>
          BY <3>2
        <5> QED  BY <1>6, <5>1
      <4>2. q \notin refused => ValuesCurrent(q, req, managers[q], made[q], writer', stored')
        BY <2>2, <4>1, ValuesElse
      <4> QED  BY <2>2, <2>4, <3>2, <4>2
    <3> QED  BY <3>1, <3>2
  <2>6. ListFollows(r2, nws, retries[q], list[q], stored')
    BY <2>3, <2>5 DEF ListFollows
  <2>7. PageInv(q)
    BY DEF PagesInv
  <2> HIDE DEF r2
  <2>8. UNCHANGED <<list, childLists_, managers, syncs, made, retries, refused>>
    BY <1>1
  <2> QED  BY <2>1, <2>5, <2>6, <2>7, <2>8, PageStored
<1> QED  BY <1>7, <1>8 DEF PagesInv

(* The area stores what a page writes. *)
LEMMA StoreStep == ASSUME PagesInv, NEW p \in Pages, Store(p) PROVE PagesInv'
<1>1. requests[p] \in Seq(Requests) /\ requests[p] # <<>> /\ Head(requests[p]).op = "write"
  BY PageIs DEF Store
<1>2. Head(requests[p]) \in Requests
  BY <1>1, RestOf
<1>3. Head(requests[p]) \in ListWrites \/ Head(requests[p]) \in ValueWrites
  BY <1>1, <1>2 DEF Requests, ListGets, ValueGets, Get
<1> QED  BY <1>3, SameListStep, OtherListStep, ValueStep

(* It holds when the pages have been opened. *)
LEMMA PagesInit == ASSUME Ids # {}, LIST \notin Ids, Init PROVE PagesInv
<1> DEFINE first == CHOOSE id \in Ids : TRUE
           man == [id |-> first, value |-> DEFAULT, cache |-> "ready", edited |-> FALSE, timer |-> FALSE]
           mans == [m \in {1} |-> man]
           kids == [id \in {first} |-> 1]
<1>1. first \in Ids
  OBVIOUS
<1> HIDE DEF first
<1>2. /\ stored = [key \in {LIST} \cup Ids |-> IF key = LIST THEN <<first>> ELSE DEFAULT]
      /\ writer = [id \in Ids |-> <<>>]
      /\ requests = [p \in Pages |-> <<>>] /\ news = [p \in Pages |-> <<>>] /\ retries = [p \in Pages |-> {}]
      /\ list = [p \in Pages |-> <<first>>] /\ syncs = [p \in Pages |-> {}]
      /\ childLists_ = [p \in Pages |-> kids] /\ made = [p \in Pages |-> 1]
      /\ managers = [p \in Pages |-> mans]
  BY DEF Init, first
<1>3. man \in Manager /\ man.id = first /\ man.value = DEFAULT /\ man.cache = "ready" /\ ~man.timer
  BY <1>1 DEF Manager, Contents
<1> HIDE DEF man
<1>4. mans \in Maps(Nat, Manager) /\ DOMAIN mans = {1} /\ mans[1] = man
  <2>1. {1} \in SUBSET Nat /\ mans \in [{1} -> Manager]
    BY <1>3
  <2>2. DOMAIN mans = {1} /\ mans[1] = man
    OBVIOUS
  <2> HIDE DEF mans
  <2> QED  BY <2>1, <2>2, MapsIs
<1>5. kids \in Maps(Ids, Nat) /\ DOMAIN kids = {first} /\ kids[first] = 1
  <2>1. {first} \in SUBSET Ids /\ kids \in [{first} -> Nat]
    BY <1>1
  <2>2. DOMAIN kids = {first} /\ kids[first] = 1
    OBVIOUS
  <2> HIDE DEF kids
  <2> QED  BY <2>1, <2>2, MapsIs
<1> HIDE DEF mans, kids
<1>6. <<first>> \in Seq(Ids) /\ DEFAULT \in Contents /\ <<>> \in Seq(Requests) /\ <<>> \in Seq(News)
  BY <1>1, NoElements, OneElement DEF Contents
<1>7. stored[LIST] = <<first>> /\ \A id \in Ids : stored[id] = DEFAULT
  BY <1>2
<1>8. VariableTypes
  <2>1. stored \in [{LIST} \cup Ids -> Seq(Ids) \cup Contents]
    BY <1>2, <1>6
  <2>2. stored[LIST] \in Seq(Ids) /\ \A id \in Ids : stored[id] \in Contents
    BY <1>6, <1>7
  <2>3. writer \in [Ids -> {<<>>} \cup (Pages \X Nat)]
    BY <1>2
  <2>4. requests \in [Pages -> Seq(Requests)] /\ news \in [Pages -> Seq(News)] /\ retries \in [Pages -> SUBSET PageWrites]
    BY <1>2, <1>6
  <2>5. list \in [Pages -> Seq(Ids)] /\ childLists_ \in [Pages -> Maps(Ids, Nat)]
    BY <1>2, <1>5, <1>6
  <2>6. managers \in [Pages -> Maps(Nat, Manager)] /\ syncs \in [Pages -> SUBSET Syncs] /\ made \in [Pages -> Nat]
    BY <1>2, <1>4
  <2> QED  BY <2>1, <2>2, <2>3, <2>4, <2>5, <2>6 DEF VariableTypes
<1>9. ASSUME NEW p \in Pages PROVE PageInv(p)
  <2>1. /\ requests[p] = <<>> /\ news[p] = <<>> /\ retries[p] = {} /\ list[p] = <<first>> /\ syncs[p] = {}
        /\ childLists_[p] = kids /\ made[p] = 1 /\ managers[p] = mans
    BY <1>2
  <2> DEFINE page == Page(p)
  <2>2. page = [list |-> <<first>>, children |-> kids, managers |-> mans, syncs |-> {}, made |-> 1, out |-> <<>>]
    BY <2>1 DEF Page
  <2>3. page \in PageRecords
    BY <1>4, <1>5, <1>6, <2>2 DEF PageRecords
  <2>4. page.children = kids /\ page.managers = mans /\ page.made = 1
    BY <2>2
  <2> HIDE DEF page
  <2>5. PageTypes(page)
    BY <1>3, <1>4, <1>5, <2>3, <2>4 DEF PageTypes
  <2>6. GetsAwaited(<<>>, <<>>, mans)
    BY DEF GetsAwaited, AskedOnce
  <2>7. ValuesCurrent(p, <<>>, mans, 1, writer, stored)
    <3>1. \A id \in Ids : \A m : writer[id] # <<p, m>>
      BY <1>2
    <3>2. \A m \in DOMAIN mans : Current(p, <<>>, writer, stored, m, mans[m])
      BY <1>1, <1>3, <1>4, <3>1 DEF Current
    <3>3. WritesReady(<<>>, mans, 1)
      BY DEF WritesReady
    <3>4. WrittenReady(p, mans, 1, writer)
      BY <1>1, <1>3, <1>4, <3>1 DEF WrittenReady
    <3> QED  BY <3>2, <3>3, <3>4 DEF ValuesCurrent
  <2>8. ListFollows(<<>>, <<>>, {}, <<first>>, stored)
    <3>1. Heard(<<>>, <<first>>, <<first>>) /\ Coming(<<>>, {}, <<first>>, stored)
      BY <1>7 DEF Heard, Coming
    <3> QED  BY <3>1 DEF ListFollows
  <2> QED  BY <2>1, <2>5, <2>6, <2>7, <2>8 DEF PageInv, page
<1> QED  BY <1>8, <1>9 DEF PagesInv

(* Nothing happens. *)
LEMMA PagesUnchanged == PagesInv /\ UNCHANGED vars => PagesInv'
<1> SUFFICES ASSUME PagesInv, UNCHANGED vars PROVE PagesInv'
  OBVIOUS
<1>1. UNCHANGED <<stored, writer, requests, news, retries, list, childLists_, managers, syncs, made, refused>>
  BY DEF vars, pageVars
<1>2. VariableTypes'
  BY <1>1 DEF PagesInv, VariableTypes
<1>3. ASSUME NEW q \in Pages PROVE PageInv(q)'
  BY <1>1, OtherPages DEF PagesInv
<1> QED  BY <1>2, <1>3 DEF PagesInv

(* Every step of a page, the user, a timer and the area keeps the          *)
(* invariant.                                                              *)
LEMMA PagesNext == PagesInv /\ [Next]_vars => PagesInv'
<1> SUFFICES ASSUME PagesInv, Next PROVE PagesInv'
  BY PagesUnchanged
<1>1. ASSUME NEW p \in Pages, Load(p) PROVE PagesInv'
  BY <1>1, LoadStep
<1>2. ASSUME NEW p \in Pages, NEW id \in Ids, CreateChild(p, id) \/ RemoveChild(p, id) PROVE PagesInv'
  BY <1>2, CreateStep, RemoveStep
<1>3. ASSUME NEW p \in Pages, NEW id \in Ids, NEW v \in Values, ImportFromJson(p, id, <<v>>) PROVE PagesInv'
  <2>1. <<v>> \in Contents
    BY DEF Contents
  <2> QED  BY <1>3, <2>1, ImportStep
<1>4. ASSUME NEW p \in Pages, NEW id \in Ids, NEW value \in {<<v>> : v \in Values} \cup {DEFAULT}, Set(p, id, value)
      PROVE  PagesInv'
  <2>1. value \in Contents
    BY DEF Contents
  <2> QED  BY <1>4, <2>1, SetStep
<1>5. ASSUME NEW p \in Pages, HearNews(p) PROVE PagesInv'
  BY <1>5, ChangeStep, ReadStep, CacheStep DEF HearNews
<1>6. ASSUME NEW p \in Pages, Serve(p) PROVE PagesInv'
  BY <1>6, AnswerStep, StoreStep DEF Serve
<1>7. ASSUME NEW p \in Pages, TimerFires(p) PROVE PagesInv'
  BY <1>7, RetryStep, TimerStep DEF TimerFires
<1>8. ASSUME NEW p \in Pages, Refuse(p) PROVE PagesInv'
  BY <1>8, RefuseStep
<1>9. CASE UserNext
  <2>1. PICK p \in Pages : \/ Load(p)
                           \/ \E id \in Ids : CreateChild(p, id) \/ RemoveChild(p, id)
                           \/ \E id \in Ids, v \in Values : ImportFromJson(p, id, <<v>>)
                           \/ \E id \in Ids, value \in {<<v>> : v \in Values} \cup {DEFAULT} : Set(p, id, value)
    BY <1>9 DEF UserNext
  <2> QED  BY <1>1, <1>2, <1>3, <1>4, <2>1
<1> QED  BY <1>5, <1>6, <1>7, <1>8, <1>9 DEF Next, GoOn

(* The invariant says what is promised. *)
LEMMA PagesImply == PagesInv => TypeOK /\ PagesSeeWhatIsStored
<1> SUFFICES ASSUME PagesInv PROVE TypeOK /\ PagesSeeWhatIsStored
  OBVIOUS
<1>1. stored[LIST] \in Seq(Ids) /\ \A id \in Ids : stored[id] \in Contents
  BY DEF PagesInv, VariableTypes
<1>2. \A id \in Ids : Len(stored[id]) <= 1
  <2>1. \A c \in Contents : Len(c) <= 1
    <3>1. ASSUME NEW v \in Values PROVE Len(<<v>>) <= 1
      OBVIOUS
    <3>2. Len(DEFAULT) <= 1
      BY DEF DEFAULT
    <3> QED  BY <3>1, <3>2 DEF Contents
  <2> QED  BY <1>1, <2>1
<1>3. ASSUME NEW p \in Pages
      PROVE  /\ list[p] \in Seq(Ids) /\ DOMAIN managers[p] \subseteq 1..made[p]
             /\ \A id \in DOMAIN childLists_[p] : managers[p][childLists_[p][id]].id = id
  BY PageIs DEF PageTypes
<1>4. ASSUME NEW p \in Pages, Quiet(p)
      PROVE  /\ list[p] = stored[LIST]
             /\ p \notin refused =>
                  \A m \in DOMAIN managers[p] : LET manager == managers[p][m] IN
                    writer[manager.id] = <<p, m>> => stored[manager.id] = manager.value
  <2>1. /\ requests[p] = <<>> /\ news[p] = <<>> /\ retries[p] = {}
        /\ \A m \in DOMAIN managers[p] : ~managers[p][m].timer
    BY <1>4 DEF Quiet, Busy
  <2>2. /\ p \notin refused => ValuesCurrent(p, <<>>, managers[p], made[p], writer, stored)
        /\ ListFollows(<<>>, <<>>, {}, list[p], stored)
    BY <2>1, PageIs
  <2>3. list[p] = stored[LIST]
    BY <2>2 DEF ListFollows, Heard, Coming
  <2>4. ASSUME p \notin refused, NEW m \in DOMAIN managers[p], writer[managers[p][m].id] = <<p, m>>
        PROVE  stored[managers[p][m].id] = managers[p][m].value
    BY <2>1, <2>2, <2>4 DEF ValuesCurrent, Current
  <2> QED  BY <2>3, <2>4
<1> QED  BY <1>1, <1>2, <1>3, <1>4 DEF TypeOK, PagesSeeWhatIsStored

(* A page that has nothing under way has the stored list, and the stored   *)
(* value of each profile it was the last to write (onStorageChange_ of     *)
(* lib_preference_manager.js, queueWriteSync_ of                           *)
(* lib_storage_condenser.js), however many pages and profiles there are    *)
(* and in whatever order writes, changes, answers and retries cross.       *)
THEOREM PagesAgree == Ids # {} /\ LIST \notin Ids /\ Spec => [](TypeOK /\ PagesSeeWhatIsStored)
<1>1. Ids # {} /\ LIST \notin Ids /\ Init => PagesInv
  BY PagesInit
<1>2. PagesInv /\ [Next]_vars => PagesInv'
  BY PagesNext
<1>3. PagesInv => TypeOK /\ PagesSeeWhatIsStored
  BY PagesImply
<1> QED  BY <1>1, <1>2, <1>3, PTL DEF Spec

=============================================================================
