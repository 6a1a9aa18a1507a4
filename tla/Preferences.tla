----------------------------- MODULE Preferences ----------------------------
(***************************************************************************)
(* The connection profiles of Secure Shell, as several pages see them:     *)
(* each page has a PreferenceManager (libdot/js/lib_preference_manager.js, *)
(* nassh/js/nassh_preference_manager.js) whose 'profile-ids' preference    *)
(* lists its children, one PreferenceManager per profile.  The list is kept *)
(* in chrome.storage (libdot/js/lib_storage_chrome.js), which answers      *)
(* requests and tells every page, the writer too, of each change.  The     *)
(* preferences of a profile, one here, are condensed into one key of it    *)
(* (libdot/js/lib_storage_condenser.js): read once, kept in memory, and    *)
(* written whole; no page hears of them again.  No profile is left in the  *)
(* several keys of old, and the round trip that finds none is one with the *)
(* round trip that reads the key.                                          *)
(***************************************************************************)
EXTENDS Integers, Sequences, FiniteSets, SequencesExt, Functions

CONSTANTS Pages,       \* pages (and background pages) of the extension
          Ids,         \* ids of profiles
          Values,      \* values a user may give a preference
          MaxEvents    \* edits, pages opened again, writes over the quota

DEFAULT == <<>>        \* of the list and of a profile's preference
LIST == "profile-ids"

VARIABLES stored,      \* the storage area: the list, and each profile's value
          writer,      \* of each profile: the page and manager that wrote it
          requests,    \* of a page, on their way to the storage area
          news,        \* changes and answers on their way to a page
          retries,     \* writes of a page that wait in retryQuotaErrors
          list,        \* a page's current value of 'profile-ids'
          childLists_, \* id -> number of its manager, on a page
          managers,    \* number -> the manager of a profile and its condenser
          syncs,       \* syncChildList calls of a page that await a child
          made, events,
          refused      \* pages a write of which was over the quota

pageVars == <<requests, news, retries, list, childLists_, managers, syncs, made>>
vars == <<stored, writer, pageVars, events, refused>>

-----------------------------------------------------------------------------
(* Requests, and what the area sends.  The top manager is number 0.        *)
Write(key, value, manager) == [op |-> "write", key |-> key, value |-> value, manager |-> manager]
Get(key, manager) == [op |-> "get", key |-> key, value |-> DEFAULT, manager |-> manager]
Changed(value) == [is |-> "changed", key |-> LIST, value |-> value, manager |-> 0]
Items(request, value) == [is |-> request.op, key |-> request.key, value |-> value, manager |-> request.manager]

(* A page, as the calls below change it.  A manager that is in no list is  *)
(* kept as long as it has something under way.                             *)
Page(p) == [list |-> list[p], children |-> childLists_[p], managers |-> managers[p],
            syncs |-> syncs[p], made |-> made[p], out |-> <<>>]

Busy(manager) == manager.cache # "ready" \/ manager.timer

(* A map with one more entry. *)
With(f, key, value) == [x \in DOMAIN f \cup {key} |-> IF x = key THEN value ELSE f[x]]

(* What of a queue of requests is a write. *)
Writes(queue) ==
  LET upTo[n \in 0..Len(queue)] ==
        IF n = 0 THEN <<>>
        ELSE IF queue[n].op = "write" THEN Append(upTo[n - 1], queue[n]) ELSE upTo[n - 1]
  IN upTo[Len(queue)]

Become(p, changed) ==
  \E page \in {changed} :
    /\ list' = [list EXCEPT ![p] = page.list]
    /\ childLists_' = [childLists_ EXCEPT ![p] = page.children]
    /\ managers' = [managers EXCEPT ![p] = Restrict(page.managers,
         {m \in DOMAIN page.managers : m \in Range(page.children) \/ Busy(page.managers[m])})]
    /\ syncs' = [syncs EXCEPT ![p] = page.syncs]
    /\ made' = [made EXCEPT ![p] = page.made]
    /\ requests' = [requests EXCEPT ![p] = @ \o page.out]

Send(page, request) == [page EXCEPT !.out = Append(@, request)]

(* initCache_ asks once for what is stored. *)
InitCache(page, m) ==
  IF page.managers[m].cache # "unread" THEN page
  ELSE Send([page EXCEPT !.managers[m].cache = "asked"], Get(page.managers[m].id, m))

(* set() or reset() of a profile's preference: setItems or removeItems of  *)
(* the condenser, which wait for initCache_ and then queue a write.        *)
Edit(page, m, value) ==
  LET edited == [page EXCEPT !.managers[m].value = value] IN
  IF page.managers[m].cache = "ready" THEN [edited EXCEPT !.managers[m].timer = TRUE]
  ELSE InitCache([edited EXCEPT !.managers[m].edited = TRUE], m)

NewManager(page, id) ==
  [page EXCEPT !.made = @ + 1,
               !.managers = With(@, page.made + 1, [id |-> id, value |-> DEFAULT, cache |-> "unread",
                                                    edited |-> FALSE, timer |-> FALSE])]

NewChild(page, id) == [NewManager(page, id) EXCEPT !.children = With(@, id, page.made + 1)]

Without(children, ids) == Restrict(children, DOMAIN children \ ids)

(* syncChildList, from ids on: every id gets a manager, each new one after *)
(* the one before has read its value, and then the managers that were      *)
(* there at the start and not in the list are dropped.  loading: readStorage *)
(* of the page waits for it.                                               *)
SyncFrom(page, ids, dropped, loading) ==
  LET missing == SelectInSeq(ids, LAMBDA id : id \notin DOMAIN page.children) IN
  IF missing = 0
  THEN [page EXCEPT !.children = Without(@, dropped)]
  ELSE LET new == NewChild(page, ids[missing]) IN
       InitCache([new EXCEPT !.syncs = @ \cup {[manager |-> new.made, dropped |-> dropped, loading |-> loading,
                                                ids |-> SubSeq(ids, missing + 1, Len(ids))]}], new.made)

SyncChildList(page, loading) ==
  SyncFrom(page, page.list, DOMAIN page.children \ Range(page.list), loading)

(* The list takes a value, and its observer hears of it if that is new. *)
ListBecomes(page, ids, loading) ==
  IF ids = page.list THEN page ELSE SyncChildList([page EXCEPT !.list = ids], loading)

(* set() of the list: remembered, saved, and noticed. *)
SetList(page, ids) ==
  IF ids = page.list THEN page ELSE ListBecomes(Send(page, Write(LIST, ids, 0)), ids, FALSE)

ResetChild(page, id) == Edit(page, page.children[id], DEFAULT)

AddChild(page, id) == SetList(ResetChild(NewChild(page, id), id), Append(page.list, id))

DropChild(page, id) ==
  LET reset == SetList(ResetChild(page, id), RemoveFirst(page.list, id))
  IN [reset EXCEPT !.children = Without(@, {id})]

-----------------------------------------------------------------------------
(* What a page does. *)
Event == events < MaxEvents /\ events' = events + 1

(* The page is shown when its readStorage has ended. *)
Shown(p) ==
  /\ \A i \in DOMAIN requests[p] : requests[p][i] # Get(LIST, 0)
  /\ \A i \in DOMAIN news[p] : ~(news[p][i].is = "get" /\ news[p][i].key = LIST)
  /\ \A sync \in syncs[p] : ~sync.loading

(* The user types into the form of a profile: set() of the child. *)
Set(p, id, value) ==
  /\ Event /\ Shown(p) /\ id \in DOMAIN childLists_[p]
  /\ managers[p][childLists_[p][id]].value # value
  /\ Become(p, Edit(Page(p), childLists_[p][id], value))
  /\ UNCHANGED <<stored, writer, news, retries, refused>>

CreateChild(p, id) ==
  /\ Event /\ Shown(p) /\ id \notin Range(list[p])
  /\ Become(p, AddChild(Page(p), id))
  /\ UNCHANGED <<stored, writer, news, retries, refused>>

RemoveChild(p, id) ==
  /\ Event /\ Shown(p) /\ id \in DOMAIN childLists_[p]
  /\ Become(p, DropChild(Page(p), id))
  /\ UNCHANGED <<stored, writer, news, retries, refused>>

(* importFromJson of a backup with one profile, by a manager made for it   *)
(* that reads nothing: it resets the list, makes the profile's manager,    *)
(* resets and sets it, and saves the list.  Nothing is awaited before that. *)
ImportFromJson(p, id, value) ==
  /\ Event
  /\ LET new == NewManager(Send(Page(p), Write(LIST, DEFAULT, 0)), id) IN
     Become(p, Send(Edit(new, new.made, value), Write(LIST, <<id>>, 0)))
  /\ UNCHANGED <<stored, writer, news, retries, refused>>

(* The page is closed with what it has in mind, and opened again: a new    *)
(* manager, which calls readStorage.  made goes on, so that what the old   *)
(* page sent is not taken for the new one's.                               *)
Load(p) ==
  /\ Event
  /\ list' = [list EXCEPT ![p] = DEFAULT] /\ childLists_' = [childLists_ EXCEPT ![p] = <<>>]
  /\ managers' = [managers EXCEPT ![p] = <<>>] /\ syncs' = [syncs EXCEPT ![p] = {}]
  /\ requests' = [requests EXCEPT ![p] = Append(Writes(@), Get(LIST, 0))]
  /\ news' = [news EXCEPT ![p] = <<>>] /\ retries' = [retries EXCEPT ![p] = {}]
  /\ UNCHANGED <<stored, writer, made, refused>>

(* The condenser's timer: everything it has in memory is written. *)
OnSyncTimer(p) ==
  /\ \E m \in DOMAIN managers[p] :
       /\ managers[p][m].timer
       /\ Become(p, Send([Page(p) EXCEPT !.managers[m].timer = FALSE],
                         Write(managers[p][m].id, managers[p][m].value, m)))
  /\ UNCHANGED <<stored, writer, news, retries, events, refused>>

-----------------------------------------------------------------------------
(* Mutation of OnStorageChange: a change without a new value, which is a   *)
(* removed key, is taken for none.                                         *)
OnStorageChangeOfValues(p) ==
  /\ news[p] # <<>> /\ Head(news[p]).is = "changed"
  /\ LET ids == Head(news[p]).value IN
     Become(p, IF ids = DEFAULT THEN Page(p) ELSE ListBecomes(Page(p), ids, FALSE))
  /\ news' = [news EXCEPT ![p] = Tail(@)]
  /\ UNCHANGED <<stored, writer, retries, events, refused>>

(* onStorageChange_ of the top manager: the list has changed. *)
OnStorageChange(p) ==
  /\ news[p] # <<>> /\ Head(news[p]).is = "changed"
  /\ Become(p, ListBecomes(Page(p), Head(news[p]).value, FALSE))
  /\ news' = [news EXCEPT ![p] = Tail(@)]
  /\ UNCHANGED <<stored, writer, retries, events, refused>>

(* readStorage goes on with the items: only those that are stored count. *)
ReadList(p) ==
  /\ news[p] # <<>> /\ Head(news[p]).is = "get" /\ Head(news[p]).key = LIST
  /\ LET ids == Head(news[p]).value IN
     Become(p, IF ids = DEFAULT THEN Page(p) ELSE ListBecomes(Page(p), ids, TRUE))
  /\ news' = [news EXCEPT ![p] = Tail(@)]
  /\ UNCHANGED <<stored, writer, retries, events, refused>>

(* A condenser has what is stored: what waited for it is done, though the  *)
(* manager may have been dropped since, and the syncChildList that waits   *)
(* for the child goes on.                                                  *)
CacheIsRead(p) ==
  /\ news[p] # <<>> /\ Head(news[p]).is = "get" /\ Head(news[p]).key # LIST
  /\ LET new == Head(news[p])
         m == new.manager
         manager == managers[p][m]
         page == [Page(p) EXCEPT !.managers[m] =
                    [manager EXCEPT !.cache = "ready", !.edited = FALSE, !.timer = manager.edited,
                                    !.value = IF manager.edited THEN @ ELSE new.value]]
         waits == {sync \in syncs[p] : sync.manager = m}
     IN IF waits = {} THEN Become(p, page)
        ELSE \E sync \in waits :
               Become(p, SyncFrom([page EXCEPT !.syncs = @ \ {sync}], sync.ids, sync.dropped, sync.loading))
  /\ news' = [news EXCEPT ![p] = Tail(@)]
  /\ UNCHANGED <<stored, writer, retries, events, refused>>

(* retryQuotaErrors: a second later the same write again, after those that *)
(* have been made meanwhile.                                               *)
Retry(p) ==
  \E write \in retries[p] :
    /\ retries' = [retries EXCEPT ![p] = @ \ {write}]
    /\ requests' = [requests EXCEPT ![p] = Append(@, write)]
    /\ UNCHANGED <<stored, writer, news, list, childLists_, managers, syncs, made, events, refused>>

-----------------------------------------------------------------------------
(* chrome.storage: takes the requests of a page in order, answers a get,   *)
(* refuses a write over the quota, and reports a change to all.  Changes   *)
(* of a profile's key concern no observer.                                 *)
Answer(p) ==
  /\ requests[p] # <<>> /\ Head(requests[p]).op = "get"
  /\ LET get == Head(requests[p]) IN
     news' = [news EXCEPT ![p] = Append(@, Items(get, stored[get.key]))]
  /\ requests' = [requests EXCEPT ![p] = Tail(@)]
  /\ UNCHANGED <<stored, writer, retries, list, childLists_, managers, syncs, made, events, refused>>

Store(p) ==
  /\ requests[p] # <<>> /\ Head(requests[p]).op = "write"
  /\ LET write == Head(requests[p]) IN
     /\ stored' = [stored EXCEPT ![write.key] = write.value]
     /\ writer' = IF write.key = LIST THEN writer ELSE [writer EXCEPT ![write.key] = <<p, write.manager>>]
     /\ news' = IF write.key # LIST \/ stored[LIST] = write.value THEN news
                ELSE [page \in Pages |-> Append(news[page], Changed(write.value))]
  /\ requests' = [requests EXCEPT ![p] = Tail(@)]
  /\ UNCHANGED <<retries, list, childLists_, managers, syncs, made, events, refused>>

Refuse(p) ==
  /\ Event
  /\ requests[p] # <<>> /\ Head(requests[p]).op = "write"
  /\ retries' = [retries EXCEPT ![p] = @ \cup {Head(requests[p])}]
  /\ requests' = [requests EXCEPT ![p] = Tail(@)]
  /\ refused' = refused \cup {p}
  /\ UNCHANGED <<stored, writer, news, list, childLists_, managers, syncs, made>>

-----------------------------------------------------------------------------
(* One profile is stored, and every page has read it. *)
Init ==
  LET first == CHOOSE id \in Ids : TRUE IN
  /\ stored = [key \in {LIST} \cup Ids |-> IF key = LIST THEN <<first>> ELSE DEFAULT]
  /\ writer = [id \in Ids |-> <<>>] /\ refused = {} /\ events = 0
  /\ requests = [p \in Pages |-> <<>>] /\ news = [p \in Pages |-> <<>>] /\ retries = [p \in Pages |-> {}]
  /\ list = [p \in Pages |-> <<first>>] /\ syncs = [p \in Pages |-> {}]
  /\ childLists_ = [p \in Pages |-> [id \in {first} |-> 1]] /\ made = [p \in Pages |-> 1]
  /\ managers = [p \in Pages |-> [m \in {1} |-> [id |-> first, value |-> DEFAULT, cache |-> "ready",
                                                   edited |-> FALSE, timer |-> FALSE]]]

UserNext == \E p \in Pages : \/ Load(p)
                             \/ \E id \in Ids : CreateChild(p, id) \/ RemoveChild(p, id)
                             \/ \E id \in Ids, v \in Values : ImportFromJson(p, id, <<v>>)
                             \/ \E id \in Ids, value \in {<<v>> : v \in Values} \cup {DEFAULT} : Set(p, id, value)

HearNews(p) == OnStorageChange(p) \/ ReadList(p) \/ CacheIsRead(p)
Serve(p) == Answer(p) \/ Store(p)
TimerFires(p) == Retry(p) \/ OnSyncTimer(p)

(* The area serves every page, pages hear what they are sent, and timers   *)
(* fire; nobody need edit, and the quota need not be exceeded.             *)
GoOn == \E p \in Pages : Serve(p) \/ HearNews(p) \/ TimerFires(p)
Next == UserNext \/ GoOn \/ \E p \in Pages : Refuse(p)
Fairness == WF_vars(GoOn)
Spec == Init /\ [][Next]_vars /\ Fairness

-----------------------------------------------------------------------------
TypeOK == /\ stored[LIST] \in Seq(Ids) /\ \A id \in Ids : Len(stored[id]) \leq 1
          /\ \A p \in Pages :
               /\ list[p] \in Seq(Ids) /\ DOMAIN managers[p] \subseteq 1..made[p]
               /\ \A id \in DOMAIN childLists_[p] : managers[p][childLists_[p][id]].id = id

(* A page that has nothing under way: no request, answer, retry or timer. *)
Quiet(p) == /\ requests[p] = <<>> /\ news[p] = <<>> /\ retries[p] = {}
            /\ \A m \in DOMAIN managers[p] : ~Busy(managers[p][m])

(* A page that has nothing under way has the stored list, whichever page   *)
(* wrote it and in whatever order writes, changes and answers crossed; and *)
(* a profile it was the last to write is stored as it shows it, unless a   *)
(* write of the page was put off (lib_preference_manager.js,               *)
(* onStorageChange_; lib_storage_condenser.js, queueWriteSync_).           *)
PagesSeeWhatIsStored ==
  \A p \in Pages : Quiet(p) =>
    /\ list[p] = stored[LIST]
    /\ p \notin refused =>
         \A m \in DOMAIN managers[p] : LET manager == managers[p][m] IN
           writer[manager.id] = <<p, m>> => stored[manager.id] = manager.value

(* All the pages have heard and written everything, and no synchronisation *)
(* is left waiting for a child's value.                                    *)
AllQuiet == \A p \in Pages : Quiet(p) /\ syncs[p] = {}

(* A page that has nothing under way has the managers of its list: "This   *)
(* will instantiate any missing managers ... Any active managers that no   *)
(* longer appear in preferences will be deleted."                          *)
ManagersAreListed ==
  \A p \in Pages : Quiet(p) => DOMAIN childLists_[p] = Range(list[p])
=============================================================================
