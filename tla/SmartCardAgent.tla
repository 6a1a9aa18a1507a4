---------------------------- MODULE SmartCardAgent ---------------------------
(***************************************************************************)
(* The ssh agent of the page (nassh_agent.js) with its smart card back end *)
(* (nassh_agent_backend_gsc.js) and the PIN cache                          *)
(* (lib_credential_cache.js).  Every program and every forwarded channel   *)
(* has a connection of its own to the one agent; one step is what runs     *)
(* between two awaits.  A key is named by the reader that holds it.        *)
(***************************************************************************)
EXTENDS Naturals, FiniteSets, Functions

CONSTANTS
  Conns,        \* connections, positive numbers
  Readers,      \* readers, each with a card
  Pins,         \* PINs a card may have
  MaxTries,     \* wrong PINs in a row that block a card
  MaxRequests,  \* bound: requests of all connections
  MaxEvents     \* bound: screen locks and uses of a card elsewhere

VARIABLES
  q,        \* connection -> the request being served
  agent,    \* identityToBackendID_ and keyBlobToReader_
  cards,    \* reader -> its card
  cache,    \* the CredentialCache
  io,       \* terminal_.io and the previousIO_ of each prompt
  left,     \* requests and events still to come
  made      \* AES keys made so far

vars == <<q, agent, cards, cache, io, left, made>>

None == "none"
NoMap == <<>>
Short == "short"   \* what a user may type that is refused unseen
Idle == [pc |-> "idle", reader |-> None, pin |-> None, tried |-> FALSE, cached |-> FALSE, key |-> 0,
         found |-> {}, todo |-> {}]
Empty == [r \in Readers |-> [pin |-> None, key |-> 0]]

TypeOK ==
  /\ \A c \in Conns : q[c].pc \in {"idle", "list", "connect", "unlock", "retrieve", "prompt", "verify",
                                   "verified", "ask", "store", "encrypt", "sign"}
  /\ agent.identityToBackendID_ \subseteq Readers /\ agent.keyBlobToReader_ \subseteq Readers
  /\ \A r \in Readers : cards[r].tries \in 0..MaxTries /\ cards[r].held \in Conns \cup {0}
  /\ cache.enabled_ \in {"null", "true", "false"}
  /\ io.top \in Conns \cup {0}

Init ==
  /\ q = [c \in Conns |-> Idle]
  /\ agent = [identityToBackendID_ |-> {}, keyBlobToReader_ |-> {}]
  /\ cards = [r \in Readers |-> [pin |-> CHOOSE p \in Pins : TRUE, tries |-> MaxTries, held |-> 0, refused |-> {}]]
  \* Only a forwarded agent may cache.
  /\ cache \in {[map |-> NoMap, key |-> 0, enabled_ |-> e] : e \in {"null", "false"}}
  /\ io = [top |-> 0, prev |-> [c \in Conns |-> 0]]
  /\ left = [requests |-> MaxRequests, events |-> MaxEvents]
  /\ made = 0

Goes(c, pc) == q' = [q EXCEPT ![c].pc = pc]
Card(c) == cards[q[c].reader]
Release(c) == [r \in Readers |-> IF cards[r].held = c THEN [cards[r] EXCEPT !.held = 0] ELSE cards[r]]

(* The reply, FAILURE for whatever was thrown; finally lets go of the card. *)
Reply(c) == q' = [q EXCEPT ![c] = Idle] /\ cards' = Release(c)
Fail(c) == Reply(c) /\ UNCHANGED cache

(* UserIO.promptUser pushes an IO of its own and pops it when answered. *)
Push(c) == io' = [io EXCEPT !.prev[c] = io.top, !.top = c]
Pop(c) == io' = [io EXCEPT !.top = io.prev[c]]

RequestIdentities(c) ==
  /\ q[c].pc = "idle" /\ left.requests > 0
  /\ left' = [left EXCEPT !.requests = @ - 1]
  /\ agent' = [agent EXCEPT !.identityToBackendID_ = {}]
  /\ q' = [q EXCEPT ![c] = [Idle EXCEPT !.pc = "list", !.todo = Readers]]
  /\ UNCHANGED <<cards, cache, io, made>>

(* requestReaderIdentities_: a reader that somebody else uses, or whose     *)
(* card is blocked or unreadable, is skipped.                              *)
ListReader(c) ==
  \E r \in q[c].todo :
    /\ q[c].pc = "list"
    /\ \/ cards[r].held = 0 /\ cards' = [cards EXCEPT ![r].held = c] /\ UNCHANGED q
       \/ /\ cards[r].held # 0
          /\ \E ok \in BOOLEAN :
               /\ ok => cards[r].held = c /\ cards[r].tries > 0
               /\ q' = [q EXCEPT ![c].todo = @ \ {r}, ![c].found = @ \cup (IF ok THEN {r} ELSE {})]
          /\ cards' = IF cards[r].held = c THEN [cards EXCEPT ![r].held = 0] ELSE cards
    /\ UNCHANGED <<agent, cache, io, left, made>>

ListEnds(c) ==
  /\ q[c].pc = "list" /\ q[c].todo = {}
  /\ agent' = [identityToBackendID_ |-> agent.identityToBackendID_ \cup q[c].found,
               keyBlobToReader_ |-> q[c].found]
  /\ Reply(c)
  /\ UNCHANGED <<cache, io, left, made>>

SignRequest(c, r) ==
  /\ q[c].pc = "idle" /\ left.requests > 0
  /\ left' = [left EXCEPT !.requests = @ - 1]
  /\ IF r \in agent.identityToBackendID_ \cap agent.keyBlobToReader_
     THEN q' = [q EXCEPT ![c] = [Idle EXCEPT !.pc = "connect", !.reader = r]] ELSE UNCHANGED q
  /\ UNCHANGED <<agent, cards, cache, io, made>>

(* Cards are shared by nobody; flags, key or card may be unsupported. *)
Connect(c) ==
  /\ q[c].pc = "connect"
  /\ \/ Card(c).held = 0 /\ Goes(c, "unlock") /\ cards' = [cards EXCEPT ![q[c].reader].held = c] /\ UNCHANGED cache
     \/ Fail(c)
  /\ UNCHANGED <<agent, io, left, made>>

(* Mutation of TryCache: the last try is spent on the cache. *)
TryCacheAlways(c) == cache.enabled_ = "true" /\ ~q[c].tried

(* Only once, and only if it cannot block the card. *)
TryCache(c) == cache.enabled_ = "true" /\ ~q[c].tried /\ Card(c).tries > 1

(* init_: the empty map is there at once, the AES key comes later. *)
Init_(c, pc) == cache' = [cache EXCEPT !.map = Empty] /\ Goes(c, pc) /\ UNCHANGED <<cards, io>>

(* retrieve takes the entry out, to be put back when the card accepts it.   *)
Forget(map, r) == [map EXCEPT ![r] = Empty[r]]

Prompt(c) ==
  /\ q' = [q EXCEPT ![c].pc = "prompt", ![c].cached = FALSE, ![c].tried = @ \/ TryCache(c)]
  /\ Push(c) /\ UNCHANGED cards

(* retrieve with its map there: an entry of another AES key is an error.    *)
Retrieve(c, key) ==
  LET r == q[c].reader
      entry == cache.map[r]
  IN  IF entry.pin = None THEN Prompt(c) /\ cache' = [cache EXCEPT !.key = key]
      ELSE /\ cache' = [cache EXCEPT !.key = key, !.map = Forget(@, r)]
           /\ UNCHANGED io
           /\ IF entry.key # key THEN Reply(c)
              ELSE /\ q' = [q EXCEPT ![c].pc = "verify", ![c].pin = entry.pin, ![c].cached = TRUE, ![c].tried = TRUE]
                   /\ UNCHANGED cards

Unlock(c) ==
  /\ q[c].pc = "unlock"
  /\ IF ~TryCache(c) THEN Prompt(c) /\ UNCHANGED cache
     ELSE IF cache.map = NoMap THEN Init_(c, "retrieve")
     ELSE Retrieve(c, cache.key)
  /\ UNCHANGED <<agent, left, made>>

(* The AES key of init_ has come; the screen may have been locked since.    *)
KeyMade(c) ==
  /\ q[c].pc \in {"retrieve", "store"}
  /\ made' = made + 1
  /\ IF q[c].pc = "retrieve" /\ cache.map # NoMap THEN Retrieve(c, made')
     ELSE /\ cache' = [cache EXCEPT !.key = made']
          /\ UNCHANGED io
          /\ IF q[c].pc = "retrieve" THEN Reply(c)
             ELSE q' = [q EXCEPT ![c].pc = "encrypt", ![c].key = made'] /\ UNCHANGED cards
  /\ UNCHANGED <<agent, left>>

Answer(c) ==
  /\ q[c].pc = "prompt" /\ Pop(c)
  /\ \E p \in Pins \cup {Short} : q' = [q EXCEPT ![c].pc = "verify", ![c].pin = p]
  /\ UNCHANGED <<agent, cards, cache, left, made>>

Escape(c) ==
  /\ q[c].pc \in {"prompt", "ask"} /\ Pop(c) /\ Fail(c)
  /\ UNCHANGED <<agent, left, made>>

(* store, whose map init_ makes when there is none. *)
Store(c) ==
  IF cache.map = NoMap THEN Init_(c, "store")
  ELSE /\ IF cache.key = 0 THEN Reply(c)
          ELSE q' = [q EXCEPT ![c].pc = "encrypt", ![c].key = cache.key] /\ UNCHANGED cards
       /\ UNCHANGED <<cache, io>>

(* verifyPIN: an unusable PIN is refused unseen, a blocked card throws.     *)
VerifyPIN(c) ==
  /\ q[c].pc = "verify"
  /\ LET r == q[c].reader
     IN  IF q[c].pin = Short
         THEN Goes(c, "unlock") /\ UNCHANGED <<cards, cache, io>>
         ELSE IF Card(c).tries = 0 THEN Fail(c) /\ UNCHANGED io
         ELSE IF q[c].pin # Card(c).pin
         THEN /\ cards' = [cards EXCEPT ![r].tries = @ - 1, ![r].refused = IF q[c].cached THEN @ \cup {q[c].pin} ELSE @]
              /\ Goes(c, "unlock") /\ UNCHANGED <<cache, io>>
         ELSE /\ cards' = [cards EXCEPT ![r].tries = MaxTries]
              /\ Goes(c, "verified") /\ UNCHANGED <<cache, io>>
  /\ UNCHANGED <<agent, left, made>>

(* The user is asked once per session; only then is a PIN kept.             *)
Verified(c) ==
  /\ q[c].pc = "verified"
  /\ CASE cache.enabled_ = "null" -> Goes(c, "ask") /\ Push(c) /\ UNCHANGED <<cards, cache>>
       [] cache.enabled_ = "true" -> Store(c)
       [] cache.enabled_ = "false" -> Goes(c, "sign") /\ UNCHANGED <<cards, cache, io>>
  /\ UNCHANGED <<agent, left, made>>

(* setEnabled: the first decision stands. *)
Decide(c) ==
  /\ q[c].pc = "ask" /\ Pop(c)
  /\ \E e \in {"true", "false"} :
       cache' = [cache EXCEPT !.enabled_ = IF @ = "null" THEN e ELSE @]
  /\ Goes(c, "verified")
  /\ UNCHANGED <<agent, cards, left, made>>

Encrypted(c) ==
  /\ q[c].pc = "encrypt"
  /\ IF cache.map = NoMap THEN Fail(c)
     ELSE /\ cache' = [cache EXCEPT !.map[q[c].reader] = [pin |-> q[c].pin, key |-> q[c].key]]
          /\ Goes(c, "sign") /\ UNCHANGED cards
  /\ UNCHANGED <<agent, io, left, made>>

(* authenticate: the signature, or an error, is the reply.                  *)
Authenticate(c) ==
  /\ q[c].pc = "sign" /\ Fail(c)
  /\ UNCHANGED <<agent, io, left, made>>

(* The card is taken out or the connector goes away while it is asked.      *)
CardFails(c) ==
  /\ q[c].pc \in {"unlock", "verify"} /\ Fail(c)
  /\ UNCHANGED <<agent, io, left, made>>

(* clear_, when the screen is locked. *)
ScreenLocks ==
  /\ left.events > 0
  /\ left' = [left EXCEPT !.events = @ - 1]
  /\ cache' = [map |-> NoMap, key |-> 0, enabled_ |-> "null"]
  /\ UNCHANGED <<q, agent, cards, io, made>>

(* A card nobody here uses is used elsewhere: its PIN is changed, or some   *)
(* of its tries are spent or given back.                                   *)
UsedElsewhere ==
  /\ left.events > 0
  /\ left' = [left EXCEPT !.events = @ - 1]
  /\ \E r \in Readers, p \in Pins, n \in 0..MaxTries :
       /\ cards[r].held = 0
       /\ cards' = [cards EXCEPT ![r].pin = p, ![r].tries = n,
                                 ![r].refused = IF p = cards[r].pin THEN @ ELSE {}]
  /\ UNCHANGED <<q, agent, cache, io, made>>

Serve(c) ==
  \/ ListReader(c) \/ ListEnds(c) \/ Connect(c) \/ Unlock(c) \/ KeyMade(c)
  \/ VerifyPIN(c) \/ Verified(c) \/ Encrypted(c) \/ Authenticate(c) \/ CardFails(c)
User(c) == Answer(c) \/ Escape(c) \/ Decide(c)

Next ==
  \/ \E c \in Conns :
       Serve(c) \/ User(c) \/ RequestIdentities(c) \/ \E r \in Readers : SignRequest(c, r)
  \/ ScreenLocks \/ UsedElsewhere

Spec == Init /\ [][Next]_vars

-----------------------------------------------------------------------------
(* "Only try once and only if there is no chance we block the smart card":  *)
(* no PIN of the cache is the last wrong one a card accepts.                *)
CacheNeverBlocks ==
  [][\A c \in Conns :
       q[c].pc = "verify" /\ q[c].cached /\ q'[c].pc = "unlock" => cards'[q[c].reader].tries > 0]_vars

(* A PIN of the cache that its card has refused is not in the cache again,  *)
(* whatever the order in which connections, the user, other users of the    *)
(* card and the lock screen act.                                            *)
RefusedPinIsForgotten ==
  cache.map # NoMap => \A r \in Readers : cache.map[r].pin \notin cards[r].refused

=============================================================================
