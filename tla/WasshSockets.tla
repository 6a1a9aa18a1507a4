---------------------------- MODULE WasshSockets ----------------------------
(***************************************************************************)
(* A TCP connection and a listening socket of a program (wassh/js/         *)
(* sockets.js): the four back ends of a StreamSocket, the two of a         *)
(* listening one, and who waits for them: a read, an accept or a poll.     *)
(* The program makes one call at a time; bytes and clients are numbered in *)
(* the order they arrive.                                                  *)
(***************************************************************************)
EXTENDS Integers, Sequences

CONSTANTS MaxBytes, MaxClients   \* bounds: bytes and clients that arrive

Kinds == {"relay", "unix", "chrome", "web"}
(* Who may be in close(): the program's call, and pollData_ at the end of  *)
(* its stream.                                                             *)
Closers == {"program", "pollData_"}

VARIABLES
  kind,       \* RelaySocket, UnixSocket, Chrome* or Web* sockets
  program,    \* "running", "reading", "accepting", "polling" (asleep)
  received,   \* bytes that have arrived at the connection
  data,       \* of them, those not read
  got,        \* those read
  socket_,    \* is the connection's socket_ (callback_, socketId_) set?
  reader_,    \* is directSocketsReader_ set?
  writer_,    \* is directSocketsWriter_ set?
  pollData_,  \* the loop of a web socket: "reading", "closing", "ended"
  closers,    \* where each close() is: "none", what it awaits, "done", "threw"
  listening,  \* is the listening socket open?
  clients_,   \* its clients, not accepted
  arriving,   \* clients whose opened (web) is awaited, in order
  unpausing,  \* clients whose setPaused (chrome) is awaited
  arrived,    \* clients that have arrived
  accepted    \* clients given to the program

connection == <<received, data, got, socket_, reader_, writer_, pollData_, closers>>
listener == <<listening, clients_, arriving, unpausing, arrived, accepted>>
vars == <<kind, program, connection, listener>>

(* Connected, and listening if the back end can listen. *)
Init ==
  /\ kind \in Kinds
  /\ program = "running"
  /\ received = 0 /\ data = <<>> /\ got = <<>>
  /\ socket_ = TRUE /\ reader_ = (kind = "web") /\ writer_ = (kind = "web")
  /\ pollData_ = IF kind = "web" THEN "reading" ELSE "ended"
  /\ closers = [c \in Closers |-> "none"]
  /\ listening = (kind \in {"chrome", "web"})
  /\ clients_ = <<>> /\ arriving = <<>> /\ unpausing = {} /\ arrived = 0 /\ accepted = <<>>

-----------------------------------------------------------------------------
(* The connection. *)

(* receiveListener_: ends a poll that sleeps. *)
Awake(p) == IF p = "polling" THEN "running" ELSE p

(* Mutation of Wake: the reader is not told. *)
WakeForgetsReader(s) ==
  program' = Awake(program) /\ data' = s /\ got' = got

(* onRecv has made data s: a waiting reader takes it, a poll ends. *)
Wake(s) ==
  /\ program' = Awake(IF program = "reading" THEN "running" ELSE program)
  /\ IF program = "reading" THEN got' = got \o s /\ data' = <<>> ELSE got' = got /\ data' = s

(* Data for a socket that chrome's router still knows, or that pollData_   *)
(* reads; a relay's or an agent's stream may go on after close().          *)
OnRecv ==
  /\ received < MaxBytes
  /\ kind = "chrome" => socket_
  /\ kind = "web" => pollData_ = "reading" /\ reader_
  /\ received' = received + 1
  /\ Wake(Append(data, received + 1))
  /\ UNCHANGED <<kind, socket_, reader_, writer_, pollData_, closers, listener>>

(* read() with data; a closed web or unix socket has none to give. *)
Readable == ~(kind \in {"web", "unix"} /\ ~socket_)

Read ==
  /\ program = "running" /\ Readable
  /\ IF data = <<>> THEN program' = "reading" /\ UNCHANGED <<data, got>>
     ELSE data' = Tail(data) /\ got' = Append(got, Head(data)) /\ UNCHANGED program
  /\ UNCHANGED <<kind, received, socket_, reader_, writer_, pollData_, closers, listener>>

(* A relay's onClose: close() without anybody to tell. *)
OnClose ==
  /\ kind = "relay" /\ socket_
  /\ socket_' = FALSE
  /\ UNCHANGED <<kind, program, received, data, got, reader_, writer_, pollData_, closers, listener>>

(* The program's close(): at once, except for a web socket, whose          *)
(* reader, writer and socket are awaited in turn.                          *)
Close ==
  /\ program = "running" /\ socket_ /\ closers["program"] = "none"
  /\ IF kind # "web" THEN socket_' = FALSE /\ UNCHANGED closers
     ELSE UNCHANGED socket_ /\
          closers' = [closers EXCEPT !["program"] = IF reader_ THEN "cancel" ELSE IF writer_ THEN "abort" ELSE "close"]
  /\ UNCHANGED <<kind, program, received, data, got, reader_, writer_, pollData_, listener>>

(* The stream of a web socket ends: its peer has closed or failed, or the  *)
(* reader was cancelled.                                                   *)
StreamEnds ==
  /\ kind = "web" /\ pollData_ = "reading"
  /\ pollData_' = "closing"
  /\ closers' = [closers EXCEPT !["pollData_"] =
       IF ~socket_ THEN "done" ELSE IF reader_ THEN "cancel" ELSE IF writer_ THEN "abort" ELSE "close"]
  /\ UNCHANGED <<kind, program, received, data, got, socket_, reader_, writer_, listener>>

To(c, stage) == closers' = [closers EXCEPT ![c] = stage]

(* Mutation of AfterAbort: the writer is released twice. *)
AfterAbortStops(c) == To(c, "threw") /\ UNCHANGED writer_

(* The abort has ended: whoever comes second finds no writer and throws. *)
AfterAbort(c) ==
  IF writer_ THEN writer_' = FALSE /\ To(c, "close") ELSE To(c, "threw") /\ UNCHANGED writer_

(* Two close() at once: each await is followed by a use of what the other  *)
(* may have set to null.                                                   *)
CloseStep(c) ==
  /\ \/ /\ closers[c] = "cancel"
        /\ IF reader_ THEN reader_' = FALSE /\ To(c, IF writer_ THEN "abort" ELSE "close")
           ELSE To(c, "threw") /\ UNCHANGED reader_
        /\ UNCHANGED <<socket_, writer_>>
     \/ closers[c] = "abort" /\ AfterAbort(c) /\ UNCHANGED <<socket_, reader_>>
     \/ closers[c] = "close" /\ socket_' = FALSE /\ To(c, "done") /\ UNCHANGED <<reader_, writer_>>
  /\ UNCHANGED <<kind, program, received, data, got, pollData_, listener>>

(* pollData_ ends: the receiver is told, unless close() threw. *)
PollDataEnds ==
  /\ pollData_ = "closing" /\ closers["pollData_"] \in {"done", "threw"}
  /\ pollData_' = "ended"
  /\ program' = IF closers["pollData_"] = "done" THEN Awake(program) ELSE program
  /\ UNCHANGED <<kind, received, data, got, socket_, reader_, writer_, closers, listener>>

-----------------------------------------------------------------------------
(* The listening socket. *)

(* A client: chrome's onAccept, or the next one of pollConnection_. *)
Arrive ==
  /\ listening /\ arrived < MaxClients
  /\ arrived' = arrived + 1 /\ arriving' = Append(arriving, arrived + 1)
  /\ UNCHANGED <<kind, program, connection, listening, clients_, unpausing, accepted>>

(* The client is pushed, and callback_, if there is one, shifts one out.   *)
Push(client) ==
  IF program = "accepting"
  THEN /\ accepted' = Append(accepted, Head(Append(clients_, client))) /\ program' = "running"
       /\ clients_' = Tail(Append(clients_, client))
  ELSE clients_' = Append(clients_, client) /\ UNCHANGED <<accepted, program>>

(* Of a chrome socket, a poll is told of it only once it is unpaused; of a *)
(* web socket, at once, and it comes although its opened has failed.       *)
OnAccept ==
  /\ arriving # <<>>
  /\ arriving' = Tail(arriving)
  /\ \/ kind = "chrome" /\ Push(Head(arriving)) /\ unpausing' = unpausing \cup {Head(arriving)}
     \/ /\ kind = "web" /\ program # "polling" /\ Push(Head(arriving)) /\ UNCHANGED unpausing
     \/ /\ kind = "web" /\ program = "polling"
        /\ clients_' = Append(clients_, Head(arriving)) /\ program' = "running"
        /\ UNCHANGED <<accepted, unpausing>>
  /\ UNCHANGED <<kind, connection, listening, arrived>>

Unpaused(client) ==
  /\ client \in unpausing
  /\ unpausing' = unpausing \ {client}
  /\ program' = Awake(program)
  /\ UNCHANGED <<kind, connection, listening, clients_, arriving, arrived, accepted>>

Accept ==
  /\ program = "running" /\ listening
  /\ IF clients_ = <<>> THEN program' = "accepting" /\ UNCHANGED <<clients_, accepted>>
     ELSE /\ clients_' = Tail(clients_) /\ accepted' = Append(accepted, Head(clients_))
          /\ UNCHANGED program
  /\ UNCHANGED <<kind, connection, listening, arriving, unpausing, arrived>>

(* Its clients that were not accepted are forgotten. *)
CloseListener ==
  /\ program = "running" /\ listening
  /\ listening' = FALSE
  /\ UNCHANGED <<kind, program, connection, clients_, arriving, unpausing, arrived, accepted>>

(* The stream of clients of a web socket fails: it is closed, a poll ends. *)
ListenerEnds ==
  /\ kind = "web" /\ listening
  /\ listening' = FALSE /\ program' = Awake(program)
  /\ UNCHANGED <<kind, connection, clients_, arriving, unpausing, arrived, accepted>>

(* A poll for both with nothing to report goes to sleep. *)
Poll ==
  /\ program = "running" /\ data = <<>> /\ clients_ = <<>>
  /\ program' = "polling"
  /\ UNCHANGED <<kind, connection, listener>>

Next ==
  \/ OnRecv \/ Read \/ OnClose \/ Close \/ StreamEnds \/ PollDataEnds
  \/ \E c \in Closers : CloseStep(c)
  \/ Arrive \/ OnAccept \/ (\E n \in unpausing : Unpaused(n)) \/ Accept
  \/ CloseListener \/ ListenerEnds \/ Poll

(* Promises that the browser settles are settled, and their handlers run. *)
Fairness ==
  /\ WF_vars(\E c \in Closers : CloseStep(c)) /\ WF_vars(PollDataEnds)
  /\ WF_vars(OnAccept) /\ WF_vars(\E n \in unpausing : Unpaused(n))

Spec == Init /\ [][Next]_vars /\ Fairness

-----------------------------------------------------------------------------
(* Every variable has its type. *)
TypeOK ==
  /\ kind \in Kinds /\ program \in {"running", "reading", "accepting", "polling"}
  /\ received \in Nat /\ data \in Seq(Nat) /\ got \in Seq(Nat)
  /\ {socket_, reader_, writer_, listening} \subseteq BOOLEAN
  /\ pollData_ \in {"reading", "closing", "ended"}
  /\ closers \in [Closers -> {"none", "cancel", "abort", "close", "done", "threw"}]
  /\ arrived \in Nat /\ clients_ \in Seq(Nat) /\ arriving \in Seq(Nat) /\ accepted \in Seq(Nat)
  /\ unpausing \subseteq 1..arrived

(* Nobody waits for what is there: neither a read with data, nor an accept *)
(* with a client, nor a poll, unless its wake-up is on the way.            *)
NobodyWaitsInVain ==
  /\ program = "reading" => data = <<>>
  /\ program = "accepting" => clients_ = <<>>
  /\ program = "polling" => data = <<>> /\ (clients_ = <<>> \/ unpausing # {})

(* Clients are accepted once each, in the order they came, whether an      *)
(* accept waits for them, or several come at once, or they come first.     *)
ClientsInOrder == accepted \o clients_ \o arriving = [n \in 1..arrived |-> n]

(* What awaits ends: a web socket that begins to close is closed, though   *)
(* two close() may be at it and one of them throws, and a poll that sleeps *)
(* while a client is there wakes up.                                       *)
SocketAwaitsEnd ==
  /\ (\E c \in Closers : closers[c] \in {"cancel", "abort", "close"}) ~> ~socket_
  /\ program = "polling" /\ clients_ # <<>> ~> program # "polling"

=============================================================================
