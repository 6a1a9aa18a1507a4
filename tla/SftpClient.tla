----------------------------- MODULE SftpClient ------------------------------
(***************************************************************************)
(* The SFTP client of nassh (nassh_sftp_client.js): packets cut out of the *)
(* program's output, requests matched with replies by their ids, and files *)
(* read chunk by chunk, the next chunk being asked for while the caller    *)
(* still works on this one.  Promises settled by one piece of output run   *)
(* their handlers before the next piece.  The server answers the requests  *)
(* in any order; a packet is three units long, two of them its length.     *)
(***************************************************************************)
EXTENDS Integers, Sequences, FiniteSets

CONSTANTS
  Transfers,      \* the readFile()s the user starts
  FileSize,       \* bytes in each file
  readChunkSize,
  MaxAsks,        \* bound: other requests made
  Lengths,        \* bytes a readFile may ask for; Whole is the whole file
  LIMITS          \* may the server have limits@openssh.com?

Whole == -1
HeaderUnits == 2
InitId == -1     \* "init" as an id
Success == 0     \* the reply asked for, or of a read the end of the file
Waiting == -2
Failure == -1    \* of the handshake, another version
SftpAssumption ==
  /\ FileSize \in Nat /\ readChunkSize \in Nat \ {0} /\ MaxAsks \in Nat
  /\ Lengths \subseteq Nat \cup {Whole} /\ LIMITS \in BOOLEAN

VARIABLES
  isInitialised,
  initConnection,     \* what initConnection() has come to: "pending", "ok", "failed"
  requestId_,
  pendingRequests_,   \* the requests not answered, by id
  asks,               \* the other requests made: the answer to each, or Waiting
  server,             \* ids of requests the server has still to answer
  output,             \* units of the server's packets, not yet received
  buffer_,            \* units received and not parsed
  pendingMessageSize_,\* has the length of the next packet been read?
  parsing,            \* is writeStreamData's loop running?
  resolved,           \* promises settled, their handlers not run: requests and replies
  stage,              \* of each transfer: "none", "open", "read", "close", "done", "failed"
  length,             \* what each has to read
  offset,             \* what each has read
  canceled,
  callbacks,          \* of each transfer, how its callbacks stand: "running", "ok", "false", "threw"
  given,              \* the bytes each callback was given
  last                \* what the newest of its chunks came to: "asked", "end", "error"

connection == <<isInitialised, initConnection, requestId_, pendingRequests_, server>>
incoming == <<output, buffer_, pendingMessageSize_, parsing, resolved>>
transfer == <<stage, length, offset, canceled, callbacks, given, last, asks>>
vars == <<connection, incoming, transfer>>

Ids == DOMAIN pendingRequests_
None == <<>>
Lower(a, b) == IF a < b THEN a ELSE b

Init ==
  /\ isInitialised = FALSE /\ initConnection = "pending" /\ requestId_ = 0 /\ server = {InitId} /\ asks = None
  /\ pendingRequests_ = [i \in {InitId} |-> [op |-> "INIT"]]
  /\ output = None /\ buffer_ = None /\ pendingMessageSize_ = FALSE /\ parsing = FALSE
  /\ resolved = None
  /\ stage = [t \in Transfers |-> "none"] /\ length = [t \in Transfers |-> Whole]
  /\ offset = [t \in Transfers |-> 0] /\ canceled = [t \in Transfers |-> FALSE]
  /\ callbacks = [t \in Transfers |-> None] /\ given = [t \in Transfers |-> None]
  /\ last = [t \in Transfers |-> "asked"]

-----------------------------------------------------------------------------
NextId == requestId_ + 1

(* sendRequest_. *)
SendRequest(request) ==
  /\ pendingRequests_' =
       [i \in Ids \cup {requestId_} |-> IF i = requestId_ THEN request ELSE pendingRequests_[i]]
  /\ server' = server \cup {requestId_} /\ requestId_' = NextId
  /\ UNCHANGED <<isInitialised, initConnection>>

(* No piece of output is being handled. *)
Idle == ~parsing /\ resolved = None

(* The program's output: one reply, of any request; a read gets from one   *)
(* byte to what it asked for.                                              *)
Replies(request) ==
  IF request.op = "READ" /\ request.offset < FileSize
  THEN {Failure} \cup 1..Lower(request.len, FileSize - request.offset)
  ELSE {Success, Failure}

ServerReplies(id) ==
  /\ Idle /\ id \in server
  /\ server' = server \ {id}
  /\ \E reply \in Replies(pendingRequests_[id]) :
       output' = output \o [n \in 1..HeaderUnits + 1 |-> [id |-> id, reply |-> reply, unit |-> n]]
  /\ UNCHANGED <<isInitialised, initConnection, requestId_, pendingRequests_, buffer_, pendingMessageSize_,
                 parsing, resolved, transfer>>

(* writeStreamData: any number of units. *)
WriteStreamData ==
  /\ Idle
  /\ \E n \in 1..Len(output) :
       /\ buffer_' = buffer_ \o SubSeq(output, 1, n)
       /\ output' = SubSeq(output, n + 1, Len(output))
  /\ parsing' = TRUE
  /\ UNCHANGED <<connection, pendingMessageSize_, resolved, transfer>>

(* onPacket: the promise of the request with this id is settled. *)
OnPacket(packet) ==
  /\ resolved' = Append(resolved, [request |-> pendingRequests_[packet.id], reply |-> packet.reply])
  /\ pendingRequests_' = [i \in Ids \ {packet.id} |-> pendingRequests_[i]]

(* One round of the loop. *)
ParseBuffer ==
  /\ parsing
  /\ LET header == IF pendingMessageSize_ THEN 0 ELSE HeaderUnits
     IN  \/ /\ Len(buffer_) > header
            /\ OnPacket(buffer_[header + 1])
            /\ buffer_' = SubSeq(buffer_, header + 2, Len(buffer_))
            /\ pendingMessageSize_' = FALSE /\ UNCHANGED parsing
         \/ /\ Len(buffer_) = header
            /\ buffer_' = None /\ pendingMessageSize_' = TRUE /\ parsing' = FALSE
            /\ UNCHANGED <<pendingRequests_, resolved>>
         \/ /\ Len(buffer_) < header /\ parsing' = FALSE
            /\ UNCHANGED <<pendingRequests_, resolved, buffer_, pendingMessageSize_>>
  /\ UNCHANGED <<isInitialised, initConnection, requestId_, server, output, transfer>>

-----------------------------------------------------------------------------
(* The handlers of a settled promise. *)
Settled(op) == ~parsing /\ resolved # None /\ Head(resolved).request.op = op
Reply == Head(resolved).reply
Taken == resolved' = Tail(resolved) /\ UNCHANGED <<output, buffer_, pendingMessageSize_, parsing>>

Becomes(variable, t, value) == [variable EXCEPT ![t] = value]

(* init: another version ends it; the limits are asked for if the server   *)
(* has them, and only with them is initConnection() over.                  *)
OnVersion ==
  /\ Settled("INIT") /\ Taken /\ UNCHANGED transfer
  /\ \/ /\ Reply = Failure /\ initConnection' = "failed"
        /\ UNCHANGED <<isInitialised, requestId_, pendingRequests_, server>>
     \/ /\ Reply = Success /\ isInitialised' = TRUE
        /\ IF LIMITS
           THEN /\ pendingRequests_' = [i \in {requestId_} |-> [op |-> "LIMITS"]]
                /\ server' = {requestId_} /\ requestId_' = NextId /\ UNCHANGED initConnection
           ELSE initConnection' = "ok" /\ UNCHANGED <<pendingRequests_, server, requestId_>>

OnLimits ==
  /\ Settled("LIMITS") /\ Taken
  /\ initConnection' = IF Reply = Success THEN "ok" ELSE "failed"
  /\ UNCHANGED <<isInitialised, requestId_, pendingRequests_, server, transfer>>

(* Any operation of one request: fileStatus, makeDirectory, removeFile,    *)
(* renameFile, realPath, statvfs and so on.                                *)
Ask ==
  /\ Idle /\ initConnection = "ok" /\ Len(asks) < MaxAsks
  /\ SendRequest([op |-> "ASK", t |-> Len(asks) + 1])
  /\ asks' = Append(asks, Waiting)
  /\ UNCHANGED <<incoming, stage, length, offset, canceled, callbacks, given, last>>

(* isExpectedResponse_, isSuccessResponse_: anything else is thrown. *)
OnAsk ==
  /\ Settled("ASK") /\ Taken
  /\ asks' = [asks EXCEPT ![Head(resolved).request.t] = Reply]
  /\ UNCHANGED <<connection, stage, length, offset, canceled, callbacks, given, last>>

(* readFile(path, callback, 0, length), of a user who was told that the    *)
(* connection is there.                                                    *)
ReadFile(t) ==
  /\ Idle /\ initConnection = "ok"
  /\ stage[t] = "none" /\ stage' = Becomes(stage, t, "open")
  /\ \E n \in Lengths : length' = Becomes(length, t, n)
  /\ SendRequest([op |-> "OPEN", t |-> t])
  /\ UNCHANGED <<incoming, offset, canceled, callbacks, given, last, asks>>

(* doRead with what has been read being at: whether there is one, and it.  *)
Wanted(t, at) == length[t] = Whole \/ at < length[t]
Read(t, at) ==
  [op |-> "READ", t |-> t, offset |-> at,
   len |-> IF length[t] = Whole THEN readChunkSize ELSE Lower(readChunkSize, length[t] - at)]
DoRead(t, at) ==
  IF Wanted(t, at) THEN SendRequest(Read(t, at)) /\ last' = Becomes(last, t, "asked")
  ELSE UNCHANGED connection /\ last' = Becomes(last, t, "end")

OnOpen ==
  /\ Settled("OPEN") /\ Taken
  /\ LET t == Head(resolved).request.t
     IN  IF Reply = Failure
         THEN stage' = Becomes(stage, t, "failed") /\ UNCHANGED <<connection, last>>
         ELSE stage' = Becomes(stage, t, "read") /\ DoRead(t, 0)
  /\ UNCHANGED <<length, offset, canceled, callbacks, given, asks>>

(* Mutations of ProcessChunk: every chunk is taken for a full one; the     *)
(* caller is told although it has canceled.                                *)
ProcessChunkFull(t, n) ==
  /\ offset' = Becomes(offset, t, offset[t] + readChunkSize)
  /\ DoRead(t, offset[t] + readChunkSize)
  /\ callbacks' = Becomes(callbacks, t, Append(callbacks[t], "running"))
  /\ given' = Becomes(given, t, Append(given[t], <<Head(resolved).request.offset, n>>))

ProcessChunkAnyway(t, n) ==
  /\ offset' = Becomes(offset, t, offset[t] + n)
  /\ given' = Becomes(given, t, Append(given[t], <<Head(resolved).request.offset, n>>))
  /\ DoRead(t, offset[t] + n)
  /\ callbacks' = Becomes(callbacks, t, Append(callbacks[t], "running"))

(* processChunk with n bytes: the next chunk is asked for first. *)
ProcessChunk(t, n) ==
  /\ offset' = Becomes(offset, t, offset[t] + n)
  /\ IF canceled[t]
     THEN last' = Becomes(last, t, "end") /\ UNCHANGED <<connection, callbacks, given>>
     ELSE /\ DoRead(t, offset[t] + n)
          /\ callbacks' = Becomes(callbacks, t, Append(callbacks[t], "running"))
          /\ given' = Becomes(given, t, Append(given[t], <<Head(resolved).request.offset, n>>))

OnRead ==
  /\ Settled("READ") /\ Taken
  /\ LET t == Head(resolved).request.t
     IN  IF Reply <= Success
         THEN /\ last' = Becomes(last, t, IF Reply = Success THEN "end" ELSE "error")
              /\ UNCHANGED <<connection, offset, callbacks, given>>
         ELSE ProcessChunk(t, Reply)
  /\ UNCHANGED <<stage, length, canceled, asks>>

(* A callback returns: at once, or when its promise is settled.            *)
CallbackEnds(t, n, how) ==
  /\ ~parsing /\ callbacks[t][n] = "running"
  /\ callbacks' = [callbacks EXCEPT ![t][n] = how]
  /\ canceled' = Becomes(canceled, t, canceled[t] \/ how = "false")
  /\ UNCHANGED <<connection, incoming, stage, length, offset, given, last, asks>>

(* What readChunks() has come to: each chunk's promise is settled by its   *)
(* callback if that fails, and else by the next chunk's.                   *)
Outcome(t) ==
  LET bad == {n \in DOMAIN callbacks[t] : callbacks[t][n] # "ok"}
  IN  IF bad = {} THEN last[t]
      ELSE IF callbacks[t][CHOOSE n \in bad : \A m \in bad : n <= m] = "running" THEN "asked" ELSE "error"

(* Mutation of CloseFile: a file is not closed after an error. *)
CloseFileThen(t) ==
  /\ ~parsing /\ stage[t] = "read" /\ Outcome(t) = "end"
  /\ stage' = Becomes(stage, t, "close")
  /\ SendRequest([op |-> "CLOSE", t |-> t])
  /\ UNCHANGED <<incoming, length, offset, canceled, callbacks, given, last, asks>>

(* readFile's finally. *)
CloseFile(t) ==
  /\ ~parsing /\ stage[t] = "read" /\ Outcome(t) # "asked"
  /\ stage' = Becomes(stage, t, "close")
  /\ SendRequest([op |-> "CLOSE", t |-> t])
  /\ UNCHANGED <<incoming, length, offset, canceled, callbacks, given, last, asks>>

OnClose ==
  /\ Settled("CLOSE") /\ Taken
  /\ LET t == Head(resolved).request.t
     IN  stage' = Becomes(stage, t, IF Reply = Success /\ Outcome(t) = "end" THEN "done" ELSE "failed")
  /\ UNCHANGED <<connection, length, offset, canceled, callbacks, given, last, asks>>

Callback(t) == \E n \in DOMAIN callbacks[t], how \in {"ok", "false", "threw"} : CallbackEnds(t, n, how)
Handlers == ParseBuffer \/ OnVersion \/ OnLimits \/ OnAsk \/ OnOpen \/ OnRead \/ OnClose
Server == \E id \in server : ServerReplies(id)

Next ==
  \/ Handlers \/ Server \/ WriteStreamData \/ Ask
  \/ \E t \in Transfers : ReadFile(t) \/ Callback(t) \/ CloseFile(t)

(* The server answers, its answers arrive, handlers run, and a caller's    *)
(* callback ends.                                                          *)
Fairness ==
  /\ WF_vars(Handlers) /\ WF_vars(Server) /\ WF_vars(WriteStreamData)
  /\ \A t \in Transfers : WF_vars(Callback(t)) /\ WF_vars(CloseFile(t))

Spec == Init /\ [][Next]_vars /\ Fairness

-----------------------------------------------------------------------------
(* Every variable has its type. *)
TypeOK ==
  /\ isInitialised \in BOOLEAN /\ initConnection \in {"pending", "ok", "failed"} /\ asks \in Seq(Waiting..Success)
  /\ pendingMessageSize_ \in BOOLEAN /\ parsing \in BOOLEAN
  /\ requestId_ \in Nat /\ Ids \subseteq InitId..requestId_ /\ server \subseteq Ids
  /\ buffer_ \in Seq([id : Ids, reply : Failure..FileSize, unit : 1..HeaderUnits + 1])
  /\ stage \in [Transfers -> {"none", "open", "read", "close", "done", "failed"}]
  /\ \A t \in Transfers : callbacks[t] \in Seq({"running", "ok", "false", "threw"})

(* What the callbacks of a transfer are given is the file from its start,  *)
(* without a gap, a repetition or a byte beyond the length asked for,      *)
(* however short the server's chunks are, although a chunk is asked for    *)
(* before the one before it is dealt with; all of it if the read succeeds. *)
ChunksInOrder ==
  \A t \in Transfers :
    /\ \A n \in DOMAIN given[t] :
         given[t][n][1] = IF n = 1 THEN 0 ELSE given[t][n - 1][1] + given[t][n - 1][2]
    /\ given[t] # None =>
         LET end == given[t][Len(given[t])]
         IN  length[t] # Whole => end[1] + end[2] <= length[t]
    /\ stage[t] = "done" =>
         offset[t] = IF length[t] = Whole THEN FileSize ELSE Lower(length[t], FileSize)

(* No packet that has arrived lies in the buffer once its output has been  *)
(* handled: nothing waits for the next output to be noticed.               *)
NoPacketLeft ==
  Idle => Len(buffer_) <= (IF pendingMessageSize_ THEN 0 ELSE HeaderUnits - 1)

(* "Whether the callback has canceled further reads": no callback is       *)
(* called after one has returned false.                                    *)
NothingAfterCancel ==
  [][\A t \in Transfers : canceled[t] => Len(callbacks'[t]) = Len(callbacks[t])]_vars

(* Whatever becomes of a read, its file is closed and its caller is told;  *)
(* every other request is answered too, and so is initConnection().        *)
RequestsEnd ==
  /\ initConnection = "pending" ~> initConnection # "pending"
  /\ \A t \in Transfers : stage[t] = "open" ~> stage[t] \in {"done", "failed"}
  /\ \A n \in 1..MaxAsks :
       Len(asks) >= n ~> \E m \in DOMAIN asks : m = n /\ asks[m] # Waiting

=============================================================================
