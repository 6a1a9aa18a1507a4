------------------------------- MODULE SftpFsp -------------------------------
(***************************************************************************)
(* The file system provider (nassh_sftp_fsp.js): each request of the Files *)
(* app is a chain of SFTP requests, and a copy or a recursive removal many *)
(* chains at once.  The SFTP client sends a request at once; the server    *)
(* takes them in the order they come and answers in that order, as         *)
(* OpenSSH's does, and reuses the number of a handle that is closed.  An   *)
(* operation is a request of the Files app, or the copy or removal of one  *)
(* entry of a directory.                                                   *)
(***************************************************************************)
EXTENDS Integers, Sequences, FiniteSets

CONSTANTS
  Requests,      \* what the Files app may ask for
  Batches,       \* what a directory may have: sequences of "file", "empty", "link" and "dir"
  Chunks,        \* a file's size in chunks that the server can handle
  MaxRequests    \* bound: requests of the Files app

VARIABLE f       \* the operations, what is sent, the server's handles, openedFiles and the mount

ProviderAssumption ==
  /\ Requests \subseteq {"list", "open", "create", "truncate", "copy", "remove", "mkdir", "move", "stat", "write", "read", "close"}
  /\ \A batch \in Batches : batch \in Seq({"file", "empty", "link", "dir"})
  /\ Chunks \in Nat \ {0} /\ MaxRequests \in Nat

Handles == 1..(5 * MaxRequests)
Unopened == 0
Whole == [k \in 1..Chunks |-> k]
OfFiles == {"write", "read", "close"}   \* asked about a file that is open

Init == f = [ops |-> <<>>, wire |-> <<>>, handles |-> [h \in Handles |-> 0], openedFiles |-> {}, mounted |-> TRUE]

-----------------------------------------------------------------------------
(* What the chains are made of, from a state to the next. *)
Send(t, i, name, h, chunk) ==
  [t EXCEPT !.wire = Append(@, [does |-> name, of |-> i, h |-> h, chunk |-> chunk])]

(* The next request of the chain: its reply is awaited. *)
Ask(t, i, name, h) == Send([t EXCEPT !.ops[i].stage = name], i, name, h, 0)

SendAll(t, i, name, h, n) ==
  [t EXCEPT !.wire = @ \o [k \in 1..n |-> [does |-> name, of |-> i, h |-> h, chunk |-> k]],
            !.ops[i].stage = name, !.ops[i].left = n]

CloseSource(t, i) == Ask([t EXCEPT !.ops[i].source = Unopened], i, "closeSource", t.ops[i].source)

Answer(t, i) == [t EXCEPT !.ops[i].answers = @ + 1]

(* The promise of the chain is settled: onSuccess or onError, or an entry  *)
(* of Promise.all, which rejects with the first that does.                 *)
Settle(t, i, ok) ==
  LET p == t.ops[i].parent
      e == [t EXCEPT !.ops[i].stage = "done", !.ops[i].failed = ~ok]
  IN  IF p = 0 THEN IF e.ops[i].does = "list" THEN e ELSE Answer(e, i)
      ELSE IF e.ops[p].stage # "children" THEN e
      ELSE IF ~ok THEN CloseSource([e EXCEPT !.ops[p].failed = TRUE], p)
      ELSE IF e.ops[p].left > 1 THEN [e EXCEPT !.ops[p].left = @ - 1]
      ELSE CloseSource(e, p)

(* Mutation of Finally: the target is closed when the copy has succeeded,  *)
(* then() for finally().                                                   *)
FinallyOfSuccess(t, i) ==
  LET op == t.ops[i]
  IN  IF op.source # Unopened THEN CloseSource(t, i)
      ELSE IF op.target # Unopened /\ op.stage # "closeTarget" /\ ~op.failed THEN Ask(t, i, "closeTarget", op.target)
      ELSE IF op.does = "removeDirectory" /\ ~op.failed THEN Ask(t, i, "rmdir", Unopened)
      ELSE Settle(t, i, ~op.failed)

(* The finally()s, and what is after them. *)
Finally(t, i) ==
  LET op == t.ops[i]
  IN  IF op.source # Unopened THEN CloseSource(t, i)
      ELSE IF op.target # Unopened /\ op.stage # "closeTarget" THEN Ask(t, i, "closeTarget", op.target)
      ELSE IF op.does = "removeDirectory" /\ ~op.failed THEN Ask(t, i, "rmdir", Unopened)
      ELSE Settle(t, i, ~op.failed)

Reject(t, i) == Finally([t EXCEPT !.ops[i].failed = TRUE], i)

(* copyFile, copyDirectory, readLink and symLink, removeDirectory and      *)
(* removeFile.                                                             *)
First(does) ==
  CASE does = "copyFile" -> "openSource"
    [] does \in {"copyDirectory", "removeDirectory", "list"} -> "opendir"
    [] does = "copyLink" -> "readlink"
    [] does \in {"open", "create", "truncate"} -> "open"
    [] does \in {"copy", "remove"} -> "lstat"
    [] OTHER -> does       \* one request: its reply is the end

Of(kind, copy) ==
  CASE kind = "dir" -> IF copy THEN "copyDirectory" ELSE "removeDirectory"
    [] kind = "link" -> IF copy THEN "copyLink" ELSE "removeFile"
    [] OTHER -> IF copy THEN "copyFile" ELSE "removeFile"
Size(kind) == IF kind = "file" THEN Chunks ELSE 0

Operation(does, size, parent) ==
  [does |-> does, size |-> size, parent |-> parent, stage |-> First(does), source |-> Unopened, target |-> Unopened,
   left |-> 0, entries |-> <<>>, failed |-> FALSE, answers |-> 0, on |-> 0, content |-> <<>>]
FirstRequest(does, i) == [does |-> First(does), of |-> i, h |-> Unopened, chunk |-> 0]

(* All the entries of a directory at once. *)
Children(t, i) ==
  LET entries == t.ops[i].entries
      n == Len(entries)
      does == [k \in 1..n |-> Of(entries[k], t.ops[i].does = "copyDirectory")]
      parent == [t EXCEPT !.ops[i].stage = "children", !.ops[i].left = n]
  IN  IF entries = <<>> THEN Finally(t, i)
      ELSE [parent EXCEPT !.ops = @ \o [k \in 1..n |-> Operation(does[k], Size(entries[k]), i)],
                          !.wire = @ \o [k \in 1..n |-> FirstRequest(does[k], Len(t.ops) + k)]]

-----------------------------------------------------------------------------
(* The server takes the next request: Served is what is left of it. *)
R == Head(f.wire)
Op == f.ops[R.of]
Got == CHOOSE h \in Handles : f.handles[h] = 0 /\ \A g \in 1..(h - 1) : f.handles[g] # 0
Opens == {"openSource", "openTarget", "opendir", "open"}
Closes == {"closeSource", "closeTarget", "close"}
Taken == [f EXCEPT !.wire = Tail(@)]

Served ==
  CASE R.does \in Opens -> [Taken EXCEPT !.handles[Got] = R.of]
    [] R.does \in Closes -> [Taken EXCEPT !.handles[R.h] = 0]
    [] R.does = "chunkWrite" -> [Taken EXCEPT !.ops[f.handles[R.h]].content = Append(@, R.chunk)]
    [] R.does = "copydata" -> [Taken EXCEPT !.ops[f.handles[R.h]].content = SubSeq(Whole, 1, Op.size)]
    [] OTHER -> Taken

(* A reply of success comes: to a request of one of the names.  The server *)
(* opens nothing when it has no handle left.                               *)
Replied(names) ==
  /\ f.wire # <<>> /\ R.does \in names /\ (R.h # Unopened => f.handles[R.h] # 0)
  /\ R.does \in Opens => \E h \in Handles : f.handles[h] = 0

(* The chain does the copy or removal that the lstat found it to be. *)
OnLstat(kind) ==
  /\ Replied({"lstat"})
  /\ LET does == Of(kind, Op.does = "copy")
     IN  f' = Ask([Served EXCEPT !.ops[R.of].does = does, !.ops[R.of].size = Size(kind)], R.of, First(does), Unopened)

OnReadLink == Replied({"readlink"}) /\ f' = Ask(Served, R.of, "symlink", Unopened)

OnOpenSource ==
  Replied({"openSource"}) /\ f' = Ask([Served EXCEPT !.ops[R.of].source = Got], R.of, "openTarget", Unopened)

(* Promise.all of the chunks, or the server does it. *)
OnOpenTarget(copyData) ==
  /\ Replied({"openTarget"})
  /\ LET t == [Served EXCEPT !.ops[R.of].target = Got]
     IN  f' = IF copyData THEN Ask(t, R.of, "copydata", Got)
              ELSE IF Op.size = 0 THEN Finally(t, R.of)
              ELSE SendAll(t, R.of, "chunkRead", Op.source, Op.size)

(* What was read is written, also when the copy has failed meanwhile. *)
OnChunkRead == Replied({"chunkRead"}) /\ f' = Send(Served, R.of, "chunkWrite", Op.target, R.chunk)

(* One promise more of Promise.all, which may have been rejected. *)
OnChunkWrite ==
  /\ Replied({"chunkWrite"})
  /\ f' = IF Op.stage # "chunkRead" THEN Served
          ELSE IF Op.left > 1 THEN [Served EXCEPT !.ops[R.of].left = @ - 1]
          ELSE Finally(Served, R.of)

OnWrite ==
  /\ Replied({"write"})
  /\ f' = IF Op.stage # "write" THEN Served
          ELSE IF Op.left > 1 THEN [Served EXCEPT !.ops[R.of].left = @ - 1]
          ELSE Settle(Served, R.of, TRUE)

OnOpenDirectory ==
  /\ Replied({"opendir"})
  /\ LET t == [Served EXCEPT !.ops[R.of].source = Got]
     IN  f' = IF Op.does = "copyDirectory" THEN Ask(t, R.of, "mkdir", Unopened) ELSE Ask(t, R.of, "readdir", Got)

OnMakeDirectory ==
  Replied({"mkdir"}) /\ f' = IF Op.does = "mkdir" THEN Settle(Served, R.of, TRUE) ELSE Ask(Served, R.of, "readdir", Op.source)

(* scanDirectory: a batch of entries, those that are links being looked up *)
(* for a listing.  A directory in a directory is empty.                    *)
OnReadDirectory(batch) ==
  /\ Replied({"readdir"}) /\ Op.entries = <<>> /\ Op.parent = 0 /\ batch # <<>>
  /\ LET links == Cardinality({k \in DOMAIN batch : batch[k] = "link"})
         t == [Served EXCEPT !.ops[R.of].entries = batch]
     IN  f' = IF Op.does = "list" /\ links > 0 THEN SendAll(t, R.of, "fileStatus", Unopened, links)
              ELSE Ask(t, R.of, "readdir", Op.source)

(* A link that cannot be looked up is left out. *)
OnFileStatus ==
  /\ f.wire # <<>> /\ R.does = "fileStatus"
  /\ f' = IF Op.left > 1 THEN [Served EXCEPT !.ops[R.of].left = @ - 1] ELSE Ask(Served, R.of, "readdir", Op.source)

OnEndOfDirectory ==
  /\ Replied({"readdir"})
  /\ f' = IF Op.does = "list" THEN Finally(Answer(Served, R.of), R.of) ELSE Children(Served, R.of)

OnOpen ==
  /\ Replied({"open"})
  /\ f' = IF Op.does = "truncate" THEN Finally([Served EXCEPT !.ops[R.of].source = Got], R.of)
          ELSE Settle([Served EXCEPT !.openedFiles = @ \cup {[request |-> R.of, handle |-> Got]}], R.of, TRUE)

(* readChunks: one chunk after the other, or the end of the file. *)
OnRead(ends) ==
  /\ Replied({"read"})
  /\ f' = IF ends \/ Op.left = 1 THEN Settle(Served, R.of, TRUE)
          ELSE Send([Served EXCEPT !.ops[R.of].left = @ - 1], R.of, "read", R.h, 0)

OnClose ==
  /\ Replied({"close"})
  /\ f' = Settle([Served EXCEPT !.openedFiles = {o \in @ : o.request # Op.on}], R.of, TRUE)

(* The last request of the chain, or of what its finally()s come after. *)
OnLast ==
  /\ Replied({"copydata", "symlink", "closeSource", "closeTarget", "removeFile", "stat", "move"})
  /\ f' = Finally(Served, R.of)
OnRemoveDirectory == Replied({"rmdir"}) /\ f' = Settle(Served, R.of, TRUE)

(* A reply of failure.  The server closes a handle all the same. *)
OnError ==
  /\ f.wire # <<>> /\ R.does # "fileStatus"
  /\ LET t == IF R.does \in Closes THEN Served ELSE Taken
     IN  f' = CASE R.does \in {"chunkRead", "chunkWrite"} -> IF Op.stage = "chunkRead" THEN Reject(t, R.of) ELSE t
                [] R.does \in {"write", "read", "close", "open", "rmdir"} ->
                     IF Op.stage = "done" THEN t ELSE Settle(t, R.of, FALSE)
                [] Op.does = "list" /\ R.does # "closeSource" -> Reject(Answer(t, R.of), R.of)
                [] OTHER -> Reject(t, R.of)

-----------------------------------------------------------------------------
(* The Files app. *)
Asked == {i \in DOMAIN f.ops : f.ops[i].parent = 0}
MayAsk == f.mounted /\ Cardinality(Asked) < MaxRequests

Request(does) ==
  /\ MayAsk /\ does \notin OfFiles
  /\ f' = [f EXCEPT !.ops = Append(@, Operation(does, 0, 0)), !.wire = Append(@, FirstRequest(does, Len(f.ops) + 1))]

(* A request about a file it has opened: once a close, after the others. *)
Idle(o) == \A i \in DOMAIN f.ops : f.ops[i].on = o.request => (f.ops[i].stage = "done" /\ f.ops[i].does # "close")
RequestOfFile(does, o, n) ==
  /\ MayAsk /\ does \in OfFiles /\ o \in f.openedFiles /\ Idle(o)
  /\ LET i == Len(f.ops) + 1
         t == [f EXCEPT !.ops = Append(@, [Operation(does, 0, 0) EXCEPT !.on = o.request, !.left = n])]
     IN  f' = IF does = "write" THEN SendAll(t, i, "write", o.handle, n) ELSE Ask(t, i, does, o.handle)

(* Refused at once: a directory with its parents. *)
RequestRefused ==
  MayAsk /\ "mkdir" \in Requests
  /\ f' = [f EXCEPT !.ops = Append(@, [Operation("mkdir", 0, 0) EXCEPT !.stage = "done", !.failed = TRUE, !.answers = 1])]

(* exit() of the command ends its program: no reply comes any more. *)
Unmount == f.mounted /\ f' = [f EXCEPT !.mounted = FALSE, !.wire = <<>>, !.openedFiles = {}]

Reply ==
  \/ \E kind \in {"file", "empty", "link", "dir"} : OnLstat(kind)
  \/ \E copyData \in BOOLEAN : OnOpenTarget(copyData)
  \/ \E batch \in Batches : OnReadDirectory(batch)
  \/ \E ends \in BOOLEAN : OnRead(ends)
  \/ OnReadLink \/ OnOpenSource \/ OnChunkRead \/ OnChunkWrite \/ OnWrite \/ OnOpenDirectory \/ OnMakeDirectory
  \/ OnFileStatus \/ OnEndOfDirectory \/ OnOpen \/ OnClose \/ OnLast \/ OnRemoveDirectory \/ OnError

Next ==
  \/ Reply \/ RequestRefused \/ Unmount
  \/ \E does \in Requests : Request(does)
  \/ \E does \in Requests, o \in f.openedFiles, n \in 1..Chunks : RequestOfFile(does, o, n)

(* The server answers. *)
Spec == Init /\ [][Next]_f /\ WF_f(Reply)

-----------------------------------------------------------------------------
(* The state has its type. *)
TypeOK ==
  /\ f.mounted \in BOOLEAN /\ f.handles \in [Handles -> 0..Len(f.ops)]
  /\ \A i \in DOMAIN f.ops :
       /\ f.ops[i].source \in Handles \cup {Unopened} /\ f.ops[i].target \in Handles \cup {Unopened}
       /\ f.ops[i].parent \in 0..(i - 1) /\ f.ops[i].left \in Nat

Owner(r) == IF f.ops[r.of].on = 0 THEN r.of ELSE f.ops[r.of].on

(* What is sent on a handle gets there before the handle is closed: else   *)
(* it could be of another file when it comes to the server.                *)
HandlesAreTheirOwn ==
  \A k \in DOMAIN f.wire :
    LET r == f.wire[k]
    IN  r.h # Unopened => /\ f.handles[r.h] = Owner(r)
                          /\ \A j \in 1..(k - 1) : f.wire[j].h = r.h => f.wire[j].does \notin Closes

(* When nothing is asked of the server, it has no file open but those that *)
(* the Files app opened.                                                   *)
NothingLeftOpen ==
  (f.wire = <<>> /\ f.mounted) =>
    {h \in Handles : f.handles[h] # 0} \subseteq {o.handle : o \in f.openedFiles}

(* A copy that is told to have succeeded is whole, of a directory in all   *)
(* its entries, and a directory is removed after what was in it.           *)
SuccessIsWhole ==
  /\ \A i \in DOMAIN f.ops :
       (f.ops[i].stage = "done" /\ ~f.ops[i].failed) =>
         /\ f.ops[i].does = "copyFile" => f.ops[i].content = SubSeq(Whole, 1, f.ops[i].size)
         /\ \A j \in DOMAIN f.ops : f.ops[j].parent = i => (f.ops[j].stage = "done" /\ ~f.ops[j].failed)
  /\ \A k \in DOMAIN f.wire : f.wire[k].does = "rmdir" =>
       \A j \in DOMAIN f.ops : f.ops[j].parent = f.wire[k].of => (f.ops[j].stage = "done" /\ ~f.ops[j].failed)

(* Each request is answered once. *)
AnsweredOnce == \A i \in DOMAIN f.ops : f.ops[i].answers <= IF f.ops[i].parent = 0 THEN 1 ELSE 0

ProviderInv == HandlesAreTheirOwn /\ NothingLeftOpen /\ SuccessIsWhole /\ AnsweredOnce

(* Each request is answered, unless the file system is unmounted. *)
RequestsAnswered ==
  \A i \in 1..MaxRequests :
    (i \in Asked) ~> (f.mounted => (i \in DOMAIN f.ops /\ f.ops[i].answers = 1))

=============================================================================
