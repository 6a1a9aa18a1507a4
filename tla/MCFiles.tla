------------------------------ MODULE MCFiles -------------------------------
(***************************************************************************)
(* The parts of a Secure Shell session, each on its own in one run: kind   *)
(* says which a behaviour is of, the others stay as they begin.            *)
(*   "file"      the SFTP client reading a file in several chunks          *)
(*   "asks"      the SFTP client reading a small file among other requests *)
(*   "shell"     the nasftp shell                                          *)
(*   "provider"  the file system provider                                  *)
(*   "command"   the command of a page, with its programs and its mount    *)
(***************************************************************************)
EXTENDS Integers, Sequences

CONSTANTS
  Transfers, readChunkSize, LIMITS, Words, MaxKeys, MaxHistory, Requests, Chunks, MaxRequests, MaxConnections,
  FileSize,    \* of a file read in several chunks
  SmallFile,   \* of one read among MaxAsks other requests
  MaxAsks,
  Pieces       \* how much of a file is read, if not the whole

Lengths == {-1} \cup Pieces

VARIABLES
  kind,
  \* SftpClient
  isInitialised, initConnection, requestId_, pendingRequests_, asks, server, output, buffer_,
  pendingMessageSize_, parsing, resolved, stage, length, offset, canceled, callbacks, given, last,
  \* NasftpCli
  c, keys,
  \* SftpFsp
  f,
  \* CommandInstance
  app, s

File == INSTANCE SftpClient WITH MaxAsks <- 0
Asks == INSTANCE SftpClient WITH FileSize <- SmallFile
Shell == INSTANCE NasftpCli WITH LatePick <- FALSE
Provider == INSTANCE SftpFsp WITH Batches <- {<<"file">>, <<"link", "dir">>}
Command == INSTANCE CommandInstance

ASSUME FilesAssumption ==
  /\ File!SftpAssumption /\ Asks!SftpAssumption /\ Shell!ShellAssumption
  /\ Provider!ProviderAssumption /\ Command!CommandAssumption

sftpVars == <<isInitialised, initConnection, requestId_, pendingRequests_, asks, server, output, buffer_,
              pendingMessageSize_, parsing, resolved, stage, length, offset, canceled, callbacks, given, last>>
shellVars == <<c, keys>>
commandVars == <<app, s>>
allVars == <<kind, sftpVars, shellVars, f, commandVars>>

MCInit ==
  /\ kind \in {"file", "asks", "shell", "provider", "command"}
  /\ File!Init /\ Shell!Init /\ Provider!Init /\ Command!Init
  /\ kind # "command" => app = "ssh"

MCNext ==
  /\ UNCHANGED kind
  /\ \/ kind = "file" /\ File!Next /\ UNCHANGED <<shellVars, f, commandVars>>
     \/ kind = "asks" /\ Asks!Next /\ UNCHANGED <<shellVars, f, commandVars>>
     \/ kind = "shell" /\ Shell!Next /\ UNCHANGED <<sftpVars, f, commandVars>>
     \/ kind = "provider" /\ Provider!Next /\ UNCHANGED <<sftpVars, shellVars, commandVars>>
     \/ kind = "command" /\ Command!Next /\ UNCHANGED <<sftpVars, shellVars, f>>

(* The fairness of each part, of its own behaviours. *)
Sftp == kind \in {"file", "asks"}
Server == IF kind = "file" THEN File!Server ELSE Asks!Server
MCFairness ==
  /\ WF_sftpVars(Sftp /\ File!Handlers) /\ WF_sftpVars(Sftp /\ Server) /\ WF_sftpVars(Sftp /\ File!WriteStreamData)
  /\ \A t \in Transfers : WF_sftpVars(Sftp /\ File!Callback(t)) /\ WF_sftpVars(Sftp /\ File!CloseFile(t))
  /\ \A j \in Shell!Jobs :
       WF_shellVars(kind = "shell" /\ (Shell!Reply(j) \/ Shell!Between(j) \/ Shell!CancelCheck(j) \/ Shell!Ends(j)))
  /\ WF_f(kind = "provider" /\ Provider!Reply)
  /\ WF_commandVars(kind = "command" /\ Command!Messages)
  /\ WF_commandVars(kind = "command" /\ (Command!OnMount \/ Command!MountFails))

MCSpec == MCInit /\ [][MCNext]_allVars /\ MCFairness

-----------------------------------------------------------------------------
(* Types of every part. *)
TypesOK ==
  /\ IF kind = "asks" THEN Asks!TypeOK ELSE File!TypeOK
  /\ Shell!TypeOK /\ Provider!TypeOK /\ Command!TypeOK

(* The chunks of a file reach the caller of readFile in order and without  *)
(* a hole, whatever the server splits, shortens or reorders, and no whole  *)
(* packet is left in the buffer of a client that is idle.                  *)
ChunksInOrder == /\ IF kind = "asks" THEN Asks!ChunksInOrder ELSE File!ChunksInOrder
                 /\ File!NoPacketLeft

(* No callback of a read is called after one has returned false, "whether  *)
(* the callback has canceled further reads".                               *)
NothingAfterCancel == File!NothingAfterCancel

(* Whatever becomes of a read its file is closed and its caller is told,   *)
(* and every other request of a client whose connection lives is answered, *)
(* as is each request of the Files app while the file system is mounted.   *)
RequestsEnd == /\ Sftp => Asks!RequestsEnd
               /\ Provider!RequestsAnswered

(* The provider's chains of requests, many at once and any of them failing *)
(* at any place, send nothing on a handle they have closed, leave none     *)
(* open, tell the Files app once, and tell success of a copy only when all *)
(* of it is there.                                                         *)
ChainsAreSound ==
  kind = "provider" => /\ Provider!HandlesAreTheirOwn /\ Provider!NothingLeftOpen
                       /\ Provider!SuccessIsWhole /\ Provider!AnsweredOnce

(* However a connection ends, at whatever await it is, the command keeps   *)
(* no program, dialog, mount or guard of its page that outlives it, tells  *)
(* its end once, and the user's keys reach what is shown.                  *)
ExitLeavesNothing ==
  kind = "command" => Command!ExitLeavesNothing /\ Command!NoProgramIsLost /\ Command!KeysReachWhatIsShown

(* When the program of a command ends, the command exits. *)
EndIsReported == Command!EndIsReported

(* When the shell takes input no command is at work, and when it holds it  *)
(* back one is: also after failures and interrupts.                        *)
PromptMeansIdle == Shell!PromptMeansIdle

(* The shell comes back to its prompt, or waits for the user to choose a   *)
(* file, whatever becomes of a command.                                    *)
PromptComesBack == Shell!PromptComesBack

=============================================================================
