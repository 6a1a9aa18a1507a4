--------------------------- MODULE MCConnections ----------------------------
(***************************************************************************)
(* What a connection needs, from its profile to the relay its bytes go     *)
(* through, each part on its own in one run: kind says which part a        *)
(* behaviour is of, the others stay as they begin.                         *)
(*   "corp"      a Corp relay stream over XHR or a WebSocket               *)
(*   "plain"     a Corp v4 relay stream whose session is not resumed       *)
(*   "simple"    a websockify or SSH-FE stream and its RelaySocket         *)
(*   "setup"     finding a Corp relay for a destination                    *)
(*   "profiles"  the profiles, as several pages see them                   *)
(***************************************************************************)
EXTENDS RelayCorp

CONSTANTS
  RECONNECT_LIMIT, MaxLen, MaxUp4, MaxDown4, MaxDrops4,          \* RelayCorpv4
  SimpleMaxMessage, SimpleWrap, SimpleMaxUp, SimpleMaxDown,      \* RelaySimple
  Destinations, MaxVisits, Pages, Ids, Values, MaxEvents

ASSUME PartsAssumption ==
  /\ RECONNECT_LIMIT \in Nat /\ MaxLen \in Nat \ {0}
  /\ MaxUp4 \in Nat /\ MaxDown4 \in Nat /\ MaxDrops4 \in Nat
  /\ SimpleMaxMessage \in Nat \ {0} /\ SimpleWrap \in Nat \ {0}
  /\ SimpleMaxUp \in Nat /\ SimpleMaxDown \in Nat

VARIABLES
  kind,
  \* RelayCorpv4
  open4, socket4, sid4, reconnects4, written4, writeCount4, writeAcks4, readCount4, sendTimers4,
  reconnectTimers4, resumeAck4, ws4, events4, c2s4, s2c4, drops4, host4, delivered4, session4,
  srvRecv4, srvSent4, srvProduced4, srvAcked4, srvAckSent4,
  \* RelaySimple
  simpleRelay, simpleOpen, callback_, simpleSocket, simpleWs, simpleEvents, simpleTimers, simpleWritten,
  simpleSent, simpleReadCount, simpleUp, simpleDown, simpleDelivered, simpleSrvRecv, simpleSrvProduced,
  \* RelaySetup
  method, page, path, relayHost, resumePath, redirectCount, relayServer, stage, visits,
  \* Preferences
  stored, writer, storageRequests, news, retries, list, childLists_, managers, syncs, made, edits, refused

Plain == INSTANCE RelayCorpv4 WITH
  Resume <- FALSE, ServerFaulty <- FALSE, MaxUp <- MaxUp4, MaxDown <- MaxDown4, MaxDrops <- MaxDrops4,
  open <- open4, socket_ <- socket4, sid_ <- sid4, reconnectCount_ <- reconnects4, written <- written4,
  writeCount_ <- writeCount4, writeAckCount_ <- writeAcks4, readCount_ <- readCount4,
  sendTimers <- sendTimers4, reconnectTimers <- reconnectTimers4, resumeAck <- resumeAck4, ws <- ws4,
  events <- events4, c2s <- c2s4, s2c <- s2c4, drops <- drops4, host <- host4, delivered <- delivered4,
  session <- session4, srvRecv <- srvRecv4, srvSent <- srvSent4, srvProduced <- srvProduced4,
  srvAcked <- srvAcked4, srvAckSent <- srvAckSent4

Simple == INSTANCE RelaySimple WITH
  MaxMessage <- SimpleMaxMessage, Wrap <- SimpleWrap, MaxUp <- SimpleMaxUp, MaxDown <- SimpleMaxDown,
  relay <- simpleRelay, open <- simpleOpen, socket_ <- simpleSocket, ws <- simpleWs, events <- simpleEvents,
  timers <- simpleTimers, written <- simpleWritten, sent <- simpleSent, readCount_ <- simpleReadCount,
  c2s <- simpleUp, s2c <- simpleDown, delivered <- simpleDelivered, srvRecv <- simpleSrvRecv,
  srvProduced <- simpleSrvProduced

Lookup == INSTANCE RelaySetup
Profiles == INSTANCE Preferences WITH requests <- storageRequests, events <- edits

\* There is a profile, and no profile is kept where the list of them is
\* (LIST and the profiles' values have prefixes of their own in the storage).
ASSUME IdsAssumption == Ids # {} /\ Profiles!LIST \notin Ids

plainVars == <<open4, socket4, sid4, reconnects4, written4, writeCount4, writeAcks4, readCount4, sendTimers4,
               reconnectTimers4, resumeAck4, ws4, events4, c2s4, s2c4, drops4, host4, delivered4, session4,
               srvRecv4, srvSent4, srvProduced4, srvAcked4, srvAckSent4>>
simpleVars == <<simpleRelay, simpleOpen, callback_, simpleSocket, simpleWs, simpleEvents, simpleTimers,
                simpleWritten, simpleSent, simpleReadCount, simpleUp, simpleDown, simpleDelivered,
                simpleSrvRecv, simpleSrvProduced>>
setupVars == <<method, page, path, relayHost, resumePath, redirectCount, relayServer, stage, visits>>
profileVars == <<stored, writer, storageRequests, news, retries, list, childLists_, managers, syncs, made,
                 edits, refused>>
allVars == <<kind, vars, plainVars, simpleVars, setupVars, profileVars>>

(* A part that is not the behaviour's begins in one state. *)
MCInit ==
  /\ kind \in {"corp", "plain", "simple", "setup", "profiles"}
  /\ Init /\ Plain!Init /\ Simple!Init /\ Lookup!Init /\ Profiles!Init
  /\ kind # "corp" => transport = "xhr" /\ resume_ = FALSE
  /\ kind # "simple" => simpleRelay = "ssh-fe"
  /\ kind # "setup" => method = "direct"

MCNext ==
  /\ UNCHANGED kind
  /\ \/ kind = "corp" /\ Next /\ UNCHANGED <<plainVars, simpleVars, setupVars, profileVars>>
     \/ kind = "plain" /\ Plain!Next /\ UNCHANGED <<vars, simpleVars, setupVars, profileVars>>
     \/ kind = "simple" /\ Simple!Next /\ UNCHANGED <<vars, plainVars, setupVars, profileVars>>
     \/ kind = "setup" /\ Lookup!Next /\ UNCHANGED <<vars, plainVars, simpleVars, profileVars>>
     \/ kind = "profiles" /\ Profiles!Next /\ UNCHANGED <<vars, plainVars, simpleVars, setupVars>>

(* The fairness of each part, of its own behaviours.  Actions that exclude *)
(* each other, as the messages that may come next, are one here.           *)
CorpRead == RelayAnswersRead \/ OnReadReady \/ OnReadGone
CorpWrite == RelayAnswersWrite \/ OnWriteDone \/ OnWriteGone
CorpMessage == OnSocketData \/ OnSocketErrorAck
CorpRelaySends == RelaySends \/ RelaySendsError
PlainEvent == Plain!OnSocketError \/ Plain!OnSocketClose
PlainConnects == Plain!OnSocketOpen \/ (session4 = "ended" /\ ws4 = "CONNECTING" /\ Plain!WsFail)
PlainMessage == Plain!OnConnectSuccess \/ Plain!OnData \/ Plain!OnAck \/ Plain!WsServerClosed
MCFairness ==
  /\ WF_vars(kind = "corp" /\ OnSession) /\ WF_vars(kind = "corp" /\ OnBackoffExpired)
  /\ WF_vars(kind = "corp" /\ CorpRead) /\ WF_vars(kind = "corp" /\ CorpWrite)
  /\ WF_vars(kind = "corp" /\ OnSocketOpen) /\ WF_vars(kind = "corp" /\ CorpMessage)
  /\ WF_vars(kind = "corp" /\ OnSendTimer)
  /\ WF_vars(kind = "corp" /\ RelayReceives) /\ WF_vars(kind = "corp" /\ CorpRelaySends)
  /\ WF_plainVars(kind = "plain" /\ Plain!OnSendTimer) /\ WF_plainVars(kind = "plain" /\ PlainEvent)
  /\ WF_plainVars(kind = "plain" /\ PlainConnects) /\ WF_plainVars(kind = "plain" /\ PlainMessage)
  /\ WF_plainVars(kind = "plain" /\ Plain!WsCloseDone)
  /\ WF_plainVars(kind = "plain" /\ Plain!SrvReceive) /\ WF_plainVars(kind = "plain" /\ Plain!SrvAck)
  /\ WF_simpleVars(kind = "simple" /\ Simple!OnSendTimer)
  /\ WF_simpleVars(kind = "simple" /\ Simple!OnSocketEvent)
  /\ WF_simpleVars(kind = "simple" /\ Simple!OnSocketOpen)
  /\ WF_simpleVars(kind = "simple" /\ Simple!Arrives) /\ WF_simpleVars(kind = "simple" /\ Simple!SrvReceive)
  /\ WF_setupVars(kind = "setup" /\ Lookup!Redirect) /\ WF_setupVars(kind = "setup" /\ Lookup!Authenticate)
  /\ WF_profileVars(kind = "profiles" /\ Profiles!GoOn)

MCSpec == MCInit /\ [][MCNext]_allVars /\ MCFairness

-----------------------------------------------------------------------------
(* Upstream, a stream that does not resume is an ordered pipe to the ssh   *)
(* server and releases only what has arrived, and websockify and SSH-FE    *)
(* streams are ordered pipes both ways.                                    *)
OrderedPipes == /\ Plain!UpSpec /\ [](Plain!TypeOK /\ Plain!ReleasedIsReceived)
                /\ Simple!Pipes /\ []Simple!TypeOK

(* A connection uses the relay that was looked up for its destination,     *)
(* wherever the user went meanwhile.                                       *)
LookupsAreRight == Lookup!TypeOK /\ Lookup!RelayIsForItsDestination

(* A page with nothing under way sees the stored list of profiles, and     *)
(* each profile it wrote last is stored as it shows it.                    *)
PagesSeeTheSame == Profiles!TypeOK /\ Profiles!PagesSeeWhatIsStored

(* Every part comes to rest with its work done, again and again: what is   *)
(* written arrives over every stream unless it is lost, and the program    *)
(* then knows; a lookup ends; all pages have heard everything.             *)
WorkGetsDone ==
  []<>(/\ CaughtUp /\ Plain!UpstreamCaughtUp /\ Simple!CaughtUp
       /\ Lookup!Ended /\ Profiles!AllQuiet)

=============================================================================
