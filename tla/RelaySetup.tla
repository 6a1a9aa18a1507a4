----------------------------- MODULE RelaySetup -----------------------------
(***************************************************************************)
(* How a Corp relay is found for a destination before anything connects    *)
(* (nassh/js/nassh_relay_corp.js, and the end of                           *)
(* nassh/js/nassh_command_instance.js's connectTo).  Either by redirects:  *)
(* the tab goes to the cookie server and comes back through                *)
(* google_relay.html (nassh/js/nassh_google_relay_main.js), each page      *)
(* knowing of the others only what is in session storage; or directly      *)
(* (authenticateDirect), by fetches and a login popup.                     *)
(*                                                                         *)
(* A destination is the path of the page that connects to it.  The cookie  *)
(* server, the popup and the user, who may go elsewhere, are external.     *)
(***************************************************************************)
EXTENDS Integers

CONSTANTS Destinations,
          MaxVisits          \* bound: how often the user goes somewhere

LIMIT == 3                   \* redirects before google_relay.html gives up

VARIABLES
  method,                    \* options['--relay-method']: "direct" or "js-redirect"
  page,                      \* what the tab shows
  path,                      \* the destination the page, or the cookie server, was asked for
  relayHost, resumePath, redirectCount,   \* session storage, under 'googleRelay.'
  relayServer,               \* the relay in use, by the destination it was looked up for
  stage,                     \* authenticateDirect: the await it is at
  visits

None == "none"
session == <<relayHost, resumePath, redirectCount>>
vars == <<method, page, path, session, relayServer, stage, visits>>

Ends == {"dialog", "connected", "gaveUp", "error"}

Init ==
  /\ method \in {"direct", "js-redirect"} /\ page = "dialog" /\ path = None
  /\ relayHost = None /\ resumePath = None /\ redirectCount = 0
  /\ relayServer = None /\ stage = None /\ visits = 0

-----------------------------------------------------------------------------
(* The user opens a destination, from the dialog or in place of whatever   *)
(* page the tab shows.                                                     *)
GoTo(d) ==
  /\ visits < MaxVisits /\ visits' = visits + 1
  /\ page' = "nassh" /\ path' = d /\ relayServer' = None /\ stage' = None
  /\ UNCHANGED <<method, session>>

(* promptForDestination_ *)
ShowDialog ==
  /\ page \in Ends \ {"dialog"} /\ visits < MaxVisits /\ visits' = visits + 1
  /\ page' = "dialog" /\ path' = None /\ redirectCount' = 0 /\ relayServer' = None
  /\ UNCHANGED <<method, relayHost, resumePath, stage>>

-----------------------------------------------------------------------------
(* By redirects. *)

(* Mutation of Expected: for whom it was looked up is not compared. *)
ExpectedForAny == relayHost # None

(* Whether init() may use what the relay page left. *)
Expected == relayHost # None /\ resumePath = path

(* init() finds a relay. *)
InitFound ==
  /\ page = "nassh" /\ method # "direct" /\ Expected
  /\ page' = "connected" /\ relayServer' = relayHost
  /\ relayHost' = None /\ resumePath' = None /\ redirectCount' = 0
  /\ UNCHANGED <<method, path, stage, visits>>

(* init() finds none, or another destination's, and redirect() leaves; a   *)
(* proxy host that makes no URL ends the command.                          *)
InitRedirects ==
  /\ page = "nassh" /\ method # "direct" /\ ~Expected
  /\ page' \in {"cookie", "error"}
  /\ relayHost' = None /\ resumePath' = path
  /\ UNCHANGED <<method, path, redirectCount, relayServer, stage, visits>>

(* The cookie server sends the tab to google_relay.html, with an endpoint  *)
(* or an error, which resumes the page it finds in session storage, where  *)
(* redirect() always leaves one.                                           *)
RelayPage(host) ==
  /\ page = "cookie"
  /\ relayHost' = IF host = None THEN relayHost ELSE host
  /\ \/ /\ redirectCount + 1 > LIMIT
        /\ page' = "gaveUp" /\ redirectCount' = 0 /\ UNCHANGED path
     \/ /\ redirectCount + 1 <= LIMIT
        /\ page' = "nassh" /\ path' = resumePath /\ redirectCount' = redirectCount + 1
  /\ UNCHANGED <<method, resumePath, relayServer, stage, visits>>

-----------------------------------------------------------------------------
(* authenticateDirect: one action per outcome of what it awaits. *)

Direct(from, to) == page = "nassh" /\ stage = from /\ stage' = to /\ UNCHANGED <<method, path, session, visits>>

InitDirect ==
  /\ method = "direct"
  /\ \/ Direct(None, "endpoint") /\ UNCHANGED <<page, relayServer>>
     \/ Direct(None, None) /\ page' = "error" /\ UNCHANGED relayServer

(* Its endpoint may be unknown: then the proxy, or the fallback, is asked. *)
FetchEndpoint ==
  /\ Direct("endpoint", "validate") \/ Direct("endpoint", "fallback") \/ Direct("fallback", "validate")
  /\ UNCHANGED <<page, relayServer>>

(* After a failure the ticket is refreshed, and then the user logs in. *)
AfterFailure == [validate |-> "refresh", validateAgain |-> "popup"]

ValidateCookie ==
  \/ \E from \in {"validate", "validateAgain", "validateLast"} :
       Direct(from, None) /\ relayServer' = path /\ page' = "connected"
  \/ \E from \in DOMAIN AfterFailure : Direct(from, AfterFailure[from]) /\ UNCHANGED <<page, relayServer>>
  \/ Direct("validateLast", None) /\ page' = "error" /\ UNCHANGED relayServer

RefreshTicket ==
  /\ Direct("refresh", "validateAgain") \/ Direct("refresh", "popup")
  /\ UNCHANGED <<page, relayServer>>

ShowLoginPopup ==
  \/ Direct("popup", "validateLast") /\ UNCHANGED <<page, relayServer>>
  \/ Direct("popup", None) /\ page' = "error" /\ UNCHANGED relayServer

-----------------------------------------------------------------------------
Authenticate == InitDirect \/ FetchEndpoint \/ ValidateCookie \/ RefreshTicket \/ ShowLoginPopup
Redirect == InitFound \/ InitRedirects \/ RelayPage(None) \/ RelayPage(path)

Next == (\E d \in Destinations : GoTo(d)) \/ ShowDialog \/ Redirect \/ Authenticate

(* Pages run, the cookie server and fetches answer, the user closes the    *)
(* popup; nobody need go anywhere.                                         *)
Fairness == WF_vars(Redirect) /\ WF_vars(Authenticate)
Spec == Init /\ [][Next]_vars /\ Fairness

-----------------------------------------------------------------------------
TypeOK == /\ page \in Ends \cup {"nassh", "cookie"}
          /\ {path, relayHost, resumePath, relayServer} \subseteq Destinations \cup {None}
          /\ redirectCount \in 0..LIMIT

(* The relay a connection uses was looked up for its destination, also     *)
(* when the user leaves for another one with a lookup half done.           *)
RelayIsForItsDestination == page = "connected" => relayServer = path

(* A lookup ends, in a connection, an error or giving up, however often    *)
(* the relay sends the tab back without a host.                            *)
Ended == page \in Ends
=============================================================================
