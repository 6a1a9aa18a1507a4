--------------------------- MODULE MCRelayCorpv4 ----------------------------
(* TLC instances of RelayCorpv4: the .cfg files give the constants. *)
EXTENDS RelayCorpv4

=============================================================================
