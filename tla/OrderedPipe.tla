---------------------------- MODULE OrderedPipe -----------------------------
(***************************************************************************)
(* What a byte stream promises in one direction: the receiver sees the     *)
(* sender's bytes, numbered from 1, in order, each of them once, and none  *)
(* before it was put in.  Either end may stop at any time, so the promise  *)
(* is about safety only.                                                   *)
(***************************************************************************)
EXTENDS Integers, Sequences

VARIABLES
  put,   \* how many bytes the sender has put in
  got    \* the bytes the receiver has taken out, in order

pipe == <<put, got>>

FirstBytes(n) == [i \in 1..n |-> i]

Init == put = 0 /\ got = <<>>

Put == put' \in Nat /\ put' > put /\ UNCHANGED got

Get ==
  /\ Len(got') > Len(got)
  /\ Len(got') <= put
  /\ got' = [i \in 1..Len(got') |-> IF i <= Len(got) THEN got[i] ELSE i]
  /\ UNCHANGED put

Next == Put \/ Get

Spec == Init /\ [][Next]_pipe

=============================================================================
