----------------------------- MODULE RemoteCall ------------------------------
(***************************************************************************)
(* What a program running in a worker is promised of its system calls:     *)
(* they are made one at a time, and the answer it is given to the n-th is  *)
(* the answer to the n-th.  A call may stay unanswered for ever.           *)
(***************************************************************************)
EXTENDS Integers, Sequences

VARIABLES
  asked,    \* calls made; a call is known by its number
  answers   \* the number of the call each answer was made for, in order

Init == asked = 0 /\ answers = <<>>

Ask ==
  /\ Len(answers) = asked
  /\ asked' = asked + 1
  /\ UNCHANGED answers

Answer ==
  /\ Len(answers) < asked
  /\ answers' = Append(answers, asked)
  /\ UNCHANGED asked

Next == Ask \/ Answer

Spec == Init /\ [][Next]_<<asked, answers>>
=============================================================================
