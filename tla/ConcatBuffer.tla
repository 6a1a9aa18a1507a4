---------------------------- MODULE ConcatBuffer ----------------------------
(***************************************************************************)
(* ConcatBuffer (nassh/js/nassh_buffer_concat.js): one array holding what  *)
(* has been written and not released, and the position of the next read in *)
(* it.  The bytes are the positions of the stream, so that what a read     *)
(* returns says which bytes they were.                                     *)
(***************************************************************************)
EXTENDS Integers, Sequences

CONSTANTS
  MaxBytes,     \* bound: bytes ever written
  MaxLength     \* bound: length of one write, read or ack

VARIABLES
  autoack_, buffer_, readPos_, unreadCount_,
  written,      \* history: how many bytes have been written
  out           \* history: what the last read returned

vars == <<autoack_, buffer_, readPos_, unreadCount_, written, out>>

(* TypedArray.subarray(begin, end): a negative position counts from the    *)
(* end, and both are clamped to the array.                                 *)
Subarray(s, begin, end) ==
  LET Clamped(i) == CASE i < -Len(s) -> 0
                      [] i < 0 -> Len(s) + i
                      [] i > Len(s) -> Len(s)
                      [] OTHER -> i
  IN  SubSeq(s, Clamped(begin) + 1, Clamped(end))

Init ==
  /\ autoack_ \in BOOLEAN
  /\ buffer_ = <<>> /\ readPos_ = 0 /\ unreadCount_ = 0
  /\ written = 0 /\ out = <<>>

Write(n) ==
  /\ written + n <= MaxBytes
  /\ buffer_' = buffer_ \o [i \in 1..n |-> written + i]
  /\ unreadCount_' = unreadCount_ + n
  /\ written' = written + n
  /\ UNCHANGED <<autoack_, readPos_, out>>

Read(n) ==
  LET ret == Subarray(buffer_, readPos_, readPos_ + n)
  IN  /\ IF autoack_
         THEN buffer_' = Subarray(buffer_, Len(ret), Len(buffer_)) /\ UNCHANGED readPos_
         ELSE readPos_' = readPos_ + Len(ret) /\ UNCHANGED buffer_
      /\ unreadCount_' = unreadCount_ - Len(ret)
      /\ out' = ret
      /\ UNCHANGED <<autoack_, written>>

Ack(n) ==
  /\ buffer_' = Subarray(buffer_, n, Len(buffer_))
  /\ readPos_' = readPos_ - n
  /\ UNCHANGED <<autoack_, unreadCount_, written, out>>

(* The callers: an ack covers bytes that have been read. *)
Acked(n) == n <= readPos_ /\ Ack(n)

Next ==
  \/ \E n \in 0..MaxLength : Write(n)
  \/ \E n \in 1..MaxLength : Read(n)
  \/ \E n \in 1..MaxLength : Acked(n)


=============================================================================
