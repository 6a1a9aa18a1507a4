--------------------------- MODULE ScatGatBuffer ----------------------------
(***************************************************************************)
(* ScatGatBuffer (nassh/js/nassh_buffer_scatgat.js): the buffers written   *)
(* are queued whole; one cursor (readPos_, readOffset_) walks them for     *)
(* reads and another (ackPos_, ackOffset_) frees them.  As in ConcatBuffer *)
(* a byte is its position in the stream.                                   *)
(***************************************************************************)
EXTENDS Integers, Sequences, SequencesExt

CONSTANTS
  MaxBytes,     \* bound: bytes ever written
  MaxWrites,    \* bound: buffers ever written
  MaxLength     \* bound: length of one write, read or ack

VARIABLES
  autoack_,
  queue_,       \* from the positions still queued to the buffers there
  writePos_, readPos_, readOffset_, ackPos_, ackOffset_, unreadCount_,
  written,      \* history: how many bytes have been written
  out           \* history: what the last read returned

vars == <<autoack_, queue_, writePos_, readPos_, readOffset_, ackPos_, ackOffset_,
          unreadCount_, written, out>>

Init ==
  /\ autoack_ \in BOOLEAN
  /\ queue_ = <<>> /\ writePos_ = 0
  /\ readPos_ = 0 /\ readOffset_ = 0 /\ ackPos_ = 0 /\ ackOffset_ = 0
  /\ unreadCount_ = 0 /\ written = 0 /\ out = <<>>

Write(n) ==
  /\ written + n <= MaxBytes /\ writePos_ < MaxWrites
  /\ queue_' = [p \in DOMAIN queue_ \cup {writePos_} |->
                  IF p = writePos_ THEN [i \in 1..n |-> written + i] ELSE queue_[p]]
  /\ writePos_' = writePos_ + 1
  /\ unreadCount_' = unreadCount_ + n
  /\ written' = written + n
  /\ UNCHANGED <<autoack_, readPos_, readOffset_, ackPos_, ackOffset_, out>>

(* queue_ without the positions from..to-1. *)
Freed(from, to) == [p \in DOMAIN queue_ \ (from..to-1) |-> queue_[p]]

(* Mutation of Walk: the offset into a half-read buffer is set, not moved. *)
RECURSIVE WalkSetsOffset(_, _, _)
WalkSetsOffset(n, pos, off) ==
  IF n = 0 \/ pos \notin DOMAIN queue_
  THEN [ret |-> <<>>, pos |-> pos, off |-> off]
  ELSE LET curr == queue_[pos]
           input == SubSeq(curr, off + 1, IF off + n < Len(curr) THEN off + n ELSE Len(curr))
           rest == IF Len(input) + off = Len(curr)
                   THEN WalkSetsOffset(n - Len(input), pos + 1, 0)
                   ELSE [ret |-> <<>>, pos |-> pos, off |-> Len(input)]
       IN  [rest EXCEPT !.ret = input \o @]

(* The loop of read: up to n bytes from offset off of the buffer at pos on. *)
RECURSIVE Walk(_, _, _)
Walk(n, pos, off) ==
  IF n = 0 \/ pos \notin DOMAIN queue_
  THEN [ret |-> <<>>, pos |-> pos, off |-> off]
  ELSE LET curr == queue_[pos]
           input == SubSeq(curr, off + 1, IF off + n < Len(curr) THEN off + n ELSE Len(curr))
           rest == IF Len(input) + off = Len(curr)
                   THEN Walk(n - Len(input), pos + 1, 0)
                   ELSE Walk(n - Len(input), pos, off + Len(input))
       IN  [rest EXCEPT !.ret = input \o @]

Read(n) ==
  LET end == Walk(n, readPos_, readOffset_)
  IN  /\ readPos_' = end.pos /\ readOffset_' = end.off
      /\ IF autoack_
         THEN /\ queue_' = Freed(ackPos_, end.pos)
              /\ ackPos_' = (IF ackPos_ < end.pos THEN end.pos ELSE ackPos_)
              /\ ackOffset_' = end.off
         ELSE UNCHANGED <<queue_, ackPos_, ackOffset_>>
      /\ unreadCount_' = unreadCount_ - Len(end.ret)
      /\ out' = end.ret
      /\ UNCHANGED <<autoack_, writePos_, written>>

(* The loop of ack: n bytes from offset off of the buffer at pos on. *)
RECURSIVE Release(_, _, _)
Release(n, pos, off) ==
  IF n = 0 \/ pos \notin DOMAIN queue_
  THEN [pos |-> pos, off |-> off]
  ELSE LET left == Len(queue_[pos]) - off
       IN  IF left <= n THEN Release(n - left, pos + 1, 0)
                        ELSE [pos |-> pos, off |-> off + n]

Ack(n) ==
  LET end == Release(n, ackPos_, ackOffset_)
  IN  /\ queue_' = Freed(ackPos_, end.pos)
      /\ ackPos_' = end.pos /\ ackOffset_' = end.off
      /\ UNCHANGED <<autoack_, writePos_, readPos_, readOffset_, unreadCount_, written, out>>

(* What is queued, in order, and how much of it has not been acked. *)
Queued == FlattenSeq([i \in 1..(writePos_ - ackPos_) |-> queue_[ackPos_ + i - 1]])
UnackedCount == Len(Queued) - ackOffset_

(* The callers: an ack covers bytes that have been read, or comes when the  *)
(* buffer holds none.                                                       *)
Acked(n) == (n <= UnackedCount - unreadCount_ \/ queue_ = <<>>) /\ Ack(n)

Next ==
  \/ \E n \in 0..MaxLength : Write(n)
  \/ \E n \in 1..MaxLength : Read(n)
  \/ \E n \in 1..MaxLength : Acked(n)

=============================================================================
