----------------------------- MODULE MCBuffers ------------------------------
(***************************************************************************)
(* Both stream buffers against the one contract: kind says which           *)
(* implementation a behaviour is of, and its variables are the only ones   *)
(* that change.  Their common variables have the names they have there.    *)
(***************************************************************************)
EXTENDS Integers, Sequences

CONSTANTS MaxBytes, MaxWrites, MaxLength



VARIABLES
  kind,
  autoack_, readPos_, unreadCount_, written, out,
  buffer_,                                             \* ConcatBuffer only
  queue_, writePos_, readOffset_, ackPos_, ackOffset_  \* ScatGatBuffer only

Concat == INSTANCE ConcatBuffer
ScatGat == INSTANCE ScatGatBuffer

concatOnly == buffer_
scatGatOnly == <<queue_, writePos_, readOffset_, ackPos_, ackOffset_>>
vars == <<kind, autoack_, readPos_, unreadCount_, written, out, concatOnly, scatGatOnly>>

Init ==
  /\ kind \in {"concat", "scatgat"}
  /\ Concat!Init /\ ScatGat!Init

Next ==
  /\ UNCHANGED kind
  /\ \/ kind = "concat" /\ Concat!Next /\ UNCHANGED scatGatOnly
     \/ kind = "scatgat" /\ ScatGat!Next /\ UNCHANGED concatOnly

Spec == Init /\ [][Next]_vars

-----------------------------------------------------------------------------
(* How much of what was written has not been acked. *)
Unacked == IF kind = "concat" THEN Len(buffer_) ELSE ScatGat!UnackedCount

Contract == INSTANCE BufferContract
              WITH read <- written - unreadCount_, acked <- written - Unacked,
                   autoack <- autoack_

(* Both buffers implement what BufferInterface promises: reads return the   *)
(* stream's next bytes, and acks release exactly the bytes acked.           *)
ImplementsContract == Contract!ContractSpec

(* A read returns as much as was asked for, or everything unread, however   *)
(* the bytes are spread over the buffers written.                           *)
ReadsInFull ==
  \A n \in 1..MaxLength :
    (IF kind = "concat" THEN Concat!Read(n) ELSE ScatGat!Read(n))
      => Len(out') = Contract!Smaller(n, unreadCount_)

(* ScatGatBuffer frees a buffer as soon as it has been acked in full, and   *)
(* not before it has been read: the ack cursor never passes the read        *)
(* cursor, and exactly the positions from it on are still held.             *)
NothingLeaks ==
  kind = "scatgat" =>
    /\ DOMAIN queue_ = ackPos_..writePos_-1
    /\ ackPos_ < readPos_ \/ (ackPos_ = readPos_ /\ ackOffset_ <= readOffset_)
    /\ ackPos_ < writePos_ /\ Len(queue_[ackPos_]) > 0 => ackOffset_ < Len(queue_[ackPos_])

=============================================================================
