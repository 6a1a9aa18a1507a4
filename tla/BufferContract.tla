--------------------------- MODULE BufferContract ---------------------------
(***************************************************************************)
(* StreamBuffer as a specification of its own: the abstract buffer both    *)
(* implementations (ConcatBuffer, ScatGatBuffer) are shown to implement.   *)
(* out is what the last read returned.                                     *)
(***************************************************************************)
EXTENDS StreamBuffer, Sequences

VARIABLES autoack, out

contract == <<buf, autoack, out>>

(* The bytes after position from, up to position to. *)
BytesBetween(from, to) == [i \in 1..(to - from) |-> from + i]

Returned == out' = BytesBetween(read, read')

ContractInit == Init /\ autoack \in BOOLEAN /\ out = <<>>

ContractNext ==
  /\ UNCHANGED autoack
  /\ \/ Write(written' - written) /\ UNCHANGED out
     \/ Read(read' - read) /\ ~autoack /\ Returned
     \/ AutoackRead(read' - read) /\ autoack /\ Returned
     \/ Ack(acked' - acked) /\ acked' >= acked /\ UNCHANGED out

ContractSpec == ContractInit /\ [][ContractNext]_contract

=============================================================================
