---------------------------- MODULE StreamBuffer ----------------------------
(***************************************************************************)
(* What BufferInterface (nassh/js/nassh_buffer_interface.js) promises its  *)
(* users.  The bytes of a stream are numbered from 1 in the order they are *)
(* written, so the buffer is three positions in the stream:                *)
(*                                                                         *)
(*    released <= acked <= read <= written                                 *)
(*    1 .. acked           data that has been released                     *)
(*    acked+1 .. read      data handed out but kept until it is acked      *)
(*    read+1 .. written    the unread data                                 *)
(*                                                                         *)
(* A read hands out read+1 .. read'.  There is no operation that moves     *)
(* read backwards: a byte is handed out once.                              *)
(***************************************************************************)
EXTENDS Integers

VARIABLES written, read, acked

buf == <<written, read, acked>>

Smaller(m, n) == IF m <= n THEN m ELSE n

Init == written = 0 /\ read = 0 /\ acked = 0

UnreadCount == written - read

IsEmpty == UnreadCount = 0

Write(n) == written' = written + n /\ UNCHANGED <<read, acked>>

(* Read at most n bytes: a short read when fewer are unread. *)
Read(n) == read' = Smaller(read + n, written) /\ UNCHANGED <<written, acked>>

(* The caller acks only bytes it has read. *)
Ack(n) == n <= read - acked /\ acked' = acked + n /\ UNCHANGED <<written, read>>

(* A buffer made with autoack = true acks whatever a read returns. *)
AutoackRead(n) ==
  /\ read' = Smaller(read + n, written)
  /\ acked' = read'
  /\ UNCHANGED written

=============================================================================
