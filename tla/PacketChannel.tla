--------------------------- MODULE PacketChannel ----------------------------
(***************************************************************************)
(* What one direction of a connection promises to the code above it: the   *)
(* packets arrive one by one, as they were sent and in the order they were *)
(* sent; a packet of an unknown id is passed over and nothing else is; a   *)
(* frame that is no packet ends the connection, and nothing behind it is   *)
(* seen.  A connection the peer leaves is ended when all of it has arrived *)
(* or right after a packet that was passed over.                           *)
(***************************************************************************)
EXTENDS Sequences

VARIABLES todo,    \* the frames the peer has sent or will send, oldest first
          done,    \* the packets handed on
          open,    \* the connection has not been ended by the reader
          passed   \* the last frame was passed over

vars == <<todo, done, open, passed>>

Seen(frame) == [name |-> frame.name, packet |-> frame.packet]

Init == done = <<>> /\ open = TRUE /\ passed = FALSE     \* and anything to be sent

Coming(kind) == open /\ todo # <<>> /\ Head(todo).kind = kind

End == todo' = <<>> /\ open' = FALSE /\ passed' = FALSE

Deliver ==
  /\ Coming("good")
  /\ done' = Append(done, Seen(Head(todo)))
  /\ todo' = Tail(todo)
  /\ passed' = FALSE
  /\ UNCHANGED open

\* The last packet of a status exchange: it is answered and the stream closed.
DeliverLast ==
  /\ Coming("last")
  /\ done' = Append(done, Seen(Head(todo)))
  /\ End

PassOver ==
  /\ Coming("unknown")
  /\ todo' = Tail(todo)
  /\ passed' = TRUE
  /\ UNCHANGED <<done, open>>

GoOn == passed /\ passed' = FALSE /\ UNCHANGED <<todo, done, open>>

Refuse ==
  /\ Coming("bad")
  /\ End
  /\ UNCHANGED done

\* Nothing is ever answered to a handshake that is not one.
Waiting == open /\ todo # <<>> /\ Head(todo).kind = "waits"

PeerLeft ==
  /\ open
  /\ todo = <<>> \/ passed \/ Waiting
  /\ End
  /\ UNCHANGED done

Next == Deliver \/ DeliverLast \/ PassOver \/ GoOn \/ Refuse \/ PeerLeft

SafeSpec == Init /\ [][Next]_vars

\* Nothing else that has been sent is left lying.
Spec == SafeSpec /\ <>(todo = <<>> \/ Waiting)

=============================================================================
