---------------------------- MODULE FifoChannel ----------------------------
(***************************************************************************)
(* What CNetwork_Asio::send_data promises its callers: every packet it     *)
(* accepts is handed to the socket at most once, and in the order of       *)
(* acceptance, whichever threads call it.                                  *)
(***************************************************************************)
EXTENDS Sequences

CONSTANT Packets

VARIABLES
  queue,   \* accepted, not yet handed to the socket
  wire     \* handed to the socket, in this order

vars == <<queue, wire>>

Init == queue = <<>> /\ wire = <<>>

Accept(p) ==
  /\ queue' = Append(queue, p)
  /\ UNCHANGED wire

Transmit ==
  /\ queue # <<>>
  /\ wire' = Append(wire, Head(queue))
  /\ queue' = Tail(queue)

Next == Transmit \/ \E p \in Packets : Accept(p)

Spec == Init /\ [][Next]_vars
=============================================================================
