--------------------------- MODULE MCPicoReceiver ---------------------------
(* Three senders, one of them with an empty file. *)
EXTENDS PicoReceiver

Sizes == <<3, 0, 2>>
=============================================================================
