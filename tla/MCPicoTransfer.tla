--------------------------- MODULE MCPicoTransfer ---------------------------
(* Sizes for PicoTransfer.tla: with Byte = 3 the two size registers hold up *)
(* to 8, and with Field = 2 a size that reads as 1 leaves no bytes for the  *)
(* CRC.  Two files that fit, one that reads as 1 and one that reads as 0.   *)
EXTENDS PicoTransfer

MixedFiles == <<4, 4, 10, 9>>
=============================================================================
