------------------------------ MODULE MCDecoder ------------------------------
(* Instance of Decoder for TLC: room for a player, the child of a failed   *)
(* execvp and its decoder, for an orphan and a restarted player's song, or *)
(* for players beside each other.                                          *)
EXTENDS Decoder

MCPids == 1 .. 3
MCPipes == 1 .. 2
=============================================================================
