----------------------------- MODULE MCPacketPath ------------------------------
(* A small instance of PacketPath for TLC.                                      *)
EXTENDS PacketPath
=================================================================================
