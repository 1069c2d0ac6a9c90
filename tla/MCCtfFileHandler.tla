-------------------------- MODULE MCCtfFileHandler --------------------------
(* An instance of CtfFileHandler for TLC: a tag of three bytes that may overlap itself *)
EXTENDS CtfFileHandler
BytesOfTag == <<90, 80, 90>>
=============================================================================
