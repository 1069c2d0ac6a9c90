--------------------------- MODULE MCTraceStream ---------------------------
(***************************************************************************)
(* The two programs on the host that look for start tags in the stream of  *)
(* a board: the server that shows it, and the capture command that saves   *)
(* it.  They share nothing; which of them runs is chosen at the start, and *)
(* the other one keeps its initial state.                                  *)
(***************************************************************************)
EXTENDS MCStreamParserProxy, MCCtfFileHandler

VARIABLE reader

readerVars == <<reader, vars, fileVars>>

\* The choices of a program are made only when it runs.
ReaderInit ==
  /\ reader \in {"server", "capture"}
  /\ Init /\ (reader # "server" => items = <<(<<>>)>>)
  /\ FileInit /\ (reader # "capture" => expect_start_tag)

ReaderNext ==
  /\ UNCHANGED reader
  /\ \/ reader = "server" /\ Next /\ UNCHANGED fileVars
     \/ reader = "capture" /\ FileNext /\ UNCHANGED vars

ReaderSpec == ReaderInit /\ [][ReaderNext]_readerVars
=============================================================================
