------------------------------ MODULE MCClient ------------------------------
(* Small instances of Client for TLC.                                      *)
EXTENDS Client

Printable == [type |-> "PRINTABLE", alias |-> ""]
Foreign == [type |-> "PRINTABLE", alias |-> "socket"]
Relayed == [type |-> "PRINTABLE", alias |-> "msg"]

\* The lines of the user: commands for the server.
Commands == {"msg"}

ForeignOrRelayed == {Foreign, Relayed}
Answers == {Printable}

=============================================================================
