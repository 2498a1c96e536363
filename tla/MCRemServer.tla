---------------------------- MODULE MCRemServer ----------------------------
(* Model checking instances of RemServer.                                  *)
EXTENDS RemServer

\* Every command.
AllOfThem == AllCommands

\* One halt, commands that call DOS and commands that do not.
LiveCommands == {"PING", "INVALID", "HALT", "UNHALT", "FIND", "OPEN"}

\* The commands of one halt, one DOS call and one answer without DOS.
FewCommands == {"PING", "HALT", "UNHALT", "FIND"}
============================================================================
