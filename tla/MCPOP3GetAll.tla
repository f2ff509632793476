------------------------------ MODULE MCPOP3GetAll ------------------------------
(* Instances of getAll for TLC.                                             *)
EXTENDS POP3GetAll

\* A message whose line ends in a dot, and one with a line that is a dot.
EndsInDot == << <<"text", ".">> >>
DotLine == << <<".", ".">>, <<"text">> >>

\* A message that can be taken to end too early, before a line that says yes.
SaysYesToo == << <<"text", ".">>, <<"+OK">> >>

SmallMailboxes ==
  {<<>>, << <<>> >>, <<EndsInDot>>, <<SaysYesToo, <<>> >>, <<DotLine, EndsInDot>>,
   <<EndsInDot, DotLine, EndsInDot>>}
================================================================================
