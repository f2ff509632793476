------------------------------- MODULE CRLFLines -------------------------------
(* The bytes on a connection, and the lines that the split at CR LF of the  *)
(* mail clients makes of a chunk.                                           *)
EXTENDS Naturals, Sequences, SequencesExt

CRLF == <<"CR", "LF">>

\* The text of some lines, each with its end.
Join(lines) ==
  LET text[n \in 0..Len(lines)] ==
        IF n = 0 THEN <<>> ELSE text[n - 1] \o lines[n] \o CRLF
  IN text[Len(lines)]

EndsLine(lines, byte) == byte = "LF" /\ Last(lines) # <<>> /\ Last(Last(lines)) = "CR"
AddByte(lines, byte) ==
  IF EndsLine(lines, byte) THEN Append(Front(lines), Front(Last(lines))) \o << <<>> >>
                           ELSE Append(Front(lines), Append(Last(lines), byte))

\* data.split('\r\n'): the last line is the one that has not ended.
Split(bytes) ==
  LET lines[n \in 0..Len(bytes)] ==
        IF n = 0 THEN << <<>> >> ELSE AddByte(lines[n - 1], bytes[n])
  IN lines[Len(bytes)]
================================================================================
