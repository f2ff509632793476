-------------------------------- MODULE MCSMTPSend --------------------------------
(* Instances of send() for TLC.                                             *)
EXTENDS SMTPSend

\* Replies of one line and of two; a refusal of which the texts look like replies.
SmallReplies ==
  [code \in Codes |->
     CASE code = "2" -> {<< <<code, "-">>, <<code, " ", "text">> >>}
       [] code = "5" -> {<< <<code, "-">>, <<code, "-", "2", "-">>, <<code, " ", "2", " ">> >>}
       [] OTHER      -> {<< <<code, " ", "text">> >>}]
================================================================================
