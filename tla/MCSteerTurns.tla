---------------------------- MODULE MCSteerTurns ----------------------------
(* Instances of SteerTurns: two requests, two steers of the user, of which   *)
(* one may wait for the end of the reply, and two agent DMs.                 *)
EXTENDS SteerTurns

MCReplies == Requests \X (1 .. MaxRuns)
=============================================================================
