------------------------------ MODULE SendLine ------------------------------
(***************************************************************************)
(* What the line of one chat promises the sends that wait in it             *)
(* (queueSessionTurn and the comment over queuedSessionTurns), whatever     *)
(* locks, card holds, streams, clocks and deletes do:                       *)
(*   - a send joins at the end, once, and only the head is handed the chat; *)
(*   - what it is handed is final: to run, to be kept unanswered at the end *)
(*     of the chat, or the news that the chat is gone;                      *)
(*   - a kept send stays kept, and is never handed the chat to run.         *)
(* SessionTurns implements this module (SessionTurns!LineServes).           *)
(***************************************************************************)
EXTENDS Sequences, SequencesExt

CONSTANT Sends

VARIABLES
  line,   \* the sends that wait, oldest first
  kept,   \* those of them, and of the past, that will never run
  fate    \* what each send has been told

lineVars == <<line, kept, fate>>

Fates == {"new", "waiting", "run", "keep", "cancelled"}

Init ==
  /\ line = <<>>
  /\ kept = {}
  /\ fate = [s \in Sends |-> "new"]

\* The waiting sends are l and their fates f; the head may be handed the chat.
Settle(l, f) ==
  \/ line' = l /\ fate' = f
  \/ /\ l # <<>>
     /\ line' = Tail(l)
     /\ fate' = [f EXCEPT ![Head(l)] = IF Head(l) \in kept' THEN "keep" ELSE "run"]

Join(s) ==
  /\ fate[s] = "new"
  /\ kept' \in {kept, kept \cup {s}}
  /\ Settle(Append(line, s), [fate EXCEPT ![s] = "waiting"])

HandOver == line # <<>> /\ kept' = kept /\ Settle(line, fate)

KeepAll ==
  /\ line # <<>>
  /\ kept' = kept \cup ToSet(line)
  /\ Settle(line, fate)

CancelAll ==
  /\ line # <<>>
  /\ line' = <<>>
  /\ fate' = [s \in Sends |-> IF s \in ToSet(line) THEN "cancelled" ELSE fate[s]]
  /\ UNCHANGED kept

Next == (\E s \in Sends : Join(s)) \/ HandOver \/ KeepAll \/ CancelAll

Spec == Init /\ [][Next]_lineVars
=============================================================================
