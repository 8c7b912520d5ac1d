----------------------------- MODULE SteerInbox -----------------------------
(***************************************************************************)
(* The steer inbox of one chat (steerInboxRegistry.ts): the messages sent  *)
(* while the agent is replying, each filed under the assistant message it   *)
(* belongs inside.  The registry's two lists are sets here: every batch it  *)
(* hands out is listed in acceptance order, and nothing below depends on    *)
(* the order within a batch.  The six hour prune is left out: it can only   *)
(* meet an inbox whose request never ran its finally.                       *)
(*                                                                          *)
(* Where a steer is (at):                                                   *)
(*   idle        not sent yet                                               *)
(*   asking      an agent DM between its stamp and the check of the reply   *)
(*   missed      an agent DM refused at that check, not stamped back yet    *)
(*   refused     refused; the page sends it as an ordinary message          *)
(*   pending     accepted, waiting in the inbox                             *)
(*   delivered   in the inbox's list of what the model has read             *)
(*   taken       out of the inbox, in the hands of a request                *)
(*   written     its marker is in the transcript of the reply               *)
(*   promoted    saved as the user's next message, which is then answered   *)
(*   held        saved as a message that waits for an approval card         *)
(*   unanswered  saved, or reported to every tab, as not answered           *)
(*   waits       an agent DM that is an ordinary inbox item again           *)
(*   dropped     deleted from the inbox with nobody told                    *)
(***************************************************************************)
EXTENDS Naturals, FiniteSets

CONSTANTS
  Steers,    \* the messages that may be sent to a running reply
  Dms,       \* the steers that are agent DMs
  Held,      \* the user's steers marked to wait for the end of the reply
  Replies,   \* the assistant messages
  NoReply,   \* no assistant message
  SteerCap   \* how many steers may wait for one reply (MAX_PENDING_STEERS)

ASSUME InboxAssumption ==
  /\ IsFiniteSet(Steers)
  /\ Dms \subseteq Steers
  /\ Held \subseteq Steers \ Dms
  /\ NoReply \notin Replies
  /\ SteerCap \in Nat

Spots == { "idle", "asking", "missed", "refused", "pending", "delivered", "taken",
           "written", "promoted", "held", "unanswered", "waits", "dropped" }

EmptyInbox == [ at |-> [s \in Steers |-> "idle"],
                filed |-> [s \in Steers |-> NoReply],
                step |-> [s \in Steers |-> 0] ]

Inboxes == [ at : [Steers -> Spots],
             filed : [Steers -> Replies \cup {NoReply}],
             step : [Steers -> Nat] ]

-----------------------------------------------------------------------------
Move(b, S, spot) ==
  [b EXCEPT !.at = [s \in Steers |-> IF s \in S THEN spot ELSE b.at[s]]]

At(b, spot) == {s \in Steers : b.at[s] = spot}

PendingFor(b, m) == {s \in At(b, "pending") : b.filed[s] = m}

\* A mistake: without the cap.
HasNoCap(b, s, m) == s \in Dms => PendingFor(b, m) \cap Dms = {}

\* The two rules of enqueueSteer: the cap of one reply, and one DM waiting.
HasRoom(b, s, m) ==
  /\ Cardinality(PendingFor(b, m)) < SteerCap
  /\ s \in Dms => PendingFor(b, m) \cap Dms = {}

EnqueueSteer(b, s, m) == [Move(b, {s}, "pending") EXCEPT !.filed[s] = m]

\* takePendingSteersForDelivery, called between two steps of the model.
TakeForDelivery(b, m, k) ==
  LET mine == PendingFor(b, m) \ Held
  IN  [Move(b, mine, "delivered") EXCEPT
         !.step = [s \in Steers |-> IF s \in mine THEN k ELSE b.step[s]]]

\* A mistake: not waiting for the loop to finish the step (before F-P1-3).
ReadyAtOnce(b, m, k) == {s \in At(b, "delivered") : b.filed[s] = m}

\* What drainDeliveredSteers takes: what the model read at most k steps in.
Ready(b, m, k) == {s \in At(b, "delivered") : b.filed[s] = m /\ b.step[s] <= k}

\* A mistake: agent DMs taken along, as P1 did.
UndeliveredOfAll(b, m) == PendingFor(b, m)

\* takeUndeliveredSteers for the user's steers, queued ones too.
Undelivered(b, m) == PendingFor(b, m) \ Dms

\* A mistake: the steers stay behind (before BL-137).
RefileNothing(b, m, n) == b

\* refileUndeliveredSteers
Refile(b, m, n) ==
  [b EXCEPT !.filed =
     [s \in Steers |-> IF s \in PendingFor(b, m) THEN n ELSE b.filed[s]]]

\* Three mistakes: the live reply is not spared, its mail is taken instead, or
\* nobody is told.
MissedDmsOfAll(b, keep) == At(b, "pending") \cap Dms
MissedDmsOfKept(b, keep) == {s \in At(b, "pending") \cap Dms : b.filed[s] = keep}
MissedUsersUntold(b, keep) == {}

\* takeMissedDmSteers and takeMissedUserSteers
MissedDms(b, keep) == {s \in At(b, "pending") \cap Dms : b.filed[s] # keep}
MissedUsers(b, keep) == {s \in At(b, "pending") \ Dms : b.filed[s] # keep}

\* A mistake: the unscoped clear (before F-P1-1).
ClearAll(b, keep) == Move(b, At(b, "pending") \cup At(b, "delivered"), "dropped")

\* clearSteerInbox
Clear(b, keep) ==
  Move(b, {s \in At(b, "pending") \cup At(b, "delivered") : b.filed[s] # keep},
       "dropped")
=============================================================================
