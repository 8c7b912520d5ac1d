-------------------------- MODULE SteerTurnsProofs --------------------------
(***************************************************************************)
(* Proofs about SteerTurns.  SteerInv types the state and files every steer *)
(* under a run that began; the sections after its proof add, one invariant  *)
(* each, what a theorem needs: Boundaries (where markers stand), Delivered  *)
(* (what the model read), Spared (what a clean-up keeps), LockHeld and      *)
(* Registered (one live reply), and Honest, from which the promise follows. *)
(***************************************************************************)
EXTENDS SteerTurns, FiniteSetTheorems, TLAPS

-----------------------------------------------------------------------------
(* The functions of the inbox, message by message.                          *)

\* Moving messages leaves what they are filed under.
LEMMA Moved ==
  ASSUME NEW b \in Inboxes, NEW S, NEW spot \in Spots
  PROVE  /\ Move(b, S, spot) \in Inboxes
         /\ Move(b, S, spot).filed = b.filed
         /\ Move(b, S, spot).step = b.step
         /\ \A s \in Steers :
              Move(b, S, spot).at[s] = IF s \in S THEN spot ELSE b.at[s]
  BY DEF Move, Inboxes

LEMMA Enqueued ==
  ASSUME NEW b \in Inboxes, NEW e \in Steers, NEW m \in Replies
  PROVE  /\ EnqueueSteer(b, e, m) \in Inboxes
         /\ EnqueueSteer(b, e, m).step = b.step
         /\ \A s \in Steers :
              /\ EnqueueSteer(b, e, m).at[s] = IF s = e THEN "pending" ELSE b.at[s]
              /\ EnqueueSteer(b, e, m).filed[s] = IF s = e THEN m ELSE b.filed[s]
  BY DEF EnqueueSteer, Move, Inboxes, Spots

LEMMA HandedOver ==
  ASSUME NEW b \in Inboxes, NEW m, NEW k \in Nat
  PROVE  LET T == PendingFor(b, m) \ Held
             c == TakeForDelivery(b, m, k)
         IN  /\ c \in Inboxes
             /\ c.filed = b.filed
             /\ \A s \in Steers :
                  /\ c.at[s] = IF s \in T THEN "delivered" ELSE b.at[s]
                  /\ c.step[s] = IF s \in T THEN k ELSE b.step[s]
  BY DEF TakeForDelivery, Move, Inboxes, Spots

LEMMA Refiled ==
  ASSUME NEW b \in Inboxes, NEW m, NEW n \in Replies
  PROVE  /\ Refile(b, m, n) \in Inboxes
         /\ Refile(b, m, n).at = b.at
         /\ Refile(b, m, n).step = b.step
         /\ \A s \in Steers :
              Refile(b, m, n).filed[s] =
                IF s \in PendingFor(b, m) THEN n ELSE b.filed[s]
  BY DEF Refile, Inboxes

LEMMA Cleared ==
  ASSUME NEW b \in Inboxes, NEW m
  PROVE  /\ Clear(b, m) \in Inboxes
         /\ Clear(b, m).filed = b.filed
         /\ Clear(b, m).step = b.step
         /\ \A s \in Steers :
              Clear(b, m).at[s] =
                IF b.at[s] \in {"pending", "delivered"} /\ b.filed[s] # m
                THEN "dropped" ELSE b.at[s]
  <1>. DEFINE S == {s \in At(b, "pending") \cup At(b, "delivered") : b.filed[s] # m}
  <1>1. \A s \in Steers : s \in S <=>
          b.at[s] \in {"pending", "delivered"} /\ b.filed[s] # m
    BY DEF At
  <1>2. Clear(b, m) = Move(b, S, "dropped")
    BY DEF Clear
  <1>. HIDE DEF S
  <1>. QED BY <1>1, <1>2, Moved DEF Spots

-----------------------------------------------------------------------------
(* The invariant.                                                           *)

Own == {"setup", "streaming", "between", "leaving", "degrading"}
Cleaning == {"degrading", "telling"}
Numbers == 1 .. MaxRuns

Counts ==
  /\ \A r \in Requests : pc[r] = "idle" <=> run[r] = 0
  /\ \A r \in Requests : model[r].under => model[r].made < MaxSteps
  /\ \A r \in Requests : loop[r].done <= model[r].made
  /\ \A s \in Steers : box.step[s] <= MaxSteps

\* What is in the inbox is filed, and under no run that is yet to come.
Filed ==
  \A s \in Steers :
    /\ box.at[s] \in {"pending", "delivered"} => box.filed[s] # NoReply
    /\ \A r \in Requests, n \in Numbers : box.filed[s] = <<r, n>> => n <= run[r]

Waits ==
  \A s \in Steers \ Dms, r \in Requests, n \in Numbers :
    box.at[s] = "pending" /\ box.filed[s] = <<r, n>> => n = run[r] /\ pc[r] \in Own

Streams ==
  \A r \in Requests, n \in Numbers :
    stream = <<r, n>> => n = run[r] /\ pc[r] = "streaming"

\* No clean-up spares the mail of its own request.
Keeps ==
  \A r \in Requests, n \in Numbers : pc[r] \in Cleaning => keep[r] # <<r, n>>

Handed ==
  \A r \in Requests :
    /\ \A s \in hand[r] : box.at[s] = "taken"
    /\ \A q \in Requests \ {r} : hand[r] \cap hand[q] = {}
    /\ pc[r] \in {"promoting", "holding", "stranding", "telling"} => hand[r] \cap Dms = {}
    /\ pc[r] = "degrading" => hand[r] \subseteq Dms
    /\ pc[r] \in {"idle", "setup", "streaming", "between", "leaving", "done"} => hand[r] = {}

SteerInv ==
  /\ TypeOK /\ Counts /\ Filed /\ Waits /\ Streams /\ Keeps /\ Handed /\ WithinCap

LEMMA Answers ==
  /\ \A r \in Requests, n \in Numbers : <<r, n>> \in Replies
  /\ \A m \in Replies : \E r \in Requests, n \in Numbers : m = <<r, n>> /\ m[1] = r
  /\ NoReply \notin Replies
  BY TurnsAssumption, InboxAssumption DEF Numbers

LEMMA ReplyTyped ==
  ASSUME SteerInv, NEW r \in Requests, pc[r] # "idle"
  PROVE  Reply(r) \in Replies /\ run[r] \in Numbers
  BY Answers DEF SteerInv, TypeOK, Counts, Reply, Numbers

\* The cap holds when what waits for a reply all waited for one reply before.
LEMMA CapMoves ==
  ASSUME SteerInv,
         \A m \in Replies : \E n \in Replies : PendingFor(box', m) \subseteq PendingFor(box, n)
  PROVE  WithinCap'
  <1>. SUFFICES ASSUME NEW m \in Replies
                PROVE  /\ Cardinality(PendingFor(box', m)) <= SteerCap
                       /\ Cardinality(PendingFor(box', m) \cap Dms) <= 1
    BY DEF WithinCap
  <1>0. PICK n \in Replies : PendingFor(box', m) \subseteq PendingFor(box, n)
    OBVIOUS
  <1>1. PendingFor(box, n) \subseteq Steers
    BY DEF PendingFor, At
  <1>2. /\ IsFiniteSet(PendingFor(box, n)) /\ IsFiniteSet(PendingFor(box', m))
        /\ IsFiniteSet(PendingFor(box, n) \cap Dms)
        /\ IsFiniteSet(PendingFor(box', m) \cap Dms)
    BY <1>0, <1>1, FS_Subset, InboxAssumption
  <1>3. /\ Cardinality(PendingFor(box', m)) <= Cardinality(PendingFor(box, n))
        /\ Cardinality(PendingFor(box', m) \cap Dms)
              <= Cardinality(PendingFor(box, n) \cap Dms)
    BY <1>0, <1>2, FS_Subset
  <1>4. /\ Cardinality(PendingFor(box, n)) \in Nat
        /\ Cardinality(PendingFor(box, n) \cap Dms) \in Nat
        /\ Cardinality(PendingFor(box', m)) \in Nat
        /\ Cardinality(PendingFor(box', m) \cap Dms) \in Nat
    BY <1>2, FS_CardinalityType
  <1>. QED BY <1>3, <1>4, InboxAssumption DEF SteerInv, WithinCap

\* In particular when nothing comes in.
LEMMA NothingCameIn ==
  ASSUME SteerInv,
         \A s \in Steers : box'.at[s] = "pending" =>
                             box.at[s] = "pending" /\ box'.filed[s] = box.filed[s]
  PROVE  WithinCap'
  <1>1. \A m \in Replies : PendingFor(box', m) \subseteq PendingFor(box, m)
    BY DEF PendingFor, At
  <1>. QED BY <1>1, CapMoves

-----------------------------------------------------------------------------
(* The steps.                                                               *)

LEMMA Sizes ==
  /\ MaxRuns \in Nat /\ 1 <= MaxRuns
  /\ MaxSteps \in Nat /\ 1 <= MaxSteps
  /\ MaxPromotions \in Nat
  /\ NoReply \notin Requests
  BY TurnsAssumption

LEMMA TurnBeginsKeeps ==
  ASSUME SteerInv, NEW r \in Requests, TurnBegins(r)
  PROVE  SteerInv'
  <1>. USE DEF SteerInv, TurnBegins, Goto, flow, halt, run_
  <1>0. run' \in [Requests -> 0 .. MaxRuns]
    BY Sizes DEF TypeOK
  <1>1. TypeOK'
    BY <1>0 DEF TypeOK, Places
  <1>2. Counts'
    BY Sizes DEF TypeOK, Counts
  <1>5. Filed'
    BY Sizes DEF TypeOK, Counts, Filed, Numbers
  <1>3. Waits' /\ Streams' /\ Keeps' /\ Handed'
    BY DEF TypeOK, Waits, Streams, Keeps, Handed, Own, Cleaning, Counts
  <1>4. WithinCap'
    BY NothingCameIn
  <1>. QED BY <1>1, <1>2, <1>3, <1>4, <1>5

LEMMA StreamOpensKeeps ==
  ASSUME SteerInv, NEW r \in Requests, StreamOpens(r)
  PROVE  SteerInv'
  <1>. USE DEF SteerInv, StreamOpens, Goto, flow, halt, run_
  <1>1. TypeOK'
    BY ReplyTyped DEF TypeOK, Places
  <1>2. Counts' /\ Filed'
    BY DEF TypeOK, Counts, Filed, Numbers
  <1>3. Waits' /\ Keeps' /\ Handed'
    BY DEF TypeOK, Waits, Keeps, Handed, Own, Cleaning, Counts
  <1>5. Streams'
    BY DEF TypeOK, Streams, Reply
  <1>4. WithinCap'
    BY NothingCameIn
  <1>. QED BY <1>1, <1>2, <1>3, <1>4, <1>5

LEMMA SetupEndsKeeps ==
  ASSUME SteerInv, NEW r \in Requests, SetupEnds(r)
  PROVE  SteerInv'
  <1>. USE DEF SteerInv, SetupEnds, Goto, flow, halt, run_
  <1>2. TypeOK'
    BY DEF TypeOK, Places, Endings
  <1>3. Counts'
    BY DEF TypeOK, Counts
  <1>4. Filed'
    BY DEF TypeOK, Filed, Numbers
  <1>5. Waits'
    BY DEF TypeOK, Waits, Own, Numbers
  <1>6. Streams' /\ Keeps'
    BY DEF TypeOK, Streams, Keeps, Cleaning, Numbers
  <1>7. Handed'
    BY DEF TypeOK, Handed
  <1>8. WithinCap'
    BY NothingCameIn
  <1>. QED BY <1>2, <1>3, <1>4, <1>5, <1>6, <1>7, <1>8

\* A drain writes what is ready and moves nothing else.
LEMMA Drained ==
  ASSUME SteerInv, NEW r \in Requests, NEW k \in Nat, Drain(r, k)
  PROVE  /\ box' \in Inboxes
         /\ box'.filed = box.filed
         /\ box'.step = box.step
         /\ mark' \in [Steers -> Positions]
         /\ \A s \in Steers :
              LET ready == box.at[s] = "delivered" /\ box.filed[s] = Reply(r) /\ box.step[s] <= k
              IN  /\ box'.at[s] = IF ready THEN "written" ELSE box.at[s]
                  /\ mark'[s] = IF ready THEN loop[r] ELSE mark[s]
  <1>. DEFINE S == Ready(box, Reply(r), k)
  <1>1. \A s \in Steers : s \in S <=>
          box.at[s] = "delivered" /\ box.filed[s] = Reply(r) /\ box.step[s] <= k
    BY DEF Ready, At
  <1>2. /\ box' = Move(box, S, "written")
        /\ mark' = [s \in Steers |-> IF s \in S THEN loop[r] ELSE mark[s]]
    BY DEF Drain
  <1>3. box \in Inboxes /\ loop[r] \in Positions /\ mark \in [Steers -> Positions]
    BY DEF SteerInv, TypeOK
  <1>. HIDE DEF S
  <1>. QED BY <1>1, <1>2, <1>3, Moved DEF Spots

\* What the type says of one run's counters.
LEMMA RunTyped ==
  ASSUME SteerInv, NEW r \in Requests
  PROVE  /\ model[r].made \in Nat /\ model[r].made <= MaxSteps
         /\ model[r].under => model[r].made < MaxSteps
         /\ loop[r].done \in Nat /\ loop[r].done <= model[r].made
  <1>1. model[r] \in Runs /\ loop[r] \in Positions
    BY DEF SteerInv, TypeOK
  <1>2. /\ model[r].under => model[r].made < MaxSteps
        /\ loop[r].done <= model[r].made
    BY DEF SteerInv, Counts
  <1>. QED BY <1>1, <1>2, Sizes DEF Runs, Positions

LEMMA ModelStepsKeeps ==
  ASSUME SteerInv, NEW r \in Requests, ModelSteps(r)
  PROVE  SteerInv'
  <1>. USE DEF SteerInv, flow, halt
  <1>. DEFINE k == model[r].made + 1
  <1>a. /\ k \in Nat /\ k <= MaxSteps /\ k \in 0 .. MaxSteps
        /\ model[r].made <= k
    <2>1. model[r].under
      BY DEF ModelSteps
    <2>2. /\ model[r].made \in Nat /\ MaxSteps \in Nat
          /\ model[r].made < MaxSteps
      BY <2>1, RunTyped, Sizes
    <2>. QED BY <2>2
  <1>1. /\ pc[r] = "streaming"
        /\ \/ /\ k < MaxSteps
              /\ model' = [model EXCEPT ![r].made = k]
              /\ box' = TakeForDelivery(box, Reply(r), k)
           \/ /\ model' = [model EXCEPT ![r].made = k, ![r].under = FALSE]
              /\ box' = box
        /\ UNCHANGED <<stream, lock, ended, flow, halt, loop, mark, stamp>>
    BY DEF ModelSteps
  <1>b. box \in Inboxes /\ model \in [Requests -> Runs]
    BY DEF TypeOK
  <1>. HIDE DEF k
  <1>0. /\ box' \in Inboxes
        /\ box'.filed = box.filed
        /\ \A s \in Steers :
             \/ box'.at[s] = box.at[s] /\ box'.step[s] = box.step[s]
             \/ box.at[s] = "pending" /\ box'.at[s] = "delivered" /\ box'.step[s] = k
    <2>1. CASE box' = box
      BY <2>1, <1>b
    <2>2. CASE box' = TakeForDelivery(box, Reply(r), k)
      <3>1. \A s \in Steers : s \in PendingFor(box, Reply(r)) => box.at[s] = "pending"
        BY DEF PendingFor, At
      <3>. QED BY <2>2, <3>1, <1>a, <1>b, HandedOver
    <2>. QED BY <1>1, <2>1, <2>2
  <1>8a. /\ model' \in [Requests -> Runs]
         /\ \A q \in Requests \ {r} : model'[q] = model[q]
         /\ model'[r].made = k
         /\ model'[r].under => k < MaxSteps
    <2>1. CASE k < MaxSteps /\ model' = [model EXCEPT ![r].made = k]
      BY <2>1, <1>a, <1>b, Sizes DEF Runs
    <2>2. CASE model' = [model EXCEPT ![r].made = k, ![r].under = FALSE]
      BY <2>2, <1>a, <1>b, Sizes DEF Runs
    <2>. QED BY <1>1, <2>1, <2>2
  <1>2. TypeOK'
    BY <1>0, <1>1, <1>8a DEF TypeOK
  <1>3. Counts'
    <2>1. \A q \in Requests : loop'[q].done <= model'[q].made
      <3>1. TAKE q \in Requests
      <3>2. CASE q = r
        <4>1. /\ loop[q].done \in Nat /\ model[q].made \in Nat
              /\ loop[q].done <= model[q].made
          BY RunTyped
        <4>2. loop'[q].done = loop[q].done /\ model'[q].made = k /\ model[q].made <= k
          BY <3>2, <1>1, <1>8a, <1>a
        <4>. QED BY <4>1, <4>2, <1>a
      <3>3. CASE q # r
        BY <3>3, <1>1, <1>8a, RunTyped
      <3>. QED BY <3>2, <3>3
    <2>2. \A q \in Requests : model'[q].under => model'[q].made < MaxSteps
      BY <1>8a, RunTyped
    <2>3. \A s \in Steers : box'.step[s] <= MaxSteps
      BY <1>0, <1>a DEF Counts
    <2>4. \A q \in Requests : pc'[q] = "idle" <=> run'[q] = 0
      BY <1>1 DEF Counts
    <2>. QED BY <2>1, <2>2, <2>3, <2>4 DEF Counts
  <1>4. Filed'
    BY <1>0, <1>1 DEF TypeOK, Filed
  <1>5. Waits'
    BY <1>0, <1>1 DEF TypeOK, Waits
  <1>6. Streams' /\ Keeps'
    BY <1>0, <1>1 DEF TypeOK, Streams, Keeps
  <1>7. Handed'
    BY <1>0, <1>1 DEF TypeOK, Handed
  <1>8. WithinCap'
    BY <1>0, <1>1, NothingCameIn
  <1>. QED BY <1>2, <1>3, <1>4, <1>5, <1>6, <1>7, <1>8

\* What every drain leaves as it was.
LEMMA DrainKeeps ==
  ASSUME SteerInv, NEW r \in Requests, NEW k \in Nat, Drain(r, k)
  PROVE  /\ box' \in Inboxes /\ box'.filed = box.filed /\ box'.step = box.step
         /\ mark' \in [Steers -> Positions]
         /\ \A s \in Steers : \/ box'.at[s] = box.at[s]
                              \/ box.at[s] = "delivered" /\ box'.at[s] = "written"
  BY Drained

LEMMA ModelFinishesKeeps ==
  ASSUME SteerInv, NEW r \in Requests, ModelFinishes(r)
  PROVE  SteerInv'
  <1>. USE DEF SteerInv, flow, halt
  <1>1. /\ pc[r] = "streaming" /\ Drain(r, MaxSteps)
        /\ model' = [model EXCEPT ![r].over = TRUE]
        /\ UNCHANGED <<stream, lock, ended, flow, halt, loop, stamp>>
    BY DEF ModelFinishes
  <1>0. /\ box' \in Inboxes /\ box'.filed = box.filed /\ box'.step = box.step
        /\ mark' \in [Steers -> Positions]
        /\ \A s \in Steers : \/ box'.at[s] = box.at[s]
                             \/ box.at[s] = "delivered" /\ box'.at[s] = "written"
    BY <1>1, Sizes, DrainKeeps
  <1>b. model \in [Requests -> Runs]
    BY DEF TypeOK
  <1>9. /\ model' \in [Requests -> Runs]
        /\ \A q \in Requests : /\ model'[q].made = model[q].made
                               /\ model'[q].under = model[q].under
    BY <1>1, <1>b DEF Runs
  <1>2. TypeOK'
    BY <1>0, <1>1, <1>9 DEF TypeOK
  <1>3. Counts'
    BY <1>0, <1>1, <1>9 DEF Counts
  <1>4. Filed'
    BY <1>0, <1>1 DEF TypeOK, Filed
  <1>5. Waits'
    BY <1>0, <1>1 DEF TypeOK, Waits
  <1>6. Streams' /\ Keeps'
    BY <1>0, <1>1 DEF TypeOK, Streams, Keeps
  <1>7. Handed'
    BY <1>0, <1>1 DEF TypeOK, Handed
  <1>8. WithinCap'
    BY <1>0, <1>1, NothingCameIn
  <1>. QED BY <1>2, <1>3, <1>4, <1>5, <1>6, <1>7, <1>8

LEMMA LoopWritesKeeps ==
  ASSUME SteerInv, NEW r \in Requests, LoopWrites(r)
  PROVE  SteerInv'
  <1>. USE DEF SteerInv, flow, halt
  <1>1. /\ pc[r] = "streaming" /\ Drain(r, loop[r].done)
        /\ \/ loop' = [loop EXCEPT ![r].inside = TRUE]
           \/ /\ loop[r].done < model[r].made
              /\ loop' = [loop EXCEPT ![r] = [done |-> loop[r].done + 1, inside |-> FALSE]]
        /\ UNCHANGED <<stream, lock, ended, flow, halt, model, stamp>>
    BY DEF LoopWrites
  <1>0. /\ box' \in Inboxes /\ box'.filed = box.filed /\ box'.step = box.step
        /\ mark' \in [Steers -> Positions]
        /\ \A s \in Steers : \/ box'.at[s] = box.at[s]
                             \/ box.at[s] = "delivered" /\ box'.at[s] = "written"
    BY <1>1, RunTyped, DrainKeeps
  <1>b. loop \in [Requests -> Positions]
    BY DEF TypeOK
  <1>9. /\ loop' \in [Requests -> Positions]
        /\ \A q \in Requests : loop'[q].done <= model[q].made
    <2>1. CASE loop' = [loop EXCEPT ![r].inside = TRUE]
      <3>1. /\ loop' \in [Requests -> Positions]
            /\ \A q \in Requests : loop'[q].done = loop[q].done
        BY <2>1, <1>b DEF Positions
      <3>. QED BY <3>1, RunTyped
    <2>2. CASE /\ loop[r].done < model[r].made
               /\ loop' = [loop EXCEPT ![r] = [done |-> loop[r].done + 1, inside |-> FALSE]]
      <3>1. loop[r].done + 1 \in 0 .. MaxSteps /\ loop[r].done + 1 <= model[r].made
        <4>1. /\ loop[r].done \in Nat /\ model[r].made \in Nat /\ MaxSteps \in Nat
              /\ model[r].made <= MaxSteps
          BY RunTyped, Sizes
        <4>. QED BY <4>1, <2>2
      <3>2. [done |-> loop[r].done + 1, inside |-> FALSE] \in Positions
        BY <3>1 DEF Positions
      <3>. QED BY <2>2, <3>1, <3>2, <1>b, RunTyped
    <2>. QED BY <1>1, <2>1, <2>2
  <1>2. TypeOK'
    BY <1>0, <1>1, <1>9 DEF TypeOK
  <1>3. Counts'
    BY <1>0, <1>1, <1>9 DEF Counts
  <1>4. Filed'
    BY <1>0, <1>1 DEF TypeOK, Filed
  <1>5. Waits'
    BY <1>0, <1>1 DEF TypeOK, Waits
  <1>6. Streams' /\ Keeps'
    BY <1>0, <1>1 DEF TypeOK, Streams, Keeps
  <1>7. Handed'
    BY <1>0, <1>1 DEF TypeOK, Handed
  <1>8. WithinCap'
    BY <1>0, <1>1, NothingCameIn
  <1>. QED BY <1>2, <1>3, <1>4, <1>5, <1>6, <1>7, <1>8

LEMMA StreamClosed ==
  ASSUME SteerInv, NEW r \in Requests, pc[r] = "streaming", CloseStream(r)
  PROVE  /\ model' \in [Requests -> Runs] /\ loop' \in [Requests -> Positions]
         /\ ended' \in BOOLEAN /\ aborted' \subseteq Requests
         /\ stream' \in Replies \cup {NoReply}
         /\ \A q \in Requests, n \in Numbers :
              stream' = <<q, n>> => q # r /\ stream = <<q, n>>
         /\ \A q \in Requests : /\ model'[q].under => model'[q].made < MaxSteps
                                /\ loop'[q].done <= model'[q].made
  <1>1. /\ model \in [Requests -> Runs] /\ loop \in [Requests -> Positions]
        /\ stream \in Replies \cup {NoReply} /\ aborted \subseteq Requests
        /\ Begun \in Runs /\ Nowhere \in Positions
    BY Sizes DEF SteerInv, TypeOK, Begun, Nowhere, Runs, Positions
  <1>2. \A q \in Requests : \/ model'[q] = model[q] /\ loop'[q] = loop[q]
                            \/ model'[q] = Begun /\ loop'[q] = Nowhere
    BY <1>1 DEF CloseStream
  <1>3. \A q \in Requests : /\ model'[q].under => model'[q].made < MaxSteps
                            /\ loop'[q].done <= model'[q].made
    BY <1>2, RunTyped, Sizes DEF Begun, Nowhere
  <1>4. \A q \in Requests, n \in Numbers :
              stream' = <<q, n>> => q # r /\ stream = <<q, n>>
    <2>. SUFFICES ASSUME NEW q \in Requests, NEW n \in Numbers, stream' = <<q, n>>
                  PROVE  q # r /\ stream = <<q, n>>
      OBVIOUS
    <2>1. <<q, n>> # NoReply
      BY Answers
    <2>2. stream # Reply(r) /\ stream = <<q, n>>
      BY <2>1 DEF CloseStream
    <2>. QED BY <2>2 DEF SteerInv, Streams, Reply
  <1>. QED BY <1>1, <1>3, <1>4 DEF CloseStream

LEMMA StreamEndsKeeps ==
  ASSUME SteerInv, NEW r \in Requests, NEW how \in Endings, StreamEnds(r, how)
  PROVE  SteerInv'
  <1>. USE DEF SteerInv, flow, halt
  <1>1. /\ pc[r] = "streaming" /\ Drain(r, MaxSteps) /\ CloseStream(r)
        /\ result' = [result EXCEPT ![r] = how]
        /\ pc' = [pc EXCEPT ![r] = "between"]
        /\ UNCHANGED <<lock, run, chances, hand, keep, signalled, stamp>>
    BY DEF StreamEnds, Goto
  <1>0. /\ box' \in Inboxes /\ box'.filed = box.filed /\ box'.step = box.step
        /\ mark' \in [Steers -> Positions]
        /\ \A s \in Steers : \/ box'.at[s] = box.at[s]
                             \/ box.at[s] = "delivered" /\ box'.at[s] = "written"
    BY <1>1, Sizes, DrainKeeps
  <1>2. TypeOK'
    BY <1>0, <1>1, StreamClosed DEF TypeOK, Places
  <1>3. Counts'
    BY <1>0, <1>1, StreamClosed DEF TypeOK, Counts
  <1>4. Filed'
    BY <1>0, <1>1 DEF TypeOK, Filed
  <1>5. Waits'
    BY <1>0, <1>1 DEF TypeOK, Waits, Own
  <1>6. Streams'
    BY <1>1, StreamClosed DEF TypeOK, Streams
  <1>7. Keeps' /\ Handed'
    BY <1>0, <1>1 DEF TypeOK, Keeps, Cleaning, Handed
  <1>8. WithinCap'
    BY <1>0, <1>1, NothingCameIn
  <1>. QED BY <1>2, <1>3, <1>4, <1>5, <1>6, <1>7, <1>8

LEMMA StreamThrowsKeeps ==
  ASSUME SteerInv, NEW r \in Requests, StreamThrows(r)
  PROVE  SteerInv'
  <1>. USE DEF SteerInv, flow, halt
  <1>1. /\ pc[r] = "streaming" /\ CloseStream(r)
        /\ \E how \in Endings : result' = [result EXCEPT ![r] = how]
        /\ pc' = [pc EXCEPT ![r] = "between"]
        /\ UNCHANGED <<box, lock, run, chances, hand, keep, signalled, mark, stamp>>
    BY DEF StreamThrows, Goto, Endings
  <1>2. TypeOK'
    BY <1>1, StreamClosed DEF TypeOK, Places, Endings
  <1>3. Counts'
    BY <1>1, StreamClosed DEF TypeOK, Counts
  <1>4. Filed'
    BY <1>1 DEF TypeOK, Filed
  <1>5. Waits'
    BY <1>1 DEF TypeOK, Waits, Own
  <1>6. Streams'
    BY <1>1, StreamClosed DEF TypeOK, Streams
  <1>7. Keeps' /\ Handed'
    BY <1>1 DEF TypeOK, Keeps, Cleaning, Handed
  <1>8. WithinCap'
    BY <1>1, NothingCameIn
  <1>. QED BY <1>2, <1>3, <1>4, <1>5, <1>6, <1>7, <1>8

LEMMA ContinuesKeeps ==
  ASSUME SteerInv, NEW r \in Requests, Continues(r)
  PROVE  SteerInv'
  <1>. USE DEF SteerInv, flow, halt, run_
  <1>. DEFINE n == run[r] + 1
  <1>1. /\ pc[r] = "between" /\ run[r] < MaxRuns
        /\ box' = Refile(box, Reply(r), <<r, n>>)
        /\ run' = [run EXCEPT ![r] = n]
        /\ pc' = [pc EXCEPT ![r] = "setup"]
        /\ UNCHANGED <<stream, lock, ended, result, chances, hand, keep, halt, run_, stamp>>
    BY DEF Continues, NextRun, Goto
  <1>a. run[r] \in Numbers /\ Reply(r) \in Replies
    BY <1>1, ReplyTyped
  <1>b. n \in Numbers /\ n \in 0 .. MaxRuns /\ run[r] < n /\ n # 0
    BY <1>1, <1>a, Sizes DEF Numbers
  <1>c. <<r, n>> \in Replies
    BY <1>b, Answers
  <1>. HIDE DEF n
  <1>0. /\ box' \in Inboxes /\ box'.at = box.at /\ box'.step = box.step
        /\ \A s \in Steers :
             box'.filed[s] = IF box.at[s] = "pending" /\ box.filed[s] = Reply(r)
                             THEN <<r, n>> ELSE box.filed[s]
    BY <1>1, <1>c, Refiled DEF TypeOK, PendingFor, At
  <1>2. TypeOK'
    BY <1>0, <1>1, <1>b DEF TypeOK, Places
  <1>3. Counts'
    BY <1>0, <1>1, <1>b DEF TypeOK, Counts
  <1>4. Filed'
    <2>1. \A s \in Steers : box'.at[s] \in {"pending", "delivered"} => box'.filed[s] # NoReply
      BY <1>0, <1>c, Answers DEF Filed
    <2>2. ASSUME NEW s \in Steers, NEW q \in Requests, NEW k \in Numbers,
                 box'.filed[s] = <<q, k>>
          PROVE  k <= run'[q]
      <3>1. CASE box.filed[s] = <<q, k>>
        <4>1. k <= run[q]
          BY <3>1 DEF Filed
        <4>2. run[q] \in Nat /\ k \in Nat
          BY DEF TypeOK, Numbers
        <4>. QED BY <4>1, <4>2, <1>1, <1>a, <1>b DEF TypeOK, Numbers
      <3>2. CASE box'.filed[s] = <<r, n>>
        BY <3>2, <2>2, <1>1, <1>b DEF TypeOK, Numbers
      <3>. QED BY <3>1, <3>2, <2>2, <1>0
    <2>. QED BY <2>1, <2>2 DEF Filed
  <1>5. Waits'
    <2>. SUFFICES ASSUME NEW s \in Steers \ Dms, NEW q \in Requests, NEW k \in Numbers,
                         box'.at[s] = "pending", box'.filed[s] = <<q, k>>
                  PROVE  k = run'[q] /\ pc'[q] \in Own
      BY DEF Waits
    <2>1. CASE box.filed[s] = <<q, k>> /\ q # r
      BY <2>1, <1>0, <1>1 DEF Waits, TypeOK
    <2>2. CASE box.filed[s] = <<q, k>> /\ q = r
      <3>1. k = run[r]
        BY <2>2, <1>0 DEF Waits
      <3>2. box'.filed[s] = <<r, n>>
        BY <2>2, <3>1, <1>0 DEF Reply
      <3>. QED BY <3>1, <3>2, <1>b, <2>2
    <2>3. CASE box'.filed[s] = <<r, n>>
      BY <2>3, <1>1 DEF TypeOK, Own
    <2>. QED BY <2>1, <2>2, <2>3, <1>0
  <1>6. Streams'
    BY <1>1 DEF TypeOK, Streams
  <1>7. Keeps' /\ Handed'
    BY <1>0, <1>1 DEF TypeOK, Keeps, Cleaning, Handed
  <1>8. WithinCap'
    <2>1. PendingFor(box', <<r, n>>) \subseteq PendingFor(box, Reply(r))
      <3>1. \A s \in Steers : box.filed[s] # <<r, n>>
        BY <1>a, <1>b DEF Filed, Numbers
      <3>. QED BY <3>1, <1>0 DEF PendingFor, At
    <2>2. \A m \in Replies \ {<<r, n>>} : PendingFor(box', m) \subseteq PendingFor(box, m)
      BY <1>0 DEF PendingFor, At
    <2>3. \A m \in Replies : \E k \in Replies :
             PendingFor(box', m) \subseteq PendingFor(box, k)
      BY <2>1, <2>2, <1>a
    <2>. QED BY <2>3, CapMoves
  <1>. QED BY <1>2, <1>3, <1>4, <1>5, <1>6, <1>7, <1>8

LEMMA TakesWhatIsLeftKeeps ==
  ASSUME SteerInv, NEW r \in Requests, TakesWhatIsLeft(r)
  PROVE  SteerInv'
  <1>. USE DEF SteerInv, flow, halt, run_
  <1>. DEFINE left == Undelivered(box, Reply(r))
  <1>a. /\ left \subseteq Steers \ Dms
        /\ \A s \in left : box.at[s] = "pending"
        /\ \A s \in Steers \ Dms : s \notin left =>
             ~(box.at[s] = "pending" /\ box.filed[s] = Reply(r))
    BY DEF Undelivered, PendingFor, At
  <1>b. /\ pc[r] = "between"
        /\ UNCHANGED <<stream, lock, ended, run, result, keep, halt, run_, stamp>>
    BY DEF TakesWhatIsLeft
  <1>1. CASE pc' = [pc EXCEPT ![r] = "leaving"] /\ UNCHANGED <<box, chances, hand>>
    <2>2. TypeOK'
      BY <1>b, <1>1 DEF TypeOK, Places
    <2>3. Counts' /\ Filed'
      BY <1>b, <1>1 DEF TypeOK, Counts, Filed
    <2>5. Waits' /\ Streams'
      BY <1>b, <1>1 DEF TypeOK, Waits, Own, Streams
    <2>7. Keeps' /\ Handed'
      BY <1>b, <1>1 DEF TypeOK, Keeps, Cleaning, Handed
    <2>8. WithinCap'
      BY <1>1, NothingCameIn
    <2>. QED BY <2>2, <2>3, <2>5, <2>7, <2>8
  <1>2. ASSUME NEW place \in {"promoting", "holding", "stranding"},
               pc' = [pc EXCEPT ![r] = place],
               box' = Move(box, left, "taken"),
               hand' = [hand EXCEPT ![r] = left],
               chances' \in [Requests -> 0 .. MaxPromotions]
        PROVE  SteerInv'
    <2>0. /\ box' \in Inboxes /\ box'.filed = box.filed /\ box'.step = box.step
          /\ \A s \in Steers : box'.at[s] = IF s \in left THEN "taken" ELSE box.at[s]
      BY <1>2, Moved DEF TypeOK, Spots
    <2>. HIDE DEF left
    <2>2. TypeOK'
      BY <2>0, <1>a, <1>b, <1>2 DEF TypeOK, Places
    <2>3. Counts' /\ Filed'
      BY <2>0, <1>b, <1>2 DEF TypeOK, Counts, Filed
    <2>5. Waits'
      <3>. SUFFICES ASSUME NEW s \in Steers \ Dms, NEW q \in Requests, NEW k \in Numbers,
                           box'.at[s] = "pending", box'.filed[s] = <<q, k>>
                    PROVE  k = run'[q] /\ pc'[q] \in Own
        BY DEF Waits
      <3>1. box.at[s] = "pending" /\ box.filed[s] = <<q, k>> /\ s \notin left
        BY <2>0
      <3>2. k = run[q] /\ pc[q] \in Own
        BY <3>1 DEF Waits
      <3>3. q # r
        BY <3>1, <3>2, <1>a DEF Reply
      <3>. QED BY <3>2, <3>3, <1>b, <1>2 DEF TypeOK
    <2>6. Streams' /\ Keeps'
      BY <1>b, <1>2 DEF TypeOK, Streams, Keeps, Cleaning
    <2>7. Handed'
      BY <2>0, <1>a, <1>b, <1>2 DEF TypeOK, Handed
    <2>8. WithinCap'
      BY <2>0, NothingCameIn
    <2>. QED BY <2>2, <2>3, <2>5, <2>6, <2>7, <2>8
  <1>3. chances' \in [Requests -> 0 .. MaxPromotions]
    <2>1. chances[r] \in 0 .. MaxPromotions
      BY DEF TypeOK
    <2>2. CASE chances' = chances
      BY <2>2 DEF TypeOK
    <2>3. CASE ~AtBound(r) /\ chances' = [chances EXCEPT ![r] = @ + 1]
      BY <2>1, <2>3, Sizes DEF TypeOK, AtBound
    <2>. QED BY <2>2, <2>3 DEF TakesWhatIsLeft
  <1>4. \/ pc' = [pc EXCEPT ![r] = "leaving"] /\ UNCHANGED <<box, chances, hand>>
        \/ \E place \in {"promoting", "holding", "stranding"} :
             /\ pc' = [pc EXCEPT ![r] = place]
             /\ box' = Move(box, left, "taken")
             /\ hand' = [hand EXCEPT ![r] = left]
    BY DEF TakesWhatIsLeft, Goto
  <1>. QED BY <1>1, <1>2, <1>3, <1>4

\* A request that has steers in its hands settles them.
LEMMA Settled ==
  ASSUME SteerInv, NEW r \in Requests, NEW outcome \in Spots \ {"pending", "delivered"},
         Settle(r, outcome)
  PROVE  /\ box' \in Inboxes /\ box'.filed = box.filed /\ box'.step = box.step
         /\ hand' \in [Requests -> SUBSET Steers]
         /\ hand'[r] = {} /\ \A q \in Requests \ {r} : hand'[q] = hand[q]
         /\ \A s \in Steers : box'.at[s] = IF s \in hand[r] THEN outcome ELSE box.at[s]
         /\ \A s \in Steers : box'.at[s] \in {"pending", "delivered"} => box'.at[s] = box.at[s]
         /\ \A q \in Requests : \A s \in hand'[q] : box'.at[s] = "taken"
  <1>1. box \in Inboxes /\ hand \in [Requests -> SUBSET Steers]
    BY DEF SteerInv, TypeOK
  <1>2. /\ box' \in Inboxes /\ box'.filed = box.filed /\ box'.step = box.step
        /\ \A s \in Steers : box'.at[s] = IF s \in hand[r] THEN outcome ELSE box.at[s]
    BY <1>1, Moved DEF Settle
  <1>3. /\ hand' \in [Requests -> SUBSET Steers]
        /\ hand'[r] = {} /\ \A q \in Requests \ {r} : hand'[q] = hand[q]
    BY <1>1 DEF Settle
  <1>4. \A q \in Requests : \A s \in hand'[q] : box'.at[s] = "taken"
    BY <1>1, <1>2, <1>3 DEF SteerInv, Handed
  <1>. QED BY <1>2, <1>3, <1>4

LEMMA SettlesAndLeaves ==
  ASSUME SteerInv, NEW r \in Requests, NEW outcome \in Spots \ {"pending", "delivered"},
         Settle(r, outcome), pc' = [pc EXCEPT ![r] = "leaving"],
         pc[r] \in {"promoting", "holding", "stranding"},
         UNCHANGED <<stream, lock, ended, run, result, chances, keep, halt, run_, stamp>>
  PROVE  SteerInv'
  <1>. USE DEF SteerInv, halt, run_
  <1>2. TypeOK'
    BY Settled DEF TypeOK, Places
  <1>3. Counts' /\ Filed'
    BY SMTT(30), Settled DEF TypeOK, Counts, Filed
  <1>5. Waits'
    BY Settled DEF TypeOK, Waits, Own
  <1>6. Streams' /\ Keeps'
    BY DEF TypeOK, Streams, Keeps, Cleaning
  <1>7. Handed'
    BY Settled DEF TypeOK, Handed
  <1>8. WithinCap'
    BY Settled, NothingCameIn
  <1>. QED BY <1>2, <1>3, <1>5, <1>6, <1>7, <1>8

LEMMA SavesWithoutAnswerKeeps ==
  ASSUME SteerInv, NEW r \in Requests, SavesWithoutAnswer(r)
  PROVE  SteerInv'
  BY SettlesAndLeaves DEF SavesWithoutAnswer, Goto, Spots

LEMMA PromotionEndsKeeps ==
  ASSUME SteerInv, NEW r \in Requests, PromotionEnds(r)
  PROVE  SteerInv'
  <1>1. CASE Settle(r, "unanswered") /\ pc' = [pc EXCEPT ![r] = "leaving"] /\ UNCHANGED run
    BY <1>1, SettlesAndLeaves DEF PromotionEnds, Spots
  <1>2. CASE run[r] < MaxRuns /\ Settle(r, "promoted") /\ NextRun(r)
    <2>. USE DEF SteerInv, halt, run_
    <2>1. /\ pc[r] = "promoting" /\ run[r] < MaxRuns
          /\ run' = [run EXCEPT ![r] = run[r] + 1]
          /\ pc' = [pc EXCEPT ![r] = "setup"]
          /\ UNCHANGED <<stream, lock, ended, result, chances, keep, halt, run_, stamp>>
      BY <1>2 DEF PromotionEnds, NextRun, Goto
    <2>a. run[r] \in Numbers
      BY <2>1, ReplyTyped
    <2>b. run[r] + 1 \in 0 .. MaxRuns /\ run[r] < run[r] + 1 /\ run[r] + 1 # 0
      BY <2>1, <2>a, Sizes DEF Numbers
    <2>0. /\ box' \in Inboxes /\ box'.filed = box.filed /\ box'.step = box.step
          /\ hand' \in [Requests -> SUBSET Steers]
          /\ hand'[r] = {} /\ \A q \in Requests \ {r} : hand'[q] = hand[q]
          /\ \A s \in Steers :
               box'.at[s] \in {"pending", "delivered"} => box'.at[s] = box.at[s]
          /\ \A q \in Requests : \A s \in hand'[q] : box'.at[s] = "taken"
      BY <1>2, Settled DEF Spots
    <2>2. TypeOK'
      BY <2>0, <2>1, <2>b DEF TypeOK, Places
    <2>3. Counts'
      BY <2>0, <2>1, <2>b DEF TypeOK, Counts
    <2>4. Filed'
      <3>1. \A s \in Steers : box'.at[s] \in {"pending", "delivered"} =>
              box'.filed[s] # NoReply
        BY <2>0 DEF Filed
      <3>2. ASSUME NEW s \in Steers, NEW q \in Requests, NEW k \in Numbers,
                   box'.filed[s] = <<q, k>>
            PROVE  k <= run'[q]
        <4>1. k <= run[q] /\ k \in Nat /\ run[q] \in Nat
          BY <2>0, <3>2 DEF Filed, TypeOK, Numbers
        <4>. QED BY <4>1, <2>1, <2>b DEF TypeOK
      <3>. QED BY <3>1, <3>2 DEF Filed
    <2>5. Waits'
      BY <2>0, <2>1 DEF TypeOK, Waits, Own
    <2>6. Streams' /\ Keeps'
      BY <2>1 DEF TypeOK, Streams, Keeps, Cleaning
    <2>7. Handed'
      BY <2>0, <2>1 DEF TypeOK, Handed
    <2>8. WithinCap'
      BY <2>0, NothingCameIn
    <2>. QED BY <2>2, <2>3, <2>4, <2>5, <2>6, <2>7, <2>8
  <1>. QED BY <1>1, <1>2 DEF PromotionEnds, Goto

\* What takes or deletes all of the user's messages but the spared reply's.
LEMMA Told ==
  ASSUME NEW b \in Inboxes, NEW spared
  PROVE  LET missed == MissedUsers(b, spared)
             c == Move(b, missed, "taken")
             d == Clear(b, spared)
         IN  /\ missed \subseteq Steers \ Dms
             /\ \A s \in missed : b.at[s] = "pending" /\ c.at[s] = "taken"
             /\ c \in Inboxes /\ c.filed = b.filed /\ c.step = b.step
             /\ d \in Inboxes /\ d.filed = b.filed /\ d.step = b.step
             /\ \A s \in Steers :
                  /\ \/ c.at[s] = b.at[s]
                     \/ b.at[s] = "pending" /\ c.at[s] = "taken"
                  /\ d.at[s] = b.at[s] \/ /\ b.at[s] \in {"pending", "delivered"}
                                          /\ d.at[s] = "dropped"
                  /\ d.at[s] = "pending" => b.filed[s] = spared
                  /\ c.at[s] = "pending" /\ s \notin Dms => b.filed[s] = spared
  <1>. DEFINE missed == MissedUsers(b, spared)
  <1>1. /\ missed \subseteq Steers \ Dms
        /\ \A s \in Steers : s \in missed <=>
             b.at[s] = "pending" /\ b.filed[s] # spared /\ s \notin Dms
    BY DEF MissedUsers, At
  <1>2. /\ Clear(b, spared) \in Inboxes
        /\ Clear(b, spared).filed = b.filed /\ Clear(b, spared).step = b.step
        /\ \A s \in Steers :
             Clear(b, spared).at[s] =
               IF b.at[s] \in {"pending", "delivered"} /\ b.filed[s] # spared
               THEN "dropped" ELSE b.at[s]
    BY Cleared
  <1>. HIDE DEF missed
  <1>3. /\ Move(b, missed, "taken") \in Inboxes
        /\ Move(b, missed, "taken").filed = b.filed
        /\ Move(b, missed, "taken").step = b.step
        /\ \A s \in Steers :
             Move(b, missed, "taken").at[s] = IF s \in missed THEN "taken" ELSE b.at[s]
    BY Moved DEF Spots
  <1>. DEFINE c == Move(b, missed, "taken")
              d == Clear(b, spared)
  <1>4. /\ c \in Inboxes /\ c.filed = b.filed /\ c.step = b.step
        /\ \A s \in missed : b.at[s] = "pending" /\ c.at[s] = "taken"
        /\ \A s \in Steers :
             /\ \/ c.at[s] = b.at[s]
                \/ b.at[s] = "pending" /\ c.at[s] = "taken"
             /\ c.at[s] = "pending" /\ s \notin Dms => b.filed[s] = spared
    BY <1>1, <1>3
  <1>5. /\ d \in Inboxes /\ d.filed = b.filed /\ d.step = b.step
        /\ \A s \in Steers :
             /\ d.at[s] = b.at[s] \/ /\ b.at[s] \in {"pending", "delivered"}
                                     /\ d.at[s] = "dropped"
             /\ d.at[s] = "pending" => b.filed[s] = spared
    <2>1. /\ d \in Inboxes /\ d.filed = b.filed /\ d.step = b.step
          /\ \A s \in Steers :
               d.at[s] = IF b.at[s] \in {"pending", "delivered"} /\ b.filed[s] # spared
                         THEN "dropped" ELSE b.at[s]
      BY <1>2
    <2>. HIDE DEF d
    <2>2. ASSUME NEW s \in Steers
          PROVE  /\ d.at[s] = b.at[s] \/ /\ b.at[s] \in {"pending", "delivered"}
                                         /\ d.at[s] = "dropped"
                 /\ d.at[s] = "pending" => b.filed[s] = spared
      <3>1. CASE b.at[s] \in {"pending", "delivered"} /\ b.filed[s] # spared
        BY <2>1, <3>1
      <3>2. CASE ~(b.at[s] \in {"pending", "delivered"} /\ b.filed[s] # spared)
        BY <2>1, <3>2
      <3>. QED BY <3>1, <3>2
    <2>. QED BY <2>1, <2>2
  <1>. HIDE DEF c, d
  <1>. QED BY <1>1, <1>4, <1>5 DEF missed, c, d

\* A clean-up that spares no mail of its own request, and goes on to tell of
\* the messages in its hands or is done.
LEMMA EndingKeeps ==
  ASSUME SteerInv, NEW r \in Requests,
         pc[r] \in {"leaving", "degrading"},
         box' \in Inboxes, box'.filed = box.filed, box'.step = box.step,
         lock' \in {lock, None},
         \/ pc' = [pc EXCEPT ![r] = "done"] /\ hand'[r] = {}
         \/ pc' = [pc EXCEPT ![r] = "telling"],
         hand' \in [Requests -> SUBSET Steers],
         \A q \in Requests \ {r} : hand'[q] = hand[q],
         hand'[r] \cap Dms = {},
         \A s \in hand'[r] : box.at[s] = "pending" /\ box'.at[s] = "taken",
         \A s \in Steers : \/ box'.at[s] = box.at[s]
                           \/ /\ s \in hand[r] \/ box.at[s] \in {"pending", "delivered"}
                              /\ box'.at[s] \notin {"pending", "delivered"},
         \A s \in Steers \ Dms : box'.at[s] = "pending" => box.filed[s] = keep'[r],
         \A n \in Numbers : keep'[r] # <<r, n>>,
         keep' \in [Requests -> Replies \cup {NoReply}],
         \A q \in Requests \ {r} : keep'[q] = keep[q],
         stamp' \in [Dms -> {"none", "steer", "wait"}],
         UNCHANGED <<stream, ended, run, result, chances, halt, run_>>
  PROVE  SteerInv'
  <1>. USE DEF SteerInv, halt, run_
  <1>a. \A s \in Steers : box'.at[s] \in {"pending", "delivered"} => box'.at[s] = box.at[s]
    OBVIOUS
  <1>b. /\ \A q \in Requests \ {r} : pc'[q] = pc[q]
        /\ pc'[r] \in {"done", "telling"} /\ (pc'[r] = "done" => hand'[r] = {})
        /\ pc' \in [Requests -> Places]
    BY DEF TypeOK, Places
  <1>2. TypeOK'
    BY <1>b DEF TypeOK
  <1>3. Counts' /\ Filed'
    BY <1>a, <1>b DEF TypeOK, Counts, Filed
  <1>5. Waits'
    <2>. SUFFICES ASSUME NEW s \in Steers \ Dms, NEW q \in Requests, NEW k \in Numbers,
                         box'.at[s] = "pending", box'.filed[s] = <<q, k>>
                  PROVE  k = run'[q] /\ pc'[q] \in Own
      BY DEF Waits
    <2>0. box.filed[s] = keep'[r] /\ box.filed[s] = <<q, k>>
      OBVIOUS
    <2>1. q # r
      BY <2>0, Zenon
    <2>2. k = run[q] /\ pc[q] \in Own
      BY <1>a, <2>0 DEF Waits
    <2>. QED BY <1>b, <2>1, <2>2
  <1>6. Streams' /\ Keeps'
    <2>1. Streams'
      BY <1>b DEF Streams
    <2>2. ASSUME NEW q \in Requests, NEW k \in Numbers, pc'[q] \in Cleaning
          PROVE  keep'[q] # <<q, k>>
      <3>1. CASE q = r
        BY <3>1, Zenon
      <3>2. CASE q # r
        BY <1>b, <2>2, <3>2 DEF Keeps
      <3>. QED BY <3>1, <3>2
    <2>. QED BY <2>1, <2>2 DEF Keeps
  <1>7. Handed'
    <2>1. \A q \in Requests : \A s \in hand'[q] : box'.at[s] = "taken"
      BY DEF TypeOK, Handed
    <2>2. \A q \in Requests \ {r} : hand'[r] \cap hand[q] = {}
      BY DEF TypeOK, Handed
    <2>3. \A p \in Requests : \A q \in Requests \ {p} : hand'[p] \cap hand'[q] = {}
      BY <2>2 DEF Handed
    <2>. QED BY <1>b, <2>1, <2>3 DEF TypeOK, Handed
  <1>8. WithinCap'
    BY <1>a, NothingCameIn
  <1>. QED BY <1>2, <1>3, <1>5, <1>6, <1>7, <1>8

LEMMA CleansUpKeeps ==
  ASSUME SteerInv, NEW r \in Requests, CleansUp(r)
  PROVE  SteerInv'
  <1>a. /\ pc[r] = "leaving" /\ keep' = [keep EXCEPT ![r] = stream]
        /\ UNCHANGED <<stream, ended, run, result, chances, halt, run_, stamp>>
    BY DEF CleansUp
  <1>b. /\ box \in Inboxes /\ stream \in Replies \cup {NoReply}
        /\ stamp' \in [Dms -> {"none", "steer", "wait"}]
        /\ hand \in [Requests -> SUBSET Steers]
    BY <1>a DEF SteerInv, TypeOK
  <1>c. /\ \A n \in Numbers : stream # <<r, n>>
        /\ keep' \in [Requests -> Replies \cup {NoReply}]
        /\ keep'[r] = stream
        /\ \A q \in Requests \ {r} : keep'[q] = keep[q]
        /\ \A n \in Numbers : keep'[r] # <<r, n>>
    BY <1>a, <1>b DEF SteerInv, Streams, TypeOK
  <1>1. CASE TellOrClear(r, box, stream)
    <2>. DEFINE missed == MissedUsers(box, stream)
                c == Move(box, missed, "taken")
                d == Clear(box, stream)
    <2>1. \/ /\ box' = d /\ lock' \in {lock, None}
             /\ pc' = [pc EXCEPT ![r] = "done"] /\ hand' = [hand EXCEPT ![r] = {}]
          \/ /\ box' = c /\ lock' = lock
             /\ pc' = [pc EXCEPT ![r] = "telling"] /\ hand' = [hand EXCEPT ![r] = missed]
      BY <1>1 DEF TellOrClear, ClearAndRelease, Goto
    <2>2. /\ missed \subseteq Steers \ Dms
          /\ \A s \in missed : box.at[s] = "pending" /\ c.at[s] = "taken"
          /\ c \in Inboxes /\ c.filed = box.filed /\ c.step = box.step
          /\ d \in Inboxes /\ d.filed = box.filed /\ d.step = box.step
          /\ \A s \in Steers :
               /\ \/ c.at[s] = box.at[s]
                  \/ box.at[s] = "pending" /\ c.at[s] = "taken"
               /\ d.at[s] = box.at[s] \/ /\ box.at[s] \in {"pending", "delivered"}
                                         /\ d.at[s] = "dropped"
               /\ d.at[s] = "pending" => box.filed[s] = stream
               /\ c.at[s] = "pending" /\ s \notin Dms => box.filed[s] = stream
      BY <1>b, Told
    <2>. HIDE DEF missed, c, d
    <2>3. CASE /\ box' = d /\ lock' \in {lock, None}
               /\ pc' = [pc EXCEPT ![r] = "done"] /\ hand' = [hand EXCEPT ![r] = {}]
      BY <1>a, <1>b, <1>c, <2>2, <2>3, EndingKeeps
    <2>4. CASE /\ box' = c /\ lock' = lock
               /\ pc' = [pc EXCEPT ![r] = "telling"] /\ hand' = [hand EXCEPT ![r] = missed]
      BY ZenonT(60), <1>a, <1>b, <1>c, <2>2, <2>4, EndingKeeps
    <2>. QED BY <2>1, <2>3, <2>4
  <1>2. ASSUME NEW missed,
               missed = MissedDms(box, stream),
               box' = Move(box, missed, "taken"),
               hand' = [hand EXCEPT ![r] = missed],
               pc' = [pc EXCEPT ![r] = "degrading"],
               UNCHANGED lock
        PROVE  SteerInv'
    <2>. USE DEF SteerInv, halt, run_
    <2>a. missed \subseteq Dms /\ \A s \in missed : s \in Steers /\ box.at[s] = "pending"
      BY <1>2, InboxAssumption DEF MissedDms, At
    <2>b. missed \subseteq Steers
      BY <2>a
    <2>0. /\ box' \in Inboxes /\ box'.filed = box.filed /\ box'.step = box.step
          /\ \A s \in Steers : box'.at[s] = IF s \in missed THEN "taken" ELSE box.at[s]
      BY <1>2, Moved DEF TypeOK, Spots
    <2>2. TypeOK'
      BY <2>0, <2>b, <1>a, <1>2 DEF TypeOK, Places
    <2>3. Counts' /\ Filed'
      BY <2>0, <1>a, <1>2 DEF TypeOK, Counts, Filed
    <2>5. Waits'
      BY <2>0, <1>a, <1>2 DEF TypeOK, Waits, Own
    <2>6. Streams' /\ Keeps'
      BY <1>a, <1>c, <1>2 DEF TypeOK, Streams, Keeps
    <2>7. Handed'
      BY <2>0, <2>a, <1>a, <1>2 DEF TypeOK, Handed
    <2>8. WithinCap'
      BY <2>0, NothingCameIn
    <2>. QED BY <2>2, <2>3, <2>5, <2>6, <2>7, <2>8
  <1>. QED BY <1>1, <1>2 DEF CleansUp, Goto

LEMMA DmsDegradedKeeps ==
  ASSUME SteerInv, NEW r \in Requests, DmsDegraded(r)
  PROVE  SteerInv'
  <1>. DEFINE b == Move(box, hand[r], "waits")
              missed == MissedUsers(b, keep[r])
              c == Move(b, missed, "taken")
              d == Clear(b, keep[r])
  <1>a. /\ pc[r] = "degrading"
        /\ stamp' = [s \in Dms |-> IF s \in hand[r] THEN "wait" ELSE stamp[s]]
        /\ UNCHANGED <<stream, ended, run, result, chances, keep, halt, run_>>
        /\ \/ /\ box' = d /\ lock' \in {lock, None}
              /\ pc' = [pc EXCEPT ![r] = "done"] /\ hand' = [hand EXCEPT ![r] = {}]
           \/ /\ box' = c /\ lock' = lock
              /\ pc' = [pc EXCEPT ![r] = "telling"] /\ hand' = [hand EXCEPT ![r] = missed]
    BY DEF DmsDegraded, TellOrClear, ClearAndRelease, Goto
  <1>b. /\ b \in Inboxes /\ b.filed = box.filed /\ b.step = box.step
        /\ \A s \in Steers : b.at[s] = IF s \in hand[r] THEN "waits" ELSE box.at[s]
    BY Moved DEF SteerInv, TypeOK, Spots
  <1>. HIDE DEF b
  <1>d. /\ missed \subseteq Steers \ Dms
        /\ \A s \in missed : b.at[s] = "pending" /\ c.at[s] = "taken"
        /\ c \in Inboxes /\ c.filed = b.filed /\ c.step = b.step
        /\ d \in Inboxes /\ d.filed = b.filed /\ d.step = b.step
        /\ \A s \in Steers :
             /\ \/ c.at[s] = b.at[s]
                \/ b.at[s] = "pending" /\ c.at[s] = "taken"
             /\ d.at[s] = b.at[s] \/ /\ b.at[s] \in {"pending", "delivered"}
                                     /\ d.at[s] = "dropped"
             /\ d.at[s] = "pending" => b.filed[s] = keep[r]
             /\ c.at[s] = "pending" /\ s \notin Dms => b.filed[s] = keep[r]
    BY <1>b, Told
  <1>c. /\ \A n \in Numbers : keep'[r] # <<r, n>>
        /\ keep' \in [Requests -> Replies \cup {NoReply}]
        /\ keep'[r] = keep[r] /\ \A q \in Requests \ {r} : keep'[q] = keep[q]
        /\ stamp' \in [Dms -> {"none", "steer", "wait"}]
        /\ hand \in [Requests -> SUBSET Steers]
    BY <1>a DEF SteerInv, TypeOK, Keeps, Cleaning
  <1>. HIDE DEF missed, c, d
  <1>1. CASE /\ box' = d /\ lock' \in {lock, None}
             /\ pc' = [pc EXCEPT ![r] = "done"] /\ hand' = [hand EXCEPT ![r] = {}]
    <2>1. /\ box' \in Inboxes /\ box'.filed = box.filed /\ box'.step = box.step
          /\ hand' \in [Requests -> SUBSET Steers] /\ hand'[r] = {}
          /\ \A q \in Requests \ {r} : hand'[q] = hand[q]
          /\ \A s \in Steers \ Dms : box'.at[s] = "pending" => box.filed[s] = keep'[r]
      BY <1>b, <1>c, <1>d, <1>1
    <2>2. \A s \in Steers : \/ box'.at[s] = box.at[s]
                            \/ /\ s \in hand[r] \/ box.at[s] \in {"pending", "delivered"}
                               /\ box'.at[s] \notin {"pending", "delivered"}
      BY <1>b, <1>d, <1>1
    <2>. QED BY ZenonT(60), <1>a, <1>c, <1>1, <2>1, <2>2, EndingKeeps
  <1>2. CASE /\ box' = c /\ lock' = lock
             /\ pc' = [pc EXCEPT ![r] = "telling"] /\ hand' = [hand EXCEPT ![r] = missed]
    <2>1. /\ box' \in Inboxes /\ box'.filed = box.filed /\ box'.step = box.step
          /\ hand' \in [Requests -> SUBSET Steers] /\ hand'[r] = missed
          /\ \A q \in Requests \ {r} : hand'[q] = hand[q]
          /\ \A s \in Steers \ Dms : box'.at[s] = "pending" => box.filed[s] = keep'[r]
      BY <1>b, <1>c, <1>d, <1>2
    <2>2. \A s \in Steers : \/ box'.at[s] = box.at[s]
                            \/ /\ s \in hand[r] \/ box.at[s] \in {"pending", "delivered"}
                               /\ box'.at[s] \notin {"pending", "delivered"}
      BY <1>b, <1>d, <1>2
    <2>3. \A s \in hand'[r] : box.at[s] = "pending" /\ box'.at[s] = "taken"
      BY <1>b, <1>d, <1>2, <2>1
    <2>4. hand'[r] \cap Dms = {}
      BY <1>d, <2>1
    <2>. QED BY <1>a, <1>c, <1>2, <2>1, <2>2, <2>3, <2>4, EndingKeeps
  <1>. QED BY <1>a, <1>1, <1>2

LEMMA MissedToldKeeps ==
  ASSUME SteerInv, NEW r \in Requests, MissedTold(r)
  PROVE  SteerInv'
  <1>. USE DEF SteerInv, halt, run_
  <1>. DEFINE b == Move(box, hand[r], "unanswered")
  <1>a. /\ pc[r] = "telling"
        /\ box' = Clear(b, keep[r])
        /\ lock' = IF lock = r THEN None ELSE lock
        /\ pc' = [pc EXCEPT ![r] = "done"]
        /\ hand' = [hand EXCEPT ![r] = {}]
        /\ UNCHANGED <<stream, ended, run, result, chances, keep, halt, run_, stamp>>
    BY DEF MissedTold, ClearAndRelease, Goto
  <1>b. /\ b \in Inboxes /\ b.filed = box.filed /\ b.step = box.step
        /\ \A s \in Steers : b.at[s] = IF s \in hand[r] THEN "unanswered" ELSE box.at[s]
    BY Moved DEF TypeOK, Spots
  <1>. HIDE DEF b
  <1>0. /\ box' \in Inboxes /\ box'.filed = box.filed /\ box'.step = box.step
        /\ \A s \in Steers : box'.at[s] \in {"pending", "delivered"} => box'.at[s] = box.at[s]
        /\ \A s \in Steers : box.at[s] = "taken" /\ s \notin hand[r] => box'.at[s] = "taken"
    BY <1>a, <1>b, Cleared
  <1>2. TypeOK'
    BY <1>0, <1>a DEF TypeOK, Places
  <1>3. Counts' /\ Filed'
    BY <1>0, <1>a DEF TypeOK, Counts, Filed
  <1>5. Waits'
    BY <1>0, <1>a DEF TypeOK, Waits, Own
  <1>6. Streams' /\ Keeps'
    BY <1>a DEF TypeOK, Streams, Keeps, Cleaning
  <1>7. Handed'
    BY <1>0, <1>a DEF TypeOK, Handed
  <1>8. WithinCap'
    BY <1>0, NothingCameIn
  <1>. QED BY <1>2, <1>3, <1>5, <1>6, <1>7, <1>8

\* A message that is let in while there is room for it stays within the cap.
LEMMA LetIn ==
  ASSUME SteerInv, NEW e \in Steers, NEW m \in Replies,
         box.at[e] # "pending", HasRoom(box, e, m), box' = EnqueueSteer(box, e, m)
  PROVE  WithinCap'
  <1>0. \A s \in Steers :
          /\ box'.at[s] = IF s = e THEN "pending" ELSE box.at[s]
          /\ box'.filed[s] = IF s = e THEN m ELSE box.filed[s]
    BY Enqueued DEF SteerInv, TypeOK
  <1>. SUFFICES ASSUME NEW n \in Replies
                PROVE  /\ Cardinality(PendingFor(box', n)) <= SteerCap
                       /\ Cardinality(PendingFor(box', n) \cap Dms) <= 1
    BY DEF WithinCap
  <1>1. CASE n # m
    <2>1. PendingFor(box', n) = PendingFor(box, n)
      BY <1>0, <1>1 DEF PendingFor, At
    <2>. QED BY <2>1 DEF SteerInv, WithinCap
  <1>2. CASE n = m
    <2>1. /\ PendingFor(box', n) = PendingFor(box, n) \cup {e}
          /\ e \notin PendingFor(box, n)
          /\ PendingFor(box, n) \subseteq Steers
      BY <1>0, <1>2 DEF PendingFor, At
    <2>2. IsFiniteSet(PendingFor(box, n))
      BY <2>1, FS_Subset, InboxAssumption
    <2>3. /\ Cardinality(PendingFor(box', n)) = Cardinality(PendingFor(box, n)) + 1
          /\ Cardinality(PendingFor(box, n)) \in Nat
      BY <2>1, <2>2, FS_AddElement, FS_CardinalityType
    <2>4. Cardinality(PendingFor(box', n)) <= SteerCap
      BY <1>2, <2>3, InboxAssumption DEF HasRoom
    <2>5. Cardinality(PendingFor(box', n) \cap Dms) <= 1
      <3>1. CASE e \in Dms
        <4>1. PendingFor(box', n) \cap Dms = {e}
          BY <1>2, <2>1, <3>1 DEF HasRoom
        <4>. QED BY <4>1, FS_Singleton
      <3>2. CASE e \notin Dms
        <4>1. PendingFor(box', n) \cap Dms = PendingFor(box, n) \cap Dms
          BY <2>1, <3>2
        <4>. QED BY <4>1 DEF SteerInv, WithinCap
      <3>. QED BY <3>1, <3>2
    <2>. QED BY <2>4, <2>5
  <1>. QED BY <1>1, <1>2

\* A message that comes in by either door, while its reply's stream is open.
LEMMA EntersKeeps ==
  ASSUME SteerInv, NEW e \in Steers, NEW m \in Replies,
         box.at[e] \in {"idle", "asking"}, stream = m, HasRoom(box, e, m),
         box' = EnqueueSteer(box, e, m),
         UNCHANGED <<stream, lock, ended, flow, halt, run_, stamp>>
  PROVE  SteerInv'
  <1>. USE DEF SteerInv, flow, halt, run_
  <1>0. /\ box' \in Inboxes /\ box'.step = box.step
        /\ \A s \in Steers :
             /\ box'.at[s] = IF s = e THEN "pending" ELSE box.at[s]
             /\ box'.filed[s] = IF s = e THEN m ELSE box.filed[s]
    BY Enqueued DEF TypeOK
  <1>1. PICK r \in Requests, n \in Numbers : m = <<r, n>> /\ n = run[r] /\ pc[r] = "streaming"
    BY Answers DEF Streams
  <1>2. TypeOK'
    BY <1>0 DEF TypeOK
  <1>3. Counts'
    BY <1>0 DEF Counts
  <1>4. Filed'
    <2>1. m # NoReply /\ n <= run[r]
      BY <1>1, Answers DEF Numbers
    <2>. QED BY <1>0, <1>1, <2>1 DEF Filed
  <1>5. Waits'
    BY <1>0, <1>1 DEF Waits, Own
  <1>6. Streams' /\ Keeps'
    BY DEF Streams, Keeps
  <1>7. Handed'
    BY <1>0 DEF TypeOK, Handed
  <1>8. WithinCap'
    BY LetIn
  <1>. QED BY <1>2, <1>3, <1>4, <1>5, <1>6, <1>7, <1>8

\* A message that stays out.
LEMMA StaysOutKeeps ==
  ASSUME SteerInv, NEW e \in Steers, NEW spot \in {"asking", "missed", "refused", "waits"},
         box.at[e] \in {"idle", "asking", "missed"}, box' = Move(box, {e}, spot),
         stamp' \in [Dms -> {"none", "steer", "wait"}],
         UNCHANGED <<stream, lock, ended, flow, halt, run_>>
  PROVE  SteerInv'
  <1>. USE DEF SteerInv, flow, halt, run_
  <1>0. /\ box' \in Inboxes /\ box'.filed = box.filed /\ box'.step = box.step
        /\ \A s \in Steers : box'.at[s] = IF s = e THEN spot ELSE box.at[s]
    BY Moved DEF TypeOK, Spots
  <1>2. TypeOK'
    BY <1>0 DEF TypeOK
  <1>3. Counts' /\ Filed'
    BY <1>0 DEF Counts, Filed
  <1>5. Waits'
    BY ZenonT(60), <1>0 DEF Waits
  <1>6. Streams' /\ Keeps'
    BY DEF Streams, Keeps
  <1>7. Handed'
    BY ZenonT(60), <1>0 DEF TypeOK, Handed
  <1>8. WithinCap'
    BY <1>0, NothingCameIn
  <1>. QED BY <1>2, <1>3, <1>5, <1>6, <1>7, <1>8

LEMMA UserSteersKeeps ==
  ASSUME SteerInv, NEW s \in Steers, NEW m \in Replies, UserSteers(s, m)
  PROVE  SteerInv'
  <1>1. stamp' \in [Dms -> {"none", "steer", "wait"}]
    BY DEF UserSteers, SteerInv, TypeOK
  <1>2. CASE box' = Move(box, {s}, "refused")
    BY <1>1, <1>2, StaysOutKeeps DEF UserSteers
  <1>3. CASE stream = m /\ HasRoom(box, s, m) /\ box' = EnqueueSteer(box, s, m)
    BY <1>3, EntersKeeps DEF UserSteers
  <1>. QED BY <1>2, <1>3 DEF UserSteers

LEMMA DoorStepKeeps ==
  ASSUME SteerInv, NEW s \in Dms, DoorStep(s)
  PROVE  SteerInv'
  <1>0. s \in Steers
    BY InboxAssumption
  <1>1. CASE DmStamps(s)
    <2>1. stamp' \in [Dms -> {"none", "steer", "wait"}]
      BY <1>1 DEF DmStamps, SteerInv, TypeOK
    <2>. QED BY <1>0, <1>1, <2>1, StaysOutKeeps DEF DmStamps
  <1>2. CASE DmEnters(s)
    <2>1. stamp' \in [Dms -> {"none", "steer", "wait"}]
      BY <1>2 DEF DmEnters, SteerInv, TypeOK
    <2>2. CASE box' = Move(box, {s}, "missed")
      BY <1>0, <1>2, <2>1, <2>2, StaysOutKeeps DEF DmEnters
    <2>3. CASE stream # NoReply /\ HasRoom(box, s, stream) /\ box' = EnqueueSteer(box, s, stream)
      <3>1. stream \in Replies
        BY <2>3 DEF SteerInv, TypeOK
      <3>. QED BY <1>0, <1>2, <2>3, <3>1, EntersKeeps DEF DmEnters
    <2>. QED BY <1>2, <2>2, <2>3 DEF DmEnters
  <1>3. CASE DmStampedBack(s)
    <2>1. stamp' \in [Dms -> {"none", "steer", "wait"}]
      BY <1>3 DEF DmStampedBack, SteerInv, TypeOK
    <2>. QED BY <1>0, <1>3, <2>1, StaysOutKeeps DEF DmStampedBack
  <1>. QED BY <1>1, <1>2, <1>3 DEF DoorStep

\* Stop, the bounds of the lock and the steps of no process touch neither the
\* inbox nor a request's place.
LEMMA StopKeeps ==
  ASSUME SteerInv, Stop \/ LockLapses \/ UNCHANGED vars
  PROVE  SteerInv'
  <1>. USE DEF SteerInv, flow, run_
  <1>0. /\ lock' \in {lock, None} /\ stream' \in {stream, NoReply}
        /\ aborted' # aborted => stream # NoReply /\ aborted' = aborted \cup {stream[1]}
        /\ signalled' # signalled => lock # None /\ signalled' = signalled \cup {lock}
        /\ UNCHANGED <<box, ended, flow, run_, stamp>>
    <2>1. CASE Stop
      BY <2>1 DEF Stop, None
    <2>2. CASE LockLapses
      BY <2>2 DEF LockLapses, halt
    <2>3. CASE UNCHANGED vars
      BY <2>3 DEF vars, halt
    <2>. QED BY <2>1, <2>2, <2>3
  <1>1. TypeOK'
    <2>1. stream # NoReply => stream[1] \in Requests
      BY Answers DEF TypeOK, Numbers
    <2>2. signalled' \subseteq Requests /\ lock' \in Requests \cup {None}
      BY <1>0 DEF TypeOK
    <2>3. aborted' \subseteq Requests /\ stream' \in Replies \cup {NoReply}
      BY <1>0, <2>1 DEF TypeOK
    <2>. QED BY <1>0, <2>2, <2>3 DEF TypeOK
  <1>2. Counts' /\ Filed' /\ Waits' /\ Keeps' /\ Handed'
    BY <1>0 DEF Counts, Filed, Waits, Keeps, Handed
  <1>4. Streams'
    <2>1. \A q \in Requests, n \in Numbers : <<q, n>> # NoReply
      BY Answers
    <2>. QED BY <1>0, <2>1 DEF Streams
  <1>3. WithinCap'
    BY <1>0, NothingCameIn
  <1>. QED BY <1>1, <1>2, <1>3, <1>4

LEMMA NextKeeps ==
  ASSUME SteerInv, [Next]_vars
  PROVE  SteerInv'
  <1>1. ASSUME NEW r \in Requests, RunStep(r) PROVE SteerInv'
    BY <1>1, StreamOpensKeeps, SetupEndsKeeps, ModelStepsKeeps, ModelFinishesKeeps,
       LoopWritesKeeps, StreamEndsKeeps, StreamThrowsKeeps DEF RunStep
  <1>2. ASSUME NEW r \in Requests, AfterRun(r) PROVE SteerInv'
    BY <1>2, ContinuesKeeps, TakesWhatIsLeftKeeps, PromotionEndsKeeps,
       SavesWithoutAnswerKeeps, CleansUpKeeps, DmsDegradedKeeps, MissedToldKeeps
       DEF AfterRun
  <1>3. CASE Stop \/ LockLapses \/ UNCHANGED vars
    BY <1>3, StopKeeps
  <1>. QED BY <1>1, <1>2, <1>3, TurnBeginsKeeps, UserSteersKeeps, DoorStepKeeps DEF Next

LEMMA Starts ==
  ASSUME Init
  PROVE  SteerInv
  <1>. USE DEF Init, EmptyInbox
  <1>1. TypeOK
    <2>1. box \in Inboxes
      BY DEF Inboxes, Spots
    <2>2. /\ model \in [Requests -> Runs] /\ loop \in [Requests -> Positions]
          /\ mark \in [Steers -> Positions]
      BY Sizes DEF Runs, Positions, Begun, Nowhere
    <2>3. run \in [Requests -> 0 .. MaxRuns] /\ chances \in [Requests -> 0 .. MaxPromotions]
      BY Sizes
    <2>. QED BY <2>1, <2>2, <2>3 DEF TypeOK, Places
  <1>2. Counts
    BY Sizes DEF Counts, Begun, Nowhere
  <1>3. Filed /\ Waits /\ Streams
    BY Answers DEF Filed, Waits, Streams
  <1>4. Keeps /\ Handed
    BY DEF Keeps, Cleaning, Handed
  <1>5. WithinCap
    <2>1. \A m : PendingFor(box, m) = {} /\ PendingFor(box, m) \cap Dms = {}
      BY DEF PendingFor, At
    <2>2. Cardinality({}) = 0
      BY FS_EmptySet
    <2>3. \A m \in Replies : /\ Cardinality(PendingFor(box, m)) = 0
                             /\ Cardinality(PendingFor(box, m) \cap Dms) = 0
      BY <2>1, <2>2, Zenon
    <2>4. 0 <= SteerCap /\ 0 <= 1
      BY InboxAssumption
    <2>. QED BY <2>3, <2>4 DEF WithinCap
  <1>. QED BY <1>1, <1>2, <1>3, <1>4, <1>5 DEF SteerInv

LEMMA Inductive == Spec => []SteerInv
  BY Starts, NextKeeps, PTL DEF Spec

\* The variables of the steer inbox and of the requests that read it keep their
\* types; no request promotes more often than its bound (the promotion loop).
THEOREM TypeCorrect == Spec => []TypeOK
  <1>1. SteerInv => TypeOK
    BY DEF SteerInv
  <1>. QED BY <1>1, Inductive, PTL

\* However continuations move what waits, no reply ever has more waiting than
\* enqueueSteer lets in, nor more than one agent DM.
THEOREM StaysWithinCap == Spec => []WithinCap
  <1>1. SteerInv => WithinCap
    BY DEF SteerInv
  <1>. QED BY <1>1, Inductive, PTL

-----------------------------------------------------------------------------
(* What the model has read.                                                 *)

\* It is filed under a reply that is still written.
Delivered ==
  \A s \in Steers, r \in Requests, n \in Numbers :
    box.at[s] = "delivered" /\ box.filed[s] = <<r, n>> => n = run[r] /\ pc[r] = "streaming"

\* A run begins with nothing read; what its model has read lies at or ahead of
\* the loop, and its marker stands where the loop finished the step, or before
\* that, once the SDK's finish has run ahead of the loop.
Boundaries ==
  \A s \in Steers, r \in Requests :
    box.filed[s] = Reply(r) =>
      /\ pc[r] = "setup" => box.at[s] \notin {"delivered", "written"}
      /\ pc[r] = "streaming" /\ box.at[s] = "delivered" =>
           /\ box.step[s] <= model[r].made
           /\ box.step[s] <= loop[r].done =>
                loop[r] = [done |-> box.step[s], inside |-> FALSE]
      /\ pc[r] = "streaming" /\ box.at[s] = "written" =>
           \/ mark[s] = [done |-> box.step[s], inside |-> FALSE]
           \/ mark[s].done < box.step[s] /\ model[r].over

\* A step that reads nothing, writes no marker and begins no run.
Quiet ==
  /\ UNCHANGED <<model, loop, mark>>
  /\ \A s \in Steers : box'.at[s] \in {"delivered", "written"} =>
       /\ box'.at[s] = box.at[s]
       /\ box'.filed[s] = box.filed[s]
       /\ box'.step[s] = box.step[s]
  /\ \A r \in Requests :
       /\ pc'[r] \in {"setup", "streaming"} => pc'[r] = pc[r] /\ run'[r] = run[r]
       /\ pc[r] = "streaming" => pc'[r] = pc[r] /\ run'[r] = run[r]

LEMMA QuietKeepsBoundaries ==
  ASSUME Quiet, Boundaries
  PROVE  Boundaries'
  <1>. SUFFICES ASSUME NEW s \in Steers, NEW r \in Requests, (box.filed[s] = Reply(r))',
                       box'.at[s] \in {"delivered", "written"},
                       pc'[r] \in {"setup", "streaming"}
                PROVE  /\ pc[r] = "setup" => FALSE
                       /\ pc[r] = "streaming" /\ box'.at[s] = "delivered" =>
                            /\ box'.step[s] <= model[r].made
                            /\ box'.step[s] <= loop[r].done =>
                                 loop[r] = [done |-> box'.step[s], inside |-> FALSE]
                       /\ pc[r] = "streaming" /\ box'.at[s] = "written" =>
                            \/ mark[s] = [done |-> box'.step[s], inside |-> FALSE]
                            \/ mark[s].done < box'.step[s] /\ model[r].over
    BY DEF Boundaries, Quiet
  <1>1. /\ box'.at[s] = box.at[s] /\ box'.filed[s] = box.filed[s]
        /\ box'.step[s] = box.step[s] /\ pc'[r] = pc[r] /\ run'[r] = run[r]
    BY DEF Quiet
  <1>2. box.filed[s] = Reply(r)
    BY <1>1 DEF Reply
  <1>. QED BY <1>1, <1>2 DEF Boundaries

LEMMA QuietKeepsDelivered ==
  ASSUME Quiet, Delivered
  PROVE  Delivered'
  BY DEF Quiet, Delivered

LEMMA SetupEndsQuietly ==
  ASSUME SteerInv, NEW r \in Requests, SetupEnds(r)
  PROVE  Quiet
  BY DEF SteerInv, TypeOK, SetupEnds, Goto, Quiet, run_

LEMMA TakesQuietly ==
  ASSUME SteerInv, NEW r \in Requests, TakesWhatIsLeft(r)
  PROVE  Quiet
  <1>. DEFINE left == Undelivered(box, Reply(r))
  <1>1. /\ pc[r] = "between" /\ UNCHANGED <<run, model, loop, mark>>
        /\ pc \in [Requests -> Places] /\ box \in Inboxes
        /\ \E place \in {"leaving", "promoting", "holding", "stranding"} :
             pc' = [pc EXCEPT ![r] = place]
        /\ box' = box \/ box' = Move(box, left, "taken")
    BY DEF TakesWhatIsLeft, Goto, run_, SteerInv, TypeOK
  <1>. HIDE DEF left
  <1>2. \A s \in Steers : box'.at[s] \in {"delivered", "written"} =>
          /\ box'.at[s] = box.at[s]
          /\ box'.filed[s] = box.filed[s] /\ box'.step[s] = box.step[s]
    BY <1>1, Moved DEF Spots
  <1>. QED BY <1>1, <1>2 DEF Quiet

LEMMA SettlesQuietly ==
  ASSUME SteerInv, NEW r \in Requests,
         NEW outcome \in Spots \ {"pending", "delivered", "written"},
         Settle(r, outcome), pc' = [pc EXCEPT ![r] = "leaving"],
         pc[r] \in {"promoting", "holding", "stranding"},
         UNCHANGED <<run, model, loop, mark>>
  PROVE  Quiet
  BY Settled DEF SteerInv, TypeOK, Quiet

\* What a clean-up does to the inbox b leaves no message newly read or written.
LEMMA ClearedQuietly ==
  ASSUME NEW b \in Inboxes, NEW S, NEW spot \in Spots \ {"delivered", "written"}, NEW m
  PROVE  /\ Move(b, S, spot) \in Inboxes
         /\ \A c \in {Move(b, S, spot), Clear(b, m)} : \A s \in Steers :
              c.at[s] \in {"delivered", "written"} =>
                c.at[s] = b.at[s] /\ c.filed[s] = b.filed[s] /\ c.step[s] = b.step[s]
  <1>1. \A s \in Steers : Move(b, S, spot).at[s] \in {"delivered", "written"} =>
          /\ Move(b, S, spot).at[s] = b.at[s]
          /\ Move(b, S, spot).filed[s] = b.filed[s]
          /\ Move(b, S, spot).step[s] = b.step[s]
    BY Moved
  <1>2. \A s \in Steers : Clear(b, m).at[s] \in {"delivered", "written"} =>
          /\ Clear(b, m).at[s] = b.at[s]
          /\ Clear(b, m).filed[s] = b.filed[s]
          /\ Clear(b, m).step[s] = b.step[s]
    <2>1. /\ Clear(b, m).filed = b.filed /\ Clear(b, m).step = b.step
          /\ \A s \in Steers : Clear(b, m).at[s] \in {b.at[s], "dropped"}
      BY Cleared
    <2>. QED BY <2>1
  <1>3. Move(b, S, spot) \in Inboxes
    BY Moved
  <1>. QED BY <1>1, <1>2, <1>3

LEMMA CleansUpQuietly ==
  ASSUME SteerInv, NEW r \in Requests, CleansUp(r) \/ DmsDegraded(r) \/ MissedTold(r)
  PROVE  Quiet
  <1>1. /\ box \in Inboxes /\ pc \in [Requests -> Places]
        /\ pc[r] \in {"leaving", "degrading", "telling"}
        /\ UNCHANGED <<run, model, loop, mark>>
        /\ \E place \in {"degrading", "telling", "done"} : pc' = [pc EXCEPT ![r] = place]
    BY DEF SteerInv, TypeOK, CleansUp, DmsDegraded, MissedTold, TellOrClear,
           ClearAndRelease, Goto, run_
  <1>2. \A s \in Steers : box'.at[s] \in {"delivered", "written"} =>
          /\ box'.at[s] = box.at[s]
          /\ box'.filed[s] = box.filed[s] /\ box'.step[s] = box.step[s]
    <2>1. CASE CleansUp(r)
      <3>1. box' \in {Move(box, MissedDms(box, stream), "taken"),
                      Move(box, MissedUsers(box, stream), "taken"), Clear(box, stream)}
        BY <2>1 DEF CleansUp, TellOrClear, ClearAndRelease
      <3>. QED BY <1>1, <3>1, ClearedQuietly DEF Spots
    <2>2. CASE DmsDegraded(r)
      <3>. DEFINE b == Move(box, hand[r], "waits")
      <3>1. box' \in {Move(b, MissedUsers(b, keep[r]), "taken"), Clear(b, keep[r])}
        BY <2>2 DEF DmsDegraded, TellOrClear, ClearAndRelease
      <3>2. /\ b \in Inboxes
            /\ \A s \in Steers : b.at[s] \in {"delivered", "written"} =>
                 b.at[s] = box.at[s] /\ b.filed[s] = box.filed[s] /\ b.step[s] = box.step[s]
        BY <1>1, ClearedQuietly DEF Spots
      <3>. HIDE DEF b
      <3>3. \A s \in Steers : box'.at[s] \in {"delivered", "written"} =>
              box'.at[s] = b.at[s] /\ box'.filed[s] = b.filed[s] /\ box'.step[s] = b.step[s]
        BY <3>1, <3>2, ClearedQuietly DEF Spots
      <3>. QED BY <3>2, <3>3
    <2>3. CASE MissedTold(r)
      <3>. DEFINE b == Move(box, hand[r], "unanswered")
      <3>1. box' = Clear(b, keep[r])
        BY <2>3 DEF MissedTold, ClearAndRelease
      <3>2. /\ b \in Inboxes
            /\ \A s \in Steers : b.at[s] \in {"delivered", "written"} =>
                 b.at[s] = box.at[s] /\ b.filed[s] = box.filed[s] /\ b.step[s] = box.step[s]
        BY <1>1, Moved DEF Spots
      <3>. HIDE DEF b
      <3>3. \A s \in Steers : box'.at[s] \in {"delivered", "written"} =>
              box'.at[s] = b.at[s] /\ box'.filed[s] = b.filed[s] /\ box'.step[s] = b.step[s]
        BY <3>1, <3>2, ClearedQuietly DEF Spots
      <3>. QED BY <3>2, <3>3
    <2>. QED BY <2>1, <2>2, <2>3
  <1>. QED BY <1>1, <1>2 DEF Quiet

LEMMA DoorsQuietly ==
  ASSUME SteerInv,
         \/ \E s \in Steers, m \in Replies : UserSteers(s, m)
         \/ \E s \in Dms : DoorStep(s)
         \/ Stop \/ LockLapses \/ UNCHANGED vars
  PROVE  Quiet
  <1>. USE DEF flow, run_, halt
  <1>0. box \in Inboxes /\ stream \in Replies \cup {NoReply}
    BY DEF SteerInv, TypeOK
  <1>1. UNCHANGED <<pc, run, model, loop, mark>>
    BY DEF UserSteers, DoorStep, DmStamps, DmEnters, DmStampedBack, Stop, LockLapses, vars
  <1>2. \/ box' = box
        \/ \E e \in Steers, spot \in {"asking", "missed", "refused", "waits"} :
             box' = Move(box, {e}, spot)
        \/ \E e \in Steers, m \in Replies : box' = EnqueueSteer(box, e, m)
    <2>1. ASSUME NEW s \in Steers, NEW m \in Replies, UserSteers(s, m)
          PROVE  box' = EnqueueSteer(box, s, m) \/ box' = Move(box, {s}, "refused")
      BY <2>1 DEF UserSteers
    <2>2. ASSUME NEW s \in Dms, DoorStep(s)
          PROVE  \/ box' = Move(box, {s}, "asking") \/ box' = Move(box, {s}, "missed")
                 \/ box' = Move(box, {s}, "waits")
                 \/ stream \in Replies /\ box' = EnqueueSteer(box, s, stream)
      BY <1>0, <2>2 DEF DoorStep, DmStamps, DmEnters, DmStampedBack
    <2>3. CASE Stop \/ LockLapses \/ UNCHANGED vars
      BY <2>3 DEF Stop, LockLapses, vars
    <2>4. Dms \subseteq Steers
      BY InboxAssumption
    <2>. QED BY <2>1, <2>2, <2>3, <2>4
  <1>3. \A s \in Steers : box'.at[s] \in {"delivered", "written"} =>
          /\ box'.at[s] = box.at[s]
          /\ box'.filed[s] = box.filed[s] /\ box'.step[s] = box.step[s]
    <2>1. ASSUME NEW e \in Steers, NEW spot \in {"asking", "missed", "refused", "waits"},
                 box' = Move(box, {e}, spot)
          PROVE  \A s \in Steers : box'.at[s] \in {"delivered", "written"} =>
                   /\ box'.at[s] = box.at[s]
                   /\ box'.filed[s] = box.filed[s] /\ box'.step[s] = box.step[s]
      BY <1>0, <2>1, ClearedQuietly DEF Spots
    <2>2. ASSUME NEW e \in Steers, NEW m \in Replies, box' = EnqueueSteer(box, e, m)
          PROVE  \A s \in Steers : box'.at[s] \in {"delivered", "written"} =>
                   /\ box'.at[s] = box.at[s]
                   /\ box'.filed[s] = box.filed[s] /\ box'.step[s] = box.step[s]
      <3>1. /\ box'.step = box.step
            /\ \A s \in Steers : /\ box'.at[s] = IF s = e THEN "pending" ELSE box.at[s]
                                 /\ box'.filed[s] = IF s = e THEN m ELSE box.filed[s]
        BY SMTT(30), <1>0, <2>2, Enqueued
      <3>. QED BY <3>1
    <2>. QED BY <1>2, <2>1, <2>2
  <1>. QED BY <1>1, <1>3 DEF Quiet

\* A step of one request that begins no run of another and reads or marks
\* nothing of another's leaves the others' boundaries.
LEMMA OthersBoundaries ==
  ASSUME SteerInv, Boundaries, NEW r \in Requests, NEW q \in Requests \ {r}, NEW s \in Steers,
         pc'[q] = pc[q], run'[q] = run[q], model'[q] = model[q], loop'[q] = loop[q],
         box'.filed[s] = Reply(q)' => /\ box'.filed[s] = box.filed[s]
                                      /\ box'.step[s] = box.step[s]
                                      /\ box'.at[s] \in {"delivered", "written"} =>
                                           box'.at[s] = box.at[s] /\ mark'[s] = mark[s]
  PROVE  box'.filed[s] = Reply(q)' =>
           /\ pc'[q] = "setup" => box'.at[s] \notin {"delivered", "written"}
           /\ pc'[q] = "streaming" /\ box'.at[s] = "delivered" =>
                /\ box'.step[s] <= model'[q].made
                /\ box'.step[s] <= loop'[q].done =>
                     loop'[q] = [done |-> box'.step[s], inside |-> FALSE]
           /\ pc'[q] = "streaming" /\ box'.at[s] = "written" =>
                \/ mark'[s] = [done |-> box'.step[s], inside |-> FALSE]
                \/ mark'[s].done < box'.step[s] /\ model'[q].over
  BY DEF Boundaries, Reply

LEMMA TurnBeginsBoundaries ==
  ASSUME SteerInv, Boundaries, NEW r \in Requests, TurnBegins(r)
  PROVE  Boundaries'
  <1>1. /\ UNCHANGED <<box, model, loop, mark>>
        /\ pc[r] = "idle" /\ run[r] = 0 /\ run'[r] = 1
        /\ \A q \in Requests \ {r} : pc'[q] = pc[q] /\ run'[q] = run[q]
    BY DEF TurnBegins, Goto, run_, SteerInv, TypeOK, Counts
  <1>2. \A s \in Steers : box.filed[s] # <<r, 1>>
    BY <1>1, Sizes DEF SteerInv, Filed, Numbers
  <1>3. \A s \in Steers : box'.filed[s] # Reply(r)'
    BY <1>1, <1>2 DEF Reply
  <1>. QED BY <1>1, <1>3, OthersBoundaries DEF Boundaries

LEMMA StreamOpensBoundaries ==
  ASSUME SteerInv, Boundaries, NEW r \in Requests, StreamOpens(r)
  PROVE  Boundaries'
  <1>1. /\ UNCHANGED <<box, run, model, loop, mark>>
        /\ pc[r] = "setup" /\ pc'[r] = "streaming"
        /\ \A q \in Requests \ {r} : pc'[q] = pc[q]
    BY DEF StreamOpens, Goto, run_, SteerInv, TypeOK
  <1>2. \A s \in Steers : box'.filed[s] = Reply(r)' => box'.at[s] \notin {"delivered", "written"}
    BY <1>1 DEF Boundaries, Reply
  <1>. QED BY <1>1, <1>2, OthersBoundaries DEF Boundaries

\* What the model's step does to the inbox, message by message.
LEMMA ModelStepped ==
  ASSUME SteerInv, NEW r \in Requests, ModelSteps(r)
  PROVE  LET k == model[r].made + 1
         IN  /\ pc[r] = "streaming" /\ k \in Nat /\ model'[r].made = k
             /\ model'[r].over = model[r].over
             /\ \A q \in Requests \ {r} : model'[q] = model[q]
             /\ UNCHANGED <<pc, run, loop, mark>>
             /\ box'.filed = box.filed
             /\ \A s \in Steers :
                  \/ box'.at[s] = box.at[s] /\ box'.step[s] = box.step[s]
                  \/ /\ box.at[s] = "pending" /\ box.filed[s] = Reply(r)
                     /\ box'.at[s] = "delivered" /\ box'.step[s] = k
  <1>. DEFINE k == model[r].made + 1
  <1>1. /\ k \in Nat /\ box \in Inboxes /\ model \in [Requests -> Runs]
    BY RunTyped DEF SteerInv, TypeOK
  <1>. HIDE DEF k
  <1>2. /\ pc[r] = "streaming" /\ UNCHANGED <<pc, run, loop, mark>>
        /\ \/ model' = [model EXCEPT ![r].made = k] /\ box' = TakeForDelivery(box, Reply(r), k)
           \/ model' = [model EXCEPT ![r].made = k, ![r].under = FALSE] /\ box' = box
    BY DEF ModelSteps, flow, k
  <1>3. /\ model'[r].made = k /\ model'[r].over = model[r].over
        /\ \A q \in Requests \ {r} : model'[q] = model[q]
    BY <1>1, <1>2 DEF Runs
  <1>4. CASE box' = TakeForDelivery(box, Reply(r), k)
    <2>1. \A s \in Steers : s \in PendingFor(box, Reply(r)) =>
            box.at[s] = "pending" /\ box.filed[s] = Reply(r)
      BY DEF PendingFor, At
    <2>2. /\ box'.filed = box.filed
          /\ \A s \in Steers :
               \/ box'.at[s] = box.at[s] /\ box'.step[s] = box.step[s]
               \/ /\ box.at[s] = "pending" /\ box.filed[s] = Reply(r)
                  /\ box'.at[s] = "delivered" /\ box'.step[s] = k
      BY <1>1, <1>4, <2>1, HandedOver
    <2>. QED BY <1>1, <1>2, <1>3, <2>2 DEF k
  <1>5. CASE box' = box
    BY <1>1, <1>2, <1>3, <1>5 DEF k
  <1>. QED BY <1>2, <1>4, <1>5

LEMMA ModelStepsBoundaries ==
  ASSUME SteerInv, Boundaries, NEW r \in Requests, ModelSteps(r)
  PROVE  Boundaries'
  <1>. DEFINE k == model[r].made + 1
  <1>1. /\ pc[r] = "streaming" /\ model'[r].made = k /\ model'[r].over = model[r].over
        /\ \A q \in Requests \ {r} : model'[q] = model[q]
        /\ UNCHANGED <<pc, run, loop, mark>>
        /\ box'.filed = box.filed
        /\ \A s \in Steers :
             \/ box'.at[s] = box.at[s] /\ box'.step[s] = box.step[s]
             \/ /\ box.at[s] = "pending" /\ box.filed[s] = Reply(r)
                /\ box'.at[s] = "delivered" /\ box'.step[s] = k
    BY ModelStepped
  <1>2. /\ model[r].made \in Nat /\ loop[r].done \in Nat /\ loop[r].done <= model[r].made
        /\ k \in Nat /\ model[r].made < k /\ ~(k <= loop[r].done)
    BY RunTyped
  <1>. HIDE DEF k
  <1>3. ASSUME NEW s \in Steers, box'.filed[s] = Reply(r)'
        PROVE  /\ pc'[r] = "setup" => box'.at[s] \notin {"delivered", "written"}
               /\ pc'[r] = "streaming" /\ box'.at[s] = "delivered" =>
                    /\ box'.step[s] <= model'[r].made
                    /\ box'.step[s] <= loop'[r].done =>
                         loop'[r] = [done |-> box'.step[s], inside |-> FALSE]
               /\ pc'[r] = "streaming" /\ box'.at[s] = "written" =>
                    \/ mark'[s] = [done |-> box'.step[s], inside |-> FALSE]
                    \/ mark'[s].done < box'.step[s] /\ model'[r].over
    <2>1. box.filed[s] = Reply(r) /\ box.step[s] \in Nat
      BY <1>1, <1>3 DEF Reply, SteerInv, TypeOK, Inboxes
    <2>2. CASE box'.at[s] = "delivered" /\ box'.step[s] = k
      BY <1>1, <1>2, <2>2
    <2>3. CASE box'.at[s] = box.at[s] /\ box'.step[s] = box.step[s]
      BY <1>1, <1>2, <2>1, <2>3 DEF Boundaries
    <2>. QED BY <1>1, <2>2, <2>3
  <1>4. ASSUME NEW s \in Steers, NEW q \in Requests \ {r}
        PROVE  box'.filed[s] = Reply(q)' => /\ box'.filed[s] = box.filed[s]
                                            /\ box'.step[s] = box.step[s]
                                            /\ box'.at[s] \in {"delivered", "written"} =>
                                                 box'.at[s] = box.at[s] /\ mark'[s] = mark[s]
    <2>1. box'.filed[s] = Reply(q)' => box.filed[s] # Reply(r)
      BY <1>1 DEF Reply
    <2>. QED BY <1>1, <2>1
  <1>. QED BY <1>1, <1>3, <1>4, OthersBoundaries DEF Boundaries

\* A drain of one reply marks nothing of another's.
LEMMA DrainSparesOthers ==
  ASSUME SteerInv, NEW r \in Requests, NEW k \in Nat, Drain(r, k), UNCHANGED run,
         NEW q \in Requests \ {r}, NEW s \in Steers
  PROVE  box'.filed[s] = Reply(q)' => /\ box'.filed[s] = box.filed[s]
                                      /\ box'.step[s] = box.step[s]
                                      /\ box'.at[s] \in {"delivered", "written"} =>
                                           box'.at[s] = box.at[s] /\ mark'[s] = mark[s]
  <1>1. /\ box'.filed = box.filed /\ box'.step = box.step
        /\ box.filed[s] # Reply(r) => box'.at[s] = box.at[s] /\ mark'[s] = mark[s]
    BY Drained
  <1>2. box'.filed[s] = Reply(q)' => box.filed[s] # Reply(r)
    BY <1>1 DEF Reply
  <1>. QED BY <1>1, <1>2

LEMMA ModelFinishesBoundaries ==
  ASSUME SteerInv, Boundaries, NEW r \in Requests, ModelFinishes(r)
  PROVE  Boundaries'
  <1>1. /\ pc[r] = "streaming" /\ Drain(r, MaxSteps)
        /\ model' = [model EXCEPT ![r].over = TRUE]
        /\ UNCHANGED <<pc, run, loop>>
    BY DEF ModelFinishes, flow
  <1>2. /\ model'[r].over
        /\ \A q \in Requests : /\ model'[q].made = model[q].made
                               /\ q # r => model'[q] = model[q]
    BY <1>1 DEF SteerInv, TypeOK, Runs
  <1>3. ASSUME NEW s \in Steers, box'.filed[s] = Reply(r)'
        PROVE  /\ pc'[r] = "setup" => box'.at[s] \notin {"delivered", "written"}
               /\ pc'[r] = "streaming" /\ box'.at[s] = "delivered" =>
                    /\ box'.step[s] <= model'[r].made
                    /\ box'.step[s] <= loop'[r].done =>
                         loop'[r] = [done |-> box'.step[s], inside |-> FALSE]
               /\ pc'[r] = "streaming" /\ box'.at[s] = "written" =>
                    \/ mark'[s] = [done |-> box'.step[s], inside |-> FALSE]
                    \/ mark'[s].done < box'.step[s] /\ model'[r].over
    <2>1. /\ box'.filed = box.filed /\ box'.step = box.step
          /\ LET ready == /\ box.at[s] = "delivered" /\ box.filed[s] = Reply(r)
                          /\ box.step[s] <= MaxSteps
             IN  /\ box'.at[s] = IF ready THEN "written" ELSE box.at[s]
                 /\ mark'[s] = IF ready THEN loop[r] ELSE mark[s]
      BY <1>1, Sizes, Drained
    <2>2. box.filed[s] = Reply(r) /\ box.step[s] <= MaxSteps
      BY <1>1, <1>3, <2>1 DEF Reply, SteerInv, Counts
    <2>3. CASE box.at[s] = "delivered"
      <3>1. box.step[s] <= loop[r].done => loop[r] = [done |-> box.step[s], inside |-> FALSE]
        BY <1>1, <2>2, <2>3 DEF Boundaries
      <3>2. box.step[s] <= loop[r].done \/ loop[r].done < box.step[s]
        BY RunTyped, <2>2, <1>1 DEF SteerInv, TypeOK, Inboxes
      <3>3. box'.at[s] = "written" /\ mark'[s] = loop[r]
        BY <2>1, <2>2, <2>3
      <3>. QED BY <1>1, <1>2, <2>1, <3>1, <3>2, <3>3
    <2>4. CASE box.at[s] # "delivered"
      BY <1>1, <1>2, <2>1, <2>2, <2>4 DEF Boundaries
    <2>. QED BY <2>3, <2>4
  <1>4. \A q \in Requests \ {r}, s \in Steers :
          box'.filed[s] = Reply(q)' => /\ box'.filed[s] = box.filed[s]
                                       /\ box'.step[s] = box.step[s]
                                       /\ box'.at[s] \in {"delivered", "written"} =>
                                            box'.at[s] = box.at[s] /\ mark'[s] = mark[s]
    BY <1>1, Sizes, DrainSparesOthers
  <1>. QED BY <1>1, <1>2, <1>3, <1>4, OthersBoundaries DEF Boundaries

LEMMA LoopWritesBoundaries ==
  ASSUME SteerInv, Boundaries, NEW r \in Requests, LoopWrites(r)
  PROVE  Boundaries'
  <1>1. /\ pc[r] = "streaming" /\ Drain(r, loop[r].done)
        /\ \/ loop' = [loop EXCEPT ![r].inside = TRUE]
           \/ loop' = [loop EXCEPT ![r] = [done |-> loop[r].done + 1, inside |-> FALSE]]
        /\ UNCHANGED <<pc, run, model>>
    BY DEF LoopWrites, flow
  <1>a. loop \in [Requests -> Positions] /\ loop[r].done \in Nat
    BY RunTyped DEF SteerInv, TypeOK
  <1>2. /\ \A q \in Requests \ {r} : loop'[q] = loop[q]
        /\ \/ loop'[r].done = loop[r].done
           \/ loop'[r] = [done |-> loop[r].done + 1, inside |-> FALSE]
    BY <1>1, <1>a DEF Positions
  <1>3. ASSUME NEW s \in Steers, box'.filed[s] = Reply(r)'
        PROVE  /\ pc'[r] = "setup" => box'.at[s] \notin {"delivered", "written"}
               /\ pc'[r] = "streaming" /\ box'.at[s] = "delivered" =>
                    /\ box'.step[s] <= model'[r].made
                    /\ box'.step[s] <= loop'[r].done =>
                         loop'[r] = [done |-> box'.step[s], inside |-> FALSE]
               /\ pc'[r] = "streaming" /\ box'.at[s] = "written" =>
                    \/ mark'[s] = [done |-> box'.step[s], inside |-> FALSE]
                    \/ mark'[s].done < box'.step[s] /\ model'[r].over
    <2>1. /\ box'.filed = box.filed /\ box'.step = box.step
          /\ LET ready == /\ box.at[s] = "delivered" /\ box.filed[s] = Reply(r)
                          /\ box.step[s] <= loop[r].done
             IN  /\ box'.at[s] = IF ready THEN "written" ELSE box.at[s]
                 /\ mark'[s] = IF ready THEN loop[r] ELSE mark[s]
      BY <1>1, <1>a, Drained
    <2>2. box.filed[s] = Reply(r) /\ box.step[s] \in Nat
      BY <1>1, <1>3, <2>1 DEF Reply, SteerInv, TypeOK, Inboxes
    <2>3. CASE box.at[s] = "delivered" /\ box.step[s] <= loop[r].done
      <3>1. loop[r] = [done |-> box.step[s], inside |-> FALSE]
        BY <1>1, <2>2, <2>3 DEF Boundaries
      <3>2. box'.at[s] = "written" /\ mark'[s] = loop[r]
        BY <2>1, <2>2, <2>3
      <3>. QED BY <1>1, <2>1, <3>1, <3>2
    <2>4. CASE box.at[s] = "delivered" /\ ~(box.step[s] <= loop[r].done)
      <3>1. box'.at[s] = "delivered" /\ box.step[s] <= model[r].made
        BY <1>1, <2>1, <2>2, <2>4 DEF Boundaries
      <3>2. CASE loop'[r].done = loop[r].done
        BY <1>1, <2>1, <2>4, <3>1, <3>2
      <3>3. CASE loop'[r] = [done |-> loop[r].done + 1, inside |-> FALSE]
        <4>1. box.step[s] <= loop[r].done + 1 => box.step[s] = loop[r].done + 1
          BY <1>a, <2>2, <2>4
        <4>2. loop'[r].done = loop[r].done + 1
          BY <3>3
        <4>. QED BY <1>1, <2>1, <3>1, <3>3, <4>1, <4>2
      <3>. QED BY <1>2, <3>2, <3>3
    <2>5. CASE box.at[s] # "delivered"
      BY <1>1, <2>1, <2>2, <2>5 DEF Boundaries
    <2>. QED BY <2>3, <2>4, <2>5
  <1>4. \A q \in Requests \ {r}, s \in Steers :
          box'.filed[s] = Reply(q)' => /\ box'.filed[s] = box.filed[s]
                                       /\ box'.step[s] = box.step[s]
                                       /\ box'.at[s] \in {"delivered", "written"} =>
                                            box'.at[s] = box.at[s] /\ mark'[s] = mark[s]
    BY <1>1, <1>a, DrainSparesOthers
  <1>. QED BY <1>1, <1>2, <1>3, <1>4, OthersBoundaries DEF Boundaries

LEMMA StreamClosesBoundaries ==
  ASSUME SteerInv, Boundaries, NEW r \in Requests,
         (\E how \in Endings : StreamEnds(r, how)) \/ StreamThrows(r)
  PROVE  Boundaries'
  <1>1. /\ Drain(r, MaxSteps) \/ UNCHANGED <<box, mark>>
        /\ pc'[r] = "between" /\ UNCHANGED run
        /\ \A q \in Requests \ {r} :
             pc'[q] = pc[q] /\ model'[q] = model[q] /\ loop'[q] = loop[q]
    BY DEF StreamEnds, StreamThrows, CloseStream, Goto, SteerInv, TypeOK
  <1>2. \A q \in Requests \ {r}, s \in Steers :
          box'.filed[s] = Reply(q)' => /\ box'.filed[s] = box.filed[s]
                                       /\ box'.step[s] = box.step[s]
                                       /\ box'.at[s] \in {"delivered", "written"} =>
                                            box'.at[s] = box.at[s] /\ mark'[s] = mark[s]
    BY <1>1, Sizes, DrainSparesOthers
  <1>. QED BY <1>1, <1>2, OthersBoundaries DEF Boundaries

\* A request's next run begins under a message id that nothing was filed under
\* but what waited for its last one.
LEMMA NextRunBoundaries ==
  ASSUME SteerInv, Boundaries, NEW r \in Requests,
         run[r] < MaxRuns, NextRun(r), UNCHANGED <<model, loop, mark>>,
         box'.step = box.step,
         \A s \in Steers :
           /\ box'.at[s] \in {"delivered", "written"} =>
                box'.at[s] = box.at[s] /\ box'.filed[s] = box.filed[s]
           /\ box'.filed[s] \in {box.filed[s], <<r, run[r] + 1>>}
  PROVE  Boundaries'
  <1>1. /\ pc'[r] = "setup" /\ run'[r] = run[r] + 1 /\ run[r] \in Nat
        /\ run[r] + 1 \in Numbers
        /\ \A q \in Requests \ {r} : pc'[q] = pc[q] /\ run'[q] = run[q]
    BY Sizes DEF NextRun, Goto, SteerInv, TypeOK, Numbers
  <1>2. \A s \in Steers : box.filed[s] # <<r, run[r] + 1>>
    BY <1>1 DEF SteerInv, Filed
  <1>3. \A s \in Steers : box'.filed[s] = Reply(r)' => box'.at[s] \notin {"delivered", "written"}
    BY <1>1, <1>2 DEF Reply
  <1>4. \A q \in Requests \ {r}, s \in Steers :
          box'.filed[s] = Reply(q)' => /\ box'.filed[s] = box.filed[s]
                                       /\ box'.step[s] = box.step[s]
                                       /\ box'.at[s] \in {"delivered", "written"} =>
                                            box'.at[s] = box.at[s] /\ mark'[s] = mark[s]
    <2>1. \A q \in Requests \ {r} : Reply(q)' # <<r, run[r] + 1>>
      BY DEF Reply
    <2>. QED BY <2>1
  <1>. QED BY <1>1, <1>3, <1>4, OthersBoundaries DEF Boundaries

LEMMA BoundariesKept ==
  ASSUME SteerInv, Boundaries, [Next]_vars
  PROVE  Boundaries'
  <1>1. ASSUME NEW r \in Requests, RunStep(r) PROVE Boundaries'
    BY <1>1, StreamOpensBoundaries, SetupEndsQuietly, QuietKeepsBoundaries,
       ModelStepsBoundaries, ModelFinishesBoundaries, LoopWritesBoundaries,
       StreamClosesBoundaries DEF RunStep
  <1>2. ASSUME NEW r \in Requests, Continues(r) PROVE Boundaries'
    <2>1. /\ run[r] < MaxRuns /\ NextRun(r) /\ UNCHANGED <<model, loop, mark>>
          /\ box' = Refile(box, Reply(r), <<r, run[r] + 1>>)
      BY <1>2 DEF Continues, run_
    <2>2. box \in Inboxes /\ <<r, run[r] + 1>> \in Replies
      BY <2>1, Sizes, Answers DEF SteerInv, TypeOK, Numbers
    <2>3. \A s \in Steers : s \in PendingFor(box, Reply(r)) => box.at[s] = "pending"
      BY DEF PendingFor, At
    <2>4. /\ box'.at = box.at /\ box'.step = box.step
          /\ \A s \in Steers : box'.filed[s] = IF s \in PendingFor(box, Reply(r))
                                               THEN <<r, run[r] + 1>> ELSE box.filed[s]
      BY <2>1, <2>2, Refiled
    <2>. QED BY <2>1, <2>3, <2>4, NextRunBoundaries
  <1>3. ASSUME NEW r \in Requests, PromotionEnds(r) PROVE Boundaries'
    <2>1. CASE run[r] < MaxRuns /\ Settle(r, "promoted") /\ NextRun(r)
      <3>1. /\ box'.filed = box.filed /\ box'.step = box.step
            /\ \A s \in Steers : box'.at[s] = IF s \in hand[r] THEN "promoted" ELSE box.at[s]
        BY <2>1, Settled DEF Spots
      <3>2. UNCHANGED <<model, loop, mark>>
        BY <1>3 DEF PromotionEnds, run_
      <3>. QED BY <2>1, <3>1, <3>2, NextRunBoundaries
    <2>2. CASE Settle(r, "unanswered") /\ Goto(r, "leaving") /\ UNCHANGED run
      <3>1. Quiet
        BY <1>3, <2>2, SettlesQuietly DEF PromotionEnds, Goto, Spots, run_
      <3>. QED BY <3>1, QuietKeepsBoundaries
    <2>. QED BY <1>3, <2>1, <2>2 DEF PromotionEnds
  <1>4. ASSUME NEW r \in Requests, SavesWithoutAnswer(r) PROVE Quiet
    BY <1>4, SettlesQuietly DEF SavesWithoutAnswer, Goto, Spots, run_
  <1>5. ASSUME NEW r \in Requests, AfterRun(r) PROVE Boundaries'
    BY <1>2, <1>3, <1>4, <1>5, TakesQuietly, CleansUpQuietly, QuietKeepsBoundaries
       DEF AfterRun
  <1>. QED BY <1>1, <1>5, TurnBeginsBoundaries, DoorsQuietly, QuietKeepsBoundaries DEF Next

\* No marker of a steer stands after anything of the step that followed what the
\* model read, whatever finishes when, and one stands before the end of its own
\* step only once the SDK's finish has run ahead of the loop that writes them.
THEOREM MarkersNeverLate == Spec => []MarkIsNeverLate
  <1>1. Init => Boundaries
    BY DEF Init, Boundaries, EmptyInbox
  <1>2. SteerInv /\ Boundaries /\ [Next]_vars => Boundaries'
    BY BoundariesKept
  <1>3. Boundaries => MarkIsNeverLate
    BY DEF Boundaries, MarkIsNeverLate, At
  <1>. QED BY <1>1, <1>2, <1>3, Inductive, PTL DEF Spec

\* A step that reads nothing and closes no stream.
LEMMA StillDelivered ==
  ASSUME SteerInv, Delivered,
         \A s \in Steers : box'.at[s] = "delivered" =>
           box.at[s] = "delivered" /\ box'.filed[s] = box.filed[s],
         \A r \in Requests : pc[r] = "streaming" => pc'[r] = pc[r] /\ run'[r] = run[r]
  PROVE  Delivered'
  BY DEF Delivered

LEMMA DrainedDelivered ==
  ASSUME SteerInv, NEW r \in Requests, NEW k \in Nat, Drain(r, k)
  PROVE  \A s \in Steers : box'.at[s] = "delivered" =>
           box.at[s] = "delivered" /\ box'.filed[s] = box.filed[s]
  BY Drained

LEMMA ModelStepsDelivered ==
  ASSUME SteerInv, Delivered, NEW r \in Requests, ModelSteps(r)
  PROVE  Delivered'
  <1>1. /\ pc[r] = "streaming" /\ UNCHANGED <<pc, run>> /\ box'.filed = box.filed
        /\ \A s \in Steers : \/ box'.at[s] = box.at[s]
                             \/ box.filed[s] = Reply(r) /\ box'.at[s] = "delivered"
    BY ModelStepped
  <1>. SUFFICES ASSUME NEW s \in Steers, NEW q \in Requests, NEW n \in Numbers,
                       box'.at[s] = "delivered", box.filed[s] = <<q, n>>
                PROVE  n = run[q] /\ pc[q] = "streaming"
    BY <1>1 DEF Delivered
  <1>2. CASE box.at[s] = "delivered"
    BY <1>2 DEF Delivered
  <1>3. CASE box.filed[s] = Reply(r)
    BY <1>1, <1>3 DEF Reply
  <1>. QED BY <1>1, <1>2, <1>3

\* A stream that ends leaves nothing that its model had read.
LEMMA StreamEndsDelivered ==
  ASSUME SteerInv, Delivered, NEW r \in Requests, NEW how \in Endings, StreamEnds(r, how)
  PROVE  Delivered'
  <1>1. /\ Drain(r, MaxSteps) /\ UNCHANGED run
        /\ \A q \in Requests \ {r} : pc'[q] = pc[q]
    BY DEF StreamEnds, Goto, SteerInv, TypeOK
  <1>2. \A s \in Steers : box.step[s] <= MaxSteps
    BY DEF SteerInv, Counts
  <1>3. \A s \in Steers : box'.at[s] = "delivered" =>
          /\ box.at[s] = "delivered" /\ box'.filed[s] = box.filed[s]
          /\ box.filed[s] # Reply(r)
    BY <1>1, <1>2, Sizes, Drained
  <1>. SUFFICES ASSUME NEW s \in Steers, NEW q \in Requests, NEW n \in Numbers,
                       box'.at[s] = "delivered", box'.filed[s] = <<q, n>>
                PROVE  n = run'[q] /\ pc'[q] = "streaming"
    BY DEF Delivered
  <1>4. n = run[q] /\ pc[q] = "streaming" /\ <<q, n>> # Reply(r)
    BY <1>3 DEF Delivered
  <1>5. q # r
    BY <1>4 DEF Reply
  <1>. QED BY <1>1, <1>4, <1>5

LEMMA DeliveredKept ==
  ASSUME SteerInv, Delivered, MayThrow = FALSE, [Next]_vars
  PROVE  Delivered'
  <1>1. ASSUME NEW r \in Requests, RunStep(r) PROVE Delivered'
    <2>1. CASE StreamOpens(r)
      BY <2>1, StillDelivered DEF StreamOpens, Goto, SteerInv, TypeOK
    <2>2. CASE SetupEnds(r)
      BY <2>2, SetupEndsQuietly, QuietKeepsDelivered
    <2>3. CASE ModelFinishes(r)
      <3>1. Drain(r, MaxSteps) /\ UNCHANGED <<pc, run>>
        BY <2>3 DEF ModelFinishes, flow
      <3>. QED BY <3>1, Sizes, DrainedDelivered, StillDelivered
    <2>4. CASE LoopWrites(r)
      <3>1. Drain(r, loop[r].done) /\ UNCHANGED <<pc, run>> /\ loop[r].done \in Nat
        BY <2>4, RunTyped DEF LoopWrites, flow
      <3>. QED BY <3>1, DrainedDelivered, StillDelivered
    <2>5. ~StreamThrows(r)
      BY DEF StreamThrows
    <2>. QED BY <1>1, <2>1, <2>2, <2>3, <2>4, <2>5, ModelStepsDelivered,
             StreamEndsDelivered DEF RunStep
  <1>2. ASSUME NEW r \in Requests, Continues(r) PROVE Delivered'
    <2>1. /\ pc[r] = "between" /\ run[r] < MaxRuns
          /\ \A q \in Requests \ {r} : pc'[q] = pc[q] /\ run'[q] = run[q]
          /\ box' = Refile(box, Reply(r), <<r, run[r] + 1>>)
      BY <1>2 DEF Continues, NextRun, Goto, SteerInv, TypeOK
    <2>2. box \in Inboxes /\ <<r, run[r] + 1>> \in Replies
      BY <2>1, Sizes, Answers DEF SteerInv, TypeOK, Numbers
    <2>3. \A s \in Steers : s \in PendingFor(box, Reply(r)) => box.at[s] = "pending"
      BY DEF PendingFor, At
    <2>4. \A s \in Steers : box'.at[s] = "delivered" =>
            box.at[s] = "delivered" /\ box'.filed[s] = box.filed[s]
      BY <2>1, <2>2, <2>3, Refiled
    <2>. QED BY <2>1, <2>4, StillDelivered
  <1>3. ASSUME NEW r \in Requests, PromotionEnds(r) PROVE Delivered'
    <2>1. /\ pc[r] = "promoting"
          /\ \A q \in Requests \ {r} : pc'[q] = pc[q] /\ run'[q] = run[q]
          /\ Settle(r, "promoted") \/ Settle(r, "unanswered")
      BY <1>3 DEF PromotionEnds, NextRun, Goto, SteerInv, TypeOK
    <2>2. \A s \in Steers : box'.at[s] = "delivered" =>
            box.at[s] = "delivered" /\ box'.filed[s] = box.filed[s]
      <3>1. \A outcome \in {"promoted", "unanswered"} :
              Settle(r, outcome) =>
                \A s \in Steers : box'.at[s] = "delivered" =>
                  box.at[s] = "delivered" /\ box'.filed[s] = box.filed[s]
        BY Settled DEF Spots
      <3>. QED BY <2>1, <3>1
    <2>. QED BY <2>1, <2>2, StillDelivered
  <1>4. ASSUME NEW r \in Requests, SavesWithoutAnswer(r) PROVE Quiet
    BY <1>4, SettlesQuietly DEF SavesWithoutAnswer, Goto, Spots, run_
  <1>5. ASSUME NEW r \in Requests, AfterRun(r) PROVE Delivered'
    BY <1>2, <1>3, <1>4, <1>5, TakesQuietly, CleansUpQuietly, QuietKeepsDelivered
       DEF AfterRun
  <1>6. ASSUME NEW r \in Requests, TurnBegins(r) PROVE Delivered'
    <2>1. /\ pc[r] = "idle" /\ UNCHANGED box
          /\ \A q \in Requests \ {r} : pc'[q] = pc[q] /\ run'[q] = run[q]
      BY <1>6 DEF TurnBegins, Goto, SteerInv, TypeOK
    <2>. QED BY <2>1, StillDelivered
  <1>. QED BY <1>1, <1>5, <1>6, DoorsQuietly, QuietKeepsDelivered DEF Next

\* What waits is filed under the run somebody will ask for, and what the model
\* has read under a reply that is still written, as long as the loop that writes
\* replies does not throw (the run `thrown` shows what happens when it does).
THEOREM FiledRight ==
  ASSUME MayThrow = FALSE
  PROVE  Spec => []FiledWithItsReply
  <1>1. Init => Delivered
    BY DEF Init, Delivered, EmptyInbox
  <1>2. SteerInv /\ Delivered /\ [Next]_vars => Delivered'
    BY DeliveredKept
  <1>3. SteerInv /\ Delivered => FiledWithItsReply
    <2>. SUFFICES ASSUME SteerInv, Delivered, NEW s \in Steers, NEW r \in Requests,
                         box.filed[s] \in {r} \X (1 .. MaxRuns)
                  PROVE  /\ box.at[s] = "pending" /\ s \notin Dms =>
                              box.filed[s] = Reply(r) /\ pc[r] \in Own
                         /\ box.at[s] = "delivered" =>
                              box.filed[s] = Reply(r) /\ pc[r] = "streaming"
      BY DEF FiledWithItsReply, Own
    <2>1. PICK n \in Numbers : box.filed[s] = <<r, n>>
      BY DEF Numbers
    <2>. QED BY <2>1 DEF SteerInv, Waits, Delivered, Reply
  <1>. QED BY <1>1, <1>2, <1>3, Inductive, PTL DEF Spec

-----------------------------------------------------------------------------
(* What a clean-up spares.                                                  *)

\* While a clean-up awaits, the reply it spares is the live one or none is, and
\* what still waits in the inbox is that reply's.
Spared ==
  \A r \in Requests : pc[r] \in Cleaning =>
    /\ stream \in {keep[r], NoReply}
    /\ \A s \in At(box, "pending") : pc[r] = "telling" \/ s \in Dms => box.filed[s] = keep[r]
    /\ \A s \in hand[r] : box.filed[s] \notin {keep[r], NoReply}

\* What was read was read after some step.
WasRead == \A s \in Steers : box.at[s] \in {"delivered", "dropped"} => box.step[s] > 0

SparedInv == SteerInv /\ Spared /\ WasRead

\* A step that opens no stream and begins no await of a clean-up.
LEMMA StillSpared ==
  ASSUME SparedInv,
         \A r \in Requests : pc'[r] \in Cleaning =>
           pc'[r] = pc[r] /\ keep'[r] = keep[r] /\ hand'[r] = hand[r],
         stream' \in {stream, NoReply},
         \A s \in Steers : box'.at[s] = "pending" =>
           \/ box.at[s] = "pending" /\ box'.filed[s] = box.filed[s]
           \/ box'.filed[s] = stream /\ stream # NoReply,
         \A s \in Steers : box.at[s] = "taken" => box'.filed[s] = box.filed[s]
  PROVE  Spared'
  <1>. SUFFICES ASSUME NEW r \in Requests, pc'[r] \in Cleaning
                PROVE  /\ stream' \in {keep'[r], NoReply}
                       /\ \A s \in Steers : box'.at[s] = "pending" =>
                            (pc'[r] = "telling" \/ s \in Dms => box'.filed[s] = keep'[r])
                       /\ \A s \in hand'[r] : box'.filed[s] \notin {keep'[r], NoReply}
    BY DEF Spared, At
  <1>1. /\ pc'[r] = pc[r] /\ keep'[r] = keep[r] /\ hand'[r] = hand[r]
        /\ stream \in {keep[r], NoReply}
        /\ \A s \in Steers : box.at[s] = "pending" =>
             (pc[r] = "telling" \/ s \in Dms => box.filed[s] = keep[r])
        /\ \A s \in hand[r] : box.filed[s] \notin {keep[r], NoReply}
    BY DEF SparedInv, Spared, At
  <1>2. \A s \in hand[r] : s \in Steers /\ box.at[s] = "taken"
    BY DEF SparedInv, SteerInv, TypeOK, Handed
  <1>. QED BY <1>1, <1>2

LEMMA StillRead ==
  ASSUME SparedInv,
         \A s \in Steers : box'.at[s] \in {"delivered", "dropped"} =>
           box.at[s] \in {"delivered", "dropped"} /\ box'.step[s] = box.step[s]
  PROVE  WasRead'
  BY DEF SparedInv, WasRead

\* While no other request cleans up, a stream that opens is nobody's to spare.
LEMMA OpensAlone ==
  ASSUME CleanupIsShort = TRUE, NEW r \in Requests, ~(CleanupIsShort /\ OthersCleanUp(r)),
         pc'[r] \notin Cleaning, \A q \in Requests \ {r} : pc'[q] = pc[q]
  PROVE  Spared'
  <1>1. \A q \in Requests : pc'[q] \notin Cleaning
    BY DEF OthersCleanUp, Cleaning
  <1>. QED BY <1>1 DEF Spared

LEMMA RunStepSpares ==
  ASSUME SparedInv, CleanupIsShort = TRUE, NEW r \in Requests, RunStep(r)
  PROVE  Spared' /\ WasRead'
  <1>. USE DEF flow, Cleaning
  <1>0. /\ box \in Inboxes /\ pc \in [Requests -> Places] /\ SteerInv
        /\ loop[r].done \in Nat
    BY RunTyped DEF SparedInv, SteerInv, TypeOK
  <1>1. CASE StreamOpens(r)
    <2>1. /\ ~(CleanupIsShort /\ OthersCleanUp(r)) /\ box' = box
          /\ pc'[r] = "streaming" /\ \A q \in Requests \ {r} : pc'[q] = pc[q]
      BY <1>0, <1>1 DEF StreamOpens, Goto
    <2>. QED BY <2>1, OpensAlone, StillRead
  <1>2. CASE SetupEnds(r)
    <2>1. /\ UNCHANGED <<box, stream, keep, hand>>
          /\ pc'[r] \notin Cleaning /\ \A q \in Requests \ {r} : pc'[q] = pc[q]
      BY <1>0, <1>2 DEF SetupEnds, Goto
    <2>. QED BY <2>1, StillSpared, StillRead
  <1>3. CASE ModelSteps(r)
    <2>1. /\ UNCHANGED <<pc, stream, keep, hand>> /\ box'.filed = box.filed
          /\ model[r].made + 1 > 0
          /\ \A s \in Steers :
               \/ box'.at[s] = box.at[s] /\ box'.step[s] = box.step[s]
               \/ box'.at[s] = "delivered" /\ box'.step[s] = model[r].made + 1
      BY <1>0, <1>3, ModelStepped, RunTyped DEF ModelSteps
    <2>2. Spared'
      BY <2>1, StillSpared
    <2>. QED BY <2>1, <2>2 DEF SparedInv, WasRead
  <1>4. ASSUME NEW k \in Nat, Drain(r, k)
        PROVE  /\ box'.filed = box.filed
               /\ WasRead'
               /\ \A s \in Steers : box'.at[s] = "pending" => box.at[s] = "pending"
    <2>1. /\ box'.filed = box.filed /\ box'.step = box.step
          /\ \A s \in Steers : \/ box'.at[s] = box.at[s]
                               \/ box.at[s] = "delivered" /\ box'.at[s] = "written"
      BY <1>0, <1>4, DrainKeeps
    <2>2. WasRead'
      BY <2>1, StillRead
    <2>. QED BY <2>1, <2>2
  <1>6. CASE \E how \in Endings : StreamEnds(r, how)
    <2>1. /\ UNCHANGED <<keep, hand>> /\ stream' \in {stream, NoReply}
          /\ pc'[r] \notin Cleaning /\ \A q \in Requests \ {r} : pc'[q] = pc[q]
          /\ Drain(r, MaxSteps)
      BY <1>0, <1>6 DEF StreamEnds, CloseStream, Goto
    <2>. QED BY <1>4, <2>1, Sizes, StillSpared
  <1>7. CASE ModelFinishes(r) \/ LoopWrites(r)
    <2>1. /\ UNCHANGED <<pc, stream, keep, hand>>
          /\ Drain(r, MaxSteps) \/ Drain(r, loop[r].done)
      BY <1>7 DEF ModelFinishes, LoopWrites
    <2>2. /\ box'.filed = box.filed /\ WasRead'
          /\ \A s \in Steers : box'.at[s] = "pending" => box.at[s] = "pending"
      BY <1>0, <1>4, <2>1, Sizes
    <2>. QED BY <2>1, <2>2, StillSpared
  <1>5. CASE StreamThrows(r)
    <2>1. /\ UNCHANGED <<box, keep, hand>> /\ stream' \in {stream, NoReply}
          /\ pc'[r] \notin Cleaning /\ \A q \in Requests \ {r} : pc'[q] = pc[q]
      BY <1>0, <1>5 DEF StreamThrows, CloseStream, Goto
    <2>. QED BY <2>1, StillSpared, StillRead
  <1>. QED BY <1>1, <1>2, <1>3, <1>5, <1>6, <1>7 DEF RunStep

\* What a clean-up's step does, in full; b is the inbox without the DMs that
\* were just settled.
LEMMA ClearsSpared ==
  ASSUME NEW b \in Inboxes, NEW m, MissedUsers(b, m) = {},
         \A s \in Steers \cap Dms : b.at[s] = "pending" => b.filed[s] = m
  PROVE  \A s \in Steers : /\ Clear(b, m).at[s] \in {"delivered", "dropped"} =>
                                b.at[s] \in {"delivered", "dropped"}
                           /\ b.filed[s] = m => Clear(b, m).at[s] = b.at[s]
  <1>1. \A s \in Steers : b.at[s] = "pending" => b.filed[s] = m
    BY DEF MissedUsers, At
  <1>2. \A s \in Steers : Clear(b, m).at[s] =
                            IF b.at[s] \in {"pending", "delivered"} /\ b.filed[s] # m
                            THEN "dropped" ELSE b.at[s]
    BY Cleared
  <1>. QED BY <1>1, <1>2

LEMMA CleansUpSpares ==
  ASSUME SparedInv, NEW r \in Requests, CleansUp(r)
  PROVE  Spared' /\ WasRead'
  <1>. DEFINE dms == MissedDms(box, stream)
              users == MissedUsers(box, stream)
  <1>0. /\ box \in Inboxes /\ pc \in [Requests -> Places] /\ hand \in [Requests -> SUBSET Steers]
        /\ keep \in [Requests -> Replies \cup {NoReply}] /\ pc[r] = "leaving"
        /\ keep' = [keep EXCEPT ![r] = stream] /\ UNCHANGED stream
        /\ \A s \in Steers : box.at[s] = "pending" => box.filed[s] # NoReply
    BY DEF CleansUp, SparedInv, SteerInv, TypeOK, Filed
  <1>1. CASE /\ dms # {}
             /\ box' = Move(box, dms, "taken")
             /\ hand' = [hand EXCEPT ![r] = dms]
             /\ pc' = [pc EXCEPT ![r] = "degrading"]
    <2>1. \A s \in Steers : s \in dms <=>
            s \in Dms /\ box.at[s] = "pending" /\ box.filed[s] # stream
      BY DEF MissedDms, At
    <2>2. dms \subseteq Steers
      BY DEF MissedDms, At
    <2>. HIDE DEF dms
    <2>3. /\ box'.filed = box.filed /\ box'.step = box.step
          /\ \A s \in Steers : box'.at[s] = IF s \in dms THEN "taken" ELSE box.at[s]
      BY <1>0, <1>1, Moved DEF Spots
    <2>4. WasRead'
      BY <2>3, StillRead
    <2>5. ASSUME NEW q \in Requests, pc'[q] \in Cleaning
          PROVE  /\ stream' \in {keep'[q], NoReply}
                 /\ \A s \in At(box', "pending") :
                      pc'[q] = "telling" \/ s \in Dms => box'.filed[s] = keep'[q]
                 /\ \A s \in hand'[q] : box'.filed[s] \notin {keep'[q], NoReply}
      <3>1. CASE q = r
        BY <1>0, <1>1, <2>1, <2>2, <2>3, <3>1 DEF At
      <3>2. CASE q # r
        <4>1. pc[q] \in Cleaning /\ pc'[q] = pc[q] /\ keep'[q] = keep[q] /\ hand'[q] = hand[q]
          BY <1>0, <1>1, <2>5, <3>2
        <4>. QED BY <1>0, <2>3, <4>1 DEF SparedInv, Spared, At
      <3>. QED BY <3>1, <3>2
    <2>6. Spared'
      BY <2>5 DEF Spared
    <2>. QED BY <2>4, <2>6
  <1>2. CASE dms = {} /\ TellOrClear(r, box, stream)
    <2>1. \A s \in Steers : s \in Dms /\ box.at[s] = "pending" => box.filed[s] = stream
      BY <1>2 DEF MissedDms, At
    <2>2. CASE /\ users = {} /\ box' = Clear(box, stream)
               /\ hand' = [hand EXCEPT ![r] = {}]
               /\ pc' = [pc EXCEPT ![r] = "done"]
      <3>1. box'.filed = box.filed /\ box'.step = box.step
        BY <1>0, <2>2, Cleared
      <3>2. \A s \in Steers :
              /\ box'.at[s] \in {"delivered", "dropped"} => box.at[s] \in {"delivered", "dropped"}
              /\ box'.at[s] = "pending" => box.at[s] = "pending"
        BY <1>0, <2>1, <2>2, ClearsSpared, Cleared
      <3>3. /\ pc'[r] \notin Cleaning
            /\ \A q \in Requests \ {r} : /\ pc'[q] = pc[q] /\ keep'[q] = keep[q]
                                         /\ hand'[q] = hand[q]
        BY <1>0, <2>2 DEF Cleaning
      <3>. QED BY <1>0, <3>1, <3>2, <3>3, StillSpared, StillRead
    <2>3. CASE /\ box' = Move(box, users, "taken")
               /\ hand' = [hand EXCEPT ![r] = users]
               /\ pc' = [pc EXCEPT ![r] = "telling"]
      <3>1. \A s \in Steers : s \in users <=>
              s \notin Dms /\ box.at[s] = "pending" /\ box.filed[s] # stream
        BY DEF MissedUsers, At
      <3>2. users \subseteq Steers
        BY DEF MissedUsers, At
      <3>. HIDE DEF users
      <3>3. /\ box'.filed = box.filed /\ box'.step = box.step
            /\ \A s \in Steers : box'.at[s] = IF s \in users THEN "taken" ELSE box.at[s]
        BY <1>0, <2>3, Moved DEF Spots
      <3>4. WasRead'
        BY <3>3, StillRead
      <3>5. ASSUME NEW q \in Requests, pc'[q] \in Cleaning
            PROVE  /\ stream' \in {keep'[q], NoReply}
                   /\ \A s \in At(box', "pending") :
                        pc'[q] = "telling" \/ s \in Dms => box'.filed[s] = keep'[q]
                   /\ \A s \in hand'[q] : box'.filed[s] \notin {keep'[q], NoReply}
        <4>1. CASE q = r
          BY <1>0, <2>1, <2>3, <3>1, <3>2, <3>3, <4>1 DEF At
        <4>2. CASE q # r
          <5>1. pc[q] \in Cleaning /\ pc'[q] = pc[q] /\ keep'[q] = keep[q] /\ hand'[q] = hand[q]
            BY <1>0, <2>3, <3>5, <4>2
          <5>. QED BY <1>0, <3>3, <5>1 DEF SparedInv, Spared, At
        <4>. QED BY <4>1, <4>2
      <3>6. Spared'
        BY <3>5 DEF Spared
      <3>. QED BY <3>4, <3>6
    <2>. QED BY <1>2, <2>2, <2>3 DEF TellOrClear, ClearAndRelease, Goto
  <1>. QED BY <1>1, <1>2 DEF CleansUp, Goto

LEMMA DmsDegradedSpares ==
  ASSUME SparedInv, NEW r \in Requests, DmsDegraded(r)
  PROVE  Spared' /\ WasRead'
  <1>. DEFINE b == Move(box, hand[r], "waits")
              m == keep[r]
              users == MissedUsers(b, m)
  <1>0. /\ box \in Inboxes /\ pc \in [Requests -> Places] /\ hand \in [Requests -> SUBSET Steers]
        /\ pc[r] = "degrading" /\ UNCHANGED <<stream, keep>>
        /\ \A s \in Steers : box.at[s] = "pending" => box.filed[s] # NoReply
        /\ stream \in {m, NoReply}
        /\ \A s \in Steers : box.at[s] = "pending" /\ s \in Dms => box.filed[s] = m
        /\ TellOrClear(r, b, m)
    BY DEF DmsDegraded, SparedInv, SteerInv, TypeOK, Filed, Spared, Cleaning, At
  <1>1. /\ b \in Inboxes /\ b.filed = box.filed /\ b.step = box.step
        /\ \A s \in Steers : b.at[s] = IF s \in hand[r] THEN "waits" ELSE box.at[s]
    BY <1>0, Moved DEF Spots
  <1>. HIDE DEF b
  <1>2. \A s \in Steers : b.at[s] \in {"pending", "delivered", "dropped"} => b.at[s] = box.at[s]
    BY <1>1
  <1>3. \A s \in Steers \cap Dms : b.at[s] = "pending" => b.filed[s] = m
    BY <1>0, <1>1, <1>2
  <1>4. CASE /\ users = {} /\ box' = Clear(b, m)
             /\ hand' = [hand EXCEPT ![r] = {}]
             /\ pc' = [pc EXCEPT ![r] = "done"]
    <2>1. box'.filed = box.filed /\ box'.step = box.step
      BY <1>1, <1>4, Cleared
    <2>2. \A s \in Steers :
            /\ box'.at[s] \in {"delivered", "dropped"} => b.at[s] \in {"delivered", "dropped"}
            /\ box'.at[s] = "pending" => b.at[s] = "pending"
      BY <1>1, <1>3, <1>4, ClearsSpared, Cleared
    <2>3. \A s \in Steers :
            /\ box'.at[s] \in {"delivered", "dropped"} => box.at[s] \in {"delivered", "dropped"}
            /\ box'.at[s] = "pending" => box.at[s] = "pending"
      BY <1>2, <2>2
    <2>4. /\ pc'[r] \notin Cleaning
          /\ \A q \in Requests \ {r} : /\ pc'[q] = pc[q] /\ keep'[q] = keep[q]
                                       /\ hand'[q] = hand[q]
      BY <1>0, <1>4 DEF Cleaning
    <2>. QED BY <1>0, <2>1, <2>3, <2>4, StillSpared, StillRead
  <1>5. CASE /\ box' = Move(b, users, "taken")
             /\ hand' = [hand EXCEPT ![r] = users]
             /\ pc' = [pc EXCEPT ![r] = "telling"]
    <2>1. \A s \in Steers : s \in users <=>
            s \notin Dms /\ b.at[s] = "pending" /\ b.filed[s] # m
      BY DEF MissedUsers, At
    <2>2. users \subseteq Steers
      BY DEF MissedUsers, At
    <2>. HIDE DEF users
    <2>3. /\ box'.filed = box.filed /\ box'.step = box.step
          /\ \A s \in Steers : box'.at[s] = IF s \in users THEN "taken" ELSE b.at[s]
      BY <1>1, <1>5, Moved DEF Spots
    <2>4. WasRead'
      BY <1>2, <2>3, StillRead
    <2>5. ASSUME NEW q \in Requests, pc'[q] \in Cleaning
          PROVE  /\ stream' \in {keep'[q], NoReply}
                 /\ \A s \in At(box', "pending") :
                      pc'[q] = "telling" \/ s \in Dms => box'.filed[s] = keep'[q]
                 /\ \A s \in hand'[q] : box'.filed[s] \notin {keep'[q], NoReply}
      <3>1. CASE q = r
        <4>1. /\ \A s \in Steers : box'.at[s] = "pending" => box'.filed[s] = m
              /\ \A s \in users : box'.filed[s] \notin {m, NoReply}
          BY <1>0, <1>1, <1>2, <1>3, <2>1, <2>2, <2>3
        <4>2. hand'[r] = users /\ keep'[r] = m
          BY <1>0, <1>5
        <4>. QED BY <1>0, <3>1, <4>1, <4>2 DEF At
      <3>2. CASE q # r
        <4>1. pc[q] \in Cleaning /\ pc'[q] = pc[q] /\ keep'[q] = keep[q] /\ hand'[q] = hand[q]
          BY <1>0, <1>5, <2>5, <3>2
        <4>2. \A s \in Steers : box'.at[s] = "pending" => box.at[s] = "pending"
          BY <1>2, <2>3
        <4>. QED BY <1>0, <2>3, <4>1, <4>2 DEF SparedInv, Spared, At
      <3>. QED BY <3>1, <3>2
    <2>6. Spared'
      BY <2>5 DEF Spared
    <2>. QED BY <2>4, <2>6
  <1>. QED BY <1>0, <1>4, <1>5 DEF TellOrClear, ClearAndRelease, Goto

LEMMA MissedToldSpares ==
  ASSUME SparedInv, NEW r \in Requests, MissedTold(r)
  PROVE  Spared' /\ WasRead'
  <1>. DEFINE b == Move(box, hand[r], "unanswered")
  <1>0. /\ box \in Inboxes /\ pc \in [Requests -> Places] /\ hand \in [Requests -> SUBSET Steers]
        /\ pc[r] = "telling" /\ UNCHANGED <<stream, keep>>
        /\ box' = Clear(b, keep[r])
        /\ pc' = [pc EXCEPT ![r] = "done"] /\ hand' = [hand EXCEPT ![r] = {}]
        /\ \A s \in Steers : box.at[s] = "pending" => box.filed[s] = keep[r]
    BY DEF MissedTold, ClearAndRelease, Goto, SparedInv, SteerInv, TypeOK, Spared, Cleaning, At
  <1>1. /\ b \in Inboxes /\ b.filed = box.filed /\ b.step = box.step
        /\ \A s \in Steers : b.at[s] = IF s \in hand[r] THEN "unanswered" ELSE box.at[s]
    BY <1>0, Moved DEF Spots
  <1>. HIDE DEF b
  <1>2. \A s \in Steers : b.at[s] \in {"pending", "delivered", "dropped"} => b.at[s] = box.at[s]
    BY <1>1
  <1>3. /\ box'.filed = box.filed /\ box'.step = box.step
        /\ \A s \in Steers : box'.at[s] = IF b.at[s] \in {"pending", "delivered"}
                                              /\ b.filed[s] # keep[r]
                                          THEN "dropped" ELSE b.at[s]
    BY <1>0, <1>1, Cleared
  <1>4. \A s \in Steers :
          /\ box'.at[s] \in {"delivered", "dropped"} => box.at[s] \in {"delivered", "dropped"}
          /\ box'.at[s] = "pending" => box.at[s] = "pending"
    <2>1. \A s \in Steers : b.at[s] = "pending" => b.filed[s] = keep[r]
      BY <1>0, <1>1, <1>2
    <2>. QED BY <1>2, <1>3, <2>1
  <1>5. /\ pc'[r] \notin Cleaning
        /\ \A q \in Requests \ {r} : pc'[q] = pc[q] /\ keep'[q] = keep[q] /\ hand'[q] = hand[q]
    BY <1>0 DEF Cleaning
  <1>. QED BY <1>0, <1>3, <1>4, <1>5, StillSpared, StillRead

\* What follows a run, up to the clean-up.
LEMMA SettlingSpares ==
  ASSUME SparedInv, CleanupIsShort = TRUE, NEW r \in Requests,
         Continues(r) \/ TakesWhatIsLeft(r) \/ PromotionEnds(r) \/ SavesWithoutAnswer(r)
  PROVE  Spared' /\ WasRead'
  <1>0. /\ box \in Inboxes /\ pc \in [Requests -> Places] /\ hand \in [Requests -> SUBSET Steers]
        /\ SteerInv
    BY DEF SparedInv, SteerInv, TypeOK
  <1>1. CASE Continues(r)
    <2>1. /\ ~(CleanupIsShort /\ OthersCleanUp(r)) /\ run[r] < MaxRuns
          /\ pc'[r] = "setup" /\ \A q \in Requests \ {r} : pc'[q] = pc[q]
          /\ box' = Refile(box, Reply(r), <<r, run[r] + 1>>)
      BY <1>0, <1>1 DEF Continues, NextRun, Goto
    <2>2. <<r, run[r] + 1>> \in Replies
      BY <1>0, <2>1, Sizes, Answers DEF SteerInv, TypeOK, Numbers
    <2>3. box'.at = box.at /\ box'.step = box.step
      BY <1>0, <2>1, <2>2, Refiled
    <2>. QED BY <2>1, <2>3, OpensAlone, StillRead DEF Cleaning
  <1>2. CASE TakesWhatIsLeft(r)
    <2>. DEFINE left == Undelivered(box, Reply(r))
    <2>1. /\ UNCHANGED <<stream, keep>>
          /\ \/ box' = box /\ UNCHANGED hand
             \/ box' = Move(box, left, "taken") /\ hand' = [hand EXCEPT ![r] = left]
          /\ pc'[r] \notin Cleaning /\ \A q \in Requests \ {r} : pc'[q] = pc[q]
      BY <1>0, <1>2 DEF TakesWhatIsLeft, Goto, Cleaning
    <2>. HIDE DEF left
    <2>2. /\ box'.filed = box.filed /\ box'.step = box.step
          /\ \A s \in Steers : box'.at[s] \in {box.at[s], "taken"}
      BY <1>0, <2>1, Moved DEF Spots
    <2>3. \A q \in Requests \ {r} : hand'[q] = hand[q]
      BY <1>0, <2>1
    <2>. QED BY <2>1, <2>2, <2>3, StillSpared, StillRead
  <1>3. ASSUME NEW outcome \in {"promoted", "held", "unanswered"}, Settle(r, outcome),
               UNCHANGED <<stream, keep>>, pc'[r] \notin Cleaning,
               \A q \in Requests \ {r} : pc'[q] = pc[q]
        PROVE  Spared' /\ WasRead'
    <2>1. /\ box'.filed = box.filed /\ box'.step = box.step
          /\ \A q \in Requests \ {r} : hand'[q] = hand[q]
          /\ \A s \in Steers : box'.at[s] = IF s \in hand[r] THEN outcome ELSE box.at[s]
      BY <1>0, <1>3, Settled DEF Spots
    <2>2. \A s \in Steers : box'.at[s] \in {"pending", "delivered", "dropped"} =>
            box'.at[s] = box.at[s]
      BY <2>1
    <2>. QED BY <1>3, <2>1, <2>2, StillSpared, StillRead
  <1>4. CASE PromotionEnds(r)
    BY <1>0, <1>3, <1>4 DEF PromotionEnds, NextRun, Goto, Cleaning
  <1>5. CASE SavesWithoutAnswer(r)
    BY <1>0, <1>3, <1>5 DEF SavesWithoutAnswer, Goto, Cleaning
  <1>. QED BY <1>1, <1>2, <1>4, <1>5

LEMMA DoorsSpare ==
  ASSUME SparedInv,
         \/ \E s \in Steers, m \in Replies : UserSteers(s, m)
         \/ \E s \in Dms : DoorStep(s)
         \/ Stop \/ LockLapses \/ UNCHANGED vars
  PROVE  Spared' /\ WasRead'
  <1>. USE DEF flow, run_, halt
  <1>0. box \in Inboxes /\ stream \in Replies \cup {NoReply} /\ NoReply \notin Replies
    BY Answers DEF SparedInv, SteerInv, TypeOK
  <1>1. UNCHANGED <<pc, keep, hand>> /\ stream' \in {stream, NoReply}
    BY DEF UserSteers, DoorStep, DmStamps, DmEnters, DmStampedBack, Stop, LockLapses, vars
  <1>2. \/ box' = box
        \/ \E e \in Steers, spot \in {"asking", "missed", "refused", "waits"} :
             box' = Move(box, {e}, spot)
        \/ \E e \in Steers : /\ stream \in Replies /\ box.at[e] # "taken"
                             /\ box' = EnqueueSteer(box, e, stream)
    <2>1. ASSUME NEW s \in Steers, NEW m \in Replies, UserSteers(s, m)
          PROVE  \/ stream \in Replies /\ box.at[s] # "taken" /\ box' = EnqueueSteer(box, s, stream)
                 \/ box' = Move(box, {s}, "refused")
      BY <2>1 DEF UserSteers
    <2>2. ASSUME NEW s \in Dms, DoorStep(s)
          PROVE  \/ box' = Move(box, {s}, "asking") \/ box' = Move(box, {s}, "missed")
                 \/ box' = Move(box, {s}, "waits")
                 \/ stream \in Replies /\ box.at[s] # "taken" /\ box' = EnqueueSteer(box, s, stream)
      BY <1>0, <2>2 DEF DoorStep, DmStamps, DmEnters, DmStampedBack
    <2>3. CASE Stop \/ LockLapses \/ UNCHANGED vars
      BY <2>3 DEF Stop, LockLapses, vars
    <2>4. Dms \subseteq Steers
      BY InboxAssumption
    <2>. QED BY <2>1, <2>2, <2>3, <2>4
  <1>3. CASE box' = box
    BY <1>1, <1>3, StillSpared, StillRead
  <1>4. ASSUME NEW e \in Steers, NEW spot \in {"asking", "missed", "refused", "waits"},
               box' = Move(box, {e}, spot)
        PROVE  Spared' /\ WasRead'
    <2>1. /\ box'.filed = box.filed /\ box'.step = box.step
          /\ \A s \in Steers : box'.at[s] = IF s = e THEN spot ELSE box.at[s]
      BY <1>0, <1>4, Moved DEF Spots
    <2>. QED BY <1>1, <2>1, StillSpared, StillRead
  <1>5. ASSUME NEW e \in Steers, stream \in Replies, box.at[e] # "taken",
               box' = EnqueueSteer(box, e, stream)
        PROVE  Spared' /\ WasRead'
    <2>1. /\ box'.step = box.step
          /\ \A s \in Steers : /\ box'.at[s] = IF s = e THEN "pending" ELSE box.at[s]
                               /\ box'.filed[s] = IF s = e THEN stream ELSE box.filed[s]
      BY <1>0, <1>5, Enqueued
    <2>2. \A s \in Steers : box'.at[s] = "pending" =>
            \/ box.at[s] = "pending" /\ box'.filed[s] = box.filed[s]
            \/ box'.filed[s] = stream /\ stream # NoReply
      BY <1>0, <1>5, <2>1
    <2>. QED BY <1>1, <1>5, <2>1, <2>2, StillSpared, StillRead
  <1>. QED BY <1>2, <1>3, <1>4, <1>5

LEMMA SparedKept ==
  ASSUME SparedInv, CleanupIsShort = TRUE, [Next]_vars
  PROVE  SparedInv'
  <1>0. SteerInv'
    BY NextKeeps DEF SparedInv
  <1>1. ASSUME NEW r \in Requests, TurnBegins(r) PROVE Spared' /\ WasRead'
    <2>1. /\ UNCHANGED <<box, stream, keep, hand>>
          /\ pc'[r] \notin Cleaning /\ \A q \in Requests \ {r} : pc'[q] = pc[q]
      BY <1>1 DEF TurnBegins, Goto, Cleaning, SparedInv, SteerInv, TypeOK
    <2>. QED BY <2>1, StillSpared, StillRead
  <1>2. ASSUME NEW r \in Requests, AfterRun(r) PROVE Spared' /\ WasRead'
    BY <1>2, SettlingSpares, CleansUpSpares, DmsDegradedSpares, MissedToldSpares DEF AfterRun
  <1>3. Spared' /\ WasRead'
    BY <1>1, <1>2, RunStepSpares, DoorsSpare DEF Next
  <1>. QED BY <1>0, <1>3 DEF SparedInv

LEMMA SparedAlways ==
  ASSUME CleanupIsShort = TRUE
  PROVE  Spec => []SparedInv
  <1>1. Init => Spared /\ WasRead
    BY DEF Init, Spared, WasRead, Cleaning, EmptyInbox
  <1>2. SparedInv /\ [Next]_vars => SparedInv'
    BY SparedKept
  <1>3. Init => SparedInv
    BY <1>1, Starts DEF SparedInv
  <1>. QED BY <1>2, <1>3, PTL DEF Spec

\* No message that still waits is deleted with nobody told: however requests,
\* Stops, both doors and loops that throw interleave, what clearSteerInbox
\* deletes had been read by a model, as long as a clean-up's awaits end before
\* another request's stream opens.
THEOREM OnlyReadDropped ==
  ASSUME CleanupIsShort = TRUE
  PROVE  Spec => []OnlyReadSteersDropped
  <1>1. SparedInv => OnlyReadSteersDropped
    BY DEF SparedInv, WasRead, OnlyReadSteersDropped, At
  <1>. QED BY <1>1, SparedAlways, PTL

\* One step of one request's clean-up leaves what is filed under the live reply.
LEMMA ClearSpares ==
  ASSUME SparedInv, NEW r \in Requests, NEW s \in Steers,
         CleansUp(r) \/ DmsDegraded(r) \/ MissedTold(r), box.filed[s] = stream
  PROVE  box'.at[s] = box.at[s]
  <1>0. /\ box \in Inboxes
        /\ box.at[s] \in {"pending", "delivered"} => box.filed[s] # NoReply
        /\ pc[r] \in Cleaning => /\ stream \in {keep[r], NoReply}
                                 /\ s \in hand[r] => box.filed[s] \notin {keep[r], NoReply}
    BY DEF SparedInv, SteerInv, TypeOK, Filed, Spared
  <1>1. CASE CleansUp(r)
    <2>1. box' \in {Move(box, MissedDms(box, stream), "taken"),
                    Move(box, MissedUsers(box, stream), "taken"), Clear(box, stream)}
      BY <1>1 DEF CleansUp, TellOrClear, ClearAndRelease
    <2>2. s \notin MissedDms(box, stream) /\ s \notin MissedUsers(box, stream)
      BY DEF MissedDms, MissedUsers
    <2>. QED BY <1>0, <2>1, <2>2, Moved, Cleared DEF Spots
  <1>2. ASSUME NEW spot \in Spots \ {"pending", "delivered"}, pc[r] \in Cleaning,
               LET b == Move(box, hand[r], spot)
               IN  box' \in {Move(b, MissedUsers(b, keep[r]), "taken"), Clear(b, keep[r])}
        PROVE  box'.at[s] = box.at[s]
    <2>. DEFINE b == Move(box, hand[r], spot)
    <2>1. /\ b \in Inboxes /\ b.filed = box.filed
          /\ b.at[s] = IF s \in hand[r] THEN spot ELSE box.at[s]
      BY <1>0, Moved
    <2>2. box' \in {Move(b, MissedUsers(b, keep[r]), "taken"), Clear(b, keep[r])}
      BY <1>2
    <2>. HIDE DEF b
    <2>3. s \notin hand[r] /\ b.at[s] = box.at[s] /\ box.filed[s] \in {keep[r], NoReply}
      BY <1>0, <1>2, <2>1
    <2>4. b.at[s] \in {"pending", "delivered"} => b.filed[s] = keep[r]
      BY <1>0, <2>1, <2>3
    <2>5. s \notin MissedUsers(b, keep[r])
      BY <2>4 DEF MissedUsers, At
    <2>6. CASE box' = Move(b, MissedUsers(b, keep[r]), "taken")
      BY <2>1, <2>3, <2>5, <2>6, Moved DEF Spots
    <2>7. CASE box' = Clear(b, keep[r])
      BY <2>1, <2>3, <2>4, <2>7, Cleared
    <2>. QED BY <2>2, <2>6, <2>7
  <1>3. CASE DmsDegraded(r)
    <2>1. /\ pc[r] \in Cleaning
          /\ LET b == Move(box, hand[r], "waits")
             IN  box' \in {Move(b, MissedUsers(b, keep[r]), "taken"), Clear(b, keep[r])}
      BY <1>3 DEF DmsDegraded, TellOrClear, ClearAndRelease, Cleaning
    <2>. QED BY <1>2, <2>1 DEF Spots
  <1>4. CASE MissedTold(r)
    <2>1. /\ pc[r] \in Cleaning
          /\ LET b == Move(box, hand[r], "unanswered")
             IN  box' \in {Move(b, MissedUsers(b, keep[r]), "taken"), Clear(b, keep[r])}
      BY <1>4 DEF MissedTold, ClearAndRelease, Cleaning
    <2>. QED BY <1>2, <2>1 DEF Spots
  <1>. QED BY <1>1, <1>3, <1>4

\* The clean-up of one request (the finally of send-routed) leaves the mail of
\* the reply that is live while it works, as long as its awaits end before
\* another request's stream opens (the run `stale` shows what happens when they
\* do not).
THEOREM LiveTurnSpared ==
  ASSUME CleanupIsShort = TRUE
  PROVE  Spec => ClearSparesLiveTurn
  <1>1. SparedInv /\ [Next]_vars =>
          [\A r \in Requests, s \in Steers :
             /\ CleansUp(r) \/ DmsDegraded(r) \/ MissedTold(r)
             /\ box.filed[s] = stream
             => box'.at[s] = box.at[s]]_vars
    BY ClearSpares
  <1>. QED BY <1>1, SparedAlways, PTL DEF Spec, ClearSparesLiveTurn

-----------------------------------------------------------------------------
(* One reply at a time.                                                     *)

Writing == {"setup", "streaming"}

\* What keeps a second reply from opening its stream over a live one: there is no
\* other request, or no request outlasts its lock, and each runs only once or no
\* Stop takes its lock.
Alone ==
  \/ LockMayLapse = FALSE /\ (MaxRuns = 1 \/ MayStop = FALSE)
  \/ \A p, q \in Requests : p = q

LockHeld ==
  LockMayLapse = FALSE =>
    /\ MaxRuns = 1 => \A r \in Requests : pc[r] \in Writing => lock = r /\ ended = FALSE
    /\ MayStop = FALSE => \A r \in Requests : pc[r] \notin {"idle", "done"} => lock = r

Registered ==
  LockMayLapse = FALSE => \A r \in Requests : pc[r] = "streaming" => stream = Reply(r)

AloneInv == SteerInv /\ LockHeld /\ Registered

LEMMA OneWrites ==
  ASSUME Alone, AloneInv, NEW p \in Requests, NEW q \in Requests,
         pc[p] \in Writing, pc[q] \in Writing
  PROVE  p = q
  BY DEF Alone, AloneInv, LockHeld, Writing

\* A step that moves one request on, and no request into a run.
LEMMA StillAlone ==
  ASSUME AloneInv, NEW r \in Requests,
         pc[r] \notin {"idle", "done"}, pc'[r] \notin Writing \cup {"idle"},
         \A q \in Requests \ {r} : pc'[q] = pc[q],
         UNCHANGED <<run, stream, ended>>,
         \/ lock' = lock
         \/ pc[r] \notin Writing /\ pc'[r] = "done" /\ lock = r
  PROVE  LockHeld' /\ Registered'
  <1>1. LockHeld'
    BY DEF AloneInv, LockHeld, Writing
  <1>2. Registered'
    BY DEF AloneInv, Registered, Writing, Reply
  <1>. QED BY <1>1, <1>2

LEMMA RunStepAlone ==
  ASSUME Alone, AloneInv, NEW r \in Requests, RunStep(r)
  PROVE  LockHeld' /\ Registered'
  <1>0. pc \in [Requests -> Places] /\ SteerInv
    BY DEF AloneInv, SteerInv, TypeOK
  <1>1. CASE StreamOpens(r)
    <2>1. /\ pc[r] = "setup" /\ stream' = Reply(r) /\ UNCHANGED <<lock, ended, run>>
          /\ pc'[r] = "streaming" /\ \A q \in Requests \ {r} : pc'[q] = pc[q]
      BY <1>0, <1>1 DEF StreamOpens, Goto
    <2>2. LockHeld'
      BY <2>1 DEF AloneInv, LockHeld, Writing
    <2>3. \A q \in Requests \ {r} : pc[q] # "streaming"
      BY <2>1, OneWrites DEF Writing
    <2>4. Registered'
      BY <2>1, <2>3 DEF Registered, Reply
    <2>. QED BY <2>2, <2>4
  <1>2. CASE SetupEnds(r)
    <2>1. /\ pc[r] = "setup" /\ UNCHANGED <<run, stream, lock, ended>>
          /\ pc'[r] \in {"between", "leaving"} /\ \A q \in Requests \ {r} : pc'[q] = pc[q]
      BY <1>0, <1>2 DEF SetupEnds, Goto
    <2>. QED BY <2>1, StillAlone DEF Writing
  <1>3. CASE ModelSteps(r) \/ ModelFinishes(r) \/ LoopWrites(r)
    <2>1. UNCHANGED <<pc, run, stream, lock, ended>>
      BY <1>3 DEF ModelSteps, ModelFinishes, LoopWrites, flow
    <2>. QED BY <2>1 DEF AloneInv, LockHeld, Registered, Reply
  <1>4. CASE (\E how \in Endings : StreamEnds(r, how)) \/ StreamThrows(r)
    <2>1. /\ pc[r] = "streaming" /\ UNCHANGED <<run, lock>> /\ pc'[r] = "between"
          /\ \A q \in Requests \ {r} : pc'[q] = pc[q]
      BY <1>0, <1>4 DEF StreamEnds, StreamThrows, Goto
    <2>2. \A q \in Requests : pc'[q] \notin Writing
      BY <2>1, OneWrites DEF Writing
    <2>3. LockHeld'
      BY <2>1, <2>2 DEF AloneInv, LockHeld, Writing
    <2>4. Registered'
      BY <2>2 DEF Registered, Writing
    <2>. QED BY <2>3, <2>4
  <1>. QED BY <1>1, <1>2, <1>3, <1>4 DEF RunStep

\* The next run of a request keeps its lock, if it kept it so far.
LEMMA NextRunAlone ==
  ASSUME AloneInv, NEW r \in Requests, pc[r] \in {"between", "promoting"},
         run[r] < MaxRuns, NextRun(r), UNCHANGED <<stream, lock, ended>>
  PROVE  LockHeld' /\ Registered'
  <1>1. /\ pc \in [Requests -> Places] /\ run \in [Requests -> 0 .. MaxRuns] /\ run[r] # 0
    BY DEF AloneInv, SteerInv, TypeOK, Counts
  <1>2. /\ pc'[r] = "setup"
        /\ \A q \in Requests \ {r} : pc'[q] = pc[q] /\ run'[q] = run[q]
    BY <1>1 DEF NextRun, Goto
  <1>3. MaxRuns # 1
    BY <1>1, Sizes
  <1>4. LockHeld'
    BY <1>2, <1>3 DEF AloneInv, LockHeld
  <1>5. Registered'
    BY <1>2 DEF AloneInv, Registered, Reply
  <1>. QED BY <1>4, <1>5

LEMMA AfterRunAlone ==
  ASSUME AloneInv, NEW r \in Requests, AfterRun(r)
  PROVE  LockHeld' /\ Registered'
  <1>0. pc \in [Requests -> Places]
    BY DEF AloneInv, SteerInv, TypeOK
  <1>1. CASE Continues(r)
    BY <1>1, NextRunAlone DEF Continues
  <1>2. CASE TakesWhatIsLeft(r)
    <2>1. /\ pc[r] = "between" /\ UNCHANGED <<run, stream, lock, ended>>
          /\ pc'[r] \in {"leaving", "holding", "stranding", "promoting"}
          /\ \A q \in Requests \ {r} : pc'[q] = pc[q]
      BY <1>0, <1>2 DEF TakesWhatIsLeft, Goto
    <2>. QED BY <2>1, StillAlone DEF Writing
  <1>3. CASE PromotionEnds(r)
    <2>1. CASE run[r] < MaxRuns /\ NextRun(r)
      BY <1>3, <2>1, NextRunAlone DEF PromotionEnds
    <2>2. CASE Goto(r, "leaving") /\ UNCHANGED run
      <3>1. /\ pc[r] = "promoting" /\ UNCHANGED <<run, stream, lock, ended>>
            /\ pc'[r] = "leaving" /\ \A q \in Requests \ {r} : pc'[q] = pc[q]
        BY <1>0, <1>3, <2>2 DEF PromotionEnds, Goto
      <3>. QED BY <3>1, StillAlone DEF Writing
    <2>. QED BY <1>3, <2>1, <2>2 DEF PromotionEnds
  <1>4. CASE SavesWithoutAnswer(r)
    <2>1. /\ pc[r] \in {"holding", "stranding"} /\ UNCHANGED <<run, stream, lock, ended>>
          /\ pc'[r] = "leaving" /\ \A q \in Requests \ {r} : pc'[q] = pc[q]
      BY <1>0, <1>4 DEF SavesWithoutAnswer, Goto
    <2>. QED BY <2>1, StillAlone DEF Writing
  <1>5. CASE CleansUp(r) \/ DmsDegraded(r) \/ MissedTold(r)
    <2>1. /\ pc[r] \in {"leaving", "degrading", "telling"} /\ UNCHANGED <<run, stream, ended>>
          /\ pc'[r] \in {"degrading", "telling", "done"}
          /\ \A q \in Requests \ {r} : pc'[q] = pc[q]
          /\ lock' = lock \/ (pc'[r] = "done" /\ lock = r)
      BY <1>0, <1>5 DEF CleansUp, DmsDegraded, MissedTold, TellOrClear, ClearAndRelease, Goto
    <2>. QED BY <2>1, StillAlone DEF Writing
  <1>. QED BY <1>1, <1>2, <1>3, <1>4, <1>5 DEF AfterRun

LEMMA AloneKept ==
  ASSUME Alone, AloneInv, [Next]_vars
  PROVE  AloneInv'
  <1>0. SteerInv' /\ pc \in [Requests -> Places] /\ NoReply \notin Requests
    BY NextKeeps, Sizes DEF AloneInv, SteerInv, TypeOK
  <1>1. ASSUME NEW r \in Requests, TurnBegins(r) PROVE LockHeld' /\ Registered'
    <2>1. /\ lock = NoReply /\ lock' = r /\ ended' = FALSE /\ stream' = stream
          /\ pc[r] = "idle" /\ pc'[r] = "setup"
          /\ \A q \in Requests \ {r} : pc'[q] = pc[q] /\ run'[q] = run[q]
      BY <1>0, <1>1 DEF TurnBegins, Goto, None, AloneInv, SteerInv, TypeOK
    <2>2. LockHeld'
      BY <1>0, <2>1 DEF AloneInv, LockHeld, Writing
    <2>3. Registered'
      BY <2>1 DEF AloneInv, Registered, Reply
    <2>. QED BY <2>2, <2>3
  <1>2. CASE Stop
    <2>1. /\ UNCHANGED <<stream, ended, pc, run>> /\ MayStop
          /\ lock' = lock \/ ended # FALSE
      BY <1>2 DEF Stop, flow
    <2>. QED BY <1>0, <2>1 DEF AloneInv, LockHeld, Registered, Reply
  <1>3. ASSUME UNCHANGED <<stream, lock, ended, pc, run>> PROVE LockHeld' /\ Registered'
    BY <1>3 DEF AloneInv, LockHeld, Registered, Reply
  <1>4. ASSUME NEW s \in Steers, NEW m \in Replies, UserSteers(s, m)
        PROVE  LockHeld' /\ Registered'
    BY <1>3, <1>4 DEF UserSteers, flow
  <1>5. ASSUME NEW s \in Dms, DoorStep(s) PROVE LockHeld' /\ Registered'
    BY <1>3, <1>5 DEF DoorStep, DmStamps, DmEnters, DmStampedBack, flow
  <1>6. ASSUME UNCHANGED vars \/ LockLapses PROVE LockHeld' /\ Registered'
    BY <1>3, <1>6 DEF vars, flow, LockLapses, LockHeld, Registered
  <1>7. ASSUME Stop PROVE LockHeld' /\ Registered'
    BY <1>2, <1>7 DEF AloneInv
  <1>8. LockHeld' /\ Registered'
    BY <1>1, <1>4, <1>5, <1>6, <1>7, RunStepAlone, AfterRunAlone DEF Next
  <1>. QED BY <1>0, <1>8 DEF AloneInv

-----------------------------------------------------------------------------
(* The promise.                                                             *)

\* What the promise rests on; README.md says which run shows each is needed.
Safe == CleanupIsShort = TRUE /\ MayThrow = FALSE /\ Alone

NoneDropped == \A s \in Steers : box.at[s] # "dropped"

PromiseInv == SparedInv /\ Delivered /\ LockHeld /\ Registered /\ NoneDropped

\* What the model has read is the live reply's, or the writer's own, so no
\* clean-up takes it.
LEMMA ReadIsLive ==
  ASSUME Alone, PromiseInv, NEW c \in Requests, pc[c] # "streaming",
         NEW s \in Steers, box.at[s] = "delivered"
  PROVE  box.filed[s] = stream /\ stream # NoReply
  <1>1. box.filed[s] \in Replies
    BY DEF PromiseInv, SparedInv, SteerInv, TypeOK, Filed, Inboxes
  <1>2. PICK r \in Requests, n \in Numbers : box.filed[s] = <<r, n>>
    BY <1>1, Answers
  <1>3. n = run[r] /\ pc[r] = "streaming"
    BY <1>2 DEF PromiseInv, Delivered
  <1>4. stream = <<r, n>>
    BY <1>3 DEF Alone, PromiseInv, Registered, Reply
  <1>. QED BY <1>1, <1>2, <1>4, Answers

\* A clean-up clears nothing.
LEMMA ClearsNothing ==
  ASSUME NEW b \in Inboxes, NEW m,
         \A s \in Steers : b.at[s] \in {"pending", "delivered"} => b.filed[s] = m
  PROVE  /\ Clear(b, m).filed = b.filed /\ Clear(b, m).step = b.step
         /\ \A s \in Steers : Clear(b, m).at[s] = b.at[s]
  BY Cleared

\* Some of what waited, possibly none of it, is in hand now.
Takes(S) ==
  /\ S \subseteq At(box, "pending")
  /\ \A s \in Steers : box'.at[s] = IF s \in S THEN "taken" ELSE box.at[s]

LEMMA CleansUpMoves ==
  ASSUME Alone, PromiseInv, NEW r \in Requests, CleansUp(r)
  PROVE  Takes({}) \/ Takes(MissedDms(box, stream)) \/ Takes(MissedUsers(box, stream))
  <1>. DEFINE dms == MissedDms(box, stream)
              users == MissedUsers(box, stream)
  <1>0. box \in Inboxes
    BY DEF PromiseInv, SparedInv, SteerInv, TypeOK
  <1>1. dms \subseteq At(box, "pending") /\ users \subseteq At(box, "pending")
    BY DEF MissedDms, MissedUsers
  <1>2. \/ box' = Move(box, dms, "taken")
        \/ box' = Move(box, users, "taken")
        \/ dms = {} /\ users = {} /\ box' = Clear(box, stream)
    BY DEF CleansUp, TellOrClear, ClearAndRelease
  <1>3. CASE dms = {} /\ users = {} /\ box' = Clear(box, stream)
    <2>1. \A s \in Steers : box.at[s] = "pending" => box.filed[s] = stream
      BY <1>3 DEF MissedDms, MissedUsers, At
    <2>2. \A s \in Steers : box'.at[s] = box.at[s]
      <3>1. pc[r] # "streaming"
        BY DEF CleansUp
      <3>. QED BY <1>0, <1>3, <2>1, <3>1, ReadIsLive, ClearsNothing
    <2>. QED BY <2>2 DEF Takes
  <1>. HIDE DEF dms, users
  <1>4. CASE box' = Move(box, dms, "taken")
    <2>1. \A s \in Steers : box'.at[s] = IF s \in dms THEN "taken" ELSE box.at[s]
      BY <1>0, <1>4, Moved DEF Spots
    <2>. QED BY <1>1, <2>1 DEF Takes, dms
  <1>5. CASE box' = Move(box, users, "taken")
    <2>1. \A s \in Steers : box'.at[s] = IF s \in users THEN "taken" ELSE box.at[s]
      BY <1>0, <1>5, Moved DEF Spots
    <2>. QED BY <1>1, <2>1 DEF Takes, users
  <1>. QED BY <1>2, <1>3, <1>4, <1>5

\* The awaited stamps or reports are done: what was in hand is settled, and
\* messages of the user's may be taken next.
SettlesAndTakes(r, outcome, S) ==
  /\ S \subseteq At(box, "pending")
  /\ \A s \in Steers : box'.at[s] = IF s \in hand[r] THEN outcome
                                    ELSE IF s \in S THEN "taken" ELSE box.at[s]

LEMMA SettledMoves ==
  ASSUME Alone, PromiseInv, NEW r \in Requests, DmsDegraded(r) \/ MissedTold(r),
         NEW outcome, outcome = IF pc[r] = "degrading" THEN "waits" ELSE "unanswered"
  PROVE  \/ SettlesAndTakes(r, outcome, {})
         \/ SettlesAndTakes(r, outcome, MissedUsers(Move(box, hand[r], outcome), keep[r]))
  <1>. DEFINE b == Move(box, hand[r], outcome)
              users == MissedUsers(b, keep[r])
  <1>0. /\ box \in Inboxes /\ outcome \in Spots \ {"pending", "delivered", "taken"}
        /\ pc[r] \in Cleaning /\ stream \in {keep[r], NoReply}
        /\ \A s \in Steers : box.at[s] = "pending" /\ (pc[r] = "telling" \/ s \in Dms) =>
             box.filed[s] = keep[r]
        /\ \A s \in hand[r] : box.at[s] = "taken"
    BY DEF PromiseInv, SparedInv, Spared, SteerInv, TypeOK, Handed, DmsDegraded, MissedTold,
           Cleaning, Spots, At
  <1>1. \/ box' = Move(b, users, "taken")
        \/ box' = Clear(b, keep[r]) /\ (pc[r] = "telling" \/ users = {})
    BY DEF DmsDegraded, MissedTold, TellOrClear, ClearAndRelease
  <1>2. /\ b \in Inboxes /\ b.filed = box.filed
        /\ \A s \in Steers : b.at[s] = IF s \in hand[r] THEN outcome ELSE box.at[s]
    BY <1>0, Moved
  <1>. HIDE DEF b
  <1>3. \A s \in Steers : b.at[s] = "delivered" => b.filed[s] = keep[r]
    BY <1>0, <1>2, ReadIsLive DEF Cleaning
  <1>4. users \subseteq At(box, "pending") /\ users \cap hand[r] = {}
    BY <1>0, <1>2 DEF MissedUsers, At
  <1>5. CASE box' = Clear(b, keep[r]) /\ (pc[r] = "telling" \/ users = {})
    <2>1. \A s \in Steers : b.at[s] = "pending" => b.filed[s] = keep[r]
      <3>1. \A s \in Steers : b.at[s] = "pending" => box.at[s] = "pending"
        BY <1>0, <1>2
      <3>2. users = {} => \A s \in Steers \ Dms : b.at[s] = "pending" => b.filed[s] = keep[r]
        BY DEF MissedUsers, At
      <3>. QED BY <1>0, <1>2, <1>5, <3>1, <3>2
    <2>2. \A s \in Steers : box'.at[s] = b.at[s]
      BY <1>2, <1>3, <1>5, <2>1, ClearsNothing
    <2>. QED BY <1>2, <2>2 DEF SettlesAndTakes
  <1>. HIDE DEF users
  <1>6. CASE box' = Move(b, users, "taken")
    <2>1. \A s \in Steers : box'.at[s] = IF s \in users THEN "taken" ELSE b.at[s]
      BY <1>2, <1>6, Moved DEF Spots
    <2>2. \A s \in Steers : box'.at[s] = IF s \in hand[r] THEN outcome
                                         ELSE IF s \in users THEN "taken" ELSE box.at[s]
      BY <1>2, <1>4, <2>1
    <2>3. SettlesAndTakes(r, outcome, users)
      BY <1>4, <2>2 DEF SettlesAndTakes
    <2>. QED BY <2>3 DEF users, b
  <1>. QED BY <1>1, <1>5, <1>6

-----------------------------------------------------------------------------
(* One step, as the promise sees it.                                        *)

\* The places of a DM that is bound for the inside of a reply, or there.
Bound == {"asking", "missed", "pending", "delivered", "taken", "written"}

\* S turned from one place to another; what else moved was taken in hand.
Turned(S, from, to) ==
  /\ S \subseteq Steers
  /\ \A s \in S : box.at[s] = from /\ box'.at[s] = to
  /\ \A s \in Steers \ S : \/ box'.at[s] = box.at[s]
                           \/ box.at[s] = "pending" /\ box'.at[s] = "taken"

Stamped(S, to) ==
  \A s \in Dms : IF s \in S THEN stamp'[s] = "steer" <=> to \in Bound
                            ELSE stamp'[s] = stamp[s]

UserOutcomes == {"promoted", "held", "unanswered"}

\* The turns that the code makes: of any batch, and of one message.
BatchTurn(S, from, to) ==
  \/ S = {} /\ from = "idle" /\ to = "asking"
  \/ from = "pending" /\ to = "delivered"
  \/ from = "delivered" /\ to = "written"
  \/ from = "taken" /\ to \in UserOutcomes /\ S \cap Dms = {}
  \/ from = "taken" /\ to = "waits" /\ S \subseteq Dms

DoorTurn(s, from, to) ==
  \/ from \in {"idle", "asking"} /\ to \in {"asking", "missed", "pending"}
  \/ from = "idle" /\ to = "refused" /\ s \notin Dms
  \/ from = "missed" /\ to = "waits" /\ s \in Dms

Turn(S, from, to) == BatchTurn(S, from, to) \/ \E s \in Steers : S = {s} /\ DoorTurn(s, from, to)

LEMMA FatesTurn ==
  ASSUME NEW S, NEW from, NEW to, Turned(S, from, to)
  PROVE  /\ \A s \in S : Fate(box.at[s]) = Fate(from)
         /\ \A s \in Steers : Fate(box'.at[s]) = IF s \in S THEN Fate(to) ELSE Fate(box.at[s])
  BY DEF Turned, Fate

LEMMA TurnsHonest ==
  ASSUME NoneDropped, DmStampHonest, NEW S, NEW from, NEW to,
         Turned(S, from, to), Stamped(S, to), Turn(S, from, to)
  PROVE  NoneDropped' /\ DmStampHonest'
  <1>1. to # "dropped"
    BY DEF Turn, BatchTurn, DoorTurn, UserOutcomes
  <1>2. NoneDropped'
    BY <1>1 DEF NoneDropped, Turned
  <1>3. ASSUME NEW s \in Dms PROVE stamp'[s] = "steer" <=> box'.at[s] \in Bound
    <2>1. s \in Steers
      BY InboxAssumption
    <2>2. stamp[s] = "steer" <=> box.at[s] \in Bound
      BY DEF DmStampHonest, Bound
    <2>3. CASE s \in S
      BY <2>3 DEF Turned, Stamped
    <2>4. CASE s \notin S
      <3>1. box'.at[s] \in Bound <=> box.at[s] \in Bound
        BY <2>1, <2>4 DEF Turned, Bound
      <3>. QED BY <2>2, <2>4, <3>1 DEF Stamped
    <2>. QED BY <2>3, <2>4
  <1>4. DmStampHonest'
    BY <1>3 DEF DmStampHonest, Bound
  <1>. QED BY <1>2, <1>4

LEMMA TurnPromised ==
  ASSUME NEW S, NEW from, NEW to, Turned(S, from, to), Turn(S, from, to)
  PROVE  [Promise!Next]_([s \in Steers |-> Fate(box.at[s])])
  <1>. DEFINE fate == [s \in Steers |-> Fate(box.at[s])]
              fate2 == [s \in Steers |-> Fate(box'.at[s])]
  <1>1. S \in SUBSET Steers /\ Dms \subseteq Steers
    BY InboxAssumption DEF Turned
  <1>2. /\ \A s \in S : fate[s] = Fate(from)
        /\ fate2 = [s \in Steers |-> IF s \in S THEN Fate(to) ELSE fate[s]]
    BY <1>1, FatesTurn
  <1>3. CASE S = {} \/ Fate(from) = Fate(to)
    <2>1. \A s \in Steers : fate2[s] = fate[s]
      BY <1>2, <1>3
    <2>2. fate2 = fate
      BY <2>1
    <2>. QED BY <2>2
  <1>4. ASSUME S # {}, NEW x, NEW y, x = Fate(from), y = Fate(to)
        PROVE  Promise!Become(S, {x}, y)
    BY <1>2, <1>4 DEF Promise!Become
  <1>5. CASE S # {} /\ BatchTurn(S, from, to)
    <2>1. CASE from = "pending" /\ to = "delivered"
      <3>1. Promise!HandOver(S)
        BY <1>4, <1>5, <2>1 DEF Promise!HandOver, Fate
      <3>. QED BY <1>1, <3>1 DEF Promise!Next
    <2>2. CASE from = "delivered" /\ to = "written"
      <3>1. Promise!Show(S)
        BY <1>4, <1>5, <2>2 DEF Promise!Show, Fate
      <3>. QED BY <1>1, <3>1 DEF Promise!Next
    <2>3. CASE /\ from = "taken" /\ to \in UserOutcomes \cup {"waits"}
               /\ IF to = "waits" THEN S \subseteq Dms ELSE S \cap Dms = {}
      <3>1. Fate(from) = "waiting" /\ Fate(to) = to
        BY <2>3 DEF Fate, UserOutcomes
      <3>2. Promise!Settle(S, to) /\ to \in Promise!Outcomes
        BY <1>4, <1>5, <2>3, <3>1 DEF Promise!Settle, Promise!Outcomes, UserOutcomes
      <3>. QED BY <1>1, <3>2 DEF Promise!Next
    <2>. QED BY <1>5, <2>1, <2>2, <2>3 DEF BatchTurn, UserOutcomes
  <1>6. ASSUME NEW s \in Steers, S = {s}, DoorTurn(s, from, to)
        PROVE  [Promise!Next]_fate
    <2>1. CASE to \in {"asking", "missed"}
      BY <1>3, <1>6, <2>1 DEF DoorTurn, Fate
    <2>2. CASE to = "pending"
      <3>1. Promise!Accept(s)
        BY <1>4, <1>6, <2>2 DEF Promise!Accept, DoorTurn, Fate
      <3>. QED BY <3>1 DEF Promise!Next
    <2>3. CASE to \in {"refused", "waits"}
      <3>1. /\ Fate(from) = "out" /\ Fate(to) = to
            /\ to = IF s \in Dms THEN "waits" ELSE "refused"
        BY <1>6, <2>3 DEF DoorTurn, Fate
      <3>2. Promise!Refuse(s)
        BY <1>4, <1>6, <3>1 DEF Promise!Refuse
      <3>. QED BY <3>2 DEF Promise!Next
    <2>. QED BY <1>6, <2>1, <2>2, <2>3 DEF DoorTurn
  <1>. QED BY <1>3, <1>5, <1>6 DEF Turn

-----------------------------------------------------------------------------
(* Every step of the system is such a turn.                                 *)

Honest == PromiseInv /\ DmStampHonest

Promised ==
  /\ NoneDropped' /\ DmStampHonest'
  /\ [Promise!Next]_([s \in Steers |-> Fate(box.at[s])])

LEMMA TurnKept ==
  ASSUME Honest, NEW S, NEW from, NEW to,
         Turned(S, from, to), Stamped(S, to), Turn(S, from, to)
  PROVE  Promised
  BY TurnsHonest, TurnPromised DEF Honest, PromiseInv, Promised

LEMMA HonestTyped ==
  ASSUME Honest
  PROVE  /\ SteerInv /\ box \in Inboxes /\ Dms \subseteq Steers
         /\ stamp \in [Dms -> {"none", "steer", "wait"}]
  BY InboxAssumption DEF Honest, PromiseInv, SparedInv, SteerInv, TypeOK

LEMMA QuietTurn ==
  ASSUME Honest, stamp' = stamp,
         \A s \in Steers : \/ box'.at[s] = box.at[s]
                           \/ box.at[s] = "pending" /\ box'.at[s] = "taken"
  PROVE  Promised
  <1>1. Turned({}, "idle", "asking") /\ Stamped({}, "asking")
    BY DEF Turned, Stamped
  <1>2. Turn({}, "idle", "asking")
    BY DEF Turn, BatchTurn
  <1>. QED BY <1>1, <1>2, TurnKept

LEMMA DrainTurn ==
  ASSUME Honest, NEW r \in Requests, NEW k \in Nat, Drain(r, k), stamp' = stamp
  PROVE  Promised
  <1>1. PICK S \in SUBSET Steers :
          S = {s \in Steers : box.at[s] = "delivered" /\ box'.at[s] = "written"}
    OBVIOUS
  <1>2. \A s \in Steers : \/ box'.at[s] = box.at[s]
                          \/ box.at[s] = "delivered" /\ box'.at[s] = "written"
    BY HonestTyped, DrainKeeps
  <1>3. Turned(S, "delivered", "written")
    BY <1>1, <1>2 DEF Turned
  <1>4. Stamped(S, "written")
    <2>1. \A s \in Dms \cap S : stamp[s] = "steer"
      BY <1>1, HonestTyped DEF Honest, DmStampHonest
    <2>. QED BY <2>1 DEF Stamped, Bound
  <1>5. Turn(S, "delivered", "written")
    BY DEF Turn, BatchTurn
  <1>. QED BY <1>3, <1>4, <1>5, TurnKept

LEMMA ModelStepsTurn ==
  ASSUME Honest, NEW r \in Requests, ModelSteps(r)
  PROVE  Promised
  <1>1. stamp' = stamp /\ model[r].under
    BY DEF ModelSteps
  <1>2. CASE box' = box
    BY <1>1, <1>2, QuietTurn
  <1>3. CASE box' = TakeForDelivery(box, Reply(r), model[r].made + 1)
    <2>1. PICK S \in SUBSET Steers : S = PendingFor(box, Reply(r)) \ Held
      BY DEF PendingFor, At
    <2>2. model[r].made + 1 \in Nat
      BY HonestTyped, RunTyped
    <2>3. \A s \in Steers : box'.at[s] = IF s \in S THEN "delivered" ELSE box.at[s]
      BY <1>3, <2>1, <2>2, HonestTyped, HandedOver
    <2>4. \A s \in S : box.at[s] = "pending"
      BY <2>1 DEF PendingFor, At
    <2>5. Turned(S, "pending", "delivered")
      BY <2>3, <2>4 DEF Turned
    <2>6. Stamped(S, "delivered")
      <3>1. \A s \in Dms \cap S : stamp[s] = "steer"
        BY <2>4, HonestTyped DEF Honest, DmStampHonest
      <3>. QED BY <1>1, <3>1 DEF Stamped, Bound
    <2>7. Turn(S, "pending", "delivered")
      BY DEF Turn, BatchTurn
    <2>. QED BY <2>5, <2>6, <2>7, TurnKept
  <1>. QED BY <1>2, <1>3 DEF ModelSteps

\* What a request had in hand is settled, and more may be taken.
LEMMA SettledTurn ==
  ASSUME Honest, NEW r \in Requests, NEW outcome \in UserOutcomes \cup {"waits"},
         \A s \in Steers : IF s \in hand[r] THEN box'.at[s] = outcome
                           ELSE \/ box'.at[s] = box.at[s]
                                \/ box.at[s] = "pending" /\ box'.at[s] = "taken",
         IF outcome = "waits"
         THEN /\ hand[r] \subseteq Dms
              /\ stamp' = [s \in Dms |-> IF s \in hand[r] THEN "wait" ELSE stamp[s]]
         ELSE hand[r] \cap Dms = {} /\ stamp' = stamp
  PROVE  Promised
  <1>1. PICK S \in SUBSET Steers : S = hand[r]
    BY HonestTyped DEF SteerInv, TypeOK
  <1>2. \A s \in S : box.at[s] = "taken"
    BY <1>1, HonestTyped DEF SteerInv, Handed
  <1>3. Turned(S, "taken", outcome)
    BY <1>1, <1>2 DEF Turned
  <1>4. Stamped(S, outcome)
    BY <1>1 DEF Stamped, Bound
  <1>5. Turn(S, "taken", outcome)
    BY <1>1 DEF Turn, BatchTurn
  <1>. QED BY <1>3, <1>4, <1>5, TurnKept

LEMMA DoorTurned ==
  ASSUME Honest, NEW s \in Steers, NEW from, NEW to, DoorTurn(s, from, to),
         box.at[s] = from, box'.at[s] = to,
         \A q \in Steers \ {s} : box'.at[q] = box.at[q],
         \A q \in Dms \ {s} : stamp'[q] = stamp[q],
         s \in Dms => (stamp'[s] = "steer" <=> to \in Bound)
  PROVE  Promised
  <1>1. PICK S \in SUBSET Steers : S = {s}
    OBVIOUS
  <1>2. Turned(S, from, to)
    BY <1>1 DEF Turned
  <1>3. Stamped(S, to)
    BY <1>1 DEF Stamped
  <1>4. Turn(S, from, to)
    BY <1>1 DEF Turn
  <1>. QED BY <1>2, <1>3, <1>4, TurnKept

LEMMA UserSteersTurn ==
  ASSUME Honest, NEW s \in Steers, NEW m \in Replies, UserSteers(s, m)
  PROVE  Promised
  <1>0. s \notin Dms /\ box.at[s] = "idle" /\ stamp' = stamp
    BY DEF UserSteers
  <1>1. CASE box' = Move(box, {s}, "refused")
    <2>1. \A q \in Steers : box'.at[q] = IF q = s THEN "refused" ELSE box.at[q]
      BY <1>1, HonestTyped, Moved DEF Spots
    <2>2. DoorTurn(s, "idle", "refused")
      BY <1>0 DEF DoorTurn
    <2>. QED BY <1>0, <2>1, <2>2, DoorTurned
  <1>2. CASE box' = EnqueueSteer(box, s, m)
    <2>1. \A q \in Steers : box'.at[q] = IF q = s THEN "pending" ELSE box.at[q]
      BY <1>2, HonestTyped, Enqueued
    <2>2. DoorTurn(s, "idle", "pending")
      BY DEF DoorTurn
    <2>. QED BY <1>0, <2>1, <2>2, DoorTurned
  <1>. QED BY <1>1, <1>2 DEF UserSteers

LEMMA DoorStepTurn ==
  ASSUME Honest, NEW s \in Dms, DoorStep(s)
  PROVE  Promised
  <1>0. /\ s \in Steers /\ stamp \in [Dms -> {"none", "steer", "wait"}]
        /\ box \in Inboxes /\ stream \in Replies \cup {NoReply}
        /\ stamp[s] = "steer" <=> box.at[s] \in Bound
    BY HonestTyped DEF Honest, DmStampHonest, SteerInv, TypeOK, Bound
  <1>1. CASE DmStamps(s)
    <2>1. /\ box.at[s] = "idle" /\ box' = Move(box, {s}, "asking")
          /\ stamp' = [stamp EXCEPT ![s] = "steer"]
      BY <1>1 DEF DmStamps
    <2>2. \A q \in Steers : box'.at[q] = IF q = s THEN "asking" ELSE box.at[q]
      BY <1>0, <2>1, Moved DEF Spots
    <2>3. DoorTurn(s, "idle", "asking")
      BY DEF DoorTurn
    <2>. QED BY <1>0, <2>1, <2>2, <2>3, DoorTurned DEF Bound
  <1>2. CASE DmEnters(s)
    <2>1. box.at[s] = "asking" /\ stamp' = stamp /\ stamp[s] = "steer"
      BY <1>0, <1>2 DEF DmEnters, Bound
    <2>2. CASE box' = Move(box, {s}, "missed")
      <3>1. \A q \in Steers : box'.at[q] = IF q = s THEN "missed" ELSE box.at[q]
        BY <1>0, <2>2, Moved DEF Spots
      <3>2. DoorTurn(s, "asking", "missed")
        BY DEF DoorTurn
      <3>. QED BY <1>0, <2>1, <3>1, <3>2, DoorTurned DEF Bound
    <2>3. CASE stream # NoReply /\ box' = EnqueueSteer(box, s, stream)
      <3>1. \A q \in Steers : box'.at[q] = IF q = s THEN "pending" ELSE box.at[q]
        BY <1>0, <2>3, Enqueued
      <3>2. DoorTurn(s, "asking", "pending")
        BY DEF DoorTurn
      <3>. QED BY <1>0, <2>1, <3>1, <3>2, DoorTurned DEF Bound
    <2>. QED BY <1>2, <2>2, <2>3 DEF DmEnters
  <1>3. CASE DmStampedBack(s)
    <2>1. /\ box.at[s] = "missed" /\ box' = Move(box, {s}, "waits")
          /\ stamp' = [stamp EXCEPT ![s] = "wait"]
      BY <1>3 DEF DmStampedBack
    <2>2. \A q \in Steers : box'.at[q] = IF q = s THEN "waits" ELSE box.at[q]
      BY <1>0, <2>1, Moved DEF Spots
    <2>3. DoorTurn(s, "missed", "waits")
      BY DEF DoorTurn
    <2>. QED BY <1>0, <2>1, <2>2, <2>3, DoorTurned DEF Bound
  <1>. QED BY <1>1, <1>2, <1>3 DEF DoorStep

LEMMA RunStepTurn ==
  ASSUME Honest, MayThrow = FALSE, NEW r \in Requests, RunStep(r)
  PROVE  Promised
  <1>1. CASE StreamOpens(r) \/ SetupEnds(r)
    BY <1>1, QuietTurn DEF StreamOpens, SetupEnds
  <1>2. CASE ModelFinishes(r)
    BY <1>2, DrainTurn, Sizes DEF ModelFinishes
  <1>3. CASE LoopWrites(r)
    <2>1. loop[r].done \in Nat
      BY HonestTyped, RunTyped
    <2>. QED BY <1>3, <2>1, DrainTurn DEF LoopWrites
  <1>4. CASE \E how \in Endings : StreamEnds(r, how)
    BY <1>4, DrainTurn, Sizes DEF StreamEnds
  <1>. QED BY <1>1, <1>2, <1>3, <1>4, ModelStepsTurn DEF RunStep, StreamThrows

LEMMA HandTurn ==
  ASSUME Honest, NEW r \in Requests, NEW outcome \in UserOutcomes, Settle(r, outcome),
         pc[r] \in {"promoting", "holding", "stranding"}, stamp' = stamp
  PROVE  Promised
  <1>1. \A s \in Steers : box'.at[s] = IF s \in hand[r] THEN outcome ELSE box.at[s]
    BY HonestTyped, Moved DEF Settle, Spots, UserOutcomes
  <1>2. hand[r] \cap Dms = {}
    BY HonestTyped DEF SteerInv, Handed
  <1>. QED BY <1>1, <1>2, SettledTurn DEF UserOutcomes

LEMMA AfterRunTurn ==
  ASSUME Alone, Honest, NEW r \in Requests, AfterRun(r)
  PROVE  Promised
  <1>1. CASE Continues(r)
    <2>1. box' = Refile(box, Reply(r), <<r, run[r] + 1>>) /\ stamp' = stamp
      BY <1>1 DEF Continues
    <2>2. box'.at = box.at
      BY <2>1 DEF Refile
    <2>. QED BY <2>1, <2>2, QuietTurn
  <1>2. CASE TakesWhatIsLeft(r)
    <2>1. stamp' = stamp /\ (box' = box \/ box' = Move(box, Undelivered(box, Reply(r)), "taken"))
      BY <1>2 DEF TakesWhatIsLeft
    <2>2. \A s \in Undelivered(box, Reply(r)) : box.at[s] = "pending"
      BY DEF Undelivered, PendingFor, At
    <2>3. CASE box' = Move(box, Undelivered(box, Reply(r)), "taken")
      <3>1. \A s \in Steers : box'.at[s] = IF s \in Undelivered(box, Reply(r)) THEN "taken" ELSE box.at[s]
        BY <2>3, HonestTyped, Moved DEF Spots
      <3>. QED BY <2>1, <2>2, <3>1, QuietTurn
    <2>. QED BY <2>1, <2>3, QuietTurn
  <1>3. CASE PromotionEnds(r)
    BY <1>3, HandTurn DEF PromotionEnds, UserOutcomes
  <1>4. CASE SavesWithoutAnswer(r)
    BY <1>4, HandTurn DEF SavesWithoutAnswer, UserOutcomes
  <1>5. CASE CleansUp(r)
    <2>1. stamp' = stamp
      BY <1>5 DEF CleansUp
    <2>2. \A s \in Steers : \/ box'.at[s] = box.at[s]
                            \/ box.at[s] = "pending" /\ box'.at[s] = "taken"
      BY <1>5, CleansUpMoves DEF Honest, Takes, At
    <2>. QED BY <2>1, <2>2, QuietTurn
  <1>6. CASE DmsDegraded(r)
    <2>1. /\ pc[r] = "degrading"
          /\ stamp' = [s \in Dms |-> IF s \in hand[r] THEN "wait" ELSE stamp[s]]
      BY <1>6 DEF DmsDegraded
    <2>2. hand[r] \subseteq Dms
      BY <2>1, HonestTyped DEF SteerInv, Handed
    <2>3. \A s \in Steers : IF s \in hand[r] THEN box'.at[s] = "waits"
                            ELSE \/ box'.at[s] = box.at[s]
                                 \/ box.at[s] = "pending" /\ box'.at[s] = "taken"
      BY <1>6, <2>1, SettledMoves DEF Honest, SettlesAndTakes, At
    <2>. QED BY <2>1, <2>2, <2>3, SettledTurn
  <1>7. CASE MissedTold(r)
    <2>1. pc[r] = "telling" /\ stamp' = stamp
      BY <1>7 DEF MissedTold
    <2>2. hand[r] \cap Dms = {}
      BY <2>1, HonestTyped DEF SteerInv, Handed
    <2>3. \A s \in Steers : IF s \in hand[r] THEN box'.at[s] = "unanswered"
                            ELSE \/ box'.at[s] = box.at[s]
                                 \/ box.at[s] = "pending" /\ box'.at[s] = "taken"
      BY <1>7, <2>1, SettledMoves DEF Honest, SettlesAndTakes, At
    <2>. QED BY <2>1, <2>2, <2>3, SettledTurn DEF UserOutcomes
  <1>. QED BY <1>1, <1>2, <1>3, <1>4, <1>5, <1>6, <1>7 DEF AfterRun

LEMMA EveryTurn ==
  ASSUME Alone, Honest, MayThrow = FALSE, [Next]_vars
  PROVE  Promised
  <1>1. ASSUME NEW r \in Requests, TurnBegins(r) PROVE Promised
    BY <1>1, QuietTurn DEF TurnBegins
  <1>2. CASE Stop \/ LockLapses \/ UNCHANGED vars
    BY <1>2, QuietTurn DEF Stop, LockLapses, vars
  <1>. QED BY <1>1, <1>2, RunStepTurn, AfterRunTurn, UserSteersTurn, DoorStepTurn DEF Next

LEMMA HonestKept ==
  ASSUME Safe, Honest, [Next]_vars
  PROVE  Honest' /\ Promised
  <1>1. Promised
    BY EveryTurn DEF Safe
  <1>2. SparedInv'
    BY SparedKept DEF Safe, Honest, PromiseInv
  <1>3. Delivered'
    BY DeliveredKept DEF Safe, Honest, PromiseInv, SparedInv
  <1>4. AloneInv'
    BY AloneKept DEF Safe, Honest, PromiseInv, SparedInv, AloneInv
  <1>. QED BY <1>1, <1>2, <1>3, <1>4 DEF Honest, PromiseInv, Promised, AloneInv

LEMMA HonestStarts ==
  ASSUME Init
  PROVE  Honest /\ Promise!Init
  <1>. USE DEF Init, EmptyInbox
  <1>1. Spared /\ WasRead
    BY DEF Spared, WasRead, Cleaning
  <1>2. Delivered /\ NoneDropped
    BY DEF Delivered, NoneDropped
  <1>3. LockHeld /\ Registered
    BY DEF LockHeld, Registered, Writing
  <1>4. DmStampHonest
    BY InboxAssumption DEF DmStampHonest
  <1>5. Promise!Init
    BY DEF Promise!Init, Fate
  <1>. QED BY <1>1, <1>2, <1>3, <1>4, <1>5, Starts DEF Honest, PromiseInv, SparedInv

LEMMA AlwaysHonest ==
  ASSUME Safe
  PROVE  Spec => []Honest
  <1>1. Init => Honest
    BY HonestStarts
  <1>2. Honest /\ [Next]_vars => Honest'
    BY HonestKept
  <1>. QED BY <1>1, <1>2, PTL DEF Spec

\* Nothing that was accepted is deleted with nobody told, when no loop throws and
\* no second reply opens its stream over a live one.
THEOREM NothingDropped ==
  ASSUME Safe
  PROVE  Spec => []NoSteerDropped
  <1>1. Honest => NoSteerDropped
    BY DEF Honest, PromiseInv, NoneDropped, NoSteerDropped, At
  <1>. QED BY <1>1, AlwaysHonest, PTL

\* A DM's record says "steer" exactly while it may land inside a reply or has,
\* so the sender's card is right after every stamp and every clean-up.
THEOREM StampsHonest ==
  ASSUME Safe
  PROVE  Spec => []DmStampHonest
  <1>1. Honest => DmStampHonest
    BY DEF Honest
  <1>. QED BY <1>1, AlwaysHonest, PTL

\* The inbox, its two doors, the runs and the clean-ups implement what steering
\* promises: each accepted message is read and then shown, or settled another way
\* that somebody is told of, once.
THEOREM PromiseKept ==
  ASSUME Safe
  PROVE  Spec => KeepsPromise
  <1>1. Init => Promise!Init
    BY HonestStarts
  <1>2. Honest /\ [Next]_vars => [Promise!Next]_([s \in Steers |-> Fate(box.at[s])])
    BY HonestKept DEF Promised
  <1>. QED BY <1>1, <1>2, AlwaysHonest, PTL DEF Spec, KeepsPromise, Promise!Spec
=============================================================================
