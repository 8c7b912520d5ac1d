------------------------- MODULE SessionTurnsProofs -------------------------
(***************************************************************************)
(* The turns of one chat keep TurnInv, whatever the sends, clicks, wakes,   *)
(* messages, approvals, bounds and cap are; the safety properties of         *)
(* SessionTurns that TLC checks on small instances follow from it.  Proved  *)
(* by TLAPS.                                                                *)
(*                                                                          *)
(* TurnInv ties each request's place in its handler to what the registry    *)
(* holds for it.  The argument has three layers: TurnRegistryProofs shows   *)
(* how each function may move the registry (Moves); the lemmas of the first *)
(* part show that such a move keeps every request it is not about in place; *)
(* one lemma per action then places the request the action is about.        *)
(*                                                                          *)
(* The other parts rest on TurnInv and on what else each function of the    *)
(* registry does:                                                           *)
(*   - the line implements SendLine: the functions an action calls add up   *)
(*     to one move of the abstract line or to none (LineMoves);             *)
(*   - a registration that outlives its request is a send's that lost the   *)
(*     chat it had just claimed: whoever else runs has yet to let go (Owed); *)
(*   - where nothing takes a lock from a request that runs, whoever writes  *)
(*     holds the chat, so no approval is answered twice (WritersHold);      *)
(*   - a request that stopped at a card still runs when it lets go          *)
(*     (CardsPlaced), so its card holds the line;                           *)
(*   - every function but the user's keeps the hold or keeps what waits     *)
(*     behind it (Stands);                                                  *)
(*   - the line hands the chat on only when nobody else runs (OrderInv): a  *)
(*     handover that is late finds the line held back.                      *)
(***************************************************************************)
EXTENDS SessionTurns, TurnRegistryProofs

InLine == {"waiting", "overflow"}

\* A send whose request is at q, and the line.
SendPlaced(g, q, s) ==
  /\ q = "idle" => g.outcome[s] = "none" /\ s \notin g.kept
  /\ s \in Waiting(g) \cup g.handed => q \in InLine
  /\ q \in InLine /\ g.outcome[s] = "none" => s \in Waiting(g)
  /\ s \in g.kept => q \notin Running \cup {"owner"}

\* A request at q, the requests that run, and the delete at d.
RequestPlaced(g, q, d, r) ==
  /\ q \in Writing => r \in g.running /\ Accounted(g, r)
  /\ d = "gone" => q \notin Running

DeleteMarked(g, d) ==
  /\ d \in {"stopping", "sweeping"} => g.deleting
  /\ d = "sweeping" => g.running = {}

\* The inductive invariant.
TurnInv ==
  /\ TypeOK
  /\ Sound(reg)
  /\ HolderRuns(reg)
  /\ \A s \in Sends : SendPlaced(reg, pc[s], s)
  /\ \A r \in Requests : RequestPlaced(reg, pc[r], del, r)
  /\ DeleteMarked(reg, del)

CardTypes ==
  /\ raised \subseteq Approvals
  /\ recorded \subseteq Clicks
  /\ ending \in [Requests -> {"none", "card", "over", "stopped"}]

-----------------------------------------------------------------------------
(* What a move of the registry leaves in place.                             *)

\* A move after a still step is a move.
LEMMA StillThen ==
  ASSUME NEW g, NEW h, NEW k, NEW J \in SUBSET Sends, NEW R,
         Sound(g), Still(g, h), Moves(h, k, J, R)
  PROVE  Moves(g, k, J, R)
  <1>1. Moves(g, h, {}, {}) /\ Waiting(g) \subseteq Sends
    BY SoundTypes DEF Still
  <1>. QED BY <1>1 DEF Moves

\* A send the move is not about keeps its place.
LEMMA SendStays ==
  ASSUME NEW g, NEW h, NEW J \in SUBSET Sends, NEW R,
         Moves(g, h, J, R),
         NEW s \in Sends, s \notin J, s \notin R, NEW q, SendPlaced(g, q, s)
  PROVE  SendPlaced(h, q, s)
  <1>1. q = "idle" => s \notin Waiting(g) BY DEF SendPlaced, InLine
  <1>2. s \in Waiting(g) => q \notin Running \cup {"owner"}
    BY DEF SendPlaced, InLine, Running
  <1>. QED BY <1>1, <1>2 DEF SendPlaced, Moves

\* So does a request the move does not release.
LEMMA RequestStays ==
  ASSUME NEW g, NEW h, NEW J, NEW R, Moves(g, h, J, R),
         NEW r \in Requests, r \notin R, NEW q, NEW d, RequestPlaced(g, q, d, r)
  PROVE  RequestPlaced(h, q, d, r)
  BY DEF RequestPlaced, Moves

\* No move starts a request in a chat being deleted.
LEMMA MarksStay ==
  ASSUME NEW g, NEW h, NEW J, NEW R, Moves(g, h, J, R),
         NEW d, DeleteMarked(g, d)
  PROVE  DeleteMarked(h, d)
  BY DEF DeleteMarked, Moves

\* The send is not in the line, nor handed the chat and yet to take it.
Left(g, s) == s \notin Waiting(g) \cup g.handed

\* A send out of the line stays out of it, and is not kept there.
LEMMA LeftStays ==
  ASSUME NEW g, NEW h, NEW R, Moves(g, h, {}, R), NEW s \in Sends, Left(g, s)
  PROVE  /\ Left(h, s) /\ h.outcome[s] = g.outcome[s]
         /\ s \notin g.kept => s \notin h.kept
  BY DEF Left, Moves

\* A send out of the line may be anywhere in its handler; if the line kept it,
\* not where a turn runs.
LEMMA LeftPlaced ==
  ASSUME NEW g, NEW s \in Sends, Left(g, s), NEW q, q \notin InLine, q # "idle",
         s \in g.kept => q \notin Running \cup {"owner"}
  PROVE  SendPlaced(g, q, s)
  BY DEF Left, SendPlaced

\* A step of one request r to q: it is enough to place r.
LEMMA Step ==
  ASSUME TurnInv, CardTypes', del' = del,
         NEW r \in Requests, NEW q \in Places, pc' = [pc EXCEPT ![r] = q],
         NEW J \in SUBSET Sends, NEW R, J \subseteq {r}, R \subseteq {r},
         Sound(reg'), Moves(reg, reg', J, R),
         r \in Sends => SendPlaced(reg', q, r),
         RequestPlaced(reg', q, del, r)
  PROVE  TurnInv'
  <1>1. TypeOK' BY DEF TurnInv, TypeOK, CardTypes, Sound
  <1>2. pc \in [Requests -> Places] BY DEF TurnInv, TypeOK
  <1>3. \A s \in Sends : s \in Requests BY DEF Requests
  <1>4. \A s \in Sends : SendPlaced(reg', pc'[s], s)
    <2>1. SUFFICES ASSUME NEW s \in Sends, s # r PROVE SendPlaced(reg', pc[s], s)
      BY <1>2, <1>3
    <2>2. SendPlaced(reg, pc[s], s) BY DEF TurnInv
    <2>. QED BY <2>1, <2>2, SendStays
  <1>5. \A t \in Requests : RequestPlaced(reg', pc'[t], del', t)
    <2>1. SUFFICES ASSUME NEW t \in Requests, t # r
                   PROVE  RequestPlaced(reg', pc[t], del, t)
      BY <1>2
    <2>2. RequestPlaced(reg, pc[t], del, t) BY DEF TurnInv
    <2>. QED BY <2>1, <2>2, RequestStays
  <1>6. HolderRuns(reg') BY DEF TurnInv, Moves
  <1>7. DeleteMarked(reg', del') BY MarksStay DEF TurnInv
  <1>. QED BY <1>1, <1>4, <1>5, <1>6, <1>7 DEF TurnInv

\* The same, of a step that leaves the line to itself and releases nobody.
LEMMA StillStep ==
  ASSUME TurnInv, CardTypes', del' = del,
         NEW r \in Requests, NEW q \in Places, pc' = [pc EXCEPT ![r] = q],
         Still(reg, reg'),
         r \in Sends => SendPlaced(reg', q, r),
         RequestPlaced(reg', q, del, r)
  PROVE  TurnInv'
  <1>. DEFINE nobody == {}
  <1>1. Sound(reg') /\ Moves(reg, reg', nobody, nobody) BY DEF Still
  <1>2. nobody \in SUBSET Sends /\ nobody \subseteq {r} OBVIOUS
  <1>. HIDE DEF nobody
  <1>. QED BY <1>1, <1>2, Step

\* A step of no request, that moves the registry and is not a delete's.
LEMMA RegistryStep ==
  ASSUME TurnInv, CardUnchanged, UNCHANGED <<pc, del>>, Still(reg, reg')
  PROVE  TurnInv'
  <1>1. TypeOK'
    BY DEF TurnInv, TypeOK, CardUnchanged, Still, Sound
  <1>2. \A s \in Sends : SendPlaced(reg', pc'[s], s)
    <2>1. SUFFICES ASSUME NEW s \in Sends PROVE SendPlaced(reg', pc[s], s)
      OBVIOUS
    <2>2. SendPlaced(reg, pc[s], s) BY DEF TurnInv
    <2>. QED BY <2>2, SendStays DEF Still
  <1>3. \A t \in Requests : RequestPlaced(reg', pc'[t], del', t)
    <2>1. SUFFICES ASSUME NEW t \in Requests PROVE RequestPlaced(reg', pc[t], del, t)
      OBVIOUS
    <2>2. RequestPlaced(reg, pc[t], del, t) BY DEF TurnInv
    <2>. QED BY <2>2, RequestStays DEF Still
  <1>4. HolderRuns(reg') BY DEF TurnInv, Moves, Still
  <1>5. DeleteMarked(reg', del') BY MarksStay DEF TurnInv, Still
  <1>. QED BY <1>1, <1>2, <1>3, <1>4, <1>5 DEF TurnInv, Still

\* A step of a request past the line: from place p on, if it may still write
\* where it goes, nobody has released it.
LEMMA OwnStep ==
  ASSUME TurnInv, CardTypes', del' = del,
         NEW r \in Requests, pc[r] \notin InLine \cup {"idle"},
         NEW q \in Places, q \notin InLine \cup {"idle"}, Goto(r, q),
         NEW R, R \subseteq {r}, Sound(reg'), Moves(reg, reg', {}, R),
         q \in Running \cup {"owner"} => pc[r] \in Running \cup {"owner"},
         q \in Writing => pc[r] \in Writing /\ r \notin R,
         q \in Running => del # "gone"
  PROVE  TurnInv'
  <1>1. ASSUME r \in Sends PROVE SendPlaced(reg', q, r)
    <2>1. SendPlaced(reg, pc[r], r) BY <1>1 DEF TurnInv
    <2>2. Left(reg, r) BY <2>1 DEF SendPlaced, Left
    <2>3. Left(reg', r) /\ (r \notin reg.kept => r \notin reg'.kept)
      BY <1>1, <2>2, LeftStays
    <2>4. r \in reg'.kept => q \notin Running \cup {"owner"}
      BY <2>1, <2>3 DEF SendPlaced
    <2>. QED BY <1>1, <2>3, <2>4, LeftPlaced
  <1>2. RequestPlaced(reg', q, del, r)
    <2>1. RequestPlaced(reg, pc[r], del, r) BY DEF TurnInv
    <2>. QED BY <2>1 DEF RequestPlaced, Moves
  <1>3. pc' = [pc EXCEPT ![r] = q] BY DEF Goto
  <1>4. {} \in SUBSET Sends /\ {} \subseteq {r} OBVIOUS
  <1>. QED BY <1>1, <1>2, <1>3, <1>4, Step
-----------------------------------------------------------------------------
(* Taking the chat.                                                         *)

\* What the invariant says of a send that has not arrived.
LEMMA IdleSend ==
  ASSUME TurnInv, NEW s \in Sends, pc[s] = "idle"
  PROVE  /\ Left(reg, s) /\ s \notin reg.kept
         /\ s \notin Waiting(reg) /\ reg.outcome[s] = "none"
  <1>1. SendPlaced(reg, pc[s], s) BY DEF TurnInv
  <1>. QED BY <1>1 DEF SendPlaced, Left, InLine

\* The lock check and the registration place a request that is out of the line.
LEMMA TakeStep ==
  ASSUME TurnInv, CardUnchanged, del' = del, NEW r \in Requests,
         NEW g, NEW R, R \subseteq {r}, Sound(g), Moves(reg, g, {}, R),
         r \in Sends => Left(g, r) /\ r \notin g.kept,
         TakeOrRefuse(g, r)
  PROVE  TurnInv'
  <1>1. CardTypes' BY DEF TurnInv, TypeOK, CardTypes, CardUnchanged
  <1>2. {} \in SUBSET Sends /\ {} \subseteq {r} OBVIOUS
  <1>3. CASE Refuses(g, r)
    <2>1. reg' = g /\ pc' = [pc EXCEPT ![r] = "done"]
      BY <1>3 DEF TakeOrRefuse, Goto
    <2>2. r \in Sends => SendPlaced(g, "done", r)
      BY LeftPlaced DEF InLine
    <2>3. RequestPlaced(g, "done", del, r)
      BY DEF RequestPlaced, Writing, Running
    <2>4. "done" \in Places BY DEF Places
    <2>. QED BY <1>1, <1>2, <2>1, <2>2, <2>3, <2>4, Step
  <1>4. CASE ~Refuses(g, r)
    <2>1. reg' = Register(g, r) /\ pc' = [pc EXCEPT ![r] = "owner"]
      BY <1>4 DEF TakeOrRefuse, Goto
    <2>2. Still(g, reg') /\ reg'.lock = r /\ r \in reg'.running
      BY <1>4, <2>1, RegisterStill
    <2>3. Sound(reg') /\ Moves(reg, reg', {}, R)
      BY <1>2, <2>2, ThenStill DEF TurnInv
    <2>4. r \in Sends => SendPlaced(reg', "owner", r)
      <3>1. ASSUME r \in Sends PROVE Left(reg', r) /\ r \notin reg'.kept
        BY <2>2, <3>1, LeftStays DEF Still
      <3>. QED BY <3>1, LeftPlaced DEF InLine
    <2>5. RequestPlaced(reg', "owner", del, r)
      BY <2>2 DEF RequestPlaced, Accounted, Running
    <2>6. "owner" \in Places BY DEF Places
    <2>. QED BY <1>1, <1>2, <2>1, <2>3, <2>4, <2>5, <2>6, Step
  <1>. QED BY <1>3, <1>4

\* A send that is out of the line ends in its request's answer.
LEMMA DoneStep ==
  ASSUME TurnInv, CardUnchanged, del' = del, NEW s \in Sends,
         NEW J \in SUBSET Sends, NEW R, J \subseteq {s}, R \subseteq {s},
         Sound(reg'), Moves(reg, reg', J, R), Left(reg', s), Goto(s, "done")
  PROVE  TurnInv'
  <1>1. CardTypes' BY DEF TurnInv, TypeOK, CardTypes, CardUnchanged
  <1>2. SendPlaced(reg', "done", s) BY LeftPlaced DEF InLine, Running
  <1>3. RequestPlaced(reg', "done", del, s)
    BY DEF RequestPlaced, Writing, Running
  <1>4. "done" \in Places /\ s \in Requests BY DEF Places, Requests
  <1>5. pc' = [pc EXCEPT ![s] = "done"] BY DEF Goto
  <1>. QED BY <1>1, <1>2, <1>3, <1>4, <1>5, Step

\* A send joins the line.
LEMMA JoinStep ==
  ASSUME TurnInv, CardUnchanged, del' = del, NEW s \in Sends, pc[s] = "idle",
         NEW keep \in BOOLEAN, reg' = Enqueue(Prune(reg), s, keep),
         NEW q \in InLine, Goto(s, q)
  PROVE  TurnInv'
  <1>. DEFINE g == Prune(reg)
  <1>1. Still(reg, g) /\ Sound(g) BY PruneStill DEF TurnInv, Still
  <1>2. Left(reg, s) /\ s \notin reg.kept /\ reg.outcome[s] = "none"
    BY IdleSend
  <1>3. s \notin Waiting(g) /\ g.outcome[s] = "none"
    BY <1>1, <1>2, LeftStays DEF Still, Left
  <1>. HIDE DEF g
  <1>4. Sound(reg') /\ Moves(g, reg', {s}, {}) BY <1>1, <1>3, EnqueueMoves DEF g
  <1>5. Moves(reg, reg', {s}, {}) BY <1>1, <1>4, StillThen DEF TurnInv
  <1>6. SendPlaced(reg', q, s)
    <2>1. q \in InLine /\ q # "idle" /\ q \notin Running \cup {"owner"}
      BY DEF InLine, Running
    <2>2. reg'.outcome[s] = "none" => s \in Waiting(reg')
      BY <1>5 DEF Moves
    <2>. QED BY <2>1, <2>2 DEF SendPlaced
  <1>7. RequestPlaced(reg', q, del, s)
    BY DEF RequestPlaced, InLine, Writing, Running
  <1>8. CardTypes' BY DEF TurnInv, TypeOK, CardTypes, CardUnchanged
  <1>9. q \in Places /\ s \in Requests /\ {s} \in SUBSET Sends
    BY DEF Places, InLine, Requests
  <1>10. pc' = [pc EXCEPT ![s] = q] BY DEF Goto
  <1>. DEFINE J == {s}
              nobody == {}
  <1>11. /\ J \in SUBSET Sends /\ J \subseteq {s} /\ nobody \subseteq {s}
         /\ Sound(reg') /\ Moves(reg, reg', J, nobody)
    BY <1>4, <1>5
  <1>. HIDE DEF J, nobody
  <1>. QED BY <1>6, <1>7, <1>8, <1>9, <1>10, <1>11, Step

\* The send whose decision is free, queue, overflow or a refusal.
LEMMA SendArrivesStep ==
  ASSUME TurnInv, NEW s \in Sends, SendArrives(s)
  PROVE  TurnInv'
  <1>. DEFINE g == Prune(reg)
              overflow == Cardinality(Runnable(g)) >= Cap
  <1>1. pc[s] = "idle" /\ del' = del /\ CardUnchanged /\ s \in Requests
    BY DEF SendArrives, Requests
  <1>2. Left(reg, s) /\ s \notin reg.kept BY <1>1, IdleSend
  <1>3. Sound(reg) /\ Still(reg, g) BY PruneStill DEF TurnInv
  <1>4. Left(g, s) /\ s \notin g.kept BY <1>2, <1>3, LeftStays DEF Still
  <1>5. CASE reg.deleting
    <2>1. reg' = reg /\ Goto(s, "done") BY <1>5 DEF SendArrives
    <2>2. Moves(reg, reg, {}, {}) BY <1>3, StillReflexive DEF Still
    <2>. QED BY <1>1, <1>2, <1>3, <2>1, <2>2, DoneStep
  <1>6. CASE ~reg.deleting /\ g.lock = None /\ g.line = <<>>
    <2>1. TakeOrRefuse(g, s) BY <1>6 DEF SendArrives
    <2>. QED BY <1>1, <1>3, <1>4, <2>1, TakeStep DEF Still
  <1>7. CASE ~reg.deleting /\ ~(g.lock = None /\ g.line = <<>>)
    <2>1. \/ /\ reg' = Enqueue(g, s, overflow)
             /\ Goto(s, IF overflow THEN "overflow" ELSE "waiting")
          \/ reg' = g /\ Goto(s, "done")
      BY <1>7 DEF SendArrives
    <2>2. overflow \in BOOLEAN OBVIOUS
    <2>. HIDE DEF overflow
    <2>3. CASE /\ reg' = Enqueue(g, s, overflow)
               /\ Goto(s, IF overflow THEN "overflow" ELSE "waiting")
      <3>1. (IF overflow THEN "overflow" ELSE "waiting") \in InLine BY DEF InLine
      <3>. QED BY <1>1, <2>2, <2>3, <3>1, JoinStep
    <2>4. CASE reg' = g /\ Goto(s, "done")
      BY <1>1, <1>3, <1>4, <2>4, DoneStep DEF Still
    <2>. QED BY <2>1, <2>3, <2>4
  <1>. QED BY <1>5, <1>6, <1>7

\* The send that joins the line and is thrown out of its handler.
LEMMA SendThrowsStep ==
  ASSUME TurnInv, NEW s \in Sends, SendThrowsInLine(s)
  PROVE  TurnInv'
  <1>. DEFINE g == Prune(reg)
              e == Enqueue(g, s, FALSE)
  <1>1. /\ pc[s] = "idle" /\ del' = del /\ CardUnchanged
        /\ reg' = Abandon(e, s) /\ Goto(s, "done")
    BY DEF SendThrowsInLine
  <1>2. Left(reg, s) /\ reg.outcome[s] = "none" BY <1>1, IdleSend
  <1>3. Sound(reg) /\ Still(reg, g) /\ Sound(g) BY PruneStill DEF TurnInv, Still
  <1>4. s \notin Waiting(g) /\ g.outcome[s] = "none"
    BY <1>2, <1>3, LeftStays DEF Still, Left
  <1>. HIDE DEF g
  <1>5. Sound(e) /\ Moves(g, e, {s}, {}) BY <1>3, <1>4, EnqueueMoves
  <1>6. {s} \in SUBSET Sends /\ {s} \subseteq {s} /\ {} \cup {s} = {s} OBVIOUS
  <1>7. Moves(reg, e, {s}, {}) BY <1>3, <1>5, <1>6, StillThen
  <1>. HIDE DEF e
  <1>8. Sound(reg') /\ Moves(e, reg', {}, {s}) /\ Left(reg', s)
    BY <1>1, <1>5, AbandonMoves DEF Left
  <1>9. Moves(reg, reg', {s}, {s})
    BY <1>3, <1>6, <1>7, <1>8, MovesTransitive, SoundTypes
  <1>. QED BY <1>1, <1>6, <1>8, <1>9, DoneStep

\* A turn that may not wait.
LEMMA WakeArrivesStep ==
  ASSUME TurnInv, NEW w \in Wakes, WakeArrives(w)
  PROVE  TurnInv'
  <1>. DEFINE g == Prune(reg)
  <1>1. /\ pc[w] = "idle" /\ del' = del /\ CardUnchanged
        /\ w \in Requests /\ w \notin Sends
    BY RequestsAssumption DEF WakeArrives, Requests
  <1>2. Sound(reg) /\ Still(reg, g) BY PruneStill DEF TurnInv
  <1>3. CASE reg.deleting
    <2>1. reg' = reg /\ pc' = [pc EXCEPT ![w] = "done"]
      BY <1>3 DEF WakeArrives, Goto
    <2>2. Still(reg, reg') BY <1>2, <2>1, StillReflexive
    <2>3. CardTypes' BY <1>1 DEF TurnInv, TypeOK, CardTypes, CardUnchanged
    <2>4. RequestPlaced(reg', "done", del, w) BY DEF RequestPlaced, Writing, Running
    <2>5. "done" \in Places BY DEF Places
    <2>. QED BY <1>1, <2>1, <2>2, <2>3, <2>4, <2>5, StillStep
  <1>4. CASE ~reg.deleting
    <2>1. TakeOrRefuse(g, w) BY <1>4 DEF WakeArrives
    <2>. QED BY <1>1, <1>2, <2>1, TakeStep DEF Still
  <1>. QED BY <1>3, <1>4

\* approvalClickHolds alone changes.
LEMMA ClickHoldsStill ==
  ASSUME NEW g, Sound(g), NEW H \in SUBSET Clicks
  PROVE  Still(g, [g EXCEPT !.clickHolds = H])
  <1>. DEFINE h == [g EXCEPT !.clickHolds = H]
  <1>1. g \in RegistryType BY DEF Sound
  <1>2. /\ h \in RegistryType
        /\ h.line = g.line /\ h.kept = g.kept /\ h.outcome = g.outcome
        /\ h.handed = g.handed /\ h.unclaimed = g.unclaimed
        /\ h.backstop = g.backstop /\ h.hidden = g.hidden /\ h.hold = g.hold
        /\ h.lock = g.lock /\ h.running = g.running /\ h.dropped = g.dropped
        /\ h.deleting = g.deleting
    BY <1>1 DEF RegistryType
  <1>. HIDE DEF h
  <1>3. Still(g, h) BY <1>2, SameLine DEF Still
  <1>. QED BY <1>3 DEF h

\* A click that waits for its card's reply, or goes straight to the lock.
LEMMA ClickArrivesStep ==
  ASSUME TurnInv, NEW c \in Clicks, ClickArrives(c)
  PROVE  TurnInv'
  <1>. DEFINE g == Prune(reg)
              H == g.clickHolds \cup {c}
              k == [g EXCEPT !.clickHolds = H]
  <1>1. /\ del' = del /\ CardUnchanged /\ c \in Requests /\ c \notin Sends
        /\ \/ reg' = k /\ Goto(c, "clickWait")
           \/ TakeOrRefuse(g, c)
    BY RequestsAssumption DEF ClickArrives, Requests
  <1>2. Sound(reg) /\ Still(reg, g) /\ Sound(g) BY PruneStill DEF TurnInv, Still
  <1>. HIDE DEF g
  <1>3. H \in SUBSET Clicks BY <1>2, SoundTypes DEF RegistryType
  <1>. HIDE DEF H
  <1>4. Still(g, k) BY <1>2, <1>3, ClickHoldsStill
  <1>. HIDE DEF k
  <1>5. Still(reg, k) BY <1>2, <1>4, StillTransitive
  <1>6. CASE reg' = k /\ Goto(c, "clickWait")
    <2>1. CardTypes' BY <1>1 DEF TurnInv, TypeOK, CardTypes, CardUnchanged
    <2>2. RequestPlaced(reg', "clickWait", del, c)
      BY DEF RequestPlaced, Writing, Running
    <2>3. "clickWait" \in Places BY DEF Places
    <2>4. pc' = [pc EXCEPT ![c] = "clickWait"] BY <1>6 DEF Goto
    <2>. QED BY <1>1, <1>5, <1>6, <2>1, <2>2, <2>3, <2>4, StillStep
  <1>7. CASE TakeOrRefuse(g, c)
    BY <1>1, <1>2, <1>7, TakeStep DEF Still
  <1>. QED BY <1>1, <1>6, <1>7

\* The click's wait ends.
LEMMA ClickWaitEndsStep ==
  ASSUME TurnInv, NEW c \in Clicks, ClickWaitEnds(c)
  PROVE  TurnInv'
  <1>. DEFINE g == Prune(reg)
              H == g.clickHolds \ {c}
              k == [g EXCEPT !.clickHolds = H]
  <1>1. /\ del' = del /\ CardUnchanged /\ c \in Requests /\ c \notin Sends
        /\ TakeOrRefuse(k, c)
    BY RequestsAssumption DEF ClickWaitEnds, Requests
  <1>2. Sound(reg) /\ Still(reg, g) /\ Sound(g) BY PruneStill DEF TurnInv, Still
  <1>. HIDE DEF g
  <1>3. H \in SUBSET Clicks BY <1>2, SoundTypes DEF RegistryType
  <1>. HIDE DEF H
  <1>4. Still(g, k) BY <1>2, <1>3, ClickHoldsStill
  <1>. HIDE DEF k
  <1>5. Still(reg, k) BY <1>2, <1>4, StillTransitive
  <1>. QED BY <1>1, <1>5, TakeStep DEF Still

\* A send that resumes: what it is told has taken it off the line.
LEMMA ToldSend ==
  ASSUME TurnInv, NEW s \in Sends, reg.outcome[s] # "none"
  PROVE  /\ s \notin Waiting(reg)
         /\ reg.outcome[s] = "run" => s \notin reg.kept
         /\ reg.outcome[s] = "cancelled" => Left(reg, s)
         /\ reg.outcome[s] \in {"cancelled", "keep", "run"}
         /\ Left(Claim(reg, s), s)
  <1>1. Sound(reg) BY DEF TurnInv
  <1>2. s \notin Waiting(reg) BY <1>1 DEF Sound
  <1>3. reg.outcome[s] = "run" => s \notin reg.kept BY <1>1 DEF Sound
  <1>4. reg.outcome[s] = "cancelled" => Left(reg, s)
    BY <1>1, <1>2 DEF Sound, Left
  <1>5. reg.outcome[s] \in {"cancelled", "keep", "run"}
    BY <1>1 DEF Sound, RegistryType, Outcomes
  <1>6. Left(Claim(reg, s), s)
    BY <1>1, <1>2, ClaimStill DEF Left, Waiting
  <1>. QED BY <1>2, <1>3, <1>4, <1>5, <1>6

\* A send that gives up what the line told it.
LEMMA GivesUpStep ==
  ASSUME TurnInv, CardUnchanged, del' = del, NEW s \in Sends,
         reg' = Abandon(reg, s), Goto(s, "done")
  PROVE  TurnInv'
  <1>1. Sound(reg') /\ Moves(reg, reg', {}, {s}) /\ Left(reg', s)
    BY AbandonMoves DEF TurnInv, Left
  <1>. DEFINE nobody == {}
              R == {s}
  <1>2. nobody \in SUBSET Sends /\ nobody \subseteq {s} /\ R \subseteq {s}
        /\ Moves(reg, reg', nobody, R)
    BY <1>1
  <1>. HIDE DEF nobody, R
  <1>. QED BY <1>1, <1>2, DoneStep

\* A send the line kept takes the chat, to move its message to the end.
LEMMA TakesToKeepStep ==
  ASSUME TurnInv, CardUnchanged, del' = del, NEW s \in Sends,
         reg.outcome[s] # "none", CanClaim(reg, s),
         reg' = Claim(reg, s), Goto(s, "keeping")
  PROVE  TurnInv'
  <1>1. Still(reg, reg') /\ reg'.lock = s /\ reg'.running = reg.running
    BY ClaimStill DEF TurnInv, CanClaim
  <1>2. s \in Requests /\ s # None BY RequestsAssumption DEF Requests
  <1>3. s \in reg'.running
    BY <1>1, <1>2 DEF TurnInv, HolderRuns, CanClaim
  <1>4. SendPlaced(reg', "keeping", s)
    BY ToldSend, LeftPlaced DEF InLine, Running
  <1>5. RequestPlaced(reg', "keeping", del, s)
    BY <1>1, <1>3 DEF RequestPlaced, Accounted, Running
  <1>6. CardTypes' BY DEF TurnInv, TypeOK, CardTypes, CardUnchanged
  <1>7. "keeping" \in Places BY DEF Places
  <1>8. pc' = [pc EXCEPT ![s] = "keeping"] BY DEF Goto
  <1>. QED BY <1>1, <1>2, <1>4, <1>5, <1>6, <1>7, <1>8, StillStep

\* A send handed the chat takes it, and registers unless the check's prune
\* took the lock from it.
LEMMA TakesToRunStep ==
  ASSUME TurnInv, CardUnchanged, del' = del, NEW s \in Sends,
         reg.outcome[s] = "run",
         reg' = Prune(Claim(reg, s)),
         Goto(s, IF reg'.lock = s THEN "owner" ELSE "done")
  PROVE  TurnInv'
  <1>. DEFINE c == Claim(reg, s)
  <1>1. Sound(reg) /\ Still(reg, c) /\ Sound(c) /\ Left(c, s) /\ s \notin reg.kept
    BY ClaimStill, ToldSend DEF TurnInv, Still
  <1>2. Still(c, reg') BY <1>1, PruneStill
  <1>3. Still(reg, reg') BY <1>1, <1>2, StillTransitive
  <1>4. Left(reg', s) BY <1>1, <1>2, LeftStays DEF Still
  <1>5. CardTypes' BY DEF TurnInv, TypeOK, CardTypes, CardUnchanged
  <1>6. s \in Requests /\ s # None BY RequestsAssumption DEF Requests
  <1>7. CASE reg'.lock = s
    <2>1. s \in reg'.running
      BY <1>3, <1>6, <1>7 DEF TurnInv, Still, Moves, HolderRuns
    <2>2. s \notin Waiting(reg) BY ToldSend
    <2>3. s \notin reg'.kept BY <1>1, <1>3, <2>2 DEF Still, Moves
    <2>4. SendPlaced(reg', "owner", s)
      BY <1>4, <2>3, LeftPlaced DEF InLine
    <2>5. RequestPlaced(reg', "owner", del, s)
      BY <1>7, <2>1 DEF RequestPlaced, Accounted, Running
    <2>6. "owner" \in Places BY DEF Places
    <2>7. pc' = [pc EXCEPT ![s] = "owner"] BY <1>7 DEF Goto
    <2>. QED BY <1>3, <1>5, <1>6, <2>4, <2>5, <2>6, <2>7, StillStep
  <1>8. CASE reg'.lock # s
    <2>1. SendPlaced(reg', "done", s) BY <1>4, LeftPlaced DEF InLine, Running
    <2>2. RequestPlaced(reg', "done", del, s)
      BY DEF RequestPlaced, Writing, Running
    <2>3. "done" \in Places BY DEF Places
    <2>4. pc' = [pc EXCEPT ![s] = "done"] BY <1>8 DEF Goto
    <2>. QED BY <1>3, <1>5, <1>6, <2>1, <2>2, <2>3, <2>4, StillStep
  <1>. QED BY <1>7, <1>8

\* A send whose handover went queues behind nobody: it takes the lock check of
\* any other request.
LEMMA TakesAnywayStep ==
  ASSUME TurnInv, CardUnchanged, del' = del, NEW s \in Sends,
         reg.outcome[s] = "run", TakeOrRefuse(Prune(Abandon(reg, s)), s)
  PROVE  TurnInv'
  <1>. DEFINE a == Abandon(reg, s)
              g == Prune(a)
              R == {s}
  <1>1. Sound(reg) /\ s \notin Waiting(reg) /\ s \notin reg.kept
    BY ToldSend DEF TurnInv
  <1>2. Sound(a) /\ Moves(reg, a, {}, R) /\ Left(a, s)
    BY <1>1, AbandonMoves DEF Left
  <1>. HIDE DEF a
  <1>3. Still(a, g) BY <1>2, PruneStill
  <1>. HIDE DEF g
  <1>4. Sound(g) /\ Moves(reg, g, {}, R) BY <1>1, <1>2, <1>3, ThenStill
  <1>5. Left(g, s) BY <1>2, <1>3, LeftStays DEF Still
  <1>6. s \notin g.kept BY <1>1, <1>4 DEF Moves
  <1>7. s \in Requests /\ R \subseteq {s} BY DEF Requests
  <1>8. TakeOrRefuse(g, s) BY DEF g, a
  <1>. HIDE DEF R
  <1>. QED BY <1>4, <1>5, <1>6, <1>7, <1>8, TakeStep

\* A send resumes from its wait in the line.
LEMMA SendResumesStep ==
  ASSUME TurnInv, NEW s \in Sends, SendResumes(s)
  PROVE  TurnInv'
  <1>1. reg.outcome[s] # "none" /\ del' = del /\ CardUnchanged
    BY DEF SendResumes
  <1>2. CASE reg.outcome[s] = "cancelled"
    <2>1. reg' = reg /\ Goto(s, "done") BY <1>2 DEF SendResumes
    <2>2. Left(reg', s) BY <1>1, <1>2, <2>1, ToldSend
    <2>. DEFINE nobody == {}
    <2>3. /\ Sound(reg') /\ Moves(reg, reg', nobody, nobody)
          /\ nobody \in SUBSET Sends /\ nobody \subseteq {s}
      BY <2>1, StillReflexive DEF TurnInv, Still
    <2>. HIDE DEF nobody
    <2>. QED BY <1>1, <2>1, <2>2, <2>3, DoneStep
  <1>3. CASE reg.outcome[s] = "keep"
    <2>1. IF CanClaim(reg, s)
          THEN reg' = Claim(reg, s) /\ Goto(s, "keeping")
          ELSE reg' = Abandon(reg, s) /\ Goto(s, "done")
      BY <1>3 DEF SendResumes
    <2>. QED BY <1>1, <2>1, TakesToKeepStep, GivesUpStep
  <1>4. CASE reg.outcome[s] = "run" /\ CanClaim(reg, s)
    <2>1. /\ reg' = Prune(Claim(reg, s))
          /\ Goto(s, IF reg'.lock = s THEN "owner" ELSE "done")
      BY <1>4 DEF SendResumes
    <2>. QED BY <1>1, <1>4, <2>1, TakesToRunStep
  <1>5. CASE reg.outcome[s] = "run" /\ ~CanClaim(reg, s)
    <2>1. \/ reg' = Abandon(reg, s) /\ Goto(s, "done")
          \/ TakeOrRefuse(Prune(Abandon(reg, s)), s)
      BY <1>5 DEF SendResumes
    <2>. QED BY <1>1, <1>5, <2>1, GivesUpStep, TakesAnywayStep
  <1>. QED BY <1>1, <1>2, <1>3, <1>4, <1>5, ToldSend

\* The detached end of a send over the cap.
LEMMA OverflowResumesStep ==
  ASSUME TurnInv, NEW s \in Sends, OverflowResumes(s)
  PROVE  TurnInv'
  <1>1. reg.outcome[s] # "none" /\ del' = del /\ CardUnchanged
    BY DEF OverflowResumes
  <1>2. CASE reg.outcome[s] = "keep" /\ CanClaim(reg, s)
    <2>1. reg' = Claim(reg, s) /\ Goto(s, "keeping")
      BY <1>2 DEF OverflowResumes
    <2>. QED BY <1>1, <1>2, <2>1, TakesToKeepStep
  <1>3. CASE ~(reg.outcome[s] = "keep" /\ CanClaim(reg, s))
    <2>1. reg' = Abandon(reg, s) /\ Goto(s, "done")
      BY <1>3 DEF OverflowResumes
    <2>. QED BY <1>1, <2>1, GivesUpStep
  <1>. QED BY <1>2, <1>3

-----------------------------------------------------------------------------
(* Running the turn.                                                        *)

\* A step past the line that releases nobody.
LEMMA OwnStillStep ==
  ASSUME TurnInv, CardTypes', del' = del,
         NEW r \in Requests, pc[r] \notin InLine \cup {"idle"},
         NEW q \in Places, q \notin InLine \cup {"idle"}, Goto(r, q),
         Still(reg, reg'),
         q \in Running \cup {"owner"} => pc[r] \in Running \cup {"owner"},
         q \in Writing => pc[r] \in Writing,
         q \in Running => del # "gone"
  PROVE  TurnInv'
  <1>. DEFINE nobody == {}
  <1>1. Sound(reg') /\ Moves(reg, reg', {}, nobody) BY DEF Still
  <1>2. nobody \subseteq {r} /\ r \notin nobody OBVIOUS
  <1>. HIDE DEF nobody
  <1>. QED BY <1>1, <1>2, OwnStep

\* A request where a turn runs is in a chat that is not gone.
LEMMA RunningHere ==
  ASSUME TurnInv, NEW r \in Requests, pc[r] \in Running
  PROVE  del # "gone"
  BY DEF TurnInv, RequestPlaced

\* queuedSendHiddenIds loses one send.
LEMMA RevealStill ==
  ASSUME NEW g, Sound(g), NEW s
  PROVE  Still(g, Reveal(g, s))
  <1>. DEFINE h == Reveal(g, s)
  <1>1. g \in RegistryType BY DEF Sound
  <1>2. /\ h \in RegistryType
        /\ h.line = g.line /\ h.kept = g.kept /\ h.outcome = g.outcome
        /\ h.handed = g.handed /\ h.unclaimed = g.unclaimed
        /\ h.backstop = g.backstop /\ h.hidden \subseteq g.hidden
        /\ h.hold = g.hold /\ h.deleting = g.deleting
        /\ h.lock = g.lock /\ h.running = g.running /\ h.dropped = g.dropped
    BY <1>1 DEF Reveal, RegistryType
  <1>. HIDE DEF h
  <1>3. Waiting(h) = Waiting(g) /\ Runnable(h) = Runnable(g)
    BY <1>2 DEF Waiting, Runnable
  <1>4. Sound(h) BY <1>2, <1>3 DEF Sound
  <1>5. Moves(g, h, {}, {}) BY <1>2, <1>3 DEF Moves, Accounted, HolderRuns
  <1>. QED BY <1>4, <1>5 DEF Still, h

\* The steps of a turn's own handler: each goes from a place where a turn
\* writes to another, or to the finally.
LEMMA TurnBeginsStep ==
  ASSUME TurnInv, NEW r \in Requests, TurnBegins(r)
  PROVE  TurnInv'
  <1>1. Still(reg, reg') BY RevealStill DEF TurnInv, TurnBegins
  <1>2. CardTypes'
    BY DEF TurnInv, TypeOK, CardTypes, CardUnchanged, TurnBegins
  <1>3. pc[r] = "owner" /\ del # "gone" /\ del' = del /\ Goto(r, "setup")
    BY DEF TurnBegins
  <1>. QED BY <1>1, <1>2, <1>3, OwnStillStep
       DEF Places, InLine, Running, Writing

\* ... a turn whose agent is gone keeps its send ...
LEMMA AgentGoneStep ==
  ASSUME TurnInv, NEW s \in Sends, AgentGone(s)
  PROVE  TurnInv'
  <1>1. Still(reg, reg') BY StillReflexive DEF TurnInv, AgentGone
  <1>2. CardTypes'
    BY DEF TurnInv, TypeOK, CardTypes, CardUnchanged, AgentGone
  <1>3. pc[s] = "owner" /\ del' = del /\ Goto(s, "keepingOwn") /\ s \in Requests
    BY DEF AgentGone, Requests
  <1>. QED BY <1>1, <1>2, <1>3, OwnStillStep
       DEF Places, InLine, Running, Writing

\* ... a click reads its card ...
LEMMA ClickReadsStep ==
  ASSUME TurnInv, NEW c \in Clicks, ClickReadsCard(c)
  PROVE  TurnInv'
  <1>1. Still(reg, reg') BY StillReflexive DEF TurnInv, ClickReadsCard
  <1>2. CardTypes'
    BY DEF TurnInv, TypeOK, CardTypes, CardUnchanged, ClickReadsCard
  <1>3. /\ pc[c] = "owner" /\ del # "gone" /\ del' = del
        /\ Goto(c, "recording") /\ c \in Requests
    BY DEF ClickReadsCard, Requests
  <1>. QED BY <1>1, <1>2, <1>3, OwnStillStep
       DEF Places, InLine, Running, Writing

\* ... and records its answer ...
LEMMA ClickRecordsStep ==
  ASSUME TurnInv, NEW c \in Clicks, ClickRecordsAnswer(c)
  PROVE  TurnInv'
  <1>1. Still(reg, reg') BY StillReflexive DEF TurnInv, ClickRecordsAnswer
  <1>2. CardTypes'
    BY DEF TurnInv, TypeOK, CardTypes, ClickRecordsAnswer
  <1>3. /\ pc[c] = "recording" /\ del' = del
        /\ Goto(c, "setup") /\ c \in Requests
    BY DEF ClickRecordsAnswer, Requests
  <1>4. del # "gone" BY <1>3, RunningHere DEF Running
  <1>. QED BY <1>1, <1>2, <1>3, <1>4, OwnStillStep
       DEF Places, InLine, Running, Writing

\* ... a turn passes its checkpoint, or ends there ...
LEMMA CheckpointStep ==
  ASSUME TurnInv, NEW r \in Requests, Checkpoint(r)
  PROVE  TurnInv'
  <1>1. Still(reg, reg') BY StillReflexive DEF TurnInv, Checkpoint
  <1>2. CardTypes' BY DEF TurnInv, TypeOK, CardTypes, Checkpoint
  <1>3. /\ pc[r] = "setup" /\ del' = del
        /\ Goto(r, "ended") \/ Goto(r, "checked")
    BY DEF Checkpoint
  <1>4. del # "gone" BY <1>3, RunningHere DEF Running
  <1>. QED BY <1>1, <1>2, <1>3, <1>4, OwnStillStep
       DEF Places, InLine, Running, Writing

\* ... opens its stream ...
LEMMA RunStartsStep ==
  ASSUME TurnInv, NEW r \in Requests, RunStarts(r)
  PROVE  TurnInv'
  <1>1. MsgOf[r] \in Msgs BY RequestsAssumption
  <1>2. Still(reg, reg') BY <1>1, OpenStreamStill DEF TurnInv, RunStarts
  <1>3. CardTypes'
    BY DEF TurnInv, TypeOK, CardTypes, CardUnchanged, RunStarts
  <1>4. pc[r] = "checked" /\ del' = del /\ Goto(r, "streaming")
    BY DEF RunStarts
  <1>5. del # "gone" BY <1>4, RunningHere DEF Running
  <1>. QED BY <1>2, <1>3, <1>4, <1>5, OwnStillStep
       DEF Places, InLine, Running, Writing

\* ... raises a card ...
LEMMA RaisesCardStep ==
  ASSUME TurnInv, NEW r \in Requests, RaisesCard(r)
  PROVE  TurnInv'
  <1>1. Still(reg, reg') BY StillReflexive DEF TurnInv, RaisesCard
  <1>2. CardTypes' BY DEF TurnInv, TypeOK, CardTypes, RaisesCard
  <1>3. \A s \in Sends : s \in Requests BY DEF Requests
  <1>4. pc' = pc /\ del' = del BY DEF RaisesCard
  <1>5. pc' = [pc EXCEPT ![r] = pc[r]] /\ pc[r] \in Places
    BY <1>4 DEF TurnInv, TypeOK
  <1>6. pc[r] = "streaming" BY DEF RaisesCard
  <1>7. del # "gone" BY <1>6, RunningHere DEF Running
  <1>. QED BY <1>1, <1>2, <1>4, <1>5, <1>6, <1>7, OwnStillStep
       DEF Goto, InLine, Running, Writing

\* ... ends its run ...
LEMMA RunEndsStep ==
  ASSUME TurnInv, NEW r \in Requests, RunEnds(r)
  PROVE  TurnInv'
  <1>1. MsgOf[r] \in Msgs BY RequestsAssumption
  <1>2. Still(reg, reg') BY <1>1, CloseStreamStill DEF TurnInv, RunEnds
  <1>3. CardTypes' BY DEF TurnInv, TypeOK, CardTypes, RunEnds
  <1>4. pc[r] = "streaming" /\ del' = del /\ Goto(r, "ended")
    BY DEF RunEnds
  <1>5. del # "gone" BY <1>4, RunningHere DEF Running
  <1>. QED BY <1>2, <1>3, <1>4, <1>5, OwnStillStep
       DEF Places, InLine, Running, Writing

\* ... starts another ...
LEMMA RunsAgainStep ==
  ASSUME TurnInv, NEW r \in Requests, RunsAgain(r)
  PROVE  TurnInv'
  <1>1. Still(reg, reg') BY StillReflexive DEF TurnInv, RunsAgain
  <1>2. CardTypes'
    BY DEF TurnInv, TypeOK, CardTypes, CardUnchanged, RunsAgain
  <1>3. pc[r] = "ended" /\ del' = del /\ Goto(r, "setup") BY DEF RunsAgain
  <1>4. del # "gone" BY <1>3, RunningHere DEF Running
  <1>. QED BY <1>1, <1>2, <1>3, <1>4, OwnStillStep
       DEF Places, InLine, Running, Writing

\* ... goes into its finally ...
LEMMA LeavesStep ==
  ASSUME TurnInv, NEW r \in Requests, Leaves(r)
  PROVE  TurnInv'
  <1>1. Still(reg, reg') BY StillReflexive DEF TurnInv, Leaves
  <1>2. CardTypes' BY DEF TurnInv, TypeOK, CardTypes, Leaves
  <1>3. /\ pc[r] \notin InLine \cup {"idle"} /\ del' = del
        /\ Goto(r, "leaving") \/ Goto(r, "sweeping")
    BY DEF Leaves, InLine
  <1>. QED BY <1>1, <1>2, <1>3, OwnStillStep
       DEF Places, InLine, Running, Writing

\* ... and lets the chat go.
LEMMA ReleasesStep ==
  ASSUME TurnInv, NEW r \in Requests, Releases(r)
  PROVE  TurnInv'
  <1>1. EndOf(r) \in Ends BY RequestsAssumption DEF EndOf, Ends
  <1>. DEFINE R == {r}
  <1>2. Sound(reg') /\ Moves(reg, reg', {}, R)
    BY <1>1, ReleaseMoves DEF TurnInv, Releases
  <1>3. CardTypes'
    BY DEF TurnInv, TypeOK, CardTypes, CardUnchanged, Releases
  <1>4. /\ pc[r] \notin InLine \cup {"idle"} /\ del' = del
        /\ Goto(r, "done") /\ R \subseteq {r}
    BY DEF Releases, InLine
  <1>. HIDE DEF R
  <1>5. /\ "done" \notin InLine \cup {"idle"} /\ "done" \in Places
        /\ "done" \notin Writing \cup Running \cup {"owner"}
    BY DEF Places, InLine, Running, Writing
  <1>. QED BY <1>2, <1>3, <1>4, <1>5, OwnStep

\* keepQueuedSendAtEnd moves the message ...
LEMMA KeeperMovesStep ==
  ASSUME TurnInv, NEW s \in Sends, KeeperMoves(s)
  PROVE  TurnInv'
  <1>1. Still(reg, reg') BY RevealStill DEF TurnInv, KeeperMoves
  <1>2. CardTypes'
    BY DEF TurnInv, TypeOK, CardTypes, CardUnchanged, KeeperMoves
  <1>3. /\ pc[s] \in {"keeping", "keepingOwn"} /\ del' = del
        /\ Goto(s, "kept") \/ Goto(s, "keptOwn")
        /\ s \in Requests
    BY DEF KeeperMoves, Requests
  <1>. QED BY <1>1, <1>2, <1>3, OwnStillStep
       DEF Places, InLine, Running, Writing

\* ... and lets the chat go.
LEMMA KeeperReleasesStep ==
  ASSUME TurnInv, NEW s \in Sends, KeeperReleases(s)
  PROVE  TurnInv'
  <1>. DEFINE g == Reveal(reg, s)
              R == {s}
              q == IF pc[s] \in {"keeping", "kept"} THEN "done" ELSE "ownReleased"
  <1>1. Still(reg, g) /\ Sound(reg) /\ Sound(g)
    BY RevealStill DEF TurnInv, Still
  <1>. HIDE DEF g
  <1>2. s \in Requests /\ R \subseteq {s} BY DEF Requests
  <1>3. Sound(reg') /\ Moves(g, reg', {}, R)
    BY <1>1, <1>2, NoEndIsAnEnd, ReleaseMoves DEF KeeperReleases, g
  <1>4. Moves(reg, reg', {}, R) BY <1>1, <1>3, StillThen
  <1>5. CardTypes'
    BY DEF TurnInv, TypeOK, CardTypes, CardUnchanged, KeeperReleases
  <1>6. /\ pc[s] \notin InLine \cup {"idle"} /\ del' = del /\ Goto(s, q)
    BY DEF KeeperReleases, InLine
  <1>7. /\ q \notin InLine \cup {"idle"} /\ q \in Places
        /\ q \notin Writing \cup Running \cup {"owner"}
    BY DEF Places, InLine, Running, Writing
  <1>. HIDE DEF R, q
  <1>. QED BY <1>2, <1>3, <1>4, <1>5, <1>6, <1>7, OwnStep

-----------------------------------------------------------------------------
(* Stops, drains and timers: no request moves.                              *)

\* The interrupt route.
LEMMA StopStep ==
  ASSUME TurnInv, NEW m \in Msgs \cup {None}, NEW all \in BOOLEAN, Stop(m, all)
  PROVE  TurnInv'
  <1>. DEFINE k == IF all THEN KeepLine(reg) ELSE reg
              g == Prune(k)
  <1>1. Sound(reg) BY DEF TurnInv
  <1>2. Still(reg, k) /\ Sound(k)
    BY <1>1, KeepLineStill, StillReflexive DEF Still
  <1>3. reg' = IF g.stream # None THEN AbortStream(g)
               ELSE IF g.lock # None /\ ~g.runEnded THEN StopTurn(g)
               ELSE ClearTurn(g, m)
    BY DEF Stop
  <1>. HIDE DEF k
  <1>4. Still(k, g) /\ Sound(g) BY <1>2, PruneStill DEF Still
  <1>. HIDE DEF g
  <1>5. Still(g, reg')
    BY <1>3, <1>4, AbortStreamStill, StopTurnStill, ClearTurnStill
  <1>6. Still(reg, g) BY <1>1, <1>2, <1>4, StillTransitive
  <1>7. Still(reg, reg') BY <1>1, <1>5, <1>6, StillTransitive
  <1>. QED BY <1>7, RegistryStep DEF Stop

\* Shutdown, and a restore that drains, keep the line.
LEMMA DrainStep ==
  ASSUME TurnInv, Shutdown \/ RestoreDrains
  PROVE  TurnInv'
  <1>1. Still(reg, reg') BY KeepLineStill DEF TurnInv, Shutdown, RestoreDrains
  <1>. QED BY <1>1, RegistryStep DEF Shutdown, RestoreDrains

\* Send now.
LEMMA SendNowStep ==
  ASSUME TurnInv, NEW s \in Sends, SendNow(s)
  PROVE  TurnInv'
  <1>1. Still(reg, reg') BY SendWaitingNowStill DEF TurnInv, SendNow
  <1>. QED BY <1>1, RegistryStep DEF SendNow

\* The backstop timer, and the prunes of other chats' requests.
LEMMA TimerStep ==
  ASSUME TurnInv, BackstopFires \/ PrunedElsewhere
  PROVE  TurnInv'
  <1>1. Still(reg, reg')
    BY BackstopTickStill, PruneStill DEF TurnInv, BackstopFires, PrunedElsewhere
  <1>. QED BY <1>1, RegistryStep DEF BackstopFires, PrunedElsewhere

\* The bounds that have passed, and the waits, are only read.
LEMMA ClocksStill ==
  ASSUME NEW g, Sound(g), NEW O \in SUBSET Clocks, NEW W \in SUBSET Requests
  PROVE  /\ Still(g, [g EXCEPT !.overdue = O])
         /\ Still(g, [g EXCEPT !.waitedOut = W])
  <1>1. g \in RegistryType BY DEF Sound
  <1>2. ASSUME NEW h, \/ h = [g EXCEPT !.overdue = O]
                      \/ h = [g EXCEPT !.waitedOut = W]
        PROVE  Still(g, h)
    <2>1. h \in RegistryType BY <1>1, <1>2 DEF RegistryType
    <2>2. /\ h.line = g.line /\ h.kept = g.kept /\ h.outcome = g.outcome
          /\ h.handed = g.handed /\ h.unclaimed = g.unclaimed
          /\ h.backstop = g.backstop /\ h.hidden = g.hidden /\ h.hold = g.hold
          /\ h.lock = g.lock /\ h.running = g.running /\ h.dropped = g.dropped
          /\ h.deleting = g.deleting
      BY <1>1, <1>2 DEF RegistryType
    <2>. QED BY <2>1, <2>2, SameLine DEF Still
  <1>. QED BY <1>2

\* A bound passes.
LEMMA ClockStep ==
  ASSUME TurnInv,
         \/ \E clock \in Clocks : BoundPasses(clock)
         \/ \E r \in Requests : HandoverWaitPasses(r)
  PROVE  TurnInv'
  <1>1. Sound(reg) /\ reg \in RegistryType BY DEF TurnInv, Sound
  <1>2. UNCHANGED <<pc, del>> /\ CardUnchanged
    BY DEF BoundPasses, HandoverWaitPasses
  <1>3. CASE \E clock \in Clocks : BoundPasses(clock)
    <2>1. PICK clock \in Clocks : reg' = [reg EXCEPT !.overdue = @ \cup {clock}]
      BY <1>3 DEF BoundPasses
    <2>2. reg.overdue \cup {clock} \in SUBSET Clocks BY <1>1 DEF RegistryType
    <2>3. Still(reg, reg') BY <1>1, <2>1, <2>2, ClocksStill
    <2>. QED BY <1>2, <2>3, RegistryStep
  <1>4. CASE \E r \in Requests : HandoverWaitPasses(r)
    <2>1. PICK r \in Requests : reg' = [reg EXCEPT !.waitedOut = @ \cup {r}]
      BY <1>4 DEF HandoverWaitPasses
    <2>2. reg.waitedOut \cup {r} \in SUBSET Requests BY <1>1 DEF RegistryType
    <2>3. Still(reg, reg') BY <1>1, <2>1, <2>2, ClocksStill
    <2>. QED BY <1>2, <2>3, RegistryStep
  <1>. QED BY <1>3, <1>4

-----------------------------------------------------------------------------
(* Deleting the chat.                                                       *)

\* A step of the delete from d to e, over a registry g that differs from reg in
\* its deleting mark alone; the requests of R were handed the chat, and had yet
\* to take it.
LEMMA DeleteMoves ==
  ASSUME TurnInv, CardUnchanged, pc' = pc,
         del' \in {"none", "stopping", "sweeping"}, DeleteMarked(reg', del'),
         NEW b \in BOOLEAN, Sound(reg'),
         Moves([reg EXCEPT !.deleting = b], reg', {}, {reg.lock} \cap reg.handed)
  PROVE  TurnInv'
  <1>. DEFINE g == [reg EXCEPT !.deleting = b]
              R == {reg.lock} \cap reg.handed
  <1>1. Sound(reg) /\ reg \in RegistryType BY DEF TurnInv, Sound
  <1>2. /\ g.line = reg.line /\ g.kept = reg.kept /\ g.outcome = reg.outcome
        /\ g.handed = reg.handed /\ g.lock = reg.lock
        /\ g.running = reg.running /\ g.dropped = reg.dropped
    BY <1>1 DEF RegistryType
  <1>3. Moves(g, reg', {}, R) OBVIOUS
  <1>. HIDE DEF g
  <1>4. Waiting(g) = Waiting(reg) BY <1>2 DEF Waiting
  <1>5. TypeOK'
    BY DEF TurnInv, TypeOK, CardUnchanged, Sound
  <1>6. \A s \in Sends : SendPlaced(reg', pc'[s], s)
    <2>1. SUFFICES ASSUME NEW s \in Sends PROVE SendPlaced(reg', pc[s], s)
      OBVIOUS
    <2>2. SendPlaced(reg, pc[s], s) BY DEF TurnInv
    <2>3. SendPlaced(g, pc[s], s) BY <1>2, <1>4, <2>2 DEF SendPlaced
    <2>4. CASE s \notin R BY <1>3, <2>3, <2>4, SendStays
    <2>5. CASE s \in R
      <3>1. /\ s \notin Waiting(g) /\ g.outcome[s] # "none"
            /\ pc[s] \in InLine
        BY <1>1, <1>2, <1>4, <2>2, <2>5 DEF Sound, SendPlaced
      <3>2. reg'.outcome[s] # "none" BY <1>3, <3>1 DEF Moves
      <3>. QED BY <3>1, <3>2 DEF SendPlaced, InLine, Running
    <2>. QED BY <2>4, <2>5
  <1>7. \A r \in Requests : RequestPlaced(reg', pc'[r], del', r)
    <2>1. SUFFICES ASSUME NEW r \in Requests PROVE RequestPlaced(reg', pc[r], del', r)
      OBVIOUS
    <2>2. RequestPlaced(reg, pc[r], del, r) BY DEF TurnInv
    <2>3. RequestPlaced(g, pc[r], del', r)
      BY <1>2, <2>2 DEF RequestPlaced, Accounted
    <2>4. CASE r \notin R BY <1>3, <2>3, <2>4, RequestStays
    <2>5. CASE r \in R
      <3>1. r \in Sends BY <1>1, <2>5, SoundTypes
      <3>2. pc[r] \in InLine BY <2>5, <3>1 DEF TurnInv, SendPlaced
      <3>. QED BY <3>2 DEF RequestPlaced, InLine, Writing, Running
    <2>. QED BY <2>4, <2>5
  <1>8. HolderRuns(reg')
    BY <1>2, <1>3 DEF TurnInv, Moves, HolderRuns
  <1>. QED BY <1>5, <1>6, <1>7, <1>8 DEF TurnInv

\* The mark a delete sets and takes back changes nothing by itself.
LEMMA MarkedIsReg ==
  ASSUME NEW g \in RegistryType, g.deleting
  PROVE  [g EXCEPT !.deleting = TRUE] = g
  BY DEF RegistryType

\* beginSessionDelete and the first look at what runs.
LEMMA DeleteBeginsStep ==
  ASSUME TurnInv, DeleteBegins
  PROVE  TurnInv'
  <1>. DEFINE d == [reg EXCEPT !.deleting = TRUE]
              g == BeginDelete(reg)
              R == {reg.lock} \cap reg.handed
  <1>1. Sound(reg) /\ reg \in RegistryType BY DEF TurnInv, Sound
  <1>2. Sound(g) /\ Moves(d, g, {}, R) BY <1>1, BeginDeleteMoves
  <1>3. d.deleting = TRUE /\ Sound(d)
    <2>1. /\ d \in RegistryType
          /\ d.line = reg.line /\ d.kept = reg.kept /\ d.outcome = reg.outcome
          /\ d.handed = reg.handed /\ d.unclaimed = reg.unclaimed
          /\ d.backstop = reg.backstop /\ d.hidden = reg.hidden
          /\ d.hold = reg.hold /\ d.lock = reg.lock /\ d.running = reg.running
          /\ d.dropped = reg.dropped /\ d.deleting = TRUE
      BY <1>1 DEF RegistryType
    <2>. HIDE DEF d
    <2>. QED BY <1>1, <2>1, SameLine
  <1>4. g.deleting = TRUE BY <1>2, <1>3 DEF Moves
  <1>5. IF g.running = {} THEN reg' = g /\ del' = "sweeping"
                          ELSE reg' = StopWhatRuns(g) /\ del' = "stopping"
    BY DEF DeleteBegins
  <1>. HIDE DEF d, g, R
  <1>6. Still(g, reg')
    BY <1>2, <1>5, StillReflexive, StopWhatRunsStill
  <1>7. Sound(reg') /\ Moves(d, reg', {}, R)
    BY <1>2, <1>3, <1>6, ThenStill
  <1>8. DeleteMarked(reg', del')
    BY <1>4, <1>5, <1>6 DEF DeleteMarked, Still, Moves
  <1>9. CardUnchanged /\ pc' = pc BY DEF DeleteBegins
  <1>. QED BY <1>5, <1>7, <1>8, <1>9, DeleteMoves DEF d, R

\* Each poll of the delete's wait.
LEMMA DeletePollsStep ==
  ASSUME TurnInv, DeletePolls
  PROVE  TurnInv'
  <1>. DEFINE R == {reg.lock} \cap reg.handed
  <1>1. Sound(reg) /\ reg \in RegistryType BY DEF TurnInv, Sound
  <1>2. reg.deleting /\ del = "stopping"
    BY DEF DeletePolls, TurnInv, DeleteMarked
  <1>3. IF reg.running = {} THEN del' = "sweeping" /\ reg' = reg
                            ELSE reg' = StopWhatRuns(reg) /\ del' = del
    BY DEF DeletePolls
  <1>4. Still(reg, reg') BY <1>1, <1>3, StillReflexive, StopWhatRunsStill
  <1>5. [reg EXCEPT !.deleting = TRUE] = reg BY <1>1, <1>2, MarkedIsReg
  <1>6. Sound(reg') /\ Moves(reg, reg', {}, R)
    BY <1>4 DEF Still, Moves
  <1>7. DeleteMarked(reg', del')
    BY <1>2, <1>3, <1>6 DEF DeleteMarked, Moves
  <1>8. CardUnchanged /\ pc' = pc BY DEF DeletePolls
  <1>. QED BY <1>2, <1>3, <1>5, <1>6, <1>7, <1>8, DeleteMoves

\* The delete is refused, and the line goes on.
LEMMA DeleteRefusedStep ==
  ASSUME TurnInv, DeleteRefused
  PROVE  TurnInv'
  <1>. DEFINE d == [reg EXCEPT !.deleting = FALSE]
              R == {reg.lock} \cap reg.handed
  <1>1. Sound(reg) BY DEF TurnInv
  <1>2. Sound(d) /\ Still(d, reg')
    BY <1>1, EndDeleteStill DEF DeleteRefused
  <1>. HIDE DEF d
  <1>3. Sound(reg') /\ Moves(d, reg', {}, R) BY <1>2 DEF Still, Moves
  <1>4. del' = "none" /\ CardUnchanged /\ pc' = pc BY DEF DeleteRefused
  <1>5. DeleteMarked(reg', del') BY <1>4 DEF DeleteMarked
  <1>. QED BY <1>3, <1>4, <1>5, DeleteMoves DEF d

\* The chat's Redis is swept: nobody could still write into it.
LEMMA DeleteSweptStep ==
  ASSUME TurnInv, DeleteSwept
  PROVE  TurnInv'
  <1>. DEFINE c == CancelLine(reg)
              d == [c EXCEPT !.deleting = FALSE]
  <1>1. Sound(reg) BY DEF TurnInv
  <1>2. Still(reg, c) /\ Sound(c) BY <1>1, CancelLineStill DEF Still
  <1>3. reg' = EndDelete(c) /\ del' = "gone" /\ pc' = pc /\ CardUnchanged
    BY DEF DeleteSwept
  <1>. HIDE DEF c
  <1>4. Sound(d) /\ Still(d, reg') BY <1>2, <1>3, EndDeleteStill
  <1>5. /\ d.line = c.line /\ d.kept = c.kept /\ d.outcome = c.outcome
        /\ d.handed = c.handed /\ d.lock = c.lock
        /\ d.running = c.running /\ d.dropped = c.dropped
    BY <1>2 DEF Sound, RegistryType
  <1>. HIDE DEF d
  <1>6. Waiting(d) = Waiting(c) BY <1>5 DEF Waiting
  <1>7. TypeOK'
    BY <1>3, <1>4 DEF TurnInv, TypeOK, CardUnchanged, Still, Sound
  <1>8. \A s \in Sends : SendPlaced(reg', pc'[s], s)
    <2>1. SUFFICES ASSUME NEW s \in Sends PROVE SendPlaced(reg', pc[s], s)
      BY <1>3
    <2>2. SendPlaced(reg, pc[s], s) BY DEF TurnInv
    <2>3. SendPlaced(c, pc[s], s) BY <1>2, <2>2, SendStays DEF Still
    <2>4. SendPlaced(d, pc[s], s) BY <1>5, <1>6, <2>3 DEF SendPlaced
    <2>. QED BY <1>4, <2>4, SendStays DEF Still
  <1>9. \A r \in Requests : pc[r] \notin Writing
    BY DEF TurnInv, RequestPlaced, DeleteMarked, DeleteSwept
  <1>10. \A r \in Requests : RequestPlaced(reg', pc'[r], del', r)
    BY <1>3, <1>9 DEF RequestPlaced, Writing, Running
  <1>11. HolderRuns(reg')
    BY <1>2, <1>4, <1>5 DEF TurnInv, Still, Moves, HolderRuns
  <1>12. DeleteMarked(reg', del') BY <1>3 DEF DeleteMarked
  <1>. QED BY <1>4, <1>7, <1>8, <1>10, <1>11, <1>12 DEF TurnInv, Still

-----------------------------------------------------------------------------
(* The invariant, and what follows from it.                                 *)

\* A chat starts in TurnInv.
LEMMA InitTurnInv ==
  ASSUME Init
  PROVE  TurnInv
  <1>1. Sound(reg) /\ reg = EmptyRegistry BY EmptyRegistrySound DEF Init
  <1>2. TypeOK BY <1>1 DEF Init, TypeOK, Places, Sound
  <1>3. Waiting(reg) = {} BY <1>1, Members, EmptySeq DEF EmptyRegistry, Waiting
  <1>4. /\ reg.lock = None /\ reg.kept = {} /\ reg.handed = {}
        /\ \A s \in Sends : reg.outcome[s] = "none"
    BY <1>1 DEF EmptyRegistry
  <1>5. \A r \in Requests : pc[r] = "idle" BY DEF Init
  <1>6. \A s \in Sends : SendPlaced(reg, pc[s], s)
    BY <1>3, <1>4, <1>5 DEF SendPlaced, Requests, InLine
  <1>7. \A r \in Requests : RequestPlaced(reg, pc[r], del, r)
    BY <1>5 DEF RequestPlaced, Writing, Running
  <1>8. DeleteMarked(reg, del) BY DEF Init, DeleteMarked
  <1>. QED BY <1>1, <1>2, <1>4, <1>6, <1>7, <1>8 DEF TurnInv, HolderRuns

\* Every step keeps it.
LEMMA NextTurnInv ==
  ASSUME TurnInv, [Next]_vars
  PROVE  TurnInv'
  <1>1. ASSUME NEW r \in Requests, RequestStep(r) PROVE TurnInv'
    BY <1>1, TurnBeginsStep, CheckpointStep, RunStartsStep, RaisesCardStep,
       RunEndsStep, RunsAgainStep, LeavesStep, ReleasesStep DEF RequestStep
  <1>2. ASSUME NEW s \in Sends, SendStep(s) PROVE TurnInv'
    BY <1>2, SendArrivesStep, SendThrowsStep, SendNowStep, SendResumesStep,
       OverflowResumesStep, AgentGoneStep, KeeperMovesStep, KeeperReleasesStep
       DEF SendStep
  <1>3. ASSUME NEW c \in Clicks, ClickStep(c) PROVE TurnInv'
    BY <1>3, ClickArrivesStep, ClickWaitEndsStep, ClickReadsStep,
       ClickRecordsStep DEF ClickStep
  <1>4. ASSUME DeleteStep PROVE TurnInv'
    BY <1>4, DeleteBeginsStep, DeletePollsStep, DeleteRefusedStep,
       DeleteSweptStep DEF DeleteStep
  <1>5. ASSUME TimeStep PROVE TurnInv'
    BY <1>5, TimerStep, ClockStep DEF TimeStep
  <1>6. CASE UNCHANGED vars
    <2>1. Still(reg, reg') /\ UNCHANGED <<pc, del>> /\ CardUnchanged
      BY <1>6, StillReflexive DEF vars, TurnInv, CardUnchanged
    <2>. QED BY <2>1, RegistryStep
  <1>. QED BY <1>1, <1>2, <1>3, <1>4, <1>5, <1>6, WakeArrivesStep, StopStep,
       DrainStep DEF Next

\* The chat keeps TurnInv in every behaviour.
THEOREM TurnInvariant == Spec => []TurnInv
  BY InitTurnInv, NextTurnInv, PTL DEF Spec

\* Every variable has its type: the registry's maps, the places, the delete.
THEOREM TypesOK == Spec => []TypeOK
  <1>1. TurnInv => TypeOK BY DEF TurnInv
  <1>. QED BY <1>1, TurnInvariant, PTL

\* A line that waits always has the timer that comes back for it
\* (ensureQueueBackstop), whatever took, dropped or let go the lock.
THEOREM LineKeepsItsTimer == Spec => []LineHasBackstop
  <1>1. TurnInv => LineHasBackstop BY DEF TurnInv, Sound, LineHasBackstop
  <1>. QED BY <1>1, TurnInvariant, PTL

\* No message stays hidden that nobody owes the page: queuedSendHiddenIds holds
\* only sends that wait, and the one that holds the chat.
THEOREM HiddenMessagesAreOwed == Spec => []HiddenIsOwed
  <1>1. TurnInv => HiddenIsOwed BY DEF TurnInv, Sound, HiddenIsOwed
  <1>. QED BY <1>1, TurnInvariant, PTL

\* The line holds for a card only while it has a send to answer (BL-903).
THEOREM HoldsForRunnable == Spec => []HoldHasRunnable
  <1>1. TurnInv => HoldHasRunnable BY DEF TurnInv, Sound, HoldHasRunnable
  <1>. QED BY <1>1, TurnInvariant, PTL

\* The line and the requests that await its promises agree: a send is in the
\* line once, exactly while its request waits and nobody has told it anything.
THEOREM LineAndRequestsAgree == Spec => []LineAgrees
  <1>1. TurnInv => LineAgrees
    BY DEF TurnInv, Sound, SendPlaced, InLine, LineAgrees
  <1>. QED BY <1>1, TurnInvariant, PTL

\* A send the line kept is never answered: keepQueuedSessionTurns wins over the
\* handover, whichever comes first.
THEOREM KeptSendsNeverRun == Spec => []KeptNeverRuns
  <1>1. TurnInv => KeptNeverRuns
    <2>1. TurnInv => reg.kept \subseteq Sends BY SoundTypes DEF TurnInv
    <2>. QED BY <2>1 DEF TurnInv, SendPlaced, KeptNeverRuns
  <1>. QED BY <1>1, TurnInvariant, PTL

\* Two requests write into the chat at once only after a grace rule took the
\* lock from one of them.
THEOREM OneTurnHoldsTheChat == Spec => []OneTurnAtATime
  <1>1. TurnInv => OneTurnAtATime
    BY DEF TurnInv, RequestPlaced, Accounted, OneTurnAtATime
  <1>. QED BY <1>1, TurnInvariant, PTL

\* A chat is swept only while no request of it can still write, and nothing
\* runs in it once it is gone (BL-194).
THEOREM DeletesSweepAlone == Spec => []DeleteSweepsAlone
  <1>1. TurnInv => DeleteSweepsAlone
    BY DEF TurnInv, RequestPlaced, DeleteMarked, DeleteSweepsAlone
  <1>. QED BY <1>1, TurnInvariant, PTL

-----------------------------------------------------------------------------
(* The line keeps SendLine's promise.                                       *)

\* What a step may do to the line: settle its head at most, keeping all that
\* waits or nothing; let a new send join; or tell all that their chat is gone.
Settles(g, h) ==
  /\ h.kept \in {g.kept, g.kept \cup Waiting(g)}
  /\ Untold(g, h) \/ Hands(g, h)

Cancels(g, h) ==
  /\ h.line = <<>> /\ h.kept = g.kept
  /\ h.outcome = [s \in Sends |-> IF s \in Waiting(g) THEN "cancelled" ELSE g.outcome[s]]

LineMoves ==
  \/ Settles(reg, reg')
  \/ \E s \in Sends : pc[s] = "idle" /\ Joined(reg, reg', s)
  \/ Cancels(reg, reg')

\* A function that serves settles.
LEMMA ServedSettles ==
  ASSUME NEW g, NEW h, Serves(g, h) \/ Served(g, h)
  PROVE  Settles(g, h)
  BY DEF Serves, Served, Settles, HandsOn

\* What marks a registry without touching its line serves.
LEMMA MarkServes ==
  ASSUME NEW g, NEW h,
         h.line = g.line, h.outcome = g.outcome, h.kept = g.kept,
         h.running = g.running, h.waitedOut = g.waitedOut,
         h.lock = g.lock, h.dropped = g.dropped
  PROVE  Serves(g, h)
  BY DEF Serves, SameSends, Untold, Held, Accounted

\* The lock check and the registration.
LEMMA TakeSettles ==
  ASSUME NEW g, Sound(g), NEW r \in Requests, TakeOrRefuse(g, r)
  PROVE  Serves(g, reg')
  BY QuietOnes, MoreQuietOnes DEF TakeOrRefuse

\* The steps of a request of any kind.
LEMMA RequestSettles ==
  ASSUME TurnInv, NEW r \in Requests, RequestStep(r)
  PROVE  Settles(reg, reg')
  <1>1. Sound(reg) /\ reg \in RegistryType BY DEF TurnInv, Sound
  <1>2. CASE TurnBegins(r)
    <2>1. Serves(reg, reg')
      BY <1>1, <1>2, MarkServes DEF TurnBegins, Reveal, RegistryType
    <2>. QED BY <2>1, ServedSettles
  <1>3. CASE RunStarts(r) \/ RunEnds(r)
    <2>1. MsgOf[r] \in Msgs BY RequestsAssumption
    <2>2. Serves(reg, reg')
      BY <1>1, <1>3, <2>1, MoreQuietOnes DEF RunStarts, RunEnds
    <2>. QED BY <2>2, ServedSettles
  <1>4. CASE Checkpoint(r) \/ RaisesCard(r) \/ RunsAgain(r) \/ Leaves(r)
    BY <1>4 DEF Checkpoint, RaisesCard, RunsAgain, Leaves, Settles, Untold
  <1>5. CASE Releases(r)
    <2>1. EndOf(r) \in Ends BY RequestsAssumption DEF EndOf, Ends
    <2>2. Served(reg, reg') BY <1>1, <1>5, <2>1, ReleaseServes DEF Releases
    <2>. QED BY <2>2, ServedSettles
  <1>. QED BY <1>2, <1>3, <1>4, <1>5 DEF RequestStep

\* A send that arrives takes the chat, joins the line or is refused.
LEMMA SendArrivesMoves ==
  ASSUME TurnInv, NEW s \in Sends, SendArrives(s)
  PROVE  LineMoves
  <1>. DEFINE g == Prune(reg)
              overflow == Cardinality(Runnable(g)) >= Cap
  <1>1. Sound(reg) /\ Sound(g) /\ Serves(reg, g)
    BY PruneStill, PruneServes DEF TurnInv, Still
  <1>2. pc[s] = "idle" /\ s \notin Waiting(reg) /\ s \in Requests
    BY IdleSend DEF SendArrives, Requests
  <1>3. overflow \in BOOLEAN OBVIOUS
  <1>4. \/ reg' = reg \/ TakeOrRefuse(g, s)
        \/ reg' = Enqueue(g, s, overflow) \/ reg' = g
    BY DEF SendArrives
  <1>. HIDE DEF overflow
  <1>5. Joined(reg, Enqueue(g, s, overflow), s) BY <1>1, <1>2, <1>3, PrunedJoins
  <1>. HIDE DEF g
  <1>6. reg' = reg => Settles(reg, reg') BY DEF Settles, Untold
  <1>7. TakeOrRefuse(g, s) => Settles(reg, reg')
    <2>1. SUFFICES ASSUME TakeOrRefuse(g, s) PROVE Serves(reg, reg')
      BY ServedSettles
    <2>2. Serves(g, reg') BY <1>1, <1>2, <2>1, TakeSettles
    <2>. QED BY <1>1, <2>2, ServesTransitive
  <1>8. reg' = g => Settles(reg, reg') BY <1>1, ServedSettles
  <1>. QED BY <1>2, <1>4, <1>5, <1>6, <1>7, <1>8 DEF LineMoves

\* A send that resumes takes what it was told, or gives it up.
LEMMA SendResumesSettles ==
  ASSUME TurnInv, NEW s \in Sends, SendResumes(s) \/ OverflowResumes(s)
  PROVE  Settles(reg, reg')
  <1>. DEFINE c == Claim(reg, s)
              a == Abandon(reg, s)
  <1>1. Sound(reg) BY DEF TurnInv
  <1>2. s \notin Waiting(reg) /\ s \in Requests
    BY ToldSend DEF SendResumes, OverflowResumes, Requests
  <1>3. Sound(c) /\ Serves(reg, c) BY <1>1, ClaimStill, MoreQuietOnes DEF Still
  <1>4. Sound(a) /\ Served(reg, a) BY <1>1, <1>2, AbandonMoves, AbandonServes
  <1>5. \/ reg' = reg \/ reg' = c \/ reg' = a \/ reg' = Prune(c)
        \/ TakeOrRefuse(Prune(a), s)
    <2>1. CASE SendResumes(s)
      <3>1. reg.outcome[s] \in {"cancelled", "keep", "run"}
        BY <2>1, ToldSend DEF SendResumes
      <3>. QED BY <2>1, <3>1 DEF SendResumes
    <2>2. CASE OverflowResumes(s) BY <2>2 DEF OverflowResumes
    <2>. QED BY <2>1, <2>2
  <1>. HIDE DEF c, a
  <1>6. Sound(Prune(a)) /\ Serves(a, Prune(a)) /\ Serves(c, Prune(c))
    BY <1>3, <1>4, PruneStill, PruneServes DEF Still
  <1>7. reg' = reg => Settles(reg, reg') BY DEF Settles, Untold
  <1>8. reg' = c \/ reg' = a => Settles(reg, reg') BY <1>3, <1>4, ServedSettles
  <1>9. reg' = Prune(c) => Settles(reg, reg')
    <2>1. Serves(reg, Prune(c)) BY <1>1, <1>3, <1>6, ServesTransitive
    <2>. QED BY <2>1, ServedSettles
  <1>10. TakeOrRefuse(Prune(a), s) => Settles(reg, reg')
    <2>1. SUFFICES ASSUME TakeOrRefuse(Prune(a), s) PROVE Served(reg, reg')
      BY ServedSettles
    <2>2. Serves(Prune(a), reg') BY <1>2, <1>6, <2>1, TakeSettles
    <2>3. Serves(a, reg') BY <1>4, <1>6, <2>2, ServesTransitive
    <2>. QED BY <1>1, <1>4, <2>3, ServesThen
  <1>. QED BY <1>5, <1>7, <1>8, <1>9, <1>10

\* The other steps of a send.
LEMMA SendMoves ==
  ASSUME TurnInv, NEW s \in Sends, SendStep(s)
  PROVE  LineMoves
  <1>1. Sound(reg) /\ reg \in RegistryType BY DEF TurnInv, Sound
  <1>2. CASE SendThrowsInLine(s)
    <2>1. s \notin Waiting(reg) /\ reg.outcome[s] = "none"
      BY <1>2, IdleSend DEF SendThrowsInLine
    <2>2. /\ reg' = Abandon(Enqueue(Prune(reg), s, FALSE), s)
          /\ ~(Prune(reg).lock = None /\ Prune(reg).line = <<>>)
      BY <1>2 DEF SendThrowsInLine
    <2>3. Settles(reg, reg') BY <1>1, <2>1, <2>2, ThrownServes DEF Settles
    <2>. QED BY <2>3 DEF LineMoves
  <1>3. CASE SendNow(s)
    <2>1. Serves(reg, reg') BY <1>1, <1>3, ClearServes DEF SendNow
    <2>. QED BY <2>1, ServedSettles DEF LineMoves
  <1>4. CASE AgentGone(s) BY <1>4 DEF AgentGone, LineMoves, Settles, Untold
  <1>5. CASE KeeperMoves(s) \/ KeeperReleases(s)
    <2>. DEFINE v == Reveal(reg, s)
    <2>1. Sound(v) /\ SameSends(reg, v)
      BY <1>1, RevealStill DEF Still, Reveal, RegistryType, SameSends
    <2>2. reg' = v \/ reg' = Release(v, s, NoEnd)
      BY <1>5 DEF KeeperMoves, KeeperReleases
    <2>. HIDE DEF v
    <2>3. Served(v, Release(v, s, NoEnd))
      BY <2>1, ReleaseServes, NoEndIsAnEnd DEF Requests
    <2>4. Served(reg, Release(v, s, NoEnd)) BY <2>1, <2>3, QuietThen
    <2>5. reg' = v => Settles(reg, reg') BY <2>1 DEF SameSends, Settles, Untold
    <2>. QED BY <2>2, <2>4, <2>5, ServedSettles DEF LineMoves
  <1>. QED BY <1>2, <1>3, <1>4, <1>5, SendArrivesMoves, SendResumesSettles
           DEF SendStep, LineMoves

\* Clicks and the turns that never wait.
LEMMA TakersSettle ==
  ASSUME TurnInv,
         \/ \E c \in Clicks : ClickStep(c)
         \/ \E w \in Wakes : WakeArrives(w)
  PROVE  Settles(reg, reg')
  <1>. DEFINE g == Prune(reg)
  <1>1. Sound(reg) /\ Sound(g) /\ Serves(reg, g) /\ g \in RegistryType
    BY PruneStill, PruneServes DEF TurnInv, Still, Sound
  <1>. HIDE DEF g
  <1>2. ASSUME NEW H \in SUBSET Clicks
        PROVE  /\ Serves(reg, [g EXCEPT !.clickHolds = H])
               /\ Sound([g EXCEPT !.clickHolds = H])
    <2>1. Sound([g EXCEPT !.clickHolds = H])
      BY <1>1, ClickHoldsStill DEF Still
    <2>2. Serves(g, [g EXCEPT !.clickHolds = H])
      BY <1>1, MarkServes DEF RegistryType
    <2>. QED BY <1>1, <2>1, <2>2, ServesTransitive
  <1>3. ASSUME NEW k, Sound(k), Serves(reg, k), NEW r \in Requests, TakeOrRefuse(k, r)
        PROVE  Settles(reg, reg')
    <2>1. Serves(k, reg') BY <1>3, TakeSettles
    <2>2. Serves(reg, reg') BY <1>1, <1>3, <2>1, ServesTransitive
    <2>. QED BY <2>2, ServedSettles
  <1>4. ASSUME NEW c \in Clicks, ClickStep(c) PROVE Settles(reg, reg')
    <2>. DEFINE more == g.clickHolds \cup {c}
                fewer == g.clickHolds \ {c}
    <2>1. /\ c \in Requests
          /\ more \in SUBSET Clicks /\ fewer \in SUBSET Clicks
      BY <1>1 DEF Requests, RegistryType
    <2>2. \/ reg' = [g EXCEPT !.clickHolds = more]
          \/ TakeOrRefuse(g, c)
          \/ TakeOrRefuse([g EXCEPT !.clickHolds = fewer], c)
          \/ reg' = reg
      BY <1>4 DEF ClickStep, ClickArrives, ClickWaitEnds, ClickReadsCard,
                  ClickRecordsAnswer, g
    <2>. HIDE DEF more, fewer
    <2>3. Serves(reg, [g EXCEPT !.clickHolds = more]) BY <1>2, <2>1
    <2>4. TakeOrRefuse([g EXCEPT !.clickHolds = fewer], c) => Settles(reg, reg')
      BY <1>2, <1>3, <2>1
    <2>5. TakeOrRefuse(g, c) => Settles(reg, reg') BY <1>1, <1>3, <2>1
    <2>6. reg' = reg => Settles(reg, reg') BY DEF Settles, Untold
    <2>. QED BY <2>2, <2>3, <2>4, <2>5, <2>6, ServedSettles
  <1>5. ASSUME NEW w \in Wakes, WakeArrives(w) PROVE Settles(reg, reg')
    <2>1. w \in Requests /\ (reg' = reg \/ TakeOrRefuse(g, w))
      BY <1>5 DEF WakeArrives, Requests, g
    <2>2. reg' = reg => Settles(reg, reg') BY DEF Settles, Untold
    <2>. QED BY <1>1, <1>3, <2>1, <2>2
  <1>. QED BY <1>4, <1>5

\* The interrupt route, the drains and the timers.
LEMMA StopSettles ==
  ASSUME TurnInv,
         \/ \E m \in Msgs \cup {None}, all \in BOOLEAN : Stop(m, all)
         \/ Shutdown \/ RestoreDrains \/ TimeStep
  PROVE  Settles(reg, reg')
  <1>1. Sound(reg) /\ reg \in RegistryType BY DEF TurnInv, Sound
  <1>2. ASSUME NEW m \in Msgs \cup {None}, NEW all \in BOOLEAN, Stop(m, all)
        PROVE  Settles(reg, reg')
    <2>. DEFINE k == IF all THEN KeepLine(reg) ELSE reg
                g == Prune(k)
    <2>1. Sound(k) BY <1>1, KeepLineStill DEF Still
    <2>2. Served(reg, k) BY <1>1, KeepLineKeeps, QuietOnes, ServesServed
    <2>3. \/ reg' = AbortStream(g) \/ reg' = StopTurn(g) \/ reg' = ClearTurn(g, m)
      BY <1>2 DEF Stop
    <2>. HIDE DEF k
    <2>4. Sound(g) /\ Serves(k, g) BY <2>1, PruneStill, PruneServes DEF Still
    <2>. HIDE DEF g
    <2>5. Serves(g, reg') BY <2>3, <2>4, AbortServes, MoreQuietOnes, ClearServes
    <2>6. Served(reg, g) BY <1>1, <2>2, <2>4, ServesThen
    <2>7. Served(reg, reg') BY <1>1, <2>5, <2>6, ServesThen
    <2>. QED BY <2>7, ServedSettles
  <1>3. CASE Shutdown \/ RestoreDrains
    <2>1. Served(reg, reg') BY <1>1, <1>3, KeepLineKeeps DEF Shutdown, RestoreDrains
    <2>. QED BY <2>1, ServedSettles
  <1>4. CASE BackstopFires
    <2>1. Served(reg, reg') BY <1>1, <1>4, BackstopTickServes DEF BackstopFires
    <2>. QED BY <2>1, ServedSettles
  <1>5. CASE PrunedElsewhere
    <2>1. Serves(reg, reg') BY <1>1, <1>5, PruneServes DEF PrunedElsewhere
    <2>. QED BY <2>1, ServedSettles
  <1>6. CASE \/ \E clock \in Clocks : BoundPasses(clock)
             \/ \E r \in Requests : HandoverWaitPasses(r)
    <2>1. reg'.line = reg.line /\ reg'.outcome = reg.outcome /\ reg'.kept = reg.kept
      BY <1>1, <1>6 DEF BoundPasses, HandoverWaitPasses, RegistryType
    <2>. QED BY <2>1 DEF Settles, Untold
  <1>. QED BY <1>2, <1>3, <1>4, <1>5, <1>6 DEF TimeStep

\* A delete that begins lets go a handover nobody took, and stops what runs;
\* one that is refused lets the line go on; one that is swept tells the line.
LEMMA DeleteLineMoves ==
  ASSUME TurnInv, DeleteStep
  PROVE  LineMoves
  <1>1. Sound(reg) /\ reg \in RegistryType BY DEF TurnInv, Sound
  <1>2. CASE DeleteBegins
    <2>. DEFINE g == BeginDelete(reg)
                d == [reg EXCEPT !.deleting = TRUE]
                u == [d EXCEPT !.unclaimed = @ \ {reg.lock}]
    <2>1. Sound(g) BY <1>1, BeginDeleteMoves
    <2>2. g = d \/ (g = Release(u, reg.lock, NoEnd) /\ reg.lock \in reg.unclaimed)
      BY DEF BeginDelete
    <2>3. \/ reg' = g \/ reg' = StopWhatRuns(g) BY <1>2 DEF DeleteBegins
    <2>. HIDE DEF g
    <2>4. SameSends(reg, d) /\ SameSends(reg, u)
      BY <1>1 DEF RegistryType, SameSends
    <2>5. Sound(u)
      <3>1. /\ u \in RegistryType
            /\ u.line = reg.line /\ u.kept = reg.kept /\ u.outcome = reg.outcome
            /\ u.handed = reg.handed /\ u.unclaimed \subseteq reg.unclaimed
            /\ u.backstop = reg.backstop /\ u.hidden = reg.hidden
            /\ u.hold = reg.hold /\ u.lock = reg.lock
            /\ u.running = reg.running /\ u.dropped = reg.dropped
        BY <1>1 DEF RegistryType
      <3>. HIDE DEF u
      <3>. QED BY <1>1, <3>1, SameLine
    <2>. HIDE DEF d, u
    <2>6. Served(reg, g)
      <3>1. CASE g = d BY <2>4, <3>1 DEF SameSends, Served, Untold
      <3>2. CASE g = Release(u, reg.lock, NoEnd) /\ reg.lock \in reg.unclaimed
        <4>1. reg.lock \in Requests BY <1>1, <3>2 DEF RegistryType, Requests
        <4>2. Served(u, g) BY <2>5, <3>2, <4>1, ReleaseServes, NoEndIsAnEnd
        <4>. QED BY <2>4, <4>2, QuietThen
      <3>. QED BY <2>2, <3>1, <3>2
    <2>7. Serves(g, reg') BY <2>1, <2>3, QuietOnes, AbortServes
    <2>8. Served(reg, reg') BY <1>1, <2>6, <2>7, ServesThen
    <2>. QED BY <2>8, ServedSettles DEF LineMoves
  <1>3. CASE DeletePolls
    <2>1. reg' = reg \/ reg' = StopWhatRuns(reg) BY <1>3 DEF DeletePolls
    <2>2. Serves(reg, reg') BY <1>1, <2>1, QuietOnes, AbortServes
    <2>. QED BY <2>2, ServedSettles DEF LineMoves
  <1>4. CASE DeleteRefused
    <2>. DEFINE y == [reg EXCEPT !.deleting = FALSE]
    <2>1. y \in RegistryType BY <1>1 DEF RegistryType
    <2>2. y.line = reg.line /\ y.outcome = reg.outcome /\ y.kept = reg.kept
      BY <1>1 DEF RegistryType
    <2>3. reg' = HandOff(y) BY <1>4 DEF DeleteRefused, EndDelete
    <2>. HIDE DEF y
    <2>4. Served(reg, reg') BY <2>1, <2>2, <2>3, HandOffServed DEF Untold
    <2>. QED BY <2>4, ServedSettles DEF LineMoves
  <1>5. CASE DeleteSwept
    <2>. DEFINE told == [s \in Sends |-> IF s \in Waiting(reg) THEN "cancelled"
                                        ELSE reg.outcome[s]]
                c == CancelLine(reg)
                y == [c EXCEPT !.deleting = FALSE]
    <2>1. c \in RegistryType BY <1>1, CancelLineStill DEF Still, Sound
    <2>2. c.line = <<>> /\ c.kept = reg.kept /\ c.outcome = told
      <3>1. /\ EndHold(reg).kept = reg.kept /\ EndHold(reg).outcome = reg.outcome
            /\ EndHold(reg).line = reg.line /\ EndHold(reg) \in RegistryType
        BY <1>1 DEF EndHold, RegistryType
      <3>2. c.outcome = [s \in Sends |-> IF s \in Waiting(reg) THEN "cancelled"
                                         ELSE EndHold(reg).outcome[s]]
        BY <3>1 DEF CancelLine, RegistryType
      <3>3. c.line = <<>> /\ c.kept = reg.kept
        BY <3>1 DEF CancelLine, RegistryType
      <3>. QED BY <3>1, <3>2, <3>3
    <2>3. reg' = HandOff(y) BY <1>5 DEF DeleteSwept, EndDelete
    <2>. HIDE DEF c, told
    <2>4. y \in RegistryType /\ y.line = <<>> /\ y.kept = reg.kept /\ y.outcome = told
      BY <2>1, <2>2 DEF RegistryType
    <2>. HIDE DEF y
    <2>5. Serves(y, reg') BY <2>3, <2>4, HandOffServes
    <2>6. reg'.line = <<>> /\ reg'.kept = reg.kept /\ reg'.outcome = told
      BY <2>4, <2>5 DEF Serves, Untold, HandsOn, Hands
    <2>. QED BY <2>6 DEF LineMoves, Cancels, told
  <1>. QED BY <1>2, <1>3, <1>4, <1>5 DEF DeleteStep

\* Every step moves the line so.
LEMMA NextLineMoves ==
  ASSUME TurnInv, [Next]_vars
  PROVE  LineMoves
  <1>1. UNCHANGED vars => Settles(reg, reg') BY DEF vars, Settles, Untold
  <1>. QED BY <1>1, RequestSettles, SendMoves, TakersSettle, StopSettles,
              DeleteLineMoves DEF Next, LineMoves

-----------------------------------------------------------------------------
(* ... which is a step of SendLine.                                         *)

\* What a send is told, where it waits and where it does not.
LEMMA Fates ==
  ASSUME TurnInv
  PROVE  /\ \A s \in Waiting(reg) : Fate[s] = "waiting" /\ s \in Sends
         /\ \A s \in Sends \ Waiting(reg) :
              Fate[s] = IF reg.outcome[s] = "none" THEN "new" ELSE reg.outcome[s]
         /\ reg.line \in Seq(Sends) /\ IsInjective(reg.line)
  BY SoundTypes DEF Fate, TurnInv, Sound

\* A line l that includes the waiting sends is settled, and its fates f with it.
LEMMA SettledLine ==
  ASSUME TurnInv', NEW l \in Seq(Sends), IsInjective(l), NEW f, NEW o \in [Sends -> Outcomes],
         f = [s \in Sends |-> IF s \in ToSet(l) THEN "waiting"
                              ELSE IF o[s] = "none" THEN "new" ELSE o[s]],
         \/ reg'.line = l /\ reg'.outcome = o
         \/ /\ l # <<>> /\ reg'.line = Tail(l)
            /\ reg'.outcome = [o EXCEPT ![Head(l)] = HandedTo(reg', Head(l))]
  PROVE  Line!Settle(l, f)
  <1>1. CASE reg'.line = l /\ reg'.outcome = o
    <2>1. Fate' = f BY <1>1 DEF Fate, Waiting
    <2>. QED BY <1>1, <2>1 DEF Line!Settle
  <1>2. CASE /\ l # <<>> /\ reg'.line = Tail(l)
             /\ reg'.outcome = [o EXCEPT ![Head(l)] = HandedTo(reg', Head(l))]
    <2>. DEFINE head == Head(l)
                told == IF head \in reg'.kept THEN "keep" ELSE "run"
    <2>1. /\ head \in Sends /\ ToSet(l) = {head} \cup ToSet(Tail(l))
          /\ head \notin ToSet(Tail(l))
      BY <1>2, HeadTailProperties, MembersOfTail
    <2>2. Fate' = [s \in Sends |-> IF s \in ToSet(Tail(l)) THEN "waiting"
                                   ELSE IF reg'.outcome[s] = "none" THEN "new"
                                   ELSE reg'.outcome[s]]
      BY <1>2 DEF Fate, Waiting
    <2>3. reg'.outcome = [o EXCEPT ![head] = told] BY <1>2 DEF HandedTo
    <2>4. told \in {"keep", "run"} OBVIOUS
    <2>. HIDE DEF head, told
    <2>5. \A s \in Sends : Fate'[s] = [f EXCEPT ![head] = told][s]
      BY <2>1, <2>2, <2>3, <2>4
    <2>6. Fate' = [f EXCEPT ![head] = told] BY <2>2, <2>5
    <2>. QED BY <1>2, <2>6 DEF Line!Settle, head, told
  <1>. QED BY <1>1, <1>2

\* A chat starts as a line does.
LEMMA InitServes ==
  ASSUME Init
  PROVE  Line!Init
  <1>1. Waiting(reg) = {}
    BY Members, EmptySeq DEF Init, EmptyRegistry, Waiting
  <1>. QED BY <1>1 DEF Init, EmptyRegistry, Line!Init, Fate

\* Every step is one of the line's.
LEMMA LineMovesServe ==
  ASSUME TurnInv, TurnInv', LineMoves
  PROVE  [Line!Next]_<<reg.line, reg.kept, Fate>>
  <1>. DEFINE told == [s \in Sends |-> IF s \in ToSet(reg.line) THEN "waiting"
                                      ELSE IF reg.outcome[s] = "none" THEN "new"
                                      ELSE reg.outcome[s]]
  <1>1. /\ reg.line \in Seq(Sends) /\ IsInjective(reg.line)
        /\ reg.outcome \in [Sends -> Outcomes]
    BY Fates DEF TurnInv, Sound, RegistryType
  <1>2. Fate = told BY DEF Fate, Waiting
  <1>. HIDE DEF told
  <1>3. CASE Settles(reg, reg')
    <2>1. Line!Settle(reg.line, Fate)
      BY <1>1, <1>2, <1>3, SettledLine DEF Settles, Untold, Hands, told
    <2>2. CASE reg.line # <<>>
      <3>1. reg'.kept = reg.kept => Line!HandOver
        BY <2>1, <2>2 DEF Line!HandOver
      <3>2. reg'.kept = reg.kept \cup ToSet(reg.line) => Line!KeepAll
        BY <2>1, <2>2 DEF Line!KeepAll, Line!ToSet, ToSet
      <3>3. Line!HandOver \/ Line!KeepAll
        BY <1>3, <3>1, <3>2 DEF Settles, Waiting
      <3>4. Line!Next BY <3>3 DEF Line!Next
      <3>. QED BY <3>4
    <2>3. CASE reg.line = <<>>
      <3>1. Waiting(reg) = {} BY <1>1, <2>3, Members DEF Waiting
      <3>2. reg'.kept = reg.kept BY <1>3, <3>1 DEF Settles
      <3>3. reg'.line = reg.line /\ Fate' = Fate BY <2>1, <2>3 DEF Line!Settle
      <3>. QED BY <3>2, <3>3
    <2>. QED BY <2>2, <2>3
  <1>4. ASSUME NEW s \in Sends, pc[s] = "idle", Joined(reg, reg', s)
        PROVE  Line!Join(s)
    <2>. DEFINE a == Append(reg.line, s)
    <2>1. s \notin Waiting(reg) /\ reg.outcome[s] = "none" BY <1>4, IdleSend
    <2>2. Fate[s] = "new" BY <2>1, Fates
    <2>3. /\ a \in Seq(Sends) /\ IsInjective(a) /\ ToSet(a) = ToSet(reg.line) \cup {s}
      BY <1>1, <2>1, AppendProperties, MembersOfAppend DEF Waiting
    <2>4. WithLast(reg, s).line = a /\ WithLast(reg, s).outcome = reg.outcome
      BY DEF WithLast, TurnInv, Sound, RegistryType
    <2>. HIDE DEF a
    <2>5. [Fate EXCEPT ![s] = "waiting"]
            = [t \in Sends |-> IF t \in ToSet(a) THEN "waiting"
                               ELSE IF reg.outcome[t] = "none" THEN "new"
                               ELSE reg.outcome[t]]
      BY <1>2, <2>3 DEF told
    <2>6. \/ reg'.line = a /\ reg'.outcome = reg.outcome
          \/ /\ a # <<>> /\ reg'.line = Tail(a)
             /\ reg'.outcome = [reg.outcome EXCEPT ![Head(a)] = HandedTo(reg', Head(a))]
      BY <1>4, <2>4 DEF Joined, Untold, Hands
    <2>7. Line!Settle(a, [Fate EXCEPT ![s] = "waiting"])
      BY <1>1, <2>3, <2>5, <2>6, SettledLine
    <2>. QED BY <1>4, <2>2, <2>7 DEF Line!Join, Joined, a
  <1>5. CASE Cancels(reg, reg')
    <2>1. reg'.line = <<>> /\ reg'.kept = reg.kept BY <1>5 DEF Cancels
    <2>2. ToSet(reg'.line) = {} BY <2>1, Members, EmptySeq
    <2>3. Fate' = [s \in Sends |-> IF s \in ToSet(reg.line) THEN "cancelled" ELSE Fate[s]]
      <3>1. Fate' = [s \in Sends |-> IF reg'.outcome[s] = "none" THEN "new"
                                     ELSE reg'.outcome[s]]
        BY <2>2 DEF Fate, Waiting
      <3>2. \A s \in Sends : reg'.outcome[s] = IF s \in ToSet(reg.line) THEN "cancelled"
                                               ELSE reg.outcome[s]
        BY <1>5 DEF Cancels, Waiting
      <3>. QED BY <1>2, <3>1, <3>2 DEF told
    <2>4. CASE reg.line # <<>>
      <3>1. Line!CancelAll BY <2>1, <2>3, <2>4 DEF Line!CancelAll, Line!ToSet, ToSet
      <3>2. Line!Next BY <3>1 DEF Line!Next
      <3>. QED BY <3>2
    <2>5. CASE reg.line = <<>>
      <3>1. ToSet(reg.line) = {} BY <1>1, <2>5, Members
      <3>2. Fate' = Fate BY <1>2, <2>3, <3>1 DEF told
      <3>. QED BY <2>1, <2>5, <3>2
    <2>. QED BY <2>4, <2>5
  <1>. QED BY <1>3, <1>4, <1>5 DEF LineMoves, Line!Next

\* The locks, the card holds, the streams, the clocks and the deletes of a chat
\* implement its line: a send joins at the end once, only the head is handed
\* the chat, what a send is told is final, and a kept send is never run.
THEOREM LineImplements == Spec => LineServes
  <1>1. Init => Line!Init BY InitServes
  <1>2. TurnInv /\ TurnInv' /\ [Next]_vars => [Line!Next]_<<reg.line, reg.kept, Fate>>
    BY NextLineMoves, LineMovesServe
  <1>3. [Line!Next]_<<reg.line, reg.kept, Fate>> => [Line!Next]_Line!lineVars
    BY DEF Line!lineVars
  <1>. QED BY <1>1, <1>2, <1>3, TurnInvariant, PTL DEF Spec, LineServes, Line!Spec

-----------------------------------------------------------------------------
(* Who is still counted as running has yet to let go.                       *)

\* Places from which a request's handler will still let go of the chat.
LetsGo == Writing \cup {"sweeping", "leaving"}

\* OnlyLostClaimsLeak, of a request at q.
Owed(g, q, r) ==
  r \in g.running =>
    \/ q \in LetsGo
    \/ r \in g.handed
    \/ r \in g.dropped /\ r \in Sends /\ g.outcome[r] = "run" /\ q = "done"

\* A send told to run is told nothing else later.
LEMMA ToldStands ==
  ASSUME TurnInv, LineMoves, NEW s \in Sends, reg.outcome[s] = "run"
  PROVE  reg'.outcome[s] = "run"
  <1>1. /\ reg.line \in Seq(Sends) /\ reg.outcome \in [Sends -> Outcomes]
        /\ reg \in RegistryType /\ \A t \in Waiting(reg) : reg.outcome[t] = "none"
    BY DEF TurnInv, Sound, RegistryType
  <1>2. s \notin ToSet(reg.line) BY <1>1 DEF Waiting
  <1>3. CASE Settles(reg, reg')
    <2>1. CASE Untold(reg, reg') BY <2>1 DEF Untold
    <2>2. CASE Hands(reg, reg')
      <3>1. reg.line # <<>> /\ Head(reg.line) \in ToSet(reg.line)
        BY <1>1, <2>2, MembersOfTail DEF Hands
      <3>. QED BY <1>1, <1>2, <2>2, <3>1 DEF Hands
    <2>. QED BY <1>3, <2>1, <2>2 DEF Settles
  <1>4. ASSUME NEW t \in Sends, pc[t] = "idle", Joined(reg, reg', t)
        PROVE  reg'.outcome[s] = "run"
    <2>. DEFINE w == WithLast(reg, t)
                l == Append(reg.line, t)
    <2>1. reg.outcome[t] = "none" BY <1>4, IdleSend
    <2>2. l \in Seq(Sends) /\ ToSet(l) = ToSet(reg.line) \cup {t} /\ l # <<>>
      BY <1>1, AppendProperties, MembersOfAppend
    <2>3. w.line = l /\ w.outcome = reg.outcome BY <1>1 DEF WithLast, RegistryType
    <2>4. Head(l) \in ToSet(l) BY <2>2, MembersOfTail
    <2>. HIDE DEF l, w
    <2>5. CASE Untold(w, reg') BY <2>3, <2>5 DEF Untold
    <2>6. CASE Hands(w, reg')
      <3>1. s # Head(l) BY <1>2, <2>1, <2>2, <2>4
      <3>. QED BY <1>1, <2>3, <2>6, <3>1 DEF Hands
    <2>. QED BY <1>4, <2>5, <2>6 DEF Joined, w
  <1>5. CASE Cancels(reg, reg') BY <1>2, <1>5 DEF Cancels, Waiting
  <1>. QED BY <1>3, <1>4, <1>5 DEF LineMoves

\* It is enough to place the requests of R, and those that go elsewhere.
LEMMA OwedStep ==
  ASSUME TurnInv, OnlyLostClaimsLeak, [Next]_vars, NEW R, Tracks(reg, reg', R),
         \A r \in Requests \ R : pc'[r] = pc[r] \/ pc'[r] \in LetsGo,
         \A r \in Requests \cap R : Owed(reg', pc'[r], r)
  PROVE  OnlyLostClaimsLeak'
  <1>1. TurnInv' /\ LineMoves BY NextTurnInv, NextLineMoves
  <1>2. reg'.running \subseteq Requests BY <1>1 DEF TurnInv, Sound, RegistryType
  <1>3. ASSUME NEW r \in Requests, r \notin R PROVE Owed(reg', pc'[r], r)
    <2>1. r \in reg.running => Owed(reg, pc[r], r)
      BY DEF OnlyLostClaimsLeak, Owed, LetsGo
    <2>2. r \in Sends /\ reg.outcome[r] = "run" => reg'.outcome[r] = "run"
      BY <1>1, ToldStands
    <2>. QED BY <1>3, <2>1, <2>2 DEF Tracks, Owed
  <1>4. \A r \in Requests : Owed(reg', pc'[r], r) BY <1>3
  <1>. QED BY <1>2, <1>4 DEF OnlyLostClaimsLeak, Owed, LetsGo

\* A step that moves no request.
LEMMA StillOwed ==
  ASSUME TurnInv, OnlyLostClaimsLeak, [Next]_vars, Tracks(reg, reg', {}), pc' = pc
  PROVE  OnlyLostClaimsLeak'
  <1>. DEFINE nobody == {}
  <1>1. Tracks(reg, reg', nobody) /\ nobody = {} OBVIOUS
  <1>. HIDE DEF nobody
  <1>. QED BY <1>1, OwedStep

\* A step of one request to q.
LEMMA OwnOwed ==
  ASSUME TurnInv, OnlyLostClaimsLeak, [Next]_vars, NEW r \in Requests, NEW q,
         Goto(r, q), Tracks(reg, reg', {r}), Owed(reg', q, r)
  PROVE  OnlyLostClaimsLeak'
  <1>. DEFINE R == {r}
  <1>1. pc \in [Requests -> Places] /\ pc' = [pc EXCEPT ![r] = q]
    BY DEF TurnInv, TypeOK, Goto
  <1>2. Tracks(reg, reg', R) OBVIOUS
  <1>3. \A t \in Requests \ R : pc'[t] = pc[t] BY <1>1
  <1>4. \A t \in Requests \cap R : Owed(reg', pc'[t], t) BY <1>1
  <1>. HIDE DEF R
  <1>. QED BY <1>2, <1>3, <1>4, OwedStep

\* Who runs only because it was handed the chat still does after a step that
\* is not its own.
LEMMA StillHanded ==
  ASSUME NEW g, NEW h, Tracks(g, h, {}), NEW r, r \in g.running => r \in g.handed
  PROVE  /\ r \in h.running => r \in h.handed
         /\ Tracks(g, h, {r})
  BY DEF Tracks

\* A request that has yet to take the chat runs only if it was handed it.
LEMMA YetToTake ==
  ASSUME TurnInv, OnlyLostClaimsLeak, NEW r \in Requests,
         pc[r] \in {"idle", "clickWait", "waiting", "overflow"}
  PROVE  r \in reg.running => r \in reg.handed
  BY DEF OnlyLostClaimsLeak, Writing

\* The lock check and the registration.
LEMMA TakeOwed ==
  ASSUME TurnInv, OnlyLostClaimsLeak, [Next]_vars, NEW r \in Requests,
         NEW g, Sound(g), Tracks(reg, g, {r}), r \in g.running => r \in g.handed,
         TakeOrRefuse(g, r)
  PROVE  OnlyLostClaimsLeak'
  <1>1. CASE Refuses(g, r)
    <2>1. reg' = g /\ Goto(r, "done") BY <1>1 DEF TakeOrRefuse
    <2>2. Owed(reg', "done", r) BY <2>1 DEF Owed
    <2>. QED BY <2>1, <2>2, OwnOwed
  <1>2. CASE ~Refuses(g, r)
    <2>1. reg' = Register(g, r) /\ Goto(r, "owner") BY <1>2 DEF TakeOrRefuse
    <2>2. Tracks(g, reg', {r}) BY <2>1, RegisterTracks
    <2>3. Tracks(reg, reg', {r}) BY <2>2 DEF Tracks
    <2>4. Owed(reg', "owner", r) BY DEF Owed, LetsGo, Writing
    <2>. QED BY <2>1, <2>3, <2>4, OwnOwed
  <1>. QED BY <1>1, <1>2

\* The steps of a request of any kind: each but the release leaves it where it
\* will still let go.
LEMMA RequestOwed ==
  ASSUME TurnInv, OnlyLostClaimsLeak, [Next]_vars, NEW r \in Requests, RequestStep(r)
  PROVE  OnlyLostClaimsLeak'
  <1>1. Sound(reg) /\ reg \in RegistryType /\ MsgOf[r] \in Msgs
    BY RequestsAssumption DEF TurnInv, Sound
  <1>2. Tracks(reg, reg, {}) BY <1>1, QuietOnesTrack
  <1>3. CASE RaisesCard(r) BY <1>2, <1>3, StillOwed DEF RaisesCard
  <1>4. CASE Releases(r)
    <2>1. EndOf(r) \in Ends BY RequestsAssumption DEF EndOf, Ends
    <2>2. Tracks(reg, reg', {}) /\ (r \in reg'.running => r \in reg'.handed)
      BY <1>1, <1>4, <2>1, ReleaseTracks DEF Releases
    <2>3. Tracks(reg, reg', {r}) /\ Owed(reg', "done", r)
      BY <2>2 DEF Tracks, Owed
    <2>4. Goto(r, "done") BY <1>4 DEF Releases
    <2>. QED BY <2>3, <2>4, OwnOwed
  <1>5. CASE \/ TurnBegins(r) \/ Checkpoint(r) \/ RunStarts(r)
             \/ RunEnds(r) \/ RunsAgain(r) \/ Leaves(r)
    <2>1. \/ reg' = reg \/ reg' = Reveal(reg, r)
          \/ reg' = OpenStream(reg, MsgOf[r]) \/ reg' = CloseStream(reg, MsgOf[r])
      BY <1>5 DEF TurnBegins, Checkpoint, RunStarts, RunEnds, RunsAgain, Leaves
    <2>2. Tracks(reg, Reveal(reg, r), {})
      BY <1>1, QuietTracks DEF Reveal, RegistryType
    <2>3. Tracks(reg, reg', {}) BY <1>1, <1>2, <2>1, <2>2, QuietOnesTrack
    <2>4. \E q \in LetsGo : Goto(r, q)
      BY <1>5 DEF TurnBegins, Checkpoint, RunStarts, RunEnds, RunsAgain, Leaves,
                  LetsGo, Writing
    <2>5. PICK q \in LetsGo : Goto(r, q) BY <2>4
    <2>6. Tracks(reg, reg', {r}) /\ Owed(reg', q, r) BY <2>3 DEF Tracks, Owed
    <2>. QED BY <2>5, <2>6, OwnOwed
  <1>. QED BY <1>3, <1>4, <1>5 DEF RequestStep

\* A send that arrives, takes the chat, joins the line, leaves it or is refused.
LEMMA SendArrivesOwed ==
  ASSUME TurnInv, OnlyLostClaimsLeak, [Next]_vars, NEW s \in Sends,
         SendArrives(s) \/ SendThrowsInLine(s)
  PROVE  OnlyLostClaimsLeak'
  <1>. DEFINE g == Prune(reg)
              overflow == Cardinality(Runnable(g)) >= Cap
              e == Enqueue(g, s, overflow)
              f == Enqueue(g, s, FALSE)
  <1>1. Sound(reg) /\ reg \in RegistryType /\ s \in Requests /\ pc[s] = "idle"
    BY DEF TurnInv, Sound, Requests, SendArrives, SendThrowsInLine
  <1>2. s \in reg.running => s \in reg.handed BY <1>1, YetToTake
  <1>3. Sound(g) /\ Tracks(reg, g, {}) BY <1>1, PruneStill, PruneTracks DEF Still
  <1>4. overflow \in BOOLEAN OBVIOUS
  <1>5. Left(reg, s) /\ reg.outcome[s] = "none" BY <1>1, IdleSend
  <1>6. s \notin Waiting(g) /\ g.outcome[s] = "none"
    BY <1>1, <1>5, PruneStill, LeftStays DEF Still, Left
  <1>7. \/ reg' = reg /\ Goto(s, "done")
        \/ TakeOrRefuse(g, s)
        \/ reg' = e /\ (Goto(s, "overflow") \/ Goto(s, "waiting"))
        \/ reg' = g /\ Goto(s, "done")
        \/ reg' = Abandon(f, s) /\ Goto(s, "done")
    BY DEF SendArrives, SendThrowsInLine
  <1>. HIDE DEF overflow, g
  <1>8. Tracks(g, e, {}) BY <1>3, <1>4, EnqueueTracks
  <1>9. Sound(f) /\ Tracks(g, f, {}) BY <1>3, <1>6, EnqueueTracks, EnqueueMoves
  <1>. HIDE DEF e, f
  <1>10. Tracks(reg, e, {}) /\ Tracks(reg, f, {}) BY <1>3, <1>8, <1>9, StillTracks
  <1>11. \A h \in {reg, g, e} : /\ s \in h.running => s \in h.handed
                                /\ Tracks(reg, h, {s})
    BY <1>1, <1>2, <1>3, <1>10, QuietOnesTrack, StillHanded
  <1>12. /\ s \in Abandon(f, s).running => s \in Abandon(f, s).handed
         /\ Tracks(reg, Abandon(f, s), {s})
    <2>1. s \in f.running => s \in f.handed BY <1>2, <1>10, StillHanded
    <2>2. /\ Tracks(f, Abandon(f, s), {s})
          /\ s \in Abandon(f, s).running => s \in Abandon(f, s).handed
      BY <1>9, <2>1, AbandonTracks
    <2>. QED BY <1>10, <2>2 DEF Tracks
  <1>13. CASE TakeOrRefuse(g, s) BY <1>1, <1>3, <1>11, <1>13, TakeOwed
  <1>14. ASSUME NEW h, NEW q, reg' = h, Goto(s, q), Tracks(reg, h, {s}),
                s \in h.running => s \in h.handed
         PROVE  OnlyLostClaimsLeak'
    <2>1. Owed(reg', q, s) BY <1>14 DEF Owed
    <2>. QED BY <1>1, <1>14, <2>1, OwnOwed
  <1>. QED BY <1>7, <1>11, <1>12, <1>13, <1>14

\* A send that gives up what it was told.
LEMMA GivesUpOwed ==
  ASSUME TurnInv, OnlyLostClaimsLeak, NEW s \in Sends, pc[s] \in InLine
  PROVE  LET a == Abandon(reg, s) IN
         Sound(a) /\ Tracks(reg, a, {s}) /\ (s \in a.running => s \in a.handed)
  <1>1. Sound(reg) /\ s \in Requests BY DEF TurnInv, Requests
  <1>2. s \in reg.running => s \in reg.handed BY <1>1, YetToTake DEF InLine
  <1>. QED BY <1>1, <1>2, AbandonTracks, AbandonMoves

\* A send that resumes.  What it claims may go to the check's prune: it is then
\* dropped, and leaks.
LEMMA SendResumesOwed ==
  ASSUME TurnInv, OnlyLostClaimsLeak, [Next]_vars, NEW s \in Sends,
         SendResumes(s) \/ OverflowResumes(s)
  PROVE  OnlyLostClaimsLeak'
  <1>. DEFINE a == Abandon(reg, s)
              c == Claim(reg, s)
              p == Prune(c)
              g == Prune(a)
  <1>1. /\ Sound(reg) /\ reg \in RegistryType /\ s \in Requests /\ pc[s] \in InLine
        /\ reg.outcome[s] # "none"
    BY DEF TurnInv, Sound, Requests, SendResumes, OverflowResumes, InLine
  <1>2. Sound(a) /\ Tracks(reg, a, {s}) /\ (s \in a.running => s \in a.handed)
    BY <1>1, GivesUpOwed
  <1>3. Sound(c) /\ Still(reg, c) /\ Tracks(reg, c, {s}) /\ c.lock = reg.lock
    BY <1>1, ClaimStill, ClaimTracks DEF Still
  <1>4. s \in reg.running => s \in reg.handed BY <1>1, YetToTake DEF InLine
  <1>5. \/ reg.outcome[s] = "cancelled" /\ reg' = reg /\ Goto(s, "done")
        \/ reg' = c /\ Goto(s, "keeping")
        \/ reg' = a /\ Goto(s, "done")
        \/ /\ reg.outcome[s] = "run" /\ reg.lock = s
           /\ reg' = p /\ Goto(s, IF p.lock = s THEN "owner" ELSE "done")
        \/ TakeOrRefuse(g, s)
    BY <1>1, ToldSend DEF SendResumes, OverflowResumes, CanClaim
  <1>. HIDE DEF a, c
  <1>6. Still(c, p) /\ Tracks(c, p, {}) BY <1>3, PruneStill, PruneTracks
  <1>7. Sound(g) /\ Tracks(a, g, {}) BY <1>2, PruneStill, PruneTracks DEF Still
  <1>. HIDE DEF p, g
  <1>8. CASE reg.outcome[s] = "cancelled" /\ reg' = reg /\ Goto(s, "done")
    <2>1. s \notin reg.running BY <1>1, <1>4, <1>8 DEF Sound
    <2>2. Tracks(reg, reg', {s}) /\ Owed(reg', "done", s)
      BY <1>8, <2>1 DEF Tracks, Owed
    <2>. QED BY <1>1, <1>8, <2>2, OwnOwed
  <1>9. CASE reg' = c /\ Goto(s, "keeping")
    <2>1. Owed(reg', "keeping", s) BY DEF Owed, LetsGo, Writing
    <2>. QED BY <1>1, <1>3, <1>9, <2>1, OwnOwed
  <1>10. CASE reg' = a /\ Goto(s, "done")
    <2>1. Owed(reg', "done", s) BY <1>2, <1>10 DEF Owed
    <2>. QED BY <1>1, <1>2, <1>10, <2>1, OwnOwed
  <1>11. CASE /\ reg.outcome[s] = "run" /\ reg.lock = s
              /\ reg' = p /\ Goto(s, IF p.lock = s THEN "owner" ELSE "done")
    <2>1. Tracks(reg, reg', {s}) BY <1>3, <1>6, <1>11 DEF Tracks
    <2>2. reg'.outcome[s] = "run" BY <1>11, NextLineMoves, ToldStands
    <2>3. Accounted(p, s) BY <1>1, <1>3, <1>6, <1>11 DEF Still, Moves, Accounted
    <2>4. Owed(reg', IF p.lock = s THEN "owner" ELSE "done", s)
      BY <1>11, <2>2, <2>3 DEF Owed, LetsGo, Writing, Accounted
    <2>. QED BY <1>1, <1>11, <2>1, <2>4, OwnOwed
  <1>12. CASE TakeOrRefuse(g, s)
    <2>1. Tracks(reg, g, {s}) /\ (s \in g.running => s \in g.handed)
      BY <1>2, <1>7 DEF Tracks
    <2>. QED BY <1>1, <1>7, <1>12, <2>1, TakeOwed
  <1>. QED BY <1>5, <1>8, <1>9, <1>10, <1>11, <1>12

\* The other steps of a send.
LEMMA SendOwed ==
  ASSUME TurnInv, OnlyLostClaimsLeak, [Next]_vars, NEW s \in Sends, SendStep(s)
  PROVE  OnlyLostClaimsLeak'
  <1>. DEFINE v == Reveal(reg, s)
  <1>1. Sound(reg) /\ reg \in RegistryType /\ s \in Requests
    BY DEF TurnInv, Sound, Requests
  <1>2. Tracks(reg, reg, {}) /\ Tracks(reg, v, {})
    BY <1>1, QuietTracks DEF Reveal, RegistryType
  <1>3. Sound(v) BY <1>1, RevealStill DEF Still
  <1>4. CASE SendNow(s)
    <2>1. Tracks(reg, reg', {}) BY <1>1, <1>4, LineTracks DEF SendNow
    <2>. QED BY <1>4, <2>1, StillOwed DEF SendNow
  <1>. HIDE DEF v
  <1>5. CASE AgentGone(s) \/ KeeperMoves(s)
    <2>1. \E q \in LetsGo : Goto(s, q)
      BY <1>5 DEF AgentGone, KeeperMoves, LetsGo, Writing
    <2>2. PICK q \in LetsGo : Goto(s, q) BY <2>1
    <2>3. reg' = reg \/ reg' = v BY <1>5 DEF AgentGone, KeeperMoves, v
    <2>4. Tracks(reg, reg', {s}) /\ Owed(reg', q, s)
      BY <1>2, <2>3 DEF Tracks, Owed
    <2>. QED BY <1>1, <2>2, <2>4, OwnOwed
  <1>6. CASE KeeperReleases(s)
    <2>1. reg' = Release(v, s, NoEnd) BY <1>6 DEF KeeperReleases, v
    <2>2. Tracks(v, reg', {}) /\ (s \in reg'.running => s \in reg'.handed)
      BY <1>1, <1>3, <2>1, ReleaseTracks, NoEndIsAnEnd
    <2>3. Tracks(reg, reg', {s}) BY <1>2, <2>2 DEF Tracks
    <2>4. \E q : Goto(s, q) BY <1>6 DEF KeeperReleases
    <2>5. PICK q : Goto(s, q) BY <2>4
    <2>6. Owed(reg', q, s) BY <2>2 DEF Owed
    <2>. QED BY <1>1, <2>3, <2>5, <2>6, OwnOwed
  <1>. QED BY <1>4, <1>5, <1>6, SendArrivesOwed, SendResumesOwed DEF SendStep

\* Clicks and the turns that never wait.
LEMMA TakersOwed ==
  ASSUME TurnInv, OnlyLostClaimsLeak, [Next]_vars,
         \/ \E c \in Clicks : ClickStep(c)
         \/ \E w \in Wakes : WakeArrives(w)
  PROVE  OnlyLostClaimsLeak'
  <1>. DEFINE g == Prune(reg)
  <1>1. Sound(reg) /\ reg \in RegistryType BY DEF TurnInv, Sound
  <1>2. Sound(g) /\ g \in RegistryType /\ Tracks(reg, g, {})
    BY <1>1, PruneStill, PruneTracks DEF Still, Sound
  <1>. HIDE DEF g
  <1>3. ASSUME NEW H \in SUBSET Clicks
        PROVE  /\ Tracks(reg, [g EXCEPT !.clickHolds = H], {})
               /\ Sound([g EXCEPT !.clickHolds = H])
    <2>1. Sound([g EXCEPT !.clickHolds = H])
      BY <1>2, <1>3, ClickHoldsStill DEF Still
    <2>2. Tracks(g, [g EXCEPT !.clickHolds = H], {})
      BY <1>2, QuietTracks DEF RegistryType
    <2>. QED BY <1>2, <2>1, <2>2, StillTracks
  <1>4. ASSUME NEW k, Sound(k), Tracks(reg, k, {}), NEW r \in Requests,
               pc[r] \in {"idle", "clickWait"}, TakeOrRefuse(k, r)
        PROVE  OnlyLostClaimsLeak'
    <2>1. r \in reg.running => r \in reg.handed BY <1>4, YetToTake
    <2>2. Tracks(reg, k, {r}) /\ (r \in k.running => r \in k.handed)
      BY <1>4, <2>1, StillHanded
    <2>. QED BY <1>4, <2>2, TakeOwed
  <1>5. ASSUME NEW r \in Requests, pc[r] = "idle", reg' = reg, Goto(r, "done")
        PROVE  OnlyLostClaimsLeak'
    <2>1. r \in reg.running => r \in reg.handed BY <1>5, YetToTake
    <2>2. Tracks(reg, reg', {r}) /\ Owed(reg', "done", r)
      BY <1>5, <2>1 DEF Tracks, Owed
    <2>. QED BY <1>5, <2>2, OwnOwed
  <1>6. ASSUME NEW c \in Clicks, ClickArrives(c) \/ ClickWaitEnds(c)
        PROVE  OnlyLostClaimsLeak'
    <2>. DEFINE more == g.clickHolds \cup {c}
                fewer == g.clickHolds \ {c}
                k == [g EXCEPT !.clickHolds = more]
                l == [g EXCEPT !.clickHolds = fewer]
    <2>1. /\ c \in Requests /\ pc[c] \in {"idle", "clickWait"}
          /\ more \in SUBSET Clicks /\ fewer \in SUBSET Clicks
      BY <1>2, <1>6 DEF Requests, RegistryType, ClickArrives, ClickWaitEnds
    <2>2. \/ reg' = k /\ Goto(c, "clickWait")
          \/ TakeOrRefuse(g, c) \/ TakeOrRefuse(l, c)
      BY <1>6 DEF ClickArrives, ClickWaitEnds, g
    <2>. HIDE DEF more, fewer
    <2>3. /\ Tracks(reg, k, {}) /\ Sound(k)
          /\ Tracks(reg, l, {}) /\ Sound(l)
      BY <1>3, <2>1
    <2>. HIDE DEF k, l
    <2>4. CASE reg' = k /\ Goto(c, "clickWait")
      <3>1. c \in reg.running => c \in reg.handed BY <2>1, YetToTake
      <3>2. Tracks(reg, reg', {c}) /\ Owed(reg', "clickWait", c)
        BY <2>3, <2>4, <3>1, StillHanded DEF Owed
      <3>. QED BY <2>1, <2>4, <3>2, OwnOwed
    <2>. QED BY <1>2, <1>4, <2>1, <2>2, <2>3, <2>4
  <1>7. ASSUME NEW c \in Clicks, ClickReadsCard(c) \/ ClickRecordsAnswer(c)
        PROVE  OnlyLostClaimsLeak'
    <2>1. c \in Requests /\ reg' = reg /\ \E q \in LetsGo : Goto(c, q)
      BY <1>7 DEF Requests, ClickReadsCard, ClickRecordsAnswer, LetsGo, Writing
    <2>2. PICK q \in LetsGo : Goto(c, q) BY <2>1
    <2>3. Tracks(reg, reg', {c}) /\ Owed(reg', q, c) BY <2>1 DEF Tracks, Owed
    <2>. QED BY <2>1, <2>2, <2>3, OwnOwed
  <1>8. ASSUME NEW w \in Wakes, WakeArrives(w) PROVE OnlyLostClaimsLeak'
    <2>1. /\ w \in Requests /\ pc[w] = "idle"
          /\ (reg' = reg /\ Goto(w, "done")) \/ TakeOrRefuse(g, w)
      BY <1>8 DEF WakeArrives, Requests, g
    <2>. QED BY <1>2, <1>4, <1>5, <2>1
  <1>. QED BY <1>6, <1>7, <1>8 DEF ClickStep

\* The interrupt route, the drains, the timers and the delete.
LEMMA OthersOwed ==
  ASSUME TurnInv, OnlyLostClaimsLeak, [Next]_vars,
         \/ \E m \in Msgs \cup {None}, all \in BOOLEAN : Stop(m, all)
         \/ Shutdown \/ RestoreDrains \/ DeleteStep \/ TimeStep
  PROVE  OnlyLostClaimsLeak'
  <1>1. Sound(reg) /\ reg \in RegistryType BY DEF TurnInv, Sound
  <1>2. Tracks(reg, reg, {}) BY <1>1, QuietOnesTrack
  <1>3. pc' = pc
    BY DEF Stop, Shutdown, RestoreDrains, DeleteStep, DeleteBegins, DeletePolls,
           DeleteRefused, DeleteSwept, TimeStep, BackstopFires, PrunedElsewhere,
           BoundPasses, HandoverWaitPasses
  <1>4. ASSUME NEW m \in Msgs \cup {None}, NEW all \in BOOLEAN, Stop(m, all)
        PROVE  Tracks(reg, reg', {})
    <2>. DEFINE k == IF all THEN KeepLine(reg) ELSE reg
                g == Prune(k)
    <2>1. Sound(k) /\ Tracks(reg, k, {})
      BY <1>1, KeepLineStill, QuietOnesTrack DEF Still
    <2>2. reg' = AbortStream(g) \/ reg' = StopTurn(g) \/ reg' = ClearTurn(g, m)
      BY <1>4 DEF Stop
    <2>. HIDE DEF k
    <2>3. Sound(g) /\ g \in RegistryType /\ Tracks(k, g, {})
      BY <2>1, PruneStill, PruneTracks DEF Still, Sound
    <2>. HIDE DEF g
    <2>4. Tracks(g, reg', {}) BY <2>2, <2>3, AbortTracks, QuietOnesTrack, LineTracks
    <2>. QED BY <2>1, <2>3, <2>4, StillTracks
  <1>5. CASE Shutdown \/ RestoreDrains \/ BackstopFires \/ PrunedElsewhere
    BY <1>1, <1>3, <1>5, QuietOnesTrack, LineTracks, PruneTracks, StillOwed
       DEF Shutdown, RestoreDrains, BackstopFires, PrunedElsewhere
  <1>6. CASE \/ \E clock \in Clocks : BoundPasses(clock)
             \/ \E r \in Requests : HandoverWaitPasses(r)
    <2>1. reg'.handed = reg.handed /\ reg'.running = reg.running
          /\ reg'.dropped = reg.dropped
      BY <1>1, <1>6 DEF BoundPasses, HandoverWaitPasses, RegistryType
    <2>. QED BY <1>3, <2>1, QuietTracks, StillOwed
  <1>7. CASE DeleteBegins
    <2>. DEFINE g == BeginDelete(reg)
                d == [reg EXCEPT !.deleting = TRUE]
                u == [d EXCEPT !.unclaimed = @ \ {reg.lock}]
    <2>1. Sound(g) BY <1>1, BeginDeleteMoves
    <2>2. g = d \/ (g = Release(u, reg.lock, NoEnd) /\ reg.lock \in reg.unclaimed)
      BY DEF BeginDelete
    <2>3. reg' = g \/ reg' = StopWhatRuns(g) BY <1>7 DEF DeleteBegins
    <2>. HIDE DEF g
    <2>4. /\ Tracks(reg, d, {}) /\ Tracks(reg, u, {}) /\ u \in RegistryType
          /\ u.line = reg.line /\ u.kept = reg.kept /\ u.outcome = reg.outcome
          /\ u.handed = reg.handed /\ u.unclaimed \subseteq reg.unclaimed
          /\ u.backstop = reg.backstop /\ u.hidden = reg.hidden
          /\ u.hold = reg.hold /\ u.lock = reg.lock
          /\ u.running = reg.running /\ u.dropped = reg.dropped
      BY <1>1, QuietTracks DEF RegistryType
    <2>. HIDE DEF d, u
    <2>5. Sound(u) BY <1>1, <2>4, SameLine
    <2>6. Tracks(reg, g, {})
      <3>1. CASE g = Release(u, reg.lock, NoEnd) /\ reg.lock \in reg.unclaimed
        <4>1. reg.lock \in Requests BY <1>1, <3>1 DEF RegistryType, Requests
        <4>2. Tracks(u, g, {}) BY <2>5, <3>1, <4>1, ReleaseTracks, NoEndIsAnEnd
        <4>. QED BY <2>4, <4>2, StillTracks
      <3>. QED BY <2>2, <2>4, <3>1
    <2>7. Tracks(g, StopWhatRuns(g), {}) BY <2>1, AbortTracks
    <2>8. Tracks(reg, reg', {}) BY <2>3, <2>6, <2>7, StillTracks
    <2>. QED BY <1>3, <2>8, StillOwed
  <1>8. CASE DeletePolls
    <2>1. reg' = reg \/ reg' = StopWhatRuns(reg) BY <1>8 DEF DeletePolls
    <2>2. Tracks(reg, reg', {}) BY <1>1, <1>2, <2>1, AbortTracks
    <2>. QED BY <1>3, <2>2, StillOwed
  <1>9. CASE DeleteRefused \/ DeleteSwept
    <2>1. \E g \in {reg, CancelLine(reg)} : reg' = EndDelete(g)
      BY <1>9 DEF DeleteRefused, DeleteSwept
    <2>2. PICK g \in {reg, CancelLine(reg)} : reg' = EndDelete(g) BY <2>1
    <2>3. Sound(g) /\ Tracks(reg, g, {})
      BY <1>1, <1>2, <2>2, CancelLineStill, QuietOnesTrack DEF Still
    <2>. DEFINE y == [g EXCEPT !.deleting = FALSE]
    <2>4. y \in RegistryType /\ Tracks(g, y, {})
      BY <2>3, QuietTracks DEF Sound, RegistryType
    <2>5. reg' = HandOff(y) BY <2>2 DEF EndDelete
    <2>. HIDE DEF y
    <2>6. Tracks(y, reg', {}) BY <2>4, <2>5, HandOffTracks
    <2>7. Tracks(reg, y, {}) BY <2>3, <2>4, StillTracks
    <2>8. Tracks(reg, reg', {}) BY <2>6, <2>7, StillTracks
    <2>. QED BY <1>3, <2>8, StillOwed
  <1>10. ASSUME NEW m \in Msgs \cup {None}, NEW all \in BOOLEAN, Stop(m, all)
         PROVE  OnlyLostClaimsLeak'
    <2>1. Tracks(reg, reg', {}) BY <1>4, <1>10
    <2>. QED BY <1>3, <2>1, StillOwed
  <1>. QED BY <1>5, <1>6, <1>7, <1>8, <1>9, <1>10 DEF DeleteStep, TimeStep

\* A registration outlives its request only where the prune of its own check
\* took the chat a send had just claimed: whatever else a request answers,
\* throws or loses its lock to, its release takes it off runningRequests.
THEOREM OnlyLostClaimsStay == Spec => []OnlyLostClaimsLeak
  <1>1. Init => OnlyLostClaimsLeak
    BY DEF Init, EmptyRegistry, OnlyLostClaimsLeak
  <1>2. TurnInv /\ OnlyLostClaimsLeak /\ [Next]_vars => OnlyLostClaimsLeak'
    <2>1. SUFFICES ASSUME TurnInv, OnlyLostClaimsLeak, [Next]_vars
                   PROVE  OnlyLostClaimsLeak'
      OBVIOUS
    <2>2. CASE UNCHANGED vars
      <3>1. Tracks(reg, reg', {}) /\ pc' = pc BY <2>2 DEF vars, Tracks
      <3>. QED BY <2>1, <3>1, StillOwed
    <2>. QED BY <2>1, <2>2, RequestOwed, SendOwed, TakersOwed, OthersOwed DEF Next
  <1>. QED BY <1>1, <1>2, TurnInvariant, PTL DEF Spec

-----------------------------------------------------------------------------
(* The requests that write, and the lock.                                   *)

WritersHold(g, p) == \A r \in Requests : p[r] \in Writing => g.lock = r

\* What one request at most gains or gives up leaves the others their lock.
LEMMA OthersHold ==
  ASSUME NEW g, NEW h, NEW p, NEW q, NEW o, WritersHold(g, p),
         g.lock # o => HoldsOn(g, h),
         \A r \in Requests : q[r] \in Writing => \/ r # o /\ p[r] \in Writing
                                                \/ h.lock = r
  PROVE  WritersHold(h, q)
  <1>1. \A r \in Requests : r # None BY RequestsAssumption
  <1>. QED BY <1>1 DEF WritersHold, HoldsOn

\* The conditions under which no lock is taken from a request that runs.
NothingSeizes == MayStop = FALSE /\ Elapsing \cap Seizing = {}

\* What it keeps.
Undisturbed == InTime(reg) /\ WritersHold(reg, pc)

\* A message that is shown again.
LEMMA RevealHolds ==
  ASSUME NEW g \in RegistryType, NEW r
  PROVE  HoldsOn(g, Reveal(g, r))
  BY DEF Reveal, RegistryType, HoldsOn

\* A step that holds on, of a request that was writing or does not now.
LEMMA HoldsStep ==
  ASSUME TurnInv, Undisturbed, HoldsOn(reg, reg'),
         \/ pc' = pc
         \/ \E r \in Requests : \E q : /\ pc' = [pc EXCEPT ![r] = q]
                                       /\ q \in Writing => pc[r] \in Writing
  PROVE  Undisturbed'
  <1>1. pc \in [Requests -> Places] BY DEF TurnInv, TypeOK
  <1>2. \A r \in Requests : pc'[r] \in Writing => pc[r] \in Writing BY <1>1
  <1>3. \A r \in Requests : r # None BY RequestsAssumption
  <1>4. InTime(reg') BY HoldsOnThen DEF Undisturbed
  <1>5. WritersHold(reg', pc') BY <1>2, <1>3 DEF Undisturbed, WritersHold, HoldsOn
  <1>. QED BY <1>4, <1>5 DEF Undisturbed

\* A step in which r alone may give up the chat.
LEMMA GivesUpInTurn ==
  ASSUME TurnInv, Undisturbed, NEW r \in Requests, NEW q, q \notin Writing,
         Goto(r, q), reg'.overdue \subseteq reg.overdue,
         reg.lock # r => HoldsOn(reg, reg')
  PROVE  Undisturbed'
  <1>1. pc \in [Requests -> Places] BY DEF TurnInv, TypeOK
  <1>2. \A t \in Requests : pc'[t] \in Writing => t # r /\ pc[t] \in Writing
    BY <1>1 DEF Goto
  <1>3. WritersHold(reg', pc') BY <1>2, OthersHold DEF Undisturbed
  <1>4. InTime(reg') BY DEF Undisturbed, InTime
  <1>. QED BY <1>3, <1>4 DEF Undisturbed

\* The lock check and the registration, from a registry where whoever writes
\* still holds its lock.
LEMMA TakesInTurn ==
  ASSUME TurnInv, NEW g, Sound(g), InTime(g), NEW r \in Requests,
         WritersHold(g, pc), TakeOrRefuse(g, r)
  PROVE  Undisturbed'
  <1>1. pc \in [Requests -> Places] BY DEF TurnInv, TypeOK
  <1>2. CASE Refuses(g, r)
    <2>1. reg' = g /\ pc' = [pc EXCEPT ![r] = "done"]
      BY <1>2 DEF TakeOrRefuse, Goto
    <2>2. \A t \in Requests : pc'[t] \in Writing => pc[t] \in Writing
      BY <1>1, <2>1 DEF Writing
    <2>. QED BY <2>1, <2>2 DEF Undisturbed, WritersHold
  <1>3. CASE ~Refuses(g, r)
    <2>1. reg' = Register(g, r) /\ pc' = [pc EXCEPT ![r] = "owner"]
      BY <1>3 DEF TakeOrRefuse, Goto
    <2>2. g.lock = None BY <1>3 DEF Refuses
    <2>3. reg'.lock = r BY <1>3, <2>1, RegisterStill
    <2>4. InTime(reg') BY <2>1, RegisterInTime DEF Sound
    <2>5. \A t \in Requests : t # r => pc'[t] \notin Writing
      BY <1>1, <2>1, <2>2, RequestsAssumption DEF WritersHold
    <2>. QED BY <2>3, <2>4, <2>5 DEF Undisturbed, WritersHold
  <1>. QED BY <1>2, <1>3

\* The prune every handler begins with.
LEMMA PrunedInTime ==
  ASSUME NEW g, Sound(g), InTime(g), WritersHold(g, pc)
  PROVE  /\ Sound(Prune(g)) /\ InTime(Prune(g)) /\ WritersHold(Prune(g), pc)
         /\ HoldsOn(g, Prune(g))
  <1>1. Sound(Prune(g)) BY PruneStill DEF Still
  <1>2. HoldsOn(g, Prune(g)) BY PruneHolds
  <1>3. InTime(Prune(g)) BY <1>2, HoldsOnThen
  <1>4. WritersHold(Prune(g), pc) BY <1>2, RequestsAssumption DEF WritersHold, HoldsOn
  <1>. QED BY <1>1, <1>2, <1>3, <1>4

\* A request that runs.
LEMMA RunsUndisturbed ==
  ASSUME TurnInv, Undisturbed, NEW r \in Requests, RequestStep(r)
  PROVE  Undisturbed'
  <1>1. Sound(reg) /\ reg \in RegistryType /\ pc \in [Requests -> Places]
        /\ ending \in [Requests -> {"none", "card", "over", "stopped"}]
    BY DEF TurnInv, TypeOK, Sound
  <1>2. HoldsOn(reg, reg) BY <1>1, QuietOnesHold
  <1>3. MsgOf[r] \in Msgs BY RequestsAssumption
  <1>4. CASE TurnBegins(r)
    <2>1. reg' = Reveal(reg, r) /\ pc' = [pc EXCEPT ![r] = "setup"] /\ pc[r] = "owner"
      BY <1>4 DEF TurnBegins, Goto
    <2>2. HoldsOn(reg, reg') BY <1>1, <2>1, RevealHolds
    <2>3. "owner" \in Writing BY DEF Writing
    <2>. QED BY <2>1, <2>2, <2>3, HoldsStep
  <1>5. CASE Checkpoint(r) \/ RaisesCard(r) \/ RunsAgain(r)
    <2>1. reg' = reg BY <1>5 DEF Checkpoint, RaisesCard, RunsAgain
    <2>2. \/ pc' = pc
          \/ \E q : pc' = [pc EXCEPT ![r] = q] /\ pc[r] \in {"setup", "ended"}
      BY <1>5 DEF Checkpoint, RaisesCard, RunsAgain, Goto
    <2>3. pc[r] \in {"setup", "ended"} => pc[r] \in Writing BY DEF Writing
    <2>. QED BY <1>2, <2>1, <2>2, <2>3, HoldsStep
  <1>6. CASE RunStarts(r) \/ RunEnds(r)
    <2>1. reg' = OpenStream(reg, MsgOf[r]) \/ reg' = CloseStream(reg, MsgOf[r])
      BY <1>6 DEF RunStarts, RunEnds
    <2>2. \E q : pc' = [pc EXCEPT ![r] = q] /\ pc[r] \in {"checked", "streaming"}
      BY <1>6 DEF RunStarts, RunEnds, Goto
    <2>3. pc[r] \in {"checked", "streaming"} => pc[r] \in Writing BY DEF Writing
    <2>4. HoldsOn(reg, reg') BY <1>1, <1>3, <2>1, QuietOnesHold
    <2>. QED BY <2>2, <2>3, <2>4, HoldsStep
  <1>7. CASE Leaves(r)
    <2>1. reg' = reg BY <1>7 DEF Leaves
    <2>2. \E q \in {"leaving", "sweeping"} : pc' = [pc EXCEPT ![r] = q]
      BY <1>7 DEF Leaves, Goto
    <2>3. \A q \in {"leaving", "sweeping"} : q \notin Writing BY DEF Writing
    <2>. QED BY <1>2, <2>1, <2>2, <2>3, HoldsStep
  <1>8. CASE Releases(r)
    <2>. DEFINE end == EndOf(r)
    <2>1. reg' = Release(reg, r, end) /\ Goto(r, "done") BY <1>8 DEF Releases
    <2>2. end \in Ends BY <1>3 DEF EndOf, Ends
    <2>. HIDE DEF end
    <2>3. reg'.overdue \subseteq reg.overdue /\ (reg.lock # r => HoldsOn(reg, reg'))
      BY <1>1, <2>1, <2>2, ReleaseHolds
    <2>4. "done" \notin Writing BY DEF Writing
    <2>. QED BY <2>1, <2>3, <2>4, GivesUpInTurn
  <1>. QED BY <1>4, <1>5, <1>6, <1>7, <1>8 DEF RequestStep

\* A send that joins the line, or not.
LEMMA SendArrivesUndisturbed ==
  ASSUME TurnInv, Undisturbed, NEW s \in Sends, SendArrives(s) \/ SendThrowsInLine(s)
  PROVE  Undisturbed'
  <1>. DEFINE g == Prune(reg)
  <1>1. Sound(reg) /\ pc \in [Requests -> Places] /\ s \in Requests
    BY DEF TurnInv, TypeOK, Requests
  <1>2. pc[s] = "idle" BY DEF SendArrives, SendThrowsInLine
  <1>3. Sound(g) /\ InTime(g) /\ WritersHold(g, pc) /\ HoldsOn(reg, g)
    BY <1>1, PrunedInTime DEF Undisturbed
  <1>4. \/ reg' = reg /\ Goto(s, "done")
        \/ TakeOrRefuse(g, s)
        \/ \E keep \in BOOLEAN : /\ reg' = Enqueue(g, s, keep)
                                 /\ Goto(s, IF keep THEN "overflow" ELSE "waiting")
        \/ reg' = g /\ Goto(s, "done")
        \/ reg' = Abandon(Enqueue(g, s, FALSE), s) /\ Goto(s, "done")
    <2>. DEFINE overflow == Cardinality(Runnable(g)) >= Cap
    <2>1. overflow \in BOOLEAN OBVIOUS
    <2>2. SendArrives(s) =>
            \/ reg' = reg /\ Goto(s, "done")
            \/ TakeOrRefuse(g, s)
            \/ /\ reg' = Enqueue(g, s, overflow)
               /\ Goto(s, IF overflow THEN "overflow" ELSE "waiting")
            \/ reg' = g /\ Goto(s, "done")
      BY DEF SendArrives
    <2>3. SendThrowsInLine(s) =>
            reg' = Abandon(Enqueue(g, s, FALSE), s) /\ Goto(s, "done")
      BY DEF SendThrowsInLine
    <2>. HIDE DEF overflow, g
    <2>. QED BY <2>1, <2>2, <2>3
  <1>. HIDE DEF g
  <1>5. {"done", "overflow", "waiting"} \cap Writing = {} BY DEF Writing
  <1>6. CASE reg' = reg /\ Goto(s, "done")
    <2>1. HoldsOn(reg, reg') BY <1>6 DEF HoldsOn
    <2>. QED BY <1>1, <1>5, <1>6, <2>1, HoldsStep DEF Goto
  <1>7. CASE TakeOrRefuse(g, s) BY <1>1, <1>3, <1>7, TakesInTurn
  <1>8. ASSUME NEW keep \in BOOLEAN, reg' = Enqueue(g, s, keep),
               Goto(s, IF keep THEN "overflow" ELSE "waiting")
        PROVE  Undisturbed'
    <2>1. HoldsOn(reg, reg') BY <1>3, <1>8, EnqueueHolds, HoldsOnThen
    <2>2. \E q \in {"overflow", "waiting"} : pc' = [pc EXCEPT ![s] = q]
      BY <1>8 DEF Goto
    <2>. QED BY <1>1, <1>5, <2>1, <2>2, HoldsStep
  <1>9. CASE reg' = g /\ Goto(s, "done")
    BY <1>1, <1>3, <1>5, <1>9, HoldsStep DEF Goto
  <1>10. CASE reg' = Abandon(Enqueue(g, s, FALSE), s) /\ Goto(s, "done")
    <2>. DEFINE e == Enqueue(g, s, FALSE)
    <2>1. Left(reg, s) /\ reg.outcome[s] = "none" BY <1>2, IdleSend
    <2>2. Still(reg, g) BY <1>1, PruneStill DEF g
    <2>3. s \notin Waiting(g) /\ g.outcome[s] = "none"
      BY <2>1, <2>2, LeftStays DEF Still, Left
    <2>4. Sound(e) /\ HoldsOn(reg, e)
      BY <1>3, <2>3, EnqueueMoves, EnqueueHolds, HoldsOnThen
    <2>. HIDE DEF e
    <2>5. reg' = Abandon(e, s) BY <1>10 DEF e
    <2>6. reg'.overdue \subseteq e.overdue /\ (e.lock # s => HoldsOn(e, reg'))
      BY <2>4, <2>5, AbandonHolds
    <2>7. pc[s] \notin Writing BY <1>2 DEF Writing
    <2>8. WritersHold(e, pc) /\ InTime(e)
      BY <2>4, RequestsAssumption, HoldsOnThen DEF Undisturbed, WritersHold, HoldsOn
    <2>9. \A t \in Requests : pc'[t] \in Writing => t # s /\ pc[t] \in Writing
      BY <1>1, <1>5, <1>10 DEF Goto
    <2>10. WritersHold(reg', pc') BY <2>6, <2>8, <2>9, OthersHold
    <2>. QED BY <2>6, <2>8, <2>10 DEF Undisturbed, InTime
  <1>. QED BY <1>4, <1>6, <1>7, <1>8, <1>9, <1>10

\* A send told that its wait is over.
LEMMA SendResumesUndisturbed ==
  ASSUME TurnInv, Undisturbed, NEW s \in Sends, SendResumes(s) \/ OverflowResumes(s)
  PROVE  Undisturbed'
  <1>. DEFINE a == Abandon(reg, s)
              c == Claim(reg, s)
              p == Prune(c)
  <1>1. Sound(reg) /\ pc \in [Requests -> Places] /\ s \in Requests
    BY DEF TurnInv, TypeOK, Requests
  <1>2. pc[s] \notin Writing BY DEF SendResumes, OverflowResumes, Writing
  <1>3. \/ reg' = reg /\ Goto(s, "done")
        \/ CanClaim(reg, s) /\ reg' = c /\ Goto(s, "keeping")
        \/ reg' = a /\ Goto(s, "done")
        \/ /\ CanClaim(reg, s) /\ reg' = p
           /\ Goto(s, IF p.lock = s THEN "owner" ELSE "done")
        \/ TakeOrRefuse(Prune(a), s)
    <2>1. SendResumes(s) => reg.outcome[s] \in {"cancelled", "keep", "run"}
      BY ToldSend DEF SendResumes
    <2>. QED BY <2>1 DEF SendResumes, OverflowResumes
  <1>4. /\ Sound(c) /\ HoldsOn(reg, c) BY <1>1, ClaimStill, QuietOnesHold DEF Still, Sound
  <1>5. /\ Sound(a) /\ a.overdue \subseteq reg.overdue /\ (reg.lock # s => HoldsOn(reg, a))
    BY <1>1, AbandonMoves, AbandonHolds
  <1>6. CanClaim(reg, s) => \A t \in Requests : t # s => pc[t] \notin Writing
    BY DEF CanClaim, Undisturbed, WritersHold
  <1>7. CanClaim(reg, s) => reg.lock = s /\ s # None
    BY <1>1, RequestsAssumption DEF CanClaim
  <1>8. "done" \notin Writing BY DEF Writing
  <1>9. CASE reg' = reg /\ Goto(s, "done")
    <2>1. HoldsOn(reg, reg') BY <1>9 DEF HoldsOn
    <2>. QED BY <1>1, <1>8, <1>9, <2>1, HoldsStep DEF Goto
  <1>. HIDE DEF c, a
  <1>10. CASE CanClaim(reg, s) /\ reg' = c /\ Goto(s, "keeping")
    <2>1. reg'.lock = s BY <1>4, <1>7, <1>10 DEF HoldsOn
    <2>2. \A t \in Requests : pc'[t] \in Writing => t = s
      BY <1>1, <1>6, <1>10 DEF Goto
    <2>3. InTime(reg') BY <1>4, <1>10, HoldsOnThen DEF Undisturbed
    <2>. QED BY <2>1, <2>2, <2>3 DEF Undisturbed, WritersHold
  <1>11. CASE reg' = a /\ Goto(s, "done")
    BY <1>1, <1>5, <1>8, <1>11, GivesUpInTurn
  <1>12. CASE /\ CanClaim(reg, s) /\ reg' = p
              /\ Goto(s, IF p.lock = s THEN "owner" ELSE "done")
    <2>1. InTime(c) BY <1>4, HoldsOnThen DEF Undisturbed
    <2>2. HoldsOn(c, p) BY <1>4, <2>1, PruneHolds
    <2>3. InTime(reg') BY <1>12, <2>1, <2>2, HoldsOnThen
    <2>4. reg'.lock = s BY <1>4, <1>7, <1>12, <2>2 DEF HoldsOn
    <2>5. \A t \in Requests : pc'[t] \in Writing => t = s
      BY <1>1, <1>6, <1>12 DEF Goto
    <2>. QED BY <2>3, <2>4, <2>5 DEF Undisturbed, WritersHold
  <1>13. CASE TakeOrRefuse(Prune(a), s)
    <2>1. WritersHold(a, pc) BY <1>2, <1>5, OthersHold DEF Undisturbed
    <2>2. InTime(a) BY <1>5 DEF Undisturbed, InTime
    <2>3. Sound(Prune(a)) /\ InTime(Prune(a)) /\ WritersHold(Prune(a), pc)
      BY <1>5, <2>1, <2>2, PrunedInTime
    <2>. QED BY <1>1, <1>13, <2>3, TakesInTurn
  <1>. QED BY <1>3, <1>9, <1>10, <1>11, <1>12, <1>13

\* A send that is kept at the end of the chat, one sent now, one whose agent is gone.
LEMMA OtherSendsUndisturbed ==
  ASSUME TurnInv, Undisturbed, NEW s \in Sends,
         SendNow(s) \/ AgentGone(s) \/ KeeperMoves(s) \/ KeeperReleases(s)
  PROVE  Undisturbed'
  <1>1. Sound(reg) /\ InTime(reg) /\ reg \in RegistryType /\ s \in Requests
        /\ pc \in [Requests -> Places]
    BY DEF TurnInv, TypeOK, Sound, Requests, Undisturbed
  <1>2. HoldsOn(reg, reg) /\ HoldsOn(reg, Reveal(reg, s)) BY <1>1, QuietOnesHold, RevealHolds
  <1>3. CASE SendNow(s)
    <2>1. reg' = SendWaitingNow(reg) /\ pc' = pc BY <1>3 DEF SendNow
    <2>2. HoldsOn(reg, reg') BY <1>1, <2>1, LineHolds
    <2>. QED BY <2>1, <2>2, HoldsStep
  <1>4. CASE AgentGone(s)
    <2>1. reg' = reg /\ pc' = [pc EXCEPT ![s] = "keepingOwn"] /\ pc[s] = "owner"
      BY <1>4 DEF AgentGone, Goto
    <2>2. "owner" \in Writing BY DEF Writing
    <2>. QED BY <1>1, <1>2, <2>1, <2>2, HoldsStep
  <1>5. CASE KeeperMoves(s)
    <2>1. reg' = Reveal(reg, s) /\ pc[s] \in {"keeping", "keepingOwn"}
          /\ \E q : pc' = [pc EXCEPT ![s] = q]
      BY <1>5 DEF KeeperMoves, Goto
    <2>2. pc[s] \in Writing BY <2>1 DEF Writing
    <2>. QED BY <1>1, <1>2, <2>1, <2>2, HoldsStep
  <1>6. CASE KeeperReleases(s)
    <2>. DEFINE v == Reveal(reg, s)
                q == IF pc[s] \in {"keeping", "kept"} THEN "done" ELSE "ownReleased"
    <2>1. reg' = Release(v, s, NoEnd) /\ Goto(s, q) BY <1>6 DEF KeeperReleases
    <2>2. q \notin Writing BY DEF Writing
    <2>. HIDE DEF q
    <2>3. Sound(v) /\ v.lock = reg.lock BY <1>1, RevealStill DEF Still, Reveal, RegistryType
    <2>. HIDE DEF v
    <2>4. reg'.overdue \subseteq v.overdue /\ (v.lock # s => HoldsOn(v, reg'))
      BY <1>1, <2>1, <2>3, ReleaseHolds, NoEndIsAnEnd
    <2>5. HoldsOn(reg, v) BY <1>2 DEF v
    <2>6. reg'.overdue \subseteq reg.overdue /\ (reg.lock # s => HoldsOn(reg, reg'))
      BY <2>3, <2>4, <2>5, HoldsOnThen DEF HoldsOn
    <2>. QED BY <1>1, <2>1, <2>2, <2>6, GivesUpInTurn
  <1>. QED BY <1>3, <1>4, <1>5, <1>6

\* A click, a wake.
LEMMA TakersUndisturbed ==
  ASSUME TurnInv, Undisturbed,
         \/ \E c \in Clicks : ClickStep(c)
         \/ \E w \in Wakes : WakeArrives(w)
  PROVE  Undisturbed'
  <1>. DEFINE g == Prune(reg)
  <1>1. Sound(reg) /\ pc \in [Requests -> Places] BY DEF TurnInv, TypeOK
  <1>2. Sound(g) /\ InTime(g) /\ WritersHold(g, pc) /\ HoldsOn(reg, g)
    BY <1>1, PrunedInTime DEF Undisturbed
  <1>3. HoldsOn(reg, reg) BY DEF HoldsOn
  <1>4. {"done", "clickWait"} \cap Writing = {} /\ {"owner", "recording"} \subseteq Writing
    BY DEF Writing
  <1>5. \A H \in SUBSET Clicks : LET k == [g EXCEPT !.clickHolds = H] IN
          /\ Sound(k) /\ k.lock = g.lock /\ k.overdue = g.overdue
    BY <1>2, ClickHoldsStill, SoundTypes DEF Still, RegistryType
  <1>6. g.clickHolds \in SUBSET Clicks BY <1>2, SoundTypes DEF RegistryType
  <1>7. ASSUME NEW w \in Wakes, WakeArrives(w) PROVE Undisturbed'
    <2>1. w \in Requests BY DEF Requests
    <2>2. \/ reg' = reg /\ pc' = [pc EXCEPT ![w] = "done"]
          \/ TakeOrRefuse(g, w)
      BY <1>7 DEF WakeArrives, Goto
    <2>. HIDE DEF g
    <2>3. CASE reg' = reg /\ pc' = [pc EXCEPT ![w] = "done"]
      BY <1>3, <1>4, <2>1, <2>3, HoldsStep
    <2>. QED BY <1>1, <1>2, <2>1, <2>2, <2>3, TakesInTurn
  <1>8. ASSUME NEW c \in Clicks, ClickArrives(c) PROVE Undisturbed'
    <2>. DEFINE k == [g EXCEPT !.clickHolds = @ \cup {c}]
    <2>1. c \in Requests BY DEF Requests
    <2>2. \/ reg' = k /\ pc' = [pc EXCEPT ![c] = "clickWait"]
          \/ TakeOrRefuse(g, c)
      BY <1>8 DEF ClickArrives, Goto
    <2>. HIDE DEF g
    <2>3. k.lock = g.lock /\ k.overdue = g.overdue BY <1>5, <1>6
    <2>4. HoldsOn(reg, k) BY <1>2, <2>3 DEF HoldsOn
    <2>. HIDE DEF k
    <2>5. CASE reg' = k /\ pc' = [pc EXCEPT ![c] = "clickWait"]
      BY <1>4, <2>1, <2>4, <2>5, HoldsStep
    <2>. QED BY <1>1, <1>2, <2>1, <2>2, <2>5, TakesInTurn
  <1>9. ASSUME NEW c \in Clicks, ClickWaitEnds(c) PROVE Undisturbed'
    <2>. DEFINE k == [g EXCEPT !.clickHolds = @ \ {c}]
    <2>1. c \in Requests BY DEF Requests
    <2>2. TakeOrRefuse(k, c) BY <1>9 DEF ClickWaitEnds
    <2>. HIDE DEF g
    <2>3. Sound(k) /\ k.lock = g.lock /\ k.overdue = g.overdue BY <1>5, <1>6
    <2>. HIDE DEF k
    <2>4. InTime(k) /\ WritersHold(k, pc) BY <1>2, <2>3 DEF InTime, WritersHold
    <2>. QED BY <2>1, <2>2, <2>3, <2>4, TakesInTurn
  <1>10. ASSUME NEW c \in Clicks, ClickReadsCard(c) \/ ClickRecordsAnswer(c)
         PROVE  Undisturbed'
    <2>1. c \in Requests BY DEF Requests
    <2>2. reg' = reg /\ pc[c] \in {"owner", "recording"}
          /\ \E q : pc' = [pc EXCEPT ![c] = q]
      BY <1>10 DEF ClickReadsCard, ClickRecordsAnswer, Goto
    <2>. QED BY <1>3, <1>4, <2>1, <2>2, HoldsStep
  <1>. QED BY <1>7, <1>8, <1>9, <1>10 DEF ClickStep

\* Shutdown, a drain, the timers and the bounds that may pass.
LEMMA OthersUndisturbed ==
  ASSUME TurnInv, Undisturbed, NothingSeizes,
         \/ Shutdown \/ RestoreDrains \/ TimeStep
         \/ \E m \in Msgs \cup {None}, all \in BOOLEAN : Stop(m, all)
  PROVE  Undisturbed'
  <1>1. Sound(reg) /\ InTime(reg) /\ reg \in RegistryType
    BY DEF TurnInv, Sound, Undisturbed
  <1>2. ~(\E m \in Msgs \cup {None}, all \in BOOLEAN : Stop(m, all))
    BY DEF NothingSeizes, Stop
  <1>3. CASE Shutdown \/ RestoreDrains
    <2>1. reg' = KeepLine(reg) /\ pc' = pc BY <1>3 DEF Shutdown, RestoreDrains
    <2>. QED BY <1>1, <2>1, QuietOnesHold, HoldsStep
  <1>4. CASE BackstopFires \/ PrunedElsewhere
    <2>1. (reg' = BackstopTick(reg) \/ reg' = Prune(reg)) /\ pc' = pc
      BY <1>4 DEF BackstopFires, PrunedElsewhere
    <2>2. HoldsOn(reg, reg') BY <1>1, <2>1, LineHolds, PruneHolds
    <2>. QED BY <2>1, <2>2, HoldsStep
  <1>5. ASSUME NEW clock \in Clocks, BoundPasses(clock) PROVE Undisturbed'
    <2>1. clock \in Elapsing /\ pc' = pc
          /\ reg' = [reg EXCEPT !.overdue = @ \cup {clock}]
      BY <1>5 DEF BoundPasses
    <2>2. clock \notin Seizing BY <2>1 DEF NothingSeizes
    <2>3. reg'.lock = reg.lock /\ reg'.overdue = reg.overdue \cup {clock}
      BY <1>1, <2>1 DEF RegistryType
    <2>4. InTime(reg') BY <1>1, <2>2, <2>3 DEF InTime
    <2>. QED BY <2>1, <2>3, <2>4 DEF Undisturbed, WritersHold
  <1>6. ASSUME NEW r \in Requests, HandoverWaitPasses(r) PROVE Undisturbed'
    <2>1. pc' = pc /\ reg' = [reg EXCEPT !.waitedOut = @ \cup {r}]
      BY <1>6 DEF HandoverWaitPasses
    <2>2. HoldsOn(reg, reg') BY <1>1, <2>1 DEF RegistryType, HoldsOn
    <2>. QED BY <2>1, <2>2, HoldsStep
  <1>. QED BY <1>2, <1>3, <1>4, <1>5, <1>6 DEF TimeStep

\* The delete of the chat.
LEMMA DeleteUndisturbed ==
  ASSUME TurnInv, Undisturbed, DeleteStep
  PROVE  Undisturbed'
  <1>1. Sound(reg) /\ InTime(reg) /\ reg \in RegistryType
    BY DEF TurnInv, Sound, Undisturbed
  <1>2. CASE DeleteBegins
    <2>. DEFINE b == BeginDelete(reg)
    <2>1. (reg' = b \/ reg' = StopWhatRuns(b)) /\ pc' = pc BY <1>2 DEF DeleteBegins
    <2>2. Sound(b) /\ b.overdue \subseteq reg.overdue
          /\ (reg.lock \notin reg.unclaimed => HoldsOn(reg, b))
      BY <1>1, BeginDeleteMoves, BeginDeleteInTime
    <2>. HIDE DEF b
    <2>3. \A r \in Requests : pc[r] \in Writing => reg.lock = r /\ r \notin reg.unclaimed
      <3>1. SUFFICES ASSUME NEW r \in Requests, pc[r] \in Writing, r \in reg.unclaimed
                     PROVE  FALSE
        BY DEF Undisturbed, WritersHold
      <3>2. r \in Sends /\ r \in reg.handed BY <1>1, <3>1 DEF Sound, RegistryType
      <3>3. pc[r] \in InLine BY <3>2 DEF TurnInv, SendPlaced
      <3>. QED BY <3>1, <3>3 DEF InLine, Writing
    <2>4. WritersHold(b, pc) BY <2>2, <2>3, RequestsAssumption DEF WritersHold, HoldsOn
    <2>5. InTime(b) BY <1>1, <2>2 DEF InTime
    <2>6. HoldsOn(b, StopWhatRuns(b)) BY <2>2, <2>5, AbortHolds
    <2>7. InTime(StopWhatRuns(b)) /\ WritersHold(StopWhatRuns(b), pc)
      BY <2>4, <2>5, <2>6, HoldsOnThen, RequestsAssumption DEF WritersHold, HoldsOn
    <2>. QED BY <2>1, <2>4, <2>5, <2>7 DEF Undisturbed, WritersHold
  <1>3. CASE DeletePolls
    <2>1. (reg' = reg \/ reg' = StopWhatRuns(reg)) /\ pc' = pc BY <1>3 DEF DeletePolls
    <2>2. HoldsOn(reg, reg') BY <1>1, <2>1, AbortHolds, QuietOnesHold
    <2>. QED BY <2>1, <2>2, HoldsStep
  <1>4. CASE DeleteRefused
    <2>1. reg' = EndDelete(reg) /\ pc' = pc BY <1>4 DEF DeleteRefused
    <2>2. HoldsOn(reg, reg') BY <1>1, <2>1, LineHolds
    <2>. QED BY <2>1, <2>2, HoldsStep
  <1>5. CASE DeleteSwept
    <2>. DEFINE x == CancelLine(reg)
                y == [x EXCEPT !.deleting = FALSE]
    <2>1. reg' = HandOff(y) /\ pc' = pc BY <1>5 DEF DeleteSwept, EndDelete
    <2>2. x \in RegistryType /\ HoldsOn(reg, x)
      BY <1>1, CancelLineStill, QuietOnesHold DEF Still, Sound
    <2>. HIDE DEF x
    <2>3. y \in RegistryType /\ HoldsOn(x, y) BY <2>2 DEF RegistryType, HoldsOn
    <2>. HIDE DEF y
    <2>4. HoldsOn(y, reg') BY <2>1, <2>3, HandOffHolds
    <2>5. HoldsOn(reg, reg') BY <2>2, <2>3, <2>4, HoldsOnThen
    <2>. QED BY <2>1, <2>5, HoldsStep
  <1>. QED BY <1>2, <1>3, <1>4, <1>5 DEF DeleteStep

-----------------------------------------------------------------------------
(* A click writes its answer behind its reading of the card: what keeps      *)
(* the reading true in between is the lock.                                  *)

ReadIsFresh == \A c \in Clicks : pc[c] = "recording" => ApprovalOf[c] \notin Answered

\* A step that records nothing, and after which nobody reads who did not.
LEMMA NothingRecorded ==
  ASSUME TurnInv, ReadIsFresh, AnsweredOnce, recorded' = recorded,
         \/ pc' = pc
         \/ \E r \in Requests : \E q : pc' = [pc EXCEPT ![r] = q] /\ q # "recording"
  PROVE  ReadIsFresh' /\ AnsweredOnce'
  <1>1. pc \in [Requests -> Places] BY DEF TurnInv, TypeOK
  <1>2. \A c \in Clicks : pc'[c] = "recording" => pc[c] = "recording"
    BY <1>1 DEF Requests
  <1>3. Answered' = Answered BY DEF Answered
  <1>4. ReadIsFresh' BY <1>2, <1>3 DEF ReadIsFresh
  <1>5. AnsweredOnce' BY DEF AnsweredOnce
  <1>. QED BY <1>4, <1>5

\* A click that reads its card, or writes its answer.
LEMMA ClickAnswers ==
  ASSUME TurnInv, Undisturbed, ReadIsFresh, AnsweredOnce, NEW c \in Clicks,
         ClickReadsCard(c) \/ ClickRecordsAnswer(c)
  PROVE  ReadIsFresh' /\ AnsweredOnce'
  <1>1. pc \in [Requests -> Places] /\ c \in Requests /\ recorded \subseteq Clicks
    BY DEF TurnInv, TypeOK, Requests
  <1>2. CASE ClickReadsCard(c)
    <2>1. /\ recorded' = recorded /\ ApprovalOf[c] \notin Answered
          /\ pc' = [pc EXCEPT ![c] = "recording"]
      BY <1>2 DEF ClickReadsCard, CardUnchanged, Goto
    <2>2. Answered' = Answered BY <2>1 DEF Answered
    <2>3. \A d \in Clicks : d # c => pc'[d] = pc[d] BY <1>1, <2>1 DEF Requests
    <2>4. ReadIsFresh' BY <2>1, <2>2, <2>3 DEF ReadIsFresh
    <2>5. AnsweredOnce' BY <2>1 DEF AnsweredOnce
    <2>. QED BY <2>4, <2>5
  <1>3. CASE ClickRecordsAnswer(c)
    <2>1. /\ recorded' = recorded \cup {c} /\ pc[c] = "recording"
          /\ pc' = [pc EXCEPT ![c] = "setup"]
      BY <1>3 DEF ClickRecordsAnswer, Goto
    <2>2. reg.lock = c BY <1>1, <2>1 DEF Undisturbed, WritersHold, Writing
    <2>3. \A d \in Clicks : pc'[d] # "recording"
      <3>1. SUFFICES ASSUME NEW d \in Clicks, pc'[d] = "recording" PROVE FALSE OBVIOUS
      <3>2. d \in Requests BY DEF Requests
      <3>3. d # c /\ pc[d] = "recording" BY <1>1, <2>1, <3>1, <3>2
      <3>4. "recording" \in Writing BY DEF Writing
      <3>5. reg.lock = d BY <3>2, <3>3, <3>4 DEF Undisturbed, WritersHold
      <3>. QED BY <2>2, <3>3, <3>5
    <2>4. \A d \in recorded : ApprovalOf[d] # ApprovalOf[c]
      BY <2>1 DEF ReadIsFresh, Answered
    <2>5. AnsweredOnce' BY <2>1, <2>4 DEF AnsweredOnce
    <2>6. ReadIsFresh' BY <2>3 DEF ReadIsFresh
    <2>. QED BY <2>5, <2>6
  <1>. QED BY <1>2, <1>3

\* Nothing else reads a card or answers it.
LEMMA CardsLeft ==
  ASSUME TurnInv, ReadIsFresh, AnsweredOnce,
         \/ \E r \in Requests : RequestStep(r)
         \/ \E s \in Sends : SendStep(s)
         \/ \E c \in Clicks : ClickArrives(c) \/ ClickWaitEnds(c)
         \/ \E w \in Wakes : WakeArrives(w)
         \/ \E m \in Msgs \cup {None}, all \in BOOLEAN : Stop(m, all)
         \/ Shutdown \/ RestoreDrains \/ DeleteStep \/ TimeStep
         \/ UNCHANGED vars
  PROVE  ReadIsFresh' /\ AnsweredOnce'
  <1>. DEFINE Goes(r) == \E q : pc' = [pc EXCEPT ![r] = q] /\ q # "recording"
  <1>1. ASSUME NEW r \in Requests, RequestStep(r)
        PROVE  recorded' = recorded /\ (pc' = pc \/ Goes(r))
    <2>1. CASE TurnBegins(r) \/ RunStarts(r) \/ RunsAgain(r)
      BY <2>1 DEF TurnBegins, RunStarts, RunsAgain, Goto, CardUnchanged
    <2>2. CASE Checkpoint(r) \/ RaisesCard(r) \/ RunEnds(r)
      BY <2>2 DEF Checkpoint, RaisesCard, RunEnds, Goto
    <2>3. CASE Leaves(r) \/ Releases(r)
      BY <2>3 DEF Leaves, Releases, Goto, CardUnchanged
    <2>. QED BY <1>1, <2>1, <2>2, <2>3 DEF RequestStep
  <1>2. ASSUME NEW g, NEW r, TakeOrRefuse(g, r) PROVE Goes(r)
    BY <1>2 DEF TakeOrRefuse, Goto
  <1>3. ASSUME NEW s \in Sends, SendStep(s)
        PROVE  recorded' = recorded /\ (pc' = pc \/ Goes(s))
    <2>1. CASE SendArrives(s) \/ SendThrowsInLine(s)
      <3>. DEFINE g == Prune(reg)
                  overflow == Cardinality(Runnable(g)) >= Cap
      <3>1. recorded' = recorded
        BY <2>1 DEF SendArrives, SendThrowsInLine, CardUnchanged
      <3>2. \/ Goto(s, "done") \/ TakeOrRefuse(g, s)
            \/ Goto(s, IF overflow THEN "overflow" ELSE "waiting")
        BY <2>1 DEF SendArrives, SendThrowsInLine
      <3>. HIDE DEF g, overflow
      <3>. QED BY <1>2, <3>1, <3>2 DEF Goto
    <2>2. CASE SendResumes(s)
      <3>1. reg.outcome[s] \in {"cancelled", "keep", "run"}
        BY <2>2, ToldSend DEF SendResumes
      <3>. QED BY <1>2, <2>2, <3>1 DEF SendResumes, Goto, CardUnchanged
    <2>3. CASE SendNow(s) \/ OverflowResumes(s) \/ AgentGone(s)
      BY <2>3 DEF SendNow, OverflowResumes, AgentGone, Goto, CardUnchanged
    <2>4. CASE KeeperMoves(s) \/ KeeperReleases(s)
      BY <2>4 DEF KeeperMoves, KeeperReleases, Goto, CardUnchanged
    <2>. QED BY <1>3, <2>1, <2>2, <2>3, <2>4 DEF SendStep
  <1>4. ASSUME NEW c \in Clicks, ClickArrives(c) \/ ClickWaitEnds(c)
        PROVE  recorded' = recorded /\ (pc' = pc \/ Goes(c))
    BY <1>2, <1>4 DEF ClickArrives, ClickWaitEnds, Goto, CardUnchanged
  <1>5. ASSUME NEW w \in Wakes, WakeArrives(w)
        PROVE  recorded' = recorded /\ (pc' = pc \/ Goes(w))
    BY <1>2, <1>5 DEF WakeArrives, Goto, CardUnchanged
  <1>6. ASSUME \/ \E m \in Msgs \cup {None}, all \in BOOLEAN : Stop(m, all)
               \/ Shutdown \/ RestoreDrains \/ DeleteStep \/ TimeStep
               \/ UNCHANGED vars
        PROVE  recorded' = recorded /\ pc' = pc
    BY <1>6 DEF Stop, Shutdown, RestoreDrains, DeleteStep, DeleteBegins, DeletePolls,
                DeleteRefused, DeleteSwept, TimeStep, BackstopFires, PrunedElsewhere,
                BoundPasses, HandoverWaitPasses, CardUnchanged, vars
  <1>7. recorded' = recorded /\ (pc' = pc \/ \E r \in Requests : Goes(r))
    BY <1>1, <1>3, <1>4, <1>5, <1>6 DEF Requests
  <1>. QED BY <1>7, NothingRecorded

\* An approval is answered once (approvalAnswerRecord.ts): a click reads its card
\* and writes its answer in two steps, and the chat's lock is all that keeps a
\* second click out in between.  So it is, where no Stop and no bound takes the
\* lock from a request that runs.
THEOREM ApprovalsAnsweredOnce == NothingSeizes => (Spec => []AnsweredOnce)
  <1>. DEFINE OnceInv == Undisturbed /\ ReadIsFresh /\ AnsweredOnce
  <1>. SUFFICES ASSUME NothingSeizes PROVE Spec => []AnsweredOnce
    OBVIOUS
  <1>1. Init => OnceInv
    <2>1. SUFFICES ASSUME Init PROVE OnceInv OBVIOUS
    <2>2. reg.overdue = {} /\ recorded = {} /\ pc = [r \in Requests |-> "idle"]
      BY <2>1 DEF Init, EmptyRegistry
    <2>3. Undisturbed BY <2>2 DEF Undisturbed, InTime, WritersHold, Writing
    <2>4. ReadIsFresh BY <2>2 DEF ReadIsFresh, Requests
    <2>5. AnsweredOnce BY <2>2 DEF AnsweredOnce
    <2>. QED BY <2>3, <2>4, <2>5
  <1>2. TurnInv /\ OnceInv /\ [Next]_vars => OnceInv'
    <2>1. SUFFICES ASSUME TurnInv, OnceInv, [Next]_vars PROVE OnceInv' OBVIOUS
    <2>2. Undisturbed'
      <3>1. CASE UNCHANGED vars
        BY <2>1, <3>1 DEF vars, Undisturbed, InTime, WritersHold
      <3>2. ASSUME NEW s \in Sends, SendStep(s) PROVE Undisturbed'
        BY <2>1, <3>2, SendArrivesUndisturbed, SendResumesUndisturbed,
           OtherSendsUndisturbed DEF SendStep
      <3>. QED BY <2>1, <3>1, <3>2, RunsUndisturbed, TakersUndisturbed,
                  OthersUndisturbed, DeleteUndisturbed DEF Next
    <2>3. ReadIsFresh' /\ AnsweredOnce'
      BY <2>1, ClickAnswers, CardsLeft DEF Next, ClickStep
    <2>. QED BY <2>2, <2>3
  <1>3. OnceInv => AnsweredOnce OBVIOUS
  <1>. QED BY <1>1, <1>2, <1>3, TurnInvariant, PTL DEF Spec

-----------------------------------------------------------------------------
(* A reply that lets go of the chat at a card.                              *)

\* The places of a request none of whose runs has ended.
NoRunYet ==
  { "idle", "clickWait", "waiting", "overflow", "owner", "recording",
    "keeping", "kept", "keepingOwn", "keptOwn", "ownReleased" }

Finally == {"sweeping", "leaving"}

\* The places of a request that has yet to decide.
Arriving == {"idle", "clickWait"}

\* Where the card a request's last run stopped at is known, and whose chat it
\* still counts in.
CardsPlaced ==
  \A r \in Requests :
    /\ pc[r] \in NoRunYet => ending[r] = "none"
    /\ pc[r] \in Finally /\ ending[r] = "card" => r \in reg.running

\* A step of r that starts no run, ends none and does not reach the finally.
GoesOn(r) ==
  /\ ending' = ending
  /\ \E q : /\ pc' = [pc EXCEPT ![r] = q]
            /\ q \in NoRunYet => pc[r] \in NoRunYet
            /\ q \in Arriving => pc[r] \in Arriving
            /\ q \notin Finally \cup {"streaming"}

\* What a step does to the place of r and to what is known of its end.
EndMoves(r) ==
  /\ pc'[r] \in NoRunYet => pc[r] \in NoRunYet /\ ending'[r] = ending[r]
  /\ pc'[r] \in Finally => \/ pc'[r] = pc[r] /\ ending'[r] = ending[r]
                           \/ Leaves(r)
  /\ ending'[r] = "card" => ending[r] = "card" \/ pc[r] = "streaming"
  /\ pc'[r] = "streaming" => pc[r] = "streaming" \/ RunStarts(r)
  /\ pc'[r] \in Arriving => pc[r] \in Arriving

\* The lock check and the registration start no run.
LEMMA TakeGoesOn ==
  ASSUME NEW g, NEW r, TakeOrRefuse(g, r), ending' = ending,
         pc[r] \in {"idle", "clickWait", "waiting"}
  PROVE  GoesOn(r)
  BY DEF TakeOrRefuse, Goto, GoesOn, NoRunYet, Finally, Arriving

\* Nor does any step of a send, of a click or of a turn that never waits.
LEMMA TakersGoOn ==
  ASSUME TurnInv,
         \/ \E s \in Sends : SendStep(s)
         \/ \E c \in Clicks : ClickStep(c)
         \/ \E w \in Wakes : WakeArrives(w)
  PROVE  \/ pc' = pc /\ ending' = ending
         \/ \E r \in Requests : GoesOn(r)
  <1>1. ASSUME NEW s \in Sends, SendStep(s)
        PROVE  (pc' = pc /\ ending' = ending) \/ GoesOn(s)
    <2>1. CASE SendArrives(s) \/ SendThrowsInLine(s)
      <3>. DEFINE g == Prune(reg)
                  overflow == Cardinality(Runnable(g)) >= Cap
      <3>1. ending' = ending /\ pc[s] = "idle"
        BY <2>1 DEF SendArrives, SendThrowsInLine, CardUnchanged
      <3>2. \/ Goto(s, "done") \/ TakeOrRefuse(g, s)
            \/ Goto(s, IF overflow THEN "overflow" ELSE "waiting")
        BY <2>1 DEF SendArrives, SendThrowsInLine
      <3>. HIDE DEF g, overflow
      <3>. QED BY <3>1, <3>2, TakeGoesOn DEF Goto, GoesOn, NoRunYet, Finally, Arriving
    <2>2. CASE SendResumes(s)
      <3>. DEFINE g == Prune(Abandon(reg, s))
                  k == Prune(Claim(reg, s))
      <3>1. ending' = ending /\ pc[s] = "waiting"
            /\ reg.outcome[s] \in {"cancelled", "keep", "run"}
        BY <2>2, ToldSend DEF SendResumes, CardUnchanged
      <3>2. \/ Goto(s, "done") \/ Goto(s, "keeping") \/ TakeOrRefuse(g, s)
            \/ Goto(s, IF k.lock = s THEN "owner" ELSE "done")
        BY <2>2, <3>1 DEF SendResumes
      <3>. HIDE DEF g, k
      <3>. QED BY <3>1, <3>2, TakeGoesOn DEF Goto, GoesOn, NoRunYet, Finally, Arriving
    <2>3. CASE SendNow(s) \/ OverflowResumes(s) \/ AgentGone(s)
      BY <2>3 DEF SendNow, OverflowResumes, AgentGone, Goto, CardUnchanged,
                  GoesOn, NoRunYet, Finally, Arriving
    <2>4. CASE KeeperMoves(s) \/ KeeperReleases(s)
      BY <2>4 DEF KeeperMoves, KeeperReleases, Goto, CardUnchanged,
                  GoesOn, NoRunYet, Finally, Arriving
    <2>. QED BY <1>1, <2>1, <2>2, <2>3, <2>4 DEF SendStep
  <1>2. ASSUME NEW c \in Clicks, ClickStep(c) PROVE GoesOn(c)
    <2>1. CASE ClickArrives(c) \/ ClickWaitEnds(c)
      <3>. DEFINE g == Prune(reg)
                  k == [g EXCEPT !.clickHolds = @ \ {c}]
      <3>1. ending' = ending /\ pc[c] \in {"idle", "clickWait"}
        BY <2>1 DEF ClickArrives, ClickWaitEnds, CardUnchanged
      <3>2. \/ pc[c] = "idle" /\ Goto(c, "clickWait")
            \/ TakeOrRefuse(g, c) \/ TakeOrRefuse(k, c)
        BY <2>1 DEF ClickArrives, ClickWaitEnds
      <3>. HIDE DEF g, k
      <3>. QED BY <3>1, <3>2, TakeGoesOn DEF Goto, GoesOn, NoRunYet, Finally, Arriving
    <2>2. CASE ClickReadsCard(c) \/ ClickRecordsAnswer(c)
      BY <2>2 DEF ClickReadsCard, ClickRecordsAnswer, Goto, CardUnchanged,
                  GoesOn, NoRunYet, Finally, Arriving
    <2>. QED BY <1>2, <2>1, <2>2 DEF ClickStep
  <1>3. ASSUME NEW w \in Wakes, WakeArrives(w) PROVE GoesOn(w)
    <2>1. ending' = ending /\ pc[w] = "idle"
          /\ (Goto(w, "done") \/ TakeOrRefuse(Prune(reg), w))
      BY <1>3 DEF WakeArrives, CardUnchanged
    <2>. QED BY <2>1, TakeGoesOn DEF Goto, GoesOn, NoRunYet, Finally, Arriving
  <1>. QED BY <1>1, <1>2, <1>3 DEF Requests

\* Only its own run's end says that a request stopped at a card.
LEMMA EndsMove ==
  ASSUME TurnInv, [Next]_vars, NEW r \in Requests
  PROVE  EndMoves(r)
  <1>1. pc \in [Requests -> Places]
        /\ ending \in [Requests -> {"none", "card", "over", "stopped"}]
    BY DEF TurnInv, TypeOK
  <1>2. CASE pc' = pc /\ ending' = ending BY <1>2 DEF EndMoves
  <1>3. ASSUME NEW t \in Requests, GoesOn(t) PROVE EndMoves(r)
    BY <1>1, <1>3 DEF GoesOn, EndMoves
  <1>4. ASSUME NEW t \in Requests, RequestStep(t) PROVE EndMoves(r)
    <2>1. CASE TurnBegins(t) \/ RunsAgain(t) \/ Releases(t)
      <3>1. GoesOn(t)
        BY <2>1 DEF TurnBegins, RunsAgain, Releases, Goto, CardUnchanged, GoesOn,
                    NoRunYet, Finally, Arriving
      <3>. QED BY <1>3, <3>1
    <2>2. CASE RunStarts(t)
      <3>1. pc' = [pc EXCEPT ![t] = "streaming"] /\ ending' = ending
        BY <2>2 DEF RunStarts, Goto, CardUnchanged
      <3>. QED BY <1>1, <2>2, <3>1 DEF EndMoves, NoRunYet, Finally, Arriving
    <2>3. CASE Leaves(t)
      <3>1. /\ \E q \in Finally : pc' = [pc EXCEPT ![t] = q]
            /\ ending' = ending \/ ending' = [ending EXCEPT ![t] = "none"]
        BY <2>3 DEF Leaves, Goto, Finally
      <3>. QED BY <1>1, <2>3, <3>1 DEF EndMoves, NoRunYet, Finally, Arriving
    <2>4. CASE Checkpoint(t)
      <3>1. /\ \E q \in {"ended", "checked"} : pc' = [pc EXCEPT ![t] = q]
            /\ \E e \in {"none", "stopped"} : ending' = [ending EXCEPT ![t] = e]
        BY <2>4 DEF Checkpoint, Goto
      <3>. QED BY <1>1, <3>1 DEF EndMoves, NoRunYet, Finally, Arriving
    <2>5. CASE RaisesCard(t) \/ RunEnds(t)
      <3>1. /\ pc[t] = "streaming"
            /\ pc' = pc \/ pc' = [pc EXCEPT ![t] = "ended"]
            /\ \E e : ending' = [ending EXCEPT ![t] = e]
        BY <2>5 DEF RaisesCard, RunEnds, Goto
      <3>. QED BY <1>1, <3>1 DEF EndMoves, NoRunYet, Finally, Arriving
    <2>. QED BY <1>4, <2>1, <2>2, <2>3, <2>4, <2>5 DEF RequestStep
  <1>5. CASE \/ \E m \in Msgs \cup {None}, all \in BOOLEAN : Stop(m, all)
             \/ Shutdown \/ RestoreDrains \/ DeleteStep \/ TimeStep
             \/ UNCHANGED vars
    <2>1. pc' = pc /\ ending' = ending
      BY <1>5 DEF Stop, Shutdown, RestoreDrains, DeleteStep, DeleteBegins, DeletePolls,
                  DeleteRefused, DeleteSwept, TimeStep, BackstopFires, PrunedElsewhere,
                  BoundPasses, HandoverWaitPasses, CardUnchanged, vars
    <2>. QED BY <1>2, <2>1
  <1>. QED BY <1>2, <1>3, <1>4, <1>5, TakersGoOn DEF Next

\* A step of r may stop r, and stops nobody else.
StopsOnly(r) == reg.running \ {r} \subseteq reg'.running

\* The lock check and the registration stop nobody.
LEMMA TakeStopsNobody ==
  ASSUME NEW g, Sound(g), NEW r \in Requests, TakeOrRefuse(g, r)
  PROVE  g.running \subseteq reg'.running
  BY RegisterStill DEF TakeOrRefuse, Still, Moves

\* The steps of a send stop no other request.
LEMMA SendStopsItself ==
  ASSUME TurnInv, NEW s \in Sends, SendStep(s)
  PROVE  StopsOnly(s)
  <1>. DEFINE g == Prune(reg)
              overflow == Cardinality(Runnable(g)) >= Cap
              e == Enqueue(g, s, overflow)
              f == Enqueue(g, s, FALSE)
              a == Abandon(reg, s)
              c == Claim(reg, s)
              v == Reveal(reg, s)
  <1>1. Sound(reg) /\ s \in Requests BY DEF TurnInv, Requests
  <1>2. Sound(g) /\ reg.running \subseteq g.running
    BY <1>1, PruneStill DEF Still, Moves
  <1>3. CASE SendArrives(s) \/ SendThrowsInLine(s)
    <2>1. overflow \in BOOLEAN OBVIOUS
    <2>2. pc[s] = "idle" BY <1>3 DEF SendArrives, SendThrowsInLine
    <2>3. Left(reg, s) /\ reg.outcome[s] = "none" BY <2>2, IdleSend
    <2>4. s \notin Waiting(g) /\ g.outcome[s] = "none"
      BY <1>1, <2>3, PruneStill, LeftStays DEF Still, Left
    <2>5. \/ reg' = reg \/ TakeOrRefuse(g, s) \/ reg' = e
          \/ reg' = g \/ reg' = Abandon(f, s)
      BY <1>3 DEF SendArrives, SendThrowsInLine
    <2>. HIDE DEF overflow, g
    <2>6. g.running \subseteq e.running BY <1>2, <2>1, <2>4, EnqueueMoves DEF Moves
    <2>7. Sound(f) /\ g.running \subseteq f.running BY <1>2, <2>4, EnqueueMoves DEF Moves
    <2>. HIDE DEF e, f
    <2>8. f.running \ {s} \subseteq Abandon(f, s).running
      BY <2>7, AbandonMoves DEF Moves
    <2>. QED BY <1>1, <1>2, <2>5, <2>6, <2>7, <2>8, TakeStopsNobody DEF StopsOnly
  <1>. HIDE DEF g
  <1>4. CASE SendResumes(s) \/ OverflowResumes(s)
    <2>. DEFINE p == Prune(c)
                k == Prune(a)
    <2>1. reg.outcome[s] \in {"cancelled", "keep", "run"}
      BY <1>4, ToldSend DEF SendResumes, OverflowResumes
    <2>2. \/ reg' = reg \/ reg' = a \/ reg' = c \/ reg' = p \/ TakeOrRefuse(k, s)
      BY <1>4, <2>1 DEF SendResumes, OverflowResumes
    <2>3. Sound(a) /\ reg.running \ {s} \subseteq a.running
      BY <1>1, AbandonMoves DEF Moves
    <2>4. Sound(c) /\ c.running = reg.running BY <1>1, ClaimStill DEF Still
    <2>. HIDE DEF a, c
    <2>5. Sound(k) /\ a.running \subseteq k.running /\ c.running \subseteq p.running
      BY <2>3, <2>4, PruneStill DEF Still, Moves
    <2>. HIDE DEF p, k
    <2>. QED BY <1>1, <2>2, <2>3, <2>4, <2>5, TakeStopsNobody DEF StopsOnly
  <1>5. CASE SendNow(s)
    <2>1. reg.running \subseteq reg'.running
      BY <1>1, <1>5, SendWaitingNowStill DEF SendNow, Still, Moves
    <2>. QED BY <2>1 DEF StopsOnly
  <1>6. Sound(v) /\ reg.running \subseteq v.running
    BY <1>1, RevealStill DEF Still, Moves
  <1>7. CASE AgentGone(s) \/ KeeperMoves(s)
    BY <1>6, <1>7 DEF AgentGone, KeeperMoves, StopsOnly
  <1>8. CASE KeeperReleases(s)
    <2>1. reg' = Release(v, s, NoEnd) BY <1>8 DEF KeeperReleases
    <2>. HIDE DEF v
    <2>2. v.running \ {s} \subseteq reg'.running
      BY <1>1, <1>6, <2>1, ReleaseMoves, NoEndIsAnEnd DEF Moves
    <2>. QED BY <1>6, <2>2 DEF StopsOnly
  <1>. QED BY <1>3, <1>4, <1>5, <1>7, <1>8 DEF SendStep

\* A click and a turn that never waits stop nobody.
LEMMA TakersStopNobody ==
  ASSUME TurnInv,
         \/ \E c \in Clicks : ClickStep(c)
         \/ \E w \in Wakes : WakeArrives(w)
  PROVE  reg.running \subseteq reg'.running
  <1>. DEFINE g == Prune(reg)
  <1>1. Sound(reg) BY DEF TurnInv
  <1>2. Sound(g) /\ g \in RegistryType /\ reg.running \subseteq g.running
    BY <1>1, PruneStill DEF Still, Moves, Sound
  <1>3. ASSUME NEW c \in Clicks, ClickStep(c) PROVE reg.running \subseteq reg'.running
    <2>. DEFINE more == g.clickHolds \cup {c}
                fewer == g.clickHolds \ {c}
                k == [g EXCEPT !.clickHolds = more]
                l == [g EXCEPT !.clickHolds = fewer]
    <2>1. c \in Requests /\ more \in SUBSET Clicks /\ fewer \in SUBSET Clicks
      BY <1>2 DEF Requests, RegistryType
    <2>2. reg' = k \/ reg' = reg \/ TakeOrRefuse(g, c) \/ TakeOrRefuse(l, c)
      BY <1>3 DEF ClickStep, ClickArrives, ClickWaitEnds, ClickReadsCard,
                  ClickRecordsAnswer
    <2>. HIDE DEF g, more, fewer
    <2>3. Sound(l) /\ l.running = g.running /\ k.running = g.running
      BY <1>2, <2>1, ClickHoldsStill DEF Still, RegistryType
    <2>. HIDE DEF k, l
    <2>. QED BY <1>2, <2>1, <2>2, <2>3, TakeStopsNobody
  <1>4. ASSUME NEW w \in Wakes, WakeArrives(w) PROVE reg.running \subseteq reg'.running
    <2>1. w \in Requests /\ (reg' = reg \/ TakeOrRefuse(g, w))
      BY <1>4 DEF WakeArrives, Requests
    <2>. HIDE DEF g
    <2>. QED BY <1>2, <2>1, TakeStopsNobody
  <1>. QED BY <1>3, <1>4

\* The interrupt route, the drains, the timers and the delete stop only a send
\* that was handed the chat and has yet to resume.
LEMMA OthersStopTheHanded ==
  ASSUME TurnInv,
         \/ \E m \in Msgs \cup {None}, all \in BOOLEAN : Stop(m, all)
         \/ Shutdown \/ RestoreDrains \/ DeleteStep \/ TimeStep
  PROVE  reg.running \ reg.handed \subseteq reg'.running
  <1>1. Sound(reg) /\ reg \in RegistryType BY DEF TurnInv, Sound
  <1>2. ASSUME NEW m \in Msgs \cup {None}, NEW all \in BOOLEAN, Stop(m, all)
        PROVE  reg.running \subseteq reg'.running
    <2>. DEFINE k == IF all THEN KeepLine(reg) ELSE reg
                g == Prune(k)
    <2>1. Sound(k) /\ reg.running \subseteq k.running
      BY <1>1, KeepLineStill DEF Still, Moves
    <2>2. reg' = AbortStream(g) \/ reg' = StopTurn(g) \/ reg' = ClearTurn(g, m)
      BY <1>2 DEF Stop
    <2>. HIDE DEF k
    <2>3. Sound(g) /\ k.running \subseteq g.running
      BY <2>1, PruneStill DEF Still, Moves
    <2>. HIDE DEF g
    <2>4. g.running \subseteq reg'.running
      BY <2>2, <2>3, AbortStreamStill, StopTurnStill, ClearTurnStill DEF Still, Moves
    <2>. QED BY <2>1, <2>3, <2>4
  <1>3. CASE Shutdown \/ RestoreDrains \/ BackstopFires \/ PrunedElsewhere
    BY <1>1, <1>3, KeepLineStill, BackstopTickStill, PruneStill
       DEF Shutdown, RestoreDrains, BackstopFires, PrunedElsewhere, Still, Moves
  <1>4. CASE \/ \E clock \in Clocks : BoundPasses(clock)
             \/ \E r \in Requests : HandoverWaitPasses(r)
    BY <1>1, <1>4 DEF BoundPasses, HandoverWaitPasses, RegistryType
  <1>5. CASE DeleteBegins
    <2>. DEFINE g == BeginDelete(reg)
                d == [reg EXCEPT !.deleting = TRUE]
    <2>1. d.running = reg.running BY <1>1 DEF RegistryType
    <2>2. Sound(g) /\ Moves(d, g, {}, {reg.lock} \cap reg.handed)
      BY <1>1, BeginDeleteMoves
    <2>3. reg' = g \/ reg' = StopWhatRuns(g) BY <1>5 DEF DeleteBegins
    <2>. HIDE DEF g, d
    <2>4. reg.running \ reg.handed \subseteq g.running BY <2>1, <2>2 DEF Moves
    <2>5. g.running \subseteq StopWhatRuns(g).running
      BY <2>2, StopWhatRunsStill DEF Still, Moves
    <2>. QED BY <2>3, <2>4, <2>5
  <1>6. CASE DeletePolls
    BY <1>1, <1>6, StopWhatRunsStill DEF DeletePolls, Still, Moves
  <1>7. CASE DeleteRefused \/ DeleteSwept
    <2>1. \E g \in {reg, CancelLine(reg)} : reg' = EndDelete(g)
      BY <1>7 DEF DeleteRefused, DeleteSwept
    <2>2. PICK g \in {reg, CancelLine(reg)} : reg' = EndDelete(g) BY <2>1
    <2>3. Sound(g) /\ reg.running \subseteq g.running
      BY <1>1, <2>2, CancelLineStill DEF Still, Moves
    <2>. DEFINE y == [g EXCEPT !.deleting = FALSE]
    <2>4. y.running = g.running BY <2>3 DEF Sound, RegistryType
    <2>5. y.running \subseteq EndDelete(g).running
      BY <2>3, EndDeleteStill DEF Still, Moves
    <2>. QED BY <2>2, <2>3, <2>4, <2>5
  <1>. QED BY <1>2, <1>3, <1>4, <1>5, <1>6, <1>7 DEF DeleteStep, TimeStep

\* A request in its finally is counted until its own release.
LEMMA FinallyCounts ==
  ASSUME TurnInv, [Next]_vars, NEW r \in Requests,
         pc[r] \in Finally, pc'[r] = pc[r], r \in reg.running
  PROVE  r \in reg'.running
  <1>1. Sound(reg) /\ reg \in RegistryType /\ pc \in [Requests -> Places]
    BY DEF TurnInv, TypeOK, Sound
  <1>2. r \notin reg.handed
    BY <1>1 DEF TurnInv, SendPlaced, InLine, Finally, RegistryType
  <1>3. ASSUME NEW t \in Requests, RequestStep(t) PROVE r \in reg'.running
    <2>1. CASE Releases(t)
      <3>1. EndOf(t) \in Ends BY RequestsAssumption DEF EndOf, Ends
      <3>2. reg' = Release(reg, t, EndOf(t)) /\ pc' = [pc EXCEPT ![t] = "done"]
        BY <2>1 DEF Releases, Goto
      <3>3. reg.running \ {t} \subseteq reg'.running
        BY <1>1, <3>1, <3>2, ReleaseMoves DEF Moves
      <3>4. r # t BY <1>1, <3>2 DEF Finally
      <3>. QED BY <3>3, <3>4
    <2>2. CASE \/ TurnBegins(t) \/ Checkpoint(t) \/ RunStarts(t) \/ RaisesCard(t)
               \/ RunEnds(t) \/ RunsAgain(t) \/ Leaves(t)
      <3>1. \/ reg' = reg \/ reg' = Reveal(reg, t)
            \/ reg' = OpenStream(reg, MsgOf[t]) \/ reg' = CloseStream(reg, MsgOf[t])
        BY <2>2 DEF TurnBegins, Checkpoint, RunStarts, RaisesCard, RunEnds,
                    RunsAgain, Leaves
      <3>2. MsgOf[t] \in Msgs BY RequestsAssumption
      <3>. QED BY <1>1, <3>1, <3>2, RevealStill, OpenStreamStill, CloseStreamStill
               DEF Still, Moves
    <2>. QED BY <1>3, <2>1, <2>2 DEF RequestStep
  <1>4. ASSUME NEW s \in Sends, SendStep(s) PROVE r \in reg'.running
    <2>1. CASE r # s BY <1>4, <2>1, SendStopsItself DEF StopsOnly
    <2>2. CASE r = s
      <3>1. SendNow(s)
        BY <1>4, <2>2 DEF SendStep, SendArrives, SendThrowsInLine, SendResumes,
           OverflowResumes, AgentGone, KeeperMoves, KeeperReleases, Finally
      <3>. QED BY <1>1, <3>1, SendWaitingNowStill DEF SendNow, Still, Moves
    <2>. QED BY <2>1, <2>2
  <1>5. CASE UNCHANGED vars BY <1>5 DEF vars
  <1>. QED BY <1>2, <1>3, <1>4, <1>5, TakersStopNobody, OthersStopTheHanded DEF Next

\* What is known of a card is known until the release.
LEMMA CardsStayPlaced ==
  ASSUME TurnInv, CardsPlaced, [Next]_vars
  PROVE  CardsPlaced'
  <1>1. ASSUME NEW r \in Requests, pc'[r] \in NoRunYet PROVE ending'[r] = "none"
    BY <1>1, EndsMove DEF EndMoves, CardsPlaced
  <1>2. ASSUME NEW r \in Requests, pc'[r] \in Finally, ending'[r] = "card"
        PROVE  r \in reg'.running
    <2>1. CASE pc'[r] = pc[r] /\ ending'[r] = ending[r]
      BY <1>2, <2>1, FinallyCounts DEF CardsPlaced
    <2>2. CASE Leaves(r)
      <3>1. /\ pc[r] \in {"owner", "recording", "setup", "checked", "ended", "ownReleased"}
            /\ reg' = reg
            /\ ending' = ending \/ ending' = [ending EXCEPT ![r] = "none"]
        BY <2>2 DEF Leaves
      <3>2. ending[r] = "card" BY <1>2, <3>1 DEF TurnInv, TypeOK
      <3>3. pc[r] \in Writing BY <3>1, <3>2 DEF CardsPlaced, NoRunYet, Writing
      <3>. QED BY <3>1, <3>3 DEF TurnInv, RequestPlaced
    <2>. QED BY <1>2, <2>1, <2>2, EndsMove DEF EndMoves
  <1>. QED BY <1>1, <1>2 DEF CardsPlaced

LEMMA CardsPlacedInvariant == Spec => [](TurnInv /\ CardsPlaced)
  <1>1. Init => CardsPlaced BY DEF Init, CardsPlaced, Finally
  <1>2. TurnInv /\ CardsPlaced /\ [Next]_vars => CardsPlaced' BY CardsStayPlaced
  <1>. QED BY <1>1, <1>2, TurnInvariant, PTL DEF Spec

\* settleQueueCardHoldAtRelease and handOffSessionTurn: a card on which a send
\* would wait is held for.
LEMMA ReleaseHoldsForCard ==
  ASSUME NEW g, Sound(g), NEW r \in Requests, r \in g.running, NEW end \in Ends,
         end.card # None, end.answer # "expiry", Runnable(g) # {},
         g.lock = r \/ (g.lock = None /\ g.lastTurn = r)
  PROVE  LET h == Release(g, r, end) IN h.hold = end.card /\ h.lock = None
  <1>. DEFINE f == [g EXCEPT !.running = @ \ {r}]
              x == SettleHold(f, r, end)
              d == DropLock(x)
              h == Release(g, r, end)
  <1>1. g \in RegistryType /\ r # None BY RequestsAssumption DEF Sound
  <1>2. /\ f \in RegistryType /\ f.line = g.line /\ f.kept = g.kept /\ f.lock = g.lock
    BY <1>1 DEF RegistryType
  <1>3. h = IF g.lock = r THEN HandOff(d) ELSE HandOff(x) BY <1>1 DEF Release
  <1>. HIDE DEF f, h
  <1>4. Runnable(f) # {} BY <1>2 DEF Runnable, Waiting
  <1>5. x = [EndHold(f) EXCEPT !.hold = end.card] BY <1>4 DEF SettleHold
  <1>. HIDE DEF x
  <1>6. end.card \in Msgs BY DEF Ends
  <1>7. /\ x \in RegistryType /\ x.line = g.line /\ x.lock = g.lock /\ x.hold = end.card
    BY <1>2, <1>5, <1>6 DEF EndHold, RegistryType
  <1>8. d.line = g.line /\ d.lock = None /\ d.hold = end.card
    BY <1>7 DEF DropLock, RegistryType
  <1>. HIDE DEF d
  <1>9. g.line # <<>> BY <1>1, Members DEF Runnable, Waiting, RegistryType
  <1>10. HandOff(d) = d /\ HandOff(x) = x
    BY <1>7, <1>8, <1>9 DEF HandOff, HeldBack
  <1>. QED BY <1>1, <1>3, <1>7, <1>8, <1>10 DEF h

\* A reply that lets go of the chat at a card leaves the line holding for it
\* (settleQueueCardHoldAtRelease), also when its lock went first and nobody has
\* had the chat since (BL-906): its registration has outlived its lock.
THEOREM CardsHoldTheLine == Spec => CardHoldsLine
  <1>1. TurnInv /\ CardsPlaced /\ [Next]_vars =>
          [\A r \in Requests :
             /\ Releases(r) /\ EndOf(r).card # None /\ EndOf(r).answer # "expiry"
             /\ reg.lock = r \/ (reg.lock = None /\ reg.lastTurn = r)
             /\ Runnable(reg) # {}
             => reg'.hold = MsgOf[r] /\ reg'.lock = None]_vars
    <2>1. SUFFICES ASSUME TurnInv, CardsPlaced, NEW r \in Requests, Releases(r),
                          EndOf(r).card # None, EndOf(r).answer # "expiry",
                          reg.lock = r \/ (reg.lock = None /\ reg.lastTurn = r),
                          Runnable(reg) # {}
                   PROVE  reg'.hold = MsgOf[r] /\ reg'.lock = None
      OBVIOUS
    <2>2. ending[r] = "card" /\ EndOf(r).card = MsgOf[r] BY <2>1 DEF EndOf
    <2>3. EndOf(r) \in Ends BY RequestsAssumption DEF EndOf, Ends
    <2>4. r \in reg.running BY <2>1, <2>2 DEF Releases, CardsPlaced, Finally
    <2>5. reg' = Release(reg, r, EndOf(r)) BY <2>1 DEF Releases
    <2>. QED BY <2>1, <2>2, <2>3, <2>4, <2>5, ReleaseHoldsForCard DEF TurnInv
  <1>. QED BY <1>1, CardsPlacedInvariant, PTL DEF Spec, CardHoldsLine

-----------------------------------------------------------------------------
(* Who may end a card hold while a send can still run behind the card.       *)

\* Of the sends that could run behind g's card, those that still wait are kept.
AllKept(g, h) == Runnable(g) \cap Waiting(h) \subseteq h.kept

\* A function that keeps the hold, or keeps what waits behind it.
Stands(g, h) ==
  /\ g.kept \subseteq h.kept
  /\ Waiting(h) \subseteq Waiting(g)
  /\ g.hold # None => h.hold # None \/ AllKept(g, h)

\* Functions that leave the line and the hold alone.
LEMMA QuietStands ==
  ASSUME NEW g, NEW h, h.line = g.line, h.kept = g.kept, h.hold = g.hold
  PROVE  Stands(g, h)
  BY DEF Stands, Waiting

LEMMA StandsTransitive ==
  ASSUME NEW g, NEW h, NEW k, Stands(g, h), Stands(h, k)
  PROVE  Stands(g, k)
  BY DEF Stands, AllKept, Runnable

\* handOffSessionTurn: no hold is left behind by an empty line, nor passed over.
LEMMA HandOffStands ==
  ASSUME NEW g \in RegistryType
  PROVE  Stands(g, HandOff(g))
  <1>. DEFINE h == HandOff(g)
              head == Head(g.line)
  <1>1. g.line \in Seq(Sends) BY DEF RegistryType
  <1>2. CASE g.line = <<>>
    <2>1. h = [EndHold(g) EXCEPT !.backstop = FALSE] BY <1>2 DEF HandOff
    <2>2. h.line = g.line /\ h.kept = g.kept BY <2>1 DEF EndHold, RegistryType
    <2>3. Waiting(h) = {} BY <1>1, <1>2, <2>2, Members DEF Waiting
    <2>. QED BY <2>2, <2>3 DEF Stands, AllKept
  <1>3. CASE g.line # <<>> /\ HeldBack(g)
    <2>1. h = g BY <1>3 DEF HandOff
    <2>. QED BY <2>1, QuietStands
  <1>4. CASE g.line # <<>> /\ ~HeldBack(g)
    <2>1. h = [CreateEntry(g, head) EXCEPT
                !.line = Tail(g.line), !.backstop = Tail(g.line) # <<>>,
                !.unclaimed = IF head \in g.kept THEN @ ELSE @ \cup {head},
                !.handed = @ \cup {head}, !.outcome[head] = HandedTo(g, head)]
      BY <1>4 DEF HandOff
    <2>. HIDE DEF head
    <2>2. h.line = Tail(g.line) /\ h.kept = g.kept
      BY <2>1 DEF CreateEntry, RegistryType
    <2>3. Waiting(h) \subseteq Waiting(g)
      BY <1>1, <1>4, <2>2, MembersOfTail DEF Waiting
    <2>4. g.hold = None BY <1>4 DEF HeldBack
    <2>. QED BY <2>2, <2>3, <2>4 DEF Stands
  <1>. QED BY <1>2, <1>3, <1>4

LEMMA HandOffStandsAfter ==
  ASSUME NEW g, NEW h \in RegistryType, Stands(g, h)
  PROVE  Stands(g, HandOff(h))
  BY HandOffStands, StandsTransitive

\* keepQueuedSessionTurns keeps all that waits behind the card.
LEMMA KeepLineStands ==
  ASSUME NEW g, Sound(g)
  PROVE  Stands(g, KeepLine(g))
  <1>1. KeepLine(g).line = g.line /\ KeepLine(g).kept = g.kept \cup Waiting(g)
    BY KeepLineKeeps DEF Untold
  <1>. QED BY <1>1 DEF Stands, AllKept, Waiting

\* The functions that do not touch the line or the hold.
LEMMA QuietOnesStand ==
  ASSUME NEW g \in RegistryType
  PROVE  /\ Stands(g, g) /\ Stands(g, DropLock(g)) /\ Stands(g, RemoveStream(g))
         /\ Stands(g, StopTurn(g))
         /\ \A s \in Sends : Stands(g, Claim(g, s))
         /\ \A m \in Msgs : Stands(g, OpenStream(g, m)) /\ Stands(g, CloseStream(g, m))
         /\ \A r \in Requests : Stands(g, CreateEntry(g, r)) /\ Stands(g, Reveal(g, r))
         /\ \A H \in SUBSET Clicks : Stands(g, [g EXCEPT !.clickHolds = H])
  <1>. DEFINE Same(h) == h.line = g.line /\ h.kept = g.kept /\ h.hold = g.hold
  <1>1. /\ Same(g) /\ Same(DropLock(g)) /\ Same(StopTurn(g))
        /\ \A s \in Sends : Same(Claim(g, s))
    BY DEF DropLock, StopTurn, Claim, RegistryType
  <1>2. /\ Same(RemoveStream(g))
        /\ \A m \in Msgs : Same(OpenStream(g, m)) /\ Same(CloseStream(g, m))
    BY DEF RemoveStream, OpenStream, CloseStream, RegistryType
  <1>3. \A r \in Requests : Same(CreateEntry(g, r)) /\ Same(Reveal(g, r))
    BY DEF CreateEntry, Reveal, RegistryType
  <1>4. \A H \in SUBSET Clicks : Same([g EXCEPT !.clickHolds = H])
    BY DEF RegistryType
  <1>5. \A h : Same(h) => Stands(g, h) BY QuietStands
  <1>. HIDE DEF Same
  <1>. QED BY <1>1, <1>2, <1>3, <1>4, <1>5

\* pruneStaleSessionTurns ends no hold of a line that waits.
LEMMA PruneStands ==
  ASSUME NEW g, Sound(g)
  PROVE  Stands(g, Prune(g)) /\ Prune(g).hold \in {g.hold, None}
  <1>. DEFINE p == PruneStream(g)
              q == IF "turnStale" \notin p.overdue /\ p.stream # None
                   THEN RemoveStream(p) ELSE p
              d == DropLock(q)
  <1>1. \A h \in RegistryType : /\ RemoveStream(h) \in RegistryType
                                /\ RemoveStream(h).hold = h.hold
                                /\ RemoveStream(h).lock = h.lock
    BY ZenonT(60) DEF RemoveStream, RegistryType
  <1>2. p \in RegistryType /\ Stands(g, p) /\ p.hold = g.hold
    <2>1. g \in RegistryType BY DEF Sound
    <2>2. Stands(g, g) /\ Stands(g, RemoveStream(g)) BY <2>1, QuietOnesStand
    <2>3. p = g \/ p = RemoveStream(g) BY DEF PruneStream
    <2>. HIDE DEF p
    <2>. QED BY <1>1, <2>1, <2>2, <2>3
  <1>3. Prune(g) = IF LockIsStale(p) THEN HandOff(d) ELSE p
    BY DEF Prune, PruneLock
  <1>. HIDE DEF p
  <1>4. q \in RegistryType /\ Stands(g, q) /\ q.hold = g.hold /\ q.lock = p.lock
    BY <1>1, <1>2, QuietOnesStand, StandsTransitive
  <1>. HIDE DEF q
  <1>5. LockIsStale(p) => d \in RegistryType /\ Stands(g, d) /\ d.hold = g.hold
    <2>1. LockIsStale(p) => q.lock \in Requests
      BY <1>2, <1>4 DEF LockIsStale, RegistryType
    <2>2. q.lock \in Requests => d \in RegistryType /\ d.hold = q.hold
      BY <1>4 DEF DropLock, RegistryType
    <2>3. Stands(q, d) BY <1>4, QuietOnesStand
    <2>. HIDE DEF d
    <2>4. Stands(g, d) BY <1>4, <2>3, StandsTransitive
    <2>. QED BY <1>4, <2>1, <2>2, <2>4
  <1>. HIDE DEF d
  <1>6. \A h \in RegistryType : HandOff(h).hold \in {h.hold, None}
    BY DEF HandOff, EndHold, CreateEntry, RegistryType
  <1>. QED BY <1>2, <1>3, <1>5, <1>6, HandOffStandsAfter

\* releaseSessionTurn ends a hold for the next card, or keeps what waits.
LEMMA ReleaseStands ==
  ASSUME NEW g, Sound(g), NEW r \in Requests, NEW end \in Ends
  PROVE  Stands(g, Release(g, r, end))
  <1>. DEFINE f == [g EXCEPT !.running = @ \ {r}]
              x == SettleHold(f, r, end)
              d == DropLock(x)
              h == Release(g, r, end)
  <1>1. g \in RegistryType BY DEF Sound
  <1>2. /\ f \in RegistryType
        /\ f.line = g.line /\ f.kept = g.kept /\ f.outcome = g.outcome
        /\ f.handed = g.handed /\ f.unclaimed = g.unclaimed
        /\ f.backstop = g.backstop /\ f.hidden = g.hidden /\ f.hold = g.hold
        /\ f.lock = g.lock /\ f.running = g.running \ {r} /\ f.dropped = g.dropped
    BY <1>1 DEF RegistryType
  <1>3. \/ h = HandOff(d) /\ g.lock = r
        \/ h = HandOff(x) \/ h = HandOff(f)
    BY DEF Release
  <1>. HIDE DEF f, h
  <1>4. Waiting(f) = Waiting(g) /\ Runnable(f) = Runnable(g)
    BY <1>2 DEF Waiting, Runnable
  <1>5. Sound(f) BY <1>2, <1>4 DEF Sound
  <1>6. Stands(g, f) BY <1>2, QuietStands
  <1>7. x \in RegistryType /\ Sound(x) /\ x.lock = g.lock
    BY <1>2, <1>5, SettleHoldStill DEF Still, Sound
  <1>8. Stands(f, x)
    <2>1. \/ x = f \/ x = KeepLine(f)
          \/ end.card # None /\ x = [EndHold(f) EXCEPT !.hold = end.card]
          \/ \E m : m # None /\ x = [f EXCEPT !.hold = m]
      BY DEF SettleHold
    <2>2. CASE x = f BY <1>2, <2>2, QuietOnesStand
    <2>3. CASE x = KeepLine(f) BY <1>5, <2>3, KeepLineStands
    <2>4. CASE end.card # None /\ x = [EndHold(f) EXCEPT !.hold = end.card]
      <3>1. x.line = f.line /\ x.kept = f.kept /\ x.hold # None
        BY <1>2, <2>4 DEF EndHold, RegistryType
      <3>. QED BY <3>1 DEF Stands, Waiting
    <2>5. CASE \E m : m # None /\ x = [f EXCEPT !.hold = m]
      <3>1. x.line = f.line /\ x.kept = f.kept /\ x.hold # None
        BY <1>2, <2>5 DEF RegistryType
      <3>. QED BY <3>1 DEF Stands, Waiting
    <2>. QED BY <2>1, <2>2, <2>3, <2>4, <2>5
  <1>. HIDE DEF x
  <1>9. Stands(g, x) BY <1>6, <1>8, StandsTransitive
  <1>10. g.lock = r => d \in RegistryType /\ Stands(g, d)
    <2>1. g.lock = r => x.lock # None BY <1>7, RequestsAssumption
    <2>2. g.lock = r => d \in RegistryType BY <1>7, <2>1, DropLockStill DEF Still, Sound
    <2>3. Stands(x, d) BY <1>7, QuietOnesStand
    <2>. QED BY <1>9, <2>2, <2>3, StandsTransitive
  <1>. HIDE DEF d
  <1>. QED BY <1>2, <1>3, <1>6, <1>7, <1>9, <1>10, HandOffStandsAfter DEF h

\* abandonQueuedSessionTurn, of a send that has left the line.
LEMMA AbandonStands ==
  ASSUME NEW g, Sound(g), NEW s \in Sends, s \notin Waiting(g)
  PROVE  Stands(g, Abandon(g, s))
  <1>. DEFINE c == Claim(g, s)
  <1>1. g \in RegistryType /\ s \in Requests BY DEF Sound, Requests
  <1>2. Abandon(g, s) = g \/ Abandon(g, s) = Release(c, s, NoEnd) BY DEF Abandon
  <1>3. Sound(c) /\ Stands(g, c) BY <1>1, ClaimStill, QuietOnesStand DEF Still
  <1>. HIDE DEF c
  <1>4. Stands(c, Release(c, s, NoEnd)) BY <1>1, <1>3, ReleaseStands, NoEndIsAnEnd
  <1>. QED BY <1>1, <1>2, <1>3, <1>4, QuietOnesStand, StandsTransitive

\* abortStream and stopWhatRuns
LEMMA AbortStands ==
  ASSUME NEW g, Sound(g)
  PROVE  Stands(g, AbortStream(g)) /\ Stands(g, StopWhatRuns(g))
  <1>1. ASSUME NEW x, Sound(x) PROVE Stands(x, AbortStream(x))
    <2>. DEFINE p == Prune(x)
                h == [p EXCEPT !.aborted = TRUE, !.overdue = @ \ {"abort"}]
    <2>1. p \in RegistryType /\ Stands(x, p)
      BY <1>1, PruneStill, PruneStands DEF Still, Sound
    <2>2. AbortStream(x) = IF p.stream = None THEN p ELSE h BY DEF AbortStream
    <2>. HIDE DEF p
    <2>3. h.line = p.line /\ h.kept = p.kept /\ h.hold = p.hold
      BY <2>1 DEF RegistryType
    <2>. HIDE DEF h
    <2>4. Stands(p, h) BY <2>3, QuietStands
    <2>. QED BY <2>1, <2>2, <2>4, StandsTransitive
  <1>. DEFINE m == [g EXCEPT !.signalled = @ \cup g.running]
  <1>2. g \in RegistryType BY DEF Sound
  <1>3. /\ m \in RegistryType
        /\ m.line = g.line /\ m.kept = g.kept /\ m.outcome = g.outcome
        /\ m.handed = g.handed /\ m.unclaimed = g.unclaimed
        /\ m.backstop = g.backstop /\ m.hidden = g.hidden /\ m.hold = g.hold
        /\ m.lock = g.lock /\ m.running = g.running /\ m.dropped = g.dropped
    BY <1>2 DEF RegistryType
  <1>4. StopWhatRuns(g) = AbortStream(m) BY DEF StopWhatRuns
  <1>. HIDE DEF m
  <1>5. Sound(m) /\ Stands(g, m) BY <1>3, SameLine, QuietStands
  <1>6. Stands(m, AbortStream(m)) BY <1>1, <1>5
  <1>. QED BY <1>1, <1>4, <1>5, <1>6, StandsTransitive

\* clearSessionTurn, the line's timer, and the end of a delete.
LEMMA LineStands ==
  ASSUME NEW g, Sound(g)
  PROVE  /\ \A m : Stands(g, ClearTurn(g, m))
         /\ Stands(g, BackstopTick(g))
         /\ Stands(g, EndDelete(g)) /\ Stands(g, EndDelete(CancelLine(g)))
  <1>1. g \in RegistryType BY DEF Sound
  <1>2. ASSUME NEW m PROVE Stands(g, ClearTurn(g, m))
    <2>1. CASE g.lock = None BY <1>1, <2>1, QuietOnesStand DEF ClearTurn
    <2>2. CASE g.lock # None
      <3>1. DropLock(g) \in RegistryType BY <2>2, DropLockStill DEF Still, Sound
      <3>2. Stands(g, HandOff(DropLock(g)))
        BY <1>1, <3>1, QuietOnesStand, HandOffStandsAfter
      <3>. QED BY <1>1, <3>2, QuietOnesStand DEF ClearTurn
    <2>. QED BY <2>1, <2>2
  <1>3. Stands(g, BackstopTick(g))
    <2>. DEFINE p == Prune(g)
                k == KeepExpiredHold(p)
    <2>1. Sound(p) /\ p \in RegistryType /\ Stands(g, p)
      BY PruneStill, PruneStands DEF Still, Sound
    <2>. HIDE DEF p
    <2>2. k \in RegistryType /\ Stands(p, k)
      BY <2>1, KeepLineStill, KeepLineStands, QuietOnesStand
         DEF KeepExpiredHold, Still, Sound
    <2>3. BackstopTick(g) = HandOff(k) BY DEF BackstopTick, p
    <2>. HIDE DEF k
    <2>. QED BY <2>1, <2>2, <2>3, HandOffStandsAfter, StandsTransitive
  <1>4. ASSUME NEW x \in RegistryType, Stands(g, x) PROVE Stands(g, EndDelete(x))
    <2>. DEFINE y == [x EXCEPT !.deleting = FALSE]
    <2>1. y \in RegistryType /\ y.line = x.line /\ y.kept = x.kept /\ y.hold = x.hold
      BY <1>4 DEF RegistryType
    <2>2. EndDelete(x) = HandOff(y) BY DEF EndDelete
    <2>. HIDE DEF y
    <2>. QED BY <1>4, <2>1, <2>2, QuietStands, HandOffStandsAfter, StandsTransitive
  <1>5. CancelLine(g) \in RegistryType /\ Stands(g, CancelLine(g))
    <2>. DEFINE e == EndHold(g)
                none == <<>>
                c == CancelLine(g)
    <2>1. c \in RegistryType BY CancelLineStill DEF Still, Sound
    <2>2. e \in RegistryType /\ e.kept = g.kept BY <1>1 DEF EndHold, RegistryType
    <2>3. c.line = <<>> /\ c.kept = g.kept
      <3>1. \E hd, o : c = [e EXCEPT !.line = none, !.backstop = FALSE, !.lastTurn = None,
                              !.hidden = hd, !.outcome = o]
        BY DEF CancelLine
      <3>. HIDE DEF e, c, none
      <3>2. c.line = none /\ c.kept = e.kept BY <2>2, <3>1 DEF RegistryType
      <3>. QED BY <2>2, <3>2 DEF none
    <2>. HIDE DEF e, c
    <2>4. Waiting(c) = {} BY <2>3, EmptySeq, Members DEF Waiting
    <2>. QED BY <2>1, <2>3, <2>4 DEF Stands, AllKept, c
  <1>. QED BY <1>1, <1>2, <1>3, <1>4, <1>5, QuietOnesStand

\* What a step may do to the hold: stand by it, or be the user's.
HoldStands(g, h) == g.hold # None => h.hold # None \/ AllKept(g, h)

UserActs ==
  \/ \E c \in Clicks : reg'.lock = c /\ MsgOf[c] = reg.hold
  \/ \E s \in Sends : \/ SendNow(s) \/ SendThrowsInLine(s)
                      \/ SendArrives(s) /\ s \notin reg'.kept

\* The lock check and the registration: a click ends the hold of its own card.
LEMMA TakeStands ==
  ASSUME TurnInv, NEW g, Sound(g), Stands(reg, g), g.hold # None => g.hold = reg.hold,
         NEW r \in Requests, TakeOrRefuse(g, r)
  PROVE  HoldStands(reg, reg') \/ UserActs
  <1>. DEFINE e == CreateEntry(g, r)
  <1>1. g \in RegistryType BY DEF Sound
  <1>2. CASE reg' = g BY <1>2 DEF Stands, HoldStands
  <1>3. CASE reg' = Register(g, r) /\ ~Refuses(g, r)
    <2>1. CASE r \in Clicks /\ g.hold = MsgOf[r]
      <3>1. MsgOf[r] # None BY RequestsAssumption
      <3>2. reg'.lock = r BY <1>1, <1>3, RegisterStill
      <3>. QED BY <2>1, <3>1, <3>2 DEF UserActs
    <2>2. CASE ~(r \in Clicks /\ g.hold = MsgOf[r])
      <3>1. reg' = e BY <1>3, <2>2 DEF Register
      <3>2. Stands(g, e) BY <1>1, QuietOnesStand
      <3>. QED BY <3>1, <3>2, StandsTransitive DEF Stands, HoldStands
    <2>. QED BY <2>1, <2>2
  <1>. QED BY <1>2, <1>3 DEF TakeOrRefuse

\* A send over the cap joins the line behind the card, and is kept.
LEMMA OverflowStands ==
  ASSUME NEW g, Sound(g), Stands(reg, g), NEW s \in Sends, s \notin Waiting(reg),
         s \notin Waiting(g), g.outcome[s] = "none"
  PROVE  HoldStands(reg, Enqueue(g, s, TRUE))
  <1>. DEFINE j == [g EXCEPT !.line = Append(@, s), !.hidden = @ \cup {s},
                             !.kept = @ \cup {s}, !.backstop = TRUE]
              e == Enqueue(g, s, TRUE)
  <1>1. g \in RegistryType /\ g.line \in Seq(Sends) BY SoundTypes
  <1>2. Waiting(e) \subseteq Waiting(g) \cup {s} /\ e.kept = g.kept \cup {s}
    <2>1. e.kept = g.kept \cup {s} BY EnqueueJoins
    <2>2. Moves(g, e, {s}, {}) BY EnqueueMoves
    <2>. HIDE DEF e
    <2>. QED BY <2>1, <2>2 DEF Moves
  <1>3. CASE g.hold = None
    BY <1>2, <1>3 DEF Stands, HoldStands, AllKept, Runnable
  <1>4. CASE g.hold # None
    <2>1. e = HandOff(j) BY DEF Enqueue
    <2>2. j.hold = g.hold /\ j.line # <<>>
      <3>1. Append(g.line, s) # <<>> BY <1>1, AppendProperties
      <3>. DEFINE a == Append(g.line, s)
      <3>2. j.hold = g.hold /\ j.line = a BY <1>1 DEF RegistryType
      <3>. QED BY <3>1, <3>2
    <2>. HIDE DEF j, e
    <2>3. e.hold = g.hold BY <1>4, <2>1, <2>2 DEF HandOff, HeldBack
    <2>. QED BY <1>4, <2>3 DEF HoldStands, e
  <1>. QED BY <1>3, <1>4

\* A send that arrives.
LEMMA SendArrivesStands ==
  ASSUME TurnInv, NEW s \in Sends, SendArrives(s)
  PROVE  HoldStands(reg, reg') \/ UserActs
  <1>. DEFINE g == Prune(reg)
              overflow == Cardinality(Runnable(g)) >= Cap
  <1>1. Sound(reg) /\ reg \in RegistryType /\ s \in Requests /\ pc[s] = "idle"
    BY DEF TurnInv, Sound, Requests, SendArrives
  <1>2. Left(reg, s) /\ s \notin reg.kept /\ reg.outcome[s] = "none"
    BY <1>1, IdleSend
  <1>3. /\ Sound(g) /\ Stands(reg, g) /\ g.hold \in {reg.hold, None}
        /\ s \notin Waiting(g) /\ g.outcome[s] = "none" /\ s \notin g.kept
    BY <1>1, <1>2, PruneStill, PruneStands, LeftStays DEF Still, Left
  <1>4. overflow \in BOOLEAN OBVIOUS
  <1>5. \/ reg' = reg \/ TakeOrRefuse(g, s) \/ reg' = g
        \/ reg' = Enqueue(g, s, overflow)
    BY DEF SendArrives
  <1>. HIDE DEF g, overflow
  <1>6. CASE reg' = reg \/ reg' = g
    BY <1>1, <1>3, <1>6, QuietOnesStand DEF Stands, HoldStands
  <1>7. CASE TakeOrRefuse(g, s) BY <1>1, <1>3, <1>7, TakeStands
  <1>8. CASE reg' = Enqueue(g, s, overflow)
    <2>1. CASE overflow = TRUE
      BY <1>2, <1>3, <1>8, <2>1, OverflowStands DEF Left
    <2>2. CASE overflow = FALSE
      <3>1. reg'.kept = g.kept BY <1>3, <1>8, <2>2, EnqueueJoins
      <3>. QED BY <1>3, <3>1 DEF UserActs
    <2>. QED BY <1>4, <2>1, <2>2
  <1>. QED BY <1>5, <1>6, <1>7, <1>8

\* The steps of the other requests, and of a send past its arrival.
LEMMA RequestsStand ==
  ASSUME TurnInv,
         \/ \E r \in Requests : RequestStep(r)
         \/ \E s \in Sends : \/ SendResumes(s) \/ OverflowResumes(s)
                             \/ AgentGone(s) \/ KeeperMoves(s) \/ KeeperReleases(s)
         \/ \E c \in Clicks : ClickStep(c)
         \/ \E w \in Wakes : WakeArrives(w)
  PROVE  HoldStands(reg, reg') \/ UserActs
  <1>. DEFINE g == Prune(reg)
  <1>1. Sound(reg) /\ reg \in RegistryType BY DEF TurnInv, Sound
  <1>2. /\ Sound(g) /\ g \in RegistryType /\ Stands(reg, g)
        /\ g.hold \in {reg.hold, None}
    BY <1>1, PruneStill, PruneStands DEF Still, Sound
  <1>. HIDE DEF g
  <1>3. Stands(reg, reg) BY <1>1, QuietOnesStand
  <1>4. ASSUME NEW r \in Requests, RequestStep(r) PROVE HoldStands(reg, reg')
    <2>1. EndOf(r) \in Ends /\ MsgOf[r] \in Msgs
      BY RequestsAssumption DEF EndOf, Ends
    <2>2. \/ reg' = reg \/ reg' = Reveal(reg, r) \/ reg' = Release(reg, r, EndOf(r))
          \/ reg' = OpenStream(reg, MsgOf[r]) \/ reg' = CloseStream(reg, MsgOf[r])
      BY <1>4 DEF RequestStep, TurnBegins, Checkpoint, RunStarts, RaisesCard, RunEnds,
                  RunsAgain, Leaves, Releases
    <2>3. Stands(reg, reg') BY <1>1, <1>3, <2>1, <2>2, QuietOnesStand, ReleaseStands
    <2>. QED BY <2>3 DEF Stands, HoldStands
  <1>5. ASSUME NEW s \in Sends, SendResumes(s) \/ OverflowResumes(s)
        PROVE  HoldStands(reg, reg') \/ UserActs
    <2>. DEFINE a == Abandon(reg, s)
                c == Claim(reg, s)
                p == Prune(c)
                k == Prune(a)
    <2>1. /\ reg.outcome[s] \in {"cancelled", "keep", "run"} /\ s \notin Waiting(reg)
          /\ s \in Requests
      BY <1>5, ToldSend DEF SendResumes, OverflowResumes, Requests
    <2>2. \/ reg' = reg \/ reg' = a \/ reg' = c \/ reg' = p
          \/ TakeOrRefuse(k, s) /\ reg.outcome[s] = "run"
      BY <1>5, <2>1 DEF SendResumes, OverflowResumes
    <2>3. Sound(a) /\ Stands(reg, a) /\ (a.hold # None => a.hold = reg.hold)
      <3>1. Abandon(reg, s) = reg \/ Abandon(reg, s) = Release(c, s, NoEnd)
        BY <2>1 DEF Abandon
      <3>2. Sound(c) /\ c \in RegistryType BY <1>1, ClaimStill DEF Still, Sound
      <3>3. c.hold = reg.hold BY <1>1 DEF Claim, RegistryType
      <3>. HIDE DEF c
      <3>4. Release(c, s, NoEnd).hold \in {c.hold, None}
        <4>. DEFINE f == [c EXCEPT !.running = @ \ {s}]
                    h == Release(c, s, NoEnd)
        <4>1. s \notin Clicks BY RequestsAssumption
        <4>2. SettleHold(f, s, NoEnd) = f BY <4>1 DEF SettleHold, NoEnd
        <4>3. f \in RegistryType /\ f.hold = c.hold BY <3>2 DEF RegistryType
        <4>4. h = HandOff(f) \/ (h = HandOff(DropLock(f)) /\ f.lock = s)
          <5>1. f.lock = c.lock BY <3>2 DEF RegistryType
          <5>. HIDE DEF c
          <5>. QED BY <4>2, <5>1 DEF Release
        <4>. HIDE DEF f, h
        <4>5. f.lock = s => DropLock(f) \in RegistryType /\ DropLock(f).hold = f.hold
          BY <2>1, <4>3 DEF DropLock, RegistryType
        <4>6. \A x \in RegistryType : HandOff(x).hold \in {x.hold, None}
          BY DEF HandOff, EndHold, CreateEntry, RegistryType
        <4>7. h.hold \in {c.hold, None} BY <4>3, <4>4, <4>5, <4>6
        <4>. QED BY <4>7 DEF h
      <3>. QED BY <1>1, <2>1, <3>1, <3>3, <3>4, AbandonMoves, AbandonStands
    <2>4. Sound(c) /\ Stands(reg, c) BY <1>1, ClaimStill, QuietOnesStand DEF Still
    <2>. HIDE DEF a, c
    <2>5. Stands(reg, p) BY <2>4, PruneStands, StandsTransitive
    <2>6. /\ Sound(k) /\ Stands(reg, k)
          /\ k.hold # None => k.hold = reg.hold
      BY <2>3, PruneStill, PruneStands, StandsTransitive DEF Still
    <2>. HIDE DEF p, k
    <2>7. CASE TakeOrRefuse(k, s) BY <2>1, <2>6, <2>7, TakeStands
    <2>8. CASE reg' = reg \/ reg' = a \/ reg' = c \/ reg' = p
      BY <1>3, <2>3, <2>4, <2>5, <2>8 DEF Stands, HoldStands
    <2>. QED BY <2>2, <2>7, <2>8
  <1>6. ASSUME NEW s \in Sends, AgentGone(s) \/ KeeperMoves(s) \/ KeeperReleases(s)
        PROVE  HoldStands(reg, reg')
    <2>. DEFINE v == Reveal(reg, s)
    <2>1. s \in Requests /\ Sound(v) /\ Stands(reg, v)
      BY <1>1, RevealStill, QuietOnesStand DEF Still, Requests
    <2>2. reg' = reg \/ reg' = v \/ reg' = Release(v, s, NoEnd)
      BY <1>6 DEF AgentGone, KeeperMoves, KeeperReleases
    <2>. HIDE DEF v
    <2>3. Stands(reg, Release(v, s, NoEnd))
      BY <2>1, ReleaseStands, NoEndIsAnEnd, StandsTransitive
    <2>. QED BY <1>3, <2>1, <2>2, <2>3 DEF Stands, HoldStands
  <1>7. ASSUME NEW c \in Clicks, ClickStep(c) PROVE HoldStands(reg, reg') \/ UserActs
    <2>. DEFINE more == g.clickHolds \cup {c}
                fewer == g.clickHolds \ {c}
                k == [g EXCEPT !.clickHolds = more]
                l == [g EXCEPT !.clickHolds = fewer]
    <2>1. c \in Requests /\ more \in SUBSET Clicks /\ fewer \in SUBSET Clicks
      BY <1>2 DEF Requests, RegistryType
    <2>2. reg' = k \/ reg' = reg \/ TakeOrRefuse(g, c) \/ TakeOrRefuse(l, c)
      BY <1>7 DEF ClickStep, ClickArrives, ClickWaitEnds, ClickReadsCard,
                  ClickRecordsAnswer, g
    <2>. HIDE DEF more, fewer
    <2>3. /\ Sound(l) /\ Stands(g, l) /\ Stands(g, k) /\ l.hold = g.hold
      BY <1>2, <2>1, ClickHoldsStill, QuietOnesStand DEF Still, RegistryType
    <2>. HIDE DEF k, l
    <2>4. Stands(reg, l) /\ Stands(reg, k) BY <1>2, <2>3, StandsTransitive
    <2>5. CASE reg' = k \/ reg' = reg
      BY <1>3, <2>4, <2>5 DEF Stands, HoldStands
    <2>. QED BY <1>2, <2>1, <2>2, <2>3, <2>4, <2>5, TakeStands
  <1>8. ASSUME NEW w \in Wakes, WakeArrives(w) PROVE HoldStands(reg, reg') \/ UserActs
    <2>1. w \in Requests /\ (reg' = reg \/ TakeOrRefuse(g, w))
      BY <1>8 DEF WakeArrives, Requests, g
    <2>2. CASE reg' = reg BY <1>3, <2>2 DEF Stands, HoldStands
    <2>. QED BY <1>2, <2>1, <2>2, TakeStands
  <1>. QED BY <1>4, <1>5, <1>6, <1>7, <1>8

\* The interrupt route, the drains, the timers and the delete.
LEMMA OthersStand ==
  ASSUME TurnInv,
         \/ \E m \in Msgs \cup {None}, all \in BOOLEAN : Stop(m, all)
         \/ Shutdown \/ RestoreDrains \/ DeleteStep \/ TimeStep
  PROVE  Stands(reg, reg')
  <1>1. Sound(reg) /\ reg \in RegistryType BY DEF TurnInv, Sound
  <1>2. Stands(reg, reg) BY <1>1, QuietOnesStand
  <1>3. ASSUME NEW m \in Msgs \cup {None}, NEW all \in BOOLEAN, Stop(m, all)
        PROVE  Stands(reg, reg')
    <2>. DEFINE k == IF all THEN KeepLine(reg) ELSE reg
                g == Prune(k)
    <2>1. Sound(k) /\ Stands(reg, k)
      BY <1>1, <1>2, KeepLineStill, KeepLineStands DEF Still
    <2>2. reg' = AbortStream(g) \/ reg' = StopTurn(g) \/ reg' = ClearTurn(g, m)
      BY <1>3 DEF Stop
    <2>. HIDE DEF k
    <2>3. Sound(g) /\ g \in RegistryType /\ Stands(reg, g)
      BY <2>1, PruneStill, PruneStands, StandsTransitive DEF Still, Sound
    <2>. HIDE DEF g
    <2>4. Stands(g, reg') BY <2>2, <2>3, AbortStands, QuietOnesStand, LineStands
    <2>. QED BY <2>3, <2>4, StandsTransitive
  <1>4. CASE Shutdown \/ RestoreDrains \/ BackstopFires \/ PrunedElsewhere
    BY <1>1, <1>4, KeepLineStands, LineStands, PruneStands
       DEF Shutdown, RestoreDrains, BackstopFires, PrunedElsewhere
  <1>5. CASE \/ \E clock \in Clocks : BoundPasses(clock)
             \/ \E r \in Requests : HandoverWaitPasses(r)
    <2>1. reg'.line = reg.line /\ reg'.kept = reg.kept /\ reg'.hold = reg.hold
      BY <1>1, <1>5 DEF BoundPasses, HandoverWaitPasses, RegistryType
    <2>. QED BY <2>1, QuietStands
  <1>6. CASE DeleteBegins
    <2>. DEFINE g == BeginDelete(reg)
                d == [reg EXCEPT !.deleting = TRUE]
                u == [d EXCEPT !.unclaimed = @ \ {reg.lock}]
    <2>1. Sound(g) BY <1>1, BeginDeleteMoves
    <2>2. g = d \/ (g = Release(u, reg.lock, NoEnd) /\ reg.lock \in reg.unclaimed)
      BY DEF BeginDelete
    <2>3. reg' = g \/ reg' = StopWhatRuns(g) BY <1>6 DEF DeleteBegins
    <2>. HIDE DEF g
    <2>4. /\ d.line = reg.line /\ d.kept = reg.kept /\ d.hold = reg.hold
          /\ u \in RegistryType
          /\ u.line = reg.line /\ u.kept = reg.kept /\ u.outcome = reg.outcome
          /\ u.handed = reg.handed /\ u.unclaimed \subseteq reg.unclaimed
          /\ u.backstop = reg.backstop /\ u.hidden = reg.hidden
          /\ u.hold = reg.hold /\ u.lock = reg.lock
          /\ u.running = reg.running /\ u.dropped = reg.dropped
      BY <1>1 DEF RegistryType
    <2>. HIDE DEF d, u
    <2>5. Sound(u) /\ Stands(reg, u) /\ Stands(reg, d)
      BY <1>1, <2>4, SameLine, QuietStands
    <2>6. Stands(reg, g)
      <3>1. CASE g = Release(u, reg.lock, NoEnd) /\ reg.lock \in reg.unclaimed
        <4>1. reg.lock \in Requests BY <1>1, <3>1 DEF RegistryType, Requests
        <4>2. Stands(u, g) BY <2>5, <3>1, <4>1, ReleaseStands, NoEndIsAnEnd
        <4>. QED BY <2>5, <4>2, StandsTransitive
      <3>. QED BY <2>2, <2>5, <3>1
    <2>7. Stands(g, StopWhatRuns(g)) BY <2>1, AbortStands
    <2>. QED BY <2>3, <2>6, <2>7, StandsTransitive
  <1>7. CASE DeletePolls BY <1>1, <1>2, <1>7, AbortStands DEF DeletePolls
  <1>8. CASE DeleteRefused \/ DeleteSwept
    BY <1>1, <1>8, LineStands DEF DeleteRefused, DeleteSwept
  <1>. QED BY <1>3, <1>4, <1>5, <1>6, <1>7, <1>8 DEF DeleteStep, TimeStep

\* While a send can still run behind a card, nothing but the user's click on
\* that card, new message or Send now lets the line go past it: no release, no
\* bound, no Stop, no delete and no send over the cap does (BL-903).
THEOREM OnlyTheUserEndsAHold == Spec => OnlyUserEndsHold
  <1>1. TurnInv /\ [Next]_vars =>
          [ /\ reg.hold # None
            /\ reg'.hold # reg.hold
            /\ (Runnable(reg) \cap Waiting(reg')) \ reg'.kept # {}
            => \/ \E c \in Clicks : reg'.lock = c /\ MsgOf[c] = reg.hold
               \/ \E s \in Sends :
                    \/ SendNow(s) \/ SendThrowsInLine(s)
                    \/ SendArrives(s) /\ s \notin reg'.kept
               \/ reg'.hold # None ]_vars
    <2>1. SUFFICES ASSUME TurnInv, Next
                   PROVE  HoldStands(reg, reg') \/ UserActs
      BY DEF HoldStands, AllKept, UserActs
    <2>2. ASSUME NEW s \in Sends, SendStep(s)
          PROVE  HoldStands(reg, reg') \/ UserActs
      <3>1. CASE SendNow(s) \/ SendThrowsInLine(s) BY <3>1 DEF UserActs
      <3>. QED BY <2>1, <2>2, <3>1, SendArrivesStands, RequestsStand DEF SendStep
    <2>. QED BY <2>1, <2>2, RequestsStand, OthersStand DEF Next, Stands, HoldStands
  <1>. QED BY <1>1, TurnInvariant, PTL DEF Spec, OnlyUserEndsHold

-----------------------------------------------------------------------------
(* The line hands the chat on only when nobody else runs in it.              *)

\* Whoever holds the chat while a handover is late has run nothing that could
\* start a card hold at its release.
LateEnds ==
  Late(reg) /\ reg.lock # None =>
    /\ pc[reg.lock] # "streaming" /\ ending[reg.lock] # "card"
    /\ reg.lock \in Clicks => reg.endedHold[reg.lock] = None

\* A click that has yet to decide has ended no hold.
EndedHolds == \A c \in Clicks : pc[c] \in Arriving => reg.endedHold[c] = None

OrderInv == InOrder(reg) /\ LateEnds /\ EndedHolds

\* What a step must do to the registry.
HandsAlone ==
  /\ InOrder(reg') /\ Alone(reg, reg')
  /\ Late(reg') /\ reg'.lock # None =>
       \/ Late(reg) /\ reg'.lock = reg.lock
       \/ reg'.lock \in reg'.handed
       \/ /\ pc'[reg'.lock] = "owner"
          /\ reg'.lock \in Clicks => pc[reg'.lock] \in Arriving
  /\ \A c \in Clicks : \/ reg'.endedHold[c] = reg.endedHold[c]
                       \/ pc'[c] = "owner" /\ ~Late(reg')

LEMMA KeepsAlone ==
  /\ Keeps(reg, reg') => HandsAlone
  /\ InOrder(reg') /\ Quiet(reg, reg') => HandsAlone
  <1>1. Keeps(reg, reg') => HandsAlone BY DEF Keeps, Follows, HandsAlone
  <1>. QED BY <1>1, QuietFollows DEF Keeps

\* markSessionTurnRevealed: the message is shown, the chat stays as it is.
LEMMA RevealKeeps ==
  ASSUME NEW g, Sound(g), InOrder(g), NEW s
  PROVE  LET h == Reveal(g, s) IN
         /\ InOrder(h) /\ Quiet(g, h) /\ Sound(h)
         /\ Late(h) => Late(g)
         /\ h.lock = g.lock /\ h.endedHold = g.endedHold
  <1>. DEFINE h == Reveal(g, s)
  <1>1. g \in RegistryType BY DEF Sound
  <1>2. /\ Plain(g, h) /\ h.line = g.line /\ h.deleting = g.deleting
        /\ h.clickHolds = g.clickHolds
    BY <1>1 DEF Reveal, RegistryType, Plain
  <1>3. Sound(h) BY RevealStill DEF Still
  <1>. HIDE DEF h
  <1>4. InOrder(h) /\ Quiet(g, h) BY <1>2, PlainStays
  <1>. QED BY <1>2, <1>3, <1>4 DEF Quiet, Plain, h

\* The lock check and the registration: nobody is handed anything.
LEMMA TakeAlone ==
  ASSUME TurnInv, NEW g, Sound(g), Ordered(g), LateOrder(g), Follows(reg, g),
         NEW r \in Requests, InOrder(g) \/ r \in Clicks,
         ~Refuses(g, r) => g.handed \subseteq reg.handed,
         r \in Clicks => pc[r] \in Arriving,
         TakeOrRefuse(g, r)
  PROVE  HandsAlone
  <1>1. g \in RegistryType /\ pc \in [Requests -> Places]
    BY DEF TurnInv, TypeOK, Sound
  <1>2. CASE Refuses(g, r)
    <2>1. reg' = g BY <1>2 DEF TakeOrRefuse
    <2>2. InOrder(g)
      <3>1. SUFFICES ASSUME r \in Clicks, g.lock = None PROVE Settled(g)
        BY DEF InOrder, LateSettled
      <3>. QED BY <1>2, <3>1 DEF Refuses, Settled, HeldBack
    <2>. QED BY <2>1, <2>2, KeepsAlone DEF Keeps
  <1>3. CASE ~Refuses(g, r)
    <2>. DEFINE h == Register(g, r)
    <2>1. reg' = h /\ pc' = [pc EXCEPT ![r] = "owner"]
      BY <1>3 DEF TakeOrRefuse, Goto
    <2>2. /\ InOrder(h) /\ h.handed = g.handed /\ h.lock = r
          /\ \A c \in Clicks :
               h.endedHold[c] = g.endedHold[c] \/ (c = r /\ ~Late(h))
      BY <1>1, <1>3, RegisterInOrder
    <2>. HIDE DEF h
    <2>3. pc'[r] = "owner" BY <1>1, <2>1
    <2>4. Alone(reg, reg') BY <1>3, <2>1, <2>2 DEF Alone
    <2>5. g.endedHold = reg.endedHold BY DEF Follows
    <2>. QED BY <2>1, <2>2, <2>3, <2>4, <2>5 DEF HandsAlone
  <1>. QED BY <1>2, <1>3

\* A send that arrives, also one whose handler throws.
LEMMA SendArrivesAlone ==
  ASSUME TurnInv, OrderInv, NEW s \in Sends, SendArrives(s) \/ SendThrowsInLine(s)
  PROVE  HandsAlone
  <1>. DEFINE g == Prune(reg)
              overflow == Cardinality(Runnable(g)) >= Cap
              e == Enqueue(g, s, FALSE)
  <1>1. Sound(reg) /\ HolderRuns(reg) /\ InOrder(reg) /\ s \in Requests
    BY DEF TurnInv, OrderInv, Requests
  <1>2. Left(reg, s) /\ reg.outcome[s] = "none"
    BY IdleSend DEF SendArrives, SendThrowsInLine
  <1>3. /\ Sound(g) /\ InOrder(g) /\ Quiet(reg, g)
        /\ s \notin Waiting(g) /\ g.outcome[s] = "none"
    BY <1>1, <1>2, PruneStill, PruneInOrder, LeftStays DEF Still, Left
  <1>4. g.handed \subseteq reg.handed /\ Follows(reg, g) /\ s \notin Clicks
    BY <1>3, QuietFollows, RequestsAssumption DEF Quiet
  <1>5. overflow \in BOOLEAN OBVIOUS
  <1>6. CASE SendThrowsInLine(s)
    <2>1. reg' = Abandon(e, s) /\ ~(g.lock = None /\ g.line = <<>>)
      BY <1>6 DEF SendThrowsInLine
    <2>. HIDE DEF g
    <2>2. s \in Waiting(e) /\ Sound(e) /\ Keeps(g, e)
      BY <1>3, <2>1, EnqueueJoins, EnqueueMoves, EnqueueKeeps
    <2>. HIDE DEF e
    <2>3. Keeps(reg, e) BY <1>3, <2>2, QuietThenFollows DEF Keeps
    <2>4. InOrder(reg') /\ Quiet(e, reg') /\ reg'.handed = e.handed
      BY <2>1, <2>2, AbandonKeeps DEF Keeps
    <2>5. Keeps(reg, reg') BY <2>3, <2>4, FollowsThenQuiet DEF Keeps
    <2>. QED BY <2>5, KeepsAlone
  <1>7. CASE SendArrives(s)
    <2>1. \/ reg' = reg \/ TakeOrRefuse(g, s) \/ reg' = g
          \/ reg' = Enqueue(g, s, overflow)
      BY <1>7 DEF SendArrives
    <2>. HIDE DEF g, overflow
    <2>2. CASE reg' = reg BY <1>1, <2>2, PlainStays, KeepsAlone DEF Plain
    <2>3. CASE reg' = g BY <1>3, <2>3, KeepsAlone
    <2>4. CASE TakeOrRefuse(g, s)
      BY <1>1, <1>3, <1>4, <2>4, TakeAlone DEF InOrder
    <2>5. CASE reg' = Enqueue(g, s, overflow)
      <3>1. Keeps(g, reg') BY <1>3, <1>5, <2>5, EnqueueKeeps
      <3>. QED BY <1>3, <3>1, QuietThenFollows, KeepsAlone DEF Keeps
    <2>. QED BY <2>1, <2>2, <2>3, <2>4, <2>5
  <1>. QED BY <1>6, <1>7

\* A send that resumes from its wait.
LEMMA SendResumesAlone ==
  ASSUME TurnInv, OrderInv, NEW s \in Sends, SendResumes(s) \/ OverflowResumes(s)
  PROVE  HandsAlone
  <1>. DEFINE a == Abandon(reg, s)
              c == Claim(reg, s)
              k == Prune(a)
              p == Prune(c)
  <1>1. /\ Sound(reg) /\ reg \in RegistryType /\ HolderRuns(reg) /\ InOrder(reg)
        /\ s \in Requests /\ s \notin Clicks
    BY RequestsAssumption DEF TurnInv, OrderInv, Sound, Requests
  <1>2. /\ reg.outcome[s] \in {"cancelled", "keep", "run"} /\ s \notin Waiting(reg)
    BY ToldSend DEF SendResumes, OverflowResumes
  <1>3. \/ reg' = reg \/ reg' = a \/ reg' = c \/ reg' = p
        \/ TakeOrRefuse(k, s) /\ ~a.deleting /\ ~CanClaim(reg, s)
    BY <1>2 DEF SendResumes, OverflowResumes
  <1>4. /\ Sound(c) /\ HolderRuns(c) /\ InOrder(c) /\ Quiet(reg, c)
    BY <1>1, ClaimStill, PlainOnes, PlainOnesInOrder, PlainStays
       DEF Still, HolderRuns
  <1>5. Sound(a) /\ Keeps(reg, a) /\ HolderRuns(a) /\ a.deleting = reg.deleting
    BY <1>1, AbandonMoves, AbandonKeeps DEF Moves
  <1>6. /\ Sound(k) /\ InOrder(k) /\ Quiet(a, k) /\ k.handed = a.handed
    BY <1>5, PruneStill, PruneInOrder DEF Still, Keeps
  <1>7. Keeps(reg, k) BY <1>5, <1>6, FollowsThenQuiet DEF Keeps
  <1>8. InOrder(p) /\ Quiet(c, p) BY <1>4, PruneInOrder
  <1>9. CASE TakeOrRefuse(k, s) /\ ~a.deleting /\ ~CanClaim(reg, s)
    <2>1. ~Refuses(k, s) => k.handed \subseteq reg.handed
      <3>1. SUFFICES ASSUME k.lock = None PROVE a.handed \subseteq reg.handed
        BY <1>6 DEF Refuses
      <3>2. reg.lock # s BY <1>5, <1>9 DEF CanClaim
      <3>. QED BY <1>1, <1>2, <3>1, <3>2, LostHandover
    <2>. HIDE DEF k, a
    <2>. QED BY <1>1, <1>6, <1>7, <1>9, <2>1, TakeAlone DEF InOrder, Keeps
  <1>10. CASE reg' = reg BY <1>1, <1>10, PlainStays, KeepsAlone DEF Plain
  <1>. HIDE DEF a, c, k, p
  <1>11. CASE reg' = p BY <1>4, <1>8, <1>11, QuietTransitive, KeepsAlone
  <1>12. CASE reg' = a \/ reg' = c BY <1>4, <1>5, <1>12, KeepsAlone
  <1>. QED BY <1>3, <1>9, <1>10, <1>11, <1>12

\* A request that runs its turn and lets go of the chat.
LEMMA RequestAlone ==
  ASSUME TurnInv, OrderInv, NEW r \in Requests, RequestStep(r)
  PROVE  HandsAlone
  <1>1. Sound(reg) /\ reg \in RegistryType /\ InOrder(reg)
    BY DEF TurnInv, OrderInv, Sound
  <1>2. EndOf(r) \in Ends /\ MsgOf[r] \in Msgs
    BY RequestsAssumption DEF EndOf, Ends
  <1>3. CASE Releases(r)
    <2>1. reg' = Release(reg, r, EndOf(r)) BY <1>3 DEF Releases
    <2>2. ASSUME Late(reg), reg.lock = r
          PROVE  EndOf(r).card = None /\ (r \in Clicks => reg.endedHold[r] = None)
      <3>1. r # None BY RequestsAssumption
      <3>. QED BY <2>2, <3>1 DEF OrderInv, LateEnds, EndOf
    <2>3. Keeps(reg, reg') BY <1>1, <1>2, <2>1, <2>2, ReleaseKeeps
    <2>. QED BY <2>3, KeepsAlone
  <1>4. CASE ~Releases(r)
    <2>1. \/ reg' = reg \/ reg' = Reveal(reg, r)
          \/ reg' = OpenStream(reg, MsgOf[r]) \/ reg' = CloseStream(reg, MsgOf[r])
      BY <1>4 DEF RequestStep, TurnBegins, Checkpoint, RunStarts, RaisesCard, RunEnds,
                  RunsAgain, Leaves
    <2>2. CASE reg' = reg BY <1>1, <2>2, PlainStays, KeepsAlone DEF Plain
    <2>3. CASE reg' = Reveal(reg, r) BY <1>1, <2>3, RevealKeeps, KeepsAlone
    <2>4. CASE reg' = OpenStream(reg, MsgOf[r]) \/ reg' = CloseStream(reg, MsgOf[r])
      <3>1. InOrder(reg') /\ Plain(reg, reg')
        BY <1>1, <1>2, <2>4, PlainOnes, PlainOnesInOrder
      <3>. QED BY <3>1, PlainStays, KeepsAlone
    <2>. QED BY <2>1, <2>2, <2>3, <2>4
  <1>. QED BY <1>3, <1>4

\* Send now, a send whose agent is gone and a send that is kept at the end of
\* the chat.
LEMMA OtherSendsAlone ==
  ASSUME TurnInv, OrderInv, NEW s \in Sends,
         SendNow(s) \/ AgentGone(s) \/ KeeperMoves(s) \/ KeeperReleases(s)
  PROVE  HandsAlone
  <1>1. /\ Sound(reg) /\ InOrder(reg)
        /\ s \in Requests /\ s \notin Clicks
    BY RequestsAssumption DEF TurnInv, OrderInv, Requests
  <1>2. CASE SendNow(s) BY <1>1, <1>2, SendNowKeeps, KeepsAlone DEF SendNow
  <1>3. CASE AgentGone(s)
    <2>1. reg' = reg BY <1>3 DEF AgentGone
    <2>. QED BY <1>1, <2>1, PlainStays, KeepsAlone DEF Plain
  <1>4. CASE KeeperMoves(s)
    <2>1. reg' = Reveal(reg, s) BY <1>4 DEF KeeperMoves
    <2>. QED BY <1>1, <2>1, RevealKeeps, KeepsAlone
  <1>5. CASE KeeperReleases(s)
    <2>. DEFINE v == Reveal(reg, s)
    <2>1. reg' = Release(v, s, NoEnd) BY <1>5 DEF KeeperReleases
    <2>2. Sound(v) /\ InOrder(v) /\ Quiet(reg, v) BY <1>1, RevealKeeps
    <2>. HIDE DEF v
    <2>3. NoEnd.card = None BY DEF NoEnd
    <2>4. Keeps(v, reg') BY <1>1, <2>1, <2>2, <2>3, ReleaseKeeps, NoEndIsAnEnd
    <2>5. Keeps(reg, reg') BY <2>2, <2>4, QuietThenFollows DEF Keeps
    <2>. QED BY <2>5, KeepsAlone
  <1>. QED BY <1>2, <1>3, <1>4, <1>5

\* A click, and a turn that never waits.
LEMMA TakersAlone ==
  ASSUME TurnInv, OrderInv,
         (\E c \in Clicks : ClickStep(c)) \/ (\E w \in Wakes : WakeArrives(w))
  PROVE  HandsAlone
  <1>. DEFINE g == Prune(reg)
  <1>1. Sound(reg) /\ InOrder(reg) /\ HolderRuns(reg) BY DEF TurnInv, OrderInv
  <1>2. /\ Sound(g) /\ g \in RegistryType /\ InOrder(g) /\ Quiet(reg, g)
        /\ g.handed = reg.handed
    BY <1>1, PruneStill, PruneInOrder DEF Still, Sound
  <1>3. Follows(reg, g) BY <1>2, QuietFollows
  <1>. HIDE DEF g
  <1>4. reg' = reg => HandsAlone BY <1>1, PlainStays, KeepsAlone DEF Plain
  <1>5. ASSUME NEW c \in Clicks, ClickStep(c) PROVE HandsAlone
    <2>. DEFINE more == g.clickHolds \cup {c}
                fewer == g.clickHolds \ {c}
                k == [g EXCEPT !.clickHolds = more]
                l == [g EXCEPT !.clickHolds = fewer]
    <2>1. c \in Requests /\ more \in SUBSET Clicks /\ fewer \in SUBSET Clicks
      BY <1>2 DEF Requests, RegistryType
    <2>2. \/ reg' = k \/ reg' = reg
          \/ /\ TakeOrRefuse(g, c) \/ TakeOrRefuse(l, c)
             /\ pc[c] \in Arriving
      BY <1>5 DEF ClickStep, ClickArrives, ClickWaitEnds, ClickReadsCard,
                  ClickRecordsAnswer, Arriving, g
    <2>3. /\ Plain(g, k) /\ k.line = g.line /\ k.deleting = g.deleting
          /\ g.clickHolds \subseteq k.clickHolds
          /\ Plain(g, l) /\ l.handed = g.handed
      BY <1>2, <2>1 DEF RegistryType, Plain
    <2>4. Sound(l) BY <1>2, <2>1, ClickHoldsStill DEF Still
    <2>. HIDE DEF more, fewer, k, l
    <2>5. InOrder(k) /\ Quiet(g, k) BY <1>2, <2>3, PlainStays
    <2>6. Ordered(l) /\ LateOrder(l) /\ Quiet(g, l)
      BY <1>2, <2>3, PlainStays DEF InOrder
    <2>7. Quiet(reg, k) /\ Quiet(reg, l) BY <1>2, <2>5, <2>6, QuietTransitive
    <2>8. Follows(reg, l) BY <2>7, QuietFollows
    <2>9. CASE reg' = k BY <2>5, <2>7, <2>9, KeepsAlone
    <2>10. CASE TakeOrRefuse(g, c) /\ pc[c] \in Arriving
      BY <1>2, <1>3, <2>1, <2>10, TakeAlone DEF InOrder
    <2>11. CASE TakeOrRefuse(l, c) /\ pc[c] \in Arriving
      BY <1>2, <2>1, <2>3, <2>4, <2>6, <2>8, <2>11, TakeAlone
    <2>. QED BY <1>4, <2>2, <2>9, <2>10, <2>11
  <1>6. ASSUME NEW w \in Wakes, WakeArrives(w) PROVE HandsAlone
    <2>1. w \in Requests /\ w \notin Clicks /\ (reg' = reg \/ TakeOrRefuse(g, w))
      BY <1>6, RequestsAssumption DEF WakeArrives, Requests, g
    <2>2. CASE TakeOrRefuse(g, w)
      BY <1>2, <1>3, <2>1, <2>2, TakeAlone DEF InOrder
    <2>. QED BY <1>4, <2>1, <2>2
  <1>. QED BY <1>5, <1>6

\* The interrupt route, the drains, the timers and the delete.
LEMMA OthersAlone ==
  ASSUME TurnInv, OrderInv,
         \/ \E m \in Msgs \cup {None}, all \in BOOLEAN : Stop(m, all)
         \/ Shutdown \/ RestoreDrains \/ DeleteStep \/ TimeStep
  PROVE  HandsAlone
  <1>1. Sound(reg) /\ reg \in RegistryType /\ InOrder(reg) /\ HolderRuns(reg)
    BY DEF TurnInv, OrderInv, Sound
  <1>2. /\ Sound(KeepLine(reg)) /\ HolderRuns(KeepLine(reg))
        /\ InOrder(KeepLine(reg)) /\ Quiet(reg, KeepLine(reg)) /\ Quiet(reg, reg)
    BY <1>1, KeepLineStill, PlainOnes, PlainOnesInOrder, PlainStays
       DEF Still, Moves
  <1>3. ASSUME NEW m \in Msgs \cup {None}, NEW all \in BOOLEAN, Stop(m, all)
        PROVE  HandsAlone
    <2>. DEFINE k == IF all THEN KeepLine(reg) ELSE reg
                g == Prune(k)
    <2>1. Sound(k) /\ HolderRuns(k) /\ InOrder(k) /\ Quiet(reg, k) BY <1>1, <1>2
    <2>2. reg' = AbortStream(g) \/ reg' = StopTurn(g) \/ reg' = ClearTurn(g, m)
      BY <1>3 DEF Stop
    <2>. HIDE DEF k
    <2>3. /\ Sound(g) /\ g \in RegistryType /\ InOrder(g) /\ HolderRuns(g)
          /\ Quiet(k, g) /\ (Late(g) => g.lock = None)
      BY <2>1, PruneStill, PruneInOrder DEF Still, Sound
    <2>. HIDE DEF g
    <2>4. InOrder(reg') /\ Quiet(g, reg')
      <3>1. CASE reg' = AbortStream(g) BY <2>3, <3>1, AbortKeeps
      <3>2. CASE reg' = StopTurn(g)
        BY <2>3, <3>2, PlainOnes, PlainOnesInOrder, PlainStays
      <3>3. CASE reg' = ClearTurn(g, m) BY <2>3, <3>3, ClearKeeps
      <3>. QED BY <2>2, <3>1, <3>2, <3>3
    <2>5. Quiet(reg, reg') BY <2>1, <2>3, <2>4, QuietTransitive
    <2>. QED BY <2>4, <2>5, KeepsAlone
  <1>4. CASE Shutdown \/ RestoreDrains
    BY <1>2, <1>4, KeepsAlone DEF Shutdown, RestoreDrains
  <1>5. CASE BackstopFires BY <1>1, <1>5, BackstopKeeps, KeepsAlone DEF BackstopFires
  <1>6. CASE PrunedElsewhere
    BY <1>1, <1>6, PruneInOrder, KeepsAlone DEF PrunedElsewhere
  <1>7. CASE \/ \E clock \in Clocks : BoundPasses(clock)
             \/ \E r \in Requests : HandoverWaitPasses(r)
    <2>1. /\ reg.handed = {} /\ reg'.handed = {} /\ reg'.lock = reg.lock
          /\ reg'.running = reg.running /\ reg'.dropped = reg.dropped
          /\ reg'.lastTurn = reg.lastTurn /\ reg'.endedHold = reg.endedHold
          /\ reg.waitedOut \subseteq reg'.waitedOut
          /\ reg'.waitedOut \subseteq reg.waitedOut \cup reg.dropped
      <3>1. ASSUME NEW clock, BoundPasses(clock)
            PROVE  /\ reg.handed = {}
                   /\ reg' = [reg EXCEPT !.overdue = @ \cup {clock}]
        BY <3>1 DEF BoundPasses
      <3>2. ASSUME NEW r, HandoverWaitPasses(r)
            PROVE  /\ reg.handed = {} /\ r \in reg.dropped
                   /\ reg' = [reg EXCEPT !.waitedOut = @ \cup {r}]
        BY <3>2 DEF HandoverWaitPasses
      <3>3. CASE \E clock \in Clocks : BoundPasses(clock)
        BY <1>1, <3>1, <3>3 DEF RegistryType
      <3>4. CASE \E r \in Requests : HandoverWaitPasses(r)
        BY <1>1, <3>2, <3>4 DEF RegistryType
      <3>. QED BY <1>7, <3>3, <3>4
    <2>2. ~Late(reg') BY <2>1 DEF Late
    <2>3. InOrder(reg')
      BY <1>1, <2>1, <2>2 DEF InOrder, Ordered, Accounted, LateOrder, LateSettled
    <2>. QED BY <2>1, <2>2, <2>3 DEF HandsAlone, Alone
  <1>8. CASE DeleteBegins
    <2>. DEFINE g == BeginDelete(reg)
    <2>1. Sound(g) /\ HolderRuns(g) /\ Keeps(reg, g)
      <3>. DEFINE d == [reg EXCEPT !.deleting = TRUE]
      <3>1. HolderRuns(d) BY <1>1 DEF HolderRuns, RegistryType
      <3>2. Sound(g) /\ Moves(d, g, {}, {reg.lock} \cap reg.handed)
        BY <1>1, BeginDeleteMoves
      <3>. HIDE DEF d, g
      <3>3. HolderRuns(g) BY <3>1, <3>2 DEF Moves
      <3>. QED BY <1>1, <3>2, <3>3, BeginDeleteKeeps DEF g
    <2>2. reg' = g \/ reg' = StopWhatRuns(g) BY <1>8 DEF DeleteBegins
    <2>. HIDE DEF g
    <2>3. CASE reg' = g BY <2>1, <2>3, KeepsAlone
    <2>4. CASE reg' = StopWhatRuns(g)
      <3>1. InOrder(reg') /\ Quiet(g, reg') /\ reg'.handed = g.handed
        BY <2>1, <2>4, AbortKeeps DEF Keeps
      <3>2. Keeps(reg, reg') BY <2>1, <3>1, FollowsThenQuiet DEF Keeps
      <3>. QED BY <3>2, KeepsAlone
    <2>. QED BY <2>2, <2>3, <2>4
  <1>9. CASE DeletePolls
    <2>1. reg' = reg \/ reg' = StopWhatRuns(reg) BY <1>9 DEF DeletePolls
    <2>2. CASE reg' = StopWhatRuns(reg) BY <1>1, <2>2, AbortKeeps, KeepsAlone
    <2>. QED BY <1>1, <1>2, <2>1, <2>2, KeepsAlone
  <1>10. CASE DeleteRefused
    <2>1. reg' = EndDelete(reg) BY <1>10 DEF DeleteRefused
    <2>. QED BY <1>1, <2>1, EndDeleteKeeps, KeepsAlone DEF InOrder
  <1>11. CASE DeleteSwept
    <2>. DEFINE c == CancelLine(reg)
    <2>1. reg' = EndDelete(c) /\ reg.running = {}
      BY <1>11 DEF DeleteSwept, TurnInv, DeleteMarked
    <2>2. reg.lock = None BY <1>1, <2>1 DEF HolderRuns
    <2>3. c \in RegistryType /\ Ordered(c) /\ LateOrder(c) /\ Quiet(reg, c)
      BY <1>1, <2>1, <2>2, CancelLineStill, CancelKeeps DEF Still, Sound
    <2>. HIDE DEF c
    <2>4. Keeps(c, reg') BY <2>1, <2>3, EndDeleteKeeps
    <2>5. Keeps(reg, reg') BY <2>3, <2>4, QuietThenFollows DEF Keeps
    <2>. QED BY <2>5, KeepsAlone
  <1>. QED BY <1>3, <1>4, <1>5, <1>6, <1>7, <1>8, <1>9, <1>10, <1>11
           DEF DeleteStep, TimeStep

\* Every step hands the chat to a send alone.
LEMMA StepsHandAlone ==
  ASSUME TurnInv, OrderInv, [Next]_vars
  PROVE  HandsAlone
  <1>1. CASE UNCHANGED vars
    <2>1. reg' = reg BY <1>1 DEF vars
    <2>2. InOrder(reg) BY DEF OrderInv
    <2>. QED BY <2>1, <2>2, PlainStays, KeepsAlone DEF Plain
  <1>2. ASSUME NEW s \in Sends, SendStep(s) PROVE HandsAlone
    BY <1>2, SendArrivesAlone, SendResumesAlone, OtherSendsAlone DEF SendStep
  <1>. QED BY <1>1, <1>2, RequestAlone, TakersAlone, OthersAlone DEF Next

LEMMA OrderStays ==
  ASSUME TurnInv, TurnInv', CardsPlaced, CardsPlaced', OrderInv, [Next]_vars
  PROVE  OrderInv'
  <1>1. HandsAlone BY StepsHandAlone
  <1>2. LateEnds'
    <2>. DEFINE l == reg'.lock
    <2>1. SUFFICES ASSUME Late(reg'), l # None
                   PROVE  /\ pc'[l] # "streaming" /\ ending'[l] # "card"
                          /\ l \in Clicks => reg'.endedHold[l] = None
      BY DEF LateEnds
    <2>2. /\ reg' \in RegistryType /\ l \in Requests
      BY <2>1 DEF TurnInv, TypeOK, RegistryType
    <2>3. l \in Clicks => reg'.endedHold[l] = reg.endedHold[l]
      BY <1>1, <2>1 DEF HandsAlone
    <2>4. CASE Late(reg) /\ l = reg.lock
      <3>1. /\ pc[l] # "streaming" /\ ending[l] # "card"
            /\ l \in Clicks => reg.endedHold[l] = None
        BY <2>1, <2>4 DEF OrderInv, LateEnds
      <3>2. ~RunStarts(l)
        <4>1. SUFFICES ASSUME RunStarts(l) PROVE FALSE OBVIOUS
        <4>2. reg' = OpenStream(reg, MsgOf[l]) /\ reg \in RegistryType
          BY <4>1 DEF RunStarts, TurnInv, TypeOK
        <4>3. reg'.overdue = reg.overdue \ StreamClocks
          BY <4>2 DEF OpenStream, RegistryType
        <4>. QED BY <2>1, <4>3 DEF Late, StreamClocks
      <3>3. EndMoves(l) BY <2>2, EndsMove
      <3>. QED BY <2>3, <3>1, <3>2, <3>3 DEF EndMoves
    <2>5. CASE l \in reg'.handed
      <3>1. l \in Sends /\ l \notin Clicks
        BY <2>2, <2>5, RequestsAssumption DEF RegistryType
      <3>2. pc'[l] \in InLine BY <2>5, <3>1 DEF TurnInv, SendPlaced
      <3>3. ending'[l] = "none" BY <2>2, <3>2 DEF CardsPlaced, InLine, NoRunYet
      <3>. QED BY <3>1, <3>2, <3>3 DEF InLine
    <2>6. CASE pc'[l] = "owner" /\ (l \in Clicks => pc[l] \in Arriving)
      <3>1. ending'[l] = "none" BY <2>2, <2>6 DEF CardsPlaced, NoRunYet
      <3>2. l \in Clicks => reg.endedHold[l] = None
        BY <2>6 DEF OrderInv, EndedHolds
      <3>. QED BY <2>3, <2>6, <3>1, <3>2
    <2>. QED BY <1>1, <2>1, <2>4, <2>5, <2>6 DEF HandsAlone
  <1>3. EndedHolds'
    <2>1. SUFFICES ASSUME NEW c \in Clicks, pc'[c] \in Arriving
                   PROVE  reg'.endedHold[c] = None
      BY DEF EndedHolds
    <2>2. EndMoves(c) BY EndsMove DEF Requests
    <2>3. reg.endedHold[c] = None BY <2>1, <2>2 DEF EndMoves, OrderInv, EndedHolds
    <2>4. reg'.endedHold[c] = reg.endedHold[c]
      BY <1>1, <2>1 DEF HandsAlone, Arriving
    <2>. QED BY <2>3, <2>4
  <1>. QED BY <1>1, <1>2, <1>3 DEF OrderInv, HandsAlone

\* The line hands the chat on only when no other request of it runs but those
\* it has waited out (handOffSessionTurn, QUEUED_HANDOVER_REQUEST_WAIT_MS).
THEOREM HandsOnAlone == Spec => HandedAlone
  <1>1. Init => OrderInv
    <2>1. SUFFICES ASSUME Init PROVE OrderInv OBVIOUS
    <2>2. /\ reg.handed = {} /\ reg.running = {} /\ reg.lock = None
          /\ reg.waitedOut = {} /\ \A c \in Clicks : reg.endedHold[c] = None
      BY <2>1 DEF Init, EmptyRegistry
    <2>. QED BY <2>2 DEF OrderInv, InOrder, Ordered, LateOrder, LateSettled, Late,
                         LateEnds, EndedHolds
  <1>2. TurnInv /\ CardsPlaced /\ OrderInv /\ [Next]_vars /\ TurnInv' /\ CardsPlaced' =>
          OrderInv'
    BY OrderStays
  <1>3. TurnInv /\ OrderInv /\ [Next]_vars =>
          [\A s \in reg'.handed \ reg.handed :
             reg'.running \ {s} \subseteq reg'.waitedOut]_vars
    BY StepsHandAlone DEF HandsAlone, Alone
  <1>. QED BY <1>1, <1>2, <1>3, CardsPlacedInvariant, PTL DEF Spec, HandedAlone

=============================================================================
