------------------------- MODULE TurnRegistryProofs -------------------------
(***************************************************************************)
(* What every function of the registry keeps, whatever the sends, clicks,   *)
(* messages and bounds are: each one takes a sound registry to a sound one, *)
(* and moves it only in the ways of Moves.  What it tells the sends of the  *)
(* line is in Serves, whom it starts in Tracks, whose lock it takes in      *)
(* HoldsOn, and that the line hands the chat on only when nobody else runs  *)
(* in Keeps.  Proved by TLAPS.                                              *)
(***************************************************************************)
EXTENDS TurnRegistry, SequenceTheorems, TLAPS

-----------------------------------------------------------------------------
(* The members of a sequence.                                               *)

\* The members of a sequence are members of its type; only <<>> has none.
LEMMA Members ==
  ASSUME NEW S, NEW l \in Seq(S)
  PROVE  /\ ToSet(l) \subseteq S
         /\ l = <<>> <=> ToSet(l) = {}
  BY LenProperties, EmptySeq DEF ToSet

\* Appending e adds e to the members, and keeps them distinct if e is new.
LEMMA MembersOfAppend ==
  ASSUME NEW S, NEW l \in Seq(S), NEW e \in S
  PROVE  /\ ToSet(Append(l, e)) = ToSet(l) \cup {e}
         /\ IsInjective(l) /\ e \notin ToSet(l) => IsInjective(Append(l, e))
  <1>. DEFINE a == Append(l, e)
  <1>1. /\ Len(l) \in Nat /\ DOMAIN l = 1..Len(l)
        /\ Len(a) = Len(l) + 1 /\ DOMAIN a = 1..Len(l) + 1
        /\ \A i \in 1..Len(l) : a[i] = l[i]
        /\ a[Len(l) + 1] = e
    BY LenProperties, AppendProperties
  <1>. HIDE DEF a
  <1>2. ToSet(a) = ToSet(l) \cup {e}
    BY <1>1 DEF ToSet
  <1>3. ASSUME IsInjective(l), e \notin ToSet(l) PROVE IsInjective(a)
    BY <1>1, <1>3 DEF IsInjective, ToSet
  <1>. QED BY <1>2, <1>3 DEF a

\* The members are the head and those of the tail; when they are distinct, the
\* head is not among the tail's, and the tail's are distinct.
LEMMA MembersOfTail ==
  ASSUME NEW S, NEW l \in Seq(S), l # <<>>
  PROVE  /\ ToSet(l) = {Head(l)} \cup ToSet(Tail(l))
         /\ IsInjective(l) => Head(l) \notin ToSet(Tail(l)) /\ IsInjective(Tail(l))
  <1>. DEFINE t == Tail(l)
  <1>1. /\ Len(l) \in Nat \ {0} /\ DOMAIN l = 1..Len(l)
        /\ Len(t) = Len(l) - 1 /\ DOMAIN t = 1..Len(l) - 1
        /\ \A i \in 1..Len(l) - 1 : t[i] = l[i + 1]
        /\ Head(l) = l[1]
    BY LenProperties, HeadTailProperties, EmptySeq
  <1>. HIDE DEF t
  <1>2. ToSet(l) = {l[1]} \cup ToSet(t)
    <2>1. ASSUME NEW i \in 1..Len(l) PROVE l[i] \in {l[1]} \cup ToSet(t)
      <3>1. CASE i = 1 BY <3>1
      <3>2. CASE i # 1
        <4>1. i - 1 \in 1..Len(l) - 1 /\ t[i - 1] = l[i] BY <1>1, <3>2
        <4>. QED BY <1>1, <4>1 DEF ToSet
      <3>. QED BY <3>1, <3>2
    <2>2. ASSUME NEW i \in 1..Len(l) - 1 PROVE t[i] \in ToSet(l)
      BY <1>1 DEF ToSet
    <2>. QED BY <1>1, <2>1, <2>2, SMTT(60) DEF ToSet
  <1>3. ASSUME IsInjective(l) PROVE l[1] \notin ToSet(t) /\ IsInjective(t)
    <2>1. ASSUME NEW i \in 1..Len(l) - 1 PROVE t[i] # l[1]
      <3>1. i + 1 \in 1..Len(l) /\ i + 1 # 1 /\ 1 \in 1..Len(l) BY <1>1
      <3>. QED BY <3>1, <1>1, <1>3 DEF IsInjective
    <2>2. ASSUME NEW i \in 1..Len(l) - 1, NEW j \in 1..Len(l) - 1, t[i] = t[j]
          PROVE  i = j
      <3>1. i + 1 \in 1..Len(l) /\ j + 1 \in 1..Len(l) BY <1>1
      <3>2. i + 1 = j + 1 BY <3>1, <2>2, <1>1, <1>3 DEF IsInjective
      <3>. QED BY <3>2
    <2>3. l[1] \notin ToSet(t) BY <2>1, <1>1 DEF ToSet
    <2>. QED BY <2>2, <2>3, <1>1 DEF IsInjective
  <1>. QED BY <1>1, <1>2, <1>3 DEF t

\* queue.splice of one send: it alone goes, and what is left stays distinct.
LEMMA MembersOfRest ==
  ASSUME NEW S, NEW l \in Seq(S), NEW e \in ToSet(l), IsInjective(l)
  PROVE  /\ WithoutSend(l, e) \in Seq(S)
         /\ ToSet(WithoutSend(l, e)) = ToSet(l) \ {e}
         /\ IsInjective(WithoutSend(l, e))
  <1>. DEFINE k == CHOOSE i \in DOMAIN l : l[i] = e
              n == Len(l)
              b == SubSeq(l, 1, k - 1)
              c == SubSeq(l, k + 1, n)
              w == b \o c
  <1>1. w = WithoutSend(l, e) BY DEF WithoutSend, RemoveAt
  <1>2. n \in Nat /\ DOMAIN l = 1..n /\ \A i \in 1..n : l[i] \in S
    BY LenProperties
  <1>3. k \in 1..n /\ l[k] = e
    <2>1. \E i \in DOMAIN l : l[i] = e BY DEF ToSet
    <2>. QED BY <1>2, <2>1
  <1>. HIDE DEF k, n
  <1>4. /\ b \in Seq(S) /\ Len(b) = k - 1
        /\ \A i \in 1..k - 1 : b[i] = l[i]
    BY <1>2, <1>3, SubSeqProperties DEF n
  <1>5. /\ c \in Seq(S) /\ Len(c) = n - k
        /\ \A i \in 1..n - k : c[i] = l[k + i]
    <2>. DEFINE d == k + 1
    <2>1. /\ d \in Int /\ n \in Int /\ n - d + 1 = n - k
          /\ IF d <= n THEN TRUE ELSE n - k = 0
          /\ \A i \in d..n : i \in 1..n
          /\ \A i \in 1..n - k : d + i - 1 = k + i
      BY <1>2, <1>3
    <2>. HIDE DEF d
    <2>2. \A i \in d..n : l[i] \in S BY <2>1, <1>2
    <2>3. /\ SubSeq(l, d, n) \in Seq(S)
          /\ Len(SubSeq(l, d, n)) = IF d <= n THEN n - d + 1 ELSE 0
          /\ \A i \in 1..n - d + 1 : SubSeq(l, d, n)[i] = l[d + i - 1]
      BY <2>1, <2>2, SubSeqProperties
    <2>4. SubSeq(l, d, n) = c BY DEF d
    <2>. QED BY <2>1, <2>3, <2>4
  <1>. HIDE DEF b, c
  <1>6. /\ w \in Seq(S) /\ Len(w) = n - 1
        /\ \A i \in 1..n - 1 : w[i] = IF i < k THEN l[i] ELSE l[i + 1]
    <2>1. /\ w \in Seq(S) /\ Len(w) = Len(b) + Len(c)
          /\ \A i \in 1..Len(b) + Len(c) :
               w[i] = IF i <= Len(b) THEN b[i] ELSE c[i - Len(b)]
      BY <1>4, <1>5, ConcatProperties
    <2>2. Len(b) + Len(c) = n - 1
      BY <1>2, <1>3, <1>4, <1>5
    <2>3. ASSUME NEW i \in 1..n - 1 PROVE w[i] = IF i < k THEN l[i] ELSE l[i + 1]
      <3>1. CASE i < k
        <4>1. i \in 1..k - 1 /\ i <= Len(b) BY <1>2, <1>3, <1>4, <3>1
        <4>. QED BY <4>1, <3>1, <2>1, <2>2, <1>4
      <3>2. CASE ~(i < k)
        <4>1. ~(i <= Len(b)) /\ i - Len(b) = i - k + 1 /\ i - k + 1 \in 1..n - k
          BY <1>2, <1>3, <1>4, <3>2
        <4>2. w[i] = c[i - k + 1] BY <2>1, <2>2, <4>1
        <4>3. c[i - k + 1] = l[k + (i - k + 1)] BY <1>5, <4>1
        <4>4. k + (i - k + 1) = i + 1 BY <1>2, <1>3
        <4>. QED BY <3>2, <4>2, <4>3, <4>4
      <3>. QED BY <3>1, <3>2
    <2>. QED BY <2>1, <2>2, <2>3
  <1>7. DOMAIN w = 1..n - 1 BY <1>6, LenProperties
  <1>. HIDE DEF w
  <1>8. \A i \in 1..n : l[i] = e => i = k
    BY <1>2, <1>3 DEF IsInjective
  <1>9. ToSet(w) = ToSet(l) \ {e}
    <2>1. ASSUME NEW i \in 1..n - 1 PROVE w[i] \in ToSet(l) \ {e}
      <3>1. CASE i < k BY <1>2, <1>3, <1>6, <1>8, <3>1 DEF ToSet
      <3>2. CASE ~(i < k)
        <4>1. i + 1 \in 1..n /\ w[i] = l[i + 1] /\ i + 1 # k BY <1>2, <1>3, <1>6, <3>2
        <4>. QED BY <4>1, <1>2, <1>8 DEF ToSet
      <3>. QED BY <3>1, <3>2
    <2>2. ASSUME NEW i \in 1..n, l[i] # e PROVE l[i] \in ToSet(w)
      <3>1. CASE i < k BY <1>2, <1>3, <1>6, <1>7, <3>1 DEF ToSet
      <3>2. CASE ~(i < k)
        <4>1. i - 1 \in 1..n - 1 /\ w[i - 1] = l[i] BY <1>2, <1>3, <1>6, <2>2, <3>2
        <4>. QED BY <4>1, <1>7 DEF ToSet
      <3>. QED BY <3>1, <3>2
    <2>. QED BY <1>2, <1>7, <2>1, <2>2 DEF ToSet
  <1>10. IsInjective(w)
    <2>1. SUFFICES ASSUME NEW i \in 1..n - 1, NEW j \in 1..n - 1, w[i] = w[j]
                   PROVE  i = j
      BY <1>7 DEF IsInjective
    <2>. DEFINE at(x) == IF x < k THEN x ELSE x + 1
    <2>2. at(i) \in 1..n /\ at(j) \in 1..n BY <1>2, <1>3
    <2>3. l[at(i)] = l[at(j)] BY <2>1, <1>6
    <2>4. at(i) = at(j) BY <2>2, <2>3, <1>2 DEF IsInjective
    <2>. QED BY <2>4, <1>2, <1>3
  <1>. QED BY <1>1, <1>6, <1>9, <1>10
-----------------------------------------------------------------------------
(* Sound registries, and how a function may move one.                       *)

\* The invariant of the registry alone.  The first parts are types and the
\* line's bookkeeping; the last three are what the chat relies on.
Sound(g) ==
  /\ g \in RegistryType
  /\ IsInjective(g.line)
  /\ \A s \in Waiting(g) : g.outcome[s] = "none"
  /\ \A s \in g.handed : g.outcome[s] \in {"run", "keep"}
  /\ g.unclaimed \subseteq g.handed
  /\ \A s \in g.kept : g.outcome[s] # "run"
  /\ g.line # <<>> => g.backstop
  /\ g.hidden \subseteq Waiting(g) \cup {g.lock}
  /\ g.hold # None => Runnable(g) # {}

\* The holder of the chat is a request that runs.
HolderRuns(g) == g.lock # None => g.lock \in g.running

Accounted(g, r) == r = g.lock \/ r \in g.dropped

\* A function turns g into h; the sends of J join the line meanwhile, and the
\* requests of R release or leave.  Nobody leaves the line untold, nobody out of
\* the line is told anything, handed anything or kept, no request but R stops
\* running, none starts in a chat being deleted, and no lock is lost unrecorded.
Moves(g, h, J, R) ==
  /\ Waiting(h) \subseteq Waiting(g) \cup J
  /\ \A s \in (Waiting(g) \cup J) \ Waiting(h) : s \in R \/ h.outcome[s] # "none"
  /\ \A s \in Sends \ (Waiting(g) \cup J) : h.outcome[s] = g.outcome[s]
  /\ h.handed \subseteq g.handed \cup Waiting(g) \cup J
  /\ h.kept \subseteq g.kept \cup Waiting(g) \cup J
  /\ g.running \ R \subseteq h.running
  /\ h.deleting = g.deleting
  /\ g.deleting => h.running \subseteq g.running
  /\ \A r \in Requests : Accounted(g, r) => Accounted(h, r)
  /\ HolderRuns(g) => HolderRuns(h)

Still(g, h) == Sound(h) /\ Moves(g, h, {}, {})

\* Moves compose.
LEMMA MovesTransitive ==
  ASSUME NEW g, NEW h, NEW k, NEW J \in SUBSET Sends, NEW R, NEW Q,
         Moves(g, h, J, R), Moves(h, k, {}, Q), Waiting(g) \subseteq Sends
  PROVE  Moves(g, k, J, R \cup Q)
  BY DEF Moves

\* A function that leaves the line and the locks alone, but may end the hold.
LEMMA SameLine ==
  ASSUME NEW g, Sound(g), NEW h \in RegistryType,
         h.line = g.line, h.kept = g.kept, h.outcome = g.outcome,
         h.handed = g.handed, h.unclaimed \subseteq g.unclaimed,
         h.backstop = g.backstop, h.hidden = g.hidden, h.hold \in {g.hold, None},
         h.lock = g.lock, h.running = g.running, h.dropped = g.dropped
  PROVE  Sound(h) /\ (h.deleting = g.deleting => Moves(g, h, {}, {}))
  <1>1. Waiting(h) = Waiting(g) /\ Runnable(h) = Runnable(g)
    BY DEF Waiting, Runnable
  <1>. QED BY <1>1 DEF Sound, Moves, Accounted, HolderRuns

\* A registry is typed, and so is who waits in it.
LEMMA SoundTypes ==
  ASSUME NEW g, Sound(g)
  PROVE  /\ g \in RegistryType /\ g.line \in Seq(Sends) /\ Waiting(g) \subseteq Sends
         /\ g.hidden \subseteq Sends /\ g.handed \subseteq Sends /\ g.kept \subseteq Sends
         /\ None \notin Sends /\ None \notin Requests
  BY Members, RequestsAssumption DEF Sound, RegistryType, Waiting, Requests

\* The registry a chat starts with.
LEMMA EmptyRegistrySound == Sound(EmptyRegistry)
  <1>1. EmptyRegistry \in RegistryType
    BY EmptySeq DEF EmptyRegistry, RegistryType, Outcomes
  <1>2. Waiting(EmptyRegistry) = {}
    BY Members, EmptySeq DEF EmptyRegistry, Waiting
  <1>3. IsInjective(EmptyRegistry.line)
    BY DEF EmptyRegistry, IsInjective
  <1>. QED BY <1>1, <1>2, <1>3 DEF Sound, EmptyRegistry

-----------------------------------------------------------------------------
(* The lock and the handover.                                               *)

\* queueCardHolds.delete
LEMMA EndHoldStill ==
  ASSUME NEW g, Sound(g)
  PROVE  Still(g, EndHold(g)) /\ EndHold(g).hold = None
  <1>1. g \in RegistryType BY DEF Sound
  <1>. DEFINE h == EndHold(g)
  <1>2. /\ h \in RegistryType
        /\ h.line = g.line /\ h.kept = g.kept /\ h.outcome = g.outcome
        /\ h.handed = g.handed /\ h.unclaimed = g.unclaimed
        /\ h.backstop = g.backstop /\ h.hidden = g.hidden /\ h.hold = None
        /\ h.lock = g.lock /\ h.running = g.running /\ h.dropped = g.dropped
        /\ h.deleting = g.deleting
    BY <1>1 DEF EndHold, RegistryType
  <1>. HIDE DEF h
  <1>3. Sound(h) /\ Moves(g, h, {}, {}) BY <1>2, SameLine
  <1>. QED BY <1>2, <1>3 DEF Still, h

\* dropSessionTurnLock records the request whose lock goes.
LEMMA DropLockStill ==
  ASSUME NEW g, Sound(g), g.lock # None
  PROVE  Still(g, DropLock(g)) /\ DropLock(g).lock = None
  <1>1. g \in RegistryType BY DEF Sound
  <1>. DEFINE h == DropLock(g)
  <1>2. g.lock \in Requests BY <1>1 DEF RegistryType
  <1>3. /\ h \in RegistryType
        /\ h.line = g.line /\ h.kept = g.kept /\ h.outcome = g.outcome
        /\ h.handed = g.handed /\ h.unclaimed = g.unclaimed
        /\ h.backstop = g.backstop /\ h.hidden = g.hidden \ {g.lock}
        /\ h.hold = g.hold /\ h.lock = None /\ h.running = g.running
        /\ h.dropped = g.dropped \cup {g.lock} /\ h.deleting = g.deleting
    BY <1>1, <1>2 DEF DropLock, RegistryType
  <1>. HIDE DEF h
  <1>4. Waiting(h) = Waiting(g) /\ Runnable(h) = Runnable(g)
    BY <1>3 DEF Waiting, Runnable
  <1>5. Sound(h) BY <1>3, <1>4 DEF Sound
  <1>6. Moves(g, h, {}, {}) BY <1>3, <1>4 DEF Moves, Accounted, HolderRuns
  <1>. QED BY <1>3, <1>5, <1>6 DEF Still, h

\* createSessionTurnEntry, in a free chat that is not being deleted.
LEMMA CreateEntryStill ==
  ASSUME NEW g, Sound(g), NEW r \in Requests, g.lock = None, ~g.deleting
  PROVE  LET e == CreateEntry(g, r) IN
         /\ Still(g, e)
         /\ e.lock = r /\ r \in e.running /\ ~e.deleting
         /\ e.line = g.line /\ e.kept = g.kept /\ e.hold = g.hold
         /\ e.outcome = g.outcome /\ e.handed = g.handed
  <1>. DEFINE e == CreateEntry(g, r)
  <1>1. g \in RegistryType BY DEF Sound
  <1>2. /\ e \in RegistryType
        /\ e.line = g.line /\ e.kept = g.kept /\ e.outcome = g.outcome
        /\ e.handed = g.handed /\ e.unclaimed = g.unclaimed
        /\ e.backstop = g.backstop /\ e.hidden = g.hidden /\ e.hold = g.hold
        /\ e.lock = r /\ e.running = g.running \cup {r}
        /\ e.dropped = g.dropped \ {r} /\ e.deleting = g.deleting
    BY <1>1, ZenonT(90) DEF CreateEntry, RegistryType
  <1>. HIDE DEF e
  <1>3. Waiting(e) = Waiting(g) /\ Runnable(e) = Runnable(g)
    BY <1>2 DEF Waiting, Runnable
  <1>4. g.hidden \subseteq Waiting(g)
    BY SoundTypes DEF Sound
  <1>5. Sound(e) BY <1>2, <1>3, <1>4 DEF Sound
  <1>6. Moves(g, e, {}, {})
    BY <1>2, <1>3, RequestsAssumption DEF Moves, Accounted, HolderRuns
  <1>. QED BY <1>2, <1>5, <1>6 DEF Still, e

\* handOffSessionTurn: the head of the line leaves it told, and holds the chat.
LEMMA HandOffStill ==
  ASSUME NEW g, Sound(g)
  PROVE  Still(g, HandOff(g))
  <1>. DEFINE h == HandOff(g)
  <1>0. g \in RegistryType /\ g.line \in Seq(Sends) BY SoundTypes
  <1>1. CASE g.line = <<>>
    <2>. DEFINE x == EndHold(g)
    <2>1. Sound(x) /\ Moves(g, x, {}, {}) /\ x \in RegistryType /\ x.hold = None
      BY EndHoldStill DEF Still, Sound
    <2>2. x.line = <<>> BY <1>0, <1>1 DEF EndHold, RegistryType
    <2>3. h = [x EXCEPT !.backstop = FALSE] BY <1>1 DEF HandOff
    <2>. HIDE DEF x, h
    <2>4. /\ h \in RegistryType
          /\ h.line = x.line /\ h.kept = x.kept /\ h.outcome = x.outcome
          /\ h.handed = x.handed /\ h.unclaimed = x.unclaimed /\ h.hidden = x.hidden
          /\ h.hold = x.hold /\ h.lock = x.lock /\ h.running = x.running
          /\ h.dropped = x.dropped /\ h.deleting = x.deleting
      BY <2>1, <2>3, ZenonT(90) DEF RegistryType
    <2>5. Waiting(h) = Waiting(x) BY <2>4 DEF Waiting
    <2>6. Sound(h) BY <2>1, <2>2, <2>4, <2>5 DEF Sound
    <2>7. Moves(g, h, {}, {}) BY <2>1, <2>4, <2>5 DEF Moves, Accounted, HolderRuns
    <2>. QED BY <2>6, <2>7 DEF Still, h
  <1>2. CASE g.line # <<>> /\ HeldBack(g)
    <2>1. h = g BY <1>2 DEF HandOff
    <2>. QED BY <2>1, SameLine, <1>0 DEF Still
  <1>3. CASE g.line # <<>> /\ ~HeldBack(g)
    <2>. DEFINE head == Head(g.line)
                rest == Tail(g.line)
                e == CreateEntry(g, head)
                u == IF head \in g.kept THEN e.unclaimed ELSE e.unclaimed \cup {head}
                o == [e.outcome EXCEPT ![head] = HandedTo(g, head)]
    <2>1. g.lock = None /\ g.hold = None /\ ~g.deleting BY <1>3 DEF HeldBack
    <2>2. head \in Sends /\ head \in Requests /\ rest \in Seq(Sends)
      BY <1>0, <1>3, HeadTailProperties DEF Requests
    <2>3. /\ Sound(e) /\ Moves(g, e, {}, {}) /\ e \in RegistryType
          /\ e.lock = head /\ head \in e.running /\ ~e.deleting
          /\ e.line = g.line /\ e.kept = g.kept /\ e.hold = None
          /\ e.outcome = g.outcome /\ e.handed = g.handed
      BY <2>1, <2>2, CreateEntryStill DEF Still, Sound
    <2>4. h = [e EXCEPT !.line = rest, !.backstop = rest # <<>>,
                        !.unclaimed = IF head \in g.kept THEN @ ELSE @ \cup {head},
                        !.handed = @ \cup {head}, !.outcome[head] = HandedTo(g, head)]
      BY <1>3 DEF HandOff
    <2>5. /\ HandedTo(g, head) \in {"run", "keep"}
          /\ head \in g.kept => HandedTo(g, head) # "run"
      BY DEF HandedTo
    <2>. HIDE DEF head, rest, e
    <2>6. /\ u \in SUBSET Sends /\ u \subseteq e.unclaimed \cup {head}
          /\ o \in [Sends -> Outcomes] /\ o[head] = HandedTo(g, head)
          /\ \A s \in Sends : s # head => o[s] = g.outcome[s]
      BY <2>2, <2>3, <2>5 DEF RegistryType, Outcomes
    <2>7. h = [e EXCEPT !.line = rest, !.backstop = rest # <<>>,
                        !.unclaimed = u, !.handed = @ \cup {head}, !.outcome = o]
      BY <2>3, <2>4 DEF RegistryType
    <2>. HIDE DEF u, o, h
    <2>8a. /\ h.line = rest /\ h.kept = e.kept /\ h.outcome = o
           /\ h.handed = e.handed \cup {head} /\ h.unclaimed = u
           /\ h.backstop = (rest # <<>>) /\ h.hidden = e.hidden /\ h.hold = e.hold
           /\ h.lock = e.lock /\ h.running = e.running /\ h.dropped = e.dropped
           /\ h.deleting = e.deleting
      <3>1. e \in RegistryType BY <2>3
      <3>. QED BY <3>1, <2>7 DEF RegistryType
    <2>8b. h \in RegistryType
      <3>1. e \in RegistryType /\ e.handed \cup {head} \in SUBSET Sends
        BY <2>2, <2>3 DEF RegistryType
      <3>2. rest \in Seq(Sends) /\ (rest # <<>>) \in BOOLEAN BY <2>2
      <3>3. u \in SUBSET Sends /\ o \in [Sends -> Outcomes] BY <2>6
      <3>. QED BY <3>1, <3>2, <3>3, <2>7, ZenonT(90) DEF RegistryType
    <2>8. /\ h \in RegistryType
          /\ h.line = rest /\ h.kept = e.kept /\ h.outcome = o
          /\ h.handed = e.handed \cup {head} /\ h.unclaimed = u
          /\ h.backstop = (rest # <<>>) /\ h.hidden = e.hidden /\ h.hold = e.hold
          /\ h.lock = e.lock /\ h.running = e.running /\ h.dropped = e.dropped
          /\ h.deleting = e.deleting
      BY <2>8a, <2>8b
    <2>9. /\ Waiting(g) = {head} \cup Waiting(h) /\ Waiting(e) = Waiting(g)
          /\ head \notin Waiting(h) /\ IsInjective(h.line) /\ Waiting(h) \subseteq Sends
      BY <1>0, <1>3, <2>2, <2>3, <2>8, MembersOfTail, Members
         DEF Waiting, Sound, head, rest
    <2>10. \A s \in Waiting(h) : h.outcome[s] = "none"
      BY <2>6, <2>8, <2>9 DEF Sound
    <2>11. \A s \in h.handed : h.outcome[s] \in {"run", "keep"}
      BY <2>2, <2>3, <2>5, <2>6, <2>8, SoundTypes DEF Sound
    <2>12. \A s \in h.kept : h.outcome[s] # "run"
      BY <2>2, <2>3, <2>5, <2>6, <2>8, SoundTypes DEF Sound
    <2>13. h.hidden \subseteq Waiting(h) \cup {h.lock}
      BY <2>3, <2>8, <2>9 DEF Sound
    <2>14. h.unclaimed \subseteq h.handed BY <2>3, <2>6, <2>8 DEF Sound
    <2>15. Sound(h)
      BY <2>3, <2>8, <2>9, <2>10, <2>11, <2>12, <2>13, <2>14 DEF Sound
    <2>16. Moves(g, h, {}, {})
      BY <2>3, <2>5, <2>6, <2>8, <2>9 DEF Moves, Accounted, HolderRuns
    <2>. QED BY <2>15, <2>16 DEF Still, h
  <1>. QED BY <1>1, <1>2, <1>3

\* clearStreamAbort, and the walk of pruneStaleSessionTurns over the streams.
LEMMA RemoveStreamStill ==
  ASSUME NEW g, Sound(g)
  PROVE  Still(g, RemoveStream(g)) /\ RemoveStream(g).lock = g.lock
  <1>. DEFINE h == RemoveStream(g)
  <1>1. g \in RegistryType BY DEF Sound
  <1>2. /\ h \in RegistryType
        /\ h.line = g.line /\ h.kept = g.kept /\ h.outcome = g.outcome
        /\ h.handed = g.handed /\ h.unclaimed = g.unclaimed
        /\ h.backstop = g.backstop /\ h.hidden = g.hidden /\ h.hold = g.hold
        /\ h.lock = g.lock /\ h.running = g.running /\ h.dropped = g.dropped
        /\ h.deleting = g.deleting
    BY <1>1 DEF RemoveStream, RegistryType
  <1>. HIDE DEF h
  <1>3. Sound(h) /\ Moves(g, h, {}, {}) BY <1>2, SameLine
  <1>. QED BY <1>2, <1>3 DEF Still, h

\* A step that is Still, after one that moves the registry.
LEMMA ThenStill ==
  ASSUME NEW g, NEW h, NEW k, NEW J \in SUBSET Sends, NEW R,
         Sound(g), Moves(g, h, J, R), Still(h, k)
  PROVE  Sound(k) /\ Moves(g, k, J, R)
  <1>1. Moves(g, k, J, R \cup {}) BY MovesTransitive, SoundTypes DEF Still
  <1>2. R \cup {} = R OBVIOUS
  <1>. QED BY <1>1, <1>2 DEF Still

\* Still steps compose.
LEMMA StillTransitive ==
  ASSUME NEW g, NEW h, NEW k, Sound(g), Still(g, h), Still(h, k)
  PROVE  Still(g, k)
  BY ThenStill DEF Still

\* Doing nothing is a still step.
LEMMA StillReflexive == ASSUME NEW g, Sound(g) PROVE Still(g, g)
  BY SameLine DEF Still, Sound

\* pruneStaleSessionTurns
LEMMA PruneStill ==
  ASSUME NEW g, Sound(g)
  PROVE  Still(g, Prune(g))
  <1>. DEFINE p == PruneStream(g)
  <1>1. Still(g, p) BY RemoveStreamStill, StillReflexive DEF PruneStream
  <1>. HIDE DEF p
  <1>2. Sound(p) BY <1>1 DEF Still
  <1>3. Still(p, PruneLock(p))
    <2>1. CASE ~LockIsStale(p) BY <1>2, <2>1, StillReflexive DEF PruneLock
    <2>2. CASE LockIsStale(p)
      <3>. DEFINE q == IF "turnStale" \notin p.overdue /\ p.stream # None
                       THEN RemoveStream(p) ELSE p
                  d == DropLock(q)
      <3>1. p.lock # None BY <2>2 DEF LockIsStale
      <3>2. Still(p, q) /\ q.lock # None
        BY <1>2, <3>1, RemoveStreamStill, StillReflexive
      <3>. HIDE DEF q
      <3>3. Still(q, d) BY <3>2, DropLockStill DEF Still
      <3>4. PruneLock(p) = HandOff(d) BY <2>2 DEF PruneLock, q
      <3>. HIDE DEF d
      <3>5. Still(d, PruneLock(p)) BY <3>3, <3>4, HandOffStill DEF Still
      <3>6. Still(p, d) BY <1>2, <3>2, <3>3, StillTransitive
      <3>. QED BY <1>2, <3>5, <3>6, StillTransitive
    <2>. QED BY <2>1, <2>2
  <1>4. Still(g, PruneLock(p)) BY <1>1, <1>3, StillTransitive
  <1>. QED BY <1>4 DEF Prune, p

-----------------------------------------------------------------------------
(* Streams and stops.                                                       *)

\* registerStreamAbort
LEMMA OpenStreamStill ==
  ASSUME NEW g, Sound(g), NEW m \in Msgs
  PROVE  Still(g, OpenStream(g, m))
  <1>. DEFINE h == OpenStream(g, m)
  <1>1. g \in RegistryType BY DEF Sound
  <1>2. /\ h \in RegistryType
        /\ h.line = g.line /\ h.kept = g.kept /\ h.outcome = g.outcome
        /\ h.handed = g.handed /\ h.unclaimed = g.unclaimed
        /\ h.backstop = g.backstop /\ h.hidden = g.hidden /\ h.hold = g.hold
        /\ h.lock = g.lock /\ h.running = g.running /\ h.dropped = g.dropped
        /\ h.deleting = g.deleting
    BY <1>1 DEF OpenStream, RegistryType
  <1>. HIDE DEF h
  <1>3. Sound(h) /\ Moves(g, h, {}, {}) BY <1>2, SameLine
  <1>. QED BY <1>3 DEF Still, h

\* clearStreamAbort
LEMMA CloseStreamStill ==
  ASSUME NEW g, Sound(g), NEW m \in Msgs
  PROVE  Still(g, CloseStream(g, m))
  <1>. DEFINE x == RemoveStream(g)
              h == [x EXCEPT !.runEnded = g.lock # None, !.overdue = @ \ {"quiet"}]
  <1>1. Still(g, x) /\ x \in RegistryType
    BY RemoveStreamStill DEF Still, Sound
  <1>2. CloseStream(g, m) = IF g.stream # m THEN g ELSE h BY DEF CloseStream
  <1>. HIDE DEF x
  <1>3. /\ h \in RegistryType
        /\ h.line = x.line /\ h.kept = x.kept /\ h.outcome = x.outcome
        /\ h.handed = x.handed /\ h.unclaimed = x.unclaimed
        /\ h.backstop = x.backstop /\ h.hidden = x.hidden /\ h.hold = x.hold
        /\ h.lock = x.lock /\ h.running = x.running /\ h.dropped = x.dropped
        /\ h.deleting = x.deleting
    BY <1>1, ZenonT(90) DEF RegistryType
  <1>. HIDE DEF h
  <1>4. Still(x, h) BY <1>1, <1>3, SameLine DEF Still
  <1>. QED BY <1>1, <1>2, <1>4, StillTransitive, StillReflexive

\* abortStream
LEMMA AbortStreamStill ==
  ASSUME NEW g, Sound(g)
  PROVE  Still(g, AbortStream(g))
  <1>. DEFINE p == Prune(g)
              h == [p EXCEPT !.aborted = TRUE, !.overdue = @ \ {"abort"}]
  <1>1. Still(g, p) /\ p \in RegistryType BY PruneStill DEF Still, Sound
  <1>2. AbortStream(g) = IF p.stream = None THEN p ELSE h BY DEF AbortStream
  <1>. HIDE DEF p
  <1>3. /\ h \in RegistryType
        /\ h.line = p.line /\ h.kept = p.kept /\ h.outcome = p.outcome
        /\ h.handed = p.handed /\ h.unclaimed = p.unclaimed
        /\ h.backstop = p.backstop /\ h.hidden = p.hidden /\ h.hold = p.hold
        /\ h.lock = p.lock /\ h.running = p.running /\ h.dropped = p.dropped
        /\ h.deleting = p.deleting
    BY <1>1 DEF RegistryType
  <1>. HIDE DEF h
  <1>4. Still(p, h) BY <1>1, <1>3, SameLine DEF Still
  <1>. QED BY <1>1, <1>2, <1>4, StillTransitive

\* stopSessionTurn
LEMMA StopTurnStill ==
  ASSUME NEW g, Sound(g)
  PROVE  Still(g, StopTurn(g))
  <1>. DEFINE h == [g EXCEPT !.stoppedAt = TRUE, !.signalled = @ \cup {g.lock}]
  <1>1. CASE g.lock = None BY <1>1, StillReflexive DEF StopTurn
  <1>2. CASE g.lock # None
    <2>1. g \in RegistryType BY DEF Sound
    <2>2. g.lock \in Requests BY <1>2, <2>1 DEF RegistryType
    <2>3. /\ h \in RegistryType
          /\ h.line = g.line /\ h.kept = g.kept /\ h.outcome = g.outcome
          /\ h.handed = g.handed /\ h.unclaimed = g.unclaimed
          /\ h.backstop = g.backstop /\ h.hidden = g.hidden /\ h.hold = g.hold
          /\ h.lock = g.lock /\ h.running = g.running /\ h.dropped = g.dropped
          /\ h.deleting = g.deleting
      BY <2>1, <2>2 DEF RegistryType
    <2>4. StopTurn(g) = h BY <1>2 DEF StopTurn
    <2>. HIDE DEF h
    <2>. QED BY <2>3, <2>4, SameLine DEF Still
  <1>. QED BY <1>1, <1>2

\* clearSessionTurn
LEMMA ClearTurnStill ==
  ASSUME NEW g, Sound(g), NEW m
  PROVE  Still(g, ClearTurn(g, m))
  <1>1. ASSUME g.lock # None PROVE Still(g, HandOff(DropLock(g)))
    <2>1. Still(g, DropLock(g)) BY <1>1, DropLockStill
    <2>2. Still(DropLock(g), HandOff(DropLock(g))) BY <2>1, HandOffStill DEF Still
    <2>. QED BY <2>1, <2>2, StillTransitive
  <1>. QED BY <1>1, StillReflexive DEF ClearTurn

-----------------------------------------------------------------------------
(* The line.                                                                *)

\* keepQueuedSessionTurns keeps only sends that wait, which nobody told to run.
LEMMA KeepLineStill ==
  ASSUME NEW g, Sound(g)
  PROVE  Still(g, KeepLine(g))
  <1>. DEFINE x == EndHold(g)
              h == KeepLine(g)
  <1>1. Still(g, x) /\ Sound(x) /\ x \in RegistryType /\ x.hold = None
    BY EndHoldStill DEF Still, Sound
  <1>2. Waiting(g) \subseteq Sends BY SoundTypes
  <1>3. x.line = g.line /\ x.kept = g.kept /\ x.outcome = g.outcome
    BY SoundTypes DEF EndHold, RegistryType
  <1>4. h = [x EXCEPT !.kept = @ \cup Waiting(g)] BY DEF KeepLine
  <1>. HIDE DEF x, h
  <1>5. /\ h \in RegistryType
        /\ h.line = x.line /\ h.kept = x.kept \cup Waiting(g)
        /\ h.outcome = x.outcome /\ h.handed = x.handed
        /\ h.unclaimed = x.unclaimed /\ h.backstop = x.backstop
        /\ h.hidden = x.hidden /\ h.hold = x.hold /\ h.lock = x.lock
        /\ h.running = x.running /\ h.dropped = x.dropped /\ h.deleting = x.deleting
    BY <1>1, <1>2, <1>4, ZenonT(90) DEF RegistryType
  <1>6. Waiting(h) = Waiting(x) /\ Waiting(x) = Waiting(g)
    BY <1>3, <1>5 DEF Waiting
  <1>7. Sound(h) BY <1>1, <1>3, <1>5, <1>6 DEF Sound
  <1>8. Moves(x, h, {}, {}) BY <1>5, <1>6 DEF Moves, Accounted, HolderRuns
  <1>9. Still(x, h) BY <1>7, <1>8 DEF Still
  <1>. QED BY <1>1, <1>9, StillTransitive DEF h

\* One tick of the line's timer.
LEMMA BackstopTickStill ==
  ASSUME NEW g, Sound(g)
  PROVE  Still(g, BackstopTick(g))
  <1>. DEFINE p == Prune(g)
              k == KeepExpiredHold(p)
  <1>1. Still(g, p) BY PruneStill
  <1>. HIDE DEF p
  <1>2. Still(p, k) BY <1>1, KeepLineStill, StillReflexive DEF Still, KeepExpiredHold
  <1>. HIDE DEF k
  <1>3. Still(k, HandOff(k)) BY <1>2, HandOffStill DEF Still
  <1>4. Still(g, k) BY <1>1, <1>2, StillTransitive
  <1>5. Still(g, HandOff(k)) BY <1>3, <1>4, StillTransitive
  <1>. QED BY <1>5 DEF BackstopTick, k, p

\* queueSessionTurn, of a send that is new to the line.
LEMMA EnqueueMoves ==
  ASSUME NEW g, Sound(g), NEW s \in Sends, NEW keep \in BOOLEAN,
         s \notin Waiting(g), g.outcome[s] = "none"
  PROVE  Sound(Enqueue(g, s, keep)) /\ Moves(g, Enqueue(g, s, keep), {s}, {})
  <1>. DEFINE k == IF keep THEN g.kept \cup {s} ELSE g.kept
              a == Append(g.line, s)
              j == [g EXCEPT !.line = a, !.hidden = @ \cup {s},
                             !.kept = k, !.backstop = TRUE]
              x == IF ~keep /\ g.lock = None THEN EndHold(j) ELSE j
  <1>1. /\ g \in RegistryType /\ g.line \in Seq(Sends)
        /\ k \in SUBSET Sends /\ k \subseteq g.kept \cup {s} /\ g.kept \subseteq k
    BY SoundTypes
  <1>2. a \in Seq(Sends) /\ a # <<>> /\ ToSet(a) = Waiting(g) \cup {s} /\ IsInjective(a)
    BY <1>1, AppendProperties, MembersOfAppend DEF Waiting, Sound
  <1>3. Enqueue(g, s, keep) = HandOff(x)
    <2>. DEFINE i == [g EXCEPT !.line = Append(@, s), !.hidden = @ \cup {s},
                               !.kept = IF keep THEN @ \cup {s} ELSE @, !.backstop = TRUE]
    <2>1. i = j BY <1>1 DEF RegistryType
    <2>2. Enqueue(g, s, keep) = HandOff(IF ~keep /\ g.lock = None THEN EndHold(i) ELSE i)
      BY DEF Enqueue
    <2>. QED BY <2>1, <2>2
  <1>. HIDE DEF k, a
  <1>4. /\ j \in RegistryType
        /\ j.line = a /\ j.kept = k /\ j.outcome = g.outcome
        /\ j.handed = g.handed /\ j.unclaimed = g.unclaimed /\ j.backstop
        /\ j.hidden = g.hidden \cup {s} /\ j.hold = g.hold /\ j.lock = g.lock
        /\ j.running = g.running /\ j.dropped = g.dropped /\ j.deleting = g.deleting
    BY <1>1, <1>2 DEF RegistryType
  <1>. HIDE DEF j
  <1>5. Waiting(j) = Waiting(g) \cup {s} BY <1>2, <1>4 DEF Waiting
  <1>6. g.hold # None => Runnable(j) # {}
    <2>1. Runnable(g) \subseteq Runnable(j) BY <1>1, <1>4, <1>5 DEF Runnable, k
    <2>. QED BY <2>1 DEF Sound
  <1>7. Sound(j) BY <1>1, <1>2, <1>4, <1>5, <1>6 DEF Sound
  <1>8. Moves(g, j, {s}, {}) BY <1>1, <1>4, <1>5 DEF Moves, Accounted, HolderRuns
  <1>9. Still(j, x) BY <1>7, EndHoldStill, StillReflexive
  <1>. HIDE DEF x
  <1>10. Still(x, HandOff(x)) BY <1>9, HandOffStill DEF Still
  <1>11. Still(j, HandOff(x)) BY <1>7, <1>9, <1>10, StillTransitive
  <1>12. {s} \in SUBSET Sends OBVIOUS
  <1>. QED BY <1>3, <1>8, <1>11, <1>12, ThenStill

\* sendWaitingSendNow
LEMMA SendWaitingNowStill ==
  ASSUME NEW g, Sound(g)
  PROVE  Still(g, SendWaitingNow(g))
  <1>. DEFINE x == IF g.lock = None THEN EndHold(g) ELSE g
  <1>1. Still(g, x) BY EndHoldStill, StillReflexive
  <1>. HIDE DEF x
  <1>2. Still(x, HandOff(x)) BY <1>1, HandOffStill DEF Still
  <1>3. SendWaitingNow(g) = HandOff(x) BY DEF SendWaitingNow, x
  <1>. QED BY <1>1, <1>2, <1>3, StillTransitive

\* settleQueueCardHoldAtRelease starts a hold only for a send that can run.
LEMMA SettleHoldStill ==
  ASSUME NEW g, Sound(g), NEW r \in Requests, NEW end \in Ends
  PROVE  Still(g, SettleHold(g, r, end)) /\ SettleHold(g, r, end).lock = g.lock
  <1>0. g \in RegistryType BY DEF Sound
  <1>1. ASSUME NEW x, Still(g, x), x.kept = g.kept, x.line = g.line, x.lock = g.lock,
               NEW m \in Msgs, Runnable(g) # {}
        PROVE  Still(g, [x EXCEPT !.hold = m]) /\ [x EXCEPT !.hold = m].lock = g.lock
    <2>. DEFINE h == [x EXCEPT !.hold = m]
    <2>1. Sound(x) /\ x \in RegistryType BY <1>1 DEF Still, Sound
    <2>2. /\ h \in RegistryType
          /\ h.line = x.line /\ h.kept = x.kept /\ h.outcome = x.outcome
          /\ h.handed = x.handed /\ h.unclaimed = x.unclaimed
          /\ h.backstop = x.backstop /\ h.hidden = x.hidden
          /\ h.lock = x.lock /\ h.running = x.running /\ h.dropped = x.dropped
          /\ h.deleting = x.deleting
      BY <2>1 DEF RegistryType
    <2>. HIDE DEF h
    <2>3. Waiting(h) = Waiting(x) /\ Runnable(h) = Runnable(g)
      BY <1>1, <2>2 DEF Waiting, Runnable
    <2>4. Sound(h) BY <1>1, <2>1, <2>2, <2>3 DEF Sound
    <2>5. Moves(x, h, {}, {}) BY <2>2, <2>3 DEF Moves, Accounted, HolderRuns
    <2>6. Still(g, h) BY <1>1, <2>4, <2>5, StillTransitive DEF Still
    <2>. QED BY <1>1, <2>2, <2>6 DEF h
  <1>2. /\ Still(g, EndHold(g))
        /\ EndHold(g).kept = g.kept /\ EndHold(g).line = g.line /\ EndHold(g).lock = g.lock
    BY <1>0, EndHoldStill DEF EndHold, RegistryType
  <1>3. Still(g, KeepLine(g)) /\ KeepLine(g).lock = g.lock
    BY <1>0, KeepLineStill DEF KeepLine, EndHold, RegistryType
  <1>4. r \in Clicks => g.endedHold[r] \in Msgs \cup {None}
    BY <1>0 DEF RegistryType
  <1>5. end.card \in Msgs \cup {None} BY DEF Ends
  <1>6. Still(g, g) BY StillReflexive
  <1>. QED BY <1>1, <1>2, <1>3, <1>4, <1>5, <1>6 DEF SettleHold

\* releaseSessionTurn: only r stops running.
LEMMA ReleaseMoves ==
  ASSUME NEW g, Sound(g), NEW r \in Requests, NEW end \in Ends
  PROVE  Sound(Release(g, r, end)) /\ Moves(g, Release(g, r, end), {}, {r})
  <1>. DEFINE f == [g EXCEPT !.running = @ \ {r}]
              x == SettleHold(f, r, end)
              d == DropLock(x)
              h == Release(g, r, end)
  <1>1. g \in RegistryType BY DEF Sound
  <1>2. /\ f \in RegistryType
        /\ f.line = g.line /\ f.kept = g.kept /\ f.outcome = g.outcome
        /\ f.handed = g.handed /\ f.unclaimed = g.unclaimed
        /\ f.backstop = g.backstop /\ f.hidden = g.hidden /\ f.hold = g.hold
        /\ f.lock = g.lock /\ f.running = g.running \ {r} /\ f.dropped = g.dropped
        /\ f.deleting = g.deleting
    BY <1>1 DEF RegistryType
  <1>3. h = IF g.lock = r THEN HandOff(d)
            ELSE IF g.lock = None /\ r \in g.running /\ g.lastTurn = r THEN HandOff(x)
            ELSE HandOff(f)
    BY DEF Release
  <1>. HIDE DEF f, h
  <1>4. Waiting(f) = Waiting(g) /\ Runnable(f) = Runnable(g)
    BY <1>2 DEF Waiting, Runnable
  <1>5. Sound(f) BY <1>2, <1>4 DEF Sound
  <1>6. Still(f, x) /\ x.lock = g.lock BY <1>2, <1>5, SettleHoldStill
  <1>. HIDE DEF x
  <1>7. CASE g.lock = r
    <2>1. x.lock # None BY <1>6, <1>7, RequestsAssumption
    <2>2. Still(x, d) /\ d.lock = None BY <1>6, <2>1, DropLockStill DEF Still
    <2>3. Still(f, d) BY <1>5, <1>6, <2>2, StillTransitive
    <2>. HIDE DEF d
    <2>4. Moves(g, d, {}, {r})
      BY <1>2, <1>4, <2>2, <2>3 DEF Still, Moves, Accounted, HolderRuns
    <2>5. h = HandOff(d) /\ Still(d, HandOff(d))
      BY <1>3, <1>7, <2>3, HandOffStill DEF Still
    <2>. QED BY <2>4, <2>5, ThenStill DEF h
  <1>8. CASE g.lock # r
    <2>1. Moves(g, f, {}, {r})
      BY <1>2, <1>4, <1>8 DEF Moves, Accounted, HolderRuns
    <2>2. Still(f, HandOff(f)) BY <1>5, HandOffStill
    <2>3. Still(f, HandOff(x))
      <3>1. Still(x, HandOff(x)) BY <1>6, HandOffStill DEF Still
      <3>. QED BY <1>5, <1>6, <3>1, StillTransitive
    <2>. QED BY <1>3, <1>8, <2>1, <2>2, <2>3, ThenStill DEF h
  <1>. QED BY <1>7, <1>8

\* claimQueuedSessionTurn takes the send off the handovers.
LEMMA ClaimStill ==
  ASSUME NEW g, Sound(g), NEW s \in Sends
  PROVE  /\ Still(g, Claim(g, s))
         /\ s \notin Claim(g, s).handed
         /\ Claim(g, s).lock = g.lock /\ Claim(g, s).running = g.running
         /\ Claim(g, s).outcome = g.outcome /\ Claim(g, s).line = g.line
         /\ Claim(g, s).deleting = g.deleting
  <1>. DEFINE h == Claim(g, s)
  <1>1. g \in RegistryType BY DEF Sound
  <1>2. /\ h \in RegistryType
        /\ h.line = g.line /\ h.kept = g.kept /\ h.outcome = g.outcome
        /\ h.handed = g.handed \ {s} /\ h.unclaimed = g.unclaimed \ {s}
        /\ h.backstop = g.backstop /\ h.hidden = g.hidden /\ h.hold = g.hold
        /\ h.lock = g.lock /\ h.running = g.running /\ h.dropped = g.dropped
        /\ h.deleting = g.deleting
    BY <1>1 DEF Claim, RegistryType
  <1>. HIDE DEF h
  <1>3. Waiting(h) = Waiting(g) /\ Runnable(h) = Runnable(g)
    BY <1>2 DEF Waiting, Runnable
  <1>4. Sound(h) BY <1>2, <1>3 DEF Sound
  <1>5. Moves(g, h, {}, {}) BY <1>2, <1>3 DEF Moves, Accounted, HolderRuns
  <1>. QED BY <1>2, <1>4, <1>5 DEF Still, h

\* abandonQueuedSessionTurn, of a send that waits.
LEMMA LeaveLineMoves ==
  ASSUME NEW g, Sound(g), NEW s \in Waiting(g)
  PROVE  Sound(LeaveLine(g, s)) /\ Moves(g, LeaveLine(g, s), {}, {s})
  <1>. DEFINE w == WithoutSend(g.line, s)
              l == [g EXCEPT !.line = w, !.hidden = @ \ {s}]
              x == EndHold(l)
              y == [x EXCEPT !.backstop = FALSE]
  <1>1. /\ g \in RegistryType /\ g.line \in Seq(Sends) /\ g.line # <<>>
        /\ w \in Seq(Sends) /\ ToSet(w) = Waiting(g) \ {s} /\ IsInjective(w)
    BY SoundTypes, Members, MembersOfRest DEF Sound, Waiting
  <1>2. LeaveLine(g, s) = IF l.line = <<>> THEN y
                          ELSE IF Runnable(l) = {} THEN x ELSE l
    BY DEF LeaveLine
  <1>. HIDE DEF w
  <1>3. /\ l \in RegistryType
        /\ l.line = w /\ l.kept = g.kept /\ l.outcome = g.outcome
        /\ l.handed = g.handed /\ l.unclaimed = g.unclaimed
        /\ l.backstop = g.backstop /\ l.hidden = g.hidden \ {s} /\ l.hold = g.hold
        /\ l.lock = g.lock /\ l.running = g.running /\ l.dropped = g.dropped
        /\ l.deleting = g.deleting
    BY <1>1 DEF RegistryType
  <1>. HIDE DEF l
  <1>4. /\ x \in RegistryType
        /\ x.line = w /\ x.kept = g.kept /\ x.outcome = g.outcome
        /\ x.handed = g.handed /\ x.unclaimed = g.unclaimed
        /\ x.backstop = g.backstop /\ x.hidden = g.hidden \ {s} /\ x.hold = None
        /\ x.lock = g.lock /\ x.running = g.running /\ x.dropped = g.dropped
        /\ x.deleting = g.deleting
    BY <1>3 DEF EndHold, RegistryType
  <1>. HIDE DEF x
  <1>5. /\ y \in RegistryType
        /\ y.line = w /\ y.kept = g.kept /\ y.outcome = g.outcome
        /\ y.handed = g.handed /\ y.unclaimed = g.unclaimed
        /\ y.hidden = g.hidden \ {s} /\ y.hold = None
        /\ y.lock = g.lock /\ y.running = g.running /\ y.dropped = g.dropped
        /\ y.deleting = g.deleting
    BY <1>4, ZenonT(90) DEF RegistryType
  <1>. HIDE DEF y
  <1>6. /\ Waiting(l) = Waiting(g) \ {s} /\ Waiting(x) = Waiting(g) \ {s}
        /\ Waiting(y) = Waiting(g) \ {s}
    BY <1>1, <1>3, <1>4, <1>5 DEF Waiting
  <1>7. CASE w = <<>>
    <2>1. Sound(y) BY <1>1, <1>5, <1>6, <1>7 DEF Sound
    <2>2. Moves(g, y, {}, {s}) BY <1>5, <1>6 DEF Moves, Accounted, HolderRuns
    <2>. QED BY <1>2, <1>3, <1>7, <2>1, <2>2
  <1>8. CASE w # <<>> /\ Runnable(l) = {}
    <2>1. Sound(x) BY <1>1, <1>4, <1>6, <1>8 DEF Sound
    <2>2. Moves(g, x, {}, {s}) BY <1>4, <1>6 DEF Moves, Accounted, HolderRuns
    <2>. QED BY <1>2, <1>3, <1>8, <2>1, <2>2
  <1>9. CASE w # <<>> /\ Runnable(l) # {}
    <2>1. Sound(l) BY <1>1, <1>3, <1>6, <1>9 DEF Sound
    <2>2. Moves(g, l, {}, {s}) BY <1>3, <1>6 DEF Moves, Accounted, HolderRuns
    <2>. QED BY <1>2, <1>3, <1>9, <2>1, <2>2
  <1>. QED BY <1>7, <1>8, <1>9

\* The end a caller that gives no end has.
LEMMA NoEndIsAnEnd == NoEnd \in Ends
  BY DEF NoEnd, Ends

\* abandonQueuedSessionTurn: s alone leaves, and nothing is handed to it any more.
LEMMA AbandonMoves ==
  ASSUME NEW g, Sound(g), NEW s \in Sends
  PROVE  /\ Sound(Abandon(g, s)) /\ Moves(g, Abandon(g, s), {}, {s})
         /\ s \notin Abandon(g, s).handed /\ s \notin Waiting(Abandon(g, s))
  <1>. DEFINE h == Abandon(g, s)
              c == Claim(g, s)
              k == Release(c, s, NoEnd)
  <1>1. CASE s \in Waiting(g)
    <2>1. h = LeaveLine(g, s) BY <1>1 DEF Abandon
    <2>2. Sound(h) /\ Moves(g, h, {}, {s}) BY <1>1, <2>1, LeaveLineMoves
    <2>3. s \notin Waiting(h)
      <3>. DEFINE w == WithoutSend(g.line, s)
      <3>1. g \in RegistryType /\ w \in Seq(Sends) /\ ToSet(w) = Waiting(g) \ {s}
        BY <1>1, SoundTypes, MembersOfRest DEF Sound, Waiting
      <3>. HIDE DEF w
      <3>2. h.line = w
        BY <2>1, <3>1 DEF LeaveLine, EndHold, RegistryType, w
      <3>. QED BY <3>1, <3>2 DEF Waiting
    <2>4. s \notin h.handed
      <3>1. g \in RegistryType BY DEF Sound
      <3>2. h.handed = g.handed
        BY <2>1, <3>1 DEF LeaveLine, EndHold, RegistryType
      <3>. QED BY <1>1, <3>2 DEF Sound
    <2>. QED BY <2>2, <2>3, <2>4
  <1>2. CASE s \notin Waiting(g) /\ s \notin g.handed
    <2>1. h = g BY <1>2 DEF Abandon
    <2>2. Moves(g, g, {}, {s}) BY DEF Moves
    <2>. QED BY <1>2, <2>1, <2>2
  <1>3. CASE s \notin Waiting(g) /\ s \in g.handed
    <2>1. h = k BY <1>3 DEF Abandon
    <2>2. Sound(c) /\ Moves(g, c, {}, {}) /\ s \notin c.handed
      BY ClaimStill DEF Still
    <2>3. s \notin Waiting(c) BY <1>3, ClaimStill DEF Waiting
    <2>. HIDE DEF c
    <2>4. Sound(k) /\ Moves(c, k, {}, {s})
      BY <2>2, ReleaseMoves, NoEndIsAnEnd DEF Requests
    <2>. HIDE DEF k
    <2>5. Moves(g, k, {}, {} \cup {s}) BY <2>2, <2>4, MovesTransitive, SoundTypes
    <2>6. s \notin k.handed /\ s \notin Waiting(k) BY <2>2, <2>3, <2>4 DEF Moves
    <2>7. {} \cup {s} = {s} OBVIOUS
    <2>. QED BY <2>1, <2>4, <2>5, <2>6, <2>7
  <1>. QED BY <1>1, <1>2, <1>3

\* registerSessionTurn, past its refusals.
LEMMA RegisterStill ==
  ASSUME NEW g, Sound(g), NEW r \in Requests, ~Refuses(g, r)
  PROVE  /\ Still(g, Register(g, r))
         /\ Register(g, r).lock = r /\ r \in Register(g, r).running
         /\ Register(g, r).outcome = g.outcome /\ Register(g, r).kept = g.kept
         /\ Register(g, r).handed = g.handed /\ Register(g, r).line = g.line
  <1>. DEFINE e == CreateEntry(g, r)
              x == EndHold(e)
              h == [x EXCEPT !.endedHold[r] = g.hold]
  <1>1. g.lock = None /\ ~g.deleting BY DEF Refuses
  <1>2. /\ Still(g, e) /\ Sound(e) /\ e \in RegistryType
        /\ e.lock = r /\ r \in e.running
        /\ e.outcome = g.outcome /\ e.kept = g.kept
        /\ e.handed = g.handed /\ e.line = g.line
    BY <1>1, CreateEntryStill DEF Still, Sound
  <1>3. Register(g, r) = IF r \in Clicks /\ g.hold = MsgOf[r] THEN h ELSE e
    BY DEF Register
  <1>4. g.hold \in Msgs \cup {None} BY SoundTypes DEF RegistryType
  <1>. HIDE DEF e
  <1>5. ASSUME r \in Clicks
        PROVE  /\ Still(g, h) /\ h.lock = r /\ r \in h.running
               /\ h.outcome = g.outcome /\ h.kept = g.kept
               /\ h.handed = g.handed /\ h.line = g.line
    <2>1. /\ Still(e, x) /\ Sound(x) /\ x \in RegistryType
          /\ x.lock = e.lock /\ x.running = e.running
          /\ x.outcome = e.outcome /\ x.kept = e.kept
          /\ x.handed = e.handed /\ x.line = e.line
      <3>1. Still(e, x) /\ Sound(x) /\ x \in RegistryType
        BY <1>2, EndHoldStill DEF Still, Sound
      <3>2. /\ x.lock = e.lock /\ x.running = e.running
            /\ x.outcome = e.outcome /\ x.kept = e.kept
            /\ x.handed = e.handed /\ x.line = e.line
        BY <1>2 DEF EndHold, RegistryType
      <3>. QED BY <3>1, <3>2
    <2>. HIDE DEF x
    <2>2. [x.endedHold EXCEPT ![r] = g.hold] \in [Clicks -> Msgs \cup {None}]
      BY <1>4, <1>5, <2>1 DEF RegistryType
    <2>3. /\ h \in RegistryType
          /\ h.line = x.line /\ h.kept = x.kept /\ h.outcome = x.outcome
          /\ h.handed = x.handed /\ h.unclaimed = x.unclaimed
          /\ h.backstop = x.backstop /\ h.hidden = x.hidden /\ h.hold = x.hold
          /\ h.lock = x.lock /\ h.running = x.running /\ h.dropped = x.dropped
          /\ h.deleting = x.deleting
      BY <2>1, <2>2 DEF RegistryType
    <2>. HIDE DEF h
    <2>4. Still(x, h) BY <2>1, <2>3, SameLine DEF Still
    <2>5. Still(e, h) BY <1>2, <2>1, <2>4, StillTransitive
    <2>6. Still(g, h) BY <1>2, <2>5, StillTransitive
    <2>. QED BY <1>2, <2>1, <2>3, <2>6
  <1>. QED BY <1>2, <1>3, <1>5

-----------------------------------------------------------------------------
(* Deleting the chat.                                                       *)

\* beginSessionDelete: only a handover nobody has taken stops running.
LEMMA BeginDeleteMoves ==
  ASSUME NEW g, Sound(g)
  PROVE  /\ Sound(BeginDelete(g))
         /\ Moves([g EXCEPT !.deleting = TRUE], BeginDelete(g), {}, {g.lock} \cap g.handed)
  <1>. DEFINE d == [g EXCEPT !.deleting = TRUE]
              u == [d EXCEPT !.unclaimed = @ \ {g.lock}]
              h == BeginDelete(g)
  <1>1. g \in RegistryType BY DEF Sound
  <1>2. Sound(d) /\ d \in RegistryType
    <2>1. /\ d \in RegistryType
          /\ d.line = g.line /\ d.kept = g.kept /\ d.outcome = g.outcome
          /\ d.handed = g.handed /\ d.unclaimed = g.unclaimed
          /\ d.backstop = g.backstop /\ d.hidden = g.hidden /\ d.hold = g.hold
          /\ d.lock = g.lock /\ d.running = g.running /\ d.dropped = g.dropped
      BY <1>1 DEF RegistryType
    <2>. HIDE DEF d
    <2>. QED BY <2>1, SameLine
  <1>3. Still(d, u) /\ Sound(u)
    <2>. HIDE DEF d
    <2>1. /\ u \in RegistryType
          /\ u.line = d.line /\ u.kept = d.kept /\ u.outcome = d.outcome
          /\ u.handed = d.handed /\ u.unclaimed \subseteq d.unclaimed
          /\ u.backstop = d.backstop /\ u.hidden = d.hidden /\ u.hold = d.hold
          /\ u.lock = d.lock /\ u.running = d.running /\ u.dropped = d.dropped
          /\ u.deleting = d.deleting
      BY <1>2 DEF RegistryType
    <2>. HIDE DEF u
    <2>. QED BY <1>2, <2>1, SameLine DEF Still
  <1>4. h = IF g.lock \in g.unclaimed THEN Release(u, g.lock, NoEnd) ELSE d
    BY DEF BeginDelete
  <1>. HIDE DEF d, u, h
  <1>5. CASE g.lock \in g.unclaimed
    <2>1. g.lock \in Requests /\ {g.lock} \cap g.handed = {g.lock}
      BY <1>1, <1>5 DEF Sound, RegistryType, Requests
    <2>2. Sound(h) /\ Moves(u, h, {}, {g.lock})
      BY <1>3, <1>4, <1>5, <2>1, ReleaseMoves, NoEndIsAnEnd
    <2>3. Moves(d, h, {}, {} \cup {g.lock})
      BY <1>2, <1>3, <2>2, MovesTransitive, SoundTypes DEF Still
    <2>4. {} \cup {g.lock} = {g.lock} OBVIOUS
    <2>. QED BY <2>1, <2>2, <2>3, <2>4 DEF d, h
  <1>6. CASE g.lock \notin g.unclaimed
    <2>1. Moves(d, d, {}, {g.lock} \cap g.handed) BY DEF Moves
    <2>. QED BY <1>2, <1>4, <1>6, <2>1 DEF d, h
  <1>. QED BY <1>5, <1>6

\* stopWhatRuns
LEMMA StopWhatRunsStill ==
  ASSUME NEW g, Sound(g)
  PROVE  Still(g, StopWhatRuns(g))
  <1>. DEFINE h == [g EXCEPT !.signalled = @ \cup g.running]
  <1>1. g \in RegistryType BY DEF Sound
  <1>2. /\ h \in RegistryType
        /\ h.line = g.line /\ h.kept = g.kept /\ h.outcome = g.outcome
        /\ h.handed = g.handed /\ h.unclaimed = g.unclaimed
        /\ h.backstop = g.backstop /\ h.hidden = g.hidden /\ h.hold = g.hold
        /\ h.lock = g.lock /\ h.running = g.running /\ h.dropped = g.dropped
        /\ h.deleting = g.deleting
    BY <1>1 DEF RegistryType
  <1>3. StopWhatRuns(g) = AbortStream(h) BY DEF StopWhatRuns
  <1>. HIDE DEF h
  <1>4. Still(g, h) BY <1>2, SameLine DEF Still
  <1>5. Still(h, AbortStream(h)) BY <1>4, AbortStreamStill DEF Still
  <1>. QED BY <1>3, <1>4, <1>5, StillTransitive

\* What CancelLine sets keeps the registry's type.
LEMMA CancelledType ==
  ASSUME NEW x \in RegistryType, NEW none \in Seq(Sends),
         NEW hd \in SUBSET Sends, NEW o \in [Sends -> Outcomes]
  PROVE  [x EXCEPT !.line = none, !.backstop = FALSE, !.lastTurn = None,
                   !.hidden = hd, !.outcome = o] \in RegistryType
  BY DEF RegistryType

\* cancelQueuedSessionTurns tells each waiting send that its chat is gone.
LEMMA CancelLineStill ==
  ASSUME NEW g, Sound(g)
  PROVE  Still(g, CancelLine(g))
  <1>. DEFINE x == EndHold(g)
              none == <<>>
              hd == g.hidden \ Waiting(g)
              o == [s \in Sends |-> IF s \in Waiting(g) THEN "cancelled" ELSE g.outcome[s]]
              c == CancelLine(g)
  <1>1. g \in RegistryType BY DEF Sound
  <1>2. o \in [Sends -> Outcomes] /\ hd \in SUBSET Sends
    BY <1>1, SoundTypes DEF RegistryType, Outcomes
  <1>3. /\ Still(g, x) /\ Sound(x) /\ x \in RegistryType /\ x.hold = None
        /\ x.line = g.line /\ x.outcome = g.outcome /\ x.hidden = g.hidden
        /\ x.kept = g.kept /\ x.handed = g.handed
    BY <1>1, EndHoldStill, ZenonT(90) DEF Still, Sound, EndHold, RegistryType
  <1>4. none \in Seq(Sends) /\ ToSet(none) = {} /\ IsInjective(none)
    <2>1. none \in Seq(Sends) BY EmptySeq
    <2>2. ToSet(none) = {} BY <2>1, Members
    <2>3. IsInjective(none) BY DEF IsInjective
    <2>. QED BY <2>1, <2>2, <2>3
  <1>5. c = [x EXCEPT !.line = none, !.backstop = FALSE, !.lastTurn = None,
                      !.hidden = hd, !.outcome = o]
    <2>1. c = [x EXCEPT !.line = <<>>, !.backstop = FALSE, !.lastTurn = None,
                        !.hidden = x.hidden \ Waiting(g),
                        !.outcome = [s \in Sends |-> IF s \in Waiting(g)
                                       THEN "cancelled" ELSE x.outcome[s]]]
      BY <1>3 DEF CancelLine, RegistryType
    <2>. QED BY <1>3, <2>1
  <1>6. /\ \A s \in Waiting(g) : o[s] = "cancelled"
        /\ \A s \in Sends \ Waiting(g) : o[s] = g.outcome[s]
    BY SoundTypes
  <1>. HIDE DEF x, none, hd, o, c
  <1>7. /\ c \in RegistryType
        /\ c.line = none /\ c.kept = x.kept /\ c.outcome = o
        /\ c.handed = x.handed /\ c.unclaimed = x.unclaimed
        /\ c.hidden = hd /\ c.hold = x.hold
        /\ c.lock = x.lock /\ c.running = x.running /\ c.dropped = x.dropped
        /\ c.deleting = x.deleting
    <2>1. c \in RegistryType BY <1>2, <1>3, <1>4, <1>5, CancelledType
    <2>2. /\ c.line = none /\ c.kept = x.kept /\ c.outcome = o
          /\ c.handed = x.handed /\ c.unclaimed = x.unclaimed /\ c.hidden = hd
      BY <1>3, <1>5 DEF RegistryType
    <2>3. /\ c.hold = x.hold /\ c.lock = x.lock /\ c.running = x.running
          /\ c.dropped = x.dropped /\ c.deleting = x.deleting
      BY <1>3, <1>5 DEF RegistryType
    <2>. QED BY <2>1, <2>2, <2>3
  <1>8. Waiting(c) = {} /\ Waiting(x) = Waiting(g) BY <1>3, <1>4, <1>7 DEF Waiting
  <1>9. /\ \A s \in c.handed : c.outcome[s] \in {"run", "keep"}
        /\ \A s \in c.kept : c.outcome[s] # "run"
    <2>1. \A s \in g.handed : s \notin Waiting(g) BY DEF Sound
    <2>. QED BY <1>3, <1>6, <1>7, <2>1, SoundTypes DEF Sound
  <1>10. c.hidden \subseteq {c.lock} BY <1>3, <1>7, <1>8 DEF Sound, hd
  <1>11. Sound(c)
    BY <1>3, <1>4, <1>7, <1>8, <1>9, <1>10 DEF Sound, none
  <1>12. Moves(x, c, {}, {})
    BY <1>3, <1>6, <1>7, <1>8, SoundTypes DEF Moves, Accounted, HolderRuns
  <1>13. Still(x, c) BY <1>11, <1>12 DEF Still
  <1>. QED BY <1>3, <1>13, StillTransitive DEF c

\* endSessionDelete lets the line go on.
LEMMA EndDeleteStill ==
  ASSUME NEW g, Sound(g)
  PROVE  /\ Sound([g EXCEPT !.deleting = FALSE])
         /\ Still([g EXCEPT !.deleting = FALSE], EndDelete(g))
  <1>. DEFINE d == [g EXCEPT !.deleting = FALSE]
  <1>1. g \in RegistryType BY DEF Sound
  <1>2. /\ d \in RegistryType
        /\ d.line = g.line /\ d.kept = g.kept /\ d.outcome = g.outcome
        /\ d.handed = g.handed /\ d.unclaimed = g.unclaimed
        /\ d.backstop = g.backstop /\ d.hidden = g.hidden /\ d.hold = g.hold
        /\ d.lock = g.lock /\ d.running = g.running /\ d.dropped = g.dropped
    BY <1>1 DEF RegistryType
  <1>3. EndDelete(g) = HandOff(d) BY DEF EndDelete
  <1>. HIDE DEF d
  <1>4. Sound(d) BY <1>2, SameLine
  <1>5. Still(d, HandOff(d)) BY <1>4, HandOffStill
  <1>. QED BY <1>3, <1>4, <1>5 DEF d

-----------------------------------------------------------------------------
(* What a function tells the sends that wait: it hands the chat on once at  *)
(* most, and never over a request that holds it.                            *)

\* h has g's line, outcomes and kept sends.
SameSends(g, h) ==
  /\ h.line = g.line
  /\ h.outcome = g.outcome
  /\ h.kept = g.kept

\* s runs, held back by the lock or by the wait for a request whose lock went:
\* the line hands the chat to nobody.
Held(g, s) == s \in g.running \ g.waitedOut /\ Accounted(g, s)

\* Nobody has been told anything.
Untold(g, h) == h.line = g.line /\ h.outcome = g.outcome

\* The head of the line has left it, told by what is kept in h.
Hands(g, h) ==
  /\ g.line # <<>>
  /\ h.line = Tail(g.line)
  /\ h.outcome = [g.outcome EXCEPT ![Head(g.line)] = HandedTo(h, Head(g.line))]

\* ... and runs, so that it holds back the rest.
HandsOn(g, h) == Hands(g, h) /\ Held(h, Head(g.line))

\* A function that hands the chat on once at most, and not over a held request.
Serves(g, h) ==
  /\ h.kept = g.kept
  /\ Untold(g, h) \/ HandsOn(g, h)
  /\ \A s \in Sends : Held(g, s) => SameSends(g, h) /\ Held(h, s)

\* A step that may also release a request first, or keep all that waits.
Served(g, h) ==
  /\ h.kept \in {g.kept, g.kept \cup Waiting(g)}
  /\ Untold(g, h) \/ HandsOn(g, h)

\* A still function that tells nobody anything, and starts nobody's wait anew.
LEMMA QuietServes ==
  ASSUME NEW g, NEW h, Still(g, h), SameSends(g, h), h.waitedOut \subseteq g.waitedOut
  PROVE  Serves(g, h)
  BY DEF Still, Moves, SameSends, Serves, Untold, Held, Requests

\* What follows a function that serves, or one that served, serves on.
LEMMA ServesThen ==
  ASSUME NEW g, NEW h, NEW k, Sound(g), Serves(h, k)
  PROVE  /\ Serves(g, h) => Serves(g, k)
         /\ Served(g, h) => Served(g, k)
  <1>1. k.kept = h.kept BY DEF Serves
  <1>2. \A s : HandedTo(k, s) = HandedTo(h, s) BY <1>1 DEF HandedTo
  <1>3. g.line # <<>> => Head(g.line) \in Sends
    BY SoundTypes, HeadTailProperties
  <1>4. CASE Untold(g, h)
    <2>1. Untold(g, k) \/ HandsOn(g, k)
      BY <1>4 DEF Serves, HandsOn, Hands, Untold
    <2>. QED BY <1>1, <1>4, <2>1 DEF Serves, Served, SameSends, Untold
  <1>5. CASE HandsOn(g, h)
    <2>1. Held(h, Head(g.line)) /\ Head(g.line) \in Sends
      BY <1>3, <1>5 DEF HandsOn, Hands
    <2>2. SameSends(h, k) /\ Held(k, Head(g.line)) BY <2>1 DEF Serves
    <2>3. HandsOn(g, k) BY <1>2, <1>5, <2>2 DEF HandsOn, Hands, SameSends
    <2>. QED BY <1>1, <2>3 DEF Serves, Served, SameSends
  <1>. QED BY <1>4, <1>5 DEF Serves, Served

\* A quiet first step changes nothing of what serves after it.
LEMMA QuietThen ==
  ASSUME NEW g, NEW h, NEW k, SameSends(g, h), Served(h, k)
  PROVE  Served(g, k)
  BY DEF SameSends, Served, Untold, HandsOn, Hands, Waiting

\* What serves has served.
LEMMA ServesServed ==
  ASSUME NEW g, NEW h, Serves(g, h)
  PROVE  Served(g, h)
  BY DEF Serves, Served

\* queueCardHolds.delete, dropSessionTurnLock, clearStreamAbort and
\* createSessionTurnEntry tell no send anything.
LEMMA QuietOnes ==
  ASSUME NEW g, Sound(g)
  PROVE  /\ Serves(g, g)
         /\ Serves(g, EndHold(g))
         /\ Serves(g, RemoveStream(g))
         /\ g.lock # None => Serves(g, DropLock(g))
  <1>1. g \in RegistryType BY DEF Sound
  <1>2. ASSUME NEW h, h \in {g, EndHold(g), RemoveStream(g), DropLock(g)}
        PROVE  SameSends(g, h) /\ h.waitedOut \subseteq g.waitedOut
    BY ZenonT(60), <1>1, <1>2 DEF EndHold, RemoveStream, DropLock, RegistryType, SameSends
  <1>. QED BY <1>2, QuietServes, StillReflexive, EndHoldStill, RemoveStreamStill,
              DropLockStill

\* handOffSessionTurn: where it hands the chat on, no card holds the line.
LEMMA HandOffServes ==
  ASSUME NEW g \in RegistryType
  PROVE  /\ Serves(g, HandOff(g))
         /\ Untold(g, HandOff(g)) \/ HandOff(g).hold = None
  <1>. DEFINE h == HandOff(g)
  <1>1. g.line \in Seq(Sends) BY DEF RegistryType
  <1>2. CASE g.line = <<>>
    <2>1. h = [EndHold(g) EXCEPT !.backstop = FALSE] BY <1>2 DEF HandOff
    <2>2. /\ h.line = g.line /\ h.outcome = g.outcome /\ h.kept = g.kept
          /\ h.waitedOut = g.waitedOut /\ h.running = g.running
          /\ h.lock = g.lock /\ h.dropped = g.dropped
      BY <2>1 DEF EndHold, RegistryType
    <2>. HIDE DEF h
    <2>. QED BY <2>2 DEF Serves, SameSends, Untold, Held, Accounted, h
  <1>3. CASE g.line # <<>> /\ HeldBack(g)
    <2>1. h = g BY <1>3 DEF HandOff
    <2>. QED BY <2>1 DEF Serves, SameSends, Untold
  <1>4. CASE g.line # <<>> /\ ~HeldBack(g)
    <2>. DEFINE head == Head(g.line)
    <2>1. head \in Sends /\ head # None
      BY <1>1, <1>4, HeadTailProperties, RequestsAssumption DEF Requests
    <2>2. h = [CreateEntry(g, head) EXCEPT
                !.line = Tail(g.line), !.backstop = Tail(g.line) # <<>>,
                !.unclaimed = IF head \in g.kept THEN @ ELSE @ \cup {head},
                !.handed = @ \cup {head}, !.outcome[head] = HandedTo(g, head)]
      BY <1>4 DEF HandOff
    <2>. HIDE DEF head
    <2>3. /\ h.line = Tail(g.line) /\ h.kept = g.kept /\ h.lock = head
          /\ h.outcome = [g.outcome EXCEPT ![head] = HandedTo(g, head)]
          /\ h.running = g.running \cup {head} /\ h.hold = g.hold
          /\ h.waitedOut = g.waitedOut \ {head}
      BY <2>2 DEF CreateEntry, RegistryType
    <2>. HIDE DEF h
    <2>4. g.hold = None BY <1>4 DEF HeldBack
    <2>5. HandedTo(h, head) = HandedTo(g, head) BY <2>3 DEF HandedTo
    <2>6. HandsOn(g, h) BY <1>4, <2>3, <2>5 DEF HandsOn, Hands, Held, Accounted, head
    <2>7. \A s \in Sends : ~Held(g, s)
      BY <1>4, RequestsAssumption
         DEF HeldBack, DroppedStillWriting, Held, Accounted, Requests
    <2>. QED BY <2>3, <2>4, <2>6, <2>7 DEF Serves, h
  <1>. QED BY <1>2, <1>3, <1>4

\* Functions that serve compose, and nothing they hand leaves a card hold.
LEMMA ServesTransitive ==
  ASSUME NEW g, NEW h, NEW k, Sound(g), Serves(g, h), Serves(h, k)
  PROVE  Serves(g, k)
  BY ServesThen

\* pruneStaleSessionTurns: where it hands the chat on, no card holds the line.
LEMMA PruneServes ==
  ASSUME NEW g, Sound(g)
  PROVE  /\ Serves(g, Prune(g))
         /\ Untold(g, Prune(g)) \/ Prune(g).hold = None
  <1>. DEFINE p == PruneStream(g)
              q == IF "turnStale" \notin p.overdue /\ p.stream # None
                   THEN RemoveStream(p) ELSE p
              d == DropLock(q)
  <1>1. p = g \/ p = RemoveStream(g) BY DEF PruneStream
  <1>2. Sound(p) /\ Serves(g, p) /\ SameSends(g, p)
    <2>1. Sound(p) BY <1>1, RemoveStreamStill DEF Still
    <2>2. Serves(g, p) BY <1>1, QuietOnes
    <2>3. SameSends(g, p)
      <3>1. g \in RegistryType BY DEF Sound
      <3>2. SameSends(g, RemoveStream(g))
        BY <3>1 DEF RemoveStream, RegistryType, SameSends
      <3>3. SameSends(g, g) BY DEF SameSends
      <3>. QED BY <1>1, <3>2, <3>3
    <2>. QED BY <2>1, <2>2, <2>3
  <1>3. Prune(g) = PruneLock(p) BY DEF Prune
  <1>. HIDE DEF p
  <1>4. CASE ~LockIsStale(p)
    <2>1. Prune(g) = p BY <1>3, <1>4 DEF PruneLock
    <2>. QED BY <1>2, <2>1 DEF SameSends, Untold
  <1>5. CASE LockIsStale(p)
    <2>1. p.lock # None BY <1>5 DEF LockIsStale
    <2>2. /\ Sound(q) /\ Serves(p, q) /\ q.lock # None
          /\ SameSends(p, q)
      <3>1. p \in RegistryType BY <1>2 DEF Sound
      <3>2. SameSends(p, RemoveStream(p))
        BY <3>1 DEF RemoveStream, RegistryType, SameSends
      <3>3. SameSends(p, p) BY DEF SameSends
      <3>4. /\ Sound(RemoveStream(p)) /\ RemoveStream(p).lock = p.lock
            /\ Serves(p, RemoveStream(p)) /\ Serves(p, p)
        BY <1>2, RemoveStreamStill, QuietOnes DEF Still
      <3>. QED BY <1>2, <2>1, <3>2, <3>3, <3>4
    <2>3. Prune(g) = HandOff(d) BY <1>3, <1>5 DEF PruneLock
    <2>. HIDE DEF q
    <2>4. Sound(d) /\ Serves(q, d) /\ SameSends(q, d)
      <3>1. q \in RegistryType BY <2>2 DEF Sound
      <3>2. SameSends(q, d)
        BY <3>1 DEF DropLock, RegistryType, SameSends
      <3>. QED BY <2>2, <3>2, DropLockStill, QuietOnes DEF Still
    <2>. HIDE DEF d
    <2>5. /\ Serves(d, HandOff(d))
          /\ Untold(d, HandOff(d)) \/ HandOff(d).hold = None
      BY <2>4, HandOffServes DEF Sound
    <2>6. Serves(g, q) BY <1>2, <2>2, ServesTransitive
    <2>7. Serves(g, d) BY <2>4, <2>6, ServesTransitive
    <2>8. Serves(g, HandOff(d)) BY <2>5, <2>7, ServesTransitive
    <2>. QED BY <1>2, <2>2, <2>3, <2>4, <2>5, <2>8 DEF SameSends, Untold
  <1>. QED BY <1>4, <1>5

\* The streams, the stops, the claim of a handover and a registration tell no
\* send anything.
LEMMA MoreQuietOnes ==
  ASSUME NEW g, Sound(g)
  PROVE  /\ \A m \in Msgs : Serves(g, OpenStream(g, m)) /\ Serves(g, CloseStream(g, m))
         /\ Serves(g, StopTurn(g))
         /\ \A s \in Sends : Serves(g, Claim(g, s)) /\ SameSends(g, Claim(g, s))
         /\ \A r \in Requests : ~Refuses(g, r) => Serves(g, Register(g, r))
  <1>1. g \in RegistryType BY DEF Sound
  <1>2. ASSUME NEW m \in Msgs
        PROVE  Serves(g, OpenStream(g, m)) /\ Serves(g, CloseStream(g, m))
    <2>1. ASSUME NEW h, h \in {OpenStream(g, m), CloseStream(g, m)}
          PROVE  SameSends(g, h) /\ h.waitedOut \subseteq g.waitedOut
      BY ZenonT(60), <1>1, <2>1 DEF OpenStream, CloseStream, RemoveStream, RegistryType, SameSends
    <2>. QED BY <2>1, QuietServes, OpenStreamStill, CloseStreamStill
  <1>3. Serves(g, StopTurn(g))
    <2>1. SameSends(g, StopTurn(g)) /\ StopTurn(g).waitedOut \subseteq g.waitedOut
      BY <1>1 DEF StopTurn, RegistryType, SameSends
    <2>. QED BY <2>1, QuietServes, StopTurnStill
  <1>4. ASSUME NEW s \in Sends
        PROVE  Serves(g, Claim(g, s)) /\ SameSends(g, Claim(g, s))
    <2>1. SameSends(g, Claim(g, s)) /\ Claim(g, s).waitedOut \subseteq g.waitedOut
      BY <1>1 DEF Claim, RegistryType, SameSends
    <2>. QED BY <2>1, QuietServes, ClaimStill
  <1>5. ASSUME NEW r \in Requests, ~Refuses(g, r)
        PROVE  Serves(g, Register(g, r))
    <2>. DEFINE e == CreateEntry(g, r)
                h == Register(g, r)
    <2>1. /\ e.line = g.line /\ e.outcome = g.outcome /\ e.kept = g.kept
          /\ e.waitedOut = g.waitedOut \ {r}
      BY <1>1 DEF CreateEntry, RegistryType
    <2>2. h = e \/ h = [EndHold(e) EXCEPT !.endedHold[r] = g.hold]
      BY DEF Register
    <2>3. e \in RegistryType
      BY <1>5, CreateEntryStill DEF Refuses, Still, Sound
    <2>. HIDE DEF e
    <2>4. SameSends(g, h) /\ h.waitedOut \subseteq g.waitedOut
      BY <2>1, <2>2, <2>3 DEF EndHold, RegistryType, SameSends
    <2>. QED BY <1>5, <2>4, QuietServes, RegisterStill
  <1>. QED BY <1>2, <1>3, <1>4, <1>5

\* abortStream and stopWhatRuns prune, and mark.
LEMMA AbortServes ==
  ASSUME NEW g, Sound(g)
  PROVE  Serves(g, AbortStream(g)) /\ Serves(g, StopWhatRuns(g))
  <1>1. ASSUME NEW x, Sound(x) PROVE Serves(x, AbortStream(x))
    <2>. DEFINE p == Prune(x)
                h == [p EXCEPT !.aborted = TRUE, !.overdue = @ \ {"abort"}]
    <2>1. Sound(p) /\ Serves(x, p) /\ p \in RegistryType
      BY <1>1, PruneStill, PruneServes DEF Still, Sound
    <2>2. AbortStream(x) = IF p.stream = None THEN p ELSE h BY DEF AbortStream
    <2>. HIDE DEF p
    <2>3. /\ h.line = p.line /\ h.kept = p.kept /\ h.outcome = p.outcome
          /\ h.running = p.running /\ h.waitedOut = p.waitedOut
          /\ h.lock = p.lock /\ h.dropped = p.dropped
      BY <2>1 DEF RegistryType
    <2>. HIDE DEF h
    <2>4. Serves(p, h) BY <2>3 DEF Serves, SameSends, Untold, Held, Accounted
    <2>5. Serves(x, h) BY <1>1, <2>1, <2>4, ServesTransitive
    <2>. QED BY <2>1, <2>2, <2>5
  <1>. DEFINE m == [g EXCEPT !.signalled = @ \cup g.running]
  <1>2. g \in RegistryType BY DEF Sound
  <1>3. /\ m \in RegistryType
        /\ m.line = g.line /\ m.kept = g.kept /\ m.outcome = g.outcome
        /\ m.handed = g.handed /\ m.unclaimed = g.unclaimed
        /\ m.backstop = g.backstop /\ m.hidden = g.hidden /\ m.hold = g.hold
        /\ m.lock = g.lock /\ m.running = g.running /\ m.dropped = g.dropped
        /\ m.deleting = g.deleting /\ m.waitedOut = g.waitedOut
    BY <1>2 DEF RegistryType
  <1>4. StopWhatRuns(g) = AbortStream(m) BY DEF StopWhatRuns
  <1>. HIDE DEF m
  <1>5. Sound(m) /\ Serves(g, m)
    BY <1>3, SameLine DEF Serves, SameSends, Untold, Held, Accounted
  <1>6. Serves(m, AbortStream(m)) BY <1>1, <1>5
  <1>7. Serves(g, AbortStream(m)) BY <1>5, <1>6, ServesTransitive
  <1>. QED BY <1>1, <1>4, <1>7

\* clearSessionTurn and sendWaitingSendNow
LEMMA ClearServes ==
  ASSUME NEW g, Sound(g), NEW m
  PROVE  Serves(g, ClearTurn(g, m)) /\ Serves(g, SendWaitingNow(g))
  <1>1. ASSUME NEW x, Still(g, x), Serves(g, x) PROVE Serves(g, HandOff(x))
    <2>1. Sound(x) BY <1>1 DEF Still
    <2>2. Serves(x, HandOff(x)) BY <2>1, HandOffServes DEF Sound
    <2>. QED BY <1>1, <2>2, ServesTransitive
  <1>2. g.lock # None => Serves(g, HandOff(DropLock(g)))
    BY <1>1, DropLockStill, QuietOnes
  <1>3. Serves(g, HandOff(EndHold(g))) /\ Serves(g, HandOff(g))
    BY <1>1, EndHoldStill, StillReflexive, QuietOnes
  <1>. QED BY <1>2, <1>3, QuietOnes DEF ClearTurn, SendWaitingNow

\* Whatever set out g's line, outcomes and kept sends in y, the handover of y
\* hands over g's head.
LEMMA HandOffServed ==
  ASSUME NEW g, NEW y \in RegistryType, Untold(g, y),
         y.kept \in {g.kept, g.kept \cup Waiting(g)}
  PROVE  Served(g, HandOff(y))
  <1>1. Serves(y, HandOff(y)) BY HandOffServes
  <1>. DEFINE h == HandOff(y)
  <1>2. Serves(y, h) BY <1>1
  <1>. HIDE DEF h
  <1>. QED BY <1>2 DEF Serves, Served, Untold, HandsOn, Hands, h

\* keepQueuedSessionTurns keeps all that waits.
LEMMA KeepLineKeeps ==
  ASSUME NEW g, Sound(g)
  PROVE  /\ Untold(g, KeepLine(g)) /\ KeepLine(g).kept = g.kept \cup Waiting(g)
         /\ Served(g, KeepLine(g)) /\ KeepLine(g).lock = g.lock
  <1>1. g \in RegistryType BY DEF Sound
  <1>2. /\ Untold(g, KeepLine(g)) /\ KeepLine(g).kept = g.kept \cup Waiting(g)
        /\ KeepLine(g).lock = g.lock
    BY <1>1 DEF KeepLine, EndHold, RegistryType, Untold
  <1>. QED BY <1>2 DEF Served

\* One tick of the line's timer: a tick whose prune hands the chat on meets no
\* card hold, so it keeps nothing.
LEMMA BackstopTickServes ==
  ASSUME NEW g, Sound(g)
  PROVE  Served(g, BackstopTick(g))
  <1>. DEFINE p == Prune(g)
              k == KeepExpiredHold(p)
  <1>1. Sound(p) /\ Serves(g, p) /\ (Untold(g, p) \/ p.hold = None)
    BY PruneStill, PruneServes DEF Still
  <1>. HIDE DEF p
  <1>2. Sound(k) BY <1>1, KeepLineStill DEF KeepExpiredHold, Still
  <1>3. Served(g, k)
    <2>1. CASE k = p BY <1>1, <2>1, ServesServed
    <2>2. CASE k = KeepLine(p) /\ p.hold # None
      <3>1. Untold(g, p) /\ p.kept = g.kept BY <1>1, <2>2 DEF Serves
      <3>2. Untold(p, k) /\ k.kept = p.kept \cup Waiting(p)
        BY <1>1, <2>2, KeepLineKeeps
      <3>. QED BY <3>1, <3>2 DEF Served, Untold, Waiting
    <2>. QED BY <2>1, <2>2 DEF KeepExpiredHold
  <1>. HIDE DEF k
  <1>4. Serves(k, HandOff(k)) BY <1>2, HandOffServes DEF Sound
  <1>5. Served(g, HandOff(k)) BY <1>3, <1>4, ServesThen
  <1>. QED BY <1>5 DEF BackstopTick, k, p

\* releaseSessionTurn
LEMMA ReleaseServes ==
  ASSUME NEW g, Sound(g), NEW r \in Requests, NEW end \in Ends
  PROVE  Served(g, Release(g, r, end))
  <1>. DEFINE f == [g EXCEPT !.running = @ \ {r}]
              x == SettleHold(f, r, end)
              d == DropLock(x)
  <1>1. g \in RegistryType BY DEF Sound
  <1>2. /\ f \in RegistryType
        /\ f.line = g.line /\ f.kept = g.kept /\ f.outcome = g.outcome
        /\ f.handed = g.handed /\ f.unclaimed = g.unclaimed
        /\ f.backstop = g.backstop /\ f.hidden = g.hidden /\ f.hold = g.hold
        /\ f.lock = g.lock
    BY <1>1 DEF RegistryType
  <1>3. \/ Release(g, r, end) = HandOff(f)
        \/ Release(g, r, end) = HandOff(x)
        \/ Release(g, r, end) = HandOff(d) /\ g.lock = r
    BY DEF Release
  <1>. HIDE DEF f
  <1>4. Waiting(f) = Waiting(g) /\ Runnable(f) = Runnable(g)
    BY <1>2 DEF Waiting, Runnable
  <1>5. Sound(f) BY <1>2, <1>4 DEF Sound
  <1>6. Sound(x) /\ x.lock = g.lock BY <1>2, <1>5, SettleHoldStill DEF Still
  <1>7. Untold(g, x) /\ x.kept \in {g.kept, g.kept \cup Waiting(g)}
    <2>1. \/ x = f \/ x = KeepLine(f)
          \/ x = [EndHold(f) EXCEPT !.hold = end.card]
          \/ \E m : x = [f EXCEPT !.hold = m]
      BY DEF SettleHold
    <2>2. CASE x = KeepLine(f)
      BY <1>2, <1>4, <1>5, <2>2, KeepLineKeeps DEF Untold
    <2>3. CASE x = f \/ x = [EndHold(f) EXCEPT !.hold = end.card]
               \/ \E m : x = [f EXCEPT !.hold = m]
      <3>1. x.line = f.line /\ x.outcome = f.outcome /\ x.kept = f.kept
        BY <1>2, <2>3 DEF EndHold, RegistryType
      <3>. QED BY <1>2, <3>1 DEF Untold
    <2>. QED BY <2>1, <2>2, <2>3
  <1>. HIDE DEF x
  <1>8. x \in RegistryType BY <1>6 DEF Sound
  <1>9. g.lock = r => /\ d \in RegistryType
                      /\ d.line = x.line /\ d.outcome = x.outcome /\ d.kept = x.kept
    <2>1. ASSUME g.lock = r PROVE d \in RegistryType
      <3>1. x.lock # None BY <1>6, <2>1, RequestsAssumption
      <3>. QED BY <1>6, <3>1, DropLockStill DEF Still, Sound
    <2>2. d.line = x.line /\ d.outcome = x.outcome /\ d.kept = x.kept
      BY <1>8 DEF DropLock, RegistryType
    <2>. QED BY <2>1, <2>2
  <1>. HIDE DEF d
  <1>10. Served(g, HandOff(f)) BY <1>2, HandOffServed DEF Untold
  <1>11. Served(g, HandOff(x)) BY <1>7, <1>8, HandOffServed
  <1>12. g.lock = r => Served(g, HandOff(d))
    BY <1>7, <1>9, HandOffServed DEF Untold
  <1>. QED BY <1>3, <1>10, <1>11, <1>12

\* abandonQueuedSessionTurn, of a send that waits no more.
LEMMA AbandonServes ==
  ASSUME NEW g, Sound(g), NEW s \in Sends, s \notin Waiting(g)
  PROVE  Served(g, Abandon(g, s))
  <1>. DEFINE c == Claim(g, s)
  <1>1. Sound(c) /\ SameSends(g, c) BY ClaimStill, MoreQuietOnes DEF Still
  <1>2. Abandon(g, s) = g \/ Abandon(g, s) = Release(c, s, NoEnd) BY DEF Abandon
  <1>. HIDE DEF c
  <1>3. Served(c, Release(c, s, NoEnd))
    BY <1>1, ReleaseServes, NoEndIsAnEnd DEF Requests
  <1>4. Served(g, Release(c, s, NoEnd)) BY <1>1, <1>3, QuietThen
  <1>5. Served(g, g) BY QuietOnes, ServesServed
  <1>. QED BY <1>2, <1>4, <1>5

\* Appending to a line that waits leaves its head and its order.
LEMMA AppendTail ==
  ASSUME NEW S, NEW l \in Seq(S), l # <<>>, NEW e \in S
  PROVE  /\ Head(Append(l, e)) = Head(l)
         /\ Tail(Append(l, e)) = Append(Tail(l), e)
  <1>. DEFINE a == Append(l, e)
              t == Tail(l)
  <1>1. /\ Len(l) \in Nat \ {0} /\ Head(l) = l[1]
        /\ t \in Seq(S) /\ Len(t) = Len(l) - 1
        /\ \A i \in 1..Len(l) - 1 : t[i] = l[i + 1]
    BY LenProperties, HeadTailProperties, EmptySeq
  <1>2. /\ a \in Seq(S) /\ a # <<>> /\ Len(a) = Len(l) + 1
        /\ \A i \in 1..Len(l) : a[i] = l[i]
        /\ a[Len(l) + 1] = e
    BY AppendProperties
  <1>. HIDE DEF a, t
  <1>3. /\ Head(a) = a[1] /\ Tail(a) \in Seq(S) /\ Len(Tail(a)) = Len(l)
        /\ \A i \in 1..Len(l) : Tail(a)[i] = a[i + 1]
    BY <1>1, <1>2, HeadTailProperties
  <1>4. /\ Append(t, e) \in Seq(S) /\ Len(Append(t, e)) = Len(l)
        /\ \A i \in 1..Len(l) - 1 : Append(t, e)[i] = t[i]
        /\ Append(t, e)[Len(l)] = e
    BY <1>1, AppendProperties
  <1>5. ASSUME NEW i \in 1..Len(l) PROVE Tail(a)[i] = Append(t, e)[i]
    <2>1. CASE i = Len(l) BY <1>1, <1>2, <1>3, <1>4, <2>1
    <2>2. CASE i # Len(l)
      <3>1. i \in 1..Len(l) - 1 /\ i + 1 \in 1..Len(l) BY <1>1, <2>2
      <3>. QED BY <1>1, <1>2, <1>3, <1>4, <3>1
    <2>. QED BY <2>1, <2>2
  <1>6. Tail(a) = Append(t, e) BY <1>1, <1>3, <1>4, <1>5, SeqEqual
  <1>7. Head(a) = Head(l) BY <1>1, <1>2, <1>3
  <1>. QED BY <1>6, <1>7 DEF a, t

\* Taking the last of a line out of it undoes its joining.
LEMMA WithoutLast ==
  ASSUME NEW S, NEW l \in Seq(S), NEW e \in S, e \notin ToSet(l)
  PROVE  WithoutSend(Append(l, e), e) = l
  <1>. DEFINE a == Append(l, e)
              n == Len(l)
              k == CHOOSE i \in DOMAIN a : a[i] = e
  <1>1. /\ n \in Nat /\ DOMAIN l = 1..n
        /\ a \in Seq(S) /\ Len(a) = n + 1 /\ DOMAIN a = 1..n + 1
        /\ \A i \in 1..n : a[i] = l[i]
        /\ a[n + 1] = e
    BY LenProperties, AppendProperties
  <1>2. \A i \in 1..n : l[i] # e BY <1>1 DEF ToSet
  <1>3. WithoutSend(a, e) = SubSeq(a, 1, k - 1) \o SubSeq(a, k + 1, Len(a))
    BY DEF WithoutSend, RemoveAt
  <1>. HIDE DEF a, n
  <1>4. k = n + 1
    <2>1. k \in DOMAIN a /\ a[k] = e BY <1>1
    <2>. HIDE DEF k
    <2>. QED BY <1>1, <1>2, <2>1
  <1>. HIDE DEF k
  <1>5. SubSeq(a, 1, k - 1) = l
    <2>1. k - 1 = n BY <1>1, <1>4
    <2>2. \A i \in 1..n : a[i] \in S BY <1>1, LenProperties
    <2>3. /\ SubSeq(a, 1, n) \in Seq(S)
          /\ Len(SubSeq(a, 1, n)) = n
          /\ \A i \in 1..n : SubSeq(a, 1, n)[i] = l[i]
      <3>1. n \in Int /\ 1 \in Int /\ n - 1 + 1 = n /\ (IF 1 <= n THEN TRUE ELSE n = 0)
            /\ \A i \in 1..n : 1 + i - 1 = i
        BY <1>1
      <3>2. /\ SubSeq(a, 1, n) \in Seq(S)
            /\ Len(SubSeq(a, 1, n)) = IF 1 <= n THEN n - 1 + 1 ELSE 0
            /\ \A i \in 1..n - 1 + 1 : SubSeq(a, 1, n)[i] = a[1 + i - 1]
        BY <2>2, <3>1, SubSeqProperties
      <3>. QED BY <1>1, <3>1, <3>2
    <2>. QED BY <2>1, <2>3, SeqEqual DEF n
  <1>6. SubSeq(a, k + 1, Len(a)) = <<>>
    <2>1. Len(a) < k + 1 /\ k + 1 \in Int /\ Len(a) \in Int BY <1>1, <1>4
    <2>. QED BY <2>1, SubSeqEmpty
  <1>7. l \o <<>> = l BY ConcatEmptySeq
  <1>. QED BY <1>3, <1>5, <1>6, <1>7 DEF a

\* g with s at the end of its line.
WithLast(g, s) == [g EXCEPT !.line = Append(@, s)]

\* A function by which s joins g's line, kept or not; the line, s included, may
\* have handed the chat on.
Joined(g, h, s) ==
  /\ h.kept \in {g.kept, g.kept \cup {s}}
  /\ Untold(WithLast(g, s), h) \/ Hands(WithLast(g, s), h)

\* queueSessionTurn: a send that joins behind a lock or behind another waits.
LEMMA EnqueueJoins ==
  ASSUME NEW g, Sound(g), NEW s \in Sends, NEW keep \in BOOLEAN
  PROVE  LET e == Enqueue(g, s, keep) IN
         /\ Joined(g, e, s)
         /\ e.kept = IF keep THEN g.kept \cup {s} ELSE g.kept
         /\ \A t \in Sends : Held(g, t) => e.line = Append(g.line, s) /\ e.outcome = g.outcome
         /\ ~(g.lock = None /\ g.line = <<>>) => s \in Waiting(e)
  <1>. DEFINE k == IF keep THEN g.kept \cup {s} ELSE g.kept
              a == Append(g.line, s)
              j == [g EXCEPT !.line = Append(@, s), !.hidden = @ \cup {s},
                             !.kept = IF keep THEN @ \cup {s} ELSE @, !.backstop = TRUE]
              x == IF ~keep /\ g.lock = None THEN EndHold(j) ELSE j
              e == Enqueue(g, s, keep)
  <1>1. /\ g \in RegistryType /\ g.line \in Seq(Sends) /\ a \in Seq(Sends)
        /\ k \in SUBSET Sends /\ Waiting(g) \subseteq Sends
        /\ a # <<>> /\ ToSet(a) = Waiting(g) \cup {s}
    BY SoundTypes, AppendProperties, MembersOfAppend DEF Waiting
  <1>2. e = HandOff(x) BY DEF Enqueue
  <1>. HIDE DEF e
  <1>3. /\ j \in RegistryType
        /\ j.line = a /\ j.kept = k /\ j.outcome = g.outcome /\ j.running = g.running
        /\ j.waitedOut = g.waitedOut /\ j.lock = g.lock /\ j.dropped = g.dropped
    BY ZenonT(60), <1>1 DEF RegistryType
  <1>4. /\ WithLast(g, s).line = a /\ WithLast(g, s).outcome = g.outcome
    BY <1>1 DEF WithLast, RegistryType
  <1>. HIDE DEF j, k, a
  <1>5. /\ x \in RegistryType
        /\ x.line = a /\ x.kept = k /\ x.outcome = g.outcome /\ x.running = g.running
        /\ x.waitedOut = g.waitedOut /\ x.lock = g.lock /\ x.dropped = g.dropped
    <2>1. /\ EndHold(j) \in RegistryType
          /\ EndHold(j).line = a /\ EndHold(j).kept = k /\ EndHold(j).outcome = g.outcome
          /\ EndHold(j).running = g.running /\ EndHold(j).waitedOut = g.waitedOut
          /\ EndHold(j).lock = g.lock /\ EndHold(j).dropped = g.dropped
      BY <1>3 DEF EndHold, RegistryType
    <2>. QED BY <1>3, <2>1
  <1>. HIDE DEF x
  <1>6. Serves(x, e) BY <1>2, <1>5, HandOffServes
  <1>7. e.kept = k BY <1>5, <1>6 DEF Serves
  <1>8. Untold(WithLast(g, s), e) \/ Hands(WithLast(g, s), e)
    BY <1>4, <1>5, <1>6 DEF Serves, Untold, HandsOn, Hands
  <1>9. \A t \in Sends : Held(g, t) => e.line = a /\ e.outcome = g.outcome
    <2>1. \A t : Held(g, t) => Held(x, t) BY <1>5 DEF Held, Accounted
    <2>. QED BY <2>1, <1>5, <1>6 DEF Serves, SameSends
  <1>10. ASSUME ~(g.lock = None /\ g.line = <<>>) PROVE s \in Waiting(e)
    <2>1. CASE g.lock # None
      <3>1. e = x BY <1>1, <1>2, <1>5, <2>1 DEF HandOff, HeldBack
      <3>. QED BY <1>1, <1>5, <3>1 DEF Waiting
    <2>2. CASE g.line # <<>>
      <3>1. Tail(a) = Append(Tail(g.line), s) /\ Tail(g.line) \in Seq(Sends)
        BY <1>1, <2>2, AppendTail, HeadTailProperties DEF a
      <3>2. s \in ToSet(Append(Tail(g.line), s))
        <4>. DEFINE t == Tail(g.line)
        <4>1. t \in Seq(Sends) BY <3>1
        <4>. HIDE DEF t
        <4>2. ToSet(Append(t, s)) = ToSet(t) \cup {s} BY <4>1, MembersOfAppend
        <4>. QED BY <4>2 DEF t
      <3>3. e.line \in {a, Tail(a)}
        BY <1>5, <1>6 DEF Serves, Untold, HandsOn, Hands
      <3>. QED BY <1>1, <3>1, <3>2, <3>3 DEF Waiting
    <2>. QED BY <1>10, <2>1, <2>2
  <1>. QED BY <1>7, <1>8, <1>9, <1>10 DEF Joined, k, a, e

\* ... also when the check before it pruned, and handed the chat on.
LEMMA PrunedJoins ==
  ASSUME NEW g, Sound(g), NEW s \in Sends, s \notin Waiting(g),
         NEW keep \in BOOLEAN
  PROVE  Joined(g, Enqueue(Prune(g), s, keep), s)
  <1>. DEFINE p == Prune(g)
              e == Enqueue(p, s, keep)
  <1>1. Sound(p) /\ Serves(g, p) /\ p.kept = g.kept
    BY PruneStill, PruneServes DEF Still, Serves
  <1>. HIDE DEF p
  <1>2. /\ Joined(p, e, s)
        /\ \A t \in Sends : Held(p, t) => e.line = Append(p.line, s) /\ e.outcome = p.outcome
    BY <1>1, EnqueueJoins
  <1>. HIDE DEF e
  <1>3. /\ g \in RegistryType /\ p \in RegistryType
        /\ WithLast(g, s).line = Append(g.line, s) /\ WithLast(g, s).outcome = g.outcome
        /\ WithLast(p, s).line = Append(p.line, s) /\ WithLast(p, s).outcome = p.outcome
    BY <1>1 DEF WithLast, RegistryType, Sound
  <1>4. ASSUME Untold(g, p) PROVE Joined(g, e, s)
    BY <1>1, <1>2, <1>3, <1>4 DEF Joined, Untold, Hands
  <1>5. ASSUME HandsOn(g, p) PROVE Joined(g, e, s)
    <2>. DEFINE head == Head(g.line)
    <2>1. g.line # <<>> /\ g.line \in Seq(Sends) BY <1>5, SoundTypes DEF HandsOn, Hands
    <2>2. head \in Sends BY <2>1, HeadTailProperties
    <2>3. head # s BY <2>1, MembersOfTail DEF Waiting
    <2>4. e.line = Append(Tail(g.line), s) /\ e.outcome = p.outcome
      BY <1>2, <1>5, <2>2 DEF HandsOn, Hands
    <2>5. /\ Head(Append(g.line, s)) = head
          /\ Tail(Append(g.line, s)) = Append(Tail(g.line), s)
          /\ Append(g.line, s) # <<>>
      BY <2>1, AppendTail, AppendProperties
    <2>6. HandedTo(e, head) = HandedTo(p, head) BY <1>2, <2>3 DEF HandedTo, Joined
    <2>7. Hands(WithLast(g, s), e)
      BY <1>3, <1>5, <2>4, <2>5, <2>6 DEF HandsOn, Hands
    <2>. QED BY <1>1, <1>2, <2>7 DEF Joined
  <1>6. Joined(g, e, s) BY <1>1, <1>4, <1>5 DEF Serves
  <1>. QED BY <1>6 DEF p, e

\* A send thrown out of its handler leaves the line as if it had never come.
LEMMA ThrownServes ==
  ASSUME NEW g, Sound(g), NEW s \in Sends, s \notin Waiting(g), g.outcome[s] = "none",
         ~(Prune(g).lock = None /\ Prune(g).line = <<>>)
  PROVE  LET h == Abandon(Enqueue(Prune(g), s, FALSE), s) IN
         h.kept = g.kept /\ (Untold(g, h) \/ Hands(g, h))
  <1>. DEFINE p == Prune(g)
              e == Enqueue(p, s, FALSE)
              h == Abandon(e, s)
  <1>1. Sound(p) /\ Still(g, p) /\ p.kept = g.kept
    BY PruneStill, PruneServes DEF Still, Serves
  <1>2. Joined(g, e, s) BY PrunedJoins
  <1>3. s \notin Waiting(p) /\ p.outcome[s] = "none"
    BY <1>1 DEF Still, Moves
  <1>4. e.kept = g.kept /\ s \in Waiting(e) BY <1>1, EnqueueJoins
  <1>. HIDE DEF p
  <1>5. Sound(e) BY <1>1, <1>3, EnqueueMoves
  <1>. HIDE DEF e
  <1>6. e \in RegistryType BY <1>5 DEF Sound
  <1>7. h.line = WithoutSend(e.line, s) /\ h.kept = e.kept /\ h.outcome = e.outcome
    BY <1>4, <1>6 DEF Abandon, LeaveLine, EndHold, RegistryType
  <1>8. /\ g.line \in Seq(Sends) /\ s \notin ToSet(g.line)
        /\ WithLast(g, s).line = Append(g.line, s) /\ WithLast(g, s).outcome = g.outcome
    BY SoundTypes DEF Waiting, WithLast, Sound, RegistryType
  <1>. HIDE DEF h
  <1>9. CASE Untold(WithLast(g, s), e)
    <2>1. WithoutSend(e.line, s) = g.line BY <1>8, <1>9, WithoutLast DEF Untold
    <2>. QED BY <1>4, <1>7, <1>8, <1>9, <2>1 DEF Untold, h, e, p
  <1>10. CASE Hands(WithLast(g, s), e)
    <2>1. e.line = Tail(Append(g.line, s)) BY <1>8, <1>10 DEF Hands
    <2>2. g.line # <<>>
      <3>1. SUFFICES ASSUME g.line = <<>> PROVE FALSE OBVIOUS
      <3>2. Append(g.line, s) \in Seq(Sends) /\ Len(Append(g.line, s)) = 1
        BY <1>8, <3>1, AppendProperties, EmptySeq
      <3>3. Tail(Append(g.line, s)) \in Seq(Sends) /\ Len(Tail(Append(g.line, s))) = 0
        BY <1>8, <3>2, AppendProperties, HeadTailProperties
      <3>4. e.line = <<>> BY <2>1, <3>3, EmptySeq
      <3>5. ToSet(e.line) = {} BY <3>4, EmptySeq, Members
      <3>. QED BY <1>4, <3>5 DEF Waiting
    <2>3. /\ Head(Append(g.line, s)) = Head(g.line)
          /\ Tail(Append(g.line, s)) = Append(Tail(g.line), s)
      BY <1>8, <2>2, AppendTail
    <2>4. Tail(g.line) \in Seq(Sends) /\ s \notin ToSet(Tail(g.line))
      BY <1>8, <2>2, HeadTailProperties, MembersOfTail
    <2>5. h.line = Tail(g.line) BY <1>7, <2>1, <2>3, <2>4, WithoutLast
    <2>6. \A t : HandedTo(h, t) = HandedTo(e, t) BY <1>7 DEF HandedTo
    <2>7. Hands(g, h) BY <1>7, <1>8, <1>10, <2>2, <2>3, <2>5, <2>6 DEF Hands
    <2>. QED BY <1>4, <1>7, <2>7 DEF h, e, p
  <1>. QED BY <1>2, <1>9, <1>10 DEF Joined

-----------------------------------------------------------------------------
(* Who a function starts, and from whom it takes a handover.                *)

\* A function that takes a handover from nobody but R, and by which, R apart,
\* only who is handed the chat begins to run or is no longer counted as dropped.
Tracks(g, h, R) ==
  /\ g.handed \ R \subseteq h.handed
  /\ h.running \ g.running \subseteq h.handed \cup R
  /\ g.dropped \ h.dropped \subseteq h.handed \cup R

\* A function that starts nobody and takes back no handover.
LEMMA QuietTracks ==
  ASSUME NEW g, NEW h, h.handed = g.handed,
         h.running \subseteq g.running, g.dropped \subseteq h.dropped
  PROVE  Tracks(g, h, {})
  BY DEF Tracks

\* Functions that track compose.
LEMMA TracksTransitive ==
  ASSUME NEW g, NEW h, NEW k, NEW P, NEW Q, NEW R, P \subseteq R, Q \subseteq R,
         Tracks(g, h, P), Tracks(h, k, Q)
  PROVE  Tracks(g, k, R)
  BY DEF Tracks

LEMMA StillTracks ==
  ASSUME NEW g, NEW h, NEW k, Tracks(g, h, {}), Tracks(h, k, {})
  PROVE  Tracks(g, k, {})
  BY DEF Tracks

\* handOffSessionTurn: who it starts, it hands the chat.
LEMMA HandOffTracks ==
  ASSUME NEW g \in RegistryType
  PROVE  Tracks(g, HandOff(g), {})
  <1>. DEFINE h == HandOff(g)
              head == Head(g.line)
  <1>1. CASE g.line = <<>>
    <2>1. h = [EndHold(g) EXCEPT !.backstop = FALSE] BY <1>1 DEF HandOff
    <2>2. h.handed = g.handed /\ h.running = g.running /\ h.dropped = g.dropped
      BY <2>1 DEF EndHold, RegistryType
    <2>. QED BY <2>2, QuietTracks
  <1>2. CASE g.line # <<>> /\ HeldBack(g)
    <2>1. h = g BY <1>2 DEF HandOff
    <2>. QED BY <2>1, QuietTracks
  <1>3. CASE g.line # <<>> /\ ~HeldBack(g)
    <2>1. h = [CreateEntry(g, head) EXCEPT
                !.line = Tail(g.line), !.backstop = Tail(g.line) # <<>>,
                !.unclaimed = IF head \in g.kept THEN @ ELSE @ \cup {head},
                !.handed = @ \cup {head}, !.outcome[head] = HandedTo(g, head)]
      BY <1>3 DEF HandOff
    <2>. HIDE DEF head
    <2>2. /\ h.handed = g.handed \cup {head} /\ h.running = g.running \cup {head}
          /\ h.dropped = g.dropped \ {head}
      BY <2>1 DEF CreateEntry, RegistryType
    <2>. QED BY <2>2 DEF Tracks
  <1>. QED BY <1>1, <1>2, <1>3

\* The functions that leave who runs and who was handed the chat alone.
LEMMA QuietOnesTrack ==
  ASSUME NEW g \in RegistryType
  PROVE  /\ Tracks(g, g, {})
         /\ Tracks(g, EndHold(g), {})
         /\ Tracks(g, DropLock(g), {})
         /\ Tracks(g, RemoveStream(g), {})
         /\ Tracks(g, KeepLine(g), {})
         /\ Tracks(g, StopTurn(g), {})
         /\ Tracks(g, CancelLine(g), {})
         /\ \A m \in Msgs : Tracks(g, OpenStream(g, m), {}) /\ Tracks(g, CloseStream(g, m), {})
  <1>1. ASSUME NEW h, h \in {g, EndHold(g), DropLock(g), RemoveStream(g), KeepLine(g),
                             StopTurn(g), CancelLine(g)}
        PROVE  Tracks(g, h, {})
    <2>1. /\ EndHold(g) \in RegistryType /\ EndHold(g).handed = g.handed
          /\ EndHold(g).running = g.running /\ EndHold(g).dropped = g.dropped
      BY DEF EndHold, RegistryType
    <2>2. CASE h \in {KeepLine(g), CancelLine(g)}
      <3>. DEFINE e == EndHold(g)
      <3>1. \/ h = [e EXCEPT !.kept = @ \cup Waiting(g)]
            \/ h = [e EXCEPT !.line = <<>>, !.backstop = FALSE, !.lastTurn = None,
                             !.hidden = @ \ Waiting(g),
                             !.outcome = [s \in Sends |->
                                IF s \in Waiting(g) THEN "cancelled" ELSE @[s]]]
        BY <2>2 DEF KeepLine, CancelLine
      <3>2. /\ e \in RegistryType /\ e.handed = g.handed
            /\ e.running = g.running /\ e.dropped = g.dropped
        BY <2>1
      <3>. HIDE DEF e
      <3>3. h.handed = e.handed /\ h.running = e.running /\ h.dropped = e.dropped
        BY <3>1, <3>2 DEF RegistryType
      <3>. QED BY <3>2, <3>3, QuietTracks
    <2>3. CASE h \in {g, EndHold(g), DropLock(g), RemoveStream(g), StopTurn(g)}
      <3>. DEFINE Quiet == /\ h.handed = g.handed /\ h.running = g.running
                           /\ g.dropped \subseteq h.dropped
      <3>1. h = g \/ h = EndHold(g) => Quiet BY <2>1
      <3>2. h = DropLock(g) => Quiet BY <2>1 DEF DropLock, RegistryType
      <3>3. h = RemoveStream(g) => Quiet BY <2>1 DEF RemoveStream, RegistryType
      <3>4. h = StopTurn(g) => Quiet BY <2>1 DEF StopTurn, RegistryType
      <3>5. Quiet BY <2>3, <3>1, <3>2, <3>3, <3>4
      <3>. QED BY <3>5, QuietTracks
    <2>. QED BY <1>1, <2>2, <2>3
  <1>2. ASSUME NEW m \in Msgs, NEW h, h \in {OpenStream(g, m), CloseStream(g, m)}
        PROVE  Tracks(g, h, {})
    <2>1. h.handed = g.handed /\ h.running = g.running /\ g.dropped \subseteq h.dropped
      BY ZenonT(60), <1>2 DEF OpenStream, CloseStream, RemoveStream, RegistryType
    <2>. QED BY <2>1, QuietTracks
  <1>. QED BY <1>1, <1>2

\* pruneStaleSessionTurns
LEMMA PruneTracks ==
  ASSUME NEW g, Sound(g)
  PROVE  Tracks(g, Prune(g), {})
  <1>. DEFINE p == PruneStream(g)
              q == IF "turnStale" \notin p.overdue /\ p.stream # None
                   THEN RemoveStream(p) ELSE p
              d == DropLock(q)
  <1>1. Sound(p) /\ Tracks(g, p, {})
    <2>1. g \in RegistryType BY DEF Sound
    <2>2. Sound(RemoveStream(g)) BY RemoveStreamStill DEF Still
    <2>. QED BY <2>1, <2>2, QuietOnesTrack DEF PruneStream
  <1>2. Prune(g) = IF LockIsStale(p) THEN HandOff(d) ELSE p
    BY DEF Prune, PruneLock
  <1>. HIDE DEF p
  <1>3. Sound(q) /\ Tracks(p, q, {}) /\ q.lock = p.lock
    <2>1. p \in RegistryType BY <1>1 DEF Sound
    <2>2. Sound(RemoveStream(p)) /\ RemoveStream(p).lock = p.lock
      BY <1>1, RemoveStreamStill DEF Still
    <2>. QED BY <1>1, <2>1, <2>2, QuietOnesTrack
  <1>. HIDE DEF q
  <1>4. ASSUME LockIsStale(p) PROVE Tracks(p, HandOff(d), {})
    <2>1. p.lock # None BY <1>4 DEF LockIsStale
    <2>2. Sound(d) /\ Tracks(q, d, {})
      BY <1>3, <2>1, DropLockStill, QuietOnesTrack DEF Still, Sound
    <2>. HIDE DEF d
    <2>3. Tracks(d, HandOff(d), {}) BY <2>2, HandOffTracks DEF Sound
    <2>4. Tracks(p, d, {}) BY <1>3, <2>2, StillTracks
    <2>. QED BY <2>3, <2>4, StillTracks
  <1>. HIDE DEF d
  <1>. QED BY <1>1, <1>2, <1>4, StillTracks

\* abortStream and stopWhatRuns
LEMMA AbortTracks ==
  ASSUME NEW g, Sound(g)
  PROVE  Tracks(g, AbortStream(g), {}) /\ Tracks(g, StopWhatRuns(g), {})
  <1>1. ASSUME NEW x, Sound(x) PROVE Tracks(x, AbortStream(x), {})
    <2>. DEFINE p == Prune(x)
                h == [p EXCEPT !.aborted = TRUE, !.overdue = @ \ {"abort"}]
    <2>1. p \in RegistryType /\ Tracks(x, p, {})
      BY <1>1, PruneStill, PruneTracks DEF Still, Sound
    <2>2. AbortStream(x) = IF p.stream = None THEN p ELSE h BY DEF AbortStream
    <2>. HIDE DEF p
    <2>3. h.handed = p.handed /\ h.running = p.running /\ h.dropped = p.dropped
      BY <2>1 DEF RegistryType
    <2>. HIDE DEF h
    <2>4. Tracks(p, h, {}) BY <2>3, QuietTracks
    <2>. QED BY <2>1, <2>2, <2>4, StillTracks
  <1>. DEFINE m == [g EXCEPT !.signalled = @ \cup g.running]
  <1>2. g \in RegistryType BY DEF Sound
  <1>3. /\ m \in RegistryType
        /\ m.line = g.line /\ m.kept = g.kept /\ m.outcome = g.outcome
        /\ m.handed = g.handed /\ m.unclaimed = g.unclaimed
        /\ m.backstop = g.backstop /\ m.hidden = g.hidden /\ m.hold = g.hold
        /\ m.lock = g.lock /\ m.running = g.running /\ m.dropped = g.dropped
    BY <1>2 DEF RegistryType
  <1>4. StopWhatRuns(g) = AbortStream(m) BY DEF StopWhatRuns
  <1>. HIDE DEF m
  <1>5. Sound(m) /\ Tracks(g, m, {}) BY <1>3, SameLine, QuietTracks
  <1>6. Tracks(m, AbortStream(m), {}) BY <1>1, <1>5
  <1>. QED BY <1>1, <1>4, <1>5, <1>6, StillTracks

\* The functions that end in a handover, after a quiet one.
LEMMA HandOffAfter ==
  ASSUME NEW g, NEW h, Sound(h), Tracks(g, h, {})
  PROVE  Tracks(g, HandOff(h), {})
  BY HandOffTracks, StillTracks DEF Sound

\* clearSessionTurn, sendWaitingSendNow and the line's timer.
LEMMA LineTracks ==
  ASSUME NEW g, Sound(g)
  PROVE  /\ \A m : Tracks(g, ClearTurn(g, m), {})
         /\ Tracks(g, SendWaitingNow(g), {})
         /\ Tracks(g, BackstopTick(g), {})
  <1>1. g \in RegistryType BY DEF Sound
  <1>2. g.lock # None => Tracks(g, HandOff(DropLock(g)), {})
    BY <1>1, DropLockStill, QuietOnesTrack, HandOffAfter DEF Still
  <1>3. Tracks(g, HandOff(EndHold(g)), {}) /\ Tracks(g, HandOff(g), {})
    BY <1>1, EndHoldStill, QuietOnesTrack, HandOffAfter DEF Still
  <1>4. Tracks(g, BackstopTick(g), {})
    <2>. DEFINE p == Prune(g)
                k == KeepExpiredHold(p)
    <2>1. Sound(p) /\ Tracks(g, p, {}) BY PruneStill, PruneTracks DEF Still
    <2>. HIDE DEF p
    <2>2. Sound(k) /\ Tracks(p, k, {})
      BY <2>1, KeepLineStill, QuietOnesTrack DEF KeepExpiredHold, Still, Sound
    <2>3. BackstopTick(g) = HandOff(k) BY DEF BackstopTick, p
    <2>. HIDE DEF k
    <2>4. Tracks(g, k, {}) BY <2>1, <2>2, StillTracks
    <2>. QED BY <2>2, <2>3, <2>4, HandOffAfter
  <1>5. Tracks(g, g, {}) BY <1>1, QuietOnesTrack
  <1>. QED BY <1>1, <1>2, <1>3, <1>4, <1>5 DEF ClearTurn, SendWaitingNow

\* queueSessionTurn
LEMMA EnqueueTracks ==
  ASSUME NEW g, Sound(g), NEW s \in Sends, NEW keep \in BOOLEAN
  PROVE  Tracks(g, Enqueue(g, s, keep), {})
  <1>. DEFINE j == [g EXCEPT !.line = Append(@, s), !.hidden = @ \cup {s},
                             !.kept = IF keep THEN @ \cup {s} ELSE @, !.backstop = TRUE]
              x == IF ~keep /\ g.lock = None THEN EndHold(j) ELSE j
  <1>1. g \in RegistryType BY DEF Sound
  <1>2. Append(g.line, s) \in Seq(Sends) BY <1>1, AppendProperties DEF RegistryType
  <1>3. /\ j \in RegistryType
        /\ j.handed = g.handed /\ j.running = g.running /\ j.dropped = g.dropped
    BY <1>1, <1>2 DEF RegistryType
  <1>4. Enqueue(g, s, keep) = HandOff(x) BY DEF Enqueue
  <1>. HIDE DEF j
  <1>5. /\ x \in RegistryType
        /\ x.handed = g.handed /\ x.running = g.running /\ x.dropped = g.dropped
    BY ZenonT(60), <1>3 DEF EndHold, RegistryType
  <1>. HIDE DEF x
  <1>6. Tracks(g, x, {}) /\ Tracks(x, HandOff(x), {})
    BY <1>5, QuietTracks, HandOffTracks
  <1>. QED BY <1>4, <1>6, StillTracks

\* releaseSessionTurn: r runs no more, unless it is the one handed the chat next.
LEMMA ReleaseTracks ==
  ASSUME NEW g, Sound(g), NEW r \in Requests, NEW end \in Ends
  PROVE  LET h == Release(g, r, end) IN
         Tracks(g, h, {}) /\ (r \in h.running => r \in h.handed)
  <1>. DEFINE f == [g EXCEPT !.running = @ \ {r}]
              x == SettleHold(f, r, end)
              d == DropLock(x)
              h == Release(g, r, end)
  <1>1. g \in RegistryType BY DEF Sound
  <1>2. /\ f \in RegistryType
        /\ f.line = g.line /\ f.kept = g.kept /\ f.outcome = g.outcome
        /\ f.handed = g.handed /\ f.unclaimed = g.unclaimed
        /\ f.backstop = g.backstop /\ f.hidden = g.hidden /\ f.hold = g.hold
        /\ f.lock = g.lock /\ f.running = g.running \ {r} /\ f.dropped = g.dropped
    BY <1>1 DEF RegistryType
  <1>3. \/ h = HandOff(f)
        \/ h = HandOff(x)
        \/ h = HandOff(d) /\ g.lock = r
    BY DEF Release
  <1>. HIDE DEF f, h
  <1>4. Waiting(f) = Waiting(g) /\ Runnable(f) = Runnable(g)
    BY <1>2 DEF Waiting, Runnable
  <1>5. Sound(f) BY <1>2, <1>4 DEF Sound
  <1>6. Sound(x) /\ x.lock = g.lock BY <1>2, <1>5, SettleHoldStill DEF Still
  <1>7. Tracks(f, x, {})
    <2>1. \/ x = f \/ x = KeepLine(f)
          \/ \E m : x = [EndHold(f) EXCEPT !.hold = m]
          \/ \E m : x = [f EXCEPT !.hold = m]
      BY DEF SettleHold
    <2>2. CASE x = f \/ x = KeepLine(f) BY <1>2, <2>2, QuietOnesTrack
    <2>3. CASE \/ \E m : x = [EndHold(f) EXCEPT !.hold = m]
               \/ \E m : x = [f EXCEPT !.hold = m]
      <3>1. x.handed = f.handed /\ x.running = f.running /\ x.dropped = f.dropped
        BY <1>2, <2>3 DEF EndHold, RegistryType
      <3>. QED BY <3>1, QuietTracks
    <2>. QED BY <2>1, <2>2, <2>3
  <1>. HIDE DEF x
  <1>8. g.lock = r => Sound(d) /\ Tracks(x, d, {})
    <2>1. SUFFICES ASSUME g.lock = r PROVE Sound(d) /\ Tracks(x, d, {})
      OBVIOUS
    <2>2. x.lock # None /\ x \in RegistryType
      BY <1>6, <2>1, RequestsAssumption DEF Sound
    <2>. QED BY <1>6, <2>2, DropLockStill, QuietOnesTrack DEF Still
  <1>. HIDE DEF d
  <1>9. Tracks(f, h, {})
    <2>1. Tracks(f, HandOff(f), {}) BY <1>2, HandOffTracks
    <2>2. Tracks(f, HandOff(x), {}) BY <1>6, <1>7, HandOffAfter
    <2>3. g.lock = r => Tracks(f, HandOff(d), {})
      BY <1>7, <1>8, StillTracks, HandOffAfter
    <2>. QED BY <1>3, <2>1, <2>2, <2>3
  <1>10. Tracks(g, f, {}) BY <1>2, QuietTracks
  <1>11. Tracks(g, h, {}) BY <1>9, <1>10, StillTracks
  <1>12. r \in h.running => r \in h.handed BY <1>2, <1>9 DEF Tracks
  <1>. QED BY <1>11, <1>12 DEF h

\* claimQueuedSessionTurn takes the handover, and nothing else.
LEMMA ClaimTracks ==
  ASSUME NEW g \in RegistryType, NEW s
  PROVE  Tracks(g, Claim(g, s), {s})
  BY DEF Claim, RegistryType, Tracks

\* abandonQueuedSessionTurn: s runs no more, if it ran because it was handed
\* the chat.
LEMMA AbandonTracks ==
  ASSUME NEW g, Sound(g), NEW s \in Sends, s \in g.running => s \in g.handed
  PROVE  LET h == Abandon(g, s) IN
         Tracks(g, h, {s}) /\ (s \in h.running => s \in h.handed)
  <1>. DEFINE h == Abandon(g, s)
              c == Claim(g, s)
  <1>1. g \in RegistryType /\ g.line \in Seq(Sends) BY SoundTypes
  <1>2. CASE s \in Waiting(g)
    <2>. DEFINE w == WithoutSend(g.line, s)
                l == [g EXCEPT !.line = w, !.hidden = @ \ {s}]
    <2>1. w \in Seq(Sends) BY <1>1, <1>2, MembersOfRest DEF Sound, Waiting
    <2>2. \/ h = l \/ h = EndHold(l) \/ h = [EndHold(l) EXCEPT !.backstop = FALSE]
      BY <1>2 DEF Abandon, LeaveLine
    <2>. HIDE DEF w
    <2>3. /\ l \in RegistryType
          /\ l.handed = g.handed /\ l.running = g.running /\ l.dropped = g.dropped
      BY <1>1, <2>1 DEF RegistryType
    <2>. HIDE DEF l, h
    <2>4. h.handed = g.handed /\ h.running = g.running /\ h.dropped = g.dropped
      BY <2>2, <2>3 DEF EndHold, RegistryType
    <2>. QED BY <2>4 DEF Tracks, h
  <1>3. CASE s \notin Waiting(g) /\ s \notin g.handed
    <2>1. h = g BY <1>3 DEF Abandon
    <2>. QED BY <2>1 DEF Tracks
  <1>4. CASE s \notin Waiting(g) /\ s \in g.handed
    <2>. DEFINE k == Release(c, s, NoEnd)
    <2>1. h = k BY <1>4 DEF Abandon
    <2>2. Sound(c) /\ Tracks(g, c, {s}) BY <1>1, ClaimStill, ClaimTracks DEF Still
    <2>. HIDE DEF c, h
    <2>3. Tracks(c, k, {}) /\ (s \in k.running => s \in k.handed)
      BY <2>2, ReleaseTracks, NoEndIsAnEnd DEF Requests
    <2>. HIDE DEF k
    <2>4. Tracks(g, k, {s}) BY <2>2, <2>3 DEF Tracks
    <2>. QED BY <2>1, <2>3, <2>4 DEF h
  <1>. QED BY <1>2, <1>3, <1>4

\* registerSessionTurn starts the request that registers.
LEMMA RegisterTracks ==
  ASSUME NEW g, Sound(g), NEW r \in Requests
  PROVE  Tracks(g, Register(g, r), {r})
  <1>. DEFINE e == CreateEntry(g, r)
              h == Register(g, r)
  <1>1. g \in RegistryType BY DEF Sound
  <1>2. /\ e \in RegistryType
        /\ e.handed = g.handed /\ e.running = g.running \cup {r}
        /\ e.dropped = g.dropped \ {r}
    BY <1>1, ZenonT(60) DEF CreateEntry, RegistryType, Requests
  <1>3. h = e \/ h = [EndHold(e) EXCEPT !.endedHold[r] = g.hold] BY DEF Register
  <1>. HIDE DEF e, h
  <1>4. h.handed = e.handed /\ h.running = e.running /\ h.dropped = e.dropped
    BY <1>2, <1>3 DEF EndHold, RegistryType
  <1>. QED BY <1>2, <1>4 DEF Tracks, h

-----------------------------------------------------------------------------
(* Where no bound and no Stop takes a lock from a request that runs, its     *)
(* lock is its own until it lets go.                                         *)

\* The bounds that can take a lock.
Seizing == LockClocks \cup {"abort"}

InTime(g) == g.overdue \cap Seizing = {}

\* A function that takes no lock away, and lets no bound pass.
HoldsOn(g, h) ==
  /\ g.lock # None => h.lock = g.lock
  /\ h.overdue \subseteq g.overdue

\* Functions that hold on compose, and stay in time.
LEMMA HoldsOnThen ==
  ASSUME NEW g, NEW h, NEW k, HoldsOn(g, h)
  PROVE  /\ HoldsOn(h, k) => HoldsOn(g, k)
         /\ InTime(g) => InTime(h)
  BY DEF HoldsOn, InTime

\* handOffSessionTurn hands on only a chat nobody holds.
LEMMA HandOffHolds ==
  ASSUME NEW g \in RegistryType
  PROVE  HoldsOn(g, HandOff(g))
  <1>. DEFINE h == HandOff(g)
              head == Head(g.line)
  <1>1. CASE g.line = <<>>
    <2>1. h = [EndHold(g) EXCEPT !.backstop = FALSE] BY <1>1 DEF HandOff
    <2>2. h.lock = g.lock /\ h.overdue \subseteq g.overdue
      BY <2>1 DEF EndHold, RegistryType
    <2>. QED BY <2>2 DEF HoldsOn
  <1>2. CASE g.line # <<>> /\ HeldBack(g)
    <2>1. h = g BY <1>2 DEF HandOff
    <2>. QED BY <2>1 DEF HoldsOn
  <1>3. CASE g.line # <<>> /\ ~HeldBack(g)
    <2>1. h = [CreateEntry(g, head) EXCEPT
                !.line = Tail(g.line), !.backstop = Tail(g.line) # <<>>,
                !.unclaimed = IF head \in g.kept THEN @ ELSE @ \cup {head},
                !.handed = @ \cup {head}, !.outcome[head] = HandedTo(g, head)]
      BY <1>3 DEF HandOff
    <2>. HIDE DEF head
    <2>2. h.overdue = g.overdue \ LockClocks BY <2>1 DEF CreateEntry, RegistryType
    <2>3. g.lock = None BY <1>3 DEF HeldBack
    <2>. QED BY <2>2, <2>3 DEF HoldsOn
  <1>. QED BY <1>1, <1>2, <1>3

\* The functions that leave the lock alone.
LEMMA QuietOnesHold ==
  ASSUME NEW g \in RegistryType
  PROVE  /\ HoldsOn(g, g) /\ HoldsOn(g, EndHold(g)) /\ HoldsOn(g, RemoveStream(g))
         /\ HoldsOn(g, KeepLine(g)) /\ HoldsOn(g, CancelLine(g))
         /\ \A s \in Sends : HoldsOn(g, Claim(g, s))
         /\ \A m \in Msgs : HoldsOn(g, OpenStream(g, m)) /\ HoldsOn(g, CloseStream(g, m))
  <1>1. /\ EndHold(g) \in RegistryType /\ EndHold(g).lock = g.lock
        /\ EndHold(g).overdue \subseteq g.overdue
    BY DEF EndHold, RegistryType
  <1>2. HoldsOn(g, g) /\ HoldsOn(g, EndHold(g)) BY <1>1 DEF HoldsOn
  <1>3. ASSUME NEW h, h \in {KeepLine(g), CancelLine(g)} PROVE HoldsOn(g, h)
    <2>. DEFINE e == EndHold(g)
    <2>1. \/ h = [e EXCEPT !.kept = @ \cup Waiting(g)]
          \/ h = [e EXCEPT !.line = <<>>, !.backstop = FALSE, !.lastTurn = None,
                           !.hidden = @ \ Waiting(g),
                           !.outcome = [s \in Sends |->
                              IF s \in Waiting(g) THEN "cancelled" ELSE @[s]]]
      BY <1>3 DEF KeepLine, CancelLine
    <2>2. e \in RegistryType /\ e.lock = g.lock /\ e.overdue \subseteq g.overdue BY <1>1
    <2>. HIDE DEF e
    <2>3. h.lock = e.lock /\ h.overdue = e.overdue BY <2>1, <2>2 DEF RegistryType
    <2>. QED BY <2>2, <2>3 DEF HoldsOn
  <1>4. HoldsOn(g, KeepLine(g)) /\ HoldsOn(g, CancelLine(g)) BY <1>3
  <1>5. HoldsOn(g, RemoveStream(g)) BY DEF RemoveStream, RegistryType, HoldsOn
  <1>6. \A s \in Sends : HoldsOn(g, Claim(g, s))
    BY DEF Claim, RegistryType, HoldsOn
  <1>7. \A m \in Msgs : HoldsOn(g, OpenStream(g, m)) /\ HoldsOn(g, CloseStream(g, m))
    BY DEF OpenStream, CloseStream, RemoveStream, RegistryType, HoldsOn
  <1>. QED BY <1>2, <1>4, <1>5, <1>6, <1>7

\* pruneStaleSessionTurns: no lock is stale in time.
LEMMA PruneHolds ==
  ASSUME NEW g, Sound(g), InTime(g)
  PROVE  HoldsOn(g, Prune(g))
  <1>. DEFINE p == PruneStream(g)
  <1>1. HoldsOn(g, p) BY QuietOnesHold DEF Sound, PruneStream
  <1>2. InTime(p) BY <1>1, HoldsOnThen
  <1>3. ~LockIsStale(p) BY <1>2 DEF InTime, LockIsStale, Seizing, LockClocks
  <1>. QED BY <1>1, <1>3 DEF Prune, PruneLock

\* abortStream and stopWhatRuns
LEMMA AbortHolds ==
  ASSUME NEW g, Sound(g), InTime(g)
  PROVE  HoldsOn(g, StopWhatRuns(g))
  <1>. DEFINE m == [g EXCEPT !.signalled = @ \cup g.running]
              p == Prune(m)
              h == [p EXCEPT !.aborted = TRUE, !.overdue = @ \ {"abort"}]
  <1>1. g \in RegistryType BY DEF Sound
  <1>2. /\ m \in RegistryType
        /\ m.line = g.line /\ m.kept = g.kept /\ m.outcome = g.outcome
        /\ m.handed = g.handed /\ m.unclaimed = g.unclaimed
        /\ m.backstop = g.backstop /\ m.hidden = g.hidden /\ m.hold = g.hold
        /\ m.lock = g.lock /\ m.running = g.running /\ m.dropped = g.dropped
        /\ m.overdue = g.overdue
    BY <1>1 DEF RegistryType
  <1>3. StopWhatRuns(g) = IF p.stream = None THEN p ELSE h
    BY DEF StopWhatRuns, AbortStream
  <1>. HIDE DEF m
  <1>4. Sound(m) /\ InTime(m) /\ HoldsOn(g, m)
    BY <1>2, SameLine DEF InTime, HoldsOn
  <1>5. p \in RegistryType /\ HoldsOn(m, p)
    BY <1>4, PruneStill, PruneHolds DEF Still, Sound
  <1>. HIDE DEF p
  <1>6. HoldsOn(p, h) BY <1>5 DEF RegistryType, HoldsOn
  <1>. HIDE DEF h
  <1>. QED BY <1>3, <1>4, <1>5, <1>6, HoldsOnThen

\* sendWaitingSendNow, the line's timer and endSessionDelete
LEMMA LineHolds ==
  ASSUME NEW g, Sound(g), InTime(g)
  PROVE  /\ HoldsOn(g, SendWaitingNow(g))
         /\ HoldsOn(g, BackstopTick(g))
         /\ HoldsOn(g, EndDelete(g))
  <1>1. g \in RegistryType BY DEF Sound
  <1>2. ASSUME NEW h \in RegistryType, HoldsOn(g, h) PROVE HoldsOn(g, HandOff(h))
    BY <1>2, HandOffHolds, HoldsOnThen
  <1>3. HoldsOn(g, SendWaitingNow(g))
    <2>1. EndHold(g) \in RegistryType BY EndHoldStill DEF Still, Sound
    <2>. QED BY <1>1, <1>2, <2>1, QuietOnesHold DEF SendWaitingNow
  <1>4. HoldsOn(g, BackstopTick(g))
    <2>. DEFINE p == Prune(g)
                k == KeepExpiredHold(p)
    <2>1. Sound(p) /\ HoldsOn(g, p) BY PruneStill, PruneHolds DEF Still
    <2>. HIDE DEF p
    <2>2. p \in RegistryType /\ KeepLine(p) \in RegistryType
      BY <2>1, KeepLineStill DEF Still, Sound
    <2>3. k \in RegistryType /\ HoldsOn(p, k)
      BY <2>2, QuietOnesHold DEF KeepExpiredHold
    <2>4. BackstopTick(g) = HandOff(k) BY DEF BackstopTick, p
    <2>. HIDE DEF k
    <2>. QED BY <1>2, <2>1, <2>3, <2>4, HoldsOnThen
  <1>5. HoldsOn(g, EndDelete(g))
    <2>. DEFINE y == [g EXCEPT !.deleting = FALSE]
    <2>1. y \in RegistryType /\ HoldsOn(g, y) BY <1>1 DEF RegistryType, HoldsOn
    <2>. QED BY <1>2, <2>1 DEF EndDelete
  <1>. QED BY <1>3, <1>4, <1>5

\* queueSessionTurn
LEMMA EnqueueHolds ==
  ASSUME NEW g, Sound(g), NEW s \in Sends, NEW keep \in BOOLEAN
  PROVE  HoldsOn(g, Enqueue(g, s, keep))
  <1>. DEFINE j == [g EXCEPT !.line = Append(@, s), !.hidden = @ \cup {s},
                             !.kept = IF keep THEN @ \cup {s} ELSE @, !.backstop = TRUE]
              x == IF ~keep /\ g.lock = None THEN EndHold(j) ELSE j
  <1>1. g \in RegistryType BY DEF Sound
  <1>2. Append(g.line, s) \in Seq(Sends) BY <1>1, AppendProperties DEF RegistryType
  <1>3. j \in RegistryType /\ j.lock = g.lock /\ j.overdue = g.overdue
    BY <1>1, <1>2 DEF RegistryType
  <1>4. Enqueue(g, s, keep) = HandOff(x) BY DEF Enqueue
  <1>. HIDE DEF j
  <1>5. x \in RegistryType /\ x.lock = g.lock /\ x.overdue \subseteq g.overdue
    BY ZenonT(60), <1>3 DEF EndHold, RegistryType
  <1>. HIDE DEF x
  <1>6. HoldsOn(g, x) /\ HoldsOn(x, HandOff(x)) BY <1>5, HandOffHolds DEF HoldsOn
  <1>. QED BY <1>4, <1>6, HoldsOnThen

\* releaseSessionTurn, of a request that does not hold the chat.
LEMMA ReleaseHolds ==
  ASSUME NEW g, Sound(g), NEW r \in Requests, NEW end \in Ends
  PROVE  LET h == Release(g, r, end) IN
         /\ h.overdue \subseteq g.overdue
         /\ g.lock # r => HoldsOn(g, h)
  <1>. DEFINE f == [g EXCEPT !.running = @ \ {r}]
              x == SettleHold(f, r, end)
              d == DropLock(x)
              h == Release(g, r, end)
  <1>1. g \in RegistryType BY DEF Sound
  <1>2. /\ f \in RegistryType
        /\ f.line = g.line /\ f.kept = g.kept /\ f.outcome = g.outcome
        /\ f.handed = g.handed /\ f.unclaimed = g.unclaimed
        /\ f.backstop = g.backstop /\ f.hidden = g.hidden /\ f.hold = g.hold
        /\ f.lock = g.lock /\ f.overdue = g.overdue
    BY <1>1 DEF RegistryType
  <1>3. \/ h = HandOff(f)
        \/ h = HandOff(x) /\ g.lock = None
        \/ h = HandOff(d) /\ g.lock = r
    BY DEF Release
  <1>. HIDE DEF f, h
  <1>4. Waiting(f) = Waiting(g) /\ Runnable(f) = Runnable(g)
    BY <1>2 DEF Waiting, Runnable
  <1>5. Sound(f) BY <1>2, <1>4 DEF Sound
  <1>6. x \in RegistryType /\ Sound(x) /\ x.lock = g.lock
    BY <1>2, <1>5, SettleHoldStill DEF Still, Sound
  <1>7. x.overdue \subseteq g.overdue
    <2>1. \/ x = f \/ x = KeepLine(f)
          \/ \E m : x = [EndHold(f) EXCEPT !.hold = m]
          \/ \E m : x = [f EXCEPT !.hold = m]
      BY DEF SettleHold
    <2>2. CASE x = KeepLine(f) BY <1>2, <2>2, QuietOnesHold DEF HoldsOn
    <2>3. CASE x = f \/ (\E m : x = [EndHold(f) EXCEPT !.hold = m])
               \/ \E m : x = [f EXCEPT !.hold = m]
      BY <1>2, <2>3 DEF EndHold, RegistryType
    <2>. QED BY <2>1, <2>2, <2>3
  <1>. HIDE DEF x
  <1>8. g.lock = r => d \in RegistryType /\ d.overdue \subseteq g.overdue
    <2>1. SUFFICES ASSUME g.lock = r PROVE d \in RegistryType /\ d.overdue \subseteq g.overdue
      OBVIOUS
    <2>2. x.lock # None BY <1>6, <2>1, RequestsAssumption
    <2>3. d \in RegistryType BY <1>6, <2>2, DropLockStill DEF Still, Sound
    <2>4. d.overdue \subseteq x.overdue BY <1>6 DEF DropLock, RegistryType
    <2>. QED BY <1>7, <2>3, <2>4
  <1>. HIDE DEF d
  <1>9. HoldsOn(g, HandOff(f)) BY <1>2, HandOffHolds DEF HoldsOn
  <1>10. HoldsOn(g, HandOff(x)) BY <1>6, <1>7, HandOffHolds DEF HoldsOn
  <1>11. g.lock = r => HandOff(d).overdue \subseteq g.overdue
    BY <1>8, HandOffHolds DEF HoldsOn
  <1>12. g.lock = r => r # None BY RequestsAssumption
  <1>. QED BY <1>3, <1>9, <1>10, <1>11, <1>12 DEF HoldsOn, h

\* abandonQueuedSessionTurn, of a send that does not hold the chat.
LEMMA AbandonHolds ==
  ASSUME NEW g, Sound(g), NEW s \in Sends
  PROVE  LET h == Abandon(g, s) IN
         /\ h.overdue \subseteq g.overdue
         /\ g.lock # s => HoldsOn(g, h)
  <1>. DEFINE h == Abandon(g, s)
              c == Claim(g, s)
              k == Release(c, s, NoEnd)
  <1>1. g \in RegistryType /\ g.line \in Seq(Sends) BY SoundTypes
  <1>2. CASE s \in Waiting(g)
    <2>. DEFINE w == WithoutSend(g.line, s)
                l == [g EXCEPT !.line = w, !.hidden = @ \ {s}]
    <2>1. w \in Seq(Sends) BY <1>1, <1>2, MembersOfRest DEF Sound, Waiting
    <2>2. \/ h = l \/ h = EndHold(l) \/ h = [EndHold(l) EXCEPT !.backstop = FALSE]
      BY <1>2 DEF Abandon, LeaveLine
    <2>. HIDE DEF w
    <2>3. l \in RegistryType /\ l.lock = g.lock /\ l.overdue = g.overdue
      BY <1>1, <2>1 DEF RegistryType
    <2>. HIDE DEF l, h
    <2>4. h.lock = g.lock /\ h.overdue \subseteq g.overdue
      BY <2>2, <2>3 DEF EndHold, RegistryType
    <2>. QED BY <2>4 DEF HoldsOn, h
  <1>3. CASE s \notin Waiting(g)
    <2>1. h = g \/ h = k BY <1>3 DEF Abandon
    <2>2. Sound(c) /\ c.lock = g.lock /\ HoldsOn(g, c)
      BY <1>1, ClaimStill, QuietOnesHold DEF Still
    <2>. HIDE DEF c, h
    <2>3. k.overdue \subseteq c.overdue /\ (c.lock # s => HoldsOn(c, k))
      BY <2>2, ReleaseHolds, NoEndIsAnEnd DEF Requests
    <2>. HIDE DEF k
    <2>. QED BY <2>1, <2>2, <2>3 DEF HoldsOn, h
  <1>. QED BY <1>2, <1>3

\* registerSessionTurn lets no bound pass.
LEMMA RegisterInTime ==
  ASSUME NEW g \in RegistryType, NEW r \in Requests, InTime(g)
  PROVE  InTime(Register(g, r))
  <1>. DEFINE e == CreateEntry(g, r)
              h == Register(g, r)
  <1>1. e \in RegistryType /\ e.overdue \subseteq g.overdue
    BY ZenonT(60) DEF CreateEntry, RegistryType, Requests
  <1>. DEFINE x == EndHold(e)
  <1>2. h = e \/ h = [x EXCEPT !.endedHold[r] = g.hold] BY DEF Register
  <1>. HIDE DEF e, h
  <1>3. x \in RegistryType /\ x.overdue \subseteq e.overdue
    BY <1>1 DEF EndHold, RegistryType
  <1>. HIDE DEF x
  <1>4. h.overdue \subseteq e.overdue BY <1>2, <1>3 DEF RegistryType
  <1>. QED BY <1>1, <1>4 DEF InTime, h

\* beginSessionDelete lets go only of a handover nobody has taken.
LEMMA BeginDeleteInTime ==
  ASSUME NEW g, Sound(g)
  PROVE  LET h == BeginDelete(g) IN
         /\ h.overdue \subseteq g.overdue
         /\ g.lock \notin g.unclaimed => HoldsOn(g, h)
  <1>. DEFINE d == [g EXCEPT !.deleting = TRUE]
              k == [d EXCEPT !.unclaimed = @ \ {g.lock}]
              h == BeginDelete(g)
  <1>1. g \in RegistryType /\ g.line \in Seq(Sends) BY SoundTypes
  <1>2. h = IF g.lock \in g.unclaimed THEN Release(k, g.lock, NoEnd) ELSE d
    BY DEF BeginDelete
  <1>3. /\ d \in RegistryType /\ d.overdue = g.overdue /\ d.lock = g.lock
        /\ k \in RegistryType /\ k.overdue = g.overdue
        /\ k.line = g.line /\ k.kept = g.kept /\ k.outcome = g.outcome
        /\ k.handed = g.handed /\ k.unclaimed = g.unclaimed \ {g.lock}
        /\ k.backstop = g.backstop /\ k.hidden = g.hidden /\ k.hold = g.hold
        /\ k.lock = g.lock
    BY <1>1 DEF RegistryType
  <1>. HIDE DEF d, k
  <1>4. Sound(k) BY <1>1, <1>3 DEF Sound, Waiting, Runnable
  <1>5. g.lock \in g.unclaimed => g.lock \in Requests BY <1>1 DEF RegistryType, Requests
  <1>6. g.lock \in g.unclaimed => Release(k, g.lock, NoEnd).overdue \subseteq k.overdue
    BY <1>4, <1>5, ReleaseHolds, NoEndIsAnEnd
  <1>. HIDE DEF h
  <1>. QED BY <1>2, <1>3, <1>6 DEF HoldsOn, h

-----------------------------------------------------------------------------
(* The line hands the chat on only when nobody else runs.                    *)

\* Who holds the chat was the last to take it; whoever else runs is recorded as
\* having lost it, and only those have been waited for.
Ordered(g) ==
  /\ g.lock # None => g.lastTurn = g.lock /\ g.lock \notin g.dropped
  /\ \A r \in g.running : Accounted(g, r)
  /\ g.waitedOut \subseteq g.dropped

\* A send was handed the chat, and has yet to take it, while an earlier run's
\* stream outlives its abort: the next prune takes the chat from it.
Late(g) == g.handed # {} /\ g.stream # None /\ "abort" \in g.overdue

\* Then no card holds the line, no bound of the lock has passed, and who lost a
\* handover does not run.
LateOrder(g) ==
  Late(g) =>
    /\ g.hold = None
    /\ g.overdue \cap LockClocks = {}
    /\ g.handed \cap g.running \subseteq {g.lock}
    /\ g.lock = None => g.lastTurn \notin g.running

\* Nobody waits whom the next handover would start.
Settled(g) == g.line = <<>> \/ HeldBack(g)

LateSettled(g) == Late(g) /\ g.lock = None => Settled(g)

InOrder(g) == Ordered(g) /\ LateOrder(g) /\ LateSettled(g)

\* Whom the line hands the chat runs alone but for those it has waited out.
Alone(g, h) == \A s \in h.handed \ g.handed : h.running \ {s} \subseteq h.waitedOut

\* A function that starts nobody and hands the chat to nobody.
Quiet(g, h) ==
  /\ h.handed \subseteq g.handed /\ h.running \subseteq g.running
  /\ g.waitedOut \cap h.running \subseteq h.waitedOut
  /\ h.endedHold = g.endedHold
  /\ Late(h) => Late(g) /\ (h.lock # None => h.lock = g.lock)

\* A function that starts only whom the line hands the chat.
Follows(g, h) ==
  /\ Alone(g, h)
  /\ h.endedHold = g.endedHold
  /\ Late(h) /\ h.lock # None =>
       (Late(g) /\ h.lock = g.lock) \/ h.lock \in h.handed

LEMMA QuietFollows ==
  ASSUME NEW g, NEW h, Quiet(g, h)
  PROVE  Follows(g, h)
  BY DEF Quiet, Follows, Alone

LEMMA QuietTransitive ==
  ASSUME NEW g, NEW h, NEW k, Quiet(g, h), Quiet(h, k)
  PROVE  Quiet(g, k)
  BY DEF Quiet

LEMMA QuietThenFollows ==
  ASSUME NEW g, NEW h, NEW k, Quiet(g, h), Follows(h, k)
  PROVE  Follows(g, k)
  BY DEF Quiet, Follows, Alone

LEMMA FollowsThenQuiet ==
  ASSUME NEW g, NEW h, NEW k, Follows(g, h), Quiet(h, k), k.handed = h.handed
  PROVE  Follows(g, k)
  <1>1. Alone(g, k) BY DEF Quiet, Follows, Alone
  <1>. QED BY <1>1 DEF Quiet, Follows

\* A function that leaves the lock and who runs alone, lets no bound pass, and
\* at most ends the hold, the stream or a handover.
Plain(g, h) ==
  /\ h.handed \subseteq g.handed /\ h.running = g.running
  /\ h.dropped = g.dropped /\ h.waitedOut = g.waitedOut
  /\ h.lock = g.lock /\ h.lastTurn = g.lastTurn
  /\ h.endedHold = g.endedHold /\ h.hold \in {g.hold, None}
  /\ h.overdue \subseteq g.overdue
  /\ h.stream # None /\ "abort" \in h.overdue => g.stream # None

LEMMA PlainStays ==
  ASSUME NEW g, NEW h, Plain(g, h)
  PROVE  /\ Quiet(g, h)
         /\ Ordered(g) => Ordered(h)
         /\ LateOrder(g) => LateOrder(h)
         /\ /\ InOrder(g)
            /\ g.line = <<>> => h.line = <<>>
            /\ g.deleting => h.deleting
            /\ g.clickHolds \subseteq h.clickHolds
            => InOrder(h)
  <1>1. Late(h) => Late(g) BY DEF Plain, Late
  <1>2. Quiet(g, h) BY <1>1 DEF Plain, Quiet
  <1>3. Ordered(g) => Ordered(h) BY DEF Plain, Ordered, Accounted
  <1>4. LateOrder(g) => LateOrder(h) BY <1>1 DEF Plain, LateOrder
  <1>5. ASSUME InOrder(g), g.line = <<>> => h.line = <<>>, g.deleting => h.deleting,
               g.clickHolds \subseteq h.clickHolds, Late(h), h.lock = None
        PROVE  Settled(h)
    <2>1. Settled(g) /\ g.hold = None
      BY <1>1, <1>5 DEF InOrder, LateSettled, LateOrder, Plain
    <2>2. CASE g.line = <<>> BY <1>5, <2>2 DEF Settled
    <2>3. CASE HeldBack(g)
      <3>1. HeldBack(h)
        BY <1>5, <2>1, <2>3 DEF HeldBack, DroppedStillWriting, Plain
      <3>. QED BY <3>1 DEF Settled
    <2>. QED BY <2>1, <2>2, <2>3 DEF Settled
  <1>. QED BY <1>2, <1>3, <1>4, <1>5 DEF InOrder, LateSettled

\* handOffSessionTurn
LEMMA HandOffAlone ==
  ASSUME NEW g \in RegistryType, Ordered(g)
  PROVE  LET h == HandOff(g) IN
         /\ Follows(g, h) /\ Ordered(h)
         /\ LateOrder(g) => InOrder(h)
  <1>. DEFINE h == HandOff(g)
              head == Head(g.line)
  <1>1. g.line \in Seq(Sends) /\ g.running \subseteq Requests /\ None \notin Requests
    BY RequestsAssumption DEF RegistryType
  <1>2. CASE g.line = <<>>
    <2>1. h = [EndHold(g) EXCEPT !.backstop = FALSE] BY <1>2 DEF HandOff
    <2>2. Plain(g, h) /\ h.line = <<>>
      BY <1>2, <2>1 DEF EndHold, RegistryType, Plain
    <2>. HIDE DEF h
    <2>3. LateSettled(h) BY <2>2 DEF LateSettled, Settled
    <2>. QED BY <2>2, <2>3, PlainStays, QuietFollows DEF InOrder, h
  <1>3. CASE g.line # <<>> /\ HeldBack(g)
    <2>1. h = g BY <1>3 DEF HandOff
    <2>2. Plain(g, g) BY DEF Plain
    <2>3. LateSettled(g) BY <1>3 DEF LateSettled, Settled
    <2>. QED BY <2>1, <2>2, <2>3, PlainStays, QuietFollows DEF InOrder
  <1>4. CASE g.line # <<>> /\ ~HeldBack(g)
    <2>1. h = [CreateEntry(g, head) EXCEPT
                !.line = Tail(g.line), !.backstop = Tail(g.line) # <<>>,
                !.unclaimed = IF head \in g.kept THEN @ ELSE @ \cup {head},
                !.handed = @ \cup {head}, !.outcome[head] = HandedTo(g, head)]
      BY <1>4 DEF HandOff
    <2>2. head \in Sends /\ head \in Requests
      BY <1>1, <1>4, HeadTailProperties DEF Requests
    <2>. HIDE DEF head
    <2>3. /\ h.lock = head /\ h.lastTurn = head /\ h.hold = g.hold
          /\ h.running = g.running \cup {head} /\ h.dropped = g.dropped \ {head}
          /\ h.waitedOut = g.waitedOut \ {head} /\ h.handed = g.handed \cup {head}
          /\ h.stream = g.stream /\ h.endedHold = g.endedHold
          /\ h.overdue = g.overdue \ LockClocks
      BY <2>1 DEF CreateEntry, RegistryType
    <2>. HIDE DEF h
    <2>4. /\ g.lock = None /\ g.hold = None /\ g.running \subseteq g.waitedOut
      BY <1>1, <1>4 DEF HeldBack, DroppedStillWriting, Ordered, Accounted
    <2>5. Follows(g, h) BY <2>3, <2>4 DEF Follows, Alone
    <2>6. Ordered(h) BY <1>1, <2>3, <2>4 DEF Ordered, Accounted
    <2>7. ASSUME LateOrder(g) PROVE InOrder(h)
      <3>1. h.lock # None BY <1>1, <2>2, <2>3
      <3>2. ASSUME Late(h) PROVE h.handed \cap h.running \subseteq {head}
        <4>1. CASE g.handed = {} BY <2>3, <4>1
        <4>2. CASE g.handed # {}
          <5>1. Late(g) BY <2>3, <3>2, <4>2 DEF Late
          <5>2. g.handed \cap g.running = {}
            BY <1>1, <2>4, <2>7, <5>1 DEF LateOrder
          <5>. QED BY <2>3, <5>2
        <4>. QED BY <4>1, <4>2
      <3>3. LateOrder(h) BY <2>3, <2>4, <3>1, <3>2 DEF LateOrder
      <3>. QED BY <2>6, <3>1, <3>3 DEF InOrder, LateSettled
    <2>. QED BY <2>5, <2>6, <2>7 DEF h
  <1>. QED BY <1>2, <1>3, <1>4

\* What a function leaves in order, after a quiet one.
Keeps(g, h) == InOrder(h) /\ Follows(g, h)

LEMMA HandOffKeeps ==
  ASSUME NEW g, NEW h \in RegistryType, Ordered(h), LateOrder(h), Quiet(g, h)
  PROVE  Keeps(g, HandOff(h))
  <1>1. InOrder(HandOff(h)) /\ Follows(h, HandOff(h)) BY HandOffAlone
  <1>. QED BY <1>1, QuietThenFollows DEF Keeps

\* The chat is taken from a request that runs: the line waits for it.
LEMMA DropHandsNobody ==
  ASSUME NEW g \in RegistryType, Ordered(g), HolderRuns(g), g.lock # None
  PROVE  LET h == HandOff(DropLock(g)) IN
         /\ Ordered(h) /\ h.handed = g.handed /\ h.running = g.running
         /\ h.waitedOut = g.waitedOut /\ h.endedHold = g.endedHold
         /\ h.stream = g.stream /\ h.overdue \subseteq g.overdue /\ h.lock = None
  <1>. DEFINE d == DropLock(g)
              h == HandOff(d)
  <1>1. g.lock \in Requests /\ g.lock \in g.running
    BY DEF RegistryType, HolderRuns
  <1>2. /\ d \in RegistryType
        /\ d.handed = g.handed /\ d.running = g.running /\ d.lock = None
        /\ d.waitedOut = g.waitedOut /\ d.endedHold = g.endedHold
        /\ d.stream = g.stream /\ d.overdue \subseteq g.overdue
        /\ d.dropped = g.dropped \cup {g.lock}
    BY <1>1 DEF DropLock, RegistryType
  <1>. HIDE DEF d
  <1>3. Ordered(d) BY <1>2 DEF Ordered, Accounted
  <1>4. HeldBack(d)
    <2>1. g.lock \notin g.waitedOut BY DEF Ordered
    <2>. QED BY <1>1, <1>2, <2>1 DEF HeldBack, DroppedStillWriting
  <1>5. h = d \/ h = [EndHold(d) EXCEPT !.backstop = FALSE] BY <1>4 DEF HandOff
  <1>6. /\ h.handed = d.handed /\ h.running = d.running /\ h.lock = d.lock
        /\ h.waitedOut = d.waitedOut /\ h.endedHold = d.endedHold
        /\ h.stream = d.stream /\ h.overdue \subseteq d.overdue
    <2>1. CASE h = d BY <2>1
    <2>2. CASE h = [EndHold(d) EXCEPT !.backstop = FALSE]
      BY <1>2, <2>2 DEF EndHold, RegistryType
    <2>. QED BY <1>5, <2>1, <2>2
  <1>7. Ordered(h) BY <1>2, <1>3, HandOffAlone
  <1>. HIDE DEF h
  <1>. QED BY <1>2, <1>6, <1>7 DEF d, h

\* pruneStaleSessionTurns hands the chat to nobody; a late handover it leaves
\* alone has already been lost.
LEMMA PruneInOrder ==
  ASSUME NEW g, Sound(g), InOrder(g), HolderRuns(g)
  PROVE  LET h == Prune(g) IN
         /\ InOrder(h) /\ HolderRuns(h) /\ Quiet(g, h) /\ h.handed = g.handed
         /\ Late(h) => h = g /\ h.lock = None
  <1>. DEFINE p == PruneStream(g)
              q == IF "turnStale" \notin p.overdue /\ p.stream # None
                   THEN RemoveStream(p) ELSE p
              d == DropLock(q)
              h == Prune(g)
  <1>1. g \in RegistryType /\ HolderRuns(h) BY PruneStill DEF Still, Moves, Sound
  <1>2. \A x \in RegistryType :
          LET y == RemoveStream(x) IN
          /\ y \in RegistryType /\ y.stream = None /\ y.handed = x.handed
          /\ y.running = x.running /\ y.dropped = x.dropped
          /\ y.waitedOut = x.waitedOut /\ y.lock = x.lock
          /\ y.lastTurn = x.lastTurn /\ y.endedHold = x.endedHold
          /\ y.hold = x.hold /\ y.overdue \subseteq x.overdue /\ y.line = x.line
          /\ y.deleting = x.deleting /\ y.clickHolds = x.clickHolds
    BY ZenonT(60) DEF RemoveStream, RegistryType
  <1>3. /\ p \in RegistryType /\ InOrder(p) /\ Quiet(g, p) /\ HolderRuns(p)
        /\ p.handed = g.handed /\ (Late(p) => p = g)
    <2>1. CASE p = g
      <3>1. Plain(g, g) BY DEF Plain
      <3>. QED BY <1>1, <2>1, <3>1, PlainStays
    <2>2. CASE p = RemoveStream(g)
      <3>. HIDE DEF p
      <3>1. Plain(g, p) /\ ~Late(p) BY <1>1, <1>2, <2>2 DEF Plain, Late
      <3>2. InOrder(p) /\ Quiet(g, p) BY <1>1, <1>2, <2>2, <3>1, PlainStays
      <3>3. HolderRuns(p) BY <1>1, <1>2, <2>2 DEF HolderRuns
      <3>. QED BY <1>1, <1>2, <2>2, <3>1, <3>2, <3>3
    <2>. QED BY <2>1, <2>2 DEF PruneStream
  <1>4. h = IF LockIsStale(p) THEN HandOff(d) ELSE p BY DEF Prune, PruneLock
  <1>. HIDE DEF p, h
  <1>5. CASE ~LockIsStale(p)
    <2>1. h = p BY <1>4, <1>5
    <2>2. Late(p) => p.lock = None BY <1>5 DEF Late, LockIsStale
    <2>. QED BY <1>3, <2>1, <2>2 DEF h
  <1>6. CASE LockIsStale(p)
    <2>1. p.lock # None /\ h = HandOff(d) BY <1>4, <1>6 DEF LockIsStale
    <2>2. /\ q \in RegistryType /\ Ordered(q) /\ HolderRuns(q) /\ q.lock = p.lock
          /\ q.handed = p.handed /\ q.running = p.running /\ q.waitedOut = p.waitedOut
          /\ q.endedHold = p.endedHold
      <3>1. CASE q = p BY <1>3, <3>1 DEF InOrder
      <3>2. CASE q = RemoveStream(p)
        <4>. HIDE DEF q
        <4>1. Plain(p, q) BY <1>2, <1>3, <3>2 DEF Plain
        <4>2. Ordered(q) BY <1>3, <4>1, PlainStays DEF InOrder
        <4>3. HolderRuns(q) BY <1>2, <1>3, <3>2 DEF HolderRuns
        <4>. QED BY <1>2, <1>3, <3>2, <4>2, <4>3
      <3>. QED BY <3>1, <3>2
    <2>3. ~Late(q)
      <3>1. CASE Late(p)
        <4>1. "turnStale" \notin p.overdue /\ p.stream # None
          BY <1>3, <3>1 DEF InOrder, LateOrder, Late, LockClocks
        <4>2. q = RemoveStream(p) BY <4>1
        <4>. HIDE DEF q
        <4>. QED BY <1>2, <1>3, <4>2 DEF Late
      <3>2. CASE ~Late(p)
        <4>1. q = p \/ q = RemoveStream(p) OBVIOUS
        <4>. HIDE DEF q
        <4>. QED BY <1>2, <1>3, <3>2, <4>1 DEF Late
      <3>. QED BY <3>1, <3>2
    <2>. HIDE DEF q
    <2>4. /\ Ordered(h) /\ h.handed = q.handed /\ h.running = q.running
          /\ h.waitedOut = q.waitedOut /\ h.endedHold = q.endedHold
          /\ h.stream = q.stream /\ h.overdue \subseteq q.overdue
      BY <2>1, <2>2, DropHandsNobody
    <2>5. ~Late(h) BY <2>3, <2>4 DEF Late
    <2>6. InOrder(h) BY <2>4, <2>5 DEF InOrder, LateOrder, LateSettled
    <2>7. Quiet(p, h) BY <2>2, <2>4, <2>5 DEF Quiet
    <2>8. Quiet(g, h) BY <1>3, <2>7, QuietTransitive
    <2>. QED BY <1>1, <1>3, <2>2, <2>4, <2>5, <2>6, <2>8 DEF h
  <1>. QED BY <1>5, <1>6

\* The functions that leave the lock alone.
LEMMA PlainOnes ==
  ASSUME NEW g \in RegistryType
  PROVE  /\ Plain(g, g) /\ Plain(g, EndHold(g)) /\ Plain(g, StopTurn(g))
         /\ Plain(g, KeepLine(g))
         /\ \A s \in Sends : Plain(g, Claim(g, s))
         /\ \A m \in Msgs : Plain(g, OpenStream(g, m)) /\ Plain(g, CloseStream(g, m))
  <1>1. Plain(g, g) BY DEF Plain
  <1>2. EndHold(g) \in RegistryType /\ Plain(g, EndHold(g))
    BY DEF EndHold, RegistryType, Plain
  <1>3. Plain(g, StopTurn(g)) BY DEF StopTurn, RegistryType, Plain
  <1>4. Plain(g, KeepLine(g))
    <2>. DEFINE e == EndHold(g)
                h == [e EXCEPT !.kept = @ \cup Waiting(g)]
    <2>1. e \in RegistryType /\ Plain(g, e) BY <1>2
    <2>. HIDE DEF e
    <2>2. Plain(g, h) BY <2>1 DEF RegistryType, Plain
    <2>. QED BY <2>2 DEF KeepLine, e
  <1>5. \A s \in Sends : Plain(g, Claim(g, s)) BY DEF Claim, RegistryType, Plain
  <1>6. ASSUME NEW m \in Msgs PROVE Plain(g, OpenStream(g, m))
    <2>. DEFINE h == OpenStream(g, m)
    <2>1. /\ h.handed = g.handed /\ h.running = g.running
          /\ h.dropped = g.dropped /\ h.waitedOut = g.waitedOut
          /\ h.lock = g.lock /\ h.lastTurn = g.lastTurn
          /\ h.endedHold = g.endedHold /\ h.hold = g.hold
          /\ h.overdue = g.overdue \ StreamClocks
      BY DEF OpenStream, RegistryType
    <2>. HIDE DEF h
    <2>2. "abort" \notin h.overdue BY <2>1 DEF StreamClocks
    <2>3. Plain(g, h) BY <2>1, <2>2 DEF Plain
    <2>. QED BY <2>3 DEF h
  <1>7. ASSUME NEW m \in Msgs PROVE Plain(g, CloseStream(g, m))
    <2>. DEFINE e == RemoveStream(g)
                ended == g.lock # None
                h == [e EXCEPT !.runEnded = ended, !.overdue = @ \ {"quiet"}]
    <2>1. e \in RegistryType /\ Plain(g, e) /\ e.stream = None
      BY DEF RemoveStream, RegistryType, Plain
    <2>. HIDE DEF e
    <2>2. Plain(g, h) BY <2>1 DEF RegistryType, Plain
    <2>. QED BY <1>1, <2>2 DEF CloseStream, e
  <1>. QED BY <1>1, <1>2, <1>3, <1>4, <1>5, <1>6, <1>7

\* Those of them that leave the line too.
LEMMA PlainOnesInOrder ==
  ASSUME NEW g \in RegistryType, InOrder(g)
  PROVE  /\ InOrder(StopTurn(g)) /\ InOrder(KeepLine(g))
         /\ \A s \in Sends : InOrder(Claim(g, s))
         /\ \A m \in Msgs : InOrder(OpenStream(g, m)) /\ InOrder(CloseStream(g, m))
  <1>. DEFINE Same(h) == /\ h.line = g.line /\ h.deleting = g.deleting
                         /\ h.clickHolds = g.clickHolds
  <1>1. Same(StopTurn(g)) /\ \A s \in Sends : Same(Claim(g, s))
    BY DEF StopTurn, Claim, RegistryType
  <1>2. Same(KeepLine(g))
    <2>. DEFINE e == EndHold(g)
                h == [e EXCEPT !.kept = @ \cup Waiting(g)]
    <2>1. e \in RegistryType /\ Same(e) BY DEF EndHold, RegistryType
    <2>. HIDE DEF e
    <2>2. Same(h) BY <2>1 DEF RegistryType
    <2>. QED BY <2>2 DEF KeepLine, e
  <1>3. \A m \in Msgs : Same(OpenStream(g, m)) BY DEF OpenStream, RegistryType
  <1>4. ASSUME NEW m \in Msgs PROVE Same(CloseStream(g, m))
    <2>. DEFINE e == RemoveStream(g)
                ended == g.lock # None
                h == [e EXCEPT !.runEnded = ended, !.overdue = @ \ {"quiet"}]
    <2>1. e \in RegistryType /\ Same(e) BY DEF RemoveStream, RegistryType
    <2>. HIDE DEF e
    <2>2. Same(h) BY <2>1 DEF RegistryType
    <2>. QED BY <2>2 DEF CloseStream, e
  <1>5. \A h : Plain(g, h) /\ Same(h) => InOrder(h) BY PlainStays
  <1>. HIDE DEF Same
  <1>. QED BY <1>1, <1>2, <1>3, <1>4, <1>5, PlainOnes

\* sendWaitingSendNow
LEMMA SendNowKeeps ==
  ASSUME NEW g, Sound(g), InOrder(g)
  PROVE  Keeps(g, SendWaitingNow(g))
  <1>. DEFINE x == IF g.lock = None THEN EndHold(g) ELSE g
  <1>1. g \in RegistryType /\ EndHold(g) \in RegistryType
    BY EndHoldStill DEF Still, Sound
  <1>2. x \in RegistryType /\ Plain(g, x) BY <1>1, PlainOnes
  <1>3. SendWaitingNow(g) = HandOff(x) BY DEF SendWaitingNow
  <1>. HIDE DEF x
  <1>4. Ordered(x) /\ LateOrder(x) /\ Quiet(g, x)
    BY <1>2, PlainStays DEF InOrder
  <1>. QED BY <1>2, <1>3, <1>4, HandOffKeeps

\* One tick of the line's timer.
LEMMA BackstopKeeps ==
  ASSUME NEW g, Sound(g), InOrder(g), HolderRuns(g)
  PROVE  Keeps(g, BackstopTick(g))
  <1>. DEFINE p == Prune(g)
              k == KeepExpiredHold(p)
  <1>1. /\ p \in RegistryType /\ KeepLine(p) \in RegistryType
        /\ InOrder(p) /\ Quiet(g, p)
    BY PruneStill, KeepLineStill, PruneInOrder DEF Still, Sound
  <1>2. BackstopTick(g) = HandOff(k) BY DEF BackstopTick
  <1>. HIDE DEF p
  <1>3. k \in RegistryType /\ Plain(p, k) BY <1>1, PlainOnes DEF KeepExpiredHold
  <1>. HIDE DEF k
  <1>4. Ordered(k) /\ LateOrder(k) /\ Quiet(p, k)
    BY <1>1, <1>3, PlainStays DEF InOrder
  <1>5. Quiet(g, k) BY <1>1, <1>4, QuietTransitive
  <1>. QED BY <1>2, <1>3, <1>4, <1>5, HandOffKeeps

\* The end of a delete, of a chat that is there or one that is gone.
LEMMA EndDeleteKeeps ==
  ASSUME NEW g \in RegistryType, Ordered(g), LateOrder(g)
  PROVE  Keeps(g, EndDelete(g))
  <1>. DEFINE y == [g EXCEPT !.deleting = FALSE]
  <1>1. y \in RegistryType /\ Plain(g, y) BY DEF RegistryType, Plain
  <1>2. EndDelete(g) = HandOff(y) BY DEF EndDelete
  <1>. HIDE DEF y
  <1>3. Ordered(y) /\ LateOrder(y) /\ Quiet(g, y) BY <1>1, PlainStays
  <1>. QED BY <1>1, <1>2, <1>3, HandOffKeeps

\* cancelQueuedSessionTurnsOfDeletedChat, where nothing runs.
LEMMA CancelKeeps ==
  ASSUME NEW g, Sound(g), InOrder(g), g.lock = None, g.running = {}
  PROVE  LET c == CancelLine(g) IN
         Ordered(c) /\ LateOrder(c) /\ Quiet(g, c)
  <1>. DEFINE e == EndHold(g)
              none == <<>>
              hd == e.hidden \ Waiting(g)
              o == [s \in Sends |-> IF s \in Waiting(g) THEN "cancelled" ELSE e.outcome[s]]
              c == [e EXCEPT !.line = none, !.backstop = FALSE, !.lastTurn = None,
                             !.hidden = hd, !.outcome = o]
  <1>1. g \in RegistryType /\ e \in RegistryType BY EndHoldStill DEF Still, Sound
  <1>2. Plain(g, e) BY <1>1, PlainOnes
  <1>3. c = CancelLine(g) BY <1>1 DEF CancelLine, RegistryType
  <1>. HIDE DEF e, none, hd, o
  <1>4. /\ c.handed = e.handed /\ c.running = e.running /\ c.dropped = e.dropped
        /\ c.waitedOut = e.waitedOut /\ c.lock = e.lock
        /\ c.endedHold = e.endedHold /\ c.hold = e.hold
        /\ c.overdue = e.overdue /\ c.stream = e.stream
    BY <1>1 DEF RegistryType
  <1>. HIDE DEF c
  <1>5. Ordered(c) /\ LateOrder(c)
    BY <1>2, <1>4 DEF InOrder, Ordered, Accounted, LateOrder, Late, Plain
  <1>6. Quiet(g, c) BY <1>2, <1>4 DEF Quiet, Late, Plain
  <1>. QED BY <1>3, <1>5, <1>6

\* clearSessionTurn, after the Stop's prune.
LEMMA ClearKeeps ==
  ASSUME NEW g, Sound(g), InOrder(g), HolderRuns(g), Late(g) => g.lock = None, NEW m
  PROVE  LET h == ClearTurn(g, m) IN InOrder(h) /\ Quiet(g, h)
  <1>. DEFINE h == HandOff(DropLock(g))
  <1>1. g \in RegistryType BY DEF Sound
  <1>2. Plain(g, g) BY DEF Plain
  <1>3. ASSUME g.lock # None PROVE InOrder(h) /\ Quiet(g, h)
    <2>1. /\ Ordered(h) /\ h.handed = g.handed /\ h.running = g.running
          /\ h.waitedOut = g.waitedOut /\ h.endedHold = g.endedHold
          /\ h.stream = g.stream /\ h.overdue \subseteq g.overdue
      BY <1>1, <1>3, DropHandsNobody DEF InOrder
    <2>. HIDE DEF h
    <2>2. ~Late(h) BY <1>3, <2>1 DEF Late
    <2>. QED BY <2>1, <2>2 DEF InOrder, LateOrder, LateSettled, Quiet
  <1>. HIDE DEF h
  <1>4. ClearTurn(g, m) = g \/ (ClearTurn(g, m) = h /\ g.lock # None)
    BY DEF ClearTurn, h
  <1>. QED BY <1>2, <1>3, <1>4, PlainStays

\* abortStream and stopWhatRuns
LEMMA AbortKeeps ==
  ASSUME NEW g, Sound(g), InOrder(g), HolderRuns(g)
  PROVE  /\ InOrder(AbortStream(g)) /\ Quiet(g, AbortStream(g))
         /\ LET h == StopWhatRuns(g) IN
            InOrder(h) /\ Quiet(g, h) /\ h.handed = g.handed
  <1>1. ASSUME NEW x, Sound(x), InOrder(x), HolderRuns(x)
        PROVE  LET h == AbortStream(x) IN
               InOrder(h) /\ Quiet(x, h) /\ h.handed = x.handed
    <2>. DEFINE p == Prune(x)
                h == [p EXCEPT !.aborted = TRUE, !.overdue = @ \ {"abort"}]
    <2>1. p \in RegistryType /\ InOrder(p) /\ Quiet(x, p) /\ p.handed = x.handed
      BY <1>1, PruneStill, PruneInOrder DEF Still, Sound
    <2>2. AbortStream(x) = IF p.stream = None THEN p ELSE h BY DEF AbortStream
    <2>. HIDE DEF p
    <2>3. /\ Plain(p, h) /\ h.line = p.line /\ h.deleting = p.deleting
          /\ h.clickHolds = p.clickHolds /\ h.handed = p.handed
      BY <2>1 DEF RegistryType, Plain
    <2>. HIDE DEF h
    <2>4. InOrder(h) /\ Quiet(p, h) BY <2>1, <2>3, PlainStays
    <2>5. Quiet(x, h) BY <2>1, <2>4, QuietTransitive
    <2>. QED BY <2>1, <2>2, <2>3, <2>4, <2>5
  <1>. DEFINE m == [g EXCEPT !.signalled = @ \cup g.running]
  <1>2. g \in RegistryType BY DEF Sound
  <1>3. /\ m \in RegistryType
        /\ m.line = g.line /\ m.kept = g.kept /\ m.outcome = g.outcome
        /\ m.handed = g.handed /\ m.unclaimed = g.unclaimed
        /\ m.backstop = g.backstop /\ m.hidden = g.hidden /\ m.hold = g.hold
        /\ m.lock = g.lock /\ m.running = g.running /\ m.dropped = g.dropped
        /\ m.deleting = g.deleting /\ m.clickHolds = g.clickHolds /\ Plain(g, m)
    BY <1>2 DEF RegistryType, Plain
  <1>4. StopWhatRuns(g) = AbortStream(m) BY DEF StopWhatRuns
  <1>. HIDE DEF m
  <1>5. Sound(m) BY <1>3, SameLine
  <1>6. InOrder(m) /\ Quiet(g, m) BY <1>3, PlainStays
  <1>7. HolderRuns(m) BY <1>3 DEF HolderRuns
  <1>8. /\ InOrder(AbortStream(m)) /\ Quiet(m, AbortStream(m))
        /\ AbortStream(m).handed = g.handed
    BY <1>1, <1>3, <1>5, <1>6, <1>7
  <1>9. Quiet(g, AbortStream(m)) BY <1>6, <1>8, QuietTransitive
  <1>. QED BY <1>1, <1>4, <1>8, <1>9

\* queueSessionTurn
LEMMA EnqueueKeeps ==
  ASSUME NEW g, Sound(g), InOrder(g), NEW s \in Sends, NEW keep \in BOOLEAN
  PROVE  Keeps(g, Enqueue(g, s, keep))
  <1>. DEFINE j == [g EXCEPT !.line = Append(@, s), !.hidden = @ \cup {s},
                             !.kept = IF keep THEN @ \cup {s} ELSE @, !.backstop = TRUE]
              x == IF ~keep /\ g.lock = None THEN EndHold(j) ELSE j
  <1>1. g \in RegistryType BY DEF Sound
  <1>2. Append(g.line, s) \in Seq(Sends) BY <1>1, AppendProperties DEF RegistryType
  <1>3. j \in RegistryType BY <1>1, <1>2 DEF RegistryType
  <1>4. Plain(g, j) BY ZenonT(60), <1>1 DEF RegistryType, Plain
  <1>5. Enqueue(g, s, keep) = HandOff(x) BY DEF Enqueue
  <1>. HIDE DEF j
  <1>6. Ordered(j) /\ LateOrder(j) /\ Quiet(g, j) BY <1>4, PlainStays DEF InOrder
  <1>7. EndHold(j) \in RegistryType BY <1>3 DEF EndHold, RegistryType
  <1>8. x \in RegistryType /\ Plain(j, x) BY <1>3, <1>7, PlainOnes
  <1>. HIDE DEF x
  <1>9. Ordered(x) /\ LateOrder(x) /\ Quiet(j, x) BY <1>6, <1>8, PlainStays
  <1>10. Quiet(g, x) BY <1>6, <1>9, QuietTransitive
  <1>. QED BY <1>5, <1>8, <1>9, <1>10, HandOffKeeps

\* releaseSessionTurn: no card starts a hold while a handover is late.
LEMMA ReleaseKeeps ==
  ASSUME NEW g, Sound(g), InOrder(g), NEW r \in Requests, NEW end \in Ends,
         Late(g) /\ g.lock = r =>
           end.card = None /\ (r \in Clicks => g.endedHold[r] = None)
  PROVE  Keeps(g, Release(g, r, end))
  <1>. DEFINE f == [g EXCEPT !.running = @ \ {r}]
              x == SettleHold(f, r, end)
              d == DropLock(x)
              h == Release(g, r, end)
  <1>1. g \in RegistryType /\ r # None BY RequestsAssumption DEF Sound
  <1>2. /\ f \in RegistryType
        /\ f.line = g.line /\ f.kept = g.kept /\ f.outcome = g.outcome
        /\ f.handed = g.handed /\ f.unclaimed = g.unclaimed
        /\ f.backstop = g.backstop /\ f.hidden = g.hidden /\ f.hold = g.hold
        /\ f.lock = g.lock /\ f.running = g.running \ {r} /\ f.dropped = g.dropped
        /\ f.waitedOut = g.waitedOut /\ f.lastTurn = g.lastTurn
        /\ f.endedHold = g.endedHold /\ f.stream = g.stream /\ f.overdue = g.overdue
    BY <1>1 DEF RegistryType
  <1>3. h = IF g.lock = r THEN HandOff(d)
            ELSE IF g.lock = None /\ r \in g.running /\ g.lastTurn = r
                 THEN HandOff(x) ELSE HandOff(f)
    BY DEF Release
  <1>. HIDE DEF f, h
  <1>4. Waiting(f) = Waiting(g) /\ Runnable(f) = Runnable(g)
    BY <1>2 DEF Waiting, Runnable
  <1>5. Sound(f) BY <1>2, <1>4 DEF Sound
  <1>6. Ordered(f) /\ LateOrder(f) /\ Quiet(g, f)
    BY <1>2 DEF InOrder, Ordered, Accounted, LateOrder, Late, Quiet
  <1>7. x \in RegistryType BY <1>5, SettleHoldStill DEF Still, Sound
  <1>8. /\ x.handed = f.handed /\ x.running = f.running /\ x.dropped = f.dropped
        /\ x.waitedOut = f.waitedOut /\ x.lock = f.lock /\ x.lastTurn = f.lastTurn
        /\ x.endedHold = f.endedHold /\ x.stream = f.stream
        /\ x.overdue \subseteq f.overdue
    <2>1. \/ x = f \/ x = KeepLine(f)
          \/ \E m : x = [EndHold(f) EXCEPT !.hold = m]
          \/ \E m : x = [f EXCEPT !.hold = m]
      BY DEF SettleHold
    <2>. DEFINE e == EndHold(f)
    <2>2. /\ e \in RegistryType
          /\ e.handed = f.handed /\ e.running = f.running /\ e.dropped = f.dropped
          /\ e.waitedOut = f.waitedOut /\ e.lock = f.lock /\ e.lastTurn = f.lastTurn
          /\ e.endedHold = f.endedHold /\ e.stream = f.stream
          /\ e.overdue \subseteq f.overdue
      BY <1>2 DEF EndHold, RegistryType
    <2>3. \/ x = f \/ x = [e EXCEPT !.kept = @ \cup Waiting(f)]
          \/ \E m : x = [e EXCEPT !.hold = m]
          \/ \E m : x = [f EXCEPT !.hold = m]
      BY <2>1 DEF KeepLine
    <2>. HIDE DEF x, e
    <2>4. CASE x = f BY <2>4
    <2>5. CASE x = [e EXCEPT !.kept = @ \cup Waiting(f)] BY <2>2, <2>5 DEF RegistryType
    <2>6. CASE \E m : x = [e EXCEPT !.hold = m] BY <2>2, <2>6 DEF RegistryType
    <2>7. CASE \E m : x = [f EXCEPT !.hold = m] BY <1>2, <2>7 DEF RegistryType
    <2>. QED BY <2>3, <2>4, <2>5, <2>6, <2>7
  <1>9. Late(g) /\ g.lock = r => x = f BY <1>2 DEF SettleHold
  <1>. HIDE DEF x
  <1>10. Ordered(x) /\ Quiet(g, x)
    BY <1>2, <1>6, <1>8 DEF Ordered, Accounted, Late, Quiet
  <1>11. CASE g.lock = r
    <2>1. /\ d \in RegistryType
          /\ d.handed = x.handed /\ d.running = x.running /\ d.lock = None
          /\ d.waitedOut = x.waitedOut /\ d.lastTurn = x.lastTurn
          /\ d.endedHold = x.endedHold /\ d.stream = x.stream /\ d.hold = x.hold
          /\ d.overdue \subseteq x.overdue /\ d.dropped = x.dropped \cup {r}
      <3>1. x.lock = r BY <1>2, <1>8, <1>11
      <3>. QED BY <1>7, <3>1, ZenonT(60) DEF DropLock, RegistryType
    <2>. HIDE DEF d
    <2>2. Ordered(d) BY <1>2, <1>8, <1>10, <1>11, <2>1 DEF Ordered, Accounted
    <2>3. Quiet(g, d) BY <1>2, <1>8, <1>10, <2>1 DEF Quiet, Late
    <2>4. LateOrder(d)
      <3>1. SUFFICES ASSUME Late(d)
                     PROVE  /\ d.hold = None
                            /\ d.overdue \cap LockClocks = {}
                            /\ d.handed \cap d.running = {}
                            /\ d.lastTurn \notin d.running
        BY DEF LateOrder
      <3>2. Late(g) BY <2>3, <3>1 DEF Quiet
      <3>3. /\ g.hold = None /\ g.overdue \cap LockClocks = {}
            /\ g.handed \cap g.running \subseteq {r} /\ g.lastTurn = r
        BY <1>1, <1>11, <3>2 DEF InOrder, LateOrder, Ordered
      <3>4. x = f BY <1>9, <1>11, <3>2
      <3>. QED BY <1>2, <2>1, <3>3, <3>4
    <2>5. Keeps(g, HandOff(d)) BY <2>1, <2>2, <2>3, <2>4, HandOffKeeps
    <2>. QED BY <1>3, <1>11, <2>5 DEF h
  <1>12. CASE g.lock = None /\ r \in g.running /\ g.lastTurn = r
    <2>1. ~Late(g) BY <1>12 DEF InOrder, LateOrder
    <2>2. LateOrder(x) BY <1>2, <1>8, <2>1 DEF Late, LateOrder
    <2>3. Keeps(g, HandOff(x)) BY <1>7, <1>10, <2>2, HandOffKeeps
    <2>. QED BY <1>1, <1>3, <1>12, <2>3 DEF h
  <1>13. Keeps(g, HandOff(f)) BY <1>2, <1>6, HandOffKeeps
  <1>. QED BY <1>3, <1>11, <1>12, <1>13 DEF h

\* abandonQueuedSessionTurn
LEMMA AbandonKeeps ==
  ASSUME NEW g, Sound(g), InOrder(g), NEW s \in Sends
  PROVE  LET h == Abandon(g, s) IN
         /\ Keeps(g, h)
         /\ s \in Waiting(g) => InOrder(h) /\ Quiet(g, h) /\ h.handed = g.handed
  <1>. DEFINE h == Abandon(g, s)
              c == Claim(g, s)
              k == Release(c, s, NoEnd)
  <1>1. g \in RegistryType /\ g.line \in Seq(Sends) /\ Plain(g, g) /\ s \in Requests
    BY SoundTypes DEF Plain, Requests
  <1>2. CASE s \in Waiting(g)
    <2>. DEFINE w == WithoutSend(g.line, s)
                l == [g EXCEPT !.line = w, !.hidden = @ \ {s}]
    <2>1. w \in Seq(Sends) BY <1>1, <1>2, MembersOfRest DEF Sound, Waiting
    <2>2. \/ h = l \/ h = EndHold(l) \/ h = [EndHold(l) EXCEPT !.backstop = FALSE]
      BY <1>2 DEF Abandon, LeaveLine
    <2>. HIDE DEF w
    <2>3. /\ l \in RegistryType /\ Plain(g, l) /\ l.handed = g.handed
          /\ l.deleting = g.deleting /\ l.clickHolds = g.clickHolds
      BY <1>1, <2>1 DEF RegistryType, Plain
    <2>. HIDE DEF l, h
    <2>4. /\ Plain(l, h) /\ h.handed = l.handed
          /\ h.deleting = l.deleting /\ h.clickHolds = l.clickHolds
      <3>. DEFINE e == EndHold(l)
      <3>1. /\ e \in RegistryType /\ Plain(l, e) /\ e.handed = l.handed
            /\ e.deleting = l.deleting /\ e.clickHolds = l.clickHolds
        BY <2>3 DEF EndHold, RegistryType, Plain
      <3>2. h = l \/ h = e \/ h = [e EXCEPT !.backstop = FALSE] BY <2>2
      <3>. HIDE DEF e
      <3>3. CASE h = l BY <3>3 DEF Plain
      <3>4. CASE h = e BY <3>1, <3>4
      <3>5. CASE h = [e EXCEPT !.backstop = FALSE]
        BY <3>1, <3>5 DEF RegistryType, Plain
      <3>. QED BY <3>2, <3>3, <3>4, <3>5
    <2>5. Plain(g, h) BY <2>3, <2>4 DEF Plain
    <2>6. g.line # <<>> BY <1>1, <1>2, Members DEF Waiting
    <2>7. InOrder(h) /\ Quiet(g, h) BY <2>3, <2>4, <2>5, <2>6, PlainStays
    <2>8. Follows(g, h) BY <2>7, QuietFollows
    <2>. QED BY <2>3, <2>4, <2>7, <2>8 DEF Keeps, h
  <1>3. CASE s \notin Waiting(g)
    <2>1. h = g \/ h = k BY <1>3 DEF Abandon
    <2>2. Sound(c) /\ InOrder(c) /\ Quiet(g, c)
      BY <1>1, ClaimStill, PlainOnes, PlainOnesInOrder, PlainStays DEF Still
    <2>. HIDE DEF c, h
    <2>3. s \notin Clicks /\ NoEnd.card = None BY RequestsAssumption DEF NoEnd
    <2>4. Keeps(c, k) BY <1>1, <2>2, <2>3, ReleaseKeeps, NoEndIsAnEnd
    <2>. HIDE DEF k
    <2>5. Keeps(g, k) BY <2>2, <2>4, QuietThenFollows DEF Keeps
    <2>6. Keeps(g, g) BY <1>1, PlainStays, QuietFollows DEF Keeps
    <2>. QED BY <1>3, <2>1, <2>5, <2>6 DEF h
  <1>. QED BY <1>2, <1>3

\* registerSessionTurn: a click that registers while a handover is late ends no
\* hold.
LEMMA RegisterInOrder ==
  ASSUME NEW g \in RegistryType, Ordered(g), LateOrder(g), NEW r \in Requests,
         ~Refuses(g, r)
  PROVE  LET h == Register(g, r) IN
         /\ InOrder(h) /\ h.handed = g.handed /\ h.lock = r
         /\ \A c \in Clicks : h.endedHold[c] = g.endedHold[c] \/ (c = r /\ ~Late(h))
  <1>. DEFINE e == CreateEntry(g, r)
              x == EndHold(e)
              h == Register(g, r)
  <1>1. g.lock = None /\ r # None /\ g.running \subseteq Requests /\ None \notin Requests
    BY RequestsAssumption DEF Refuses, RegistryType
  <1>2. /\ e \in RegistryType
        /\ e.lock = r /\ e.lastTurn = r /\ e.hold = g.hold
        /\ e.running = g.running \cup {r} /\ e.dropped = g.dropped \ {r}
        /\ e.waitedOut = g.waitedOut \ {r} /\ e.handed = g.handed
        /\ e.stream = g.stream /\ e.endedHold = g.endedHold
        /\ e.overdue = g.overdue \ LockClocks
    BY ZenonT(60) DEF CreateEntry, RegistryType, Requests
  <1>3. \/ h = e
        \/ r \in Clicks /\ g.hold = MsgOf[r] /\ h = [x EXCEPT !.endedHold[r] = g.hold]
    BY DEF Register
  <1>. HIDE DEF e, h
  <1>4. Late(e) => Late(g) BY <1>2 DEF Late
  <1>5. Ordered(e) BY <1>1, <1>2 DEF Ordered, Accounted
  <1>6. LateOrder(e)
    <2>1. SUFFICES ASSUME Late(e)
                   PROVE  /\ e.hold = None /\ e.overdue \cap LockClocks = {}
                          /\ e.handed \cap e.running \subseteq {e.lock}
      BY <1>1, <1>2 DEF LateOrder
    <2>2. g.handed \cap g.running \subseteq {None} /\ g.hold = None
      BY <1>1, <1>4, <2>1 DEF LateOrder
    <2>. QED BY <1>1, <1>2, <2>2
  <1>7. InOrder(e) BY <1>1, <1>2, <1>5, <1>6 DEF InOrder, LateSettled
  <1>8. CASE h = e BY <1>2, <1>7, <1>8 DEF h
  <1>9. CASE r \in Clicks /\ g.hold = MsgOf[r] /\ h = [x EXCEPT !.endedHold[r] = g.hold]
    <2>1. g.hold # None BY <1>9, RequestsAssumption
    <2>2. /\ x \in RegistryType /\ x.lock = r /\ x.lastTurn = r
          /\ x.running = e.running /\ x.dropped = e.dropped
          /\ x.waitedOut = e.waitedOut /\ x.handed = e.handed
          /\ x.stream = e.stream /\ x.endedHold = e.endedHold
          /\ x.overdue \subseteq e.overdue
      BY <1>2 DEF EndHold, RegistryType
    <2>. HIDE DEF x
    <2>3. /\ h.lock = r /\ h.lastTurn = r
          /\ h.running = e.running /\ h.dropped = e.dropped
          /\ h.waitedOut = e.waitedOut /\ h.handed = e.handed
          /\ h.stream = e.stream /\ h.overdue \subseteq e.overdue
          /\ h.endedHold = [e.endedHold EXCEPT ![r] = g.hold]
      BY <1>9, <2>2 DEF RegistryType
    <2>4. ~Late(g) => ~Late(h) BY <1>2, <2>3 DEF Late
    <2>5. ~Late(h) BY <2>1, <2>4 DEF LateOrder
    <2>6. InOrder(h)
      BY <1>2, <1>5, <2>3, <2>5 DEF InOrder, LateOrder, LateSettled, Ordered, Accounted
    <2>7. \A c \in Clicks : h.endedHold[c] = g.endedHold[c] \/ c = r
      <3>1. e.endedHold \in [Clicks -> Msgs \cup {None}] BY <1>2 DEF RegistryType
      <3>. QED BY <1>2, <2>3, <3>1
    <2>. QED BY <1>2, <2>3, <2>5, <2>6, <2>7 DEF h
  <1>. QED BY <1>3, <1>8, <1>9

\* A send that lost its handover lets go of it, and then finds the chat free:
\* its letting go has handed the chat to nobody.
LEMMA LostHandover ==
  ASSUME NEW g, Sound(g), InOrder(g), NEW s \in Sends, s \notin Waiting(g),
         g.lock # s, Prune(Abandon(g, s)).lock = None
  PROVE  Abandon(g, s).handed \subseteq g.handed
  <1>. DEFINE c == Claim(g, s)
              f == [c EXCEPT !.running = @ \ {s}]
              head == Head(f.line)
              a == Abandon(g, s)
              p == PruneStream(a)
  <1>1. g \in RegistryType /\ s \notin Clicks /\ s \in Requests /\ None \notin Requests
    BY RequestsAssumption DEF Sound, Requests
  <1>2. CASE s \notin g.handed
    BY <1>2 DEF Abandon
  <1>3. CASE s \in g.handed
    <2>1. a = Release(c, s, NoEnd) BY <1>3 DEF Abandon
    <2>2. /\ c \in RegistryType
          /\ c.line = g.line /\ c.lock = g.lock /\ c.handed = g.handed \ {s}
          /\ c.running = g.running /\ c.dropped = g.dropped
          /\ c.waitedOut = g.waitedOut /\ c.hold = g.hold /\ c.deleting = g.deleting
          /\ c.clickHolds = g.clickHolds /\ c.stream = g.stream
          /\ c.overdue = g.overdue
      BY ZenonT(60), <1>1 DEF Claim, RegistryType
    <2>3. /\ f \in RegistryType
          /\ f.line = g.line /\ f.lock = g.lock /\ f.handed = g.handed \ {s}
          /\ f.running = g.running \ {s} /\ f.dropped = g.dropped
          /\ f.waitedOut = g.waitedOut /\ f.hold = g.hold /\ f.deleting = g.deleting
          /\ f.clickHolds = g.clickHolds /\ f.stream = g.stream
          /\ f.overdue = g.overdue
      <3>. HIDE DEF c
      <3>. QED BY ZenonT(60), <2>2 DEF RegistryType
    <2>4. SettleHold(f, s, NoEnd) = f BY <1>1 DEF SettleHold, NoEnd
    <2>5. a = HandOff(f)
      <3>1. c.lock # s BY <2>2
      <3>. HIDE DEF c, a
      <3>. QED BY <2>1, <2>4, <3>1 DEF Release
    <2>. HIDE DEF f, c, a
    <2>6. CASE f.line = <<>>
      <3>1. a = [EndHold(f) EXCEPT !.backstop = FALSE] BY <2>5, <2>6 DEF HandOff
      <3>2. a.handed = f.handed BY <2>3, <3>1 DEF EndHold, RegistryType
      <3>. QED BY <2>3, <3>2 DEF a
    <2>7. CASE f.line # <<>> /\ HeldBack(f)
      <3>1. a = f BY <2>5, <2>7 DEF HandOff
      <3>. QED BY <2>3, <3>1 DEF a
    <2>8. CASE f.line # <<>> /\ ~HeldBack(f)
      <3>1. a = [CreateEntry(f, head) EXCEPT
                  !.line = Tail(f.line), !.backstop = Tail(f.line) # <<>>,
                  !.unclaimed = IF head \in f.kept THEN @ ELSE @ \cup {head},
                  !.handed = @ \cup {head}, !.outcome[head] = HandedTo(f, head)]
        BY <2>5, <2>8 DEF HandOff
      <3>2. head \in Sends
        BY <2>3, <2>8, HeadTailProperties DEF RegistryType
      <3>3. a \in RegistryType
        <4>1. Sound(a) BY AbandonMoves DEF a
        <4>. QED BY <4>1 DEF Sound
      <3>. HIDE DEF head
      <3>4. a.lock = head /\ a.stream = f.stream /\ a.overdue = f.overdue \ LockClocks
        BY <2>3, <3>1 DEF CreateEntry, RegistryType
      <3>5. head # None BY <3>2, SoundTypes
      <3>6. p.lock = head /\ p.overdue \subseteq a.overdue /\ p.stream \in {a.stream, None}
        BY <3>3, <3>4 DEF PruneStream, RemoveStream, RegistryType
      <3>7. Prune(a) = IF LockIsStale(p)
                       THEN HandOff(DropLock(IF "turnStale" \notin p.overdue /\ p.stream # None
                                             THEN RemoveStream(p) ELSE p))
                       ELSE p
        BY DEF Prune, PruneLock
      <3>. HIDE DEF p
      <3>8. LockIsStale(p) BY <3>5, <3>6, <3>7 DEF a
      <3>9. Late(g)
        <4>1. p.overdue \cap LockClocks = {} BY <3>4, <3>6
        <4>2. p.stream # None /\ "abort" \in p.overdue
          BY <3>8, <4>1 DEF LockIsStale, LockClocks
        <4>. QED BY <1>3, <2>3, <3>4, <3>6, <4>2 DEF Late
      <3>10. g.lock = None BY <2>3, <2>8 DEF HeldBack
      <3>11. s \notin g.running /\ Settled(g)
        BY <1>1, <1>3, <3>9, <3>10 DEF InOrder, LateOrder, LateSettled
      <3>12. HeldBack(g) BY <2>3, <2>8, <3>11 DEF Settled
      <3>13. f.running = g.running BY <2>3, <3>11
      <3>14. HeldBack(f) BY <2>3, <3>12, <3>13 DEF HeldBack, DroppedStillWriting
      <3>. QED BY <2>8, <3>14
    <2>. QED BY <2>6, <2>7, <2>8
  <1>. QED BY <1>2, <1>3

\* beginSessionDelete
LEMMA BeginDeleteKeeps ==
  ASSUME NEW g, Sound(g), InOrder(g)
  PROVE  Keeps(g, BeginDelete(g))
  <1>. DEFINE d == [g EXCEPT !.deleting = TRUE]
              k == [d EXCEPT !.unclaimed = @ \ {g.lock}]
              h == BeginDelete(g)
  <1>1. g \in RegistryType /\ g.line \in Seq(Sends) BY SoundTypes
  <1>2. h = IF g.lock \in g.unclaimed THEN Release(k, g.lock, NoEnd) ELSE d
    BY DEF BeginDelete
  <1>3. /\ d \in RegistryType /\ Plain(g, d) /\ d.line = g.line
        /\ d.deleting /\ d.clickHolds = g.clickHolds
        /\ k \in RegistryType /\ Plain(g, k)
        /\ k.deleting /\ k.clickHolds = g.clickHolds
        /\ k.line = g.line /\ k.kept = g.kept /\ k.outcome = g.outcome
        /\ k.handed = g.handed /\ k.unclaimed = g.unclaimed \ {g.lock}
        /\ k.backstop = g.backstop /\ k.hidden = g.hidden /\ k.hold = g.hold
        /\ k.lock = g.lock
    BY <1>1 DEF RegistryType, Plain
  <1>. HIDE DEF d, k
  <1>4. Sound(k) BY <1>1, <1>3 DEF Sound, Waiting, Runnable
  <1>5. InOrder(d) /\ Quiet(g, d) /\ InOrder(k) /\ Quiet(g, k) BY <1>3, PlainStays
  <1>6. Keeps(g, d) BY <1>5, QuietFollows DEF Keeps
  <1>7. g.lock \in g.unclaimed => Keeps(g, Release(k, g.lock, NoEnd))
    <2>1. SUFFICES ASSUME g.lock \in g.unclaimed
                   PROVE  Keeps(g, Release(k, g.lock, NoEnd))
      OBVIOUS
    <2>2. g.lock \in Requests /\ g.lock \notin Clicks
      BY <1>1, <2>1, RequestsAssumption DEF RegistryType, Requests
    <2>3. NoEnd.card = None BY DEF NoEnd
    <2>4. Keeps(k, Release(k, g.lock, NoEnd))
      BY <1>3, <1>4, <1>5, <2>2, <2>3, ReleaseKeeps, NoEndIsAnEnd
    <2>. QED BY <1>5, <2>4, QuietThenFollows DEF Keeps
  <1>. HIDE DEF h
  <1>. QED BY <1>2, <1>6, <1>7 DEF h

=============================================================================
