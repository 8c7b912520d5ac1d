---------------------------- MODULE WakesProofs ----------------------------
(***************************************************************************)
(* What wakes an agent.  Within its minute of set-up, every woken turn that *)
(* goes on is one that the registry counts and whose timer runs, and what   *)
(* is counted is within the caps: for any number of wakes, agents and       *)
(* chats.  The due cache hides no schedule that is due, and no slot fires   *)
(* twice: for any number of schedules and edits, and any cadences, grace    *)
(* and bounds.                                                              *)
(***************************************************************************)
EXTENDS Wakes, Schedules, FiniteSetTheorems, SequenceTheorems, TLAPS

-----------------------------------------------------------------------------
(* The woken turns.                                                         *)

\* A wake's place and what the registry has of it.
PlacesFit ==
  /\ \A c \in Chats : runs[c] # NoWake => ChatOf[runs[c]] = c
  /\ \A w \in slot : wake[w] = "setup"
  /\ \A w \in Running : wake[w] \in {"posting", "fetching", "over"}

\* Whoever sets up holds its place; the timers are those of registered runs; and
\* whoever goes on is registered, with its timer.
Registered ==
  /\ \A w \in Wakes : wake[w] = "setup" => w \in slot
  /\ timer \subseteq Running
  /\ \A w \in Wakes : ender[w] # "none" => aborted[w] # "no"
  /\ Live \subseteq timer \cup Robbed

\* One place for each agent, running or reserved.
OnePlace == \A w, v \in Running \cup slot : AgentOf[w] = AgentOf[v] => w = v

Counts ==
  /\ Cardinality(Running) + Cardinality(slot) <= RunCap
  /\ Cardinality(starts) + Cardinality(slot) <= HourCap
  /\ \A a \in {AgentOf[w] : w \in Wakes} :
       Cardinality(OfAgent(a, starts)) + Cardinality(OfAgent(a, slot)) <= AgentHour

WakeInv == WakeTypeOK /\ PlacesFit /\ (SetupsInTime => Registered /\ OnePlace /\ Counts)

-----------------------------------------------------------------------------
(* Counting.                                                                *)

LEMMA WakesAreFinite ==
  ASSUME NEW S \in SUBSET Wakes
  PROVE  /\ IsFiniteSet(S) /\ Cardinality(S) \in Nat
         /\ \A T \in SUBSET S : IsFiniteSet(T) /\ Cardinality(T) <= Cardinality(S)
<1>1. IsFiniteSet(S)
  BY WakesAssumption, FS_Subset
<1> QED BY <1>1, FS_CardinalityType, FS_Subset

LEMMA OneMore ==
  ASSUME NEW S \in SUBSET Wakes, NEW w
  PROVE  /\ Cardinality(S \cup {w}) <= Cardinality(S) + 1
         /\ w \in S => Cardinality(S \ {w}) = Cardinality(S) - 1
<1>1. IsFiniteSet(S) /\ Cardinality(S) \in Nat
  BY WakesAreFinite
<1>2. Cardinality(S \cup {w}) = IF w \in S THEN Cardinality(S) ELSE Cardinality(S) + 1
  BY <1>1, FS_AddElement
<1>3. Cardinality(S \ {w}) = IF w \in S THEN Cardinality(S) - 1 ELSE Cardinality(S)
  BY <1>1, FS_RemoveElement
<1> QED BY <1>1, <1>2, <1>3

LEMMA NoneOfThem ==
  ASSUME NEW S \in SUBSET Wakes, NEW T \in SUBSET Wakes, Cardinality(S) + Cardinality(T) < 1
  PROVE  S = {} /\ T = {}
<1>1. IsFiniteSet(S) /\ Cardinality(S) \in Nat /\ IsFiniteSet(T) /\ Cardinality(T) \in Nat
  BY WakesAreFinite
<1>2. Cardinality(S) = 0 /\ Cardinality(T) = 0
  BY <1>1
<1> QED BY <1>1, <1>2, FS_EmptySet

\* w moves from the slots to a set that is counted with them.
LEMMA MovesUp ==
  ASSUME NEW S \in SUBSET Wakes, NEW T \in SUBSET Wakes, NEW w \in Wakes, NEW n \in Nat,
         w \in T, Cardinality(S) + Cardinality(T) <= n
  PROVE  Cardinality(S \cup {w}) + Cardinality(T \ {w}) <= n
<1>1. Cardinality(S) \in Nat /\ Cardinality(T) \in Nat
  BY WakesAreFinite
<1>2. S \cup {w} \in SUBSET Wakes /\ T \ {w} \in SUBSET Wakes
  OBVIOUS
<1>3. Cardinality(S \cup {w}) \in Nat /\ Cardinality(T \ {w}) \in Nat
  BY <1>2, WakesAreFinite
<1>4. Cardinality(S \cup {w}) <= Cardinality(S) + 1
  BY OneMore
<1>5. Cardinality(T \ {w}) = Cardinality(T) - 1
  BY OneMore
<1> QED BY <1>1, <1>3, <1>4, <1>5

\* Fewer are counted.
LEMMA FewerCount ==
  ASSUME NEW S \in SUBSET Wakes, NEW T \in SUBSET Wakes, NEW n \in Nat,
         Cardinality(S) + Cardinality(T) <= n, NEW R \in SUBSET S, NEW U \in SUBSET T
  PROVE  Cardinality(R) + Cardinality(U) <= n
<1>1. Cardinality(R) \in Nat /\ Cardinality(U) \in Nat
  BY WakesAreFinite
<1>2. Cardinality(R) <= Cardinality(S) /\ Cardinality(U) <= Cardinality(T)
  BY WakesAreFinite
<1>3. Cardinality(S) \in Nat /\ Cardinality(T) \in Nat
  BY WakesAreFinite
<1> QED BY <1>1, <1>2, <1>3

LEMMA AgentsHave == \A a, S : OfAgent(a, S) \subseteq S
BY DEF OfAgent

-----------------------------------------------------------------------------
(* Every step keeps the invariant.                                          *)

LEMMA Typed ==
  ASSUME WakeInv
  PROVE  /\ \A w \in Wakes : ChatOf[w] \in Chats
         /\ Running \in SUBSET Wakes /\ slot \in SUBSET Wakes /\ starts \in SUBSET Wakes
         /\ NoWake \notin Wakes
         /\ \A c \in Chats : runs[c] \in Running \cup {NoWake}
<1>1. \A w \in Wakes : ChatOf[w] \in Chats
  BY DEF Chats
<1>2. \A c \in Chats : runs[c] \in Wakes \cup {NoWake}
  BY DEF WakeInv, WakeTypeOK
<1>3. \A c \in Chats : runs[c] \in Running \cup {NoWake}
  BY <1>2 DEF WakeInv, PlacesFit, Running
<1> QED BY <1>1, <1>3, WakesAssumption DEF WakeInv, WakeTypeOK, Running

\* With fewer places taken, what is counted stays within the caps.
LEMMA FewerPlaces ==
  ASSUME WakeInv, OnePlace, Counts, Running' \subseteq Running, slot' \subseteq slot,
         starts' \subseteq starts
  PROVE  OnePlace' /\ Counts'
<1>1. OnePlace'
  BY DEF OnePlace
<1>2. Cardinality(Running') + Cardinality(slot') <= RunCap
  BY Typed, FewerCount, WakesAssumption DEF Counts
<1>3. Cardinality(starts') + Cardinality(slot') <= HourCap
  BY Typed, FewerCount, WakesAssumption DEF Counts
<1>4. ASSUME NEW a \in {AgentOf[w] : w \in Wakes}
      PROVE  Cardinality(OfAgent(a, starts')) + Cardinality(OfAgent(a, slot')) <= AgentHour
  <2>1. /\ OfAgent(a, starts) \in SUBSET Wakes /\ OfAgent(a, slot) \in SUBSET Wakes
        /\ OfAgent(a, starts') \in SUBSET OfAgent(a, starts)
        /\ OfAgent(a, slot') \in SUBSET OfAgent(a, slot)
    BY Typed DEF OfAgent
  <2>2. Cardinality(OfAgent(a, starts)) + Cardinality(OfAgent(a, slot)) <= AgentHour
    BY DEF Counts
  <2> QED BY <2>1, <2>2, FewerCount, WakesAssumption
<1>5. /\ \A a : OfAgent(a, starts)' = OfAgent(a, starts')
      /\ \A a : OfAgent(a, slot)' = OfAgent(a, slot')
  BY DEF OfAgent
<1> QED BY <1>1, <1>2, <1>3, <1>4, <1>5 DEF Counts

LEMMA WakeInvInit ==
  ASSUME WakeInit
  PROVE  WakeInv
<1>1. Running = {} /\ slot = {} /\ starts = {} /\ Live = {}
  BY WakesAssumption DEF WakeInit, Running, Live, Chats
<1>2. WakeTypeOK
  BY DEF WakeInit, WakeTypeOK, WakePlaces
<1>3. PlacesFit /\ Registered
  BY <1>1 DEF WakeInit, PlacesFit, Registered
<1>4. OnePlace
  BY <1>1 DEF OnePlace
<1>5. \A a : OfAgent(a, {}) = {}
  BY DEF OfAgent
<1>6. Counts
  BY <1>1, <1>5, FS_EmptySet, WakesAssumption DEF Counts
<1> QED BY <1>2, <1>3, <1>4, <1>6 DEF WakeInv

\* Whoever reserves finds no other of its agent, running or reserved.
LEMMA ReservesKeepsInv ==
  ASSUME WakeInv, NEW w \in Wakes, Reserves(w)
  PROVE  WakeInv'
<1>1. /\ wake[w] = "idle"
      /\ UNCHANGED <<runs, starts, timer, aborted, ender, endedBy>>
      /\ \/ /\ CapsAllow(AgentOf[w], slot \ aged)
            /\ slot' = (slot \ aged) \cup {w} /\ wake' = [wake EXCEPT ![w] = "setup"]
         \/ slot' = slot \ aged /\ wake' = [wake EXCEPT ![w] = "refused"]
      /\ aged' = {} /\ overstayed' = overstayed \cup (slot \cap aged)
  BY DEF Reserves
<1>2. WakeTypeOK'
  BY <1>1 DEF WakeInv, WakeTypeOK, WakePlaces
<1>3. Running' = Running /\ Robbed' = Robbed /\ w \notin Running /\ w \notin slot
  BY <1>1 DEF Running, Robbed, WakeInv, PlacesFit
<1>4. \A v \in Wakes : v # w => wake'[v] = wake[v]
  BY <1>1 DEF WakeInv, WakeTypeOK
<1>5. wake'[w] \in {"setup", "refused"} /\ (w \in slot' <=> wake'[w] = "setup")
  BY <1>1, <1>3 DEF WakeInv, WakeTypeOK
<1>6. Live' = Live
  BY <1>1, <1>4, <1>5 DEF Live
<1>7. PlacesFit'
  <2>1. \A v \in Running : wake'[v] = wake[v]
    BY <1>3, <1>4, Typed
  <2>2. \A v \in slot' : wake'[v] = "setup"
    BY <1>1, <1>4, <1>5 DEF WakeInv, PlacesFit, WakeTypeOK
  <2> QED BY <1>1, <1>3, <2>1, <2>2 DEF WakeInv, PlacesFit
<1>8. SUFFICES ASSUME SetupsInTime' PROVE Registered' /\ OnePlace' /\ Counts'
  BY <1>2, <1>7 DEF WakeInv
<1>9. SetupsInTime /\ slot \ aged = slot
  BY <1>1, <1>8 DEF SetupsInTime
<1>10. Registered /\ OnePlace /\ Counts
  BY <1>9 DEF WakeInv
<1>11. Registered'
  BY <1>1, <1>3, <1>4, <1>5, <1>6, <1>9, <1>10 DEF Registered
<1>12. CASE slot' = slot
  BY <1>1, <1>3, <1>10, <1>11, <1>12, FewerPlaces
<1>13. CASE CapsAllow(AgentOf[w], slot) /\ slot' = slot \cup {w}
  <2>1. /\ Cardinality(OfAgent(AgentOf[w], Running)) + Cardinality(OfAgent(AgentOf[w], slot)) < 1
        /\ Cardinality(Running) + Cardinality(slot) < RunCap
        /\ Cardinality(OfAgent(AgentOf[w], starts)) + Cardinality(OfAgent(AgentOf[w], slot))
             < AgentHour
        /\ Cardinality(starts) + Cardinality(slot) < HourCap
    BY <1>13, OneRunPerAgent DEF CapsAllow
  <2>2. OfAgent(AgentOf[w], Running) = {} /\ OfAgent(AgentOf[w], slot) = {}
    <3>1. OfAgent(AgentOf[w], Running) \in SUBSET Wakes /\ OfAgent(AgentOf[w], slot) \in SUBSET Wakes
      BY Typed DEF OfAgent
    <3> QED BY <2>1, <3>1, NoneOfThem
  <2>3. OnePlace'
    BY <1>3, <1>10, <1>13, <2>2 DEF OnePlace, OfAgent
  <2>4. /\ Cardinality(Running) \in Nat /\ Cardinality(starts) \in Nat
        /\ Cardinality(slot) \in Nat /\ Cardinality(slot') \in Nat
        /\ Cardinality(slot') <= Cardinality(slot) + 1
    <3>1. slot' \in SUBSET Wakes
      BY <1>2 DEF WakeTypeOK
    <3> QED BY <1>13, <3>1, Typed, WakesAreFinite, OneMore
  <2>5. /\ Cardinality(Running) + Cardinality(slot') <= RunCap
        /\ Cardinality(starts) + Cardinality(slot') <= HourCap
    BY <2>1, <2>4, WakesAssumption
  <2>6. ASSUME NEW a \in {AgentOf[v] : v \in Wakes}
        PROVE  Cardinality(OfAgent(a, starts)) + Cardinality(OfAgent(a, slot')) <= AgentHour
    <3>1. CASE a # AgentOf[w]
      <4>1. OfAgent(a, slot') = OfAgent(a, slot)
        BY <1>13, <3>1 DEF OfAgent
      <4> QED BY <1>10, <4>1 DEF Counts
    <3>2. CASE a = AgentOf[w]
      <4>1. OfAgent(a, slot') = OfAgent(a, slot) \cup {w}
        BY <1>13, <3>2 DEF OfAgent
      <4>2. OfAgent(a, slot) \in SUBSET Wakes /\ OfAgent(a, starts) \in SUBSET Wakes
            /\ OfAgent(a, slot') \in SUBSET Wakes
        BY <4>1, Typed DEF OfAgent
      <4>3. /\ Cardinality(OfAgent(a, slot)) \in Nat /\ Cardinality(OfAgent(a, starts)) \in Nat
            /\ Cardinality(OfAgent(a, slot')) \in Nat
        BY <4>2, WakesAreFinite
      <4>4. Cardinality(OfAgent(a, slot')) <= Cardinality(OfAgent(a, slot)) + 1
        BY <4>1, <4>2, OneMore
      <4> QED BY <2>1, <3>2, <4>3, <4>4, WakesAssumption
    <3> QED BY <3>1, <3>2
  <2>7. /\ \A a : OfAgent(a, starts)' = OfAgent(a, starts)
        /\ \A a : OfAgent(a, slot)' = OfAgent(a, slot')
    BY <1>1 DEF OfAgent
  <2>8. Counts'
    BY <1>1, <1>3, <2>5, <2>6, <2>7 DEF Counts
  <2> QED BY <1>11, <2>3, <2>8
<1> QED BY <1>1, <1>9, <1>12, <1>13

LEMMA SetupFailsKeepsInv ==
  ASSUME WakeInv, NEW w \in Wakes, SetupFails(w)
  PROVE  WakeInv'
<1>1. /\ wake[w] = "setup" /\ wake' = [wake EXCEPT ![w] = "refused"]
      /\ slot' = slot \ {w} /\ aged' = aged \ {w}
      /\ UNCHANGED <<runs, starts, timer, aborted, ender, endedBy, overstayed>>
  BY DEF SetupFails
<1>2. WakeTypeOK'
  BY <1>1 DEF WakeInv, WakeTypeOK, WakePlaces
<1>3. /\ \A v \in Wakes : v # w => wake'[v] = wake[v]
      /\ wake'[w] = "refused"
  BY <1>1 DEF WakeInv, WakeTypeOK
<1>4. Running' = Running /\ Robbed' = Robbed /\ w \notin Running
  BY <1>1 DEF Running, Robbed, WakeInv, PlacesFit
<1>5. Live' = Live
  BY <1>1, <1>3 DEF Live
<1>6. PlacesFit'
  BY <1>1, <1>3, <1>4, Typed DEF WakeInv, PlacesFit
<1>7. SUFFICES ASSUME SetupsInTime' PROVE Registered' /\ OnePlace' /\ Counts'
  BY <1>2, <1>6 DEF WakeInv
<1>8. Registered /\ OnePlace /\ Counts
  BY <1>1, <1>7 DEF SetupsInTime, WakeInv
<1>9. Registered'
  BY <1>1, <1>3, <1>4, <1>5, <1>8 DEF Registered
<1> QED BY <1>1, <1>4, <1>8, <1>9, FewerPlaces

\* Whoever registers had its agent's one place, so that its chat had no other run.
LEMMA RegistersKeepsInv ==
  ASSUME WakeInv, NEW w \in Wakes, Registers(w)
  PROVE  WakeInv'
<1>1. /\ wake[w] = "setup" /\ wake' = [wake EXCEPT ![w] = "posting"]
      /\ slot' = slot \ {w} /\ aged' = aged \ {w}
      /\ runs' = [runs EXCEPT ![ChatOf[w]] = w]
      /\ starts' = starts \cup {w} /\ timer' = timer \cup {w}
      /\ UNCHANGED <<aborted, ender, endedBy, overstayed>>
  BY DEF Registers
<1>2. WakeTypeOK'
  BY <1>1 DEF WakeInv, WakeTypeOK, WakePlaces
<1>3. /\ \A v \in Wakes : v # w => wake'[v] = wake[v]
      /\ wake'[w] = "posting"
      /\ \A c \in Chats : runs'[c] = IF c = ChatOf[w] THEN w ELSE runs[c]
  BY <1>1, Typed DEF WakeInv, WakeTypeOK
<1>4. Robbed' = Robbed /\ Live' \subseteq Live \cup {w} /\ w \notin Running
  BY <1>1, <1>3 DEF Robbed, Live, Running, WakeInv, PlacesFit
<1>5. Running' = {v \in Running : ChatOf[v] # ChatOf[w]} \cup {w}
  BY <1>3, Typed DEF Running
<1>6. PlacesFit'
  <2>1. \A c \in Chats : runs'[c] # NoWake => ChatOf[runs'[c]] = c
    BY <1>3 DEF WakeInv, PlacesFit
  <2>2. \A v \in slot' : wake'[v] = "setup"
    BY <1>1, <1>3, Typed DEF WakeInv, PlacesFit
  <2>3. \A v \in Running' : wake'[v] \in {"posting", "fetching", "over"}
    BY <1>3, <1>4, <1>5, Typed DEF WakeInv, PlacesFit
  <2> QED BY <2>1, <2>2, <2>3 DEF PlacesFit
<1>7. SUFFICES ASSUME SetupsInTime' PROVE Registered' /\ OnePlace' /\ Counts'
  BY <1>2, <1>6 DEF WakeInv
<1>8. Registered /\ OnePlace /\ Counts
  BY <1>1, <1>7 DEF SetupsInTime, WakeInv
<1>9. w \in slot
  BY <1>1, <1>8 DEF Registered
<1>10. Running' = Running \cup {w}
  <2> SUFFICES ASSUME NEW v \in Running, ChatOf[v] = ChatOf[w] PROVE FALSE
    BY <1>5
  <2>1. AgentOf[v] = AgentOf[w]
    BY OneRunPerAgent, Typed
  <2> QED BY <1>4, <1>8, <1>9, <2>1 DEF OnePlace
<1>11. Registered'
  BY <1>1, <1>3, <1>4, <1>8, <1>10 DEF Registered
<1>12. OnePlace'
  <2>1. Running' \cup slot' = Running \cup slot
    BY <1>1, <1>9, <1>10
  <2> QED BY <1>8, <2>1 DEF OnePlace
<1>13. Cardinality(Running') + Cardinality(slot') <= RunCap
  <2>1. Cardinality(Running) + Cardinality(slot) <= RunCap
    BY <1>8 DEF Counts
  <2> QED BY <1>1, <1>9, <1>10, <2>1, Typed, MovesUp, WakesAssumption
<1>14. Cardinality(starts') + Cardinality(slot') <= HourCap
  <2>1. Cardinality(starts) + Cardinality(slot) <= HourCap
    BY <1>8 DEF Counts
  <2> QED BY <1>1, <1>9, <2>1, Typed, MovesUp, WakesAssumption
<1>15. ASSUME NEW a \in {AgentOf[v] : v \in Wakes}
       PROVE  Cardinality(OfAgent(a, starts')) + Cardinality(OfAgent(a, slot')) <= AgentHour
  <2>1. Cardinality(OfAgent(a, starts)) + Cardinality(OfAgent(a, slot)) <= AgentHour
    BY <1>8 DEF Counts
  <2>2. OfAgent(a, starts) \in SUBSET Wakes /\ OfAgent(a, slot) \in SUBSET Wakes
    BY Typed DEF OfAgent
  <2>3. CASE a # AgentOf[w]
    <3>1. OfAgent(a, starts') = OfAgent(a, starts) /\ OfAgent(a, slot') = OfAgent(a, slot)
      BY <1>1, <2>3 DEF OfAgent
    <3> QED BY <2>1, <3>1
  <2>4. CASE a = AgentOf[w]
    <3>1. /\ OfAgent(a, starts') = OfAgent(a, starts) \cup {w}
          /\ OfAgent(a, slot') = OfAgent(a, slot) \ {w} /\ w \in OfAgent(a, slot)
      BY <1>1, <1>9, <2>4 DEF OfAgent
    <3> QED BY <2>1, <2>2, <3>1, MovesUp, WakesAssumption
  <2> QED BY <2>3, <2>4
<1>16. /\ \A a : OfAgent(a, starts)' = OfAgent(a, starts')
       /\ \A a : OfAgent(a, slot)' = OfAgent(a, slot')
  BY DEF OfAgent
<1>17. Counts'
  BY <1>13, <1>14, <1>15, <1>16 DEF Counts
<1> QED BY <1>11, <1>12, <1>17

\* A run is taken off the registry: by its own wake's end, which is over by then or
\* was told to stop, or by another's, which robs it.
LEMMA FinishKeepsInv ==
  ASSUME WakeInv, NEW w \in Wakes, FinishRun(w),
         UNCHANGED <<slot, aged, starts, aborted, overstayed>>,
         \/ /\ wake[w] \in {"posting", "fetching"} /\ wake' = [wake EXCEPT ![w] = "over"]
            /\ ender' = ender
         \/ /\ wake' = wake
            /\ ender[w] = "answered" /\ ender' = [ender EXCEPT ![w] = "done"]
  PROVE  WakeInv'
<1>1. PICK ended \in Wakes \cup {NoWake} : ended = runs[ChatOf[w]]
  BY Typed DEF WakeInv, WakeTypeOK
<1>2. /\ runs' = [runs EXCEPT ![ChatOf[w]] = NoWake]
      /\ timer' = timer \ {ended}
      /\ endedBy' = IF ended = NoWake THEN endedBy ELSE [endedBy EXCEPT ![ended] = w]
  BY <1>1 DEF FinishRun
<1>3. WakeTypeOK'
  BY <1>2, Typed DEF WakeInv, WakeTypeOK, WakePlaces
<1>4. Running' = Running \ {ended}
  <2>1. \A c \in Chats : runs'[c] = IF c = ChatOf[w] THEN NoWake ELSE runs[c]
    BY <1>2, Typed DEF WakeInv, WakeTypeOK
  <2>2. \A v \in Running : ChatOf[v] = ChatOf[w] <=> v = ended
    <3>1. ended \in Wakes => ChatOf[ended] = ChatOf[w]
      BY <1>1, Typed DEF WakeInv, PlacesFit
    <3> QED BY <1>1, <3>1 DEF Running
  <2> QED BY <1>1, <2>1, <2>2, Typed DEF Running
<1>5. /\ \A v \in Wakes : v # w => wake'[v] = wake[v]
      /\ \A v \in Wakes : wake'[v] = "setup" => wake[v] = "setup"
      /\ \A v \in Wakes : wake[v] \in {"posting", "fetching", "over"}
                            => wake'[v] \in {"posting", "fetching", "over"}
      /\ \A v \in Wakes : wake[v] = "setup" => wake'[v] = "setup"
  BY DEF WakeInv, WakeTypeOK
<1>6. PlacesFit'
  <2>1. \A c \in Chats : runs'[c] # NoWake => ChatOf[runs'[c]] = c
    BY <1>2 DEF WakeInv, WakeTypeOK, PlacesFit
  <2> QED BY <1>4, <1>5, <2>1, Typed DEF WakeInv, PlacesFit
<1>7. SUFFICES ASSUME SetupsInTime' PROVE Registered' /\ OnePlace' /\ Counts'
  BY <1>3, <1>6 DEF WakeInv
<1>8. Registered /\ OnePlace /\ Counts
  BY <1>7 DEF SetupsInTime, WakeInv
<1>9. Live' \subseteq timer' \cup Robbed'
  <2> SUFFICES ASSUME NEW v \in Live' PROVE v \in timer' \cup Robbed'
    OBVIOUS
  <2>1. v \in Live
    BY <1>5 DEF Live, WakeInv, WakeTypeOK
  <2>2. v \in timer \cup Robbed
    BY <1>8, <2>1 DEF Registered
  <2>3. CASE v # ended
    <3>1. endedBy'[v] = endedBy[v]
      BY <1>1, <1>2, <2>1, <2>3 DEF WakeInv, WakeTypeOK, Live
    <3> QED BY <1>2, <2>1, <2>2, <2>3, <3>1 DEF Robbed
  <2>4. CASE v = ended
    <3>1. v # w
      BY <1>8, <2>1 DEF Live, Registered, WakeInv, WakeTypeOK
    <3>2. endedBy'[v] = w
      BY <1>2, <2>1, <2>4, Typed DEF WakeInv, WakeTypeOK, Live
    <3> QED BY <2>1, <3>1, <3>2, Typed DEF Robbed, Live
  <2> QED BY <2>3, <2>4
<1>10. Registered'
  <2>1. \A v \in Wakes : ender'[v] # "none" => ender[v] # "none"
    BY DEF WakeInv, WakeTypeOK
  <2> QED BY <1>2, <1>4, <1>5, <1>8, <1>9, <2>1 DEF Registered
<1> QED BY <1>4, <1>8, <1>10, FewerPlaces

\* The abort of a chat's run: it does not go on, and off goes its run or its timer.
LEMMA AbortsKeepsInv ==
  ASSUME WakeInv, NEW chat \in Chats, NEW reason \in {"stopped", "timed_out"},
         NEW on \in SUBSET timer, Aborts(chat, reason, on),
         UNCHANGED <<slot, aged, starts, overstayed>>,
         ender' \in [Wakes -> {"none", "interrupting", "answered", "done"}],
         SetupsInTime => /\ timer \ on \subseteq {runs[chat]}
                         /\ \A v \in Wakes : ender'[v] # "none" =>
                              ender[v] # "none" \/ v = runs[chat]
  PROVE  WakeInv'
<1>1. PICK w \in Wakes \cup {NoWake} : w = runs[chat]
  BY DEF WakeInv, WakeTypeOK
<1>2. w # NoWake => w \in Wakes /\ w \in Running /\ ChatOf[w] = chat
  BY <1>1, Typed DEF WakeInv, PlacesFit
<1>3. /\ aborted' \in [Wakes -> {"no", "stopped", "timed_out"}]
      /\ \A v \in Wakes : v # w => aborted'[v] = aborted[v]
      /\ w # NoWake => aborted'[w] # "no"
      /\ \A v \in Wakes : aborted[v] # "no" => aborted'[v] # "no"
  <2>1. aborted' = IF w # NoWake /\ aborted[w] = "no" THEN [aborted EXCEPT ![w] = reason]
                   ELSE aborted
    BY <1>1 DEF Aborts
  <2> QED BY <1>2, <2>1, Typed DEF WakeInv, WakeTypeOK
<1>4. \/ UNCHANGED <<wake, runs, endedBy>> /\ timer' = on
      \/ /\ w # NoWake /\ wake[w] = "fetching" /\ wake' = [wake EXCEPT ![w] = "over"]
         /\ runs' = [runs EXCEPT ![chat] = NoWake] /\ timer' = on \ {w}
         /\ endedBy' = [endedBy EXCEPT ![w] = w]
  BY <1>1 DEF Aborts
<1>5. WakeTypeOK'
  BY <1>2, <1>3, <1>4 DEF WakeInv, WakeTypeOK, WakePlaces
<1>6. Running' = Running \/ (Running' = Running \ {w} /\ timer' = on \ {w})
  <2>1. CASE UNCHANGED runs
    BY <2>1 DEF Running
  <2>2. CASE w # NoWake /\ runs' = [runs EXCEPT ![chat] = NoWake] /\ timer' = on \ {w}
    <3>1. \A c \in Chats : runs'[c] = IF c = chat THEN NoWake ELSE runs[c]
      BY <2>2 DEF WakeInv, WakeTypeOK
    <3>2. \A v \in Running : ChatOf[v] = chat <=> v = w
      BY <1>1, <1>2, <2>2 DEF Running
    <3> QED BY <2>2, <3>1, <3>2, Typed DEF Running
  <2> QED BY <1>4, <2>1, <2>2
<1>7. /\ \A v \in Wakes : wake[v] \in {"posting", "fetching", "over"}
                            => wake'[v] \in {"posting", "fetching", "over"}
      /\ \A v \in Wakes : wake[v] = "setup" <=> wake'[v] = "setup"
      /\ \A v \in Wakes : v # w => wake'[v] = wake[v] /\ endedBy'[v] = endedBy[v]
  BY <1>4 DEF WakeInv, WakeTypeOK
<1>8. PlacesFit'
  <2>1. \A c \in Chats : runs'[c] # NoWake => ChatOf[runs'[c]] = c
    BY <1>4 DEF WakeInv, WakeTypeOK, PlacesFit
  <2> QED BY <1>6, <1>7, <2>1, Typed DEF WakeInv, PlacesFit
<1>9. SUFFICES ASSUME SetupsInTime' PROVE Registered' /\ OnePlace' /\ Counts'
  BY <1>5, <1>8 DEF WakeInv
<1>10. SetupsInTime /\ Registered /\ OnePlace /\ Counts
  BY <1>9 DEF SetupsInTime, WakeInv
<1>11. Live' \subseteq timer' \cup Robbed'
  <2> SUFFICES ASSUME NEW v \in Live' PROVE v \in timer' \cup Robbed'
    OBVIOUS
  <2>1. v \in Wakes /\ v # w
    BY <1>3, Typed DEF Live
  <2>2. v \in Live
    BY <1>3, <1>7, <2>1 DEF Live
  <2>3. v \in timer \cup Robbed
    BY <1>10, <2>2 DEF Registered
  <2>4. v \in timer => v \in timer'
    BY <1>1, <1>4, <1>10, <2>1
  <2> QED BY <1>7, <2>1, <2>3, <2>4 DEF Robbed
<1>12. Registered'
  <2>1. \A v \in Wakes : ender'[v] # "none" => aborted'[v] # "no"
    BY <1>1, <1>2, <1>3, <1>10, Typed DEF Registered
  <2>2. timer' \subseteq Running'
    BY <1>4, <1>6, <1>10 DEF Registered
  <2> QED BY <1>7, <1>10, <1>11, <2>1, <2>2 DEF Registered
<1>13. Running' \subseteq Running
  BY <1>6
<1> QED BY <1>10, <1>12, <1>13, FewerPlaces

LEMMA PostsKeepsInv ==
  ASSUME WakeInv, NEW w \in Wakes, Posts(w)
  PROVE  WakeInv'
<1>1. CASE wake' = [wake EXCEPT ![w] = "over"] /\ FinishRun(w)
  <2>1. wake[w] = "posting" /\ UNCHANGED <<slot, aged, starts, aborted, ender, overstayed>>
    BY DEF Posts
  <2> QED BY <1>1, <2>1, FinishKeepsInv
<1>2. CASE UNCHANGED <<runs, timer, endedBy>>
  <2>1. /\ wake[w] = "posting" /\ UNCHANGED <<slot, aged, starts, aborted, ender, overstayed>>
        /\ \E place \in {"fetching", "over"} : wake' = [wake EXCEPT ![w] = place]
    BY DEF Posts
  <2>2. WakeTypeOK'
    BY <1>2, <2>1 DEF WakeInv, WakeTypeOK, WakePlaces
  <2>3. /\ \A v \in Wakes : v # w => wake'[v] = wake[v]
        /\ wake'[w] \in {"fetching", "over"}
    BY <2>1 DEF WakeInv, WakeTypeOK
  <2>4. Running' = Running /\ Robbed' = Robbed /\ Live' \subseteq Live
    BY <1>2, <2>1, <2>3 DEF Running, Robbed, Live
  <2>5. PlacesFit'
    BY <1>2, <2>1, <2>3, <2>4, Typed DEF WakeInv, PlacesFit
  <2>6. ASSUME SetupsInTime PROVE Registered' /\ OnePlace' /\ Counts'
    <3>1. Registered /\ OnePlace /\ Counts
      BY <2>6 DEF WakeInv
    <3>2. Registered'
      BY <1>2, <2>1, <2>3, <2>4, <3>1 DEF Registered
    <3> QED BY <2>1, <2>4, <3>1, <3>2, FewerPlaces
  <2> QED BY <2>1, <2>2, <2>5, <2>6 DEF WakeInv, SetupsInTime
<1> QED BY <1>1, <1>2 DEF Posts

LEMMA TimerKeepsInv ==
  ASSUME WakeInv, NEW w \in Wakes, TimerFires(w) \/ Interrupts(w) \/ TimeoutFinishes(w)
  PROVE  WakeInv'
<1>1. ChatOf[w] \in Chats
  BY Typed
<1>2. CASE TimerFires(w)
  <2>1. /\ w \in timer /\ Aborts(ChatOf[w], "timed_out", timer \ {w})
        /\ ender' = IF runs[ChatOf[w]] = NoWake THEN ender
                    ELSE [ender EXCEPT ![w] = "interrupting"]
        /\ UNCHANGED <<slot, aged, starts, overstayed>>
    BY <1>2 DEF TimerFires
  <2>2. ender' \in [Wakes -> {"none", "interrupting", "answered", "done"}]
        /\ \A v \in Wakes : ender'[v] # "none" => ender[v] # "none" \/ v = w
    BY <2>1 DEF WakeInv, WakeTypeOK
  <2>3. SetupsInTime => runs[ChatOf[w]] = w
    BY <2>1 DEF WakeInv, Registered, Running
  <2>4. /\ timer \ {w} \in SUBSET timer /\ timer \ (timer \ {w}) \subseteq {w}
        /\ "timed_out" \in {"stopped", "timed_out"}
    OBVIOUS
  <2> QED BY <1>1, <2>1, <2>2, <2>3, <2>4, AbortsKeepsInv
<1>3. CASE Interrupts(w)
  <2>1. /\ ender[w] = "interrupting" /\ ender' = [ender EXCEPT ![w] = "answered"]
        /\ Aborts(ChatOf[w], "stopped", timer)
        /\ UNCHANGED <<slot, aged, starts, overstayed>>
    BY <1>3 DEF Interrupts
  <2>2. ender' \in [Wakes -> {"none", "interrupting", "answered", "done"}]
        /\ \A v \in Wakes : ender'[v] # "none" => ender[v] # "none"
    BY <2>1 DEF WakeInv, WakeTypeOK
  <2>3. timer \in SUBSET timer /\ timer \ timer = {} /\ "stopped" \in {"stopped", "timed_out"}
    OBVIOUS
  <2> QED BY <1>1, <2>1, <2>2, <2>3, AbortsKeepsInv
<1>4. CASE TimeoutFinishes(w)
  BY <1>4, FinishKeepsInv DEF TimeoutFinishes
<1> QED BY <1>2, <1>3, <1>4

LEMMA StopsKeepsInv ==
  ASSUME WakeInv, NEW chat \in Chats, StopsWake(chat)
  PROVE  WakeInv'
<1>1. Aborts(chat, "stopped", timer) /\ UNCHANGED <<slot, aged, starts, ender, overstayed>>
  BY DEF StopsWake
<1>2. ender' \in [Wakes -> {"none", "interrupting", "answered", "done"}]
  BY <1>1 DEF WakeInv, WakeTypeOK
<1>3. timer \in SUBSET timer /\ timer \ timer = {} /\ "stopped" \in {"stopped", "timed_out"}
  OBVIOUS
<1> QED BY <1>1, <1>2, <1>3, AbortsKeepsInv

LEMMA TimePassesKeepsInv ==
  ASSUME WakeInv, WakeTimePasses
  PROVE  WakeInv'
<1>1. /\ aged' \subseteq slot /\ starts' \subseteq starts
      /\ UNCHANGED <<wake, slot, runs, timer, aborted, ender, endedBy, overstayed>>
  BY DEF WakeTimePasses, WakeInv, WakeTypeOK
<1>2. WakeTypeOK'
  BY <1>1 DEF WakeInv, WakeTypeOK
<1>3. Running' = Running /\ Robbed' = Robbed /\ Live' = Live
  BY <1>1 DEF Running, Robbed, Live
<1>4. PlacesFit' /\ (Registered => Registered')
  BY <1>1, <1>3 DEF WakeInv, PlacesFit, Registered
<1>5. OnePlace /\ Counts => OnePlace' /\ Counts'
  BY <1>1, <1>3, FewerPlaces
<1> QED BY <1>1, <1>2, <1>4, <1>5 DEF WakeInv, SetupsInTime

LEMMA WakeInvNext ==
  ASSUME WakeInv, [WakeNext]_wakeVars
  PROVE  WakeInv'
<1>1. CASE UNCHANGED wakeVars
  <2>1. UNCHANGED <<wake, slot, aged, runs, starts, timer, aborted, ender, endedBy, overstayed>>
    BY <1>1 DEF wakeVars
  <2>2. Running' = Running /\ Robbed' = Robbed /\ Live' = Live
    BY <2>1 DEF Running, Robbed, Live
  <2>3. WakeTypeOK' /\ PlacesFit' /\ (Registered => Registered')
    BY <2>1, <2>2 DEF WakeInv, WakeTypeOK, PlacesFit, Registered
  <2>4. OnePlace /\ Counts => OnePlace' /\ Counts'
    BY <2>1, <2>2, FewerPlaces
  <2> QED BY <2>1, <2>3, <2>4 DEF WakeInv, SetupsInTime
<1>2. ASSUME NEW w \in Wakes, Reserves(w) \/ WakeGoesOn(w) \/ TurnAnswers(w)
      PROVE  WakeInv'
  <2>1. CASE TurnAnswers(w)
    BY <2>1, FinishKeepsInv DEF TurnAnswers
  <2>2. CASE WakeGoesOn(w)
    BY <2>2, SetupFailsKeepsInv, RegistersKeepsInv, PostsKeepsInv, TimerKeepsInv DEF WakeGoesOn
  <2> QED BY <1>2, <2>1, <2>2, ReservesKeepsInv
<1>3. CASE \E chat \in Chats : StopsWake(chat)
  BY <1>3, StopsKeepsInv
<1>4. CASE WakeTimePasses
  BY <1>4, TimePassesKeepsInv
<1> QED BY <1>1, <1>2, <1>3, <1>4 DEF WakeNext

\* The invariant holds in every state that the wakes can reach.
THEOREM WakesInvariant == WakeSpec => []WakeInv
<1>1. WakeInit => WakeInv
  BY WakeInvInit
<1>2. WakeInv /\ [WakeNext]_wakeVars => WakeInv'
  BY WakeInvNext
<1> QED BY <1>1, <1>2, PTL DEF WakeSpec

\* A woken turn that goes on has its time limit, whoever else wakes, ends, is stopped
\* or runs out of time.
THEOREM WokenTurnsAreTimed == WakeSpec => []TimeLimitStays
<1>1. WakeInv => TimeLimitStays
  BY DEF WakeInv, Registered, TimeLimitStays
<1> QED BY <1>1, WakesInvariant, PTL

\* The woken turns that go on, and an hour's starts, are within the caps.
THEOREM WakesAreCapped == WakeSpec => []CapsHold
<1>1. WakeInv => CapsHold
  <2> SUFFICES ASSUME WakeInv, SetupsInTime
               PROVE  /\ Cardinality(Live \ Robbed) <= RunCap /\ Cardinality(starts) <= HourCap
                      /\ \A a \in {AgentOf[w] : w \in Wakes} :
                           /\ Cardinality(OfAgent(a, Live \ Robbed)) <= AgentCap
                           /\ Cardinality(OfAgent(a, starts)) <= AgentHour
    BY DEF CapsHold
  <2>1. Live \ Robbed \subseteq Running
    BY DEF WakeInv, Registered
  <2>2. /\ Cardinality(slot) \in Nat /\ Cardinality(Running) \in Nat /\ Cardinality(starts) \in Nat
        /\ Cardinality(Live \ Robbed) \in Nat
        /\ Cardinality(Live \ Robbed) <= Cardinality(Running)
    BY <2>1, Typed, WakesAreFinite
  <2>3. Cardinality(Live \ Robbed) <= RunCap /\ Cardinality(starts) <= HourCap
    BY <2>2, WakesAssumption DEF WakeInv, Counts
  <2>4. ASSUME NEW a \in {AgentOf[w] : w \in Wakes}
        PROVE  /\ Cardinality(OfAgent(a, Live \ Robbed)) <= AgentCap
               /\ Cardinality(OfAgent(a, starts)) <= AgentHour
    <3>1. \A w, v \in OfAgent(a, Live \ Robbed) : w = v
      BY <2>1 DEF OfAgent, WakeInv, OnePlace
    <3>2. Cardinality(OfAgent(a, Live \ Robbed)) <= 1
      <4>1. CASE OfAgent(a, Live \ Robbed) = {}
        BY <4>1, FS_EmptySet
      <4>2. CASE \E w : w \in OfAgent(a, Live \ Robbed)
        <5>1. PICK w : OfAgent(a, Live \ Robbed) = {w}
          BY <3>1, <4>2
        <5>2. Cardinality({w}) = 1
          BY FS_Singleton
        <5> QED BY <5>1, <5>2
      <4> QED BY <4>1, <4>2
    <3>3. /\ Cardinality(OfAgent(a, starts)) \in Nat /\ Cardinality(OfAgent(a, slot)) \in Nat
      <4>1. OfAgent(a, starts) \in SUBSET Wakes /\ OfAgent(a, slot) \in SUBSET Wakes
        BY Typed DEF OfAgent
      <4> QED BY <4>1, WakesAreFinite
    <3>4. Cardinality(OfAgent(a, starts)) + Cardinality(OfAgent(a, slot)) <= AgentHour
      BY DEF WakeInv, Counts
    <3>5. Cardinality(OfAgent(a, starts)) <= AgentHour
      BY <3>3, <3>4, WakesAssumption
    <3> QED BY <3>2, <3>5, OneRunPerAgent
  <2> QED BY <2>3, <2>4
<1> QED BY <1>1, WakesInvariant, PTL

-----------------------------------------------------------------------------
(* The schedules.                                                           *)

Places == {"idle", "walking", "working", "collapsing", "delivering", "recording", "recorded",
           "stopping"}
StoredRecords == [there : BOOLEAN, enabled : BOOLEAN, period : Nat \ {0}, next : Nat]
FieldWrites == [field : {"there", "enabled"}, value : BOOLEAN]
                 \cup [field : {"period"}, value : Nat \ {0}]
                 \cup [field : {"next"}, value : Nat]
MaybeTime == Nat \cup {None}

\* The shapes of what the store, the writers and the sweep hold.
Shapes ==
  /\ clock \in 0 .. MaxTime /\ edits \in 0 .. MaxEdits
  /\ record \in [Schedules -> StoredRecords]
  /\ cache \in [at : MaybeTime, earliest : MaybeTime] /\ (cache # NoCache => cache.at \in Nat)
  /\ job \in [Writers -> [of : Schedules \cup {None}, todo : Seq(FieldWrites)]]
  /\ \A a \in Writers : job[a].of = None => job[a].todo = <<>>
  /\ sweep \in [ place : Places, now : Nat, todo : SUBSET Schedules, due : SUBSET Dues,
                 earliest : MaybeTime, stale : BOOLEAN, one : Dues \cup {None} ]
  /\ unheard \subseteq Schedules /\ leftOn \subseteq Schedules
  /\ fired \subseteq Schedules \X Nat

\* The ticker writes for the slot it has in hand, and only then; a sweep's time has come.
TickerInStep ==
  /\ sweep.now <= clock
  /\ job["ticker"] # NoJob <=> sweep.place \in {"collapsing", "recording", "stopping"}
  /\ sweep.one # None <=> sweep.place \in {"delivering", "recording", "recorded"}
  /\ sweep.place = "recording" => job["ticker"].of = sweep.one.of
  /\ \A i \in DOMAIN job["ticker"].todo :
       LET write == job["ticker"].todo[i]
       IN  /\ write.field = "next" \/ (write.field = "enabled" /\ write.value = FALSE)
           /\ write.field = "next" => write.value > sweep.now
           /\ sweep.place = "recording" => write.field = "next"
           /\ sweep.place = "stopping" => write.field = "enabled"
  /\ sweep.one # None => sweep.one.next <= sweep.now

\* A request's next run lies ahead.
UserInStep ==
  \A i \in DOMAIN job["user"].todo :
    LET write == job["user"].todo[i]
    IN  write.field = "next" => write.value > clock

\* What anybody reads, writes or has fired was created once, and keeps a next run.
Created ==
  \A s \in Schedules :
    \/ record[s].there \/ (\E a \in Writers : job[a].of = s)
    \/ (\E d \in sweep.due : d.of = s) \/ (sweep.one # None /\ sweep.one.of = s)
    \/ (\E n \in Nat : <<s, n>> \in fired)
    => record[s].next # 0

On(s) == record[s].there /\ record[s].enabled

\* What a walk has passed over counts in what it would publish, and what is published
\* is trusted only for those it counted.
CacheCounts ==
  /\ CacheSkips => \A s \in Schedules \ unheard : On(s) =>
       cache.earliest # None /\ cache.earliest <= record[s].next
  /\ sweep.place = "walking" => ~CacheSkips
  /\ sweep.place = "walking" /\ ~sweep.stale => \A s \in Schedules \ unheard : On(s) =>
       s \in sweep.todo \/ (sweep.earliest # None /\ sweep.earliest <= record[s].next)

\* Each schedule is due once in a sweep, with a slot that has come and was not fired.
DueOnce ==
  /\ \A d \in sweep.due :
       /\ d.next <= sweep.now /\ d.of \notin sweep.todo
       /\ \A e \in sweep.due : e.of = d.of => e = d
       /\ d.of \notin leftOn => <<d.of, d.next>> \notin fired
  /\ sweep.place = "idle" => sweep.due = {}
  /\ \A f \in fired : f[2] <= clock /\ (sweep.place # "idle" => f[2] <= sweep.now)

\* Who stands between a fired slot of s and its next turn: the ticker, which has yet to
\* write the next run or to turn s off.
InHand(s) ==
  \/ sweep.place = "delivering" /\ sweep.one.of = s
  \/ sweep.place = "recording" /\ sweep.one.of = s
       /\ (s \in BadZone \/ job["ticker"].todo # <<>>)
  \/ sweep.place = "recorded" /\ sweep.one.of = s /\ s \in BadZone
  \/ sweep.place = "stopping" /\ job["ticker"].of = s /\ job["ticker"].todo # <<>>
       /\ s \in BadZone

FiredIsPast ==
  \A s \in Schedules \ leftOn : \A n \in Nat : <<s, n>> \in fired =>
    \/ record[s].next > n
    \/ InHand(s)
    \/ s \in BadZone /\ ~record[s].enabled

ScheduleInv ==
  Shapes /\ TickerInStep /\ UserInStep /\ Created /\ CacheCounts /\ DueOnce /\ FiredIsPast

-----------------------------------------------------------------------------
(* Facts about the data.                                                    *)

LEMMA Constants ==
  /\ BadZone \subseteq Schedules /\ Periods \subseteq Nat \ {0} /\ Writers = {"user", "ticker"}
  /\ LateGrace \in Nat /\ CacheBound \in Nat /\ MaxTime \in Nat /\ MaxEdits \in Nat
  /\ None \notin Nat /\ None \notin Schedules /\ None \notin Dues
BY SchedulesAssumption DEF Writers

\* The next run lies past the time it is computed from.
LEMMA NextRunIsAhead ==
  ASSUME NEW period \in Nat \ {0}, NEW anchor \in Nat, NEW from \in Nat, anchor <= from
  PROVE  NextRun(period, from, anchor) \in Nat /\ NextRun(period, from, anchor) > from
<1> DEFINE q == (from - anchor) \div period
<1>1. q \in Int /\ from - anchor < (q + 1) * period
  OBVIOUS
<1>2. NextRun(period, from, anchor) = anchor + (q + 1) * period
  BY DEF NextRun
<1>3. (q + 1) * period \in Int
  BY <1>1
<1> QED BY <1>1, <1>2, <1>3

\* A write of one field leaves the others.
LEMMA FieldWritten ==
  ASSUME NEW r \in StoredRecords, NEW w \in FieldWrites
  PROVE  LET r2 == [r EXCEPT ![w.field] = w.value]
         IN  /\ r2 \in StoredRecords
             /\ r2.there = (IF w.field = "there" THEN w.value ELSE r.there)
             /\ r2.enabled = (IF w.field = "enabled" THEN w.value ELSE r.enabled)
             /\ r2.next = (IF w.field = "next" THEN w.value ELSE r.next)
<1> DEFINE r2 == [r EXCEPT ![w.field] = w.value]
<1>1. CASE w.field = "there"
  BY <1>1 DEF StoredRecords, FieldWrites
<1>2. CASE w.field = "enabled"
  BY <1>2 DEF StoredRecords, FieldWrites
<1>3. CASE w.field = "period"
  BY <1>3 DEF StoredRecords, FieldWrites
<1>4. CASE w.field = "next"
  BY <1>4 DEF StoredRecords, FieldWrites
<1> QED BY <1>1, <1>2, <1>3, <1>4 DEF FieldWrites

\* The head of what is still to be written, and the rest.
LEMMA HeadAndRest ==
  ASSUME NEW q \in Seq(FieldWrites), q # <<>>
  PROVE  /\ 1 \in DOMAIN q /\ Head(q) = q[1] /\ q[1] \in FieldWrites
         /\ Tail(q) \in Seq(FieldWrites)
         /\ \A i \in DOMAIN Tail(q) : i + 1 \in DOMAIN q /\ Tail(q)[i] = q[i + 1]
<1>1. Len(q) \in Nat \ {0} /\ DOMAIN q = 1 .. Len(q)
  BY EmptySeq, LenProperties
<1>2. Head(q) = q[1]
  BY HeadTailProperties
<1>3. Tail(q) \in Seq(FieldWrites) /\ Len(Tail(q)) = Len(q) - 1
       /\ \A i \in 1 .. Len(Tail(q)) : Tail(q)[i] = q[i + 1]
  BY HeadTailProperties
<1>4. DOMAIN Tail(q) = 1 .. Len(Tail(q))
  BY <1>3, LenProperties
<1> QED BY <1>1, <1>2, <1>3, <1>4, ElementOfSeq

\* The writes of an edit: the cadence, perhaps the next run, and "enabled" last.
LEMMA OrderedWrites ==
  ASSUME NEW period \in Nat \ {0}, NEW enabled \in BOOLEAN, NEW n \in Nat,
         NEW next, next = <<>> \/ next = <<[field |-> "next", value |-> n]>>
  PROVE  /\ Ordered(period, enabled, next) \in Seq(FieldWrites)
         /\ \A i \in DOMAIN Ordered(period, enabled, next) :
              Ordered(period, enabled, next)[i].field = "next" =>
                Ordered(period, enabled, next)[i].value = n
<1> DEFINE p == [field |-> "period", value |-> period]
           e == [field |-> "enabled", value |-> enabled]
           x == [field |-> "next", value |-> n]
           all == Ordered(period, enabled, next)
<1>1. p \in FieldWrites /\ e \in FieldWrites /\ x \in FieldWrites
  BY DEF FieldWrites
<1>2. next \in Seq(FieldWrites) /\ \A i \in 1 .. Len(next) : next[i].value = n
  <2>1. <<x>> \in Seq(FieldWrites) /\ Len(<<x>>) = 1 /\ <<x>>[1].value = n
    BY <1>1
  <2>2. <<>> \in Seq(FieldWrites) /\ Len(<<>>) = 0
    OBVIOUS
  <2>3. CASE next = <<>>
    BY <2>2, <2>3
  <2>4. CASE next = <<x>>
    BY <2>1, <2>4
  <2> QED BY <2>3, <2>4
<1>3. <<p>> \in Seq(FieldWrites) /\ Len(<<p>>) = 1 /\ <<p>>[1] = p
  BY <1>1
<1>4. <<e>> \in Seq(FieldWrites) /\ Len(<<e>>) = 1 /\ <<e>>[1] = e
  BY <1>1
<1>5. all = (<<p>> \o next) \o <<e>>
  BY DEF Ordered
<1>6. Len(next) \in Nat
  BY <1>2, LenProperties
<1> HIDE DEF p, e, all
<1>7. /\ <<p>> \o next \in Seq(FieldWrites) /\ Len(<<p>> \o next) = 1 + Len(next)
      /\ \A i \in 1 .. 1 + Len(next) : (<<p>> \o next)[i] = IF i <= 1 THEN p ELSE next[i - 1]
  BY <1>2, <1>3, <1>6, ConcatProperties
<1>8. /\ all \in Seq(FieldWrites) /\ Len(all) = 2 + Len(next)
      /\ \A i \in 1 .. 2 + Len(next) :
           all[i] = IF i <= 1 + Len(next) THEN (<<p>> \o next)[i] ELSE e
  BY <1>4, <1>5, <1>6, <1>7, ConcatProperties
<1>9. \A i \in DOMAIN all : all[i] = p \/ all[i] = e \/ all[i].value = n
  BY <1>2, <1>6, <1>7, <1>8, LenProperties
<1>10. p.field = "period" /\ e.field = "enabled"
  BY DEF p, e
<1> QED BY <1>8, <1>9, <1>10 DEF all

\* Switching off is one write.
LEMMA SwitchOffIsAWrite ==
  /\ SwitchOff \in Seq(FieldWrites) /\ SwitchOff # <<>>
  /\ \A i \in DOMAIN SwitchOff : SwitchOff[i].field = "enabled" /\ SwitchOff[i].value = FALSE
<1> DEFINE write == [field |-> "enabled", value |-> FALSE]
<1>1. write \in FieldWrites /\ write.field = "enabled" /\ write.value = FALSE
  BY DEF FieldWrites
<1>2. SwitchOff = <<write>>
  BY DEF SwitchOff
<1> HIDE DEF write
<1>3. /\ <<write>> \in Seq(FieldWrites) /\ DOMAIN <<write>> = {1} /\ <<write>>[1] = write
      /\ <<write>> # <<>>
  BY <1>1
<1> QED BY <1>1, <1>2, <1>3

\* What is written of a job leaves whose it is.
LEMMA TodoReplaced ==
  ASSUME NEW A, NEW B, NEW r \in [of : A, todo : B], NEW rest \in B
  PROVE  LET after == [r EXCEPT !.todo = rest]
         IN  after \in [of : A, todo : B] /\ after.of = r.of /\ after.todo = rest
OBVIOUS

LEMMA ScheduleInvInit == ScheduleInit => ScheduleInv
<1> SUFFICES ASSUME ScheduleInit PROVE ScheduleInv
  OBVIOUS
<1> USE Constants DEF ScheduleInit, NoJob, NoCache, IdleSweep
<1>1. Shapes
  <2>1. record \in [Schedules -> StoredRecords]
    BY DEF StoredRecords
  <2>2. job \in [Writers -> [of : Schedules \cup {None}, todo : Seq(FieldWrites)]]
    OBVIOUS
  <2>3. cache \in [at : MaybeTime, earliest : MaybeTime]
    BY DEF MaybeTime
  <2>4. sweep \in [ place : Places, now : Nat, todo : SUBSET Schedules, due : SUBSET Dues,
                    earliest : MaybeTime, stale : BOOLEAN, one : Dues \cup {None} ]
    BY DEF Places, MaybeTime
  <2> QED BY <2>1, <2>2, <2>3, <2>4 DEF Shapes
<1>2. TickerInStep /\ UserInStep
  BY DEF TickerInStep, UserInStep
<1>3. Created
  BY DEF Created
<1>4. CacheCounts
  BY DEF CacheCounts, CacheSkips
<1>5. DueOnce /\ FiredIsPast
  BY DEF DueOnce, FiredIsPast
<1> QED BY <1>1, <1>2, <1>3, <1>4, <1>5 DEF ScheduleInv

\* A field is written: no fired slot comes back by it, and whoever it turns on is not
\* yet trusted to be in the cache.
LEMMA WriteLandsKeeps ==
  ASSUME ScheduleInv, NEW a \in Writers, WriteLands(a)
  PROVE  ScheduleInv'
<1> DEFINE s == job[a].of
           w == Head(job[a].todo)
<1> USE Constants
<1>1. /\ s \in Schedules /\ w \in FieldWrites
      /\ 1 \in DOMAIN job[a].todo /\ w = job[a].todo[1]
      /\ Tail(job[a].todo) \in Seq(FieldWrites)
      /\ \A i \in DOMAIN Tail(job[a].todo) :
           i + 1 \in DOMAIN job[a].todo /\ Tail(job[a].todo)[i] = job[a].todo[i + 1]
  BY HeadAndRest DEF WriteLands, ScheduleInv, Shapes
<1>2. /\ record' \in [Schedules -> StoredRecords]
      /\ \A t \in Schedules : t # s => record'[t] = record[t]
      /\ record'[s].there = (IF w.field = "there" THEN w.value ELSE record[s].there)
      /\ record'[s].enabled = (IF w.field = "enabled" THEN w.value ELSE record[s].enabled)
      /\ record'[s].next = (IF w.field = "next" THEN w.value ELSE record[s].next)
  <2>1. record \in [Schedules -> StoredRecords]
    BY DEF ScheduleInv, Shapes
  <2>2. record' = [record EXCEPT ![s] = [record[s] EXCEPT ![w.field] = w.value]]
    BY DEF WriteLands
  <2> QED BY <1>1, <2>1, <2>2, FieldWritten
<1>3. /\ job' \in [Writers -> [of : Schedules \cup {None}, todo : Seq(FieldWrites)]]
      /\ job'[a].todo = Tail(job[a].todo) /\ \A b \in Writers : job'[b].of = job[b].of
      /\ \A b \in Writers : b # a => job'[b] = job[b]
  <2>1. job \in [Writers -> [of : Schedules \cup {None}, todo : Seq(FieldWrites)]]
    BY DEF ScheduleInv, Shapes
  <2>2. job' = [job EXCEPT ![a] = [job[a] EXCEPT !.todo = Tail(job[a].todo)]]
    BY DEF WriteLands
  <2>3. LET after == [job[a] EXCEPT !.todo = Tail(job[a].todo)]
        IN  /\ after \in [of : Schedules \cup {None}, todo : Seq(FieldWrites)]
            /\ after.of = job[a].of /\ after.todo = Tail(job[a].todo)
    <3>1. job[a] \in [of : Schedules \cup {None}, todo : Seq(FieldWrites)]
      BY <2>1
    <3> QED BY <1>1, <3>1, TodoReplaced
  <2> QED BY <2>1, <2>2, <2>3
<1>4. /\ unheard' = unheard \cup {s}
      /\ leftOn' = IF s \in BadZone /\ w.field = "enabled" /\ w.value /\ ~record[s].enabled
                   THEN leftOn \cup {s} ELSE leftOn
      /\ UNCHANGED <<clock, cache, edits, sweep, fired>>
      /\ job[a].todo # <<>>
  BY DEF WriteLands
<1> HIDE DEF s, w
<1>5. w.field = "next" => /\ w.value \in Nat /\ w.value > 0
                          /\ \A n \in Nat : <<s, n>> \in fired => w.value > n
  <2>1. w.field = "next" => w.value \in Nat
    BY <1>1 DEF FieldWrites
  <2>2. CASE a = "user"
    BY <1>1, <2>1, <2>2 DEF ScheduleInv, UserInStep, DueOnce, Shapes
  <2>3. CASE a = "ticker"
    <3>1. sweep.place # "idle"
      BY <1>4, <2>3 DEF ScheduleInv, TickerInStep, NoJob
    <3>2. sweep.now \in Nat
      BY DEF ScheduleInv, Shapes
    <3>3. w.field = "next" => w.value > sweep.now
      BY <1>1, <2>3 DEF ScheduleInv, TickerInStep
    <3>4. \A n \in Nat : <<s, n>> \in fired => n <= sweep.now
      BY <3>1 DEF ScheduleInv, DueOnce
    <3> QED BY <2>1, <3>2, <3>3, <3>4
  <2> QED BY <2>2, <2>3
<1>6. Shapes'
  BY <1>1, <1>2, <1>3, <1>4 DEF ScheduleInv, Shapes
<1>7. TickerInStep'
  <2>1. CASE a = "user"
    <3>1. job'["ticker"] = job["ticker"]
      BY <1>3, <2>1
    <3> QED BY <1>4, <3>1 DEF ScheduleInv, TickerInStep
  <2>2. CASE a = "ticker"
    <3>1. job'["ticker"] # NoJob /\ job["ticker"] # NoJob
      BY <1>1, <1>3, <1>4, <2>2 DEF NoJob, s
    <3>2. job'["ticker"].of = job["ticker"].of
      BY <1>3
    <3>3. \A i \in DOMAIN job'["ticker"].todo :
            i + 1 \in DOMAIN job["ticker"].todo
              /\ job'["ticker"].todo[i] = job["ticker"].todo[i + 1]
      BY <1>1, <1>3, <2>2
    <3> QED BY <1>4, <3>1, <3>2, <3>3 DEF ScheduleInv, TickerInStep
  <2> QED BY <2>1, <2>2
<1>8. UserInStep'
  <2>1. CASE a = "ticker"
    <3>1. job'["user"] = job["user"]
      BY <1>3, <2>1
    <3> QED BY <1>4, <3>1 DEF ScheduleInv, UserInStep
  <2>2. CASE a = "user"
    <3>1. \A i \in DOMAIN job'["user"].todo :
            i + 1 \in DOMAIN job["user"].todo
              /\ job'["user"].todo[i] = job["user"].todo[i + 1]
      BY <1>1, <1>3, <2>2
    <3> QED BY <1>4, <3>1 DEF ScheduleInv, UserInStep
  <2> QED BY <2>1, <2>2
<1>9. Created'
  <2> SUFFICES ASSUME NEW t \in Schedules,
                 \/ record'[t].there \/ (\E b \in Writers : job'[b].of = t)
                 \/ (\E d \in sweep.due : d.of = t) \/ (sweep.one # None /\ sweep.one.of = t)
                 \/ (\E n \in Nat : <<t, n>> \in fired)
               PROVE  record'[t].next # 0
    BY <1>4 DEF Created
  <2>1. t = s => \E b \in Writers : job[b].of = t
    BY DEF s
  <2>2. record[t].next # 0
    BY <1>2, <1>3, <2>1 DEF ScheduleInv, Created
  <2> QED BY <1>2, <1>5, <2>2
<1>10. CacheCounts'
  BY <1>1, <1>2, <1>4 DEF ScheduleInv, CacheCounts, CacheSkips, On, Shapes
<1>11. DueOnce'
  BY <1>4 DEF ScheduleInv, DueOnce
<1>12. FiredIsPast'
  <2> SUFFICES ASSUME NEW t \in Schedules \ leftOn', NEW n \in Nat, <<t, n>> \in fired
               PROVE  \/ record'[t].next > n \/ InHand(t)'
                      \/ t \in BadZone /\ ~record'[t].enabled
    BY <1>4 DEF FiredIsPast
  <2>1. t \notin leftOn
    BY <1>4
  <2>2. record[t].next > n \/ InHand(t) \/ (t \in BadZone /\ ~record[t].enabled)
    <3>1. FiredIsPast
      BY DEF ScheduleInv
    <3> QED BY <2>1, <3>1 DEF FiredIsPast
  <2>3. CASE record[t].next > n
    BY <1>2, <1>5, <2>3
  <2>4. CASE t \in BadZone /\ ~record[t].enabled
    <3>1. CASE t = s
      <4>1. w.field = "enabled" => w.value = FALSE
        BY <1>1, <1>4, <2>4, <3>1 DEF FieldWrites
      <4> QED BY <1>2, <2>4, <3>1, <4>1
    <3>2. CASE t # s
      BY <1>2, <2>4, <3>2
    <3> QED BY <3>1, <3>2
  <2>5. CASE InHand(t)
    <3>1. CASE a = "user"
      <4>1. job'["ticker"] = job["ticker"]
        BY <1>3, <3>1
      <4> QED BY <1>4, <2>5, <4>1 DEF InHand
    <3>2. CASE a = "ticker"
      <4>1. sweep.place \in {"collapsing", "recording", "stopping"}
        BY <1>4, <3>2 DEF ScheduleInv, TickerInStep, NoJob
      <4>2. CASE sweep.place = "recording"
        <5>1. t = s /\ w.field = "next"
          BY <1>1, <2>5, <3>2, <4>2 DEF ScheduleInv, TickerInStep, InHand, s
        <5> QED BY <1>2, <1>5, <5>1
      <4>3. CASE sweep.place = "stopping"
        <5>1. t = s /\ t \in BadZone
          BY <2>5, <3>2, <4>3 DEF InHand, s
        <5>2. w.field = "enabled" /\ w.value = FALSE
          BY <1>1, <3>2, <4>3 DEF ScheduleInv, TickerInStep
        <5> QED BY <1>2, <5>1, <5>2
      <4>4. CASE sweep.place = "collapsing"
        BY <2>5, <4>4 DEF InHand
      <4> QED BY <4>1, <4>2, <4>3, <4>4
    <3> QED BY <3>1, <3>2
  <2> QED BY <2>2, <2>3, <2>4, <2>5
<1> QED BY <1>6, <1>7, <1>8, <1>9, <1>10, <1>11, <1>12 DEF ScheduleInv

\* A write fails: what the ticker leaves unwritten of a fire's record, or of a stop,
\* it leaves on; a collapse goes on to a stop.
LEMMA WriteFailsKeeps ==
  ASSUME ScheduleInv, NEW a \in Writers, WriteFails(a)
  PROVE  ScheduleInv'
<1> DEFINE collapse == a = "ticker" /\ sweep.place = "collapsing"
<1> USE Constants DEF ScheduleInv
<1>1. sweep \in [ place : Places, now : Nat, todo : SUBSET Schedules, due : SUBSET Dues,
                 earliest : MaybeTime, stale : BOOLEAN, one : Dues \cup {None} ]
  BY DEF Shapes
<1>0. /\ job[a] # NoJob /\ job[a].of \in Schedules
      /\ a = "ticker" => sweep.place \in {"collapsing", "recording", "stopping"}
  <2>1. job[a] # NoJob
    BY DEF WriteFails, TickerInStep, NoJob
  <2>2. job[a].of # None
    <3>1. job[a] \in [of : Schedules \cup {None}, todo : Seq(FieldWrites)]
      BY DEF Shapes
    <3> QED BY <2>1, <3>1 DEF Shapes, NoJob
  <2> QED BY <2>1, <2>2 DEF Shapes, TickerInStep
<1>2. /\ sweep' \in [ place : Places, now : Nat, todo : SUBSET Schedules, due : SUBSET Dues,
                  earliest : MaybeTime, stale : BOOLEAN, one : Dues \cup {None} ]
      /\ sweep'.now = sweep.now /\ sweep'.todo = sweep.todo /\ sweep'.due = sweep.due
      /\ sweep'.earliest = sweep.earliest /\ sweep'.stale = sweep.stale
      /\ sweep'.one = sweep.one
      /\ a = "user" => sweep' = sweep
      /\ a = "ticker" => sweep'.place = IF sweep.place = "recording" THEN "recorded"
                                       ELSE IF collapse THEN "stopping" ELSE "working"
  BY <1>1 DEF WriteFails, AfterJob, Places
<1>3. /\ job' \in [Writers -> [of : Schedules \cup {None}, todo : Seq(FieldWrites)]]
      /\ \A b \in Writers : b # a => job'[b] = job[b]
      /\ ~collapse => job'[a] = NoJob
      /\ collapse => job'[a] = [of |-> job[a].of, todo |-> SwitchOff]
  <2>1. SwitchOff \in Seq(FieldWrites)
    BY SwitchOffIsAWrite
  <2>2. job \in [Writers -> [of : Schedules \cup {None}, todo : Seq(FieldWrites)]]
    BY DEF Shapes
  <2>3. job' = [job EXCEPT ![a] = IF collapse THEN [of |-> job[a].of, todo |-> SwitchOff]
                                  ELSE NoJob]
    BY DEF WriteFails
  <2> QED BY <1>0, <2>1, <2>2, <2>3 DEF NoJob
<1>4. /\ UNCHANGED <<clock, record, cache, edits, fired, unheard>>
      /\ leftOn' = IF a = "ticker" /\ ~collapse /\ job[a].todo # <<>>
                   THEN leftOn \cup {job[a].of} ELSE leftOn
      /\ a = "user" => leftOn' = leftOn /\ job'["ticker"] = job["ticker"]
  BY <1>3 DEF WriteFails
<1>5. sweep'.place = "walking" <=> sweep.place = "walking"
  BY <1>0, <1>2
<1>6. sweep'.place = "idle" <=> sweep.place = "idle"
  BY <1>0, <1>2
<1>7. job'["user"].todo = job["user"].todo \/ job'["user"].todo = <<>>
  BY <1>3 DEF NoJob, Writers
<1>8. \A b \in Writers : /\ job'[b].of = job[b].of \/ job'[b].of = None
                         /\ job'[b].of = None => job'[b].todo = <<>>
  BY <1>0, <1>3 DEF Shapes, NoJob
<1>9. Shapes'
  BY <1>0, <1>1, <1>2, <1>3, <1>4, <1>8 DEF Shapes
<1>10. TickerInStep'
  <2>1. CASE a = "user"
    BY <1>2, <1>3, <1>4, <2>1 DEF TickerInStep
  <2>2. CASE a = "ticker" /\ ~collapse
    <3>1. job'["ticker"] = NoJob /\ DOMAIN job'["ticker"].todo = {}
      BY <1>3, <2>2 DEF NoJob
    <3>2. sweep.place \in {"recording", "stopping"}
      BY <1>0, <2>2
    <3>3. sweep.one # None <=> sweep.place = "recording"
      BY <3>2 DEF TickerInStep
    <3> QED BY <1>2, <1>4, <2>2, <3>1, <3>2, <3>3 DEF TickerInStep
  <2>3. CASE a = "ticker" /\ collapse
    <3>1. job'["ticker"] # NoJob /\ job'["ticker"].todo = SwitchOff
      BY <1>0, <1>3, <2>3 DEF NoJob
    <3>2. \A i \in DOMAIN SwitchOff : SwitchOff[i].field = "enabled" /\ SwitchOff[i].value = FALSE
      BY SwitchOffIsAWrite
    <3>3. sweep.one = None /\ sweep'.place = "stopping"
      BY <1>2, <2>3 DEF TickerInStep
    <3> QED BY <1>2, <1>4, <3>1, <3>2, <3>3 DEF TickerInStep
  <2> QED BY <2>1, <2>2, <2>3
<1>11. UserInStep'
  BY <1>4, <1>7 DEF UserInStep
<1>12. Created'
  BY <1>2, <1>4, <1>8 DEF Created
<1>13. CacheCounts'
  BY <1>1, <1>2, <1>3, <1>4, <1>5, <1>6, <1>7, <1>8 DEF CacheCounts, CacheSkips, On, Shapes
<1>14. DueOnce'
  BY <1>1, <1>2, <1>3, <1>4, <1>5, <1>6, <1>7, <1>8 DEF DueOnce, Shapes
<1>15. FiredIsPast'
  <2>1. CASE a = "user"
    BY <1>2, <1>3, <1>4, <2>1 DEF FiredIsPast, InHand
  <2>2. CASE a = "ticker"
    <3> SUFFICES ASSUME NEW t \in Schedules, InHand(t), t \notin leftOn'
                 PROVE  InHand(t)'
      BY <1>4, <2>2 DEF FiredIsPast
    <3>1. sweep.place # "collapsing" /\ job["ticker"].of = t
      BY <1>0, <2>2 DEF InHand, TickerInStep
    <3>2. job["ticker"].todo = <<>> /\ sweep.place = "recording"
      BY <1>0, <1>4, <2>2, <3>1 DEF InHand
    <3> QED BY <1>2, <2>2, <3>1, <3>2 DEF InHand
  <2> QED BY <2>1, <2>2
<1> QED BY <1>9, <1>10, <1>11, <1>12, <1>13, <1>14, <1>15

\* A job is over, and the cache and the walk under way are void.
LEMMA InvalidatesKeeps ==
  ASSUME ScheduleInv, NEW a \in Writers, Invalidates(a)
  PROVE  ScheduleInv'
<1> USE Constants DEF ScheduleInv
<1>1. sweep \in [ place : Places, now : Nat, todo : SUBSET Schedules, due : SUBSET Dues,
                 earliest : MaybeTime, stale : BOOLEAN, one : Dues \cup {None} ]
  BY DEF Shapes
<1>2. /\ sweep' \in [ place : Places, now : Nat, todo : SUBSET Schedules, due : SUBSET Dues,
                  earliest : MaybeTime, stale : BOOLEAN, one : Dues \cup {None} ]
      /\ sweep'.now = sweep.now /\ sweep'.todo = sweep.todo /\ sweep'.due = sweep.due
      /\ sweep'.earliest = sweep.earliest /\ sweep'.stale = TRUE /\ sweep'.one = sweep.one
      /\ a = "user" => sweep'.place = sweep.place
      /\ a = "ticker" => sweep'.place = IF sweep.place = "recording" THEN "recorded"
                                       ELSE "working"
  BY <1>1 DEF Invalidates, AfterJob, Places
<1>3. /\ job' \in [Writers -> [of : Schedules \cup {None}, todo : Seq(FieldWrites)]]
      /\ job'[a] = NoJob /\ \A b \in Writers : b # a => job'[b] = job[b]
  BY DEF Invalidates, Shapes, NoJob
<1>4. /\ UNCHANGED <<clock, record, edits, fired, leftOn>> /\ cache' = NoCache
      /\ unheard' \subseteq unheard /\ job[a] # NoJob /\ job[a].todo = <<>>
      /\ a = "user" => job'["ticker"] = job["ticker"]
  BY <1>3 DEF Invalidates
<1>5. sweep'.place = "walking" <=> sweep.place = "walking"
  BY <1>2, <1>4 DEF TickerInStep
<1>6. sweep'.place = "idle" <=> sweep.place = "idle"
  BY <1>2, <1>4 DEF TickerInStep
<1>7. job'["user"].todo = job["user"].todo \/ job'["user"].todo = <<>>
  BY <1>3 DEF NoJob, Writers
<1>8. \A b \in Writers : job'[b] = NoJob \/ job'[b] = job[b]
  BY <1>3
<1>9. Shapes'
  <2>1. \A b \in Writers : job'[b].of = None => job'[b].todo = <<>>
    BY <1>8 DEF Shapes, NoJob
  <2> QED BY <1>1, <1>2, <1>3, <1>4, <2>1 DEF Shapes, NoCache, MaybeTime
<1>10. TickerInStep'
  <2>1. CASE a = "user"
    BY <1>2, <1>3, <1>4, <2>1 DEF TickerInStep
  <2>2. CASE a = "ticker"
    <3>1. job'["ticker"] = NoJob /\ DOMAIN job'["ticker"].todo = {}
      BY <1>3, <2>2 DEF NoJob
    <3>2. sweep.place \in {"collapsing", "recording", "stopping"}
      BY <1>4, <2>2 DEF TickerInStep
    <3>3. sweep.one # None <=> sweep.place = "recording"
      BY <3>2 DEF TickerInStep
    <3> QED BY <1>2, <1>4, <2>2, <3>1, <3>2, <3>3 DEF TickerInStep
  <2> QED BY <2>1, <2>2
<1>11. UserInStep'
  BY <1>1, <1>2, <1>3, <1>4, <1>5, <1>6, <1>7, <1>8 DEF UserInStep
<1>12. Created'
  <2>1. \A b \in Writers, t \in Schedules : job'[b].of = t => job[b].of = t
    BY <1>8 DEF NoJob
  <2> QED BY <1>2, <1>4, <2>1 DEF Created
<1>13. CacheCounts'
  BY <1>1, <1>2, <1>3, <1>4, <1>5, <1>6, <1>7, <1>8 DEF CacheCounts, CacheSkips
<1>14. DueOnce'
  BY <1>1, <1>2, <1>3, <1>4, <1>5, <1>6, <1>7, <1>8 DEF DueOnce, Shapes
<1>15. FiredIsPast'
  <2>1. CASE a = "user"
    BY <1>2, <1>3, <1>4, <2>1 DEF FiredIsPast, InHand
  <2>2. CASE a = "ticker"
    <3> SUFFICES ASSUME NEW t \in Schedules, InHand(t), t \notin leftOn'
                 PROVE  InHand(t)'
      BY <1>4, <2>2 DEF FiredIsPast
    <3>1. sweep.place \in {"collapsing", "recording", "stopping"}
      BY <1>4, <2>2 DEF TickerInStep
    <3>2. sweep.place # "collapsing" /\ job["ticker"].of = t
      BY <3>1 DEF InHand, TickerInStep
    <3> QED BY <1>2, <1>4, <2>2, <3>1, <3>2 DEF InHand
  <2> QED BY <2>1, <2>2
<1> QED BY <1>9, <1>10, <1>11, <1>12, <1>13, <1>14, <1>15

\* A schedule is created, where there never was one.
LEMMA UserCreatesKeeps ==
  ASSUME ScheduleInv, NEW s \in Schedules, NEW period \in Periods, UserCreates(s, period)
  PROVE  ScheduleInv'
<1> USE Constants DEF ScheduleInv
<1>1. clock \in Nat /\ clock <= clock /\ period \in Nat \ {0}
  BY DEF Shapes
<1>2. NextRun(period, clock, clock) \in Nat /\ NextRun(period, clock, clock) > clock
  BY <1>1, NextRunIsAhead
<1>3. /\ record' \in [Schedules -> StoredRecords]
      /\ \A t \in Schedules : t # s => record'[t] = record[t]
      /\ ~record'[s].there /\ record'[s].next # 0
  BY <1>1, <1>2 DEF UserCreates, Shapes, StoredRecords
<1>4. /\ job' \in [Writers -> [of : Schedules \cup {None}, todo : Seq(FieldWrites)]]
      /\ job'["ticker"] = job["ticker"] /\ job'["user"].of = s
      /\ DOMAIN job'["user"].todo = {1} /\ job'["user"].todo[1].field = "there"
  <2>1. [field |-> "there", value |-> TRUE] \in FieldWrites
    BY DEF FieldWrites
  <2>2. <<[field |-> "there", value |-> TRUE]>> \in Seq(FieldWrites)
    BY <2>1
  <2> QED BY <2>1, <2>2 DEF UserCreates, StartsJob, Shapes, Writers
<1>5. /\ UNCHANGED <<clock, cache, sweep, fired, unheard, leftOn>>
      /\ edits' \in 0 .. MaxEdits /\ ~record[s].there /\ record[s].next = 0
  BY DEF UserCreates, Shapes
<1>6. /\ \A n \in Nat : <<s, n>> \notin fired
      /\ \A d \in sweep.due : d.of # s
      /\ sweep.one # None => sweep.one.of # s
      /\ \A b \in Writers : job[b].of # s
  BY <1>5 DEF Created
<1>7. Shapes'
  BY <1>1, <1>2, <1>3, <1>4, <1>5, <1>6 DEF Shapes
<1>8. TickerInStep'
  BY <1>1, <1>2, <1>3, <1>4, <1>5, <1>6 DEF TickerInStep
<1>9. UserInStep'
  BY <1>1, <1>2, <1>3, <1>4, <1>5, <1>6 DEF UserInStep
<1>10. Created'
  BY <1>1, <1>2, <1>3, <1>4, <1>5, <1>6 DEF Created
<1>11. CacheCounts'
  BY <1>1, <1>2, <1>3, <1>4, <1>5, <1>6 DEF CacheCounts, CacheSkips, On, Shapes
<1>12. DueOnce'
  BY <1>1, <1>2, <1>3, <1>4, <1>5, <1>6 DEF DueOnce, Shapes
<1>13. FiredIsPast'
  BY <1>1, <1>2, <1>3, <1>4, <1>5, <1>6 DEF FiredIsPast, InHand
<1> QED BY <1>7, <1>8, <1>9, <1>10, <1>11, <1>12, <1>13

\* A backup's restore begins to put a schedule back, where there never was one.
LEMMA RestoresKeeps ==
  ASSUME ScheduleInv, NEW s \in Schedules, Restores(s)
  PROVE  ScheduleInv'
<1> USE Constants DEF ScheduleInv
<1>1. clock \in Nat
  BY DEF Shapes
<1>2. /\ record' \in [Schedules -> StoredRecords]
      /\ \A t \in Schedules : t # s => record'[t] = record[t]
      /\ ~record'[s].there /\ record'[s].next # 0
  BY <1>1 DEF Restores, Shapes, StoredRecords
<1>3. /\ job' \in [Writers -> [of : Schedules \cup {None}, todo : Seq(FieldWrites)]]
      /\ job'["ticker"] = job["ticker"] /\ job'["user"].of = s
      /\ DOMAIN job'["user"].todo = {1} /\ job'["user"].todo[1].field = "there"
  <2>1. [field |-> "there", value |-> TRUE] \in FieldWrites
    BY DEF FieldWrites
  <2>2. <<[field |-> "there", value |-> TRUE]>> \in Seq(FieldWrites)
    BY <2>1
  <2> QED BY <2>1, <2>2 DEF Restores, StartsJob, Shapes, Writers
<1>4. /\ UNCHANGED <<clock, cache, sweep, fired, unheard, leftOn>>
      /\ edits' \in 0 .. MaxEdits /\ ~record[s].there /\ record[s].next = 0
  BY DEF Restores, Shapes
<1>5. /\ \A n \in Nat : <<s, n>> \notin fired
      /\ \A d \in sweep.due : d.of # s
      /\ sweep.one # None => sweep.one.of # s
      /\ \A b \in Writers : job[b].of # s
  BY <1>4 DEF Created
<1>6. Shapes'
  BY <1>1, <1>2, <1>3, <1>4, <1>5 DEF Shapes
<1>7. TickerInStep'
  BY <1>1, <1>2, <1>3, <1>4, <1>5 DEF TickerInStep
<1>8. UserInStep'
  BY <1>1, <1>2, <1>3, <1>4, <1>5 DEF UserInStep
<1>9. Created'
  BY <1>1, <1>2, <1>3, <1>4, <1>5 DEF Created
<1>10. CacheCounts'
  BY <1>1, <1>2, <1>3, <1>4, <1>5 DEF CacheCounts, CacheSkips, On, Shapes
<1>11. DueOnce'
  BY <1>1, <1>2, <1>3, <1>4, <1>5 DEF DueOnce, Shapes
<1>12. FiredIsPast'
  BY <1>1, <1>2, <1>3, <1>4, <1>5 DEF FiredIsPast, InHand
<1> QED BY <1>6, <1>7, <1>8, <1>9, <1>10, <1>11, <1>12

\* An edit computes the next run ahead of the clock.
LEMMA UserEditsKeeps ==
  ASSUME ScheduleInv, NEW s \in Schedules, NEW period \in Periods,
         NEW enabled \in BOOLEAN, UserEdits(s, period, enabled)
  PROVE  ScheduleInv'
<1> USE Constants DEF ScheduleInv
<1>1. clock \in Nat /\ clock <= clock /\ period \in Nat \ {0}
  BY DEF Shapes
<1>2. NextRun(period, clock, clock) \in Nat /\ NextRun(period, clock, clock) > clock
  BY <1>1, NextRunIsAhead
<1>3. /\ job' \in [Writers -> [of : Schedules \cup {None}, todo : Seq(FieldWrites)]]
      /\ job'["ticker"] = job["ticker"] /\ job'["user"].of = s
      /\ \A i \in DOMAIN job'["user"].todo :
           job'["user"].todo[i].field = "next" => job'["user"].todo[i].value > clock
  <2>1. PICK next : /\ next \in {<<>>, <<[ field |-> "next",
                                            value |-> NextRun(period, clock, clock) ]>>}
                    /\ StartsJob("user", s, Ordered(period, enabled, next))
    BY DEF UserEdits
  <2>2. Ordered(period, enabled, next) \in Seq(FieldWrites)
    BY <1>1, <1>2, <2>1, OrderedWrites
  <2>3. \A i \in DOMAIN Ordered(period, enabled, next) :
          Ordered(period, enabled, next)[i].field = "next" =>
            Ordered(period, enabled, next)[i].value = NextRun(period, clock, clock)
    BY <1>1, <1>2, <2>1, OrderedWrites
  <2>4. job'["user"].todo = Ordered(period, enabled, next) /\ job'["user"].of = s
    BY <2>1 DEF StartsJob, Shapes
  <2> QED BY <1>2, <2>1, <2>2, <2>3, <2>4 DEF StartsJob, Shapes
<1>4. /\ UNCHANGED <<clock, record, cache, sweep, fired, unheard, leftOn>>
      /\ edits' \in 0 .. MaxEdits /\ record[s].there
  BY DEF UserEdits, Shapes
<1>5. Shapes'
  BY <1>1, <1>2, <1>3, <1>4 DEF Shapes
<1>6. TickerInStep'
  BY <1>1, <1>2, <1>3, <1>4 DEF TickerInStep
<1>7. UserInStep'
  BY <1>1, <1>2, <1>3, <1>4 DEF UserInStep
<1>8. Created'
  BY <1>1, <1>2, <1>3, <1>4 DEF Created
<1>9. CacheCounts'
  BY <1>1, <1>2, <1>3, <1>4 DEF CacheCounts, CacheSkips, On, Shapes
<1>10. DueOnce'
  BY <1>1, <1>2, <1>3, <1>4 DEF DueOnce, Shapes
<1>11. FiredIsPast'
  BY <1>1, <1>2, <1>3, <1>4 DEF FiredIsPast, InHand
<1> QED BY <1>5, <1>6, <1>7, <1>8, <1>9, <1>10, <1>11

\* A delete goes for the record.
LEMMA UserDeletesKeeps ==
  ASSUME ScheduleInv, NEW s \in Schedules, UserDeletes(s)
  PROVE  ScheduleInv'
<1> USE Constants DEF ScheduleInv
<1>1. /\ job' \in [Writers -> [of : Schedules \cup {None}, todo : Seq(FieldWrites)]]
      /\ job'["ticker"] = job["ticker"] /\ job'["user"].of = s
      /\ DOMAIN job'["user"].todo = {1} /\ job'["user"].todo[1].field = "there"
  <2>1. [field |-> "there", value |-> FALSE] \in FieldWrites
    BY DEF FieldWrites
  <2>2. <<[field |-> "there", value |-> FALSE]>> \in Seq(FieldWrites)
    BY <2>1
  <2> QED BY <2>1, <2>2 DEF UserDeletes, StartsJob, Shapes, Writers
<1>2. /\ UNCHANGED <<clock, record, cache, sweep, fired, unheard, leftOn>>
      /\ edits' \in 0 .. MaxEdits /\ record[s].there
  BY DEF UserDeletes, Shapes
<1>3. Shapes'
  BY <1>1, <1>2 DEF Shapes
<1>4. TickerInStep'
  BY <1>1, <1>2 DEF TickerInStep
<1>5. UserInStep'
  BY <1>1, <1>2 DEF UserInStep
<1>6. Created'
  BY <1>1, <1>2 DEF Created
<1>7. CacheCounts'
  BY <1>1, <1>2 DEF CacheCounts, CacheSkips, On, Shapes
<1>8. DueOnce'
  BY <1>1, <1>2 DEF DueOnce, Shapes
<1>9. FiredIsPast'
  BY <1>1, <1>2 DEF FiredIsPast, InHand
<1> QED BY <1>3, <1>4, <1>5, <1>6, <1>7, <1>8, <1>9

\* A sweep begins only where the cache is not trusted: what it has yet to read is all
\* there is, and what was fired lies before it.
LEMMA SweepBeginsKeeps ==
  ASSUME ScheduleInv, SweepBegins
  PROVE  ScheduleInv'
<1> USE Constants DEF ScheduleInv
<1>1. /\ sweep' \in [ place : Places, now : Nat, todo : SUBSET Schedules, due : SUBSET Dues,
                  earliest : MaybeTime, stale : BOOLEAN, one : Dues \cup {None} ]
      /\ sweep'.place = "walking" /\ sweep'.now = clock /\ sweep'.due = {}
      /\ sweep'.todo = {s \in Schedules : record[s].there} /\ sweep'.earliest = None
      /\ sweep'.stale = FALSE /\ sweep'.one = None
  <2>1. sweep' = [ place |-> "walking", now |-> clock,
                   todo |-> {s \in Schedules : record[s].there},
                   due |-> {}, earliest |-> None, stale |-> FALSE, one |-> None ]
    BY DEF SweepBegins, IdleSweep
  <2>2. clock \in Nat
    BY DEF Shapes
  <2> HIDE DEF ScheduleInv
  <2> QED BY <2>1, <2>2 DEF Places, MaybeTime
<1>2. /\ UNCHANGED <<clock, record, cache, job, edits, fired, leftOn>>
      /\ sweep.place = "idle" /\ ~CacheSkips /\ unheard' \subseteq Schedules
  BY DEF SweepBegins, Shapes
<1>3. clock \in Nat
  BY DEF Shapes
<1>4. \A s \in Schedules : ~InHand(s) /\ ~InHand(s)'
  BY <1>1, <1>2 DEF InHand
<1>5. Shapes'
  BY <1>1, <1>2, <1>3, <1>4 DEF Shapes
<1>6. TickerInStep'
  <2>1. job["ticker"] = NoJob /\ DOMAIN job["ticker"].todo = {}
    BY <1>2 DEF TickerInStep, NoJob
  <2> QED BY <1>1, <1>2, <1>3, <2>1 DEF TickerInStep
<1>7. UserInStep'
  BY <1>1, <1>2, <1>3, <1>4 DEF UserInStep
<1>8. Created'
  BY <1>1, <1>2, <1>3, <1>4 DEF Created
<1>9. CacheCounts'
  BY <1>1, <1>2, <1>3, <1>4 DEF CacheCounts, CacheSkips, On, Shapes
<1>10. DueOnce'
  BY <1>1, <1>2, <1>3, <1>4 DEF DueOnce, Shapes
<1>11. FiredIsPast'
  BY <1>1, <1>2, <1>3, <1>4 DEF FiredIsPast
<1> QED BY <1>5, <1>6, <1>7, <1>8, <1>9, <1>10, <1>11

\* A record is read: a slot that is due has not been fired, or the schedule was left on.
LEMMA WalkReadsKeeps ==
  ASSUME ScheduleInv, NEW s \in Schedules, WalkReads(s)
  PROVE  ScheduleInv'
<1> USE Constants DEF ScheduleInv
<1>1. /\ sweep.place = "walking" /\ s \in sweep.todo /\ sweep.earliest \in MaybeTime
      /\ sweep.todo \subseteq Schedules /\ sweep.due \subseteq Dues
      /\ record[s] \in StoredRecords /\ record[s].next \in Nat
  BY DEF WalkReads, Shapes, StoredRecords
<1>2. UNCHANGED <<clock, record, cache, job, edits, fired, unheard, leftOn>>
  BY DEF WalkReads
<1>3. /\ sweep' \in [ place : Places, now : Nat, todo : SUBSET Schedules, due : SUBSET Dues,
                     earliest : MaybeTime, stale : BOOLEAN, one : Dues \cup {None} ]
      /\ sweep'.place = sweep.place
      /\ sweep'.now = sweep.now
      /\ sweep'.stale = sweep.stale
      /\ sweep'.one = sweep.one
      /\ sweep'.todo = sweep.todo \ {s}
      /\ sweep'.earliest = IF On(s) THEN Earlier(sweep.earliest, record[s].next)
                          ELSE sweep.earliest
      /\ sweep'.due = IF On(s) /\ record[s].next <= sweep.now
                     THEN sweep.due \cup {[of |-> s, next |-> record[s].next,
                                         period |-> record[s].period]}
                     ELSE sweep.due
  <2>1. [of |-> s, next |-> record[s].next, period |-> record[s].period] \in Dues
    BY <1>1 DEF Dues, StoredRecords
  <2>2. Earlier(sweep.earliest, record[s].next) \in MaybeTime
    BY <1>1 DEF Earlier, MaybeTime
  <2>3. sweep \in [ place : Places, now : Nat, todo : SUBSET Schedules, due : SUBSET Dues,
                    earliest : MaybeTime, stale : BOOLEAN, one : Dues \cup {None} ]
    BY DEF Shapes
  <2> DEFINE todo == sweep.todo \ {s}
             earliest == IF On(s) THEN Earlier(sweep.earliest, record[s].next)
                         ELSE sweep.earliest
             due == IF On(s) /\ record[s].next <= sweep.now
                    THEN sweep.due \cup {[of |-> s, next |-> record[s].next,
                                         period |-> record[s].period]}
                    ELSE sweep.due
  <2>4. /\ todo \in SUBSET Schedules /\ due \in SUBSET Dues /\ earliest \in MaybeTime
    BY <1>1, <2>1, <2>2
  <2>5. sweep' = [sweep EXCEPT !.todo = todo, !.earliest = earliest, !.due = due]
    BY DEF WalkReads, On
  <2> HIDE DEF todo, earliest, due
  <2>6. /\ sweep' \in [ place : Places, now : Nat, todo : SUBSET Schedules, due : SUBSET Dues,
                        earliest : MaybeTime, stale : BOOLEAN, one : Dues \cup {None} ]
        /\ sweep'.place = sweep.place /\ sweep'.now = sweep.now /\ sweep'.stale = sweep.stale
        /\ sweep'.one = sweep.one /\ sweep'.todo = todo /\ sweep'.earliest = earliest
        /\ sweep'.due = due
    BY <2>3, <2>4, <2>5
  <2> QED BY <2>6 DEF todo, earliest, due
<1>4. \A d \in sweep'.due : d \in sweep.due \/ (d.of = s /\ d.next = record[s].next /\ On(s)
                                             /\ d.next <= sweep.now)
  BY <1>3
<1>5. Shapes'
  BY <1>1, <1>2, <1>3, <1>4 DEF Shapes
<1>6. TickerInStep'
  BY <1>1, <1>2, <1>3, <1>4 DEF TickerInStep
<1>7. UserInStep'
  BY <1>1, <1>2, <1>3, <1>4 DEF UserInStep
<1>8. Created'
  BY <1>1, <1>2, <1>3, <1>4 DEF Created, On
<1>9. CacheCounts'
  <2>1. On(s) => /\ sweep'.earliest # None /\ sweep'.earliest <= record[s].next
                 /\ sweep.earliest # None => sweep'.earliest <= sweep.earliest
    BY <1>1, <1>3 DEF Earlier, MaybeTime
  <2>2. sweep'.earliest \in MaybeTime /\ \A t \in Schedules : record[t].next \in Nat
    BY <1>3 DEF Shapes, StoredRecords
  <2>3. \A t \in Schedules :
          sweep.earliest # None /\ sweep.earliest <= record[t].next
            => sweep'.earliest # None /\ sweep'.earliest <= record[t].next
    BY <1>1, <1>3, <2>1, <2>2 DEF MaybeTime
  <2>4. CacheSkips' <=> CacheSkips
    BY <1>2 DEF CacheSkips
  <2> HIDE DEF ScheduleInv
  <2>5. CacheCounts
    BY DEF ScheduleInv
  <2>6. \A t \in Schedules : On(t)' <=> On(t)
    BY <1>2 DEF On
  <2> QED BY <1>1, <1>2, <1>3, <2>1, <2>3, <2>4, <2>5, <2>6 DEF CacheCounts
<1>10. DueOnce'
  <2>1. \A d \in sweep.due : d.of # s
    BY <1>1 DEF DueOnce
  <2>2. On(s) /\ s \notin leftOn => <<s, record[s].next>> \notin fired
    <3>1. ~InHand(s)
      BY <1>1 DEF InHand
    <3> QED BY <1>1, <3>1 DEF FiredIsPast, On
  <2>3. \A d, e \in sweep'.due : d.of = e.of => d = e
    <3>1. \A d \in sweep'.due : d \in sweep.due
            \/ d = [of |-> s, next |-> record[s].next, period |-> record[s].period]
      BY <1>3
    <3>2. [of |-> s, next |-> record[s].next, period |-> record[s].period].of = s
      OBVIOUS
    <3>3. \A d, e \in sweep.due : d.of = e.of => d = e
      BY DEF DueOnce
    <3> HIDE DEF ScheduleInv
    <3> QED BY <2>1, <3>1, <3>2, <3>3
  <2>4. \A d \in sweep'.due : d.of \notin sweep'.todo
    BY <1>3, <1>4 DEF DueOnce
  <2> QED BY <1>1, <1>2, <1>3, <1>4, <2>2, <2>3, <2>4 DEF DueOnce
<1>11. FiredIsPast'
  <2>1. \A t \in Schedules : InHand(t)' <=> InHand(t)
    BY <1>2, <1>3 DEF InHand
  <2> QED BY <1>2, <2>1 DEF FiredIsPast
<1> QED BY <1>5, <1>6, <1>7, <1>8, <1>9, <1>10, <1>11

\* A walk ends, and what it counted is what the cache is trusted for.
LEMMA WalkEndsKeeps ==
  ASSUME ScheduleInv, WalkEnds
  PROVE  ScheduleInv'
<1> USE Constants DEF ScheduleInv
<1>1. sweep \in [ place : Places, now : Nat, todo : SUBSET Schedules, due : SUBSET Dues,
                 earliest : MaybeTime, stale : BOOLEAN, one : Dues \cup {None} ]
  BY DEF Shapes
<1>2. /\ sweep' \in [ place : Places, now : Nat, todo : SUBSET Schedules, due : SUBSET Dues,
                  earliest : MaybeTime, stale : BOOLEAN, one : Dues \cup {None} ]
      /\ sweep'.place = "working"
      /\ sweep'.now = sweep.now
      /\ sweep'.todo = sweep.todo
      /\ sweep'.due = sweep.due
      /\ sweep'.earliest = sweep.earliest
      /\ sweep'.stale = sweep.stale
      /\ sweep'.one = sweep.one
  BY <1>1 DEF WalkEnds, Places
<1>3. /\ UNCHANGED <<clock, record, job, edits, fired, unheard, leftOn>>
      /\ sweep.place = "walking" /\ sweep.todo = {}
      /\ cache' = IF sweep.stale THEN cache ELSE [at |-> sweep.now, earliest |-> sweep.earliest]
  BY DEF WalkEnds, Publish
<1>4. \A s \in Schedules : ~InHand(s) /\ ~InHand(s)'
  BY <1>2, <1>3 DEF InHand
<1>5. Shapes'
  <2>1. /\ cache' \in [at : MaybeTime, earliest : MaybeTime]
        /\ cache' # NoCache => cache'.at \in Nat
    <3>1. [at |-> sweep.now, earliest |-> sweep.earliest]
            \in [at : MaybeTime, earliest : MaybeTime]
      BY <1>1 DEF MaybeTime
    <3>2. sweep.now \in Nat
      BY <1>1
    <3> QED BY <1>3, <3>1, <3>2 DEF Shapes
  <2> QED BY <1>2, <1>3, <2>1 DEF Shapes
<1>6. TickerInStep'
  BY <1>1, <1>2, <1>3, <1>4 DEF TickerInStep
<1>7. UserInStep'
  BY <1>1, <1>2, <1>3, <1>4 DEF UserInStep
<1>8. Created'
  BY <1>1, <1>2, <1>3, <1>4 DEF Created
<1>9. CacheCounts'
  <2>1. CASE sweep.stale
    BY <1>2, <1>3, <2>1 DEF CacheCounts, CacheSkips
  <2>2. CASE ~sweep.stale
    BY <1>1, <1>2, <1>3, <2>2 DEF CacheCounts, On
  <2> QED BY <2>1, <2>2
<1>10. DueOnce'
  BY <1>1, <1>2, <1>3, <1>4 DEF DueOnce, Shapes
<1>11. FiredIsPast'
  BY <1>1, <1>2, <1>3, <1>4 DEF FiredIsPast
<1> QED BY <1>5, <1>6, <1>7, <1>8, <1>9, <1>10, <1>11

\* A slot too late is passed over.
LEMMA CollapsesKeeps ==
  ASSUME ScheduleInv, NEW d \in sweep.due, Collapses(d)
  PROVE  ScheduleInv'
<1> USE Constants DEF ScheduleInv
<1>1. sweep \in [ place : Places, now : Nat, todo : SUBSET Schedules, due : SUBSET Dues,
                 earliest : MaybeTime, stale : BOOLEAN, one : Dues \cup {None} ]
  BY DEF Shapes
<1>2. d \in Dues /\ d.of \in Schedules /\ d.next \in Nat /\ d.period \in Nat \ {0}
  BY DEF Shapes, Dues
<1>3. sweep.place = "working" /\ sweep.now \in Nat /\ d.next <= sweep.now
  BY <1>1 DEF Collapses, TakesUp, DueOnce
<1>4. /\ sweep' \in [ place : Places, now : Nat, todo : SUBSET Schedules, due : SUBSET Dues,
                  earliest : MaybeTime, stale : BOOLEAN, one : Dues \cup {None} ]
      /\ sweep'.place = (IF d.of \in BadZone THEN "stopping" ELSE "collapsing")
      /\ sweep'.due = sweep.due \ {d}
      /\ sweep'.now = sweep.now
      /\ sweep'.todo = sweep.todo
      /\ sweep'.earliest = sweep.earliest
      /\ sweep'.stale = sweep.stale
      /\ sweep'.one = sweep.one
  BY <1>1 DEF Collapses, Places
<1>5. NextRun(d.period, sweep.now, d.next) \in Nat
      /\ NextRun(d.period, sweep.now, d.next) > sweep.now
  BY <1>2, <1>3, NextRunIsAhead
<1>6. /\ job' \in [Writers -> [of : Schedules \cup {None}, todo : Seq(FieldWrites)]]
      /\ job'["user"] = job["user"] /\ job'["ticker"].of = d.of
      /\ DOMAIN job'["ticker"].todo = {1}
      /\ LET write == job'["ticker"].todo[1]
         IN  IF d.of \in BadZone THEN write.field = "enabled" /\ write.value = FALSE
                                 ELSE write.field = "next" /\ write.value > sweep.now
  <2>1. PICK write \in FieldWrites :
          /\ IF d.of \in BadZone THEN write.field = "enabled" /\ write.value = FALSE
                                 ELSE write.field = "next" /\ write.value > sweep.now
          /\ StartsJob("ticker", d.of, <<write>>)
    <3>1. /\ [field |-> "enabled", value |-> FALSE] \in FieldWrites
          /\ [field |-> "next", value |-> NextRun(d.period, sweep.now, d.next)] \in FieldWrites
      BY <1>5 DEF FieldWrites
    <3> QED BY <1>5, <3>1 DEF Collapses, SwitchOff
  <2>2. <<write>> \in Seq(FieldWrites) /\ DOMAIN <<write>> = {1} /\ <<write>>[1] = write
    OBVIOUS
  <2> QED BY <1>2, <2>1, <2>2 DEF StartsJob, Shapes
<1>7. UNCHANGED <<clock, record, cache, edits, fired, unheard, leftOn>>
  BY DEF Collapses
<1>8. Shapes'
  BY <1>1, <1>2, <1>3, <1>4, <1>5, <1>6, <1>7 DEF Shapes
<1>9. TickerInStep'
  <2>1. job'["ticker"] # NoJob /\ sweep.one = None /\ sweep.now <= clock
    BY <1>2, <1>3, <1>6 DEF TickerInStep, NoJob
  <2> HIDE DEF ScheduleInv
  <2> QED BY <1>4, <1>6, <1>7, <2>1 DEF TickerInStep
<1>10. UserInStep'
  BY <1>1, <1>2, <1>3, <1>4, <1>5, <1>6, <1>7 DEF UserInStep
<1>11. Created'
  BY <1>1, <1>2, <1>3, <1>4, <1>5, <1>6, <1>7 DEF Created
<1>12. CacheCounts'
  BY <1>1, <1>2, <1>3, <1>4, <1>5, <1>6, <1>7 DEF CacheCounts, CacheSkips, On, Shapes
<1>13. DueOnce'
  BY <1>1, <1>2, <1>3, <1>4, <1>5, <1>6, <1>7 DEF DueOnce, Shapes
<1>14. FiredIsPast'
  <2>1. \A s \in Schedules : ~InHand(s)
    BY <1>3 DEF InHand
  <2> QED BY <1>7, <2>1 DEF FiredIsPast
<1> QED BY <1>8, <1>9, <1>10, <1>11, <1>12, <1>13, <1>14

\* A slot is delivered: it is in hand from now on, and it was fired by nobody before.
LEMMA FiresKeeps ==
  ASSUME ScheduleInv, NEW d \in sweep.due, Fires(d)
  PROVE  ScheduleInv'
<1> USE Constants DEF ScheduleInv
<1>1. sweep \in [ place : Places, now : Nat, todo : SUBSET Schedules, due : SUBSET Dues,
                 earliest : MaybeTime, stale : BOOLEAN, one : Dues \cup {None} ]
  BY DEF Shapes
<1>2. d \in Dues /\ d.of \in Schedules /\ d.next \in Nat /\ d.period \in Nat \ {0}
  BY DEF Shapes, Dues
<1>3. sweep.place = "working" /\ sweep.now \in Nat /\ d.next <= sweep.now /\ sweep.now <= clock
  BY <1>1 DEF Fires, TakesUp, DueOnce, TickerInStep
<1>4. /\ sweep' \in [ place : Places, now : Nat, todo : SUBSET Schedules, due : SUBSET Dues,
                  earliest : MaybeTime, stale : BOOLEAN, one : Dues \cup {None} ]
      /\ sweep'.place = "delivering" /\ sweep'.due = sweep.due \ {d} /\ sweep'.one = d
      /\ sweep'.now = sweep.now
      /\ sweep'.todo = sweep.todo
      /\ sweep'.earliest = sweep.earliest
      /\ sweep'.stale = sweep.stale
  BY <1>1, <1>2 DEF Fires, Places
<1>5. /\ UNCHANGED <<clock, record, cache, job, edits, unheard, leftOn>>
      /\ fired' = fired \cup {<<d.of, d.next>>}
  BY DEF Fires
<1>6. record[d.of].next # 0
  BY <1>2 DEF Created
<1>7. d # None /\ clock \in Nat
  BY <1>2 DEF Shapes
<1>8. Shapes'
  BY <1>1, <1>2, <1>3, <1>4, <1>5, <1>6, <1>7 DEF Shapes
<1>9. TickerInStep'
  BY <1>1, <1>2, <1>3, <1>4, <1>5, <1>6, <1>7 DEF TickerInStep
<1>10. UserInStep'
  BY <1>1, <1>2, <1>3, <1>4, <1>5, <1>6, <1>7 DEF UserInStep
<1>11. Created'
  <2>1. \A n \in Nat, s \in Schedules : <<s, n>> \in fired' => <<s, n>> \in fired \/ s = d.of
    BY <1>5
  <2>2. Created
    OBVIOUS
  <2> HIDE DEF ScheduleInv
  <2> QED BY <1>2, <1>4, <1>5, <1>6, <2>1, <2>2 DEF Created
<1>12. CacheCounts'
  BY <1>1, <1>2, <1>3, <1>4, <1>5, <1>6, <1>7 DEF CacheCounts, CacheSkips, On, Shapes
<1>13. DueOnce'
  <2>1. \A e \in sweep'.due : e.of # d.of
    BY <1>4 DEF DueOnce
  <2>2. \A e \in sweep'.due : <<e.of, e.next>> \in fired' => <<e.of, e.next>> \in fired
    BY <1>5, <2>1
  <2>3. \A f \in fired' : f \in fired \/ f[2] = d.next
    BY <1>5
  <2>4. DueOnce
    OBVIOUS
  <2>5. fired \subseteq Schedules \X Nat
    BY DEF Shapes
  <2> HIDE DEF ScheduleInv
  <2> QED BY <1>2, <1>3, <1>4, <1>5, <1>7, <2>2, <2>3, <2>4, <2>5 DEF DueOnce
<1>14. FiredIsPast'
  <2>1. \A s \in Schedules : ~InHand(s)
    BY <1>3 DEF InHand
  <2>2. InHand(d.of)'
    BY <1>4 DEF InHand
  <2>3. \A s \in Schedules, n \in Nat : <<s, n>> \in fired' => <<s, n>> \in fired \/ s = d.of
    BY <1>5
  <2> QED BY <1>5, <2>1, <2>2, <2>3 DEF FiredIsPast
<1> QED BY <1>8, <1>9, <1>10, <1>11, <1>12, <1>13, <1>14

\* The fire is recorded: the next run, past the sweep's time, is still to be written.
LEMMA RecordsKeeps ==
  ASSUME ScheduleInv, Records
  PROVE  ScheduleInv'
<1> USE Constants DEF ScheduleInv
<1>1. sweep.one \in Dues
  BY DEF Records, TickerInStep, Shapes
<1>2. sweep \in [ place : Places, now : Nat, todo : SUBSET Schedules, due : SUBSET Dues,
                 earliest : MaybeTime, stale : BOOLEAN, one : Dues \cup {None} ]
  BY DEF Shapes
<1>3. /\ sweep.place = "delivering" /\ sweep.now \in Nat
      /\ sweep.one.next <= sweep.now /\ sweep.one # None
  BY <1>1, <1>2 DEF Records, TickerInStep
<1>4. sweep.one.of \in Schedules /\ sweep.one.next \in Nat /\ sweep.one.period \in Nat \ {0}
  BY <1>1 DEF Dues
<1>5. NextRun(sweep.one.period, sweep.now, sweep.one.next) \in Nat
      /\ NextRun(sweep.one.period, sweep.now, sweep.one.next) > sweep.now
  BY <1>3, <1>4, NextRunIsAhead
<1>6. /\ sweep' \in [ place : Places, now : Nat, todo : SUBSET Schedules, due : SUBSET Dues,
                  earliest : MaybeTime, stale : BOOLEAN, one : Dues \cup {None} ]
      /\ sweep'.place = "recording"
      /\ sweep'.now = sweep.now
      /\ sweep'.todo = sweep.todo
      /\ sweep'.due = sweep.due
      /\ sweep'.earliest = sweep.earliest
      /\ sweep'.stale = sweep.stale
      /\ sweep'.one = sweep.one
  BY <1>2 DEF Records, Places
<1>7. /\ job' \in [Writers -> [of : Schedules \cup {None}, todo : Seq(FieldWrites)]]
      /\ job'["user"] = job["user"] /\ job'["ticker"].of = sweep.one.of
      /\ sweep.one.of \notin BadZone => job'["ticker"].todo # <<>>
      /\ \A i \in DOMAIN job'["ticker"].todo :
           job'["ticker"].todo[i].field = "next" /\ job'["ticker"].todo[i].value > sweep.now
  <2> DEFINE write == [field |-> "next", value |-> NextRun(sweep.one.period, sweep.now,
                                                            sweep.one.next)]
  <2>1. write \in FieldWrites /\ write.field = "next" /\ write.value > sweep.now
    BY <1>5 DEF FieldWrites
  <2>2. StartsJob("ticker", sweep.one.of, IF sweep.one.of \in BadZone THEN <<>> ELSE <<write>>)
    BY DEF Records
  <2> HIDE DEF write
  <2>3. /\ <<write>> \in Seq(FieldWrites) /\ DOMAIN <<write>> = {1} /\ <<write>>[1] = write
        /\ <<>> \in Seq(FieldWrites) /\ DOMAIN <<>> = {} /\ <<write>> # <<>>
    BY <2>1
  <2> QED BY <1>4, <2>1, <2>2, <2>3 DEF StartsJob, Shapes
<1>8. UNCHANGED <<clock, record, cache, edits, fired, unheard, leftOn>>
  BY DEF Records
<1>9. Shapes'
  BY <1>1, <1>2, <1>3, <1>4, <1>5, <1>6, <1>7, <1>8 DEF Shapes
<1>10. TickerInStep'
  <2>1. job'["ticker"] # NoJob /\ sweep.now <= clock
    BY <1>4, <1>7 DEF TickerInStep, NoJob
  <2> HIDE DEF ScheduleInv
  <2> QED BY <1>3, <1>6, <1>7, <1>8, <2>1 DEF TickerInStep
<1>11. UserInStep'
  BY <1>1, <1>2, <1>3, <1>4, <1>5, <1>6, <1>7, <1>8 DEF UserInStep
<1>12. Created'
  BY <1>1, <1>2, <1>3, <1>4, <1>5, <1>6, <1>7, <1>8 DEF Created
<1>13. CacheCounts'
  BY <1>1, <1>2, <1>3, <1>4, <1>5, <1>6, <1>7, <1>8 DEF CacheCounts, CacheSkips, On, Shapes
<1>14. DueOnce'
  BY <1>1, <1>2, <1>3, <1>4, <1>5, <1>6, <1>7, <1>8 DEF DueOnce, Shapes
<1>15. FiredIsPast'
  <2>1. \A s \in Schedules : InHand(s) => InHand(s)'
    BY <1>3, <1>6, <1>7 DEF InHand
  <2> QED BY <1>8, <2>1 DEF FiredIsPast
<1> QED BY <1>9, <1>10, <1>11, <1>12, <1>13, <1>14, <1>15

\* What cannot advance is turned off before the sweep goes on.
LEMMA StopsIfItMustKeeps ==
  ASSUME ScheduleInv, StopsIfItMust
  PROVE  ScheduleInv'
<1> USE Constants DEF ScheduleInv
<1>1. sweep \in [ place : Places, now : Nat, todo : SUBSET Schedules, due : SUBSET Dues,
                 earliest : MaybeTime, stale : BOOLEAN, one : Dues \cup {None} ]
  BY DEF Shapes
<1>2. /\ sweep.place = "recorded" /\ sweep.one # None /\ sweep.one.of \in Schedules
      /\ job["ticker"] = NoJob
  BY <1>1 DEF StopsIfItMust, TickerInStep, Dues
<1>3. /\ sweep' \in [ place : Places, now : Nat, todo : SUBSET Schedules, due : SUBSET Dues,
                  earliest : MaybeTime, stale : BOOLEAN, one : Dues \cup {None} ]
      /\ sweep'.place = (IF sweep.one.of \in BadZone THEN "stopping" ELSE "working")
      /\ sweep'.one = None
      /\ sweep'.now = sweep.now
      /\ sweep'.todo = sweep.todo
      /\ sweep'.due = sweep.due
      /\ sweep'.earliest = sweep.earliest
      /\ sweep'.stale = sweep.stale
  BY ZenonT(60), <1>1 DEF StopsIfItMust, Places
<1>4. /\ job' \in [Writers -> [of : Schedules \cup {None}, todo : Seq(FieldWrites)]]
      /\ job'["user"] = job["user"]
      /\ sweep.one.of \notin BadZone => job' = job
      /\ sweep.one.of \in BadZone =>
           /\ job'["ticker"].of = sweep.one.of /\ job'["ticker"].todo # <<>>
           /\ \A i \in DOMAIN job'["ticker"].todo :
                job'["ticker"].todo[i].field = "enabled" /\ job'["ticker"].todo[i].value = FALSE
  <2> DEFINE write == [field |-> "enabled", value |-> FALSE]
  <2>1. write \in FieldWrites /\ write.field = "enabled" /\ write.value = FALSE
    BY DEF FieldWrites
  <2>2. IF sweep.one.of \in BadZone THEN StartsJob("ticker", sweep.one.of, <<write>>)
        ELSE job' = job
    BY DEF StopsIfItMust, SwitchOff
  <2> HIDE DEF write
  <2>3. /\ <<write>> \in Seq(FieldWrites) /\ DOMAIN <<write>> = {1} /\ <<write>>[1] = write
        /\ <<write>> # <<>>
    BY <2>1
  <2>4. CASE sweep.one.of \in BadZone
    <3>1. job \in [Writers -> [of : Schedules \cup {None}, todo : Seq(FieldWrites)]]
      BY DEF Shapes
    <3>2. job' = [job EXCEPT !["ticker"] = [of |-> sweep.one.of, todo |-> <<write>>]]
      BY <2>2, <2>4 DEF StartsJob
    <3>3. /\ job'["ticker"] = [of |-> sweep.one.of, todo |-> <<write>>]
          /\ job'["user"] = job["user"]
      BY <3>1, <3>2
    <3>4. job' \in [Writers -> [of : Schedules \cup {None}, todo : Seq(FieldWrites)]]
      BY <1>2, <2>3, <3>1, <3>2
    <3> QED BY <2>1, <2>3, <2>4, <3>3, <3>4
  <2>5. CASE sweep.one.of \notin BadZone
    BY <1>2, <2>2, <2>5 DEF Shapes
  <2> QED BY <2>4, <2>5
<1>5. UNCHANGED <<clock, record, cache, edits, fired, unheard, leftOn>>
  BY DEF StopsIfItMust
<1>6. Shapes'
  BY <1>1, <1>2, <1>3, <1>4, <1>5 DEF Shapes
<1>7. TickerInStep'
  <2>1. sweep.one.of \in BadZone => job'["ticker"] # NoJob
    BY <1>2, <1>4 DEF NoJob
  <2>2. sweep.now <= clock /\ DOMAIN NoJob.todo = {}
    BY DEF TickerInStep, NoJob
  <2> HIDE DEF ScheduleInv
  <2> QED BY <1>2, <1>3, <1>4, <1>5, <2>1, <2>2 DEF TickerInStep
<1>8. UserInStep'
  BY <1>1, <1>2, <1>3, <1>4, <1>5 DEF UserInStep
<1>9. Created'
  BY <1>1, <1>2, <1>3, <1>4, <1>5 DEF Created
<1>10. CacheCounts'
  BY <1>1, <1>2, <1>3, <1>4, <1>5 DEF CacheCounts, CacheSkips, On, Shapes
<1>11. DueOnce'
  BY <1>1, <1>2, <1>3, <1>4, <1>5 DEF DueOnce, Shapes
<1>12. FiredIsPast'
  <2>1. \A s \in Schedules : InHand(s) => InHand(s)'
    BY <1>2, <1>3, <1>4 DEF InHand
  <2> QED BY <1>5, <2>1 DEF FiredIsPast
<1> QED BY <1>6, <1>7, <1>8, <1>9, <1>10, <1>11, <1>12

\* A sweep ends with nothing due left.
LEMMA SweepEndsKeeps ==
  ASSUME ScheduleInv, SweepEnds
  PROVE  ScheduleInv'
<1> USE Constants DEF ScheduleInv
<1>1. sweep' = IdleSweep /\ sweep.place = "working"
  BY DEF SweepEnds
<1>2. UNCHANGED <<clock, record, cache, job, edits, fired, unheard, leftOn>>
  BY DEF SweepEnds
<1>3. clock \in Nat /\ job["ticker"] = NoJob
  BY <1>1 DEF Shapes, TickerInStep
<1>4. \A s \in Schedules : ~InHand(s)
  BY <1>1 DEF InHand
<1>5. Shapes'
  BY <1>1, <1>2, <1>3, <1>4 DEF Shapes, IdleSweep, Places, MaybeTime
<1>6. TickerInStep'
  BY <1>1, <1>2, <1>3, <1>4 DEF TickerInStep, IdleSweep, NoJob
<1>7. UserInStep'
  BY <1>1, <1>2, <1>3, <1>4 DEF UserInStep
<1>8. Created'
  BY <1>1, <1>2, <1>3, <1>4 DEF Created, IdleSweep
<1>9. CacheCounts'
  BY <1>1, <1>2, <1>3, <1>4 DEF CacheCounts, CacheSkips, On, IdleSweep
<1>10. DueOnce'
  BY <1>1, <1>2, <1>3, <1>4 DEF DueOnce, IdleSweep
<1>11. FiredIsPast'
  BY <1>1, <1>2, <1>3, <1>4 DEF FiredIsPast
<1> QED BY <1>5, <1>6, <1>7, <1>8, <1>9, <1>10, <1>11

\* Time passes, while no request is being written.
LEMMA ClockTicksKeeps ==
  ASSUME ScheduleInv, ClockTicks
  PROVE  ScheduleInv'
<1> USE Constants DEF ScheduleInv
<1>1. clock \in Nat /\ clock' = clock + 1 /\ clock' \in 0 .. MaxTime
  BY DEF ClockTicks, Shapes
<1>2. /\ UNCHANGED <<record, cache, job, edits, sweep, fired, unheard, leftOn>>
      /\ job["user"] = NoJob
  BY DEF ClockTicks
<1>3. sweep.now \in Nat /\ fired \subseteq Schedules \X Nat
  BY DEF Shapes
<1>4. CacheSkips' => CacheSkips
  BY <1>1, <1>2 DEF CacheSkips, Shapes, MaybeTime
<1>5. \A s \in Schedules : InHand(s)' <=> InHand(s)
  BY <1>2 DEF InHand
<1>6. Shapes'
  BY <1>1, <1>2, <1>3, <1>4, <1>5 DEF Shapes
<1>7. TickerInStep'
  BY <1>1, <1>2, <1>3, <1>4, <1>5 DEF TickerInStep
<1>8. UserInStep'
  BY <1>1, <1>2, <1>3, <1>4, <1>5 DEF UserInStep, NoJob
<1>9. Created'
  BY <1>1, <1>2, <1>3, <1>4, <1>5 DEF Created
<1>10. CacheCounts'
  BY <1>1, <1>2, <1>3, <1>4, <1>5 DEF CacheCounts, On
<1>11. DueOnce'
  BY <1>1, <1>2, <1>3, <1>4, <1>5 DEF DueOnce, Shapes
<1>12. FiredIsPast'
  BY <1>1, <1>2, <1>3, <1>4, <1>5 DEF FiredIsPast
<1> QED BY <1>6, <1>7, <1>8, <1>9, <1>10, <1>11, <1>12

\* The process starts again: what it had in hand is left on.
LEMMA ProcessRestartsKeeps ==
  ASSUME ScheduleInv, ProcessRestarts
  PROVE  ScheduleInv'
<1> USE Constants DEF ScheduleInv
<1>1. /\ sweep' = IdleSweep /\ cache' = NoCache /\ unheard' = {}
      /\ job' = [a \in Writers |-> NoJob]
  BY DEF ProcessRestarts
<1>2. /\ UNCHANGED <<clock, record, edits, fired>>
      /\ leftOn' = leftOn \cup {s \in Schedules :
           job["ticker"].of = s \/ (sweep.one # None /\ sweep.one.of = s)}
  BY DEF ProcessRestarts
<1>3. clock \in Nat
  BY DEF Shapes
<1>4. \A s \in Schedules : InHand(s) => s \in leftOn'
  BY <1>2 DEF InHand, TickerInStep
<1>5. Shapes'
  <2>1. /\ sweep' \in [ place : Places, now : Nat, todo : SUBSET Schedules, due : SUBSET Dues,
                      earliest : MaybeTime, stale : BOOLEAN, one : Dues \cup {None} ]
        /\ cache' \in [at : MaybeTime, earliest : MaybeTime]
    BY <1>1 DEF IdleSweep, NoCache, Places, MaybeTime
  <2>2. job' \in [Writers -> [of : Schedules \cup {None}, todo : Seq(FieldWrites)]]
        /\ \A a \in Writers : job'[a].todo = <<>>
    BY <1>1 DEF NoJob
  <2> QED BY <1>1, <1>2, <1>3, <2>1, <2>2 DEF Shapes
<1>6. TickerInStep'
  BY <1>1, <1>2, <1>3, <1>4 DEF TickerInStep, IdleSweep, NoJob
<1>7. UserInStep'
  BY <1>1, <1>2, <1>3, <1>4 DEF UserInStep, NoJob
<1>8. Created'
  BY <1>1, <1>2, <1>3, <1>4 DEF Created, IdleSweep, NoJob
<1>9. CacheCounts'
  BY <1>1, <1>2, <1>3, <1>4 DEF CacheCounts, CacheSkips, IdleSweep
<1>10. DueOnce'
  BY <1>1, <1>2, <1>3, <1>4 DEF DueOnce, IdleSweep
<1>11. FiredIsPast'
  BY <1>1, <1>2, <1>3, <1>4 DEF FiredIsPast
<1> QED BY <1>5, <1>6, <1>7, <1>8, <1>9, <1>10, <1>11

LEMMA ScheduleInvNext == ScheduleInv /\ [ScheduleNext]_scheduleVars => ScheduleInv'
<1> SUFFICES ASSUME ScheduleInv, [ScheduleNext]_scheduleVars PROVE ScheduleInv'
  OBVIOUS
<1>1. CASE ScheduleNext
  BY <1>1, WriteLandsKeeps, WriteFailsKeeps, InvalidatesKeeps, UserCreatesKeeps, RestoresKeeps,
     UserEditsKeeps, UserDeletesKeeps, SweepBeginsKeeps, WalkReadsKeeps, WalkEndsKeeps,
     CollapsesKeeps, FiresKeeps, RecordsKeeps, StopsIfItMustKeeps, SweepEndsKeeps,
     ClockTicksKeeps, ProcessRestartsKeeps
     DEF ScheduleNext, SweepStep
<1>2. CASE UNCHANGED scheduleVars
  <2> USE <1>2 DEF scheduleVars, ScheduleInv
  <2>1. Shapes' /\ TickerInStep' /\ UserInStep'
    BY DEF Shapes, TickerInStep, UserInStep
  <2>2. Created' /\ DueOnce'
    BY DEF Created, DueOnce
  <2>3. CacheCounts' /\ FiredIsPast'
    BY DEF CacheCounts, CacheSkips, On, FiredIsPast, InHand
  <2> QED BY <2>1, <2>2, <2>3
<1> QED BY <1>1, <1>2

-----------------------------------------------------------------------------
(* The theorems.                                                            *)

\* The store, its cache, its writers and the sweep stay in step in every behaviour of
\* scheduleStore.ts and scheduleTicker.ts.
THEOREM ScheduleInvariant == ScheduleSpec => []ScheduleInv
BY ScheduleInvInit, ScheduleInvNext, PTL DEF ScheduleSpec

\* The types of the schedules' state hold throughout.
THEOREM ScheduleTypes == ScheduleSpec => []ScheduleTypeOK
<1>1. ScheduleInv => ScheduleTypeOK
  BY DEF ScheduleInv, Shapes, ScheduleTypeOK, StoredRecords, MaybeTime
<1> QED BY <1>1, ScheduleInvariant, PTL

\* However creations, edits and fires meet the walk that fills the due cache, a sweep
\* that trusts it misses no schedule that is due (listDueSchedules).
THEOREM CacheIsHonest == ScheduleSpec => []CacheHidesNothing
<1>1. ScheduleInv => CacheHidesNothing
  <2> SUFFICES ASSUME ScheduleInv, CacheSkips, NEW s \in Schedules \ unheard, On(s)
               PROVE  record[s].next > clock
    BY DEF CacheHidesNothing, On
  <2>1. cache.earliest # None /\ cache.earliest <= record[s].next
    BY DEF ScheduleInv, CacheCounts
  <2>2. cache.earliest > clock
    BY <2>1 DEF CacheSkips
  <2>3. cache.earliest \in Nat /\ clock \in Nat /\ record[s].next \in Nat
    BY <2>1, Constants DEF ScheduleInv, Shapes, StoredRecords, MaybeTime
  <2> QED BY <2>1, <2>2, <2>3
<1> QED BY <1>1, ScheduleInvariant, PTL

\* No slot is delivered twice, but where the process or Redis failed before the fire was
\* on record, or an edit under way turned on what the ticker had turned off (fireSchedule,
\* recordFire, stopScheduleThatCannotAdvance).
THEOREM SlotsFireOnce == ScheduleSpec => SlotFiresOnce
<1> DEFINE Once == \A d \in sweep.due :
                     sweep'.one = d /\ sweep.one # d /\ d.of \notin leftOn =>
                       <<d.of, d.next>> \notin fired
<1>1. ScheduleInv /\ [ScheduleNext]_scheduleVars => Once
  <2> SUFFICES ASSUME ScheduleInv, NEW d \in sweep.due, d.of \notin leftOn
               PROVE  <<d.of, d.next>> \notin fired
    OBVIOUS
  <2> QED BY DEF ScheduleInv, DueOnce
<1>2. ScheduleInv /\ [ScheduleNext]_scheduleVars => [Once]_scheduleVars
  BY <1>1
<1> QED BY <1>2, ScheduleInvariant, PTL DEF ScheduleSpec, SlotFiresOnce
=============================================================================
