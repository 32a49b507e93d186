-------------------------- MODULE SchedulerProofs --------------------------
(***************************************************************************)
(* Theorems of Scheduler, for every set of scenarios and rules, every      *)
(* horizon and bound, and every clock the assumptions of Scheduler allow.  *)
(*                                                                         *)
(* The two theorems about firing need that an occurrence, stored as an     *)
(* instant, reads back as no earlier one (StoredWell), and one of them     *)
(* that the wall clock does not go back (NeverBack): Scheduler_spring.cfg  *)
(* and Scheduler_toggle.cfg show what happens without.                     *)
(***************************************************************************)
EXTENDS Scheduler, WellFoundedInduction, TLAPS

\* to_epoch_ms and back: true unless spring skips an occurrence west of UTC.
StoredWell == \A r \in Rules : \A t \in Due[r] : t <= FromEpoch(ToEpoch(t))

\* No hour comes twice while the model runs.
NeverBack ==
    \A i \in Instants : StartAt <= i /\ i + 1 \in Instants => Local(i) <= Local(i + 1)

-----------------------------------------------------------------------------
(* Least and greatest elements.                                            *)

\* A set of natural numbers has a least one,
LEMMA LeastNat ==
  ASSUME NEW T \in SUBSET Nat, T # {}
  PROVE  \E x \in T : \A y \in T : x <= y
<1>1. PICK x \in T : \A y \in T : ~ (<<y, x>> \in OpToRel(<, Nat))
  BY NatLessThanWellFounded, WFMin, Zenon
<1>2. \A y \in T : ~ (y < x)  BY <1>1, Zenon DEF OpToRel
<1> QED BY <1>2

\* and a set of integers with an upper bound a greatest one.
LEMMA GreatestInt ==
  ASSUME NEW T \in SUBSET Int, T # {}, NEW b \in Int, \A y \in T : y <= b
  PROVE  Max(T) \in T /\ \A y \in T : y <= Max(T)
<1> DEFINE D == {b - y : y \in T}
<1>0. \A y \in T : b - y \in Nat  OBVIOUS
<1>1. D \in SUBSET Nat  BY <1>0
<1>5. D # {}  OBVIOUS
<1> HIDE DEF D
<1>2. PICK d \in D : \A e \in D : d <= e  BY <1>1, <1>5, LeastNat
<1>3. PICK x \in T : d = b - x  BY <1>2 DEF D
<1>4. ASSUME NEW y \in T PROVE x >= y
  <2>1. b - y \in D  BY DEF D
  <2> QED BY <1>2, <1>3, <2>1
<1> QED BY <1>3, <1>4 DEF Max

LEMMA LeastInstant ==
  ASSUME NEW T \in SUBSET Instants, T # {}
  PROVE  Min(T) \in T
<1>1. T \in SUBSET Nat  BY TimeAssumption DEF Instants
<1>2. PICK x \in T : \A y \in T : x <= y  BY <1>1, LeastNat
<1> QED BY <1>2 DEF Min

-----------------------------------------------------------------------------
(* Time.                                                                   *)

\* The previous occurrence is the last one that is not in the future.
LEMMA PrevOccIs ==
  ASSUME NEW r \in Rules, NEW i \in StartAt .. Horizon
  PROVE  LET t == PrevOcc(r, Local(i))
         IN  /\ t \in Due[r] /\ t \in Int /\ t <= Local(i)
             /\ \A o \in Due[r] : o <= Local(i) => o <= t
<1> DEFINE T == {o \in Due[r] : o <= Local(i)}
<1>1. Local(i) \in Int  BY TimeAssumption DEF Instants, Local
<1>2. T \in SUBSET Int  BY TimeAssumption
<1>3. T # {}  BY DueAssumption DEF Local
<1>4. \A o \in T : o <= Local(i)  OBVIOUS
<1>5. PrevOcc(r, Local(i)) = Max(T)  BY DEF PrevOcc
<1> HIDE DEF T
<1>6. Max(T) \in T /\ \A o \in T : o <= Max(T)
  BY <1>1, <1>2, <1>3, <1>4, GreatestInt
<1> QED BY <1>2, <1>5, <1>6 DEF T

LEMMA ToEpochType ==
  ASSUME NEW r \in Rules, NEW t \in Due[r]
  PROVE  ToEpoch(t) \in Instants
<1> DEFINE at == {i \in Instants : Local(i) = t}
<1>1. CASE at # {}
  <2>1. at \in SUBSET Instants  OBVIOUS
  <2>2. ToEpoch(t) = Min(at)  BY <1>1 DEF ToEpoch
  <2> HIDE DEF at
  <2>3. Min(at) \in at  BY <1>1, <2>1, LeastInstant
  <2> QED BY <2>1, <2>2, <2>3
<1>2. CASE at = {}
  <2>1. t \in Instants  BY <1>2, ClockAssumption DEF Local
  <2> QED BY <1>2, <2>1 DEF ToEpoch
<1> QED BY <1>1, <1>2

LEMMA FromEpochType == ASSUME NEW i \in Instants PROVE FromEpoch(i) \in Int
BY TimeAssumption DEF FromEpoch, Local, Instants

-----------------------------------------------------------------------------
(* Types.                                                                  *)

Entries == Records \cup {NoRecord}

TypeInv == TypeOK /\ clock \in StartAt .. Horizon

LEMMA Occurrence ==
  ASSUME TypeInv, NEW r \in Rules
  PROVE  LET t == PrevOcc(r, now)
         IN  /\ t \in Due[r] /\ t \in Int /\ t <= now /\ ToEpoch(t) \in Instants
             /\ \A o \in Due[r] : o <= now => o <= t
<1>1. clock \in StartAt .. Horizon  BY DEF TypeInv
<1> QED BY <1>1, PrevOccIs, ToEpochType DEF now

LEMMA VisitedType ==
  ASSUME TypeInv, NEW e \in Entries, NEW r \in Rules \cup {Off, Gone}
  PROVE  Visited(e, r) \in Entries
<1>0. Off # Gone /\ Off \notin Rules /\ Gone \notin Rules  BY NamesAssumption DEF Off, Gone
<1>1. CASE r = Gone  BY <1>0, <1>1 DEF Visited, Entries
<1>2. CASE r = Off
  <2>1. Visited(e, r) = Cleared(e)  BY <1>0, <1>2 DEF Visited
  <2> QED BY <2>1 DEF Cleared, Entries, Records
<1>3. CASE r # Gone /\ r # Off
  <2> DEFINE at == ToEpoch(PrevOcc(r, now))
  <2>1. r \in Rules  BY <1>3
  <2>2. at \in Instants  BY <2>1, Occurrence
  <2>3. RanOf(e) \in Instants \cup {Never} /\ OutcomeOf(e) \in {"none", "launched", "refused"}
    BY DEF RanOf, OutcomeOf, Entries, Records
  <2> HIDE DEF at
  <2>4. \A o \in {"none", "launched", "refused"} : Record(at, RanOf(e), o, r) \in Records
    BY <2>1, <2>2, <2>3 DEF Record, Records
  <2>5. \/ Visited(e, r) = Record(at, RanOf(e), OutcomeOf(e), r)
        \/ Visited(e, r) = Record(at, RanOf(e), "none", r)
        \/ Visited(e, r) = e
    BY <1>3, <2>1, <1>0 DEF Visited, at, Fires
  <2> QED BY <2>3, <2>4, <2>5 DEF Entries
<1> QED BY <1>1, <1>2, <1>3

\* A tick writes a map, of what it read or of nothing.
LEMMA TickMaps ==
  ASSUME TypeInv, NEW map \in {disk, Empty}
  PROVE  map \in Maps /\ [s \in Skills |-> Visited(map[s], rule[s])] \in Maps
<1>1. map \in Maps  BY DEF TypeInv, TypeOK, Maps, Empty
<1>2. \A s \in Skills : map[s] \in Entries  BY <1>1 DEF Maps, Entries
<1>3. \A s \in Skills : rule[s] \in Rules \cup {Off, Gone}  BY DEF TypeInv, TypeOK
<1>4. \A s \in Skills : Visited(map[s], rule[s]) \in Entries  BY <1>2, <1>3, VisitedType
<1> QED BY <1>1, <1>4 DEF Maps, Entries

LEMMA AckedType ==
  ASSUME TypeInv, NEW m \in acks, Accepts(disk[m.skill], m)
  PROVE  [disk EXCEPT ![m.skill] = Acked(@, m)] \in Maps
<1>1. m \in [skill : Skills, at : Instants, outcome : {"launched", "refused"}] /\ disk \in Maps
  BY DEF TypeInv, TypeOK
<1>2. disk[m.skill] \in Records  BY <1>1 DEF Accepts, Maps
<1>3. Acked(disk[m.skill], m) \in Records  BY <1>1, <1>2 DEF Acked, Records
<1> QED BY <1>1, <1>3 DEF Maps

LEMMA TypeInit == Init => TypeInv
<1> SUFFICES ASSUME Init PROVE TypeInv  OBVIOUS
<1>1. clock \in StartAt .. Horizon /\ clock \in Instants
  BY TimeAssumption DEF Init, Instants
<1>2. disk \in Maps  BY DEF Init, Maps, Empty
<1> QED BY <1>1, <1>2 DEF Init, TypeInv, TypeOK

LEMMA TypeStep == TypeInv /\ [Next]_vars => TypeInv'
<1> SUFFICES ASSUME TypeInv, [Next]_vars PROVE TypeInv'  OBVIOUS
<1> USE DEF TypeInv, TypeOK
<1>1. CASE Advance
  BY <1>1, TimeAssumption DEF Advance, Instants, file, tick, window, ghosts
<1>2. CASE WindowReady  BY <1>2 DEF WindowReady, file, window, ghosts
<1>3. CASE Tick
  <2>1. PICK map \in {disk, Empty} :
          /\ view' \in {<<[s \in Skills |-> Visited(map[s], rule[s])]>>, <<>>}
          /\ emits' = {<<s, rule[s], PrevOcc(rule[s], now)>> :
                         s \in {s \in Skills : rule[s] \in Rules /\ Fires(map[s], rule[s])}}
    BY <1>3 DEF Tick
  <2>2. view' = <<>> \/ view'[1] \in Maps  BY <2>1, TickMaps
  <2>3. \A e \in emits' : <<e[1], ToEpoch(e[3])>> \in Skills \X Instants
    BY <2>1, Occurrence
  <2>4. fires' \subseteq Skills \X Instants  BY <1>3, <2>3 DEF Tick
  <2> QED BY <1>3, <2>2, <2>4 DEF Tick, file
<1>4. CASE Save  BY <1>4 DEF Save, window
<1>5. CASE AckWrites  BY <1>5 DEF AckWrites, tick, window
<1>6. CASE Stop  BY <1>6 DEF Stop, file
<1>7. ASSUME NEW s \in Skills, NEW r \in Rules \cup {Off, Gone}, EditSchedule(s, r) PROVE TypeInv'
  BY <1>7 DEF EditSchedule, tick, window, ghosts
<1>8. ASSUME NEW s \in Skills, NEW from \in {"idle", "working"}, NEW to \in {"idle", "working"},
             TileMoves(s, from, to)
      PROVE  TypeInv'
  BY <1>8 DEF TileMoves, file, tick, ghosts
<1>9. ASSUME NEW f \in fires, NEW outcome \in {"launched", "refused"}, Answer(f, outcome)
      PROVE  /\ fires' \subseteq Skills \X Instants
             /\ acks' \subseteq [skill : Skills, at : Instants, outcome : {"launched", "refused"}]
  BY <1>9 DEF Answer
<1>10. ASSUME NEW f \in fires, Refuse(f) PROVE TypeInv'
  BY <1>9, <1>10 DEF Refuse, file, tick, ghosts
<1>11. ASSUME NEW f \in fires, Launch(f) PROVE TypeInv'
  BY <1>9, <1>11 DEF Launch, file, tick, ghosts
<1>12. ASSUME NEW m \in acks, AckReads(m) PROVE TypeInv'
  BY <1>12, AckedType DEF AckReads, file, tick, ghosts
<1>13. CASE UNCHANGED vars  BY <1>13 DEF vars, file, tick, window, ghosts
<1> QED BY <1>1, <1>2, <1>3, <1>4, <1>5, <1>6, <1>7, <1>8, <1>10, <1>11, <1>12, <1>13 DEF Next

LEMMA Typed == Spec => []TypeInv
BY TypeInit, TypeStep, PTL DEF Spec

\* Every variable keeps its type: what a tick stores is an instant of the
\* clock, whatever the offset (to_epoch_ms), and every writer writes a whole map.
THEOREM TypeCorrect == Spec => []TypeOK
<1>1. TypeInv => TypeOK  BY DEF TypeInv
<1> QED BY <1>1, Typed, PTL

-----------------------------------------------------------------------------
(* lastRun.  Whoever is to write the file, the loop or schedule_ack, holds *)
(* a map that is true, and an ack on its way speaks of a launch.           *)

RanIn(map, done) ==
    \A s \in Skills : map[s] # NoRecord /\ map[s].ran # Never => <<s, map[s].ran>> \in done

RanInv ==
    /\ RanIn(disk, launched)
    /\ view # <<>> => RanIn(view[1], launched)
    /\ acking # <<>> => RanIn(acking[1], launched)
    /\ \A m \in acks : m.outcome = "launched" => <<m.skill, m.at>> \in launched

LEMMA RanInMore ==
  ASSUME NEW map, NEW done, NEW more, done \subseteq more, RanIn(map, done)
  PROVE  RanIn(map, more)
BY DEF RanIn

\* A tick keeps what it read of the past.
LEMMA VisitedRan ==
  ASSUME TypeInv, NEW e \in Entries, NEW r \in Rules \cup {Off, Gone},
         Visited(e, r) # NoRecord, Visited(e, r).ran # Never
  PROVE  e # NoRecord /\ Visited(e, r).ran = e.ran
<1>0. Off # Gone /\ Off \notin Rules /\ Gone \notin Rules  BY NamesAssumption DEF Off, Gone
<1>1. r # Gone  BY <1>0 DEF Visited
<1>2. CASE r = Off
  <2>1. Visited(e, r) = Cleared(e)  BY <1>0, <1>2 DEF Visited
  <2>2. e # NoRecord  BY <2>1 DEF Cleared
  <2>3. Visited(e, r) = [e EXCEPT !.rule = NoRule] /\ e \in Records
    BY <2>1, <2>2 DEF Cleared, Entries
  <2> QED BY <2>2, <2>3 DEF Records
<1>3. CASE r \in Rules
  <2> DEFINE at == ToEpoch(PrevOcc(r, now))
  <2>1. \/ Visited(e, r) = Record(at, RanOf(e), OutcomeOf(e), r)
        \/ Visited(e, r) = Record(at, RanOf(e), "none", r)
        \/ Visited(e, r) = e /\ ~ Arms(e, r)
    BY <1>0, <1>3 DEF Visited
  <2> HIDE DEF at
  <2>2. CASE Visited(e, r) = e /\ ~ Arms(e, r)  BY <2>2 DEF Arms
  <2>3. CASE \E o : Visited(e, r) = Record(at, RanOf(e), o, r)
    BY <2>3 DEF Record, RanOf
  <2> QED BY <2>1, <2>2, <2>3
<1> QED BY <1>1, <1>2, <1>3

LEMMA TickRan ==
  ASSUME TypeInv, RanIn(disk, launched), NEW map \in {disk, Empty}
  PROVE  RanIn([s \in Skills |-> Visited(map[s], rule[s])], launched)
<1>1. RanIn(map, launched)  BY DEF RanIn, Empty
<1>2. map \in Maps  BY TickMaps
<1>3. SUFFICES ASSUME NEW s \in Skills, Visited(map[s], rule[s]) # NoRecord,
                      Visited(map[s], rule[s]).ran # Never
               PROVE  <<s, Visited(map[s], rule[s]).ran>> \in launched
  BY DEF RanIn
<1>4. map[s] \in Entries /\ rule[s] \in Rules \cup {Off, Gone}
  BY <1>2 DEF Maps, Entries, TypeInv, TypeOK
<1>5. map[s] # NoRecord /\ Visited(map[s], rule[s]).ran = map[s].ran
  BY <1>3, <1>4, VisitedRan
<1> QED BY <1>1, <1>3, <1>5 DEF RanIn

\* An accepted ack of a launch names the attempt that was launched.
LEMMA AckedRan ==
  ASSUME TypeInv, RanInv, NEW m \in acks, Accepts(disk[m.skill], m)
  PROVE  RanIn([disk EXCEPT ![m.skill] = Acked(@, m)], launched)
<1>1. m.skill \in Skills /\ disk \in Maps  BY DEF TypeInv, TypeOK
<1>2. disk[m.skill] \in Records  BY <1>1 DEF Maps, Accepts
<1>3. Acked(disk[m.skill], m).ran =
        IF m.outcome = "launched" THEN m.at ELSE disk[m.skill].ran
  BY <1>2 DEF Acked, Records
<1>4. Acked(disk[m.skill], m).ran # Never => <<m.skill, Acked(disk[m.skill], m).ran>> \in launched
  BY <1>1, <1>3 DEF RanInv, RanIn, Accepts
<1> QED BY <1>1, <1>4 DEF RanInv, RanIn, Maps

LEMMA RanStep == TypeInv /\ RanInv /\ [Next]_vars => RanInv'
<1> SUFFICES ASSUME TypeInv, RanInv, [Next]_vars PROVE RanInv'  OBVIOUS
<1>1. CASE Tick
  <2>1. PICK map \in {disk, Empty} :
          view' \in {<<[s \in Skills |-> Visited(map[s], rule[s])]>>, <<>>}
    BY <1>1 DEF Tick
  <2>2. view' # <<>> => RanIn(view'[1], launched)  BY <2>1, TickRan DEF RanInv
  <2> QED BY <1>1, <2>2 DEF Tick, RanInv, file
<1>2. CASE Save  BY <1>2 DEF Save, RanInv, window
<1>3. CASE AckWrites  BY <1>3 DEF AckWrites, RanInv, tick, window
<1>4. CASE Stop  BY <1>4 DEF Stop, RanInv, file
<1>5. ASSUME NEW f \in fires, Refuse(f) PROVE RanInv'
  BY <1>5 DEF Refuse, Answer, RanInv, file, tick
<1>6. ASSUME NEW f \in fires, Launch(f) PROVE RanInv'
  <2>1. launched' = launched \cup {f} /\ UNCHANGED <<disk, view, acking>>
    BY <1>6 DEF Launch, file, tick
  <2>2. f = <<f[1], f[2]>>  BY DEF TypeInv, TypeOK
  <2>3. \A m \in acks' : m.outcome = "launched" => <<m.skill, m.at>> \in launched'
    BY <1>6, <2>1, <2>2 DEF Launch, Answer, RanInv
  <2> QED BY <2>1, <2>3, RanInMore DEF RanInv
<1>7. ASSUME NEW m \in acks, AckReads(m) PROVE RanInv'
  <2>1. acking' # <<>> => RanIn(acking'[1], launched)  BY <1>7, AckedRan DEF AckReads
  <2> QED BY <1>7, <2>1 DEF AckReads, RanInv, file, tick
<1>8. CASE UNCHANGED <<disk, view, acking, acks, launched>>  BY <1>8 DEF RanInv
<1>9. ASSUME NEW s \in Skills, NEW r \in Rules \cup {Off, Gone}, EditSchedule(s, r) PROVE RanInv'
  BY <1>8, <1>9 DEF EditSchedule, tick, window
<1>10. ASSUME NEW s \in Skills, NEW from, NEW to, TileMoves(s, from, to) PROVE RanInv'
  BY <1>8, <1>10 DEF TileMoves, file, tick
<1>11. CASE Advance \/ WindowReady \/ UNCHANGED vars
  BY <1>8, <1>11 DEF Advance, WindowReady, vars, file, tick, window
<1> QED BY <1>1, <1>2, <1>3, <1>4, <1>5, <1>6, <1>7, <1>9, <1>10, <1>11 DEF Next

\* `lastRun` of every scenario is Never or an occurrence the window opened a
\* tile for, on every clock, whatever acks are late, lost or refused and
\* whichever of the two writers of schedule_state.json comes last.
THEOREM LastRunWasLaunchedAlways == Spec => []LastRunWasLaunched
<1>1. Init => RanInv  BY DEF Init, RanInv, RanIn, Empty
<1>2. RanInv => LastRunWasLaunched  BY DEF RanInv, RanIn, LastRunWasLaunched
<1> QED BY <1>1, <1>2, RanStep, Typed, PTL DEF Spec

-----------------------------------------------------------------------------
(* Firing.  A record answers for what the ticks saw: it has the rule they  *)
(* saw last, and is not behind any occurrence that was past when they saw  *)
(* it first.  Both hold of the map a tick has yet to write as well, and    *)
(* neither of a scenario whose record was lost.                            *)

InRule(e, r) == e # NoRecord /\ e.rule = r

Answers(e, a) ==
    /\ \A r \in Rules : InRule(e, r) <=> a[1] = r
    /\ a[1] \in Rules => \A o \in Due[a[1]] : o <= a[2] => o <= FromEpoch(e.attempt)

\* What a save will leave on disk.
Coming == IF view = <<>> THEN disk ELSE view[1]

ArmedInv ==
    /\ armed \in [Skills -> (Rules \cup {Off, Gone}) \X Int]
    /\ noted \in [Skills -> (Rules \cup {Off, Gone}) \X Int]
    /\ \A s \in Skills \ lost : Answers(disk[s], armed[s])
    /\ loop = "saving" => \A s \in Skills \ lost : Answers(Coming[s], noted[s])
    /\ loop # "saving" => view = <<>> /\ emits = {}
    /\ FiresOnlySinceArmed
    /\ \A e \in emits : e[1] \in Skills

\* A record with the same gate answers for the same.
LEMMA GateAnswers ==
  ASSUME NEW e, NEW f, SameGate(e, f), NEW a, Answers(e, a)
  PROVE  Answers(f, a)
<1>1. CASE e = f  BY <1>1
<1>2. CASE e # NoRecord /\ f # NoRecord /\ e.attempt = f.attempt /\ e.rule = f.rule
  BY <1>2 DEF Answers, InRule
<1> QED BY <1>1, <1>2 DEF SameGate

\* What a tick makes of a record: cleared, armed, fired, or as it was.
LEMMA VisitedCases ==
  ASSUME NEW e \in Entries, NEW r \in Rules \cup {Off, Gone}
  PROVE  LET at == ToEpoch(PrevOcc(r, now)) IN
         \/ r \notin Rules /\ \A q \in Rules : ~ InRule(Visited(e, r), q)
         \/ /\ r \in Rules /\ Arms(e, r) /\ Visited(e, r) = Record(at, RanOf(e), OutcomeOf(e), r)
         \/ /\ r \in Rules /\ Fires(e, r) /\ Visited(e, r) = Record(at, RanOf(e), "none", r)
         \/ /\ r \in Rules /\ ~ Fires(e, r) /\ Visited(e, r) = e /\ InRule(e, r)
<1>0. Off # Gone /\ Off \notin Rules /\ Gone \notin Rules /\ NoRule \notin Rules
  BY NamesAssumption DEF Off, Gone
<1>1. CASE r = Gone  BY <1>0, <1>1 DEF Visited, InRule
<1>2. CASE r = Off
  <2>1. Visited(e, r) = Cleared(e)  BY <1>0, <1>2 DEF Visited
  <2> QED BY <1>0, <1>2, <2>1 DEF Cleared, Entries, Records, InRule
<1>3. CASE r \in Rules
  <2> DEFINE at == ToEpoch(PrevOcc(r, now))
  <2>1. CASE Arms(e, r)
    <3>1. ~ Fires(e, r)  BY <2>1 DEF Fires
    <3>2. Visited(e, r) = Record(at, RanOf(e), OutcomeOf(e), r)
      BY <1>0, <1>3, <2>1, <3>1 DEF Visited
    <3> QED BY <1>3, <2>1, <3>2
  <2>2. CASE ~ Arms(e, r) /\ Fires(e, r)
    <3>1. Visited(e, r) = Record(at, RanOf(e), "none", r)  BY <1>0, <1>3, <2>2 DEF Visited
    <3> QED BY <1>3, <2>2, <3>1
  <2>3. CASE ~ Arms(e, r) /\ ~ Fires(e, r)
    <3>1. Visited(e, r) = e  BY <1>0, <1>3, <2>3 DEF Visited
    <3> QED BY <1>3, <2>3, <3>1 DEF Arms, InRule
  <2> QED BY <2>1, <2>2, <2>3
<1> QED BY <1>1, <1>2, <1>3

\* A fired or armed record is at the last occurrence, read back no earlier.
LEMMA RecordIsCurrent ==
  ASSUME TypeInv, StoredWell, NEW r \in Rules, NEW f \in Entries,
         NEW out \in {"none", "launched", "refused"},
         NEW e \in Entries, e = Record(ToEpoch(PrevOcc(r, now)), RanOf(f), out, r)
  PROVE  /\ \A q \in Rules : InRule(e, q) <=> q = r
         /\ PrevOcc(r, now) <= FromEpoch(e.attempt)
         /\ \A o \in Due[r] : o <= now => o <= FromEpoch(e.attempt)
<1> DEFINE t == PrevOcc(r, now)
<1>1. t \in Due[r] /\ t \in Int /\ ToEpoch(t) \in Instants /\ \A o \in Due[r] : o <= now => o <= t
  BY Occurrence
<1>2. t <= FromEpoch(ToEpoch(t)) /\ FromEpoch(ToEpoch(t)) \in Int
  BY <1>1, FromEpochType DEF StoredWell
<1>3. e.attempt = ToEpoch(t) /\ e.rule = r  BY DEF Record
<1>4. \A o \in Due[r] : o \in Int  BY TimeAssumption
<1>5. RanOf(f) \in Instants \cup {Never}  BY DEF RanOf, Entries, Records
<1> HIDE DEF t
<1>6. e # NoRecord
  <2>1. e = Record(ToEpoch(t), RanOf(f), out, r)  BY DEF t
  <2>2. e \in Records  BY <1>1, <1>5, <2>1 DEF Record, Records
  <2> QED BY <2>2, NoRecordAssumption
<1>7. \A o \in Due[r] : o <= now => o <= FromEpoch(e.attempt)  BY <1>1, <1>2, <1>3, <1>4
<1> QED BY <1>2, <1>3, <1>6, <1>7 DEF InRule, t

\* So what a tick leaves answers for what it saw.
LEMMA VisitedAnswers ==
  ASSUME TypeInv, StoredWell, NEW s \in Skills, NEW e \in Entries, Answers(e, armed[s]),
         armed[s] \in (Rules \cup {Off, Gone}) \X Int
  PROVE  Answers(Visited(e, rule[s]), Noted(s))
<1> DEFINE r == rule[s]
           v == Visited(e, r)
           t == PrevOcc(r, now)
<1>0. r \in Rules \cup {Off, Gone}  BY DEF TypeInv, TypeOK
<1>1. Noted(s)[1] = r /\ Noted(s) \in {armed[s], <<r, now>>}  BY DEF Noted
<1>2. OutcomeOf(e) \in {"none", "launched", "refused"}  BY DEF OutcomeOf, Entries, Records
<1>3. v \in Entries  BY <1>0, VisitedType
<1>4. CASE r \notin Rules /\ \A q \in Rules : ~ InRule(v, q)
  BY <1>1, <1>4 DEF Answers
<1>5. CASE r \in Rules /\ Arms(e, r) /\ v = Record(ToEpoch(t), RanOf(e), OutcomeOf(e), r)
  <2>1. \A q \in Rules : InRule(v, q) <=> q = r
    BY <1>2, <1>3, <1>5, RecordIsCurrent
  <2>2. \A o \in Due[r] : o <= now => o <= FromEpoch(v.attempt)
    BY <1>2, <1>3, <1>5, RecordIsCurrent
  <2>3. armed[s][1] # r  BY <1>5 DEF Answers, InRule, Arms
  <2>4. Noted(s) = <<r, now>>  BY <2>3 DEF Noted
  <2> HIDE DEF v, r, t
  <2>5. Answers(v, <<r, now>>)  BY <1>5, <2>1, <2>2 DEF Answers
  <2> QED BY <2>4, <2>5 DEF v, r
<1>6. CASE r \in Rules /\ Fires(e, r) /\ v = Record(ToEpoch(t), RanOf(e), "none", r)
  <2>1. \A q \in Rules : InRule(v, q) <=> q = r
    BY <1>3, <1>6, RecordIsCurrent
  <2>2. /\ \A o \in Due[r] : o <= now => o <= FromEpoch(v.attempt)
        /\ t <= FromEpoch(v.attempt)
    BY <1>3, <1>6, RecordIsCurrent
  <2>3. e \in Records /\ InRule(e, r) /\ FromEpoch(e.attempt) < t
    BY <1>6 DEF Fires, Arms, InRule, Entries
  <2>4. armed[s][1] = r  BY <1>6, <2>3 DEF Answers
  <2>5. Noted(s) = armed[s]  BY <2>4 DEF Noted
  <2>6. \A o \in Due[r] : o <= armed[s][2] => o <= FromEpoch(e.attempt)
    BY <1>6, <2>4 DEF Answers
  <2>7. e.attempt \in Instants /\ v.attempt = ToEpoch(t) /\ ToEpoch(t) \in Instants /\ t \in Int
    BY <1>6, <2>3, Occurrence DEF Records, Record
  <2>8. FromEpoch(e.attempt) \in Int /\ FromEpoch(v.attempt) \in Int
    BY <2>7, FromEpochType
  <2>9. \A o \in Due[r] : o \in Int  BY <1>6, TimeAssumption
  <2> HIDE DEF v, r, t
  <2>10. \A o \in Due[r] : o <= armed[s][2] => o <= FromEpoch(v.attempt)
    BY <2>2, <2>3, <2>6, <2>8, <2>9, <2>7
  <2>11. Answers(v, armed[s])  BY <1>6, <2>1, <2>4, <2>10 DEF Answers
  <2> QED BY <2>5, <2>11 DEF v, r
<1>7. CASE r \in Rules /\ v = e /\ InRule(e, r)
  <2>1. armed[s][1] = r  BY <1>7 DEF Answers
  <2>2. Noted(s) = armed[s]  BY <2>1 DEF Noted
  <2> QED BY <1>7, <2>2
<1> QED BY <1>0, <1>4, <1>5, <1>6, <1>7, VisitedCases

\* What a tick fires of a record that answers is later than what it was armed with.
LEMMA FiresLater ==
  ASSUME TypeInv, NEW s \in Skills, NEW e \in Entries, Answers(e, armed[s]),
         armed[s] \in (Rules \cup {Off, Gone}) \X Int,
         rule[s] \in Rules, Fires(e, rule[s])
  PROVE  rule[s] = armed[s][1] /\ PrevOcc(rule[s], now) > armed[s][2]
<1> DEFINE r == rule[s]
           t == PrevOcc(r, now)
<1>1. e \in Records /\ InRule(e, r) /\ FromEpoch(e.attempt) < t
  BY DEF Fires, Arms, InRule, Entries
<1>2. armed[s][1] = r  BY <1>1 DEF Answers
<1>3. t \in Due[r] /\ t \in Int  BY Occurrence
<1>4. FromEpoch(e.attempt) \in Int  BY <1>1, FromEpochType DEF Records
<1> HIDE DEF t
<1>5. t <= armed[s][2] => t <= FromEpoch(e.attempt)  BY <1>2, <1>3 DEF Answers
<1> QED BY <1>1, <1>2, <1>3, <1>4, <1>5 DEF t

\* What a tick reads of a scenario that is not lost is what is on disk, and what
\* is to come is what it made of that, whether or not there is anything to write.
LEMMA TickOf ==
  ASSUME TypeInv, Tick, NEW s \in Skills, s \notin lost'
  PROVE  /\ s \notin lost /\ disk[s] \in Entries
         /\ Coming'[s] = Visited(disk[s], rule[s])
         /\ \A e \in emits' : e[1] = s =>
              /\ e = <<s, rule[s], PrevOcc(rule[s], now)>>
              /\ rule[s] \in Rules /\ Fires(disk[s], rule[s])
<1>1. PICK map \in {disk, Empty} :
        LET owed == {k \in Skills : rule[k] \in Rules /\ Fires(map[k], rule[k])}
            next == [k \in Skills |-> Visited(map[k], rule[k])]
        IN  /\ lost' = lost \cup {k \in Skills : map[k] # disk[k]}
            /\ view' = IF owed # {} \/ next # map THEN <<next>> ELSE <<>>
            /\ emits' = {<<k, rule[k], PrevOcc(rule[k], now)>> : k \in owed}
  BY DEF Tick
<1>2. map[s] = disk[s] /\ s \notin lost  BY <1>1
<1>3. disk \in Maps /\ UNCHANGED disk  BY DEF TypeInv, TypeOK, Tick, file
<1>4. Coming'[s] = Visited(map[s], rule[s])
  <2> DEFINE next == [k \in Skills |-> Visited(map[k], rule[k])]
  <2>1. \/ view' = <<next>>
        \/ view' = <<>> /\ next = map
    BY <1>1
  <2>2. next[s] = Visited(map[s], rule[s])  OBVIOUS
  <2> HIDE DEF next
  <2>3. CASE view' = <<next>>  BY <2>2, <2>3 DEF Coming
  <2>4. CASE view' = <<>> /\ next = map  BY <1>2, <1>3, <2>2, <2>4 DEF Coming
  <2> QED BY <2>1, <2>3, <2>4
<1>5. \A e \in emits' : e[1] = s =>
        /\ e = <<s, rule[s], PrevOcc(rule[s], now)>>
        /\ rule[s] \in Rules /\ Fires(map[s], rule[s])
  BY <1>1
<1> QED BY <1>2, <1>3, <1>4, <1>5 DEF Maps, Entries

\* Whoever the tick fires is a scenario.
LEMMA TickEmits ==
  ASSUME TypeInv, Tick
  PROVE  /\ \A e \in emits' : e[1] \in Skills /\ e[2] \in Rules /\ e = <<e[1], e[2], PrevOcc(e[2], now)>>
         /\ lost \subseteq lost' /\ loop' = "saving"
         /\ UNCHANGED <<clock, rule, disk, armed>>
         /\ fired' = fired \cup emits' /\ twice' = twice \cup (emits' \cap fired)
         /\ noted' = [s \in Skills |-> Noted(s)]
BY DEF Tick, file

\* The three ends of a tick.
LEMMA SaveCases ==
  ASSUME Save
  PROVE  /\ loop' # "saving" /\ view' = <<>> /\ emits' = {} /\ loop = "saving"
         /\ UNCHANGED <<clock, rule, noted, fired, twice>>
         /\ \/ UNCHANGED lost /\ disk' = Coming /\ armed' = noted
            \/ /\ UNCHANGED <<disk, armed>>
               /\ lost' = lost \cup {s \in Skills : ~ SameGate(disk[s], Coming[s])}
BY DEF Save, Coming

LEMMA AckWritesCases ==
  ASSUME AckWrites
  PROVE  /\ UNCHANGED <<clock, rule, loop, view, armed, noted, emits, fired, twice>>
         /\ \/ lost' = lost \cup {s \in Skills : ~ SameGate(disk[s], disk'[s])}
            \/ UNCHANGED <<disk, lost>>
BY DEF AckWrites, tick, file

LEMMA OtherSteps ==
  ASSUME [Next]_vars, ~ Tick, ~ Save, ~ AckWrites, ~ Stop
  PROVE  /\ UNCHANGED <<disk, view, armed, noted, emits, fired, twice, lost>>
         /\ loop' = "saving" <=> loop = "saving"
         /\ UNCHANGED clock \/ Advance
<1>1. CASE Advance \/ WindowReady \/ UNCHANGED vars
  BY <1>1 DEF Advance, WindowReady, vars, file, tick, window, ghosts
<1>2. ASSUME NEW s \in Skills, NEW r \in Rules \cup {Off, Gone}, EditSchedule(s, r)
      PROVE  UNCHANGED <<clock, disk, view, armed, noted, emits, fired, twice, lost, loop>>
  BY <1>2 DEF EditSchedule, tick, window, ghosts
<1>3. ASSUME NEW s \in Skills, NEW from, NEW to, TileMoves(s, from, to)
      PROVE  UNCHANGED <<clock, disk, view, armed, noted, emits, fired, twice, lost, loop>>
  BY <1>3 DEF TileMoves, file, tick, ghosts
<1>4. ASSUME NEW f \in fires, Refuse(f) \/ Launch(f)
      PROVE  UNCHANGED <<clock, disk, view, armed, noted, emits, fired, twice, lost, loop>>
  BY <1>4 DEF Refuse, Launch, file, tick, ghosts
<1>5. ASSUME NEW m \in acks, AckReads(m)
      PROVE  UNCHANGED <<clock, disk, view, armed, noted, emits, fired, twice, lost, loop>>
  BY <1>5 DEF AckReads, file, tick, ghosts
<1> QED BY <1>1, <1>2, <1>3, <1>4, <1>5 DEF Next

LEMMA ArmedStep ==
  ASSUME StoredWell, TypeInv, ArmedInv, [Next]_vars
  PROVE  ArmedInv'
<1> DEFINE Marks == [Skills -> (Rules \cup {Off, Gone}) \X Int]
<1>1. CASE Tick
  <2>1. noted' \in Marks
    <3>1. \A s \in Skills : Noted(s) \in (Rules \cup {Off, Gone}) \X Int
      BY TimeAssumption DEF Noted, ArmedInv, TypeInv, TypeOK, now, Local
    <3> QED BY <1>1, <3>1, TickEmits
  <2>2. \A s \in Skills \ lost' : Answers(disk'[s], armed'[s])
    BY <1>1, TickEmits DEF ArmedInv
  <2>3. ASSUME NEW s \in Skills \ lost' PROVE Answers(Coming'[s], noted'[s])
    <3>1. s \notin lost /\ disk[s] \in Entries /\ Coming'[s] = Visited(disk[s], rule[s])
      BY <1>1, TickOf
    <3>2. Answers(disk[s], armed[s]) /\ armed[s] \in (Rules \cup {Off, Gone}) \X Int
      BY <3>1 DEF ArmedInv
    <3>3. noted'[s] = Noted(s)  BY <1>1, TickEmits
    <3> QED BY <3>1, <3>2, <3>3, VisitedAnswers
  <2>4. ASSUME NEW e \in emits', e[1] \notin lost'
        PROVE  e[2] = armed'[e[1]][1] /\ e[3] > armed'[e[1]][2]
    <3> DEFINE s == e[1]
    <3>0. s \in Skills  BY <1>1, TickEmits
    <3>1. /\ s \notin lost /\ disk[s] \in Entries
          /\ e = <<s, rule[s], PrevOcc(rule[s], now)>>
          /\ rule[s] \in Rules /\ Fires(disk[s], rule[s])
      BY <1>1, <2>4, <3>0, TickOf
    <3>2. Answers(disk[s], armed[s]) /\ armed[s] \in (Rules \cup {Off, Gone}) \X Int
      BY <3>0, <3>1 DEF ArmedInv
    <3>3. rule[s] = armed[s][1] /\ PrevOcc(rule[s], now) > armed[s][2]
      BY <3>0, <3>1, <3>2, FiresLater
    <3>4. armed' = armed  BY <1>1, TickEmits
    <3>5. e[2] = rule[s] /\ e[3] = PrevOcc(rule[s], now)  BY <3>1
    <3> QED BY <3>3, <3>4, <3>5
  <2> QED BY <1>1, <2>1, <2>2, <2>3, <2>4, TickEmits DEF ArmedInv, FiresOnlySinceArmed
<1>2. CASE Save
  <2>1. \A s \in Skills \ lost' : Answers(disk'[s], armed'[s])
    BY <1>2, SaveCases DEF ArmedInv
  <2>2. armed' \in Marks /\ noted' \in Marks  BY <1>2, SaveCases DEF ArmedInv
  <2> QED BY <1>2, <2>1, <2>2, SaveCases DEF ArmedInv, FiresOnlySinceArmed
<1>3. CASE AckWrites
  <2>1. \A s \in Skills \ lost' : Answers(disk'[s], armed'[s])
    BY <1>3, AckWritesCases, GateAnswers DEF ArmedInv
  <2>2. ASSUME loop' = "saving", NEW s \in Skills \ lost' PROVE Answers(Coming'[s], noted'[s])
    BY <1>3, <2>2, AckWritesCases, GateAnswers DEF ArmedInv, Coming
  <2> QED BY <1>3, <2>1, <2>2, AckWritesCases DEF ArmedInv, FiresOnlySinceArmed
<1>4. CASE Stop
  BY <1>4 DEF Stop, ArmedInv, FiresOnlySinceArmed, file
<1>5. CASE ~ Tick /\ ~ Save /\ ~ AckWrites /\ ~ Stop
  BY <1>5, OtherSteps DEF ArmedInv, FiresOnlySinceArmed, Coming
<1> QED BY <1>1, <1>2, <1>3, <1>4, <1>5

LEMMA ArmedInit == Init => ArmedInv
<1> SUFFICES ASSUME Init PROVE ArmedInv  OBVIOUS
<1>1. Off \notin Rules  BY NamesAssumption
<1>2. \A s \in Skills : disk[s] = NoRecord /\ armed[s] = <<Off, 0>>  BY DEF Init, Empty
<1>3. \A s \in Skills : Answers(disk[s], armed[s])  BY <1>1, <1>2 DEF Answers, InRule
<1> QED BY <1>3 DEF Init, ArmedInv, FiresOnlySinceArmed

LEMMA Armed == ASSUME StoredWell PROVE Spec => []ArmedInv
<1>1. TypeInv /\ ArmedInv /\ [Next]_vars => ArmedInv'  BY ArmedStep
<1> QED BY <1>1, ArmedInit, Typed, PTL DEF Spec

\* What fires is later than the last time a tick saw that scenario under
\* another rule, or off, unless its record was misread or set back: "a changed
\* or resumed rule owes nothing yet" (decide), on every clock in which what is
\* stored reads back no earlier.
THEOREM FiresOnlySinceArmedAlways ==
  ASSUME StoredWell
  PROVE  Spec => []FiresOnlySinceArmed
<1>1. ArmedInv => FiresOnlySinceArmed  BY DEF ArmedInv
<1> QED BY <1>1, Armed, PTL

-----------------------------------------------------------------------------
(* Firing twice.  What was fired is past, and the record of its scenario,  *)
(* if it still is under that rule, is not behind it.                       *)

Covers(e, x) == InRule(e, x[2]) => x[3] <= FromEpoch(e.attempt)

IsPast(x, t) ==
    x[1] \in Skills /\ x[2] \in Rules /\ x[3] \in Due[x[2]] /\ x[3] <= t

FiredInv ==
    /\ \A x \in fired : IsPast(x, now)
    /\ \A x \in fired \ emits : x[1] \notin lost => Covers(disk[x[1]], x)
    /\ loop = "saving" => \A x \in fired : x[1] \notin lost => Covers(Coming[x[1]], x)
    /\ FiredAgainOnlyIfLost

LEMMA GateCovers ==
  ASSUME NEW e, NEW f, SameGate(e, f) \/ SameGate(f, e), NEW x, Covers(e, x)
  PROVE  Covers(f, x)
BY DEF SameGate, Covers, InRule

LEMMA VisitedCovers ==
  ASSUME TypeInv, StoredWell, NEW s \in Skills, NEW e \in Entries,
         NEW x, IsPast(x, now), Covers(e, x)
  PROVE  Covers(Visited(e, rule[s]), x)
<1> DEFINE r == rule[s]
           v == Visited(e, r)
           at == ToEpoch(PrevOcc(r, now))
<1>0. r \in Rules \cup {Off, Gone}  BY DEF TypeInv, TypeOK
<1>1. v \in Entries  BY <1>0, VisitedType
<1>2. OutcomeOf(e) \in {"none", "launched", "refused"}  BY DEF OutcomeOf, Entries, Records
<1>3. CASE \A q \in Rules : ~ InRule(v, q)  BY <1>3 DEF Covers, IsPast
<1>4. ASSUME r \in Rules, NEW o \in {"none", "launched", "refused"}, v = Record(at, RanOf(e), o, r)
      PROVE  Covers(v, x)
  <2>1. \A q \in Rules : InRule(v, q) <=> q = r  BY <1>1, <1>4, RecordIsCurrent
  <2>2. \A d \in Due[r] : d <= now => d <= FromEpoch(v.attempt)
    BY <1>1, <1>4, RecordIsCurrent
  <2> HIDE DEF v, r
  <2> QED BY <2>1, <2>2 DEF Covers, IsPast
<1>5. CASE v = e  BY <1>5
<1> QED BY <1>0, <1>2, <1>3, <1>4, <1>5, VisitedCases

\* What fires now was not covered by the record it fires of.
LEMMA FiresUncovered ==
  ASSUME TypeInv, NEW e \in Entries, NEW r \in Rules, Fires(e, r), NEW x,
         x[2] = r, x[3] = PrevOcc(r, now)
  PROVE  ~ Covers(e, x)
<1>1. e \in Records /\ InRule(e, r) /\ FromEpoch(e.attempt) < PrevOcc(r, now)
  BY DEF Fires, Arms, InRule, Entries
<1>2. PrevOcc(r, now) \in Int  BY Occurrence
<1>3. FromEpoch(e.attempt) \in Int  BY <1>1, FromEpochType DEF Records
<1> QED BY <1>1, <1>2, <1>3 DEF Covers

\* What has just fired is covered by what the tick is going to write.
LEMMA FiredIsCovered ==
  ASSUME TypeInv, StoredWell, NEW s \in Skills, NEW e \in Entries, rule[s] \in Rules,
         Fires(e, rule[s]), NEW x, x[2] = rule[s], x[3] = PrevOcc(rule[s], now)
  PROVE  Covers(Visited(e, rule[s]), x)
<1> DEFINE r == rule[s]
           v == Visited(e, r)
           at == ToEpoch(PrevOcc(r, now))
<1>1. v \in Entries  BY VisitedType
<1>2. v = Record(at, RanOf(e), "none", r)
  <2>1. r # Gone /\ r # Off  BY NamesAssumption DEF Off, Gone
  <2>2. ~ Arms(e, r)  BY DEF Fires
  <2> QED BY <2>1, <2>2 DEF Visited
<1>3. PrevOcc(r, now) <= FromEpoch(v.attempt)  BY <1>1, <1>2, RecordIsCurrent
<1> HIDE DEF v
<1>4. Covers(v, x)  BY <1>3 DEF Covers
<1> QED BY <1>4 DEF v

\* Local time goes on.
LEMMA NowGoesOn ==
  ASSUME NeverBack, TypeInv, Advance
  PROVE  now \in Int /\ now' \in Int /\ now <= now'
<1>1. clock \in Instants /\ StartAt <= clock /\ clock + 1 \in Instants /\ clock' = clock + 1
  BY TimeAssumption DEF Advance, TypeInv, TypeOK, Instants
<1>2. Local(clock) <= Local(clock + 1)  BY <1>1 DEF NeverBack
<1>3. now = Local(clock) /\ now' = Local(clock + 1)  BY <1>1 DEF now
<1>4. Local(clock) \in Int /\ Local(clock + 1) \in Int
  BY <1>1, TimeAssumption DEF Local, Instants
<1> QED BY <1>2, <1>3, <1>4

LEMMA FiredStep ==
  ASSUME StoredWell, NeverBack, TypeInv, ArmedInv, FiredInv, [Next]_vars
  PROVE  FiredInv'
<1>0. ASSUME clock' = clock, NEW x, IsPast(x, now) PROVE IsPast(x, now')
  BY <1>0 DEF now
<1>1. CASE Tick
  <2>0. emits = {}  BY <1>1 DEF Tick, ArmedInv
  <2>1. clock' = clock /\ disk' = disk /\ fired' = fired \cup emits' /\ twice' = twice \cup (emits' \cap fired)
    BY <1>1, TickEmits
  <2>2. ASSUME NEW x \in emits' PROVE IsPast(x, now)
    BY <1>1, Occurrence, TickEmits DEF IsPast
  <2>3. \A x \in fired' : IsPast(x, now')  BY <1>0, <2>1, <2>2 DEF FiredInv
  <2>4. ASSUME NEW x \in fired, x[1] \notin lost'
        PROVE  Covers(disk[x[1]], x) /\ Covers(Coming'[x[1]], x) /\ x \notin emits'
    <3>1. x[1] \in Skills /\ IsPast(x, now)  BY DEF FiredInv, IsPast
    <3>2. /\ x[1] \notin lost /\ disk[x[1]] \in Entries
          /\ Coming'[x[1]] = Visited(disk[x[1]], rule[x[1]])
          /\ x \in emits' => /\ x = <<x[1], rule[x[1]], PrevOcc(rule[x[1]], now)>>
                             /\ rule[x[1]] \in Rules /\ Fires(disk[x[1]], rule[x[1]])
      BY <1>1, <2>4, <3>1, TickOf
    <3>3. Covers(disk[x[1]], x)  BY <2>0, <3>2 DEF FiredInv
    <3>4. Covers(Coming'[x[1]], x)  BY <3>1, <3>2, <3>3, VisitedCovers
    <3>5. x \notin emits'
      <4> SUFFICES ASSUME x \in emits' PROVE FALSE  OBVIOUS
      <4>1. x[2] = rule[x[1]] /\ x[3] = PrevOcc(rule[x[1]], now)  BY <3>2
      <4> QED BY <3>2, <3>3, <4>1, FiresUncovered
    <3> QED BY <3>3, <3>4, <3>5
  <2>5. ASSUME NEW x \in emits', x[1] \notin lost' PROVE Covers(Coming'[x[1]], x)
    <3>1. x[1] \in Skills  BY <1>1, TickEmits
    <3>2. /\ disk[x[1]] \in Entries
          /\ Coming'[x[1]] = Visited(disk[x[1]], rule[x[1]])
          /\ x = <<x[1], rule[x[1]], PrevOcc(rule[x[1]], now)>>
          /\ rule[x[1]] \in Rules /\ Fires(disk[x[1]], rule[x[1]])
      BY <1>1, <2>5, <3>1, TickOf
    <3>3. x[2] = rule[x[1]] /\ x[3] = PrevOcc(rule[x[1]], now)  BY <3>2
    <3> QED BY <3>1, <3>2, <3>3, FiredIsCovered
  <2>6. FiredAgainOnlyIfLost'
    <3>1. \A x \in twice : x[1] \in lost'
      BY <1>1, TickEmits DEF FiredInv, FiredAgainOnlyIfLost
    <3> QED BY <2>1, <2>4, <3>1 DEF FiredAgainOnlyIfLost
  <2>7. \A x \in fired' \ emits' : x[1] \notin lost' => Covers(disk'[x[1]], x)
    BY <2>1, <2>4
  <2>8. \A x \in fired' : x[1] \notin lost' => Covers(Coming'[x[1]], x)
    BY <2>1, <2>4, <2>5
  <2> QED BY <2>3, <2>6, <2>7, <2>8 DEF FiredInv
<1>2. CASE Save
  <2>1. /\ loop' # "saving" /\ clock' = clock /\ fired' = fired /\ twice' = twice
        /\ \A x \in fired : x[1] \notin lost => Covers(Coming[x[1]], x)
    BY <1>2, SaveCases DEF FiredInv
  <2>2. ASSUME NEW x \in fired, x[1] \notin lost' PROVE Covers(disk'[x[1]], x)
    <3>1. CASE UNCHANGED lost /\ disk' = Coming  BY <2>1, <2>2, <3>1
    <3>2. CASE /\ UNCHANGED disk
               /\ lost' = lost \cup {s \in Skills : ~ SameGate(disk[s], Coming[s])}
      <4>1. x[1] \in Skills  BY DEF FiredInv, IsPast
      <4>2. x[1] \notin lost /\ SameGate(disk[x[1]], Coming[x[1]])  BY <2>2, <3>2, <4>1
      <4> QED BY <2>1, <3>2, <4>2, GateCovers
    <3> QED BY <1>2, <3>1, <3>2, SaveCases
  <2>3. \A x \in fired' : IsPast(x, now')  BY <1>0, <2>1 DEF FiredInv
  <2>4. FiredAgainOnlyIfLost'
    BY <1>2, SaveCases DEF FiredInv, FiredAgainOnlyIfLost
  <2> QED BY <2>1, <2>2, <2>3, <2>4 DEF FiredInv
<1>3. CASE AckWrites
  <2>1. /\ clock' = clock /\ fired' = fired /\ twice' = twice /\ emits' = emits
        /\ loop' = loop /\ view' = view /\ lost \subseteq lost'
    BY <1>3, AckWritesCases
  <2>2. ASSUME NEW x \in fired, x[1] \notin lost'
        PROVE  SameGate(disk[x[1]], disk'[x[1]]) /\ x[1] \notin lost
    <3>1. x[1] \in Skills  BY DEF FiredInv, IsPast
    <3>2. disk' = disk => SameGate(disk[x[1]], disk'[x[1]])  BY DEF SameGate
    <3> QED BY <1>3, <2>2, <3>1, <3>2, AckWritesCases
  <2>3. \A x \in fired' \ emits' : x[1] \notin lost' => Covers(disk'[x[1]], x)
    BY <2>1, <2>2, GateCovers DEF FiredInv
  <2>4. ASSUME loop' = "saving", NEW x \in fired, x[1] \notin lost' PROVE Covers(Coming'[x[1]], x)
    <3>1. Covers(Coming[x[1]], x)  BY <2>1, <2>2, <2>4 DEF FiredInv
    <3>2. CASE view = <<>>  BY <2>1, <2>2, <2>4, <3>1, <3>2, GateCovers DEF Coming
    <3>3. CASE view # <<>>  BY <2>1, <3>1, <3>3 DEF Coming
    <3> QED BY <3>2, <3>3
  <2>5. \A x \in fired' : IsPast(x, now')  BY <1>0, <2>1 DEF FiredInv
  <2> QED BY <2>1, <2>3, <2>4, <2>5 DEF FiredInv, FiredAgainOnlyIfLost
<1>4. CASE Stop
  <2>1. /\ clock' = clock /\ disk' = disk /\ fired' = fired \ emits /\ emits' = {}
        /\ loop' = "waiting" /\ twice' = twice /\ lost' = lost
    BY <1>4 DEF Stop, file
  <2>2. \A x \in fired' : IsPast(x, now')  BY <1>0, <2>1 DEF FiredInv
  <2> QED BY <2>1, <2>2 DEF FiredInv, FiredAgainOnlyIfLost
<1>5. CASE ~ Tick /\ ~ Save /\ ~ AckWrites /\ ~ Stop
  <2>1. UNCHANGED <<disk, view, emits, fired, twice, lost>> /\ (loop' = "saving" <=> loop = "saving")
    BY <1>5, OtherSteps
  <2>2. \A x \in fired : IsPast(x, now')
    <3>1. CASE Advance
      <4>1. now \in Int /\ now' \in Int /\ now <= now'  BY <3>1, NowGoesOn
      <4>2. \A r \in Rules : Due[r] \subseteq Int  BY TimeAssumption
      <4> QED BY <4>1, <4>2 DEF FiredInv, IsPast
    <3>2. CASE clock' = clock  BY <1>0, <3>2 DEF FiredInv
    <3> QED BY <1>5, <3>1, <3>2, OtherSteps
  <2> QED BY <2>1, <2>2 DEF FiredInv, FiredAgainOnlyIfLost, Coming
<1> QED BY <1>1, <1>2, <1>3, <1>4, <1>5

\* An occurrence is fired a second time only for a scenario whose record a
\* failed read or write, or an ack's stale write, took from the loop: whatever
\* is edited, switched off and on again or deleted, however often the app stops
\* and whichever acks arrive (decide, run, apply_ack), on a clock that does not
\* go back and in which what is stored reads back no earlier.
THEOREM FiredAgainOnlyIfLostAlways ==
  ASSUME StoredWell, NeverBack
  PROVE  Spec => []FiredAgainOnlyIfLost
<1>1. Init => FiredInv  BY DEF Init, FiredInv, FiredAgainOnlyIfLost
<1>2. TypeInv /\ ArmedInv /\ FiredInv /\ [Next]_vars => FiredInv'  BY FiredStep
<1>3. FiredInv => FiredAgainOnlyIfLost  BY DEF FiredInv
<1> QED BY <1>1, <1>2, <1>3, Armed, Typed, PTL DEF Spec

=============================================================================
