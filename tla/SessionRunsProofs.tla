------------------------- MODULE SessionRunsProofs -------------------------
(***************************************************************************)
(* Theorems of SessionRuns, for every set of sessions, launches and        *)
(* scenarios and every bound.                                              *)
(*                                                                         *)
(* Layers, each inductive given the ones before it: types, with the fact   *)
(* that a launch under way has a session; which launch the generation      *)
(* flag, the manager's map and the main thread speak of; who holds the     *)
(* right to close a run; and, while no history is erased, what becomes of  *)
(* a record.                                                               *)
(***************************************************************************)
EXTENDS SessionRuns, TLAPS

-----------------------------------------------------------------------------
(* Types.                                                                  *)

\* A launch has its session from the moment it is asked for, and neither a
\* child nor a waiter before that.
Launched ==
    \A l \in Launches :
        /\ start[l] # "unused" => of[l] \in Sessions
        /\ start[l] = "unused" => proc[l] = "none" /\ waiter[l] = "none" /\ ~live[l]
        /\ waiter[l] \in {"checked", "closed"} => proc[l] \in Dead

TypeInv == TypeOK /\ Launched

LEMMA TypeInit == Init => TypeInv
<1> SUFFICES ASSUME Init PROVE TypeInv  OBVIOUS
<1>1. << >> \in Seq(Commands)  OBVIOUS
<1> QED BY <1>1, BoundsAssumption DEF Init, TypeInv, TypeOK, Launched, Phases

\* A state of the window's own making keeps its types.
LEMMA SetStateType ==
  ASSUME TypeOK, NEW s \in Sessions, NEW state \in Shown, SetState(s, state)
  PROVE  /\ tile' \in [Sessions -> Shown \cup {"none", "saved"}]
         /\ button' \in [Sessions -> BOOLEAN]
<1>1. tile' \in [Sessions -> Shown \cup {"none", "saved"}]
  BY DEF SetState, HasTile, TypeOK
<1>2. button' \in [Sessions -> BOOLEAN]
  <2>1. CASE HasTile(s)
    <3>1. button' = [button EXCEPT ![s] = (state \in Dead)]  BY <2>1 DEF SetState
    <3>2. (state \in Dead) \in BOOLEAN  OBVIOUS
    <3> QED BY <3>1, <3>2 DEF TypeOK
  <2>2. CASE ~HasTile(s)
    <3>1. button' = [button EXCEPT ![s] = button[s]]  BY <2>2 DEF SetState
    <3> QED BY <3>1 DEF TypeOK
  <2> QED BY <2>1, <2>2
<1> QED BY <1>1, <1>2

\* Taking an entry away keeps the types of the journal's memory.
LEMMA CloseRunType ==
  ASSUME TypeOK, NEW s \in Sessions, NEW status \in Dead,
         NEW by \in Launches \cup {NoLaunch}, CloseRun(s, status, by)
  PROVE  /\ open' \in [Sessions -> Launches \cup {NoLaunch}]
         /\ taken' \subseteq Launches
         /\ writers' \subseteq Closes
BY DEF CloseRun, TakeOpen, TypeOK, Closes, Dead

\* The parts of the state that an action leaves alone keep their types.
LEMMA Taking ==
  ASSUME TypeOK, NEW c \in Commands, Takes(c)
  PROVE  inbox' \in Seq(Commands)
BY DEF Takes, TypeOK

LEMMA TypeStep ==
  ASSUME TypeInv, [Next]_vars
  PROVE  TypeInv'
<1> USE BoundsAssumption, NamesAssumption
<1> USE DEF TypeInv, TypeOK, Launched, window, launch, main, child, journal, history, bounds,
            Phases, Shown, Dead, There, Closed
<1>1. ASSUME NEW s \in Sessions, NEW l \in Launches,
             NewTile(s, l) \/ RestoreTile(s, l) \/ Restart(s, l)
      PROVE  TypeInv'
  <2>1. /\ UNCHANGED <<app, main, child, journal, hooks, recording, history, bounds>>
        /\ Asks(s, l, FALSE) \/ Asks(s, l, TRUE)
    BY <1>1 DEF NewTile, RestoreTile, Restart
  <2>2. /\ start[l] = "unused"
        /\ of' = [of EXCEPT ![l] = s]
        /\ start' = [start EXCEPT ![l] = "preparing"]
        /\ replace' \in [Launches -> BOOLEAN]
    BY <2>1 DEF Asks
  <2>3. /\ tile' \in [Sessions -> Shown \cup {"none", "saved"}]
        /\ button' \in [Sessions -> BOOLEAN]
    BY ZenonT(40), <1>1 DEF NewTile, RestoreTile, Restart
  <2>4. Launched'  BY <2>1, <2>2
  <2> QED BY <2>1, <2>2, <2>3, <2>4
<1>2. ASSUME NEW s \in Sessions, CloseTile(s) PROVE TypeInv'
  <2>1. <<"close", s>> \in Commands  BY DEF Commands
  <2>2. inbox' \in Seq(Commands)  BY <1>2, <2>1 DEF CloseTile
  <2> QED BY <1>2, <2>2 DEF CloseTile
<1>3. ASSUME NEW l \in Launches, Invoke(l) PROVE TypeInv'
  <2>1. <<"start", l>> \in Commands  BY DEF Commands
  <2>2. inbox' \in Seq(Commands)  BY <1>3, <2>1 DEF Invoke
  <2> QED BY <1>3, <2>2 DEF Invoke
<1>4. ASSUME NEW l \in Launches, HearsStarted(l) PROVE TypeInv'
  <2>1. of[l] \in Sessions  BY <1>4 DEF HearsStarted
  <2>2. /\ tile' \in [Sessions -> Shown \cup {"none", "saved"}]
        /\ button' \in [Sessions -> BOOLEAN]
    BY <1>4, <2>1, SetStateType DEF HearsStarted
  <2> QED BY <1>4, <2>2 DEF HearsStarted
<1>5. ASSUME NEW l \in Launches, HearsFailed(l) PROVE TypeInv'
  <2>1. of[l] \in Sessions  BY <1>5 DEF HearsFailed
  <2>2. /\ tile' \in [Sessions -> Shown \cup {"none", "saved"}]
        /\ button' \in [Sessions -> BOOLEAN]
    BY <1>5, <2>1, SetStateType DEF HearsFailed
  <2> QED BY <1>5, <2>2 DEF HearsFailed
<1>6. ASSUME NEW l \in Launches, RejectStart(l) \/ OpenNothing(l) PROVE TypeInv'
  <2>1. inbox' \in Seq(Commands)
    BY <1>6, Taking DEF RejectStart, OpenNothing, Commands
  <2> QED BY <1>6, <2>1 DEF RejectStart, OpenNothing
<1>7. ASSUME NEW l \in Launches, OpenRecord(l) PROVE TypeInv'
  <2>1. inbox' \in Seq(Commands)
    BY <1>7, Taking DEF OpenRecord, Commands
  <2>2. of[l] \in Sessions  BY <1>7 DEF OpenRecord
  <2>3. open' \in [Sessions -> Launches \cup {NoLaunch}] /\ taken' \subseteq Launches
    BY <1>7, <2>2 DEF OpenRecord, TakeOpen
  <2>4. /\ record' \in [Launches -> {"absent", "running"} \cup Closed]
        /\ lost' \subseteq Launches /\ losses' \in Nat
    <3> PICK gone \in SUBSET ({l, open[of[l]]} \ {NoLaunch}) :
          /\ Misses(gone)
          /\ record' = [k \in Launches |->
                           IF k \notin {l, open[of[l]]} \ gone THEN record[k]
                           ELSE IF k = l THEN "running" ELSE Fold(record[k], "ended")]
      BY <1>7 DEF OpenRecord
    <3>1. gone \subseteq Launches  BY <2>2
    <3>2. lost' \subseteq Launches /\ losses' \in Nat  BY <3>1 DEF Misses
    <3>3. ASSUME NEW k \in Launches
          PROVE  record'[k] \in {"absent", "running"} \cup Closed
      BY DEF Fold
    <3> QED BY <3>2, <3>3
  <2> QED BY <1>7, <2>1, <2>3, <2>4 DEF OpenRecord
<1>8. ASSUME NEW l \in Launches, OpenEntry(l) PROVE TypeInv'
  BY <1>8 DEF OpenEntry
<1>9. ASSUME NEW l \in Launches, Displace(l) PROVE TypeInv'
  <2>1. live' \in [Launches -> BOOLEAN] /\ \A k \in Launches : ~live[k] => ~live'[k]
    BY <1>9 DEF Displace, Ends
  <2>2. held' \in [Sessions -> Launches \cup {NoLaunch}]
    BY <1>9 DEF Displace, Ends
  <2> QED BY <1>9, <2>1, <2>2 DEF Displace
<1>10. ASSUME NEW l \in Launches, SpawnChild(l) PROVE TypeInv'
  BY <1>10 DEF SpawnChild
<1>11. ASSUME NEW l \in Launches, Hold(l) PROVE TypeInv'
  BY <1>11 DEF Hold
<1>12. ASSUME NEW l \in Launches, FailToStart(l) PROVE TypeInv'
  <2>1. of[l] \in Sessions  BY <1>12 DEF FailToStart
  <2>2. open' \in [Sessions -> Launches \cup {NoLaunch}] /\ taken' \subseteq Launches
    BY <1>12, <2>1 DEF FailToStart, TakeOpen
  <2>3. /\ record' \in [Launches -> {"absent", "running"} \cup Closed]
        /\ lost' \subseteq Launches /\ losses' \in Nat
    BY <1>12, <2>1 DEF FailToStart, Fold, Misses
  <2> QED BY <1>12, <2>2, <2>3 DEF FailToStart
<1>13. ASSUME NEW s \in Sessions, CloseRecord(s) PROVE TypeInv'
  <2>1. inbox' \in Seq(Commands)  BY <1>13, Taking DEF CloseRecord, Commands
  <2>2. /\ open' \in [Sessions -> Launches \cup {NoLaunch}]
        /\ taken' \subseteq Launches
        /\ writers' \subseteq Closes
    BY <1>13, CloseRunType DEF CloseRecord
  <2> QED BY <1>13, <2>1, <2>2 DEF CloseRecord
<1>14. ASSUME NEW s \in Sessions, KillChild(s) PROVE TypeInv'
  <2>1. live' \in [Launches -> BOOLEAN] /\ \A k \in Launches : ~live[k] => ~live'[k]
    BY <1>14 DEF KillChild, Ends
  <2>2. held' \in [Sessions -> Launches \cup {NoLaunch}]
    BY <1>14 DEF KillChild, Ends
  <2> QED BY <1>14, <2>1, <2>2 DEF KillChild
<1>15. ASSUME NEW l \in Launches, NEW how \in Dead, Exit(l, how) PROVE TypeInv'
  BY <1>15 DEF Exit
<1>16. ASSUME NEW l \in Launches, WaiterChecks(l) PROVE TypeInv'
  BY <1>16 DEF WaiterChecks
<1>17. ASSUME NEW l \in Launches, WaiterCloses(l) PROVE TypeInv'
  <2>1. of[l] \in Sessions  BY <1>17 DEF WaiterCloses
  <2>2. /\ open' \in [Sessions -> Launches \cup {NoLaunch}]
        /\ taken' \subseteq Launches
        /\ writers' \subseteq Closes
    BY <1>17, <2>1, CloseRunType DEF WaiterCloses
  <2> QED BY <1>17, <2>2 DEF WaiterCloses
<1>18. ASSUME NEW l \in Launches, WaiterTells(l) PROVE TypeInv'
  <2>1. of[l] \in Sessions /\ proc[l] \in Shown  BY <1>18 DEF WaiterTells
  <2>2. /\ tile' \in [Sessions -> Shown \cup {"none", "saved"}]
        /\ button' \in [Sessions -> BOOLEAN]
    BY <1>18, <2>1, SetStateType DEF WaiterTells
  <2> QED BY <1>18, <2>2 DEF WaiterTells
<1>19. ASSUME NEW l \in Launches, Turn(l) \/ Clear(l) \/ Leave(l) PROVE TypeInv'
  <2>1. of[l] \in Sessions  BY <1>19 DEF Turn, Clear, Leave, Sends
  <2>2. \A said \in {"idle", "working", "ended"} :
           [session |-> of[l], says |-> said, closed |-> FALSE] \in Reports
    BY <2>1 DEF Reports
  <2>3. PICK says \in SUBSET {"idle", "working", "ended"} : Sends(l, says)
    <3>1. CASE Turn(l)   BY <3>1 DEF Turn
    <3>2. CASE Clear(l)  BY <3>2 DEF Clear
    <3>3. CASE Leave(l)  BY <3>3 DEF Leave
    <3> QED BY <1>19, <3>1, <3>2, <3>3
  <2>4. hooks' \subseteq Reports
    <3>1. hooks' = hooks \cup {[session |-> of[l], says |-> w, closed |-> FALSE] : w \in says}
      BY <2>3 DEF Sends
    <3>2. ASSUME NEW h \in hooks', h \notin hooks PROVE h \in Reports
      <4>1. PICK w \in says : h = [session |-> of[l], says |-> w, closed |-> FALSE]
        BY <3>1, <3>2
      <4> QED BY <2>2, <4>1
    <3> QED BY <3>2
  <2>5. /\ proc' \in [Launches -> {"none", "cut"} \cup There \cup Dead]
        /\ \A k \in Launches : proc[k] = "none" \/ proc[k] \in Dead => proc'[k] = proc[k]
    BY <1>19, <2>3 DEF Turn, Clear, Leave, Sends
  <2> QED BY <2>3, <2>4, <2>5 DEF Sends
<1>20. ASSUME NEW h \in Reports, HookCloses(h) PROVE TypeInv'
  <2>1. hooks' \subseteq Reports
    <3>1. [h EXCEPT !.closed = TRUE] \in Reports  BY DEF Reports
    <3> QED BY <1>20, <3>1 DEF HookCloses
  <2>2. /\ open' \in [Sessions -> Launches \cup {NoLaunch}]
        /\ taken' \subseteq Launches
        /\ writers' \subseteq Closes
    BY <1>20, CloseRunType DEF HookCloses, Reports
  <2> QED BY <1>20, <2>1, <2>2 DEF HookCloses
<1>21. ASSUME NEW h \in Reports, HookTells(h) PROVE TypeInv'
  <2>1. /\ tile' \in [Sessions -> Shown \cup {"none", "saved"}]
        /\ button' \in [Sessions -> BOOLEAN]
    BY <1>21, SetStateType DEF HookTells, Reports
  <2> QED BY <1>21, <2>1 DEF HookTells
<1>22. ASSUME NEW w \in Closes, WriteClose(w) PROVE TypeInv'
  <2>1. /\ record' \in [Launches -> {"absent", "running"} \cup Closed]
        /\ lost' \subseteq Launches /\ losses' \in Nat
    BY <1>22 DEF WriteClose, Fold, Closes, Misses
  <2>2. writers' \subseteq Closes
    BY <1>22 DEF WriteClose
  <2> QED BY <1>22, <2>1, <2>2 DEF WriteClose
<1>23. ASSUME NEW k \in Skills, EraseReads(k) PROVE TypeInv'
  BY <1>23 DEF EraseReads
<1>24. CASE EraseWrites  BY <1>24 DEF EraseWrites
<1>25. CASE Toggle  BY <1>25 DEF Toggle
<1>26. CASE Stop
  <2>1. tile' \in [Sessions -> Shown \cup {"none", "saved"}]  BY <1>26 DEF Stop
  <2>2. << >> \in Seq(Commands)  OBVIOUS
  <2> QED BY <1>26, <2>1, <2>2 DEF Stop
<1>27. CASE StartApp
  <2>1. /\ record' \in [Launches -> {"absent", "running"} \cup Closed]
        /\ lost' \subseteq Launches /\ losses' \in Nat
    BY <1>27 DEF StartApp, Fold, Misses
  <2> QED BY <1>27, <2>1 DEF StartApp
<1>28. CASE UNCHANGED vars  BY <1>28 DEF vars
<1>29. CASE Deck      BY <1>29, <1>1, <1>2, <1>3, <1>4, <1>5 DEF Deck
<1>30. CASE Serve     BY <1>30, <1>6, <1>7, <1>8, <1>9, <1>10, <1>11, <1>12, <1>13, <1>14 DEF Serve
<1>31. CASE Children  BY <1>31, <1>15, <1>16, <1>17, <1>18, <1>19 DEF Children, Wait
<1>32. CASE Listen    BY <1>32, <1>20, <1>21 DEF Listen
<1>33. CASE Journal   BY <1>33, <1>22, <1>23, <1>24, <1>25 DEF Journal
<1> QED BY <1>26, <1>27, <1>28, <1>29, <1>30, <1>31, <1>32, <1>33 DEF Next

\* Every variable keeps its type, and a launch under way has its session.
THEOREM TypeCorrect == Spec => []TypeOK
<1>1. TypeInv /\ [Next]_vars => TypeInv'  BY TypeStep
<1>2. TypeInv => TypeOK  BY DEF TypeInv
<1> QED BY <1>1, <1>2, TypeInit, PTL DEF Spec

-----------------------------------------------------------------------------
(* Generations.                                                            *)

\* The main thread is in start_session for at most one launch.
Serving ==
    \A l \in Launches : start[l] \in {"opening", "opened", "spawning", "spawned"} => serving = l

\* A child the app listens to is the one the manager holds, or the one being
\* spawned; and while a child is spawned the manager holds none.
Generation ==
    \A l \in Launches :
        /\ live[l] => held[of[l]] = l \/ start[l] = "spawned"
        /\ start[l] \in {"spawning", "spawned"} => held[of[l]] = NoLaunch

GenInv == Serving /\ Generation

LEMMA GenInit == Init => GenInv
BY DEF Init, GenInv, Serving, Generation

LEMMA GenStep ==
  ASSUME TypeInv, GenInv, [Next]_vars
  PROVE  GenInv'
<1> USE NamesAssumption
<1> USE DEF TypeInv, TypeOK, Launched, GenInv, Serving, Generation, launch, main, child,
            Free, Takes
<1>1. ASSUME NEW s \in Sessions, NEW l \in Launches,
             NewTile(s, l) \/ RestoreTile(s, l) \/ Restart(s, l)
      PROVE  GenInv'
  <2>1. /\ UNCHANGED <<serving, live, held>>
        /\ start[l] = "unused"
        /\ of' = [of EXCEPT ![l] = s]
        /\ start' = [start EXCEPT ![l] = "preparing"]
    BY <1>1 DEF NewTile, RestoreTile, Restart, Asks
  <2> QED BY <2>1
<1>2. ASSUME NEW l \in Launches,
             \/ Invoke(l) \/ HearsStarted(l) \/ HearsFailed(l)
             \/ RejectStart(l)
      PROVE  GenInv'
  BY <1>2 DEF Invoke, HearsStarted, HearsFailed, RejectStart
<1>3. ASSUME NEW l \in Launches, OpenRecord(l) \/ OpenNothing(l) PROVE GenInv'
  BY <1>3 DEF OpenRecord, OpenNothing
<1>4. ASSUME NEW l \in Launches, OpenEntry(l) \/ FailToStart(l) PROVE GenInv'
  <2>1. CASE OpenEntry(l)
    BY <2>1 DEF OpenEntry
  <2>2. CASE FailToStart(l)
    <3>1. /\ serving = l
          /\ start[l] = "spawning" \/ start[l] = "opened"
          /\ start' = [start EXCEPT ![l] = "failed"]
          /\ UNCHANGED <<of, live, held>>
      BY <2>2 DEF FailToStart
    <3>2. \A k \in Launches : k # l =>
             start[k] \notin {"opening", "opened", "spawning", "spawned"}
      BY <3>1
    <3>3. Serving'  BY <3>1, <3>2
    <3>4. Generation'  BY <3>1, <3>2
    <3> QED BY <3>3, <3>4
  <2> QED BY <1>4, <2>1, <2>2
<1>5. ASSUME NEW l \in Launches, Displace(l) PROVE GenInv'
  <2>1. serving = l /\ start[l] = "opened" /\ of[l] \in Sessions
    BY <1>5 DEF Displace
  <2>2. /\ start' = [start EXCEPT ![l] = "spawning"]
        /\ live' = [k \in Launches |-> IF k = held[of[l]] THEN FALSE ELSE live[k]]
        /\ held' = [held EXCEPT ![of[l]] = NoLaunch]
        /\ UNCHANGED <<of, serving>>
    BY <1>5 DEF Displace, Ends
  <2>3. \A k \in Launches : k # l =>
           start[k] \notin {"opening", "opened", "spawning", "spawned"}
    BY <2>1
  <2>4. Serving'
    BY <2>1, <2>2, <2>3
  <2>5. ASSUME NEW k \in Launches, live'[k] PROVE held'[of'[k]] = k
    <3>1. live[k] /\ k # held[of[l]]  BY <2>2, <2>5
    <3>2. held[of[k]] = k  BY <2>1, <2>3, <3>1
    <3>3. of[k] # of[l]  BY <3>1, <3>2
    <3> QED BY <2>2, <3>1, <3>2, <3>3
  <2>6. ASSUME NEW k \in Launches, start'[k] \in {"spawning", "spawned"}
        PROVE  held'[of'[k]] = NoLaunch
    BY <2>1, <2>2, <2>3, <2>6
  <2> QED BY <2>4, <2>5, <2>6
<1>6. ASSUME NEW l \in Launches, SpawnChild(l) PROVE GenInv'
  BY <1>6 DEF SpawnChild
<1>7. ASSUME NEW l \in Launches, Hold(l) PROVE GenInv'
  <2>1. serving = l /\ start[l] = "spawned" /\ of[l] \in Sessions /\ held[of[l]] = NoLaunch
    BY <1>7 DEF Hold
  <2>2. /\ start' = [start EXCEPT ![l] = "ok"]
        /\ held' = [held EXCEPT ![of[l]] = l]
        /\ UNCHANGED <<of, live>>
    BY <1>7 DEF Hold
  <2>3. \A k \in Launches : k # l =>
           start[k] \notin {"opening", "opened", "spawning", "spawned"}
    BY <2>1
  <2> QED BY <2>1, <2>2, <2>3
<1>8. ASSUME NEW s \in Sessions, KillChild(s) PROVE GenInv'
  BY <1>8 DEF KillChild, Ends
<1>9. CASE Stop
  BY <1>9 DEF Stop
<1>10. CASE UNCHANGED <<of, start, serving, live, held>>
  BY <1>10
<1>11. ASSUME NEW s \in Sessions, CloseTile(s) \/ CloseRecord(s)
       PROVE  UNCHANGED <<of, start, serving, live, held>>
  BY <1>11 DEF CloseTile, CloseRecord
<1>12. ASSUME NEW l \in Launches,
              \/ WaiterChecks(l) \/ WaiterCloses(l) \/ WaiterTells(l)
              \/ \E how \in Dead : Exit(l, how)
       PROVE  UNCHANGED <<of, start, serving, live, held>>
  BY <1>12 DEF WaiterChecks, WaiterCloses, WaiterTells, Exit
<1>13. ASSUME NEW l \in Launches, Turn(l) \/ Clear(l) \/ Leave(l)
       PROVE  UNCHANGED <<of, start, serving, live, held>>
  BY <1>13 DEF Turn, Clear, Leave, Sends
<1>14. ASSUME NEW h \in Reports, HookCloses(h) \/ HookTells(h)
       PROVE  UNCHANGED <<of, start, serving, live, held>>
  BY <1>14 DEF HookCloses, HookTells
<1>15. CASE Journal
  BY <1>10, <1>15 DEF Journal, WriteClose, EraseReads, EraseWrites, Toggle
<1>16. CASE StartApp
  BY <1>10, <1>16 DEF StartApp
<1>17. CASE UNCHANGED vars
  BY <1>10, <1>17 DEF vars
<1> QED BY <1>1, <1>2, <1>3, <1>4, <1>5, <1>6, <1>7, <1>8, <1>9, <1>10, <1>11, <1>12, <1>13,
           <1>14, <1>15, <1>16, <1>17
    DEF Next, Deck, Serve, Children, Wait, Listen

\* At most one child of a session is one the app listens to.
THEOREM OneChildAlways == Spec => []OneChild
<1>1. TypeInv /\ GenInv => OneChild
  BY NamesAssumption
  DEF TypeInv, TypeOK, Launched, GenInv, Serving, Generation, OneChild
<1>2. TypeInv /\ [Next]_vars => TypeInv'  BY TypeStep
<1>3. TypeInv /\ GenInv /\ [Next]_vars => GenInv'  BY GenStep
<1> QED BY <1>1, <1>2, <1>3, TypeInit, GenInit, PTL DEF Spec

-----------------------------------------------------------------------------
(* Who holds the right to close a run.                                     *)

\* A launch whose entry in open_runs is still to be made.
Early(l) == start[l] \in {"unused", "preparing", "sent", "opening"}

\* Neither the file nor what a rewrite read of it holds a close of the run.
Unclosed(l) == record[l] \notin Closed /\ seen[l] \notin Closed

\* An entry is of its own session's run, and nobody has taken it yet.
OpenClaims ==
    \A s \in Sessions : open[s] # NoLaunch =>
        /\ of[open[s]] = s /\ ~Early(open[s])
        /\ open[s] \notin taken /\ Unclosed(open[s])

\* What a detached thread is to close was taken for it, and for it alone.
WriterClaims ==
    /\ \A w \in writers : w.run \in taken /\ Unclosed(w.run)
    /\ \A v, w \in writers : v.run = w.run => v = w

\* A launch has no record before the journal opens one.
EarlyClaims ==
    \A l \in Launches : Early(l) =>
        /\ l \notin taken /\ Unclosed(l)
        /\ start[l] # "opening" => record[l] = "absent" /\ seen[l] = "absent"

\* A stop leaves nobody behind who could close anything.
DownClaims ==
    ~Up => /\ \A s \in Sessions : open[s] = NoLaunch
           /\ writers = {}
           /\ \A l \in Launches : start[l] \in {"unused", "heard"}

Claims == OpenClaims /\ WriterClaims /\ EarlyClaims /\ DownClaims

LEMMA ClaimsInit == Init => Claims
BY NamesAssumption
DEF Init, Claims, OpenClaims, WriterClaims, EarlyClaims, DownClaims, Early, Unclosed, Closed, Up

\* Closing a session's run moves its claim from open_runs to one thread.
LEMMA CloseRunClaims ==
  ASSUME TypeInv, Claims, NEW s \in Sessions, NEW status \in Dead,
         NEW by \in Launches \cup {NoLaunch}, CloseRun(s, status, by),
         UNCHANGED <<app, of, start, record, seen>>
  PROVE  Claims'
<1> USE NamesAssumption
<1> USE DEF TypeInv, TypeOK, Claims, Early, Unclosed, Up
<1> DEFINE mine == [run |-> open[s], status |-> status, by |-> by]
<1>1. CASE open[s] = NoLaunch
  <2>1. open' = open /\ taken' = taken /\ writers' = writers
    BY <1>1 DEF CloseRun, TakeOpen
  <2> QED BY <2>1 DEF OpenClaims, WriterClaims, EarlyClaims, DownClaims
<1>2. CASE open[s] # NoLaunch
  <2>1. /\ open' = [open EXCEPT ![s] = NoLaunch]
        /\ taken' = taken \cup {open[s]}
        /\ writers' = writers \cup {mine}
    BY <1>2 DEF CloseRun, TakeOpen
  <2>2. open[s] \in Launches /\ of[open[s]] = s /\ ~Early(open[s]) /\ open[s] \notin taken
        /\ Unclosed(open[s])
    BY <1>2 DEF OpenClaims
  <2>3. OpenClaims'  BY <2>1, <2>2 DEF OpenClaims
  <2>4. WriterClaims'
    <3>1. \A w \in writers : w.run # open[s]  BY <2>2 DEF WriterClaims
    <3>2. mine.run = open[s]  OBVIOUS
    <3>3. ASSUME NEW w \in writers' PROVE w.run \in taken' /\ Unclosed(w.run)'
      <4>1. CASE w \in writers  BY <2>1, <4>1 DEF WriterClaims
      <4>2. CASE w = mine  BY <2>1, <2>2, <3>2, <4>2
      <4> QED BY <2>1, <4>1, <4>2
    <3>4. ASSUME NEW v \in writers', NEW w \in writers', v.run = w.run PROVE v = w
      BY <2>1, <3>1, <3>2, <3>4 DEF WriterClaims
    <3> QED BY <3>3, <3>4 DEF WriterClaims
  <2>5. EarlyClaims'  BY <2>1, <2>2 DEF EarlyClaims
  <2>6. DownClaims'  BY <1>2 DEF DownClaims
  <2> QED BY <2>3, <2>4, <2>5, <2>6
<1> QED BY <1>1, <1>2

\* A launch gets on without the journal.
LEMMA PhaseClaims ==
  ASSUME TypeInv, Claims, NEW l \in Launches, NEW phase \in Phases,
         start' = [start EXCEPT ![l] = phase],
         phase \notin {"unused", "preparing", "opening"},
         phase = "sent" => start[l] = "preparing",
         Up,
         UNCHANGED <<app, of, record, seen, open, writers, taken>>
  PROVE  Claims'
BY DEF TypeInv, TypeOK, Claims, OpenClaims, WriterClaims, EarlyClaims, DownClaims, Early,
       Unclosed, Up

LEMMA ClaimsStep ==
  ASSUME TypeInv, Claims, [Next]_vars
  PROVE  Claims'
<1> USE NamesAssumption
<1> USE DEF TypeInv, TypeOK, Claims, Early, Unclosed, Up
<1>1. ASSUME NEW s \in Sessions, NEW l \in Launches,
             NewTile(s, l) \/ RestoreTile(s, l) \/ Restart(s, l)
      PROVE  Claims'
  <2>1. /\ UNCHANGED <<app, record, seen, open, writers, taken>>
        /\ Up /\ start[l] = "unused"
        /\ of' = [of EXCEPT ![l] = s]
        /\ start' = [start EXCEPT ![l] = "preparing"]
    BY <1>1 DEF NewTile, RestoreTile, Restart, Asks, journal, history
  <2>2. \A t \in Sessions : open[t] # l  BY <2>1 DEF OpenClaims
  <2>3. OpenClaims'  BY <2>1, <2>2 DEF OpenClaims
  <2>4. WriterClaims'  BY <2>1 DEF WriterClaims
  <2>5. EarlyClaims'  BY <2>1 DEF EarlyClaims
  <2>6. DownClaims'  BY <2>1 DEF DownClaims
  <2> QED BY <2>3, <2>4, <2>5, <2>6
<1>2. ASSUME NEW l \in Launches, Invoke(l) PROVE Claims'
  BY <1>2, PhaseClaims DEF Invoke, Phases, journal, history
<1>3. ASSUME NEW l \in Launches,
             HearsStarted(l) \/ HearsFailed(l) \/ RejectStart(l) \/ OpenNothing(l)
      PROVE  Claims'
  <2>1. PICK phase \in {"heard", "failed", "opened"} : start' = [start EXCEPT ![l] = phase]
    BY <1>3 DEF HearsStarted, HearsFailed, RejectStart, OpenNothing
  <2>2. Up /\ UNCHANGED <<app, of, record, seen, open, writers, taken>>
    BY <1>3 DEF HearsStarted, HearsFailed, RejectStart, OpenNothing, Takes, Free, journal, history
  <2> QED BY <2>1, <2>2, PhaseClaims DEF Phases
<1>4. ASSUME NEW l \in Launches, Displace(l) \/ SpawnChild(l) \/ Hold(l) PROVE Claims'
  <2>1. PICK phase \in {"spawning", "spawned", "ok"} : start' = [start EXCEPT ![l] = phase]
    BY <1>4 DEF Displace, SpawnChild, Hold
  <2>2. UNCHANGED <<app, of, record, seen, open, writers, taken>>
    BY <1>4 DEF Displace, SpawnChild, Hold, journal, history
  <2>3. Up  BY <1>4 DEF Displace, SpawnChild, Hold, DownClaims
  <2> QED BY <2>1, <2>2, <2>3, PhaseClaims DEF Phases
<1>5. ASSUME NEW l \in Launches, OpenRecord(l) PROVE Claims'
  <2>1. /\ start[l] = "sent" /\ Up
        /\ start' = [start EXCEPT ![l] = "opening"]
        /\ TakeOpen(of[l])
        /\ UNCHANGED <<app, of, seen, writers>>
    BY <1>5 DEF OpenRecord, Takes, Free, history
  <2>2. of[l] \in Sessions /\ l \notin taken /\ record[l] = "absent" /\ seen[l] = "absent"
    BY <2>1 DEF Launched, EarlyClaims
  <2>3. /\ open' = [open EXCEPT ![of[l]] = NoLaunch]
        /\ taken' = IF open[of[l]] = NoLaunch THEN taken ELSE taken \cup {open[of[l]]}
    BY <2>1 DEF TakeOpen
  <2>4. \A s \in Sessions : open[s] # l  BY <2>1 DEF OpenClaims
  <2>5. \A k \in Launches : k # l /\ k # open[of[l]] => record'[k] = record[k]
    BY <1>5 DEF OpenRecord
  <2>6. record'[l] \in {"running", "absent"}
    <3>1. PICK gone \in SUBSET ({l, open[of[l]]} \ {NoLaunch}) :
            /\ Misses(gone)
            /\ record' = [k \in Launches |->
                             IF k \notin {l, open[of[l]]} \ gone THEN record[k]
                             ELSE IF k = l THEN "running" ELSE Fold(record[k], "ended")]
      BY <1>5 DEF OpenRecord
    <3>2. record'[l] = IF l \in gone THEN record[l] ELSE "running"
      BY <3>1
    <3> QED BY <2>2, <3>2
  <2>7. OpenClaims'
    BY <2>1, <2>2, <2>3, <2>4, <2>5 DEF OpenClaims
  <2>8. WriterClaims'
    <3>1. \A w \in writers : w.run \in Launches /\ w.run # l /\ w.run # open[of[l]]
      BY <2>2 DEF WriterClaims, OpenClaims
    <3> QED BY <2>1, <2>3, <2>5, <3>1 DEF WriterClaims
  <2>9. EarlyClaims'
    <3>1. ASSUME NEW k \in Launches, Early(k)', k # l
          PROVE  /\ k \notin taken' /\ Unclosed(k)'
                 /\ start'[k] # "opening" => record'[k] = "absent" /\ seen'[k] = "absent"
      <4>1. start'[k] = start[k] /\ Early(k)  BY <2>1, <3>1
      <4>2. k # open[of[l]]  BY <2>2, <4>1 DEF OpenClaims
      <4> QED BY <2>1, <2>3, <2>5, <3>1, <4>1, <4>2 DEF EarlyClaims
    <3>2. l \notin taken' /\ Unclosed(l)' /\ start'[l] = "opening"
      BY <2>1, <2>2, <2>3, <2>4, <2>6 DEF Closed
    <3> QED BY <3>1, <3>2 DEF EarlyClaims
  <2>10. DownClaims'  BY <2>1 DEF DownClaims
  <2> QED BY <2>7, <2>8, <2>9, <2>10
<1>6. ASSUME NEW l \in Launches, OpenEntry(l) PROVE Claims'
  <2>1. /\ start[l] = "opening" /\ of[l] \in Sessions
        /\ start' = [start EXCEPT ![l] = "opened"]
        /\ open' = [open EXCEPT ![of[l]] = l]
        /\ UNCHANGED <<app, of, record, seen, writers, taken>>
    BY <1>6 DEF OpenEntry, Launched, history
  <2>2. l \notin taken /\ Unclosed(l) /\ Up  BY <2>1 DEF EarlyClaims, DownClaims
  <2>3. OpenClaims'  BY <2>1, <2>2 DEF OpenClaims
  <2>4. WriterClaims'  BY <2>1 DEF WriterClaims
  <2>5. EarlyClaims'  BY <2>1 DEF EarlyClaims
  <2>6. DownClaims'  BY <2>1, <2>2 DEF DownClaims
  <2> QED BY <2>3, <2>4, <2>5, <2>6
<1>7. ASSUME NEW l \in Launches, FailToStart(l) PROVE Claims'
  <2>1. /\ start[l] \in {"opened", "spawning"} /\ of[l] \in Sessions
        /\ start' = [start EXCEPT ![l] = "failed"]
        /\ TakeOpen(of[l])
        /\ UNCHANGED <<app, of, seen, writers>>
    BY <1>7 DEF FailToStart, Launched, history
  <2>2. /\ open' = [open EXCEPT ![of[l]] = NoLaunch]
        /\ taken' = IF open[of[l]] = NoLaunch THEN taken ELSE taken \cup {open[of[l]]}
    BY <2>1 DEF TakeOpen
  <2>3. \A k \in Launches : k # open[of[l]] => record'[k] = record[k]
    BY <1>7 DEF FailToStart
  <2>4. OpenClaims'  BY <2>1, <2>2, <2>3 DEF OpenClaims
  <2>5. WriterClaims'
    <3>1. \A w \in writers : w.run \in Launches /\ w.run # open[of[l]]
      BY <2>1 DEF WriterClaims, OpenClaims
    <3> QED BY <2>1, <2>2, <2>3, <3>1 DEF WriterClaims
  <2>6. EarlyClaims'
    <3>1. ASSUME NEW k \in Launches, Early(k)'
          PROVE  /\ k \notin taken' /\ Unclosed(k)'
                 /\ start'[k] # "opening" => record'[k] = "absent" /\ seen'[k] = "absent"
      <4>1. k # l /\ start'[k] = start[k] /\ Early(k)  BY <2>1, <3>1
      <4>2. k # open[of[l]]  BY <2>1, <4>1 DEF OpenClaims
      <4> QED BY <2>1, <2>2, <2>3, <4>1, <4>2 DEF EarlyClaims
    <3> QED BY <3>1 DEF EarlyClaims
  <2>7. DownClaims'
    <3>1. Up  BY <2>1 DEF DownClaims
    <3> QED BY <2>1, <3>1 DEF DownClaims
  <2> QED BY <2>4, <2>5, <2>6, <2>7
<1>8. ASSUME NEW s \in Sessions, CloseRecord(s) PROVE Claims'
  BY <1>8, CloseRunClaims DEF CloseRecord, launch, history, Dead
<1>9. ASSUME NEW l \in Launches, WaiterCloses(l) PROVE Claims'
  <2>1. of[l] \in Sessions /\ proc[l] \in Dead  BY <1>9 DEF WaiterCloses, Launched
  <2> QED BY <1>9, <2>1, CloseRunClaims DEF WaiterCloses, launch, history
<1>10. ASSUME NEW h \in Reports, HookCloses(h) PROVE Claims'
  <2>1. h.session \in Sessions  BY DEF Reports
  <2> QED BY <1>10, <2>1, CloseRunClaims DEF HookCloses, launch, history, Dead
<1>11. ASSUME NEW w \in Closes, WriteClose(w) PROVE Claims'
  <2>1. /\ w \in writers /\ writers' = writers \ {w}
        /\ UNCHANGED <<app, of, start, seen, open, taken>>
        /\ w.run \in Launches
        /\ \A k \in Launches : k # w.run => record'[k] = record[k]
    BY <1>11 DEF WriteClose, launch, history, Closes
  <2>2. w.run \in taken  BY <2>1 DEF WriterClaims
  <2>3. OpenClaims'  BY <2>1, <2>2 DEF OpenClaims
  <2>4. WriterClaims'
    <3>1. \A v \in writers' : v \in writers /\ v.run \in Launches /\ v.run # w.run
      BY <2>1 DEF WriterClaims
    <3> QED BY <2>1, <3>1 DEF WriterClaims
  <2>5. EarlyClaims'  BY <2>1, <2>2 DEF EarlyClaims
  <2>6. DownClaims'  BY <2>1 DEF DownClaims
  <2> QED BY <2>3, <2>4, <2>5, <2>6
<1>12. ASSUME NEW k \in Skills, EraseReads(k) PROVE Claims'
  BY <1>12
  DEF EraseReads, launch, journal, OpenClaims, WriterClaims, EarlyClaims, DownClaims
<1>13. CASE EraseWrites
  <2>1. /\ UNCHANGED <<app, of, start, open, writers, taken, seen>>
        /\ \A l \in Launches : record'[l] \in {"absent", seen[l]}
    BY <1>13 DEF EraseWrites, launch
  <2>2. \A l \in Launches : seen[l] \notin Closed => record'[l] \notin Closed
    BY <2>1 DEF Closed
  <2>3. OpenClaims'  BY <2>1, <2>2 DEF OpenClaims
  <2>4. WriterClaims'
    <3>1. \A w \in writers : w.run \in Launches  BY DEF WriterClaims
    <3> QED BY <2>1, <2>2, <3>1 DEF WriterClaims
  <2>5. EarlyClaims'  BY <2>1, <2>2 DEF EarlyClaims
  <2>6. DownClaims'  BY <2>1 DEF DownClaims
  <2> QED BY <2>3, <2>4, <2>5, <2>6
<1>14. CASE Stop
  <2>1. /\ app' = "down" /\ writers' = {} /\ UNCHANGED <<of, record, taken, seen>>
        /\ \A s \in Sessions : open'[s] = NoLaunch
        /\ \A l \in Launches :
              start'[l] \in {"unused", "heard"} /\ (start'[l] = "unused" => start[l] = "unused")
    BY <1>14 DEF Stop
  <2>2. OpenClaims' /\ WriterClaims' /\ DownClaims'
    BY <2>1 DEF OpenClaims, WriterClaims, DownClaims
  <2>3. EarlyClaims'  BY <2>1 DEF EarlyClaims
  <2> QED BY <2>2, <2>3
<1>15. CASE StartApp
  <2>1. /\ ~Up /\ app' = "up" /\ UNCHANGED <<of, start, open, writers, taken, seen>>
        /\ \A l \in Launches : record[l] = "absent" => record'[l] = "absent"
    BY <1>15 DEF StartApp, launch, history, Fold
  <2>2. OpenClaims' /\ WriterClaims' /\ DownClaims'
    BY <2>1 DEF OpenClaims, WriterClaims, DownClaims
  <2>3. EarlyClaims'  BY <2>1 DEF EarlyClaims, DownClaims, Closed
  <2> QED BY <2>2, <2>3
<1>16. CASE UNCHANGED <<app, of, start, record, seen, open, writers, taken>>
  BY <1>16 DEF OpenClaims, WriterClaims, EarlyClaims, DownClaims
<1>17. ASSUME NEW s \in Sessions, CloseTile(s) \/ KillChild(s) PROVE Claims'
  BY <1>16, <1>17 DEF CloseTile, KillChild, launch, journal, history
<1>18. ASSUME NEW l \in Launches,
              WaiterChecks(l) \/ WaiterTells(l) \/ \E how \in Dead : Exit(l, how)
       PROVE  Claims'
  BY <1>16, <1>18 DEF WaiterChecks, WaiterTells, Exit, launch, journal, history
<1>19. ASSUME NEW l \in Launches, Turn(l) \/ Clear(l) \/ Leave(l) PROVE Claims'
  BY <1>16, <1>19 DEF Turn, Clear, Leave, Sends, launch, journal, history
<1>20. ASSUME NEW h \in Reports, HookTells(h) PROVE Claims'
  BY <1>16, <1>20 DEF HookTells, launch, journal, history
<1>21. CASE Toggle
  BY <1>16, <1>21 DEF Toggle, launch, journal, history
<1>22. CASE UNCHANGED vars
  BY <1>16, <1>22 DEF vars, launch, journal, history
<1> QED BY <1>1, <1>2, <1>3, <1>4, <1>5, <1>6, <1>7, <1>8, <1>9, <1>10, <1>11, <1>12, <1>13,
           <1>14, <1>15, <1>17, <1>18, <1>19, <1>20, <1>21, <1>22
    DEF Next, Deck, Serve, Children, Wait, Listen, Journal

\* Whoever takes the entry of open_runs is the only one that closes the run.
THEOREM TakenOnceAlways == Spec => []TakenOnce
<1>1. TypeInv /\ Claims => TakenOnce
  BY DEF Claims, OpenClaims, WriterClaims, Unclosed, TakenOnce
<1>2. TypeInv /\ [Next]_vars => TypeInv'  BY TypeStep
<1>3. TypeInv /\ Claims /\ [Next]_vars => Claims'  BY ClaimsStep
<1> QED BY <1>1, <1>2, <1>3, TypeInit, ClaimsInit, PTL DEF Spec

-----------------------------------------------------------------------------
(* What becomes of a record.                                               *)

NoErasing == erasures = 0 /\ erasing = NoSkill

LEMMA NoErasingStep ==
  ASSUME MaxErasures = 0, NoErasing, [Next]_vars
  PROVE  NoErasing'
<1> USE DEF NoErasing
<1>1. CASE Deck
  BY <1>1 DEF Deck, NewTile, RestoreTile, Restart, CloseTile, Invoke, HearsStarted,
              HearsFailed, history, bounds
<1>2. CASE Serve
  BY <1>2 DEF Serve, RejectStart, OpenRecord, OpenEntry, OpenNothing, Displace, SpawnChild,
              Hold, FailToStart, CloseRecord, KillChild, history, bounds
<1>3. CASE Children
  BY <1>3 DEF Children, Turn, Clear, Leave, Sends, Exit, Wait, WaiterChecks, WaiterCloses,
              WaiterTells, history, bounds
<1>4. CASE Listen
  BY <1>4 DEF Listen, HookCloses, HookTells, history, bounds
<1>5. CASE Journal
  BY <1>5 DEF Journal, WriteClose, EraseReads, EraseWrites, Toggle, history, bounds
<1>6. CASE Stop \/ StartApp
  BY <1>6 DEF Stop, StartApp, history, bounds
<1>7. CASE UNCHANGED vars
  BY <1>7 DEF vars, history, bounds
<1> QED BY <1>1, <1>2, <1>3, <1>4, <1>5, <1>6, <1>7 DEF Next

\* A history that nobody erases keeps every close it holds: with no rewrite
\* of the file, a record leaves `running` once and for all.
THEOREM LeavesOnceUnerased ==
  ASSUME MaxErasures = 0
  PROVE  Spec => LeavesOnce
<1>1. Init => NoErasing  BY DEF Init, NoErasing
<1>2. NoErasing /\ [Next]_vars => NoErasing'  BY NoErasingStep
<1>3. TypeInv /\ Claims /\ NoErasing /\ [Next]_vars
        => \A l \in Launches : record[l] \in Closed => record'[l] \in {record[l], "absent"}
  <2> SUFFICES ASSUME TypeInv, Claims, NoErasing, [Next]_vars,
                      NEW l \in Launches, record[l] \in Closed
               PROVE  record'[l] = record[l]
    OBVIOUS
  <2> USE DEF TypeInv, TypeOK, NoErasing, Closed
  <2>1. CASE record' = record  BY <2>1
  <2>2. ASSUME NEW k \in Launches, OpenRecord(k) PROVE record'[l] = record[l]
    <3>1. record[k] = "absent"  BY <2>2 DEF OpenRecord, Claims, EarlyClaims, Early
    <3>2. l # k  BY <3>1
    <3>3. l # open[of[k]] \/ Fold(record[l], "ended") = record[l]  BY DEF Fold
    <3> QED BY <2>2, <3>2, <3>3 DEF OpenRecord
  <2>3. ASSUME NEW k \in Launches, FailToStart(k) PROVE record'[l] = record[l]
    BY <2>3 DEF FailToStart, Fold
  <2>4. ASSUME NEW w \in Closes, WriteClose(w) PROVE record'[l] = record[l]
    BY <2>4 DEF WriteClose, Fold, Closes
  <2>5. CASE StartApp  BY <2>5 DEF StartApp, Fold
  <2>6. CASE Deck
    BY <2>1, <2>6 DEF Deck, NewTile, RestoreTile, Restart, CloseTile, Invoke, HearsStarted,
                      HearsFailed, journal
  <2>7. CASE Serve
    BY <2>1, <2>2, <2>3, <2>7
    DEF Serve, RejectStart, OpenEntry, OpenNothing, Displace, SpawnChild, Hold, CloseRecord,
        KillChild, journal
  <2>8. CASE Children
    BY <2>1, <2>8 DEF Children, Turn, Clear, Leave, Sends, Exit, Wait, WaiterChecks,
                      WaiterCloses, WaiterTells, journal
  <2>9. CASE Listen
    BY <2>1, <2>9 DEF Listen, HookCloses, HookTells, journal
  <2>10. CASE Journal
    BY <2>1, <2>4, <2>10 DEF Journal, EraseReads, EraseWrites, Toggle, journal
  <2>11. CASE Stop \/ UNCHANGED vars
    BY <2>1, <2>11 DEF Stop, vars, journal
  <2> QED BY <2>5, <2>6, <2>7, <2>8, <2>9, <2>10, <2>11 DEF Next
<1>4. TypeInv /\ Claims /\ NoErasing /\ [Next]_vars
        => [\A l \in Launches :
               record[l] \in Closed => record'[l] \in {record[l], "absent"}]_vars
  BY <1>3
<1>5. TypeInv /\ [Next]_vars => TypeInv'  BY TypeStep
<1>6. TypeInv /\ Claims /\ [Next]_vars => Claims'  BY ClaimsStep
<1> QED BY <1>1, <1>2, <1>4, <1>5, <1>6, TypeInit, ClaimsInit, PTL DEF Spec, LeavesOnce

-----------------------------------------------------------------------------

\* The entry a launch is about to make overwrites none.
MakesRoom == \A l \in Launches : start[l] = "opening" => open[of[l]] = NoLaunch

KeptInv == RunningIsKept /\ MakesRoom

LEMMA KeptInit == Init => KeptInv
BY DEF Init, KeptInv, RunningIsKept, MakesRoom, Up

\* Closing hands a running record over from open_runs to a thread.
LEMMA CloseRunKeeps ==
  ASSUME TypeInv, Claims, KeptInv, NEW s \in Sessions, NEW status \in Dead,
         NEW by \in Launches \cup {NoLaunch}, CloseRun(s, status, by),
         UNCHANGED <<app, of, start, record, serving, lost>>
  PROVE  KeptInv'
<1> USE NamesAssumption
<1> USE DEF TypeInv, TypeOK, KeptInv
<1> DEFINE mine == [run |-> open[s], status |-> status, by |-> by]
<1>1. open' = [open EXCEPT ![s] = NoLaunch]  BY DEF CloseRun, TakeOpen
<1>2. writers \subseteq writers' /\ (open[s] # NoLaunch => mine \in writers')
  BY DEF CloseRun
<1>3. MakesRoom'  BY <1>1 DEF MakesRoom, Launched
<1>4. ASSUME NEW l \in Launches, Up', record'[l] = "running"
      PROVE  (open[of[l]] = l \/ (\E w \in writers : w.run = l)
                              \/ (serving = l /\ start[l] = "opening") \/ l \in lost)'
  <2>1. open[of[l]] = l \/ (\E w \in writers : w.run = l)
                        \/ (serving = l /\ start[l] = "opening") \/ l \in lost
    BY <1>4 DEF RunningIsKept, Up
  <2>2. CASE open[of[l]] = l /\ of[l] # s
    BY <1>1, <2>2
  <2>3. CASE open[of[l]] = l /\ of[l] = s
    <3>1. mine \in writers' /\ mine.run = l  BY <1>2, <2>3
    <3> QED BY <3>1
  <2> QED BY <1>2, <2>1, <2>2, <2>3
<1> QED BY <1>3, <1>4 DEF RunningIsKept

LEMMA KeptStep ==
  ASSUME TypeInv, GenInv, Claims, NoErasing, KeptInv, [Next]_vars
  PROVE  KeptInv'
<1> USE NamesAssumption
<1> USE DEF TypeInv, TypeOK, KeptInv, Up
<1>1. ASSUME NEW s \in Sessions, NEW l \in Launches,
             NewTile(s, l) \/ RestoreTile(s, l) \/ Restart(s, l)
      PROVE  KeptInv'
  <2>1. /\ UNCHANGED <<app, record, open, writers, serving, lost>>
        /\ start[l] = "unused"
        /\ of' = [of EXCEPT ![l] = s]
        /\ start' = [start EXCEPT ![l] = "preparing"]
    BY <1>1 DEF NewTile, RestoreTile, Restart, Asks, journal, main
  <2>2. record[l] = "absent"  BY <2>1 DEF Claims, EarlyClaims, Early
  <2> QED BY <2>1, <2>2 DEF RunningIsKept, MakesRoom
<1>2. ASSUME NEW l \in Launches,
             Invoke(l) \/ HearsStarted(l) \/ HearsFailed(l) \/ RejectStart(l) \/ Displace(l)
             \/ SpawnChild(l)
      PROVE  KeptInv'
  <2>1. PICK phase \in Phases :
           /\ start' = [start EXCEPT ![l] = phase] /\ phase # "opening" /\ start[l] # "opening"
           /\ UNCHANGED <<app, of, record, open, writers, serving, lost>>
    BY <1>2 DEF Invoke, HearsStarted, HearsFailed, RejectStart, Displace, SpawnChild, Takes,
                Free, journal, main, Phases
  <2> QED BY <2>1 DEF RunningIsKept, MakesRoom
<1>3. ASSUME NEW l \in Launches, OpenRecord(l) PROVE KeptInv'
  <2>1. /\ start[l] = "sent" /\ serving = NoLaunch /\ serving' = l
        /\ start' = [start EXCEPT ![l] = "opening"]
        /\ open' = [open EXCEPT ![of[l]] = NoLaunch]
        /\ lost \subseteq lost'
        /\ UNCHANGED <<app, of, writers>>
    BY <1>3 DEF OpenRecord, Takes, Free, TakeOpen, Misses
  <2>2. of[l] \in Sessions /\ \A s \in Sessions : open[s] # l
    BY <2>1 DEF Launched, Claims, OpenClaims, Early
  <2>3. MakesRoom'
    BY <2>1, <2>2 DEF MakesRoom, Launched
  <2>4. ASSUME NEW k \in Launches, Up, record'[k] = "running", k # l
        PROVE  open'[of'[k]] = k \/ (\E w \in writers' : w.run = k) \/ k \in lost'
    <3>1. k \in lost' \/ (k # open[of[l]] /\ record[k] = "running")
      BY <1>3, <2>4 DEF OpenRecord, Misses, Fold, Closed
    <3>2. SUFFICES ASSUME k # open[of[l]], record[k] = "running"
                   PROVE  open'[of'[k]] = k \/ (\E w \in writers' : w.run = k) \/ k \in lost'
      BY <3>1
    <3>3. open[of[k]] = k \/ (\E w \in writers : w.run = k) \/ k \in lost
      BY <2>1, <2>4, <3>2 DEF RunningIsKept
    <3>4. CASE open[of[k]] = k  BY <2>1, <3>2, <3>4
    <3> QED BY <2>1, <3>3, <3>4
  <2> QED BY <2>1, <2>3, <2>4 DEF RunningIsKept
<1>4. ASSUME NEW l \in Launches, OpenNothing(l) PROVE KeptInv'
  BY <1>4 DEF OpenNothing, Takes, Free, journal, RunningIsKept, MakesRoom
<1>5. ASSUME NEW l \in Launches, OpenEntry(l) PROVE KeptInv'
  <2>1. /\ serving = l /\ start[l] = "opening" /\ of[l] \in Sessions
        /\ open[of[l]] = NoLaunch
        /\ start' = [start EXCEPT ![l] = "opened"]
        /\ open' = [open EXCEPT ![of[l]] = l]
        /\ UNCHANGED <<app, of, record, writers, serving, lost>>
    BY <1>5 DEF OpenEntry, Launched, MakesRoom, main
  <2>2. \A k \in Launches : k # l => start[k] # "opening"  BY <2>1 DEF GenInv, Serving
  <2>3. MakesRoom'  BY <2>1, <2>2 DEF MakesRoom
  <2>4. RunningIsKept'
    <3>1. ASSUME NEW k \in Launches, Up, record[k] = "running"
          PROVE  open'[of[k]] = k \/ (\E w \in writers : w.run = k) \/ k \in lost
      <4>1. CASE k = l  BY <2>1, <4>1
      <4>2. CASE k # l
        <5>1. open[of[k]] = k \/ (\E w \in writers : w.run = k) \/ k \in lost
          BY <2>2, <3>1, <4>2 DEF RunningIsKept
        <5> QED BY <2>1, <5>1
      <4> QED BY <4>1, <4>2
    <3> QED BY <2>1, <3>1 DEF RunningIsKept
  <2> QED BY <2>3, <2>4
<1>6. ASSUME NEW l \in Launches, Hold(l) PROVE KeptInv'
  <2>1. /\ serving = l /\ start[l] = "spawned"
        /\ start' = [start EXCEPT ![l] = "ok"]
        /\ UNCHANGED <<app, of, record, open, writers, lost>>
    BY <1>6 DEF Hold, journal
  <2>2. \A k \in Launches : start[k] # "opening"  BY <2>1 DEF GenInv, Serving
  <2> QED BY <2>1, <2>2 DEF RunningIsKept, MakesRoom
<1>7. ASSUME NEW l \in Launches, FailToStart(l) PROVE KeptInv'
  <2>1. /\ serving = l /\ start[l] \in {"opened", "spawning"}
        /\ start' = [start EXCEPT ![l] = "failed"]
        /\ open' = [open EXCEPT ![of[l]] = NoLaunch]
        /\ lost \subseteq lost'
        /\ UNCHANGED <<app, of, writers>>
    BY <1>7 DEF FailToStart, TakeOpen, Misses
  <2>2. \A k \in Launches : start[k] # "opening"  BY <2>1 DEF GenInv, Serving
  <2>3. ASSUME NEW k \in Launches, Up, record'[k] = "running"
        PROVE  open'[of'[k]] = k \/ (\E w \in writers' : w.run = k) \/ k \in lost'
    <3>1. k \in lost' \/ (k # open[of[l]] /\ record[k] = "running")
      BY <1>7, <2>3 DEF FailToStart, Misses, Fold
    <3>2. record[k] = "running" =>
             open[of[k]] = k \/ (\E w \in writers : w.run = k) \/ k \in lost
      BY <2>2, <2>3 DEF RunningIsKept
    <3> QED BY <2>1, <3>1, <3>2
  <2> QED BY <2>1, <2>2, <2>3 DEF RunningIsKept, MakesRoom
<1>8. ASSUME NEW s \in Sessions, CloseRecord(s) PROVE KeptInv'
  BY <1>8, CloseRunKeeps DEF CloseRecord, launch, Dead
<1>9. ASSUME NEW l \in Launches, WaiterCloses(l) PROVE KeptInv'
  <2>1. of[l] \in Sessions /\ proc[l] \in Dead  BY <1>9 DEF WaiterCloses, Launched
  <2> QED BY <1>9, <2>1, CloseRunKeeps DEF WaiterCloses, launch, main
<1>10. ASSUME NEW h \in Reports, HookCloses(h) PROVE KeptInv'
  <2>1. h.session \in Sessions  BY DEF Reports
  <2> QED BY <1>10, <2>1, CloseRunKeeps DEF HookCloses, launch, main, Dead
<1>11. ASSUME NEW w \in Closes, WriteClose(w) PROVE KeptInv'
  <2>1. /\ writers' = writers \ {w} /\ UNCHANGED <<app, of, start, open, serving>>
        /\ \A k \in Launches : k # w.run => record'[k] = record[k]
        /\ record'[w.run] # "running" \/ w.run \in lost'
        /\ lost \subseteq lost'
    BY <1>11 DEF WriteClose, launch, main, Closes, Fold, Dead, Misses
  <2> QED BY <2>1 DEF RunningIsKept, MakesRoom
<1>12. CASE Stop  BY <1>12 DEF Stop, RunningIsKept, MakesRoom
<1>13. CASE StartApp
  <2>1. /\ UNCHANGED <<of, start, open>>
        /\ \A k \in Launches : record'[k] # "running" \/ k \in lost'
    BY <1>13 DEF StartApp, launch, Fold, Misses
  <2> QED BY <2>1 DEF RunningIsKept, MakesRoom
<1>14. CASE UNCHANGED <<app, of, start, record, open, writers, serving, lost>>
  BY <1>14 DEF RunningIsKept, MakesRoom
<1>15. ASSUME NEW s \in Sessions, CloseTile(s) \/ KillChild(s) PROVE KeptInv'
  BY <1>14, <1>15 DEF CloseTile, KillChild, launch, journal
<1>16. ASSUME NEW l \in Launches,
              WaiterChecks(l) \/ WaiterTells(l) \/ \E how \in Dead : Exit(l, how)
       PROVE  KeptInv'
  BY <1>14, <1>16 DEF WaiterChecks, WaiterTells, Exit, launch, journal, main
<1>17. ASSUME NEW l \in Launches, Turn(l) \/ Clear(l) \/ Leave(l) PROVE KeptInv'
  BY <1>14, <1>17 DEF Turn, Clear, Leave, Sends, launch, journal, main
<1>18. ASSUME NEW h \in Reports, HookTells(h) PROVE KeptInv'
  BY <1>14, <1>18 DEF HookTells, launch, journal, main
<1>19. CASE Toggle \/ \E k \in Skills : EraseReads(k)
  BY <1>14, <1>19 DEF Toggle, EraseReads, launch, journal, main
<1>20. CASE EraseWrites  BY <1>20 DEF EraseWrites, NoErasing
<1>21. CASE UNCHANGED vars
  BY <1>14, <1>21 DEF vars, launch, journal, main
<1> QED BY <1>1, <1>2, <1>3, <1>4, <1>5, <1>6, <1>7, <1>8, <1>9, <1>10, <1>11, <1>12, <1>13,
           <1>15, <1>16, <1>17, <1>18, <1>19, <1>20, <1>21
    DEF Next, Deck, Serve, Children, Wait, Listen, Journal

\* Nothing leaves a record running behind while no history is erased.
THEOREM RunningIsKeptUnerased ==
  ASSUME MaxErasures = 0
  PROVE  Spec => []RunningIsKept
<1>1. Init => NoErasing  BY DEF Init, NoErasing
<1>2. NoErasing /\ [Next]_vars => NoErasing'  BY NoErasingStep
<1>3. TypeInv /\ [Next]_vars => TypeInv'  BY TypeStep
<1>4. TypeInv /\ GenInv /\ [Next]_vars => GenInv'  BY GenStep
<1>5. TypeInv /\ Claims /\ [Next]_vars => Claims'  BY ClaimsStep
<1>6. TypeInv /\ GenInv /\ Claims /\ NoErasing /\ KeptInv /\ [Next]_vars => KeptInv'
  BY KeptStep
<1>7. KeptInv => RunningIsKept  BY DEF KeptInv
<1> QED BY <1>1, <1>2, <1>3, <1>4, <1>5, <1>6, <1>7, TypeInit, GenInit, ClaimsInit, KeptInit,
           PTL DEF Spec

-----------------------------------------------------------------------------

\* A launch that failed is not the one open_runs holds for its session:
\* failed_to_start took that entry, and a launch refused before never made one.
FailedHoldsNothing == \A l \in Launches : start[l] = "failed" => open[of[l]] # l

LEMMA FailedStep ==
  ASSUME TypeInv, Claims, FailedHoldsNothing, [Next]_vars
  PROVE  FailedHoldsNothing'
<1> USE NamesAssumption
<1> USE DEF TypeInv, TypeOK, FailedHoldsNothing
<1>1. ASSUME NEW s \in Sessions, NEW l \in Launches,
             NewTile(s, l) \/ RestoreTile(s, l) \/ Restart(s, l)
      PROVE  FailedHoldsNothing'
  <2>1. /\ UNCHANGED open
        /\ of' = [of EXCEPT ![l] = s]
        /\ start' = [start EXCEPT ![l] = "preparing"]
    BY <1>1 DEF NewTile, RestoreTile, Restart, Asks, journal
  <2> QED BY <2>1
<1>2. ASSUME NEW l \in Launches,
             \/ Invoke(l) \/ HearsStarted(l) \/ HearsFailed(l) \/ Displace(l)
             \/ SpawnChild(l) \/ Hold(l) \/ OpenNothing(l)
      PROVE  FailedHoldsNothing'
  <2>1. PICK phase \in Phases \ {"failed"} :
           start' = [start EXCEPT ![l] = phase] /\ UNCHANGED <<of, open>>
    BY <1>2 DEF Invoke, HearsStarted, HearsFailed, Displace, SpawnChild, Hold, OpenNothing,
                journal, Phases
  <2> QED BY <2>1
<1>3. ASSUME NEW l \in Launches, RejectStart(l) PROVE FailedHoldsNothing'
  <2>1. /\ start[l] = "sent" /\ start' = [start EXCEPT ![l] = "failed"]
        /\ UNCHANGED <<of, open>>
    BY <1>3 DEF RejectStart, journal
  <2>2. of[l] \in Sessions /\ open[of[l]] # l
    BY <2>1 DEF Launched, Claims, OpenClaims, Early
  <2> QED BY <2>1, <2>2
<1>4. ASSUME NEW l \in Launches, OpenRecord(l) \/ FailToStart(l) PROVE FailedHoldsNothing'
  <2>1. /\ of[l] \in Sessions
        /\ open' = [open EXCEPT ![of[l]] = NoLaunch]
        /\ \A k \in Launches : k # l => start'[k] = start[k]
        /\ UNCHANGED of
    BY <1>4 DEF OpenRecord, FailToStart, TakeOpen, Launched
  <2> QED BY <2>1
<1>5. ASSUME NEW l \in Launches, OpenEntry(l) PROVE FailedHoldsNothing'
  <2>1. /\ of[l] \in Sessions
        /\ open' = [open EXCEPT ![of[l]] = l]
        /\ start' = [start EXCEPT ![l] = "opened"]
        /\ UNCHANGED of
    BY <1>5 DEF OpenEntry, Launched
  <2> QED BY <2>1
<1>6. ASSUME NEW s \in Sessions, NEW status \in Dead, NEW by \in Launches \cup {NoLaunch},
             CloseRun(s, status, by), UNCHANGED <<of, start>>
      PROVE  FailedHoldsNothing'
  BY <1>6 DEF CloseRun, TakeOpen, Launched
<1>7. ASSUME NEW s \in Sessions, CloseRecord(s) PROVE FailedHoldsNothing'
  BY <1>6, <1>7 DEF CloseRecord, launch, Dead
<1>8. ASSUME NEW l \in Launches, WaiterCloses(l) PROVE FailedHoldsNothing'
  <2>1. of[l] \in Sessions /\ proc[l] \in Dead  BY <1>8 DEF WaiterCloses, Launched
  <2> QED BY <1>6, <1>8, <2>1 DEF WaiterCloses, launch
<1>9. ASSUME NEW h \in Reports, HookCloses(h) PROVE FailedHoldsNothing'
  <2>1. h.session \in Sessions  BY DEF Reports
  <2> QED BY <1>6, <1>9, <2>1 DEF HookCloses, launch, Dead
<1>10. CASE Stop  BY <1>10 DEF Stop
<1>11. CASE UNCHANGED <<of, start, open>>  BY <1>11
<1>12. ASSUME NEW s \in Sessions, CloseTile(s) \/ KillChild(s) PROVE FailedHoldsNothing'
  BY <1>11, <1>12 DEF CloseTile, KillChild, launch, journal
<1>13. ASSUME NEW l \in Launches,
              WaiterChecks(l) \/ WaiterTells(l) \/ \E how \in Dead : Exit(l, how)
       PROVE  FailedHoldsNothing'
  BY <1>11, <1>13 DEF WaiterChecks, WaiterTells, Exit, launch, journal
<1>14. ASSUME NEW l \in Launches, Turn(l) \/ Clear(l) \/ Leave(l) PROVE FailedHoldsNothing'
  BY <1>11, <1>14 DEF Turn, Clear, Leave, Sends, launch, journal
<1>15. ASSUME NEW h \in Reports, HookTells(h) PROVE FailedHoldsNothing'
  BY <1>11, <1>15 DEF HookTells, launch, journal
<1>16. CASE \/ Toggle \/ (\E k \in Skills : EraseReads(k)) \/ EraseWrites
            \/ (\E w \in Closes : WriteClose(w))
  BY <1>11, <1>16 DEF Toggle, EraseReads, EraseWrites, WriteClose, launch, journal
<1>17. CASE StartApp \/ UNCHANGED vars
  BY <1>11, <1>17 DEF StartApp, vars, launch, journal
<1> QED BY <1>1, <1>2, <1>3, <1>4, <1>5, <1>7, <1>8, <1>9, <1>10, <1>12, <1>13, <1>14, <1>15,
           <1>16, <1>17
    DEF Next, Deck, Serve, Children, Wait, Listen, Journal

\* A start that failed leaves no record running (run_journal
\* failed_to_start), while no history is erased.
THEOREM FailedIsClosedUnerased ==
  ASSUME MaxErasures = 0
  PROVE  Spec => []FailedIsClosed
<1>1. Init => NoErasing /\ FailedHoldsNothing
  BY DEF Init, NoErasing, FailedHoldsNothing
<1>2. NoErasing /\ [Next]_vars => NoErasing'  BY NoErasingStep
<1>3. TypeInv /\ [Next]_vars => TypeInv'  BY TypeStep
<1>4. TypeInv /\ GenInv /\ [Next]_vars => GenInv'  BY GenStep
<1>5. TypeInv /\ Claims /\ [Next]_vars => Claims'  BY ClaimsStep
<1>6. TypeInv /\ GenInv /\ Claims /\ NoErasing /\ KeptInv /\ [Next]_vars => KeptInv'
  BY KeptStep
<1>7. TypeInv /\ Claims /\ FailedHoldsNothing /\ [Next]_vars => FailedHoldsNothing'
  BY FailedStep
<1>8. Claims /\ KeptInv /\ FailedHoldsNothing => FailedIsClosed
  <2> SUFFICES ASSUME Claims, KeptInv, FailedHoldsNothing,
                      NEW l \in Launches, start[l] = "failed", record[l] = "running"
               PROVE  l \in lost \/ \E w \in writers : w.run = l
    BY DEF FailedIsClosed
  <2>1. Up  BY DEF Claims, DownClaims
  <2> QED BY <2>1 DEF KeptInv, RunningIsKept, FailedHoldsNothing
<1> QED BY <1>1, <1>2, <1>3, <1>4, <1>5, <1>6, <1>7, <1>8, TypeInit, GenInit, ClaimsInit,
           KeptInit, PTL DEF Spec

=============================================================================
