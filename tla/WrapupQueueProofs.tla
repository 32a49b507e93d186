------------------------- MODULE WrapupQueueProofs -------------------------
(***************************************************************************)
(* Theorems of WrapupQueue, for every set of jobs and of drain threads,    *)
(* every number of attempts and every bound on stops, faults and retries.  *)
(*                                                                         *)
(* The safety invariants are proved in three layers, each inductive given  *)
(* the ones before it: types; who drains and what a drain holds; what an   *)
(* attempt may spend and what it has written.                              *)
(***************************************************************************)
EXTENDS WrapupQueue, FiniteSetTheorems, TLAPS

-----------------------------------------------------------------------------
(* Types.                                                                  *)

\* Every step of Next keeps the types of the variables.
LEMMA TypeStep ==
  ASSUME TypeOK, [Next]_vars
  PROVE  TypeOK'
<1> USE BoundsAssumption
<1> USE DEF Reads, Misreads, Without,
            TypeOK, States, Stages, Parts, Terminal, disk, corpus, thread,
            budget, mainThread, Goto, Active, Settled, InState
<1>1. CASE StartApp  BY <1>1 DEF StartApp, Claims
<1>2. CASE RecoverJob
  <2> PICK j \in Oldest(Claims) : state' = [state EXCEPT ![j] = AfterFailure(j)]
    BY <1>2 DEF RecoverJob
  <2> QED BY <1>2 DEF RecoverJob, AfterFailure, Oldest, Claims
<1>3. CASE RecoverEnds
  BY <1>3 DEF RecoverEnds, AfterRecovery
<1>4. CASE RecoverFails
  BY <1>4 DEF RecoverFails, AfterRecovery, Claims
<1>5. CASE SpawnDrain
  BY <1>5 DEF SpawnDrain, CanDrain
<1>6. CASE Stop
  <2>1. /\ worker' \in [Workers -> Stages]
        /\ plan' \in [Workers -> SUBSET Jobs]
        /\ cur' \in [Workers -> Jobs \cup {NoJob}]
        /\ result' \in [Workers -> {"none", "note", "empty"}]
    BY <1>6 DEF Stop
  <2>2. UNCHANGED <<state, attempts, outcome, place, written, notes, calls,
                    faults, retries>>
    BY <1>6 DEF Stop
  <2>3. app' = "down" /\ busy' = FALSE /\ orphaned' = {} /\ stops' \in 0..MaxStops
    BY <1>6 DEF Stop
  <2> QED BY <2>1, <2>2, <2>3
<1>7. ASSUME NEW j \in Jobs, Enqueue(j) PROVE TypeOK'
  <2>1. Cardinality({k \in Jobs : state[k] # "absent"}) \in Nat
    BY JobsAssumption, FS_Subset, FS_CardinalityType
  <2> QED BY <1>7, <2>1 DEF Enqueue
<1>8. ASSUME NEW j \in Jobs, Retry(j) PROVE TypeOK'
  BY <1>8 DEF Retry, Fresh
<1>9. ASSUME NEW w \in Workers, DrainStep(w) \/ DrainFails(w) PROVE TypeOK'
  <2>1. CASE Plan(w)  BY <2>1 DEF Plan
  <2>2. CASE Take(w)
    <3> PICK j \in Oldest(plan[w]) :
          /\ plan' = [plan EXCEPT ![w] = @ \ {j}]
          /\ \/ /\ state' = [state EXCEPT ![j] = "running"]
                /\ attempts' = [attempts EXCEPT ![j] = @ + 1]
                /\ written' = [written EXCEPT ![j] = {}]
                /\ cur' = [cur EXCEPT ![w] = j]
                /\ Goto(w, "reading")
             \/ UNCHANGED <<state, attempts, written, cur, worker>>
      BY <2>2 DEF Take
    <3>1. j \in Jobs  BY DEF Oldest
    <3>2. UNCHANGED <<outcome, place, app, busy, result, notes, calls, orphaned,
                      stops, retries>>
      BY <2>2 DEF Take
    <3>3. faults' \in 0..MaxFaults
      BY <2>2 DEF Take
    <3> QED BY <3>1, <3>2, <3>3
  <2>3. CASE ReadTranscript(w)  BY <2>3 DEF ReadTranscript
  <2>4. CASE Answer(w)  BY <2>4 DEF Answer
  <2>5. CASE WriteNote(w)
    <3>1. notes' \in [Jobs -> Nat]
      <4>1. \/ notes' = notes
            \/ notes' = [notes EXCEPT ![cur[w]] = notes[cur[w]] + 1]
        BY <2>5 DEF WriteNote
      <4>2. cur[w] \in Jobs => notes[cur[w]] + 1 \in Nat
        OBVIOUS
      <4> QED BY <4>1, <4>2
    <3>2. written' \in [Jobs -> SUBSET Parts]
      BY <2>5 DEF WriteNote, WritePart
    <3>3. worker' \in [Workers -> Stages]
      BY <2>5 DEF WriteNote, WritePart
    <3>4. UNCHANGED <<disk, mainThread, plan, cur, result, calls, orphaned,
                      budget>>
      BY <2>5 DEF WriteNote, WritePart
    <3> QED BY <3>1, <3>2, <3>3, <3>4
  <2>6. CASE AppendFacts(w)  BY <2>6 DEF AppendFacts, WritePart
  <2>7. CASE AppendLessons(w)  BY <2>7 DEF AppendLessons, WritePart
  <2>8. CASE Finish(w)  BY <2>8 DEF Finish
  <2>9. CASE Fail(w)  BY <2>9 DEF Fail, AfterFailure
  <2>10. CASE PlanDone(w)  BY <2>10 DEF PlanDone
  <2>11. CASE DrainEnds(w)  BY <2>11 DEF DrainEnds
  <2>12. CASE DrainFails(w)  BY <2>12 DEF DrainFails, AfterFault
  <2> QED BY <1>9, <2>1, <2>2, <2>3, <2>4, <2>5, <2>6, <2>7, <2>8, <2>9,
             <2>10, <2>11, <2>12 DEF DrainStep
<1>10. CASE UNCHANGED vars  BY <1>10 DEF vars
<1> QED BY <1>1, <1>2, <1>3, <1>4, <1>5, <1>6, <1>7, <1>8, <1>9, <1>10
        DEF Next, Recover

\* Type correctness of the whole queue.
THEOREM TypeCorrect == Spec => []TypeOK
<1>1. Init => TypeOK
  <2> SUFFICES ASSUME Init PROVE TypeOK
    OBVIOUS
  <2>1. stops \in 0..MaxStops /\ faults \in 0..MaxFaults /\ retries \in 0..MaxRetries
    BY BoundsAssumption DEF Init
  <2>2. /\ state \in [Jobs -> States] /\ attempts \in [Jobs -> Nat]
        /\ outcome \in [Jobs -> {"none", "note", "empty"}]
        /\ place \in [Jobs -> Nat]
        /\ notes \in [Jobs -> Nat] /\ calls \in [Jobs -> Nat]
        /\ written \in [Jobs -> SUBSET Parts]
    BY DEF Init, States
  <2>3. /\ worker \in [Workers -> Stages]
        /\ plan \in [Workers -> SUBSET Jobs]
        /\ cur \in [Workers -> Jobs \cup {NoJob}]
        /\ result \in [Workers -> {"none", "note", "empty"}]
    BY DEF Init, Stages
  <2> QED BY <2>1, <2>2, <2>3 DEF Init, TypeOK
<1>2. TypeOK /\ [Next]_vars => TypeOK'
  BY TypeStep
<1> QED BY <1>1, <1>2, PTL DEF Spec

-----------------------------------------------------------------------------
(* Who drains, and what a drain holds.                                     *)

Drains == OneDrain /\ Threads /\ RunningIsHeld

\* While one drain thread runs, no other does and none holds a job.
LEMMA Alone ==
  ASSUME TypeOK, Drains, NEW w \in Workers, Active(w)
  PROVE  /\ \A v \in Workers \ {w} : worker[v] = "off" /\ cur[v] = NoJob
         /\ app \in {"spawning", "up"}
         /\ busy = TRUE
BY ZenonT(40) DEF TypeOK, Drains, OneDrain, Threads, Active, Holding

\* A step of a drain thread moves no other thread and not the main thread;
\* only the step that ends it frees the flag.
LEMMA OwnStep ==
  ASSUME TypeOK, NEW w \in Workers, DrainStep(w) \/ DrainFails(w), busy = TRUE,
         Active(w)
  PROVE  /\ \A v \in Workers \ {w} : worker'[v] = worker[v] /\ cur'[v] = cur[v]
         /\ app' = app
         /\ IF worker'[w] = "off" THEN busy' = FALSE ELSE busy' = TRUE
<1> USE DEF Reads, Misreads, Without,
            TypeOK, disk, corpus, thread, budget, mainThread, Goto, Active
<1>1. CASE Plan(w)  BY <1>1 DEF Plan
<1>2. CASE Take(w)  BY <1>2 DEF Take
<1>3. CASE ReadTranscript(w)  BY <1>3 DEF ReadTranscript
<1>4. CASE Answer(w)  BY <1>4 DEF Answer
<1>5. CASE WriteNote(w)  BY <1>5 DEF WriteNote, WritePart
<1>6. CASE AppendFacts(w)  BY <1>6 DEF AppendFacts, WritePart
<1>7. CASE AppendLessons(w)  BY <1>7 DEF AppendLessons, WritePart
<1>8. CASE Finish(w)  BY <1>8 DEF Finish
<1>9. CASE Fail(w)  BY <1>9 DEF Fail
<1>10. CASE PlanDone(w)  BY <1>10 DEF PlanDone
<1>11. CASE DrainEnds(w)  BY <1>11 DEF DrainEnds
<1>12. CASE DrainFails(w)  BY <1>12 DEF DrainFails, AfterFault
<1> QED BY <1>1, <1>2, <1>3, <1>4, <1>5, <1>6, <1>7, <1>8, <1>9, <1>10,
           <1>11, <1>12 DEF DrainStep

\* Every step of Next keeps the three invariants about drains.
LEMMA DrainsStep ==
  ASSUME TypeOK, TypeOK', Drains, [Next]_vars
  PROVE  Drains'
<1> USE NoJobAssumption
<1> USE DEF Reads, Misreads, Without,
            disk, corpus, thread, budget, mainThread, Goto, Active, Settled,
            InState, Holding, States, Stages, Terminal
<1>1. CASE StartApp
  <2>1. /\ app' \in {"recovering", "pruning"}
        /\ app' = "pruning" => orphaned' = Claims
        /\ UNCHANGED <<state, worker, cur, busy>>
    BY <1>1 DEF StartApp
  <2>2. \A w \in Workers : worker[w] = "off"
    BY <1>1 DEF StartApp, Drains, Threads
  <2>3. OneDrain' /\ Threads'
    BY <2>1, <2>2 DEF Drains, OneDrain, Threads
  <2>4. RunningIsHeld'
    BY <2>1 DEF RunningIsHeld, Claims
  <2> QED BY <2>3, <2>4 DEF Drains
<1>2. CASE RecoverJob
  <2> PICK j \in Oldest(Claims) : state' = [state EXCEPT ![j] = AfterFailure(j)]
    BY <1>2 DEF RecoverJob
  <2>1. app' = "recovering" /\ UNCHANGED <<worker, cur, busy>>
    BY <1>2 DEF RecoverJob
  <2>2. \A w \in Workers : cur[w] = NoJob
    BY <1>2 DEF RecoverJob, Drains, Threads
  <2>3. OneDrain' /\ RunningIsHeld'
    BY <2>1 DEF Drains, OneDrain, RunningIsHeld
  <2>4. Threads'
    BY <1>2, <2>1, <2>2 DEF RecoverJob, Drains, Threads
  <2> QED BY <2>3, <2>4 DEF Drains
<1>3. CASE RecoverEnds
  <2>1. \A w \in Workers : cur[w] = NoJob
    BY <1>3 DEF RecoverEnds, Drains, Threads
  <2>2. \A j \in Jobs : state'[j] = "running" => j \in orphaned'
    <3>1. \A j \in Jobs : state[j] = "running" => j \in orphaned
      BY <1>3, <2>1 DEF RecoverEnds, Claims, Drains, RunningIsHeld
    <3>2. \A j \in Jobs : state'[j] = "running" => state[j] = "running"
      BY <1>3 DEF RecoverEnds, TypeOK
    <3> QED BY <1>3, <3>1, <3>2 DEF RecoverEnds
  <2> QED BY <1>3, <2>1, <2>2
          DEF RecoverEnds, AfterRecovery, TypeOK, Drains, OneDrain, Threads,
              RunningIsHeld
<1>4. CASE RecoverFails
  BY <1>4 DEF RecoverFails, AfterRecovery, Claims, TypeOK, Drains, OneDrain,
              Threads, RunningIsHeld
<1>5. CASE SpawnDrain
  <2>1. CASE busy
    BY <1>5, <2>1 DEF SpawnDrain, CanDrain, TypeOK, Drains, OneDrain, Threads,
                      RunningIsHeld
  <2>2. CASE ~busy
    <3> PICK w \in Workers : ~ Active(w) /\ Goto(w, "planning")
      BY <1>5, <2>2 DEF SpawnDrain, CanDrain
    <3>1. app' = "up" /\ busy' = TRUE /\ UNCHANGED <<state, cur, orphaned>>
      BY <1>5, <2>2 DEF SpawnDrain, CanDrain
    <3>2. \A v \in Workers : worker[v] = "off" /\ cur[v] = NoJob
      BY <2>2 DEF TypeOK, Drains, OneDrain, Threads
    <3>3. \A v \in Workers : worker'[v] = IF v = w THEN "planning" ELSE "off"
      BY <3>2 DEF TypeOK
    <3>4. RunningIsHeld'
      BY <1>5, <3>1 DEF SpawnDrain, Drains, RunningIsHeld
    <3> QED BY <3>1, <3>2, <3>3, <3>4 DEF TypeOK, Drains, OneDrain, Threads
  <2> QED BY <2>1, <2>2 DEF TypeOK
<1>6. CASE Stop
  BY <1>6 DEF Stop, TypeOK, Drains, OneDrain, Threads, RunningIsHeld
<1>7. ASSUME NEW j \in Jobs, Enqueue(j) PROVE Drains'
  <2>1. /\ state' = [state EXCEPT ![j] = "queued"] /\ state[j] = "absent"
        /\ app = "up" /\ app' = "spawning"
        /\ UNCHANGED <<worker, cur, busy, orphaned>>
    BY <1>7 DEF Enqueue
  <2>2. \A k \in Jobs : state[k] = "running" <=> state'[k] = "running"
    BY <2>1 DEF TypeOK
  <2>3. OneDrain' /\ RunningIsHeld'
    BY <2>1, <2>2 DEF Drains, OneDrain, RunningIsHeld
  <2>4. Threads'
    BY <2>1, <2>2 DEF Drains, Threads, TypeOK
  <2> QED BY <2>3, <2>4 DEF Drains
<1>8. ASSUME NEW j \in Jobs, Retry(j) PROVE Drains'
  <2>1. /\ state' = [state EXCEPT ![j] = "queued"] /\ state[j] \in Terminal
        /\ app = "up" /\ app' = "spawning"
        /\ UNCHANGED <<worker, cur, busy, orphaned>>
    BY <1>8 DEF Retry
  <2>2. \A k \in Jobs : state[k] = "running" <=> state'[k] = "running"
    BY <2>1 DEF TypeOK
  <2>3. OneDrain' /\ RunningIsHeld'
    BY <2>1, <2>2 DEF Drains, OneDrain, RunningIsHeld
  <2>4. Threads'
    BY <2>1, <2>2 DEF Drains, Threads, TypeOK
  <2> QED BY <2>3, <2>4 DEF Drains
<1>9. ASSUME NEW w \in Workers, DrainStep(w) \/ DrainFails(w) PROVE Drains'
  <2>1. Active(w)
    BY <1>9 DEF DrainStep, DrainFails, Plan, Take, ReadTranscript, Answer,
                WriteNote, AppendFacts, AppendLessons, WritePart, Finish, Fail,
                PlanDone, DrainEnds
  <2>2. /\ \A v \in Workers \ {w} : worker[v] = "off" /\ cur[v] = NoJob
        /\ app \in {"spawning", "up"}
        /\ busy = TRUE
    BY <2>1, Alone
  <2>3. /\ \A v \in Workers \ {w} : worker'[v] = "off" /\ cur'[v] = NoJob
        /\ app' = app
        /\ IF worker'[w] = "off" THEN busy' = FALSE ELSE busy' = TRUE
    BY <1>9, <2>1, <2>2, OwnStep
  <2>5. OneDrain'
    BY <2>3 DEF OneDrain
  <2>6. Threads'
    <3>1. /\ worker'[w] \in Holding <=> cur'[w] # NoJob
          /\ cur'[w] # NoJob => state'[cur'[w]] = "running"
      <4>0. /\ worker[w] \in Holding <=> cur[w] # NoJob
            /\ cur[w] # NoJob => state[cur[w]] = "running"
        BY DEF Drains, Threads
      <4>1. CASE Plan(w)  BY <4>0, <4>1 DEF Plan, TypeOK
      <4>2. CASE Take(w)
        <5> PICK j \in Oldest(plan[w]) :
              \/ /\ state[j] = "queued"
                 /\ state' = [state EXCEPT ![j] = "running"]
                 /\ cur' = [cur EXCEPT ![w] = j]
                 /\ Goto(w, "reading")
              \/ UNCHANGED <<state, cur, worker>>
          BY <4>2 DEF Take
        <5>1. j \in Jobs  BY DEF Oldest, TypeOK
        <5> QED BY <4>0, <4>2, <5>1 DEF TypeOK, Take
      <4>3. CASE ReadTranscript(w)  BY <4>0, <4>3 DEF ReadTranscript, TypeOK
      <4>4. CASE Answer(w)  BY <4>0, <4>4 DEF Answer, TypeOK
      <4>5. CASE WriteNote(w)  BY <4>0, <4>5 DEF WriteNote, WritePart, TypeOK
      <4>6. CASE AppendFacts(w)
        BY <4>0, <4>6 DEF AppendFacts, WritePart, TypeOK
      <4>7. CASE AppendLessons(w)
        BY <4>0, <4>7 DEF AppendLessons, WritePart, TypeOK
      <4>8. CASE Finish(w)  BY <4>0, <4>8 DEF Finish, TypeOK
      <4>9. CASE Fail(w)  BY <4>0, <4>9 DEF Fail, TypeOK
      <4>10. CASE PlanDone(w)  BY <4>0, <4>10 DEF PlanDone, TypeOK
      <4>11. CASE DrainEnds(w)  BY <4>0, <4>11 DEF DrainEnds, TypeOK
      <4>12. CASE DrainFails(w)
        BY <4>0, <4>12 DEF DrainFails, AfterFault, TypeOK
      <4> QED BY <1>9, <4>1, <4>2, <4>3, <4>4, <4>5, <4>6, <4>7, <4>8, <4>9,
                 <4>10, <4>11, <4>12 DEF DrainStep
    <3> QED BY <2>2, <2>3, <3>1 DEF Threads
  <2>7. RunningIsHeld'
    <3>0. \A j \in Jobs : state[j] = "running" => j \in orphaned \/ cur[w] = j
      BY <2>2 DEF Drains, RunningIsHeld
    <3>1. \A j \in Jobs : state'[j] = "running" => j \in orphaned' \/ cur'[w] = j
      <4>1. CASE Plan(w)  BY <3>0, <4>1 DEF Plan
      <4>2. CASE Take(w)
        <5> PICK k \in Oldest(plan[w]) :
              \/ /\ state[k] = "queued"
                 /\ state' = [state EXCEPT ![k] = "running"]
                 /\ cur' = [cur EXCEPT ![w] = k]
              \/ UNCHANGED <<state, cur>>
          BY <4>2 DEF Take
        <5>1. cur[w] = NoJob /\ orphaned' = orphaned
          BY <4>2 DEF Take, Drains, Threads
        <5> QED BY <3>0, <5>1 DEF TypeOK
      <4>3. CASE ReadTranscript(w)  BY <3>0, <4>3 DEF ReadTranscript
      <4>4. CASE Answer(w)  BY <3>0, <4>4 DEF Answer
      <4>5. CASE WriteNote(w)  BY <3>0, <4>5 DEF WriteNote, WritePart
      <4>6. CASE AppendFacts(w)  BY <3>0, <4>6 DEF AppendFacts, WritePart
      <4>7. CASE AppendLessons(w)  BY <3>0, <4>7 DEF AppendLessons, WritePart
      <4>8. CASE Finish(w)
        <5>1. cur[w] \in Jobs /\ state[cur[w]] = "running"
          BY <4>8 DEF Finish, Drains, Threads, TypeOK
        <5> QED BY <3>0, <4>8, <5>1 DEF Finish, TypeOK
      <4>9. CASE Fail(w)
        <5>1. cur[w] \in Jobs /\ state[cur[w]] = "running"
          BY <4>9 DEF Fail, Drains, Threads, TypeOK
        <5> QED BY <3>0, <4>9, <5>1 DEF Fail, AfterFailure, TypeOK
      <4>10. CASE PlanDone(w)  BY <3>0, <4>10 DEF PlanDone
      <4>11. CASE DrainEnds(w)  BY <3>0, <4>11 DEF DrainEnds
      <4>12. CASE DrainFails(w)  BY <3>0, <4>12 DEF DrainFails, TypeOK
      <4> QED BY <1>9, <4>1, <4>2, <4>3, <4>4, <4>5, <4>6, <4>7, <4>8, <4>9,
                 <4>10, <4>11, <4>12 DEF DrainStep
    <3> QED BY <3>1 DEF RunningIsHeld
  <2> QED BY <2>5, <2>6, <2>7 DEF Drains
<1>10. CASE UNCHANGED vars
  BY <1>10 DEF vars, Drains, OneDrain, Threads, RunningIsHeld
<1> QED BY <1>1, <1>2, <1>3, <1>4, <1>5, <1>6, <1>7, <1>8, <1>9, <1>10
        DEF Next, Recover

\* The three invariants about drains hold together.
LEMMA DrainsAlways == Spec => []Drains
<1>1. Init => Drains
  BY ZenonT(40) DEF Init, Drains, OneDrain, Threads, RunningIsHeld, Active, Holding
<1>2. TypeOK /\ TypeOK' /\ Drains /\ [Next]_vars => Drains'
  BY DrainsStep
<1> QED BY <1>1, <1>2, TypeCorrect, PTL DEF Spec

\* OneDrain, for every behaviour of the queue.
THEOREM OneDrainAlways == Spec => []OneDrain
<1>1. Drains => OneDrain
  BY DEF Drains
<1> QED BY <1>1, DrainsAlways, PTL

\* RunningIsHeld, with the Threads it needs, for every behaviour of the queue.
THEOREM RunningIsHeldAlways == Spec => [](Threads /\ RunningIsHeld)
<1>1. Drains => Threads /\ RunningIsHeld
  BY DEF Drains
<1> QED BY <1>1, DrainsAlways, PTL

-----------------------------------------------------------------------------
(* What the attempts of a job may spend.                                   *)

\* Every step of Next keeps what Spending says of the jobs and the threads.
LEMMA SpendingStep ==
  ASSUME TypeOK, TypeOK', Drains, Drains', Spending, [Next]_vars
  PROVE  Spending'
<1> USE AttemptsAssumption, NoJobAssumption
<1> USE DEF Reads, Misreads, Without,
            disk, corpus, thread, budget, mainThread, Goto, Active, Settled,
            InState, Holding, Stages, Terminal, SpendBounded
<1>1. CASE StartApp
  BY <1>1 DEF StartApp, Spending
<1>2. CASE RecoverJob
  <2> PICK j \in Oldest(Claims) : state' = [state EXCEPT ![j] = AfterFailure(j)]
    BY <1>2 DEF RecoverJob
  <2>1. UNCHANGED <<attempts, notes, calls, worker, cur>>
    BY <1>2 DEF RecoverJob
  <2>2. j \in Jobs
    BY DEF Oldest, Claims
  <2> QED BY <2>1, <2>2 DEF TypeOK, Spending, AfterFailure
<1>3. CASE RecoverEnds
  BY <1>3 DEF RecoverEnds, TypeOK, Spending
<1>4. CASE RecoverFails
  BY <1>4 DEF RecoverFails, Spending
<1>5. CASE SpawnDrain
  <2>1. UNCHANGED <<state, attempts, notes, calls, cur>>
    BY <1>5 DEF SpawnDrain
  <2>2. \A w \in Workers : worker'[w] = worker[w] \/ worker'[w] = "planning"
    BY <1>5 DEF SpawnDrain, TypeOK
  <2> QED BY <2>1, <2>2 DEF Spending
<1>6. CASE Stop
  BY <1>6 DEF Stop, Spending
<1>7. ASSUME NEW j \in Jobs, Enqueue(j) PROVE Spending'
  BY <1>7 DEF Enqueue, TypeOK, Spending
<1>8. ASSUME NEW j \in Jobs, Retry(j) PROVE Spending'
  <2>1. /\ state[j] \in Terminal
        /\ state' = [state EXCEPT ![j] = "queued"]
        /\ attempts' = [attempts EXCEPT ![j] = 0]
        /\ notes' = [notes EXCEPT ![j] = 0]
        /\ calls' = [calls EXCEPT ![j] = 0]
        /\ UNCHANGED <<worker, cur>>
    BY <1>8 DEF Retry, Fresh
  <2>2. \A w \in Workers : worker[w] \in Holding => cur[w] \in Jobs /\ cur[w] # j
    BY <2>1 DEF Drains, Threads, TypeOK
  <2> QED BY <2>1, <2>2 DEF TypeOK, Spending
<1>9. ASSUME NEW w \in Workers, DrainStep(w) \/ DrainFails(w) PROVE Spending'
  <2>1. Active(w)
    BY <1>9 DEF DrainStep, DrainFails, Plan, Take, ReadTranscript, Answer,
                WriteNote, AppendFacts, AppendLessons, WritePart, Finish, Fail,
                PlanDone, DrainEnds
  <2>2. \A v \in Workers \ {w} : worker'[v] = "off"
    BY <1>9, <2>1, Alone, OwnStep
  <2>3. worker[w] \in Holding => cur[w] \in Jobs /\ state[cur[w]] = "running"
    BY DEF Drains, Threads, TypeOK
  <2> DEFINE JobsOK ==
        /\ SpendBounded
        /\ \A j \in InState("queued") : attempts[j] < MaxAttempts
        /\ \A j \in InState("absent") : attempts[j] = 0
  <2> DEFINE OwnOK ==
        /\ worker[w] = "reading" => calls[cur[w]] < attempts[cur[w]]
        /\ worker[w] \in {"asking", "writing"} => notes[cur[w]] < calls[cur[w]]
  <2>4. JobsOK /\ OwnOK
    BY DEF Spending
  <2>5. JobsOK' /\ OwnOK'
    <3>1. CASE Plan(w)  BY <2>4, <3>1 DEF Plan, TypeOK
    <3>2. CASE Take(w)
      <4> PICK j \in Oldest(plan[w]) :
            \/ /\ state[j] = "queued"
               /\ state' = [state EXCEPT ![j] = "running"]
               /\ attempts' = [attempts EXCEPT ![j] = @ + 1]
               /\ cur' = [cur EXCEPT ![w] = j]
               /\ Goto(w, "reading")
            \/ UNCHANGED <<state, attempts, cur, worker>>
        BY <3>2 DEF Take
      <4>1. UNCHANGED <<notes, calls>> /\ worker[w] = "picking"
        BY <3>2 DEF Take
      <4>2. j \in Jobs  BY DEF Oldest, TypeOK
      <4>3. CASE /\ state[j] = "queued"
                 /\ state' = [state EXCEPT ![j] = "running"]
                 /\ attempts' = [attempts EXCEPT ![j] = @ + 1]
                 /\ cur' = [cur EXCEPT ![w] = j]
                 /\ Goto(w, "reading")
        <5>1. \A k \in Jobs : attempts'[k] = IF k = j THEN attempts[j] + 1
                                             ELSE attempts[k]
          BY <4>2, <4>3 DEF TypeOK
        <5>2. \A k \in Jobs : state'[k] = IF k = j THEN "running" ELSE state[k]
          BY <4>2, <4>3 DEF TypeOK
        <5>3. cur'[w] = j /\ worker'[w] = "reading"
          BY <4>3 DEF TypeOK
        <5> QED BY <2>4, <4>1, <4>2, <4>3, <5>1, <5>2, <5>3 DEF TypeOK
      <4>4. CASE UNCHANGED <<state, attempts, cur, worker>>  BY <2>4, <4>1, <4>4
      <4> QED BY <4>3, <4>4
    <3>3. CASE ReadTranscript(w)
      BY <2>3, <2>4, <3>3 DEF ReadTranscript, TypeOK
    <3>4. CASE Answer(w)
      BY <2>3, <2>4, <3>4 DEF Answer, TypeOK
    <3>5. CASE WriteNote(w)
      <4>1. /\ UNCHANGED <<state, attempts, calls, cur>>
            /\ worker[w] = "writing" /\ worker'[w] \in {"facts", "failing"}
            /\ \/ notes' = notes
               \/ notes' = [notes EXCEPT ![cur[w]] = @ + 1]
        BY <3>5 DEF WriteNote, WritePart, TypeOK
      <4> QED BY <2>3, <2>4, <4>1 DEF TypeOK
    <3>6. CASE AppendFacts(w)
      BY <2>3, <2>4, <3>6 DEF AppendFacts, WritePart, TypeOK
    <3>7. CASE AppendLessons(w)
      BY <2>3, <2>4, <3>7 DEF AppendLessons, WritePart, TypeOK
    <3>8. CASE Finish(w)
      BY <2>3, <2>4, <3>8 DEF Finish, TypeOK
    <3>9. CASE Fail(w)
      BY <2>3, <2>4, <3>9 DEF Fail, AfterFailure, TypeOK
    <3>10. CASE PlanDone(w)  BY <2>4, <3>10 DEF PlanDone, TypeOK
    <3>11. CASE DrainEnds(w)  BY <2>4, <3>11 DEF DrainEnds, TypeOK
    <3>12. CASE DrainFails(w)
      BY <2>4, <3>12 DEF DrainFails, AfterFault, TypeOK
    <3> QED BY <1>9, <3>1, <3>2, <3>3, <3>4, <3>5, <3>6, <3>7, <3>8, <3>9,
               <3>10, <3>11, <3>12 DEF DrainStep
  <2> QED BY <2>2, <2>5 DEF Spending
<1>10. CASE UNCHANGED vars
  BY <1>10 DEF vars, Spending
<1> QED BY <1>1, <1>2, <1>3, <1>4, <1>5, <1>6, <1>7, <1>8, <1>9, <1>10
        DEF Next, Recover

\* SpendBounded: whatever stops, fails or is retried, a job is started at most
\* MaxAttempts times per request and each start buys at most one model call.
THEOREM SpendBoundedAlways == Spec => []SpendBounded
<1>1. ASSUME Init PROVE Spending
  <2>1. /\ \A j \in Jobs : /\ state[j] = "absent" /\ attempts[j] = 0
                           /\ notes[j] = 0 /\ calls[j] = 0
        /\ \A w \in Workers : worker[w] = "off"
    BY <1>1 DEF Init
  <2> QED BY <2>1, AttemptsAssumption DEF Spending, SpendBounded, InState
<1>2. TypeOK /\ TypeOK' /\ Drains /\ Drains' /\ Spending /\ [Next]_vars
        => Spending'
  BY SpendingStep
<1>3. Spending => SpendBounded
  BY DEF Spending
<1> QED BY <1>1, <1>2, <1>3, TypeCorrect, DrainsAlways, PTL DEF Spec

-----------------------------------------------------------------------------
(* What a finished job has written.                                        *)

\* Every step of Next keeps what Writing says of the corpus.
LEMMA WritingStep ==
  ASSUME TypeOK, TypeOK', Drains, Drains', Writing, [Next]_vars
  PROVE  Writing'
<1> USE NoJobAssumption
<1> USE DEF Reads, Misreads, Without,
            disk, corpus, thread, budget, mainThread, Goto, Active, Settled,
            InState, Holding, Stages, Terminal, DoneIsComplete, Parts
<1>1. CASE StartApp
  BY <1>1 DEF StartApp, Writing
<1>2. CASE RecoverJob
  <2> PICK j \in Oldest(Claims) : state' = [state EXCEPT ![j] = AfterFailure(j)]
    BY <1>2 DEF RecoverJob
  <2>1. UNCHANGED <<outcome, written, worker, cur, result>>
    BY <1>2 DEF RecoverJob
  <2> QED BY <2>1 DEF TypeOK, Writing, AfterFailure
<1>3. CASE RecoverEnds
  BY <1>3 DEF RecoverEnds, TypeOK, Writing
<1>4. CASE RecoverFails
  BY <1>4 DEF RecoverFails, Writing
<1>5. CASE SpawnDrain
  <2>1. UNCHANGED <<state, outcome, written, cur, result>>
    BY <1>5 DEF SpawnDrain
  <2>2. \A w \in Workers : \/ worker'[w] = worker[w]
                           \/ worker[w] = "off" /\ worker'[w] = "planning"
    BY <1>5 DEF SpawnDrain, TypeOK
  <2> QED BY <2>1, <2>2 DEF Writing
<1>6. CASE Stop
  BY <1>6 DEF Stop, Writing
<1>7. ASSUME NEW j \in Jobs, Enqueue(j) PROVE Writing'
  BY <1>7 DEF Enqueue, TypeOK, Writing
<1>8. ASSUME NEW j \in Jobs, Retry(j) PROVE Writing'
  BY <1>8 DEF Retry, TypeOK, Writing
<1>9. ASSUME NEW w \in Workers, DrainStep(w) \/ DrainFails(w) PROVE Writing'
  <2>1. Active(w)
    BY <1>9 DEF DrainStep, DrainFails, Plan, Take, ReadTranscript, Answer,
                WriteNote, AppendFacts, AppendLessons, WritePart, Finish, Fail,
                PlanDone, DrainEnds
  <2>2. \A v \in Workers \ {w} : worker'[v] = "off" /\ worker[v] = "off"
    BY <1>9, <2>1, Alone, OwnStep
  <2>3. worker[w] \in Holding => cur[w] \in Jobs /\ state[cur[w]] = "running"
    BY DEF Drains, Threads, TypeOK
  <2> DEFINE OwnOK ==
        /\ worker[w] = "facts" => "note" \in written[cur[w]]
        /\ worker[w] = "lessons" => {"note", "facts"} \subseteq written[cur[w]]
        /\ result[w] = "note" =>
              worker[w] = "finishing" /\ written[cur[w]] = Parts
  <2>4. DoneIsComplete /\ OwnOK
    BY DEF Writing
  <2>5. \A v \in Workers \ {w} : result'[v] = result[v] /\ result[v] # "note"
    <3>1. \A v \in Workers \ {w} : result[v] # "note"
      BY <2>2 DEF Writing
    <3>2. \A v \in Workers \ {w} : result'[v] = result[v]
      BY <1>9 DEF DrainStep, DrainFails, Plan, Take, ReadTranscript, Answer,
                WriteNote, AppendFacts, AppendLessons, WritePart, Finish, Fail,
                PlanDone, DrainEnds, TypeOK
    <3> QED BY <3>1, <3>2
  <2>6. DoneIsComplete' /\ OwnOK'
    <3>1. CASE Plan(w)  BY <2>4, <3>1 DEF Plan, TypeOK
    <3>2. CASE Take(w)
      <4> PICK j \in Oldest(plan[w]) :
            \/ /\ state[j] = "queued"
               /\ state' = [state EXCEPT ![j] = "running"]
               /\ written' = [written EXCEPT ![j] = {}]
               /\ cur' = [cur EXCEPT ![w] = j]
               /\ Goto(w, "reading")
            \/ UNCHANGED <<state, written, cur, worker>>
        BY <3>2 DEF Take
      <4>1. UNCHANGED <<outcome, result>> /\ worker[w] = "picking"
        BY <3>2 DEF Take
      <4>2. j \in Jobs  BY DEF Oldest, TypeOK
      <4> QED BY <2>4, <4>1, <4>2 DEF TypeOK
    <3>3. CASE ReadTranscript(w)  BY <2>4, <3>3 DEF ReadTranscript, TypeOK
    <3>4. CASE Answer(w)  BY <2>4, <3>4 DEF Answer, TypeOK
    <3>5. CASE WriteNote(w)
      BY <2>3, <2>4, <3>5 DEF WriteNote, WritePart, TypeOK
    <3>6. CASE AppendFacts(w)
      BY <2>3, <2>4, <3>6 DEF AppendFacts, WritePart, TypeOK
    <3>7. CASE AppendLessons(w)
      <4>1. /\ UNCHANGED <<state, outcome, cur>>
            /\ worker[w] = "lessons" /\ result[w] # "note"
        BY <2>4, <3>7 DEF AppendLessons, WritePart
      <4>2. \/ /\ worker'[w] = "finishing" /\ result'[w] = "note"
               /\ written' = [written EXCEPT ![cur[w]] = @ \cup {"lessons"}]
            \/ /\ worker'[w] = "failing" /\ UNCHANGED <<result, written>>
        BY <3>7 DEF AppendLessons, WritePart, TypeOK
      <4>3. cur[w] \in Jobs /\ {"note", "facts"} \subseteq written[cur[w]]
        BY <2>3, <2>4, <4>1
      <4> QED BY <2>3, <2>4, <4>1, <4>2, <4>3 DEF TypeOK
    <3>8. CASE Finish(w)
      BY <2>3, <2>4, <3>8 DEF Finish, TypeOK
    <3>9. CASE Fail(w)
      BY <2>3, <2>4, <3>9 DEF Fail, AfterFailure, TypeOK
    <3>10. CASE PlanDone(w)  BY <2>4, <3>10 DEF PlanDone, TypeOK
    <3>11. CASE DrainEnds(w)  BY <2>4, <3>11 DEF DrainEnds, TypeOK
    <3>12. CASE DrainFails(w)
      BY <2>4, <3>12 DEF DrainFails, AfterFault, TypeOK
    <3> QED BY <1>9, <3>1, <3>2, <3>3, <3>4, <3>5, <3>6, <3>7, <3>8, <3>9,
               <3>10, <3>11, <3>12 DEF DrainStep
  <2> QED BY <2>2, <2>5, <2>6 DEF Writing
<1>10. CASE UNCHANGED vars
  BY <1>10 DEF vars, Writing
<1> QED BY <1>1, <1>2, <1>3, <1>4, <1>5, <1>6, <1>7, <1>8, <1>9, <1>10
        DEF Next, Recover

\* DoneIsComplete: the record of a finished capture can be trusted.
THEOREM DoneIsCompleteAlways == Spec => []DoneIsComplete
<1>1. Init => Writing
  BY DEF Init, Writing, DoneIsComplete
<1>2. TypeOK /\ TypeOK' /\ Drains /\ Drains' /\ Writing /\ [Next]_vars
        => Writing'
  BY WritingStep
<1>3. Writing => DoneIsComplete
  BY DEF Writing
<1> QED BY <1>1, <1>2, <1>3, TypeCorrect, DrainsAlways, PTL DEF Spec

-----------------------------------------------------------------------------
(* What no step may do to a job.                                           *)

\* The only ways a job changes its state, and what each of them requires.
LEMMA StateStep ==
  ASSUME TypeOK, Drains, [Next]_vars, NEW j \in Jobs, state'[j] # state[j]
  PROVE  \/ state[j] = "absent" /\ state'[j] = "queued"
         \/ state[j] = "queued" /\ state'[j] = "running"
         \/ state[j] = "running" /\ state'[j] = "done"
         \/ state[j] = "running" /\ state'[j] = AfterFailure(j)
         \/ /\ state[j] = "running" /\ state'[j] = "failed" /\ faults' > faults
            /\ \E w \in Workers : cur[w] = j /\ worker[w] = "failing"
         \/ /\ state[j] \in Terminal /\ state'[j] = "queued"
            /\ app = "up" /\ attempts'[j] = 0
         \/ /\ state'[j] = "pruned" /\ app \in {"recovering", "pruning"}
            /\ state[j] \in Terminal \/ (faults' > faults /\ Dropped # {})
<1> USE NoJobAssumption
<1> USE DEF Reads, Misreads, Without,
            disk, corpus, thread, budget, Settled, InState, Terminal
<1>1. CASE StartApp  BY <1>1 DEF StartApp
<1>2. CASE RecoverJob
  <2> PICK k \in Oldest(Claims) : state' = [state EXCEPT ![k] = AfterFailure(k)]
    BY <1>2 DEF RecoverJob
  <2> QED BY DEF TypeOK, Oldest, Claims
<1>3. CASE RecoverEnds
  <2>1. app \in {"recovering", "pruning"}
    BY <1>3 DEF RecoverEnds
  <2>2. \/ state' = Without(Dropped)
        \/ UNCHANGED state
        \/ Misreads /\ Dropped # {} /\ state' = Without(Jobs \ InState("absent"))
    BY <1>3 DEF RecoverEnds
  <2>3. CASE state' = Without(Dropped)
    BY <2>1, <2>3 DEF Dropped, TypeOK
  <2>4. CASE Misreads /\ Dropped # {} /\ state' = Without(Jobs \ InState("absent"))
    BY <2>1, <2>4 DEF TypeOK
  <2> QED BY <2>2, <2>3, <2>4
<1>4. CASE RecoverFails  BY <1>4 DEF RecoverFails
<1>5. CASE SpawnDrain  BY <1>5 DEF SpawnDrain
<1>6. CASE Stop  BY <1>6 DEF Stop
<1>7. ASSUME NEW k \in Jobs, Enqueue(k)
      PROVE  state[j] = "absent" /\ state'[j] = "queued"
  BY <1>7 DEF Enqueue, TypeOK
<1>8. ASSUME NEW k \in Jobs, Retry(k)
      PROVE  /\ state[j] \in Terminal /\ state'[j] = "queued"
             /\ app = "up" /\ attempts'[j] = 0
  BY <1>8 DEF Retry, Fresh, TypeOK
<1>9. ASSUME NEW w \in Workers, DrainStep(w) \/ DrainFails(w)
      PROVE  \/ state[j] = "queued" /\ state'[j] = "running"
             \/ state[j] = "running" /\ state'[j] = "done"
             \/ state[j] = "running" /\ state'[j] = AfterFailure(j)
             \/ /\ state[j] = "running" /\ state'[j] = "failed"
                /\ faults' > faults
                /\ cur[w] = j /\ worker[w] = "failing"
  <2>1. CASE Plan(w)  BY <2>1 DEF Plan
  <2>2. CASE Take(w)
    <3> PICK k \in Oldest(plan[w]) :
          \/ state[k] = "queued" /\ state' = [state EXCEPT ![k] = "running"]
          \/ state' = state
      BY <2>2 DEF Take
    <3> QED BY DEF TypeOK
  <2>3. CASE ReadTranscript(w)  BY <2>3 DEF ReadTranscript
  <2>4. CASE Answer(w)  BY <2>4 DEF Answer
  <2>5. CASE WriteNote(w)  BY <2>5 DEF WriteNote, WritePart
  <2>6. CASE AppendFacts(w)  BY <2>6 DEF AppendFacts, WritePart
  <2>7. CASE AppendLessons(w)  BY <2>7 DEF AppendLessons, WritePart
  <2>8. CASE Finish(w)
    <3>1. cur[w] \in Jobs /\ state[cur[w]] = "running"
      BY <2>8 DEF Finish, Drains, Threads, Holding, TypeOK
    <3> QED BY <2>8, <3>1 DEF Finish, TypeOK
  <2>9. CASE Fail(w)
    <3>1. cur[w] \in Jobs /\ state[cur[w]] = "running"
      BY <2>9 DEF Fail, Drains, Threads, Holding, TypeOK
    <3>2. \/ state' = [state EXCEPT ![cur[w]] = AfterFailure(cur[w])]
          \/ faults' > faults /\ state' = [state EXCEPT ![cur[w]] = "failed"]
      BY <2>9, <3>1 DEF Fail, TypeOK
    <3> QED BY <2>9, <3>1, <3>2 DEF Fail, TypeOK
  <2>10. CASE PlanDone(w)  BY <2>10 DEF PlanDone
  <2>11. CASE DrainEnds(w)  BY <2>11 DEF DrainEnds
  <2>12. CASE DrainFails(w)  BY <2>12 DEF DrainFails
  <2> QED BY <1>9, <2>1, <2>2, <2>3, <2>4, <2>5, <2>6, <2>7, <2>8, <2>9,
             <2>10, <2>11, <2>12 DEF DrainStep
<1>10. CASE UNCHANGED vars  BY <1>10 DEF vars
<1> QED BY <1>1, <1>2, <1>3, <1>4, <1>5, <1>6, <1>7, <1>8, <1>9, <1>10
        DEF Next, Recover

\* NoJobLost: given up on only when every attempt is spent, dropped only when
\* finished, but for a job whose failure, or a pruning whose file, was misread.
THEOREM NoJobLostAlways == Spec => NoJobLost
<1>1. TypeOK /\ SpendBounded /\ Drains /\ [Next]_vars =>
        [\A j \in Jobs :
         /\ state[j] # "failed" /\ state'[j] = "failed"
                => \/ attempts[j] = MaxAttempts
                   \/ /\ faults' > faults
                      /\ \E w \in Workers : cur[w] = j /\ worker[w] = "failing"
         /\ state[j] # "pruned" /\ state'[j] = "pruned"
                => \/ state[j] \in Terminal
                   \/ /\ faults' > faults
                      /\ app \in {"recovering", "pruning"} /\ Dropped # {}]_vars
  <2> DEFINE Misfailed(j) ==
        faults' > faults /\ \E w \in Workers : cur[w] = j /\ worker[w] = "failing"
  <2> DEFINE Mispruned ==
        faults' > faults /\ app \in {"recovering", "pruning"} /\ Dropped # {}
  <2> SUFFICES ASSUME TypeOK, SpendBounded, Drains, [Next]_vars, NEW j \in Jobs
               PROVE  /\ state[j] # "failed" /\ state'[j] = "failed"
                            => attempts[j] = MaxAttempts \/ Misfailed(j)
                      /\ state[j] # "pruned" /\ state'[j] = "pruned"
                            => state[j] \in Terminal \/ Mispruned
    OBVIOUS
  <2>1. ASSUME state[j] # "failed", state'[j] = "failed"
        PROVE  attempts[j] = MaxAttempts \/ Misfailed(j)
    <3>1. state'[j] = AfterFailure(j) \/ Misfailed(j)
      BY <2>1, StateStep
    <3>2. AfterFailure(j) = "failed" => attempts[j] >= MaxAttempts
      BY DEF AfterFailure
    <3>3. attempts[j] >= MaxAttempts => attempts[j] = MaxAttempts
      BY AttemptsAssumption DEF TypeOK, SpendBounded
    <3> QED BY <2>1, <3>1, <3>2, <3>3
  <2>2. ASSUME state[j] # "pruned", state'[j] = "pruned"
        PROVE  state[j] \in Terminal \/ Mispruned
    <3>1. AfterFailure(j) # "pruned"
      BY DEF AfterFailure
    <3> QED BY <2>2, StateStep, <3>1
  <2> QED BY <2>1, <2>2
<1> QED BY <1>1, TypeCorrect, DrainsAlways, SpendBoundedAlways, PTL
        DEF Spec, NoJobLost

\* FinishedIsFinal: only a retry or a pruning moves a finished job.
THEOREM FinishedIsFinalAlways == Spec => FinishedIsFinal
<1>1. TypeOK /\ Drains /\ [Next]_vars =>
        [\A j \in Settled :
           state'[j] # state[j] =>
              \/ app = "up" /\ state'[j] = "queued" /\ attempts'[j] = 0
              \/ app \in {"recovering", "pruning"} /\ state'[j] = "pruned"]_vars
  BY StateStep DEF Settled, Terminal, AfterFailure
<1> QED BY <1>1, TypeCorrect, DrainsAlways, PTL DEF Spec, FinishedIsFinal

=============================================================================
