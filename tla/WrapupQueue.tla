---------------------------- MODULE WrapupQueue ----------------------------
(***************************************************************************)
(* The wrapup queue: how the note of a closed session gets written.        *)
(*                                                                         *)
(* Source: src-tauri/src/memory/{queue,mod,capture}.rs.  Closing a tile    *)
(* appends a `queued` line to wrapup.jsonl and asks for a drain; a drain   *)
(* is a detached thread that snapshots the queued jobs and runs each of    *)
(* them once (read the transcript, make one paid model call, write the     *)
(* note, its facts and its lessons); the app may stop at any instant and   *)
(* recovers the file before anything reads it when it starts again.        *)
(*                                                                         *)
(* This module keeps the queue FOLDED: `state` and `attempts` are what     *)
(* queue.rs fold_events computes from the lines on disk (RunFile models    *)
(* the lines of the other file of this kind).  Every append of one line is *)
(* one atomic step here.  A read that fails is a fault: Queue::body makes  *)
(* any file it cannot read an empty one, so whoever reads then goes on     *)
(* with no jobs at all, and tells nobody.                                  *)
(*                                                                         *)
(* Threads: the main thread (the synchronous commands close_session and    *)
(* memory_retry_job, and the setup hook), and the drain threads `Workers`. *)
(* What survives a stop: state, attempts, outcome, place and the corpus.   *)
(***************************************************************************)
EXTENDS Integers, FiniteSets

CONSTANTS Jobs,          \* job ids: a fresh ULID for every enqueue
          Workers,       \* drain threads that can exist at the same time
          NoJob,         \* what a thread that runs no job holds
          MaxAttempts,   \* queue.rs MAX_ATTEMPTS
          KeepTerminal,  \* queue.rs KEEP_TERMINAL
          MaxStops,      \* bound: how often the process stops
          MaxFaults,     \* bound: how many failed reads, failed writes
                         \* or panics happen
          MaxRetries     \* bound: how often a person retries a job

ASSUME AttemptsAssumption == MaxAttempts \in Nat \ {0}
ASSUME KeepAssumption == KeepTerminal \in Nat
ASSUME BoundsAssumption ==
    MaxStops \in Nat /\ MaxFaults \in Nat /\ MaxRetries \in Nat
ASSUME NoJobAssumption == NoJob \notin Jobs
ASSUME JobsAssumption == IsFiniteSet(Jobs)

VARIABLES
    state,     \* JobState of each job: "absent" never queued, "pruned" dropped
    attempts,  \* how many times a job was started since queued or retried
    outcome,   \* what a done job's line says it wrote: "note", "empty"
    place,     \* order of the `queued` lines in the file
    app,       \* main thread: "down", "recovering", "pruning", "spawning", "up"
    busy,      \* the DRAINING flag
    worker,    \* what each drain thread is about to do
    plan,      \* the snapshot a drain has not worked through yet
    cur,       \* the job a drain thread runs
    result,    \* what the run of that job produced: "note", "empty"
    written,   \* ghost: what the latest attempt at a job put in the corpus
    notes,     \* ghost: notes written in this set of attempts
    calls,     \* ghost: model calls paid for in this set of attempts
    orphaned,  \* ghost: jobs a fault of this process left `running`
    stops, faults, retries  \* counters behind the bounds

disk    == <<state, attempts, outcome, place>>
corpus  == <<written, notes, calls>>
thread  == <<worker, plan, cur, result>>
budget  == <<stops, faults, retries>>
vars    == <<disk, app, busy, thread, corpus, orphaned, budget>>

-----------------------------------------------------------------------------
States   == {"absent", "queued", "running", "done", "failed", "pruned"}
Terminal == {"done", "failed"}
Parts    == {"note", "facts", "lessons"}
Stages   == {"off", "planning", "picking", "reading", "asking", "writing",
             "facts", "lessons", "finishing", "failing", "reporting"}
\* The stages inside capture::run and until its result is on disk.
Holding  == {"reading", "asking", "writing", "facts", "lessons",
             "finishing", "failing"}

InState(s)  == {j \in Jobs : state[j] = s}
Settled     == {j \in Jobs : state[j] \in Terminal}
\* queue.rs reads jobs() oldest first: the order of the `queued` lines.
Oldest(S)   == {j \in S : \A k \in S : place[j] <= place[k]}
Active(w)   == worker[w] # "off"

\* Queue::body reads the file, or treats it as empty because it cannot.
Reads    == UNCHANGED faults
Misreads == faults < MaxFaults /\ faults' = faults + 1

Goto(w, stage) == worker' = [worker EXCEPT ![w] = stage]
mainThread     == <<app, busy>>

-----------------------------------------------------------------------------
(* The decisions of the code, each a small operator, and beside each the   *)
(* form a plausible bug would give it (Name_Bug): no action uses those.    *)

\* Queue::recover and Queue::fail: attempts spent, the job is given up on.
AfterFailure_Forever(j) == "queued"
AfterFailure_OneShort(j) ==
    IF attempts[j] + 1 >= MaxAttempts THEN "failed" ELSE "queued"
AfterFailure(j) == IF attempts[j] >= MaxAttempts THEN "failed" ELSE "queued"

\* Busy::claim succeeds.
CanDrain == ~busy

\* Queue::recover: the jobs a dead process claimed.
Claims_Spent == {j \in InState("running") : attempts[j] >= MaxAttempts}
Claims == InState("running")

\* Queue::prune: a finished job with KeepTerminal later finished ones.
Dropped ==
    {j \in Settled :
       Cardinality({k \in Settled : place[k] > place[j]}) >= KeepTerminal}

\* Queue::prune rewrites the file without the lines of the jobs in `gone`.
Without(gone) == [j \in Jobs |-> IF j \in gone THEN "pruned" ELSE state[j]]

\* Queue::retry: a fresh set of attempts.
Fresh_Carried(f, j) == f
Fresh(f, j) == [f EXCEPT ![j] = 0]

\* The setup hook goes on from recovery to spawn_drain.
AfterRecovery_NoDrain == "up"
AfterRecovery == "spawning"

\* A drain that fails returns, or unwinds, through the Busy guard.
AfterFault_NoGuard == "off"
AfterFault == "reporting"

-----------------------------------------------------------------------------
Init ==
    /\ state    = [j \in Jobs |-> "absent"]
    /\ attempts = [j \in Jobs |-> 0]
    /\ outcome  = [j \in Jobs |-> "none"]
    /\ place    = [j \in Jobs |-> 0]
    /\ app = "down" /\ busy = FALSE
    /\ worker = [w \in Workers |-> "off"]
    /\ plan   = [w \in Workers |-> {}]
    /\ cur    = [w \in Workers |-> NoJob]
    /\ result = [w \in Workers |-> "none"]
    /\ written = [j \in Jobs |-> {}]
    /\ notes = [j \in Jobs |-> 0]
    /\ calls = [j \in Jobs |-> 0]
    /\ orphaned = {}
    /\ stops = 0 /\ faults = 0 /\ retries = 0

-----------------------------------------------------------------------------
(* The main thread.                                                        *)

\* The setup hook begins: nothing of an earlier process is left but the disk.
\* Queue::recover reads the jobs once; if it cannot, it has nobody to recover
\* and goes straight on to prune.
StartApp ==
    /\ app = "down"
    /\ \/ Reads /\ app' = "recovering" /\ UNCHANGED orphaned
       \/ Misreads /\ app' = "pruning" /\ orphaned' = Claims
    /\ UNCHANGED <<disk, busy, thread, corpus, stops, retries>>

\* Queue::recover, one `running` job: one appended line.
RecoverJob ==
    /\ app = "recovering"
    /\ \E j \in Oldest(Claims) :
          state' = [state EXCEPT ![j] = AfterFailure(j)]
    /\ UNCHANGED <<attempts, outcome, place, app, busy, thread, corpus,
                   orphaned, budget>>

\* Queue::recover has cleared every claim: prune, then main calls spawn_drain.
\* prune reads twice: if the first read fails it finds nothing to drop, and if
\* the second does, with something to drop, it rewrites the file as empty.
RecoverEnds ==
    /\ app = "pruning" \/ (app = "recovering" /\ Claims = {})
    /\ \/ Reads /\ state' = Without(Dropped)
       \/ Misreads /\ UNCHANGED state
       \/ Misreads /\ Dropped # {} /\ state' = Without(Jobs \ InState("absent"))
    /\ app' = AfterRecovery
    /\ UNCHANGED <<attempts, outcome, place, busy, thread, corpus, orphaned,
                   stops, retries>>

\* An append or the rewrite failed: recovery stops there with a warning.
RecoverFails ==
    /\ app \in {"recovering", "pruning"}
    /\ Misreads
    /\ orphaned' = Claims
    /\ app' = AfterRecovery
    /\ UNCHANGED <<disk, busy, thread, corpus, stops, retries>>

\* close_session -> enqueue_on_close -> Queue::enqueue: a job with a new id.
\* A close that captures nothing (no reader, no transcript) changes nothing.
Enqueue(j) ==
    /\ app = "up"
    /\ state[j] = "absent"
    /\ state' = [state EXCEPT ![j] = "queued"]
    /\ place' = [place EXCEPT ![j] =
                    Cardinality({k \in Jobs : state[k] # "absent"}) + 1]
    /\ app' = "spawning"
    /\ UNCHANGED <<attempts, outcome, busy, thread, corpus, orphaned, budget>>

\* memory_retry_job -> Queue::retry: only a finished job is reopened.  A read
\* that fails finds no such job, and the command changes nothing.
Retry(j) ==
    /\ app = "up"
    /\ retries < MaxRetries
    /\ state[j] \in Terminal
    /\ state' = [state EXCEPT ![j] = "queued"]
    /\ attempts' = Fresh(attempts, j)
    /\ notes' = Fresh(notes, j)
    /\ calls' = Fresh(calls, j)
    /\ retries' = retries + 1
    /\ app' = "spawning"
    /\ UNCHANGED <<outcome, place, busy, thread, written, orphaned, stops,
                   faults>>

\* spawn_drain: claim the flag and start a thread, or do nothing at all.
SpawnDrain ==
    /\ app = "spawning"
    /\ app' = "up"
    /\ IF CanDrain
       THEN /\ busy' = TRUE
            /\ \E w \in Workers : ~ Active(w) /\ Goto(w, "planning")
       ELSE UNCHANGED <<busy, worker>>
    /\ UNCHANGED <<disk, plan, cur, result, corpus, orphaned, budget>>

\* The process ends, by a quit or a crash: every thread and the flag with it.
Stop ==
    /\ app # "down"
    /\ stops < MaxStops
    /\ stops' = stops + 1
    /\ app' = "down" /\ busy' = FALSE
    /\ worker' = [w \in Workers |-> "off"]
    /\ plan'   = [w \in Workers |-> {}]
    /\ cur'    = [w \in Workers |-> NoJob]
    /\ result' = [w \in Workers |-> "none"]
    /\ orphaned' = {}
    /\ UNCHANGED <<disk, corpus, faults, retries>>

-----------------------------------------------------------------------------
(* A drain thread.                                                         *)

\* Queue::drain takes the snapshot of the queued jobs: nobody, if it cannot
\* read them.
Plan(w) ==
    /\ worker[w] = "planning"
    /\ \/ Reads /\ plan' = [plan EXCEPT ![w] = InState("queued")]
       \/ Misreads /\ plan' = [plan EXCEPT ![w] = {}]
    /\ Goto(w, "picking")
    /\ UNCHANGED <<disk, mainThread, cur, result, corpus, orphaned, stops,
                   retries>>

\* Queue::take finds the next planned job still queued and appends `started`.
\* A job it does not find, a failed read included, is passed over.
Take(w) ==
    /\ worker[w] = "picking"
    /\ \E j \in Oldest(plan[w]) :
         /\ plan' = [plan EXCEPT ![w] = @ \ {j}]
         /\ \/ /\ Reads /\ state[j] = "queued"
               /\ state' = [state EXCEPT ![j] = "running"]
               /\ attempts' = [attempts EXCEPT ![j] = @ + 1]
               /\ written' = [written EXCEPT ![j] = {}]
               /\ cur' = [cur EXCEPT ![w] = j]
               /\ Goto(w, "reading")
            \/ /\ Misreads \/ (Reads /\ state[j] # "queued")
               /\ UNCHANGED <<state, attempts, written, cur, worker>>
    /\ UNCHANGED <<outcome, place, mainThread, result, notes, calls, orphaned,
                   stops, retries>>

\* capture::run_with reads the transcript: it cannot, it finds nothing worth
\* a note (a success that costs nothing), or it makes the paid call.
ReadTranscript(w) ==
    /\ worker[w] = "reading"
    /\ \/ /\ Goto(w, "failing")
          /\ UNCHANGED <<result, calls>>
       \/ /\ Goto(w, "finishing")
          /\ result' = [result EXCEPT ![w] = "empty"]
          /\ UNCHANGED calls
       \/ /\ Goto(w, "asking")
          /\ calls' = [calls EXCEPT ![cur[w]] = @ + 1]
          /\ UNCHANGED result
    /\ UNCHANGED <<disk, mainThread, plan, cur, written, notes, orphaned,
                   budget>>

\* The model answers: an error, a deadline or a bad reply; nothing worth a
\* note; or a summary.
Answer(w) ==
    /\ worker[w] = "asking"
    /\ \/ Goto(w, "failing") /\ UNCHANGED result
       \/ Goto(w, "finishing") /\ result' = [result EXCEPT ![w] = "empty"]
       \/ Goto(w, "writing") /\ UNCHANGED result
    /\ UNCHANGED <<disk, mainThread, plan, cur, corpus, orphaned, budget>>

\* One write of capture::run_with to the corpus, `part`, then stage `next`;
\* or that write fails and so does the job, with what is written left there.
WritePart(w, stage, part, next) ==
    /\ worker[w] = stage
    /\ \/ /\ written' = [written EXCEPT ![cur[w]] = @ \cup {part}]
          /\ Goto(w, next)
       \/ Goto(w, "failing") /\ UNCHANGED written
    /\ UNCHANGED <<disk, mainThread, plan, cur, calls, orphaned, budget>>

WriteNote(w) ==
    /\ WritePart(w, "writing", "note", "facts")
    /\ notes' = IF worker'[w] = "facts"
                THEN [notes EXCEPT ![cur[w]] = @ + 1] ELSE notes
    /\ UNCHANGED result

AppendFacts_Swallowed(w) ==
    /\ worker[w] = "facts" /\ Goto(w, "lessons")
    /\ UNCHANGED <<disk, mainThread, plan, cur, result, corpus, orphaned,
                   budget>>
AppendFacts(w) ==
    /\ WritePart(w, "facts", "facts", "lessons")
    /\ UNCHANGED <<notes, result>>

\* The lessons of known rooms; then run_with returns Ok with the note's path.
AppendLessons(w) ==
    /\ WritePart(w, "lessons", "lessons", "finishing")
    /\ result' = IF worker'[w] = "finishing"
                 THEN [result EXCEPT ![w] = "note"] ELSE result
    /\ UNCHANGED notes

\* Queue::finish appends `done`; the fold ignores it on a finished job.
Finish(w) ==
    /\ worker[w] = "finishing"
    /\ IF state[cur[w]] \in Terminal
       THEN UNCHANGED <<state, outcome>>
       ELSE /\ state' = [state EXCEPT ![cur[w]] = "done"]
            /\ outcome' = [outcome EXCEPT ![cur[w]] = result[w]]
    /\ cur' = [cur EXCEPT ![w] = NoJob]
    /\ result' = [result EXCEPT ![w] = "none"]
    /\ Goto(w, "picking")
    /\ UNCHANGED <<attempts, place, mainThread, plan, corpus, orphaned, budget>>

\* Queue::fail re-reads the attempts and appends `failed` or `requeued`.  If
\* it does not find the job, its attempts count as spent.
Fail(w) ==
    /\ worker[w] = "failing"
    /\ \/ Reads /\ state' = IF state[cur[w]] \in Terminal THEN state
                             ELSE [state EXCEPT ![cur[w]] = AfterFailure(cur[w])]
       \/ Misreads /\ state' = IF state[cur[w]] \in Terminal THEN state
                                ELSE [state EXCEPT ![cur[w]] = "failed"]
    /\ cur' = [cur EXCEPT ![w] = NoJob]
    /\ Goto(w, "picking")
    /\ UNCHANGED <<attempts, outcome, place, mainThread, plan, result, corpus,
                   orphaned, stops, retries>>

\* The snapshot is worked through.
PlanDone(w) ==
    /\ worker[w] = "picking"
    /\ plan[w] = {}
    /\ Goto(w, "reporting")
    /\ UNCHANGED <<disk, mainThread, plan, cur, result, corpus, orphaned,
                   budget>>

\* drain_now reports; the Busy guard is dropped and the thread ends.
DrainEnds(w) ==
    /\ worker[w] = "reporting"
    /\ Goto(w, "off")
    /\ busy' = FALSE
    /\ UNCHANGED <<disk, app, plan, cur, result, corpus, orphaned, budget>>

\* An append fails (Queue::drain returns through `?`) or the body panics: the
\* rest of the snapshot is abandoned, a job being run stays `running` on disk,
\* and the guard still frees the flag.
DrainFails(w) ==
    /\ worker[w] \in Stages \ {"off", "reporting"}
    /\ Misreads
    /\ Goto(w, AfterFault)
    /\ plan' = [plan EXCEPT ![w] = {}]
    /\ cur' = [cur EXCEPT ![w] = NoJob]
    /\ result' = [result EXCEPT ![w] = "none"]
    /\ orphaned' = orphaned \cup ({cur[w]} \ {NoJob})
    /\ UNCHANGED <<disk, mainThread, corpus, stops, retries>>

-----------------------------------------------------------------------------
DrainStep(w) ==
    \/ Plan(w) \/ Take(w) \/ ReadTranscript(w) \/ Answer(w)
    \/ WriteNote(w) \/ AppendFacts(w) \/ AppendLessons(w)
    \/ Finish(w) \/ Fail(w) \/ PlanDone(w) \/ DrainEnds(w)

Recover == RecoverJob \/ RecoverEnds

Next ==
    \/ StartApp \/ Recover \/ RecoverFails \/ SpawnDrain \/ Stop
    \/ \E j \in Jobs : Enqueue(j) \/ Retry(j)
    \/ \E w \in Workers : DrainStep(w) \/ DrainFails(w)

Spec == Init /\ [][Next]_vars

\* What the code runs on its own: a drain thread runs on (the model call has
\* a deadline), and the setup hook and a command run to their end.  Nobody is
\* obliged to start the app, close a tile or press Retry.
Fairness ==
    /\ \A w \in Workers : WF_vars(DrainStep(w))
    /\ WF_vars(Recover) /\ WF_vars(SpawnDrain)

FairSpec == Spec /\ Fairness

-----------------------------------------------------------------------------
(* Properties.                                                             *)

TypeOK ==
    /\ state \in [Jobs -> States]
    /\ attempts \in [Jobs -> Nat]
    /\ outcome \in [Jobs -> {"none", "note", "empty"}]
    /\ place \in [Jobs -> Nat]
    /\ app \in {"down", "recovering", "pruning", "spawning", "up"}
    /\ busy \in BOOLEAN
    /\ worker \in [Workers -> Stages]
    /\ plan \in [Workers -> SUBSET Jobs]
    /\ cur \in [Workers -> Jobs \cup {NoJob}]
    /\ result \in [Workers -> {"none", "note", "empty"}]
    /\ written \in [Jobs -> SUBSET Parts]
    /\ notes \in [Jobs -> Nat]
    /\ calls \in [Jobs -> Nat]
    /\ orphaned \subseteq Jobs
    /\ stops \in 0..MaxStops /\ faults \in 0..MaxFaults
    /\ retries \in 0..MaxRetries

\* mod.rs draining(): two drains never run side by side, whatever starts them
\* (startup, a close, a retry), and the flag is never left set by a thread
\* that is gone, panics included.
OneDrain ==
    /\ \A v, w \in Workers : Active(v) /\ Active(w) => v = w
    /\ busy = (\E w \in Workers : Active(w))

\* queue.rs header: once recovery is over, a job that is `running` on disk is
\* the one a drain of this process runs, or one that a failed read or append
\* or a panic of this process left behind; recovery left none it could read.
RunningIsHeld ==
    app \in {"pruning", "spawning", "up"} =>
        \A j \in InState("running") :
            j \in orphaned \/ \E w \in Workers : cur[w] = j

\* queue.rs MAX_ATTEMPTS, the poison job: across stops, faults and requeues a
\* job is started at most MaxAttempts times before a person retries it, each
\* start pays for at most one model call and writes at most one note.
SpendBounded ==
    \A j \in Jobs : /\ notes[j] <= calls[j]
                    /\ calls[j] <= attempts[j]
                    /\ attempts[j] <= MaxAttempts

\* capture.rs run_with: a job recorded as done with a note has all of what
\* that attempt's reply held in the corpus: never a note without its facts.
DoneIsComplete ==
    \A j \in Jobs : state[j] = "done" /\ outcome[j] = "note" => written[j] = Parts

\* queue.rs, the poison job: a job is given up on only when its attempts are
\* spent, and nothing but a finished job is ever dropped from the file.  The
\* one exception is a read that failed in that very step, and it reaches no
\* further than this: the job given up on early is one whose attempt has just
\* failed, and unfinished jobs are dropped only at a start that had finished
\* ones to prune.  No stop, failed append, panic, retry or order of them, nor
\* a read that fails anywhere else, costs a job.
NoJobLost ==
    [][\A j \in Jobs :
         /\ state[j] # "failed" /\ state'[j] = "failed"
                => \/ attempts[j] = MaxAttempts
                   \/ /\ faults' > faults
                      /\ \E w \in Workers : cur[w] = j /\ worker[w] = "failing"
         /\ state[j] # "pruned" /\ state'[j] = "pruned"
                => \/ state[j] \in Terminal
                   \/ /\ faults' > faults
                      /\ app \in {"recovering", "pruning"} /\ Dropped # {}]_vars

\* queue.rs fold_events: a finished job is not revised by a later writer; it
\* leaves its state only to be retried with a fresh set of attempts, in the
\* running app, or pruned at a start.
FinishedIsFinal ==
    [][\A j \in Settled :
         state'[j] # state[j] =>
            \/ app = "up" /\ state'[j] = "queued" /\ attempts'[j] = 0
            \/ app \in {"recovering", "pruning"} /\ state'[j] = "pruned"]_vars

\* mod.rs Busy: a drain that began comes to an end and frees the flag.
DrainFreesFlag == busy ~> ~busy

\* main.rs setup: a job that is not finished when the app starts is started
\* or settled by this process, unless the process stops or a read or an append
\* fails.
StartupDrains ==
    \A j \in Jobs :
        app = "recovering" /\ state[j] \in {"queued", "running"}
            ~> \/ state[j] \in Terminal
               \/ \E w \in Workers : cur[w] = j
               \/ app = "down" \/ faults > 0

-----------------------------------------------------------------------------
(* What makes those invariants inductive.                                  *)

\* A drain thread holds a job exactly in the stages of its run, that job is
\* running on disk, and no thread exists before recovery is over.
Threads ==
    /\ app \in {"down", "recovering", "pruning"} => \A w \in Workers : ~ Active(w)
    /\ \A w \in Workers :
         /\ worker[w] \in Holding <=> cur[w] # NoJob
         /\ cur[w] # NoJob => state[cur[w]] = "running"

\* A queued job has an attempt left, a job never queued has spent none, and
\* in each stage of a run what that stage is about to spend is not spent yet.
Spending ==
    /\ SpendBounded
    /\ \A j \in InState("queued") : attempts[j] < MaxAttempts
    /\ \A j \in InState("absent") : attempts[j] = 0
    /\ \A w \in Workers :
         /\ worker[w] = "reading" => calls[cur[w]] < attempts[cur[w]]
         /\ worker[w] \in {"asking", "writing"} => notes[cur[w]] < calls[cur[w]]

\* What is in the corpus at each stage of a run.
Writing ==
    /\ DoneIsComplete
    /\ \A w \in Workers :
         /\ worker[w] = "facts" => "note" \in written[cur[w]]
         /\ worker[w] = "lessons" => {"note", "facts"} \subseteq written[cur[w]]
         /\ result[w] = "note" =>
               worker[w] = "finishing" /\ written[cur[w]] = Parts

IInv == TypeOK /\ OneDrain /\ Threads /\ RunningIsHeld /\ Spending /\ Writing

-----------------------------------------------------------------------------
\* queue.rs Queue::retry: "a queued job is already going to run".  Refuted: a
\* job enqueued after the running drain took its snapshot is in no drain's
\* plan, spawn_drain did nothing for it because the flag was set, and Retry
\* refuses it.  It waits for another close, another retry or another start.
QueuedIsGoingToRun ==
    \A j \in Jobs :
        state[j] = "queued" /\ attempts[j] = 0 ~> state[j] # "queued"

\* queue.rs Queue::fail: "Requeued for another attempt, or failed for good once
\* its attempts are spent", and Queue::prune: "Drop the oldest finished jobs".
\* Refuted: a job whose attempt fails while the file cannot be read is failed
\* for good on its first attempt, and a prune whose second read fails rewrites
\* the file without the jobs still waiting in it.
GivenUpWhenSpent ==
    [][\A j \in Jobs :
         /\ state[j] # "failed" /\ state'[j] = "failed"
                => attempts[j] = MaxAttempts
         /\ state[j] # "pruned" /\ state'[j] = "pruned"
                => state[j] \in Terminal]_vars

=============================================================================
