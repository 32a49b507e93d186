------------------------------ MODULE RunLines ------------------------------
(***************************************************************************)
(* The lines of runs.jsonl and what they fold into (runs.rs): events,      *)
(* lines cut off in the middle, records, retention and the scope of an     *)
(* erasure.  A run's scenario and workspace never change, so they are      *)
(* functions of the run and not fields of its lines.                       *)
(***************************************************************************)
EXTENDS Naturals, Sequences, SequencesExt, FiniteSets

CONSTANTS Runs, Scenarios, Workspaces, Paths,
          ScenarioOf,     \* the scenario each run is of
          WorkspaceOf,    \* its workspace, or NoWorkspace
          NoWorkspace, NoPath,
          Keep            \* RUNS_PER_SKILL

ASSUME ConstantsAssumption ==
  /\ ScenarioOf \in [Runs -> Scenarios]
  /\ WorkspaceOf \in [Runs -> Workspaces \cup {NoWorkspace}]
  /\ NoWorkspace \notin Workspaces /\ NoPath \notin Paths
  /\ Keep \in Nat \ {0}

Outcomes == {"ended", "error", "interrupted", "failed-to-launch"}

Started(r) == [t |-> "started", run |-> r]
Transcript(r, p, c) == [t |-> "transcript", run |-> r, path |-> p, cleared |-> c]
Closed(r, s) == [t |-> "closed", run |-> r, status |-> s]

Events == [t : {"started"}, run : Runs]
     \cup [t : {"transcript"}, run : Runs, path : Paths, cleared : BOOLEAN]
     \cup [t : {"closed"}, run : Runs, status : Outcomes]

(* A line that is no event: cut off in the middle (it does not parse) or
   cut off inside a character (the file is not UTF-8 any more).  An event
   written by a newer build reads like the first. *)
Torn == [t |-> "torn"]
Split == [t |-> "split"]
Lines == Events \cup {Torn, Split}

Records == [run : Runs, status : Outcomes \cup {"running"},
            path : Paths \cup {NoPath}, cleared : BOOLEAN]

Opened(r) == [run |-> r, status |-> "running", path |-> NoPath, cleared |-> FALSE]

RunsIn(history) == {history[i].run : i \in DOMAIN history}

(* An event about a run the journal does not hold is ignored, and so are a
   second start and a second close. *)
Began(history, r) ==
  IF r \in RunsIn(history) THEN history ELSE Append(history, Opened(r))

Noted(history, r, p, c) ==
  [i \in DOMAIN history |->
     IF history[i].run = r
     THEN [history[i] EXCEPT !.path = p, !.cleared = @ \/ c]
     ELSE history[i]]

Ended(history, r, s) ==
  [i \in DOMAIN history |->
     IF history[i].run = r /\ history[i].status = "running"
     THEN [history[i] EXCEPT !.status = s]
     ELSE history[i]]

Apply(history, line) ==
  CASE line.t = "started"    -> Began(history, line.run)
    [] line.t = "transcript" -> Noted(history, line.run, line.path, line.cleared)
    [] line.t = "closed"     -> Ended(history, line.run, line.status)
    [] OTHER                 -> history

\* fold_events, oldest record first
Folded(lines) ==
  LET upTo[n \in 0 .. Len(lines)] ==
        IF n = 0 THEN <<>> ELSE Apply(upTo[n - 1], lines[n])
  IN upTo[Len(lines)]

EventsUncleared(rec) ==
  <<Started(rec.run)>>
  \o (IF rec.path = NoPath THEN <<>> ELSE <<Transcript(rec.run, rec.path, FALSE)>>)
  \o (IF rec.status = "running" THEN <<>> ELSE <<Closed(rec.run, rec.status)>>)

\* to_events: what a compaction writes for one record
EventsOf(rec) ==
  <<Started(rec.run)>>
  \o (IF rec.path = NoPath THEN <<>> ELSE <<Transcript(rec.run, rec.path, rec.cleared)>>)
  \o (IF rec.status = "running" THEN <<>> ELSE <<Closed(rec.run, rec.status)>>)

Rendered(history) == FlattenSeq([i \in DOMAIN history |-> EventsOf(history[i])])

\* The records at some places of a history, in its order.
Kept(history, places) ==
  LET upTo[n \in 0 .. Len(history)] ==
        IF n = 0 THEN <<>>
        ELSE IF n \in places THEN Append(upTo[n - 1], history[n]) ELSE upTo[n - 1]
  IN upTo[Len(history)]

\* retain_recent: the newest Keep of each scenario, in the order of the file
Recent(history) ==
  Kept(history, {i \in DOMAIN history :
    Cardinality({j \in DOMAIN history :
                   j > i /\ ScenarioOf[history[j].run] = ScenarioOf[history[i].run]}) < Keep})

\* in_scope: a record without a workspace passes every workspace
InScope(r, k, w) ==
  /\ ScenarioOf[r] = k
  /\ w = NoWorkspace \/ WorkspaceOf[r] \in {w, NoWorkspace}

Without(history, k, w) ==
  Kept(history, {i \in DOMAIN history : ~ InScope(history[i].run, k, w)})

StillRunning(history) == Kept(history, {i \in DOMAIN history : history[i].status = "running"})

HasRunning(history, k, w) ==
  \E i \in DOMAIN history : InScope(history[i].run, k, w) /\ history[i].status = "running"
=============================================================================
