------------------------------ MODULE RunFile ------------------------------
(***************************************************************************)
(* runs.jsonl as a file (store.rs, run_journal.rs): threads append one     *)
(* line each, a write may be cut short, the next one heals the file, the   *)
(* start sweeps and compacts it, an erasure rewrites it.                   *)
(*                                                                         *)
(* Main is the main thread, Hook the listener's, the others the detached   *)
(* writers of run_journal::close.                                          *)
(***************************************************************************)
EXTENDS RunLines, FiniteSets

CONSTANTS Main, Hook, Closers,
          MaxStops,
          Fragments,  \* what a line can be cut down to: {Torn}, and Split if
                      \* its text has characters of several bytes
          Budgets   \* what a behaviour may do, chosen once: [runs, closers, notes, erasures, full]

ASSUME ThreadsAssumption == Main # Hook /\ Main \notin Closers /\ Hook \notin Closers
ASSUME BoundsAssumption ==
  /\ MaxStops \in Nat /\ Fragments \subseteq {Torn, Split}
  /\ Budgets \subseteq [runs : SUBSET Runs, closers : Nat, notes : Nat, erasures : Nat, full : Nat]

Threads == {Main, Hook} \cup Closers

VARIABLES
  lines,    \* the lines of the file
  ended,    \* the file is empty or its last byte is a newline
  journal,  \* what a reader makes of it: Folded(Body)
  inode,    \* how often the file was replaced: an open handle keeps the old one
  phase,    \* of the main thread: down, sweep, compact, idle, erase
  todo,     \* per thread, the events it has yet to append
  handle,   \* per thread, what it saw on opening the file, or Shut
  seen,     \* the history a compaction or an erasure has read
  erasing,  \* the scope of the erasure under way
  stage,    \* per run: new, starting, open, over
  known,    \* journalled_paths: per run, the path last written down
  acked,    \* ghost: the events whose append returned Ok, and that nothing erased
  budget, stops

text == <<lines, ended, journal>>
file == <<text, inode>>
memory == <<phase, todo, handle, seen, erasing, stage, known>>
vars == <<file, memory, acked, budget, stops>>

Shut == [open |-> FALSE, heal |-> FALSE, inode |-> 0]

\* runs_body and fold_events: not UTF-8 is unreadable, and unreadable is empty
Read(body) ==
  IF \E i \in DOMAIN body : body[i] = Split THEN <<>> ELSE Folded(body)

Holds(body, whole) == lines' = body /\ ended' = whole /\ journal' = Read(body)

Idle(t) == todo[t] = <<>>
Busy(t) == ~ Idle(t)

TypeOK ==
  /\ lines \in Seq(Lines) /\ ended \in BOOLEAN /\ journal = Read(lines) /\ inode \in Nat
  /\ phase \in {"down", "sweep", "compact", "idle", "erase"}
  /\ todo \in [Threads -> Seq(Events)]
  /\ handle \in [Threads -> [open : BOOLEAN, heal : BOOLEAN, inode : Nat]]
  /\ seen \in Seq(Records)
  /\ stage \in [Runs -> {"new", "starting", "open", "over"}]
  /\ known \in [Runs -> Paths \cup {NoPath}]
  /\ acked \subseteq Events
  /\ stops \in 0 .. MaxStops

Init ==
  /\ lines = <<>> /\ ended = TRUE /\ journal = <<>> /\ inode = 0
  /\ phase = "down"
  /\ todo = [t \in Threads |-> <<>>]
  /\ handle = [t \in Threads |-> Shut]
  /\ seen = <<>> /\ erasing = <<>>
  /\ stage = [r \in Runs |-> "new"]
  /\ known = [r \in Runs |-> NoPath]
  /\ acked = {}
  /\ budget \in Budgets
  /\ stops = 0

-----------------------------------------------------------------------------
(* append_run_event: open the file and look at its last byte, then one
   write of one line, preceded by a newline when the last byte was none. *)

OpenUnhealed(t) ==
  /\ Busy(t) /\ ~ handle[t].open
  /\ handle' = [handle EXCEPT ![t] = [open |-> TRUE, heal |-> FALSE, inode |-> inode]]
  /\ UNCHANGED <<file, phase, todo, seen, erasing, stage, known, acked, budget, stops>>

OpenFile(t) ==
  /\ Busy(t) /\ ~ handle[t].open
  /\ handle' = [handle EXCEPT ![t] = [open |-> TRUE, heal |-> ~ ended, inode |-> inode]]
  /\ UNCHANGED <<file, phase, todo, seen, erasing, stage, known, acked, budget, stops>>

(* What the file becomes when `piece`, whole or cut short, lands behind what
   it holds: a line of its own, or glued to a last line that has no newline.
   Two newlines leave a blank line, which no reader sees. *)
Junk(a, b) == IF Split \in {a, b} THEN Split ELSE Torn

Landed(piece, heal) ==
  IF ended \/ heal THEN Append(lines, piece)
  ELSE [lines EXCEPT ![Len(lines)] = Junk(@, piece)]

\* A handle on a file that has been replaced writes where nobody reads.
Puts(t, piece, whole) ==
  IF handle[t].inode = inode
  THEN Holds(Landed(piece, handle[t].heal), whole)
  ELSE UNCHANGED text

(* A write that gets only so far: the newline that heals, the line cut
   somewhere, all of it but its newline. *)
CutShort(t) ==
  \/ handle[t].heal /\ handle[t].inode = inode /\ Holds(lines, TRUE)
  \/ \E piece \in Fragments \cup {Head(todo[t])} : Puts(t, piece, FALSE)

\* What the thread does next: the start of a run is followed by its map entry.
Moves(t) ==
  LET ev == Head(todo[t]) IN
  /\ todo' = [todo EXCEPT ![t] = Tail(@)]
  /\ handle' = [handle EXCEPT ![t] = Shut]
  /\ stage' = IF ev.t = "started" /\ stage[ev.run] = "starting"
              THEN [stage EXCEPT ![ev.run] = "open"] ELSE stage

WriteLine(t) ==
  /\ handle[t].open
  /\ Puts(t, Head(todo[t]), TRUE)
  /\ Moves(t)
  /\ acked' = acked \cup {Head(todo[t])}
  /\ UNCHANGED <<inode, phase, seen, erasing, known, budget, stops>>

(* The disk is full: none of the line is written, or some.  The caller is
   told, prints a warning and goes on. *)
WriteFails(t) ==
  /\ handle[t].open
  /\ budget.full > 0 /\ budget' = [budget EXCEPT !.full = @ - 1]
  /\ \/ UNCHANGED text
     \/ CutShort(t)
  /\ Moves(t)
  /\ UNCHANGED <<inode, phase, seen, erasing, known, acked, stops>>

-----------------------------------------------------------------------------
(* The calls that append. *)

Calls(t, evs) == Idle(t) /\ todo' = [todo EXCEPT ![t] = evs]

\* open: the start of a run, on the main thread
Launch(r) ==
  /\ phase = "idle" /\ stage[r] = "new" /\ r \in budget.runs
  /\ Calls(Main, <<Started(r)>>)
  /\ stage' = [stage EXCEPT ![r] = "starting"]
  /\ UNCHANGED <<file, phase, handle, seen, erasing, known, acked, budget, stops>>

\* failed_to_launch: a start and a close in one go, with no session
FailedToLaunch(r) ==
  /\ phase = "idle" /\ stage[r] = "new" /\ r \in budget.runs
  /\ Calls(Main, <<Started(r), Closed(r, "failed-to-launch")>>)
  /\ stage' = [stage EXCEPT ![r] = "over"]
  /\ UNCHANGED <<file, phase, handle, seen, erasing, known, acked, budget, stops>>

\* failed_to_start: the close the launch writes itself
FailedToStart(r) ==
  /\ phase = "idle" /\ stage[r] = "open"
  /\ Calls(Main, <<Closed(r, "error")>>)
  /\ stage' = [stage EXCEPT ![r] = "over"]
  /\ UNCHANGED <<file, phase, handle, seen, erasing, known, acked, budget, stops>>

(* note_transcript: the first path, and every one that differs from the last;
   a change is a /clear.  The map is updated before the line is written. *)
NoteTranscript(r) ==
  /\ phase \in {"idle", "erase"} /\ stage[r] = "open"
  /\ budget.notes > 0 /\ budget' = [budget EXCEPT !.notes = @ - 1]
  /\ \E p \in Paths \ {known[r]} :
       /\ Calls(Hook, <<Transcript(r, p, known[r] # NoPath)>>)
       /\ known' = [known EXCEPT ![r] = p]
  /\ UNCHANGED <<file, phase, handle, seen, erasing, stage, acked, stops>>

\* close: the entry is taken, a detached thread writes the line
Close(r) ==
  /\ phase \in {"idle", "erase"} /\ stage[r] = "open"
  /\ budget.closers > 0 /\ budget' = [budget EXCEPT !.closers = @ - 1]
  /\ \E c \in Closers, s \in {"ended", "error"} : Calls(c, <<Closed(r, s)>>)
  /\ stage' = [stage EXCEPT ![r] = "over"]
  /\ known' = [known EXCEPT ![r] = NoPath]
  /\ UNCHANGED <<file, phase, handle, seen, erasing, acked, stops>>

-----------------------------------------------------------------------------
(* The whole file: read, fold, write beside it, rename over it. *)

Replace(history) ==
  Holds(Rendered(history), TRUE) /\ inode' = inode + 1

Forget(history) == acked' = {ev \in acked : ev.run \in RunsIn(history)}

\* sweep_and_compact: close what is running on disk, newest first, then prune
StartApp ==
  /\ phase = "down"
  /\ LET swept == StillRunning(Reverse(journal))
     IN todo' = [todo EXCEPT ![Main] =
                   [i \in DOMAIN swept |-> Closed(swept[i].run, "interrupted")]]
  /\ phase' = "sweep"
  /\ UNCHANGED <<file, handle, seen, erasing, stage, known, acked, budget, stops>>

CompactReads ==
  /\ phase = "sweep" /\ Idle(Main)
  /\ IF Len(Recent(journal)) = Len(journal)
       THEN phase' = "idle" /\ UNCHANGED seen
       ELSE phase' = "compact" /\ seen' = Recent(journal)
  /\ UNCHANGED <<file, todo, handle, erasing, stage, known, acked, budget, stops>>

CompactWrites ==
  /\ phase = "compact"
  /\ Replace(seen) /\ Forget(seen)
  /\ phase' = "idle"
  /\ UNCHANGED <<todo, handle, seen, erasing, stage, known, budget, stops>>

\* delete_skill_history: refused while a run in scope is still going
EraseReads ==
  /\ phase = "idle" /\ Idle(Main)
  /\ budget.erasures > 0 /\ budget' = [budget EXCEPT !.erasures = @ - 1]
  /\ \E k \in Scenarios, w \in Workspaces \cup {NoWorkspace} :
       /\ ~ HasRunning(journal, k, w)
       /\ seen' = Without(journal, k, w)
       /\ erasing' = <<k, w>>
  /\ phase' = "erase"
  /\ UNCHANGED <<file, todo, handle, stage, known, acked, stops>>

EraseWrites ==
  /\ phase = "erase"
  /\ Replace(seen)
  /\ acked' = {ev \in acked : ~ InScope(ev.run, erasing[1], erasing[2])}
  /\ phase' = "idle"
  /\ UNCHANGED <<todo, handle, seen, erasing, stage, known, budget, stops>>

-----------------------------------------------------------------------------
(* A quit, a crash or a kill, at any instant.  At most one write is under way
   in the kernel, and it may be cut short. *)
Stop ==
  /\ phase # "down" /\ stops < MaxStops
  /\ \/ UNCHANGED text
     \/ \E t \in Threads : handle[t].open /\ CutShort(t)
  /\ phase' = "down"
  /\ todo' = [t \in Threads |-> <<>>]
  /\ handle' = [t \in Threads |-> Shut]
  /\ seen' = <<>> /\ erasing' = <<>>
  /\ stage' = [r \in Runs |-> IF stage[r] = "new" THEN "new" ELSE "over"]
  /\ known' = [r \in Runs |-> NoPath]
  /\ stops' = stops + 1
  /\ UNCHANGED <<inode, acked, budget>>

Next ==
  \/ \E t \in Threads : OpenFile(t) \/ WriteLine(t) \/ WriteFails(t)
  \/ \E r \in Runs :
       \/ Launch(r) \/ FailedToLaunch(r) \/ FailedToStart(r)
       \/ NoteTranscript(r) \/ Close(r)
  \/ StartApp \/ CompactReads \/ CompactWrites
  \/ EraseReads \/ EraseWrites
  \/ Stop

Spec == Init /\ [][Next]_vars

-----------------------------------------------------------------------------
(* Properties. *)

(* The file keeps the journal's promise: whatever is cut short, healed,
   swept and compacted, every step of the file is a step of the history or
   no step at all (store.rs:484, "a half-written appended line is discarded
   by the reader and everything before it stands"). *)
Promise == INSTANCE RunHistory WITH history <- journal

KeepsPromise == Promise!Spec

(* A line whose append returned Ok is in what the journal reads, until it is
   pruned or erased: a line cut short costs itself and never the next one
   (store.rs:503). *)
AckedIsThere ==
  \A ev \in acked : Started(ev.run) \in acked =>
    \E i \in DOMAIN journal :
      /\ journal[i].run = ev.run
      /\ ev.t = "closed" => journal[i].status # "running"
      /\ ev.t = "transcript" => journal[i].path # NoPath /\ (ev.cleared => journal[i].cleared)

(* "A half-written appended line is discarded by the reader and everything
   before it stands" (store.rs:484): what a stop cuts short takes no record
   with it. *)
BeforeItStands ==
  [][Stop => RunsIn(journal) \subseteq RunsIn(journal')]_vars

(* Erasing one scenario's history takes no other scenario's record
   (store.rs:586): an unreadable file is not an empty one. *)
ErasesOnlyItsScope ==
  [][EraseWrites => \A i \in DOMAIN lines :
       lines[i] \notin {Torn, Split} /\ ~ InScope(lines[i].run, erasing[1], erasing[2])
         => lines[i].run \in RunsIn(journal')]_vars
=============================================================================
