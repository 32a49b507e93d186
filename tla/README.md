# cowork-deck: models, checks and proofs

This directory holds TLA+ models of cowork-deck, the TLC configurations that
check them on small instances, and theorems about them that TLAPS checks for
every value of the constants. Every definition is read off the sources named in
`PROJECT.json` under `map`; where a comment of the code and the code disagree,
the model follows the code and the comment becomes a property that is refuted.

## 1. The system

cowork-deck is a desktop application (Tauri): a Rust process that owns the
files, the pseudo-terminals and the background work, and webview windows in
TypeScript that show tiles, each a terminal running an agent CLI.

| component | state it keeps | operations | talks to |
|---|---|---|---|
| wrapup queue, capture (`memory/queue.rs`, `mod.rs`, `capture.rs`) | `wrapup.jsonl`; the flag `DRAINING` | enqueue at a close, retry, recover at a start, drain | corpus, a paid model call, the windows |
| scheduler (`scheduler.rs`) | `schedule_state.json` | tick: arm, fire, clear, prune; acknowledge | `skills.json`, the main window |
| run journal (`runs.rs`, `run_journal.rs`) | `runs.jsonl`, the map of open runs | open, note transcript, close, fail, sweep, compact | pty, listener, scheduler |
| terminals (`pty.rs`) | the map session -> child, `live` flags | spawn, write, resize, kill, wait, terminate | ownership, journal |
| status listener (`listener.rs`, `hooks.rs`, `bin/cowork_report.rs`) | the token per session | report, emit | windows, journal |
| ownership, windows (`ownership.rs`, `windows.rs`, `tray.rs`) | session -> window; windows ready | claim, release, hand over | pty |
| instance lock (`instance.rs`) | a lock per config directory | acquire, surrender, wake the other | start-up |
| stores (`store.rs`, `model.rs`) | one JSON file each; appended `runs.jsonl` | read, replace atomically, append, compact | all of the above |
| sync (`sync/*`, `sync_cmd.rs`) | a git repository, a manifest, a machine id | project, publish, pull, adopt, activate | stores, a remote |
| boards (`tasks/*`, `tasks_cmd.rs`) | Markdown cards on disk, or GitHub issues | list, move, edit, migrate, watch | sessions, `gh` |
| memory index (`memory/sidecar.rs`, `resident.rs`, crate `cowork-memory`) | a vector index, a resident process | index, search, serve, download | corpus |
| corpus (`memory/corpus.rs`, `rooms.rs`) | Markdown notes, facts, diaries | write, append, supersede | index, sync |
| usage, activity (`usage/*`, `activity/*`) | observed limits | read logs, merge, restore | windows |
| the deck (`src/*.ts`) | tiles and their states, layout | launch, close, tear out, answer a fire | everything, through commands |

Where the difficulty lies:

* **detached threads**: a drain, a reindex, the writer that closes a run and the
  waiter of a child all outlive the call that began them, and share files and
  flags with commands on the main thread;
* **stops at any instant**: the queue, the journal, the schedule and the boards
  are files; what a dead process left in them is put right at the next start;
* **read, change, write back** of whole files by parties that share no lock;
* **late messages**: acknowledgements, hook reports and exits of an earlier
  generation of the same session;
* **money**: a model call that is made twice is paid for twice.

What makes each component correct: *queue* - nothing unfinished is lost, nothing
is paid for without bound, a job done is a note complete; *scheduler* - an
occurrence is attempted once and not silently skipped; *journal* - a run is
closed once, by its own end; *terminals* - one child per session, and input goes
to the owner's; *ownership* - one writer; *stores and sync* - a lost race costs
no record; *boards* - a card is never lost nor in two columns; *index* - what is
on disk is eventually found.

## 2. Modules

| module | models | composes or uses |
|---|---|---|
| `WrapupQueue` | the queue folded from its lines, main thread, drain threads, the corpus writes of one capture | |
| `Scheduler` | the loop, the window, `schedule_ack`, the clock | |
| `SessionRuns` | tiles, launches, children and their waiters, hooks, the run journal | window, terminals, listener, journal |
| `RunLines` | the lines of `runs.jsonl`, folding, retention, rendering, scopes | |
| `RunHistory` | what the journal promises | extends `RunLines` |
| `RunFile` | the file: threads that append, cut-off writes, sweep, compaction, erasure | extends `RunLines`, implements `RunHistory` |
| `Handover` | a workspace that moves between two windows | ownership, windows, terminals, layout file |
| `FolderSync` | machines that share config and memory through a git branch | sync cycle, stores, identities, notes |
| `CardMoves` | where a workspace's cards are and how they follow it | form, board, sessions, migration |
| `NoteIndex` | the memory index, who updates it and who answers a search | indexer, resident process, app |
| `WrapupQueueProofs`, `SchedulerProofs`, `SessionRunsProofs`, `RunFileProofs`, `HandoverProofs`, `FolderSyncProofs`, `CardMovesProofs`, `NoteIndexProofs` | theorems about the module of that name | |
| `MC...` | the instance of the module of that name for TLC: named modes, clocks, which session runs which scenario | |

Several modules choose a *mode* in `Init`, a record of budgets that says what
people and faults may do in this behaviour (`Modes`, `Budgets`). A run gives a
set of modes: each is a scenario family with its own bounds, and one run covers
them all without multiplying their bounds with each other.

### WrapupQueue

`state` and `attempts` are what `fold_events` computes from the file (`absent`:
no line; `pruned`: its lines dropped), `outcome` the note of a `done` line,
`place` the order of the `queued` lines. `app` is the main thread: `StartApp`,
`RecoverJob`/`RecoverEnds`/`RecoverFails` are `recover_wrapup_queue` with one
append per step; `app = "pruning"` is a recovery that could read no jobs.
`Enqueue` and `Retry` are the two commands, each ending in
`SpawnDrain`, which claims `busy` (`DRAINING`) or does nothing. A drain thread
goes through the stages in `Stages`: `Plan` takes the snapshot, `Take` re-reads
one job and appends `started`, `ReadTranscript`, `Answer`, `WriteNote`,
`AppendFacts` and `AppendLessons` are `capture::run_with` in its order with each
`?`, `Finish` and `Fail` append the result, `DrainFails` is an append that fails
or a panic. `Stop` is a quit or a crash between any two steps. `Misreads` is a
read of the file that fails: `Queue::body` makes it an empty queue, so a recovery
has nobody to recover, a drain nothing to do, a failed attempt no attempts left
and a pruning whose second read fails a file to rewrite without its jobs. A file
that stays unreadable is one whose every read fails.

Abstracted: what is in a transcript, a reply or a note; a close that captures
nothing; the error texts; the reindex a drain ends with.

### Scheduler

`clock` counts instants and `Offset` gives the local wall clock at each, so a
change of time in spring or autumn is an instance and not an axiom. `Tick` is
one pass of the loop up to its write: it reads both files (an unreadable state
file is an empty map), decides by `Arms`/`Fires` and emits; `Save` is the write
of the whole map. `AckReads` and `AckWrites` are the read and the write of
`schedule_ack`. `Launch`, `Refuse` and `TileMoves` are the window; `EditSchedule`
edits, switches off or deletes a scenario. An occurrence fired by a tick that is
stopped before its write counts as not fired (the window that heard of it is
gone as well).

### SessionRuns

A launch is one call of `start_session`, so it names a run id, a record and at
most one child; `of` says which session it is for. `start` follows it: asked for
(`Asks`), prepared (`Invoke`, after `prepare_workspace`), then served by the main
thread, which takes commands from `inbox` one at a time. `OpenRecord` and
`OpenEntry` are `run_journal::open` up to its line and its map entry,
`Displace`, `SpawnChild` and `Hold` the three parts of `PtyManager::spawn`,
`FailToStart` a spawn that fails. `CloseRecord` and `KillChild` are
`close_session`. A waiter reads the generation flag (`WaiterChecks`), closes the
run (`WaiterCloses`) and tells the window (`WaiterTells`), with anything in
between; a hook report does the last two (`HookCloses`, `HookTells`).
`CloseRun` takes the entry of `open_runs` and leaves a writer, whose line is
`WriteClose`. `EraseReads` and `EraseWrites` are `delete_skill_history`.
`Stop` is a quit or a crash at any instant, `StartApp` the sweep.

`record` holds, per run, what `fold_events` makes of its lines: the first close
counts, a close without its start is dropped. An append that fails is only logged
(`Misses`: a start's line, a close's, the sweep's); the ghost `lost` names the
runs whose line it was, until the next sweep, and `taken` those somebody took out
of `open_runs`.

Abstracted: every session runs a scenario (the others have no record); `working`
stands for the waiting and the done states, which the properties do not tell
apart; results, chains, output and input are left out, transcripts and the file
are `RunFile`. `RunningIsKept` and `LeavesOnce` are stated without erasures,
which break them (`SessionRuns_history.cfg`, of `LeavesOnce`).

### RunLines, RunHistory, RunFile

`RunLines` has the pure part of `runs.rs`: `Apply`/`Folded` (`fold_events`),
`EventsOf`/`Rendered` (`to_events`), `Recent` (`retain_recent`), `InScope`,
`Without`, `HasRunning`. A line that is cut off in the middle is `Torn`, one cut
inside a character `Split`: the second makes the file unreadable.

`RunHistory` is what a user of the journal relies on: a list of records; each
begins once, learns where its transcript is, ends once, goes by age or by an
erasure of its scope. `RunFile` is `store.rs` under it. `OpenFile` looks at the
last byte and decides whether to heal, `WriteLine` is the one write, `WriteFails`
a full disk (none, some or all but the newline of a line), `Stop` cuts at most
one write short. `Close` takes the map entry and leaves the line to a detached
writer, `NoteTranscript` updates the map before its line, `StartApp`,
`CompactReads` and `CompactWrites` are `sweep_and_compact`, `EraseReads` and
`EraseWrites` `delete_skill_history`; a replacement is a new `inode`, which a
handle opened before does not write to. `KeepsPromise` is
`RunHistory`'s specification under `history <- journal`.

Abstracted: what is in a record beyond its state and its transcript; the
scenario and workspace of a run are functions of it. Lines are cut at the
points the reader tells apart.

### Handover

One workspace, the main window and one of its own. `owner` is `SessionOwners`,
`sink` where a session's output goes (`pty.rs` retarget), `ready` `WindowReady`,
`win` the life of the other webview, `mail` what was emitted to a window and not
yet handled, `claim` a `claim_session` under way (retarget first, then record and
tell), `saves` the `save_layout` calls under way, `memo` the list a window
believes it saved, `layout` the pairs in `sessions.json`. `DetachNew`,
`DetachExisting`, `OpenReturns` and `OpenTimesOut` are `open_workspace_window`
and `detachWorkspace` around it (`Offered`: a payload that cannot be sent is
reported and stays); `Listen`, `Boot`, `Announce` the start of the
window, which announces itself also when its listeners did not register
(`ears` are the windows whose did, `mode.deaf` those where it may fail) or its
start failed (`Boot` that restores nothing); `HandBack`, `Destroyed` its end:
where the hand-back cannot be sent the window goes all the same (`Leaves`), and
what it drew is `stranded` until a window claims it; `Receive`, `TakeTile`, `ClaimRetargets`,
`ClaimRecords`, `ClaimReturns`, `SaveLands` the hand-off; `Start`, `Exit`,
`CloseTile`, `Rename` what happens to tiles; `Quit` a restart of the app.

Abstracted: one workspace; a process that ends stays held until its tile is
closed, as in `pty.rs`; a save that fails; sizes and positions of windows. The
listeners of a hand-off register together or not at all (`Promise.all`; one that
did though another failed is not modelled), and the main window's own start at
`Quit` restores what is listed.

### FolderSync

`store` is `workspaces.json` and `skills.json`, `tree` the synced files on disk,
`head` and `base` commits, `remote` the branch, `tip` who has its last commit.
`Loop(m)` is one cycle of `sync_cmd.rs`: `Read`, `Publish` (with `with_repos`'s
save), `Commit`, `Pull`, `Push`/`Rejected`/`Repull`, `ApplyLedger` merge by
merge, `Adopt`. `People(m)` are the commands that can come between any two of
those steps: add, edit, locate, remove, merge, pin, a note written by a session,
and a conflict settled by hand. `CutShort` is a network fault or a quit.

Abstracted: git per file and three-way (one side's change wins, two are a
conflict); a record is its version, a note the workspace it lies under; `Facts.md`
appends; connecting, disconnecting and activation (every machine has just been
connected to an empty repository); a second `sync_now` beside the loop;
`keep_distinct` answers and pins that a migration made; the ledger is read anew
at each merge. A second push can be refused as the first can; modes without `racing`
(those of `foldersync_calm`) leave that out: no machine pushes in the moment between
another's second pull and second push. It is `Push`'s third conjunct, a hypothesis
on the mode and not a guard of the code. `early` is a ghost: the machines whose
cycle broke off with something pulled and not adopted since.

### CardMoves

`ws` is the workspace as saved: name, tracker, `prev` (the previous location) and
whether its config is of this version. `RootOf` is `resolve_root`, `Prev` the
pointer every reader sees (`seed_previous_location`), `Save` the form,
`Poll`/`Ask`/`Forget`/`Dismiss` the board's calls, `Migrate` to `MigrateEnd` one
`tasks_migrate`, card by card and, for a card that changes or crosses volumes,
copy and removal apart. `Create` and `FileFromSession` file cards, the second in
the folder the session was started with. `Unmount`, `Damage`, `Tear`, `Fail`,
`OriginalStays` and `Stop` are what goes wrong. Each scan of the previous location
may skip cards that it cannot read (`unread`, `fs.rs:119`), so that the offer and the
plan lack them and the pointer may be forgotten with them still there; `missed` keeps
them. A volume that goes takes its path along (`mounted`) or leaves the mount point
standing (`hollow`): then `Turn` swaps what the paths below it show with what they
hid (`hidden`), `is_dir` holds of the empty directory, and a root made or a card
filed there is covered when the volume is back.

Abstracted: one folder inside the project, names stand for their slugs, the two
older layouts are one older root, one migration at a time; a card is its
project, whether its step is the board's own, and whether its file is whole.
Moving, editing and closing cards on the board, the recognition of a picked
container and GitHub trackers (no root) are left out.

### NoteIndex

An update is a process `p` with its program counter in `proc[p].pc`: `ReadMeta`,
`ReadEmb` (`load`), `Scan`, `ReadNote` note by note, `PutEmb` and `PutMeta` (the
two renames of `save`). `SpawnReindex` starts one when the app's flag is free;
`StartApp`, `WriteByHand` call it. A search asks the resident process (`Take`,
`Hear`, `GiveUp`) under one lock and one deadline, or is a process of its own
that updates first (`Alone`). `ChildReads`/`ChildAnswers` are `serve`,
`ChildStops` a child that wedges or dies, `Reap` the idle reaper. `Stop` leaves
updates running, as a quit does. `spoiled` notes what a start cannot answer for
(`Spoils`, `Killed`): an update cut off, two saves that cross, the save of an update
that a quit left and that had scanned before.

Abstracted: a note is one chunk, its stamp its time, size and text; a scan is
one step; the model is installed, and the update that follows its download, under
another flag, is left out (`mod.rs:951`); so are warm-up, scoring, the MCP server
and a change of the embedder's width. A wedged resident process is ended by a quit. A request is written in
one step: the write to a child that has stopped reading has no deadline of its own
in the code (`resident.rs:121`), and a request larger than the pipe's buffer is not
in the model.

## 3. Runs

| run | bounds | what it shows |
|---|---|---|
| `wrapup_live` | two jobs, two threads, two attempts, one stop, fault (a failed read, a failed append or a panic), retry, kept job | a job runs, dies, is recovered, spends its attempts, is retried and pruned behind a later one: nothing unfinished is lost but by the very step whose read failed, spending is bounded, a drain frees its flag, a start settles or runs what it finds |
| `sched_once` | one scenario, two rules, two edits, a stop, a fault, an ack | firing twice, firing the past and a false `lastRun` need a lost record |
| `sched_live` | the same without acks | what is due under an armed rule is fired |
| `sched_ack_race` | an ack beside the loop | *violated*: the ack's stale write makes an occurrence fire again |
| `runs_stops` | two launches, a report, a stop, an append that fails | one child is listened to, a record is closed once and stays closed, none is left behind by a stop; a failed start leaves nothing running, and a run whose child is gone gets closed, but for the run whose very line was lost |
| `runs_erase` | two scenarios, an erasure from a stale read, the setting switched; launches, which are only fresh names, up to renaming (`Renamed`) | a run is still closed by one party |
| `runfile_file` | three runs, two scenarios, two writers and two stops, or one writer with a full disk or an erasure | the file implements the history; what was acknowledged is read |
| `handover_orderly` | two agents and a command, two openings, a quit, payloads that cannot be sent, a deaf window, a failed start | an orderly hand-off leaves each session with one window that draws, owns and hears it, but for what a failed hand-back strands; a stale picture is about to be told; the file restores what is held; waits end |
| `foldersync_calm` | two machines, three workspaces, people between cycles | nothing is undone in a list or resurrected, located folders survive, the machines agree in the end |
| `foldersync_rough` | two workspaces, people during cycles, cut-off cycles, racing pushes, conflicts | even then no note is lost, no record vanishes unless somebody removed it, and a newer version is replaced by an older only by a machine whose cycle broke off between a pull and its adoption |
| `cardmoves_moves` | two names, three places, up to three saves, faults, a quit; a volume that leaves its mount point, a card a scan cannot read | every card is whole somewhere, another project's never moves, what is in sight stays so but for what a scan passed over or a volume covers, a finished pointer goes |
| `noteindex_searches` | two notes, updates of two starts, two searches | vectors belong to their texts, what is recorded as indexed is, an answer is the asker's, searches return, a start indexes beside searches that update as well, but for what two crossing saves or a kill spoil |

Two launches are the least in which a run has a predecessor under its session
id; one report is enough to come before, between or after exit and close; two
sessions are needed only for an erasure, which is about another scenario's
records. `Keep = 1` and three runs make compaction drop one. Two machines
suffice for every conflict, since a push is atomic and the third would see the
remote as the second does. Two picks of the form, old and new, and the folder
inside the project are every kind of root there is; three saves are the least in
which a pointer outlives two roots. Two updates are the least that interleave
their renames.

The violated run has an entry under `findings` in `PROJECT.json`, which quotes
the line the code does not keep. What else the models refute is kept here: first
configurations of their own, for `tlc -config X.cfg M`.

| configuration | module | refutes | what happens |
|---|---|---|---|
| `WrapupQueue_lostwakeup` | `MCWrapupQueue` | `QueuedIsGoingToRun` (`queue.rs:643`) | a job queued during a drain waits for another close, retry or start |
| `WrapupQueue_misread` | `MCWrapupQueue` | `GivenUpWhenSpent` (`queue.rs:612`) | a job whose attempt fails while the file cannot be read is failed for good with attempts unspent (`:622`); a pruning whose second read fails drops the jobs that wait (`:734`) |
| `Scheduler_spring` | `MCScheduler` | `AtMostOnce` (`scheduler.rs:206`) | west of Greenwich an occurrence in the spring gap is read back hours early and fires on every tick (`:182`) |
| `Scheduler_toggle` | `MCScheduler` | `AtMostOnce` | a schedule switched off and on in the repeated hour is armed with an earlier occurrence than it has attempted (`:319`) |
| `Scheduler_broken` | `MCScheduler` | `BrokenFiresNothing` (`scheduler.rs:357`) | an unwritable state file makes a due fire repeat |
| `Scheduler_lastrun` | `MCScheduler` | `LastRunMeansStarted` (`commands.rs:507`) | a session that failed to start is acknowledged as launched |
| `Scheduler_stale` | `MCScheduler` | `AckSticks` (`scheduler.rs:331`) | the loop's stale write forgets an acknowledged run |
| `SessionRuns_cleared` | `MCSessionRuns` | `EndedIsOver` (`runs.rs:80`) | clearing a conversation ends the record of a live session |
| `SessionRuns_latehook` | `MCSessionRuns` | `DeadTileSaysSo` (`sessions.ts:1817`) | a report told after the exit revives a dead tile and hides its restart button |
| `SessionRuns_diesatonce` | `MCSessionRuns` | `DeadTileSaysSo` | the answer to a restart overwrites the exit of its child (`sessions.ts:1165`) |
| `SessionRuns_quit` | `MCSessionRuns` | `SweptWasOpen` (`run_journal.rs:329`) | a close not yet written at a quit is swept as an interruption |
| `SessionRuns_replaced` | `MCSessionRuns` | `OwnExitOnly` | an exit under way closes the record of the launch that replaces its child |
| `SessionRuns_orphan` | `MCSessionRuns` | `ClosedIsKilled` | closing a tile during its launch leaves a child with no tile |
| `SessionRuns_lostline` | `MCSessionRuns` | `FailedIsNotRunning` (`run_journal.rs:290`) | the line that closes a failed start cannot be written (`:131` warns and goes on): the record is running until the next sweep |
| `SessionRuns_history` | `MCSessionRuns` | `LeavesOnce` (`runs.rs:74`) | erasing one history takes another scenario's close with it |
| `RunFile_split` | `MCRunFile` | `BeforeItStands` (`store.rs:484`) | a line cut inside a character makes the whole file unreadable |
| `RunFile_erased` | `MCRunFile` | `ErasesOnlyItsScope` (`store.rs:586`) | erasing from an unreadable file takes every scenario's records |
| `RunFile_glued` | `MCRunFile` | `AckedIsThere` | another thread looked at the last byte before the cut-off write: its line is glued to the fragment |
| `NoteIndex_written` | `MCNoteIndex` | `WrittenIsIndexed` (`mod.rs:796`) | a note written by hand while an update is past its scan: the call finds the flag taken, and no update comes for it |

`Scheduler_pair` passes: two scenarios share the file, one may be deleted and
the wall clock goes back.

Then modes: put the given mode, and the given property alone, into the
configuration.

| configuration | mode | refutes | what happens |
|---|---|---|---|
| `FolderSync_calm` | `Quitting`, `Racing`, `Settling` | `NeverTakenBack` | a machine whose cycle ended before adoption publishes the version it read over the newer one (`docs/sync-manual-check.md:141`, "Quit the app mid-sync. Reopen: nothing is lost") |
| | `Busy` | `PathSurvives` | a folder located while a cycle runs is overwritten with the list the cycle read |
| | `BusyAdd` | `WindowsAreTold` | a workspace added meanwhile leaves the list and no window hears of it |
| | `Last` | `DeletedStays` | a machine left with no record saves nothing, and publishes the removed one again |
| | `FoldPinned` | `PinFollows` | a scenario pinned to a merged workspace on the other machine stays so |
| | `Clashing` | `MarksArePeoples` | the next cycle's publish writes over a file with conflict markers |
| | `Late` | `AnswersStand` | a second answer about a settled pair is lost in a conflict of the ledger |
| `Handover_orderly` | `OnlyTwo` | `LiveIsLaidOut` | saves of two windows cross: the later list drops what the other moved |
| | `Each` | `TakeIsHeard` | a window whose listeners did not register announces itself, and the payload is lost (`app.ts:3131`, `workspace.ts:21`) |
| | `Each` | `NoneIsStranded` | a hand-back cannot be sent and the window goes: its sessions run on no tile (`app.ts:3103-3107`) |
| | `OnlyDeaf` | `LiveIsHeld` | the main window's listeners did not register, and what is handed back to it is lost |
| | `OnlyShells` | `LiveIsHeld` | a shell command of the closing window is handed to nobody |
| | `OnlyEnding` | `EndIsShown` | an exit that comes during a hand-off is shown by neither window |
| | `OnlyHasty`, one agent | `LiveIsHeld`, `LabelIsHeard`, `OnlyOwnerCloses` | a second opening, a close or a return before the first has settled |
| `CardMoves_moves` with `Spec` | `Twice` | `LeavesNothingBehind` | an older pointer outlives a save: cards filed in between are pointed to by nobody |
| | `InPlace` | `FoundOrPointed` | the same without a card filed: back at a root, and on |
| | `Outlived` | `FiledInSight` | a session files where it was started, after the board has moved |
| | `Customised` | `BoardFollows` | a poll writes the default board before the migration copies the real one |
| | `TornOnce` | `SightIsKept` | half a copy is taken for a card that is already there |
| | `Leftover` | `SightIsKept` | the copy a quit left at the destination, under an older name, is taken for the card that is already there |
| | `Vacated` | `SightIsNeverLost` | the previous location is the mount point of a volume that is away: the poll finds it a directory with no card and forgets the pointer (`tasks_cmd.rs:776`, `:825-834`) |
| | `Unread` | `SightIsNeverLost` | the only card behind the pointer cannot be read for once: the scan skips it and the pointer is forgotten (`fs.rs:119`) |
| `NoteIndex_searches` | `Orphaned` | `StartAlwaysIndexes` | an update left by a quit and the start's own interleave their renames: the pair loads as nothing (`index.rs:123-124`) |
| | `Crossed` | `StartAlwaysIndexes` | so do the start's update and a search that fell back and updates as well (`mod.rs:411-414`) |
| | `Forgotten` | `RecordedIsIndexed` | a note that could not be read is recorded as indexed (`index.rs:226`) |

A deadlock is allowed in all runs: the bounds end every behaviour, and an idle
application is a correct one.

## 4. Fairness

* `WrapupQueue`, `Scheduler`, `SessionRuns`: a drain thread runs on (the model
  call has a deadline, the other steps are file writes), the set-up hook and a
  command run to their end, the loop's timer comes back, the main thread serves
  its inbox, a waiter whose child has exited runs on and so does a detached
  writer; no hook has to be sent or served.
* `Handover`: what was sent is served and a wait for a window ends by its
  deadline; a webview may never boot.
* `FolderSync`: the loop of a connected machine keeps ticking. `Converges`
  assumes besides that no rebase waits for a person for ever.
* `CardMoves`: the board on screen keeps asking (it polls), and a command that
  runs goes on.
* `NoteIndex`: a process that runs goes on, a caller takes the lock when it is
  free or an answer that is there. The resident process need not be fair after it
  wedged: the deadline ends that wait.

Nobody is obliged to open the app or a window, close a tile, retry, edit, merge,
settle, mount a volume or search, and no fault or stop ever has to happen.

## 5. Proofs

Every safety invariant and every action property of a passing run is a theorem,
and so is the refinement; what the hypotheses exclude is refuted by a
configuration of section 3 unless the text says otherwise. All of them rest on
the named assumptions of their modules only: names of "none" are not names of
anything, bounds are natural numbers, modes are records of budgets. `TypeOK` of
every module is proved too (`RunFile`'s under its two hypotheses) and needs no run.

**WrapupQueueProofs**, for any finite set of jobs, any set of threads and any
bounds: `OneDrainAlways`, `RunningIsHeldAlways`, `SpendBoundedAlways`,
`DoneIsCompleteAlways`, `NoJobLostAlways` and `FinishedIsFinalAlways`. The
argument is the inductive invariant `IInv`. `SpendBounded` alone is not
inductive: that a job is started at most `MaxAttempts` times needs that a
*queued* job has an attempt left (recovery and `fail` give up on the others),
and that a note costs a call needs to know, at each stage of a run, what that
stage has not yet spent (`Spending`). `RunningIsHeld` and `DoneIsComplete` need
that a thread holds a job exactly in the stages of its run and that the job is
then running on disk (`Threads`), which in turn needs that there is one drain
(`OneDrain`): two drains could take the same job. `Writing` says what is in the
corpus at each stage. The action properties follow from `IInv` step by step;
`NoJobLost` names what a failed read costs, and nothing else costs it.

**SchedulerProofs**, for any scenarios, rules, horizon and clock:
`LastRunWasLaunchedAlways` without hypotheses; `FiresOnlySinceArmedAlways` for
clocks in which an occurrence, once stored as an instant, reads back as no
earlier one (`StoredWell`; `Scheduler_spring` refutes `AtMostOnce` without);
`FiredAgainOnlyIfLostAlways` if besides the wall clock does not go back
(`NeverBack`; `Scheduler_toggle`). `RanInv` follows a `lastRun` through the map a
tick holds and the one an ack read: either writer may come last. `ArmedInv` says
that the record of a scenario, in the file and in the map a tick has yet to write,
has the rule the ticks saw last and is not behind any occurrence that was past
when they saw it first; `FiredInv` that it is not behind an occurrence that was
fired under that rule. Neither speaks of a scenario whose record was lost: a
failed read or write, or an ack's stale write, loses it.

**SessionRunsProofs**, for any sessions, launches, scenarios and bounds:
`OneChildAlways` and `TakenOnceAlways`, and, when no history is erased
(`MaxErasures = 0`; `SessionRuns_history` refutes `LeavesOnce` without),
`LeavesOnceUnerased`, `RunningIsKeptUnerased` and `FailedIsClosedUnerased`, with any
number of lines that cannot be written: `lost` has every run that is left running
with nobody to close it. There are five layers. `TypeInv` adds to the types that a launch under way has its
session. `GenInv` says that the main thread is inside one `start_session` at a
time (`Serving`) and that a child listened to is the one the manager holds or the
one being spawned, when the manager holds none (`Generation`): `OneChild`
follows. `Claims` says who may still close a run: its entry of `open_runs`, or
one writer, or a launch whose entry is still to be made; a stop leaves none of
them. It speaks of what an erasure has read as well, which is why `TakenOnce`
survives erasures. `KeptInv` needs in addition that a new entry overwrites none
(`MakesRoom`), and `FailedIsClosed` all of these.

**RunFileProofs**, for any runs, scenarios, paths, retention and number of stops.
First the pure part, for every history and every file: `fold_events` line by
line, what a pruning keeps, and `RenderedFolds`: the lines `to_events` writes for
a history fold back into it. Then `FileInv`, that the journal is what a reader
makes of the file while each handle, writer and snapshot is at its place, and
from it `KeepsItsPromise`, the refinement of `RunHistory` step by step, and
with `AckInv` `AckedIsThereAlways`. The hypotheses: no line is cut off inside a
character (`NoSplit`; `RunFile_split` refutes), and where the disk can be full or
a history erased, the main thread is the only writer (`OneWriter`;
`RunFile_glued` refutes, and an erasure writes back what it read before another
thread's append).

**HandoverProofs**, for any sessions, commands and bounds: `ReadyIsItsOwnAlways`
from `WindowInv` (the window that announced itself is the one that is up), and
`OrderlyIsHeldAlways`, `StaleIsToldAlways` and `OrderlyLayoutAlways` from
`OrderInv`. That one says, where a person waits for a hand-off and one session
has moved before the next one does and the main window's listeners are up
(`Orderly`), what may be in transit between the window that gives and the one
that takes, with the sessions a failed hand-back left `stranded` exempt and a
giver that is deaf (`ears`) never told: `HandInv` goes through a tile's way (`SidesInv` who draws,
`ComingInv` what is in the mail, `ClaimInv` a claim between its two writes,
`ToldInv` that the loser will hear, `PlaceInv` owner and sink, `SaveInv` and
`FileInv` the saves under way and the file, `LaidInv` what it restores), and
`WaitInv`, `DownInv`, `LeaveInv` and `ShellInv` through an opening, a window that
is down or leaving, and shell commands. When nothing is in transit it says the
same of either side (`RestInv`), which is how the next hand-off may go the other
way.

**FolderSyncProofs**, for any machines, workspaces, notes and modes:
`NotesAreKept` (`NoteIsKept`) and `NothingVanishesEver` (`NothingVanishes`). What
a machine wrote can be lost between its disk and its last commit, between that
commit and the one of the remote it was rebased onto, and between that and the
remote as it is: the two properties are not inductive, since a push makes the
remote what a commit is. `NoteChain` and `RecordChain` say what may be missing at
each link (a record, only if somebody removed it or the ledger answers for it),
and `TipIsBase` that a machine with the remote's last commit has it as its base,
which is why a push overwrites nothing unseen. The other four have hypotheses on
the modes:

* `PathSurvivesWaiting` where a person waits for the cycle (`Waiting`; mode `Busy`
  refutes): the list a cycle read is then the machine's, and what it lists is in
  the tree or gone (`PathOk`).
* `NeverRevertedUndisturbed` where besides nobody quits, settles or merges and no
  push races a second pull (`Undisturbed`): there no machine at all takes a change
  back (`NeverTakenBack`, which `Quitting`, `Racing` and `Settling` refute), so
  `NeverReverted` holds without its exception. With quits, merges and races
  `NeverReverted` is checked by `foldersync_rough`, not proved. `VersionsOk` says
  that neither disk nor commit has an older version than the base, and when the
  list may: only from a pull to its adoption.
* `NeverUndoneUnremoved` where besides nothing is removed (`Unremoved`): the remote
  only grows, so a pull brings nothing older than the list (`AheadOk`). With
  removals it is false of three machines if a person may remove the last record
  (`last`): the machine left with an empty repository keeps its list, and publishes
  a removed record in the version it has. Two machines show no counterexample.
* `DeletedStaysOnce` where `Undisturbed` holds and one record is removed by a person
  who has another (`RemovedOnce`; mode `Last` refutes). A record the remote lacks is
  on one machine, which added it (`Origin`); a machine whose base lacks the removed
  one has no trace of it (`Dropped`); and the record that is left goes wherever the
  removal goes (`Spared`), so that nobody is left with an empty repository and a
  list that is not replaced.

**CardMovesProofs**, for any names, folders, cards, sessions and modes:
`NeverNowhereEver`, `RootsAreBelowABase` and `ForeignStaysThere`. `NeverNowhere`
needs that the original of a card half moved may go because its copy is whole
(`HalfIsWhole`), and that every file is of a card that was filed (`FilesAreCards`,
so that a new id is free); `ForeignStays` that a foreign card names another
project wherever it lies (`ForeignIsOther`) and so is in no plan
(`ForeignIsNotMoved`). `SightIsKept` is proved where no write is torn (`NoTear`;
`TornOnce` refutes) and no volume leaves its mount point standing (the same
hypothesis; TLC checks the property there, with its exceptions) in two cases: of a
workspace that keeps its name (`SightIsKeptUnrenamed`), whatever fails, stops or is
unplugged, and of one that is renamed as it moves (`SightIsKeptUnbroken`), when
nothing does: with both, a copy left behind by a stopped migration bears the older
name (`Leftover` refutes). Scans may fail to read any card at any time in both. The
invariant of both is `Sighted`: the pointer leads elsewhere than to the root in
use (`Aside`), a migration brings home all that the pointer claims, was not passed
over and is not yet on the board (`BringsHome`), and the board asks to forget it
only when it claims nothing but what was passed over (`AskedOfNothing`); the two
cases are two ways to show that a file in the way of a move is the card itself
(`CopiesAgree`), or one that a scan had passed over.

**NoteIndexProofs**, for any notes, updates, searches and modes:
`SearchIsAlwaysTrue` (`SearchIsTrue`), `AnswersAreMine` (`AnswerIsMine`) and
`NeverBlindAlways`. An update carries rows and chunks side by side from the load
to the save, and a matrix is put in place with the mark of the chunks it was made
for (`RowsInv`): whichever meta file a load reads beside it, the mark decides.
`OwnLine` says that the resident process's stream holds at most one line, the lock
holder's request or its answer: an asker that gives up takes the process along,
and that is what a late answer cannot survive. `BlindInv` says of the file and of
every update under way that a note recorded with the time it has now, and not
still to be read, has its chunk beside it. It is about the modes in which notes can
be read (`legible`); `Forgotten` refutes it without.

Recursion. The provers cannot instantiate an induction theorem, but a recursive
function can be reasoned about through sets: the set of arguments at which a
statement fails is a set of natural numbers and has a least element
(`NatLessThanWellFounded`, `WFMin`). `LeastNat`, `Induct` and `Recursion` in the
proof modules say this once; the fold over the lines of a file and the filter over
the chunks of an index are proved that way.

Only model-checked: liveness (`DrainFreesFlag`, `StartupDrains`, `DueIsFired`,
`DeadIsClosed`, `HandOffSettles`, `Converges`, `PointerIsForgotten`, `AskReturns`,
`StartIndexes`), which needs fairness and `ENABLED`; and the part of `FolderSync`'s
versions, lists and deletions that the runs allow and the hypotheses above do not,
merges above all.

## 6. Not modelled, and the plan

`PROJECT.json` lists each component with what is left out and why. The largest
parts without a model:

* *screens and widgets* show state that other components own;
* *GitHub issues and pull requests* are calls of `gh` and parsing of its answers:
  they keep a cache per window and no state that survives;
* *usage and activity readers*, *transcripts* read logs other programs write;
  their logic is the shape of those logs;
* *program lookup* is a search of the file system and one probe of a shell;
* *instance lock*: one file lock and one socket, no state of its own;
* *corpus*: `FolderSync` has its notes as they move, `NoteIndex` as they change,
  `WrapupQueue` the writes of a capture; superseding and undoing facts is text.

Worth doing next, in this order: `wrapup.jsonl` as a file, as `RunFile` is for
`runs.jsonl`; superseded facts (`corpus.rs`) under sync; activation and
disconnection of sync; the board's own edits beside an agent's; the model
download that resumes. Theorems worth having:
`NeverReverted` of `FolderSync` with quits and raced pushes, and with merges, whose
ledger makes an id another one; `NeverUndone` of two machines with removals.
