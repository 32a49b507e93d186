---------------------------- MODULE SessionRuns ----------------------------
(***************************************************************************)
(* Sessions and the journal of scenario runs: a tile of the deck window,   *)
(* the child process behind it, the thread that waits for that child, the  *)
(* hooks the child reports through, and the record kept of each run.       *)
(*                                                                         *)
(* Sources: src-tauri/src/{commands,pty,run_journal,runs,store,listener,   *)
(* main}.rs and src/{sessions,terminal}.ts.                                *)
(*                                                                         *)
(* A launch is one call of start_session: it mints one run id, opens one   *)
(* record and spawns at most one child, so a launch names all three.  A    *)
(* session id outlives its launches: the restart button starts another     *)
(* one under the same id, and so does a restored layout.  Everything keyed *)
(* by the session id can therefore meet a launch it was not meant for.     *)
(*                                                                         *)
(* Threads: the window (its handlers and their continuations), the main    *)
(* thread, which runs synchronous commands one after another, a waiter per *)
(* child, a task per hook connection, a detached writer per closed record, *)
(* and the worker that erases a history.  Runs.jsonl is kept folded: what  *)
(* runs.rs fold_events makes of the lines of one run.  A line that cannot  *)
(* be appended is gone: run_journal append logs the failure, nobody tries  *)
(* again, and the caller goes on as if it had been written.                *)
(***************************************************************************)
EXTENDS Naturals, Sequences, FiniteSets

CONSTANTS Sessions,     \* session ids of tiles that run a scenario
          Launches,     \* calls of start_session
          NoLaunch, NoSession, NoSkill,
          Skills,       \* scenarios
          SkillOf,      \* the scenario a session's tile was made for
          MaxReports,   \* bound: hook events that reach the listener
          MaxStops,     \* bound: how often the app stops
          MaxToggles,   \* bound: how often recording is switched
          MaxErasures,  \* bound: how often a history is erased
          MaxLost       \* bound: in how many steps lines cannot be appended

ASSUME NamesAssumption ==
    /\ NoLaunch \notin Launches /\ NoSession \notin Sessions /\ NoSkill \notin Skills
    /\ SkillOf \in [Sessions -> Skills]
ASSUME BoundsAssumption ==
    /\ MaxReports \in Nat /\ MaxStops \in Nat /\ MaxToggles \in Nat
    /\ MaxErasures \in Nat /\ MaxLost \in Nat

VARIABLES
    app,        \* "up" or "down"
    tile,       \* what a tile shows; "none": no tile, "saved": in the layout only
    button,     \* whether the tile offers its restart button
    of,         \* the session a launch is for
    replace,    \* whether the launch means to replace a live process
    start,      \* how far a launch has got
    inbox,      \* commands sent to the main thread, in order
    serving,    \* the launch whose start_session the main thread is in
    closing,    \* the session whose close_session it is in
    proc,       \* the child of a launch: "none", "alive", "leaving" once it reported
                \* its end, how it ended, "cut" by a stop
    live,       \* its generation flag
    waiter,     \* its waiter thread
    held,       \* PtyManager.sessions
    open,       \* run_journal open_runs
    record,     \* the folded record of a launch's run, "absent" from the file
    writers,    \* closed records a detached thread has yet to write down
    taken,      \* ghost: runs whose entry in open_runs somebody has taken away
    lost,       \* ghost: runs of which this process could not append a line
    hooks,      \* reports under way to the listener
    recording,  \* the setting record_scenario_runs
    erasing,    \* the scenario whose history is being rewritten
    seen,       \* the records that rewrite read
    reports, stops, toggles, erasures, losses  \* counters behind the bounds

window  == <<tile, button>>
launch  == <<of, replace, start>>
main    == <<inbox, serving, closing>>
child   == <<proc, live, waiter, held>>
journal == <<open, record, writers, taken, lost>>
history == <<erasing, seen>>
bounds  == <<reports, stops, toggles, erasures, losses>>
vars    == <<app, window, launch, main, child, journal, hooks, recording, history, bounds>>

Closed  == {"ended", "error", "interrupted"}
Dead    == {"ended", "error"}
There   == {"alive", "leaving"}
\* SessionState; "working" also stands for "waitingInput" and "done".
Shown   == {"idle", "working", "ended", "error"}
Phases  == {"unused", "preparing", "sent", "opening", "opened", "spawning", "spawned",
            "ok", "failed", "heard"}
Commands == ({"start"} \X Launches) \cup ({"close"} \X Sessions)
\* A record to be closed, and the launch whose exit closes it, if one does.
Closes  == [run : Launches, status : Dead, by : Launches \cup {NoLaunch}]
\* `closed`: the listener has been through the journal with an `ended` report.
Reports == [session : Sessions, says : {"idle", "working", "ended"}, closed : BOOLEAN]

-----------------------------------------------------------------------------
(* What the handlers share.                                                *)

Up   == app = "up"
Free == Up /\ serving = NoLaunch /\ closing = NoSession

HasTile(s) == tile[s] \in Shown

\* sessions.ts setState: unconditional, and silent for a tile that is gone.
SetState(s, state) ==
    /\ tile' = [tile EXCEPT ![s] = IF HasTile(s) THEN state ELSE @]
    /\ button' = [button EXCEPT ![s] = IF HasTile(s) THEN state \in Dead ELSE @]

\* run_journal take_open: whoever gets the entry closes the run.
TakeOpen(s) ==
    /\ open' = [open EXCEPT ![s] = NoLaunch]
    /\ taken' = IF open[s] = NoLaunch THEN taken ELSE taken \cup {open[s]}

\* Mutated: A close leaves the entry in open_runs.
CloseRun_Peek(s, status, by) ==
    /\ UNCHANGED <<open, taken>>
    /\ writers' = IF open[s] = NoLaunch THEN writers
                  ELSE writers \cup {[run |-> open[s], status |-> status, by |-> by]}

\* run_journal close: take the entry, and leave the writing to a thread.
CloseRun(s, status, by) ==
    /\ TakeOpen(s)
    /\ writers' = IF open[s] = NoLaunch THEN writers
                  ELSE writers \cup {[run |-> open[s], status |-> status, by |-> by]}

\* Mutated: The last `closed` line counts, and a swept record is closed again.
Fold_Last(old, status) == IF old = "absent" THEN old ELSE status

\* fold_events, for one `closed` line: the first one counts, and a line whose
\* `started` is not in the file is dropped.
Fold(old, status) == IF old = "running" THEN status ELSE old

\* run_journal append: the lines of the runs in `gone` cannot be written.
Misses(gone) ==
    /\ gone # {} => losses < MaxLost
    /\ losses' = IF gone = {} THEN losses ELSE losses + 1
    /\ lost' = lost \cup gone

\* PtyManager: is there an entry this launch may not displace?
Refused(l) == held[of[l]] # NoLaunch /\ ~replace[l]

\* Mutated: The manager forgets the process it displaces instead of ending it.
Ends_Quietly(s) ==
    /\ UNCHANGED live
    /\ held' = [held EXCEPT ![s] = NoLaunch]

\* PtyManager spawn and kill: the entry goes and its generation is over.
Ends(s) ==
    /\ live' = [l \in Launches |-> IF l = held[s] THEN FALSE ELSE live[l]]
    /\ held' = [held EXCEPT ![s] = NoLaunch]

\* A launch is a fresh run id; which of the unused ones makes no difference.
Asks(s, l, again) ==
    /\ start[l] = "unused" /\ l = CHOOSE k \in Launches : start[k] = "unused"
    /\ of' = [of EXCEPT ![l] = s]
    /\ replace' = [replace EXCEPT ![l] = again]
    /\ start' = [start EXCEPT ![l] = "preparing"]

Init ==
    /\ app = "up"
    /\ tile = [s \in Sessions |-> "none"]
    /\ button = [s \in Sessions |-> FALSE]
    /\ of = [l \in Launches |-> NoSession]
    /\ replace = [l \in Launches |-> FALSE]
    /\ start = [l \in Launches |-> "unused"]
    /\ inbox = << >> /\ serving = NoLaunch /\ closing = NoSession
    /\ proc = [l \in Launches |-> "none"]
    /\ live = [l \in Launches |-> FALSE]
    /\ waiter = [l \in Launches |-> "none"]
    /\ held = [s \in Sessions |-> NoLaunch]
    /\ open = [s \in Sessions |-> NoLaunch]
    /\ record = [l \in Launches |-> "absent"]
    /\ writers = {} /\ taken = {} /\ lost = {} /\ hooks = {} /\ recording = TRUE
    /\ erasing = NoSkill /\ seen = record
    /\ reports = 0 /\ stops = 0 /\ toggles = 0 /\ erasures = 0 /\ losses = 0

-----------------------------------------------------------------------------
(* The window.                                                             *)

\* A scenario is launched into a new tile, under a fresh session id.
NewTile(s, l) ==
    /\ Up /\ tile[s] = "none"
    /\ \A k \in Launches : of[k] # s
    /\ Asks(s, l, FALSE)
    /\ tile' = [tile EXCEPT ![s] = "idle"]
    /\ UNCHANGED <<app, button, main, child, journal, hooks, recording, history, bounds>>

\* A tile of the saved layout is put back and its conversation resumed.
RestoreTile(s, l) ==
    /\ Up /\ tile[s] = "saved"
    /\ Asks(s, l, FALSE)
    /\ tile' = [tile EXCEPT ![s] = "idle"]
    /\ UNCHANGED <<app, button, main, child, journal, hooks, recording, history, bounds>>

\* The restart button: the one launch that means to replace.
Restart(s, l) ==
    /\ Up /\ HasTile(s) /\ button[s]
    /\ Asks(s, l, TRUE)
    /\ button' = [button EXCEPT ![s] = FALSE]
    /\ UNCHANGED <<app, tile, main, child, journal, hooks, recording, history, bounds>>

\* TerminalPanel.start once prepare_workspace has answered.  Nothing asks
\* whether the tile is still there.
Invoke(l) ==
    /\ Up /\ start[l] = "preparing"
    /\ start' = [start EXCEPT ![l] = "sent"]
    /\ inbox' = Append(inbox, <<"start", l>>)
    /\ UNCHANGED <<app, window, of, replace, serving, closing, child, journal, hooks,
                   recording, history, bounds>>

CloseTile(s) ==
    /\ Up /\ HasTile(s)
    /\ tile' = [tile EXCEPT ![s] = "none"]
    /\ button' = [button EXCEPT ![s] = FALSE]
    /\ inbox' = Append(inbox, <<"close", s>>)
    /\ UNCHANGED <<app, launch, serving, closing, child, journal, hooks, recording,
                   history, bounds>>

\* The continuation of the window's await on start_session.
HearsStarted(l) ==
    /\ Up /\ start[l] = "ok"
    /\ start' = [start EXCEPT ![l] = "heard"]
    /\ IF replace[l] THEN SetState(of[l], "idle") ELSE UNCHANGED window
    /\ UNCHANGED <<app, of, replace, main, child, journal, hooks, recording, history, bounds>>

HearsFailed(l) ==
    /\ Up /\ start[l] = "failed"
    /\ start' = [start EXCEPT ![l] = "heard"]
    /\ SetState(of[l], "error")
    /\ UNCHANGED <<app, of, replace, main, child, journal, hooks, recording, history, bounds>>

-----------------------------------------------------------------------------
(* The main thread: start_session and close_session.                       *)

Takes(command) == Free /\ inbox # << >> /\ Head(inbox) = command /\ inbox' = Tail(inbox)

\* No folder on this machine, or no claude: refused before a record exists.
RejectStart(l) ==
    /\ start[l] = "sent" /\ Takes(<<"start", l>>)
    /\ start' = [start EXCEPT ![l] = "failed"]
    /\ UNCHANGED <<app, window, of, replace, serving, closing, child, journal, hooks,
                   recording, history, bounds>>

\* run_journal open, up to its `started` line: whatever was open under this
\* session ends here.  It goes on without either line if that cannot be written.
OpenRecord(l) ==
    /\ recording
    /\ start[l] = "sent" /\ Takes(<<"start", l>>)
    /\ serving' = l
    /\ start' = [start EXCEPT ![l] = "opening"]
    /\ TakeOpen(of[l])
    /\ \E gone \in SUBSET ({l, open[of[l]]} \ {NoLaunch}) :
          /\ Misses(gone)
          /\ record' = [k \in Launches |->
                           IF k \notin {l, open[of[l]]} \ gone THEN record[k]
                           ELSE IF k = l THEN "running" ELSE Fold(record[k], "ended")]
    /\ UNCHANGED <<app, window, of, replace, closing, child, writers, hooks, recording,
                   history, reports, stops, toggles, erasures>>

OpenEntry(l) ==
    /\ serving = l /\ start[l] = "opening"
    /\ start' = [start EXCEPT ![l] = "opened"]
    /\ open' = [open EXCEPT ![of[l]] = l]
    /\ UNCHANGED <<app, window, of, replace, main, child, record, writers, taken, lost,
                   hooks, recording, history, bounds>>

\* The setting is off: no record, and nothing open is closed.
OpenNothing(l) ==
    /\ ~recording
    /\ start[l] = "sent" /\ Takes(<<"start", l>>)
    /\ serving' = l
    /\ start' = [start EXCEPT ![l] = "opened"]
    /\ UNCHANGED <<app, window, of, replace, closing, child, journal, hooks, recording,
                   history, bounds>>

\* PtyManager spawn: check and remove under one lock, then terminate.
Displace(l) ==
    /\ serving = l /\ start[l] = "opened" /\ ~Refused(l)
    /\ start' = [start EXCEPT ![l] = "spawning"]
    /\ Ends(of[l])
    /\ UNCHANGED <<app, window, of, replace, main, proc, waiter, journal, hooks, recording,
                   history, bounds>>

\* The child and its threads exist before the manager holds the session.
SpawnChild(l) ==
    /\ serving = l /\ start[l] = "spawning"
    /\ start' = [start EXCEPT ![l] = "spawned"]
    /\ proc' = [proc EXCEPT ![l] = "alive"]
    /\ live' = [live EXCEPT ![l] = TRUE]
    /\ waiter' = [waiter EXCEPT ![l] = "waiting"]
    /\ UNCHANGED <<app, window, of, replace, main, held, journal, hooks, recording, history,
                   bounds>>

Hold(l) ==
    /\ serving = l /\ start[l] = "spawned"
    /\ start' = [start EXCEPT ![l] = "ok"]
    /\ held' = [held EXCEPT ![of[l]] = l]
    /\ serving' = NoLaunch
    /\ UNCHANGED <<app, window, of, replace, inbox, closing, proc, live, waiter, journal,
                   hooks, recording, history, bounds>>

\* Mutated: A failed start reports its error and leaves the record.
FailToStart_NoClose(l) ==
    /\ serving = l
    /\ start[l] = "spawning" \/ (start[l] = "opened" /\ Refused(l))
    /\ start' = [start EXCEPT ![l] = "failed"]
    /\ serving' = NoLaunch
    /\ UNCHANGED <<app, window, of, replace, inbox, closing, child, journal, hooks, recording,
                   history, bounds>>

\* The spawn is refused, or openpty or the exec fails: failed_to_start closes
\* what is open under the session, and writes it here if it can.
FailToStart(l) ==
    /\ serving = l
    /\ start[l] = "spawning" \/ (start[l] = "opened" /\ Refused(l))
    /\ start' = [start EXCEPT ![l] = "failed"]
    /\ TakeOpen(of[l])
    /\ \E gone \in SUBSET ({open[of[l]]} \ {NoLaunch}) :
          /\ Misses(gone)
          /\ record' = [k \in Launches |-> IF k = open[of[l]] /\ k \notin gone
                                           THEN Fold(record[k], "error") ELSE record[k]]
    /\ serving' = NoLaunch
    /\ UNCHANGED <<app, window, of, replace, inbox, closing, child, writers, hooks, recording,
                   history, reports, stops, toggles, erasures>>

\* close_session: the journal first, so that the exit finds nothing to close.
CloseRecord(s) ==
    /\ Takes(<<"close", s>>)
    /\ closing' = s
    /\ CloseRun(s, "ended", NoLaunch)
    /\ UNCHANGED <<app, window, launch, serving, child, record, lost, hooks, recording,
                   history, bounds>>

KillChild(s) ==
    /\ closing = s
    /\ closing' = NoSession
    /\ Ends(s)
    /\ UNCHANGED <<app, window, launch, inbox, serving, proc, waiter, journal, hooks,
                   recording, history, bounds>>

-----------------------------------------------------------------------------
(* Child processes and their waiters.                                      *)

\* The child ends by itself, is ended by a signal, or fails.
Exit(l, how) ==
    /\ Up /\ proc[l] \in There
    /\ proc' = [proc EXCEPT ![l] = how]
    /\ UNCHANGED <<app, window, launch, main, live, waiter, held, journal, hooks, recording,
                   history, bounds>>

\* child.wait() has returned: a generation the app has ended stays silent.
WaiterChecks(l) ==
    /\ waiter[l] = "waiting" /\ proc[l] \in Dead
    /\ waiter' = [waiter EXCEPT ![l] = IF live[l] THEN "checked" ELSE "gone"]
    /\ UNCHANGED <<app, window, launch, main, proc, live, held, journal, hooks, recording,
                   history, bounds>>

\* Mutated: The exit of a child is told to the windows and not to the journal.
WaiterCloses_TellsOnly(l) ==
    /\ waiter[l] = "checked"
    /\ waiter' = [waiter EXCEPT ![l] = "closed"]
    /\ UNCHANGED <<app, window, launch, main, proc, live, held, journal, hooks, recording,
                   history, bounds>>

\* on_exit: the journal, and then the windows.
WaiterCloses(l) ==
    /\ waiter[l] = "checked"
    /\ waiter' = [waiter EXCEPT ![l] = "closed"]
    /\ CloseRun(of[l], proc[l], l)
    /\ UNCHANGED <<app, window, launch, main, proc, live, held, record, lost, hooks,
                   recording, history, bounds>>

WaiterTells(l) ==
    /\ waiter[l] = "closed"
    /\ waiter' = [waiter EXCEPT ![l] = "gone"]
    /\ SetState(of[l], proc[l])
    /\ UNCHANGED <<app, launch, main, proc, live, held, journal, hooks, recording, history,
                   bounds>>

-----------------------------------------------------------------------------
(* Hooks: short-lived reporters of a child, one connection each, which the *)
(* listener serves in tasks that nothing orders.  A report names the       *)
(* session and no launch.                                                  *)

Sends(l, says) ==
    /\ Up /\ proc[l] = "alive"
    /\ reports < MaxReports
    /\ reports' = reports + 1
    /\ hooks' = hooks \cup {[session |-> of[l], says |-> w, closed |-> FALSE] : w \in says}
    /\ UNCHANGED <<app, window, launch, main, live, waiter, held, journal, recording,
                   history, stops, toggles, erasures, losses>>

Turn(l) == Sends(l, {"working"}) /\ UNCHANGED proc
\* A conversation cleared away ends, another one starts, in the same child.
Clear(l) == Sends(l, {"ended", "idle"}) /\ UNCHANGED proc
\* The last report of a child about to exit.
Leave(l) == Sends(l, {"ended"}) /\ proc' = [proc EXCEPT ![l] = "leaving"]

\* emit_state: an `ended` report closes the journal's record first.
HookCloses(h) ==
    /\ h \in hooks /\ h.says = "ended" /\ ~h.closed
    /\ hooks' = (hooks \ {h}) \cup {[h EXCEPT !.closed = TRUE]}
    /\ CloseRun(h.session, "ended", NoLaunch)
    /\ UNCHANGED <<app, window, launch, main, child, record, lost, recording, history,
                   bounds>>

HookTells(h) ==
    /\ h \in hooks /\ (h.says = "ended" => h.closed)
    /\ hooks' = hooks \ {h}
    /\ SetState(h.session, h.says)
    /\ UNCHANGED <<app, launch, main, child, journal, recording, history, bounds>>

-----------------------------------------------------------------------------
(* The journal's file and the setting.                                     *)

\* The detached half of a close appends its line, or cannot, and ends.
WriteClose(w) ==
    /\ w \in writers
    /\ writers' = writers \ {w}
    /\ \E gone \in SUBSET {w.run} :
          /\ Misses(gone)
          /\ record' = [record EXCEPT ![w.run] = IF w.run \in gone THEN @
                                                 ELSE Fold(@, w.status)]
    /\ UNCHANGED <<app, window, launch, main, child, open, taken, hooks, recording, history,
                   reports, stops, toggles, erasures>>

Of(l, k) == of[l] # NoSession /\ SkillOf[of[l]] = k

\* Store delete_skill_history reads and folds the file, and refuses while a
\* run of the scenario is going.
EraseReads(k) ==
    /\ Up /\ erasing = NoSkill
    /\ erasures < MaxErasures
    /\ \A l \in Launches : Of(l, k) => record[l] # "running"
    /\ erasing' = k
    /\ seen' = record
    /\ erasures' = erasures + 1
    /\ UNCHANGED <<app, window, launch, main, child, journal, hooks, recording, reports,
                   stops, toggles, losses>>

\* It replaces the file by what it keeps of what it read.
EraseWrites ==
    /\ erasing # NoSkill
    /\ record' = [l \in Launches |-> IF Of(l, erasing) THEN "absent" ELSE seen[l]]
    /\ erasing' = NoSkill
    /\ UNCHANGED <<app, window, launch, main, child, open, writers, taken, lost, hooks,
                   recording, seen, bounds>>

Toggle ==
    /\ Up /\ toggles < MaxToggles
    /\ toggles' = toggles + 1
    /\ recording' = ~recording
    /\ UNCHANGED <<app, window, launch, main, child, journal, hooks, history, reports, stops,
                   erasures, losses>>

-----------------------------------------------------------------------------
(* The app stops: every thread and every map of it is gone, the children   *)
(* are killed or hung up, and the layout holds some of the tiles.          *)

Stop ==
    /\ Up /\ stops < MaxStops
    /\ stops' = stops + 1
    /\ app' = "down"
    /\ \E kept \in SUBSET {s \in Sessions : HasTile(s)} :
          tile' = [s \in Sessions |-> IF s \in kept \/ tile[s] = "saved" THEN "saved"
                                      ELSE "none"]
    /\ button' = [s \in Sessions |-> FALSE]
    /\ start' = [l \in Launches |-> IF start[l] = "unused" THEN "unused" ELSE "heard"]
    /\ inbox' = << >> /\ serving' = NoLaunch /\ closing' = NoSession
    /\ proc' = [l \in Launches |-> IF proc[l] \in There THEN "cut" ELSE proc[l]]
    /\ live' = [l \in Launches |-> FALSE]
    /\ waiter' = [l \in Launches |-> IF waiter[l] = "none" THEN "none" ELSE "gone"]
    /\ held' = [s \in Sessions |-> NoLaunch]
    /\ open' = [s \in Sessions |-> NoLaunch]
    /\ writers' = {} /\ lost' = {} /\ hooks' = {}
    /\ erasing' = NoSkill
    /\ UNCHANGED <<of, replace, record, taken, recording, seen, reports, toggles, erasures,
                   losses>>

\* Mutated: The journal is not swept.
StartApp_Unswept ==
    /\ app = "down"
    /\ app' = "up"
    /\ UNCHANGED <<window, launch, main, child, journal, hooks, recording, history, bounds>>

\* The set-up hook sweeps the journal before anything can launch, but for
\* the records whose line cannot be written (or that it cannot read).
StartApp ==
    /\ app = "down"
    /\ app' = "up"
    /\ \E gone \in SUBSET {l \in Launches : record[l] = "running"} :
          /\ Misses(gone)
          /\ record' = [l \in Launches |-> IF l \in gone THEN record[l]
                                           ELSE Fold(record[l], "interrupted")]
    /\ UNCHANGED <<window, launch, main, child, open, writers, taken, hooks, recording,
                   history, reports, stops, toggles, erasures>>

-----------------------------------------------------------------------------

Serve ==
    \/ \E l \in Launches : \/ RejectStart(l) \/ OpenRecord(l) \/ OpenEntry(l)
                           \/ OpenNothing(l) \/ Displace(l) \/ SpawnChild(l)
                           \/ Hold(l) \/ FailToStart(l)
    \/ \E s \in Sessions : CloseRecord(s) \/ KillChild(s)

Wait(l) == WaiterChecks(l) \/ WaiterCloses(l) \/ WaiterTells(l)

Deck ==
    \/ \E s \in Sessions, l \in Launches : NewTile(s, l) \/ RestoreTile(s, l) \/ Restart(s, l)
    \/ \E s \in Sessions : CloseTile(s)
    \/ \E l \in Launches : Invoke(l) \/ HearsStarted(l) \/ HearsFailed(l)

Children ==
    \E l \in Launches : \/ Turn(l) \/ Clear(l) \/ Leave(l) \/ Wait(l)
                        \/ \E how \in Dead : Exit(l, how)

Listen == \E h \in Reports : HookCloses(h) \/ HookTells(h)

Journal ==
    \/ \E w \in Closes : WriteClose(w)
    \/ \E k \in Skills : EraseReads(k)
    \/ EraseWrites
    \/ Toggle

Next == Deck \/ Serve \/ Children \/ Listen \/ Journal \/ Stop \/ StartApp

Spec == Init /\ [][Next]_vars

\* The main thread serves what it was sent, a waiter whose child is gone runs
\* on, and so does a detached writer.
FairSpec ==
    /\ Spec
    /\ WF_vars(Serve)
    /\ \A l \in Launches : WF_vars(Wait(l))
    /\ \A w \in Closes : WF_vars(WriteClose(w))

-----------------------------------------------------------------------------
(* Properties.                                                             *)

TypeOK ==
    /\ app \in {"up", "down"}
    /\ tile \in [Sessions -> Shown \cup {"none", "saved"}]
    /\ button \in [Sessions -> BOOLEAN]
    /\ of \in [Launches -> Sessions \cup {NoSession}]
    /\ replace \in [Launches -> BOOLEAN]
    /\ start \in [Launches -> Phases]
    /\ inbox \in Seq(Commands)
    /\ serving \in Launches \cup {NoLaunch}
    /\ closing \in Sessions \cup {NoSession}
    /\ proc \in [Launches -> {"none", "cut"} \cup There \cup Dead]
    /\ live \in [Launches -> BOOLEAN]
    /\ waiter \in [Launches -> {"none", "waiting", "checked", "closed", "gone"}]
    /\ held \in [Sessions -> Launches \cup {NoLaunch}]
    /\ open \in [Sessions -> Launches \cup {NoLaunch}]
    /\ record \in [Launches -> {"absent", "running"} \cup Closed]
    /\ writers \subseteq Closes
    /\ taken \subseteq Launches /\ lost \subseteq Launches
    /\ hooks \subseteq Reports
    /\ recording \in BOOLEAN
    /\ erasing \in Skills \cup {NoSkill}
    /\ seen \in [Launches -> {"absent", "running"} \cup Closed]
    /\ reports \in Nat /\ stops \in Nat /\ toggles \in Nat /\ erasures \in Nat
    /\ losses \in Nat

\* At most one child of a session is one the app listens to: a second launch
\* of the same id either ends the first child's generation or is refused
\* (PtyManager spawn).
OneChild ==
    \A l, k \in Launches :
        live[l] /\ live[k] /\ of[l] = of[k] /\ {proc[l], proc[k]} \subseteq There => l = k

\* The entry of open_runs is the guard that keeps a run from being closed
\* twice: whoever takes it is the only one that closes the run, however the
\* hook, the exit, a close and a restart interleave.
TakenOnce ==
    /\ \A s \in Sessions : open[s] # NoLaunch =>
          open[s] \notin taken /\ record[open[s]] \notin Closed
    /\ \A w \in writers : w.run \in taken /\ record[w.run] \notin Closed
    /\ \A v, w \in writers : v.run = w.run => v = w

\* Nothing leaves a record running behind: while the app is up, a run on file
\* as running is open under its session, or a thread is about to write its
\* close, or its launch is still being served, or this process tried to close
\* it and could not write the line (run_journal append warns and goes on: the
\* record is then nobody's until the next sweep).
RunningIsKept ==
    Up => \A l \in Launches : record[l] = "running" =>
        \/ open[of[l]] = l
        \/ \E w \in writers : w.run = l
        \/ serving = l /\ start[l] = "opening"
        \/ l \in lost

\* A record leaves `running` exactly once (runs.rs RunStatus).
LeavesOnce ==
    [][\A l \in Launches : record[l] \in Closed => record'[l] \in {record[l], "absent"}]_vars

\* A run whose child is gone is closed, unless the app stops first or the line
\* that closes it cannot be written.
DeadIsClosed ==
    \A l \in Launches :
        record[l] = "running" /\ proc[l] \in Dead
            ~> record[l] # "running" \/ app = "down" \/ l \in lost

\* A start that failed leaves no record running (run_journal failed_to_start),
\* its own or that of the process it could not replace, but for one that a
\* thread is about to close, or whose closing line could not be written.
FailedIsClosed ==
    \A l \in Launches :
        start[l] = "failed" /\ record[l] = "running" =>
            l \in lost \/ \E w \in writers : w.run = l

-----------------------------------------------------------------------------
(* What comments of the code claim and the code does not keep.             *)

\* pty.rs, of the waiter: it is silent for a generation the app has ended, so
\* that an exit arriving after a replacement leaves the new session alone.
OwnExitOnly == \A w \in writers : w.by # NoLaunch => w.run = w.by

\* runs.rs, of `Ended`: the process finished, or the person closed the tile.
EndedIsOver ==
    \A l \in Launches : record[l] = "ended" => proc[l] # "alive" \/ tile[of[l]] = "none"

\* sessions.ts interruptedTurn: `ended` must never be walked back.  With
\* nothing under way, the tile of a child that is gone says so.
Quiet(s) ==
    /\ \A l \in Launches : of[l] = s =>
          start[l] \in {"unused", "heard"} /\ waiter[l] \in {"none", "gone"}
    /\ \A h \in hooks : h.session # s
DeadTileSaysSo ==
    \A s \in Sessions :
        HasTile(s) /\ Quiet(s) /\ (\A l \in Launches : of[l] = s => proc[l] \notin There)
            => tile[s] \in Dead

\* pty.rs kill, which is what closing a tile comes to: it ends a session and
\* everything it started.
ClosedIsKilled ==
    \A l \in Launches :
        proc[l] = "alive" /\ live[l] /\ start[l] = "heard" /\ tile[of[l]] = "none"
            => closing = of[l] \/ \E i \in 1 .. Len(inbox) : inbox[i] = <<"close", of[l]>>

\* run_journal close: the line may land a moment later, which costs nothing.
\* A run somebody closed is not found running, and swept, at the next start.
SweptWasOpen == \A l \in Launches : record[l] = "interrupted" => l \notin taken

\* run_journal failed_to_start: "closing it here ... is what keeps a failed
\* launch from reading as `running` until the next startup relabels it".
\* Refuted where a line cannot be written: nobody tries again.
FailedIsNotRunning ==
    \A l \in Launches :
        start[l] = "failed" /\ record[l] = "running" => \E w \in writers : w.run = l

=============================================================================
