----------------------------- MODULE Scheduler -----------------------------
(***************************************************************************)
(* Scheduled scenarios: the backend loop that decides what is due, the     *)
(* window that launches it, and the acknowledgement that comes back.       *)
(*                                                                         *)
(* Source: src-tauri/src/scheduler.rs (decide, apply_ack, run),            *)
(* commands.rs schedule_ack, store.rs schedule_state, and the window's     *)
(* handler in src/app.ts and src/sessions.ts.                              *)
(*                                                                         *)
(* The loop and schedule_ack both read the whole of schedule_state.json,   *)
(* change it in memory and write it back.  schedule_ack holds the AppState *)
(* store lock; the loop opens a Store of its own and holds nothing, so the *)
(* two read-modify-writes interleave: each is two steps here.  Deciding    *)
(* and emitting are one step with the read: what the loop holds in between *)
(* is private to it.                                                       *)
(*                                                                         *)
(* Time: `clock` counts instants (epoch milliseconds); rules are about the *)
(* local wall clock, instant + Offset[instant], as in chrono::Local.       *)
(***************************************************************************)
EXTENDS Integers, FiniteSets, FiniteSetsExt

CONSTANTS Skills,    \* scenarios
          Rules,     \* SchedulePreset values, by fingerprint
          Due,       \* Due[r]: the local times a rule fires at
          Horizon,   \* bound: the last instant
          StartAt,   \* the first instant of the clock
          Offset,    \* Offset[i]: local time minus UTC at instant i
          NoRecord,  \* no entry in schedule_state.json
          NoRule,    \* a record whose `preset` is cleared
          Never,     \* no `lastRun`
          MaxEdits,  \* bound: schedule edits
          MaxStops,  \* bound: times the process stops
          MaxFaults, \* bound: failed reads and writes of the state file
          MaxAcks    \* bound: acks that reach the backend

Instants == 0..Horizon
Off  == "off"    \* the schedule is switched off or removed
Gone == "gone"   \* the scenario is deleted

ASSUME TimeAssumption ==
    /\ Horizon \in Nat /\ StartAt \in Instants
    /\ Offset \in [Instants -> Int]
    /\ Due \in [Rules -> SUBSET Int]
ASSUME DueAssumption ==
    \* a rule has fired at some time in the past, whatever the clock says
    \A r \in Rules, i \in StartAt..Horizon : \E t \in Due[r] : t <= i + Offset[i]
ASSUME ClockAssumption ==
    \* what to_epoch_ms makes of an occurrence is on the horizon
    \A r \in Rules : \A t \in Due[r] :
        t \in Instants \/ \E i \in Instants : i + Offset[i] = t
ASSUME NamesAssumption ==
    /\ Off \notin Rules /\ Gone \notin Rules /\ NoRule \notin Rules
    /\ Never \notin Int

\* ScheduleState of a scenario, and schedule_state.json as a map of them.
Records == [attempt : Instants, ran : Instants \cup {Never},
            outcome : {"none", "launched", "refused"},
            rule : Rules \cup {NoRule}]
Maps    == [Skills -> Records \cup {NoRecord}]

ASSUME NoRecordAssumption == NoRecord \notin Records

VARIABLES
    clock,    \* the instant it is
    rule,     \* skills.json: each scenario's rule, Off or Gone
    disk,     \* schedule_state.json
    loop,     \* "waiting" for the window, "idle" between ticks, "saving"
    view,     \* what the tick in progress will write: <<map>> or <<>>
    fires,    \* schedule://fire events the window has not handled
    acks,     \* schedule_ack calls on their way: [skill, at, outcome]
    acking,   \* what schedule_ack is about to write: <<map>> or <<>>
    tile,     \* state of the scenario's tile in the window
    broken,   \* the last write of the loop failed
    \* ghosts
    fired,    \* <<skill, rule, local time>> fired, but for an interrupted tick
    twice,    \* those fired again
    emits,    \* those the tick in progress fired
    lost,     \* scenarios whose record was misread, or set back on disk
    armed,    \* skill -> <<rule the last tick saw, local time it was new>>
    noted,    \* the same for the tick in progress
    launched, \* <<skill, instant>> the window opened a tile for
    started,  \* <<skill, instant>> whose session really started
    edits, stops, faults, sent   \* counters behind the bounds

file    == <<rule, disk>>
tick    == <<loop, view, broken>>
window  == <<fires, acks, tile, launched, started, sent>>
ghosts  == <<fired, twice, emits, lost, armed, noted>>
vars    == <<clock, file, tick, window, acking, ghosts, edits, stops, faults>>

-----------------------------------------------------------------------------
(* Local time.                                                             *)

Local(i)     == i + Offset[i]
now          == Local(clock)
PrevOcc(r, t) == Max({o \in Due[r] : o <= t})

\* to_epoch_ms: the earliest instant with that wall clock; a wall clock that a
\* spring-forward skips is read as if it were UTC.
ToEpoch(t) ==
    LET at == {i \in Instants : Local(i) = t}
    IN  IF at # {} THEN Min(at) ELSE t
FromEpoch(ms) == Local(ms)

-----------------------------------------------------------------------------
(* The decisions of the code.  A definition with a suffix (Fires_NotSame   *)
(* beside Fires) is a plausible wrong form of it, used by no action.       *)

Record(at, ran, outcome, r) ==
    [attempt |-> at, ran |-> ran, outcome |-> outcome, rule |-> r]
Empty == [s \in Skills |-> NoRecord]

\* decide(): a record made under another rule, or none, owes nothing yet.
Arms_Unfingerprinted(e, r) == e = NoRecord
Arms(e, r) == e = NoRecord \/ e.rule # r

\* decide(): an occurrence later than the last one attempted is owed.
Fires_OnTimeOnly(e, r) ==
    /\ ~ Arms(e, r)
    /\ PrevOcc(r, now) = now /\ FromEpoch(e.attempt) < now
Fires_Again(e, r)   == ~ Arms(e, r) /\ FromEpoch(e.attempt) <= PrevOcc(r, now)
Fires(e, r) == ~ Arms(e, r) /\ FromEpoch(e.attempt) < PrevOcc(r, now)

\* The loop on a schedule that is off: forget the rule, keep the history.
Cleared(e) == IF e = NoRecord THEN e ELSE [e EXCEPT !.rule = NoRule]

\* What a tick makes of one scenario's record e under the rule r it read.
RanOf(e)     == IF e = NoRecord THEN Never ELSE e.ran
OutcomeOf(e) == IF e = NoRecord THEN "none" ELSE e.outcome
Visited(e, r) ==
    LET at == ToEpoch(PrevOcc(r, now))
    IN  CASE r = Gone -> NoRecord
          [] r = Off  -> Cleared(e)
          [] r \in Rules /\ Arms(e, r)  -> Record(at, RanOf(e), OutcomeOf(e), r)
          [] r \in Rules /\ Fires(e, r) -> Record(at, RanOf(e), "none", r)
          [] OTHER -> e

\* apply_ack(): what an accepted ack makes of the record, and which it accepts.
Acked_AnyOutcome(e, m) == [e EXCEPT !.ran = m.at, !.outcome = m.outcome]
Acked(e, m) ==
    [e EXCEPT !.ran = IF m.outcome = "launched" THEN m.at ELSE @,
              !.outcome = m.outcome]
Accepts(e, m) == e # NoRecord /\ e.attempt = m.at

\* The part of a record decide() goes by.
SameGate(e, f) ==
    \/ e = f
    \/ /\ e # NoRecord /\ f # NoRecord
       /\ e.attempt = f.attempt /\ e.rule = f.rule

\* What a tick saw of a scenario: kept with the local time it became that.
Noted(s) ==
    IF rule[s] = armed[s][1] THEN armed[s] ELSE <<rule[s], now>>

-----------------------------------------------------------------------------
Init ==
    /\ clock = StartAt
    /\ rule \in [Skills -> Rules]
    /\ disk = Empty
    /\ loop = "waiting" /\ view = <<>> /\ broken = FALSE
    /\ fires = {} /\ acks = {} /\ acking = <<>>
    /\ tile = [s \in Skills |-> "none"]
    /\ fired = {} /\ twice = {} /\ emits = {} /\ lost = {}
    /\ armed = [s \in Skills |-> <<Off, 0>>] /\ noted = armed
    /\ launched = {} /\ started = {}
    /\ edits = 0 /\ stops = 0 /\ faults = 0 /\ sent = 0

\* Time passes.
Advance ==
    /\ clock < Horizon
    /\ clock' = clock + 1
    /\ UNCHANGED <<file, tick, window, acking, ghosts, edits, stops, faults>>

\* A person sets, switches off or deletes a schedule: skills.json only.
EditSchedule(s, r) ==
    /\ edits < MaxEdits
    /\ rule[s] # Gone /\ rule[s] # r
    /\ rule' = [rule EXCEPT ![s] = r]
    /\ edits' = edits + 1
    /\ UNCHANGED <<clock, disk, tick, window, acking, ghosts, stops, faults>>

-----------------------------------------------------------------------------
(* The loop.                                                               *)

\* scheduler_ready: the window's listener is attached, the first tick is due.
WindowReady ==
    /\ loop = "waiting"
    /\ loop' = "idle"
    /\ UNCHANGED <<clock, file, view, broken, window, acking, ghosts, edits,
                   stops, faults>>

\* One tick up to its write: read both files, decide, emit.  An unreadable
\* skills.json skips the tick; an unreadable state file is an empty map.
Tick ==
    /\ loop = "idle"
    /\ loop' = "saving"
    /\ \E map \in {disk, Empty} :
         LET owed == {s \in Skills : rule[s] \in Rules /\ Fires(map[s], rule[s])}
             next == [s \in Skills |-> Visited(map[s], rule[s])]
         IN  /\ map # disk => faults < MaxFaults
             /\ faults' = faults + (IF map = disk THEN 0 ELSE 1)
             /\ lost' = lost \cup {s \in Skills : map[s] # disk[s]}
             /\ view' = IF owed # {} \/ next # map THEN <<next>> ELSE <<>>
             /\ emits' = {<<s, rule[s], PrevOcc(rule[s], now)>> : s \in owed}
    /\ fires' = fires \cup {<<e[1], ToEpoch(e[3])>> : e \in emits'}
    /\ fired' = fired \cup emits'
    /\ twice' = twice \cup (emits' \cap fired)
    /\ noted' = [s \in Skills |-> Noted(s)]
    /\ UNCHANGED <<clock, file, broken, acks, tile, launched, started, sent,
                   acking, armed, edits, stops>>

\* save_schedule_state writes the whole map, if the tick changed anything.
Save ==
    /\ loop = "saving"
    /\ loop' = "idle"
    /\ view' = <<>> /\ emits' = {}
    /\ \/ /\ view = <<>>
          /\ UNCHANGED <<disk, broken, lost, faults>> /\ armed' = noted
       \/ /\ view # <<>>
          /\ disk' = view[1] /\ broken' = FALSE
          /\ UNCHANGED <<lost, faults>> /\ armed' = noted
       \/ /\ view # <<>> /\ faults < MaxFaults
          /\ faults' = faults + 1 /\ broken' = TRUE
          /\ lost' = lost \cup {s \in Skills : ~ SameGate(disk[s], view[1][s])}
          /\ UNCHANGED <<disk, armed>>
    /\ UNCHANGED <<clock, rule, window, acking, fired, twice, noted, edits,
                   stops>>

-----------------------------------------------------------------------------
(* The main window.                                                        *)

\* The window answers a fire; the call may not get through.
Answer(f, outcome) ==
    /\ fires' = fires \ {f}
    /\ \/ /\ sent < MaxAcks
          /\ acks' = acks \cup
                 {[skill |-> f[1], at |-> f[2], outcome |-> outcome]}
          /\ sent' = sent + 1
       \/ UNCHANGED <<acks, sent>>

\* handleScheduledFire refuses: switched off meanwhile, no workspace to run
\* in, or shouldSkipOverlap: the previous run is still active.
Refuse(f) ==
    /\ f \in fires
    /\ Answer(f, "refused")
    /\ UNCHANGED <<clock, file, tick, tile, launched, started, acking, ghosts,
                   edits, stops, faults>>

\* launchScheduled replaces a tile that is not active; spawnTile shows a
\* failed start in the tile and returns all the same, so the outcome is
\* "launched" whether or not the session started.
Launch(f) ==
    /\ f \in fires
    /\ rule[f[1]] \in Rules
    /\ tile[f[1]] # "working"
    /\ Answer(f, "launched")
    /\ launched' = launched \cup {f}
    /\ \/ /\ tile' = [tile EXCEPT ![f[1]] = "idle"]
          /\ started' = started \cup {f}
       \/ /\ tile' = [tile EXCEPT ![f[1]] = "error"]
          /\ UNCHANGED started
    /\ UNCHANGED <<clock, file, tick, acking, ghosts, edits, stops, faults>>

\* The status events of a scheduled session: it works, it comes to rest.
TileMoves(s, from, to) ==
    /\ tile[s] = from
    /\ tile' = [tile EXCEPT ![s] = to]
    /\ UNCHANGED <<clock, file, tick, fires, acks, launched, started, sent,
                   acking, ghosts, edits, stops, faults>>

-----------------------------------------------------------------------------
(* schedule_ack, on the main thread: one at a time.                        *)

\* It reads the map; an ack that matches no pending attempt is dropped.
AckReads(m) ==
    /\ m \in acks
    /\ acking = <<>>
    /\ acks' = acks \ {m}
    /\ acking' = IF Accepts(disk[m.skill], m)
                 THEN <<[disk EXCEPT ![m.skill] = Acked(@, m)]>>
                 ELSE <<>>
    /\ UNCHANGED <<clock, file, tick, fires, tile, launched, started, sent,
                   ghosts, edits, stops, faults>>

\* It writes the whole map back, or fails.
AckWrites ==
    /\ acking # <<>>
    /\ acking' = <<>>
    /\ \/ /\ disk' = acking[1]
          /\ lost' = lost \cup {s \in Skills : ~ SameGate(disk[s], disk'[s])}
          /\ UNCHANGED faults
       \/ /\ faults < MaxFaults /\ faults' = faults + 1
          /\ UNCHANGED <<disk, lost>>
    /\ UNCHANGED <<clock, rule, tick, window, fired, twice, emits, armed, noted,
                   edits, stops>>

-----------------------------------------------------------------------------
\* The process stops: what is on its way is lost with the sessions it started.
Stop ==
    /\ stops < MaxStops
    /\ stops' = stops + 1
    /\ loop' = "waiting" /\ view' = <<>> /\ broken' = FALSE
    /\ fires' = {} /\ acks' = {} /\ acking' = <<>>
    /\ tile' = [s \in Skills |-> "none"]
    /\ fired' = fired \ emits
    /\ emits' = {}
    /\ UNCHANGED <<clock, file, launched, started, sent, twice, lost, armed,
                   noted, edits, faults>>

Next ==
    \/ Advance \/ WindowReady \/ Tick \/ Save \/ AckWrites \/ Stop
    \/ \E s \in Skills : \/ \E r \in Rules \cup {Off, Gone} : EditSchedule(s, r)
                         \/ TileMoves(s, "idle", "working")
                         \/ TileMoves(s, "working", "idle")
    \/ \E f \in fires : Refuse(f) \/ Launch(f)
    \/ \E m \in acks : AckReads(m)

Spec == Init /\ [][Next]_vars

\* The loop ticks at least every TICK_CAP and a tick runs to its end.
FairSpec == Spec /\ WF_vars(Tick) /\ WF_vars(Save)

-----------------------------------------------------------------------------
(* Properties.                                                             *)

TypeOK ==
    /\ clock \in Instants
    /\ rule \in [Skills -> Rules \cup {Off, Gone}]
    /\ disk \in Maps
    /\ loop \in {"waiting", "idle", "saving"}
    /\ view = <<>> \/ view[1] \in Maps
    /\ broken \in BOOLEAN
    /\ fires \subseteq Skills \X Instants
    /\ acks \subseteq [skill : Skills, at : Instants,
                       outcome : {"launched", "refused"}]
    /\ acking = <<>> \/ acking[1] \in Maps
    /\ tile \in [Skills -> {"none", "idle", "working", "error"}]

\* decide(): whatever is edited, however often the app stops and whichever
\* acks arrive, an occurrence is fired a second time only for a scenario whose
\* record a failed read or write, or an ack's stale write, took from the loop.
FiredAgainOnlyIfLost == \A x \in twice : x[1] \in lost

\* decide(): "a changed or resumed rule owes nothing yet": what fires is later
\* than the last time a tick saw that scenario under another rule, or off,
\* unless its record was misread or set back.
FiresOnlySinceArmed ==
    \A e \in emits :
        \/ e[2] = armed[e[1]][1] /\ e[3] > armed[e[1]][2]
        \/ e[1] \in lost

\* decide(): "an occurrence is attempted at most once".  Refuted: schedule_ack
\* writes back the map it read before the loop recorded its attempt; and, with
\* no ack at all, a wall clock skipped in spring is stored as an instant that
\* reads back as an earlier one, so each tick fires it again.
AtMostOnce == twice = {}

\* apply_ack: `lastRun` names an occurrence the window opened a tile for, in
\* spite of late, lost and refused acks and of both writers of the file.
LastRunWasLaunched ==
    \A s \in Skills :
        disk[s] # NoRecord /\ disk[s].ran # Never => <<s, disk[s].ran>> \in launched

\* commands.rs schedule_ack: lastRun "mean[s] a session really started".
\* Refuted: spawnTile swallows a failed start and the ack says "launched".
LastRunMeansStarted ==
    \A s \in Skills :
        disk[s] # NoRecord /\ disk[s].ran # Never => <<s, disk[s].ran>> \in started

\* scheduler.rs run, on a failed write: "every schedule is re-armed forever and
\* nothing ever fires".  Refuted: the record on disk stays behind the
\* occurrence, so every tick fires it again.
BrokenFiresNothing == [][broken => fired' = fired /\ twice' = twice]_vars

\* commands.rs schedule_ack: the loop records only its attempt, the outcome is
\* the ack's.  Refuted: the loop writes back the outcome it read before.
AckSticks ==
    [][\A s \in Skills :
         /\ disk[s] # NoRecord /\ disk'[s] # NoRecord
         /\ disk[s].attempt = disk'[s].attempt
         /\ disk[s].ran = disk[s].attempt
         => disk'[s].ran = disk[s].ran]_vars

\* The loop: an occurrence that comes due under a rule a tick has armed is
\* fired, late if the ticks in between were missed, unless a later one is, the
\* rule changes, the process stops or the state file fails.
DueIsFired ==
    \A s \in Skills, r \in Rules : \A o \in Due[r] :
        (/\ rule[s] = r /\ armed[s][1] = r /\ armed[s][2] < o
         /\ o <= now /\ loop # "waiting")
            ~> \/ \E p \in Due[r] : p >= o /\ <<s, r, p>> \in fired
               \/ rule[s] # r \/ armed[s][1] # r
               \/ loop = "waiting" \/ faults > 0

=============================================================================
