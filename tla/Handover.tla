------------------------------ MODULE Handover ------------------------------
(***************************************************************************)
(* A workspace moves between two windows: the main one and one of its own. *)
(* Who may write to a session (ownership.rs), who has announced itself     *)
(* (windows.rs), where its output goes (pty.rs), which tiles a window draws *)
(* (sessions.ts, app.ts) and who restores it (store.rs, sessions.json).     *)
(*                                                                         *)
(* Every session is one of the workspace's.  Messages reach a webview in   *)
(* the order they were emitted; commands of one window are served in the   *)
(* order it sent them; claim_session runs on a thread of its own.          *)
(***************************************************************************)
EXTENDS Sequences, Naturals

CONSTANTS Main, Other,   \* the labels: "main" and "workspace-<id>"
          Sessions,
          Commands,      \* those that run a shell command and not an agent
          Nobody,
          MaxOpens, MaxQuits, MaxDirty,
          Modes          \* what a person does, chosen once: see Init

ASSUME CommandsAssumption == Commands \subseteq Sessions
ASSUME LabelsAssumption == Main # Other /\ Nobody \notin {Main, Other}
ASSUME BoundsAssumption == MaxOpens \in Nat /\ MaxQuits \in Nat /\ MaxDirty \in Nat

Windows == {Main, Other}

VARIABLES
  owner,   \* SessionOwners: who may write to the session
  sink,    \* the far end of the session's output
  running, \* the sessions PtyManager holds: until they are closed
  ended,   \* those whose process is gone
  ready,   \* WindowReady: the labels that announced themselves
  win,     \* of the other window: down, built, listening, booted, leaving
  opening, \* open_workspace_window is waiting for the announcement
  ears,    \* the windows whose hand-off listeners are registered
  tiles,   \* what each window draws
  over,    \* the tiles that say their session is over
  mail,    \* events emitted to a window and not yet handled
  job,     \* sessions of a hand-off the window has yet to take
  claim,   \* claim_session of a window for a session
  saves,   \* save_layout calls under way
  memo,    \* savedLayout: what the window believes it saved
  layout,  \* sessions.json: pairs of a session and the label that restores it
  fresh,   \* sessions nobody started yet
  stranded, \* left by a window that could not hand them back, and not claimed since
  opens, quits, dirty, mode

backend == <<owner, sink, running, ended>>
window == <<ready, win, opening, ears>>
frontend == <<tiles, over, mail, job, claim>>
disk == <<saves, memo, layout>>
bounds == <<opens, quits, dirty, mode, stranded>>
vars == <<backend, window, frontend, disk, fresh, bounds>>

Take(set) == [kind |-> "take", tiles |-> set]
OwnerIs(s, w) == [kind |-> "owner", session |-> s, owner |-> w]
Over(s) == [kind |-> "exit", session |-> s]

Messages == [kind : {"take"}, tiles : SUBSET Sessions]
            \cup [kind : {"owner"}, session : Sessions, owner : Windows]
            \cup [kind : {"exit"}, session : Sessions]

Alive(w) == w = Main \/ win # "down"
Listens(w) == w = Main \/ win \in {"listening", "booted", "leaving"}

\* Nothing of a hand-off is under way.
Quiet ==
  /\ ~ opening /\ win \in {"down", "booted"} /\ (win = "booted" => Other \in ready)
  /\ \A w \in Windows :
       /\ mail[w] = <<>> /\ job[w] = {} /\ saves[w] = <<>>
       /\ \A s \in Sessions : claim[w][s] = "no"

TypeOK ==
  /\ owner \in [Sessions -> Windows \cup {Nobody}]
  /\ sink \in [Sessions -> Windows \cup {Nobody}]
  /\ running \subseteq Sessions /\ ended \subseteq running /\ fresh \subseteq Sessions /\ fresh \cap running = {}
  /\ ready \subseteq {Other}
  /\ win \in {"down", "built", "listening", "booted", "leaving"}
  /\ opening \in BOOLEAN /\ ears \subseteq Windows /\ stranded \subseteq Sessions
  /\ tiles \in [Windows -> SUBSET Sessions] /\ over \in [Windows -> SUBSET Sessions]
  /\ mail \in [Windows -> Seq(Messages)]
  /\ job \in [Windows -> SUBSET Sessions]
  /\ claim \in [Windows -> [Sessions -> {"no", "asked", "retargeted", "done", "refused"}]]
  /\ saves \in [Windows -> Seq(SUBSET Sessions)] /\ memo \in [Windows -> SUBSET Sessions]
  /\ layout \subseteq Sessions \X Windows
  /\ opens \in 0 .. MaxOpens /\ quits \in 0 .. MaxQuits /\ dirty \in 0 .. MaxDirty

(* The deck is up with one session, an agent's.  `hasty`: windows are opened
   and closed, and tiles closed, while a hand-off is under way; `renames`: a
   name changes then, so a layout is saved for its sake; `agents`: no shell
   command is started in the other window; `ends`: a process may end of itself;
   `prompt`: the old window has released a session, and its save has landed,
   before the next is taken; `starts`: what may be started; `deaf`: the windows
   whose hand-off listeners may fail to register, which is logged and no more. *)
Init ==
  /\ mode \in Modes
  /\ \E s \in Sessions \ Commands :
       /\ running = {s} /\ fresh = Sessions \ {s}
       /\ owner = [x \in Sessions |-> IF x = s THEN Main ELSE Nobody]
       /\ sink = owner
       /\ tiles = [w \in Windows |-> IF w = Main THEN {s} ELSE {}]
       /\ memo = tiles /\ layout = {<<s, Main>>}
  /\ ended = {} /\ over = [w \in Windows |-> {}]
  /\ ready = {} /\ win = "down" /\ opening = FALSE
  /\ ears = {Main} \ mode.deaf /\ stranded = {}
  /\ mail = [w \in Windows |-> <<>>] /\ job = [w \in Windows |-> {}]
  /\ claim = [w \in Windows |-> [s \in Sessions |-> "no"]]
  /\ saves = [w \in Windows |-> <<>>]
  /\ opens = 0 /\ quits = 0 /\ dirty = 0

\* Events to a window that is not listening reach nobody: an exit has a
\* listener of its own, a hand-over and an owner those of the hand-off.
Reaches(w, m) == IF m.kind = "exit" THEN Listens(w) ELSE w \in ears

Emit(w, m) == IF Reaches(w, m) THEN [mail EXCEPT ![w] = Append(@, m)] ELSE mail

\* handOffPayload: the agents' tiles; a payload with none is not sent
HandedOff(from, to) ==
  LET payload == tiles[from] \ Commands
  IN mail' = IF payload = {} THEN mail ELSE Emit(to, Take(payload))

\* detachWorkspace: a payload that cannot be sent is reported, and stays here.
Offered == HandedOff(Main, Other) \/ UNCHANGED mail

\* onCloseRequested: the window goes, also when what it draws could not be sent.
Leaves ==
  /\ win' = "leaving"
  /\ \/ HandedOff(Other, Main) /\ UNCHANGED stranded
     \/ UNCHANGED mail /\ stranded' = stranded \cup (tiles[Other] \ Commands)

\* What a window sends next is served after the saves it sent before.
Served(w) == saves[w] = <<>>
Prompt == mode.prompt => \A w \in Windows : Served(w) /\ mail[w] = <<>>

(* persistLayout: a list equal to the last one saved is not sent.  The memo
   is set when the save resolves, and lists of windows that are gone are
   still served. *)
Saved(t) == t \ Commands

Persist(w, t) ==
  saves' = IF Saved(t) = memo[w] THEN saves ELSE [saves EXCEPT ![w] = Append(@, Saved(t))]

-----------------------------------------------------------------------------
(* open_workspace_window, and detachWorkspace around it. *)

Person(calm) == mode.hasty \/ calm

ForgottenLate(label) == ready

\* Readiness is a label's, and the next window of that label has its own to earn.
Forgotten(label) == ready \ {label}

DetachNew ==
  /\ Person(Quiet) /\ win = "down" /\ ~ opening
  /\ opens < MaxOpens /\ opens' = opens + 1
  /\ ready' = Forgotten(Other)
  /\ win' = "built" /\ opening' = TRUE
  /\ UNCHANGED <<backend, ears, frontend, disk, fresh, quits, dirty, mode, stranded>>

\* The window is up already: raised, and its label returned at once.
DetachExisting ==
  /\ Person(Quiet) /\ win # "down"
  /\ opens < MaxOpens /\ opens' = opens + 1
  /\ Offered
  /\ UNCHANGED <<backend, window, tiles, over, job, claim, disk, fresh, quits, dirty, mode, stranded>>

\* handOffListeners: a registration that fails is caught, and the start goes on.
Listen ==
  /\ win = "built" /\ win' = "listening"
  /\ ears' = ears \cup {Other} \/ (Other \in mode.deaf /\ UNCHANGED ears)
  /\ UNCHANGED <<backend, ready, opening, frontend, disk, fresh, bounds>>

(* load_layout and restore: the entries under this label get a tile, and a
   process where none is held: spawn refuses an id that is, and the tile says so.
   A start that fails ends here all the same, with nothing restored. *)
Restores(w) == {s \in Sessions : <<s, w>> \in layout}

Boot ==
  /\ win = "listening" /\ win' = "booted"
  /\ \E mine \in {Restores(Other), {}} :
       LET started == mine \ running
       IN /\ tiles' = [tiles EXCEPT ![Other] = @ \cup mine]
          /\ over' = [over EXCEPT ![Other] = @ \cup (mine \ started)]
          /\ running' = running \cup started
          /\ owner' = [s \in Sessions |-> IF s \in started THEN Other ELSE owner[s]]
          /\ sink' = [s \in Sessions |-> IF s \in started THEN Other ELSE sink[s]]
          /\ IF mine = {} THEN saves' = saves ELSE Persist(Other, tiles[Other] \cup mine)
  /\ UNCHANGED <<ended, ready, opening, ears, mail, job, claim, memo, layout, fresh, bounds>>

\* In a `finally`: whatever became of the start.
Announce ==
  /\ win = "booted" /\ Other \notin ready /\ Served(Other)
  /\ ready' = ready \cup {Other}
  /\ UNCHANGED <<backend, win, opening, ears, frontend, disk, fresh, bounds>>

OpenReturns ==
  /\ opening /\ Other \in ready
  /\ opening' = FALSE
  /\ Offered
  /\ UNCHANGED <<backend, ready, win, ears, tiles, over, job, claim, disk, fresh, bounds>>

\* Destroyed: readiness and ownership are forgotten, the webview is gone.
Gone ==
  /\ win' = "down" /\ ears' = ears \ {Other}
  /\ ready' = Forgotten(Other)
  /\ owner' = [s \in Sessions |-> IF owner[s] = Other THEN Nobody ELSE owner[s]]
  /\ tiles' = [tiles EXCEPT ![Other] = {}] /\ over' = [over EXCEPT ![Other] = {}]
  /\ job' = [job EXCEPT ![Other] = {}]
  /\ memo' = [memo EXCEPT ![Other] = {}]

OpenTimesOutIfUp ==
  /\ opening /\ Other \notin ready /\ win # "built"
  /\ opening' = FALSE
  /\ UNCHANGED <<backend, ready, win, ears, frontend, disk, fresh, bounds>>

\* Not ready in time: the window is asked to close and the caller is told.
OpenTimesOut ==
  /\ opening /\ Other \notin ready
  /\ opening' = FALSE
  /\ \/ /\ win = "built" /\ Gone
        /\ mail' = [mail EXCEPT ![Other] = <<>>]
        /\ UNCHANGED <<sink, running, ended, claim, saves, layout, stranded>>
     \/ /\ win \in {"listening", "booted"} /\ Served(Other)
        /\ Leaves
        /\ UNCHANGED <<backend, ready, ears, tiles, over, job, claim, disk>>
     \/ /\ win \in {"down", "leaving"}
        /\ UNCHANGED <<backend, ready, win, ears, frontend, disk, stranded>>
  /\ UNCHANGED <<fresh, opens, quits, dirty, mode>>

HandBackNothing ==
  /\ Person(Quiet) /\ win = "booted" /\ Other \in ready /\ Served(Other)
  /\ win' = "leaving"
  /\ UNCHANGED <<backend, ready, opening, ears, frontend, disk, fresh, bounds>>

(* Closing the window, or returning its workspace: what it draws is handed
   back, then it is destroyed.  (A return that cannot be sent changes nothing.) *)
HandBack ==
  /\ Person(Quiet) /\ win = "booted" /\ Other \in ready /\ Served(Other)
  /\ Leaves
  /\ UNCHANGED <<backend, ready, opening, ears, tiles, over, job, claim, disk, fresh>>
  /\ UNCHANGED <<opens, quits, dirty, mode>>

Destroyed ==
  /\ win = "leaving" /\ Served(Other) /\ Gone
  /\ mail' = [mail EXCEPT ![Other] = <<>>]
  /\ UNCHANGED <<sink, running, ended, opening, claim, saves, layout, fresh, bounds>>

-----------------------------------------------------------------------------
(* The receiving window, and the one that gives up. *)

\* releaseTile: a session another window owns is no longer drawn here.
Receive(w) ==
  /\ mail[w] # <<>> /\ Listens(w)
  /\ mail' = [mail EXCEPT ![w] = Tail(@)]
  /\ LET m == Head(mail[w]) IN
     \/ /\ m.kind = "take"
        /\ job' = [job EXCEPT ![w] = @ \cup m.tiles]
        /\ UNCHANGED <<tiles, over, saves>>
     \/ /\ m.kind = "owner"
        /\ IF m.owner # w /\ m.session \in tiles[w]
           THEN /\ tiles' = [tiles EXCEPT ![w] = @ \ {m.session}]
                /\ over' = [over EXCEPT ![w] = @ \ {m.session}]
                /\ Persist(w, tiles[w] \ {m.session})
           ELSE UNCHANGED <<tiles, over, saves>>
        /\ UNCHANGED job
     \/ /\ m.kind = "exit"
        /\ over' = [over EXCEPT ![w] = @ \cup ({m.session} \cap tiles[w])]
        /\ UNCHANGED <<tiles, job, saves>>
  /\ UNCHANGED <<backend, window, claim, memo, layout, fresh, bounds>>

(* receive: one after another, each once the claim before it has returned; a
   session that has a tile here is not this message's to take.  A new tile
   says its session is idle, whatever the one it replaces said. *)
TakeTile(w, s) ==
  /\ s \in job[w] /\ Alive(w) /\ Served(w) /\ Prompt
  /\ \A x \in Sessions : claim[w][x] = "no"
  /\ job' = [job EXCEPT ![w] = @ \ {s}]
  /\ IF s \in tiles[w]
     THEN UNCHANGED <<tiles, claim>>
     ELSE /\ tiles' = [tiles EXCEPT ![w] = @ \cup {s}]
          /\ claim' = [claim EXCEPT ![w][s] = "asked"]
  /\ UNCHANGED <<backend, window, over, mail, disk, fresh, bounds>>

\* claim_session: the output first; an id nothing is held under is refused
ClaimRetargets(w, s) ==
  /\ claim[w][s] = "asked"
  /\ IF s \in running
     THEN sink' = [sink EXCEPT ![s] = w] /\ claim' = [claim EXCEPT ![w][s] = "retargeted"]
     ELSE UNCHANGED sink /\ claim' = [claim EXCEPT ![w][s] = "refused"]
  /\ UNCHANGED <<owner, running, ended, window, tiles, over, mail, job, disk, fresh, bounds>>

ClaimRecordsQuietly(w, s) ==
  /\ claim[w][s] = "retargeted"
  /\ owner' = [owner EXCEPT ![s] = w]
  /\ claim' = [claim EXCEPT ![w][s] = "done"]
  /\ stranded' = stranded \ {s}
  /\ UNCHANGED <<sink, running, ended, window, tiles, over, mail, job, disk, fresh>>
  /\ UNCHANGED <<opens, quits, dirty, mode>>

\* then the owner, and every other window hears of it
ClaimRecords(w, s) ==
  /\ claim[w][s] = "retargeted"
  /\ owner' = [owner EXCEPT ![s] = w]
  /\ mail' = [x \in Windows |-> IF x # w THEN Emit(x, OwnerIs(s, w))[x] ELSE mail[x]]
  /\ claim' = [claim EXCEPT ![w][s] = "done"]
  /\ stranded' = stranded \ {s}
  /\ UNCHANGED <<sink, running, ended, window, tiles, over, job, disk, fresh>>
  /\ UNCHANGED <<opens, quits, dirty, mode>>

ClaimReturnsUnsaved(w, s) ==
  /\ claim[w][s] \in {"done", "refused"}
  /\ claim' = [claim EXCEPT ![w][s] = "no"]
  /\ UNCHANGED <<backend, window, tiles, over, mail, job, disk, fresh, bounds>>

\* The rest of spawnTile, if its window is still there to run it.
ClaimReturns(w, s) ==
  /\ claim[w][s] \in {"done", "refused"}
  /\ claim' = [claim EXCEPT ![w][s] = "no"]
  /\ IF claim[w][s] = "done" /\ Alive(w) THEN Persist(w, tiles[w]) ELSE UNCHANGED saves
  /\ over' = IF claim[w][s] = "refused" THEN [over EXCEPT ![w] = @ \cup ({s} \cap tiles[w])] ELSE over
  /\ UNCHANGED <<backend, window, tiles, mail, job, memo, layout, fresh, bounds>>

-----------------------------------------------------------------------------
(* save_layout: the owner's entries are replaced, everyone else's kept but
   for the sessions the list claims. *)
Merged(existing, incoming, w) ==
  {e \in existing : e[2] # w /\ e[1] \notin incoming} \cup {<<s, w>> : s \in incoming}

SaveLands(w) ==
  /\ saves[w] # <<>>
  /\ layout' = Merged(layout, Head(saves[w]), w)
  /\ saves' = [saves EXCEPT ![w] = Tail(@)]
  /\ memo' = IF Alive(w) THEN [memo EXCEPT ![w] = Head(saves[w])] ELSE memo
  /\ UNCHANGED <<backend, window, frontend, fresh, bounds>>

\* A rename: the list is what it was, and is saved for the name in it.
Rename(w) ==
  /\ mode.renames /\ tiles[w] # {} /\ dirty < MaxDirty /\ dirty' = dirty + 1
  /\ saves' = [saves EXCEPT ![w] = Append(@, Saved(tiles[w]))]
  /\ UNCHANGED <<backend, window, frontend, memo, layout, fresh, opens, quits, mode, stranded>>

-----------------------------------------------------------------------------
(* The sessions themselves. *)

\* start_session or start_command_session: the window that starts it owns it
Start(w, s) ==
  /\ s \in fresh \cap mode.starts /\ (w = Main \/ (win = "booted" /\ Other \in ready))
  /\ Person(Quiet) /\ ~ (mode.agents /\ w = Other /\ s \in Commands)
  /\ fresh' = fresh \ {s} /\ running' = running \cup {s}
  /\ owner' = [owner EXCEPT ![s] = w] /\ sink' = [sink EXCEPT ![s] = w]
  /\ tiles' = [tiles EXCEPT ![w] = @ \cup {s}]
  /\ Persist(w, tiles[w] \cup {s})
  /\ UNCHANGED <<ended, window, over, mail, job, claim, memo, layout, bounds>>

\* on_exit: every window is told, and the manager holds the session still
Exit(s) ==
  /\ mode.ends /\ s \in running \ ended /\ ended' = ended \cup {s}
  /\ mail' = [w \in Windows |-> Emit(w, Over(s))[w]]
  /\ UNCHANGED <<owner, sink, running, window, tiles, over, job, claim, disk, fresh, bounds>>

\* remove and close_session: no question of who owns it is asked
CloseTile(w, s) ==
  /\ s \in tiles[w] /\ Listens(w)
  /\ Person(Quiet)
  /\ running' = running \ {s} /\ ended' = ended \ {s}
  /\ owner' = [owner EXCEPT ![s] = Nobody]
  /\ tiles' = [tiles EXCEPT ![w] = @ \ {s}] /\ over' = [over EXCEPT ![w] = @ \ {s}]
  /\ Persist(w, tiles[w] \ {s})
  /\ UNCHANGED <<sink, window, mail, job, claim, memo, layout, fresh, bounds>>

(* The app quits and starts again: every process ends, the main window
   restores its own entries, the other window is opened by nobody. *)
Quit ==
  /\ Person(Quiet) /\ quits < MaxQuits /\ quits' = quits + 1
  /\ LET mine == Restores(Main) IN
     /\ running' = mine /\ ended' = {}
     /\ owner' = [s \in Sessions |-> IF s \in mine THEN Main ELSE Nobody]
     /\ sink' = owner'
     /\ tiles' = [w \in Windows |-> IF w = Main THEN mine ELSE {}]
     /\ memo' = tiles' /\ over' = [w \in Windows |-> {}]
  /\ ready' = {} /\ win' = "down" /\ opening' = FALSE
  /\ ears' = {Main} \ mode.deaf /\ stranded' = {}
  /\ mail' = [w \in Windows |-> <<>>] /\ job' = [w \in Windows |-> {}]
  /\ claim' = [w \in Windows |-> [s \in Sessions |-> "no"]]
  /\ saves' = [w \in Windows |-> <<>>]
  /\ UNCHANGED <<layout, fresh, opens, dirty, mode>>

HandOff ==
  \/ Announce \/ OpenReturns \/ OpenTimesOut \/ Destroyed
  \/ \E w \in Windows : Receive(w) \/ SaveLands(w)
  \/ \E w \in Windows, s \in Sessions :
       \/ TakeTile(w, s) \/ ClaimRetargets(w, s) \/ ClaimRecords(w, s) \/ ClaimReturns(w, s)

Next ==
  \/ DetachNew \/ DetachExisting \/ Listen \/ Boot \/ HandBack
  \/ HandOff
  \/ \E w \in Windows : Rename(w)
  \/ \E s \in Sessions : Exit(s)
  \/ \E w \in Windows, s \in Sessions : Start(w, s) \/ CloseTile(w, s)
  \/ Quit

(* Threads and event loops run: what was sent is served.  A webview may never
   boot, and a person owes nothing. *)
Fairness ==
  /\ WF_vars(Announce) /\ WF_vars(OpenReturns) /\ WF_vars(OpenTimesOut) /\ WF_vars(Destroyed)
  /\ \A w \in Windows : WF_vars(Receive(w)) /\ WF_vars(SaveLands(w))
  /\ \A w \in Windows, s \in Sessions :
       /\ WF_vars(TakeTile(w, s)) /\ WF_vars(ClaimRetargets(w, s))
       /\ WF_vars(ClaimRecords(w, s)) /\ WF_vars(ClaimReturns(w, s))

Spec == Init /\ [][Next]_vars
FairSpec == Spec /\ Fairness

-----------------------------------------------------------------------------
(* Properties. *)

Agents == Sessions \ (Commands \cup fresh)

\* The person waits, one session has moved before the next one does, and the
\* main window hears of hand-overs.
Orderly ==
  /\ ~ mode.hasty /\ ~ mode.renames /\ Main \notin mode.deaf
  /\ mode.prompt \/ \A s, x \in Agents : s = x

Held(w, s) == s \in tiles[w] /\ owner[s] = w /\ sink[s] = w

(* When a hand-off has settled, every live session is drawn by a window that
   may write to it and gets its output, and by that one only: no move loses
   a session or leaves two pictures of it (app.ts, detachWorkspace and
   onCloseRequested), whatever window cannot be reached or fails to start.  A
   window that closes and cannot send what it draws goes all the same: that
   strands the tiles it drew then, and no others, until a window claims them. *)
LiveIsHeld ==
  Quiet => \A s \in running \ stranded :
    \E w \in Windows : Held(w, s) /\ \A x \in Windows \ {w} : s \notin tiles[x]

OrderlyIsHeld == Orderly /\ mode.agents => LiveIsHeld

(* A window that draws a live session it does not own is about to hear of it,
   or is claiming it: no picture is stale for good (ownership.rs), but those
   of the sessions a failed hand-back has stranded. *)
StaleIsTold ==
  Orderly => \A w \in Windows : \A s \in (running \cap tiles[w]) \ stranded :
    \/ owner[s] = w
    \/ claim[w][s] # "no" \/ win = "leaving"
    \/ \E i \in DOMAIN mail[w] :
         mail[w][i].kind = "owner" /\ mail[w][i].session = s /\ mail[w][i].owner # w

(* When all is quiet the file says which window restores a live agent: the
   one that holds it (sessions.ts, persistLayout; store.rs, save_layout). *)
LiveIsLaidOut ==
  Quiet => \A w \in Windows : \A s \in running \ Commands : Held(w, s) => <<s, w>> \in layout

OrderlyLayout == Orderly => LiveIsLaidOut

(* The announcement a caller waits for is that of the window that is up, and
   comes when its start has come to an end: it is not inherited from an earlier
   window of that label (windows.rs, forget). *)
ReadyIsItsOwn ==
  [][OpenReturns => win = "booted" \/ mode.hasty]_vars

(* detachWorkspace: "the payload cannot be emitted into a window that is not
   listening".  A registration that failed is logged, and the window announces
   itself: the payload is lost, and stays where it was. *)
TakeIsHeard ==
  [][OpenReturns /\ ~ mode.hasty /\ HandedOff(Main, Other) /\ tiles[Main] \ Commands # {}
       => mail' # mail]_vars

(* onCloseRequested: "the close is intercepted, the workspace is handed back, and
   only then is the window destroyed".  A hand-back that cannot be sent is
   logged and the window goes: its sessions run on no tile. *)
NoneIsStranded == Quiet => running \cap stranded = {}

(* "Returns only once the new window has announced itself, so a caller holding
   the label may address it at once" (commands.rs:2504): also when the window
   is up already. *)
LabelIsHeard ==
  [][DetachExisting /\ tiles[Main] \ Commands # {} => Listens(Other)]_vars

(* A tile of a session that is over says so, or it has no button to start it
   again (sessions.ts, wireEvents: "its state chip is already set"). *)
EndIsShown ==
  Quiet => \A w \in Windows : tiles[w] \cap ended \subseteq over[w]

(* Only the owner ends a session.  ownership.rs:196 and main.rs: the window that
   had a session is refused from the moment another claims it. *)
OnlyOwnerCloses ==
  [][\A w \in Windows, s \in Sessions :
       CloseTile(w, s) /\ s \in running /\ owner[s] # Nobody => owner[s] = w]_vars

(* Every wait for a window ends, and what was handed over settles. *)
HandOffSettles == ~ mode.hasty /\ (opening \/ win = "leaving") ~> Quiet
=============================================================================
