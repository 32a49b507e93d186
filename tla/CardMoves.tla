----------------------------- MODULE CardMoves -----------------------------
(***************************************************************************)
(* Where the cards of one workspace are, and how they follow it.           *)
(*                                                                         *)
(* A folder-backed tracker keeps each card in a file of one folder, the    *)
(* effective root, which the name of the workspace and the folder a person *)
(* picked determine together.  A save that moves the root leaves the cards *)
(* behind and records a previous location; the board then offers to bring  *)
(* them, a person answers, and the pointer is forgotten once nothing of    *)
(* the workspace is there.  Around that run the board's polls, sessions    *)
(* that keep the folder they were started with, volumes that come and go,  *)
(* scans that cannot read a card, writes that fail and an app that quits.  *)
(*                                                                         *)
(* A root is a path.  A volume that goes away takes its path along, or     *)
(* leaves its mount point standing as a directory of its own: then the     *)
(* path shows what is in that directory, until the volume covers it again. *)
(***************************************************************************)
EXTENDS FiniteSets, Naturals

CONSTANTS Names,     \* what the workspace may be called
          Picks,     \* folders outside the project that a person may pick
          Here,      \* .cowork/tasks, the folder inside the project
          Cards, Sessions,
          Foreign,   \* the cards of other projects
          Other,     \* what those name as their project
          None,
          Modes      \* how often each of what people and faults do may happen

Roots == {Here} \cup (Picks \X (Names \cup {None}))
Trackers == Picks \cup {Here, None}
Card == [project : Names \cup {Other, None}, own : BOOLEAN, torn : BOOLEAN]

Running == [from : Roots, to : Roots, todo : SUBSET Cards, name : Names \cup {None},
            half : Cards \cup {None}, failed : BOOLEAN]

Budgets == [save : Nat, start : Nat, file : Nat, dismiss : Nat, configure : Nat, damage : Nat,
            unmount : Nat, vacate : Nat, unread : Nat, fault : Nat, tear : Nat, stop : Nat,
            busy : BOOLEAN]

ASSUME CardMovesAssumption ==
  /\ Foreign \subseteq Cards /\ Cards # Foreign
  /\ Other \notin Names \cup {None}
  /\ None \notin Names \cup Picks \cup Roots \cup Cards
  /\ None \notin Card /\ None \notin Running
  /\ Here \notin Picks \cup (Picks \X (Names \cup {None}))
  /\ Modes \subseteq Budgets

VARIABLES
  ws,       \* the workspace on disk: name, pick, prev, and whether the config is this version's
  dirs,     \* the roots that have been made
  mounted,  \* the picked folders that can be reached
  hollow,   \* those of them that are mount points without their volume
  disk,     \* disk[r][c]: the file of card c at root r, or None
  boards,   \* boards[r]: None, "default" or "own", the board.json at r
  env,      \* env[s]: the root and project a session was started with, or None
  run,      \* a running tasks_migrate, or None
  hidden,   \* dirs, disk and boards where no path leads: on a volume that left its mount
            \* point, or in the mount point beneath a volume
  asked,    \* tasks_migration_status found nothing to move and is about to forget
  missed,   \* the cards a scan of the previous location has passed over so far
  ours,     \* the cards that were filed for this workspace
  left      \* what may still happen

place == <<dirs, disk, boards, hidden>>
volumes == <<mounted, hollow>>
vars == <<ws, volumes, place, env, run, asked, missed, ours, left>>

---------------------------------------------------------------------------
\* resolve_root: where the cards of a configuration live, or None
RootOf(w) == IF w.pick \in Picks THEN <<w.pick, w.name>> ELSE w.pick

\* Older builds used the picked folder itself.
Old(p) == <<p, None>>

Reached(r) == r # Here => r[1] \in mounted
IsDir(r) == r \in dirs /\ Reached(r)

\* RootCreation::may_create: below a folder that is there, never the folder itself
Ensured(r) == IF Reached(r) THEN dirs \cup {r} ELSE dirs

\* FsTaskProvider::new: reading a root that has no board.json writes the default
Read(bs, r) == IF IsDir(r) /\ bs[r] = None THEN [bs EXCEPT ![r] = "default"] ELSE bs

\* seed_previous_location: the pointer every reader of the workspaces sees
Prev(w) ==
  IF w.prev = None /\ ~ w.current /\ w.pick \in Picks
  THEN [root |-> Old(w.pick), project |-> w.name, own |-> FALSE]
  ELSE w.prev

WholeIn(files, c) == files[c] # None /\ ~ files[c].torn
Whole(r, c) == WholeIn(disk[r], c)

\* What is at r when the volume of its picked folder is: not what a path shows
\* that leads into a mount point without its volume.
Home(r) == IF r # Here /\ r[1] \in hollow THEN hidden.disk[r] ELSE disk[r]

\* migrate::plan: the project first, a damaged card only from a root of our own
ClaimedDamaged(files, project, own) ==
  {c \in Cards : WholeIn(files, c) /\ files[c].project \in {project, None}}
Claimed(files, project, own) ==
  {c \in Cards : /\ WholeIn(files, c)
                 /\ \/ files[c].project = project
                    \/ files[c].project = None /\ own}

ClaimedAt(prev) == Claimed(disk[prev.root], prev.project, prev.own)
ClaimedHome(prev) == Claimed(Home(prev.root), prev.project, prev.own)

Spend(k) == left[k] > 0 /\ left' = [left EXCEPT ![k] = @ - 1]

\* FsTaskProvider::scan skips an entry that it cannot read.
Skips(unread) == IF unread = {} THEN UNCHANGED left ELSE Spend("unread")

\* What the pointer claims and a scan that skips these cards does not see.
PassedOver(prev, unread) ==
  IF IsDir(prev.root) THEN ClaimedHome(prev) \ (ClaimedAt(prev) \ unread) ELSE {}

\* Nothing happens in the middle of a command, unless the mode says so.
Calm == ~ left.busy => run = None /\ ~ asked

---------------------------------------------------------------------------
(* The workspace form. *)

\* with_previous_location: a pointer nobody acted on wins over the old root
Previous(old, new) ==
  LET was == IF Prev(old) # None THEN Prev(old)
             ELSE [root |-> RootOf(old), project |-> old.name, own |-> old.pick = Here]
  IN IF RootOf(new) = None \/ was.root = None \/ was.root = RootOf(new) THEN None ELSE was

Save(n, p) ==
  /\ Calm /\ Spend("save")
  /\ <<n, p>> # <<ws.name, ws.pick>>
  /\ LET new == [name |-> n, pick |-> p, prev |-> None, current |-> TRUE]
     IN ws' = [new EXCEPT !.prev = Previous(ws, new)]
  /\ UNCHANGED <<volumes, place, env, run, asked, missed, ours>>

Configure ==
  /\ Calm /\ Spend("configure")
  /\ ws.pick # None /\ IsDir(RootOf(ws))
  /\ boards' = [boards EXCEPT ![RootOf(ws)] = "own"]
  /\ UNCHANGED <<ws, volumes, dirs, disk, hidden, env, run, asked, missed, ours>>

---------------------------------------------------------------------------
(* The board's polls. *)

\* tasks_list, tasks_open_counts, tasks_watch_sync
Poll ==
  /\ ws.pick # None
  /\ boards' = Read(boards, RootOf(ws))
  /\ dirs' = Ensured(RootOf(ws))
  /\ UNCHANGED <<ws, volumes, disk, hidden, env, run, asked, missed, ours, left>>

\* offer_for answers None and may_forget_previous_location says which None it is
Forgettable(prev, unread) == IsDir(prev.root) /\ ClaimedAt(prev) \subseteq unread

Ask ==
  /\ ~ asked /\ ws.pick # None /\ Prev(ws) # None
  /\ \E unread \in SUBSET ClaimedAt(Prev(ws)) :
       /\ Skips(unread)
       /\ asked' = Forgettable(Prev(ws), unread)
       /\ missed' = missed \cup PassedOver(Prev(ws), unread)
  /\ boards' = Read(boards, Prev(ws).root)
  /\ UNCHANGED <<ws, volumes, dirs, disk, hidden, env, run, ours>>

ClearedUnstamped == [ws EXCEPT !.prev = None]
\* clear_previous_location, of whatever the list holds by then
Cleared == IF ws.pick = None THEN ws ELSE [ws EXCEPT !.prev = None, !.current = TRUE]

Forget ==
  /\ asked
  /\ asked' = FALSE
  /\ ws' = Cleared
  /\ UNCHANGED <<volumes, place, env, run, missed, ours, left>>

Dismiss ==
  /\ Calm /\ Spend("dismiss")
  /\ ws.pick # None /\ Prev(ws) # None
  /\ ws' = Cleared
  /\ UNCHANGED <<volumes, place, env, run, asked, missed, ours>>

---------------------------------------------------------------------------
(* tasks_migrate. *)

\* copy_if_absent
Copied(bs, from, to) == IF bs[to] = None THEN [bs EXCEPT ![to] = bs[from]] ELSE bs

\* Whatever it finds, the command has read the board of the new root and made
\* the root; it goes on when there is a root and something to move.
Migrate ==
  /\ run = None /\ Calm /\ ws.pick # None
  /\ dirs' = Ensured(RootOf(ws))
  /\ LET to == RootOf(ws)
         prev == Prev(ws)
         seen == Read(boards, to)
     IN IF Reached(to) /\ prev # None /\ IsDir(prev.root)
        THEN LET both == Read(seen, prev.root) IN
             \E unread \in SUBSET ClaimedAt(prev) :
               /\ Skips(unread)
               /\ missed' = missed \cup PassedOver(prev, unread)
               /\ IF ClaimedAt(prev) \subseteq unread THEN boards' = both /\ run' = None
                  ELSE /\ boards' = Copied(both, prev.root, to)
                       /\ run' = [from |-> prev.root, to |-> to, todo |-> ClaimedAt(prev) \ unread,
                                  name |-> IF prev.project = ws.name THEN None ELSE ws.name,
                                  half |-> None, failed |-> FALSE]
        ELSE boards' = seen /\ run' = None /\ UNCHANGED <<missed, left>>
  /\ UNCHANGED <<ws, volumes, disk, hidden, env, asked, ours>>

Moving(c) == run # None /\ run.half = None /\ c \in run.todo
Free(c) == ~ (Reached(run.to) /\ disk[run.to][c] # None)
Movable(c) == Moving(c) /\ Free(c) /\ Reached(run.from) /\ IsDir(run.to) /\ Whole(run.from, c)

\* set_project, when the workspace has another name by now
Carried(c) == IF run.name = None THEN disk[run.from][c]
              ELSE [disk[run.from][c] EXCEPT !.project = run.name]

AlreadyThereTidied(c) ==
  /\ Moving(c) /\ ~ Free(c)
  /\ disk' = [disk EXCEPT ![run.from][c] = None]
  /\ run' = [run EXCEPT !.todo = @ \ {c}]
  /\ UNCHANGED <<ws, volumes, dirs, boards, hidden, env, asked, missed, ours, left>>
AlreadyThere(c) ==
  /\ Moving(c) /\ ~ Free(c)
  /\ run' = [run EXCEPT !.todo = @ \ {c}]
  /\ UNCHANGED <<ws, volumes, place, env, asked, missed, ours, left>>

\* fs::rename, when nothing in the card changes and both ends are on one volume
Rename(c) ==
  /\ Movable(c) /\ run.name = None
  /\ disk' = [disk EXCEPT ![run.to][c] = disk[run.from][c], ![run.from][c] = None]
  /\ run' = [run EXCEPT !.todo = @ \ {c}]
  /\ UNCHANGED <<ws, volumes, dirs, boards, hidden, env, asked, missed, ours, left>>

\* the copy is written, the original still there
Copy(c) ==
  /\ Movable(c)
  /\ disk' = [disk EXCEPT ![run.to][c] = Carried(c)]
  /\ run' = [run EXCEPT !.half = c]
  /\ UNCHANGED <<ws, volumes, dirs, boards, hidden, env, asked, missed, ours, left>>

Removable == Reached(run.from) /\ disk[run.from][run.half] # None

RemoveOriginal ==
  /\ run # None /\ run.half # None /\ Removable
  /\ disk' = [disk EXCEPT ![run.from][run.half] = None]
  /\ run' = [run EXCEPT !.todo = @ \ {run.half}, !.half = None]
  /\ UNCHANGED <<ws, volumes, dirs, boards, hidden, env, asked, missed, ours, left>>

OriginalStays ==
  /\ run # None /\ run.half # None
  /\ run' = [run EXCEPT !.todo = @ \ {run.half}, !.half = None, !.failed = TRUE]
  /\ \/ Spend("fault")
     \/ ~ Removable /\ UNCHANGED left
  /\ UNCHANGED <<ws, volumes, place, env, asked, missed, ours>>

Fail(c) ==
  /\ Moving(c) /\ Free(c)
  /\ run' = [run EXCEPT !.todo = @ \ {c}, !.failed = TRUE]
  /\ \/ Spend("fault")
     \/ ~ Movable(c) /\ UNCHANGED left
  /\ UNCHANGED <<ws, volumes, place, env, asked, missed, ours>>

\* fs::write fails half way, and what it wrote stays
Tear(c) ==
  /\ Movable(c) /\ Spend("tear")
  /\ disk' = [disk EXCEPT ![run.to][c] = [Carried(c) EXCEPT !.torn = TRUE]]
  /\ run' = [run EXCEPT !.todo = @ \ {c}, !.failed = TRUE]
  /\ UNCHANGED <<ws, volumes, dirs, boards, hidden, env, asked, missed, ours>>

\* MigrationReport::is_complete
CompleteAlways == TRUE
Complete == ~ run.failed

MigrateEnd ==
  /\ run # None /\ run.todo = {} /\ run.half = None
  /\ ws' = IF Complete THEN Cleared ELSE ws
  /\ run' = None
  /\ UNCHANGED <<volumes, place, env, asked, missed, ours, left>>

---------------------------------------------------------------------------
(* Cards are filed, by people and by sessions. *)

\* A new id: one that no card has had.
Unused == Cards \ (Foreign \cup ours)
Filed(r, project, bs) ==
  LET c == CHOOSE c \in Unused : TRUE IN
    /\ Unused # {}
    /\ disk' = [disk EXCEPT ![r][c] = [project |-> project, own |-> bs[r] = "own",
                                       torn |-> FALSE]]
    /\ ours' = ours \cup {c}

\* tasks_create
Create ==
  /\ Calm /\ Spend("file")
  /\ ws.pick # None /\ Reached(RootOf(ws))
  /\ dirs' = Ensured(RootOf(ws))
  /\ boards' = Read(boards, RootOf(ws))
  /\ Filed(RootOf(ws), ws.name, boards')
  /\ UNCHANGED <<ws, volumes, hidden, env, run, asked, missed>>

\* start_session: the folder and the project go into the environment for good
StartSession(s) ==
  /\ env[s] = None /\ ws.pick # None /\ Spend("start")
  /\ env' = [env EXCEPT ![s] = [root |-> RootOf(ws), project |-> ws.name]]
  /\ dirs' = Ensured(RootOf(ws))
  /\ UNCHANGED <<ws, volumes, disk, boards, hidden, run, asked, missed, ours>>

\* cowork_task new: the CLI never makes a root
FileFromSession(s) ==
  /\ Calm /\ Spend("file")
  /\ env[s] # None /\ IsDir(env[s].root)
  /\ boards' = Read(boards, env[s].root)
  /\ Filed(env[s].root, env[s].project, boards')
  /\ UNCHANGED <<ws, volumes, dirs, hidden, env, run, asked, missed>>

---------------------------------------------------------------------------
(* The world: a card edited until its project is gone, volumes, quitting.  *)

Damage(r, c) ==
  /\ Calm /\ Spend("damage")
  /\ Whole(r, c) /\ disk[r][c].project # None
  /\ disk' = [disk EXCEPT ![r][c].project = None]
  /\ UNCHANGED <<ws, volumes, dirs, boards, hidden, env, run, asked, missed, ours>>

Below(p) == {r \in Roots \ {Here} : r[1] = p}
Turned(shown, away, p) == [r \in Roots |-> IF r \in Below(p) THEN away[r] ELSE shown[r]]

\* The paths below p show what no path led to, and the other way round.
Turn(p) ==
  /\ disk' = Turned(disk, hidden.disk, p)
  /\ boards' = Turned(boards, hidden.boards, p)
  /\ dirs' = (dirs \ Below(p)) \cup (hidden.dirs \cap Below(p))
  /\ hidden' = [disk |-> Turned(hidden.disk, disk, p), boards |-> Turned(hidden.boards, boards, p),
                dirs |-> (hidden.dirs \ Below(p)) \cup (dirs \cap Below(p))]

\* A volume goes, and its path with it or leaving the mount point behind.
Unmount(p) ==
  /\ p \in mounted \ hollow
  /\ \/ Spend("unmount") /\ mounted' = mounted \ {p} /\ UNCHANGED <<hollow, place>>
     \/ Spend("vacate") /\ hollow' = hollow \cup {p} /\ Turn(p) /\ UNCHANGED mounted
  /\ UNCHANGED <<ws, env, run, asked, missed, ours>>

Mount(p) ==
  /\ \/ p \notin mounted /\ mounted' = mounted \cup {p} /\ UNCHANGED <<hollow, place>>
     \/ p \in hollow /\ hollow' = hollow \ {p} /\ Turn(p) /\ UNCHANGED mounted
  /\ UNCHANGED <<ws, env, run, asked, missed, ours, left>>

Stop ==
  /\ Spend("stop")
  /\ run' = None /\ asked' = FALSE
  /\ env' = [s \in Sessions |-> None]
  /\ UNCHANGED <<ws, volumes, place, missed, ours>>

---------------------------------------------------------------------------
\* One card was filed before, where the build that filed it kept its cards.
Init ==
  /\ left \in Modes
  /\ \E n \in Names, p \in Picks \cup {Here}, current \in BOOLEAN, own \in BOOLEAN,
       at \in Roots \ {Here} :
       LET home == IF current \/ p = Here THEN RootOf([name |-> n, pick |-> p]) ELSE Old(p)
           c == CHOOSE c \in Cards : c \notin Foreign
       IN
       /\ ws = [name |-> n, pick |-> p, prev |-> None, current |-> current]
       /\ dirs = {home, at} \cup {Old(q) : q \in Picks}
       /\ disk = [r \in Roots |-> [k \in Cards |->
                    IF r = home /\ k = c THEN [project |-> n, own |-> own, torn |-> FALSE]
                    ELSE IF r = at /\ k \in Foreign
                    THEN [project |-> Other, own |-> FALSE, torn |-> FALSE]
                    ELSE None]]
       /\ boards = [r \in Roots |-> IF r # home THEN None ELSE IF own THEN "own" ELSE "default"]
       /\ ours = {c}
  /\ mounted = Picks /\ hollow = {}
  /\ hidden = [disk |-> [r \in Roots |-> [c \in Cards |-> None]],
               boards |-> [r \in Roots |-> None], dirs |-> {Old(q) : q \in Picks}]
  /\ env = [s \in Sessions |-> None]
  /\ run = None
  /\ asked = FALSE /\ missed = {}

MoveStep ==
  \/ \E c \in Cards : AlreadyThere(c) \/ Rename(c) \/ Copy(c) \/ Fail(c) \/ Tear(c)
  \/ RemoveOriginal
  \/ OriginalStays
  \/ MigrateEnd

Next ==
  \/ \E n \in Names, p \in Trackers : Save(n, p)
  \/ Configure \/ Poll \/ Ask \/ Forget \/ Dismiss \/ Migrate \/ MoveStep
  \/ Create
  \/ \E s \in Sessions : StartSession(s) \/ FileFromSession(s)
  \/ \E r \in Roots, c \in Cards : Damage(r, c)
  \/ \E p \in Picks : Unmount(p) \/ Mount(p)
  \/ Stop

\* The board that is on screen keeps asking, and a command that runs goes on.
Fairness == WF_vars(Ask) /\ WF_vars(Forget) /\ WF_vars(MoveStep)

Spec == Init /\ [][Next]_vars
FairSpec == Spec /\ Fairness

---------------------------------------------------------------------------
Pointer == [root : Roots, project : Names, own : BOOLEAN]

Files == [Roots -> [Cards -> Card \cup {None}]]
Boards == [Roots -> {None, "default", "own"}]

TypeOK ==
  /\ ws \in [name : Names, pick : Trackers, prev : Pointer \cup {None}, current : BOOLEAN]
  /\ dirs \subseteq Roots /\ mounted \subseteq Picks /\ hollow \subseteq mounted
  /\ disk \in Files /\ boards \in Boards
  /\ hidden \in [disk : Files, boards : Boards, dirs : SUBSET Roots]
  /\ env \in [Sessions -> [root : Roots, project : Names] \cup {None}]
  /\ run \in Running \cup {None}
  /\ asked \in BOOLEAN /\ missed \subseteq Cards /\ ours \subseteq Cards

(* "In every branch the source is removed only after the destination is      *)
(* written, so no card is ever nowhere" (migrate.rs): whatever fails or      *)
(* stops, each card that was filed is whole somewhere, on a volume that is   *)
(* away or in a mount point that a volume covers if need be.                 *)
NeverNowhere == \A c \in ours : \E r \in Roots : Whole(r, c) \/ WholeIn(hidden.disk[r], c)

(* A migration takes no card of another project from a folder it shares,     *)
(* not even one that is damaged (migrate.rs, plan).                          *)
ForeignStays ==
  [][\A c \in Foreign, r \in Roots :
       Home(r)[c]' = Home(r)[c] \/ (\E q \in Roots, k \in Cards : Damage(q, k))]_vars

(* A root is only ever made below a folder that is there: where a volume     *)
(* took its path along, or a path was mistyped, no empty tree is made.       *)
OnlyBelowABase == [][\A r \in dirs' \ dirs : Reached(r) \/ hollow' # hollow]_vars

\* FsTaskProvider::list: on the board, or at the root the board offers to move
\* from, once the volumes are there and the card can be read
OnBoard(c) == LET files == Home(RootOf(ws)) IN
              ws.pick # None /\ WholeIn(files, c) /\ files[c].project \in {ws.name, None}
Offered(c) == Prev(ws) # None /\ c \in ClaimedHome(Prev(ws))
InSight(c) == OnBoard(c) \/ Offered(c)

\* A file of the card is in a mount point, where a volume covers it.
Covered(c) == \E p \in Picks, r \in Roots :
                r \in Below(p) /\ (IF p \in hollow THEN disk[r][c] ELSE hidden.disk[r][c]) # None

\* What a person may do to lose sight of a card.
ByPeople == \/ \E n \in Names, p \in Trackers : Save(n, p)
            \/ Dismiss
            \/ \E r \in Roots, c \in Cards : Damage(r, c)

(* No poll, no migration, no volume and no quit takes a card out of sight:   *)
(* the pointer is forgotten when nothing of the workspace is left behind it. *)
(* Not meant are a card that a scan of the previous location passed over,    *)
(* because its file could not be read or its volume had left an empty mount  *)
(* point, and one that was written into such a mount point: these are lost   *)
(* from sight, as SightIsNeverLost shows.                                    *)
SightIsKept ==
  [][~ left.busy => \A c \in ours :
       InSight(c) => InSight(c)' \/ ByPeople \/ c \in missed' \/ Covered(c)']_vars

(* "A mount point that happens to be empty right now" (tasks_cmd.rs) and     *)
(* "one unreadable entry is skipped, never fatal" (fs.rs): neither costs the *)
(* board a card.                                                             *)
SightIsNeverLost ==
  [][~ left.busy => \A c \in ours : InSight(c) => InSight(c)' \/ ByPeople]_vars

(* A pointer that has done its job is forgotten while its root can be read,  *)
(* so the banner does not come back.                                         *)
PointerIsForgotten ==
  Prev(ws) # None /\ ws.pick # None /\ Forgettable(Prev(ws), {})
    ~> ~ (Prev(ws) # None /\ ws.pick # None /\ Forgettable(Prev(ws), {}))

(* "Nothing was ever written to a root that was configured and then left     *)
(* behind" (tasks_cmd.rs): a save that keeps an older pointer leaves no card *)
(* at the root it turns away from.                                           *)
LeavesNothingBehind ==
  [][Prev(ws) # None /\ Prev(ws') = Prev(ws) /\ RootOf(ws') # RootOf(ws)
       => \A c \in ours : ~ Whole(RootOf(ws), c)]_vars

(* Every card is on the board or where the board offers to bring it from.    *)
FoundOrPointed == \A c \in ours : InSight(c)

(* A card that is filed is on the board or offered to it.                    *)
FiledInSight == [][\A c \in ours' \ ours : InSight(c)']_vars

(* "The cards name steps that only the source's configuration defines, so a  *)
(* destination without it would show every one of them in the unknown-step   *)
(* column" (migrate.rs): a card that arrives finds its board.                *)
BoardFollows ==
  [][\A c \in ours : ~ OnBoard(c) /\ OnBoard(c)' /\ run # None /\ disk'[run.to][c].own
       => boards'[run.to] = "own"]_vars
=============================================================================
