----------------------------- MODULE FolderSync -----------------------------
(***************************************************************************)
(* Config and memory shared by machines through one git branch: the cycle  *)
(* of sync_cmd.rs and sync/job.rs, what it writes (sync/publish.rs), what  *)
(* it takes back (sync/adopt.rs), the answers that two records are one     *)
(* project (sync/identity.rs), and the commands a person gives meanwhile.  *)
(*                                                                         *)
(* A workspace's wire record is a version number, 0 when its file is not   *)
(* there; a scenario is the workspace it is pinned to; a note is the       *)
(* workspace it lies under.  git is modelled by what it does to a file:    *)
(* one side's change wins, two different changes are a conflict.           *)
(***************************************************************************)
EXTENDS Integers, Sequences, FiniteSets

CONSTANTS Machines,
          Ids,    \* of workspaces
          Notes,
          None,
          Modes   \* what may happen, chosen once: see Init

ASSUME NoneAssumption == None \notin Ids \cup Machines
ASSUME FilesAssumption == Notes \cap (Ids \cup {"scenario", "identity"}) = {}

Budgets == [add : Nat, edit : Nat, locate : Nat, remove : Nat, merge : Nat, pin : Nat,
            note : Nat, settle : Nat, stop : Nat, busy : BOOLEAN, last : BOOLEAN,
            racing : BOOLEAN, owner : [Ids -> Machines \cup {None}]]
ASSUME ModesAssumption == Modes \subseteq Budgets

VARIABLES
  store,    \* workspaces.json and skills.json
  tree,     \* the synced files on the machine's disk
  head,     \* its last commit
  base,     \* the commit of the remote it was last rebased onto
  upstream, \* machines whose branch follows the remote's
  marked,   \* files a rebase left with conflict markers
  stopped,  \* machines whose rebase waits for a person
  remote,   \* the remote branch
  tip,      \* machines that have its last commit
  phase,    \* where the machine's cycle is
  snap,     \* the store as the cycle read it
  pulled,   \* Progress::pulled
  step,     \* the merge of the ledger being applied
  shown,    \* the workspaces the machine's windows list
  made, gone,   \* workspaces ever added; removed or merged away by a person
  writer,   \* the machine that wrote a note
  early,    \* machines whose cycle broke off with something pulled, and that
            \* have adopted nothing since
  clock, left

disk == <<store, tree, head, base, upstream, marked, stopped>>
shared == <<remote, tip>>
cycle == <<phase, snap, pulled, step>>
past == <<made, gone, writer>>
history == <<past, early>>
vars == <<disk, shared, cycle, shown, history, clock, left>>

Merges == [from : Ids, into : Ids]
Tree == [rec : [Ids -> Nat], at : [Notes -> Ids \cup {None}],
         pin : Ids \cup {None}, ledger : Seq(Merges)]
Blank == [rec |-> [w \in Ids |-> 0], at |-> [n \in Notes |-> None],
          pin |-> None, ledger |-> <<>>]

\* located: the folder is known here; known: its repository was looked up
Store == [ver : [Ids -> Nat], located : SUBSET Ids, known : SUBSET Ids,
          pin : Ids \cup {None}]
Records(st) == {w \in Ids : st.ver[w] > 0}

Phases == {"idle", "read", "published", "committed", "pulled", "rejected",
           "repulled", "sent"}

TypeOK ==
  /\ store \in [Machines -> Store] /\ snap \in [Machines -> Store]
  /\ tree \in [Machines -> Tree] /\ head \in [Machines -> Tree]
  /\ base \in [Machines -> Tree] /\ remote \in Tree
  /\ upstream \subseteq Machines /\ stopped \subseteq Machines /\ tip \subseteq Machines
  /\ marked \in [Machines -> SUBSET (Ids \cup Notes \cup {"scenario", "identity"})]
  /\ phase \in [Machines -> Phases] /\ pulled \in [Machines -> BOOLEAN]
  /\ step \in [Machines -> Nat]
  /\ shown \in [Machines -> SUBSET Ids]
  /\ made \subseteq Ids /\ gone \subseteq Ids
  /\ writer \in [Notes -> Machines \cup {None}]
  /\ early \subseteq Machines
  /\ clock \in Nat

(* Every machine has just been connected to an empty repository.  A mode says
   which machine already has which workspace (owner), how often a person does
   what, how often a cycle is cut short (stop), whether a person may act while
   a cycle runs or a rebase waits (busy), and may remove the only workspace
   (last), and whether a machine pushes in the moment between another's second
   pull and its second push (racing). *)
Init ==
  /\ left \in Modes
  /\ made = {w \in Ids : left.owner[w] # None}
  /\ store = [m \in Machines |->
       LET mine == {w \in Ids : left.owner[w] = m} IN
         [ver |-> [w \in Ids |-> IF w \in mine THEN 1 ELSE 0],
          located |-> mine, known |-> {}, pin |-> None]]
  /\ snap = store /\ shown = [m \in Machines |-> Records(store[m])]
  /\ tree = [m \in Machines |-> Blank] /\ head = tree /\ base = tree /\ remote = Blank
  /\ upstream = {} /\ stopped = {} /\ tip = {}
  /\ marked = [m \in Machines |-> {}]
  /\ phase = [m \in Machines |-> "idle"] /\ pulled = [m \in Machines |-> FALSE]
  /\ step = [m \in Machines |-> 1]
  /\ gone = {} /\ writer = [n \in Notes |-> None] /\ early = {} /\ clock = 1

-----------------------------------------------------------------------------
(* git *)

Clash(ours, was, theirs) == ours # was /\ theirs # was /\ ours # theirs
Settled(ours, was, theirs) == IF ours = was THEN theirs ELSE ours

Clashes(o, b, t) ==
  {w \in Ids : Clash(o.rec[w], b.rec[w], t.rec[w])}
  \cup {n \in Notes : Clash(o.at[n], b.at[n], t.at[n])}
  \cup {f \in {"scenario"} : Clash(o.pin, b.pin, t.pin)}
  \cup {f \in {"identity"} : Clash(o.ledger, b.ledger, t.ledger)}

\* Where two changes clash the file keeps both, and is marked.
Rebased(o, b, t) ==
  [rec |-> [w \in Ids |-> Settled(o.rec[w], b.rec[w], t.rec[w])],
   at |-> [n \in Notes |-> Settled(o.at[n], b.at[n], t.at[n])],
   pin |-> Settled(o.pin, b.pin, t.pin),
   ledger |-> Settled(o.ledger, b.ledger, t.ledger)]

\* A note not yet committed is an untracked file, and in nobody's way.
Untracked(m) == {n \in Notes : head[m].at[n] = None}
Dirty(m) ==
  \/ [tree[m] EXCEPT !.at = head[m].at] # head[m]
  \/ \E n \in Notes \ Untracked(m) : tree[m].at[n] # head[m].at[n]

-----------------------------------------------------------------------------
(* One cycle *)

\* announce_if_changed, at the end of every cycle that was not cut off
Announced(m, st) ==
  IF Records(st) # Records(snap[m]) THEN Records(st) ELSE shown[m]
End(m, st) ==
  /\ phase' = [phase EXCEPT ![m] = "idle"]
  /\ shown' = [shown EXCEPT ![m] = Announced(m, st)]
\* The cycle breaks off: what it has pulled it has not adopted.
BreaksOff(m) ==
  early' = IF pulled[m] \/ phase[m] = "repulled" THEN early \cup {m} ELSE early
Goto(m, p) == phase' = [phase EXCEPT ![m] = p] /\ UNCHANGED shown

Read(m) ==
  /\ phase[m] = "idle"
  /\ snap' = [snap EXCEPT ![m] = store[m]]
  /\ pulled' = [pulled EXCEPT ![m] = FALSE]
  /\ step' = [step EXCEPT ![m] = 1]
  /\ Goto(m, "read")
  /\ UNCHANGED <<disk, shared, history, clock, left>>

\* with_repos: a folder nobody asked about saves the list that was read
WithRepos(m) ==
  LET s == snap[m] IN
  IF s.located \subseteq s.known THEN store[m]
  ELSE [s EXCEPT !.known = s.located, !.pin = store[m].pin]

PublishedSwept(m) ==
  [tree[m] EXCEPT !.rec = snap[m].ver,
                  !.pin = IF snap[m].pin # None THEN snap[m].pin ELSE @]
PublishedOnce(m) ==
  [tree[m] EXCEPT
     !.rec = [w \in Ids |-> IF @[w] = 0 THEN snap[m].ver[w] ELSE @[w]],
     !.pin = IF snap[m].pin # None THEN snap[m].pin ELSE @]
Published(m) ==
  [tree[m] EXCEPT
     !.rec = [w \in Ids |-> IF snap[m].ver[w] > 0 THEN snap[m].ver[w] ELSE @[w]],
     !.pin = IF snap[m].pin # None THEN snap[m].pin ELSE @]

Publish(m) ==
  /\ phase[m] = "read"
  /\ store' = [store EXCEPT ![m] = WithRepos(m)]
  /\ snap' = [snap EXCEPT ![m].known = snap[m].located]
  /\ tree' = [tree EXCEPT ![m] = Published(m)]
  /\ marked' = [marked EXCEPT ![m] =
       (@ \ Records(snap[m])) \ (IF snap[m].pin # None THEN {"scenario"} ELSE {})]
  /\ Goto(m, "published")
  /\ UNCHANGED <<head, base, upstream, stopped, shared, pulled, step, history, clock, left>>

\* A stopped rebase is waiting for a person.
Commit(m) ==
  /\ phase[m] = "published"
  /\ IF m \in stopped THEN End(m, store[m]) /\ UNCHANGED head
     ELSE Goto(m, "committed") /\ head' = [head EXCEPT ![m] = tree[m]]
  /\ UNCHANGED <<store, tree, base, upstream, marked, stopped, shared, snap, pulled, step,
                 history, clock, left>>

\* the first push has made the branch
Exists == tip # {}

\* There is nothing on the other end yet: the first push will create it.
PullNothing(m) ==
  /\ phase[m] = "committed" /\ ~ Exists
  /\ Goto(m, "pulled")
  /\ UNCHANGED <<disk, shared, snap, pulled, step, history, clock, left>>

(* git pull --rebase, as the cycle's pull or once more after a rejected push.
   It refuses a tree somebody changed since the commit. *)
Fetch(m, from, to) ==
  LET onto == Rebased(head[m], base[m], remote)
      clash == Clashes(head[m], base[m], remote)
  IN
  /\ phase[m] = from /\ Exists
  /\ IF Dirty(m)
     THEN /\ End(m, store[m]) /\ BreaksOff(m)
          /\ UNCHANGED <<tree, head, base, upstream, marked, stopped, tip, pulled>>
     ELSE /\ head' = [head EXCEPT ![m] = onto]
          /\ tree' = [tree EXCEPT ![m] =
               [onto EXCEPT !.at = [n \in Notes |-> IF n \in Untracked(m) /\ @[n] = None
                                                    THEN tree[m].at[n] ELSE @[n]]]]
          /\ base' = [base EXCEPT ![m] = remote]
          /\ upstream' = upstream \cup {m} /\ tip' = tip \cup {m}
          /\ marked' = [marked EXCEPT ![m] = clash]
          /\ IF clash = {}
             THEN /\ Goto(m, to)
                  /\ pulled' = [pulled EXCEPT ![m] = @ \/ to = "pulled"]
                  /\ UNCHANGED <<stopped, early>>
             ELSE /\ End(m, store[m]) /\ early' = early \cup {m}
                  /\ stopped' = stopped \cup {m} /\ UNCHANGED pulled
  /\ UNCHANGED <<store, remote, snap, step, past, clock, left>>

Pull(m) == Fetch(m, "committed", "pulled")
Repull(m) == Fetch(m, "rejected", "repulled")

FinishedAtOnce(m) ==
  IF pulled[m] /\ phase[m] = "pulled" THEN Goto(m, "sent") ELSE End(m, store[m])
\* What arrived is adopted only when the whole cycle went through.
Finished(m) == IF pulled[m] THEN Goto(m, "sent") ELSE End(m, store[m])

AheadAtFirst(m) == m \notin upstream
\* has_unpushed; with no upstream there is always something to send
Ahead(m) == m \notin upstream \/ head[m] # base[m]

NothingToSend(m) ==
  /\ phase[m] = "pulled" /\ ~ Ahead(m)
  /\ Finished(m)
  /\ UNCHANGED <<disk, shared, snap, pulled, step, history, clock, left>>

Push(m) ==
  /\ (phase[m] = "pulled" /\ Ahead(m)) \/ phase[m] = "repulled"
  /\ Exists => m \in tip
  /\ left.racing \/ \A k \in Machines \ {m} : phase[k] # "repulled"
  /\ remote' = head[m] /\ tip' = {m}
  /\ base' = [base EXCEPT ![m] = head[m]] /\ upstream' = upstream \cup {m}
  /\ Finished(m)
  /\ UNCHANGED <<store, tree, head, marked, stopped, snap, pulled, step, history, clock, left>>

\* The remote moved meanwhile: rebase and try once more, never force.
Rejected(m) ==
  /\ Exists /\ m \notin tip
  /\ \/ phase[m] = "pulled" /\ Ahead(m) /\ Goto(m, "rejected") /\ UNCHANGED early
     \/ phase[m] = "repulled" /\ End(m, store[m]) /\ BreaksOff(m)
  /\ UNCHANGED <<disk, shared, snap, pulled, step, past, clock, left>>

\* No network, a refused account, or the app quits: nothing is adopted.
CutShort(m) ==
  /\ phase[m] # "idle" /\ left.stop > 0
  /\ left' = [left EXCEPT !.stop = @ - 1]
  /\ phase' = [phase EXCEPT ![m] = "idle"]
  /\ shown' = [shown EXCEPT ![m] = Records(store[m])]
  /\ BreaksOff(m)
  /\ UNCHANGED <<disk, shared, snap, pulled, step, past, clock>>

-----------------------------------------------------------------------------
(* What the pull brought *)

\* An unreadable ledger reads as empty.
Ledger(m) == IF "identity" \in marked[m] THEN <<>> ELSE tree[m].ledger

Merged(ledger, w) == \E i \in DOMAIN ledger : ledger[i].from = w
Into(ledger, w) ==
  IF Merged(ledger, w)
  THEN ledger[CHOOSE i \in DOMAIN ledger :
                ledger[i].from = w /\ \A j \in 1 .. i - 1 : ledger[j].from # w].into
  ELSE w

\* The id this one has become; a cycle of merges leaves it as it is.
Canonical(ledger, w) ==
  LET hop[k \in 0 .. Len(ledger)] == IF k = 0 THEN w ELSE Into(ledger, hop[k - 1])
  IN IF Merged(ledger, w) /\ ~ Merged(ledger, hop[Len(ledger)])
     THEN hop[Len(ledger)] ELSE w

MovedNowhere(at, from, into) == [n \in Notes |-> IF at[n] = from THEN None ELSE at[n]]
\* apply: the memory moves, and what named the losing id names the other
Moved(at, from, into) == [n \in Notes |-> IF at[n] = from THEN into ELSE at[n]]
Repointed(pin, from, into) == IF pin = from THEN into ELSE pin

\* apply_ledger, one merge of it
ApplyLedger(m) ==
  /\ phase[m] = "sent" /\ step[m] <= Len(Ledger(m))
  /\ LET ans == Ledger(m)[step[m]] IN
       /\ tree' = [tree EXCEPT ![m].at = Moved(@, ans.from, ans.into)]
       /\ store' = [store EXCEPT ![m].pin = Repointed(@, ans.from, ans.into)]
  /\ step' = [step EXCEPT ![m] = @ + 1]
  /\ UNCHANGED <<head, base, upstream, marked, stopped, shared, phase, snap, pulled, shown,
                 history, clock, left>>

Arrived(m) == {w \in Ids : tree[m].rec[w] > 0 /\ Canonical(Ledger(m), w) = w}
Withdrawn(m) == {w \in Ids : tree[m].rec[w] > 0 /\ Canonical(Ledger(m), w) # w}

AdoptedAlso(m) ==
  [store[m] EXCEPT !.ver = [w \in Ids |-> IF w \in Arrived(m) THEN tree[m].rec[w] ELSE @[w]],
                   !.pin = IF tree[m].pin = None THEN @ ELSE tree[m].pin]
AdoptedBare(m) ==
  [store[m] EXCEPT !.ver = IF Arrived(m) = {} THEN @
                           ELSE [w \in Ids |-> IF w \in Arrived(m) THEN tree[m].rec[w] ELSE 0],
                   !.located = {}, !.known = {},
                   !.pin = IF tree[m].pin = None THEN @ ELSE tree[m].pin]
(* The list that is saved is what is in the repository, with the folders of the
   list the cycle read.  A save of nothing is not made. *)
Adopted(m) ==
  LET here == {w \in Arrived(m) : \E v \in snap[m].located :
                                     Canonical(Ledger(m), v) = w}
  IN [store[m] EXCEPT
        !.ver = IF Arrived(m) = {} THEN @
                ELSE [w \in Ids |-> IF w \in Arrived(m) THEN tree[m].rec[w] ELSE 0],
        !.located = IF Arrived(m) = {} THEN @ ELSE here,
        !.known = IF Arrived(m) = {} THEN @ ELSE here,
        !.pin = IF tree[m].pin = None THEN @ ELSE tree[m].pin]

Adopt(m) ==
  /\ phase[m] = "sent" /\ step[m] > Len(Ledger(m))
  /\ store' = [store EXCEPT ![m] = Adopted(m)]
  /\ tree' = [tree EXCEPT ![m].rec =
       [w \in Ids |-> IF w \in Withdrawn(m) THEN 0 ELSE @[w]]]
  /\ End(m, Adopted(m))
  /\ early' = early \ {m}
  /\ UNCHANGED <<head, base, upstream, marked, stopped, shared, snap, pulled, step,
                 past, clock, left>>

-----------------------------------------------------------------------------
(* What a person, and a session, does on one machine *)

Free(m) == left.busy \/ (phase[m] = "idle" /\ m \notin stopped)
Spend(field) == left[field] > 0 /\ left' = [left EXCEPT ![field] = @ - 1]

\* The windows of the machine that gave the command get the list it returns.
Saved(m, st) == store' = [store EXCEPT ![m] = st] /\ shown' = [shown EXCEPT ![m] = Records(st)]
GitAlone == UNCHANGED <<head, base, upstream, stopped, shared, cycle>>

Add(m, w) ==
  /\ Free(m) /\ Spend("add") /\ w \notin made
  /\ Saved(m, [store[m] EXCEPT !.ver[w] = clock + 1, !.located = @ \cup {w}])
  /\ made' = made \cup {w} /\ clock' = clock + 1
  /\ GitAlone /\ UNCHANGED <<tree, marked, gone, writer, early>>

Edit(m, w) ==
  /\ Free(m) /\ Spend("edit") /\ w \in Records(store[m])
  /\ Saved(m, [store[m] EXCEPT !.ver[w] = clock + 1])
  /\ clock' = clock + 1
  /\ GitAlone /\ UNCHANGED <<tree, marked, history>>

\* "Where is this project on this machine?" is answered.
Locate(m, w) ==
  /\ Free(m) /\ Spend("locate") /\ w \in Records(store[m]) \ store[m].located
  /\ Saved(m, [store[m] EXCEPT !.located = @ \cup {w}])
  /\ GitAlone /\ UNCHANGED <<tree, marked, history, clock>>

\* Deleted from the list and from the repository; its memory stays.
Remove(m, w) ==
  /\ Free(m) /\ Spend("remove") /\ w \in Records(store[m])
  /\ left.last \/ Records(store[m]) # {w}
  /\ Saved(m, [store[m] EXCEPT !.ver[w] = 0, !.located = @ \ {w}, !.known = @ \ {w}])
  /\ tree' = [tree EXCEPT ![m].rec[w] = 0]
  /\ marked' = [marked EXCEPT ![m] = @ \ {w}]
  /\ gone' = gone \cup {w}
  /\ GitAlone /\ UNCHANGED <<made, writer, early, clock>>

\* fold_records: the surviving record, or the losing one under its id
Folded(st, from, into) ==
  LET kept == IF st.ver[into] > 0 THEN st.ver[into] ELSE st.ver[from]
      found == {from, into} \cap st.located
  IN [st EXCEPT
        !.ver = [@ EXCEPT ![from] = 0, ![into] = kept],
        !.located = (@ \ {from}) \cup (IF found = {} THEN {} ELSE {into}),
        !.known = (@ \ {from}) \cup (IF found \cap @ = {} THEN {} ELSE {into})]

(* Two records are one project.  Only a record that arrived is asked about, one
   with no folder here unless both have one. *)
Merge(m, from, into) ==
  LET answered == IF Merged(Ledger(m), from) THEN Ledger(m)
                  ELSE Append(Ledger(m), [from |-> from, into |-> into])
      st == store[m]
  IN
  /\ Free(m) /\ Spend("merge") /\ from # into
  /\ from \in Arrived(m) /\ into \in Arrived(m) \cup Records(st)
  /\ from \in st.located => into \in st.located
  /\ tree' = [tree EXCEPT ![m].ledger = answered,
                          ![m].at = Moved(@, from, into), ![m].rec[from] = 0]
  /\ marked' = [marked EXCEPT ![m] = @ \ {"identity", from}]
  /\ Saved(m, Folded([st EXCEPT !.pin = Repointed(@, from, into)], from, into))
  /\ gone' = gone \cup {from}
  /\ GitAlone /\ UNCHANGED <<made, writer, early, clock>>

\* A scenario is pinned to a workspace; the second machine only repins it.
Pin(m, w) ==
  /\ Free(m) /\ Spend("pin") /\ w \in Records(store[m])
  /\ store[m].pin = None => \A k \in Machines : store[k].pin = None
  /\ store' = [store EXCEPT ![m].pin = w]
  /\ GitAlone /\ UNCHANGED <<tree, marked, shown, history, clock>>

\* A session's note, captured at any time, even for a workspace that went.
WriteNote(m, w, n) ==
  /\ Spend("note") /\ writer[n] = None /\ w \in Records(store[m]) \cup gone
  /\ tree' = [tree EXCEPT ![m].at[n] = w]
  /\ writer' = [writer EXCEPT ![n] = m]
  /\ GitAlone /\ UNCHANGED <<store, marked, shown, made, gone, early, clock>>

(* A person settles a stopped rebase by hand: of every marked file one side, of
   the ledger both; what is settled is a version of its own. *)
Settle(m) ==
  LET side(ours) == IF ours THEN tree[m] ELSE base[m] IN
  /\ m \in stopped /\ phase[m] = "idle" /\ Spend("settle")
  /\ \E mine \in SUBSET marked[m] :
       LET rec(w) == IF w \notin marked[m] THEN tree[m].rec[w]
                     ELSE IF side(w \in mine).rec[w] = 0 THEN 0 ELSE clock + 1
           result == [rec |-> [w \in Ids |-> rec(w)],
                      at |-> [n \in Notes |-> side(n \in mine \/ n \notin marked[m]).at[n]],
                      pin |-> side("scenario" \in mine \/ "scenario" \notin marked[m]).pin,
                      ledger |-> IF "identity" \notin marked[m] THEN tree[m].ledger
                                 ELSE base[m].ledger \o tree[m].ledger]
       IN tree' = [tree EXCEPT ![m] = result] /\ head' = [head EXCEPT ![m] = result]
  /\ clock' = clock + 1
  /\ stopped' = stopped \ {m} /\ marked' = [marked EXCEPT ![m] = {}]
  /\ UNCHANGED <<store, base, upstream, shared, cycle, shown, history>>

-----------------------------------------------------------------------------

Loop(m) ==
  \/ Read(m) \/ Publish(m) \/ Commit(m) \/ PullNothing(m) \/ Pull(m) \/ NothingToSend(m)
  \/ Push(m) \/ Rejected(m) \/ Repull(m) \/ ApplyLedger(m) \/ Adopt(m)

People(m) ==
  \/ \E w \in Ids : Add(m, w) \/ Edit(m, w) \/ Locate(m, w) \/ Remove(m, w) \/ Pin(m, w)
  \/ \E from, into \in Ids : Merge(m, from, into)
  \/ \E w \in Ids, n \in Notes : WriteNote(m, w, n)
  \/ Settle(m)

Next == \E m \in Machines : Loop(m) \/ CutShort(m) \/ People(m)
Spec == Init /\ [][Next]_vars
FairSpec == Spec /\ \A m \in Machines : WF_vars(Loop(m))

-----------------------------------------------------------------------------
(* Properties *)

\* No file a machine wrote about a session is lost, whatever is merged, removed,
\* rebased or cut short: "Nothing is dropped" (identity.rs).
NoteIsKept == \A n \in Notes : writer[n] # None => tree[writer[n]].at[n] # None

\* A record leaves the shared repository only because somebody, somewhere,
\* removed it or answered that it is another: never for being unfamiliar
\* (publish.rs: "Deletion is an event, not something to infer").
NothingVanishes ==
  [][\A w \in Ids : remote.rec[w] > 0 /\ remote'.rec[w] = 0 => w \in gone']_vars

\* A push replaces a record by an older version only from a machine whose cycle
\* broke off between a pull and its adoption.  Whatever else comes between a
\* cycle's pulls and pushes ("Rebase and try once more", job.rs), what a machine
\* changed and the others may have is not taken back.
NeverReverted ==
  [][\A w \in Ids : remote'.rec[w] > 0 =>
       remote'.rec[w] >= remote.rec[w] \/ \E m \in early : Push(m)]_vars

\* The same of every machine.  "Quit the app mid-sync.  Reopen: nothing is
\* lost" (docs/sync-manual-check.md) claims this, and the code does not keep it.
NeverTakenBack ==
  [][\A w \in Ids : remote'.rec[w] > 0 => remote'.rec[w] >= remote.rec[w]]_vars

\* A machine's own list never falls back to an earlier version of a record.
NeverUndone ==
  [][\A m \in Machines, w \in Ids :
       store'[m].ver[w] > 0 => store'[m].ver[w] >= store[m].ver[w]]_vars

\* A deletion that reached the repository stays: the machines do not take turns
\* publishing what one of them withdrew.
DeletedStays ==
  [][\A w \in gone : remote.rec[w] = 0 => remote'.rec[w] = 0]_vars

\* "A path resolved here must survive every future pull" (a test of
\* sync_cmd.rs), under the id its record has become.
PathSurvives ==
  [][\A m \in Machines : \A w \in store[m].located :
       \/ w \in store'[m].located
       \/ w \in gone' /\ (w \in Records(store'[m]) => Merged(tree[m].ledger, w))]_vars

\* The windows list the workspaces the store has, whenever no cycle is running.
WindowsAreTold ==
  \A m \in Machines : phase[m] = "idle" => shown[m] = Records(store[m])

\* Everybody has the same records, notes in the same places, and no record
\* that was merged away.
Agreed ==
  \A m \in Machines :
    /\ store[m].ver = remote.rec /\ tree[m] = remote /\ store[m].pin = remote.pin
    /\ \A w \in Records(store[m]) : ~ Merged(remote.ledger, w)
    /\ \A n \in Notes : remote.at[n] # None => ~ Merged(remote.ledger, remote.at[n])

\* Once people stop, and as long as no rebase waits for one, the machines come
\* to agree: "The workspace count does not oscillate".
Converges == <>[](stopped = {}) => <>[]Agreed

\* No scenario is left pinned to a workspace that has become another.
PinFollows ==
  <>[](stopped = {}) =>
    <>[](\A m \in Machines : store[m].pin # None => ~ Merged(remote.ledger, store[m].pin))

\* "Named files, and no automatic resolution" (job.rs): a file left with
\* conflict markers is touched by a person alone.
MarksArePeoples ==
  [][\A m \in Machines : phase'[m] = "published" => marked'[m] = marked[m]]_vars

\* An answer that reached the repository is not forgotten.
AnswersStand ==
  [][\A i \in DOMAIN remote.ledger :
       \E j \in DOMAIN remote'.ledger : remote'.ledger[j] = remote.ledger[i]]_vars
=============================================================================
