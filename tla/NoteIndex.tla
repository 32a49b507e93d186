----------------------------- MODULE NoteIndex -----------------------------
(***************************************************************************)
(* The index of the memory corpus, and who answers a search.               *)
(*                                                                         *)
(* Notes are files that change under everybody.  An update is a process:   *)
(* it loads the cache, looks at what changed, reads and embeds that, and   *)
(* renames two files into place, one after the other.  The app runs one    *)
(* update at a time; a quit leaves it running, and a search that the       *)
(* resident process did not answer is a process that updates as well.      *)
(*                                                                         *)
(* The resident process keeps the model in memory and answers from what    *)
(* is on disk, one request at a time, under one lock and one deadline.     *)
(*                                                                         *)
(* A note stands for its one chunk, and its stamp for its time, size and   *)
(* text.  The model is installed; the resident's warm-up, which asks the   *)
(* same way and has no fallback, is left out.                              *)
(***************************************************************************)
EXTENDS Naturals, Sequences

CONSTANTS Notes,   \* numbers, in the order of their paths
          Runs,    \* the updates the app starts
          Asks,    \* the searches people and prompts ask
          None,
          Modes    \* how often each of what may happen does

ASSUME NotesAssumption == Notes \subseteq Nat
ASSUME ProcsAssumption == Runs \cap Asks = {} /\ None \notin Runs \cup Asks
\* `legible`: no read of a note fails; `orphans`: a quit may leave updates running.
ASSUME ModesAssumption ==
  /\ Modes \subseteq [hand : Nat, arrive : Nat, unread : Nat, kill : Nat, stop : Nat, ask : Nat,
                      slow : Nat, wedge : Nat,
                      orphans : BOOLEAN, legible : BOOLEAN]
  /\ \A m \in Modes : m.legible => m.unread = 0

VARIABLES
  note,      \* note[n]: its stamp, 0 when there is no such file
  clock,     \* the last stamp
  meta, emb, \* meta.json and emb.bin
  proc,      \* proc[p]: an update process
  indexing,  \* the run that holds the reindexing flag
  up,        \* the app runs
  ask,       \* ask[q]: idle, waiting, asking, alone, done
  got,       \* got[q]: the search whose hits the asker was given
  lock,      \* the asker that holds the resident process, or None
  live,      \* the resident process, or None
  late,      \* a note changed since the app started
  spoiled,   \* since then an update was cut off or two saves crossed: see Spoils, Killed
  left       \* what may still happen

index == <<meta, emb>>
corpus == <<note, clock, late, spoiled>>
asking == <<ask, got, lock, live>>
vars == <<corpus, index, proc, indexing, up, asking, left>>

Procs == Runs \cup Asks
Spend(k) == left[k] > 0 /\ left' = [left EXCEPT ![k] = @ - 1]

---------------------------------------------------------------------------
(* index.rs *)

Nothing == [files |-> [n \in Notes |-> 0], chunks |-> <<>>, rows |-> <<>>]

LoadedByLength(m, e) ==
  IF m # None /\ e # None /\ Len(e.rows) = Len(m.chunks)
  THEN [files |-> m.files, chunks |-> m.chunks, rows |-> e.rows] ELSE Nothing
\* load: a matrix made for another list of chunks is no index at all
Loaded(m, e) ==
  IF m # None /\ e # None /\ e.mark = m.chunks
  THEN [files |-> m.files, chunks |-> m.chunks, rows |-> e.rows] ELSE Nothing

\* what an update has to read, of what it saw at stat
ChangedIfNew(old, stat) == {n \in Notes : stat[n] # 0 /\ old.files[n] = 0}
Changed(old, stat) == {n \in Notes : stat[n] # 0 /\ stat[n] # old.files[n]}
Deleted(old, stat) == {n \in Notes : stat[n] = 0 /\ old.files[n] # 0}

\* what was kept of a file that is there, as it was
Stays(c, old, stat) == stat[c[1]] # 0 /\ stat[c[1]] = old.files[c[1]]
Staying(rows, old, stat) ==
  LET upTo[i \in 0 .. Len(rows)] ==
        IF i = 0 THEN <<>>
        ELSE IF Stays(rows[i], old, stat) THEN Append(upTo[i - 1], rows[i]) ELSE upTo[i - 1]
  IN upTo[Len(rows)]
Kept(old, stat) ==
  [files |-> stat, chunks |-> Staying(old.chunks, old, stat), rows |-> Staying(old.rows, old, stat)]

---------------------------------------------------------------------------
(* An update, process by process. *)

Off == [pc |-> "off", seen |-> None, old |-> Nothing, todo |-> {}, ix |-> Nothing]
Begin(p) == proc' = [proc EXCEPT ![p] = [Off EXCEPT !.pc = "meta"]]

\* What the end of a process brings: the app's flag is free, or an asker goes on.
Ends(p, hits) ==
  /\ proc' = [proc EXCEPT ![p] = Off]
  /\ indexing' = IF indexing = p THEN None ELSE indexing
  /\ IF p \in Asks /\ ask[p] = "alone"
     THEN ask' = [ask EXCEPT ![p] = "done"] /\ got' = [got EXCEPT ![p] = hits]
     ELSE UNCHANGED <<ask, got>>

ReadMeta(p) ==
  /\ proc[p].pc = "meta"
  /\ proc' = [proc EXCEPT ![p].pc = "emb", ![p].seen = meta]
  /\ UNCHANGED <<corpus, index, indexing, up, asking, left>>

ReadEmb(p) ==
  /\ proc[p].pc = "emb"
  /\ proc' = [proc EXCEPT ![p].pc = "scan", ![p].seen = None,
                          ![p].old = Loaded(proc[p].seen, emb)]
  /\ UNCHANGED <<corpus, index, indexing, up, asking, left>>

\* scan and compare
Scan(p) ==
  /\ proc[p].pc = "scan"
  /\ Changed(proc[p].old, note) # {} \/ Deleted(proc[p].old, note) # {} \/ meta = None
  /\ proc' = [proc EXCEPT ![p].pc = "read", ![p].old = Nothing,
                          ![p].todo = Changed(proc[p].old, note),
                          ![p].ix = Kept(proc[p].old, note)]
  /\ UNCHANGED <<corpus, index, indexing, up, asking, left>>

NothingChanged(p) ==
  /\ proc[p].pc = "scan"
  /\ Changed(proc[p].old, note) = {} /\ Deleted(proc[p].old, note) = {} /\ meta # None
  /\ Ends(p, p)
  /\ UNCHANGED <<corpus, index, up, lock, live, left>>

First(S) == CHOOSE n \in S : \A k \in S : n <= k

\* a note is read as it is by now; one that cannot be read adds nothing
ReadNote(p) ==
  /\ proc[p].pc = "read" /\ proc[p].todo # {}
  /\ LET n == First(proc[p].todo)
         add(s) == Append(s, <<n, note[n]>>)
         rest == [proc EXCEPT ![p].todo = @ \ {n}]
     IN \/ /\ note[n] # 0
           /\ proc' = [rest EXCEPT ![p].ix.chunks = add(@), ![p].ix.rows = add(@)]
           /\ UNCHANGED left
        \/ /\ (note[n] = 0 /\ UNCHANGED left) \/ Spend("unread")
           /\ proc' = rest
  /\ UNCHANGED <<corpus, index, indexing, up, asking>>

\* save: the matrix first
PutEmb(p) ==
  /\ proc[p].pc = "read" /\ proc[p].todo = {}
  /\ emb' = [mark |-> proc[p].ix.chunks, rows |-> proc[p].ix.rows]
  /\ proc' = [proc EXCEPT ![p].pc = "put"]
  /\ UNCHANGED <<corpus, meta, indexing, up, asking, left>>

AsScanned(p) == [files |-> proc[p].ix.files, chunks |-> proc[p].ix.chunks]
AsFound(p) == [files |-> note, chunks |-> proc[p].ix.chunks]
Written(p) == AsScanned(p)

\* Another process put its matrix between the two renames of this one, or this
\* one, left by a quit, writes down a corpus as it was before the app started.
Spoils(p) == emb.mark # proc[p].ix.chunks \/ (indexing # p /\ proc[p].ix.files # note)

PutMeta(p) ==
  /\ proc[p].pc = "put"
  /\ meta' = Written(p)
  /\ Ends(p, p)
  /\ spoiled' = (spoiled \/ Spoils(p))
  /\ UNCHANGED <<note, clock, late, emb, up, lock, live, left>>

\* a deadline, or a crash: the temporaries stay and nobody reads them
Killed(p) ==
  /\ proc[p].pc # "off" /\ Spend("kill")
  /\ Ends(p, None)
  /\ spoiled' = (spoiled \/ indexing = p \/ proc[p].pc = "put")
  /\ UNCHANGED <<note, clock, late, index, up, lock, live>>

---------------------------------------------------------------------------
(* memory/mod.rs: who starts an update. *)

\* spawn_reindex: nothing, when one runs
SpawnReindex ==
  IF indexing # None THEN UNCHANGED <<proc, indexing>>
  ELSE LET p == CHOOSE p \in Runs : proc[p].pc = "off" IN Begin(p) /\ indexing' = p

Put(n, there) ==
  /\ clock' = clock + 1
  /\ note' = [note EXCEPT ![n] = IF there THEN clock + 1 ELSE 0]
  /\ late' = TRUE

\* a fact, lesson or note written by hand, and wrote()
WriteByHand(n) ==
  /\ up /\ Spend("hand")
  /\ Put(n, TRUE)
  /\ SpawnReindex
  /\ UNCHANGED <<index, spoiled, up, asking>>

\* a capture before its drain ends, a pull, an editor
Arrive(n, there) ==
  /\ Spend("arrive") /\ (there \/ note[n] # 0)
  /\ Put(n, there)
  /\ UNCHANGED <<index, spoiled, proc, indexing, up, asking>>

Busy == \E p \in Procs : proc[p].pc # "off"

\* What the app had started goes on without it, the resident process stops.
Stop ==
  /\ up /\ Spend("stop")
  /\ left.orphans \/ ~ Busy
  /\ up' = FALSE /\ indexing' = None
  /\ ask' = [q \in Asks |-> "idle"] /\ lock' = None /\ live' = None
  /\ UNCHANGED <<corpus, index, proc, got>>

StartApp ==
  /\ ~ up
  /\ up' = TRUE /\ late' = FALSE /\ spoiled' = FALSE
  /\ SpawnReindex
  /\ UNCHANGED <<note, clock, index, asking, left>>

---------------------------------------------------------------------------
(* resident.rs and serve.rs: a search. *)

Fresh == [in |-> <<>>, out |-> <<>>, seen |-> None, stuck |-> FALSE]

Ask(q) ==
  /\ up /\ ask[q] = "idle" /\ proc[q].pc = "off" /\ Spend("ask")
  /\ ask' = [ask EXCEPT ![q] = "waiting"]
  /\ UNCHANGED <<corpus, index, proc, indexing, up, got, lock, live>>

\* the lock, a process if there is none, and the request
Take(q) ==
  /\ ask[q] = "waiting" /\ lock = None
  /\ lock' = q
  /\ ask' = [ask EXCEPT ![q] = "asking"]
  /\ live' = LET child == IF live = None THEN Fresh ELSE live
             IN [child EXCEPT !.in = Append(@, q)]
  /\ UNCHANGED <<corpus, index, proc, indexing, up, got, left>>

\* one search per process: the way before there was a resident one
Alone(q) == ask' = [ask EXCEPT ![q] = "alone"] /\ Begin(q)

SpawnFails(q) ==
  /\ ask[q] = "waiting" /\ lock = None /\ live = None /\ Spend("slow")
  /\ Alone(q)
  /\ UNCHANGED <<corpus, index, indexing, up, got, lock, live>>

Running == live # None /\ ~ live.stuck

\* serve: the cache is loaded anew for each search
ChildReads ==
  /\ Running /\ live.in # <<>> /\ live.seen = None
  /\ live' = [live EXCEPT !.seen = <<meta>>]
  /\ UNCHANGED <<corpus, index, proc, indexing, up, ask, got, lock, left>>

ChildAnswers ==
  /\ Running /\ live.seen # None
  /\ live' = [live EXCEPT !.seen = None, !.in = Tail(@), !.out = Append(@, Head(live.in))]
  /\ UNCHANGED <<corpus, index, proc, indexing, up, ask, got, lock, left>>

\* wedged, or dead
ChildStops ==
  /\ Running /\ Spend("wedge")
  /\ live' = [live EXCEPT !.stuck = TRUE]
  /\ UNCHANGED <<corpus, index, proc, indexing, up, ask, got, lock>>

\* the next line, whatever it is the answer to
Hear(q) ==
  /\ lock = q /\ live.out # <<>>
  /\ got' = [got EXCEPT ![q] = Head(live.out)]
  /\ live' = [live EXCEPT !.out = Tail(@)]
  /\ ask' = [ask EXCEPT ![q] = "done"]
  /\ lock' = None
  /\ UNCHANGED <<corpus, index, proc, indexing, up, left>>

ChildKept == live
\* Live::drop
ChildDropped == None
AfterError == ChildDropped

Patient == ~ live.stuck /\ Spend("slow")
\* the deadline of a process that works, or of one that never will
GiveUpWhen == (live.stuck /\ UNCHANGED left) \/ Spend("slow")

GiveUp(q) ==
  /\ lock = q /\ live.out = <<>>
  /\ GiveUpWhen
  /\ live' = AfterError
  /\ lock' = None
  /\ Alone(q)
  /\ UNCHANGED <<corpus, index, indexing, up, got>>

\* the reaper, after five minutes without a search
Reap ==
  /\ up /\ lock = None /\ live # None
  /\ live' = None
  /\ UNCHANGED <<corpus, index, proc, indexing, up, ask, got, lock, left>>

---------------------------------------------------------------------------
\* A corpus of one note, indexed, and the app about to start.
Init ==
  /\ left \in Modes
  /\ clock = 1 /\ late = FALSE /\ spoiled = FALSE
  /\ \E n \in Notes, cold \in BOOLEAN :
       /\ note = [k \in Notes |-> IF k = n THEN 1 ELSE 0]
       /\ meta = IF cold THEN None ELSE [files |-> note, chunks |-> <<<<n, 1>>>>]
       /\ emb = IF cold THEN None ELSE [mark |-> <<<<n, 1>>>>, rows |-> <<<<n, 1>>>>]
  /\ proc = [p \in Procs |-> Off] /\ indexing = None
  /\ up = FALSE
  /\ ask = [q \in Asks |-> "idle"] /\ got = [q \in Asks |-> None]
  /\ lock = None /\ live = None

Work(p) == ReadMeta(p) \/ ReadEmb(p) \/ Scan(p) \/ NothingChanged(p) \/ ReadNote(p)
           \/ PutEmb(p) \/ PutMeta(p)
Search(q) == Take(q) \/ SpawnFails(q) \/ Hear(q) \/ GiveUp(q)
Child == ChildReads \/ ChildAnswers

Next ==
  \/ \E p \in Procs : Work(p) \/ Killed(p)
  \/ \E n \in Notes : WriteByHand(n) \/ \E there \in BOOLEAN : Arrive(n, there)
  \/ Stop \/ StartApp
  \/ \E q \in Asks : Ask(q) \/ Search(q)
  \/ Child \/ ChildStops \/ Reap

\* A process that runs goes on, and a caller takes the lock or an answer that is there.
Fairness ==
  /\ \A p \in Procs : WF_vars(Work(p))
  /\ \A q \in Asks : WF_vars(Search(q))
  /\ WF_vars(Child)

Spec == Init /\ [][Next]_vars
FairSpec == Spec /\ Fairness

---------------------------------------------------------------------------
TypeOK ==
  /\ note \in [Notes -> Nat] /\ clock \in Nat /\ late \in BOOLEAN /\ spoiled \in BOOLEAN
  /\ up \in BOOLEAN
  /\ \A p \in Procs : proc[p].pc \in {"off", "meta", "emb", "scan", "read", "put"}
  /\ indexing \in Runs \cup {None} /\ lock \in Asks \cup {None}
  /\ ask \in [Asks -> {"idle", "waiting", "asking", "alone", "done"}]
  /\ got \in [Asks -> Asks \cup {None}]

(* Vectors always belong to their texts: whatever two savers interleave or a *)
(* crash leaves between the two renames, a load by an update or by the       *)
(* resident process pairs each chunk with its own row (index.rs fingerprint).*)
Metas == {meta} \cup {proc[p].seen : p \in {p \in Procs : proc[p].pc = "emb"}}
         \cup (IF live = None \/ live.seen = None THEN {} ELSE {live.seen[1]})
SearchIsTrue == \A m \in Metas : LET ix == Loaded(m, emb) IN ix.rows = ix.chunks

(* What must not come about is that "their content would be gone from the    *)
(* index for good" (index.rs, update): no note is recorded as indexed, and   *)
(* so never read again, while the chunk of it is older or missing.           *)
RecordedIsIndexed ==
  LET ix == Loaded(meta, emb) IN
    \A n \in Notes : note[n] # 0 /\ ix.files[n] = note[n]
      => \E i \in DOMAIN ix.chunks : ix.chunks[i] = <<n, note[n]>>

(* The same, as long as notes can be read: an update records one that it     *)
(* could not read as well.                                                   *)
NeverBlind == left.legible => RecordedIsIndexed

\* The index holds each note as it is, and nothing else.
Current ==
  LET ix == Loaded(meta, emb) IN
    {ix.chunks[i] : i \in DOMAIN ix.chunks} = {<<n, note[n]>> : n \in {n \in Notes : note[n] # 0}}

(* A start brings the index up to date with whatever is on disk (main.rs),   *)
(* and searches that update as well leave it so: notes that came while       *)
(* nothing ran, what a killed update or crossing saves of earlier left, as   *)
(* long as notes can be read.  Not meant is what StartAlwaysIndexes shows to *)
(* be lost: the start's update is killed, or any one between its renames,    *)
(* two saves cross, or an update left by a quit saves what it saw before.    *)
StartIndexes == (up /\ ~ late /\ left.legible) ~> (~ up \/ late \/ spoiled \/ Current)

(* "The rename itself is atomic and stays the arbiter of who wins"           *)
(* (index.rs): no update beside the start's costs the start anything.        *)
StartAlwaysIndexes == (up /\ ~ late /\ left.legible) ~> (~ up \/ late \/ Current)

(* A search comes back, whatever the resident process does: a wedged one is  *)
(* given up on, and the lock with it (resident.rs REQUEST_DEADLINE).         *)
AskReturns == \A q \in Asks : (ask[q] = "waiting") ~> (ask[q] \in {"done", "idle"})

(* The hits a search is given are its own, also after an answer that came    *)
(* too late: a stream that is out of step is dropped (resident.rs).          *)
AnswerIsMine == \A q \in Asks : ask[q] = "done" => got[q] \in {q, None}

(* "A note on disk the index has not seen is a note no search finds [...] so *)
(* this is safe to call on every write" (mod.rs): what is written by hand    *)
(* comes into the index.                                                     *)
WrittenIsIndexed == [](up /\ late => <>(Current \/ ~ up))
=============================================================================
