-------------------------- MODULE NoteIndexProofs --------------------------
(***************************************************************************)
(* Theorems of NoteIndex, for every set of notes, updates, searches and    *)
(* modes: whatever interleaves, is killed, wedges, comes late or is reaped.*)
(*                                                                         *)
(* A matrix is put in place with the mark of the chunks it was made for,   *)
(* and an update carries rows and chunks side by side from the load to the *)
(* save: so a load pairs them, or finds nothing.  And the stream of the    *)
(* resident process holds at most one line, the lock holder's, since who   *)
(* gives up takes the process along.                                       *)
(***************************************************************************)
EXTENDS NoteIndex, WellFoundedInduction, TLAPS

IsIndex(ix) == ix \in [files : {ix.files}, chunks : {ix.chunks}, rows : {ix.rows}]
Paired(ix) == IsIndex(ix) /\ ix.rows = ix.chunks

IsProc(r) == r \in [pc : {r.pc}, seen : {r.seen}, old : {r.old}, todo : {r.todo}, ix : {r.ix}]
PairedProc(r) == IsProc(r) /\ Paired(r.old) /\ Paired(r.ix)

\* Rows and chunks belong to each other in the file and in every update.
MatrixPaired == emb # None => emb.rows = emb.mark
ProcsPaired == proc = [p \in Procs |-> proc[p]] /\ \A p \in Procs : PairedProc(proc[p])
RowsInv == MatrixPaired /\ ProcsPaired

-----------------------------------------------------------------------------
(* Rows and chunks. *)

\* A load is an index whose rows are its chunks', or nothing.
LEMMA LoadedPaired == ASSUME MatrixPaired, NEW m PROVE Paired(Loaded(m, emb))
<1>1. Paired(Nothing)  BY DEF Nothing, Paired, IsIndex
<1>2. CASE m # None /\ emb # None /\ emb.mark = m.chunks
  <2>1. Loaded(m, emb) = [files |-> m.files, chunks |-> m.chunks, rows |-> emb.rows]
    BY <1>2 DEF Loaded
  <2>2. emb.rows = m.chunks  BY <1>2 DEF MatrixPaired
  <2> QED BY <2>1, <2>2 DEF Paired, IsIndex
<1>3. CASE ~ (m # None /\ emb # None /\ emb.mark = m.chunks)
  <2>1. Loaded(m, emb) = Nothing  BY <1>3 DEF Loaded
  <2> QED BY <1>1, <2>1
<1> QED BY <1>2, <1>3

LEMMA OffPaired == PairedProc(Off)
BY DEF Off, Nothing, PairedProc, IsProc, Paired, IsIndex

LEMMA BeginPaired == PairedProc([Off EXCEPT !.pc = "meta"])
BY DEF Off, Nothing, PairedProc, IsProc, Paired, IsIndex

\* What is kept of chunks and of rows is the same, when they are.
LEMMA KeptPaired == ASSUME NEW old, Paired(old), NEW stat PROVE Paired(Kept(old, stat))
BY DEF Paired, IsIndex, Kept

\* One process goes on, the others are where they were.
LEMMA OneProc ==
  ASSUME ProcsPaired, NEW p, NEW r, PairedProc(r), proc' = [proc EXCEPT ![p] = r]
  PROVE  ProcsPaired'
BY DEF ProcsPaired

LEMMA EndsPaired ==
  ASSUME ProcsPaired, NEW p, NEW hits, Ends(p, hits)
  PROVE  ProcsPaired'
BY OneProc, OffPaired DEF Ends

LEMMA SpawnPaired == ASSUME ProcsPaired, SpawnReindex PROVE ProcsPaired'
<1>1. CASE indexing # None  BY <1>1 DEF SpawnReindex, ProcsPaired
<1>2. CASE indexing = None
  <2>1. PICK p : Begin(p)  BY <1>2 DEF SpawnReindex
  <2> QED BY <2>1, OneProc, BeginPaired DEF Begin
<1> QED BY <1>1, <1>2

LEMMA AlonePaired == ASSUME ProcsPaired, NEW q, Alone(q) PROVE ProcsPaired'
BY OneProc, BeginPaired DEF Alone, Begin

\* The steps of an update before its save.
LEMMA WorkPaired ==
  ASSUME RowsInv, NEW p \in Procs,
         ReadMeta(p) \/ ReadEmb(p) \/ Scan(p) \/ ReadNote(p)
  PROVE  ProcsPaired'
<1>0. PairedProc(proc[p]) /\ proc = [k \in Procs |-> proc[k]]  BY DEF RowsInv, ProcsPaired
<1>1. CASE ReadMeta(p)
  <2> DEFINE r == [proc[p] EXCEPT !.pc = "emb", !.seen = meta]
  <2>1. PairedProc(r)  BY <1>0 DEF PairedProc, IsProc
  <2>2. proc' = [proc EXCEPT ![p] = r]  BY <1>0, <1>1 DEF ReadMeta
  <2> HIDE DEF r
  <2> QED BY <2>1, <2>2, OneProc DEF RowsInv
<1>2. CASE ReadEmb(p)
  <2> DEFINE ix == Loaded(proc[p].seen, emb)
             r == [proc[p] EXCEPT !.pc = "scan", !.seen = None, !.old = ix]
  <2>0. Paired(ix)  BY LoadedPaired DEF RowsInv
  <2> HIDE DEF ix
  <2>1. PairedProc(r)  BY <1>0, <2>0 DEF PairedProc, IsProc
  <2>2. proc' = [proc EXCEPT ![p] = r]  BY <1>0, <1>2 DEF ReadEmb, ix
  <2> HIDE DEF r
  <2> QED BY <2>1, <2>2, OneProc DEF RowsInv
<1>3. CASE Scan(p)
  <2> DEFINE todo == Changed(proc[p].old, note)
             ix == Kept(proc[p].old, note)
             r == [proc[p] EXCEPT !.pc = "read", !.old = Nothing, !.todo = todo, !.ix = ix]
  <2>0. Paired(ix) /\ Paired(Nothing)
    BY <1>0, KeptPaired, OffPaired DEF PairedProc, Off
  <2>2. proc' = [proc EXCEPT ![p] = r]  BY <1>0, <1>3 DEF Scan
  <2> HIDE DEF ix, todo
  <2>1. PairedProc(r)  BY <1>0, <2>0 DEF PairedProc, IsProc
  <2> HIDE DEF r
  <2> QED BY <2>1, <2>2, OneProc DEF RowsInv
<1>4. CASE ReadNote(p)
  <2> DEFINE n == First(proc[p].todo)
             row == <<n, note[n]>>
             ix == [proc[p].ix EXCEPT !.chunks = Append(@, row), !.rows = Append(@, row)]
             skips == [proc[p] EXCEPT !.todo = @ \ {n}]
             reads == [proc[p] EXCEPT !.todo = @ \ {n}, !.ix = ix]
  <2>1. proc' = [proc EXCEPT ![p] = skips] \/ proc' = [proc EXCEPT ![p] = reads]
    BY <1>0, <1>4 DEF ReadNote, PairedProc, IsProc
  <2> HIDE DEF n, row
  <2>2. Paired(ix)  BY <1>0 DEF PairedProc, Paired, IsIndex
  <2> HIDE DEF ix
  <2>3. PairedProc(skips)  BY <1>0 DEF PairedProc, IsProc
  <2>4. PairedProc(reads)  BY <1>0, <2>2 DEF PairedProc, IsProc
  <2> HIDE DEF skips, reads
  <2> QED BY <2>1, <2>3, <2>4, OneProc DEF RowsInv
<1> QED BY <1>1, <1>2, <1>3, <1>4

\* A save puts rows and the mark of their chunks, and changes nothing else.
LEMMA SavePaired ==
  ASSUME RowsInv, NEW p \in Procs, PutEmb(p)
  PROVE  RowsInv'
<1>0. PairedProc(proc[p]) /\ proc = [k \in Procs |-> proc[k]]  BY DEF RowsInv, ProcsPaired
<1>1. MatrixPaired'
  <2>1. emb' = [mark |-> proc[p].ix.chunks, rows |-> proc[p].ix.rows]  BY DEF PutEmb
  <2> QED BY <1>0, <2>1 DEF PairedProc, Paired, MatrixPaired
<1>2. ProcsPaired'
  <2> DEFINE r == [proc[p] EXCEPT !.pc = "put"]
  <2>1. PairedProc(r)  BY <1>0 DEF PairedProc, IsProc
  <2>2. proc' = [proc EXCEPT ![p] = r]  BY <1>0 DEF PutEmb
  <2> HIDE DEF r
  <2> QED BY <2>1, <2>2, OneProc DEF RowsInv
<1> QED BY <1>1, <1>2 DEF RowsInv

LEMMA RowsBegin == Init => RowsInv
<1> SUFFICES ASSUME Init PROVE RowsInv  OBVIOUS
<1>1. MatrixPaired
  <2>1. PICK n \in Notes, cold \in BOOLEAN :
          emb = IF cold THEN None ELSE [mark |-> <<<<n, 1>>>>, rows |-> <<<<n, 1>>>>]
    BY DEF Init
  <2> QED BY <2>1 DEF MatrixPaired
<1>2. ProcsPaired
  <2>1. proc = [p \in Procs |-> Off]  BY DEF Init
  <2> QED BY <2>1, OffPaired DEF ProcsPaired
<1> QED BY <1>1, <1>2 DEF RowsInv

LEMMA RowsKept == RowsInv /\ [Next]_vars => RowsInv'
<1> SUFFICES ASSUME RowsInv, [Next]_vars PROVE RowsInv'  OBVIOUS
<1> USE DEF index
<1>s. ASSUME UNCHANGED emb, ProcsPaired' PROVE RowsInv'
  BY <1>s DEF RowsInv, MatrixPaired
<1>u. ASSUME UNCHANGED proc PROVE ProcsPaired'  BY <1>u DEF RowsInv, ProcsPaired
<1>1. ASSUME NEW p \in Procs, Work(p) \/ Killed(p) PROVE RowsInv'
  <2>1. CASE PutEmb(p)  BY <2>1, SavePaired
  <2>2. CASE ReadMeta(p) \/ ReadEmb(p) \/ Scan(p) \/ ReadNote(p)
    BY <2>2, <1>s, WorkPaired DEF ReadMeta, ReadEmb, Scan, ReadNote
  <2>3. CASE NothingChanged(p)
    BY <2>3, <1>s, EndsPaired DEF NothingChanged, RowsInv
  <2>4. CASE PutMeta(p)  BY <2>4, <1>s, EndsPaired DEF PutMeta, RowsInv
  <2>5. CASE Killed(p)  BY <2>5, <1>s, EndsPaired DEF Killed, RowsInv
  <2> QED BY <1>1, <2>1, <2>2, <2>3, <2>4, <2>5 DEF Work
<1>2. ASSUME NEW n \in Notes, WriteByHand(n) PROVE RowsInv'
  BY <1>2, <1>s, SpawnPaired DEF WriteByHand, RowsInv
<1>3. ASSUME NEW n \in Notes, NEW there \in BOOLEAN, Arrive(n, there) PROVE RowsInv'
  BY <1>3, <1>s, <1>u DEF Arrive
<1>4. CASE Stop  BY <1>4, <1>s, <1>u DEF Stop
<1>5. CASE StartApp  BY <1>5, <1>s, SpawnPaired DEF StartApp, RowsInv
<1>6. ASSUME NEW q \in Asks, Ask(q) \/ Search(q) PROVE RowsInv'
  <2>1. CASE Ask(q)  BY <2>1, <1>s, <1>u DEF Ask
  <2>2. CASE Take(q)  BY <2>2, <1>s, <1>u DEF Take
  <2>3. CASE SpawnFails(q)  BY <2>3, <1>s, AlonePaired DEF SpawnFails, RowsInv
  <2>4. CASE Hear(q)  BY <2>4, <1>s, <1>u DEF Hear
  <2>5. CASE GiveUp(q)  BY <2>5, <1>s, AlonePaired DEF GiveUp, RowsInv
  <2> QED BY <1>6, <2>1, <2>2, <2>3, <2>4, <2>5 DEF Search
<1>7. CASE Child \/ ChildStops \/ Reap
  BY <1>7, <1>s, <1>u DEF Child, ChildReads, ChildAnswers, ChildStops, Reap
<1>8. CASE UNCHANGED vars  BY <1>8, <1>s, <1>u DEF vars
<1> QED BY <1>1, <1>2, <1>3, <1>4, <1>5, <1>6, <1>7, <1>8 DEF Next

(* Vectors always belong to their texts, for every load at every moment      *)
(* (index.rs, fingerprint).                                                  *)
THEOREM SearchIsAlwaysTrue == Spec => []SearchIsTrue
<1>1. RowsInv => SearchIsTrue
  BY LoadedPaired DEF RowsInv, SearchIsTrue, Paired
<1> QED BY <1>1, RowsBegin, RowsKept, PTL DEF Spec

-----------------------------------------------------------------------------
(* The stream of the resident process. *)

Line(s, q) == s = <<>> \/ s = <<q>>
IsLive == live \in [in : {live.in}, out : {live.out}, seen : {live.seen}, stuck : {live.stuck}]

\* Whoever holds the lock asks, and only its request or its answer is on the way.
OwnLine ==
  /\ lock \in Asks \cup {None}
  /\ \A q \in Asks : ask[q] = "asking" => lock = q
  /\ lock # None => /\ ask[lock] = "asking" /\ IsLive
                    /\ \/ live.in = <<lock>> /\ live.out = <<>>
                       \/ live.in = <<>> /\ live.out = <<lock>> /\ live.seen = None
  /\ lock = None /\ live # None => IsLive /\ live.in = <<>> /\ live.out = <<>>
                                 /\ live.seen = None
Callers == ask = [q \in Asks |-> ask[q]] /\ got = [q \in Asks |-> got[q]]
StreamInv == Callers /\ OwnLine /\ AnswerIsMine

LEMMA StreamBegins == Init => StreamInv
BY DEF Init, StreamInv, Callers, OwnLine, AnswerIsMine

\* The end of a process answers the asker whose process it is, or nobody.
LEMMA EndsStream ==
  ASSUME StreamInv, NEW p \in Procs, NEW hits \in {p, None}, Ends(p, hits),
         UNCHANGED <<lock, live>>
  PROVE  StreamInv'
<1>1. CASE p \in Asks /\ ask[p] = "alone"
  <2>1. ask' = [ask EXCEPT ![p] = "done"] /\ got' = [got EXCEPT ![p] = hits]
    BY <1>1 DEF Ends
  <2>2. Callers'  BY <2>1 DEF StreamInv, Callers
  <2>3. OwnLine'  BY <1>1, <2>1 DEF StreamInv, Callers, OwnLine, IsLive
  <2>4. AnswerIsMine'  BY <1>1, <2>1 DEF StreamInv, Callers, AnswerIsMine
  <2> QED BY <2>2, <2>3, <2>4 DEF StreamInv
<1>2. CASE ~ (p \in Asks /\ ask[p] = "alone")
  <2>1. UNCHANGED <<ask, got>>  BY <1>2 DEF Ends
  <2> QED BY <2>1 DEF StreamInv, Callers, OwnLine, AnswerIsMine, IsLive
<1> QED BY <1>1, <1>2

\* What an asker does without the resident process leaves the stream alone.
LEMMA AloneStream ==
  ASSUME StreamInv, NEW q \in Asks, ask[q] \in {"waiting", "asking"}, Alone(q), UNCHANGED got,
         \/ UNCHANGED <<lock, live>> /\ lock = None
         \/ lock = q /\ lock' = None /\ live' = None
  PROVE  StreamInv'
<1>1. ask' = [ask EXCEPT ![q] = "alone"]  BY DEF Alone
<1>2. Callers'  BY <1>1 DEF StreamInv, Callers
<1>3. AnswerIsMine'  BY <1>1 DEF StreamInv, Callers, AnswerIsMine
<1>4. OwnLine'
  <2>1. \A k \in Asks : ask'[k] = "asking" => k # q /\ lock = k
    BY <1>1 DEF StreamInv, Callers, OwnLine
  <2>2. CASE UNCHANGED <<lock, live>> /\ lock = None
    BY <2>1, <2>2 DEF StreamInv, OwnLine, IsLive
  <2>3. CASE lock = q /\ lock' = None /\ live' = None
    BY <2>1, <2>3 DEF OwnLine
  <2> QED BY <2>2, <2>3
<1> QED BY <1>2, <1>3, <1>4 DEF StreamInv

\* What a stream of one line makes of it.
LEMMA OneLine ==
  ASSUME NEW q PROVE Append(<<>>, q) = <<q>> /\ Tail(<<q>>) = <<>> /\ Head(<<q>>) = q
OBVIOUS

LEMMA TakeStream ==
  ASSUME StreamInv, None \notin Asks, NEW q \in Asks, Take(q)
  PROVE  StreamInv'
<1>1. ask' = [ask EXCEPT ![q] = "asking"] /\ lock' = q /\ got' = got /\ lock = None
  BY DEF Take
<1>2. Callers'  BY <1>1 DEF StreamInv, Callers
<1>3. AnswerIsMine'  BY <1>1 DEF StreamInv, Callers, AnswerIsMine
<1>4. OwnLine'
  <2> DEFINE child == IF live = None THEN Fresh ELSE live
  <2>1. /\ child \in [in : {<<>>}, out : {<<>>}, seen : {child.seen}, stuck : {child.stuck}]
    BY <1>1 DEF StreamInv, OwnLine, IsLive, Fresh
  <2>2. live' = [child EXCEPT !.in = Append(@, q)]  BY DEF Take
  <2> HIDE DEF child
  <2>a. live' = [child EXCEPT !.in = <<q>>]  BY <2>1, <2>2, OneLine
  <2>3. live' \in [in : {<<q>>}, out : {<<>>}, seen : {child.seen}, stuck : {child.stuck}]
    BY <2>1, <2>a
  <2>4. IsLive' /\ live'.in = <<q>> /\ live'.out = <<>>  BY <2>3 DEF IsLive
  <2>5. \A k \in Asks : ask'[k] = "asking" => k = q
    BY <1>1 DEF StreamInv, Callers, OwnLine
  <2>6. ask'[q] = "asking"  BY <1>1 DEF StreamInv, Callers
  <2> QED BY <1>1, <2>4, <2>5, <2>6 DEF OwnLine
<1> QED BY <1>2, <1>3, <1>4 DEF StreamInv

\* The line that is heard is the answer to whoever hears it.
LEMMA HearStream ==
  ASSUME StreamInv, None \notin Asks, NEW q \in Asks, Hear(q)
  PROVE  StreamInv'
<1>0. lock = q /\ lock # None /\ IsLive /\ live.in = <<>> /\ live.out = <<q>> /\ live.seen = None
  BY DEF Hear, StreamInv, OwnLine
<1>1. ask' = [ask EXCEPT ![q] = "done"] /\ got' = [got EXCEPT ![q] = q] /\ lock' = None
  BY <1>0 DEF Hear
<1>2. Callers'  BY <1>1 DEF StreamInv, Callers
<1>3. AnswerIsMine'  BY <1>1 DEF StreamInv, Callers, AnswerIsMine
<1>4. OwnLine'
  <2>1. live' = [live EXCEPT !.out = Tail(@)]  BY DEF Hear
  <2>2. live' \in [in : {<<>>}, out : {<<>>}, seen : {None}, stuck : {live.stuck}]
    BY <1>0, <2>1 DEF IsLive
  <2>3. IsLive' /\ live'.in = <<>> /\ live'.out = <<>> /\ live'.seen = None  BY <2>2 DEF IsLive
  <2>4. \A k \in Asks : ask'[k] # "asking"  BY <1>0, <1>1 DEF StreamInv, Callers, OwnLine
  <2> QED BY <1>1, <2>3, <2>4 DEF OwnLine
<1> QED BY <1>2, <1>3, <1>4 DEF StreamInv

\* The child reads the one request there is, and answers that.
LEMMA ChildStream ==
  ASSUME StreamInv, ChildReads \/ ChildAnswers \/ ChildStops
  PROVE  StreamInv'
<1>0. UNCHANGED <<ask, got, lock>>  BY DEF ChildReads, ChildAnswers, ChildStops
<1>1. Callers' /\ AnswerIsMine'  BY <1>0 DEF StreamInv, Callers, AnswerIsMine
<1>2. live # None /\ IsLive  BY DEF StreamInv, OwnLine, ChildReads, ChildAnswers, ChildStops, Running
<1>3. CASE ChildReads
  <2>1. live' = [live EXCEPT !.seen = <<meta>>]  BY <1>3 DEF ChildReads
  <2>2. live' \in [in : {live.in}, out : {live.out}, seen : {<<meta>>}, stuck : {live.stuck}]
    BY <1>2, <2>1 DEF IsLive
  <2>3. IsLive' /\ live'.in = live.in /\ live'.out = live.out  BY <2>2 DEF IsLive
  <2>4. lock # None /\ live.in = <<lock>> /\ live.out = <<>>
    BY <1>2, <1>3 DEF StreamInv, OwnLine, ChildReads
  <2> QED BY <1>0, <1>1, <1>2, <2>3, <2>4 DEF StreamInv, OwnLine
<1>4. CASE ChildStops
  <2>1. live' = [live EXCEPT !.stuck = TRUE]  BY <1>4 DEF ChildStops
  <2>2. live' \in [in : {live.in}, out : {live.out}, seen : {live.seen}, stuck : {TRUE}]
    BY <1>2, <2>1 DEF IsLive
  <2>3. IsLive' /\ live'.in = live.in /\ live'.out = live.out /\ live'.seen = live.seen
    BY <2>2 DEF IsLive
  <2> QED BY <1>0, <1>1, <1>2, <2>3 DEF StreamInv, OwnLine
<1>5. CASE ChildAnswers
  <2>0. live.seen # None  BY <1>5 DEF ChildAnswers
  <2>1. live' = [live EXCEPT !.seen = None, !.in = Tail(@), !.out = Append(@, Head(live.in))]
    BY <1>5 DEF ChildAnswers
  <2>2. lock # None /\ live.in = <<lock>> /\ live.out = <<>>
    BY <1>2, <2>0 DEF StreamInv, OwnLine
  <2>a. live' = [live EXCEPT !.seen = None, !.in = <<>>, !.out = <<lock>>]
    BY <2>1, <2>2, OneLine
  <2>3. live' \in [in : {<<>>}, out : {<<lock>>}, seen : {None}, stuck : {live.stuck}]
    BY <1>2, <2>a DEF IsLive
  <2>4. IsLive' /\ live'.in = <<>> /\ live'.out = <<lock>> /\ live'.seen = None  BY <2>3 DEF IsLive
  <2> QED BY <1>0, <1>1, <2>2, <2>4 DEF StreamInv, OwnLine
<1> QED BY <1>3, <1>4, <1>5

LEMMA StreamKept ==
  ASSUME StreamInv, None \notin Asks, [Next]_vars
  PROVE  StreamInv'
<1> USE DEF asking
<1>u. ASSUME UNCHANGED asking PROVE StreamInv'
  BY <1>u DEF StreamInv, Callers, OwnLine, AnswerIsMine, IsLive
<1>1. ASSUME NEW p \in Procs, Work(p) \/ Killed(p) PROVE StreamInv'
  <2>1. CASE ReadMeta(p) \/ ReadEmb(p) \/ Scan(p) \/ ReadNote(p) \/ PutEmb(p)
    BY <2>1, <1>u DEF ReadMeta, ReadEmb, Scan, ReadNote, PutEmb
  <2>2. CASE NothingChanged(p)  BY <2>2, EndsStream DEF NothingChanged
  <2>3. CASE PutMeta(p)  BY <2>3, EndsStream DEF PutMeta
  <2>4. CASE Killed(p)  BY <2>4, EndsStream DEF Killed
  <2> QED BY <1>1, <2>1, <2>2, <2>3, <2>4 DEF Work
<1>2. ASSUME NEW n \in Notes, WriteByHand(n) PROVE StreamInv'  BY <1>2, <1>u DEF WriteByHand
<1>3. ASSUME NEW n \in Notes, NEW there \in BOOLEAN, Arrive(n, there) PROVE StreamInv'
  BY <1>3, <1>u DEF Arrive
<1>4. CASE Stop
  <2>1. ask' = [q \in Asks |-> "idle"] /\ lock' = None /\ live' = None /\ got' = got
    BY <1>4 DEF Stop
  <2> QED BY <2>1 DEF StreamInv, Callers, OwnLine, AnswerIsMine
<1>5. CASE StartApp  BY <1>5, <1>u DEF StartApp
<1>6. ASSUME NEW q \in Asks, Ask(q) PROVE StreamInv'
  <2>1. ask' = [ask EXCEPT ![q] = "waiting"] /\ UNCHANGED <<got, lock, live>> /\ ask[q] = "idle"
    BY <1>6 DEF Ask
  <2>2. Callers'  BY <2>1 DEF StreamInv, Callers
  <2>3. AnswerIsMine'  BY <2>1 DEF StreamInv, Callers, AnswerIsMine
  <2>4. OwnLine'  BY <2>1 DEF StreamInv, Callers, OwnLine, IsLive
  <2> QED BY <2>2, <2>3, <2>4 DEF StreamInv
<1>7. ASSUME NEW q \in Asks, Search(q) PROVE StreamInv'
  <2>1. CASE Take(q)  BY <2>1, TakeStream
  <2>2. CASE Hear(q)  BY <2>2, HearStream
  <2>3. CASE SpawnFails(q)  BY <2>3, AloneStream DEF SpawnFails
  <2>4. CASE GiveUp(q)
    <3>1. lock = q /\ lock' = None /\ live' = None /\ Alone(q) /\ UNCHANGED got
      BY <2>4 DEF GiveUp, AfterError, ChildDropped
    <3>2. ask[q] = "asking"  BY <3>1 DEF StreamInv, OwnLine
    <3> QED BY <3>1, <3>2, AloneStream
  <2> QED BY <1>7, <2>1, <2>2, <2>3, <2>4 DEF Search
<1>8. CASE Child \/ ChildStops  BY <1>8, ChildStream DEF Child
<1>9. CASE Reap
  <2>1. lock = None /\ live' = None /\ UNCHANGED <<ask, got, lock>>  BY <1>9 DEF Reap
  <2> QED BY <2>1 DEF StreamInv, Callers, OwnLine, AnswerIsMine
<1>10. CASE UNCHANGED vars  BY <1>10, <1>u DEF vars
<1> QED BY <1>1, <1>2, <1>3, <1>4, <1>5, <1>6, <1>7, <1>8, <1>9, <1>10 DEF Next

(* The hits a search is given are its own, whatever wedges, is given up on,  *)
(* reaped or killed (resident.rs).                                           *)
THEOREM AnswersAreMine == Spec => []AnswerIsMine
<1>1. None \notin Asks  BY ProcsAssumption
<1>2. StreamInv /\ [Next]_vars => StreamInv'  BY <1>1, StreamKept
<1>3. StreamInv => AnswerIsMine  BY DEF StreamInv
<1> QED BY <1>2, <1>3, StreamBegins, PTL DEF Spec

-----------------------------------------------------------------------------
(* Recursion and induction over the natural numbers.                         *)

\* A set of natural numbers has a least one,
LEMMA LeastNat ==
  ASSUME NEW T \in SUBSET Nat, T # {}
  PROVE  \E x \in T : \A y \in T : x <= y
<1>1. PICK x \in T : \A y \in T : ~ (<<y, x>> \in OpToRel(<, Nat))
  BY NatLessThanWellFounded, WFMin, Zenon
<1>2. \A y \in T : ~ (y < x)  BY <1>1, Zenon DEF OpToRel
<1> QED BY <1>2

\* so a set that has 0, and what follows each of its numbers, has them all,
LEMMA Induct ==
  ASSUME NEW T \in SUBSET Nat, 0 \in T, \A n \in T : n + 1 \in T
  PROVE  T = Nat
<1> SUFFICES ASSUME Nat \ T # {} PROVE FALSE  OBVIOUS
<1>1. PICK x \in Nat \ T : \A y \in Nat \ T : x <= y  BY LeastNat
<1>2. x - 1 \in Nat /\ (x - 1) + 1 = x  OBVIOUS
<1> QED BY <1>1, <1>2

Recurs(f, n, base, step) ==
  \A i \in 0 .. n : f[i] = IF i = 0 THEN base ELSE step[i][f[i - 1]]

\* and what a recursion defines step by step exists.
LEMMA Recursion ==
  ASSUME NEW V, NEW base \in V, NEW n \in Nat, NEW step \in [Nat -> [V -> V]]
  PROVE  \E f \in [0 .. n -> V] : Recurs(f, n, base, step)
<1> DEFINE T == {m \in Nat : \E f \in [0 .. m -> V] : Recurs(f, m, base, step)}
<1>1. 0 \in T
  <2> DEFINE f == [i \in 0 .. 0 |-> base]
  <2>1. f \in [0 .. 0 -> V] /\ Recurs(f, 0, base, step)  BY DEF Recurs
  <2> QED BY <2>1
<1>2. ASSUME NEW m \in T PROVE m + 1 \in T
  <2>1. PICK f \in [0 .. m -> V] : Recurs(f, m, base, step)  OBVIOUS
  <2> DEFINE g == [i \in 0 .. m + 1 |-> IF i = m + 1 THEN step[i][f[m]] ELSE f[i]]
  <2>2. m \in Nat /\ m + 1 \in Nat /\ m \in 0 .. m  OBVIOUS
  <2>3. g \in [0 .. m + 1 -> V]
    <3>1. step[m + 1][f[m]] \in V  BY <2>2
    <3> QED BY <2>2, <3>1
  <2>4. ASSUME NEW i \in 0 .. m + 1
        PROVE  g[i] = IF i = 0 THEN base ELSE step[i][g[i - 1]]
    <3>1. CASE i = m + 1  BY <2>2, <3>1
    <3>2. CASE i # m + 1
      <4>1. i \in 0 .. m /\ (i # 0 => i - 1 \in 0 .. m /\ i - 1 # m + 1)  BY <2>2, <3>2
      <4>2. f[i] = IF i = 0 THEN base ELSE step[i][f[i - 1]]  BY <2>1, <4>1 DEF Recurs
      <4>3. g[i] = f[i] /\ (i # 0 => g[i - 1] = f[i - 1])  BY <2>2, <3>2, <4>1
      <4> QED BY <4>2, <4>3
    <3> QED BY <3>1, <3>2
  <2> HIDE DEF g
  <2>5. Recurs(g, m + 1, base, step)  BY <2>4 DEF Recurs
  <2> QED BY <2>2, <2>3, <2>5
<1> HIDE DEF T
<1>3. T \in SUBSET Nat  BY DEF T
<1>4. T = Nat  BY <1>1, <1>2, <1>3, Induct
<1> QED BY <1>4 DEF T

-----------------------------------------------------------------------------
(* What a filter keeps.                                                      *)

Filters(f, rows, old, stat) ==
  f = [i \in 0 .. Len(rows) |->
        IF i = 0 THEN <<>>
        ELSE IF Stays(rows[i], old, stat) THEN Append(f[i - 1], rows[i]) ELSE f[i - 1]]

\* Staying is the last step of its recursion.
LEMMA StayingRecurs ==
  ASSUME NEW X, NEW rows \in Seq(X), NEW old, NEW stat
  PROVE  \E f : Filters(f, rows, old, stat) /\ Staying(rows, old, stat) = f[Len(rows)]
<1> DEFINE keeps(i) == i \in DOMAIN rows /\ Stays(rows[i], old, stat)
           step == [i \in Nat |-> [s \in Seq(X) |-> IF keeps(i) THEN Append(s, rows[i]) ELSE s]]
<1>1. step \in [Nat -> [Seq(X) -> Seq(X)]]  OBVIOUS
<1>2. <<>> \in Seq(X) /\ Len(rows) \in Nat /\ DOMAIN rows = 1 .. Len(rows)  OBVIOUS
<1>3. \A i \in Nat : \A s \in Seq(X) : step[i][s] = IF keeps(i) THEN Append(s, rows[i]) ELSE s
  OBVIOUS
<1> HIDE DEF step
<1>4. PICK f \in [0 .. Len(rows) -> Seq(X)] : Recurs(f, Len(rows), <<>>, step)
  BY <1>1, <1>2, Recursion
<1>5. Filters(f, rows, old, stat)
  <2>1. ASSUME NEW i \in 0 .. Len(rows)
        PROVE  f[i] = IF i = 0 THEN <<>>
                      ELSE IF Stays(rows[i], old, stat) THEN Append(f[i - 1], rows[i])
                           ELSE f[i - 1]
    <3>1. CASE i = 0  BY <1>4, <3>1 DEF Recurs
    <3>2. CASE i # 0
      <4>1. i \in DOMAIN rows /\ i \in Nat /\ i - 1 \in 0 .. Len(rows)  BY <1>2, <3>2
      <4>2. f[i] = step[i][f[i - 1]]  BY <1>4, <3>2 DEF Recurs
      <4> QED BY <1>3, <3>2, <4>1, <4>2
    <3> QED BY <3>1, <3>2
  <2> QED BY <2>1 DEF Filters
<1> DEFINE g == CHOOSE h : Filters(h, rows, old, stat)
<1>6. Filters(g, rows, old, stat)  BY <1>5
<1>7. Staying(rows, old, stat) = g[Len(rows)]  BY DEF Staying, Filters
<1> QED BY <1>6, <1>7

\* The rows that stay are all there, and nothing but rows is.
LEMMA StayingKeeps ==
  ASSUME NEW X, NEW rows \in Seq(X), NEW old, NEW stat
  PROVE  /\ Staying(rows, old, stat) \in Seq(X)
         /\ \A k \in DOMAIN rows : Stays(rows[k], old, stat) =>
               \E j \in DOMAIN Staying(rows, old, stat) : Staying(rows, old, stat)[j] = rows[k]
<1>1. PICK f : Filters(f, rows, old, stat) /\ Staying(rows, old, stat) = f[Len(rows)]
  BY StayingRecurs
<1> DEFINE Has(s, n) == /\ s \in Seq(X)
                        /\ \A k \in 1 .. n : Stays(rows[k], old, stat) =>
                              \E j \in DOMAIN s : s[j] = rows[k]
           T == {i \in Nat : i <= Len(rows) => Has(f[i], i)}
<1>2. Len(rows) \in Nat /\ DOMAIN rows = 1 .. Len(rows)  OBVIOUS
<1>3. f[0] = <<>> /\ \A i \in 1 .. Len(rows) :
         f[i] = IF Stays(rows[i], old, stat) THEN Append(f[i - 1], rows[i]) ELSE f[i - 1]
  <2>1. ASSUME NEW i \in 0 .. Len(rows)
        PROVE  f[i] = IF i = 0 THEN <<>>
                      ELSE IF Stays(rows[i], old, stat) THEN Append(f[i - 1], rows[i])
                           ELSE f[i - 1]
    BY <1>1, <2>1 DEF Filters
  <2>2. 0 \in 0 .. Len(rows) /\ \A i \in 1 .. Len(rows) : i \in 0 .. Len(rows) /\ i # 0
    BY <1>2
  <2>3. f[0] = <<>>  BY <2>1, <2>2
  <2> QED BY <2>1, <2>2, <2>3
<1>4. 0 \in T
  <2>1. <<>> \in Seq(X) /\ 1 .. 0 = {}  OBVIOUS
  <2> QED BY <1>3, <2>1
<1>5. ASSUME NEW i \in T PROVE i + 1 \in T
  <2>0. i \in Nat /\ i + 1 \in Nat  OBVIOUS
  <2> SUFFICES ASSUME i + 1 <= Len(rows) PROVE Has(f[i + 1], i + 1)  BY <2>0
  <2>1. i + 1 \in 1 .. Len(rows) /\ (i + 1) - 1 = i /\ i <= Len(rows) /\ rows[i + 1] \in X
    BY <1>2, <2>0
  <2>2. Has(f[i], i)  BY <2>0, <2>1
  <2>3. CASE Stays(rows[i + 1], old, stat)
    <3>1. f[i + 1] = Append(f[i], rows[i + 1])  BY <1>3, <2>1, <2>3
    <3>2. f[i + 1] \in Seq(X) /\ Len(f[i + 1]) = Len(f[i]) + 1
          /\ f[i + 1][Len(f[i]) + 1] = rows[i + 1]
          /\ \A j \in 1 .. Len(f[i]) : f[i + 1][j] = f[i][j]
      BY <2>1, <2>2, <3>1
    <3>3. ASSUME NEW k \in 1 .. i + 1, Stays(rows[k], old, stat)
          PROVE  \E j \in DOMAIN f[i + 1] : f[i + 1][j] = rows[k]
      <4>1. CASE k = i + 1
        <5>1. Len(f[i]) + 1 \in DOMAIN f[i + 1]  BY <2>2, <3>2
        <5> QED BY <3>2, <4>1, <5>1
      <4>2. CASE k # i + 1
        <5>1. k \in 1 .. i  BY <2>0, <4>2
        <5>2. PICK j \in DOMAIN f[i] : f[i][j] = rows[k]  BY <2>2, <3>3, <5>1
        <5>3. j \in 1 .. Len(f[i]) /\ j \in DOMAIN f[i + 1]  BY <2>2, <3>2
        <5> QED BY <3>2, <5>2, <5>3
      <4> QED BY <4>1, <4>2
    <3> QED BY <3>2, <3>3
  <2>4. CASE ~ Stays(rows[i + 1], old, stat)
    <3>1. f[i + 1] = f[i]  BY <1>3, <2>1, <2>4
    <3>2. \A k \in 1 .. i + 1 : k = i + 1 \/ k \in 1 .. i  BY <2>0
    <3> QED BY <2>2, <2>4, <3>1, <3>2
  <2> QED BY <2>3, <2>4
<1> HIDE DEF Has
<1>6. T \in SUBSET Nat  OBVIOUS
<1> HIDE DEF T
<1>7. T = Nat  BY <1>4, <1>5, <1>6, Induct
<1>8. Has(f[Len(rows)], Len(rows))  BY <1>2, <1>7 DEF T
<1> QED BY <1>1, <1>2, <1>8 DEF Has

-----------------------------------------------------------------------------
(* No note is blind. *)

Has(chunks, n) == \E i \in DOMAIN chunks : chunks[i] = <<n, note[n]>>

\* An index, of a file or of an update with `todo` still to read: what it
\* records of the other notes is in its chunks, unless the note is newer.
Told(m, todo) ==
  /\ m.files \in [Notes -> 0 .. clock]
  /\ m.chunks \in Seq(Notes \X Nat)
  /\ \A n \in Notes \ todo : note[n] # 0 /\ m.files[n] = note[n] => Has(m.chunks, n)

TellsAll(r) ==
  /\ r.pc = "emb" /\ r.seen # None => Told(r.seen, {})
  /\ r.pc = "scan" => Told(r.old, {})
  /\ r.pc \in {"read", "put"} => r.todo \in SUBSET Notes /\ Told(r.ix, r.todo)
  /\ r.pc = "put" => r.todo = {}

Stamped == clock \in Nat /\ note \in [Notes -> 0 .. clock]
BlindInv ==
  /\ Stamped
  /\ meta # None => Told(meta, {})
  /\ \A p \in Procs : TellsAll(proc[p])

\* Reads do not fail.
Legible ==
  /\ left \in [hand : Nat, arrive : Nat, unread : Nat, kill : Nat, stop : Nat, ask : Nat,
               slow : Nat, wedge : Nat,
               orphans : BOOLEAN, legible : BOOLEAN]
  /\ left.legible => left.unread = 0

LEMMA SpendLegible ==
  ASSUME Legible, NEW k \in {"hand", "arrive", "unread", "kill", "stop", "ask", "slow", "wedge"},
         Spend(k)
  PROVE  Legible' /\ left'.legible = left.legible
BY DEF Legible, Spend

LEMMA LegibleKept ==
  ASSUME Legible, [Next]_vars
  PROVE  Legible' /\ left'.legible = left.legible
<1>u. ASSUME UNCHANGED left PROVE Legible' /\ left'.legible = left.legible
  BY <1>u DEF Legible
<1>1. ASSUME NEW p \in Procs, Work(p) \/ Killed(p)
      PROVE  Legible' /\ left'.legible = left.legible
  BY <1>1, <1>u, SpendLegible
  DEF Work, ReadMeta, ReadEmb, Scan, NothingChanged, ReadNote, PutEmb, PutMeta, Killed
<1>2. ASSUME NEW n \in Notes,
             WriteByHand(n) \/ Arrive(n, TRUE) \/ Arrive(n, FALSE)
      PROVE  Legible' /\ left'.legible = left.legible
  BY <1>2, SpendLegible DEF WriteByHand, Arrive
<1>3. CASE Stop \/ StartApp  BY <1>3, <1>u, SpendLegible DEF Stop, StartApp
<1>4. ASSUME NEW q \in Asks, Ask(q) \/ Search(q)
      PROVE  Legible' /\ left'.legible = left.legible
  BY <1>4, <1>u, SpendLegible DEF Ask, Search, Take, SpawnFails, Hear, GiveUp, GiveUpWhen
<1>5. CASE Child \/ ChildStops \/ Reap \/ UNCHANGED vars
  BY <1>5, <1>u, SpendLegible DEF Child, ChildReads, ChildAnswers, ChildStops, Reap, vars
<1> QED BY <1>1, <1>2, <1>3, <1>4, <1>5 DEF Next

\* Whoever tells of all notes goes on to, when what is told still is.
LEMMA TellsStill ==
  ASSUME \A m, todo : Told(m, todo) => Told(m, todo)', NEW k, TellsAll(proc'[k])
  PROVE  TellsAll(proc[k])'
BY DEF TellsAll

LEMMA SameTold ==
  ASSUME UNCHANGED <<note, clock>>
  PROVE  \A m, todo : Told(m, todo) => Told(m, todo)'
BY DEF Told, Has

LEMMA OneTells ==
  ASSUME ProcsPaired, \A k \in Procs : TellsAll(proc[k]), UNCHANGED <<note, clock>>,
         NEW p, NEW r, TellsAll(r), proc' = [proc EXCEPT ![p] = r]
  PROVE  \A k \in Procs : TellsAll(proc[k])'
<1>1. \A k \in Procs : proc'[k] = r \/ proc'[k] = proc[k]  BY DEF ProcsPaired
<1>2. \A k \in Procs : TellsAll(proc'[k])  BY <1>1
<1> QED BY <1>2, SameTold, TellsStill

LEMMA OffTells == TellsAll(Off) /\ TellsAll([Off EXCEPT !.pc = "meta"])
BY DEF Off, TellsAll

\* A process that ends, begins or is taken by an asker.
LEMMA EndsTell ==
  ASSUME ProcsPaired, \A k \in Procs : TellsAll(proc[k]), UNCHANGED <<note, clock>>,
         \/ \E p \in Procs : \E hits : Ends(p, hits)
         \/ \E p : Begin(p)
         \/ UNCHANGED proc
  PROVE  \A k \in Procs : TellsAll(proc[k])'
<1>1. CASE \E p \in Procs : \E hits : Ends(p, hits)
  BY <1>1, OneTells, OffTells DEF Ends
<1>2. CASE \E p : Begin(p)  BY <1>2, OneTells, OffTells DEF Begin
<1>3. CASE UNCHANGED proc  BY ZenonT(40), <1>3 DEF TellsAll, Told, Has
<1> QED BY <1>1, <1>2, <1>3

\* A note that changes has a stamp that no index holds.
LEMMA PutTells ==
  ASSUME BlindInv, NEW n \in Notes, NEW there \in BOOLEAN, Put(n, there)
  PROVE  /\ Stamped'
         /\ \A m, todo : Told(m, todo) => Told(m, todo)'
<1>1. /\ clock' = clock + 1 /\ clock \in Nat /\ note \in [Notes -> 0 .. clock]
      /\ note' = [note EXCEPT ![n] = IF there THEN clock + 1 ELSE 0]
  BY DEF Put, BlindInv, Stamped
<1>2. Stamped'  BY <1>1 DEF Stamped
<1>3. ASSUME NEW m, NEW todo, Told(m, todo) PROVE Told(m, todo)'
  <2>1. m.files \in [Notes -> 0 .. clock']  BY <1>1, <1>3 DEF Told
  <2>2. ASSUME NEW k \in Notes \ todo, note'[k] # 0, m.files[k] = note'[k]
        PROVE  Has(m.chunks, k)'
    <3>1. m.files[k] \in 0 .. clock  BY <1>3 DEF Told
    <3>2. note'[k] # clock + 1  BY <1>1, <2>2, <3>1
    <3>3. note'[k] = note[k]  BY <1>1, <2>2, <3>2
    <3> QED BY <1>3, <2>2, <3>3 DEF Told, Has
  <2> QED BY <1>3, <2>1, <2>2 DEF Told
<1> QED BY <1>2, <1>3

\* What is loaded is an index, or records nothing.
LEMMA LoadedTells ==
  ASSUME Stamped, NEW m, m # None => Told(m, {}), NEW e
  PROVE  Told(Loaded(m, e), {})
<1>1. Told(Nothing, {})
  <2>1. <<>> \in Seq(Notes \X Nat)  OBVIOUS
  <2> QED BY <2>1 DEF Told, Nothing, Stamped
<1> QED BY <1>1 DEF Loaded, Told

\* A scan records each note as it is: what it has not to read, it has.
LEMMA KeptTells ==
  ASSUME Stamped, NEW old, Told(old, {})
  PROVE  Told(Kept(old, note), Changed(old, note))
<1> DEFINE rows == Staying(old.chunks, old, note)
<1>0. old.chunks \in Seq(Notes \X Nat)  BY DEF Told
<1>1. /\ rows \in Seq(Notes \X Nat)
      /\ \A k \in DOMAIN old.chunks : Stays(old.chunks[k], old, note) =>
           \E j \in DOMAIN rows : rows[j] = old.chunks[k]
  BY <1>0, StayingKeeps
<1>2. Kept(old, note).files = note /\ Kept(old, note).chunks = rows  BY DEF Kept
<1> HIDE DEF rows
<1>3. ASSUME NEW n \in Notes \ Changed(old, note), note[n] # 0
      PROVE  Has(rows, n)
  <2>1. old.files[n] = note[n]  BY <1>3 DEF Changed
  <2>2. PICK k \in DOMAIN old.chunks : old.chunks[k] = <<n, note[n]>>
    BY <1>3, <2>1 DEF Told, Has
  <2>3. Stays(old.chunks[k], old, note)  BY <1>3, <2>1, <2>2 DEF Stays
  <2> QED BY <1>1, <2>2, <2>3 DEF Has
<1> QED BY <1>1, <1>2, <1>3 DEF Told, Stamped

LEMMA FirstIn ==
  ASSUME NEW S \in SUBSET Notes, S # {} PROVE First(S) \in S
<1>1. S \in SUBSET Nat  BY NotesAssumption
<1>2. PICK x \in S : \A k \in S : x <= k  BY <1>1, LeastNat
<1> QED BY <1>2 DEF First

\* A note that is read is told as it is by now.
LEMMA ReadTells ==
  ASSUME RowsInv, BlindInv, Legible, left.legible, NEW p \in Procs, ReadNote(p)
  PROVE  BlindInv'
<1> DEFINE r == proc[p]
           n == First(r.todo)
           row == <<n, note[n]>>
           ix == [r.ix EXCEPT !.chunks = Append(@, row), !.rows = Append(@, row)]
           skips == [r EXCEPT !.todo = @ \ {n}]
           reads == [r EXCEPT !.todo = @ \ {n}, !.ix = ix]
<1>0. PairedProc(r) /\ proc = [k \in Procs |-> proc[k]]  BY DEF RowsInv, ProcsPaired
<1>1. r.pc = "read" /\ r.todo # {} /\ r.todo \in SUBSET Notes /\ Told(r.ix, r.todo)
  BY DEF ReadNote, BlindInv, TellsAll
<1>2. n \in r.todo  BY <1>1, FirstIn
<1>3. \/ note[n] # 0 /\ proc' = [proc EXCEPT ![p] = reads]
      \/ note[n] = 0 /\ proc' = [proc EXCEPT ![p] = skips]
  <2>1. ~ Spend("unread")  BY DEF Spend, Legible
  <2> DEFINE rest == [proc EXCEPT ![p].todo = @ \ {n}]
  <2>2. \/ /\ note[n] # 0
           /\ proc' = [rest EXCEPT ![p].ix.chunks = Append(@, row), ![p].ix.rows = Append(@, row)]
        \/ note[n] = 0 /\ proc' = rest
    BY <2>1 DEF ReadNote
  <2> HIDE DEF n, row
  <2>3. rest = [proc EXCEPT ![p] = skips]  BY <1>0 DEF PairedProc, IsProc
  <2>4. [rest EXCEPT ![p].ix.chunks = Append(@, row), ![p].ix.rows = Append(@, row)]
          = [proc EXCEPT ![p] = reads]
    BY <1>0, <2>3 DEF PairedProc, IsProc
  <2> QED BY <2>2, <2>3, <2>4
<1>4. UNCHANGED <<note, clock, meta>>  BY DEF ReadNote, corpus, index
<1> HIDE DEF n
<1>5. CASE note[n] # 0 /\ proc' = [proc EXCEPT ![p] = reads]
  <2>1. n \in Notes /\ note[n] \in Nat  BY <1>1, <1>2 DEF BlindInv, Stamped
  <2>2. r.ix.chunks \in Seq(Notes \X Nat) /\ row \in Notes \X Nat  BY <1>1, <2>1 DEF Told
  <2> HIDE DEF row
  <2>3. ix.files = r.ix.files /\ ix.chunks = Append(r.ix.chunks, row)
    BY <1>0 DEF PairedProc, Paired, IsIndex
  <2>4. reads.pc = "read" /\ reads.todo = r.todo \ {n} /\ reads.ix = ix
    BY <1>0, <1>1 DEF PairedProc, IsProc
  <2> HIDE DEF ix, reads
  <2>a. PICK before : before = r.ix.chunks  OBVIOUS
  <2>b. PICK after : after = ix.chunks  OBVIOUS
  <2>c. before \in Seq(Notes \X Nat) /\ after = Append(before, row)
    BY <2>2, <2>3, <2>a, <2>b
  <2> DEFINE k == Len(before)
  <2>d. after \in Seq(Notes \X Nat) /\ k \in Nat /\ DOMAIN before = 1 .. k
    BY <2>2, <2>c
  <2>e. DOMAIN after = 1 .. k + 1 /\ after[k + 1] = row
    BY <2>2, <2>c
  <2>f. \A i \in 1 .. k : after[i] = before[i]
    BY <2>2, <2>c
  <2> HIDE DEF k
  <2>5. /\ ix.chunks \in Seq(Notes \X Nat) /\ k \in Nat
        /\ DOMAIN ix.chunks = 1 .. k + 1 /\ ix.chunks[k + 1] = row
        /\ \A i \in 1 .. k : ix.chunks[i] = r.ix.chunks[i]
        /\ DOMAIN r.ix.chunks = 1 .. k
    BY <2>a, <2>b, <2>d, <2>e, <2>f
  <2>6. Has(ix.chunks, n)
    <3>1. k + 1 \in DOMAIN ix.chunks  BY <2>5
    <3> QED BY <2>5, <3>1 DEF Has, row
  <2>7. ASSUME NEW j, Has(r.ix.chunks, j) PROVE Has(ix.chunks, j)
    <3>1. PICK i \in 1 .. k : r.ix.chunks[i] = <<j, note[j]>>  BY <2>5, <2>7 DEF Has
    <3>2. i \in DOMAIN ix.chunks  BY <2>5
    <3> QED BY <2>5, <3>1, <3>2 DEF Has
  <2>8. Told(ix, r.todo \ {n})
    BY <1>1, <2>3, <2>5, <2>6, <2>7 DEF Told
  <2>9. TellsAll(reads)  BY <1>1, <2>4, <2>8 DEF TellsAll
  <2> QED BY <1>4, <1>5, <2>9, OneTells DEF BlindInv, RowsInv, Stamped, Told, Has
<1>6. CASE note[n] = 0 /\ proc' = [proc EXCEPT ![p] = skips]
  <2>1. skips.pc = "read" /\ skips.todo = r.todo \ {n} /\ skips.ix = r.ix
    BY <1>0, <1>1 DEF PairedProc, IsProc
  <2> HIDE DEF skips
  <2>2. Told(r.ix, r.todo \ {n})  BY <1>1, <1>6 DEF Told
  <2>3. TellsAll(skips)  BY <1>1, <2>1, <2>2 DEF TellsAll
  <2> QED BY <1>4, <1>6, <2>3, OneTells DEF BlindInv, RowsInv, Stamped, Told, Has
<1> QED BY <1>3, <1>5, <1>6

\* The other steps of an update.
LEMMA UpdateTells ==
  ASSUME RowsInv, BlindInv, NEW p \in Procs,
         ReadMeta(p) \/ ReadEmb(p) \/ Scan(p) \/ PutEmb(p) \/ PutMeta(p) \/ NothingChanged(p)
         \/ Killed(p)
  PROVE  BlindInv'
<1>0. PairedProc(proc[p]) /\ proc = [k \in Procs |-> proc[k]] /\ ProcsPaired
  BY DEF RowsInv, ProcsPaired
<1>t. TellsAll(proc[p])  BY DEF BlindInv
<1>a. ASSUME UNCHANGED <<note, clock, meta>>, \A k \in Procs : TellsAll(proc[k])'
      PROVE  BlindInv'
  BY <1>a DEF BlindInv, Stamped, Told, Has
<1> USE DEF corpus, index
<1>1. CASE ReadMeta(p)
  <2> DEFINE r == [proc[p] EXCEPT !.pc = "emb", !.seen = meta]
  <2>1. proc' = [proc EXCEPT ![p] = r]  BY <1>0, <1>1 DEF ReadMeta
  <2>2. r.pc = "emb" /\ r.seen = meta  BY <1>0 DEF PairedProc, IsProc
  <2> HIDE DEF r
  <2>3. TellsAll(r)  BY <2>2 DEF TellsAll, BlindInv
  <2> QED BY <1>0, <1>1, <1>a, <2>1, <2>3, OneTells DEF ReadMeta, BlindInv
<1>2. CASE ReadEmb(p)
  <2> DEFINE ix == Loaded(proc[p].seen, emb)
             r == [proc[p] EXCEPT !.pc = "scan", !.seen = None, !.old = ix]
  <2>1. proc' = [proc EXCEPT ![p] = r]  BY <1>0, <1>2 DEF ReadEmb
  <2>2. r.pc = "scan" /\ r.old = ix  BY <1>0 DEF PairedProc, IsProc
  <2> HIDE DEF r
  <2>3. Told(ix, {})  BY <1>2, <1>t, LoadedTells DEF ReadEmb, TellsAll, BlindInv
  <2> HIDE DEF ix
  <2>4. TellsAll(r)  BY <2>2, <2>3 DEF TellsAll
  <2> QED BY <1>0, <1>2, <1>a, <2>1, <2>4, OneTells DEF ReadEmb, BlindInv
<1>3. CASE Scan(p)
  <2> DEFINE todo == Changed(proc[p].old, note)
             ix == Kept(proc[p].old, note)
             r == [proc[p] EXCEPT !.pc = "read", !.old = Nothing, !.todo = todo, !.ix = ix]
  <2>1. proc' = [proc EXCEPT ![p] = r]  BY <1>0, <1>3 DEF Scan
  <2>2. r.pc = "read" /\ r.todo = todo /\ r.ix = ix  BY <1>0 DEF PairedProc, IsProc
  <2> HIDE DEF r
  <2>3. Told(ix, todo)  BY <1>3, <1>t, KeptTells DEF Scan, TellsAll, BlindInv
  <2>4. todo \in SUBSET Notes  BY DEF Changed
  <2> HIDE DEF ix, todo
  <2>5. TellsAll(r)  BY <2>2, <2>3, <2>4 DEF TellsAll
  <2> QED BY <1>0, <1>3, <1>a, <2>1, <2>5, OneTells DEF Scan, BlindInv
<1>4. CASE PutEmb(p)
  <2> DEFINE r == [proc[p] EXCEPT !.pc = "put"]
  <2>1. proc' = [proc EXCEPT ![p] = r]  BY <1>0, <1>4 DEF PutEmb
  <2>2. r.pc = "put" /\ r.todo = proc[p].todo /\ r.ix = proc[p].ix
    BY <1>0 DEF PairedProc, IsProc
  <2> HIDE DEF r
  <2>3. TellsAll(r)  BY <1>4, <1>t, <2>2 DEF PutEmb, TellsAll
  <2> QED BY <1>0, <1>4, <1>a, <2>1, <2>3, OneTells DEF PutEmb, BlindInv
<1>5. CASE PutMeta(p)
  <2>1. Told(proc[p].ix, {})  BY <1>5, <1>t DEF PutMeta, TellsAll
  <2>2. meta' = [files |-> proc[p].ix.files, chunks |-> proc[p].ix.chunks]
        /\ UNCHANGED <<note, clock>> /\ Ends(p, p)
    BY <1>5 DEF PutMeta, Written, AsScanned
  <2>3. meta'.files = proc[p].ix.files /\ meta'.chunks = proc[p].ix.chunks  BY <2>2
  <2>4. Told(meta, {})'  BY <2>1, <2>2, <2>3 DEF Told, Has
  <2>5. \A k \in Procs : TellsAll(proc[k])'  BY <1>0, <2>2, EndsTell DEF BlindInv
  <2> QED BY <2>2, <2>4, <2>5 DEF BlindInv, Stamped
<1>6. CASE NothingChanged(p)
  BY <1>0, <1>6, <1>a, EndsTell DEF NothingChanged, BlindInv
<1>7. CASE Killed(p)
  BY <1>0, <1>7, <1>a, EndsTell DEF Killed, BlindInv
<1> QED BY <1>1, <1>2, <1>3, <1>4, <1>5, <1>6, <1>7

LEMMA BlindBegin == Init => BlindInv /\ Legible
<1> SUFFICES ASSUME Init PROVE BlindInv /\ Legible  OBVIOUS
<1>1. Legible  BY ModesAssumption DEF Init, Legible
<1>2. PICK n \in Notes, cold \in BOOLEAN :
         /\ note = [k \in Notes |-> IF k = n THEN 1 ELSE 0]
         /\ meta = IF cold THEN None ELSE [files |-> note, chunks |-> <<<<n, 1>>>>]
  BY DEF Init
<1>3. clock = 1 /\ Stamped  BY <1>2 DEF Init, Stamped
<1>4. ASSUME meta # None PROVE Told(meta, {})
  <2>1. meta.files = note /\ meta.chunks = <<<<n, 1>>>>  BY <1>2, <1>4
  <2>2. <<<<n, 1>>>> \in Seq(Notes \X Nat)  OBVIOUS
  <2>3. 1 \in DOMAIN meta.chunks /\ meta.chunks[1] = <<n, 1>>  BY <2>1
  <2>4. \A k \in Notes : note[k] # 0 => k = n /\ note[k] = 1  BY <1>2
  <2> QED BY <1>3, <2>1, <2>2, <2>3, <2>4 DEF Told, Has, Stamped
<1>5. \A p \in Procs : TellsAll(proc[p])  BY OffTells DEF Init
<1> QED BY <1>1, <1>3, <1>4, <1>5 DEF BlindInv

LEMMA BlindKept ==
  ASSUME RowsInv, Legible, left.legible, BlindInv, [Next]_vars
  PROVE  BlindInv'
<1> USE DEF corpus, index
<1>0. ProcsPaired  BY DEF RowsInv
<1>a. ASSUME UNCHANGED <<note, clock, meta>>, (\E p : Begin(p)) \/ UNCHANGED proc
      PROVE  BlindInv'
  <2>1. \A k \in Procs : TellsAll(proc[k])'  BY <1>0, <1>a, EndsTell DEF BlindInv
  <2> QED BY <1>a, <2>1 DEF BlindInv, Stamped, Told, Has
<1>s. ASSUME SpawnReindex PROVE (\E p : Begin(p)) \/ UNCHANGED proc
  BY <1>s DEF SpawnReindex
<1>1. ASSUME NEW p \in Procs, Work(p) \/ Killed(p) PROVE BlindInv'
  BY <1>1, ReadTells, UpdateTells DEF Work
<1>2. ASSUME NEW n \in Notes, NEW there \in BOOLEAN, Put(n, there), meta' = meta,
             (\E p : Begin(p)) \/ UNCHANGED proc
      PROVE  BlindInv'
  <2>1. Stamped' /\ \A m, todo : Told(m, todo) => Told(m, todo)'  BY <1>2, PutTells
  <2>2. \A r : TellsAll(r) => TellsAll(r)'  BY <2>1 DEF TellsAll
  <2>3. \A k \in Procs : TellsAll(proc'[k])
    <3>1. CASE UNCHANGED proc  BY <3>1 DEF BlindInv
    <3>2. ASSUME NEW p, Begin(p) PROVE \A k \in Procs : TellsAll(proc'[k])
      <4>1. proc' = [proc EXCEPT ![p] = [Off EXCEPT !.pc = "meta"]]  BY <3>2 DEF Begin
      <4>2. \A k \in Procs : proc'[k] = [Off EXCEPT !.pc = "meta"] \/ proc'[k] = proc[k]
        BY <1>0, <4>1 DEF ProcsPaired
      <4> QED BY <4>2, OffTells DEF BlindInv
    <3> QED BY <1>2, <3>1, <3>2
  <2>4. \A k \in Procs : TellsAll(proc[k])'
    <3> SUFFICES ASSUME NEW k \in Procs PROVE TellsAll(proc[k])'  OBVIOUS
    <3>1. TellsAll(proc'[k])  BY <2>3
    <3> QED BY <2>1, <3>1, TellsStill
  <2>5. meta' # None => Told(meta, {})'
    <3>1. meta # None => Told(meta, {})  BY DEF BlindInv
    <3>2. \A m : m = meta /\ Told(m, {}) => Told(m, {})'  BY <2>1
    <3> QED BY <1>2, <3>1, <3>2 DEF Told, Has
  <2> QED BY <2>1, <2>4, <2>5 DEF BlindInv
<1>3. ASSUME NEW n \in Notes, WriteByHand(n) PROVE BlindInv'
  BY <1>2, <1>3, <1>s DEF WriteByHand
<1>4. ASSUME NEW n \in Notes, NEW there \in BOOLEAN, Arrive(n, there) PROVE BlindInv'
  BY <1>2, <1>4 DEF Arrive
<1>5. CASE Stop  BY <1>5, <1>a DEF Stop
<1>6. CASE StartApp  BY <1>6, <1>a, <1>s DEF StartApp
<1>7. ASSUME NEW q \in Asks, Ask(q) \/ Search(q) PROVE BlindInv'
  BY <1>7, <1>a DEF Ask, Search, Take, SpawnFails, Alone, Hear, GiveUp
<1>8. CASE Child \/ ChildStops \/ Reap
  BY <1>8, <1>a DEF Child, ChildReads, ChildAnswers, ChildStops, Reap
<1>9. CASE UNCHANGED vars  BY <1>9, <1>a DEF vars
<1> QED BY <1>1, <1>3, <1>4, <1>5, <1>6, <1>7, <1>8, <1>9 DEF Next

(* No note is recorded as indexed, and so never read again, while its chunk  *)
(* in the index is older or missing (index.rs update), as long as notes can  *)
(* be read: whoever else saves, is killed between the two renames, or writes *)
(* the note while it is being read.                                          *)
THEOREM NeverBlindAlways == Spec => []NeverBlind
<1> DEFINE I == left.legible => BlindInv
<1>1. Init => RowsInv /\ Legible /\ I  BY RowsBegin, BlindBegin
<1>2. RowsInv /\ Legible /\ I /\ [Next]_vars => RowsInv' /\ Legible' /\ I'
  BY RowsKept, LegibleKept, BlindKept
<1>3. I => NeverBlind
  <2> SUFFICES ASSUME BlindInv PROVE NeverBlind  BY DEF NeverBlind
  <2>1. Told(Loaded(meta, emb), {})  BY LoadedTells DEF BlindInv
  <2> QED BY <2>1 DEF Told, Has, NeverBlind, RecordedIsIndexed
<1> HIDE DEF I
<1> QED BY <1>1, <1>2, <1>3, PTL DEF Spec
=============================================================================
