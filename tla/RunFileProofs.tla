---------------------------- MODULE RunFileProofs ----------------------------
(***************************************************************************)
(* Theorems of RunFile, for every set of runs, scenarios, workspaces and   *)
(* paths, every retention and every number of stops.                       *)
(*                                                                         *)
(* First what the pure part computes, for every history and every file:    *)
(* fold_events line by line, what a pruning keeps, and that the lines      *)
(* written for a history fold back into it.  Then the steps of the file.   *)
(*                                                                         *)
(* Two hypotheses, each refuted without by a configuration or a comment    *)
(* of RunFile: no line is cut off inside a character (RunFile_split.cfg),  *)
(* and a disk that can be full, or a history that can be erased, has the   *)
(* main thread as its only writer (RunFile_glued.cfg).                     *)
(***************************************************************************)
EXTENDS RunFile, WellFoundedInduction, SequenceTheorems, TLAPS

-----------------------------------------------------------------------------
(* Recursion and induction over the natural numbers.                         *)

\* A set of natural numbers has a least one,
LEMMA LeastNat ==
  ASSUME NEW T \in SUBSET Nat, T # {}
  PROVE  \E x \in T : \A y \in T : x <= y
<1>1. PICK x \in T : \A y \in T : ~ (<<y, x>> \in OpToRel(<, Nat))
  BY NatLessThanWellFounded, WFMin, Zenon
<1>2. \A y \in T : ~ (y < x)  BY <1>1, Zenon DEF OpToRel
<1> QED BY <1>2

\* so a set that has 0, and what follows each of its numbers, has them all,
LEMMA Induct ==
  ASSUME NEW T \in SUBSET Nat, 0 \in T, \A n \in T : n + 1 \in T
  PROVE  T = Nat
<1> SUFFICES ASSUME Nat \ T # {} PROVE FALSE  OBVIOUS
<1>1. PICK x \in Nat \ T : \A y \in Nat \ T : x <= y  BY LeastNat
<1>2. x - 1 \in Nat /\ (x - 1) + 1 = x  OBVIOUS
<1> QED BY <1>1, <1>2

Recurs(f, n, base, step) ==
  \A i \in 0 .. n : f[i] = IF i = 0 THEN base ELSE step[i][f[i - 1]]

\* and what a recursion defines step by step exists.
LEMMA Recursion ==
  ASSUME NEW V, NEW base \in V, NEW n \in Nat, NEW step \in [Nat -> [V -> V]]
  PROVE  \E f \in [0 .. n -> V] : Recurs(f, n, base, step)
<1> DEFINE T == {m \in Nat : \E f \in [0 .. m -> V] : Recurs(f, m, base, step)}
<1>1. 0 \in T
  <2> DEFINE f == [i \in 0 .. 0 |-> base]
  <2>1. f \in [0 .. 0 -> V] /\ Recurs(f, 0, base, step)  BY DEF Recurs
  <2> QED BY <2>1
<1>2. ASSUME NEW m \in T PROVE m + 1 \in T
  <2>1. PICK f \in [0 .. m -> V] : Recurs(f, m, base, step)  OBVIOUS
  <2> DEFINE g == [i \in 0 .. m + 1 |-> IF i = m + 1 THEN step[i][f[m]] ELSE f[i]]
  <2>2. m \in Nat /\ m + 1 \in Nat /\ m \in 0 .. m  OBVIOUS
  <2>3. g \in [0 .. m + 1 -> V]
    <3>1. step[m + 1][f[m]] \in V  BY <2>2
    <3> QED BY <2>2, <3>1
  <2>4. ASSUME NEW i \in 0 .. m + 1
        PROVE  g[i] = IF i = 0 THEN base ELSE step[i][g[i - 1]]
    <3>1. CASE i = m + 1  BY <2>2, <3>1
    <3>2. CASE i # m + 1
      <4>1. i \in 0 .. m /\ (i # 0 => i - 1 \in 0 .. m /\ i - 1 # m + 1)  BY <2>2, <3>2
      <4>2. f[i] = IF i = 0 THEN base ELSE step[i][f[i - 1]]  BY <2>1, <4>1 DEF Recurs
      <4>3. g[i] = f[i] /\ (i # 0 => g[i - 1] = f[i - 1])  BY <2>2, <3>2, <4>1
      <4> QED BY <4>2, <4>3
    <3> QED BY <3>1, <3>2
  <2> HIDE DEF g
  <2>5. Recurs(g, m + 1, base, step)  BY <2>4 DEF Recurs
  <2> QED BY <2>2, <2>3, <2>5
<1> HIDE DEF T
<1>3. T \in SUBSET Nat  BY DEF T
<1>4. T = Nat  BY <1>1, <1>2, <1>3, Induct
<1> QED BY <1>4 DEF T

-----------------------------------------------------------------------------
(* Events and histories.                                                     *)

\* What a file of whole characters is made of.
Plain == Events \cup {Torn}

\* What a reader makes of one: a record per run, and no clear without a path.
History(h) ==
  /\ h \in Seq(Records)
  /\ \A i, j \in DOMAIN h : h[i].run = h[j].run => i = j
  /\ \A i \in DOMAIN h : h[i].path = NoPath => ~ h[i].cleared

LEMMA EventFacts ==
  ASSUME NEW ev \in Events
  PROVE  /\ ev.run \in Runs
         /\ \/ ev.t = "started" /\ ev = Started(ev.run)
            \/ ev.t = "transcript" /\ ev.path \in Paths /\ ev.cleared \in BOOLEAN
               /\ ev = Transcript(ev.run, ev.path, ev.cleared)
            \/ ev.t = "closed" /\ ev.status \in Outcomes /\ ev = Closed(ev.run, ev.status)
BY DEF Events, Started, Transcript, Closed

LEMMA EventMade ==
  ASSUME NEW r \in Runs
  PROVE  /\ Started(r) \in Events
         /\ \A p \in Paths, c \in BOOLEAN : Transcript(r, p, c) \in Events
         /\ \A s \in Outcomes : Closed(r, s) \in Events
BY DEF Events, Started, Transcript, Closed

\* One event, or a line that is none.
LEMMA ApplyIs ==
  ASSUME NEW h
  PROVE  /\ Apply(h, Torn) = h
         /\ \A r : Apply(h, Started(r)) = Began(h, r)
         /\ \A r, p, c : Apply(h, Transcript(r, p, c)) = Noted(h, r, p, c)
         /\ \A r, s : Apply(h, Closed(r, s)) = Ended(h, r, s)
BY DEF Apply, Torn, Started, Transcript, Closed

LEMMA BeganHistory ==
  ASSUME NEW h, History(h), NEW r \in Runs
  PROVE  History(Began(h, r))
<1>1. CASE r \in RunsIn(h)  BY <1>1 DEF Began
<1>2. CASE r \notin RunsIn(h)
  <2> DEFINE g == Append(h, Opened(r))
             n == Len(h)
  <2>1. Opened(r) \in Records /\ Opened(r).run = r /\ ~ Opened(r).cleared
    BY DEF Opened, Records
  <2>2. /\ h \in Seq(Records) /\ n \in Nat /\ DOMAIN h = 1 .. n
        /\ g \in Seq(Records) /\ DOMAIN g = 1 .. n + 1 /\ g[n + 1] = Opened(r)
        /\ \A i \in 1 .. n : g[i] = h[i]
    BY <2>1 DEF History
  <2> HIDE DEF g, n
  <2>3. \A i \in 1 .. n : h[i].run # r  BY <1>2, <2>2 DEF RunsIn
  <2>4. \A i \in 1 .. n + 1 : i \in 1 .. n \/ i = n + 1  BY <2>2
  <2>5. \A i, j \in DOMAIN g : g[i].run = g[j].run => i = j
    BY <2>1, <2>2, <2>3, <2>4 DEF History
  <2>6. \A i \in DOMAIN g : g[i].path = NoPath => ~ g[i].cleared
    BY <2>1, <2>2, <2>4 DEF History
  <2>7. Began(h, r) = g  BY <1>2 DEF Began, g
  <2> QED BY <2>2, <2>5, <2>6, <2>7 DEF History
<1> QED BY <1>1, <1>2

\* A step that rewrites records where they are keeps a history.
LEMMA RewrittenHistory ==
  ASSUME NEW h, History(h), NEW g, DOMAIN g = DOMAIN h, g = [i \in DOMAIN g |-> g[i]],
         \A i \in DOMAIN h : /\ g[i] \in Records /\ g[i].run = h[i].run
                             /\ g[i].path = NoPath => ~ g[i].cleared
  PROVE  History(g)
<1>1. Len(h) \in Nat /\ DOMAIN h = 1 .. Len(h)  BY DEF History
<1>2. g \in [1 .. Len(h) -> Records]  BY <1>1
<1>3. g \in Seq(Records)  BY <1>1, <1>2
<1> QED BY <1>3 DEF History

LEMMA NotedHistory ==
  ASSUME NEW h, History(h), NEW r \in Runs, NEW p \in Paths, NEW c \in BOOLEAN
  PROVE  History(Noted(h, r, p, c))
<1> DEFINE g == Noted(h, r, p, c)
<1>1. DOMAIN g = DOMAIN h /\ g = [i \in DOMAIN g |-> g[i]]  BY DEF Noted
<1>2. ASSUME NEW i \in DOMAIN h
      PROVE  g[i] \in Records /\ g[i].run = h[i].run /\ (g[i].path = NoPath => ~ g[i].cleared)
  <2>1. h[i] \in Records /\ (h[i].path = NoPath => ~ h[i].cleared) /\ p # NoPath
    BY ConstantsAssumption DEF History
  <2>2. g[i] = IF h[i].run = r THEN [h[i] EXCEPT !.path = p, !.cleared = @ \/ c] ELSE h[i]
    BY DEF Noted
  <2>3. CASE h[i].run = r
    <3>1. g[i] = [run |-> h[i].run, status |-> h[i].status, path |-> p,
                  cleared |-> h[i].cleared \/ c]
      BY <2>1, <2>2, <2>3 DEF Records
    <3>2. (h[i].cleared \/ c) \in BOOLEAN  OBVIOUS
    <3>3. h[i].run \in Runs /\ h[i].status \in Outcomes \cup {"running"}  BY <2>1 DEF Records
    <3>4. g[i] \in Records  BY <3>1, <3>2, <3>3 DEF Records
    <3> QED BY <2>1, <3>1, <3>4
  <2>4. CASE h[i].run # r  BY <2>1, <2>2, <2>4
  <2> QED BY <2>3, <2>4
<1> HIDE DEF g
<1>3. History(g)  BY <1>1, <1>2, RewrittenHistory
<1> QED BY <1>3 DEF g

LEMMA EndedHistory ==
  ASSUME NEW h, History(h), NEW r \in Runs, NEW s \in Outcomes
  PROVE  History(Ended(h, r, s))
<1> DEFINE g == Ended(h, r, s)
<1>1. DOMAIN g = DOMAIN h /\ g = [i \in DOMAIN g |-> g[i]]  BY DEF Ended
<1>2. ASSUME NEW i \in DOMAIN h
      PROVE  g[i] \in Records /\ g[i].run = h[i].run /\ (g[i].path = NoPath => ~ g[i].cleared)
  <2>1. h[i] \in Records /\ (h[i].path = NoPath => ~ h[i].cleared)  BY DEF History
  <2>2. g[i] = h[i] \/ g[i] = [h[i] EXCEPT !.status = s]  BY DEF Ended
  <2> HIDE DEF g
  <2> QED BY <2>1, <2>2 DEF Records
<1> HIDE DEF g
<1>3. History(g)  BY <1>1, <1>2, RewrittenHistory
<1> QED BY <1>3 DEF g

LEMMA ApplyHistory ==
  ASSUME NEW h, History(h), NEW line \in Plain
  PROVE  History(Apply(h, line))
<1>1. CASE line = Torn  BY <1>1, ApplyIs
<1>2. CASE line \in Events
  <2>1. CASE line = Started(line.run)
    <3>1. line.run \in Runs  BY <1>2, EventFacts
    <3>2. Apply(h, line) = Began(h, line.run)  BY <2>1, ApplyIs
    <3> QED BY <3>1, <3>2, BeganHistory
  <2>2. CASE /\ line.path \in Paths /\ line.cleared \in BOOLEAN
             /\ line = Transcript(line.run, line.path, line.cleared)
    <3>1. line.run \in Runs  BY <1>2, EventFacts
    <3>2. Apply(h, line) = Noted(h, line.run, line.path, line.cleared)  BY <2>2, ApplyIs
    <3> QED BY <2>2, <3>1, <3>2, NotedHistory
  <2>3. CASE line.status \in Outcomes /\ line = Closed(line.run, line.status)
    <3>1. line.run \in Runs  BY <1>2, EventFacts
    <3>2. Apply(h, line) = Ended(h, line.run, line.status)  BY <2>3, ApplyIs
    <3> QED BY <2>3, <3>1, <3>2, EndedHistory
  <2> QED BY <1>2, <2>1, <2>2, <2>3, EventFacts
<1> QED BY <1>1, <1>2 DEF Plain

-----------------------------------------------------------------------------
(* fold_events, line by line.                                                *)

FoldsTo(f, ls) ==
  f = [n \in 0 .. Len(ls) |-> IF n = 0 THEN <<>> ELSE Apply(f[n - 1], ls[n])]

Histories == {h \in Seq(Records) : History(h)}

LEMMA EmptyHistory == <<>> \in Histories
BY DEF Histories, History

LEMMA FoldedRecurs ==
  ASSUME NEW ls \in Seq(Plain)
  PROVE  \E f : FoldsTo(f, ls) /\ Folded(ls) = f[Len(ls)]
<1> DEFINE step == [i \in Nat |-> [h \in Histories |->
                     IF i \in DOMAIN ls THEN Apply(h, ls[i]) ELSE h]]
<1>1. Len(ls) \in Nat /\ DOMAIN ls = 1 .. Len(ls)  OBVIOUS
<1>2. ASSUME NEW i \in Nat, NEW h \in Histories PROVE step[i][h] \in Histories
  <2>1. CASE i \in DOMAIN ls
    <3>1. History(Apply(h, ls[i]))  BY <2>1, ApplyHistory DEF Histories
    <3> QED BY <2>1, <3>1 DEF Histories, History
  <2>2. CASE i \notin DOMAIN ls  BY <2>2
  <2> QED BY <2>1, <2>2
<1>3. step \in [Nat -> [Histories -> Histories]]  BY <1>2
<1>4. \A i \in Nat : \A h \in Histories :
         step[i][h] = IF i \in DOMAIN ls THEN Apply(h, ls[i]) ELSE h
  OBVIOUS
<1> HIDE DEF step
<1>5. PICK f \in [0 .. Len(ls) -> Histories] : Recurs(f, Len(ls), <<>>, step)
  BY <1>1, <1>3, EmptyHistory, Recursion
<1>6. FoldsTo(f, ls)
  <2>1. ASSUME NEW n \in 0 .. Len(ls)
        PROVE  f[n] = IF n = 0 THEN <<>> ELSE Apply(f[n - 1], ls[n])
    <3>1. CASE n = 0  BY <1>5, <3>1 DEF Recurs
    <3>2. CASE n # 0
      <4>1. n \in DOMAIN ls /\ n \in Nat /\ n - 1 \in 0 .. Len(ls)  BY <1>1, <3>2
      <4>2. f[n] = step[n][f[n - 1]]  BY <1>5, <3>2 DEF Recurs
      <4> QED BY <1>4, <3>2, <4>1, <4>2
    <3> QED BY <3>1, <3>2
  <2> QED BY <2>1 DEF FoldsTo
<1> DEFINE g == CHOOSE e : FoldsTo(e, ls)
<1>7. FoldsTo(g, ls)  BY <1>6
<1>8. Folded(ls) = g[Len(ls)]  BY DEF Folded, FoldsTo
<1> QED BY <1>7, <1>8

LEMMA FoldsStep ==
  ASSUME NEW ls \in Seq(Plain), NEW f, FoldsTo(f, ls)
  PROVE  f[0] = <<>> /\ \A n \in 1 .. Len(ls) : f[n] = Apply(f[n - 1], ls[n])
<1>1. ASSUME NEW n \in 0 .. Len(ls)
      PROVE  f[n] = IF n = 0 THEN <<>> ELSE Apply(f[n - 1], ls[n])
  BY <1>1 DEF FoldsTo
<1>2. Len(ls) \in Nat  OBVIOUS
<1>3. 0 \in 0 .. Len(ls) /\ \A n \in 1 .. Len(ls) : n \in 0 .. Len(ls) /\ n # 0  BY <1>2
<1> QED BY <1>1, <1>3

\* What a file folds into is a history,
LEMMA FoldedHistory == ASSUME NEW ls \in Seq(Plain) PROVE History(Folded(ls))
<1>1. PICK f : FoldsTo(f, ls) /\ Folded(ls) = f[Len(ls)]  BY FoldedRecurs
<1>2. f[0] = <<>> /\ \A n \in 1 .. Len(ls) : f[n] = Apply(f[n - 1], ls[n])
  BY <1>1, FoldsStep
<1> DEFINE T == {n \in Nat : n <= Len(ls) => History(f[n])}
<1>3. Len(ls) \in Nat  OBVIOUS
<1>4. 0 \in T  BY <1>2, EmptyHistory DEF Histories
<1>5. ASSUME NEW n \in T PROVE n + 1 \in T
  <2> SUFFICES ASSUME n + 1 <= Len(ls) PROVE History(f[n + 1])  OBVIOUS
  <2>1. n + 1 \in 1 .. Len(ls) /\ (n + 1) - 1 = n /\ n <= Len(ls) /\ ls[n + 1] \in Plain
    BY <1>3
  <2> QED BY <1>2, <2>1, ApplyHistory
<1>6. T \in SUBSET Nat  OBVIOUS
<1> HIDE DEF T
<1>7. T = Nat  BY <1>4, <1>5, <1>6, Induct
<1>8. History(f[Len(ls)])  BY <1>3, <1>7 DEF T
<1> QED BY <1>1, <1>8

LEMMA FoldedEmpty == Folded(<<>>) = <<>>
<1>1. <<>> \in Seq(Plain) /\ Len(<<>>) = 0  OBVIOUS
<1>2. PICK f : FoldsTo(f, <<>>) /\ Folded(<<>>) = f[Len(<<>>)]  BY <1>1, FoldedRecurs
<1>3. f[0] = <<>>  BY <1>1, <1>2, FoldsStep
<1> QED BY <1>1, <1>2, <1>3

\* and a line more is an event more.
LEMMA FoldedAppend ==
  ASSUME NEW ls \in Seq(Plain), NEW line \in Plain
  PROVE  Folded(Append(ls, line)) = Apply(Folded(ls), line)
<1> DEFINE more == Append(ls, line)
           k == Len(ls)
<1>1. /\ more \in Seq(Plain) /\ k \in Nat /\ Len(more) = k + 1 /\ more[k + 1] = line
      /\ \A n \in 1 .. k : more[n] = ls[n]
  OBVIOUS
<1> HIDE DEF more
<1>2. PICK f : FoldsTo(f, ls) /\ Folded(ls) = f[k]  BY FoldedRecurs
<1>3. PICK g : FoldsTo(g, more) /\ Folded(more) = g[Len(more)]  BY <1>1, FoldedRecurs
<1>4. f[0] = <<>> /\ \A n \in 1 .. k : f[n] = Apply(f[n - 1], ls[n])  BY <1>2, FoldsStep
<1>5. g[0] = <<>> /\ \A n \in 1 .. k + 1 : g[n] = Apply(g[n - 1], more[n])
  BY <1>1, <1>3, FoldsStep
<1> HIDE DEF k
<1> DEFINE T == {n \in Nat : n <= k => f[n] = g[n]}
<1>6. 0 \in T  BY <1>4, <1>5
<1>7. ASSUME NEW n \in T PROVE n + 1 \in T
  <2> SUFFICES ASSUME n + 1 <= k PROVE f[n + 1] = g[n + 1]  OBVIOUS
  <2>1. n + 1 \in 1 .. k /\ n + 1 \in 1 .. k + 1 /\ (n + 1) - 1 = n /\ n <= k  BY <1>1
  <2>2. f[n] = g[n]  BY <2>1
  <2> QED BY <1>1, <1>4, <1>5, <2>1, <2>2
<1>8. T \in SUBSET Nat  OBVIOUS
<1> HIDE DEF T
<1>9. T = Nat  BY <1>6, <1>7, <1>8, Induct
<1>10. f[k] = g[k]  BY <1>1, <1>9 DEF T
<1>11. k + 1 \in 1 .. k + 1 /\ (k + 1) - 1 = k  BY <1>1
<1>12. g[k + 1] = Apply(g[k], line)  BY <1>1, <1>5, <1>11
<1> QED BY <1>1, <1>2, <1>3, <1>10, <1>12 DEF more

-----------------------------------------------------------------------------
(* The records at some places of a history.                                  *)

KeepsTo(f, h, places) ==
  f = [n \in 0 .. Len(h) |->
         IF n = 0 THEN <<>>
         ELSE IF n \in places THEN Append(f[n - 1], h[n]) ELSE f[n - 1]]

LEMMA KeptRecurs ==
  ASSUME NEW h \in Seq(Records), NEW places
  PROVE  \E f : KeepsTo(f, h, places) /\ Kept(h, places) = f[Len(h)]
<1> DEFINE here == DOMAIN h \cap places
           step == [i \in Nat |-> [s \in Seq(Records) |->
                     IF i \in here THEN Append(s, h[i]) ELSE s]]
<1>1. Len(h) \in Nat /\ DOMAIN h = 1 .. Len(h) /\ <<>> \in Seq(Records)  OBVIOUS
<1>2. step \in [Nat -> [Seq(Records) -> Seq(Records)]]  OBVIOUS
<1>3. \A i \in Nat : \A s \in Seq(Records) :
         step[i][s] = IF i \in here THEN Append(s, h[i]) ELSE s
  OBVIOUS
<1> HIDE DEF step
<1>4. PICK f \in [0 .. Len(h) -> Seq(Records)] : Recurs(f, Len(h), <<>>, step)
  BY <1>1, <1>2, Recursion
<1>5. KeepsTo(f, h, places)
  <2>1. ASSUME NEW i \in 0 .. Len(h)
        PROVE  f[i] = IF i = 0 THEN <<>>
                      ELSE IF i \in places THEN Append(f[i - 1], h[i]) ELSE f[i - 1]
    <3>1. CASE i = 0  BY <1>4, <3>1 DEF Recurs
    <3>2. CASE i # 0
      <4>1. i \in DOMAIN h /\ i \in Nat /\ i - 1 \in 0 .. Len(h)  BY <1>1, <3>2
      <4>2. f[i] = step[i][f[i - 1]]  BY <1>4, <3>2 DEF Recurs
      <4> QED BY <1>3, <3>2, <4>1, <4>2
    <3> QED BY <3>1, <3>2
  <2> QED BY <2>1 DEF KeepsTo
<1> DEFINE g == CHOOSE e : KeepsTo(e, h, places)
<1>6. KeepsTo(g, h, places)  BY <1>5
<1>7. Kept(h, places) = g[Len(h)]  BY DEF Kept, KeepsTo
<1> QED BY <1>6, <1>7

\* s holds the records of h at those of the first n places that are in places.
Holding(s, h, places, n) ==
  /\ History(s)
  /\ \A i \in 1 .. n : i \in places => \E j \in DOMAIN s : s[j] = h[i]
  /\ \A j \in DOMAIN s : \E i \in 1 .. n : i \in places /\ s[j] = h[i]

LEMMA HoldingStep ==
  ASSUME NEW h, History(h), NEW places, NEW n \in Nat, n + 1 <= Len(h),
         NEW s, Holding(s, h, places, n)
  PROVE  Holding(IF n + 1 \in places THEN Append(s, h[n + 1]) ELSE s, h, places, n + 1)
<1>1. /\ h \in Seq(Records) /\ Len(h) \in Nat /\ DOMAIN h = 1 .. Len(h)
      /\ n + 1 \in DOMAIN h /\ h[n + 1] \in Records
      /\ \A i \in 1 .. n + 1 : i \in DOMAIN h /\ (i = n + 1 \/ i \in 1 .. n)
      /\ \A i \in 1 .. n : i \in 1 .. n + 1 /\ i # n + 1
  BY DEF History
<1>2. s \in Seq(Records) /\ Len(s) \in Nat /\ DOMAIN s = 1 .. Len(s)
  BY DEF Holding, History
<1>3. CASE n + 1 \notin places  BY <1>1, <1>3 DEF Holding
<1>4. CASE n + 1 \in places
  <2> DEFINE g == Append(s, h[n + 1])
             k == Len(s)
  <2>1. /\ g \in Seq(Records) /\ DOMAIN g = 1 .. k + 1 /\ g[k + 1] = h[n + 1]
        /\ \A j \in 1 .. k : g[j] = s[j] /\ j \in DOMAIN g
        /\ k + 1 \in DOMAIN g
        /\ \A j \in 1 .. k + 1 : j = k + 1 \/ j \in 1 .. k
    BY <1>1, <1>2
  <2> HIDE DEF g
  <2>2. DOMAIN s = 1 .. k  BY <1>2
  <2> HIDE DEF k
  <2>3. ASSUME NEW j \in 1 .. k PROVE s[j].run # h[n + 1].run
    <3>1. PICK i \in 1 .. n : s[j] = h[i]  BY <2>2 DEF Holding
    <3> QED BY <1>1, <3>1 DEF History
  <2>4. History(g)
    <3>1. \A a, b \in DOMAIN g : g[a].run = g[b].run => a = b
      BY SMTT(30), <2>1, <2>2, <2>3 DEF Holding, History
    <3>2. \A a \in DOMAIN g : g[a].path = NoPath => ~ g[a].cleared
      BY <1>1, <2>1, <2>2 DEF Holding, History
    <3> QED BY <2>1, <3>1, <3>2 DEF History
  <2>5. ASSUME NEW i \in 1 .. n + 1, i \in places PROVE \E j \in DOMAIN g : g[j] = h[i]
    <3>1. CASE i = n + 1  BY <2>1, <3>1
    <3>2. CASE i # n + 1
      <4>1. PICK j \in DOMAIN s : s[j] = h[i]  BY <1>1, <2>5, <3>2 DEF Holding
      <4> QED BY <2>1, <2>2, <4>1
    <3> QED BY <3>1, <3>2
  <2>6. ASSUME NEW j \in DOMAIN g PROVE \E i \in 1 .. n + 1 : i \in places /\ g[j] = h[i]
    <3>1. CASE j = k + 1
      <4>1. n + 1 \in 1 .. n + 1  OBVIOUS
      <4> QED BY <1>4, <2>1, <3>1, <4>1
    <3>2. CASE j # k + 1
      <4>1. j \in DOMAIN s /\ g[j] = s[j]  BY <2>1, <2>2, <3>2
      <4>2. PICK i \in 1 .. n : i \in places /\ s[j] = h[i]  BY <4>1 DEF Holding
      <4> QED BY <1>1, <4>1, <4>2
    <3> QED BY <3>1, <3>2
  <2>7. Holding(g, h, places, n + 1)  BY <2>4, <2>5, <2>6 DEF Holding
  <2> QED BY <1>4, <2>7 DEF g
<1> QED BY <1>3, <1>4

\* What is kept is a history of its own, of the records at those places.
LEMMA KeptHolds ==
  ASSUME NEW h, History(h), NEW places
  PROVE  Holding(Kept(h, places), h, places, Len(h))
<1>1. h \in Seq(Records) /\ Len(h) \in Nat  BY DEF History
<1>2. PICK f : KeepsTo(f, h, places) /\ Kept(h, places) = f[Len(h)]  BY <1>1, KeptRecurs
<1>3. ASSUME NEW i \in 0 .. Len(h)
      PROVE  f[i] = IF i = 0 THEN <<>>
                    ELSE IF i \in places THEN Append(f[i - 1], h[i]) ELSE f[i - 1]
  BY <1>2, <1>3 DEF KeepsTo
<1> DEFINE T == {n \in Nat : n <= Len(h) => Holding(f[n], h, places, n)}
<1>4. 0 \in T
  <2>1. f[0] = <<>>  BY <1>1, <1>3
  <2>2. History(<<>>) /\ DOMAIN <<>> = {} /\ 1 .. 0 = {}  BY EmptyHistory DEF Histories
  <2>3. Holding(<<>>, h, places, 0)  BY <2>2 DEF Holding
  <2> QED BY <2>1, <2>3
<1>5. ASSUME NEW n \in T PROVE n + 1 \in T
  <2>0. n \in Nat /\ n + 1 \in Nat  OBVIOUS
  <2> SUFFICES ASSUME n + 1 <= Len(h) PROVE Holding(f[n + 1], h, places, n + 1)  BY <2>0
  <2>1. n + 1 \in 0 .. Len(h) /\ n + 1 # 0 /\ (n + 1) - 1 = n /\ n <= Len(h)
    BY <1>1, <2>0
  <2>2. f[n + 1] = IF n + 1 \in places THEN Append(f[n], h[n + 1]) ELSE f[n]
    BY <1>3, <2>1
  <2>3. Holding(f[n], h, places, n)  BY <2>0, <2>1
  <2> QED BY <2>0, <2>2, <2>3, HoldingStep
<1>6. T \in SUBSET Nat  OBVIOUS
<1> HIDE DEF T
<1>7. T = Nat  BY <1>4, <1>5, <1>6, Induct
<1>8. Holding(f[Len(h)], h, places, Len(h))  BY <1>1, <1>7 DEF T
<1> QED BY <1>2, <1>8

-----------------------------------------------------------------------------
(* What a compaction writes folds back into what it was written for.         *)

\* Events about a run that is last in the journal, and nowhere else in it.
LEMMA LastNoted ==
  ASSUME NEW h, History(h), NEW rec \in Records, rec.run \notin RunsIn(h)
  PROVE  /\ \A p \in Paths, c \in BOOLEAN :
               Noted(Append(h, rec), rec.run, p, c) =
                 Append(h, [run |-> rec.run, status |-> rec.status, path |-> p,
                            cleared |-> rec.cleared \/ c])
         /\ \A s \in Outcomes : rec.status = "running" =>
               Ended(Append(h, rec), rec.run, s) =
                 Append(h, [run |-> rec.run, status |-> s, path |-> rec.path,
                            cleared |-> rec.cleared])
<1> DEFINE g == Append(h, rec)
           k == Len(h)
<1>0. /\ h \in Seq(Records) /\ k \in Nat /\ DOMAIN h = 1 .. k
      /\ DOMAIN g = 1 .. k + 1 /\ g[k + 1] = rec
      /\ \A i \in 1 .. k : g[i] = h[i] /\ i # k + 1
      /\ \A i \in 1 .. k + 1 : i # k + 1 => i \in 1 .. k
  BY DEF History
<1>1. \A i \in 1 .. k : h[i].run # rec.run  BY <1>0 DEF RunsIn
<1>2. ASSUME NEW x \in Records
      PROVE  Append(h, x) = [i \in 1 .. k + 1 |-> IF i = k + 1 THEN x ELSE h[i]]
  <2> DEFINE y == Append(h, x)
  <2>1. y \in Seq(Records) /\ Len(y) = k + 1 /\ y[k + 1] = x /\ \A i \in 1 .. k : y[i] = h[i]
    BY <1>0
  <2> HIDE DEF y, k
  <2>2. y \in [1 .. k + 1 -> Records]  BY <2>1
  <2>3. y = [i \in 1 .. k + 1 |-> y[i]]  BY <2>2
  <2>4. \A i \in 1 .. k + 1 : y[i] = IF i = k + 1 THEN x ELSE h[i]  BY <1>0, <2>1
  <2>5. y = [i \in 1 .. k + 1 |-> IF i = k + 1 THEN x ELSE h[i]]  BY <2>3, <2>4
  <2> QED BY <2>5 DEF y
<1> HIDE DEF g, k
<1>3. ASSUME NEW p \in Paths, NEW c \in BOOLEAN
      PROVE  Noted(g, rec.run, p, c) =
               Append(h, [run |-> rec.run, status |-> rec.status, path |-> p,
                          cleared |-> rec.cleared \/ c])
  <2> DEFINE x == [run |-> rec.run, status |-> rec.status, path |-> p,
                   cleared |-> rec.cleared \/ c]
  <2>0. x = [rec EXCEPT !.path = p, !.cleared = @ \/ c]
    <3> DEFINE e == [rec EXCEPT !.path = p, !.cleared = @ \/ c]
    <3>1. /\ DOMAIN e = {"run", "status", "path", "cleared"}
          /\ e.run = rec.run /\ e.status = rec.status /\ e.path = p
          /\ e.cleared = (rec.cleared \/ c)
          /\ e = [f \in DOMAIN e |-> e[f]]
      BY DEF Records
    <3> HIDE DEF e
    <3>2. e = x  BY <3>1
    <3> QED BY <3>2 DEF e
  <2>1. Noted(g, rec.run, p, c) = [i \in 1 .. k + 1 |-> IF i = k + 1 THEN x ELSE h[i]]
    BY ZenonT(40), <1>0, <1>1, <2>0 DEF Noted
  <2>2. x \in Records  BY DEF Records
  <2> QED BY <1>2, <2>1, <2>2
<1>4. ASSUME NEW s \in Outcomes, rec.status = "running"
      PROVE  Ended(g, rec.run, s) =
               Append(h, [run |-> rec.run, status |-> s, path |-> rec.path,
                          cleared |-> rec.cleared])
  <2> DEFINE x == [run |-> rec.run, status |-> s, path |-> rec.path,
                   cleared |-> rec.cleared]
  <2>0. x = [rec EXCEPT !.status = s]  BY DEF Records
  <2>1. Ended(g, rec.run, s) = [i \in 1 .. k + 1 |-> IF i = k + 1 THEN x ELSE h[i]]
    BY <1>0, <1>1, <1>4, <2>0 DEF Ended
  <2>2. x \in Records  BY DEF Records
  <2> QED BY <1>2, <2>1, <2>2
<1> QED BY <1>3, <1>4 DEF g

LEMMA EventsOfEvents ==
  ASSUME NEW rec \in Records
  PROVE  EventsOf(rec) \in Seq(Events)
<1>1. rec.run \in Runs /\ rec.status \in Outcomes \cup {"running"}
      /\ rec.path \in Paths \cup {NoPath} /\ rec.cleared \in BOOLEAN
  BY DEF Records
<1>2. Started(rec.run) \in Events
      /\ (rec.path # NoPath => Transcript(rec.run, rec.path, rec.cleared) \in Events)
      /\ (rec.status # "running" => Closed(rec.run, rec.status) \in Events)
  BY <1>1, EventMade
<1> QED BY <1>2 DEF EventsOf

LEMMA AppendOne ==
  ASSUME NEW S, NEW ls \in Seq(S), NEW a \in S
  PROVE  ls \o <<a>> = Append(ls, a) /\ ls \o <<>> = ls /\ Append(ls, a) \in Seq(S)
OBVIOUS

LEMMA FoldedRecord ==
  ASSUME NEW ls \in Seq(Plain), NEW rec \in Records,
         rec.run \notin RunsIn(Folded(ls)), rec.path = NoPath => ~ rec.cleared
  PROVE  Folded(ls \o EventsOf(rec)) = Append(Folded(ls), rec)
<1> DEFINE h == Folded(ls)
           r == rec.run
           opened == Opened(r)
           noted == IF rec.path = NoPath THEN opened
                    ELSE [opened EXCEPT !.path = rec.path, !.cleared = @ \/ rec.cleared]
           a == Started(r)
           b == Transcript(r, rec.path, rec.cleared)
           c == Closed(r, rec.status)
           ls1 == Append(ls, a)
           ls2 == IF rec.path = NoPath THEN ls1 ELSE Append(ls1, b)
           ls3 == IF rec.status = "running" THEN ls2 ELSE Append(ls2, c)
<1>1. /\ r \in Runs /\ rec.status \in Outcomes \cup {"running"}
      /\ rec.path \in Paths \cup {NoPath} /\ rec.cleared \in BOOLEAN
      /\ rec = [run |-> r, status |-> rec.status, path |-> rec.path, cleared |-> rec.cleared]
  BY DEF Records
<1>2. a \in Plain /\ (rec.path # NoPath => b \in Plain) /\ (rec.status # "running" => c \in Plain)
  BY <1>1, EventMade DEF Plain
<1>3. History(h)  BY FoldedHistory
<1> HIDE DEF a, b, c, h
<1>4. Folded(ls1) = Append(h, opened) /\ ls1 \in Seq(Plain)
  <2>1. Folded(ls1) = Apply(h, a)  BY <1>2, FoldedAppend DEF h
  <2>2. Apply(h, a) = Began(h, r)  BY ApplyIs DEF a
  <2> QED BY <1>2, <2>1, <2>2 DEF Began, h
<1>5. opened \in Records /\ opened.run = r /\ opened.status = "running"
      /\ opened.path = NoPath /\ opened.cleared = FALSE
  BY <1>1 DEF Opened, Records
<1>6. noted = [run |-> r, status |-> "running", path |-> rec.path, cleared |-> rec.cleared]
      /\ noted \in Records
  BY <1>1 DEF Opened, Records
<1>7. rec.path = NoPath => noted = opened  OBVIOUS
<1> HIDE DEF opened, noted, ls1
<1>9. Folded(ls2) = Append(h, noted) /\ ls2 \in Seq(Plain)
  <2>1. CASE rec.path = NoPath  BY <1>4, <1>7, <2>1
  <2>2. CASE rec.path # NoPath
    <3> DEFINE g == Append(h, opened)
    <3>1. Folded(Append(ls1, b)) = Apply(g, b)  BY <1>2, <1>4, <2>2, FoldedAppend
    <3>2. opened.run \notin RunsIn(h) /\ rec.path \in Paths  BY <1>1, <1>5, <2>2 DEF h
    <3>3. Noted(g, opened.run, rec.path, rec.cleared)
            = Append(h, [run |-> opened.run, status |-> opened.status, path |-> rec.path,
                         cleared |-> opened.cleared \/ rec.cleared])
      BY <1>1, <1>3, <1>5, <3>2, LastNoted
    <3>4. Append(ls1, b) \in Seq(Plain)  BY <1>2, <1>4, <2>2
    <3> HIDE DEF g
    <3>5. Apply(g, b) = Noted(g, r, rec.path, rec.cleared)
      <4>1. \A x, y, z : Apply(g, Transcript(x, y, z)) = Noted(g, x, y, z)  BY ApplyIs
      <4> QED BY <4>1, Zenon DEF b
    <3> QED BY <1>1, <1>5, <1>6, <2>2, <3>1, <3>3, <3>4, <3>5
  <2> QED BY <2>1, <2>2
<1> HIDE DEF ls2
<1>10. Folded(ls3) = Append(h, rec)
  <2>1. CASE rec.status = "running"
    <3>1. noted = rec  BY <1>1, <1>6, <2>1
    <3> QED BY <1>9, <2>1, <3>1
  <2>2. CASE rec.status # "running"
    <3> DEFINE g == Append(h, noted)
    <3>1. Folded(Append(ls2, c)) = Apply(g, c)  BY <1>2, <1>9, <2>2, FoldedAppend
    <3>2. noted.run = r /\ noted.status = "running" /\ noted.path = rec.path
          /\ noted.cleared = rec.cleared
      BY <1>1, <1>6
    <3>3. noted.run \notin RunsIn(h) /\ rec.status \in Outcomes  BY <1>1, <2>2, <3>2 DEF h
    <3>4. Ended(g, noted.run, rec.status)
            = Append(h, [run |-> noted.run, status |-> rec.status, path |-> noted.path,
                         cleared |-> noted.cleared])
      BY <1>3, <1>6, <3>2, <3>3, LastNoted
    <3> HIDE DEF g
    <3>5. Apply(g, c) = Ended(g, r, rec.status)
      <4>1. \A x, y : Apply(g, Closed(x, y)) = Ended(g, x, y)  BY ApplyIs
      <4> QED BY <4>1, Zenon DEF c
    <3> QED BY <1>1, <2>2, <3>1, <3>2, <3>4, <3>5
  <2> QED BY <2>1, <2>2
<1>11. ls \o EventsOf(rec) = ls3
  <2> DEFINE x == IF rec.path = NoPath THEN <<>> ELSE <<b>>
             y == IF rec.status = "running" THEN <<>> ELSE <<c>>
  <2>1. EventsOf(rec) = <<a>> \o x \o y  BY DEF EventsOf, a, b, c
  <2>2. <<a>> \in Seq(Plain) /\ x \in Seq(Plain) /\ y \in Seq(Plain)  BY <1>2
  <2>3. (ls \o <<a>>) \o x = ls2
    <3>1. ls \o <<a>> = ls1 /\ ls1 \in Seq(Plain)  BY <1>2, AppendOne DEF ls1
    <3>2. ls1 \o x = ls2
      <4>1. CASE rec.path = NoPath  BY <3>1, <4>1, AppendOne DEF ls2
      <4>2. CASE rec.path # NoPath  BY <1>2, <3>1, <4>2, AppendOne DEF ls2
      <4> QED BY <4>1, <4>2
    <3> QED BY <3>1, <3>2
  <2>4. ls2 \o y = ls3
    <3>1. CASE rec.status = "running"  BY <1>9, <3>1, AppendOne
    <3>2. CASE rec.status # "running"  BY <1>2, <1>9, <3>2, AppendOne
    <3> QED BY <3>1, <3>2
  <2> HIDE DEF x, y
  <2>5. (ls \o <<a>>) \o x = ls \o (<<a>> \o x)  BY <2>2, ConcatAssociative
  <2>6. <<a>> \o x \in Seq(Plain)  BY <2>2, ConcatProperties
  <2>7. (ls \o (<<a>> \o x)) \o y = ls \o (<<a>> \o x \o y)
    BY <2>2, <2>6, ConcatAssociative
  <2> QED BY <2>1, <2>3, <2>4, <2>5, <2>7
<1> QED BY <1>10, <1>11 DEF h

\* Flattening, sequence by sequence.
FlattensTo(f, seqs) ==
  f = [i \in 1 .. Len(seqs) |-> IF i = 1 THEN seqs[i] ELSE f[i - 1] \o seqs[i]]

LEMMA FlattenRecurs ==
  ASSUME NEW S, NEW seqs \in Seq(Seq(S)), Len(seqs) # 0
  PROVE  \E f : FlattensTo(f, seqs) /\ FlattenSeq(seqs) = f[Len(seqs)]
<1> DEFINE step == [i \in Nat |-> [s \in Seq(S) |->
                     IF i = 1 THEN seqs[1]
                     ELSE IF i \in DOMAIN seqs THEN s \o seqs[i] ELSE s]]
           n == Len(seqs)
<1>1. n \in Nat /\ DOMAIN seqs = 1 .. n /\ <<>> \in Seq(S) /\ 1 \in DOMAIN seqs  OBVIOUS
<1>2. ASSUME NEW i \in Nat, NEW s \in Seq(S) PROVE step[i][s] \in Seq(S)
  <2>1. i \in DOMAIN seqs => seqs[i] \in Seq(S) /\ s \o seqs[i] \in Seq(S)
    BY ConcatProperties
  <2>2. seqs[1] \in Seq(S)  BY <1>1
  <2> QED BY <2>1, <2>2
<1>3. step \in [Nat -> [Seq(S) -> Seq(S)]]  BY <1>2
<1>4. \A i \in Nat : \A s \in Seq(S) :
         step[i][s] = IF i = 1 THEN seqs[1]
                      ELSE IF i \in DOMAIN seqs THEN s \o seqs[i] ELSE s
  OBVIOUS
<1> HIDE DEF step
<1>5. PICK f \in [0 .. n -> Seq(S)] : Recurs(f, n, <<>>, step)
  BY <1>1, <1>3, Recursion
<1> DEFINE e == [i \in 1 .. n |-> f[i]]
<1>6. ASSUME NEW i \in 1 .. n
      PROVE  e[i] = IF i = 1 THEN seqs[i] ELSE e[i - 1] \o seqs[i]
  <2>1. i \in 0 .. n /\ i # 0 /\ i \in Nat /\ i - 1 \in 0 .. n /\ i \in DOMAIN seqs
        /\ (i # 1 => i - 1 \in 1 .. n)
    BY <1>1
  <2>2. f[i] = step[i][f[i - 1]]  BY <1>5, <2>1 DEF Recurs
  <2>3. f[i] = IF i = 1 THEN seqs[1] ELSE f[i - 1] \o seqs[i]  BY <1>4, <2>1, <2>2
  <2> QED BY <2>1, <2>3
<1>7. FlattensTo(e, seqs)  BY <1>6 DEF FlattensTo
<1> HIDE DEF e
<1> DEFINE g == CHOOSE x : FlattensTo(x, seqs)
<1>8. FlattensTo(g, seqs)  BY <1>7
<1>9. FlattenSeq(seqs) = g[n]  BY DEF FlattenSeq, FlattensTo
<1> QED BY <1>8, <1>9

\* The file written for a history reads as that history.
THEOREM RenderedFolds ==
  ASSUME NEW h, History(h)
  PROVE  Rendered(h) \in Seq(Events) /\ Folded(Rendered(h)) = h
<1> DEFINE seqs == [i \in DOMAIN h |-> EventsOf(h[i])]
           n == Len(h)
<1>1. h \in Seq(Records) /\ n \in Nat /\ DOMAIN h = 1 .. n  BY DEF History
<1>2. ASSUME NEW i \in 1 .. n PROVE EventsOf(h[i]) \in Seq(Events)
  BY <1>1, EventsOfEvents
<1>3. seqs \in Seq(Seq(Events)) /\ Len(seqs) = n /\ \A i \in 1 .. n : seqs[i] = EventsOf(h[i])
  <2>1. seqs \in [1 .. n -> Seq(Events)]  BY <1>1, <1>2
  <2> QED BY <1>1, <2>1
<1>4. Rendered(h) = FlattenSeq(seqs)  BY DEF Rendered
<1> HIDE DEF seqs
<1>5. CASE n = 0
  <2>1. h = <<>> /\ seqs = <<>>  BY <1>1, <1>3, <1>5
  <2>2. FlattenSeq(seqs) = seqs  BY <1>3, <1>5 DEF FlattenSeq
  <2>3. <<>> \in Seq(Events)  OBVIOUS
  <2> QED BY <1>4, <2>1, <2>2, <2>3, FoldedEmpty
<1>6. CASE n # 0
  <2>1. PICK f : FlattensTo(f, seqs) /\ FlattenSeq(seqs) = f[n]
    BY <1>3, <1>6, FlattenRecurs
  <2>2. ASSUME NEW i \in 1 .. n
        PROVE  f[i] = IF i = 1 THEN EventsOf(h[i]) ELSE f[i - 1] \o EventsOf(h[i])
    <3>1. f[i] = IF i = 1 THEN seqs[i] ELSE f[i - 1] \o seqs[i]
      BY <1>3, <2>1, <2>2 DEF FlattensTo
    <3> QED BY <1>3, <3>1
  <2> DEFINE T == {k \in Nat : k + 1 <= n =>
                     f[k + 1] \in Seq(Events) /\ Folded(f[k + 1]) = SubSeq(h, 1, k + 1)}
  <2>3. ASSUME NEW k \in Nat, k + 1 <= n, NEW ls \in Seq(Events), Folded(ls) = SubSeq(h, 1, k),
               f[k + 1] = ls \o EventsOf(h[k + 1])
        PROVE  f[k + 1] \in Seq(Events) /\ Folded(f[k + 1]) = SubSeq(h, 1, k + 1)
    <3> DEFINE rec == h[k + 1]
               past == SubSeq(h, 1, k)
    <3>1. /\ k + 1 \in 1 .. n /\ rec \in Records
          /\ past \in Seq(Records) /\ Len(past) = k
          /\ \A j \in 1 .. k : past[j] = h[j] /\ j \in 1 .. n /\ j # k + 1
      BY <1>1, <2>3
    <3> HIDE DEF past, rec
    <3>2. rec.run \notin RunsIn(past)  BY <1>1, <3>1 DEF RunsIn, History, rec
    <3>3. rec.path = NoPath => ~ rec.cleared  BY <1>1, <3>1 DEF History, rec
    <3>4. ls \in Seq(Plain)  BY SMTT(30), SeqMonotonic DEF Plain
    <3>5. Folded(ls) = past  BY <2>3 DEF past
    <3>6. Folded(ls \o EventsOf(rec)) = Append(past, rec)
      BY <3>1, <3>2, <3>3, <3>4, <3>5, FoldedRecord
    <3>7. Append(past, rec) = SubSeq(h, 1, k + 1)
      <4> DEFINE y == SubSeq(h, 1, k + 1)
                 z == Append(past, rec)
      <4>1. y \in Seq(Records) /\ Len(y) = k + 1 /\ \A j \in 1 .. k + 1 : y[j] = h[j]
        BY <1>1, <2>3
      <4>2. /\ z \in Seq(Records) /\ Len(z) = k + 1 /\ z[k + 1] = rec
            /\ \A j \in 1 .. k : z[j] = past[j]
        BY <3>1
      <4> HIDE DEF y, z
      <4>3. \A j \in 1 .. k + 1 : z[j] = y[j]  BY <3>1, <4>1, <4>2 DEF rec
      <4>4. z = y  BY <4>1, <4>2, <4>3, SeqEqual
      <4> QED BY <4>4 DEF y, z
    <3>8. EventsOf(rec) \in Seq(Events)  BY <3>1, EventsOfEvents
    <3>9. ls \o EventsOf(rec) \in Seq(Events)  BY <3>8, ConcatProperties
    <3> QED BY <2>3, <3>6, <3>7, <3>9 DEF rec
  <2>4. 0 \in T
    <3>1. 1 \in 1 .. n /\ 0 + 1 = 1  BY <1>1, <1>6
    <3>2. f[1] = EventsOf(h[1]) /\ EventsOf(h[1]) \in Seq(Events)  BY <1>2, <2>2, <3>1
    <3>3. EventsOf(h[1]) = <<>> \o EventsOf(h[1])  BY <3>2, ConcatEmptySeq
    <3>4. <<>> \in Seq(Events) /\ SubSeq(h, 1, 0) = <<>>  BY <1>1, SubSeqEmpty
    <3>5. f[0 + 1] = <<>> \o EventsOf(h[0 + 1])  BY <3>1, <3>2, <3>3
    <3>6. Folded(<<>>) = SubSeq(h, 1, 0)  BY <3>4, FoldedEmpty
    <3>7. 0 \in Nat /\ 0 + 1 <= n  BY <1>1, <1>6
    <3>8. f[0 + 1] \in Seq(Events) /\ Folded(f[0 + 1]) = SubSeq(h, 1, 0 + 1)
      BY <2>3, <3>4, <3>5, <3>6, <3>7
    <3> QED BY <3>8
  <2>5. ASSUME NEW k \in T PROVE k + 1 \in T
    <3>0. k \in Nat /\ k + 1 \in Nat  OBVIOUS
    <3> SUFFICES ASSUME (k + 1) + 1 <= n
                 PROVE  f[(k + 1) + 1] \in Seq(Events)
                        /\ Folded(f[(k + 1) + 1]) = SubSeq(h, 1, (k + 1) + 1)
      BY <3>0
    <3>1. f[k + 1] \in Seq(Events) /\ Folded(f[k + 1]) = SubSeq(h, 1, k + 1)
      BY <1>1, <3>0
    <3>2. (k + 1) + 1 \in 1 .. n /\ (k + 1) + 1 # 1 /\ ((k + 1) + 1) - 1 = k + 1
      BY <1>1, <3>0
    <3>3. f[(k + 1) + 1] = f[k + 1] \o EventsOf(h[(k + 1) + 1])  BY <2>2, <3>2
    <3> HIDE DEF T
    <3> QED BY <2>3, <3>0, <3>1, <3>3
  <2>6. T \in SUBSET Nat  OBVIOUS
  <2> HIDE DEF T
  <2>7. T = Nat  BY <2>4, <2>5, <2>6, Induct
  <2>8. n - 1 \in Nat /\ (n - 1) + 1 = n  BY <1>1, <1>6
  <2>9. f[n] \in Seq(Events) /\ Folded(f[n]) = SubSeq(h, 1, n)
    <3>1. n - 1 \in T  BY <2>7, <2>8
    <3> QED BY <1>1, <2>8, <3>1 DEF T
  <2>10. SubSeq(h, 1, n) = h  BY <1>1, SubSeqFull
  <2> QED BY <1>4, <2>1, <2>9, <2>10
<1> QED BY <1>5, <1>6

-----------------------------------------------------------------------------
(* The file.                                                                 *)

\* No line is cut off inside a character.
NoSplit == Fragments \subseteq {Torn}

\* Where the disk may be full or a history erased, Main is the only writer.
OneWriter ==
  \A b \in Budgets : b.full > 0 \/ b.erasures > 0 => b.closers = 0 /\ b.notes = 0

Others == Threads \ {Main}

Typed ==
  /\ lines \in Seq(Plain) /\ ended \in BOOLEAN /\ journal = Folded(lines) /\ inode \in Nat
  /\ phase \in {"down", "sweep", "compact", "idle", "erase"}
  /\ todo \in [Threads -> Seq(Events)]
  /\ handle \in [Threads -> [open : BOOLEAN, heal : BOOLEAN, inode : Nat]]
  /\ History(seen)
  /\ stage \in [Runs -> {"new", "starting", "open", "over"}]
  /\ known \in [Runs -> Paths \cup {NoPath}]
  /\ acked \subseteq Events
  /\ budget \in [runs : SUBSET Runs, closers : Nat, notes : Nat, erasures : Nat, full : Nat]
  /\ stops \in 0 .. MaxStops

\* An open handle is on the file of now, and knows how it ends.
Handles ==
  \A t \in Threads : handle[t].open =>
    Busy(t) /\ handle[t].inode = inode /\ (ended \/ handle[t].heal)

Sole == budget.closers = 0 /\ budget.notes = 0 /\ \A t \in Others : Idle(t)

Writers == Sole \/ (budget.full = 0 /\ budget.erasures = 0 /\ phase # "erase")

\* Who writes in which phase, and what a rewrite under way will write.
Phases ==
  /\ phase \in {"down", "sweep", "compact"} => \A t \in Others : Idle(t)
  /\ phase \in {"down", "compact", "erase"} => Idle(Main)
  /\ phase = "compact" => seen = Recent(journal)
  /\ phase = "erase" =>
       \E k \in Scenarios, w \in Workspaces \cup {NoWorkspace} :
         /\ erasing = <<k, w>> /\ ~ HasRunning(journal, k, w)
         /\ seen = Without(journal, k, w)

FileInv == Typed /\ Handles /\ Writers /\ Phases

LEMMA SplitIsNotPlain == Split \notin Plain /\ Torn \in Plain /\ Events \subseteq Plain
BY DEF Split, Torn, Plain, Events

LEMMA PlainReads ==
  ASSUME NEW body \in Seq(Plain)
  PROVE  Read(body) = Folded(body)
<1>1. \A i \in DOMAIN body : body[i] \in Plain  OBVIOUS
<1> QED BY <1>1, SplitIsNotPlain DEF Read

\* A step that adds a line, or none.
Adds(line, whole) ==
  /\ lines' \in Seq(Plain) /\ ended' = whole
  /\ journal' = Folded(lines') /\ journal' = Apply(journal, line)

LEMMA PutsAdds ==
  ASSUME FileInv, NEW t \in Threads, handle[t].open,
         NEW piece \in Plain, NEW whole \in BOOLEAN, Puts(t, piece, whole)
  PROVE  Adds(piece, whole)
<1>1. handle[t].inode = inode /\ (ended \/ handle[t].heal)  BY DEF FileInv, Handles
<1>2. Holds(Append(lines, piece), whole)  BY <1>1 DEF Puts, Landed
<1>3. lines \in Seq(Plain) /\ journal = Folded(lines)  BY DEF FileInv, Typed
<1>4. Append(lines, piece) \in Seq(Plain)  BY <1>3
<1>5. journal' = Folded(Append(lines, piece)) /\ lines' = Append(lines, piece)
  BY <1>2, <1>4, PlainReads DEF Holds
<1>6. Folded(Append(lines, piece)) = Apply(journal, piece)  BY <1>3, FoldedAppend
<1>7. ended' = whole  BY <1>2 DEF Holds
<1> QED BY <1>4, <1>5, <1>6, <1>7 DEF Adds

LEMMA BusyHas ==
  ASSUME NEW q \in Seq(Events), q # <<>>
  PROVE  /\ Len(q) \in Nat \ {0} /\ Head(q) \in Events /\ Head(q) = q[1] /\ 1 \in DOMAIN q
         /\ Tail(q) \in Seq(Events)
         /\ \A i \in DOMAIN Tail(q) : /\ i + 1 \in DOMAIN q /\ i + 1 > 1
                                      /\ Tail(q)[i] = q[i + 1]
OBVIOUS

\* What is cut short adds the line, or none.
LEMMA CutAdds ==
  ASSUME FileInv, NoSplit, NEW t \in Threads, handle[t].open, CutShort(t)
  PROVE  /\ Head(todo[t]) \in Events
         /\ Adds(Torn, ended') \/ Adds(Head(todo[t]), ended')
         /\ ended' \in BOOLEAN
<1>1. todo[t] \in Seq(Events) /\ todo[t] # <<>>
  BY DEF FileInv, Typed, Handles, Busy, Idle
<1>2. Head(todo[t]) \in Events  BY <1>1, BusyHas
<1>3. lines \in Seq(Plain) /\ journal = Folded(lines)  BY DEF FileInv, Typed
<1>4. CASE Holds(lines, TRUE)
  <2>1. lines' = lines /\ ended' = TRUE /\ journal' = Folded(lines)
    BY <1>3, <1>4, PlainReads DEF Holds
  <2>2. Adds(Torn, ended')  BY <1>3, <2>1, ApplyIs DEF Adds
  <2> QED BY <1>2, <2>1, <2>2
<1>5. CASE \E piece \in Fragments \cup {Head(todo[t])} : Puts(t, piece, FALSE)
  <2>1. PICK piece \in {Torn, Head(todo[t])} : Puts(t, piece, FALSE)  BY <1>5 DEF NoSplit
  <2>2. piece \in Plain  BY <1>2, SplitIsNotPlain
  <2>3. Adds(piece, FALSE)  BY <2>1, <2>2, PutsAdds
  <2>4. ended' = FALSE  BY <2>3 DEF Adds
  <2> QED BY <1>2, <2>3, <2>4
<1> QED BY <1>4, <1>5 DEF CutShort

\* A rewrite leaves the history it was for.
LEMMA ReplaceReads ==
  ASSUME NEW h, History(h), Replace(h)
  PROVE  /\ lines' \in Seq(Plain) /\ ended' = TRUE
         /\ journal' = Folded(lines') /\ journal' = h
<1>1. Rendered(h) \in Seq(Events) /\ Folded(Rendered(h)) = h  BY RenderedFolds
<1>2. Rendered(h) \in Seq(Plain)  BY <1>1, SplitIsNotPlain, SeqMonotonic
<1> QED BY <1>1, <1>2, PlainReads DEF Replace, Holds

LEMMA FileInit ==
  ASSUME Init, OneWriter
  PROVE  FileInv
<1>1. Typed
  <2>1. <<>> \in Seq(Plain) /\ <<>> \in Seq(Events) /\ History(<<>>)
    BY EmptyHistory DEF Histories
  <2>2. budget \in [runs : SUBSET Runs, closers : Nat, notes : Nat, erasures : Nat, full : Nat]
    BY BoundsAssumption DEF Init
  <2>3. Shut \in [open : BOOLEAN, heal : BOOLEAN, inode : Nat]  BY DEF Shut
  <2>4. 0 \in 0 .. MaxStops  BY BoundsAssumption
  <2> QED BY <2>1, <2>2, <2>3, <2>4, FoldedEmpty DEF Init, Typed
<1>2. Handles  BY DEF Init, Handles, Shut
<1>3. Writers
  <2>1. budget.full \in Nat /\ budget.erasures \in Nat /\ budget \in Budgets
    BY <1>1 DEF Typed, Init
  <2>2. \A t \in Others : Idle(t)  BY DEF Init, Idle, Others
  <2>3. CASE budget.full > 0 \/ budget.erasures > 0
    BY <2>1, <2>2, <2>3 DEF OneWriter, Writers, Sole
  <2>4. CASE ~ (budget.full > 0 \/ budget.erasures > 0)
    <3>1. budget.full = 0 /\ budget.erasures = 0  BY <2>1, <2>4
    <3> QED BY <3>1 DEF Writers, Init
  <2> QED BY <2>3, <2>4
<1>4. Phases
  <2>1. \A t \in Threads : Idle(t)  BY DEF Init, Idle
  <2>2. Main \in Threads /\ Others \subseteq Threads  BY DEF Threads, Others
  <2> QED BY <2>1, <2>2 DEF Init, Phases
<1> QED BY <1>1, <1>2, <1>3, <1>4 DEF FileInv

LEMMA OpenKeeps ==
  ASSUME FileInv, NEW t \in Threads, OpenFile(t)
  PROVE  FileInv'
<1> DEFINE here == [open |-> TRUE, heal |-> ~ ended, inode |-> inode]
<1>1. /\ handle' = [handle EXCEPT ![t] = here] /\ Busy(t)
      /\ lines' = lines /\ ended' = ended /\ journal' = journal /\ inode' = inode
      /\ phase' = phase /\ todo' = todo /\ seen' = seen /\ erasing' = erasing
      /\ stage' = stage /\ known' = known /\ acked' = acked /\ budget' = budget
      /\ stops' = stops
  BY DEF OpenFile, file, text
<1>2. here \in [open : BOOLEAN, heal : BOOLEAN, inode : Nat]
  BY DEF FileInv, Typed
<1> HIDE DEF here
<1>3. Typed'  BY <1>1, <1>2 DEF FileInv, Typed
<1>4. Handles'
  <2> SUFFICES ASSUME NEW u \in Threads, handle'[u].open
               PROVE  Busy(u)' /\ handle'[u].inode = inode /\ (ended \/ handle'[u].heal)
    BY <1>1 DEF Handles
  <2>1. CASE u = t
    <3>1. handle'[u] = here  BY <1>1, <2>1 DEF FileInv, Typed
    <3>2. here.inode = inode /\ here.heal = ~ ended  BY DEF here
    <3>3. Busy(u)'  BY <1>1, <2>1 DEF Busy, Idle
    <3>4. ended \/ here.heal
      <4>1. CASE ended  BY <4>1
      <4>2. CASE ~ ended  BY <3>2, <4>2
      <4> QED BY <4>1, <4>2
    <3> QED BY <3>1, <3>2, <3>3, <3>4
  <2>2. CASE u # t
    <3>1. handle'[u] = handle[u]  BY <1>1, <2>2 DEF FileInv, Typed
    <3> QED BY <1>1, <3>1 DEF FileInv, Handles, Busy, Idle
  <2> QED BY <2>1, <2>2
<1>5. Writers'  BY <1>1 DEF FileInv, Writers, Sole, Idle
<1>6. Phases'  BY <1>1 DEF FileInv, Phases, Idle
<1> QED BY <1>3, <1>4, <1>5, <1>6 DEF FileInv

\* A thread done with a line: nothing but the file and what it had to write.
LEMMA MovesKeep ==
  ASSUME FileInv, NEW t \in Threads, handle[t].open, Moves(t),
         lines' \in Seq(Plain), ended' \in BOOLEAN, journal' = Folded(lines'),
         ended' \/ Sole, budget' = budget \/ budget' = [budget EXCEPT !.full = @ - 1],
         budget' = budget \/ budget.full > 0,
         acked' \subseteq Events,
         UNCHANGED <<inode, phase, seen, erasing, known, stops>>
  PROVE  FileInv'
<1> DEFINE ev == Head(todo[t])
<1>1. todo \in [Threads -> Seq(Events)] /\ todo[t] \in Seq(Events) /\ todo[t] # <<>>
  BY DEF FileInv, Typed, Handles, Busy, Idle
<1>2. ev \in Events /\ Tail(todo[t]) \in Seq(Events) /\ ev.run \in Runs
  BY <1>1, BusyHas, EventFacts
<1>3. todo' = [todo EXCEPT ![t] = Tail(todo[t])] /\ handle' = [handle EXCEPT ![t] = Shut]
  BY DEF Moves
<1>4. \A u \in Threads : u # t => todo'[u] = todo[u] /\ handle'[u] = handle[u]
  BY <1>1, <1>3 DEF FileInv, Typed
<1>5. handle'[t] = Shut /\ ~ Shut.open  BY <1>3 DEF FileInv, Typed, Shut
<1>6. budget' \in [runs : SUBSET Runs, closers : Nat, notes : Nat, erasures : Nat, full : Nat]
      /\ budget'.closers = budget.closers /\ budget'.notes = budget.notes
      /\ budget'.erasures = budget.erasures /\ (budget.full = 0 => budget'.full = 0)
  <2>1. budget \in [runs : SUBSET Runs, closers : Nat, notes : Nat, erasures : Nat, full : Nat]
    BY DEF FileInv, Typed
  <2>2. CASE budget' = budget  BY <2>1, <2>2
  <2>3. CASE budget' = [budget EXCEPT !.full = @ - 1] /\ budget.full > 0
    <3>1. budget.full \in Nat /\ budget.full - 1 \in Nat /\ budget.full # 0  BY <2>1, <2>3
    <3> DEFINE less == budget.full - 1
    <3>2. less \in Nat /\ budget' = [budget EXCEPT !.full = less]  BY <2>3, <3>1
    <3> HIDE DEF less
    <3> QED BY <2>1, <3>1, <3>2
  <2> QED BY <2>2, <2>3
<1>7. phase \notin {"down", "compact", "erase"} \/ t # Main
  BY <1>1 DEF FileInv, Phases, Idle
<1>8. phase \notin {"down", "sweep", "compact"} \/ t = Main
  BY <1>1 DEF FileInv, Phases, Idle, Others
<1>9. \A u \in Others : Idle(u) => Idle(u)'
  <2> SUFFICES ASSUME NEW u \in Others, Idle(u) PROVE Idle(u)'  OBVIOUS
  <2>1. u # t  BY <1>1 DEF Idle
  <2> QED BY <1>4, <2>1 DEF Idle, Others
<1>10. Typed'
  <2>1. stage' \in [Runs -> {"new", "starting", "open", "over"}]
    BY <1>2 DEF FileInv, Typed, Moves
  <2>2. todo' \in [Threads -> Seq(Events)]  BY <1>1, <1>2, <1>3
  <2>3. handle' \in [Threads -> [open : BOOLEAN, heal : BOOLEAN, inode : Nat]]
    BY <1>3 DEF FileInv, Typed, Shut
  <2> QED BY <1>6, <2>1, <2>2, <2>3 DEF FileInv, Typed
<1>11. Handles'
  <2> SUFFICES ASSUME NEW u \in Threads, handle'[u].open
               PROVE  Busy(u)' /\ handle'[u].inode = inode /\ (ended' \/ handle'[u].heal)
    BY DEF Handles
  <2>1. u # t  BY <1>5
  <2>2. handle'[u] = handle[u] /\ todo'[u] = todo[u]  BY <1>4, <2>1
  <2>3. Busy(u) /\ handle[u].inode = inode  BY <2>2 DEF FileInv, Handles
  <2>4. CASE ended'  BY <2>2, <2>3, <2>4 DEF Busy, Idle
  <2>5. CASE Sole
    <3>1. u \notin Others /\ t \notin Others  BY <1>1, <2>3, <2>5 DEF Sole, Busy, Idle
    <3> QED BY <2>1, <3>1 DEF Others
  <2> QED BY <2>4, <2>5
<1>12. Writers'
  <2>1. CASE Sole  BY <1>6, <1>9, <2>1 DEF Writers, Sole
  <2>2. CASE ~ Sole  BY <1>6, <2>2 DEF FileInv, Writers
  <2> QED BY <2>1, <2>2
<1>13. Phases'
  <2>1. phase' \in {"down", "sweep", "compact"} => \A u \in Others : Idle(u)'
    BY <1>9 DEF FileInv, Phases
  <2>2. phase' \in {"down", "compact", "erase"} => Idle(Main)'
    <3>1. Main \in Threads  BY DEF Threads
    <3> QED BY <1>4, <1>7, <3>1 DEF FileInv, Phases, Idle
  <2>3. phase' # "compact"
    BY <1>7, <1>8
  <2>4. phase' # "erase"
    <3>1. SUFFICES ASSUME phase = "erase" PROVE FALSE  OBVIOUS
    <3>2. Sole  BY <3>1 DEF FileInv, Writers
    <3>3. t \in Others  BY <1>7, <3>1 DEF Others
    <3> QED BY <1>1, <3>2, <3>3 DEF Sole, Idle
  <2> QED BY <2>1, <2>2, <2>3, <2>4 DEF Phases
<1> QED BY <1>10, <1>11, <1>12, <1>13 DEF FileInv

LEMMA WriteKeeps ==
  ASSUME FileInv, NEW t \in Threads, WriteLine(t)
  PROVE  /\ FileInv' /\ Head(todo[t]) \in Events
         /\ journal' = Apply(journal, Head(todo[t]))
<1>1. handle[t].open /\ Moves(t)  BY DEF WriteLine
<1>2. todo[t] \in Seq(Events) /\ todo[t] # <<>>
  BY <1>1 DEF FileInv, Typed, Handles, Busy, Idle
<1>3. Head(todo[t]) \in Events /\ Head(todo[t]) \in Plain  BY <1>2, BusyHas, SplitIsNotPlain
<1>4. Adds(Head(todo[t]), TRUE)  BY <1>1, <1>3, PutsAdds DEF WriteLine
<1>5. acked' \subseteq Events  BY <1>3 DEF WriteLine, FileInv, Typed
<1>6. FileInv'
  BY <1>1, <1>4, <1>5, MovesKeep DEF WriteLine, Adds
<1> QED BY <1>3, <1>4, <1>6 DEF Adds

LEMMA FailKeeps ==
  ASSUME FileInv, NoSplit, NEW t \in Threads, WriteFails(t)
  PROVE  /\ FileInv' /\ Head(todo[t]) \in Events
         /\ journal' \in {journal, Apply(journal, Head(todo[t]))}
<1>1. handle[t].open /\ Moves(t) /\ budget.full > 0
      /\ budget' = [budget EXCEPT !.full = @ - 1]
  BY DEF WriteFails
<1>2. todo[t] \in Seq(Events) /\ todo[t] # <<>>
  BY <1>1 DEF FileInv, Typed, Handles, Busy, Idle
<1>3. Head(todo[t]) \in Events  BY <1>2, BusyHas
<1>4. Sole  BY <1>1 DEF FileInv, Writers, Typed
<1>5. /\ lines' \in Seq(Plain) /\ ended' \in BOOLEAN /\ journal' = Folded(lines')
      /\ journal' \in {journal, Apply(journal, Head(todo[t]))}
  <2>1. CASE UNCHANGED text  BY <2>1 DEF FileInv, Typed, text
  <2>2. CASE CutShort(t)  BY <1>1, <2>2, CutAdds, ApplyIs DEF Adds
  <2> QED BY <2>1, <2>2 DEF WriteFails
<1>6. acked' \subseteq Events  BY DEF WriteFails, FileInv, Typed
<1>7. FileInv'
  BY <1>1, <1>4, <1>5, <1>6, MovesKeep DEF WriteFails
<1> QED BY <1>3, <1>5, <1>7

\* A thread that had nothing to write has something.
LEMMA CallKeeps ==
  ASSUME FileInv, NEW t \in Threads, NEW evs \in Seq(Events), Calls(t, evs),
         phase = "idle" \/ (phase = "erase" /\ t # Main),
         (budget' = budget /\ t = Main) \/ ~ Sole,
         budget' \in [runs : SUBSET Runs, closers : Nat, notes : Nat, erasures : Nat, full : Nat],
         budget'.full = budget.full /\ budget'.erasures = budget.erasures,
         stage' \in [Runs -> {"new", "starting", "open", "over"}],
         known' \in [Runs -> Paths \cup {NoPath}],
         UNCHANGED <<file, phase, handle, seen, erasing, acked, stops>>
  PROVE  FileInv'
<1>1. /\ lines' = lines /\ ended' = ended /\ journal' = journal /\ inode' = inode
      /\ phase' = phase /\ handle' = handle /\ seen' = seen /\ erasing' = erasing
      /\ acked' = acked /\ stops' = stops
  BY DEF file, text
<1>2. todo' = [todo EXCEPT ![t] = evs] /\ todo \in [Threads -> Seq(Events)] /\ todo[t] = <<>>
  BY DEF Calls, Idle, FileInv, Typed
<1>3. \A u \in Threads : u # t => todo'[u] = todo[u]  BY <1>2
<1>4. Typed'
  <2>1. todo' \in [Threads -> Seq(Events)]  BY <1>2
  <2> QED BY <1>1, <2>1 DEF FileInv, Typed
<1>5. Handles'
  <2> SUFFICES ASSUME NEW u \in Threads, handle[u].open
               PROVE  Busy(u)' /\ handle[u].inode = inode /\ (ended \/ handle[u].heal)
    BY <1>1 DEF Handles
  <2>1. Busy(u) /\ handle[u].inode = inode /\ (ended \/ handle[u].heal)
    BY DEF FileInv, Handles
  <2>2. u # t  BY <1>2, <2>1 DEF Busy, Idle
  <2> QED BY <1>3, <2>1, <2>2 DEF Busy, Idle
<1>6. Writers'
  <2>1. CASE ~ Sole  BY <1>1, <2>1 DEF FileInv, Writers
  <2>2. CASE Sole
    <3>1. budget' = budget /\ t = Main  BY <2>2
    <3>2. \A u \in Others : Idle(u)'  BY <1>3, <2>2, <3>1 DEF Sole, Idle, Others
    <3> QED BY <2>2, <3>1, <3>2 DEF Sole, Writers
  <2> QED BY <2>1, <2>2
<1>7. phase = "idle"
  <2>1. SUFFICES ASSUME phase = "erase", t # Main PROVE FALSE  OBVIOUS
  <2>2. ~ Sole  BY <2>1
  <2> QED BY <2>1, <2>2 DEF FileInv, Writers
<1>8. Phases'  BY <1>1, <1>7 DEF Phases
<1> QED BY <1>4, <1>5, <1>6, <1>8 DEF FileInv

LEMMA NotSole ==
  ASSUME FileInv, budget.closers > 0 \/ budget.notes > 0
  PROVE  ~ Sole
BY DEF FileInv, Typed, Sole

LEMMA CallsKeep ==
  ASSUME FileInv, NEW r \in Runs,
         Launch(r) \/ FailedToLaunch(r) \/ FailedToStart(r) \/ NoteTranscript(r) \/ Close(r)
  PROVE  FileInv'
<1>1. Main \in Threads /\ Hook \in Threads /\ Closers \subseteq Threads
      /\ Hook # Main /\ Main \notin Closers
  BY ThreadsAssumption DEF Threads
<1>2. /\ stage \in [Runs -> {"new", "starting", "open", "over"}]
      /\ known \in [Runs -> Paths \cup {NoPath}]
      /\ budget \in [runs : SUBSET Runs, closers : Nat, notes : Nat, erasures : Nat, full : Nat]
  BY DEF FileInv, Typed
<1>3. Started(r) \in Events /\ \A s \in Outcomes : Closed(r, s) \in Events  BY EventMade
<1>4. CASE Launch(r)
  <2>1. <<Started(r)>> \in Seq(Events)  BY <1>3
  <2>2. stage' \in [Runs -> {"new", "starting", "open", "over"}]  BY <1>2, <1>4 DEF Launch
  <2> QED BY <1>1, <1>2, <1>4, <2>1, <2>2, CallKeeps DEF Launch
<1>5. CASE FailedToLaunch(r)
  <2>1. <<Started(r), Closed(r, "failed-to-launch")>> \in Seq(Events)
    BY <1>3 DEF Outcomes
  <2>2. stage' \in [Runs -> {"new", "starting", "open", "over"}]
    BY <1>2, <1>5 DEF FailedToLaunch
  <2> QED BY <1>1, <1>2, <1>5, <2>1, <2>2, CallKeeps DEF FailedToLaunch
<1>6. CASE FailedToStart(r)
  <2>1. <<Closed(r, "error")>> \in Seq(Events)  BY <1>3 DEF Outcomes
  <2>2. stage' \in [Runs -> {"new", "starting", "open", "over"}]
    BY <1>2, <1>6 DEF FailedToStart
  <2> QED BY <1>1, <1>2, <1>6, <2>1, <2>2, CallKeeps DEF FailedToStart
<1>7. CASE NoteTranscript(r)
  <2>1. PICK p \in Paths \ {known[r]} :
          /\ Calls(Hook, <<Transcript(r, p, known[r] # NoPath)>>)
          /\ known' = [known EXCEPT ![r] = p]
    BY <1>7 DEF NoteTranscript
  <2> DEFINE c == known[r] # NoPath
             evs == <<Transcript(r, p, c)>>
  <2>2. c \in BOOLEAN  OBVIOUS
  <2>3. Calls(Hook, evs)  BY <2>1
  <2> HIDE DEF c
  <2>4. evs \in Seq(Events)  BY <2>2, EventMade
  <2> HIDE DEF evs
  <2>5. known' \in [Runs -> Paths \cup {NoPath}]  BY <1>2, <2>1
  <2>6. budget.notes > 0 /\ budget' = [budget EXCEPT !.notes = @ - 1]  BY <1>7 DEF NoteTranscript
  <2>7. budget' \in [runs : SUBSET Runs, closers : Nat, notes : Nat, erasures : Nat, full : Nat]
        /\ budget'.full = budget.full /\ budget'.erasures = budget.erasures
    <3> DEFINE less == budget.notes - 1
    <3>1. less \in Nat /\ budget' = [budget EXCEPT !.notes = less]  BY <1>2, <2>6
    <3> HIDE DEF less
    <3> QED BY <1>2, <3>1
  <2>8. ~ Sole  BY <2>6, NotSole
  <2>9. /\ phase = "idle" \/ (phase = "erase" /\ Hook # Main)
        /\ stage' = stage /\ UNCHANGED <<file, phase, handle, seen, erasing, acked, stops>>
    BY <1>1, <1>7 DEF NoteTranscript
  <2> QED BY <1>1, <1>2, <2>3, <2>4, <2>5, <2>7, <2>8, <2>9, CallKeeps
<1>8. CASE Close(r)
  <2>1. PICK t \in Closers, s \in {"ended", "error"} : Calls(t, <<Closed(r, s)>>)
    BY <1>8 DEF Close
  <2>2. <<Closed(r, s)>> \in Seq(Events)  BY <1>3 DEF Outcomes
  <2>3. budget.closers > 0 /\ budget' = [budget EXCEPT !.closers = @ - 1]  BY <1>8 DEF Close
  <2>4. budget' \in [runs : SUBSET Runs, closers : Nat, notes : Nat, erasures : Nat, full : Nat]
        /\ budget'.full = budget.full /\ budget'.erasures = budget.erasures
    <3> DEFINE less == budget.closers - 1
    <3>1. less \in Nat /\ budget' = [budget EXCEPT !.closers = less]  BY <1>2, <2>3
    <3> HIDE DEF less
    <3> QED BY <1>2, <3>1
  <2>5. ~ Sole  BY <2>3, NotSole
  <2>6. stage' \in [Runs -> {"new", "starting", "open", "over"}]
        /\ known' \in [Runs -> Paths \cup {NoPath}]
    BY <1>2, <1>8 DEF Close
  <2>7. /\ t \in Threads /\ (phase = "idle" \/ (phase = "erase" /\ t # Main))
        /\ UNCHANGED <<file, phase, handle, seen, erasing, acked, stops>>
    BY <1>1, <1>8 DEF Close
  <2> QED BY <1>1, <2>1, <2>2, <2>4, <2>5, <2>6, <2>7, CallKeeps
<1> QED BY <1>4, <1>5, <1>6, <1>7, <1>8

LEMMA ReverseHistory ==
  ASSUME NEW h, History(h)
  PROVE  History(Reverse(h)) /\ RunsIn(Reverse(h)) \subseteq RunsIn(h)
<1> DEFINE g == Reverse(h)
           n == Len(h)
<1>1. h \in Seq(Records) /\ n \in Nat /\ DOMAIN h = 1 .. n  BY DEF History
<1>2. \A i \in 1 .. n : (n - i) + 1 \in 1 .. n  BY <1>1
<1>3. g = [i \in 1 .. n |-> h[(n - i) + 1]]  BY DEF Reverse
<1>4. g \in [1 .. n -> Records]  BY <1>1, <1>2, <1>3
<1>5. g \in Seq(Records) /\ DOMAIN g = 1 .. n  BY <1>1, <1>4
<1>6. \A i \in 1 .. n : g[i] = h[(n - i) + 1]  BY <1>3
<1>7. \A i, j \in 1 .. n : (n - i) + 1 = (n - j) + 1 => i = j  BY <1>1
<1> HIDE DEF g, n
<1>8. ASSUME NEW i \in DOMAIN g, NEW j \in DOMAIN g, g[i].run = g[j].run PROVE i = j
  <2> DEFINE a == (n - i) + 1
             b == (n - j) + 1
  <2>1. a \in DOMAIN h /\ b \in DOMAIN h /\ g[i] = h[a] /\ g[j] = h[b] /\ (a = b => i = j)
    BY <1>1, <1>2, <1>5, <1>6, <1>7
  <2> HIDE DEF a, b
  <2> QED BY <1>8, <2>1 DEF History
<1>9. \A i \in DOMAIN g : g[i].path = NoPath => ~ g[i].cleared
  BY <1>1, <1>2, <1>5, <1>6 DEF History
<1>10. RunsIn(g) \subseteq RunsIn(h)  BY <1>1, <1>2, <1>5, <1>6 DEF RunsIn
<1> QED BY <1>5, <1>8, <1>9, <1>10 DEF History, g

LEMMA KeptHistory ==
  ASSUME NEW h, History(h), NEW places
  PROVE  History(Kept(h, places)) /\ RunsIn(Kept(h, places)) \subseteq RunsIn(h)
<1>1. Holding(Kept(h, places), h, places, Len(h)) /\ DOMAIN h = 1 .. Len(h)
  BY KeptHolds DEF History
<1> QED BY <1>1 DEF Holding, RunsIn

Sweeping == [i \in DOMAIN StillRunning(Reverse(journal)) |->
               Closed(StillRunning(Reverse(journal))[i].run, "interrupted")]

\* What the start appends: closes, of runs the journal holds.
LEMMA SweepCloses ==
  ASSUME FileInv
  PROVE  /\ Sweeping \in Seq(Events)
         /\ \A i \in DOMAIN Sweeping : Sweeping[i].t = "closed" /\ Sweeping[i].run \in RunsIn(journal)
<1>1. History(journal)  BY FoldedHistory DEF FileInv, Typed
<1> DEFINE swept == StillRunning(Reverse(journal))
<1>2. History(swept) /\ RunsIn(swept) \subseteq RunsIn(journal)
  BY <1>1, ReverseHistory, KeptHistory DEF StillRunning
<1>3. Sweeping = [i \in DOMAIN swept |-> Closed(swept[i].run, "interrupted")]  BY DEF Sweeping
<1> HIDE DEF swept
<1>4. DOMAIN swept = 1 .. Len(swept) /\ Len(swept) \in Nat
      /\ \A i \in DOMAIN swept : swept[i].run \in Runs
  <2>1. swept \in Seq(Records)  BY <1>2 DEF History
  <2>2. \A i \in DOMAIN swept : swept[i] \in Records  BY <2>1
  <2> QED BY <2>1, <2>2 DEF Records
<1>5. ASSUME NEW i \in DOMAIN swept
      PROVE  /\ Closed(swept[i].run, "interrupted") \in Events
             /\ Closed(swept[i].run, "interrupted").t = "closed"
             /\ Closed(swept[i].run, "interrupted").run \in RunsIn(journal)
  <2>1. Closed(swept[i].run, "interrupted") \in Events  BY <1>4, EventMade DEF Outcomes
  <2> QED BY <1>2, <2>1 DEF Closed, RunsIn
<1>6. Sweeping \in [1 .. Len(swept) -> Events]  BY <1>3, <1>4, <1>5
<1>7. Sweeping \in Seq(Events) /\ DOMAIN Sweeping = DOMAIN swept  BY <1>3, <1>4, <1>6
<1> QED BY <1>3, <1>5, <1>7

LEMMA StartKeeps ==
  ASSUME FileInv, StartApp
  PROVE  FileInv' /\ todo' = [todo EXCEPT ![Main] = Sweeping] /\ journal' = journal
<1>1. /\ todo' = [todo EXCEPT ![Main] = Sweeping]
      /\ phase = "down" /\ phase' = "sweep"
      /\ lines' = lines /\ ended' = ended /\ journal' = journal /\ inode' = inode
      /\ handle' = handle /\ seen' = seen /\ stage' = stage /\ known' = known
      /\ acked' = acked /\ budget' = budget /\ stops' = stops
  BY DEF StartApp, Sweeping, file, text
<1>2. todo \in [Threads -> Seq(Events)] /\ Sweeping \in Seq(Events) /\ Main \in Threads
  BY SweepCloses DEF FileInv, Typed, Threads
<1>3. \A t \in Others : todo'[t] = todo[t] /\ t \in Threads  BY <1>1, <1>2 DEF Others
<1>4. \A t \in Threads : Idle(t)  BY <1>1 DEF FileInv, Phases, Others
<1>5. Typed'
  <2>1. todo' \in [Threads -> Seq(Events)]  BY <1>1, <1>2
  <2> QED BY <1>1, <2>1 DEF FileInv, Typed
<1>6. Handles'
  <2>1. \A t \in Threads : ~ handle[t].open  BY <1>4 DEF FileInv, Handles, Busy
  <2> QED BY <1>1, <2>1 DEF Handles
<1>7. Writers'  BY <1>1, <1>3 DEF FileInv, Writers, Sole, Idle
<1>8. Phases'  BY <1>1, <1>3, <1>4 DEF Phases, Idle
<1> QED BY <1>1, <1>5, <1>6, <1>7, <1>8 DEF FileInv

LEMMA CompactReadsKeep ==
  ASSUME FileInv, CompactReads
  PROVE  FileInv' /\ journal' = journal
<1>1. /\ phase = "sweep" /\ Idle(Main) /\ todo' = todo
      /\ lines' = lines /\ ended' = ended /\ journal' = journal /\ inode' = inode
      /\ handle' = handle /\ stage' = stage /\ known' = known
      /\ acked' = acked /\ budget' = budget /\ stops' = stops
      /\ \/ phase' = "idle" /\ seen' = seen
         \/ phase' = "compact" /\ seen' = Recent(journal)
  BY DEF CompactReads, file, text
<1>2. History(Recent(journal))
  BY FoldedHistory, KeptHistory DEF FileInv, Typed, Recent
<1>3. Typed'  BY <1>1, <1>2 DEF FileInv, Typed
<1>4. Handles'  BY <1>1 DEF FileInv, Handles, Busy, Idle
<1>5. Writers'  BY <1>1 DEF FileInv, Writers, Sole, Idle
<1>6. Phases'  BY <1>1 DEF FileInv, Phases, Idle
<1> QED BY <1>1, <1>3, <1>4, <1>5, <1>6 DEF FileInv

\* A rewrite, while nothing else is under way.
LEMMA RewriteKeeps ==
  ASSUME FileInv, phase \in {"compact", "erase"}, Replace(seen), phase' = "idle",
         acked' \subseteq acked,
         UNCHANGED <<todo, handle, seen, erasing, stage, known, budget, stops>>
  PROVE  FileInv' /\ journal' = seen
<1>1. /\ lines' \in Seq(Plain) /\ ended' = TRUE /\ journal' = Folded(lines') /\ journal' = seen
  BY ReplaceReads DEF FileInv, Typed
<1>2. inode' = inode + 1  BY DEF Replace
<1>3. Typed'  BY <1>1, <1>2 DEF FileInv, Typed
<1>4. \A t \in Threads : Idle(t)
  <2>1. phase = "erase" => Sole  BY DEF FileInv, Writers
  <2> QED BY <2>1 DEF FileInv, Phases, Sole, Others
<1>5. Handles'
  <2>1. \A t \in Threads : ~ handle[t].open  BY <1>4 DEF FileInv, Handles, Busy
  <2> QED BY <2>1 DEF Handles
<1>6. Writers'  BY DEF FileInv, Writers, Sole, Idle
<1>7. Phases'  BY DEF Phases
<1> QED BY <1>1, <1>3, <1>5, <1>6, <1>7 DEF FileInv

LEMMA CompactWritesKeep ==
  ASSUME FileInv, CompactWrites
  PROVE  FileInv' /\ journal' = Recent(journal)
<1>1. acked' \subseteq acked  BY DEF CompactWrites, Forget
<1>2. seen = Recent(journal)  BY DEF FileInv, Phases, CompactWrites
<1> QED BY <1>1, <1>2, RewriteKeeps DEF CompactWrites

LEMMA EraseReadsKeep ==
  ASSUME FileInv, EraseReads
  PROVE  FileInv' /\ journal' = journal
<1>1. /\ phase = "idle" /\ Idle(Main) /\ todo' = todo /\ phase' = "erase"
      /\ lines' = lines /\ ended' = ended /\ journal' = journal /\ inode' = inode
      /\ handle' = handle /\ stage' = stage /\ known' = known
      /\ acked' = acked /\ stops' = stops
      /\ budget.erasures > 0 /\ budget' = [budget EXCEPT !.erasures = @ - 1]
  BY DEF EraseReads, file, text
<1>2. PICK k \in Scenarios, w \in Workspaces \cup {NoWorkspace} :
        ~ HasRunning(journal, k, w) /\ seen' = Without(journal, k, w) /\ erasing' = <<k, w>>
  BY DEF EraseReads
<1>3. History(Without(journal, k, w))
  BY FoldedHistory, KeptHistory DEF FileInv, Typed, Without
<1>4. budget' \in [runs : SUBSET Runs, closers : Nat, notes : Nat, erasures : Nat, full : Nat]
      /\ budget'.closers = budget.closers /\ budget'.notes = budget.notes
  <2>1. budget \in [runs : SUBSET Runs, closers : Nat, notes : Nat, erasures : Nat, full : Nat]
    BY DEF FileInv, Typed
  <2> DEFINE less == budget.erasures - 1
  <2>2. less \in Nat /\ budget' = [budget EXCEPT !.erasures = less]  BY <1>1, <2>1
  <2> HIDE DEF less
  <2> QED BY <2>1, <2>2
<1>5. Typed'  BY <1>1, <1>2, <1>3, <1>4 DEF FileInv, Typed
<1>6. Sole  BY <1>1 DEF FileInv, Writers, Typed
<1>7. Handles'  BY <1>1 DEF FileInv, Handles, Busy, Idle
<1>8. Writers'  BY <1>1, <1>4, <1>6 DEF Writers, Sole, Idle
<1>9. Phases'
  <2>1. \E a \in Scenarios, b \in Workspaces \cup {NoWorkspace} :
          /\ erasing' = <<a, b>> /\ ~ HasRunning(journal', a, b)
          /\ seen' = Without(journal', a, b)
    BY <1>1, <1>2
  <2> QED BY <1>1, <2>1 DEF Phases, Idle
<1> QED BY <1>1, <1>5, <1>7, <1>8, <1>9 DEF FileInv

LEMMA EraseWritesKeep ==
  ASSUME FileInv, EraseWrites
  PROVE  /\ FileInv'
         /\ \E k \in Scenarios, w \in Workspaces \cup {NoWorkspace} :
              /\ ~ HasRunning(journal, k, w) /\ journal' = Without(journal, k, w)
              /\ acked' = {ev \in acked : ~ InScope(ev.run, k, w)}
<1>1. acked' \subseteq acked  BY DEF EraseWrites
<1>2. PICK k \in Scenarios, w \in Workspaces \cup {NoWorkspace} :
        /\ erasing = <<k, w>> /\ ~ HasRunning(journal, k, w)
        /\ seen = Without(journal, k, w)
  BY DEF FileInv, Phases, EraseWrites
<1>3. FileInv' /\ journal' = seen  BY <1>1, RewriteKeeps DEF EraseWrites
<1>4. erasing[1] = k /\ erasing[2] = w  BY <1>2
<1>5. acked' = {ev \in acked : ~ InScope(ev.run, k, w)}  BY <1>4 DEF EraseWrites
<1> QED BY <1>2, <1>3, <1>5

LEMMA StopKeeps ==
  ASSUME FileInv, NoSplit, Stop
  PROVE  /\ FileInv'
         /\ \/ journal' = journal
            \/ \E t \in Threads : /\ Head(todo[t]) \in Events /\ Busy(t)
                                  /\ journal' = Apply(journal, Head(todo[t]))
<1>1. /\ phase' = "down" /\ todo' = [t \in Threads |-> <<>>]
      /\ handle' = [t \in Threads |-> Shut] /\ seen' = <<>>
      /\ stage' = [r \in Runs |-> IF stage[r] = "new" THEN "new" ELSE "over"]
      /\ known' = [r \in Runs |-> NoPath] /\ stops < MaxStops /\ stops' = stops + 1
      /\ inode' = inode /\ acked' = acked /\ budget' = budget
  BY DEF Stop
<1>2. /\ lines' \in Seq(Plain) /\ ended' \in BOOLEAN /\ journal' = Folded(lines')
      /\ \/ journal' = journal
         \/ \E t \in Threads : /\ Head(todo[t]) \in Events /\ Busy(t)
                               /\ journal' = Apply(journal, Head(todo[t]))
  <2>1. CASE UNCHANGED text  BY <2>1 DEF FileInv, Typed, text
  <2>2. CASE \E t \in Threads : handle[t].open /\ CutShort(t)
    <3>1. PICK t \in Threads : handle[t].open /\ CutShort(t)  BY <2>2
    <3>2. Busy(t)  BY <3>1 DEF FileInv, Handles
    <3> QED BY <3>1, <3>2, CutAdds, ApplyIs DEF Adds
  <2> QED BY <2>1, <2>2 DEF Stop
<1>3. Typed'
  <2>1. Shut \in [open : BOOLEAN, heal : BOOLEAN, inode : Nat]  BY DEF Shut
  <2>2. History(<<>>) /\ <<>> \in Seq(Events)  BY EmptyHistory DEF Histories
  <2>3. stops' \in 0 .. MaxStops
    <3>1. stops \in 0 .. MaxStops /\ MaxStops \in Nat  BY BoundsAssumption DEF FileInv, Typed
    <3> QED BY <1>1, <3>1
  <2>4. stage' \in [Runs -> {"new", "starting", "open", "over"}]  BY <1>1
  <2>5. known' \in [Runs -> Paths \cup {NoPath}]  BY <1>1
  <2>6. handle' \in [Threads -> [open : BOOLEAN, heal : BOOLEAN, inode : Nat]]  BY <1>1, <2>1
  <2>7. todo' \in [Threads -> Seq(Events)]  BY <1>1, <2>2
  <2> QED BY <1>1, <1>2, <2>2, <2>3, <2>4, <2>5, <2>6, <2>7 DEF FileInv, Typed
<1>4. \A t \in Threads : Idle(t)'  BY <1>1 DEF Idle
<1>5. Handles'  BY <1>1 DEF Handles, Shut
<1>6. Writers'
  <2>1. CASE Sole  BY <1>1, <1>4, <2>1 DEF Writers, Sole, Others
  <2>2. CASE ~ Sole  BY <1>1, <2>2 DEF FileInv, Writers
  <2> QED BY <2>1, <2>2
<1>7. Phases'
  <2>1. Main \in Threads /\ Others \subseteq Threads  BY DEF Threads, Others
  <2> QED BY <1>1, <1>4, <2>1 DEF Phases
<1> QED BY <1>2, <1>3, <1>5, <1>6, <1>7 DEF FileInv

LEMMA FileStep ==
  ASSUME FileInv, NoSplit, [Next]_vars
  PROVE  FileInv'
<1>1. ASSUME NEW t \in Threads, OpenFile(t) PROVE FileInv'  BY <1>1, OpenKeeps
<1>2. ASSUME NEW t \in Threads, WriteLine(t) PROVE FileInv'  BY <1>2, WriteKeeps
<1>3. ASSUME NEW t \in Threads, WriteFails(t) PROVE FileInv'  BY <1>3, FailKeeps
<1>4. ASSUME NEW r \in Runs,
             Launch(r) \/ FailedToLaunch(r) \/ FailedToStart(r) \/ NoteTranscript(r) \/ Close(r)
      PROVE  FileInv'
  BY <1>4, CallsKeep
<1>5. CASE StartApp  BY <1>5, StartKeeps
<1>6. CASE CompactReads  BY <1>6, CompactReadsKeep
<1>7. CASE CompactWrites  BY <1>7, CompactWritesKeep
<1>8. CASE EraseReads  BY <1>8, EraseReadsKeep
<1>9. CASE EraseWrites  BY <1>9, EraseWritesKeep
<1>10. CASE Stop  BY <1>10, StopKeeps
<1>11. CASE UNCHANGED vars
  BY <1>11 DEF FileInv, Typed, Handles, Writers, Sole, Phases, Busy, Idle,
               vars, file, text, memory
<1> QED BY <1>1, <1>2, <1>3, <1>4, <1>5, <1>6, <1>7, <1>8, <1>9, <1>10, <1>11 DEF Next

\* The file is well-formed in every state: TypeOK, for every size.
THEOREM TypeCorrect ==
  ASSUME NoSplit, OneWriter
  PROVE  Spec => []TypeOK
<1>1. Init => FileInv  BY FileInit
<1>2. FileInv /\ [Next]_vars => FileInv'  BY FileStep
<1>3. FileInv => TypeOK
  <2> SUFFICES ASSUME FileInv PROVE TypeOK  OBVIOUS
  <2>1. Plain \subseteq Lines  BY DEF Plain, Lines
  <2>2. lines \in Seq(Lines)  BY <2>1, SeqMonotonic DEF FileInv, Typed
  <2>3. journal = Read(lines)  BY PlainReads DEF FileInv, Typed
  <2>4. seen \in Seq(Records)  BY DEF FileInv, Typed, History
  <2> QED BY <2>2, <2>3, <2>4 DEF FileInv, Typed, TypeOK
<1> QED BY <1>1, <1>2, <1>3, PTL DEF Spec

-----------------------------------------------------------------------------
(* The promise: a step of the file is a step of the history, or none.        *)

LEMMA PromiseWords ==
  /\ \A h : Promise!RunsIn(h) = RunsIn(h)
  /\ \A h, r : Promise!Opened(r) = Opened(r)
  /\ \A h, r, p, c : Promise!Noted(h, r, p, c) = Noted(h, r, p, c)
  /\ \A h, r, s : Promise!Ended(h, r, s) = Ended(h, r, s)
  /\ \A h : Promise!Recent(h) = Recent(h)
  /\ \A h, k, w : Promise!Without(h, k, w) = Without(h, k, w)
  /\ \A h, k, w : Promise!HasRunning(h, k, w) = HasRunning(h, k, w)
  /\ Promise!Outcomes = Outcomes
<1>1. \A h : Promise!RunsIn(h) = RunsIn(h)  BY DEF Promise!RunsIn, RunsIn
<1>2. \A h, r : Promise!Opened(r) = Opened(r)  BY DEF Promise!Opened, Opened
<1>3. \A h, r, p, c : Promise!Noted(h, r, p, c) = Noted(h, r, p, c)
  BY Zenon DEF Promise!Noted, Noted
<1>4. \A h, r, s : Promise!Ended(h, r, s) = Ended(h, r, s)
  BY Zenon DEF Promise!Ended, Ended
<1>5. \A h, places : Promise!Kept(h, places) = Kept(h, places)
  BY Zenon DEF Promise!Kept, Kept
<1>6. ASSUME NEW h PROVE Promise!Recent(h) = Recent(h)
  <2> DEFINE newer(i) == {j \in DOMAIN h : j > i /\ ScenarioOf[h[j].run] = ScenarioOf[h[i].run]}
             places == {i \in DOMAIN h : Cardinality(newer(i)) < Keep}
  <2>1. Recent(h) = Kept(h, places)  BY Zenon DEF Recent
  <2>2. Promise!Recent(h) = Promise!Kept(h, places)  BY Zenon DEF Promise!Recent, Promise!Cardinality, Cardinality
  <2> QED BY <1>5, <2>1, <2>2, Zenon
<1>7. \A r, k, w : Promise!InScope(r, k, w) = InScope(r, k, w)
  BY Zenon DEF Promise!InScope, InScope
<1>8. \A h, k, w : Promise!Without(h, k, w) = Without(h, k, w)
  BY <1>5, <1>7, Zenon DEF Promise!Without, Without, Promise!InScope, InScope
<1>9. \A h, k, w : Promise!HasRunning(h, k, w) = HasRunning(h, k, w)
  BY Zenon DEF Promise!HasRunning, HasRunning, Promise!InScope, InScope
<1>10. Promise!Outcomes = Outcomes  BY DEF Promise!Outcomes, Outcomes
<1> QED BY <1>1, <1>2, <1>3, <1>4, <1>6, <1>8, <1>9, <1>10

\* A line more is one event of the promise, or none.
LEMMA EventPromised ==
  ASSUME NEW ev \in Events, journal' = Apply(journal, ev)
  PROVE  Promise!Next \/ journal' = journal
<1>1. ev.run \in Runs  BY EventFacts
<1>2. CASE ev = Started(ev.run)
  <2>1. journal' = Began(journal, ev.run)  BY <1>2, ApplyIs
  <2>2. CASE ev.run \in RunsIn(journal)  BY <2>1, <2>2 DEF Began
  <2>3. CASE ev.run \notin RunsIn(journal)
    <3>1. journal' = Append(journal, Opened(ev.run))  BY <2>1, <2>3 DEF Began
    <3>2. Promise!Begin(ev.run)  BY <2>3, <3>1, PromiseWords DEF Promise!Begin
    <3> QED BY <1>1, <3>2 DEF Promise!Next
  <2> QED BY <2>2, <2>3
<1>3. CASE /\ ev.path \in Paths /\ ev.cleared \in BOOLEAN
           /\ ev = Transcript(ev.run, ev.path, ev.cleared)
  <2>1. journal' = Noted(journal, ev.run, ev.path, ev.cleared)  BY <1>3, ApplyIs
  <2>2. Promise!Note(ev.run)  BY <1>3, <2>1, PromiseWords DEF Promise!Note
  <2> QED BY <1>1, <2>2 DEF Promise!Next
<1>4. CASE ev.status \in Outcomes /\ ev = Closed(ev.run, ev.status)
  <2>1. journal' = Ended(journal, ev.run, ev.status)  BY <1>4, ApplyIs
  <2>2. Promise!End(ev.run)  BY <1>4, <2>1, PromiseWords DEF Promise!End
  <2> QED BY <1>1, <2>2 DEF Promise!Next
<1> QED BY <1>2, <1>3, <1>4, EventFacts

LEMMA PromiseStep ==
  ASSUME FileInv, NoSplit, [Next]_vars
  PROVE  Promise!Next \/ journal' = journal
<1>1. ASSUME NEW t \in Threads, OpenFile(t) PROVE journal' = journal
  BY <1>1 DEF OpenFile, file, text
<1>2. ASSUME NEW t \in Threads, WriteLine(t) PROVE Promise!Next \/ journal' = journal
  BY <1>2, WriteKeeps, EventPromised
<1>3. ASSUME NEW t \in Threads, WriteFails(t) PROVE Promise!Next \/ journal' = journal
  BY <1>3, FailKeeps, EventPromised
<1>4. ASSUME NEW r \in Runs,
             Launch(r) \/ FailedToLaunch(r) \/ FailedToStart(r) \/ NoteTranscript(r) \/ Close(r)
      PROVE  journal' = journal
  BY <1>4 DEF Launch, FailedToLaunch, FailedToStart, NoteTranscript, Close, file, text
<1>5. CASE StartApp  BY <1>5, StartKeeps
<1>6. CASE CompactReads  BY <1>6, CompactReadsKeep
<1>7. CASE CompactWrites
  <2>1. Promise!Prune  BY <1>7, CompactWritesKeep, PromiseWords DEF Promise!Prune
  <2> QED BY <2>1 DEF Promise!Next
<1>8. CASE EraseReads  BY <1>8, EraseReadsKeep
<1>9. CASE EraseWrites
  <2>1. PICK k \in Scenarios, w \in Workspaces \cup {NoWorkspace} :
          ~ HasRunning(journal, k, w) /\ journal' = Without(journal, k, w)
    BY <1>9, EraseWritesKeep
  <2>2. Promise!Erase(k, w)  BY <2>1, PromiseWords DEF Promise!Erase
  <2> QED BY <2>2 DEF Promise!Next
<1>10. CASE Stop  BY <1>10, StopKeeps, EventPromised
<1>11. CASE UNCHANGED vars  BY <1>11 DEF vars, file, text
<1> QED BY <1>1, <1>2, <1>3, <1>4, <1>5, <1>6, <1>7, <1>8, <1>9, <1>10, <1>11 DEF Next

\* Whatever is cut short, healed, swept, compacted or erased, the history a
\* reader makes of the file takes only the steps RunHistory allows.
THEOREM KeepsItsPromise ==
  ASSUME NoSplit, OneWriter
  PROVE  Spec => KeepsPromise
<1>1. Init => FileInv  BY FileInit
<1>2. FileInv /\ [Next]_vars => FileInv'  BY FileStep
<1>3. FileInv /\ [Next]_vars => [Promise!Next]_journal  BY PromiseStep
<1>4. Init => Promise!Init  BY DEF Init, Promise!Init
<1> QED BY <1>1, <1>2, <1>3, <1>4, PTL DEF Spec, KeepsPromise, Promise!Spec

-----------------------------------------------------------------------------
(* What was acknowledged stays.                                              *)

\* The history tells what the event told.
Told(ev, h) ==
  \E i \in DOMAIN h :
    /\ h[i].run = ev.run
    /\ ev.t = "closed" => h[i].status # "running"
    /\ ev.t = "transcript" => h[i].path # NoPath /\ (ev.cleared => h[i].cleared)

\* One more event, told at once,
LEMMA ToldNow ==
  ASSUME NEW h, History(h), NEW ev \in Events, ev.t = "started" \/ ev.run \in RunsIn(h)
  PROVE  Told(ev, Apply(h, ev))
<1>1. ev.run \in Runs  BY EventFacts
<1>2. CASE ev = Started(ev.run)
  <2>1. Apply(h, ev) = Began(h, ev.run) /\ ev.t = "started"  BY <1>2, ApplyIs DEF Started
  <2>2. CASE ev.run \in RunsIn(h)  BY <2>1, <2>2 DEF Began, RunsIn, Told
  <2>3. CASE ev.run \notin RunsIn(h)
    <3> DEFINE g == Append(h, Opened(ev.run))
    <3>1. Opened(ev.run) \in Records /\ Opened(ev.run).run = ev.run
      BY <1>1 DEF Opened, Records
    <3>2. Len(h) + 1 \in DOMAIN g /\ g[Len(h) + 1] = Opened(ev.run)
      BY <3>1 DEF History
    <3>3. Apply(h, ev) = g  BY <2>1, <2>3 DEF Began
    <3> HIDE DEF g
    <3> QED BY <2>1, <3>1, <3>2, <3>3 DEF Told
  <2> QED BY <2>2, <2>3
<1>3. CASE ev.t # "started"
  <2>1. PICK i \in DOMAIN h : h[i].run = ev.run  BY <1>3 DEF RunsIn
  <2>2. h[i] \in Records  BY <2>1 DEF History
  <2> DEFINE g == Apply(h, ev)
  <2>3. CASE /\ ev.t = "transcript" /\ ev.path \in Paths /\ ev.cleared \in BOOLEAN
             /\ ev = Transcript(ev.run, ev.path, ev.cleared)
    <3>1. g = Noted(h, ev.run, ev.path, ev.cleared)  BY <2>3, ApplyIs
    <3>2. DOMAIN g = DOMAIN h
          /\ g[i] = [h[i] EXCEPT !.path = ev.path, !.cleared = @ \/ ev.cleared]
      BY <2>1, <3>1 DEF Noted
    <3>3. ev.path # NoPath  BY <2>3, ConstantsAssumption
    <3>4. g[i].run = ev.run /\ g[i].path # NoPath /\ (ev.cleared => g[i].cleared)
      BY <2>1, <2>2, <3>2, <3>3 DEF Records
    <3> QED BY <2>1, <2>3, <3>2, <3>4 DEF Told
  <2>4. CASE ev.t = "closed" /\ ev.status \in Outcomes /\ ev = Closed(ev.run, ev.status)
    <3>1. g = Ended(h, ev.run, ev.status)  BY <2>4, ApplyIs
    <3>2. DOMAIN g = DOMAIN h
          /\ g[i] = IF h[i].status = "running" THEN [h[i] EXCEPT !.status = ev.status]
                    ELSE h[i]
      BY <2>1, <3>1 DEF Ended
    <3>3. ev.status # "running"  BY <2>4 DEF Outcomes
    <3>4. g[i].run = ev.run /\ g[i].status # "running"
      BY <2>1, <2>2, <3>2, <3>3 DEF Records
    <3> QED BY <2>1, <2>4, <3>2, <3>4 DEF Told
  <2> QED BY <1>3, <2>3, <2>4, EventFacts
<1> QED BY <1>2, <1>3, EventFacts

\* still told after another,
LEMMA StillTold ==
  ASSUME NEW h, History(h), NEW ev \in Events, Told(ev, h), NEW more \in Events
  PROVE  Told(ev, Apply(h, more))
<1>1. PICK i \in DOMAIN h :
        /\ h[i].run = ev.run
        /\ ev.t = "closed" => h[i].status # "running"
        /\ ev.t = "transcript" => h[i].path # NoPath /\ (ev.cleared => h[i].cleared)
  BY DEF Told
<1>2. h[i] \in Records /\ h \in Seq(Records)  BY DEF History
<1> DEFINE g == Apply(h, more)
<1>3. CASE more = Started(more.run)
  <2>1. g = Began(h, more.run)  BY <1>3, ApplyIs
  <2>2. i \in DOMAIN g /\ g[i] = h[i]
    <3>1. CASE more.run \in RunsIn(h)  BY <2>1, <3>1 DEF Began
    <3>2. CASE more.run \notin RunsIn(h)
      <4>1. Opened(more.run) \in Records  BY EventFacts DEF Opened, Records
      <4>2. g = Append(h, Opened(more.run))  BY <2>1, <3>2 DEF Began
      <4> QED BY <1>2, <4>1, <4>2
    <3> QED BY <3>1, <3>2
  <2> HIDE DEF g
  <2>3. Told(ev, g)  BY <1>1, <2>2 DEF Told
  <2> QED BY <2>3 DEF g
<1>4. CASE /\ more.path \in Paths /\ more.cleared \in BOOLEAN
           /\ more = Transcript(more.run, more.path, more.cleared)
  <2>1. g = Noted(h, more.run, more.path, more.cleared)  BY <1>4, ApplyIs
  <2>2. DOMAIN g = DOMAIN h
        /\ g[i] = IF h[i].run = more.run
                  THEN [h[i] EXCEPT !.path = more.path, !.cleared = @ \/ more.cleared]
                  ELSE h[i]
    BY <2>1 DEF Noted
  <2>3. more.path # NoPath  BY <1>4, ConstantsAssumption
  <2>4. /\ g[i].run = h[i].run /\ g[i].status = h[i].status
        /\ (h[i].path # NoPath => g[i].path # NoPath) /\ (h[i].cleared => g[i].cleared)
    BY <1>2, <2>2, <2>3 DEF Records
  <2> HIDE DEF g
  <2>5. Told(ev, g)  BY <1>1, <2>2, <2>4 DEF Told
  <2> QED BY <2>5 DEF g
<1>5. CASE more.status \in Outcomes /\ more = Closed(more.run, more.status)
  <2>1. g = Ended(h, more.run, more.status)  BY <1>5, ApplyIs
  <2>2. DOMAIN g = DOMAIN h
        /\ g[i] = IF h[i].run = more.run /\ h[i].status = "running"
                  THEN [h[i] EXCEPT !.status = more.status] ELSE h[i]
    BY <2>1 DEF Ended
  <2>3. more.status # "running"  BY <1>5 DEF Outcomes
  <2>4. /\ g[i].run = h[i].run /\ g[i].path = h[i].path /\ g[i].cleared = h[i].cleared
        /\ (h[i].status # "running" => g[i].status # "running")
    BY <1>2, <2>2, <2>3 DEF Records
  <2> HIDE DEF g
  <2>5. Told(ev, g)  BY <1>1, <2>2, <2>4 DEF Told
  <2> QED BY <2>5 DEF g
<1> QED BY <1>3, <1>4, <1>5, EventFacts

\* and by what a rewrite keeps, if it keeps the run.
LEMMA KeptTold ==
  ASSUME NEW h, History(h), NEW ev \in Events, Told(ev, h), NEW places,
         ev.run \in RunsIn(Kept(h, places))
  PROVE  Told(ev, Kept(h, places))
<1> DEFINE g == Kept(h, places)
<1>1. Holding(g, h, places, Len(h)) /\ DOMAIN h = 1 .. Len(h)  BY KeptHolds DEF History
<1>2. PICK i \in DOMAIN h :
        /\ h[i].run = ev.run
        /\ ev.t = "closed" => h[i].status # "running"
        /\ ev.t = "transcript" => h[i].path # NoPath /\ (ev.cleared => h[i].cleared)
  BY DEF Told
<1>3. PICK j \in DOMAIN g : g[j].run = ev.run  BY DEF RunsIn
<1> HIDE DEF g
<1>4. PICK k \in DOMAIN h : g[j] = h[k]  BY <1>1, <1>3 DEF Holding
<1>5. k = i  BY <1>2, <1>3, <1>4 DEF History
<1>6. Told(ev, g)  BY <1>2, <1>3, <1>4, <1>5 DEF Told
<1> QED BY <1>6 DEF g

LEMMA ApplyRuns ==
  ASSUME NEW h, History(h), NEW ev \in Events
  PROVE  RunsIn(Apply(h, ev)) \subseteq RunsIn(h) \cup {ev.run}
<1> DEFINE g == Apply(h, ev)
<1>1. ev.run \in Runs /\ h \in Seq(Records)  BY EventFacts DEF History
<1>2. CASE ev = Started(ev.run)
  <2>1. g = Began(h, ev.run)  BY <1>2, ApplyIs
  <2>2. CASE ev.run \in RunsIn(h)  BY <2>1, <2>2 DEF Began
  <2>3. CASE ev.run \notin RunsIn(h)
    <3>1. Opened(ev.run) \in Records /\ Opened(ev.run).run = ev.run
      BY <1>1 DEF Opened, Records
    <3>2. g = Append(h, Opened(ev.run))  BY <2>1, <2>3 DEF Began
    <3>3. \A i \in DOMAIN g : g[i] = Opened(ev.run) \/ (i \in DOMAIN h /\ g[i] = h[i])
      BY <1>1, <3>1, <3>2
    <3> HIDE DEF g
    <3>4. RunsIn(g) \subseteq RunsIn(h) \cup {ev.run}  BY <3>1, <3>3 DEF RunsIn
    <3> QED BY <3>4 DEF g
  <2> QED BY <2>2, <2>3
<1>3. CASE /\ ev.path \in Paths /\ ev.cleared \in BOOLEAN
           /\ ev = Transcript(ev.run, ev.path, ev.cleared)
  <2>1. g = Noted(h, ev.run, ev.path, ev.cleared)  BY <1>3, ApplyIs
  <2>2. ASSUME NEW i \in DOMAIN g PROVE i \in DOMAIN h /\ g[i].run = h[i].run
    <3>0. DOMAIN g = DOMAIN h  BY <2>1 DEF Noted
    <3>1. i \in DOMAIN h /\ h[i] \in Records  BY <1>1, <3>0
    <3>2. g[i] = IF h[i].run = ev.run
                 THEN [h[i] EXCEPT !.path = ev.path, !.cleared = @ \/ ev.cleared]
                 ELSE h[i]
      BY <2>1, <3>1 DEF Noted
    <3> QED BY <3>1, <3>2 DEF Records
  <2> HIDE DEF g
  <2>3. RunsIn(g) \subseteq RunsIn(h)  BY <2>2 DEF RunsIn
  <2> QED BY <2>3 DEF g
<1>4. CASE ev.status \in Outcomes /\ ev = Closed(ev.run, ev.status)
  <2>1. g = Ended(h, ev.run, ev.status)  BY <1>4, ApplyIs
  <2>2. ASSUME NEW i \in DOMAIN g PROVE i \in DOMAIN h /\ g[i].run = h[i].run
    <3>1. i \in DOMAIN h /\ h[i] \in Records  BY <1>1, <2>1 DEF Ended
    <3>2. g[i] = IF h[i].run = ev.run /\ h[i].status = "running"
                 THEN [h[i] EXCEPT !.status = ev.status] ELSE h[i]
      BY <2>1, <3>1 DEF Ended
    <3> QED BY <3>1, <3>2 DEF Records
  <2> HIDE DEF g
  <2>3. RunsIn(g) \subseteq RunsIn(h)  BY <2>2 DEF RunsIn
  <2> QED BY <2>3 DEF g
<1> QED BY <1>2, <1>3, <1>4, EventFacts

Tells(t, r) == \E i \in DOMAIN todo[t] : todo[t][i].run = r

Pending(r) == \E i \in DOMAIN todo[Main] : todo[Main][i] = Started(r)

\* Nobody has heard of a run whose start is not written.
Unheard(r) ==
  /\ r \notin RunsIn(journal) /\ \A ev \in acked : ev.run # r
  /\ \A t \in Others : ~ Tells(t, r)

AckInv ==
  /\ \A ev \in acked : Started(ev.run) \in acked => Told(ev, journal)
  /\ \A r \in Runs : stage[r] = "new" => Unheard(r) /\ ~ Tells(Main, r)
  /\ \A r \in Runs : Pending(r) => Unheard(r) /\ stage[r] \in {"starting", "over"}
  /\ \A i \in DOMAIN todo[Main] : i > 1 => todo[Main][i].t = "closed"
  /\ \A t \in Others : \A i \in DOMAIN todo[t] : todo[t][i].t # "started"

LEMMA AckInit ==
  ASSUME Init, FileInv
  PROVE  AckInv
<1>1. \A t \in Threads : todo[t] = <<>>  BY DEF Init
<1>2. Main \in Threads /\ Others \subseteq Threads  BY DEF Threads, Others
<1>3. \A t \in Threads : DOMAIN todo[t] = {}  BY <1>1
<1>4. acked = {} /\ journal = <<>>  BY DEF Init
<1>5. RunsIn(journal) = {}  BY <1>4 DEF RunsIn
<1> QED BY <1>2, <1>3, <1>4, <1>5 DEF AckInv, Unheard, Tells, Pending

\* The first line a thread has to write is about no run nobody has heard of,
\* unless it is the start of it.
LEMMA HeadIsHeard ==
  ASSUME FileInv, AckInv, NEW t \in Threads, Busy(t)
  PROVE  /\ \A r \in Runs : stage[r] = "new" => Head(todo[t]).run # r
         /\ \A r \in Runs : Pending(r) /\ t # Main => Head(todo[t]).run # r
         /\ Head(todo[t]).t = "started" => t = Main /\ Pending(Head(todo[t]).run)
         /\ todo[t] \in Seq(Events) /\ todo[t] # <<>> /\ Head(todo[t]) \in Events
<1>1. todo[t] \in Seq(Events) /\ todo[t] # <<>>  BY DEF FileInv, Typed, Busy, Idle
<1>2. /\ Head(todo[t]) \in Events /\ Head(todo[t]) = todo[t][1] /\ 1 \in DOMAIN todo[t]
  BY <1>1, BusyHas
<1>3. t # Main => t \in Others  BY DEF Others
<1>4. Tells(t, Head(todo[t]).run)  BY <1>2 DEF Tells
<1>5. \A r \in Runs : stage[r] = "new" => Head(todo[t]).run # r
  BY <1>3, <1>4 DEF AckInv, Unheard
<1>6. \A r \in Runs : Pending(r) /\ t # Main => Head(todo[t]).run # r
  BY <1>3, <1>4 DEF AckInv, Unheard
<1>7. Head(todo[t]).t = "started" => t = Main /\ Pending(Head(todo[t]).run)
  <2> SUFFICES ASSUME Head(todo[t]).t = "started"
               PROVE  t = Main /\ Pending(Head(todo[t]).run)
    OBVIOUS
  <2>1. t = Main  BY <1>2, <1>3 DEF AckInv
  <2>2. Head(todo[t]) = Started(Head(todo[t]).run)  BY <1>2, EventFacts
  <2> QED BY <1>2, <2>1, <2>2 DEF Pending
<1> QED BY <1>1, <1>2, <1>5, <1>6, <1>7

\* A thread done with its first line, written or not.
LEMMA MovesAck ==
  ASSUME FileInv, AckInv, NEW t \in Threads, handle[t].open, Moves(t),
         journal' \in {journal, Apply(journal, Head(todo[t]))},
         acked' = acked \/ (/\ journal' = Apply(journal, Head(todo[t]))
                            /\ acked' = acked \cup {Head(todo[t])})
  PROVE  AckInv'
<1> DEFINE ev == Head(todo[t])
<1>1. Busy(t)  BY DEF FileInv, Handles
<1>2. todo[t] \in Seq(Events) /\ todo[t] # <<>> /\ ev \in Events /\ ev.run \in Runs
  BY <1>1, HeadIsHeard, EventFacts
<1>3. /\ todo' = [todo EXCEPT ![t] = Tail(todo[t])] /\ todo \in [Threads -> Seq(Events)]
      /\ stage' = IF ev.t = "started" /\ stage[ev.run] = "starting"
                  THEN [stage EXCEPT ![ev.run] = "open"] ELSE stage
  BY DEF Moves, FileInv, Typed
<1>4. \A u \in Threads : u # t => todo'[u] = todo[u]  BY <1>3
<1>5. /\ todo'[t] = Tail(todo[t])
      /\ \A i \in DOMAIN todo'[t] : i + 1 \in DOMAIN todo[t] /\ i + 1 > 1
                                    /\ todo'[t][i] = todo[t][i + 1]
  BY <1>2, <1>3, BusyHas
<1>6. Main \in Threads /\ Others \subseteq Threads /\ Others = Threads \ {Main}
  BY DEF Threads, Others
<1>7. History(journal)  BY FoldedHistory DEF FileInv, Typed
<1>8. \A u \in Threads, r \in Runs : Tells(u, r)' => Tells(u, r)
  <2> SUFFICES ASSUME NEW u \in Threads, NEW r \in Runs, Tells(u, r)' PROVE Tells(u, r)
    OBVIOUS
  <2>1. PICK i \in DOMAIN todo'[u] : todo'[u][i].run = r  BY DEF Tells
  <2>2. CASE u = t  BY <1>5, <2>1, <2>2 DEF Tells
  <2>3. CASE u # t  BY <1>4, <2>1, <2>3 DEF Tells
  <2> QED BY <2>2, <2>3
<1>9. RunsIn(journal') \subseteq RunsIn(journal) \cup {ev.run}
  BY <1>2, <1>7, ApplyRuns
<1>10. \A e \in acked' : e \in acked \/ e = ev  OBVIOUS
<1>11. \A r \in Runs : Unheard(r) /\ ev.run # r => Unheard(r)'
  <2> SUFFICES ASSUME NEW r \in Runs, Unheard(r), ev.run # r PROVE Unheard(r)'  OBVIOUS
  <2>1. r \notin RunsIn(journal')  BY <1>9 DEF Unheard
  <2>2. \A e \in acked' : e.run # r  BY <1>10 DEF Unheard
  <2>3. \A u \in Others : ~ Tells(u, r)'  BY <1>6, <1>8 DEF Unheard
  <2> QED BY <2>1, <2>2, <2>3 DEF Unheard
<1>12. \A r \in Runs : Pending(r)' => t # Main /\ Pending(r)
  <2> SUFFICES ASSUME NEW r \in Runs, Pending(r)' PROVE t # Main /\ Pending(r)  OBVIOUS
  <2>1. PICK i \in DOMAIN todo'[Main] : todo'[Main][i] = Started(r)  BY DEF Pending
  <2>2. CASE t = Main
    <3>1. i + 1 \in DOMAIN todo[Main] /\ i + 1 > 1 /\ todo'[Main][i] = todo[Main][i + 1]
      BY <1>5, <2>1, <2>2
    <3>2. todo[Main][i + 1].t = "closed"  BY <3>1 DEF AckInv
    <3>3. Started(r).t = "started"  BY DEF Started
    <3> QED BY <2>1, <3>1, <3>2, <3>3
  <2>3. CASE t # Main
    <3>1. todo'[Main] = todo[Main]  BY <1>4, <1>6, <2>3
    <3> QED BY <2>1, <2>3, <3>1 DEF Pending
  <2> QED BY <2>2, <2>3
<1>13. ASSUME NEW e \in acked', Started(e.run) \in acked' PROVE Told(e, journal')
  <2>1. acked \subseteq Events  BY DEF FileInv, Typed
  <2>2. CASE e \in acked /\ Started(e.run) \in acked
    <3>1. Told(e, journal)  BY <2>2 DEF AckInv
    <3>2. Told(e, Apply(journal, ev))  BY <1>2, <1>7, <2>1, <2>2, <3>1, StillTold
    <3> QED BY <3>1, <3>2
  <2>3. CASE e \in acked /\ Started(e.run) \notin acked
    <3>1. Started(e.run) = ev  BY <1>10, <1>13, <2>3
    <3>2. ev.t = "started" /\ ev.run = e.run  BY <3>1 DEF Started
    <3>3. Pending(ev.run)  BY <1>1, <3>2, HeadIsHeard
    <3> QED BY <1>2, <2>3, <3>2, <3>3 DEF AckInv, Unheard
  <2>4. CASE e \notin acked
    <3>1. e = ev /\ journal' = Apply(journal, ev)  BY <2>4
    <3>2. ev.t = "started" \/ ev.run \in RunsIn(journal)
      <4>1. CASE Started(ev.run) \in acked
        <5>1. Started(ev.run).run = ev.run  BY DEF Started
        <5>2. Told(Started(ev.run), journal)  BY <4>1, <5>1 DEF AckInv
        <5> QED BY <5>1, <5>2 DEF Told, RunsIn
      <4>2. CASE Started(ev.run) \notin acked
        <5>1. Started(ev.run) = ev  BY <1>10, <1>13, <3>1, <4>2
        <5> QED BY <5>1 DEF Started
      <4> QED BY <4>1, <4>2
    <3> QED BY <1>2, <1>7, <3>1, <3>2, ToldNow
  <2> QED BY <2>2, <2>3, <2>4
<1>14. ASSUME NEW r \in Runs, stage'[r] = "new" PROVE Unheard(r)' /\ ~ Tells(Main, r)'
  <2>1. stage[r] = "new"  BY <1>2, <1>3, <1>14 DEF FileInv, Typed
  <2>2. Unheard(r) /\ ~ Tells(Main, r) /\ ev.run # r  BY <1>1, <2>1, HeadIsHeard DEF AckInv
  <2> QED BY <1>6, <1>8, <1>11, <2>2
<1>15. ASSUME NEW r \in Runs, Pending(r)'
       PROVE  Unheard(r)' /\ stage'[r] \in {"starting", "over"}
  <2>1. t # Main /\ Pending(r)  BY <1>12, <1>15
  <2>2. Unheard(r) /\ ev.run # r /\ stage[r] \in {"starting", "over"} /\ ev.t # "started"
    BY <1>1, <2>1, HeadIsHeard DEF AckInv
  <2> QED BY <1>3, <1>11, <2>2
<1>16. ASSUME NEW i \in DOMAIN todo'[Main], i > 1 PROVE todo'[Main][i].t = "closed"
  <2>1. CASE t = Main
    <3>1. i + 1 \in DOMAIN todo[Main] /\ i + 1 > 1 /\ todo'[Main][i] = todo[Main][i + 1]
      BY <1>5, <2>1
    <3> QED BY <3>1 DEF AckInv
  <2>2. CASE t # Main
    <3>1. todo'[Main] = todo[Main]  BY <1>4, <1>6, <2>2
    <3> QED BY <1>16, <3>1 DEF AckInv
  <2> QED BY <2>1, <2>2
<1>17. ASSUME NEW u \in Others, NEW i \in DOMAIN todo'[u] PROVE todo'[u][i].t # "started"
  <2>1. CASE t = u
    <3>1. i + 1 \in DOMAIN todo[u] /\ todo'[u][i] = todo[u][i + 1]  BY <1>5, <2>1
    <3> QED BY <3>1 DEF AckInv
  <2>2. CASE t # u
    <3>1. todo'[u] = todo[u]  BY <1>4, <1>6, <2>2
    <3> QED BY <3>1 DEF AckInv
  <2> QED BY <2>1, <2>2
<1> QED BY <1>13, <1>14, <1>15, <1>16, <1>17 DEF AckInv

\* A thread that had nothing to write has lines about one run.
LEMMA CallAck ==
  ASSUME FileInv, AckInv, NEW t \in Threads, NEW evs \in Seq(Events), Calls(t, evs),
         journal' = journal, acked' = acked,
         NEW r \in Runs, \A i \in DOMAIN evs : evs[i].run = r,
         \A i \in DOMAIN evs : /\ i > 1 => evs[i].t = "closed"
                               /\ evs[i].t = "started" => t = Main /\ stage[r] = "new",
         NEW next \in {"starting", "open", "over"}, stage' = [stage EXCEPT ![r] = next],
         \/ stage[r] = "new" /\ t = Main /\ next # "open"
         \/ stage[r] = "open"
  PROVE  AckInv'
<1>1. /\ todo' = [todo EXCEPT ![t] = evs] /\ todo \in [Threads -> Seq(Events)]
      /\ stage \in [Runs -> {"new", "starting", "open", "over"}]
  BY DEF Calls, FileInv, Typed
<1>2. todo'[t] = evs /\ \A u \in Threads : u # t => todo'[u] = todo[u]  BY <1>1
<1>3. stage'[r] = next /\ \A q \in Runs : q # r => stage'[q] = stage[q]  BY <1>1
<1>4. Main \in Threads /\ Others \subseteq Threads /\ Others = Threads \ {Main}
  BY DEF Threads, Others
<1>5. \A u \in Threads, q \in Runs : Tells(u, q)' => Tells(u, q) \/ (u = t /\ q = r)
  <2> SUFFICES ASSUME NEW u \in Threads, NEW q \in Runs, Tells(u, q)'
               PROVE  Tells(u, q) \/ (u = t /\ q = r)
    OBVIOUS
  <2>1. PICK i \in DOMAIN todo'[u] : todo'[u][i].run = q  BY DEF Tells
  <2>2. CASE u = t  BY <1>2, <2>1, <2>2
  <2>3. CASE u # t  BY <1>2, <2>1, <2>3 DEF Tells
  <2> QED BY <2>2, <2>3
<1>6. \A q \in Runs : Unheard(q) /\ (q # r \/ t = Main) => Unheard(q)'
  BY <1>4, <1>5 DEF Unheard
<1>7. ASSUME NEW ev \in acked', Started(ev.run) \in acked' PROVE Told(ev, journal')
  BY <1>7 DEF AckInv
<1>8. ASSUME NEW q \in Runs, stage'[q] = "new" PROVE Unheard(q)' /\ ~ Tells(Main, q)'
  <2>1. q # r /\ stage[q] = "new"  BY <1>3, <1>8
  <2>2. Unheard(q) /\ ~ Tells(Main, q)  BY <2>1 DEF AckInv
  <2> QED BY <1>4, <1>5, <1>6, <2>1, <2>2
<1>9. ASSUME NEW q \in Runs, Pending(q)'
      PROVE  Unheard(q)' /\ stage'[q] \in {"starting", "over"}
  <2>1. PICK i \in DOMAIN todo'[Main] : todo'[Main][i] = Started(q)  BY <1>9 DEF Pending
  <2>2. CASE t = Main
    <3>1. i \in DOMAIN evs /\ evs[i] = Started(q)  BY <1>2, <2>1, <2>2
    <3>2. evs[i].t = "started" /\ evs[i].run = q  BY <3>1 DEF Started
    <3>3. q = r /\ stage[r] = "new"  BY <3>1, <3>2
    <3>4. Unheard(r) /\ next # "open"  BY <3>3 DEF AckInv
    <3> QED BY <1>3, <1>6, <2>2, <3>3, <3>4
  <2>3. CASE t # Main
    <3>1. todo'[Main] = todo[Main]  BY <1>2, <1>4, <2>3
    <3>2. Pending(q)  BY <2>1, <3>1 DEF Pending
    <3>3. Unheard(q) /\ stage[q] \in {"starting", "over"}  BY <3>2 DEF AckInv
    <3>4. q # r  BY <2>3, <3>3
    <3> QED BY <1>3, <1>6, <3>3, <3>4
  <2> QED BY <2>2, <2>3
<1>10. ASSUME NEW i \in DOMAIN todo'[Main], i > 1 PROVE todo'[Main][i].t = "closed"
  <2>1. CASE t = Main  BY <1>2, <1>10, <2>1
  <2>2. CASE t # Main
    <3>1. todo'[Main] = todo[Main]  BY <1>2, <1>4, <2>2
    <3> QED BY <1>10, <3>1 DEF AckInv
  <2> QED BY <2>1, <2>2
<1>11. ASSUME NEW u \in Others, NEW i \in DOMAIN todo'[u] PROVE todo'[u][i].t # "started"
  <2>1. CASE t = u  BY <1>2, <1>4, <2>1
  <2>2. CASE t # u
    <3>1. todo'[u] = todo[u]  BY <1>2, <1>4, <2>2
    <3> QED BY <3>1 DEF AckInv
  <2> QED BY <2>1, <2>2
<1> QED BY <1>7, <1>8, <1>9, <1>10, <1>11 DEF AckInv

LEMMA CallsAck ==
  ASSUME FileInv, AckInv, NEW r \in Runs,
         Launch(r) \/ FailedToLaunch(r) \/ FailedToStart(r) \/ NoteTranscript(r) \/ Close(r)
  PROVE  AckInv'
<1>1. Main \in Threads /\ Hook \in Threads /\ Closers \subseteq Threads
      /\ Hook # Main /\ Main \notin Closers
  BY ThreadsAssumption DEF Threads
<1>2. stage \in [Runs -> {"new", "starting", "open", "over"}]  BY DEF FileInv, Typed
<1>3. Started(r) \in Events /\ Started(r).run = r /\ Started(r).t = "started"
  BY EventMade DEF Started
<1>4. \A s \in Outcomes : Closed(r, s) \in Events /\ Closed(r, s).run = r
                          /\ Closed(r, s).t = "closed"
  BY EventMade DEF Closed
<1>5. journal' = journal /\ acked' = acked
  BY DEF Launch, FailedToLaunch, FailedToStart, NoteTranscript, Close, file, text
<1>6. \A x : \A i \in DOMAIN <<x>> : i = 1 /\ <<x>>[i] = x  OBVIOUS
<1>7. CASE Launch(r)
  <2> DEFINE evs == <<Started(r)>>
  <2>1. evs \in Seq(Events) /\ \A i \in DOMAIN evs : i = 1 /\ evs[i] = Started(r)
    BY <1>3, <1>6
  <2>2. Calls(Main, evs) /\ stage[r] = "new" /\ stage' = [stage EXCEPT ![r] = "starting"]
    BY <1>7 DEF Launch
  <2> HIDE DEF evs
  <2>3. \A i \in DOMAIN evs : evs[i].run = r /\ ~ (i > 1)  BY <1>3, <2>1
  <2> QED BY <1>1, <1>5, <2>1, <2>2, <2>3, CallAck
<1>8. CASE FailedToLaunch(r)
  <2> DEFINE c == Closed(r, "failed-to-launch")
             evs == <<Started(r), c>>
  <2>1. c \in Events /\ c.run = r /\ c.t = "closed"  BY <1>4 DEF Outcomes
  <2> HIDE DEF c
  <2>2. evs \in Seq(Events)
        /\ \A i \in DOMAIN evs : (i = 1 /\ evs[i] = Started(r)) \/ (i = 2 /\ evs[i] = c)
    BY <1>3, <2>1
  <2>3. Calls(Main, evs) /\ stage[r] = "new" /\ stage' = [stage EXCEPT ![r] = "over"]
    BY <1>8 DEF FailedToLaunch, c
  <2> HIDE DEF evs
  <2>4. \A i \in DOMAIN evs : evs[i].run = r /\ (i > 1 => evs[i].t = "closed")
    BY <1>3, <2>1, <2>2
  <2> QED BY <1>1, <1>5, <2>2, <2>3, <2>4, CallAck
<1>9. CASE FailedToStart(r)
  <2> DEFINE c == Closed(r, "error")
             evs == <<c>>
  <2>1. c \in Events /\ c.run = r /\ c.t = "closed"  BY <1>4 DEF Outcomes
  <2> HIDE DEF c
  <2>2. evs \in Seq(Events) /\ \A i \in DOMAIN evs : i = 1 /\ evs[i] = c  BY <1>6, <2>1
  <2>3. Calls(Main, evs) /\ stage[r] = "open" /\ stage' = [stage EXCEPT ![r] = "over"]
    BY <1>9 DEF FailedToStart, c
  <2> HIDE DEF evs
  <2>4. \A i \in DOMAIN evs : evs[i].run = r /\ evs[i].t = "closed"  BY <2>1, <2>2
  <2> QED BY <1>1, <1>5, <2>2, <2>3, <2>4, CallAck
<1>10. CASE NoteTranscript(r)
  <2>1. PICK p \in Paths : Calls(Hook, <<Transcript(r, p, known[r] # NoPath)>>)
    BY <1>10 DEF NoteTranscript
  <2> DEFINE b == known[r] # NoPath
             c == Transcript(r, p, b)
             evs == <<c>>
  <2>2. b \in BOOLEAN /\ Calls(Hook, evs)  BY <2>1
  <2> HIDE DEF b
  <2>3. c \in Events /\ c.run = r /\ c.t = "transcript"  BY <2>2, EventMade DEF Transcript
  <2> HIDE DEF c
  <2>4. evs \in Seq(Events) /\ \A i \in DOMAIN evs : i = 1 /\ evs[i] = c  BY <1>6, <2>3
  <2>5. stage[r] = "open" /\ stage' = stage  BY <1>10 DEF NoteTranscript
  <2>6. stage' = [stage EXCEPT ![r] = "open"]  BY <1>2, <2>5
  <2> HIDE DEF evs
  <2>7. \A i \in DOMAIN evs : evs[i].run = r /\ evs[i].t = "transcript" /\ ~ (i > 1)
    BY <2>3, <2>4
  <2> QED BY ZenonT(40), <1>1, <1>5, <2>2, <2>4, <2>5, <2>6, <2>7, CallAck
<1>11. CASE Close(r)
  <2>1. PICK t \in Closers, s \in {"ended", "error"} : Calls(t, <<Closed(r, s)>>)
    BY <1>11 DEF Close
  <2> DEFINE c == Closed(r, s)
             evs == <<c>>
  <2>2. c \in Events /\ c.run = r /\ c.t = "closed"  BY <1>4 DEF Outcomes
  <2>3. Calls(t, evs)  BY <2>1
  <2> HIDE DEF c
  <2>4. evs \in Seq(Events) /\ \A i \in DOMAIN evs : i = 1 /\ evs[i] = c  BY <1>6, <2>2
  <2>5. stage[r] = "open" /\ stage' = [stage EXCEPT ![r] = "over"] /\ t \in Threads
    BY <1>1, <1>11 DEF Close
  <2> HIDE DEF evs
  <2>6. \A i \in DOMAIN evs : evs[i].run = r /\ evs[i].t = "closed"  BY <2>2, <2>4
  <2> QED BY <1>5, <2>3, <2>4, <2>5, <2>6, CallAck
<1> QED BY <1>7, <1>8, <1>9, <1>10, <1>11

LEMMA StartAck ==
  ASSUME FileInv, AckInv, StartApp
  PROVE  AckInv'
<1>1. /\ todo' = [todo EXCEPT ![Main] = Sweeping] /\ journal' = journal
      /\ acked' = acked /\ stage' = stage
  BY StartKeeps DEF StartApp
<1>2. todo \in [Threads -> Seq(Events)] /\ Main \in Threads /\ Others = Threads \ {Main}
  BY DEF FileInv, Typed, Threads, Others
<1>3. todo'[Main] = Sweeping /\ \A t \in Others : todo'[t] = todo[t]  BY <1>1, <1>2
<1>4. \A i \in DOMAIN Sweeping : Sweeping[i].t = "closed" /\ Sweeping[i].run \in RunsIn(journal)
  BY SweepCloses
<1>5. \A r \in Runs : Unheard(r) => Unheard(r)' /\ ~ Tells(Main, r)'
  BY <1>1, <1>3, <1>4 DEF Unheard, Tells
<1>6. \A r \in Runs : ~ Pending(r)'  BY <1>3, <1>4 DEF Pending, Started
<1>7. \A ev \in acked' : Started(ev.run) \in acked' => Told(ev, journal')
  BY <1>1 DEF AckInv
<1> QED BY <1>1, <1>3, <1>4, <1>5, <1>6, <1>7 DEF AckInv

\* A rewrite forgets what it does not keep.
LEMMA RewriteAck ==
  ASSUME FileInv, AckInv, NEW places, journal' = Kept(journal, places),
         acked' \subseteq acked, todo' = todo, stage' = stage,
         \A ev \in acked' : Told(ev, journal) => ev.run \in RunsIn(Kept(journal, places))
  PROVE  AckInv'
<1>1. History(journal)  BY FoldedHistory DEF FileInv, Typed
<1>2. RunsIn(journal') \subseteq RunsIn(journal)  BY <1>1, KeptHistory
<1>3. ASSUME NEW ev \in acked', Started(ev.run) \in acked' PROVE Told(ev, journal')
  <2>1. ev \in Events /\ Told(ev, journal)  BY <1>3 DEF AckInv, FileInv, Typed
  <2> QED BY <1>1, <1>3, <2>1, KeptTold
<1>4. \A r \in Runs : Unheard(r) => Unheard(r)'  BY <1>2 DEF Unheard, Tells
<1> QED BY <1>3, <1>4 DEF AckInv, Tells, Pending

LEMMA StopAck ==
  ASSUME FileInv, AckInv, NoSplit, Stop
  PROVE  AckInv'
<1>1. /\ todo' = [t \in Threads |-> <<>>] /\ acked' = acked
      /\ stage' = [r \in Runs |-> IF stage[r] = "new" THEN "new" ELSE "over"]
  BY DEF Stop
<1>2. Main \in Threads /\ Others \subseteq Threads  BY DEF Threads, Others
<1>3. \A t \in Threads : DOMAIN todo'[t] = {}  BY <1>1
<1>4. \A t \in Threads, r \in Runs : ~ Tells(t, r)'  BY <1>3 DEF Tells
<1>5. \A r \in Runs : ~ Pending(r)'  BY <1>2, <1>3 DEF Pending
<1>6. History(journal) /\ acked \subseteq Events  BY FoldedHistory DEF FileInv, Typed
<1>7. ASSUME NEW t \in Threads, Busy(t), journal' = Apply(journal, Head(todo[t]))
      PROVE  /\ \A ev \in acked : Told(ev, journal) => Told(ev, journal')
             /\ \A r \in Runs : stage[r] = "new" /\ r \notin RunsIn(journal) =>
                                  r \notin RunsIn(journal')
  <2>1. Head(todo[t]) \in Events
        /\ \A r \in Runs : stage[r] = "new" => Head(todo[t]).run # r
    BY <1>7, HeadIsHeard
  <2>2. RunsIn(journal') \subseteq RunsIn(journal) \cup {Head(todo[t]).run}
    BY <1>6, <1>7, <2>1, ApplyRuns
  <2>3. ASSUME NEW ev \in acked, Told(ev, journal) PROVE Told(ev, journal')
    BY <1>6, <1>7, <2>1, <2>3, StillTold
  <2> QED BY <2>1, <2>2, <2>3
<1>8. /\ \A ev \in acked : Told(ev, journal) => Told(ev, journal')
      /\ \A r \in Runs : stage[r] = "new" /\ r \notin RunsIn(journal) =>
                           r \notin RunsIn(journal')
  BY <1>7, StopKeeps
<1>9. \A ev \in acked' : Started(ev.run) \in acked' => Told(ev, journal')
  BY <1>1, <1>8 DEF AckInv
<1>10. ASSUME NEW r \in Runs, stage'[r] = "new" PROVE Unheard(r)' /\ ~ Tells(Main, r)'
  <2>1. stage[r] = "new"  BY <1>1, <1>10
  <2>2. Unheard(r)  BY <2>1 DEF AckInv
  <2> QED BY <1>1, <1>2, <1>4, <1>8, <2>1, <2>2 DEF Unheard
<1> QED BY <1>2, <1>3, <1>5, <1>9, <1>10 DEF AckInv

LEMMA AckStep ==
  ASSUME FileInv, AckInv, NoSplit, [Next]_vars
  PROVE  AckInv'
<1>0. History(journal)  BY FoldedHistory DEF FileInv, Typed
<1>1. CASE journal' = journal /\ acked' = acked /\ todo' = todo /\ stage' = stage
  BY <1>1 DEF AckInv, Unheard, Tells, Pending
<1>2. ASSUME NEW t \in Threads, OpenFile(t) PROVE AckInv'
  BY <1>1, <1>2 DEF OpenFile, file, text
<1>3. ASSUME NEW t \in Threads, WriteLine(t) PROVE AckInv'
  BY <1>3, WriteKeeps, MovesAck DEF WriteLine
<1>4. ASSUME NEW t \in Threads, WriteFails(t) PROVE AckInv'
  BY <1>4, FailKeeps, MovesAck DEF WriteFails
<1>5. ASSUME NEW r \in Runs,
             Launch(r) \/ FailedToLaunch(r) \/ FailedToStart(r) \/ NoteTranscript(r) \/ Close(r)
      PROVE  AckInv'
  BY <1>5, CallsAck
<1>6. CASE StartApp  BY <1>6, StartAck
<1>7. CASE CompactReads  BY <1>1, <1>7 DEF CompactReads, file, text
<1>8. CASE CompactWrites
  <2>1. journal' = Recent(journal) /\ todo' = todo /\ stage' = stage /\ seen = Recent(journal)
    BY <1>8, CompactWritesKeep DEF CompactWrites, FileInv, Phases
  <2>2. acked' = {ev \in acked : ev.run \in RunsIn(Recent(journal))}
    BY <1>8, <2>1 DEF CompactWrites, Forget
  <2> QED BY <2>1, <2>2, RewriteAck DEF Recent
<1>9. CASE EraseReads  BY <1>1, <1>9 DEF EraseReads, file, text
<1>10. CASE EraseWrites
  <2>1. PICK k \in Scenarios, w \in Workspaces \cup {NoWorkspace} :
          /\ journal' = Without(journal, k, w)
          /\ acked' = {ev \in acked : ~ InScope(ev.run, k, w)}
    BY <1>10, EraseWritesKeep
  <2> DEFINE places == {i \in DOMAIN journal : ~ InScope(journal[i].run, k, w)}
  <2>2. journal' = Kept(journal, places)  BY <2>1 DEF Without
  <2>3. Holding(Kept(journal, places), journal, places, Len(journal))
        /\ DOMAIN journal = 1 .. Len(journal)
    BY <1>0, KeptHolds DEF History
  <2>4. ASSUME NEW ev \in acked', Told(ev, journal)
        PROVE  ev.run \in RunsIn(Kept(journal, places))
    <3>1. PICK i \in DOMAIN journal : journal[i].run = ev.run  BY <2>4 DEF Told
    <3>2. i \in places  BY <2>1, <2>4, <3>1
    <3> HIDE DEF places
    <3>3. PICK j \in DOMAIN Kept(journal, places) : Kept(journal, places)[j] = journal[i]
      BY <2>3, <3>1, <3>2 DEF Holding
    <3> QED BY <3>1, <3>3 DEF RunsIn
  <2>5. todo' = todo /\ stage' = stage /\ acked' \subseteq acked
    BY <1>10, <2>1 DEF EraseWrites
  <2> HIDE DEF places
  <2> QED BY <2>2, <2>4, <2>5, RewriteAck
<1>11. CASE Stop  BY <1>11, StopAck
<1>12. CASE UNCHANGED vars  BY <1>1, <1>12 DEF vars, file, text, memory
<1> QED BY <1>2, <1>3, <1>4, <1>5, <1>6, <1>7, <1>8, <1>9, <1>10, <1>11, <1>12 DEF Next

\* A line whose append returned Ok is in what a reader makes of the file.
THEOREM AckedIsThereAlways ==
  ASSUME NoSplit, OneWriter
  PROVE  Spec => []AckedIsThere
<1>1. Init => FileInv /\ AckInv  BY FileInit, AckInit
<1>2. FileInv /\ AckInv /\ [Next]_vars => FileInv' /\ AckInv'  BY FileStep, AckStep
<1>3. AckInv => AckedIsThere  BY DEF AckInv, AckedIsThere, Told
<1> QED BY <1>1, <1>2, <1>3, PTL DEF Spec
=============================================================================
