-------------------------- MODULE FolderSyncProofs --------------------------
(***************************************************************************)
(* Theorems of FolderSync, for every set of machines, workspaces and notes *)
(* and every mode: whatever is edited, merged, removed, rebased, settled   *)
(* or cut short, in any order.  The last four (folders, versions, lists    *)
(* and deletions) are about the modes their hypotheses name: in the others *)
(* the code breaks them.                                                   *)
(*                                                                         *)
(* What a machine wrote can be lost in three places: between its disk and  *)
(* its last commit, between that commit and the one of the remote it was   *)
(* rebased onto, and between that and the remote as it is now.  The        *)
(* invariants say what may be missing along this chain.                    *)
(***************************************************************************)
EXTENDS FolderSync, TLAPS

\* The cycle's counter of merges is an index.
Types == TypeOK /\ \A m \in Machines : step[m] \in Nat \ {0}

-----------------------------------------------------------------------------
(* Types. *)

\* What a rebase leaves is a tree.
LEMMA RebasedType ==
  ASSUME NEW o \in Tree, NEW b \in Tree, NEW t \in Tree
  PROVE  Rebased(o, b, t) \in Tree
<1>1. [w \in Ids |-> Settled(o.rec[w], b.rec[w], t.rec[w])] \in [Ids -> Nat]
  BY DEF Tree, Settled
<1>2. [n \in Notes |-> Settled(o.at[n], b.at[n], t.at[n])] \in [Notes -> Ids \cup {None}]
  BY DEF Tree, Settled
<1>3. Settled(o.pin, b.pin, t.pin) \in Ids \cup {None}  BY DEF Tree, Settled
<1>4. Settled(o.ledger, b.ledger, t.ledger) \in Seq(Merges)  BY DEF Tree, Settled
<1> QED BY <1>1, <1>2, <1>3, <1>4 DEF Rebased, Tree

\* The files a rebase leaves with markers are files.
LEMMA ClashesType ==
  ASSUME NEW o, NEW b, NEW t
  PROVE  Clashes(o, b, t) \subseteq Ids \cup Notes \cup {"scenario", "identity"}
BY DEF Clashes

\* The end of a cycle keeps the types of what it sets.
LEMMA EndType ==
  ASSUME TypeOK, NEW m \in Machines, NEW st, End(m, st)
  PROVE  phase' \in [Machines -> Phases] /\ shown' \in [Machines -> SUBSET Ids]
<1>1. Announced(m, st) \subseteq Ids  BY DEF TypeOK, Announced, Records
<1> QED BY <1>1 DEF TypeOK, End, Phases

LEMMA GotoType ==
  ASSUME TypeOK, NEW m \in Machines, NEW p \in Phases, Goto(m, p)
  PROVE  phase' \in [Machines -> Phases] /\ shown' \in [Machines -> SUBSET Ids]
BY DEF TypeOK, Goto

LEMMA FinishedType ==
  ASSUME TypeOK, NEW m \in Machines, Finished(m)
  PROVE  phase' \in [Machines -> Phases] /\ shown' \in [Machines -> SUBSET Ids]
<1>1. CASE pulled[m]  BY <1>1, GotoType DEF Finished, Phases
<1>2. CASE ~ pulled[m]  BY <1>2, EndType DEF Finished
<1> QED BY <1>1, <1>2

\* The steps of a cycle that only write the store, the tree or the commit.
LEMMA LocalType ==
  ASSUME Types, NEW m \in Machines,
         Read(m) \/ Publish(m) \/ Commit(m) \/ PullNothing(m)
  PROVE  Types'
<1> USE DEF Types, TypeOK, disk, shared, cycle, history, past
<1>1. CASE Read(m)
  <2>1. phase' \in [Machines -> Phases] /\ shown' \in [Machines -> SUBSET Ids]
    BY <1>1, GotoType DEF Read, Phases
  <2>2. snap' \in [Machines -> Store] /\ pulled' \in [Machines -> BOOLEAN]
    BY <1>1 DEF Read
  <2>3. step' \in [Machines -> Nat] /\ \A k \in Machines : step'[k] \in Nat \ {0}
    BY <1>1 DEF Read
  <2>4. UNCHANGED <<disk, shared, history, clock>>  BY <1>1 DEF Read
  <2> QED BY <2>1, <2>2, <2>3, <2>4
<1>2. CASE Publish(m)
  <2>1. phase' \in [Machines -> Phases] /\ shown' \in [Machines -> SUBSET Ids]
    BY <1>2, GotoType DEF Publish, Phases
  <2>a. snap[m] \in Store /\ store[m] \in Store  OBVIOUS
  <2>2. WithRepos(m) \in Store  BY <2>a DEF WithRepos, Store
  <2>3. Published(m) \in Tree
    <3>1. snap[m] \in Store /\ tree[m] \in Tree  OBVIOUS
    <3>2. [w \in Ids |-> IF snap[m].ver[w] > 0 THEN snap[m].ver[w] ELSE tree[m].rec[w]]
            \in [Ids -> Nat]
      BY <3>1 DEF Store, Tree
    <3> QED BY <3>1, <3>2 DEF Published, Store, Tree
  <2>4. [snap[m] EXCEPT !.known = snap[m].located] \in Store  BY <2>a DEF Store
  <2>5. store' \in [Machines -> Store] /\ tree' \in [Machines -> Tree]
    BY <1>2, <2>2, <2>3 DEF Publish
  <2>6. snap' \in [Machines -> Store]  BY <1>2, <2>4 DEF Publish
  <2>7. marked' \in [Machines -> SUBSET (Ids \cup Notes \cup {"scenario", "identity"})]
    BY <1>2 DEF Publish
  <2> QED BY <1>2, <2>1, <2>5, <2>6, <2>7 DEF Publish
<1>3. CASE Commit(m)
  <2>1. CASE m \in stopped
    <3>1. End(m, store[m])  BY <1>3, <2>1 DEF Commit
    <3>2. phase' \in [Machines -> Phases] /\ shown' \in [Machines -> SUBSET Ids]
      BY <3>1, EndType
    <3> QED BY <1>3, <2>1, <3>2 DEF Commit
  <2>2. CASE m \notin stopped
    <3>1. Goto(m, "committed")  BY <1>3, <2>2 DEF Commit
    <3>2. phase' \in [Machines -> Phases] /\ shown' \in [Machines -> SUBSET Ids]
      BY <3>1, GotoType DEF Phases
    <3>3. head' \in [Machines -> Tree]  BY <1>3, <2>2 DEF Commit
    <3> QED BY <1>3, <3>2, <3>3 DEF Commit
  <2> QED BY <2>1, <2>2
<1>4. CASE PullNothing(m)
  <2>1. phase' \in [Machines -> Phases] /\ shown' \in [Machines -> SUBSET Ids]
    BY <1>4, GotoType DEF PullNothing, Phases
  <2> QED BY <1>4, <2>1 DEF PullNothing
<1> QED BY <1>1, <1>2, <1>3, <1>4

\* A pull, the first or the one after a rejected push.
LEMMA FetchType ==
  ASSUME Types, NEW m \in Machines, NEW from, NEW to \in Phases, Fetch(m, from, to)
  PROVE  Types'
<1> DEFINE onto == Rebased(head[m], base[m], remote)
           clash == Clashes(head[m], base[m], remote)
<1>0. UNCHANGED <<store, remote, snap, step, past, clock>>  BY DEF Fetch
<1>1. CASE Dirty(m)
  <2>1. End(m, store[m])  BY <1>1 DEF Fetch
  <2>2. phase' \in [Machines -> Phases] /\ shown' \in [Machines -> SUBSET Ids]
    BY <2>1, EndType DEF Types
  <2>3. UNCHANGED <<tree, head, base, upstream, marked, stopped, tip, pulled>>
        /\ early' \subseteq Machines
    BY <1>1 DEF Fetch, BreaksOff, Types, TypeOK
  <2> QED BY <1>0, <2>2, <2>3 DEF Types, TypeOK, history, past
<1>2. CASE ~ Dirty(m)
  <2>1. onto \in Tree  BY RebasedType DEF Types, TypeOK
  <2>2. clash \subseteq Ids \cup Notes \cup {"scenario", "identity"}  BY ClashesType
  <2>3. [onto EXCEPT !.at = [n \in Notes |-> IF n \in Untracked(m) /\ @[n] = None
                                             THEN tree[m].at[n] ELSE @[n]]] \in Tree
    <3>1. tree[m] \in Tree  BY DEF Types, TypeOK
    <3> HIDE DEF onto
    <3> QED BY <2>1, <3>1 DEF Tree
  <2>4. head' = [head EXCEPT ![m] = onto] /\ base' = [base EXCEPT ![m] = remote]
        /\ marked' = [marked EXCEPT ![m] = clash]
        /\ upstream' = upstream \cup {m} /\ tip' = tip \cup {m}
    BY <1>2 DEF Fetch
  <2>5. tree' = [tree EXCEPT ![m] =
            [onto EXCEPT !.at = [n \in Notes |-> IF n \in Untracked(m) /\ @[n] = None
                                                 THEN tree[m].at[n] ELSE @[n]]]]
    BY <1>2 DEF Fetch
  <2>6. /\ phase' \in [Machines -> Phases] /\ shown' \in [Machines -> SUBSET Ids]
        /\ pulled' \in [Machines -> BOOLEAN] /\ stopped' \subseteq Machines
        /\ early' \subseteq Machines
    <3>1. CASE clash = {}
      <4>1. Goto(m, to) /\ pulled' = [pulled EXCEPT ![m] = @ \/ to = "pulled"]
            /\ UNCHANGED <<stopped, early>>
        BY <1>2, <3>1 DEF Fetch
      <4> QED BY <4>1, GotoType DEF Types, TypeOK
    <3>2. CASE clash # {}
      <4>1. End(m, store[m]) /\ stopped' = stopped \cup {m} /\ UNCHANGED pulled
            /\ early' = early \cup {m}
        BY <1>2, <3>2 DEF Fetch
      <4> QED BY <4>1, EndType DEF Types, TypeOK
    <3> QED BY <3>1, <3>2
  <2> HIDE DEF onto, clash
  <2>7. tree' \in [Machines -> Tree] /\ head' \in [Machines -> Tree]
        /\ base' \in [Machines -> Tree]
        /\ marked' \in [Machines -> SUBSET (Ids \cup Notes \cup {"scenario", "identity"})]
    BY <2>1, <2>2, <2>3, <2>4, <2>5 DEF Types, TypeOK
  <2> QED BY <1>0, <2>4, <2>6, <2>7 DEF Types, TypeOK, history, past
<1> QED BY <1>1, <1>2

\* The end of a cycle's exchange with the remote.
LEMMA SendType ==
  ASSUME Types, NEW m \in Machines,
         NothingToSend(m) \/ Push(m) \/ Rejected(m) \/ CutShort(m)
  PROVE  Types'
<1> USE DEF Types, TypeOK, disk, shared, cycle, history, past
<1>1. CASE NothingToSend(m)
  BY <1>1, FinishedType DEF NothingToSend
<1>2. CASE Push(m)
  <2>1. phase' \in [Machines -> Phases] /\ shown' \in [Machines -> SUBSET Ids]
    BY <1>2, FinishedType DEF Push
  <2>2. remote' \in Tree /\ base' \in [Machines -> Tree]  BY <1>2 DEF Push
  <2> QED BY <1>2, <2>1, <2>2 DEF Push
<1>3. CASE Rejected(m)
  <2>1. phase' \in [Machines -> Phases] /\ shown' \in [Machines -> SUBSET Ids]
    <3>1. CASE Goto(m, "rejected")  BY <3>1, GotoType DEF Phases
    <3>2. CASE End(m, store[m])  BY <3>2, EndType
    <3> QED BY <1>3, <3>1, <3>2 DEF Rejected
  <2>2. early' \subseteq Machines  BY <1>3 DEF Rejected, BreaksOff
  <2> QED BY <1>3, <2>1, <2>2 DEF Rejected
<1>4. CASE CutShort(m)
  <2>1. Records(store[m]) \subseteq Ids  BY DEF Records
  <2>2. phase' \in [Machines -> Phases]  BY <1>4 DEF CutShort, Phases
  <2>3. early' \subseteq Machines  BY <1>4 DEF CutShort, BreaksOff
  <2> QED BY <1>4, <2>1, <2>2, <2>3 DEF CutShort
<1> QED BY <1>1, <1>2, <1>3, <1>4

\* What is read of the ledger is a ledger.
LEMMA LedgerType ==
  ASSUME TypeOK, NEW m \in Machines
  PROVE  Ledger(m) \in Seq(Merges)
BY DEF TypeOK, Tree, Ledger

\* Memory that moves is memory of some workspace.
LEMMA MovedType ==
  ASSUME NEW at \in [Notes -> Ids \cup {None}], NEW from \in Ids, NEW into \in Ids
  PROVE  Moved(at, from, into) \in [Notes -> Ids \cup {None}]
BY DEF Moved

LEMMA AdoptionType ==
  ASSUME Types, NEW m \in Machines, ApplyLedger(m) \/ Adopt(m)
  PROVE  Types'
<1>0. store[m] \in Store /\ snap[m] \in Store /\ tree[m] \in Tree  BY DEF Types, TypeOK
<1>1. CASE ApplyLedger(m)
  <2> DEFINE a == Ledger(m)[step[m]]
  <2>1. a \in Merges
    BY <1>1, LedgerType DEF ApplyLedger, Types, TypeOK
  <2>2. [tree[m] EXCEPT !.at = Moved(@, a.from, a.into)] \in Tree
    BY <1>0, <2>1, MovedType DEF Tree, Merges
  <2>3. [store[m] EXCEPT !.pin = Repointed(@, a.from, a.into)] \in Store
    BY <1>0, <2>1 DEF Store, Merges, Repointed
  <2>4. /\ tree' = [tree EXCEPT ![m] = [tree[m] EXCEPT !.at = Moved(@, a.from, a.into)]]
        /\ store' = [store EXCEPT ![m] = [store[m] EXCEPT !.pin = Repointed(@, a.from, a.into)]]
    BY <1>1 DEF ApplyLedger, Types, TypeOK
  <2>5. step' = [step EXCEPT ![m] = step[m] + 1]
    BY <1>1 DEF ApplyLedger, Types, TypeOK
  <2>6. step' \in [Machines -> Nat] /\ \A k \in Machines : step'[k] \in Nat \ {0}
    BY <2>5 DEF Types, TypeOK
  <2>7. UNCHANGED <<head, base, upstream, marked, stopped, shared, phase, snap, pulled, shown,
                    history, clock>>
    BY <1>1 DEF ApplyLedger
  <2> HIDE DEF a
  <2>8. tree' \in [Machines -> Tree] /\ store' \in [Machines -> Store]
    BY <2>2, <2>3, <2>4 DEF Types, TypeOK
  <2> QED BY <2>6, <2>7, <2>8 DEF Types, TypeOK, shared, history, past
<1>2. CASE Adopt(m)
  <2>1. Adopted(m) \in Store
    <3>1. Arrived(m) \subseteq Ids  BY DEF Arrived
    <3>2. [w \in Ids |-> IF w \in Arrived(m) THEN tree[m].rec[w] ELSE 0] \in [Ids -> Nat]
      BY <1>0 DEF Tree
    <3>3. tree[m].pin \in Ids \cup {None}  BY <1>0 DEF Tree
    <3> QED BY <1>0, <3>1, <3>2, <3>3 DEF Adopted, Store
  <2>2. [tree[m] EXCEPT !.rec = [w \in Ids |-> IF w \in Withdrawn(m) THEN 0 ELSE @[w]]] \in Tree
    BY <1>0 DEF Tree
  <2>3. End(m, Adopted(m))  BY <1>2 DEF Adopt
  <2>4. phase' \in [Machines -> Phases] /\ shown' \in [Machines -> SUBSET Ids]
    BY <2>3, EndType DEF Types
  <2>5. /\ store' = [store EXCEPT ![m] = Adopted(m)]
        /\ tree' = [tree EXCEPT ![m] =
             [tree[m] EXCEPT !.rec = [w \in Ids |-> IF w \in Withdrawn(m) THEN 0 ELSE @[w]]]]
    BY <1>2 DEF Adopt, Types, TypeOK
  <2>6. UNCHANGED <<head, base, upstream, marked, stopped, shared, snap, pulled, step,
                    past, clock>> /\ early' \subseteq Machines
    BY <1>2 DEF Adopt, Types, TypeOK
  <2>7. tree' \in [Machines -> Tree] /\ store' \in [Machines -> Store]
    BY <2>1, <2>2, <2>5 DEF Types, TypeOK
  <2> QED BY <2>4, <2>6, <2>7 DEF Types, TypeOK, shared, history, past
<1> QED BY <1>1, <1>2

\* Two records folded into one are records.
LEMMA FoldedType ==
  ASSUME NEW st \in Store, NEW from \in Ids, NEW into \in Ids
  PROVE  Folded(st, from, into) \in Store
<1>1. [st.ver EXCEPT ![from] = 0,
                     ![into] = IF st.ver[into] > 0 THEN st.ver[into] ELSE st.ver[from]]
        \in [Ids -> Nat]
  BY DEF Store
<1> QED BY <1>1 DEF Folded, Store

\* The commands that change the list of workspaces and the scenarios alone.
LEMMA CommandType ==
  ASSUME Types, NEW m \in Machines, NEW w \in Ids,
         Add(m, w) \/ Edit(m, w) \/ Locate(m, w) \/ Pin(m, w)
  PROVE  Types'
<1>0. store[m] \in Store /\ clock \in Nat  BY DEF Types, TypeOK
<1>1. UNCHANGED <<tree, head, base, upstream, stopped, shared, cycle>>
  BY DEF Add, Edit, Locate, Pin, GitAlone, cycle
<1>2. UNCHANGED <<marked, gone, writer, early>>
  BY DEF Add, Edit, Locate, Pin, GitAlone, history, past
<1>3. store' \in [Machines -> Store] /\ shown' \in [Machines -> SUBSET Ids]
  <2>1. ASSUME NEW st \in Store, Saved(m, st)
        PROVE  store' \in [Machines -> Store] /\ shown' \in [Machines -> SUBSET Ids]
    BY <2>1 DEF Types, TypeOK, Saved, Records
  <2>2. CASE Add(m, w)
    <3> DEFINE ver == [store[m].ver EXCEPT ![w] = clock + 1]
    <3>0. ver \in [Ids -> Nat]  BY <1>0 DEF Store
    <3>1. [store[m] EXCEPT !.ver[w] = clock + 1, !.located = @ \cup {w}] \in Store
      <4>1. [store[m] EXCEPT !.ver = ver, !.located = @ \cup {w}] \in Store
        <5> HIDE DEF ver
        <5> QED BY <1>0, <3>0 DEF Store
      <4> QED BY <4>1
    <3>2. Saved(m, [store[m] EXCEPT !.ver[w] = clock + 1, !.located = @ \cup {w}])
      BY <2>2 DEF Add
    <3> QED BY <2>1, <3>1, <3>2
  <2>3. CASE Edit(m, w)
    <3>1. [store[m] EXCEPT !.ver[w] = clock + 1] \in Store  BY <1>0 DEF Store
    <3> QED BY <2>1, <2>3, <3>1 DEF Edit
  <2>4. CASE Locate(m, w)
    <3>1. [store[m] EXCEPT !.located = @ \cup {w}] \in Store  BY <1>0 DEF Store
    <3> QED BY <2>1, <2>4, <3>1 DEF Locate
  <2>5. CASE Pin(m, w)
    <3>1. [store[m] EXCEPT !.pin = w] \in Store  BY <1>0 DEF Store
    <3>2. store' = [store EXCEPT ![m] = [store[m] EXCEPT !.pin = w]] /\ UNCHANGED shown
      BY <2>5 DEF Pin, Types, TypeOK
    <3> QED BY <3>1, <3>2 DEF Types, TypeOK
  <2> QED BY <2>2, <2>3, <2>4, <2>5
<1>4. made' \subseteq Ids /\ clock' \in Nat
  BY <1>0 DEF Add, Edit, Locate, Pin, history, past, Types, TypeOK
<1> QED BY <1>1, <1>2, <1>3, <1>4 DEF Types, TypeOK, shared, cycle

\* A list that is saved, and shown where it was changed.
LEMMA SavedType ==
  ASSUME Types, NEW m \in Machines, NEW st \in Store, Saved(m, st)
  PROVE  store' \in [Machines -> Store] /\ shown' \in [Machines -> SUBSET Ids]
BY DEF Types, TypeOK, Saved, Records

\* The commands that write into the repository as well.
LEMMA RemoveType ==
  ASSUME Types, NEW m \in Machines, NEW w \in Ids, Remove(m, w)
  PROVE  Types'
<1>0. store[m] \in Store /\ tree[m] \in Tree  BY DEF Types, TypeOK
<1>1. [store[m] EXCEPT !.ver[w] = 0, !.located = @ \ {w}, !.known = @ \ {w}] \in Store
  BY <1>0 DEF Store
<1>2. store' \in [Machines -> Store] /\ shown' \in [Machines -> SUBSET Ids]
  BY <1>1, SavedType DEF Remove
<1>3. [tree[m] EXCEPT !.rec[w] = 0] \in Tree  BY <1>0 DEF Tree
<1>4. tree' = [tree EXCEPT ![m] = [tree[m] EXCEPT !.rec[w] = 0]]
  BY DEF Remove, Types, TypeOK
<1>5. tree' \in [Machines -> Tree]  BY <1>3, <1>4 DEF Types, TypeOK
<1>6. marked' \in [Machines -> SUBSET (Ids \cup Notes \cup {"scenario", "identity"})]
  BY DEF Remove, Types, TypeOK
<1>7. gone' \subseteq Ids /\ UNCHANGED <<made, writer, clock>>
  BY DEF Remove, Types, TypeOK
<1> QED BY <1>2, <1>5, <1>6, <1>7 DEF Remove, GitAlone, Types, TypeOK, shared, cycle

LEMMA MergeType ==
  ASSUME Types, NEW m \in Machines, NEW w \in Ids, NEW v \in Ids, Merge(m, w, v)
  PROVE  Types'
<1> DEFINE answered == IF Merged(Ledger(m), w) THEN Ledger(m)
                       ELSE Append(Ledger(m), [from |-> w, into |-> v])
           st == [store[m] EXCEPT !.pin = Repointed(@, w, v)]
           new == [tree[m] EXCEPT !.ledger = answered,
                                  !.at = Moved(@, w, v), !.rec[w] = 0]
<1>0. store[m] \in Store /\ tree[m] \in Tree  BY DEF Types, TypeOK
<1>1. answered \in Seq(Merges)
  <2>1. Ledger(m) \in Seq(Merges)  BY LedgerType DEF Types
  <2>2. [from |-> w, into |-> v] \in Merges  BY DEF Merges
  <2> QED BY <2>1, <2>2
<1>2. st \in Store  BY <1>0 DEF Store, Repointed
<1>3. Folded(st, w, v) \in Store  BY <1>2, FoldedType
<1>4. Saved(m, Folded(st, w, v))  BY DEF Merge
<1>5. store' \in [Machines -> Store] /\ shown' \in [Machines -> SUBSET Ids]
  BY <1>3, <1>4, SavedType
<1>6. new \in Tree
  <2>1. Moved(tree[m].at, w, v) \in [Notes -> Ids \cup {None}]
    BY <1>0, MovedType DEF Tree
  <2> HIDE DEF answered
  <2> QED BY <1>0, <1>1, <2>1 DEF Tree
<1>7. tree' = [tree EXCEPT ![m] = new]
  <2>1. tree' = [tree EXCEPT ![m].ledger = answered,
                             ![m].at = Moved(@, w, v), ![m].rec[w] = 0]
    BY DEF Merge
  <2>2. tree \in [Machines -> Tree]  BY DEF Types, TypeOK
  <2> HIDE DEF answered
  <2> QED BY <1>0, <2>1, <2>2 DEF Tree
<1>8. tree' \in [Machines -> Tree]  BY <1>6, <1>7 DEF Types, TypeOK
<1>9. marked' \in [Machines -> SUBSET (Ids \cup Notes \cup {"scenario", "identity"})]
  BY DEF Merge, Types, TypeOK
<1>10. gone' \subseteq Ids /\ UNCHANGED <<made, writer, early, clock>>
  BY DEF Merge, Types, TypeOK
<1>11. GitAlone  BY DEF Merge
<1> QED BY <1>5, <1>8, <1>9, <1>10, <1>11 DEF GitAlone, Types, TypeOK, shared, cycle

LEMMA WriteType ==
  ASSUME Types, NEW m \in Machines, NEW w \in Ids, NEW n \in Notes, WriteNote(m, w, n)
  PROVE  Types'
<1>0. tree[m] \in Tree  BY DEF Types, TypeOK
<1>1. [tree[m] EXCEPT !.at[n] = w] \in Tree  BY <1>0 DEF Tree
<1>2. tree' = [tree EXCEPT ![m] = [tree[m] EXCEPT !.at[n] = w]]
  BY DEF WriteNote, Types, TypeOK
<1>3. tree' \in [Machines -> Tree]  BY <1>1, <1>2 DEF Types, TypeOK
<1>4. writer' \in [Notes -> Machines \cup {None}]  BY DEF WriteNote, Types, TypeOK
<1> QED BY <1>3, <1>4 DEF WriteNote, GitAlone, Types, TypeOK, shared, cycle

\* What a person settles a rebase to is a tree, and is committed.
LEMMA SettleType ==
  ASSUME Types, NEW m \in Machines, Settle(m)
  PROVE  Types'
<1>0. tree[m] \in Tree /\ base[m] \in Tree /\ clock \in Nat  BY DEF Types, TypeOK
<1> DEFINE side(ours) == IF ours THEN tree[m] ELSE base[m]
           rec(mine, w) == IF w \notin marked[m] THEN tree[m].rec[w]
                           ELSE IF side(w \in mine).rec[w] = 0 THEN 0 ELSE clock + 1
           result(mine) ==
             [rec |-> [w \in Ids |-> rec(mine, w)],
              at |-> [n \in Notes |-> side(n \in mine \/ n \notin marked[m]).at[n]],
              pin |-> side("scenario" \in mine \/ "scenario" \notin marked[m]).pin,
              ledger |-> IF "identity" \notin marked[m] THEN tree[m].ledger
                         ELSE base[m].ledger \o tree[m].ledger]
<1>1. PICK mine \in SUBSET marked[m] :
        tree' = [tree EXCEPT ![m] = result(mine)] /\ head' = [head EXCEPT ![m] = result(mine)]
  BY DEF Settle
<1>2. result(mine) \in Tree
  <2>1. \A w \in Ids : rec(mine, w) \in Nat  BY <1>0 DEF Tree
  <2>2. \A n \in Notes : side(n \in mine \/ n \notin marked[m]).at[n] \in Ids \cup {None}
    BY <1>0 DEF Tree
  <2>3. side("scenario" \in mine \/ "scenario" \notin marked[m]).pin \in Ids \cup {None}
    BY <1>0 DEF Tree
  <2>4. base[m].ledger \o tree[m].ledger \in Seq(Merges) /\ tree[m].ledger \in Seq(Merges)
    BY <1>0 DEF Tree
  <2> HIDE DEF rec, side
  <2> QED BY <2>1, <2>2, <2>3, <2>4 DEF Tree
<1> HIDE DEF result
<1>3. tree' \in [Machines -> Tree] /\ head' \in [Machines -> Tree]
  BY <1>1, <1>2 DEF Types, TypeOK
<1>4. /\ clock' = clock + 1 /\ stopped' = stopped \ {m}
      /\ marked' = [marked EXCEPT ![m] = {}]
      /\ UNCHANGED <<store, base, upstream, shared, cycle, shown, history>>
  BY DEF Settle
<1>5. /\ stopped' \subseteq Machines /\ clock' \in Nat
      /\ marked' \in [Machines -> SUBSET (Ids \cup Notes \cup {"scenario", "identity"})]
  BY <1>0, <1>4 DEF Types, TypeOK
<1> QED BY <1>3, <1>4, <1>5 DEF Types, TypeOK, shared, cycle, history, past

\* Every step of a machine, its cycle's or a person's.
LEMMA TypeStep == Types /\ [Next]_vars => Types'
<1> SUFFICES ASSUME Types, [Next]_vars PROVE Types'  OBVIOUS
<1>1. ASSUME NEW m \in Machines, Loop(m) PROVE Types'
  BY <1>1, LocalType, FetchType, SendType, AdoptionType DEF Loop, Pull, Repull, Phases
<1>2. ASSUME NEW m \in Machines, CutShort(m) PROVE Types'  BY <1>2, SendType
<1>3. ASSUME NEW m \in Machines, People(m) PROVE Types'
  <2>1. CASE \E w \in Ids : Add(m, w) \/ Edit(m, w) \/ Locate(m, w) \/ Pin(m, w)
    BY <2>1, CommandType
  <2>2. ASSUME NEW w \in Ids, Remove(m, w) PROVE Types'
    BY <2>2, RemoveType
  <2>3. ASSUME NEW w \in Ids, NEW v \in Ids, Merge(m, w, v) PROVE Types'
    BY <2>3, MergeType
  <2>4. ASSUME NEW w \in Ids, NEW n \in Notes, WriteNote(m, w, n) PROVE Types'
    BY <2>4, WriteType
  <2>5. CASE Settle(m)  BY <2>5, SettleType
  <2> QED BY <1>3, <2>1, <2>2, <2>3, <2>4, <2>5 DEF People
<1>4. CASE UNCHANGED vars
  BY <1>4 DEF vars, disk, shared, cycle, history, past, Types, TypeOK
<1> QED BY <1>1, <1>2, <1>3, <1>4 DEF Next

LEMMA InitTypes == Init => Types
<1> SUFFICES ASSUME Init PROVE Types  OBVIOUS
<1>1. Blank \in Tree
  <2>1. <<>> \in Seq(Merges)  OBVIOUS
  <2> QED BY <2>1 DEF Blank, Tree
<1>2. store \in [Machines -> Store]
  <2>1. ASSUME NEW m \in Machines
        PROVE  LET mine == {w \in Ids : left.owner[w] = m}
               IN [ver |-> [w \in Ids |-> IF w \in mine THEN 1 ELSE 0],
                   located |-> mine, known |-> {}, pin |-> None] \in Store
    BY DEF Store
  <2> QED BY <2>1 DEF Init
<1>3. \A m \in Machines : Records(store[m]) \subseteq Ids  BY DEF Records
<1>4. phase \in [Machines -> Phases]  BY DEF Init, Phases
<1>5. /\ shown \in [Machines -> SUBSET Ids] /\ snap \in [Machines -> Store]
      /\ made \subseteq Ids
  BY <1>2, <1>3 DEF Init
<1>6. /\ tree \in [Machines -> Tree] /\ head \in [Machines -> Tree]
      /\ base \in [Machines -> Tree] /\ remote \in Tree
  BY <1>1 DEF Init
<1>7. /\ upstream \subseteq Machines /\ stopped \subseteq Machines /\ tip \subseteq Machines
      /\ gone \subseteq Ids /\ clock \in Nat
  BY DEF Init
<1>8. /\ marked \in [Machines -> SUBSET (Ids \cup Notes \cup {"scenario", "identity"})]
      /\ pulled \in [Machines -> BOOLEAN]
  BY DEF Init
<1>9. step \in [Machines -> Nat] /\ \A m \in Machines : step[m] \in Nat \ {0}
  BY DEF Init
<1>10. writer \in [Notes -> Machines \cup {None}] /\ early \subseteq Machines  BY DEF Init
<1> QED BY <1>2, <1>4, <1>5, <1>6, <1>7, <1>8, <1>9, <1>10 DEF Types, TypeOK

THEOREM TypeCorrect == Spec => []TypeOK
<1>1. Init => Types  BY InitTypes
<1>2. Types => TypeOK  BY DEF Types
<1> QED BY <1>1, <1>2, TypeStep, PTL DEF Spec

-----------------------------------------------------------------------------
(* The chain from a machine's disk to the remote. *)

\* Before the first push nobody has a commit of the remote; a machine that has
\* the last one was rebased onto it.
TipIsBase ==
  /\ tip = {} => remote = Blank /\ \A m \in Machines : base[m] = Blank
  /\ \A m \in tip : base[m] = remote

\* A note goes nowhere but along the chain, and a conflict is between two notes.
NoteChain ==
  \A m \in Machines, n \in Notes :
    /\ base[m].at[n] # None => head[m].at[n] # None /\ remote.at[n] # None
    /\ head[m].at[n] # None => tree[m].at[n] # None
    /\ n \in marked[m] => base[m].at[n] # None

NoteInv == Types /\ TipIsBase /\ NoteChain /\ NoteIsKept

\* Only a project somebody removed, or answered to be another, is merged away.
AnsweredByPeople(ledger) == \A i \in DOMAIN ledger : ledger[i].from \in gone

\* A record is missing further down the chain because it is gone.
RecordChain ==
  /\ \A m \in Machines, w \in Ids :
       /\ base[m].rec[w] > 0 /\ head[m].rec[w] = 0 => w \in gone
       /\ head[m].rec[w] > 0 /\ tree[m].rec[w] = 0 => w \in gone
       /\ base[m].rec[w] > 0 /\ remote.rec[w] = 0 => w \in gone
  /\ \A m \in Machines : AnsweredByPeople(tree[m].ledger)
                         /\ AnsweredByPeople(head[m].ledger)
                         /\ AnsweredByPeople(base[m].ledger)
  /\ AnsweredByPeople(remote.ledger)

RecordInv == Types /\ TipIsBase /\ RecordChain

\* What a rebase leaves of a note: it has one of the two sides, and the side
\* that was not changed gives way.
LEMMA RebasedNote ==
  ASSUME NEW o, NEW b, NEW t, NEW n \in Notes
  PROVE  /\ Rebased(o, b, t).at[n] = IF o.at[n] = b.at[n] THEN t.at[n] ELSE o.at[n]
         /\ n \in Clashes(o, b, t) => t.at[n] # b.at[n] /\ o.at[n] # b.at[n]
BY FilesAssumption DEF Rebased, Settled, Clashes, Clash

LEMMA RebasedRecord ==
  ASSUME NEW o, NEW b, NEW t, NEW w \in Ids
  PROVE  Rebased(o, b, t).rec[w] = IF o.rec[w] = b.rec[w] THEN t.rec[w] ELSE o.rec[w]
BY DEF Rebased, Settled

\* What a pull that is not refused does.
LEMMA FetchSteps ==
  ASSUME Types, NEW m \in Machines, NEW from, NEW to, Fetch(m, from, to), ~ Dirty(m)
  PROVE  LET onto == Rebased(head[m], base[m], remote) IN
         /\ head' = [head EXCEPT ![m] = onto]
         /\ base' = [base EXCEPT ![m] = remote]
         /\ tip' = tip \cup {m} /\ tip # {}
         /\ marked' = [marked EXCEPT ![m] = Clashes(head[m], base[m], remote)]
         /\ tree'[m].rec = onto.rec /\ tree'[m].ledger = onto.ledger
         /\ \A n \in Notes : tree'[m].at[n] = IF n \in Untracked(m) /\ onto.at[n] = None
                                              THEN tree[m].at[n] ELSE onto.at[n]
         /\ \A k \in Machines \ {m} : tree'[k] = tree[k]
         /\ UNCHANGED <<remote, gone, writer>>
<1> DEFINE onto == Rebased(head[m], base[m], remote)
<1>1. onto \in Tree  BY RebasedType DEF Types, TypeOK
<1>2. tree' = [tree EXCEPT ![m] =
          [onto EXCEPT !.at = [n \in Notes |-> IF n \in Untracked(m) /\ @[n] = None
                                               THEN tree[m].at[n] ELSE @[n]]]]
  BY DEF Fetch
<1>3. tree \in [Machines -> Tree]  BY DEF Types, TypeOK
<1>4. /\ tree'[m].rec = onto.rec /\ tree'[m].ledger = onto.ledger
      /\ \A n \in Notes : tree'[m].at[n] = IF n \in Untracked(m) /\ onto.at[n] = None
                                           THEN tree[m].at[n] ELSE onto.at[n]
      /\ \A k \in Machines \ {m} : tree'[k] = tree[k]
  <2> HIDE DEF onto
  <2> QED BY <1>1, <1>2, <1>3 DEF Tree
<1>5. /\ head' = [head EXCEPT ![m] = onto] /\ base' = [base EXCEPT ![m] = remote]
      /\ tip' = tip \cup {m} /\ tip # {}
      /\ marked' = [marked EXCEPT ![m] = Clashes(head[m], base[m], remote)]
      /\ UNCHANGED <<remote, gone, writer>>
  BY DEF Fetch, Exists, history, past
<1> QED BY <1>4, <1>5

LEMMA TipStep ==
  ASSUME Types, TipIsBase, [Next]_vars
  PROVE  TipIsBase'
<1>1. ASSUME NEW m \in Machines, NEW from, NEW to, Fetch(m, from, to)  PROVE TipIsBase'
  <2>1. CASE Dirty(m)
    <3>1. UNCHANGED <<base, tip, remote>>  BY <1>1, <2>1 DEF Fetch
    <3> QED BY <3>1 DEF TipIsBase
  <2>2. CASE ~ Dirty(m)
    <3>1. /\ base' = [base EXCEPT ![m] = remote] /\ tip' = tip \cup {m} /\ remote' = remote
      BY <1>1, <2>2, FetchSteps
    <3> QED BY <3>1 DEF TipIsBase, Types, TypeOK
  <2> QED BY <2>1, <2>2
<1>2. ASSUME NEW m \in Machines, Push(m)  PROVE TipIsBase'
  BY <1>2 DEF Push, TipIsBase, Types, TypeOK
<1>3. ASSUME UNCHANGED <<base, shared>>  PROVE TipIsBase'
  BY <1>3 DEF shared, TipIsBase
<1>4. ASSUME NEW m \in Machines, Loop(m)  PROVE TipIsBase'
  <2>1. CASE Read(m) \/ Publish(m) \/ Commit(m) \/ PullNothing(m)
    BY <2>1, <1>3 DEF Read, Publish, Commit, PullNothing, disk
  <2>2. CASE Pull(m) \/ Repull(m)  BY <2>2, <1>1 DEF Pull, Repull
  <2>3. CASE NothingToSend(m) \/ Rejected(m)
    BY <2>3, <1>3 DEF NothingToSend, Rejected, disk
  <2>4. CASE Push(m)  BY <2>4, <1>2
  <2>5. CASE ApplyLedger(m) \/ Adopt(m)  BY <2>5, <1>3 DEF ApplyLedger, Adopt
  <2> QED BY <1>4, <2>1, <2>2, <2>3, <2>4, <2>5 DEF Loop
<1>5. ASSUME NEW m \in Machines, People(m) \/ CutShort(m)  PROVE TipIsBase'
  <2>1. CASE CutShort(m)  BY <2>1, <1>3 DEF CutShort, disk
  <2>2. CASE People(m)
    BY <2>2, <1>3 DEF People, Add, Edit, Locate, Remove, Pin, Merge, WriteNote, Settle,
                      GitAlone
  <2> QED BY <1>5, <2>1, <2>2
<1>6. CASE UNCHANGED vars  BY <1>6, <1>3 DEF vars, disk
<1> QED BY <1>4, <1>5, <1>6 DEF Next

-----------------------------------------------------------------------------
(* Notes. *)

NotesHold == NoteChain /\ NoteIsKept

\* Memory that moves stays: it is under the other workspace.
LEMMA MovedStays ==
  ASSUME NEW at \in [Notes -> Ids \cup {None}], NEW from \in Ids, NEW into \in Ids,
         NEW n \in Notes
  PROVE  at[n] # None <=> Moved(at, from, into)[n] # None
BY NoneAssumption DEF Moved

\* A step that leaves the commits and the remote alone, and no note out of a
\* machine's tree.
LEMMA NotesUntouched ==
  ASSUME NoteInv, UNCHANGED <<head, base, shared, writer>>,
         \A m \in Machines : marked'[m] \subseteq marked[m],
         \A m \in Machines, n \in Notes : tree[m].at[n] # None => tree'[m].at[n] # None
  PROVE  NotesHold'
<1>1. NoteChain'  BY DEF NoteInv, NoteChain, shared
<1>2. NoteIsKept'
  BY NoneAssumption DEF NoteInv, NoteIsKept, Types, TypeOK
<1> QED BY <1>1, <1>2 DEF NotesHold

LEMMA NoteFetch ==
  ASSUME NoteInv, NEW m \in Machines, NEW from, NEW to, Fetch(m, from, to)
  PROVE  NotesHold'
<1>1. CASE Dirty(m)
  <2>1. UNCHANGED <<tree, head, base, tip, marked, remote, writer>>
    BY <1>1 DEF Fetch, history, past
  <2> QED BY <2>1 DEF NoteInv, NotesHold, NoteChain, NoteIsKept
<1>2. CASE ~ Dirty(m)
  <2> DEFINE onto == Rebased(head[m], base[m], remote)
  <2>1. /\ head' = [head EXCEPT ![m] = onto]
        /\ base' = [base EXCEPT ![m] = remote]
        /\ marked' = [marked EXCEPT ![m] = Clashes(head[m], base[m], remote)]
        /\ \A n \in Notes : tree'[m].at[n] = IF n \in Untracked(m) /\ onto.at[n] = None
                                             THEN tree[m].at[n] ELSE onto.at[n]
        /\ \A k \in Machines \ {m} : tree'[k] = tree[k]
        /\ UNCHANGED <<remote, writer>>
    BY <1>2, FetchSteps DEF NoteInv
  <2>2. ASSUME NEW n \in Notes
        PROVE  /\ remote.at[n] # None => onto.at[n] # None
               /\ head[m].at[n] # None => onto.at[n] # None
               /\ n \in Clashes(head[m], base[m], remote) => remote.at[n] # None
    <3>1. onto.at[n] = IF head[m].at[n] = base[m].at[n] THEN remote.at[n] ELSE head[m].at[n]
      BY RebasedNote
    <3>2. n \in Clashes(head[m], base[m], remote) => remote.at[n] # base[m].at[n]
      BY RebasedNote
    <3> HIDE DEF onto
    <3> QED BY <3>1, <3>2 DEF NoteInv, NoteChain
  <2>3. ASSUME NEW n \in Notes PROVE head[m].at[n] # None \/ n \in Untracked(m)
    BY DEF Untracked
  <2> HIDE DEF onto
  <2>4. NoteChain'
    <3> SUFFICES ASSUME NEW k \in Machines, NEW n \in Notes
                 PROVE  /\ base'[k].at[n] # None => head'[k].at[n] # None /\ remote'.at[n] # None
                        /\ head'[k].at[n] # None => tree'[k].at[n] # None
                        /\ n \in marked'[k] => base'[k].at[n] # None
      BY DEF NoteChain
    <3>1. CASE k = m
      BY <2>1, <2>2, <3>1 DEF NoteInv, Types, TypeOK
    <3>2. CASE k # m
      BY <2>1, <3>2 DEF NoteInv, NoteChain, Types, TypeOK
    <3> QED BY <3>1, <3>2
  <2>5. NoteIsKept'
    <3> SUFFICES ASSUME NEW n \in Notes, writer'[n] # None
                 PROVE  tree'[writer'[n]].at[n] # None
      BY DEF NoteIsKept
    <3>1. writer[n] \in Machines /\ tree[writer[n]].at[n] # None /\ writer'[n] = writer[n]
      BY <2>1 DEF NoteInv, NoteIsKept, Types, TypeOK
    <3>2. CASE writer[n] = m  BY <2>1, <2>2, <2>3, <3>1, <3>2
    <3>3. CASE writer[n] # m  BY <2>1, <3>1, <3>3
    <3> QED BY <3>2, <3>3
  <2> QED BY <2>4, <2>5 DEF NotesHold
<1> QED BY <1>1, <1>2

\* The others' last common commit is an ancestor of the one that is pushed.
LEMMA NotePush ==
  ASSUME NoteInv, NEW m \in Machines, Push(m)
  PROVE  NotesHold'
<1>1. /\ remote' = head[m] /\ base' = [base EXCEPT ![m] = head[m]]
      /\ UNCHANGED <<tree, head, marked, writer>>
  BY DEF Push, history, past
<1>2. ASSUME NEW k \in Machines, NEW n \in Notes, base[k].at[n] # None
      PROVE  head[m].at[n] # None
  <2>1. remote.at[n] # None  BY <1>2 DEF NoteInv, NoteChain
  <2>2. CASE tip = {}
    <3>1. base[k].at[n] = None  BY <2>2 DEF NoteInv, TipIsBase, Blank
    <3> QED BY <1>2, <3>1
  <2>3. CASE tip # {}
    <3>1. base[m] = remote  BY <2>3 DEF Push, Exists, NoteInv, TipIsBase
    <3> QED BY <2>1, <3>1 DEF NoteInv, NoteChain
  <2> QED BY <2>2, <2>3
<1>3. NoteChain'
  BY <1>1, <1>2 DEF NoteInv, NoteChain, Types, TypeOK
<1>4. NoteIsKept'  BY <1>1 DEF NoteInv, NoteIsKept
<1> QED BY <1>3, <1>4 DEF NotesHold

\* What a person leaves of a stopped rebase has, of each file, one of the two
\* sides, and the other side only where there was a conflict.
SettledTo(m, result) ==
  /\ tree' = [tree EXCEPT ![m] = result] /\ head' = [head EXCEPT ![m] = result]
  /\ \A n \in Notes : \/ result.at[n] = tree[m].at[n]
                      \/ n \in marked[m] /\ result.at[n] = base[m].at[n]
  /\ \A w \in Ids : \/ result.rec[w] = tree[m].rec[w]
                    \/ tree[m].rec[w] = 0 /\ result.rec[w] = 0
                    \/ base[m].rec[w] = 0 /\ result.rec[w] = 0
                    \/ result.rec[w] = clock + 1
  /\ result.ledger \in {tree[m].ledger, base[m].ledger \o tree[m].ledger}

LEMMA SettledSides ==
  ASSUME NEW m \in Machines, Settle(m)
  PROVE  \E result : SettledTo(m, result)
<1> DEFINE side(ours) == IF ours THEN tree[m] ELSE base[m]
           rec(mine, w) == IF w \notin marked[m] THEN tree[m].rec[w]
                           ELSE IF side(w \in mine).rec[w] = 0 THEN 0 ELSE clock + 1
           result(mine) ==
             [rec |-> [w \in Ids |-> rec(mine, w)],
              at |-> [n \in Notes |-> side(n \in mine \/ n \notin marked[m]).at[n]],
              pin |-> side("scenario" \in mine \/ "scenario" \notin marked[m]).pin,
              ledger |-> IF "identity" \notin marked[m] THEN tree[m].ledger
                         ELSE base[m].ledger \o tree[m].ledger]
<1>1. PICK mine \in SUBSET marked[m] :
        tree' = [tree EXCEPT ![m] = result(mine)] /\ head' = [head EXCEPT ![m] = result(mine)]
  BY DEF Settle
<1>2. \A n \in Notes : \/ result(mine).at[n] = tree[m].at[n]
                       \/ n \in marked[m] /\ result(mine).at[n] = base[m].at[n]
  OBVIOUS
<1>3. \A w \in Ids : \/ result(mine).rec[w] = tree[m].rec[w]
                     \/ tree[m].rec[w] = 0 /\ result(mine).rec[w] = 0
                     \/ base[m].rec[w] = 0 /\ result(mine).rec[w] = 0
                     \/ result(mine).rec[w] = clock + 1
  OBVIOUS
<1>4. result(mine).ledger \in {tree[m].ledger, base[m].ledger \o tree[m].ledger}
  OBVIOUS
<1> HIDE DEF result
<1> QED BY <1>1, <1>2, <1>3, <1>4 DEF SettledTo

\* A conflict is between two notes: whichever side a person takes, there is one.
LEMMA NoteSettle ==
  ASSUME NoteInv, NEW m \in Machines, Settle(m)
  PROVE  NotesHold'
<1>1. /\ marked' = [marked EXCEPT ![m] = {}] /\ UNCHANGED <<base, remote, writer>>
  BY DEF Settle, shared, history, past
<1>2. PICK result : SettledTo(m, result)  BY SettledSides
<1>3. ASSUME NEW n \in Notes
      PROVE  /\ tree[m].at[n] # None => result.at[n] # None
             /\ base[m].at[n] # None => result.at[n] # None
  BY <1>2 DEF SettledTo, NoteInv, NoteChain
<1>4. NoteChain'
  BY <1>1, <1>2, <1>3 DEF SettledTo, NoteInv, NoteChain, Types, TypeOK
<1>5. NoteIsKept'
  <2> SUFFICES ASSUME NEW n \in Notes, writer'[n] # None
               PROVE  tree'[writer'[n]].at[n] # None
    BY DEF NoteIsKept
  <2>1. writer[n] \in Machines /\ tree[writer[n]].at[n] # None /\ writer'[n] = writer[n]
    BY <1>1 DEF NoteInv, NoteIsKept, Types, TypeOK
  <2> QED BY <1>2, <1>3, <2>1 DEF SettledTo, NoteInv, Types, TypeOK
<1> QED BY <1>4, <1>5 DEF NotesHold

\* The steps of a cycle that reach neither the remote nor a person.
LEMMA NoteLocal ==
  ASSUME NoteInv, NEW m \in Machines,
         Read(m) \/ Publish(m) \/ Commit(m) \/ PullNothing(m) \/ NothingToSend(m)
           \/ Rejected(m) \/ CutShort(m) \/ ApplyLedger(m) \/ Adopt(m)
  PROVE  NotesHold'
<1>0. tree \in [Machines -> Tree] /\ marked \in [Machines -> SUBSET (Ids \cup Notes \cup {"scenario", "identity"})]
  BY DEF NoteInv, Types, TypeOK
<1>1. CASE Read(m) \/ PullNothing(m) \/ NothingToSend(m) \/ Rejected(m) \/ CutShort(m)
  BY <1>1, NotesUntouched DEF Read, PullNothing, NothingToSend, Rejected, CutShort, disk, history, past
<1>2. CASE Publish(m)
  <2>1. /\ tree' = [tree EXCEPT ![m] = Published(m)] /\ UNCHANGED <<head, base, shared, writer>>
        /\ marked' = [marked EXCEPT ![m] =
             (@ \ Records(snap[m])) \ (IF snap[m].pin # None THEN {"scenario"} ELSE {})]
    BY <1>2 DEF Publish, history, past
  <2>2. Published(m).at = tree[m].at  BY <1>0 DEF Published, Tree
  <2>3. \A k \in Machines, n \in Notes : tree[k].at[n] # None => tree'[k].at[n] # None
    BY <1>0, <2>1, <2>2
  <2>4. \A k \in Machines : marked'[k] \subseteq marked[k]  BY <1>0, <2>1
  <2> QED BY <2>1, <2>3, <2>4, NotesUntouched
<1>3. CASE Commit(m)
  <2>1. CASE m \in stopped
    BY <1>3, <2>1, NotesUntouched DEF Commit, history, past
  <2>2. CASE m \notin stopped
    <3>1. /\ head' = [head EXCEPT ![m] = tree[m]]
          /\ UNCHANGED <<tree, base, marked, remote, writer>>
      BY <1>3, <2>2 DEF Commit, shared, history, past
    <3> QED BY <3>1 DEF NoteInv, NotesHold, NoteChain, NoteIsKept, Types, TypeOK
  <2> QED BY <2>1, <2>2
<1>4. CASE ApplyLedger(m)
  <2> DEFINE a == Ledger(m)[step[m]]
  <2>1. a \in Merges
    BY <1>4, LedgerType DEF ApplyLedger, NoteInv, Types, TypeOK
  <2>2. /\ tree' = [tree EXCEPT ![m].at = Moved(@, a.from, a.into)]
        /\ UNCHANGED <<head, base, shared, writer, marked>>
    BY <1>4 DEF ApplyLedger, history, past
  <2> HIDE DEF a
  <2>3. \A n \in Notes : tree[m].at[n] # None => Moved(tree[m].at, a.from, a.into)[n] # None
    BY <1>0, <2>1, MovedStays DEF Tree, Merges
  <2>4. \A k \in Machines, n \in Notes : tree[k].at[n] # None => tree'[k].at[n] # None
    BY <1>0, <2>2, <2>3 DEF Tree
  <2> QED BY <2>2, <2>4, NotesUntouched
<1>5. CASE Adopt(m)
  <2>1. /\ tree' = [tree EXCEPT ![m].rec =
              [w \in Ids |-> IF w \in Withdrawn(m) THEN 0 ELSE @[w]]]
        /\ UNCHANGED <<head, base, shared, writer, marked>>
    BY <1>5 DEF Adopt, history, past
  <2>2. \A k \in Machines : tree'[k].at = tree[k].at  BY <1>0, <2>1 DEF Tree
  <2> QED BY <2>1, <2>2, NotesUntouched
<1> QED BY <1>1, <1>2, <1>3, <1>4, <1>5

LEMMA NotePeople ==
  ASSUME NoteInv, NEW m \in Machines, People(m)
  PROVE  NotesHold'
<1>0. tree \in [Machines -> Tree] /\ marked \in [Machines -> SUBSET (Ids \cup Notes \cup {"scenario", "identity"})]
  BY DEF NoteInv, Types, TypeOK
<1>1. ASSUME NEW w \in Ids, Add(m, w) \/ Edit(m, w) \/ Locate(m, w) \/ Pin(m, w)
      PROVE  NotesHold'
  BY <1>1, NotesUntouched DEF Add, Edit, Locate, Pin, GitAlone, history, past
<1>2. ASSUME NEW w \in Ids, Remove(m, w)  PROVE NotesHold'
  <2>1. /\ tree' = [tree EXCEPT ![m].rec[w] = 0]
        /\ marked' = [marked EXCEPT ![m] = @ \ {w}]
        /\ UNCHANGED <<head, base, shared, writer>>
    BY <1>2 DEF Remove, GitAlone
  <2>2. \A k \in Machines : tree'[k].at = tree[k].at  BY <1>0, <2>1 DEF Tree
  <2>3. \A k \in Machines : marked'[k] \subseteq marked[k]  BY <1>0, <2>1
  <2> QED BY <2>1, <2>2, <2>3, NotesUntouched
<1>3. ASSUME NEW w \in Ids, NEW v \in Ids, Merge(m, w, v)  PROVE NotesHold'
  <2> DEFINE answered == IF Merged(Ledger(m), w) THEN Ledger(m)
                         ELSE Append(Ledger(m), [from |-> w, into |-> v])
  <2>1. /\ tree' = [tree EXCEPT ![m].ledger = answered,
                                ![m].at = Moved(@, w, v), ![m].rec[w] = 0]
        /\ marked' = [marked EXCEPT ![m] = @ \ {"identity", w}]
        /\ UNCHANGED <<head, base, shared, writer>>
    BY <1>3 DEF Merge, GitAlone
  <2> HIDE DEF answered
  <2>2. \A k \in Machines : tree'[k].at = IF k = m THEN Moved(tree[m].at, w, v) ELSE tree[k].at
    BY <1>0, <2>1 DEF Tree
  <2>3. \A n \in Notes : tree[m].at[n] # None => Moved(tree[m].at, w, v)[n] # None
    BY <1>0, MovedStays DEF Tree
  <2>4. \A k \in Machines : marked'[k] \subseteq marked[k]  BY <1>0, <2>1
  <2> QED BY <2>1, <2>2, <2>3, <2>4, NotesUntouched
<1>4. ASSUME NEW w \in Ids, NEW n \in Notes, WriteNote(m, w, n)  PROVE NotesHold'
  <2>1. /\ tree' = [tree EXCEPT ![m].at[n] = w] /\ writer' = [writer EXCEPT ![n] = m]
        /\ UNCHANGED <<head, base, shared, marked>>
    BY <1>4 DEF WriteNote, GitAlone
  <2>2. \A k \in Machines, o \in Notes :
          tree'[k].at[o] = IF k = m /\ o = n THEN w ELSE tree[k].at[o]
    BY <1>0, <2>1 DEF Tree
  <2>3. NoteChain'
    BY <2>1, <2>2, NoneAssumption DEF NoteInv, NoteChain, shared
  <2>4. NoteIsKept'
    <3>1. \A o \in Notes : writer'[o] = IF o = n THEN m ELSE writer[o]
      BY <2>1 DEF NoteInv, Types, TypeOK
    <3> SUFFICES ASSUME NEW o \in Notes, writer'[o] # None
                 PROVE  tree'[writer'[o]].at[o] # None
      BY DEF NoteIsKept
    <3>2. CASE o = n  BY <2>2, <3>1, <3>2, NoneAssumption
    <3>3. CASE o # n
      <4>1. writer[o] \in Machines /\ tree[writer[o]].at[o] # None
        BY <3>1, <3>3 DEF NoteInv, NoteIsKept, Types, TypeOK
      <4> QED BY <2>2, <3>1, <3>3, <4>1
    <3> QED BY <3>2, <3>3
  <2> QED BY <2>3, <2>4 DEF NotesHold
<1>5. CASE Settle(m)  BY <1>5, NoteSettle
<1> QED BY <1>1, <1>2, <1>3, <1>4, <1>5 DEF People

THEOREM NotesAreKept == Spec => []NoteIsKept
<1>1. Init => NoteInv
  <2>1. Init => Types  BY InitTypes
  <2>2. Init => TipIsBase  BY DEF Init, TipIsBase
  <2>3. Init => NoteChain  BY DEF Init, NoteChain, Blank
  <2>4. Init => NoteIsKept  BY DEF Init, NoteIsKept
  <2> QED BY <2>1, <2>2, <2>3, <2>4 DEF NoteInv
<1>2. NoteInv /\ [Next]_vars => NoteInv'
  <2> SUFFICES ASSUME NoteInv, [Next]_vars PROVE NoteInv'  OBVIOUS
  <2>1. Types' /\ TipIsBase'  BY TypeStep, TipStep DEF NoteInv
  <2>2. ASSUME NEW m \in Machines, Loop(m) \/ CutShort(m)  PROVE NotesHold'
    BY <2>2, NoteLocal, NoteFetch, NotePush DEF Loop, Pull, Repull
  <2>3. ASSUME NEW m \in Machines, People(m)  PROVE NotesHold'  BY <2>3, NotePeople
  <2>4. ASSUME UNCHANGED vars  PROVE NotesHold'
    <3>1. UNCHANGED <<head, base, shared, writer, tree, marked>>
      BY <2>4 DEF vars, disk, history, past
    <3> QED BY <3>1, NotesUntouched
  <2>5. NotesHold'
    <3>1. CASE Next  BY <2>2, <2>3, <3>1 DEF Next
    <3> QED BY <2>4, <3>1
  <2> QED BY <2>1, <2>5 DEF NotesHold, NoteInv
<1>3. NoteInv => NoteIsKept  BY DEF NoteInv
<1> QED BY <1>1, <1>2, <1>3, PTL DEF Spec

-----------------------------------------------------------------------------
(* Records. *)

\* What somebody removed or answered away stays in the history.
LEMMA GoneGrows ==
  ASSUME [Next]_vars
  PROVE  gone \subseteq gone'
<1>1. ASSUME NEW m \in Machines, Loop(m)  PROVE gone \subseteq gone'
  BY <1>1 DEF Loop, Read, Publish, Commit, PullNothing, Pull, Repull, Fetch, NothingToSend,
              Push, Rejected, ApplyLedger, Adopt, history, past
<1>2. ASSUME NEW m \in Machines, CutShort(m)  PROVE gone \subseteq gone'
  BY <1>2 DEF CutShort, history, past
<1>3. ASSUME NEW m \in Machines, People(m)  PROVE gone \subseteq gone'
  BY <1>3 DEF People, Add, Edit, Locate, Remove, Pin, Merge, WriteNote, Settle, history, past
<1>4. CASE UNCHANGED vars  BY <1>4 DEF vars, history, past
<1> QED BY <1>1, <1>2, <1>3, <1>4 DEF Next

\* A person who keeps both sides of the ledger keeps answers people gave.
LEMMA BothAnswered ==
  ASSUME NEW l \in Seq(Merges), NEW r \in Seq(Merges),
         AnsweredByPeople(l), AnsweredByPeople(r)
  PROVE  AnsweredByPeople(l \o r)
<1> SUFFICES ASSUME NEW i \in DOMAIN (l \o r)  PROVE (l \o r)[i].from \in gone
  BY DEF AnsweredByPeople
<1>1. CASE i <= Len(l)
  <2>1. i \in DOMAIN l /\ (l \o r)[i] = l[i]  BY <1>1
  <2> QED BY <2>1 DEF AnsweredByPeople
<1>2. CASE ~ (i <= Len(l))
  <2>1. (i - Len(l)) \in DOMAIN r /\ (l \o r)[i] = r[i - Len(l)]  BY <1>2
  <2> QED BY <2>1 DEF AnsweredByPeople
<1> QED BY <1>1, <1>2

\* What was answered stays answered.
LEMMA AnsweredStays ==
  ASSUME NEW l, AnsweredByPeople(l), gone \subseteq gone'
  PROVE  \A i \in DOMAIN l : l[i].from \in gone'
BY DEF AnsweredByPeople

\* The ledger as it is read holds answers of people.
LEMMA LedgerAnswered ==
  ASSUME RecordInv, NEW m \in Machines
  PROVE  AnsweredByPeople(Ledger(m))
<1>1. AnsweredByPeople(tree[m].ledger)  BY DEF RecordInv, RecordChain
<1>2. AnsweredByPeople(<<>>)  BY DEF AnsweredByPeople
<1> QED BY <1>1, <1>2 DEF Ledger

\* A step that leaves the commits and the remote alone, takes no record out of
\* a tree that was not removed, and puts no answer nobody gave into a ledger.
LEMMA RecordsUntouched ==
  ASSUME RecordInv, UNCHANGED <<head, base, shared>>, gone \subseteq gone',
         \A m \in Machines, w \in Ids :
           tree[m].rec[w] > 0 /\ tree'[m].rec[w] = 0 => w \in gone',
         \A m \in Machines : \A i \in DOMAIN tree'[m].ledger : tree'[m].ledger[i].from \in gone',
         \A m \in Machines : tree'[m] \in Tree
  PROVE  RecordChain'
<1>0. /\ tree \in [Machines -> Tree] /\ head \in [Machines -> Tree]
      /\ UNCHANGED <<remote, tip>>
  BY DEF RecordInv, Types, TypeOK, shared
<1>1. ASSUME NEW m \in Machines, NEW w \in Ids
      PROVE  /\ base'[m].rec[w] > 0 /\ head'[m].rec[w] = 0 => w \in gone'
             /\ head'[m].rec[w] > 0 /\ tree'[m].rec[w] = 0 => w \in gone'
             /\ base'[m].rec[w] > 0 /\ remote'.rec[w] = 0 => w \in gone'
  <2>1. tree[m].rec[w] \in Nat /\ tree'[m].rec[w] \in Nat  BY <1>0 DEF Tree
  <2> QED BY <1>0, <2>1 DEF RecordInv, RecordChain
<1>2. ASSUME NEW m \in Machines
      PROVE  /\ AnsweredByPeople(tree[m].ledger)'
             /\ AnsweredByPeople(head[m].ledger)' /\ AnsweredByPeople(base[m].ledger)'
  BY AnsweredStays DEF RecordInv, RecordChain, AnsweredByPeople
<1>3. AnsweredByPeople(remote.ledger)'
  BY <1>0 DEF RecordInv, RecordChain, AnsweredByPeople
<1> QED BY <1>1, <1>2, <1>3 DEF RecordChain

LEMMA RecordFetch ==
  ASSUME RecordInv, NEW m \in Machines, NEW from, NEW to, Fetch(m, from, to)
  PROVE  RecordChain'
<1>1. CASE Dirty(m)
  <2>1. UNCHANGED <<tree, head, base, tip, remote, gone>>
    BY <1>1 DEF Fetch, history, past
  <2> QED BY <2>1 DEF RecordInv, RecordChain, AnsweredByPeople
<1>2. CASE ~ Dirty(m)
  <2> DEFINE onto == Rebased(head[m], base[m], remote)
  <2>1. /\ head' = [head EXCEPT ![m] = onto]
        /\ base' = [base EXCEPT ![m] = remote]
        /\ tree'[m].rec = onto.rec /\ tree'[m].ledger = onto.ledger
        /\ \A k \in Machines \ {m} : tree'[k] = tree[k]
        /\ UNCHANGED <<remote, gone>>
    BY <1>2, FetchSteps DEF RecordInv
  <2>2. head[m] \in Tree /\ base[m] \in Tree /\ remote \in Tree /\ onto \in Tree
    BY RebasedType DEF RecordInv, Types, TypeOK
  <2>3. ASSUME NEW w \in Ids, remote.rec[w] > 0, onto.rec[w] = 0  PROVE w \in gone
    <3>1. onto.rec[w] = IF head[m].rec[w] = base[m].rec[w] THEN remote.rec[w]
                        ELSE head[m].rec[w]
      BY RebasedRecord
    <3>2. head[m].rec[w] \in Nat /\ base[m].rec[w] \in Nat  BY <2>2 DEF Tree
    <3>3. head[m].rec[w] = 0 /\ base[m].rec[w] > 0
      <4> HIDE DEF onto
      <4> QED BY <2>3, <3>1, <3>2
    <3> QED BY <3>3 DEF RecordInv, RecordChain
  <2>4. AnsweredByPeople(onto.ledger)
    <3>1. onto.ledger = remote.ledger \/ onto.ledger = head[m].ledger
      BY DEF Rebased, Settled
    <3> HIDE DEF onto
    <3> QED BY <3>1 DEF RecordInv, RecordChain
  <2> HIDE DEF onto
  <2>5. ASSUME NEW k \in Machines, NEW w \in Ids
        PROVE  /\ base'[k].rec[w] > 0 /\ head'[k].rec[w] = 0 => w \in gone'
               /\ head'[k].rec[w] > 0 /\ tree'[k].rec[w] = 0 => w \in gone'
               /\ base'[k].rec[w] > 0 /\ remote'.rec[w] = 0 => w \in gone'
    <3>1. CASE k = m
      <4>1. head'[k] = onto /\ base'[k] = remote /\ tree'[k].rec = onto.rec
        BY <2>1, <3>1 DEF RecordInv, Types, TypeOK
      <4>2. remote.rec[w] \in Nat /\ onto.rec[w] \in Nat  BY <2>2 DEF Tree
      <4> QED BY <2>1, <2>3, <4>1, <4>2
    <3>2. CASE k # m
      BY <2>1, <3>2 DEF RecordInv, RecordChain, Types, TypeOK
    <3> QED BY <3>1, <3>2
  <2>6. ASSUME NEW k \in Machines
        PROVE  /\ AnsweredByPeople(tree[k].ledger)'
               /\ AnsweredByPeople(head[k].ledger)' /\ AnsweredByPeople(base[k].ledger)'
    <3>1. CASE k = m
      <4>1. head'[k] = onto /\ base'[k] = remote /\ tree'[k].ledger = onto.ledger
        BY <2>1, <3>1 DEF RecordInv, Types, TypeOK
      <4> QED BY <2>1, <2>4, <4>1 DEF RecordInv, RecordChain, AnsweredByPeople
    <3>2. CASE k # m
      BY <2>1, <3>2 DEF RecordInv, RecordChain, AnsweredByPeople, Types, TypeOK
    <3> QED BY <3>1, <3>2
  <2>7. AnsweredByPeople(remote.ledger)'
    BY <2>1 DEF RecordInv, RecordChain, AnsweredByPeople
  <2> QED BY <2>5, <2>6, <2>7 DEF RecordChain
<1> QED BY <1>1, <1>2

\* What a push takes out of the remote, for every machine that may have it.
LEMMA PushedOver ==
  ASSUME RecordInv, NEW m \in Machines, Push(m), NEW w \in Ids, head[m].rec[w] = 0,
         remote.rec[w] > 0 \/ \E k \in Machines : base[k].rec[w] > 0
  PROVE  w \in gone
<1>0. remote.rec[w] \in Nat  BY DEF RecordInv, Types, TypeOK, Tree
<1>1. CASE tip = {}
  <2>1. remote.rec[w] = 0 /\ \A k \in Machines : base[k].rec[w] = 0
    BY <1>1 DEF RecordInv, TipIsBase, Blank
  <2> QED BY <2>1
<1>2. CASE tip # {}
  <2>1. base[m] = remote  BY <1>2 DEF Push, Exists, RecordInv, TipIsBase
  <2>2. CASE remote.rec[w] > 0  BY <2>1, <2>2 DEF RecordInv, RecordChain
  <2>3. CASE remote.rec[w] = 0  BY <2>3 DEF RecordInv, RecordChain
  <2> QED BY <1>0, <2>2, <2>3
<1> QED BY <1>1, <1>2

LEMMA RecordPush ==
  ASSUME RecordInv, NEW m \in Machines, Push(m)
  PROVE  RecordChain'
<1>1. /\ remote' = head[m] /\ base' = [base EXCEPT ![m] = head[m]]
      /\ UNCHANGED <<tree, head, gone>>
  BY DEF Push, history, past
<1>2. ASSUME NEW k \in Machines, NEW w \in Ids
      PROVE  /\ base'[k].rec[w] > 0 /\ head'[k].rec[w] = 0 => w \in gone'
             /\ head'[k].rec[w] > 0 /\ tree'[k].rec[w] = 0 => w \in gone'
             /\ base'[k].rec[w] > 0 /\ remote'.rec[w] = 0 => w \in gone'
  <2>1. base'[k] = IF k = m THEN head[m] ELSE base[k]
    BY <1>1 DEF RecordInv, Types, TypeOK
  <2>2. head[m].rec[w] \in Nat  BY DEF RecordInv, Types, TypeOK, Tree
  <2>3. base'[k].rec[w] > 0 /\ remote'.rec[w] = 0 => w \in gone
    BY <1>1, <2>1, <2>2, PushedOver
  <2> QED BY <1>1, <2>1, <2>2, <2>3 DEF RecordInv, RecordChain
<1>3. ASSUME NEW k \in Machines
      PROVE  /\ AnsweredByPeople(tree[k].ledger)'
             /\ AnsweredByPeople(head[k].ledger)' /\ AnsweredByPeople(base[k].ledger)'
  BY <1>1 DEF RecordInv, RecordChain, AnsweredByPeople, Types, TypeOK
<1>4. AnsweredByPeople(remote.ledger)'
  BY <1>1 DEF RecordInv, RecordChain, AnsweredByPeople
<1> QED BY <1>2, <1>3, <1>4 DEF RecordChain

LEMMA RecordSettle ==
  ASSUME RecordInv, NEW m \in Machines, Settle(m)
  PROVE  RecordChain'
<1>0. /\ UNCHANGED <<base, remote, gone>> /\ clock \in Nat
      /\ tree \in [Machines -> Tree] /\ head \in [Machines -> Tree] /\ base \in [Machines -> Tree]
  BY DEF Settle, shared, history, past, RecordInv, Types, TypeOK
<1>1. PICK result : SettledTo(m, result)  BY SettledSides
<1>2. \A k \in Machines : /\ tree'[k] = IF k = m THEN result ELSE tree[k]
                          /\ head'[k] = IF k = m THEN result ELSE head[k]
  BY <1>0, <1>1 DEF SettledTo
<1>3. ASSUME NEW w \in Ids, base[m].rec[w] > 0, result.rec[w] = 0  PROVE w \in gone
  <2>1. tree[m].rec[w] = 0
    <3>1. \/ result.rec[w] = tree[m].rec[w] \/ tree[m].rec[w] = 0
          \/ base[m].rec[w] = 0 \/ result.rec[w] = clock + 1
      BY <1>1 DEF SettledTo
    <3>2. base[m].rec[w] # 0 /\ result.rec[w] # clock + 1  BY <1>0, <1>3
    <3> QED BY <1>3, <3>1, <3>2
  <2>2. head[m].rec[w] \in Nat  BY <1>0 DEF Tree
  <2> QED BY <1>3, <2>1, <2>2 DEF RecordInv, RecordChain
<1>4. AnsweredByPeople(result.ledger)
  <2>1. base[m].ledger \in Seq(Merges) /\ tree[m].ledger \in Seq(Merges)
    BY <1>0 DEF Tree
  <2>2. AnsweredByPeople(base[m].ledger) /\ AnsweredByPeople(tree[m].ledger)
    BY DEF RecordInv, RecordChain
  <2>3. AnsweredByPeople(base[m].ledger \o tree[m].ledger)  BY <2>1, <2>2, BothAnswered
  <2> QED BY <1>1, <2>2, <2>3 DEF SettledTo
<1>5. ASSUME NEW k \in Machines, NEW w \in Ids
      PROVE  /\ base'[k].rec[w] > 0 /\ head'[k].rec[w] = 0 => w \in gone'
             /\ head'[k].rec[w] > 0 /\ tree'[k].rec[w] = 0 => w \in gone'
             /\ base'[k].rec[w] > 0 /\ remote'.rec[w] = 0 => w \in gone'
  <2>1. CASE k = m
    <3>1. head'[k] = result /\ tree'[k] = result  BY <1>2, <2>1
    <3>2. ~ (head'[k].rec[w] > 0 /\ tree'[k].rec[w] = 0)  BY <3>1
    <3> QED BY <1>0, <1>3, <2>1, <3>1, <3>2 DEF RecordInv, RecordChain
  <2>2. CASE k # m
    BY <1>0, <1>2, <2>2 DEF RecordInv, RecordChain
  <2> QED BY <2>1, <2>2
<1>6. ASSUME NEW k \in Machines
      PROVE  /\ AnsweredByPeople(tree[k].ledger)'
             /\ AnsweredByPeople(head[k].ledger)' /\ AnsweredByPeople(base[k].ledger)'
  BY <1>0, <1>2, <1>4 DEF RecordInv, RecordChain, AnsweredByPeople
<1>7. AnsweredByPeople(remote.ledger)'
  BY <1>0 DEF RecordInv, RecordChain, AnsweredByPeople
<1> QED BY <1>5, <1>6, <1>7 DEF RecordChain

\* A record a cycle withdraws from the tree was answered to be another.
LEMMA WithdrawnIsGone ==
  ASSUME RecordInv, NEW m \in Machines, NEW w \in Withdrawn(m)
  PROVE  w \in gone
<1>1. Merged(Ledger(m), w)  BY DEF Withdrawn, Canonical
<1> QED BY <1>1, LedgerAnswered DEF Merged, AnsweredByPeople

LEMMA RecordLocal ==
  ASSUME RecordInv, [Next]_vars, NEW m \in Machines,
         Read(m) \/ Publish(m) \/ Commit(m) \/ PullNothing(m) \/ NothingToSend(m)
           \/ Rejected(m) \/ CutShort(m) \/ ApplyLedger(m) \/ Adopt(m)
  PROVE  RecordChain'
<1>0. /\ tree \in [Machines -> Tree] /\ tree' \in [Machines -> Tree]
      /\ gone \subseteq gone' /\ Types'
  BY TypeStep, GoneGrows DEF RecordInv, Types, TypeOK
<1>1. \A k \in Machines : \A i \in DOMAIN tree[k].ledger : tree[k].ledger[i].from \in gone'
  BY <1>0 DEF RecordInv, RecordChain, AnsweredByPeople
<1>2. CASE Read(m) \/ PullNothing(m) \/ NothingToSend(m) \/ Rejected(m) \/ CutShort(m)
  <2>1. UNCHANGED <<tree, head, base, shared>>
    BY <1>2 DEF Read, PullNothing, NothingToSend, Rejected, CutShort, disk
  <2> QED BY <1>0, <1>1, <2>1, RecordsUntouched
<1>3. CASE Publish(m)
  <2>1. tree' = [tree EXCEPT ![m] = Published(m)] /\ UNCHANGED <<head, base, shared>>
    BY <1>3 DEF Publish
  <2>2. /\ Published(m).ledger = tree[m].ledger
        /\ \A w \in Ids : Published(m).rec[w] = IF snap[m].ver[w] > 0 THEN snap[m].ver[w]
                                                ELSE tree[m].rec[w]
    BY <1>0 DEF Published, Tree
  <2>3. \A k \in Machines, w \in Ids : ~ (tree[k].rec[w] > 0 /\ tree'[k].rec[w] = 0)
    BY <1>0, <2>1, <2>2
  <2>4. \A k \in Machines : tree'[k].ledger = tree[k].ledger  BY <1>0, <2>1, <2>2
  <2> QED BY <1>0, <1>1, <2>1, <2>3, <2>4, RecordsUntouched
<1>4. CASE Commit(m)
  <2>1. CASE m \in stopped
    <3>1. UNCHANGED <<tree, head, base, shared>>  BY <1>4, <2>1 DEF Commit
    <3> QED BY <1>0, <1>1, <3>1, RecordsUntouched
  <2>2. CASE m \notin stopped
    <3>1. /\ head' = [head EXCEPT ![m] = tree[m]]
          /\ UNCHANGED <<tree, base, remote, gone>>
      BY <1>4, <2>2 DEF Commit, shared, history, past
    <3>2. ASSUME NEW w \in Ids, base[m].rec[w] > 0, tree[m].rec[w] = 0  PROVE w \in gone
      <4>1. head[m].rec[w] \in Nat  BY DEF RecordInv, Types, TypeOK, Tree
      <4> QED BY <3>2, <4>1 DEF RecordInv, RecordChain
    <3>3. \A k \in Machines : head'[k] = IF k = m THEN tree[m] ELSE head[k]
      BY <3>1 DEF RecordInv, Types, TypeOK
    <3>4. ASSUME NEW k \in Machines, NEW w \in Ids
          PROVE  /\ base'[k].rec[w] > 0 /\ head'[k].rec[w] = 0 => w \in gone'
                 /\ head'[k].rec[w] > 0 /\ tree'[k].rec[w] = 0 => w \in gone'
                 /\ base'[k].rec[w] > 0 /\ remote'.rec[w] = 0 => w \in gone'
      <4>1. CASE k = m
        <5>1. ~ (head'[k].rec[w] > 0 /\ tree'[k].rec[w] = 0)  BY <3>1, <3>3, <4>1
        <5> QED BY <3>1, <3>2, <3>3, <4>1, <5>1 DEF RecordInv, RecordChain
      <4>2. CASE k # m  BY <3>1, <3>3, <4>2 DEF RecordInv, RecordChain
      <4> QED BY <4>1, <4>2
    <3>5. ASSUME NEW k \in Machines
          PROVE  /\ AnsweredByPeople(tree[k].ledger)'
                 /\ AnsweredByPeople(head[k].ledger)' /\ AnsweredByPeople(base[k].ledger)'
      BY <3>1, <3>3 DEF RecordInv, RecordChain, AnsweredByPeople
    <3>6. AnsweredByPeople(remote.ledger)'
      BY <3>1 DEF RecordInv, RecordChain, AnsweredByPeople
    <3> QED BY <3>4, <3>5, <3>6 DEF RecordChain
  <2> QED BY <2>1, <2>2
<1>5. CASE ApplyLedger(m)
  <2> DEFINE a == Ledger(m)[step[m]]
  <2>1. /\ tree' = [tree EXCEPT ![m].at = Moved(@, a.from, a.into)]
        /\ UNCHANGED <<head, base, shared>>
    BY <1>5 DEF ApplyLedger
  <2> HIDE DEF a
  <2>2. \A k \in Machines : tree'[k].rec = tree[k].rec /\ tree'[k].ledger = tree[k].ledger
    BY <1>0, <2>1 DEF Tree
  <2>3. \A k \in Machines, w \in Ids : ~ (tree[k].rec[w] > 0 /\ tree'[k].rec[w] = 0)
    BY <2>2
  <2> QED BY <1>0, <1>1, <2>1, <2>2, <2>3, RecordsUntouched
<1>6. CASE Adopt(m)
  <2>1. /\ tree' = [tree EXCEPT ![m].rec =
              [w \in Ids |-> IF w \in Withdrawn(m) THEN 0 ELSE @[w]]]
        /\ UNCHANGED <<head, base, shared>>
    BY <1>6 DEF Adopt
  <2>2. \A k \in Machines :
          /\ tree'[k].ledger = tree[k].ledger
          /\ \A w \in Ids : tree'[k].rec[w] = IF k = m /\ w \in Withdrawn(m) THEN 0
                                              ELSE tree[k].rec[w]
    BY <1>0, <2>1 DEF Tree
  <2>3. \A k \in Machines, w \in Ids :
          tree[k].rec[w] > 0 /\ tree'[k].rec[w] = 0 => w \in gone'
    BY <1>0, <2>2, WithdrawnIsGone
  <2> QED BY <1>0, <1>1, <2>1, <2>2, <2>3, RecordsUntouched
<1> QED BY <1>2, <1>3, <1>4, <1>5, <1>6

LEMMA RecordPeople ==
  ASSUME RecordInv, [Next]_vars, NEW m \in Machines, People(m)
  PROVE  RecordChain'
<1>0. /\ tree \in [Machines -> Tree] /\ tree' \in [Machines -> Tree]
      /\ gone \subseteq gone' /\ Types'
  BY TypeStep, GoneGrows DEF RecordInv, Types, TypeOK
<1>1. \A k \in Machines : \A i \in DOMAIN tree[k].ledger : tree[k].ledger[i].from \in gone'
  BY <1>0 DEF RecordInv, RecordChain, AnsweredByPeople
<1>2. ASSUME NEW w \in Ids, Add(m, w) \/ Edit(m, w) \/ Locate(m, w) \/ Pin(m, w)
      PROVE  RecordChain'
  <2>1. UNCHANGED <<tree, head, base, shared>>
    BY <1>2 DEF Add, Edit, Locate, Pin, GitAlone
  <2> QED BY <1>0, <1>1, <2>1, RecordsUntouched
<1>3. ASSUME NEW w \in Ids, Remove(m, w)  PROVE RecordChain'
  <2>1. /\ tree' = [tree EXCEPT ![m].rec[w] = 0] /\ w \in gone'
        /\ UNCHANGED <<head, base, shared>>
    BY <1>3 DEF Remove, GitAlone
  <2>2. \A k \in Machines :
          /\ tree'[k].ledger = tree[k].ledger
          /\ \A v \in Ids \ {w} : tree'[k].rec[v] = tree[k].rec[v]
    BY <1>0, <2>1 DEF Tree
  <2>3. \A k \in Machines, v \in Ids :
          tree[k].rec[v] > 0 /\ tree'[k].rec[v] = 0 => v \in gone'
    BY <2>1, <2>2
  <2> QED BY <1>0, <1>1, <2>1, <2>2, <2>3, RecordsUntouched
<1>4. ASSUME NEW w \in Ids, NEW v \in Ids, Merge(m, w, v)  PROVE RecordChain'
  <2> DEFINE answered == IF Merged(Ledger(m), w) THEN Ledger(m)
                         ELSE Append(Ledger(m), [from |-> w, into |-> v])
  <2>1. /\ tree' = [tree EXCEPT ![m].ledger = answered,
                                ![m].at = Moved(@, w, v), ![m].rec[w] = 0]
        /\ w \in gone' /\ UNCHANGED <<head, base, shared>>
    BY <1>4 DEF Merge, GitAlone
  <2>2. \A i \in DOMAIN answered : answered[i].from \in gone'
    <3>1. \A i \in DOMAIN Ledger(m) : Ledger(m)[i].from \in gone'
      BY <1>0, LedgerAnswered DEF AnsweredByPeople
    <3>2. Ledger(m) \in Seq(Merges)  BY LedgerType DEF RecordInv, Types
    <3>3. ASSUME NEW i \in DOMAIN Append(Ledger(m), [from |-> w, into |-> v])
          PROVE  Append(Ledger(m), [from |-> w, into |-> v])[i].from \in gone'
      BY <2>1, <3>1, <3>2
    <3> QED BY <3>1, <3>3
  <2> HIDE DEF answered
  <2>3. /\ tree'[m].ledger = answered
        /\ \A k \in Machines \ {m} : tree'[k] = tree[k]
        /\ \A u \in Ids \ {w} : tree'[m].rec[u] = tree[m].rec[u]
    BY <1>0, <2>1 DEF Tree
  <2>4. \A k \in Machines, u \in Ids :
          tree[k].rec[u] > 0 /\ tree'[k].rec[u] = 0 => u \in gone'
    <3> SUFFICES ASSUME NEW k \in Machines, NEW u \in Ids,
                        tree[k].rec[u] > 0, tree'[k].rec[u] = 0, u # w
                 PROVE  FALSE
      BY <2>1
    <3>1. tree'[k].rec[u] = tree[k].rec[u]  BY <2>3
    <3> QED BY <3>1
  <2>5. \A k \in Machines : \A i \in DOMAIN tree'[k].ledger : tree'[k].ledger[i].from \in gone'
    BY <1>1, <2>2, <2>3
  <2> QED BY <1>0, <2>1, <2>4, <2>5, RecordsUntouched
<1>5. ASSUME NEW w \in Ids, NEW n \in Notes, WriteNote(m, w, n)  PROVE RecordChain'
  <2>1. tree' = [tree EXCEPT ![m].at[n] = w] /\ UNCHANGED <<head, base, shared>>
    BY <1>5 DEF WriteNote, GitAlone
  <2>2. \A k \in Machines : tree'[k].rec = tree[k].rec /\ tree'[k].ledger = tree[k].ledger
    BY <1>0, <2>1 DEF Tree
  <2>3. \A k \in Machines, v \in Ids : ~ (tree[k].rec[v] > 0 /\ tree'[k].rec[v] = 0)
    BY <2>2
  <2> QED BY <1>0, <1>1, <2>1, <2>2, <2>3, RecordsUntouched
<1>6. CASE Settle(m)  BY <1>6, RecordSettle
<1> QED BY <1>2, <1>3, <1>4, <1>5, <1>6 DEF People

LEMMA RecordInit == Init => RecordInv
<1> SUFFICES ASSUME Init PROVE RecordInv  OBVIOUS
<1>1. Types  BY InitTypes
<1>2. TipIsBase  BY DEF Init, TipIsBase
<1>3. RecordChain
  <2>1. AnsweredByPeople(Blank.ledger) /\ \A w \in Ids : Blank.rec[w] = 0
    BY DEF Blank, AnsweredByPeople
  <2>2. /\ \A m \in Machines : tree[m] = Blank /\ head[m] = Blank /\ base[m] = Blank
        /\ remote = Blank
    BY DEF Init
  <2> QED BY <2>1, <2>2 DEF RecordChain
<1> QED BY <1>1, <1>2, <1>3 DEF RecordInv

LEMMA RecordStep == RecordInv /\ [Next]_vars => RecordInv'
<1> SUFFICES ASSUME RecordInv, [Next]_vars PROVE RecordInv'  OBVIOUS
<1>1. Types' /\ TipIsBase'  BY TypeStep, TipStep DEF RecordInv
<1>2. ASSUME NEW m \in Machines, Loop(m) \/ CutShort(m)  PROVE RecordChain'
  BY <1>2, RecordLocal, RecordFetch, RecordPush DEF Loop, Pull, Repull
<1>3. ASSUME NEW m \in Machines, People(m)  PROVE RecordChain'  BY <1>3, RecordPeople
<1>4. ASSUME UNCHANGED vars  PROVE RecordChain'
  <2>1. UNCHANGED <<tree, head, base, tip, remote, gone>>
    BY <1>4 DEF vars, disk, shared, history, past
  <2> QED BY <2>1 DEF RecordInv, RecordChain, AnsweredByPeople
<1>5. RecordChain'
  <2>1. CASE Next  BY <1>2, <1>3, <2>1 DEF Next
  <2> QED BY <1>4, <2>1
<1> QED BY <1>1, <1>5 DEF RecordInv

THEOREM NothingVanishesEver == Spec => NothingVanishes
<1> DEFINE Kept == \A w \in Ids : remote.rec[w] > 0 /\ remote'.rec[w] = 0 => w \in gone'
<1>1. RecordInv /\ [Next]_vars => [Kept]_vars
  <2> SUFFICES ASSUME RecordInv, [Next]_vars, NEW w \in Ids,
                      remote.rec[w] > 0, remote'.rec[w] = 0
               PROVE  w \in gone'
    OBVIOUS
  <2>1. gone \subseteq gone'  BY GoneGrows
  <2>2. ASSUME NEW m \in Machines, Push(m)  PROVE w \in gone'
    <3>1. head[m].rec[w] = 0  BY <2>2 DEF Push
    <3> QED BY <2>1, <2>2, <3>1, PushedOver
  <2>3. ASSUME NEW m \in Machines, Loop(m), ~ Push(m)  PROVE remote' = remote
    BY <2>3 DEF Loop, Read, Publish, Commit, PullNothing, Pull, Repull, Fetch, NothingToSend,
                Rejected, ApplyLedger, Adopt, shared
  <2>4. ASSUME NEW m \in Machines, CutShort(m) \/ People(m)  PROVE remote' = remote
    BY <2>4 DEF CutShort, People, Add, Edit, Locate, Remove, Pin, Merge, WriteNote, Settle,
                GitAlone, shared
  <2>5. UNCHANGED vars => remote' = remote  BY DEF vars, shared
  <2>6. remote' # remote  OBVIOUS
  <2> QED BY <2>2, <2>3, <2>4, <2>5, <2>6 DEF Next
<1>2. Spec => [][Kept]_vars
  <2> HIDE DEF Kept
  <2> QED BY <1>1, RecordInit, RecordStep, PTL DEF Spec
<1> QED BY <1>2 DEF NothingVanishes

-----------------------------------------------------------------------------
(* Folders.  While a cycle runs the list it read is the list of the machine, *)
(* and what it lists is in the tree unless somebody removed it: so adopting  *)
(* what arrived takes no folder from a record that is still there.           *)

\* The person waits for the cycle, and leaves a stopped rebase alone.
Waiting == \A budget \in Modes : ~ budget.busy

PathOk(m) ==
  /\ store[m].located \subseteq Records(store[m])
  /\ phase[m] # "idle" => snap[m].located = store[m].located /\ snap[m].ver = store[m].ver
  /\ phase[m] \notin {"idle", "read"} =>
       \A w \in Records(snap[m]) : tree[m].rec[w] > 0 \/ w \in gone

Unhurried == left \in Budgets /\ ~ left.busy
PathInv == RecordInv /\ Unhurried /\ \A m \in Machines : PathOk(m)

PathKept(m) ==
  \A w \in store[m].located :
    \/ w \in store'[m].located
    \/ w \in gone' /\ (w \in Records(store'[m]) => Merged(tree[m].ledger, w))

LEMMA SpentOnce ==
  ASSUME left \in Budgets,
         NEW k \in {"add", "edit", "locate", "remove", "merge", "pin", "note", "settle", "stop"},
         left[k] > 0, left' = [left EXCEPT ![k] = @ - 1]
  PROVE  left' \in Budgets /\ left'.busy = left.busy
<1>1. PICK n : n = left[k] - 1  OBVIOUS
<1>2. n \in Nat  BY <1>1 DEF Budgets
<1>3. left' = [left EXCEPT ![k] = n]  BY <1>1
<1> QED BY <1>2, <1>3 DEF Budgets

LEMMA UnhurriedStep ==
  ASSUME Unhurried, [Next]_vars
  PROVE  Unhurried'
<1>1. ASSUME NEW m \in Machines, Loop(m)  PROVE UNCHANGED left
  BY <1>1 DEF Loop, Read, Publish, Commit, PullNothing, Pull, Repull, Fetch, NothingToSend,
              Push, Rejected, ApplyLedger, Adopt
<1>2. ASSUME NEW m \in Machines, CutShort(m)  PROVE Unhurried'
  BY <1>2, SpentOnce DEF CutShort, Unhurried
<1>3. ASSUME NEW m \in Machines, People(m)  PROVE Unhurried'
  <2>1. \E k \in {"add", "edit", "locate", "remove", "merge", "pin", "note", "settle"} : Spend(k)
    BY <1>3 DEF People, Add, Edit, Locate, Remove, Merge, Pin, WriteNote, Settle
  <2> QED BY <2>1, SpentOnce DEF Spend, Unhurried
<1> QED BY <1>1, <1>2, <1>3 DEF Next, vars, Unhurried

\* A step of one machine leaves the others as they are.
LEMMA OthersAlone ==
  ASSUME Types, NEW m \in Machines, Loop(m) \/ CutShort(m) \/ People(m),
         NEW k \in Machines, k # m
  PROVE  store'[k] = store[k] /\ snap'[k] = snap[k] /\ phase'[k] = phase[k] /\ tree'[k] = tree[k]
<1>1. CASE Read(m) \/ Publish(m) \/ Commit(m) \/ PullNothing(m)
  BY <1>1 DEF Read, Publish, Commit, PullNothing, End, Goto, disk, Types, TypeOK
<1>2. CASE Pull(m) \/ Repull(m)
  BY <1>2 DEF Pull, Repull, Fetch, End, Goto, Types, TypeOK
<1>3. CASE NothingToSend(m) \/ Push(m) \/ Rejected(m)
  BY <1>3 DEF NothingToSend, Push, Rejected, Finished, End, Goto, disk, Types, TypeOK
<1>4. CASE ApplyLedger(m) \/ Adopt(m)
  BY <1>4 DEF ApplyLedger, Adopt, End, Types, TypeOK
<1>5. CASE CutShort(m)
  BY <1>5 DEF CutShort, disk, Types, TypeOK
<1>6. CASE People(m)
  <2>1. phase' = phase /\ snap' = snap
    BY <1>6 DEF People, Add, Edit, Locate, Remove, Merge, Pin, WriteNote, Settle, GitAlone, cycle
  <2>2. store'[k] = store[k]
    BY <1>6 DEF People, Add, Edit, Locate, Remove, Merge, Pin, WriteNote, Settle, Saved,
                Types, TypeOK
  <2>3. tree'[k] = tree[k]
    BY ZenonT(40), <1>6 DEF People, Add, Edit, Locate, Remove, Merge, Pin, WriteNote, Settle,
                Types, TypeOK
  <2> QED BY <2>1, <2>2, <2>3
<1> QED BY <1>1, <1>2, <1>3, <1>4, <1>5, <1>6 DEF Loop

LEMMA PathWhereAllStays ==
  ASSUME PathInv, NEW m \in Machines, gone \subseteq gone',
         store'[m].located = store[m].located, store'[m].ver = store[m].ver,
         snap'[m].located = snap[m].located, snap'[m].ver = snap[m].ver,
         tree'[m].rec = tree[m].rec,
         phase'[m] = "idle" \/ phase'[m] = phase[m] \/ phase[m] \notin {"idle", "read"}
  PROVE  PathOk(m)' /\ PathKept(m)
<1>1. Records(store'[m]) = Records(store[m]) /\ Records(snap'[m]) = Records(snap[m])
  BY DEF Records
<1>2. phase'[m] # "idle" => phase[m] # "idle"  OBVIOUS
<1>3. phase'[m] \notin {"idle", "read"} => phase[m] \notin {"idle", "read"}  OBVIOUS
<1> QED BY <1>1, <1>2, <1>3 DEF PathInv, PathOk, PathKept

LEMMA PathCycle ==
  ASSUME PathInv, [Next]_vars, NEW m \in Machines,
         Read(m) \/ Publish(m) \/ Commit(m) \/ PullNothing(m) \/ NothingToSend(m) \/ Push(m)
           \/ Rejected(m) \/ CutShort(m) \/ ApplyLedger(m)
  PROVE  PathOk(m)' /\ PathKept(m)
<1>0. /\ store \in [Machines -> Store] /\ snap \in [Machines -> Store]
      /\ tree \in [Machines -> Tree] /\ phase \in [Machines -> Phases]
      /\ PathOk(m) /\ gone \subseteq gone'
  BY GoneGrows DEF PathInv, RecordInv, Types, TypeOK
<1>1. CASE Read(m)
  <2>1. store' = store /\ snap'[m] = store[m] /\ phase'[m] = "read"
    BY <1>0, <1>1 DEF Read, Goto, disk
  <2> QED BY <1>0, <2>1 DEF PathOk, PathKept
<1>2. CASE Publish(m)
  <2>1. /\ phase[m] = "read" /\ store'[m] = WithRepos(m)
        /\ snap'[m] = [snap[m] EXCEPT !.known = snap[m].located]
        /\ tree'[m] = Published(m) /\ phase'[m] = "published"
    BY <1>0, <1>2 DEF Publish, Goto
  <2>2. snap'[m].located = snap[m].located /\ snap'[m].ver = snap[m].ver
    BY <1>0, <2>1 DEF Store
  <2>3. store'[m].located = store[m].located /\ store'[m].ver = store[m].ver
    <3>1. snap[m].located = store[m].located /\ snap[m].ver = store[m].ver
      BY <1>0, <2>1 DEF PathOk
    <3> QED BY <1>0, <2>1, <3>1 DEF WithRepos, Store
  <2>4. \A w \in Ids : snap[m].ver[w] > 0 => tree'[m].rec[w] > 0
    BY <1>0, <2>1 DEF Published, Tree
  <2>5. Records(store'[m]) = Records(store[m]) /\ Records(snap'[m]) = Records(snap[m])
    BY <2>2, <2>3 DEF Records
  <2> QED BY <1>0, <2>1, <2>2, <2>3, <2>4, <2>5 DEF PathOk, PathKept, Records
<1>3. CASE \/ Commit(m) \/ PullNothing(m) \/ NothingToSend(m) \/ Push(m)
           \/ Rejected(m) \/ CutShort(m)
  <2>1. UNCHANGED <<store, snap, tree>>
    BY <1>3 DEF Commit, PullNothing, NothingToSend, Push, Rejected, CutShort, disk, cycle
  <2>2. phase'[m] = "idle" \/ phase[m] \notin {"idle", "read"}
    BY <1>0, <1>3 DEF Commit, PullNothing, NothingToSend, Push, Rejected, CutShort
  <2> QED BY <1>0, <2>1, <2>2, PathWhereAllStays
<1>4. CASE ApplyLedger(m)
  <2>1. PICK at : tree' = [tree EXCEPT ![m].at = at]
    BY <1>4 DEF ApplyLedger
  <2>2. PICK pin : store' = [store EXCEPT ![m].pin = pin]
    BY <1>4 DEF ApplyLedger
  <2>3. snap' = snap /\ phase' = phase
    BY <1>4 DEF ApplyLedger
  <2>4. /\ store'[m].located = store[m].located /\ store'[m].ver = store[m].ver
        /\ tree'[m].rec = tree[m].rec
    BY <1>0, <2>1, <2>2 DEF Store, Tree
  <2> QED BY <1>0, <2>3, <2>4, PathWhereAllStays
<1> QED BY <1>1, <1>2, <1>3, <1>4

\* A pull takes a record out of the tree when the others have let it go.
LEMMA PathFetch ==
  ASSUME PathInv, NEW m \in Machines, NEW to,
         Fetch(m, "committed", to) \/ Fetch(m, "rejected", to)
  PROVE  PathOk(m)' /\ PathKept(m)
<1>0. /\ store' = store /\ snap' = snap /\ gone' = gone
      /\ phase[m] \notin {"idle", "read"} /\ PathOk(m)
      /\ tree \in [Machines -> Tree] /\ head \in [Machines -> Tree]
      /\ base \in [Machines -> Tree] /\ remote \in Tree
  BY DEF Fetch, history, past, PathInv, RecordInv, Types, TypeOK
<1>1. CASE Dirty(m)
  <2>1. tree' = tree
    BY <1>1 DEF Fetch
  <2> QED BY <1>0, <2>1, PathWhereAllStays
<1>2. CASE ~ Dirty(m)
  <2> DEFINE onto == Rebased(head[m], base[m], remote)
  <2>1. tree'[m].rec = onto.rec
    BY <1>2, FetchSteps DEF PathInv, RecordInv
  <2>2. tree[m].rec = head[m].rec
    <3>1. PICK t : t = [tree[m] EXCEPT !.at = head[m].at]
      OBVIOUS
    <3>2. t.rec = tree[m].rec
      BY <1>0, <3>1 DEF Tree
    <3> QED BY <1>2, <3>1, <3>2 DEF Dirty
  <2>3. ASSUME NEW w \in Ids, tree[m].rec[w] > 0, onto.rec[w] = 0  PROVE w \in gone
    <3>1. onto.rec[w] = IF head[m].rec[w] = base[m].rec[w] THEN remote.rec[w]
                        ELSE head[m].rec[w]
      BY RebasedRecord
    <3> HIDE DEF onto
    <3>2. base[m].rec[w] > 0 /\ remote.rec[w] = 0
      BY <2>2, <2>3, <3>1
    <3> QED BY <3>2 DEF PathInv, RecordInv, RecordChain
  <2>4. onto \in Tree
    BY <1>0, RebasedType
  <2> HIDE DEF onto
  <2>5. \A w \in Ids : tree[m].rec[w] > 0 => tree'[m].rec[w] > 0 \/ w \in gone
    <3>1. \A w \in Ids : onto.rec[w] \in Nat
      BY <2>4 DEF Tree
    <3> QED BY <2>1, <2>3, <3>1
  <2> QED BY <1>0, <2>5 DEF PathOk, PathKept, Records
<1> QED BY <1>1, <1>2

\* Adopting keeps the folders of what arrived, and what did not arrive is gone.
LEMMA PathAdopt ==
  ASSUME PathInv, [Next]_vars, NEW m \in Machines, Adopt(m)
  PROVE  PathOk(m)' /\ PathKept(m)
<1>0. /\ store \in [Machines -> Store] /\ snap \in [Machines -> Store]
      /\ tree \in [Machines -> Tree] /\ phase \in [Machines -> Phases]
      /\ PathOk(m) /\ gone \subseteq gone' /\ phase[m] = "sent"
  BY GoneGrows DEF PathInv, RecordInv, Types, TypeOK, Adopt
<1>1. store'[m] = Adopted(m) /\ phase'[m] = "idle"
  BY <1>0 DEF Adopt, End
<1> DEFINE here == {w \in Arrived(m) : \E v \in snap[m].located : Canonical(Ledger(m), v) = w}
           ver == IF Arrived(m) = {} THEN store[m].ver
                  ELSE [w \in Ids |-> IF w \in Arrived(m) THEN tree[m].rec[w] ELSE 0]
<1>2. store'[m].ver = ver /\ store'[m].located = IF Arrived(m) = {} THEN store[m].located ELSE here
  BY <1>0, <1>1 DEF Adopted, Store
<1>3. store[m].located = snap[m].located /\ Records(store[m]) = Records(snap[m])
  BY <1>0 DEF PathOk, Records
<1>4. CASE Arrived(m) = {}
  <2>1. store'[m].located = store[m].located /\ store'[m].ver = store[m].ver
    BY <1>2, <1>4
  <2> QED BY <1>0, <1>1, <2>1 DEF PathOk, PathKept, Records
<1>5. CASE Arrived(m) # {}
  <2>1. store'[m].located = here
    BY <1>2, <1>5
  <2>2. \A w \in Ids : store'[m].ver[w] = IF w \in Arrived(m) THEN tree[m].rec[w] ELSE 0
    BY <1>2, <1>5
  <2>3. Records(store'[m]) = Arrived(m)
    BY <2>2 DEF Records, Arrived
  <2>4. ASSUME NEW w \in store[m].located  PROVE w \in here \/ (w \in gone /\ w \notin Arrived(m))
    <3>1. w \in Ids /\ w \in snap[m].located /\ (tree[m].rec[w] > 0 \/ w \in gone)
      BY <1>0, <1>3, <2>4 DEF PathOk, Records
    <3>2. CASE w \in Arrived(m)
      BY <3>1, <3>2 DEF Arrived
    <3>3. CASE w \notin Arrived(m)
      <4>1. CASE tree[m].rec[w] > 0
        <5>1. w \in Withdrawn(m)
          BY <3>1, <3>3, <4>1 DEF Arrived, Withdrawn
        <5> QED BY <3>3, <5>1, WithdrawnIsGone DEF PathInv
      <4> QED BY <3>1, <3>3, <4>1
    <3> QED BY <3>2, <3>3
  <2>5. PathKept(m)
    BY <1>0, <2>1, <2>3, <2>4 DEF PathKept
  <2>6. PathOk(m)'
    BY <1>1, <2>1, <2>3 DEF PathOk
  <2> QED BY <2>5, <2>6
<1> QED BY <1>4, <1>5

\* A person who waits finds no cycle running.
LEMMA PathPeople ==
  ASSUME PathInv, [Next]_vars, NEW m \in Machines, People(m)
  PROVE  PathOk(m)' /\ PathKept(m)
<1>0. /\ store \in [Machines -> Store] /\ tree \in [Machines -> Tree]
      /\ PathOk(m) /\ gone \subseteq gone' /\ ~ left.busy
  BY GoneGrows DEF PathInv, Unhurried, RecordInv, Types, TypeOK
<1>1. ASSUME NEW w \in Ids, Pin(m, w)  PROVE PathOk(m)' /\ PathKept(m)
  <2>1. store' = [store EXCEPT ![m].pin = w] /\ UNCHANGED <<tree, phase, snap>>
    BY <1>1 DEF Pin, GitAlone, cycle
  <2>2. store'[m].located = store[m].located /\ store'[m].ver = store[m].ver
    BY <1>0, <2>1 DEF Store
  <2> QED BY <1>0, <2>1, <2>2, PathWhereAllStays
<1>2. ASSUME NEW w \in Ids, NEW n \in Notes, WriteNote(m, w, n)  PROVE PathOk(m)' /\ PathKept(m)
  <2>1. tree' = [tree EXCEPT ![m].at[n] = w] /\ UNCHANGED <<store, phase, snap>>
    BY <1>2 DEF WriteNote, GitAlone, cycle
  <2>2. tree'[m].rec = tree[m].rec
    BY <1>0, <2>1 DEF Tree
  <2> QED BY <1>0, <2>1, <2>2, PathWhereAllStays
<1>3. CASE Settle(m)
  <2>1. phase[m] = "idle" /\ UNCHANGED <<store, phase, snap>>
    BY <1>3 DEF Settle, cycle
  <2> QED BY <1>0, <2>1 DEF PathOk, PathKept
<1>4. ASSUME NEW st \in Store, phase[m] = "idle", phase' = phase, store' = [store EXCEPT ![m] = st],
             st.located \subseteq Records(st),
             \A w \in store[m].located : w \in st.located \/ (w \in gone' /\ w \notin Records(st))
      PROVE  PathOk(m)' /\ PathKept(m)
  BY <1>0, <1>4 DEF PathOk, PathKept
<1>5. ASSUME NEW w \in Ids, Add(m, w) \/ Edit(m, w) \/ Locate(m, w) \/ Remove(m, w)
      PROVE  PathOk(m)' /\ PathKept(m)
  <2>1. phase[m] = "idle" /\ phase' = phase
    BY <1>0, <1>5 DEF Add, Edit, Locate, Remove, Free, GitAlone, cycle
  <2>2. clock \in Nat /\ store[m] \in Store /\ store[m].located \subseteq Records(store[m])
    BY <1>0 DEF PathInv, RecordInv, Types, TypeOK, PathOk
  <2>3. CASE Add(m, w)
    <3>1. PICK st : st = [store[m] EXCEPT !.ver[w] = clock + 1, !.located = @ \cup {w}]
      OBVIOUS
    <3>2. /\ st \in Store /\ st.located = store[m].located \cup {w}
          /\ st.ver[w] = clock + 1 /\ \A v \in Ids \ {w} : st.ver[v] = store[m].ver[v]
      <4>1. PICK ver : ver = [store[m].ver EXCEPT ![w] = clock + 1]
        OBVIOUS
      <4>2. /\ ver \in [Ids -> Nat] /\ ver[w] = clock + 1
            /\ \A v \in Ids \ {w} : ver[v] = store[m].ver[v]
        BY <2>2, <4>1 DEF Store
      <4>3. PICK located : located = store[m].located \cup {w}
        OBVIOUS
      <4>4. st = [store[m] EXCEPT !.ver = ver, !.located = located]
        BY <2>2, <3>1, <4>1, <4>3 DEF Store
      <4>5. located \in SUBSET Ids
        BY <2>2, <4>3 DEF Store
      <4> QED BY <2>2, <4>2, <4>3, <4>4, <4>5 DEF Store
    <3>3. st.located \subseteq Records(st)
      BY <2>2, <3>2 DEF Records, Store
    <3>4. store' = [store EXCEPT ![m] = st]
      BY <2>3, <3>1 DEF Add, Saved
    <3> QED BY <2>1, <3>2, <3>3, <3>4, <1>4
  <2>4. CASE Edit(m, w)
    <3>1. PICK st : st = [store[m] EXCEPT !.ver[w] = clock + 1]
      OBVIOUS
    <3>2. /\ st \in Store /\ st.located = store[m].located
          /\ st.ver[w] = clock + 1 /\ \A v \in Ids \ {w} : st.ver[v] = store[m].ver[v]
      BY <2>2, <3>1 DEF Store
    <3>3. st.located \subseteq Records(st)
      BY <2>2, <3>2 DEF Records, Store
    <3>4. store' = [store EXCEPT ![m] = st]
      BY <2>4, <3>1 DEF Edit, Saved
    <3> QED BY <2>1, <3>2, <3>3, <3>4, <1>4
  <2>5. CASE Locate(m, w)
    <3>1. PICK st : st = [store[m] EXCEPT !.located = @ \cup {w}]
      OBVIOUS
    <3>2. /\ st \in Store /\ st.located = store[m].located \cup {w} /\ st.ver = store[m].ver
      BY <2>2, <3>1 DEF Store
    <3>3. st.located \subseteq Records(st)
      BY <2>2, <2>5, <3>2 DEF Records, Locate
    <3>4. store' = [store EXCEPT ![m] = st]
      BY <2>5, <3>1 DEF Locate, Saved
    <3> QED BY <2>1, <3>2, <3>3, <3>4, <1>4
  <2>6. CASE Remove(m, w)
    <3>1. PICK st : st = [store[m] EXCEPT !.ver[w] = 0, !.located = @ \ {w}, !.known = @ \ {w}]
      OBVIOUS
    <3>2. /\ st \in Store /\ st.located = store[m].located \ {w}
          /\ st.ver[w] = 0 /\ \A v \in Ids \ {w} : st.ver[v] = store[m].ver[v]
      BY <2>2, <3>1 DEF Store
    <3>3. st.located \subseteq Records(st) /\ w \notin Records(st)
      BY <2>2, <3>2 DEF Records, Store
    <3>4. store' = [store EXCEPT ![m] = st] /\ w \in gone'
      BY <2>6, <3>1 DEF Remove, Saved
    <3> QED BY <2>1, <3>2, <3>3, <3>4, <1>4
  <2> QED BY <1>5, <2>3, <2>4, <2>5, <2>6
<1>6. ASSUME NEW from \in Ids, NEW into \in Ids, Merge(m, from, into)
      PROVE  PathOk(m)' /\ PathKept(m)
  <2>1. /\ phase[m] = "idle" /\ phase' = phase /\ from # into /\ from \in gone'
        /\ from \in store[m].located => into \in store[m].located
    BY <1>0, <1>6 DEF Merge, Free, GitAlone, cycle
  <2>2. store[m] \in Store /\ store[m].located \subseteq Records(store[m])
    BY <1>0 DEF PathOk
  <2>3. PICK a : a = [store[m] EXCEPT !.pin = Repointed(@, from, into)]
    OBVIOUS
  <2>4. a \in Store /\ a.ver = store[m].ver /\ a.located = store[m].located
    BY <2>2, <2>3 DEF Store, Repointed
  <2>5. PICK st : st = Folded(a, from, into)
    OBVIOUS
  <2>6. st \in Store
    BY <2>4, <2>5, FoldedType
  <2>7. /\ st.ver[from] = 0
        /\ st.ver[into] = IF a.ver[into] > 0 THEN a.ver[into] ELSE a.ver[from]
        /\ \A v \in Ids \ {from, into} : st.ver[v] = a.ver[v]
        /\ st.located = (a.located \ {from})
                        \cup (IF {from, into} \cap a.located = {} THEN {} ELSE {into})
    BY <2>1, <2>4, <2>5 DEF Folded, Store
  <2>8. st.located = store[m].located \ {from}
    BY <2>1, <2>4, <2>7
  <2>9. st.located \subseteq Records(st) /\ from \notin Records(st)
    BY <2>2, <2>4, <2>7, <2>8 DEF Records, Store
  <2>10. store' = [store EXCEPT ![m] = st]
    BY <1>6, <2>3, <2>5 DEF Merge, Saved
  <2> QED BY <2>1, <2>6, <2>8, <2>9, <2>10, <1>4
<1> QED BY <1>1, <1>2, <1>3, <1>5, <1>6 DEF People

LEMMA PathInit == ASSUME Waiting  PROVE Init => PathInv
<1> SUFFICES ASSUME Init  PROVE PathInv
  OBVIOUS
<1>1. RecordInv
  BY RecordInit
<1>2. Unhurried
  BY ModesAssumption DEF Init, Waiting, Unhurried
<1>3. ASSUME NEW m \in Machines  PROVE PathOk(m)
  <2>1. phase[m] = "idle"
    BY DEF Init
  <2>2. PICK mine : mine = {w \in Ids : left.owner[w] = m}
    OBVIOUS
  <2>3. store[m] = [ver |-> [w \in Ids |-> IF w \in mine THEN 1 ELSE 0],
                    located |-> mine, known |-> {}, pin |-> None]
    BY <2>2 DEF Init
  <2>4. store[m].located \subseteq Records(store[m])
    BY <2>2, <2>3 DEF Records
  <2> QED BY <2>1, <2>4 DEF PathOk
<1> QED BY <1>1, <1>2, <1>3 DEF PathInv

\* The machine that steps keeps its folders, and the others are not touched.
LEMMA PathStep ==
  ASSUME PathInv, [Next]_vars
  PROVE  PathInv' /\ \A m \in Machines : PathKept(m)
<1>1. RecordInv' /\ Unhurried'
  BY RecordStep, UnhurriedStep DEF PathInv
<1>2. ASSUME NEW m \in Machines, Loop(m) \/ CutShort(m) \/ People(m), NEW k \in Machines
      PROVE  PathOk(k)' /\ PathKept(k)
  <2>1. CASE k = m
    <3>1. CASE Pull(m) \/ Repull(m)
      BY <2>1, <3>1, PathFetch DEF Pull, Repull
    <3>2. CASE ~ (Pull(m) \/ Repull(m))
      BY <1>2, <2>1, <3>2, PathCycle, PathAdopt, PathPeople DEF Loop
    <3> QED BY <3>1, <3>2
  <2>2. CASE k # m
    BY <1>2, <2>2, GoneGrows, OthersAlone, PathWhereAllStays DEF PathInv, RecordInv
  <2> QED BY <2>1, <2>2
<1>3. ASSUME UNCHANGED vars, NEW k \in Machines  PROVE PathOk(k)' /\ PathKept(k)
  BY <1>3 DEF vars, disk, shared, cycle, history, past, PathInv, PathOk, PathKept, Records
<1> QED BY <1>1, <1>2, <1>3 DEF PathInv, Next

\* A folder located on a machine stays located whatever the machine pulls,
\* publishes, adopts, or is told, unless somebody removed the record or answered
\* that it is another: "a path resolved here must survive every future pull" (a
\* test of sync_cmd.rs).  The person waits for the cycle: one who locates a folder
\* while a cycle runs is undone by the list it read.
THEOREM PathSurvivesWaiting == ASSUME Waiting  PROVE Spec => PathSurvives
<1>1. PathInv /\ [Next]_vars => PathInv'
  BY PathStep
<1>2. PathInv /\ [Next]_vars =>
        [\A m \in Machines : \A w \in store[m].located :
           \/ w \in store'[m].located
           \/ w \in gone' /\ (w \in Records(store'[m]) => Merged(tree[m].ledger, w))]_vars
  BY PathStep DEF PathKept
<1>3. Init => PathInv
  BY PathInit
<1> QED BY <1>1, <1>2, <1>3, PTL DEF Spec, PathSurvives

-----------------------------------------------------------------------------
(* Versions.  What a machine has, on disk and committed, is never older than *)
(* the commit it was rebased onto: what it pushes then takes nothing back.   *)
(* Its list is older from a pull to the adoption, so nothing may come        *)
(* between the two.                                                          *)

\* Nobody acts in the middle of a cycle, quits, answers or settles; nobody
\* pushes in the moment between another's second pull and second push.
Undisturbed ==
  \A budget \in Modes : /\ ~ budget.busy /\ ~ budget.racing
                        /\ budget.stop = 0 /\ budget.settle = 0 /\ budget.merge = 0

Quiet == /\ left \in Budgets /\ ~ left.busy /\ ~ left.racing
         /\ left.stop = 0 /\ left.settle = 0 /\ left.merge = 0

UpTo(ver, now) == \A w \in Ids : ver[w] <= now
NotBefore(ver, was) == \A w \in Ids : ver[w] > 0 => ver[w] >= was[w]

\* No answer, no note nobody wrote, no version that was not made yet.
Accounted(t, now, by) ==
  /\ t.ledger = <<>> /\ UpTo(t.rec, now)
  /\ \A n \in Notes : by[n] = None => t.at[n] = None

AllAccounted ==
  /\ Accounted(remote, clock, writer)
  /\ \A m \in Machines :
       /\ Accounted(tree[m], clock, writer) /\ Accounted(head[m], clock, writer)
       /\ Accounted(base[m], clock, writer) /\ UpTo(store[m].ver, clock)

\* What the machine has is what it committed, but for notes not yet committed.
Clean(m) ==
  /\ tree[m].rec = head[m].rec /\ tree[m].pin = head[m].pin
  /\ tree[m].ledger = head[m].ledger
  /\ \A n \in Notes : head[m].at[n] # None => tree[m].at[n] = head[m].at[n]

CycleOk(m) ==
  /\ m \notin upstream => \A w \in Ids : base[m].rec[w] = 0
  /\ phase[m] = "repulled" => m \in tip
  /\ phase[m] \notin {"idle", "read", "published"} => Clean(m)
  /\ phase[m] = "sent" => head[m].rec = base[m].rec
  /\ phase[m] \in {"pulled", "rejected"} /\ ~ pulled[m] => m \notin upstream
  /\ m \in stopped => phase[m] \in {"idle", "read", "published"}

VersionsOk(m) ==
  /\ NotBefore(tree[m].rec, base[m].rec) /\ NotBefore(head[m].rec, base[m].rec)
  /\ phase[m] \in {"idle", "read", "published", "committed"} \/ ~ pulled[m] =>
       NotBefore(store[m].ver, base[m].rec)
  /\ \/ phase[m] \in {"published", "committed"}
     \/ phase[m] \in {"pulled", "rejected", "repulled"} /\ ~ pulled[m]
     => \A w \in Records(store[m]) : tree[m].rec[w] = store[m].ver[w]

QuietInv ==
  /\ PathInv /\ Quiet /\ AllAccounted
  /\ tip = {} => upstream = {}
  /\ \A m \in Machines : CycleOk(m) /\ (m \notin stopped => VersionsOk(m))

LEMMA QuietSpent ==
  ASSUME Quiet, NEW k \in {"add", "edit", "locate", "remove", "pin", "note"},
         left[k] > 0, left' = [left EXCEPT ![k] = @ - 1]
  PROVE  Quiet'
<1>1. PICK n : n = left[k] - 1  OBVIOUS
<1>2. n \in Nat  BY <1>1 DEF Quiet, Budgets
<1>3. left' = [left EXCEPT ![k] = n]  BY <1>1
<1> QED BY <1>2, <1>3 DEF Quiet, Budgets

\* What can happen when nobody disturbs a cycle.
LEMMA QuietSteps ==
  ASSUME Types, Quiet, AllAccounted, NEW m \in Machines, Loop(m) \/ CutShort(m) \/ People(m)
  PROVE  \/ Read(m) \/ Publish(m) \/ Commit(m) \/ PullNothing(m) \/ NothingToSend(m)
         \/ Pull(m) \/ Repull(m) \/ Push(m) \/ Rejected(m) \/ Adopt(m)
         \/ \E w \in Ids : Add(m, w) \/ Edit(m, w) \/ Locate(m, w) \/ Remove(m, w) \/ Pin(m, w)
         \/ \E w \in Ids, n \in Notes : WriteNote(m, w, n)
<1>1. ~ CutShort(m)  BY DEF CutShort, Quiet
<1>2. \A from, into \in Ids : ~ Merge(m, from, into)  BY DEF Merge, Spend, Quiet
<1>3. ~ Settle(m)
  <2>1. Settle(m) => Spend("settle")  BY DEF Settle
  <2> QED BY <2>1 DEF Spend, Quiet
<1>4. ~ ApplyLedger(m)
  <2>1. Ledger(m) = <<>>  BY DEF Ledger, AllAccounted, Accounted
  <2>2. step[m] \in Nat /\ step[m] # 0  BY DEF Types
  <2>3. Len(<<>>) = 0  OBVIOUS
  <2> QED BY <2>1, <2>2, <2>3 DEF ApplyLedger
<1> QED BY <1>1, <1>2, <1>3, <1>4 DEF Loop, People

LEMMA QuietStays ==
  ASSUME Types, Quiet, AllAccounted, [Next]_vars
  PROVE  Quiet'
<1>1. ASSUME NEW m \in Machines, Loop(m)  PROVE UNCHANGED left
  BY <1>1 DEF Loop, Read, Publish, Commit, PullNothing, Pull, Repull, Fetch, NothingToSend,
              Push, Rejected, ApplyLedger, Adopt
<1>2. ASSUME NEW m \in Machines, CutShort(m) \/ People(m)  PROVE Quiet'
  <2>1. \/ \E w \in Ids : Add(m, w) \/ Edit(m, w) \/ Locate(m, w) \/ Remove(m, w) \/ Pin(m, w)
        \/ \E w \in Ids, n \in Notes : WriteNote(m, w, n)
        \/ Loop(m)
    BY <1>2, QuietSteps DEF Loop
  <2>2. Loop(m) \/ \E k \in {"add", "edit", "locate", "remove", "pin", "note"} : Spend(k)
    BY <2>1 DEF Add, Edit, Locate, Remove, Pin, WriteNote
  <2> QED BY <1>1, <2>2, QuietSpent DEF Spend, Quiet
<1> QED BY <1>1, <1>2 DEF Next, vars, Quiet

\* Time goes on and notes are written: what was accounted for stays so.
LEMMA AccountedLater ==
  ASSUME NEW t \in Tree, NEW now \in Nat, NEW later \in Nat, now <= later,
         NEW by, NEW after, \A n \in Notes : after[n] = None => by[n] = None,
         Accounted(t, now, by)
  PROVE  Accounted(t, later, after)
BY DEF Accounted, UpTo, Tree

LEMMA RebasedAccounted ==
  ASSUME NEW o \in Tree, NEW b \in Tree, NEW t \in Tree, NEW now \in Nat, NEW by,
         Accounted(o, now, by), Accounted(b, now, by), Accounted(t, now, by)
  PROVE  Accounted(Rebased(o, b, t), now, by)
<1> DEFINE r == Rebased(o, b, t)
<1>1. r.ledger = <<>>
  BY DEF Rebased, Settled, Accounted
<1>2. \A w \in Ids : r.rec[w] = o.rec[w] \/ r.rec[w] = t.rec[w]
  BY DEF Rebased, Settled
<1>3. \A n \in Notes : r.at[n] = o.at[n] \/ r.at[n] = t.at[n]
  BY DEF Rebased, Settled
<1> HIDE DEF r
<1>4. UpTo(r.rec, now)
  BY <1>2 DEF Accounted, UpTo
<1>5. \A n \in Notes : by[n] = None => r.at[n] = None
  BY <1>3 DEF Accounted
<1>6. Accounted(r, now, by)
  BY <1>1, <1>4, <1>5 DEF Accounted
<1> QED BY <1>6 DEF r

\* The writer of a note does not change, and the clock does not go back.
LEMMA HistoryGrows ==
  ASSUME Types, [Next]_vars
  PROVE  clock <= clock' /\ \A n \in Notes : writer'[n] = None => writer[n] = None
<1>0. clock \in Nat  BY DEF Types, TypeOK
<1>1. ASSUME NEW m \in Machines, Loop(m) \/ CutShort(m)  PROVE UNCHANGED <<clock, writer>>
  BY <1>1 DEF Loop, Read, Publish, Commit, PullNothing, Pull, Repull, Fetch, NothingToSend,
              Push, Rejected, ApplyLedger, Adopt, CutShort, history, past
<1>2. ASSUME NEW m \in Machines, NEW w \in Ids, NEW n \in Notes, WriteNote(m, w, n)
      PROVE  clock' = clock /\ \A i \in Notes : writer'[i] = None => writer[i] = None
  BY <1>2, NoneAssumption DEF WriteNote, Types, TypeOK
<1>3. ASSUME NEW m \in Machines, People(m)
      PROVE  clock <= clock' /\ \A n \in Notes : writer'[n] = None => writer[n] = None
  <2>1. \/ clock' \in {clock, clock + 1} /\ writer' = writer
        \/ \E w \in Ids, n \in Notes : WriteNote(m, w, n)
    BY <1>3 DEF People, Add, Edit, Locate, Remove, Pin, Merge, Settle, history, past
  <2> QED BY <1>0, <1>2, <2>1
<1>4. CASE UNCHANGED vars  BY <1>0, <1>4 DEF vars, history, past
<1> QED BY <1>0, <1>1, <1>3, <1>4 DEF Next

LEMMA OthersAsWell ==
  ASSUME Types, NEW m \in Machines, Loop(m) \/ CutShort(m) \/ People(m),
         NEW k \in Machines, k # m
  PROVE  /\ head'[k] = head[k] /\ base'[k] = base[k] /\ pulled'[k] = pulled[k]
         /\ k \in upstream' <=> k \in upstream
         /\ k \in stopped' <=> k \in stopped
         /\ ~ Push(m) => (k \in tip => k \in tip')
<1>1. CASE Read(m) \/ Publish(m) \/ Commit(m) \/ PullNothing(m)
  BY <1>1 DEF Read, Publish, Commit, PullNothing, disk, shared, Types, TypeOK
<1>2. CASE Pull(m) \/ Repull(m)
  <2>1. PICK from, to : Fetch(m, from, to)
    BY <1>2 DEF Pull, Repull
  <2>2. CASE Dirty(m)
    BY <2>1, <2>2 DEF Fetch
  <2>3. CASE ~ Dirty(m)
    <3>1. /\ \E t : head' = [head EXCEPT ![m] = t]
          /\ base' = [base EXCEPT ![m] = remote]
          /\ upstream' = upstream \cup {m} /\ tip' = tip \cup {m}
      BY <2>1, <2>3 DEF Fetch
    <3>2. /\ pulled' = pulled \/ \E v : pulled' = [pulled EXCEPT ![m] = v]
          /\ stopped' = stopped \/ stopped' = stopped \cup {m}
      BY <2>1, <2>3 DEF Fetch
    <3> QED BY <3>1, <3>2 DEF Types, TypeOK
  <2> QED BY <2>2, <2>3
<1>3. CASE NothingToSend(m) \/ Push(m) \/ Rejected(m)
  BY <1>3 DEF NothingToSend, Push, Rejected, disk, shared, Types, TypeOK
<1>4. CASE ApplyLedger(m) \/ Adopt(m)
  BY <1>4 DEF ApplyLedger, Adopt, shared
<1>5. CASE CutShort(m)
  BY <1>5 DEF CutShort, disk, shared
<1>6. CASE People(m)
  <2>1. CASE Settle(m)
    <3>1. PICK result : SettledTo(m, result)
      BY <2>1, SettledSides
    <3>2. head' = [head EXCEPT ![m] = result] /\ stopped' = stopped \ {m}
          /\ UNCHANGED <<base, upstream, shared, cycle>>
      BY <2>1, <3>1 DEF Settle, SettledTo
    <3> QED BY <3>2 DEF shared, cycle, Types, TypeOK
  <2>2. CASE ~ Settle(m)
    <3>1. GitAlone
      BY <1>6, <2>2 DEF People, Add, Edit, Locate, Remove, Merge, Pin, WriteNote
    <3> QED BY <3>1 DEF GitAlone, shared, cycle
  <2> QED BY <2>1, <2>2
<1> QED BY <1>1, <1>2, <1>3, <1>4, <1>5, <1>6 DEF Loop

\* Adopting with no answer in the ledger adopts all that is there.
LEMMA AdoptedAll ==
  ASSUME Types, AllAccounted, NEW m \in Machines
  PROVE  LET all == {w \in Ids : tree[m].rec[w] > 0} IN
         /\ Arrived(m) = all /\ Withdrawn(m) = {}
         /\ Adopted(m).ver = IF all = {} THEN store[m].ver ELSE tree[m].rec
<1>0. tree[m] \in Tree /\ store[m] \in Store  BY DEF Types, TypeOK
<1>1. Ledger(m) = <<>>  BY DEF Ledger, AllAccounted, Accounted
<1>2. \A w : ~ Merged(<<>>, w)  BY DEF Merged
<1>3. \A w : Canonical(<<>>, w) = w  BY <1>2 DEF Canonical
<1> DEFINE all == {w \in Ids : tree[m].rec[w] > 0}
<1>4. Arrived(m) = all /\ Withdrawn(m) = {}
  BY <1>1, <1>3 DEF Arrived, Withdrawn
<1>5. Adopted(m).ver = IF all = {} THEN store[m].ver
                       ELSE [w \in Ids |-> IF w \in all THEN tree[m].rec[w] ELSE 0]
  <2> HIDE DEF all
  <2> QED BY <1>0, <1>4 DEF Adopted, Store
<1>6. [w \in Ids |-> IF w \in all THEN tree[m].rec[w] ELSE 0] = tree[m].rec
  BY <1>0 DEF Tree
<1> QED BY <1>4, <1>5, <1>6

AccountedAt(m) ==
  /\ Accounted(tree[m], clock, writer) /\ Accounted(head[m], clock, writer)
  /\ Accounted(base[m], clock, writer) /\ UpTo(store[m].ver, clock)

LEMMA AccountedLocal ==
  ASSUME PathInv, Quiet, AllAccounted, Types', NEW m \in Machines,
         UNCHANGED <<clock, writer>>,
         Read(m) \/ Publish(m) \/ Commit(m) \/ PullNothing(m) \/ NothingToSend(m)
           \/ Push(m) \/ Rejected(m) \/ Adopt(m)
  PROVE  AccountedAt(m)' /\ Accounted(remote, clock, writer)'
<1>0. /\ Types /\ AccountedAt(m) /\ Accounted(remote, clock, writer)
      /\ tree \in [Machines -> Tree] /\ head \in [Machines -> Tree]
      /\ base \in [Machines -> Tree] /\ store \in [Machines -> Store]
      /\ snap \in [Machines -> Store] /\ clock \in Nat
  BY DEF PathInv, RecordInv, Types, TypeOK, AllAccounted, AccountedAt
<1>1. CASE Publish(m)
  <2>1. snap[m].ver = store[m].ver
    BY <1>1 DEF Publish, PathInv, PathOk
  <2>2. /\ tree'[m] = Published(m) /\ store'[m] = WithRepos(m)
        /\ UNCHANGED <<head, base, remote>>
    BY <1>0, <1>1 DEF Publish, shared
  <2>3. store'[m].ver = store[m].ver
    BY <1>0, <2>1, <2>2 DEF WithRepos, Store
  <2>4. /\ tree'[m].ledger = tree[m].ledger /\ tree'[m].at = tree[m].at
        /\ tree'[m].rec = [w \in Ids |-> IF snap[m].ver[w] > 0 THEN snap[m].ver[w]
                                         ELSE tree[m].rec[w]]
    BY <1>0, <2>2 DEF Published, Tree
  <2>5. UpTo(tree'[m].rec, clock)
    BY <1>0, <2>1, <2>4 DEF AccountedAt, Accounted, UpTo
  <2> QED BY <1>0, <2>2, <2>3, <2>4, <2>5 DEF AccountedAt, Accounted
<1>2. CASE Commit(m)
  <2>1. /\ \A k \in Machines : head'[k] = head[k] \/ head'[k] = tree[k]
        /\ UNCHANGED <<store, tree, base, remote>>
    BY <1>0, <1>2 DEF Commit, shared
  <2> QED BY <1>0, <2>1 DEF AccountedAt
<1>3. CASE Push(m)
  <2>1. /\ remote' = head[m] /\ base'[m] = head[m] /\ UNCHANGED <<store, tree, head>>
    BY <1>0, <1>3 DEF Push
  <2> QED BY <1>0, <2>1 DEF AccountedAt
<1>4. CASE Adopt(m)
  <2>1. /\ store'[m] = Adopted(m) /\ UNCHANGED <<head, base, remote>>
        /\ tree' = [tree EXCEPT ![m].rec = [w \in Ids |-> IF w \in Withdrawn(m) THEN 0 ELSE @[w]]]
    BY <1>0, <1>4 DEF Adopt, shared
  <2>2. tree'[m].ledger = tree[m].ledger /\ tree'[m].at = tree[m].at /\ tree'[m].rec = tree[m].rec
    <3>1. Withdrawn(m) = {}
      BY <1>0, AdoptedAll
    <3>2. [w \in Ids |-> IF w \in Withdrawn(m) THEN 0 ELSE tree[m].rec[w]] = tree[m].rec
      BY <1>0, <3>1 DEF Tree
    <3> QED BY <1>0, <2>1, <3>2 DEF Tree
  <2>3. store'[m].ver = store[m].ver \/ store'[m].ver = tree[m].rec
    BY <1>0, <2>1, AdoptedAll
  <2> QED BY <1>0, <2>1, <2>2, <2>3 DEF AccountedAt, Accounted
<1>5. CASE Read(m) \/ PullNothing(m) \/ NothingToSend(m) \/ Rejected(m)
  <2>1. UNCHANGED <<store, tree, head, base, remote>>
    BY <1>5 DEF Read, PullNothing, NothingToSend, Rejected, disk, shared
  <2> QED BY <1>0, <2>1 DEF AccountedAt
<1> QED BY <1>1, <1>2, <1>3, <1>4, <1>5

LEMMA AccountedFetch ==
  ASSUME PathInv, Quiet, AllAccounted, NEW m \in Machines, NEW from, NEW to, Fetch(m, from, to),
         UNCHANGED <<clock, writer>>
  PROVE  AccountedAt(m)' /\ Accounted(remote, clock, writer)'
<1>0. /\ Types /\ AccountedAt(m) /\ Accounted(remote, clock, writer)
      /\ tree \in [Machines -> Tree] /\ head \in [Machines -> Tree]
      /\ base \in [Machines -> Tree] /\ remote \in Tree /\ clock \in Nat
      /\ UNCHANGED <<store, remote>>
  BY DEF PathInv, RecordInv, Types, TypeOK, AllAccounted, AccountedAt, Fetch
<1>1. CASE Dirty(m)
  <2>1. UNCHANGED <<tree, head, base>>
    BY <1>1 DEF Fetch
  <2> QED BY <1>0, <2>1 DEF AccountedAt
<1>2. CASE ~ Dirty(m)
  <2> DEFINE onto == Rebased(head[m], base[m], remote)
  <2>1. /\ head' = [head EXCEPT ![m] = onto] /\ base' = [base EXCEPT ![m] = remote]
        /\ tree'[m].rec = onto.rec /\ tree'[m].ledger = onto.ledger
        /\ \A n \in Notes : tree'[m].at[n] = IF n \in Untracked(m) /\ onto.at[n] = None
                                             THEN tree[m].at[n] ELSE onto.at[n]
    BY <1>0, <1>2, FetchSteps
  <2>2. Accounted(onto, clock, writer)
    BY <1>0, RebasedAccounted DEF AccountedAt
  <2> HIDE DEF onto
  <2>3. head'[m] = onto /\ base'[m] = remote
    BY <1>0, <2>1
  <2>4. Accounted(tree'[m], clock, writer)
    BY <1>0, <2>1, <2>2 DEF AccountedAt, Accounted
  <2> QED BY <1>0, <2>2, <2>3, <2>4 DEF AccountedAt
<1> QED BY <1>1, <1>2

LEMMA AccountedPeople ==
  ASSUME PathInv, Quiet, AllAccounted, [Next]_vars, NEW m \in Machines,
         \/ \E w \in Ids : Add(m, w) \/ Edit(m, w) \/ Locate(m, w) \/ Remove(m, w) \/ Pin(m, w)
         \/ \E w \in Ids, n \in Notes : WriteNote(m, w, n)
  PROVE  AccountedAt(m)' /\ Accounted(remote, clock, writer)'
<1>0. /\ Types /\ AccountedAt(m) /\ Accounted(remote, clock, writer)
      /\ tree \in [Machines -> Tree] /\ head \in [Machines -> Tree]
      /\ base \in [Machines -> Tree] /\ store \in [Machines -> Store]
      /\ remote \in Tree /\ clock \in Nat /\ clock' \in Nat /\ writer \in [Notes -> Machines \cup {None}]
  BY TypeStep DEF PathInv, RecordInv, Types, TypeOK, AllAccounted, AccountedAt
<1>1. UNCHANGED <<head, base, remote>>
  BY DEF Add, Edit, Locate, Remove, Pin, WriteNote, GitAlone, shared
<1>2. ASSUME NEW t \in Tree, Accounted(t, clock, writer)  PROVE Accounted(t, clock', writer')
  BY <1>0, <1>2, HistoryGrows, AccountedLater
<1>3. Accounted(head[m], clock', writer') /\ Accounted(base[m], clock', writer')
      /\ Accounted(remote, clock', writer') /\ Accounted(tree[m], clock', writer')
  BY <1>0, <1>2 DEF AccountedAt
<1>4. SUFFICES Accounted(tree'[m], clock', writer') /\ UpTo(store'[m].ver, clock')
  BY <1>1, <1>3 DEF AccountedAt
<1>5. ASSUME NEW w \in Ids, Add(m, w) \/ Edit(m, w)
      PROVE  Accounted(tree'[m], clock', writer') /\ UpTo(store'[m].ver, clock')
  <2>1. tree' = tree /\ clock' = clock + 1
    BY <1>5 DEF Add, Edit
  <2>2. \E l : store'[m] = [store[m] EXCEPT !.ver[w] = clock + 1, !.located = l]
    <3>1. CASE Add(m, w)
      BY <1>0, <3>1 DEF Add, Saved
    <3>2. CASE Edit(m, w)
      <4>1. store'[m] = [store[m] EXCEPT !.ver[w] = clock + 1]
        BY <1>0, <3>2 DEF Edit, Saved
      <4>2. PICK ver : ver = [store[m].ver EXCEPT ![w] = clock + 1]
        OBVIOUS
      <4>3. store'[m] = [store[m] EXCEPT !.ver = ver, !.located = store[m].located]
        BY <1>0, <4>1, <4>2 DEF Store
      <4> QED BY <4>2, <4>3
    <3> QED BY <1>5, <3>1, <3>2
  <2>3. PICK ver : ver = [store[m].ver EXCEPT ![w] = clock + 1]
    OBVIOUS
  <2>4. \E l : store'[m] = [store[m] EXCEPT !.ver = ver, !.located = l]
    BY <1>0, <2>2, <2>3 DEF Store
  <2>5. store'[m].ver = ver
    BY <1>0, <2>4 DEF Store
  <2>6. store[m].ver \in [Ids -> Nat] /\ \A v \in Ids : store[m].ver[v] <= clock
    BY <1>0 DEF AccountedAt, UpTo, Store
  <2>7. UpTo(ver, clock + 1)
    BY <1>0, <2>3, <2>6 DEF UpTo
  <2> QED BY <1>3, <2>1, <2>5, <2>7
<1>6. ASSUME NEW w \in Ids, Locate(m, w) \/ Pin(m, w)
      PROVE  Accounted(tree'[m], clock', writer') /\ UpTo(store'[m].ver, clock')
  <2>1. tree' = tree /\ clock' = clock
    BY <1>6 DEF Locate, Pin
  <2>2. store'[m].ver = store[m].ver
    BY <1>0, <1>6 DEF Locate, Pin, Saved, Store
  <2> QED BY <1>0, <1>3, <2>1, <2>2 DEF AccountedAt
<1>7. ASSUME NEW w \in Ids, Remove(m, w)
      PROVE  Accounted(tree'[m], clock', writer') /\ UpTo(store'[m].ver, clock')
  <2>1. /\ clock' = clock /\ writer' = writer
        /\ tree' = [tree EXCEPT ![m].rec[w] = 0]
        /\ store'[m] = [store[m] EXCEPT !.ver[w] = 0, !.located = @ \ {w}, !.known = @ \ {w}]
    BY <1>0, <1>7 DEF Remove, Saved
  <2>2. PICK rec : rec = [tree[m].rec EXCEPT ![w] = 0]
    OBVIOUS
  <2>3. tree'[m] = [tree[m] EXCEPT !.rec = rec]
    BY <1>0, <2>1, <2>2 DEF Tree
  <2>4. PICK ver : ver = [store[m].ver EXCEPT ![w] = 0]
    OBVIOUS
  <2>5. store'[m].ver = ver
    BY <1>0, <2>1, <2>4 DEF Store
  <2>6. UpTo(rec, clock) /\ UpTo(ver, clock)
    <3>1. /\ tree[m].rec \in [Ids -> Nat] /\ \A v \in Ids : tree[m].rec[v] <= clock
          /\ store[m].ver \in [Ids -> Nat] /\ \A v \in Ids : store[m].ver[v] <= clock
      BY <1>0 DEF AccountedAt, Accounted, UpTo, Tree, Store
    <3>2. \A v \in Ids : rec[v] <= clock
      BY <1>0, <2>2, <3>1
    <3>3. \A v \in Ids : ver[v] <= clock
      BY <1>0, <2>4, <3>1
    <3> QED BY <3>2, <3>3 DEF UpTo
  <2>7. tree'[m].rec = rec /\ tree'[m].at = tree[m].at /\ tree'[m].ledger = tree[m].ledger
    BY <1>0, <2>3 DEF Tree
  <2> QED BY <1>3, <2>1, <2>5, <2>6, <2>7 DEF Accounted
<1>8. ASSUME NEW w \in Ids, NEW n \in Notes, WriteNote(m, w, n)
      PROVE  Accounted(tree'[m], clock', writer') /\ UpTo(store'[m].ver, clock')
  <2>1. /\ clock' = clock /\ store' = store /\ writer' = [writer EXCEPT ![n] = m]
        /\ tree' = [tree EXCEPT ![m].at[n] = w]
    BY <1>8 DEF WriteNote
  <2>2. PICK at : at = [tree[m].at EXCEPT ![n] = w]
    OBVIOUS
  <2>3. tree'[m] = [tree[m] EXCEPT !.at = at]
    BY <1>0, <2>1, <2>2 DEF Tree
  <2>4. tree'[m].rec = tree[m].rec /\ tree'[m].at = at /\ tree'[m].ledger = tree[m].ledger
    BY <1>0, <2>3 DEF Tree
  <2>5. \A i \in Notes : writer'[i] = None => at[i] = None
    BY <1>0, <2>1, <2>2, NoneAssumption DEF AccountedAt, Accounted, Tree
  <2> QED BY <1>0, <2>1, <2>4, <2>5 DEF AccountedAt, Accounted
<1> QED BY <1>5, <1>6, <1>7, <1>8

LEMMA AccountedStep ==
  ASSUME PathInv, Quiet, AllAccounted, [Next]_vars
  PROVE  AllAccounted'
<1>0. /\ Types /\ Types' /\ clock \in Nat /\ clock' \in Nat
      /\ tree \in [Machines -> Tree] /\ head \in [Machines -> Tree]
      /\ base \in [Machines -> Tree] /\ store \in [Machines -> Store]
  BY TypeStep DEF PathInv, RecordInv, Types, TypeOK
<1>1. ASSUME NEW m \in Machines, Loop(m) \/ CutShort(m) \/ People(m)
      PROVE  AccountedAt(m)' /\ Accounted(remote, clock, writer)'
  <2>1. CASE Loop(m)
    <3>1. UNCHANGED <<clock, writer>>
      BY <2>1 DEF Loop, Read, Publish, Commit, PullNothing, Pull, Repull, Fetch, NothingToSend,
                  Push, Rejected, ApplyLedger, Adopt, history, past
    <3>2. CASE Pull(m) \/ Repull(m)
      BY <3>1, <3>2, AccountedFetch DEF Pull, Repull
    <3>3. CASE ~ (Pull(m) \/ Repull(m))
      <4>1. ~ ApplyLedger(m)
        <5>1. Ledger(m) = <<>>  BY DEF Ledger, AllAccounted, Accounted
        <5>2. step[m] \in Nat /\ step[m] # 0  BY <1>0 DEF Types
        <5>3. Len(<<>>) = 0  OBVIOUS
        <5> QED BY <5>1, <5>2, <5>3 DEF ApplyLedger
      <4> QED BY <1>0, <2>1, <3>1, <3>3, <4>1, AccountedLocal DEF Loop
    <3> QED BY <3>2, <3>3
  <2>2. CASE ~ Loop(m)
    <3>1. \/ \E w \in Ids : Add(m, w) \/ Edit(m, w) \/ Locate(m, w) \/ Remove(m, w) \/ Pin(m, w)
          \/ \E w \in Ids, n \in Notes : WriteNote(m, w, n)
      BY <1>0, <1>1, <2>2, QuietSteps DEF Loop
    <3> QED BY <3>1, AccountedPeople
  <2> QED BY <2>1, <2>2
<1>2. ASSUME NEW m \in Machines, Loop(m) \/ CutShort(m) \/ People(m), NEW k \in Machines
      PROVE  AccountedAt(k)'
  <2>1. CASE k = m
    BY <1>1, <1>2, <2>1
  <2>2. CASE k # m
    <3>1. tree'[k] = tree[k] /\ head'[k] = head[k] /\ base'[k] = base[k] /\ store'[k] = store[k]
      BY <1>0, <1>2, <2>2, OthersAlone, OthersAsWell
    <3>2. ASSUME NEW t \in Tree, Accounted(t, clock, writer)  PROVE Accounted(t, clock', writer')
      BY <1>0, <3>2, HistoryGrows, AccountedLater
    <3>3. UpTo(store[k].ver, clock')
      <4>1. store[k].ver \in [Ids -> Nat] /\ clock <= clock'
        BY <1>0, HistoryGrows DEF Store
      <4> QED BY <1>0, <4>1 DEF AllAccounted, UpTo
    <3> QED BY <1>0, <3>1, <3>2, <3>3 DEF AllAccounted, AccountedAt
  <2> QED BY <2>1, <2>2
<1>3. CASE UNCHANGED vars
  BY <1>3 DEF vars, disk, shared, history, past, AllAccounted
<1>4. CASE Next
  <2>1. PICK m \in Machines : Loop(m) \/ CutShort(m) \/ People(m)
    BY <1>4 DEF Next
  <2> QED BY <1>1, <1>2, <2>1 DEF AllAccounted, AccountedAt
<1> QED BY <1>3, <1>4

-----------------------------------------------------------------------------
(* The versions along one machine's chain, step by step. *)

Cycle(m) == CycleOk(m) /\ (m \notin stopped => VersionsOk(m))

\* Nothing the chain is made of changes, and the cycle does not go on.
LEMMA VersionsUntouched ==
  ASSUME NEW m \in Machines, Cycle(m),
         tree'[m].rec = tree[m].rec, tree'[m].pin = tree[m].pin,
         tree'[m].ledger = tree[m].ledger,
         \A n \in Notes : head[m].at[n] # None => tree'[m].at[n] = tree[m].at[n],
         head'[m] = head[m], base'[m] = base[m], store'[m].ver = store[m].ver,
         phase'[m] = phase[m], pulled'[m] = pulled[m],
         m \in upstream' <=> m \in upstream, m \in stopped' <=> m \in stopped,
         phase[m] = "repulled" => (m \in tip => m \in tip')
  PROVE  Cycle(m)'
<1>1. Clean(m) => Clean(m)'
  BY DEF Clean
<1>2. Records(store'[m]) = Records(store[m])
  BY DEF Records
<1>3. CycleOk(m)'
  BY <1>1 DEF Cycle, CycleOk
<1>4. m \notin stopped => VersionsOk(m)'
  BY <1>2 DEF Cycle, VersionsOk
<1> QED BY <1>3, <1>4 DEF Cycle

\* What a publish puts in the tree is what the machine has.
LEMMA VersionsPublish ==
  ASSUME QuietInv, NEW m \in Machines, Publish(m)
  PROVE  Cycle(m)'
<1>0. /\ store \in [Machines -> Store] /\ snap \in [Machines -> Store]
      /\ tree \in [Machines -> Tree] /\ base \in [Machines -> Tree]
      /\ phase \in [Machines -> Phases] /\ Cycle(m)
      /\ snap[m].ver = store[m].ver
  BY DEF QuietInv, PathInv, RecordInv, Types, TypeOK, PathOk, Publish, Cycle
<1>1. /\ phase[m] = "read" /\ phase'[m] = "published" /\ tree'[m] = Published(m)
      /\ store'[m] = WithRepos(m)
      /\ UNCHANGED <<head, base, upstream, stopped, tip, pulled>>
  BY <1>0 DEF Publish, Goto, shared
<1>2. store'[m].ver = store[m].ver
  BY <1>0, <1>1 DEF WithRepos, Store
<1>3. \A w \in Ids : tree'[m].rec[w] = IF store[m].ver[w] > 0 THEN store[m].ver[w]
                                       ELSE tree[m].rec[w]
  BY <1>0, <1>1 DEF Published, Tree
<1>4. CycleOk(m)'
  BY <1>0, <1>1 DEF Cycle, CycleOk
<1>5. ASSUME m \notin stopped  PROVE VersionsOk(m)'
  <2>1. /\ NotBefore(tree[m].rec, base[m].rec) /\ NotBefore(head[m].rec, base[m].rec)
        /\ NotBefore(store[m].ver, base[m].rec)
    BY <1>0, <1>1, <1>5 DEF Cycle, VersionsOk
  <2>2. NotBefore(tree'[m].rec, base[m].rec)
    BY <1>3, <2>1 DEF NotBefore
  <2>3. \A w \in Records(store'[m]) : tree'[m].rec[w] = store'[m].ver[w]
    BY <1>2, <1>3 DEF Records
  <2> QED BY <1>1, <1>2, <2>1, <2>2, <2>3 DEF VersionsOk
<1> QED BY <1>1, <1>4, <1>5 DEF Cycle

LEMMA VersionsCommit ==
  ASSUME QuietInv, NEW m \in Machines, Read(m) \/ Commit(m) \/ PullNothing(m)
  PROVE  Cycle(m)'
<1>0. /\ tree \in [Machines -> Tree] /\ head \in [Machines -> Tree]
      /\ phase \in [Machines -> Phases] /\ pulled \in [Machines -> BOOLEAN] /\ Cycle(m)
  BY DEF QuietInv, PathInv, RecordInv, Types, TypeOK, Cycle
<1>1. UNCHANGED <<store, tree, base, upstream, stopped, tip>>
  BY DEF Read, Commit, PullNothing, disk, shared
<1>2. CASE Read(m)
  <2>1. phase[m] = "idle" /\ phase'[m] = "read" /\ head' = head
    BY <1>0, <1>2 DEF Read, Goto, disk
  <2> QED BY <1>0, <1>1, <2>1 DEF Cycle, CycleOk, VersionsOk, Clean
<1>3. CASE Commit(m) /\ m \in stopped
  <2>1. phase[m] = "published" /\ phase'[m] = "idle" /\ head' = head /\ pulled' = pulled
    BY <1>0, <1>3 DEF Commit, End
  <2> QED BY <1>0, <1>1, <1>3, <2>1 DEF Cycle, CycleOk
<1>4. CASE Commit(m) /\ m \notin stopped
  <2>1. /\ phase[m] = "published" /\ phase'[m] = "committed" /\ head'[m] = tree[m]
        /\ pulled' = pulled
    BY <1>0, <1>4 DEF Commit, Goto
  <2>2. CycleOk(m)'
    BY <1>0, <1>1, <1>4, <2>1 DEF Cycle, CycleOk, Clean
  <2>3. VersionsOk(m)'
    BY <1>0, <1>1, <1>4, <2>1 DEF Cycle, VersionsOk
  <2> QED BY <2>2, <2>3 DEF Cycle
<1>5. CASE PullNothing(m)
  <2>1. /\ phase[m] = "committed" /\ phase'[m] = "pulled" /\ head' = head /\ pulled' = pulled
        /\ m \notin upstream
    BY <1>0, <1>5 DEF PullNothing, Goto, Exists, disk, QuietInv
  <2>2. CycleOk(m)'
    BY <1>0, <1>1, <2>1 DEF Cycle, CycleOk, Clean
  <2>3. m \notin stopped => VersionsOk(m)'
    BY <1>0, <1>1, <2>1 DEF Cycle, VersionsOk
  <2> QED BY <1>1, <2>2, <2>3 DEF Cycle
<1> QED BY <1>2, <1>3, <1>4, <1>5

LEMMA CleanIsNotDirty ==
  ASSUME Types, NEW m \in Machines, Clean(m)
  PROVE  ~ Dirty(m)
<1>0. tree[m] \in Tree /\ head[m] \in Tree
  BY DEF Types, TypeOK
<1>1. PICK t : t = [tree[m] EXCEPT !.at = head[m].at]
  OBVIOUS
<1>2. t = head[m]
  BY <1>0, <1>1 DEF Clean, Tree
<1>3. \A n \in Notes \ Untracked(m) : tree[m].at[n] = head[m].at[n]
  BY DEF Clean, Untracked
<1> QED BY <1>1, <1>2, <1>3 DEF Dirty

\* Where nothing clashes, a rebase leaves nothing older than what it is onto.
LEMMA RebasedNotBefore ==
  ASSUME NEW o \in Tree, NEW b \in Tree, NEW t \in Tree, Clashes(o, b, t) = {},
         NotBefore(o.rec, b.rec)
  PROVE  NotBefore(Rebased(o, b, t).rec, t.rec)
<1> SUFFICES ASSUME NEW w \in Ids, Rebased(o, b, t).rec[w] > 0
             PROVE  Rebased(o, b, t).rec[w] >= t.rec[w]
  BY DEF NotBefore
<1>1. ~ Clash(o.rec[w], b.rec[w], t.rec[w])
  BY DEF Clashes
<1>2. Rebased(o, b, t).rec[w] = IF o.rec[w] = b.rec[w] THEN t.rec[w] ELSE o.rec[w]
  BY RebasedRecord
<1>3. o.rec[w] \in Nat /\ b.rec[w] \in Nat /\ t.rec[w] \in Nat
  BY DEF Tree
<1>4. o.rec[w] > 0 => o.rec[w] >= b.rec[w]
  BY DEF NotBefore
<1> QED BY <1>1, <1>2, <1>3, <1>4 DEF Clash

LEMMA VersionsFetch ==
  ASSUME QuietInv, NEW m \in Machines, Pull(m) \/ Repull(m)
  PROVE  Cycle(m)'
<1> DEFINE onto == Rebased(head[m], base[m], remote)
           clash == Clashes(head[m], base[m], remote)
<1>0. /\ Types /\ Cycle(m) /\ tree \in [Machines -> Tree] /\ head[m] \in Tree
      /\ base[m] \in Tree /\ remote \in Tree /\ onto \in Tree
      /\ head \in [Machines -> Tree] /\ base \in [Machines -> Tree]
      /\ phase \in [Machines -> Phases] /\ pulled \in [Machines -> BOOLEAN]
  BY RebasedType DEF QuietInv, PathInv, RecordInv, Types, TypeOK, Cycle
<1>1. PICK from, to : /\ Fetch(m, from, to)
                      /\ \/ from = "committed" /\ to = "pulled"
                         \/ from = "rejected" /\ to = "repulled"
  BY DEF Pull, Repull
<1>2. phase[m] = from /\ m \notin stopped /\ ~ Dirty(m) /\ Clean(m)
  BY <1>0, <1>1, CleanIsNotDirty DEF Fetch, Cycle, CycleOk
<1>3. /\ head' = [head EXCEPT ![m] = onto] /\ base' = [base EXCEPT ![m] = remote]
      /\ tip' = tip \cup {m} /\ tree'[m].rec = onto.rec /\ tree'[m].ledger = onto.ledger
      /\ \A n \in Notes : tree'[m].at[n] = IF n \in Untracked(m) /\ onto.at[n] = None
                                           THEN tree[m].at[n] ELSE onto.at[n]
  BY <1>0, <1>1, <1>2, FetchSteps
<1>4. tree'[m].pin = onto.pin
  <2>1. PICK at : tree' = [tree EXCEPT ![m] = [onto EXCEPT !.at = at]]
    BY <1>1, <1>2 DEF Fetch
  <2> HIDE DEF onto
  <2> QED BY <1>0, <2>1 DEF Tree
<1>5. /\ upstream' = upstream \cup {m} /\ store' = store
      /\ \/ clash = {} /\ phase'[m] = to /\ stopped' = stopped
            /\ pulled'[m] = (pulled[m] \/ to = "pulled")
         \/ phase'[m] = "idle" /\ stopped' = stopped \cup {m} /\ pulled' = pulled
  BY <1>0, <1>1, <1>2 DEF Fetch, Goto, End
<1>6. head'[m] = onto /\ base'[m] = remote
  BY <1>0, <1>3
<1>7. Clean(m)'
  <2> HIDE DEF onto
  <2> QED BY <1>3, <1>4, <1>6 DEF Clean
<1> HIDE DEF onto, clash
<1>8. CycleOk(m)'
  BY <1>1, <1>3, <1>5, <1>7, <1>2 DEF CycleOk
<1>9. ASSUME m \notin stopped'  PROVE VersionsOk(m)'
  <2>1. clash = {} /\ phase'[m] = to /\ pulled'[m] = (pulled[m] \/ to = "pulled")
    BY <1>5, <1>9
  <2>2. NotBefore(onto.rec, remote.rec)
    <3>1. NotBefore(head[m].rec, base[m].rec)
      BY <1>0, <1>2 DEF Cycle, VersionsOk
    <3> QED BY <1>0, <2>1, <3>1, RebasedNotBefore DEF onto, clash
  <2>3. ASSUME ~ pulled'[m]
        PROVE  /\ NotBefore(store[m].ver, remote.rec)
               /\ \A w \in Records(store[m]) : onto.rec[w] = store[m].ver[w]
    <3>1. phase[m] = "rejected" /\ ~ pulled[m]
      BY <1>0, <1>1, <1>2, <2>1, <2>3
    <3>2. /\ \A w \in Ids : base[m].rec[w] = 0
          /\ \A w \in Records(store[m]) : head[m].rec[w] = store[m].ver[w]
      BY <1>0, <1>2, <3>1 DEF Cycle, CycleOk, VersionsOk, Clean
    <3>3. ASSUME NEW w \in Ids, store[m].ver[w] > 0
          PROVE  store[m].ver[w] >= remote.rec[w] /\ onto.rec[w] = store[m].ver[w]
      <4>1. head[m].rec[w] = store[m].ver[w] /\ base[m].rec[w] = 0
        BY <3>2, <3>3 DEF Records
      <4>2. ~ Clash(head[m].rec[w], base[m].rec[w], remote.rec[w])
        BY <2>1 DEF clash, Clashes
      <4>3. remote.rec[w] \in Nat /\ head[m].rec[w] \in Nat
        BY <1>0 DEF Tree
      <4>4. onto.rec[w] = IF head[m].rec[w] = base[m].rec[w] THEN remote.rec[w]
                          ELSE head[m].rec[w]
        BY RebasedRecord DEF onto
      <4> QED BY <3>3, <4>1, <4>2, <4>3, <4>4 DEF Clash
    <3> QED BY <3>3 DEF NotBefore, Records
  <2> QED BY <1>1, <1>3, <1>5, <1>6, <2>1, <2>2, <2>3 DEF VersionsOk, Records
<1> QED BY <1>8, <1>9 DEF Cycle

LEMMA VersionsSend ==
  ASSUME QuietInv, NEW m \in Machines, NothingToSend(m) \/ Push(m) \/ Rejected(m)
  PROVE  Cycle(m)'
<1>0. /\ Types /\ Cycle(m) /\ phase \in [Machines -> Phases] /\ head[m] \in Tree
      /\ base \in [Machines -> Tree] /\ pulled \in [Machines -> BOOLEAN]
  BY DEF QuietInv, PathInv, RecordInv, Types, TypeOK, Cycle
<1>1. /\ UNCHANGED <<store, tree, head, stopped, pulled>>
      /\ phase[m] \in {"pulled", "repulled"} /\ m \notin stopped /\ Clean(m)
  BY <1>0 DEF NothingToSend, Push, Rejected, disk, Cycle, CycleOk
<1>2. CASE NothingToSend(m)
  <2>1. /\ phase[m] = "pulled" /\ m \in upstream /\ head[m] = base[m]
        /\ UNCHANGED <<base, upstream, tip>>
    BY <1>2 DEF NothingToSend, Ahead, disk, shared
  <2>2. pulled[m]
    BY <1>0, <2>1 DEF Cycle, CycleOk
  <2>3. phase'[m] = "sent"
    BY <1>0, <1>2, <2>2 DEF NothingToSend, Finished, Goto
  <2> QED BY <1>0, <1>1, <2>1, <2>2, <2>3 DEF Cycle, CycleOk, VersionsOk, Clean
<1>3. CASE Push(m)
  <2>1. base'[m] = head[m] /\ m \in upstream'
    BY <1>0, <1>3 DEF Push
  <2>2. phase'[m] = IF pulled[m] THEN "sent" ELSE "idle"
    BY <1>0, <1>3 DEF Push, Finished, Goto, End
  <2>3. CycleOk(m)'
    BY <1>1, <2>1, <2>2 DEF CycleOk, Clean
  <2>4. NotBefore(head[m].rec, head[m].rec)
    BY <1>0 DEF NotBefore, Tree
  <2>5. ASSUME ~ pulled[m]  PROVE NotBefore(store[m].ver, head[m].rec)
    <3>1. \A w \in Records(store[m]) : head[m].rec[w] = store[m].ver[w]
      BY <1>0, <1>1, <2>5 DEF Cycle, VersionsOk, Clean
    <3> QED BY <1>0, <3>1 DEF NotBefore, Records, Tree
  <2>6. VersionsOk(m)'
    BY <1>1, <2>1, <2>2, <2>4, <2>5 DEF VersionsOk, Clean
  <2> QED BY <2>3, <2>6 DEF Cycle
<1>4. CASE Rejected(m)
  <2>1. phase[m] = "pulled" /\ phase'[m] = "rejected" /\ UNCHANGED <<base, upstream, tip>>
    BY <1>0, <1>4 DEF Rejected, Goto, Cycle, CycleOk, disk, shared
  <2> QED BY <1>0, <1>1, <2>1 DEF Cycle, CycleOk, VersionsOk, Clean
<1> QED BY <1>2, <1>3, <1>4

\* What is adopted is what is in the tree; where that is nothing, the commit of
\* the remote has nothing either.
LEMMA VersionsAdopt ==
  ASSUME QuietInv, NEW m \in Machines, Adopt(m)
  PROVE  Cycle(m)'
<1>0. /\ Types /\ Cycle(m) /\ phase \in [Machines -> Phases] /\ store \in [Machines -> Store]
      /\ tree \in [Machines -> Tree] /\ base[m] \in Tree
  BY DEF QuietInv, PathInv, RecordInv, Types, TypeOK, Cycle
<1>1. /\ phase[m] = "sent" /\ phase'[m] = "idle" /\ store'[m] = Adopted(m)
      /\ UNCHANGED <<head, base, upstream, stopped, tip, pulled>>
  BY <1>0 DEF Adopt, End, shared
<1>2. m \notin stopped /\ Clean(m) /\ head[m].rec = base[m].rec
  BY <1>0, <1>1 DEF Cycle, CycleOk
<1>3. /\ Withdrawn(m) = {}
      /\ \/ store'[m].ver = tree[m].rec
         \/ store'[m].ver = store[m].ver /\ {w \in Ids : tree[m].rec[w] > 0} = {}
  BY <1>0, <1>1, AdoptedAll DEF QuietInv
<1>4. tree'[m].rec = tree[m].rec
  <2>1. [w \in Ids |-> IF w \in Withdrawn(m) THEN 0 ELSE tree[m].rec[w]] = tree[m].rec
    BY <1>0, <1>3 DEF Tree
  <2> QED BY <1>0, <2>1 DEF Adopt, Tree
<1>5. CycleOk(m)'
  BY <1>0, <1>1, <1>2 DEF Cycle, CycleOk
<1>6. NotBefore(tree[m].rec, base[m].rec) /\ NotBefore(head[m].rec, base[m].rec)
  BY <1>0, <1>2 DEF Cycle, VersionsOk
<1>7. NotBefore(store'[m].ver, base[m].rec)
  <2>1. CASE store'[m].ver = tree[m].rec
    BY <1>6, <2>1
  <2>2. CASE store'[m].ver = store[m].ver /\ {w \in Ids : tree[m].rec[w] > 0} = {}
    <3>1. \A w \in Ids : base[m].rec[w] = 0
      BY <1>0, <1>2, <2>2 DEF Clean, Tree
    <3>2. \A w \in Ids : store[m].ver[w] \in Nat
      BY <1>0 DEF Store
    <3> QED BY <2>2, <3>1, <3>2 DEF NotBefore
  <2> QED BY <1>3, <2>1, <2>2
<1>8. VersionsOk(m)'
  BY <1>1, <1>4, <1>6, <1>7 DEF VersionsOk
<1> QED BY <1>5, <1>8 DEF Cycle

LEMMA VersionsPeople ==
  ASSUME QuietInv, NEW m \in Machines,
         \/ \E w \in Ids : Add(m, w) \/ Edit(m, w) \/ Locate(m, w) \/ Remove(m, w) \/ Pin(m, w)
         \/ \E w \in Ids, n \in Notes : WriteNote(m, w, n)
  PROVE  Cycle(m)'
<1>0. /\ Types /\ Cycle(m) /\ phase \in [Machines -> Phases] /\ store \in [Machines -> Store]
      /\ tree \in [Machines -> Tree] /\ base[m] \in Tree /\ clock \in Nat /\ ~ left.busy
  BY DEF QuietInv, PathInv, Quiet, RecordInv, Types, TypeOK, Cycle
<1>1. UNCHANGED <<head, base, upstream, stopped, tip, phase, pulled>>
  BY DEF Add, Edit, Locate, Remove, Pin, WriteNote, GitAlone, shared, cycle
<1>2. ASSUME NEW w \in Ids, Locate(m, w) \/ Pin(m, w)  PROVE Cycle(m)'
  <2>1. tree' = tree /\ store'[m].ver = store[m].ver
    BY <1>0, <1>2 DEF Locate, Pin, Saved, Store
  <2> QED BY <1>0, <1>1, <2>1, VersionsUntouched
<1>3. ASSUME NEW w \in Ids, NEW n \in Notes, WriteNote(m, w, n)  PROVE Cycle(m)'
  <2>1. writer[n] = None /\ store' = store /\ tree' = [tree EXCEPT ![m].at[n] = w]
    BY <1>3 DEF WriteNote
  <2>2. head[m].at[n] = None
    BY <2>1 DEF QuietInv, AllAccounted, Accounted
  <2>3. PICK at : at = [tree[m].at EXCEPT ![n] = w]
    OBVIOUS
  <2>4. tree'[m] = [tree[m] EXCEPT !.at = at]
    BY <1>0, <2>1, <2>3 DEF Tree
  <2>5. /\ tree'[m].rec = tree[m].rec /\ tree'[m].pin = tree[m].pin
        /\ tree'[m].ledger = tree[m].ledger /\ tree'[m].at = at
    BY <1>0, <2>4 DEF Tree
  <2>6. \A i \in Notes : head[m].at[i] # None => tree'[m].at[i] = tree[m].at[i]
    BY <1>0, <2>2, <2>3, <2>5 DEF Tree
  <2> QED BY <1>0, <1>1, <2>1, <2>5, <2>6, VersionsUntouched
\* What is left to a person who waits is the list between two cycles.
<1>4. ASSUME NEW w \in Ids, Add(m, w) \/ Edit(m, w) \/ Remove(m, w),
             NotBefore(store'[m].ver, base[m].rec), NotBefore(tree'[m].rec, base[m].rec)
      PROVE  Cycle(m)'
  <2>1. phase[m] = "idle" /\ m \notin stopped
    BY <1>0, <1>4 DEF Add, Edit, Remove, Free
  <2>2. CycleOk(m)'
    BY <1>0, <1>1, <2>1 DEF Cycle, CycleOk
  <2>3. VersionsOk(m)'
    BY <1>0, <1>1, <1>4, <2>1 DEF Cycle, VersionsOk
  <2> QED BY <2>2, <2>3 DEF Cycle
<1>5. ASSUME NEW w \in Ids, Add(m, w) \/ Edit(m, w) \/ Remove(m, w)
      PROVE  /\ NotBefore(store[m].ver, base[m].rec) /\ NotBefore(tree[m].rec, base[m].rec)
             /\ UpTo(base[m].rec, clock)
  <2>1. phase[m] = "idle" /\ m \notin stopped
    BY <1>0, <1>5 DEF Add, Edit, Remove, Free
  <2> QED BY <1>0, <2>1 DEF Cycle, VersionsOk, QuietInv, AllAccounted, Accounted
<1>6. ASSUME NEW w \in Ids, Add(m, w) \/ Edit(m, w)  PROVE Cycle(m)'
  <2>1. PICK ver : ver = [store[m].ver EXCEPT ![w] = clock + 1]
    OBVIOUS
  <2>2. store'[m].ver = ver /\ tree' = tree
    <3>1. CASE Add(m, w)
      <4>1. store'[m] = [store[m] EXCEPT !.ver[w] = clock + 1, !.located = @ \cup {w}]
        BY <1>0, <3>1 DEF Add, Saved
      <4> QED BY ZenonT(40), <1>0, <2>1, <3>1, <4>1 DEF Add, Store
    <3>2. CASE Edit(m, w)
      <4>1. store'[m] = [store[m] EXCEPT !.ver[w] = clock + 1]
        BY <1>0, <3>2 DEF Edit, Saved
      <4> QED BY <1>0, <2>1, <3>2, <4>1 DEF Edit, Store
    <3> QED BY <1>6, <3>1, <3>2
  <2>3. store[m].ver \in [Ids -> Nat] /\ \A v \in Ids : base[m].rec[v] \in Nat
    BY <1>0 DEF Store, Tree
  <2>4. NotBefore(ver, base[m].rec)
    BY <1>0, <1>5, <1>6, <2>1, <2>3 DEF NotBefore, UpTo
  <2> QED BY <1>4, <1>5, <1>6, <2>2, <2>4
<1>7. ASSUME NEW w \in Ids, Remove(m, w)  PROVE Cycle(m)'
  <2>1. /\ tree' = [tree EXCEPT ![m].rec[w] = 0]
        /\ store'[m] = [store[m] EXCEPT !.ver[w] = 0, !.located = @ \ {w}, !.known = @ \ {w}]
    BY <1>0, <1>7 DEF Remove, Saved
  <2>2. PICK rec : rec = [tree[m].rec EXCEPT ![w] = 0]
    OBVIOUS
  <2>3. tree'[m].rec = rec
    BY <1>0, <2>1, <2>2 DEF Tree
  <2>4. PICK ver : ver = [store[m].ver EXCEPT ![w] = 0]
    OBVIOUS
  <2>5. store'[m].ver = ver
    BY <1>0, <2>1, <2>4 DEF Store
  <2>6. store[m].ver \in [Ids -> Nat] /\ tree[m].rec \in [Ids -> Nat]
    BY <1>0 DEF Store, Tree
  <2>7. NotBefore(rec, base[m].rec) /\ NotBefore(ver, base[m].rec)
    BY <1>5, <1>7, <2>2, <2>4, <2>6 DEF NotBefore
  <2> QED BY <1>4, <1>7, <2>3, <2>5, <2>7
<1> QED BY <1>2, <1>3, <1>6, <1>7

\* A branch that is followed is there.
LEMMA FollowedStep ==
  ASSUME Types, Quiet, AllAccounted, tip = {} => upstream = {}, [Next]_vars
  PROVE  tip' = {} => upstream' = {}
<1>1. ASSUME NEW m \in Machines, NEW from, NEW to, Fetch(m, from, to)
      PROVE  tip' = {} => upstream' = {}
  <2>1. CASE Dirty(m)
    BY <1>1, <2>1 DEF Fetch
  <2>2. CASE ~ Dirty(m)
    <3>1. m \in tip'
      BY <1>1, <2>2, FetchSteps
    <3> QED BY <3>1
  <2> QED BY <2>1, <2>2
<1>2. ASSUME NEW m \in Machines, Loop(m) \/ CutShort(m) \/ People(m)
      PROVE  tip' = {} => upstream' = {}
  <2>1. CASE Pull(m) \/ Repull(m)
    BY <1>1, <2>1 DEF Pull, Repull
  <2>2. CASE Push(m)
    BY <2>2 DEF Push
  <2>3. CASE ~ (Pull(m) \/ Repull(m) \/ Push(m))
    <3>1. UNCHANGED <<tip, upstream>>
      BY <1>2, <2>3, QuietSteps
         DEF Read, Publish, Commit, PullNothing, NothingToSend, Rejected, Adopt, Add, Edit,
             Locate, Remove, Pin, WriteNote, GitAlone, disk, shared
    <3> QED BY <3>1
  <2> QED BY <2>1, <2>2, <2>3
<1>3. CASE UNCHANGED vars
  BY <1>3 DEF vars, disk, shared
<1> QED BY <1>2, <1>3 DEF Next

LEMMA QuietInit == ASSUME Undisturbed  PROVE Init => QuietInv
<1> SUFFICES ASSUME Init  PROVE QuietInv
  OBVIOUS
<1>1. PathInv
  BY PathInit DEF Undisturbed, Waiting
<1>2. Quiet
  BY ModesAssumption DEF Init, Undisturbed, Quiet
<1>3. ASSUME NEW m \in Machines
      PROVE  \A w \in Ids : store[m].ver[w] \in {0, 1}
  <2>1. PICK mine : mine = {w \in Ids : left.owner[w] = m}
    OBVIOUS
  <2>2. store[m] = [ver |-> [w \in Ids |-> IF w \in mine THEN 1 ELSE 0],
                    located |-> mine, known |-> {}, pin |-> None]
    BY <2>1 DEF Init
  <2> QED BY <2>2
<1>4. Accounted(Blank, 1, writer) /\ NotBefore(Blank.rec, Blank.rec)
      /\ \A w \in Ids : Blank.rec[w] = 0
  BY DEF Accounted, UpTo, NotBefore, Blank
<1>5. /\ clock = 1 /\ remote = Blank /\ upstream = {} /\ stopped = {}
      /\ \A m \in Machines : /\ tree[m] = Blank /\ head[m] = Blank /\ base[m] = Blank
                             /\ phase[m] = "idle"
  BY DEF Init
<1>6. AllAccounted
  BY <1>3, <1>4, <1>5 DEF AllAccounted, UpTo
<1>7. ASSUME NEW m \in Machines  PROVE CycleOk(m) /\ VersionsOk(m)
  <2>1. NotBefore(store[m].ver, base[m].rec)
    BY <1>3, <1>4, <1>5 DEF NotBefore
  <2> QED BY <1>4, <1>5, <2>1 DEF CycleOk, VersionsOk
<1> QED BY <1>1, <1>2, <1>5, <1>6, <1>7 DEF QuietInv

LEMMA QuietNext ==
  ASSUME QuietInv, [Next]_vars
  PROVE  QuietInv'
<1>0. Types /\ Quiet /\ AllAccounted /\ \A m \in Machines : Cycle(m)
  BY DEF QuietInv, PathInv, RecordInv, Cycle
<1>1. PathInv' /\ Quiet' /\ AllAccounted' /\ (tip' = {} => upstream' = {})
  BY <1>0, PathStep, QuietStays, AccountedStep, FollowedStep DEF QuietInv
<1>2. ASSUME NEW m \in Machines, Loop(m) \/ CutShort(m) \/ People(m), NEW k \in Machines
      PROVE  Cycle(k)'
  <2>1. CASE k = m
    BY <1>0, <1>2, <2>1, QuietSteps, VersionsPublish, VersionsCommit, VersionsFetch,
       VersionsSend, VersionsAdopt, VersionsPeople
  <2>2. CASE k # m
    <3>1. /\ store'[k] = store[k] /\ tree'[k] = tree[k] /\ phase'[k] = phase[k]
          /\ head'[k] = head[k] /\ base'[k] = base[k] /\ pulled'[k] = pulled[k]
          /\ (k \in upstream' <=> k \in upstream) /\ (k \in stopped' <=> k \in stopped)
      BY <1>0, <1>2, <2>2, OthersAlone, OthersAsWell
    <3>2. phase[k] = "repulled" => (k \in tip => k \in tip')
      <4>1. Push(m) => phase[k] # "repulled"
        BY <1>0, <2>2 DEF Push, Quiet
      <4> QED BY <1>0, <1>2, <2>2, <4>1, OthersAsWell
    <3> QED BY <1>0, <3>1, <3>2, VersionsUntouched
  <2> QED BY <2>1, <2>2
<1>3. ASSUME UNCHANGED vars, NEW k \in Machines  PROVE Cycle(k)'
  <2>1. UNCHANGED <<store, tree, head, base, phase, pulled, upstream, stopped, tip>>
    BY <1>3 DEF vars, disk, shared, cycle
  <2> QED BY <1>0, <2>1, VersionsUntouched
<1>4. \A k \in Machines : Cycle(k)'
  BY <1>2, <1>3 DEF Next
<1> QED BY <1>1, <1>4 DEF QuietInv, Cycle

\* What is pushed is never older than what it is pushed over.
LEMMA PushedNotBefore ==
  ASSUME QuietInv, NEW m \in Machines, Push(m)
  PROVE  NotBefore(remote'.rec, remote.rec)
<1>0. /\ Types /\ CycleOk(m) /\ (m \notin stopped => VersionsOk(m)) /\ head[m] \in Tree
      /\ TipIsBase
  BY DEF QuietInv, PathInv, RecordInv, Types, TypeOK
<1>1. remote' = head[m] /\ phase[m] \in {"pulled", "repulled"}
  BY DEF Push
<1>2. NotBefore(head[m].rec, base[m].rec)
  BY <1>0, <1>1 DEF CycleOk, VersionsOk
<1>3. CASE tip = {}
  <2>1. \A w \in Ids : remote.rec[w] = 0
    BY <1>0, <1>3 DEF TipIsBase, Blank
  <2> QED BY <1>0, <1>1, <2>1 DEF NotBefore, Tree
<1>4. CASE tip # {}
  <2>1. base[m] = remote
    BY <1>0, <1>4 DEF Push, Exists, TipIsBase
  <2> QED BY <1>1, <1>2, <2>1
<1> QED BY <1>3, <1>4

\* The remote changes only by a push.
LEMMA OnlyPushes ==
  ASSUME [Next]_vars, remote' # remote
  PROVE  \E m \in Machines : Push(m)
<1>1. ASSUME NEW m \in Machines, Loop(m), ~ Push(m)  PROVE remote' = remote
  BY <1>1 DEF Loop, Read, Publish, Commit, PullNothing, Pull, Repull, Fetch, NothingToSend,
              Rejected, ApplyLedger, Adopt, shared
<1>2. ASSUME NEW m \in Machines, CutShort(m) \/ People(m)  PROVE remote' = remote
  BY <1>2 DEF CutShort, People, Add, Edit, Locate, Remove, Pin, Merge, WriteNote, Settle,
              GitAlone, shared
<1>3. UNCHANGED vars => remote' = remote  BY DEF vars, shared
<1> QED BY <1>1, <1>2, <1>3 DEF Next

\* No machine takes back what another changed after it: a push is never of an
\* older version of a record than the one it replaces, not even from a machine
\* whose last cycle ended early, as long as nothing comes between a pull and
\* its adoption.
THEOREM NeverRevertedUndisturbed ==
  ASSUME Undisturbed  PROVE Spec => NeverTakenBack /\ NeverReverted
<1>1. QuietInv /\ [Next]_vars => QuietInv'
  BY QuietNext
<1>2. QuietInv /\ [Next]_vars =>
        [\A w \in Ids : remote'.rec[w] > 0 => remote'.rec[w] >= remote.rec[w]]_vars
  <2> SUFFICES ASSUME QuietInv, [Next]_vars, NEW w \in Ids, remote'.rec[w] > 0
               PROVE  remote'.rec[w] >= remote.rec[w]
    OBVIOUS
  <2>1. CASE remote' = remote
    <3>1. remote.rec[w] \in Nat
      BY DEF QuietInv, PathInv, RecordInv, Types, TypeOK, Tree
    <3> QED BY <2>1, <3>1
  <2>2. CASE remote' # remote
    BY <2>2, OnlyPushes, PushedNotBefore DEF NotBefore
  <2> QED BY <2>1, <2>2
<1>3. [\A w \in Ids : remote'.rec[w] > 0 => remote'.rec[w] >= remote.rec[w]]_vars =>
        [\A w \in Ids : remote'.rec[w] > 0 =>
           remote'.rec[w] >= remote.rec[w] \/ \E m \in early : Push(m)]_vars
  OBVIOUS
<1>4. Init => QuietInv
  BY QuietInit
<1> QED BY <1>1, <1>2, <1>3, <1>4, PTL DEF Spec, NeverTakenBack, NeverReverted

-----------------------------------------------------------------------------
(* A machine's own list.  Where no record is removed either, the remote only *)
(* grows, so a pull brings a machine nothing older than what it has.         *)

Unremoved == \A budget \in Modes : budget.remove = 0

\* What will be adopted is not older than the list it replaces.
AheadOk(m) ==
  m \notin stopped /\ phase[m] \notin {"idle", "read"} =>
    \A w \in Records(store[m]) : tree[m].rec[w] >= store[m].ver[w]

GrowInv ==
  /\ QuietInv /\ left.remove = 0 /\ gone = {}
  /\ \A m \in Machines : AheadOk(m) /\ \A w \in Ids : base[m].rec[w] <= remote.rec[w]

LEMMA SparedSpent ==
  ASSUME left \in Budgets, left.remove = 0,
         NEW k \in {"add", "edit", "locate", "remove", "pin", "note"},
         left[k] > 0, left' = [left EXCEPT ![k] = @ - 1]
  PROVE  left'.remove = 0
BY DEF Budgets

LEMMA SparedStep ==
  ASSUME QuietInv, left.remove = 0, [Next]_vars
  PROVE  /\ left'.remove = 0 /\ gone' = gone
         /\ \A m \in Machines, w \in Ids : ~ Remove(m, w)
<1>0. Types /\ Quiet /\ AllAccounted /\ left \in Budgets
  BY DEF QuietInv, PathInv, RecordInv, Quiet
<1>1. ASSUME NEW m \in Machines, NEW w \in Ids  PROVE ~ Remove(m, w)
  BY DEF Remove, Spend
<1>2. ASSUME NEW m \in Machines, Loop(m)  PROVE UNCHANGED <<left, gone>>
  BY <1>2 DEF Loop, Read, Publish, Commit, PullNothing, Pull, Repull, Fetch, NothingToSend,
              Push, Rejected, ApplyLedger, Adopt, history, past
<1>3. ASSUME NEW m \in Machines, ~ Loop(m), CutShort(m) \/ People(m)
      PROVE  left'.remove = 0 /\ gone' = gone
  <2>1. \/ \E w \in Ids : Add(m, w) \/ Edit(m, w) \/ Locate(m, w) \/ Pin(m, w)
        \/ \E w \in Ids, n \in Notes : WriteNote(m, w, n)
    BY <1>0, <1>1, <1>3, QuietSteps DEF Loop
  <2>2. gone' = gone /\ \E k \in {"add", "edit", "locate", "remove", "pin", "note"} : Spend(k)
    BY <2>1 DEF Add, Edit, Locate, Pin, WriteNote, history, past
  <2> QED BY <1>0, <2>2, SparedSpent DEF Spend
<1>4. UNCHANGED vars => UNCHANGED <<left, gone>>
  BY DEF vars, history, past
<1> QED BY <1>1, <1>2, <1>3, <1>4 DEF Next

\* The remote has every record in a version no machine's base is ahead of.
LEMMA BaseIsBehind ==
  ASSUME GrowInv, [Next]_vars, NEW k \in Machines, NEW w \in Ids
  PROVE  base'[k].rec[w] <= remote'.rec[w]
<1>0. /\ Types /\ RecordInv /\ base[k].rec[w] <= remote.rec[w] /\ gone = {} /\ QuietInv
      /\ \A m \in Machines : base[m] \in Tree /\ head[m] \in Tree
      /\ remote \in Tree /\ base \in [Machines -> Tree]
  BY DEF GrowInv, QuietInv, PathInv, RecordInv, Types, TypeOK
<1>1. base[k].rec[w] \in Nat /\ remote.rec[w] \in Nat
  BY <1>0 DEF Tree
<1>2. ASSUME NEW m \in Machines, Pull(m) \/ Repull(m)  PROVE base'[k].rec[w] <= remote'.rec[w]
  <2>1. remote' = remote /\ (base' = base \/ base' = [base EXCEPT ![m] = remote])
    BY <1>2 DEF Pull, Repull, Fetch
  <2>2. base'[k] = base[k] \/ base'[k] = remote
    BY <1>0, <2>1
  <2> QED BY <1>0, <1>1, <2>1, <2>2
<1>3. ASSUME NEW m \in Machines, Push(m)  PROVE base'[k].rec[w] <= remote'.rec[w]
  <2>1. remote' = head[m] /\ base'[k] = IF k = m THEN head[m] ELSE base[k]
    BY <1>0, <1>3 DEF Push
  <2>2. head[m].rec[w] \in Nat
    BY <1>0 DEF Tree
  <2>3. head[m].rec[w] >= remote.rec[w]
    <3>1. CASE head[m].rec[w] = 0
      <4>1. ~ (remote.rec[w] > 0)
        BY <1>0, <1>3, <3>1, PushedOver
      <4> QED BY <1>1, <3>1, <4>1
    <3>2. CASE head[m].rec[w] > 0
      BY <1>0, <1>3, <2>1, <3>2, PushedNotBefore DEF NotBefore
    <3> QED BY <2>2, <3>1, <3>2
  <2> QED BY <1>0, <1>1, <2>1, <2>2, <2>3
<1>4. ASSUME NEW m \in Machines, Loop(m), ~ (Pull(m) \/ Repull(m) \/ Push(m))
      PROVE  UNCHANGED <<base, remote>>
  BY <1>4 DEF Loop, Read, Publish, Commit, PullNothing, NothingToSend, Rejected, ApplyLedger,
              Adopt, disk, shared
<1>5. ASSUME NEW m \in Machines, CutShort(m) \/ People(m)  PROVE UNCHANGED <<base, remote>>
  BY <1>5 DEF CutShort, People, Add, Edit, Locate, Remove, Pin, Merge, WriteNote, Settle,
              GitAlone, disk, shared
<1>6. UNCHANGED vars => UNCHANGED <<base, remote>>
  BY DEF vars, disk, shared
<1> QED BY <1>0, <1>2, <1>3, <1>4, <1>5, <1>6 DEF Next

LEMMA AheadUntouched ==
  ASSUME NEW m \in Machines, AheadOk(m), store'[m].ver = store[m].ver,
         tree'[m].rec = tree[m].rec,
         phase'[m] = "idle" \/ phase'[m] = phase[m] \/ phase[m] \notin {"idle", "read"},
         m \in stopped => m \in stopped' \/ phase'[m] = "idle"
  PROVE  AheadOk(m)'
<1>1. Records(store'[m]) = Records(store[m])
  BY DEF Records
<1> QED BY <1>1 DEF AheadOk

\* A pull brings what is not older: the remote was never behind the base.
LEMMA AheadFetch ==
  ASSUME GrowInv, NEW m \in Machines, Pull(m) \/ Repull(m)
  PROVE  AheadOk(m)'
<1> DEFINE onto == Rebased(head[m], base[m], remote)
<1>0. /\ Types /\ AheadOk(m) /\ CycleOk(m) /\ head[m] \in Tree /\ base[m] \in Tree
      /\ remote \in Tree /\ store[m] \in Store /\ phase \in [Machines -> Phases]
      /\ \A w \in Ids : base[m].rec[w] <= remote.rec[w]
  BY DEF GrowInv, QuietInv, PathInv, RecordInv, Types, TypeOK
<1>1. PICK from, to : Fetch(m, from, to) /\ from \in {"committed", "rejected"}
  BY DEF Pull, Repull
<1>2. phase[m] = from /\ ~ Dirty(m) /\ Clean(m) /\ m \notin stopped
  BY <1>0, <1>1, CleanIsNotDirty DEF Fetch, CycleOk
<1>3. tree'[m].rec = onto.rec
  BY <1>0, <1>1, <1>2, FetchSteps
<1>4. store' = store
  BY <1>1 DEF Fetch
<1>5. ASSUME NEW w \in Ids, store[m].ver[w] > 0  PROVE onto.rec[w] >= store[m].ver[w]
  <2>1. onto.rec[w] = IF head[m].rec[w] = base[m].rec[w] THEN remote.rec[w]
                      ELSE head[m].rec[w]
    BY RebasedRecord
  <2> HIDE DEF onto
  <2>2. head[m].rec[w] >= store[m].ver[w]
    BY <1>0, <1>1, <1>2, <1>5 DEF AheadOk, Clean, Records
  <2>3. head[m].rec[w] \in Nat /\ base[m].rec[w] \in Nat /\ remote.rec[w] \in Nat
        /\ store[m].ver[w] \in Nat
    BY <1>0 DEF Tree, Store
  <2> QED BY <1>0, <2>1, <2>2, <2>3
<1> HIDE DEF onto
<1> QED BY <1>3, <1>4, <1>5 DEF AheadOk, Records

LEMMA AheadStep ==
  ASSUME GrowInv, NEW m \in Machines, Loop(m) \/ CutShort(m) \/ People(m),
         \A w \in Ids : ~ Remove(m, w)
  PROVE  AheadOk(m)'
<1>0. /\ Types /\ Quiet /\ AllAccounted /\ AheadOk(m) /\ CycleOk(m)
      /\ tree \in [Machines -> Tree] /\ store \in [Machines -> Store]
      /\ snap \in [Machines -> Store] /\ phase \in [Machines -> Phases] /\ ~ left.busy
  BY DEF GrowInv, QuietInv, PathInv, RecordInv, Quiet, Types, TypeOK
<1>1. CASE Publish(m)
  <2>1. snap[m].ver = store[m].ver
    BY <1>1 DEF Publish, GrowInv, QuietInv, PathInv, PathOk
  <2>2. tree'[m] = Published(m) /\ store'[m] = WithRepos(m)
    BY <1>0, <1>1 DEF Publish
  <2>3. store'[m].ver = store[m].ver
    BY <1>0, <2>1, <2>2 DEF WithRepos, Store
  <2>4. \A w \in Ids : store[m].ver[w] > 0 => tree'[m].rec[w] = store[m].ver[w]
    BY <1>0, <2>1, <2>2 DEF Published, Tree
  <2>5. \A w \in Ids : store[m].ver[w] \in Nat
    BY <1>0 DEF Store
  <2> QED BY <2>3, <2>4, <2>5 DEF AheadOk, Records
<1>2. CASE Pull(m) \/ Repull(m)
  BY <1>2, AheadFetch
<1>3. CASE Read(m) \/ Adopt(m)
  <2>1. phase'[m] \in {"idle", "read"}
    BY <1>0, <1>3 DEF Read, Adopt, Goto, End
  <2> QED BY <2>1 DEF AheadOk
<1>4. CASE Commit(m) \/ PullNothing(m) \/ NothingToSend(m) \/ Push(m) \/ Rejected(m)
  <2>1. UNCHANGED <<store, tree, stopped>>
    BY <1>4 DEF Commit, PullNothing, NothingToSend, Push, Rejected, disk
  <2>2. phase[m] \notin {"idle", "read"}
    BY <1>4 DEF Commit, PullNothing, NothingToSend, Push, Rejected
  <2> QED BY <1>0, <2>1, <2>2, AheadUntouched
<1>5. ASSUME NEW w \in Ids, Locate(m, w) \/ Pin(m, w)  PROVE AheadOk(m)'
  <2>1. tree' = tree /\ store'[m].ver = store[m].ver /\ UNCHANGED <<phase, stopped>>
    BY <1>0, <1>5 DEF Locate, Pin, Saved, Store, GitAlone, cycle
  <2> QED BY <1>0, <2>1, AheadUntouched
<1>6. ASSUME NEW w \in Ids, NEW n \in Notes, WriteNote(m, w, n)  PROVE AheadOk(m)'
  <2>1. UNCHANGED <<store, phase, stopped>> /\ tree' = [tree EXCEPT ![m].at[n] = w]
    BY <1>6 DEF WriteNote, GitAlone, cycle
  <2>2. tree'[m].rec = tree[m].rec
    BY <1>0, <2>1 DEF Tree
  <2> QED BY <1>0, <2>1, <2>2, AheadUntouched
<1>7. ASSUME NEW w \in Ids, Add(m, w) \/ Edit(m, w)  PROVE AheadOk(m)'
  <2>1. phase'[m] = "idle"
    BY <1>0, <1>7 DEF Add, Edit, Free, GitAlone, cycle
  <2> QED BY <2>1 DEF AheadOk
<1> QED BY <1>0, <1>1, <1>2, <1>3, <1>4, <1>5, <1>6, <1>7, QuietSteps

LEMMA GrowInit == ASSUME Undisturbed, Unremoved  PROVE Init => GrowInv
<1> SUFFICES ASSUME Init  PROVE GrowInv
  OBVIOUS
<1>1. QuietInv
  BY QuietInit
<1>2. left.remove = 0 /\ gone = {}
  BY DEF Init, Unremoved
<1>3. \A m \in Machines : phase[m] = "idle" /\ base[m] = Blank /\ remote = Blank
  BY DEF Init
<1>4. \A w \in Ids : Blank.rec[w] <= Blank.rec[w]
  BY DEF Blank
<1> QED BY <1>1, <1>2, <1>3, <1>4 DEF GrowInv, AheadOk

LEMMA GrowNext ==
  ASSUME GrowInv, [Next]_vars
  PROVE  GrowInv'
<1>0. Types /\ QuietInv /\ left.remove = 0 /\ gone = {} /\ \A m \in Machines : AheadOk(m)
  BY DEF GrowInv, QuietInv, PathInv, RecordInv
<1>1. /\ QuietInv' /\ left'.remove = 0 /\ gone' = {}
      /\ \A m \in Machines, w \in Ids : ~ Remove(m, w)
  BY <1>0, QuietNext, SparedStep
<1>2. ASSUME NEW m \in Machines, Loop(m) \/ CutShort(m) \/ People(m), NEW k \in Machines
      PROVE  AheadOk(k)'
  <2>1. CASE k = m
    BY <1>1, <1>2, <2>1, AheadStep
  <2>2. CASE k # m
    <3>1. /\ store'[k] = store[k] /\ tree'[k] = tree[k] /\ phase'[k] = phase[k]
          /\ (k \in stopped' <=> k \in stopped)
      BY <1>0, <1>2, <2>2, OthersAlone, OthersAsWell
    <3> QED BY <1>0, <3>1, AheadUntouched
  <2> QED BY <2>1, <2>2
<1>3. ASSUME UNCHANGED vars, NEW k \in Machines  PROVE AheadOk(k)'
  <2>1. UNCHANGED <<store, tree, phase, stopped>>
    BY <1>3 DEF vars, disk, cycle
  <2> QED BY <1>0, <2>1, AheadUntouched
<1>4. \A k \in Machines : AheadOk(k)'
  BY <1>2, <1>3 DEF Next
<1>5. \A k \in Machines, w \in Ids : base'[k].rec[w] <= remote'.rec[w]
  BY BaseIsBehind
<1> QED BY <1>1, <1>4, <1>5 DEF GrowInv

\* The one step that replaces a list is an adoption, of what is ahead of it.
LEMMA ListGrows ==
  ASSUME GrowInv, [Next]_vars, NEW k \in Machines, NEW w \in Ids, store'[k].ver[w] > 0
  PROVE  store'[k].ver[w] >= store[k].ver[w]
<1>0. /\ Types /\ Quiet /\ AllAccounted /\ QuietInv /\ AheadOk(k) /\ CycleOk(k)
      /\ store \in [Machines -> Store] /\ snap \in [Machines -> Store]
      /\ tree \in [Machines -> Tree] /\ store[k].ver[w] \in Nat /\ clock \in Nat
      /\ store[k].ver[w] <= clock /\ tree[k].rec[w] \in Nat
  <2>1. Types /\ Quiet /\ AllAccounted /\ QuietInv /\ AheadOk(k) /\ CycleOk(k)
    BY DEF GrowInv, QuietInv, PathInv, RecordInv
  <2>2. /\ store \in [Machines -> Store] /\ snap \in [Machines -> Store]
        /\ tree \in [Machines -> Tree] /\ clock \in Nat
    BY <2>1 DEF Types, TypeOK
  <2>3. store[k].ver[w] \in Nat /\ tree[k].rec[w] \in Nat
    BY <2>2 DEF Store, Tree
  <2>4. store[k].ver[w] <= clock
    BY <2>1 DEF AllAccounted, UpTo
  <2> QED BY <2>1, <2>2, <2>3, <2>4
<1>1. SUFFICES ASSUME store'[k].ver # store[k].ver
               PROVE  store'[k].ver[w] >= store[k].ver[w]
  BY <1>0
<1>2. PICK m \in Machines : Loop(m) \/ CutShort(m) \/ People(m)
  BY <1>1 DEF Next, vars, disk
<1>3. k = m
  BY <1>0, <1>1, <1>2, OthersAlone
<1>4. ~ Remove(k, w)
  BY SparedStep DEF GrowInv
<1>5. CASE Publish(k)
  <2>1. snap[k].ver = store[k].ver
    BY <1>5 DEF Publish, GrowInv, QuietInv, PathInv, PathOk
  <2>2. store'[k] = WithRepos(k)
    BY <1>0, <1>5 DEF Publish
  <2> QED BY <1>0, <1>1, <2>1, <2>2 DEF WithRepos, Store
<1>6. CASE Adopt(k)
  <2>1. store'[k] = Adopted(k) /\ phase[k] = "sent"
    BY <1>0, <1>6 DEF Adopt
  <2>2. store'[k].ver = tree[k].rec
    BY <1>0, <1>1, <2>1, AdoptedAll
  <2>3. k \notin stopped
    BY <1>0, <2>1 DEF CycleOk
  <2>4. store[k].ver[w] > 0 => tree[k].rec[w] >= store[k].ver[w]
    BY <1>0, <2>1, <2>3 DEF AheadOk, Records
  <2> QED BY <1>0, <2>2, <2>4
<1>7. ASSUME NEW v \in Ids, Add(k, v) \/ Edit(k, v)
      PROVE  store'[k].ver[w] >= store[k].ver[w]
  <2>1. PICK ver : ver = [store[k].ver EXCEPT ![v] = clock + 1]
    OBVIOUS
  <2>2. store'[k].ver = ver
    <3>1. CASE Add(k, v)
      <4>1. store'[k] = [store[k] EXCEPT !.ver[v] = clock + 1, !.located = @ \cup {v}]
        BY <1>0, <3>1 DEF Add, Saved
      <4> QED BY <1>0, <2>1, <4>1 DEF Store
    <3>2. CASE Edit(k, v)
      <4>1. store'[k] = [store[k] EXCEPT !.ver[v] = clock + 1]
        BY <1>0, <3>2 DEF Edit, Saved
      <4> QED BY <1>0, <2>1, <4>1 DEF Store
    <3> QED BY <1>7, <3>1, <3>2
  <2>3. ver[w] \in {store[k].ver[w], clock + 1}
    BY <1>0, <2>1 DEF Store
  <2> QED BY <1>0, <2>2, <2>3
<1>8. ASSUME NEW v \in Ids, Locate(k, v) \/ Pin(k, v)  PROVE FALSE
  <2>1. store'[k].ver = store[k].ver
    BY <1>0, <1>8 DEF Locate, Pin, Saved, Store
  <2> QED BY <1>1, <2>1
<1>9. CASE \/ Read(k) \/ Commit(k) \/ PullNothing(k) \/ NothingToSend(k) \/ Pull(k) \/ Repull(k)
           \/ Push(k) \/ Rejected(k) \/ \E v \in Ids, n \in Notes : WriteNote(k, v, n)
  <2>1. store' = store
    BY <1>9 DEF Read, Commit, PullNothing, NothingToSend, Pull, Repull, Fetch, Push, Rejected,
                WriteNote, disk
  <2> QED BY <1>1, <2>1
<1>10. \A v \in Ids : ~ Remove(k, v)
  BY SparedStep DEF GrowInv
<1> QED BY <1>0, <1>2, <1>3, <1>5, <1>6, <1>7, <1>8, <1>9, <1>10, QuietSteps

\* A machine's own list never falls back to an earlier version of a record, as
\* long as nothing comes between a pull and its adoption and no record is removed:
\* with a third machine, one that was left with no list publishes what was removed.
THEOREM NeverUndoneUnremoved == ASSUME Undisturbed, Unremoved  PROVE Spec => NeverUndone
<1>1. GrowInv /\ [Next]_vars => GrowInv'
  BY GrowNext
<1>2. GrowInv /\ [Next]_vars =>
        [\A m \in Machines, w \in Ids :
           store'[m].ver[w] > 0 => store'[m].ver[w] >= store[m].ver[w]]_vars
  BY ListGrows
<1>3. Init => GrowInv
  BY GrowInit
<1> QED BY <1>1, <1>2, <1>3, PTL DEF Spec, NeverUndone

-----------------------------------------------------------------------------
(* Where a record comes from.  One that the remote does not have is in one   *)
(* place: on the machine that added it.                                      *)

Has(m, w) == store[m].ver[w] > 0 \/ tree[m].rec[w] > 0 \/ head[m].rec[w] > 0

Origin ==
  /\ gone \subseteq made
  /\ \A w \in Ids \ made : remote.rec[w] = 0 /\ \A m \in Machines : ~ Has(m, w)
  /\ \A w \in Ids \ gone, m \in Machines :
       Has(m, w) /\ base[m].rec[w] = 0 =>
         remote.rec[w] = 0 /\ \A k \in Machines \ {m} : ~ Has(k, w)

LEMMA OriginShrinks ==
  ASSUME Origin, gone \subseteq gone', made \subseteq made', gone' \subseteq made',
         \A m \in Machines, w \in Ids : Has(m, w)' => Has(m, w),
         \A m \in Machines : base'[m].rec = base[m].rec, remote' = remote
  PROVE  Origin'
BY DEF Origin

LEMMA HasLocal ==
  ASSUME QuietInv, NEW m \in Machines, NEW w \in Ids, Has(m, w)',
         \/ Read(m) \/ Publish(m) \/ Commit(m) \/ PullNothing(m) \/ NothingToSend(m)
         \/ Rejected(m) \/ Push(m) \/ Adopt(m)
         \/ \E v \in Ids : Edit(m, v) \/ Locate(m, v) \/ Remove(m, v) \/ Pin(m, v)
         \/ \E v \in Ids, n \in Notes : WriteNote(m, v, n)
  PROVE  Has(m, w)
<1>0. /\ Types /\ AllAccounted /\ store \in [Machines -> Store] /\ snap \in [Machines -> Store]
      /\ tree \in [Machines -> Tree] /\ head \in [Machines -> Tree]
      /\ store[m].ver[w] \in Nat /\ tree[m].rec[w] \in Nat /\ clock \in Nat
  <2>1. Types /\ AllAccounted
    BY DEF QuietInv, PathInv, RecordInv
  <2>2. /\ store \in [Machines -> Store] /\ snap \in [Machines -> Store]
        /\ tree \in [Machines -> Tree] /\ head \in [Machines -> Tree] /\ clock \in Nat
    BY <2>1 DEF Types, TypeOK
  <2>3. store[m] \in Store /\ tree[m] \in Tree
    BY <2>2
  <2>4. store[m].ver[w] \in Nat /\ tree[m].rec[w] \in Nat
    BY <2>3 DEF Store, Tree
  <2> QED BY <2>1, <2>2, <2>4
<1>1. CASE Publish(m)
  <2>1. snap[m].ver = store[m].ver
    BY <1>1 DEF Publish, QuietInv, PathInv, PathOk
  <2>2. tree'[m] = Published(m) /\ store'[m] = WithRepos(m) /\ head' = head
    BY <1>0, <1>1 DEF Publish
  <2>3. store'[m].ver = store[m].ver
    BY <1>0, <2>1, <2>2 DEF WithRepos, Store
  <2>4. tree'[m].rec[w] = IF store[m].ver[w] > 0 THEN store[m].ver[w] ELSE tree[m].rec[w]
    BY <1>0, <2>1, <2>2 DEF Published, Tree
  <2> QED BY <2>2, <2>3, <2>4 DEF Has
<1>2. CASE Commit(m)
  <2>1. UNCHANGED <<store, tree>> /\ (head'[m] = head[m] \/ head'[m] = tree[m])
    BY <1>0, <1>2 DEF Commit
  <2> QED BY <2>1 DEF Has
<1>3. CASE Adopt(m)
  <2>1. store'[m].ver = store[m].ver \/ store'[m].ver = tree[m].rec
    BY <1>0, <1>3, AdoptedAll DEF Adopt
  <2>2. tree'[m].rec = tree[m].rec
    <3>1. [v \in Ids |-> IF v \in Withdrawn(m) THEN 0 ELSE tree[m].rec[v]] = tree[m].rec
      BY <1>0, AdoptedAll DEF Tree
    <3> QED BY <1>0, <1>3, <3>1 DEF Adopt, Tree
  <2>3. head' = head
    BY <1>3 DEF Adopt
  <2> QED BY <2>1, <2>2, <2>3 DEF Has
<1>4. CASE Read(m) \/ PullNothing(m) \/ NothingToSend(m) \/ Rejected(m) \/ Push(m)
  <2>1. UNCHANGED <<store, tree, head>>
    BY <1>4 DEF Read, PullNothing, NothingToSend, Rejected, Push, disk
  <2> QED BY <2>1 DEF Has
<1>5. ASSUME NEW v \in Ids, Locate(m, v) \/ Pin(m, v)  PROVE Has(m, w)
  <2>1. UNCHANGED <<tree, head>> /\ store'[m].ver = store[m].ver
    BY <1>0, <1>5 DEF Locate, Pin, Saved, Store, GitAlone
  <2> QED BY <2>1 DEF Has
<1>6. ASSUME NEW v \in Ids, NEW n \in Notes, WriteNote(m, v, n)  PROVE Has(m, w)
  <2>1. UNCHANGED <<store, head>> /\ tree' = [tree EXCEPT ![m].at[n] = v]
    BY <1>6 DEF WriteNote, GitAlone
  <2>2. tree'[m].rec = tree[m].rec
    BY <1>0, <2>1 DEF Tree
  <2> QED BY <2>1, <2>2 DEF Has
<1>7. ASSUME NEW v \in Ids, Edit(m, v)  PROVE Has(m, w)
  <2>1. /\ UNCHANGED <<tree, head>> /\ store[m].ver[v] > 0
        /\ store'[m] = [store[m] EXCEPT !.ver[v] = clock + 1]
    BY <1>0, <1>7 DEF Edit, Saved, GitAlone, Records
  <2>2. v # w => store'[m].ver[w] = store[m].ver[w]
    BY <1>0, <2>1 DEF Store
  <2> QED BY <2>1, <2>2 DEF Has
<1>8. ASSUME NEW v \in Ids, Remove(m, v)  PROVE Has(m, w)
  <2>1. /\ head' = head /\ tree' = [tree EXCEPT ![m].rec[v] = 0]
        /\ store'[m] = [store[m] EXCEPT !.ver[v] = 0, !.located = @ \ {v}, !.known = @ \ {v}]
    BY <1>0, <1>8 DEF Remove, Saved, GitAlone
  <2>2. store'[m].ver[w] \in {0, store[m].ver[w]} /\ tree'[m].rec[w] \in {0, tree[m].rec[w]}
    BY <1>0, <2>1 DEF Store, Tree
  <2> QED BY <1>0, <2>1, <2>2 DEF Has
<1> QED BY <1>1, <1>2, <1>3, <1>4, <1>5, <1>6, <1>7, <1>8

LEMMA HasOther ==
  ASSUME Types, NEW m \in Machines, Loop(m) \/ CutShort(m) \/ People(m),
         NEW k \in Machines, k # m, NEW w \in Ids
  PROVE  Has(k, w)' <=> Has(k, w)
BY OthersAlone, OthersAsWell DEF Has

LEMMA OriginAdd ==
  ASSUME QuietInv, Origin, NEW m \in Machines, NEW v \in Ids, Add(m, v)
  PROVE  Origin'
<1>0. Types /\ store \in [Machines -> Store] /\ People(m)
  BY DEF QuietInv, PathInv, RecordInv, Types, TypeOK, People
<1>1. /\ UNCHANGED <<tree, head, base, remote, gone>> /\ made' = made \cup {v} /\ v \notin made
      /\ store'[m] = [store[m] EXCEPT !.ver[v] = clock + 1, !.located = @ \cup {v}]
  BY <1>0 DEF Add, Saved, GitAlone, shared
<1>2. ASSUME NEW w \in Ids, w # v, Has(m, w)'  PROVE Has(m, w)
  <2>1. store'[m].ver[w] = store[m].ver[w]
    BY <1>0, <1>1, <1>2 DEF Store
  <2> QED BY <1>1, <1>2, <2>1 DEF Has
<1>3. ASSUME NEW k \in Machines, NEW w \in Ids, Has(k, w)', k # m \/ w # v  PROVE Has(k, w)
  BY <1>0, <1>2, <1>3, HasOther
<1>4. remote.rec[v] = 0 /\ \A k \in Machines : ~ Has(k, v)
  BY <1>1 DEF Origin
<1>5. \A w \in Ids \ made' : remote'.rec[w] = 0 /\ \A k \in Machines : ~ Has(k, w)'
  BY <1>1, <1>3 DEF Origin
<1>6. ASSUME NEW w \in Ids \ gone', NEW k \in Machines, Has(k, w)', base'[k].rec[w] = 0
      PROVE  remote'.rec[w] = 0 /\ \A j \in Machines \ {k} : ~ Has(j, w)'
  <2>1. CASE w = v
    <3>1. k = m
      BY <1>3, <1>4, <1>6, <2>1
    <3> QED BY <1>1, <1>3, <1>4, <2>1, <3>1
  <2>2. CASE w # v
    BY <1>1, <1>3, <1>6, <2>2 DEF Origin
  <2> QED BY <2>1, <2>2
<1> QED BY <1>1, <1>5, <1>6 DEF Origin

\* A pull brings what the remote has; what only this machine has, it keeps.
LEMMA OriginFetch ==
  ASSUME QuietInv, Origin, NEW m \in Machines, Pull(m) \/ Repull(m)
  PROVE  Origin'
<1> DEFINE onto == Rebased(head[m], base[m], remote)
<1>0. /\ Types /\ RecordChain /\ CycleOk(m) /\ head \in [Machines -> Tree]
      /\ base \in [Machines -> Tree] /\ tree \in [Machines -> Tree] /\ remote \in Tree
      /\ onto \in Tree /\ Loop(m)
  BY RebasedType DEF QuietInv, PathInv, RecordInv, Types, TypeOK, Loop
<1>1. PICK from, to : Fetch(m, from, to) /\ from \in {"committed", "rejected"}
  BY DEF Pull, Repull
<1>2. ~ Dirty(m) /\ UNCHANGED <<store, remote, gone, made>>
  BY <1>0, <1>1, CleanIsNotDirty DEF Fetch, CycleOk, history, past
<1>3. /\ head' = [head EXCEPT ![m] = onto] /\ base' = [base EXCEPT ![m] = remote]
      /\ tree'[m].rec = onto.rec
  BY <1>0, <1>1, <1>2, FetchSteps
<1>4. ASSUME NEW w \in Ids, Has(m, w)'  PROVE Has(m, w) \/ remote.rec[w] > 0
  <2>1. onto.rec[w] \in {head[m].rec[w], remote.rec[w]}
    BY RebasedRecord
  <2> HIDE DEF onto
  <2> QED BY <1>0, <1>2, <1>3, <1>4, <2>1 DEF Has
<1> HIDE DEF onto
<1>5. ASSUME NEW w \in Ids, NEW k \in Machines, Has(k, w)'  PROVE Has(k, w) \/ remote.rec[w] > 0
  BY <1>0, <1>4, <1>5, HasOther
<1>6. \A w \in Ids \ made' : remote'.rec[w] = 0 /\ \A k \in Machines : ~ Has(k, w)'
  BY <1>2, <1>5 DEF Origin
<1>7. ASSUME NEW w \in Ids \ gone', NEW k \in Machines, Has(k, w)', base'[k].rec[w] = 0
      PROVE  remote'.rec[w] = 0 /\ \A j \in Machines \ {k} : ~ Has(j, w)'
  <2>1. remote.rec[w] \in Nat /\ base[k].rec[w] \in Nat
    BY <1>0 DEF Tree
  <2>2. remote.rec[w] = 0
    <3>1. CASE k = m
      BY <1>0, <1>3, <1>7, <3>1
    <3>2. CASE k # m
      <4>1. base'[k] = base[k] /\ Has(k, w)
        BY <1>0, <1>3, <1>7, <3>2, HasOther
      <4> QED BY <1>2, <1>7, <4>1 DEF Origin
    <3> QED BY <3>1, <3>2
  <2>3. base[k].rec[w] = 0
    BY <1>0, <1>2, <1>7, <2>1, <2>2 DEF RecordChain
  <2>4. Has(k, w) /\ \A j \in Machines : Has(j, w)' => Has(j, w)
    BY <1>5, <1>7, <2>2
  <2> QED BY <1>2, <1>7, <2>2, <2>3, <2>4 DEF Origin
<1> QED BY <1>2, <1>6, <1>7 DEF Origin

LEMMA OriginPush ==
  ASSUME QuietInv, Origin, NEW m \in Machines, Push(m)
  PROVE  Origin'
<1>0. /\ Types /\ RecordChain /\ Loop(m) /\ base \in [Machines -> Tree]
      /\ \A k \in Machines, w \in Ids : head[k].rec[w] \in Nat /\ base[k].rec[w] \in Nat
  <2>1. Types /\ RecordChain /\ Loop(m)
    BY DEF QuietInv, PathInv, RecordInv, Loop
  <2>2. head \in [Machines -> Tree] /\ base \in [Machines -> Tree]
    BY <2>1 DEF Types, TypeOK
  <2> QED BY <2>1, <2>2 DEF Tree
<1>1. /\ remote' = head[m] /\ base' = [base EXCEPT ![m] = head[m]] /\ UNCHANGED <<gone, made>>
  BY DEF Push, history, past
<1>2. ASSUME NEW w \in Ids, NEW k \in Machines, Has(k, w)'  PROVE Has(k, w)
  BY <1>0, <1>2, HasLocal, HasOther
<1>3. ASSUME NEW w \in Ids \ made'  PROVE remote'.rec[w] = 0 /\ \A k \in Machines : ~ Has(k, w)'
  BY <1>0, <1>1, <1>2, <1>3 DEF Origin, Has
<1>4. ASSUME NEW w \in Ids \ gone', NEW k \in Machines, Has(k, w)', base'[k].rec[w] = 0
      PROVE  remote'.rec[w] = 0 /\ \A j \in Machines \ {k} : ~ Has(j, w)'
  <2>1. CASE k = m
    <3>1. head[m].rec[w] = 0
      BY <1>0, <1>1, <1>4, <2>1
    <3>2. base[m].rec[w] = 0
      BY <1>0, <1>1, <1>4, <3>1 DEF RecordChain
    <3> QED BY <1>1, <1>2, <1>4, <2>1, <3>1, <3>2 DEF Origin
  <2>2. CASE k # m
    <3>1. base[k].rec[w] = 0 /\ Has(k, w)
      BY <1>0, <1>1, <1>2, <1>4, <2>2
    <3>2. ~ Has(m, w)
      BY <1>1, <1>4, <2>2, <3>1 DEF Origin
    <3>3. head[m].rec[w] = 0
      BY <1>0, <3>2 DEF Has
    <3> QED BY <1>1, <1>2, <1>4, <3>1, <3>3 DEF Origin
  <2> QED BY <2>1, <2>2
<1> QED BY <1>1, <1>3, <1>4 DEF Origin

LEMMA OriginStep ==
  ASSUME QuietInv, Origin, [Next]_vars
  PROVE  Origin'
<1>0. Types /\ Quiet /\ AllAccounted
  BY DEF QuietInv, PathInv, RecordInv
<1>1. ASSUME NEW m \in Machines, Loop(m) \/ CutShort(m) \/ People(m),
             ~ Pull(m), ~ Repull(m), ~ Push(m), \A w \in Ids : ~ Add(m, w)
      PROVE  Origin'
  <2>1. \/ Read(m) \/ Publish(m) \/ Commit(m) \/ PullNothing(m) \/ NothingToSend(m)
        \/ Rejected(m) \/ Push(m) \/ Adopt(m)
        \/ \E v \in Ids : Edit(m, v) \/ Locate(m, v) \/ Remove(m, v) \/ Pin(m, v)
        \/ \E v \in Ids, n \in Notes : WriteNote(m, v, n)
    BY <1>0, <1>1, QuietSteps
  <2>2. \A k \in Machines, w \in Ids : Has(k, w)' => Has(k, w)
    BY <1>0, <1>1, <2>1, HasLocal, HasOther
  <2>3. UNCHANGED <<base, remote, made>>
    BY <1>1, <2>1 DEF Read, Publish, Commit, PullNothing, NothingToSend, Rejected, Adopt, Edit,
                      Locate, Remove, Pin, WriteNote, GitAlone, disk, shared, history, past
  <2>4. gone' \subseteq made
    <3>1. ASSUME NEW v \in Ids, Remove(m, v)  PROVE gone' \subseteq made
      <4>1. Has(m, v) /\ gone' = gone \cup {v}
        BY <3>1 DEF Remove, Records, Has
      <4> QED BY <4>1 DEF Origin
    <3>2. ASSUME \A v \in Ids : ~ Remove(m, v)  PROVE gone' = gone
      BY <1>1, <2>1, <3>2 DEF Read, Publish, Commit, PullNothing, NothingToSend, Rejected, Adopt,
                         Edit, Locate, Pin, WriteNote, GitAlone, history, past
    <3> QED BY <3>1, <3>2 DEF Origin
  <2> QED BY <2>2, <2>3, <2>4, GoneGrows, OriginShrinks
<1>2. CASE UNCHANGED vars
  <2>1. UNCHANGED <<store, tree, head, base, remote, gone, made>>
    BY <1>2 DEF vars, disk, shared, history, past
  <2> QED BY <2>1 DEF Origin, Has
<1> QED BY <1>1, <1>2, OriginAdd, OriginFetch, OriginPush DEF Next

-----------------------------------------------------------------------------
(* One record is removed, and another is left on the machine that removed    *)
(* it.  Whoever hears of the removal hears of the other one, so nobody is    *)
(* left with an empty repository and a list that is not replaced.            *)

RemovedOnce == \A budget \in Modes : budget.remove <= 1 /\ ~ budget.last

\* Between two cycles everything committed was sent.
Level(m) == phase[m] \in {"idle", "read", "published"} => head[m].rec = base[m].rec

\* A machine whose base does not have the record that went has no trace of it.
Dropped(m, w) ==
  base[m].rec[w] = 0 =>
    /\ tree[m].rec[w] = 0 /\ head[m].rec[w] = 0
    /\ phase[m] \in {"idle", "read", "published", "committed"} \/ ~ pulled[m] =>
         store[m].ver[w] = 0

\* Where w went, o is.
Spared(m, w, o) ==
  /\ base[m].rec[w] > 0 /\ head[m].rec[w] = 0 => head[m].rec[o] > 0
  /\ base[m].rec[w] > 0 /\ tree[m].rec[w] = 0 =>
       tree[m].rec[o] > 0 \/ (phase[m] \in {"idle", "read"} /\ store[m].ver[o] > 0)
  /\ phase[m] \in {"pulled", "rejected", "repulled", "sent"} =>
       (store[m].ver[w] > 0 /\ tree[m].rec[w] = 0 => tree[m].rec[o] > 0)

Withdrawal(m, w, o) == Level(m) /\ Dropped(m, w) /\ Spared(m, w, o)
RemoteSpared(m, w, o) == base[m].rec[w] > 0 /\ remote.rec[w] = 0 => remote.rec[o] > 0

Once(w, o) ==
  /\ QuietInv /\ Origin /\ left.remove = 0 /\ gone = {w} /\ o # w
  /\ \A m \in Machines : RemoteSpared(m, w, o) /\ (m \notin stopped => Withdrawal(m, w, o))

LEMMA LevelStep ==
  ASSUME QuietInv, [Next]_vars, NEW k \in Machines, k \notin stopped => Level(k),
         k \notin stopped'
  PROVE  Level(k)'
<1>0. /\ Types /\ Quiet /\ AllAccounted /\ CycleOk(k) /\ phase \in [Machines -> Phases]
      /\ base \in [Machines -> Tree] /\ pulled \in [Machines -> BOOLEAN]
      /\ stopped \subseteq Machines
  BY DEF QuietInv, PathInv, RecordInv, Types, TypeOK
<1>1. CASE Pull(k) \/ Repull(k)
  <2>1. PICK from, to : /\ Fetch(k, from, to)
                        /\ \/ from = "committed" /\ to = "pulled"
                           \/ from = "rejected" /\ to = "repulled"
    BY <1>1 DEF Pull, Repull
  <2>2. ~ Dirty(k)
    BY <1>0, <2>1, CleanIsNotDirty DEF Fetch, CycleOk
  <2>3. phase'[k] = to
    BY <1>0, <2>1, <2>2 DEF Fetch, Goto
  <2> QED BY <2>1, <2>3 DEF Level
<1>2. CASE Push(k)
  <2>1. base'[k] = head[k] /\ head' = head
    BY <1>0, <1>2 DEF Push
  <2> QED BY <2>1 DEF Level
<1>3. CASE Adopt(k)
  <2>1. phase[k] = "sent" /\ UNCHANGED <<head, base>>
    BY <1>3 DEF Adopt
  <2> QED BY <1>0, <2>1 DEF CycleOk, Level
<1>4. CASE NothingToSend(k)
  <2>1. phase[k] = "pulled" /\ k \in upstream
    BY <1>4 DEF NothingToSend, Ahead
  <2>2. phase'[k] = "sent"
    BY <1>0, <1>4, <2>1 DEF NothingToSend, Finished, Goto, CycleOk
  <2> QED BY <2>2 DEF Level
<1>5. CASE Rejected(k)
  <2>1. phase'[k] = "rejected"
    BY <1>0, <1>5 DEF Rejected, Goto, CycleOk
  <2> QED BY <2>1 DEF Level
<1>6. CASE Commit(k)
  <2>1. k \notin stopped /\ phase'[k] = "committed"
    BY <1>0, <1>6 DEF Commit, Goto
  <2> QED BY <2>1 DEF Level
<1>7. CASE PullNothing(k)
  <2>1. phase'[k] = "pulled"
    BY <1>0, <1>7 DEF PullNothing, Goto
  <2> QED BY <2>1 DEF Level
<1>8. CASE Read(k) \/ Publish(k)
  <2>1. phase[k] \in {"idle", "read"} /\ UNCHANGED <<head, base, stopped>>
    BY <1>8 DEF Read, Publish, disk
  <2> QED BY <2>1 DEF Level
<1>9. CASE \/ \E w \in Ids : Add(k, w) \/ Edit(k, w) \/ Locate(k, w) \/ Remove(k, w) \/ Pin(k, w)
           \/ \E w \in Ids, n \in Notes : WriteNote(k, w, n)
  <2>1. UNCHANGED <<head, base, phase, stopped>>
    BY <1>9 DEF Add, Edit, Locate, Remove, Pin, WriteNote, GitAlone, cycle
  <2> QED BY <2>1 DEF Level
<1>10. ASSUME NEW m \in Machines, Loop(m) \/ CutShort(m) \/ People(m), k # m  PROVE Level(k)'
  <2>1. /\ head'[k] = head[k] /\ base'[k] = base[k] /\ phase'[k] = phase[k]
        /\ (k \in stopped' <=> k \in stopped)
    BY <1>0, <1>10, OthersAlone, OthersAsWell
  <2> QED BY <2>1 DEF Level
<1>11. CASE UNCHANGED vars
  <2>1. UNCHANGED <<head, base, phase, stopped>>
    BY <1>11 DEF vars, disk, cycle
  <2> QED BY <2>1 DEF Level
<1>12. ASSUME Loop(k) \/ CutShort(k) \/ People(k)  PROVE Level(k)'
  BY <1>0, <1>1, <1>2, <1>3, <1>4, <1>5, <1>6, <1>7, <1>8, <1>9, <1>12, QuietSteps
<1> QED BY <1>10, <1>11, <1>12 DEF Next

LEMMA TraceUntouched ==
  ASSUME NEW m \in Machines, NEW w \in Ids, NEW o \in Ids, Dropped(m, w), Spared(m, w, o),
         tree'[m].rec = tree[m].rec, head'[m].rec = head[m].rec, base'[m].rec = base[m].rec,
         store'[m].ver = store[m].ver, phase'[m] = phase[m], pulled'[m] = pulled[m]
  PROVE  Dropped(m, w)' /\ Spared(m, w, o)'
BY DEF Dropped, Spared

\* A record nobody removed stays through a rebase.
LEMMA RebasedStays ==
  ASSUME RecordInv, NEW m \in Machines, NEW o \in Ids \ gone,
         remote.rec[o] > 0 \/ head[m].rec[o] > 0
  PROVE  Rebased(head[m], base[m], remote).rec[o] > 0
<1>1. Rebased(head[m], base[m], remote).rec[o] =
        IF head[m].rec[o] = base[m].rec[o] THEN remote.rec[o] ELSE head[m].rec[o]
  BY RebasedRecord
<1>2. head[m] \in Tree /\ base[m] \in Tree /\ remote \in Tree
  BY DEF RecordInv, Types, TypeOK
<1>3. head[m].rec[o] \in Nat /\ base[m].rec[o] \in Nat /\ remote.rec[o] \in Nat
  BY <1>2 DEF Tree
<1>4. /\ base[m].rec[o] > 0 => head[m].rec[o] > 0
      /\ base[m].rec[o] > 0 => remote.rec[o] > 0
  BY <1>3 DEF RecordInv, RecordChain
<1> HIDE DEF Rebased
<1> QED BY <1>1, <1>3, <1>4

LEMMA TraceFetch ==
  ASSUME NEW w \in Ids, NEW o \in Ids, Once(w, o), NEW m \in Machines, Pull(m) \/ Repull(m),
         m \notin stopped'
  PROVE  Dropped(m, w)' /\ Spared(m, w, o)'
<1> DEFINE onto == Rebased(head[m], base[m], remote)
           clash == Clashes(head[m], base[m], remote)
<1>0. /\ Types /\ RecordInv /\ CycleOk(m) /\ head \in [Machines -> Tree]
      /\ base \in [Machines -> Tree] /\ remote \in Tree /\ tree[m] \in Tree
      /\ phase \in [Machines -> Phases] /\ pulled \in [Machines -> BOOLEAN]
  BY DEF Once, QuietInv, PathInv, RecordInv, Types, TypeOK
<1>1. PICK from, to : /\ Fetch(m, from, to)
                      /\ \/ from = "committed" /\ to = "pulled"
                         \/ from = "rejected" /\ to = "repulled"
  BY DEF Pull, Repull
<1>2. phase[m] = from /\ m \notin stopped /\ ~ Dirty(m) /\ Clean(m)
  BY <1>0, <1>1, CleanIsNotDirty DEF Fetch, CycleOk
<1>3. head' = [head EXCEPT ![m] = onto] /\ base' = [base EXCEPT ![m] = remote]
      /\ tree'[m].rec = onto.rec
  BY <1>0, <1>1, <1>2, FetchSteps
<1>4. head'[m] = onto /\ base'[m] = remote
  BY <1>0, <1>3
<1>5. store' = store /\ clash = {} /\ phase'[m] = to /\ pulled'[m] = (pulled[m] \/ to = "pulled")
  BY <1>0, <1>1, <1>2 DEF Fetch, Goto
<1>6. Dropped(m, w) /\ Spared(m, w, o) /\ RemoteSpared(m, w, o)
  BY <1>2 DEF Once, Withdrawal
<1>7. ~ Clash(head[m].rec[w], base[m].rec[w], remote.rec[w])
  BY <1>5 DEF Clashes
<1>8. onto.rec[w] = IF head[m].rec[w] = base[m].rec[w] THEN remote.rec[w] ELSE head[m].rec[w]
  BY RebasedRecord
<1>9. remote.rec[o] > 0 \/ head[m].rec[o] > 0 => onto.rec[o] > 0
  BY <1>0, RebasedStays DEF Once
<1> HIDE DEF onto, clash
<1>10. head[m].rec[w] \in Nat /\ base[m].rec[w] \in Nat /\ remote.rec[w] \in Nat
  <2>1. head[m] \in Tree /\ base[m] \in Tree /\ remote \in Tree
    BY <1>0
  <2> QED BY <2>1 DEF Tree
<1>11. ASSUME remote.rec[w] = 0
       PROVE  onto.rec[w] = 0 /\ (~ pulled'[m] => store[m].ver[w] = 0)
  <2>1. onto.rec[w] = 0
    BY <1>6, <1>7, <1>8, <1>10, <1>11 DEF Dropped, Clash
  <2>2. ~ pulled'[m] => base[m].rec[w] = 0 /\ ~ pulled[m]
    BY <1>0, <1>1, <1>2, <1>5 DEF CycleOk
  <2> QED BY <1>6, <2>1, <2>2 DEF Dropped
<1>12. remote.rec[w] > 0 /\ onto.rec[w] = 0 => onto.rec[o] > 0
  BY <1>6, <1>8, <1>9, <1>10 DEF Spared
<1>13. ASSUME store[m].ver[w] > 0, onto.rec[w] = 0  PROVE onto.rec[o] > 0
  <2>1. CASE base[m].rec[w] = 0
    <3>1. phase[m] = "rejected" /\ tree[m].rec[w] = 0
      BY <1>1, <1>2, <1>6, <1>13, <2>1 DEF Dropped
    <3>2. head[m].rec[o] > 0
      BY <1>2, <1>6, <1>13, <3>1 DEF Spared, Clean
    <3> QED BY <1>9, <3>2
  <2>2. CASE base[m].rec[w] > 0
    BY <1>6, <1>8, <1>9, <1>10, <1>13, <2>2 DEF Spared, RemoteSpared
  <2> QED BY <1>10, <2>1, <2>2
<1>14. Dropped(m, w)'
  BY <1>1, <1>3, <1>4, <1>5, <1>11 DEF Dropped
<1>15. Spared(m, w, o)'
  BY <1>1, <1>3, <1>4, <1>5, <1>12, <1>13 DEF Spared
<1> QED BY <1>14, <1>15

LEMMA TraceCycle ==
  ASSUME NEW w \in Ids, NEW o \in Ids, Once(w, o), NEW m \in Machines, m \notin stopped,
         Read(m) \/ Publish(m) \/ Commit(m) \/ PullNothing(m) \/ NothingToSend(m) \/ Rejected(m)
  PROVE  Dropped(m, w)' /\ Spared(m, w, o)'
<1>0. /\ Types /\ CycleOk(m) /\ store \in [Machines -> Store] /\ snap \in [Machines -> Store]
      /\ tree \in [Machines -> Tree] /\ head \in [Machines -> Tree]
      /\ phase \in [Machines -> Phases] /\ pulled \in [Machines -> BOOLEAN]
  BY DEF Once, QuietInv, PathInv, RecordInv, Types, TypeOK
<1>1. Dropped(m, w) /\ Spared(m, w, o)
  BY DEF Once, Withdrawal
<1>2. CASE Publish(m)
  <2>1. snap[m].ver = store[m].ver
    BY <1>2 DEF Publish, Once, QuietInv, PathInv, PathOk
  <2>2. /\ tree'[m] = Published(m) /\ store'[m] = WithRepos(m) /\ UNCHANGED <<head, base, pulled>>
        /\ phase[m] = "read" /\ phase'[m] = "published"
    BY <1>0, <1>2 DEF Publish, Goto
  <2>3. store'[m].ver = store[m].ver
    BY <1>0, <2>1, <2>2 DEF WithRepos, Store
  <2>4. \A v \in Ids : tree'[m].rec[v] = IF store[m].ver[v] > 0 THEN store[m].ver[v]
                                         ELSE tree[m].rec[v]
    BY <1>0, <2>1, <2>2 DEF Published, Tree
  <2>5. Dropped(m, w)'
    BY <1>1, <2>2, <2>3, <2>4 DEF Dropped
  <2>6. tree'[m].rec[w] = 0 => tree[m].rec[w] = 0
    BY <2>4
  <2>7. Spared(m, w, o)'
    BY <1>1, <2>2, <2>3, <2>4, <2>6 DEF Spared
  <2> QED BY <2>5, <2>7
<1>3. CASE Commit(m)
  <2>1. /\ phase[m] = "published" /\ phase'[m] = "committed" /\ head'[m] = tree[m]
        /\ UNCHANGED <<store, tree, base, pulled>>
    BY <1>0, <1>3 DEF Commit, Goto
  <2> QED BY <1>1, <2>1 DEF Dropped, Spared
<1>4. CASE Read(m)
  <2>1. phase[m] = "idle" /\ phase'[m] = "read" /\ UNCHANGED <<store, tree, head, base>>
    BY <1>0, <1>4 DEF Read, Goto, disk
  <2> QED BY <1>1, <2>1 DEF Dropped, Spared
<1>5. CASE PullNothing(m)
  <2>1. /\ phase[m] = "committed" /\ phase'[m] = "pulled"
        /\ UNCHANGED <<store, tree, head, base, pulled>>
    BY <1>0, <1>5 DEF PullNothing, Goto, disk
  <2>2. base[m].rec[w] = 0 \/ base[m].rec[w] > 0
    BY <1>0 DEF Types, TypeOK, Tree
  <2> QED BY <1>1, <2>1, <2>2 DEF Dropped, Spared
<1>6. CASE NothingToSend(m)
  <2>1. phase[m] = "pulled" /\ m \in upstream /\ UNCHANGED <<store, tree, head, base, pulled>>
    BY <1>6 DEF NothingToSend, Ahead, disk
  <2>2. phase'[m] = "sent"
    BY <1>0, <1>6, <2>1 DEF NothingToSend, Finished, Goto, CycleOk
  <2> QED BY <1>1, <2>1, <2>2 DEF Dropped, Spared
<1>7. CASE Rejected(m)
  <2>1. /\ phase[m] = "pulled" /\ phase'[m] = "rejected"
        /\ UNCHANGED <<store, tree, head, base, pulled>>
    BY <1>0, <1>7 DEF Rejected, Goto, CycleOk, disk
  <2> QED BY <1>1, <2>1 DEF Dropped, Spared
<1> QED BY <1>2, <1>3, <1>4, <1>5, <1>6, <1>7

LEMMA TracePush ==
  ASSUME NEW w \in Ids, NEW o \in Ids, Once(w, o), NEW m \in Machines, Push(m)
  PROVE  /\ m \notin stopped => Dropped(m, w)' /\ Spared(m, w, o)'
         /\ \A k \in Machines : RemoteSpared(k, w, o)'
<1>0. /\ Types /\ RecordInv /\ CycleOk(m) /\ (m \notin stopped => VersionsOk(m))
      /\ store \in [Machines -> Store] /\ head \in [Machines -> Tree]
      /\ base \in [Machines -> Tree] /\ remote \in Tree
      /\ phase \in [Machines -> Phases] /\ pulled \in [Machines -> BOOLEAN]
  BY DEF Once, QuietInv, PathInv, RecordInv, Types, TypeOK
<1>1. /\ remote' = head[m] /\ base' = [base EXCEPT ![m] = head[m]]
      /\ UNCHANGED <<store, tree, head, pulled>>
      /\ phase[m] \in {"pulled", "repulled"}
      /\ phase'[m] = IF pulled[m] THEN "sent" ELSE "idle"
  BY <1>0 DEF Push, Finished, Goto, End
<1>2. Clean(m) /\ m \notin stopped
  BY <1>0, <1>1 DEF CycleOk
<1>3. Dropped(m, w) /\ Spared(m, w, o) /\ RemoteSpared(m, w, o)
  BY <1>2 DEF Once, Withdrawal
<1>4. head[m].rec[w] = 0 /\ ~ pulled[m] => store[m].ver[w] = 0
  <2>1. store[m].ver[w] \in Nat
    BY <1>0 DEF Store
  <2>2. ~ pulled[m] /\ store[m].ver[w] > 0 => tree[m].rec[w] = store[m].ver[w]
    BY <1>0, <1>1, <1>2 DEF VersionsOk, Records
  <2> QED BY <1>2, <2>1, <2>2 DEF Clean
<1>5. base'[m] = head[m] /\ tree'[m].rec = head[m].rec
  BY <1>0, <1>1, <1>2 DEF Clean
<1>6. Dropped(m, w)'
  BY <1>1, <1>4, <1>5 DEF Dropped
<1>7. head[m].rec[w] > 0 => ~ (head[m].rec[w] = 0)
  OBVIOUS
<1>8. Spared(m, w, o)'
  BY <1>1, <1>3, <1>5, <1>7 DEF Spared
<1>9. ASSUME NEW k \in Machines, base'[k].rec[w] > 0, head[m].rec[w] = 0
      PROVE  head[m].rec[o] > 0
  <2>1. k # m /\ base[k].rec[w] > 0
    BY <1>0, <1>1, <1>7, <1>9
  <2>2. base[m] = remote
    <3>1. tip # {}
      <4>1. base[k] # Blank
        BY <2>1 DEF Blank
      <4> QED BY <1>0, <4>1 DEF RecordInv, TipIsBase
    <3> QED BY <1>0, <3>1 DEF Push, Exists, RecordInv, TipIsBase
  <2>3. remote.rec[w] \in Nat /\ head[m].rec[o] \in Nat
    <3>1. head[m] \in Tree
      BY <1>0
    <3> QED BY <1>0, <3>1 DEF Tree
  <2>4. CASE remote.rec[w] > 0
    BY <1>3, <1>9, <2>2, <2>4 DEF Spared
  <2>5. CASE remote.rec[w] = 0
    <3>1. base[m].rec[o] > 0
      BY <2>1, <2>2, <2>5 DEF Once, RemoteSpared
    <3>2. o \notin gone
      BY DEF Once
    <3> QED BY <1>0, <2>3, <3>1, <3>2 DEF RecordInv, RecordChain
  <2> QED BY <2>3, <2>4, <2>5
<1>10. \A k \in Machines : RemoteSpared(k, w, o)'
  BY <1>1, <1>9 DEF RemoteSpared
<1> QED BY <1>6, <1>8, <1>10

LEMMA TraceAdopt ==
  ASSUME NEW w \in Ids, NEW o \in Ids, Once(w, o), NEW m \in Machines, Adopt(m)
  PROVE  Dropped(m, w)' /\ Spared(m, w, o)'
<1>0. /\ Types /\ AllAccounted /\ CycleOk(m) /\ store \in [Machines -> Store]
      /\ tree \in [Machines -> Tree] /\ phase \in [Machines -> Phases]
  BY DEF Once, QuietInv, PathInv, RecordInv, Types, TypeOK
<1>1. /\ phase[m] = "sent" /\ phase'[m] = "idle" /\ store'[m] = Adopted(m)
      /\ UNCHANGED <<head, base>>
  BY <1>0 DEF Adopt, End
<1>2. m \notin stopped /\ tree[m].rec = head[m].rec /\ head[m].rec = base[m].rec
  BY <1>0, <1>1 DEF CycleOk, Clean
<1>3. Dropped(m, w) /\ Spared(m, w, o)
  BY <1>2 DEF Once, Withdrawal
<1>4. /\ Withdrawn(m) = {}
      /\ \/ store'[m].ver = tree[m].rec
         \/ store'[m].ver = store[m].ver /\ {v \in Ids : tree[m].rec[v] > 0} = {}
  BY <1>0, <1>1, AdoptedAll
<1>5. tree'[m].rec = tree[m].rec
  <2>1. [v \in Ids |-> IF v \in Withdrawn(m) THEN 0 ELSE tree[m].rec[v]] = tree[m].rec
    BY <1>0, <1>4 DEF Tree
  <2> QED BY <1>0, <2>1 DEF Adopt, Tree
<1>6. store[m].ver[w] \in Nat
  BY <1>0 DEF Store
<1>7. base[m].rec[w] = 0 => store'[m].ver[w] = 0
  <2>1. CASE store'[m].ver = tree[m].rec
    BY <1>2, <2>1
  <2>2. CASE store'[m].ver = store[m].ver /\ ~ (tree[m].rec[o] > 0)
    BY <1>1, <1>2, <1>3, <1>6, <2>2 DEF Spared
  <2> QED BY <1>4, <2>1, <2>2
<1>8. Dropped(m, w)'
  BY <1>1, <1>2, <1>5, <1>7 DEF Dropped
<1>9. base[m].rec[w] > 0 => ~ (base[m].rec[w] = 0)
  OBVIOUS
<1>10. Spared(m, w, o)'
  BY <1>1, <1>2, <1>5, <1>9 DEF Spared
<1> QED BY <1>8, <1>10

\* Nobody adds what was removed, or edits what a list does not have.
LEMMA TracePeople ==
  ASSUME NEW w \in Ids, NEW o \in Ids, Once(w, o), NEW m \in Machines, m \notin stopped,
         \/ \E v \in Ids : Add(m, v) \/ Edit(m, v) \/ Locate(m, v) \/ Pin(m, v)
         \/ \E v \in Ids, n \in Notes : WriteNote(m, v, n)
  PROVE  Dropped(m, w)' /\ Spared(m, w, o)'
<1>0. /\ Types /\ store \in [Machines -> Store] /\ tree \in [Machines -> Tree]
      /\ clock \in Nat /\ ~ left.busy /\ w \in made
  BY DEF Once, Origin, QuietInv, Quiet, PathInv, RecordInv, Types, TypeOK
<1>1. Dropped(m, w) /\ Spared(m, w, o)
  BY DEF Once, Withdrawal
<1>2. UNCHANGED <<head, base, phase, pulled>>
  BY DEF Add, Edit, Locate, Pin, WriteNote, GitAlone, cycle
<1>3. ASSUME NEW v \in Ids, Locate(m, v) \/ Pin(m, v)  PROVE Dropped(m, w)' /\ Spared(m, w, o)'
  <2>1. tree' = tree /\ store'[m].ver = store[m].ver
    BY <1>0, <1>3 DEF Locate, Pin, Saved, Store
  <2> QED BY <1>1, <1>2, <2>1, TraceUntouched
<1>4. ASSUME NEW v \in Ids, NEW n \in Notes, WriteNote(m, v, n)
      PROVE  Dropped(m, w)' /\ Spared(m, w, o)'
  <2>1. store' = store /\ tree' = [tree EXCEPT ![m].at[n] = v]
    BY <1>4 DEF WriteNote
  <2>2. tree'[m].rec = tree[m].rec
    BY <1>0, <2>1 DEF Tree
  <2> QED BY <1>1, <1>2, <2>1, <2>2, TraceUntouched
<1>5. ASSUME NEW v \in Ids, Add(m, v) \/ Edit(m, v)
      PROVE  Dropped(m, w)' /\ Spared(m, w, o)'
  <2>1. phase[m] = "idle" /\ tree' = tree
    BY <1>0, <1>5 DEF Add, Edit, Free
  <2>2. PICK ver : ver = [store[m].ver EXCEPT ![v] = clock + 1]
    OBVIOUS
  <2>3. store'[m].ver = ver
    <3>1. CASE Add(m, v)
      <4>1. store'[m] = [store[m] EXCEPT !.ver[v] = clock + 1, !.located = @ \cup {v}]
        BY <1>0, <3>1 DEF Add, Saved
      <4> QED BY <1>0, <2>2, <4>1 DEF Store
    <3>2. CASE Edit(m, v)
      <4>1. store'[m] = [store[m] EXCEPT !.ver[v] = clock + 1]
        BY <1>0, <3>2 DEF Edit, Saved
      <4> QED BY <1>0, <2>2, <4>1 DEF Store
    <3> QED BY <1>5, <3>1, <3>2
  <2>4. store[m].ver \in [Ids -> Nat]
    BY <1>0 DEF Store
  <2>5. v = w => store[m].ver[w] > 0
    <3>1. Add(m, v) => v \notin made
      BY DEF Add
    <3>2. Edit(m, v) => store[m].ver[v] > 0
      BY DEF Edit, Records
    <3> QED BY <1>0, <1>5, <3>1, <3>2
  <2>6. store[m].ver[w] = 0 => ver[w] = 0
    BY <2>2, <2>4, <2>5
  <2>7. store[m].ver[o] > 0 => ver[o] > 0
    BY <1>0, <2>2, <2>4
  <2>8. Dropped(m, w)'
    BY <1>1, <1>2, <2>1, <2>3, <2>6 DEF Dropped
  <2>9. Spared(m, w, o)'
    BY <1>1, <1>2, <2>1, <2>3, <2>7 DEF Spared
  <2> QED BY <2>8, <2>9
<1> QED BY <1>3, <1>4, <1>5

\* Only a push, of the machine that pushes, makes the remote lack a record a base has.
LEMMA RemoteSparedStep ==
  ASSUME NEW w \in Ids, NEW o \in Ids, Once(w, o), [Next]_vars, NEW k \in Machines
  PROVE  RemoteSpared(k, w, o)'
<1>0. /\ Types /\ Quiet /\ AllAccounted /\ base \in [Machines -> Tree] /\ RemoteSpared(k, w, o)
      /\ CycleOk(k)
  BY DEF Once, QuietInv, PathInv, RecordInv, Types, TypeOK
<1>1. CASE \E m \in Machines : Push(m)
  BY <1>1, TracePush
<1>2. CASE ~ \E m \in Machines : Push(m)
  <2>1. remote' = remote
    BY <1>2, OnlyPushes
  <2>2. base'[k] = base[k] \/ base'[k] = remote
    <3>1. CASE Pull(k) \/ Repull(k)
      <4>1. PICK from, to : Fetch(k, from, to)
        BY <3>1 DEF Pull, Repull
      <4> QED BY <1>0, <4>1 DEF Fetch
    <3>2. ASSUME Loop(k) \/ CutShort(k) \/ People(k), ~ (Pull(k) \/ Repull(k))
          PROVE  base' = base
      BY <1>0, <1>2, <3>2, QuietSteps
         DEF Read, Publish, Commit, PullNothing, NothingToSend, Rejected, Adopt, Add, Edit,
             Locate, Remove, Pin, WriteNote, GitAlone, disk
    <3>3. ASSUME NEW m \in Machines, m # k, Loop(m) \/ CutShort(m) \/ People(m)
          PROVE  base'[k] = base[k]
      BY <1>0, <3>3, OthersAsWell
    <3>4. UNCHANGED vars => base' = base
      BY DEF vars, disk
    <3> QED BY <3>1, <3>2, <3>3, <3>4 DEF Next
  <2>3. remote.rec[w] > 0 => ~ (remote.rec[w] = 0)
    OBVIOUS
  <2> QED BY <1>0, <2>1, <2>2, <2>3 DEF RemoteSpared
<1> QED BY <1>1, <1>2

LEMMA OnceStep ==
  ASSUME NEW w \in Ids, NEW o \in Ids, Once(w, o), [Next]_vars
  PROVE  Once(w, o)'
<1>0. /\ Types /\ Quiet /\ AllAccounted /\ QuietInv /\ Origin /\ left.remove = 0 /\ gone = {w}
      /\ stopped \subseteq Machines
  BY DEF Once, QuietInv, PathInv, RecordInv, Types, TypeOK
<1>1. QuietInv' /\ Origin' /\ left'.remove = 0 /\ gone' = {w}
      /\ \A m \in Machines : ~ Remove(m, w)
  BY <1>0, QuietNext, OriginStep, SparedStep
<1>2. \A m \in Machines : RemoteSpared(m, w, o)'
  BY RemoteSparedStep
<1>3. ASSUME NEW m \in Machines, Loop(m) \/ CutShort(m) \/ People(m), m \notin stopped'
      PROVE  Dropped(m, w)' /\ Spared(m, w, o)'
  <2>1. m \notin stopped
    <3>1. CASE Pull(m) \/ Repull(m)
      <4>1. PICK from, to : Fetch(m, from, to)
        BY <3>1 DEF Pull, Repull
      <4> QED BY <1>3, <4>1 DEF Fetch
    <3>2. CASE ~ (Pull(m) \/ Repull(m))
      <4>1. stopped' = stopped
        BY <1>0, <1>3, <3>2, QuietSteps
           DEF Read, Publish, Commit, PullNothing, NothingToSend, Push, Rejected, Adopt, Add,
               Edit, Locate, Remove, Pin, WriteNote, GitAlone, disk
      <4> QED BY <1>3, <4>1
    <3> QED BY <3>1, <3>2
  <2>2. \A v \in Ids : ~ Remove(m, v)
    BY <1>0 DEF Remove, Spend
  <2> QED BY <1>0, <1>3, <2>1, <2>2, QuietSteps, TraceFetch, TraceCycle, TracePush, TraceAdopt,
             TracePeople
<1>4. ASSUME NEW m \in Machines, Loop(m) \/ CutShort(m) \/ People(m),
             NEW k \in Machines \ stopped', k # m
      PROVE  Dropped(k, w)' /\ Spared(k, w, o)'
  <2>1. /\ store'[k] = store[k] /\ tree'[k] = tree[k] /\ phase'[k] = phase[k]
        /\ head'[k] = head[k] /\ base'[k] = base[k] /\ pulled'[k] = pulled[k]
        /\ k \notin stopped
    BY <1>0, <1>4, OthersAlone, OthersAsWell
  <2>2. Dropped(k, w) /\ Spared(k, w, o)
    BY <2>1 DEF Once, Withdrawal
  <2> QED BY <2>1, <2>2, TraceUntouched
<1>5. ASSUME UNCHANGED vars, NEW k \in Machines \ stopped'
      PROVE  Dropped(k, w)' /\ Spared(k, w, o)'
  <2>1. UNCHANGED <<store, tree, head, base, phase, pulled, stopped>>
    BY <1>5 DEF vars, disk, cycle
  <2>2. Dropped(k, w) /\ Spared(k, w, o)
    BY <1>5, <2>1 DEF Once, Withdrawal
  <2> QED BY <2>1, <2>2, TraceUntouched
<1>6. \A k \in Machines \ stopped' : Dropped(k, w)' /\ Spared(k, w, o)'
  BY <1>3, <1>4, <1>5 DEF Next
<1>7. ASSUME NEW k \in Machines \ stopped'  PROVE Level(k)'
  <2>1. k \notin stopped => Level(k)
    BY DEF Once, Withdrawal
  <2> QED BY <1>0, <2>1, LevelStep
<1>8. o # w
  BY DEF Once
<1> QED BY <1>1, <1>2, <1>6, <1>7, <1>8 DEF Once, Withdrawal

\* What one removal leaves behind it.
LEMMA OnceBegins ==
  ASSUME NEW k \in Machines, NEW w \in Ids, Remove(k, w), QuietInv, Origin, Level(k),
         \A m \in Machines \ stopped : Level(m), gone = {}, left.remove <= 1, ~ left.last
  PROVE  \E o \in Ids : Once(w, o)'
<1>0. /\ Types /\ Quiet /\ RecordChain /\ People(k) /\ store \in [Machines -> Store]
      /\ tree \in [Machines -> Tree] /\ head \in [Machines -> Tree] /\ base \in [Machines -> Tree]
      /\ remote \in Tree
  BY DEF QuietInv, PathInv, RecordInv, Types, TypeOK, People
<1>1. /\ phase[k] = "idle" /\ k \notin stopped /\ gone' = {w}
      /\ UNCHANGED <<head, base, phase, stopped, remote, pulled>>
  BY <1>0 DEF Remove, Free, GitAlone, shared, cycle, Quiet
<1>2. PICK o \in Ids : o # w /\ store[k].ver[o] > 0
  BY DEF Remove, Records
<1>3. left'.remove = 0
  BY DEF Quiet, Budgets, QuietInv, Remove, Spend
<1>4. QuietInv' /\ Origin'
  BY <1>0, QuietNext, OriginStep DEF Next
<1>5. \A m \in Machines : RemoteSpared(m, w, o)'
  BY <1>0, <1>1 DEF RecordChain, RemoteSpared
<1>6. \A m \in Machines \ stopped' : Level(m)'
  BY <1>1 DEF Level
<1>7. Has(k, w)
  BY DEF Remove, Records, Has
<1>8. ASSUME NEW m \in Machines  PROVE base[m].rec[w] = 0 => m = k \/ ~ Has(m, w)
  <2>1. base[m].rec[w] \in Nat /\ base[k].rec[w] \in Nat /\ remote.rec[w] \in Nat
    BY <1>0 DEF Tree
  <2>2. base[k].rec[w] > 0 => remote.rec[w] > 0
    BY <1>0, <2>1 DEF RecordChain
  <2> QED BY <1>7, <2>1, <2>2 DEF Origin
<1>9. /\ store'[k].ver[w] = 0 /\ store'[k].ver[o] = store[k].ver[o] /\ tree'[k].rec[w] = 0
  <2>1. /\ tree' = [tree EXCEPT ![k].rec[w] = 0]
        /\ store'[k] = [store[k] EXCEPT !.ver[w] = 0, !.located = @ \ {w}, !.known = @ \ {w}]
    BY <1>0 DEF Remove, Saved
  <2> QED BY <1>0, <1>2, <2>1 DEF Store, Tree
<1>10. Dropped(k, w)' /\ Spared(k, w, o)'
  <2>1. head[k].rec[w] = base[k].rec[w]
    BY <1>1 DEF Level
  <2>2. Dropped(k, w)'
    BY <1>1, <1>9, <2>1 DEF Dropped
  <2>3. base[k].rec[w] > 0 => ~ (base[k].rec[w] = 0)
    OBVIOUS
  <2>4. Spared(k, w, o)'
    BY <1>1, <1>2, <1>9, <2>1, <2>3 DEF Spared
  <2> QED BY <2>2, <2>4
<1>11. ASSUME NEW m \in Machines, m # k  PROVE Dropped(m, w)' /\ Spared(m, w, o)'
  <2>1. store'[m] = store[m] /\ tree'[m] = tree[m]
    BY <1>0, <1>11, OthersAlone
  <2>2. /\ store[m].ver[w] \in Nat /\ tree[m].rec[w] \in Nat /\ head[m].rec[w] \in Nat
        /\ base[m].rec[w] \in Nat
    <3>1. store[m] \in Store /\ tree[m] \in Tree /\ head[m] \in Tree /\ base[m] \in Tree
      BY <1>0
    <3> QED BY <3>1 DEF Store, Tree
  <2>3. Dropped(m, w)
    BY <1>8, <1>11, <2>2 DEF Dropped, Has
  <2>4. /\ base[m].rec[w] > 0 => head[m].rec[w] > 0
        /\ head[m].rec[w] > 0 => tree[m].rec[w] > 0
    BY <1>0, <2>2 DEF RecordChain
  <2>5. phase[m] \in {"pulled", "rejected", "repulled", "sent"} =>
          (store[m].ver[w] > 0 => tree[m].rec[w] > 0)
    BY DEF QuietInv, PathInv, PathOk, Records
  <2>6. Spared(m, w, o)
    BY <2>2, <2>4, <2>5 DEF Spared
  <2> QED BY <1>1, <2>1, <2>3, <2>6, TraceUntouched
<1>12. \A m \in Machines : Dropped(m, w)' /\ Spared(m, w, o)'
  BY <1>10, <1>11
<1>13. Once(w, o)'
  BY <1>1, <1>2, <1>3, <1>4, <1>5, <1>6, <1>12 DEF Once, Withdrawal
<1> QED BY <1>13

\* No record was removed yet, or one was and another is left.
DeletedInv ==
  /\ QuietInv /\ Origin /\ ~ left.last
  /\ \A m \in Machines : m \notin stopped => Level(m)
  /\ \/ gone = {} /\ left.remove <= 1
     \/ \E w, o \in Ids : Once(w, o)

LEMMA DeletedSpent ==
  ASSUME left \in Budgets, ~ left.last, NEW n \in Nat, left.remove <= n,
         NEW k \in {"add", "edit", "locate", "remove", "pin", "note"},
         left[k] > 0, left' = [left EXCEPT ![k] = @ - 1]
  PROVE  ~ left'.last /\ left'.remove <= n
<1>1. left.remove \in Nat
  BY DEF Budgets
<1> QED BY <1>1 DEF Budgets

LEMMA DeletedStep ==
  ASSUME DeletedInv, [Next]_vars
  PROVE  DeletedInv'
<1>0. Types /\ Quiet /\ AllAccounted /\ left \in Budgets
  BY DEF DeletedInv, QuietInv, PathInv, RecordInv, Quiet
<1>1. QuietInv' /\ Origin'
  BY QuietNext, OriginStep DEF DeletedInv
<1>2. ASSUME NEW m \in Machines, m \notin stopped'  PROVE Level(m)'
  <2>1. m \notin stopped => Level(m)
    BY DEF DeletedInv
  <2> QED BY <1>2, <2>1, LevelStep DEF DeletedInv
<1>3. ~ left'.last /\ (left.remove <= 1 => left'.remove <= 1)
  <2>1. ASSUME NEW m \in Machines, Loop(m) \/ CutShort(m) \/ People(m)
        PROVE  left' = left \/ \E k \in {"add", "edit", "locate", "remove", "pin", "note"} :
                                 Spend(k)
    BY <1>0, <2>1, QuietSteps
       DEF Read, Publish, Commit, PullNothing, Pull, Repull, Fetch, NothingToSend, Push, Rejected,
           Adopt, Add, Edit, Locate, Remove, Pin, WriteNote
  <2>2. UNCHANGED vars => left' = left
    BY DEF vars
  <2>3. left' = left \/ \E k \in {"add", "edit", "locate", "remove", "pin", "note"} : Spend(k)
    BY <2>1, <2>2 DEF Next
  <2>4. left.remove <= left.remove /\ left.remove \in Nat /\ 1 \in Nat
    BY <1>0 DEF Budgets
  <2>5. ASSUME NEW k \in {"add", "edit", "locate", "remove", "pin", "note"}, Spend(k)
        PROVE  ~ left'.last /\ (left.remove <= 1 => left'.remove <= 1)
    BY <1>0, <2>4, <2>5, DeletedSpent DEF Spend, DeletedInv
  <2> QED BY <2>3, <2>5 DEF DeletedInv
<1>4. CASE \E w, o \in Ids : Once(w, o)
  BY <1>1, <1>2, <1>3, <1>4, OnceStep DEF DeletedInv
<1>5. CASE gone = {} /\ left.remove <= 1
  <2>1. ASSUME NEW k \in Machines, NEW w \in Ids, Remove(k, w)
        PROVE  \E o \in Ids : Once(w, o)'
    <3>1. k \notin stopped
      BY <1>0, <2>1 DEF Remove, Free, Quiet
    <3> QED BY <1>5, <2>1, <3>1, OnceBegins DEF DeletedInv
  <2>2. ASSUME \A k \in Machines, w \in Ids : ~ Remove(k, w)  PROVE gone' = gone
    <3>1. ASSUME NEW m \in Machines, Loop(m) \/ CutShort(m) \/ People(m)  PROVE gone' = gone
      BY <1>0, <2>2, <3>1, QuietSteps
         DEF Read, Publish, Commit, PullNothing, Pull, Repull, Fetch, NothingToSend, Push,
             Rejected, Adopt, Add, Edit, Locate, Pin, WriteNote, history, past
    <3>2. UNCHANGED vars => gone' = gone
      BY DEF vars, history, past
    <3> QED BY <3>1, <3>2 DEF Next
  <2> QED BY <1>1, <1>2, <1>3, <1>5, <2>1, <2>2 DEF DeletedInv
<1> QED BY <1>4, <1>5 DEF DeletedInv

LEMMA DeletedInit == ASSUME Undisturbed, RemovedOnce  PROVE Init => DeletedInv
<1> SUFFICES ASSUME Init  PROVE DeletedInv
  OBVIOUS
<1>1. QuietInv
  BY QuietInit
<1>2. gone = {} /\ left.remove <= 1 /\ ~ left.last
  BY DEF Init, RemovedOnce
<1>3. ASSUME NEW m \in Machines
      PROVE  /\ Level(m) /\ base[m].rec = head[m].rec
             /\ \A w \in Ids : Has(m, w) <=> left.owner[w] = m
  <2>1. tree[m] = Blank /\ head[m] = Blank /\ base[m] = Blank
    BY DEF Init
  <2>2. PICK mine : mine = {w \in Ids : left.owner[w] = m}
    OBVIOUS
  <2>3. store[m] = [ver |-> [w \in Ids |-> IF w \in mine THEN 1 ELSE 0],
                    located |-> mine, known |-> {}, pin |-> None]
    BY <2>2 DEF Init
  <2>4. \A w \in Ids : Has(m, w) <=> w \in mine
    BY <2>1, <2>3 DEF Has, Blank
  <2> QED BY <2>1, <2>2, <2>4 DEF Level
<1>4. /\ remote = Blank /\ made = {w \in Ids : left.owner[w] # None}
      /\ \A w \in Ids : Blank.rec[w] = 0
  BY DEF Init, Blank
<1>5. \A m \in Machines : m # None
  BY NoneAssumption
<1>6. Origin
  BY <1>2, <1>3, <1>4, <1>5 DEF Origin
<1> QED BY <1>1, <1>2, <1>3, <1>6 DEF DeletedInv

\* What the remote does not have, no machine that may push it over the remote has.
LEMMA PushedWithout ==
  ASSUME NEW w \in Ids, NEW o \in Ids, Once(w, o), NEW m \in Machines, Push(m),
         remote.rec[w] = 0
  PROVE  remote'.rec[w] = 0
<1>0. TipIsBase /\ CycleOk(m) /\ (tip = {} => upstream = {})
  BY DEF Once, QuietInv, PathInv, RecordInv
<1>1. remote' = head[m] /\ m \notin stopped
  BY <1>0 DEF Push, CycleOk
<1>2. base[m].rec[w] = 0
  <2>1. CASE tip = {}
    BY <1>0, <2>1 DEF CycleOk
  <2>2. CASE tip # {}
    BY <1>0, <2>2 DEF Push, Exists, TipIsBase
  <2> QED BY <2>1, <2>2
<1> QED BY <1>1, <1>2 DEF Once, Withdrawal, Dropped

\* A deletion that reached the repository stays: no machine publishes again what
\* forget_workspace took out of it ("Deletion is an event", publish.rs), where one
\* record is removed, by a person who has another, and nothing comes between a
\* pull and its adoption.
THEOREM DeletedStaysOnce == ASSUME Undisturbed, RemovedOnce  PROVE Spec => DeletedStays
<1>1. DeletedInv /\ [Next]_vars => DeletedInv'
  BY DeletedStep
<1>2. DeletedInv /\ [Next]_vars =>
        [\A w \in gone : remote.rec[w] = 0 => remote'.rec[w] = 0]_vars
  <2> SUFFICES ASSUME DeletedInv, [Next]_vars, NEW w \in gone, remote.rec[w] = 0
               PROVE  remote'.rec[w] = 0
    OBVIOUS
  <2>1. PICK o \in Ids : Once(w, o) /\ w \in Ids
    BY DEF DeletedInv, Once
  <2> QED BY <2>1, OnlyPushes, PushedWithout
<1>3. Init => DeletedInv
  BY DeletedInit
<1> QED BY <1>1, <1>2, <1>3, PTL DEF Spec, DeletedStays
=============================================================================
