-------------------------- MODULE CardMovesProofs --------------------------
(***************************************************************************)
(* What holds of CardMoves for any names, folders, cards and budgets: the  *)
(* types, that a card is never nowhere, that the cards of other projects   *)
(* stay where they are, that no root is made where no folder is, and under *)
(* which circumstances no card is lost from sight.                         *)
(***************************************************************************)
EXTENDS CardMoves, TLAPS

\* A copy that waits for its original to be removed is whole, and elsewhere.
HalfIsWhole ==
  run # None /\ run.half # None =>
    run.from # run.to
    /\ (Whole(run.to, run.half) \/ WholeIn(hidden.disk[run.to], run.half))

\* A file has the name of a card that was filed, here or by another project.
FilesAreCards ==
  \A r \in Roots, c \in Cards :
    disk[r][c] # None \/ hidden.disk[r][c] # None => c \in ours \cup Foreign

ForeignIsOther ==
  /\ ours \cap Foreign = {}
  /\ \A r \in Roots, c \in Foreign :
       /\ disk[r][c] # None => disk[r][c].project \in {Other, None} /\ r # Here
       /\ hidden.disk[r][c] # None => hidden.disk[r][c].project \in {Other, None} /\ r # Here

ForeignIsNotMoved == run # None => run.todo \cap Foreign = {} /\ run.half \notin Foreign

\* Damaged cards are claimed in the folder inside the project only.
OwnIsHere == Prev(ws) # None /\ Prev(ws).own => Prev(ws).root = Here

Kept == TypeOK /\ HalfIsWhole /\ FilesAreCards /\ NeverNowhere
Apart == TypeOK /\ OwnIsHere /\ ForeignIsOther /\ ForeignIsNotMoved

USE DEF Files, Boards, WholeIn, volumes, place

---------------------------------------------------------------------------
(* Types. *)

LEMMA NoneIsApart ==
  /\ None \notin Names /\ None \notin Picks /\ None \notin Roots /\ None \notin Cards
  /\ Here # None /\ Here \in Roots /\ Here \notin Picks
  /\ Other \notin Names /\ Other # None /\ Foreign \subseteq Cards
<1>1. Here \in Roots
  BY DEF Roots
<1> QED BY <1>1, CardMovesAssumption

LEMMA OldIsARoot == ASSUME NEW p \in Picks PROVE Old(p) \in Roots
BY DEF Old, Roots

LEMMA RootIsARoot ==
  ASSUME NEW w, w.name \in Names, w.pick \in Trackers, w.pick # None
  PROVE  RootOf(w) \in Roots
BY DEF RootOf, Roots, Trackers

LEMMA NoRoot ==
  ASSUME NEW w, w.name \in Names, w.pick \in Trackers, RootOf(w) # None
  PROVE  RootOf(w) \in Roots
<1>1. w.pick # None
  BY NoneIsApart DEF RootOf
<1> QED BY <1>1, RootIsARoot

LEMMA PointerOf ==
  ASSUME NEW w \in [name : Names, pick : Trackers, prev : Pointer \cup {None}, current : BOOLEAN]
  PROVE  Prev(w) \in Pointer \cup {None}
<1>1. CASE w.prev = None /\ ~ w.current /\ w.pick \in Picks
  <2>1. Old(w.pick) \in Roots /\ w.name \in Names
    BY <1>1, OldIsARoot
  <2> QED BY <1>1, <2>1 DEF Prev, Pointer
<1>2. CASE ~ (w.prev = None /\ ~ w.current /\ w.pick \in Picks)
  <2>1. Prev(w) = w.prev
    BY <1>2 DEF Prev
  <2> QED BY <2>1
<1> QED BY <1>1, <1>2

LEMMA PrevIsAPointer == ASSUME TypeOK PROVE Prev(ws) \in Pointer \cup {None}
BY PointerOf DEF TypeOK

LEMMA PreviousIsAPointer ==
  ASSUME TypeOK, NEW new
  PROVE  Previous(ws, new) \in Pointer \cup {None}
<1> DEFINE was == IF Prev(ws) # None THEN Prev(ws)
                  ELSE [root |-> RootOf(ws), project |-> ws.name, own |-> ws.pick = Here]
<1>1. CASE RootOf(new) = None \/ was.root = None \/ was.root = RootOf(new)
  BY <1>1 DEF Previous
<1>2. CASE ~ (RootOf(new) = None \/ was.root = None \/ was.root = RootOf(new))
  <2>1. Previous(ws, new) = was
    BY <1>2 DEF Previous
  <2>2. CASE Prev(ws) # None
    BY <2>1, <2>2, PrevIsAPointer
  <2>3. CASE Prev(ws) = None
    <3>1. was = [root |-> RootOf(ws), project |-> ws.name, own |-> ws.pick = Here]
      BY <2>3
    <3>2. RootOf(ws) # None
      BY <1>2, <3>1
    <3>3. ws.name \in Names /\ ws.pick \in Trackers
      BY DEF TypeOK
    <3>4. RootOf(ws) \in Roots
      BY <3>2, <3>3, NoRoot
    <3>5. (ws.pick = Here) \in BOOLEAN
      OBVIOUS
    <3> HIDE DEF was
    <3> QED BY <2>1, <3>1, <3>3, <3>4, <3>5 DEF Pointer
  <2> QED BY <2>2, <2>3
<1> QED BY <1>1, <1>2

LEMMA NoneIsNoCard == ASSUME NEW v \in Card PROVE v # None
BY CardMovesAssumption

LEMMA NoneIsNoRun == ASSUME NEW v \in Running PROVE v # None
BY CardMovesAssumption

LEMMA ReadIsTyped ==
  ASSUME NEW bs \in [Roots -> {None, "default", "own"}], NEW r \in Roots
  PROVE  Read(bs, r) \in [Roots -> {None, "default", "own"}]
BY DEF Read

LEMMA CopiedIsTyped ==
  ASSUME NEW bs \in [Roots -> {None, "default", "own"}], NEW r \in Roots, NEW q \in Roots
  PROVE  Copied(bs, r, q) \in [Roots -> {None, "default", "own"}]
BY DEF Copied

LEMMA EnsuredIsTyped ==
  ASSUME dirs \subseteq Roots, NEW r \in Roots
  PROVE  Ensured(r) \subseteq Roots
BY DEF Ensured

LEMMA ClearedIsTyped ==
  ASSUME TypeOK
  PROVE  Cleared \in [name : Names, pick : Trackers, prev : Pointer \cup {None},
                      current : BOOLEAN]
BY DEF Cleared, TypeOK

LEMMA CarriedIsTyped ==
  ASSUME TypeOK, NEW c \in Cards, Movable(c)
  PROVE  Carried(c) \in Card
<1> USE NoneIsApart
<1>1. run \in [from : Roots, to : Roots, todo : SUBSET Cards, name : Names \cup {None},
               half : Cards \cup {None}, failed : BOOLEAN]
  BY DEF TypeOK, Movable, Moving, Running
<1>2. disk[run.from][c] \in Card
  BY <1>1 DEF TypeOK, Movable, Whole
<1>3. run.name = None \/ run.name \in Names
  BY <1>1
<1> QED BY <1>2, <1>3 DEF Carried, Card

\* What one file of the disk is set to, or one of each of two roots.
LEMMA SetIsTyped ==
  ASSUME disk \in [Roots -> [Cards -> Card \cup {None}]], NEW r \in Roots, NEW c \in Cards,
         NEW v \in Card \cup {None}
  PROVE  /\ [disk EXCEPT ![r][c] = v] \in [Roots -> [Cards -> Card \cup {None}]]
         /\ \A q \in Roots, k \in Cards :
              [disk EXCEPT ![r][c] = v][q][k] = IF q = r /\ k = c THEN v ELSE disk[q][k]
OBVIOUS

LEMMA UnusedIsACard ==
  ASSUME Unused # {}
  PROVE  /\ (CHOOSE c \in Unused : TRUE) \in Cards
         /\ (CHOOSE c \in Unused : TRUE) \notin ours \cup Foreign
<1>1. (CHOOSE c \in Unused : TRUE) \in Unused
  OBVIOUS
<1> QED BY <1>1 DEF Unused

LEMMA FiledCard ==
  ASSUME TypeOK, NEW r \in Roots, NEW n \in Names, NEW bs, Filed(r, n, bs)
  PROVE  \E c \in Cards, v \in Card :
           /\ c \notin ours \cup Foreign /\ ~ v.torn /\ v.project = n
           /\ disk' = [disk EXCEPT ![r][c] = v]
           /\ ours' = ours \cup {c}
<1> DEFINE c == CHOOSE c \in Unused : TRUE
           v == [project |-> n, own |-> bs[r] = "own", torn |-> FALSE]
<1>1. Unused # {} /\ disk' = [disk EXCEPT ![r][c] = v] /\ ours' = ours \cup {c}
  BY DEF Filed
<1>2. c \in Cards /\ c \notin ours \cup Foreign
  BY <1>1, UnusedIsACard
<1>3. v \in Card /\ ~ v.torn /\ v.project = n
  BY DEF Card
<1> HIDE DEF c, v
<1> QED BY <1>1, <1>2, <1>3

LEMMA FirstCard ==
  /\ (CHOOSE c \in Cards : c \notin Foreign) \in Cards
  /\ (CHOOSE c \in Cards : c \notin Foreign) \notin Foreign
<1>1. \E c \in Cards : c \notin Foreign
  BY CardMovesAssumption
<1> QED BY <1>1

---------------------------------------------------------------------------
(* The initial states. *)

Began(n, p, current, own, home, at, c) ==
  /\ ws = [name |-> n, pick |-> p, prev |-> None, current |-> current]
  /\ dirs = {home, at} \cup {Old(q) : q \in Picks}
  /\ disk = [r \in Roots |-> [k \in Cards |->
               IF r = home /\ k = c THEN [project |-> n, own |-> own, torn |-> FALSE]
               ELSE IF r = at /\ k \in Foreign
               THEN [project |-> Other, own |-> FALSE, torn |-> FALSE]
               ELSE None]]
  /\ boards = [r \in Roots |-> IF r # home THEN None
                               ELSE IF own THEN "own" ELSE "default"]
  /\ ours = {c}

LEMMA Beginning ==
  ASSUME Init
  PROVE  \E n \in Names, p \in Picks \cup {Here}, current \in BOOLEAN, own \in BOOLEAN,
            home \in Roots, at \in Roots \ {Here}, c \in Cards \ Foreign :
           Began(n, p, current, own, home, at, c)
<1> DEFINE c == CHOOSE c \in Cards : c \notin Foreign
           Start(n, p, current) ==
             IF current \/ p = Here THEN RootOf([name |-> n, pick |-> p]) ELSE Old(p)
<1>1. c \in Cards \ Foreign
  BY FirstCard
<1>2. ASSUME NEW n \in Names, NEW p \in Picks \cup {Here}, NEW current \in BOOLEAN
      PROVE  Start(n, p, current) \in Roots
  <2>1. CASE p = Here
    BY <2>1, NoneIsApart DEF RootOf
  <2>2. CASE p \in Picks
    <3>1. <<p, n>> \in Roots /\ <<p, None>> \in Roots
      BY <2>2 DEF Roots
    <3> QED BY <2>2, <3>1, NoneIsApart DEF RootOf, Old
  <2> QED BY <2>1, <2>2
<1>3. PICK n \in Names, p \in Picks \cup {Here}, current \in BOOLEAN, own \in BOOLEAN,
           at \in Roots \ {Here} :
        /\ ws = [name |-> n, pick |-> p, prev |-> None, current |-> current]
        /\ dirs = {Start(n, p, current), at} \cup {Old(q) : q \in Picks}
        /\ disk = [r \in Roots |-> [k \in Cards |->
                     IF r = Start(n, p, current) /\ k = c
                     THEN [project |-> n, own |-> own, torn |-> FALSE]
                     ELSE IF r = at /\ k \in Foreign
                     THEN [project |-> Other, own |-> FALSE, torn |-> FALSE]
                     ELSE None]]
        /\ boards = [r \in Roots |-> IF r # Start(n, p, current) THEN None
                                     ELSE IF own THEN "own" ELSE "default"]
        /\ ours = {c}
  BY DEF Init
<1>4. PICK home \in Roots : home = Start(n, p, current)
  BY <1>2
<1> HIDE DEF c, Start
<1>5. /\ dirs = {home, at} \cup {Old(q) : q \in Picks}
      /\ disk = [r \in Roots |-> [k \in Cards |->
                   IF r = home /\ k = c THEN [project |-> n, own |-> own, torn |-> FALSE]
                   ELSE IF r = at /\ k \in Foreign
                   THEN [project |-> Other, own |-> FALSE, torn |-> FALSE]
                   ELSE None]]
      /\ boards = [r \in Roots |-> IF r # home THEN None
                                   ELSE IF own THEN "own" ELSE "default"]
  BY <1>3, <1>4
<1>6. ws = [name |-> n, pick |-> p, prev |-> None, current |-> current] /\ ours = {c}
  BY <1>3
<1>7. Began(n, p, current, own, home, at, c)
  BY <1>5, <1>6 DEF Began
<1> QED BY <1>1, <1>7

LEMMA TypesBegin == ASSUME Init PROVE TypeOK
<1> USE NoneIsApart
<1>1. PICK n \in Names, p \in Picks \cup {Here}, current \in BOOLEAN, own \in BOOLEAN,
           home \in Roots, at \in Roots \ {Here}, c \in Cards \ Foreign :
        Began(n, p, current, own, home, at, c)
  BY Beginning
<1>2. ws \in [name : Names, pick : Trackers, prev : Pointer \cup {None}, current : BOOLEAN]
  BY <1>1 DEF Began, Trackers
<1>3. /\ dirs \subseteq Roots /\ ours \subseteq Cards /\ missed = {} /\ hollow = {}
      /\ {Old(q) : q \in Picks} \subseteq Roots
  <2>1. {Old(q) : q \in Picks} \subseteq Roots
    BY OldIsARoot
  <2>2. missed = {} /\ hollow = {}
    BY DEF Init
  <2> QED BY <1>1, <2>1, <2>2 DEF Began
<1>4. [project |-> n, own |-> own, torn |-> FALSE] \in Card
      /\ [project |-> Other, own |-> FALSE, torn |-> FALSE] \in Card
  BY DEF Card
<1>5. disk \in Files
  BY <1>1, <1>4 DEF Began
<1>6. boards \in Boards
  BY <1>1 DEF Began
<1>8. hidden \in [disk : Files, boards : Boards, dirs : SUBSET Roots]
  BY <1>3 DEF Init
<1>7. mounted \subseteq Picks /\ run = None /\ asked = FALSE
      /\ env = [s \in Sessions |-> None]
  BY DEF Init
<1> QED BY <1>2, <1>3, <1>5, <1>6, <1>7, <1>8 DEF TypeOK

---------------------------------------------------------------------------
(* Every action keeps the types. *)

LEMMA MigrateSets ==
  ASSUME TypeOK, Migrate
  PROVE  /\ boards' \in [Roots -> {None, "default", "own"}]
         /\ dirs' \subseteq Roots
         /\ missed' \subseteq Cards
         /\ \/ run' = None
            \/ \E from \in Roots, to \in Roots, n \in Names \cup {None},
                 todo \in SUBSET ClaimedAt(Prev(ws)) :
                 /\ Prev(ws) # None
                 /\ run' = [from |-> from, to |-> to, todo |-> todo, name |-> n, half |-> None,
                            failed |-> FALSE]
<1> DEFINE to == RootOf(ws)
           prev == Prev(ws)
           seen == Read(boards, to)
           both == Read(seen, prev.root)
           Reads(unread) ==
             /\ Skips(unread)
             /\ missed' = missed \cup PassedOver(prev, unread)
             /\ IF ClaimedAt(prev) \subseteq unread THEN boards' = both /\ run' = None
                ELSE /\ boards' = Copied(both, prev.root, to)
                     /\ run' = [from |-> prev.root, to |-> to, todo |-> ClaimedAt(prev) \ unread,
                                name |-> IF prev.project = ws.name THEN None ELSE ws.name,
                                half |-> None, failed |-> FALSE]
<1>1. ws.name \in Names /\ ws.pick \in Trackers /\ ws.pick # None /\ missed \subseteq Cards
  BY DEF TypeOK, Migrate
<1>2. to \in Roots
  BY <1>1, RootIsARoot
<1>3. prev \in Pointer \cup {None}
  BY PrevIsAPointer
<1>4. seen \in [Roots -> {None, "default", "own"}]
  BY <1>2, ReadIsTyped DEF TypeOK
<1>5. dirs' \subseteq Roots
  <2>1. dirs' = Ensured(to)
    BY DEF Migrate
  <2> QED BY <2>1, <1>2, EnsuredIsTyped DEF TypeOK
<1>6. CASE Reached(to) /\ prev # None /\ IsDir(prev.root)
  <2>1. prev.root \in Roots
    BY <1>3, <1>6 DEF Pointer
  <2>2. both \in [Roots -> {None, "default", "own"}]
    BY <1>4, <2>1, ReadIsTyped
  <2>3. Copied(both, prev.root, to) \in [Roots -> {None, "default", "own"}]
    BY <2>2, <2>1, <1>2, CopiedIsTyped
  <2>4. PICK unread \in SUBSET ClaimedAt(prev) : Reads(unread)
    BY <1>6 DEF Migrate
  <2>5. PICK n \in Names \cup {None} : n = IF prev.project = ws.name THEN None ELSE ws.name
    BY <1>1
  <2>6. PassedOver(prev, unread) \subseteq Cards
    BY DEF PassedOver, ClaimedHome, Claimed
  <2>7. missed' \subseteq Cards
    BY <1>1, <2>4, <2>6
  <2> HIDE DEF to, prev, seen, both
  <2>8. CASE ClaimedAt(prev) \subseteq unread
    BY <2>8, <2>4, <2>7, <2>2, <1>5
  <2>9. CASE ~ (ClaimedAt(prev) \subseteq unread)
    <3>1. PICK todo \in SUBSET ClaimedAt(prev) : todo = ClaimedAt(prev) \ unread
      OBVIOUS
    <3>2. run' = [from |-> prev.root, to |-> to, todo |-> todo, name |-> n,
                  half |-> None, failed |-> FALSE]
      BY <2>9, <2>4, <2>5, <3>1
    <3>3. boards' = Copied(both, prev.root, to)
      BY <2>9, <2>4
    <3> QED BY <3>2, <3>3, <2>1, <2>3, <2>7, <1>2, <1>5, <1>6 DEF prev
  <2> QED BY <2>8, <2>9
<1>7. CASE ~ (Reached(to) /\ prev # None /\ IsDir(prev.root))
  <2>1. boards' = seen /\ run' = None /\ missed' = missed
    BY <1>7 DEF Migrate
  <2> HIDE DEF seen
  <2> QED BY <2>1, <1>1, <1>4, <1>5
<1> QED BY <1>6, <1>7

LEMMA MoveSets ==
  ASSUME TypeOK, MoveStep
  PROVE  disk' \in [Roots -> [Cards -> Card \cup {None}]] /\ run' \in Running \cup {None}
<1> USE NoneIsApart
<1>1. run # None => run \in Running
  BY DEF TypeOK, Running
<1>2. disk \in [Roots -> [Cards -> Card \cup {None}]]
  BY DEF TypeOK
<1>3. ASSUME NEW c \in Cards, AlreadyThere(c) \/ Fail(c)
      PROVE  disk' = disk /\ run' \in Running
  BY <1>3, <1>1 DEF AlreadyThere, Fail, Moving, Running
<1>4. ASSUME NEW c \in Cards, Rename(c)
      PROVE  disk' \in [Roots -> [Cards -> Card \cup {None}]] /\ run' \in Running
  <2>1. run \in Running /\ disk[run.from][c] \in Card
    BY <1>4, <1>1, <1>2 DEF Rename, Movable, Moving, Whole, Running
  <2>2. disk' = [disk EXCEPT ![run.to][c] = disk[run.from][c], ![run.from][c] = None]
    BY <1>4 DEF Rename
  <2>3. run' = [run EXCEPT !.todo = @ \ {c}]
    BY <1>4 DEF Rename
  <2> QED BY <2>1, <2>2, <2>3, <1>2 DEF Running
<1>5. ASSUME NEW c \in Cards, Copy(c) \/ Tear(c)
      PROVE  disk' \in [Roots -> [Cards -> Card \cup {None}]] /\ run' \in Running
  <2>1. Movable(c)
    BY <1>5 DEF Copy, Tear
  <2>2. run \in Running
    BY <2>1, <1>1 DEF Movable, Moving
  <2>3. Carried(c) \in Card
    BY <2>1, CarriedIsTyped
  <2>4. CASE Copy(c)
    BY <2>4, <2>2, <2>3, <1>2 DEF Copy, Running
  <2>5. CASE Tear(c)
    <3>1. [Carried(c) EXCEPT !.torn = TRUE] \in Card
      BY <2>3 DEF Card
    <3>2. disk' = [disk EXCEPT ![run.to][c] = [Carried(c) EXCEPT !.torn = TRUE]]
      BY <2>5 DEF Tear
    <3>3. run' = [run EXCEPT !.todo = @ \ {c}, !.failed = TRUE]
      BY <2>5 DEF Tear
    <3> QED BY <3>1, <3>2, <3>3, <2>2, <1>2 DEF Running
  <2> QED BY <1>5, <2>4, <2>5
<1>6. CASE RemoveOriginal
  BY <1>6, <1>1, <1>2 DEF RemoveOriginal, Running
<1>7. CASE OriginalStays
  BY <1>7, <1>1, <1>2 DEF OriginalStays, Running
<1>8. CASE MigrateEnd
  BY <1>8, <1>2 DEF MigrateEnd
<1> QED BY <1>2, <1>3, <1>4, <1>5, <1>6, <1>7, <1>8 DEF MoveStep

LEMMA MoveLeaves ==
  ASSUME TypeOK, MoveStep
  PROVE  /\ UNCHANGED <<volumes, dirs, boards, hidden, env, asked, missed, ours>>
         /\ ws' \in [name : Names, pick : Trackers, prev : Pointer \cup {None},
                     current : BOOLEAN]
<1>1. ws \in [name : Names, pick : Trackers, prev : Pointer \cup {None}, current : BOOLEAN]
  BY DEF TypeOK
<1>2. CASE MigrateEnd
  BY <1>2, <1>1, ClearedIsTyped DEF MigrateEnd
<1>3. CASE ~ MigrateEnd
  BY <1>1, <1>3 DEF MoveStep, AlreadyThere, Rename, Copy, Fail, Tear, RemoveOriginal,
                    OriginalStays
<1> QED BY <1>2, <1>3

\* What a path shows and what no path leads to change places.
LEMMA TurnIsTyped ==
  ASSUME TypeOK, NEW p \in Picks, Turn(p)
  PROVE  /\ dirs' \subseteq Roots /\ disk' \in Files /\ boards' \in Boards
         /\ hidden' \in [disk : Files, boards : Boards, dirs : SUBSET Roots]
         /\ \A r \in Roots :
              IF r \in Below(p) THEN disk'[r] = hidden.disk[r] /\ hidden'.disk[r] = disk[r]
              ELSE disk'[r] = disk[r] /\ hidden'.disk[r] = hidden.disk[r]
<1>1. /\ dirs \subseteq Roots /\ disk \in Files /\ boards \in Boards
      /\ hidden.disk \in Files /\ hidden.boards \in Boards /\ hidden.dirs \subseteq Roots
  BY DEF TypeOK
<1>2. \A f \in Files, g \in Files : Turned(f, g, p) \in Files
  BY DEF Turned
<1>3. \A f \in Boards, g \in Boards : Turned(f, g, p) \in Boards
  BY DEF Turned
<1>4. /\ disk' = Turned(disk, hidden.disk, p) /\ hidden'.disk = Turned(hidden.disk, disk, p)
      /\ boards' = Turned(boards, hidden.boards, p)
      /\ hidden'.boards = Turned(hidden.boards, boards, p)
      /\ dirs' = (dirs \ Below(p)) \cup (hidden.dirs \cap Below(p))
      /\ hidden'.dirs = (hidden.dirs \ Below(p)) \cup (dirs \cap Below(p))
      /\ hidden' = [disk |-> hidden'.disk, boards |-> hidden'.boards, dirs |-> hidden'.dirs]
  BY DEF Turn
<1>5. /\ disk' \in Files /\ hidden'.disk \in Files /\ boards' \in Boards
      /\ hidden'.boards \in Boards /\ dirs' \subseteq Roots /\ hidden'.dirs \subseteq Roots
  <2> HIDE DEF Files, Boards
  <2> QED BY <1>1, <1>2, <1>3, <1>4
<1>6. hidden' \in [disk : Files, boards : Boards, dirs : SUBSET Roots]
  <2> HIDE DEF Files, Boards
  <2> QED BY <1>4, <1>5
<1>7. \A r \in Roots :
        IF r \in Below(p) THEN disk'[r] = hidden.disk[r] /\ hidden'.disk[r] = disk[r]
        ELSE disk'[r] = disk[r] /\ hidden'.disk[r] = hidden.disk[r]
  BY <1>4 DEF Turned
<1> QED BY <1>5, <1>6, <1>7

LEMMA TypesKept == ASSUME TypeOK, [Next]_vars PROVE TypeOK'
<1> USE NoneIsApart
<1>1. /\ ws \in [name : Names, pick : Trackers, prev : Pointer \cup {None},
                 current : BOOLEAN]
      /\ boards \in [Roots -> {None, "default", "own"}]
      /\ disk \in [Roots -> [Cards -> Card \cup {None}]]
      /\ env \in [Sessions -> [root : Roots, project : Names] \cup {None}]
      /\ asked \in BOOLEAN /\ ours \subseteq Cards /\ dirs \subseteq Roots
      /\ mounted \subseteq Picks /\ hollow \subseteq mounted /\ missed \subseteq Cards
  BY DEF TypeOK
<1>2. ws.pick # None => RootOf(ws) \in Roots
  BY <1>1, RootIsARoot
<1>3. Prev(ws) # None => Prev(ws) \in Pointer
  BY PrevIsAPointer
<1>4. ASSUME NEW n \in Names, NEW p \in Trackers, Save(n, p) PROVE TypeOK'
  <2> DEFINE new == [name |-> n, pick |-> p, prev |-> None, current |-> TRUE]
  <2>1. Previous(ws, new) \in Pointer \cup {None}
    BY PreviousIsAPointer
  <2>2. ws' = [new EXCEPT !.prev = Previous(ws, new)]
    BY <1>4 DEF Save
  <2>3. ws' \in [name : Names, pick : Trackers, prev : Pointer \cup {None},
                 current : BOOLEAN]
    BY <2>1, <2>2
  <2> QED BY <2>3, <1>4 DEF Save, TypeOK
<1>5. CASE Configure
  BY <1>5, <1>1, <1>2 DEF Configure, TypeOK
<1>6. CASE Poll
  <2>1. Read(boards, RootOf(ws)) \in [Roots -> {None, "default", "own"}]
        /\ Ensured(RootOf(ws)) \subseteq Roots
    BY <1>6, <1>1, <1>2, ReadIsTyped, EnsuredIsTyped DEF Poll
  <2> QED BY <2>1, <1>6 DEF Poll, TypeOK
<1>7. CASE Ask
  <2>1. Prev(ws).root \in Roots
    BY <1>7, <1>3 DEF Ask, Pointer
  <2>2. Read(boards, Prev(ws).root) \in [Roots -> {None, "default", "own"}]
    BY <2>1, <1>1, ReadIsTyped
  <2>3. PICK unread \in SUBSET ClaimedAt(Prev(ws)) :
          /\ asked' = Forgettable(Prev(ws), unread)
          /\ missed' = missed \cup PassedOver(Prev(ws), unread)
    BY <1>7 DEF Ask
  <2>4. asked' \in BOOLEAN /\ missed' \subseteq Cards
    BY <2>3, <1>1 DEF Forgettable, PassedOver, ClaimedHome, Claimed
  <2> QED BY <2>2, <2>4, <1>7 DEF Ask, TypeOK
<1>8. CASE Forget \/ Dismiss
  <2>1. ws' = Cleared /\ asked' \in BOOLEAN
        /\ UNCHANGED <<volumes, place, env, run, missed, ours>>
    BY <1>8, <1>1 DEF Forget, Dismiss
  <2> QED BY <2>1, ClearedIsTyped DEF TypeOK
<1>9. CASE Migrate
  <2>1. UNCHANGED <<ws, volumes, disk, hidden, env, asked, ours>>
    BY <1>9 DEF Migrate
  <2>2. run' = None \/ run' \in Running
    <3>1. \A todo \in SUBSET ClaimedAt(Prev(ws)) : todo \in SUBSET Cards
      BY DEF ClaimedAt, Claimed
    <3>2. ASSUME NEW from \in Roots, NEW to \in Roots, NEW n \in Names \cup {None},
                 NEW todo \in SUBSET Cards
          PROVE  [from |-> from, to |-> to, todo |-> todo, name |-> n, half |-> None,
                  failed |-> FALSE] \in Running
      BY DEF Running
    <3>3. CASE run' # None
      <4>1. PICK from \in Roots, to \in Roots, n \in Names \cup {None},
                 todo \in SUBSET ClaimedAt(Prev(ws)) :
              run' = [from |-> from, to |-> to, todo |-> todo, name |-> n, half |-> None,
                      failed |-> FALSE]
        BY <1>9, <3>3, MigrateSets
      <4> QED BY <4>1, <3>1, <3>2
    <3> QED BY <3>3
  <2> QED BY <2>1, <2>2, <1>9, MigrateSets DEF TypeOK, Running
<1>10. CASE MoveStep
  BY <1>10, MoveSets, MoveLeaves DEF TypeOK, Running
<1>11. CASE Create
  <2>1. RootOf(ws) \in Roots /\ ws.name \in Names
    BY <1>11, <1>1, <1>2 DEF Create
  <2>2. boards' \in [Roots -> {None, "default", "own"}] /\ dirs' \subseteq Roots
    BY <1>11, <2>1, <1>1, ReadIsTyped, EnsuredIsTyped DEF Create
  <2>3. disk' \in [Roots -> [Cards -> Card \cup {None}]] /\ ours' \subseteq Cards
    <3>1. Filed(RootOf(ws), ws.name, boards')
      BY <1>11 DEF Create
    <3>2. PICK c \in Cards, v \in Card : disk' = [disk EXCEPT ![RootOf(ws)][c] = v]
                                          /\ ours' = ours \cup {c}
      BY <3>1, <2>1, FiledCard
    <3> QED BY <3>2, <2>1, <1>1
  <2> QED BY <2>2, <2>3, <1>11 DEF Create, TypeOK
<1>12. ASSUME NEW s \in Sessions, StartSession(s) PROVE TypeOK'
  <2>1. RootOf(ws) \in Roots /\ ws.name \in Names
    BY <1>12, <1>1, <1>2 DEF StartSession
  <2>2. Ensured(RootOf(ws)) \subseteq Roots
    BY <2>1, <1>1, EnsuredIsTyped
  <2>3. env' \in [Sessions -> [root : Roots, project : Names] \cup {None}]
    BY <1>12, <2>1, <1>1 DEF StartSession
  <2> QED BY <2>2, <2>3, <1>12 DEF StartSession, TypeOK
<1>13. ASSUME NEW s \in Sessions, FileFromSession(s) PROVE TypeOK'
  <2>1. env[s].root \in Roots /\ env[s].project \in Names
    BY <1>13, <1>1 DEF FileFromSession
  <2>2. boards' \in [Roots -> {None, "default", "own"}]
    BY <1>13, <2>1, <1>1, ReadIsTyped DEF FileFromSession
  <2>3. disk' \in [Roots -> [Cards -> Card \cup {None}]] /\ ours' \subseteq Cards
    <3>1. Filed(env[s].root, env[s].project, boards')
      BY <1>13 DEF FileFromSession
    <3>2. PICK c \in Cards, v \in Card : disk' = [disk EXCEPT ![env[s].root][c] = v]
                                          /\ ours' = ours \cup {c}
      BY <3>1, <2>1, FiledCard
    <3> QED BY <3>2, <2>1, <1>1
  <2> QED BY <2>2, <2>3, <1>13 DEF FileFromSession, TypeOK
<1>14. ASSUME NEW r \in Roots, NEW c \in Cards, Damage(r, c) PROVE TypeOK'
  <2>1. disk[r][c] \in Card
    BY <1>14, <1>1 DEF Damage, Whole
  <2>2. disk' = [disk EXCEPT ![r][c].project = None]
    BY <1>14 DEF Damage
  <2>3. disk' \in [Roots -> [Cards -> Card \cup {None}]]
    <3>1. [disk[r][c] EXCEPT !.project = None] \in Card
      BY <2>1 DEF Card
    <3> QED BY <3>1, <2>2, <1>1
  <2> QED BY <2>3, <1>14 DEF Damage, TypeOK
<1>15. ASSUME NEW p \in Picks, Unmount(p) \/ Mount(p) PROVE TypeOK'
  <2>1. mounted' \subseteq Picks /\ hollow' \subseteq mounted'
        /\ UNCHANGED <<ws, env, run, asked, missed, ours>>
    BY <1>15, <1>1 DEF Unmount, Mount
  <2>2. (dirs' \subseteq Roots /\ disk' \in Files /\ boards' \in Boards
         /\ hidden' \in [disk : Files, boards : Boards, dirs : SUBSET Roots])
    BY <1>15, TurnIsTyped DEF Unmount, Mount, TypeOK
  <2> QED BY <2>1, <2>2 DEF TypeOK
<1>16. CASE Stop
  BY <1>16, <1>1 DEF Stop, TypeOK
<1>17. CASE UNCHANGED vars
  BY <1>17 DEF vars, TypeOK
<1> QED BY <1>4, <1>5, <1>6, <1>7, <1>8, <1>9, <1>10, <1>11, <1>12, <1>13, <1>14, <1>15,
           <1>16, <1>17 DEF Next

(* Every variable keeps its type, whatever people and faults do. *)
THEOREM TypeCorrect == Spec => []TypeOK
<1>1. Init => TypeOK
  BY TypesBegin
<1>2. TypeOK /\ [Next]_vars => TypeOK'
  BY TypesKept
<1> QED BY <1>1, <1>2, PTL DEF Spec

---------------------------------------------------------------------------
(* A card is never nowhere. *)

LEMMA KeptWhereFilesStay ==
  ASSUME Kept, UNCHANGED <<disk, hidden, ours>>,
         run' = run \/ run' = None \/ run'.half = None
  PROVE  (HalfIsWhole /\ FilesAreCards /\ NeverNowhere)'
BY DEF Kept, HalfIsWhole, FilesAreCards, NeverNowhere, Whole

\* What a volume hides or shows is still there.
LEMMA KeptWhereAVolumeTurns ==
  ASSUME Kept, NEW p \in Picks, Turn(p), UNCHANGED <<ours, run>>
  PROVE  (HalfIsWhole /\ FilesAreCards /\ NeverNowhere)'
<1>1. \A r \in Roots :
        \/ disk'[r] = hidden.disk[r] /\ hidden'.disk[r] = disk[r]
        \/ disk'[r] = disk[r] /\ hidden'.disk[r] = hidden.disk[r]
  <2>1. \A r \in Roots :
          IF r \in Below(p) THEN disk'[r] = hidden.disk[r] /\ hidden'.disk[r] = disk[r]
          ELSE disk'[r] = disk[r] /\ hidden'.disk[r] = hidden.disk[r]
    <3>1. TypeOK
      BY DEF Kept
    <3> QED BY <3>1, TurnIsTyped
  <2> QED BY <2>1
<1>2. \A r \in Roots, c \in Cards : Whole(r, c) \/ WholeIn(hidden.disk[r], c) =>
        Whole(r, c)' \/ WholeIn(hidden'.disk[r], c)
  BY <1>1 DEF Whole
<1>3. /\ run # None => run.to \in Roots /\ (run.half # None => run.half \in Cards)
      /\ ours \subseteq Cards
  BY DEF Kept, TypeOK, Running
<1>4. HalfIsWhole'
  BY <1>2, <1>3 DEF Kept, HalfIsWhole
<1>5. FilesAreCards'
  BY <1>1 DEF Kept, FilesAreCards
<1>6. NeverNowhere'
  BY <1>2, <1>3 DEF Kept, NeverNowhere
<1> QED BY <1>4, <1>5, <1>6

\* A card that is filed is new: it takes the place of no other.
LEMMA KeptWhereACardIsFiled ==
  ASSUME Kept, UNCHANGED <<run, hidden>>, NEW r \in Roots, NEW n \in Names, NEW bs,
         Filed(r, n, bs)
  PROVE  (HalfIsWhole /\ FilesAreCards /\ NeverNowhere)'
<1>1. PICK c \in Cards, v \in Card :
        /\ c \notin ours \cup Foreign /\ ~ v.torn
        /\ disk' = [disk EXCEPT ![r][c] = v]
        /\ ours' = ours \cup {c}
  BY FiledCard DEF Kept
<1>2. /\ disk \in [Roots -> [Cards -> Card \cup {None}]] /\ ours \subseteq Cards
      /\ run # None => run.to \in Roots /\ run.half \in Cards \cup {None}
  BY DEF Kept, TypeOK, Running
<1>3. v # None
  BY <1>1, NoneIsNoCard
<1>4. \A q \in Roots, k \in Cards : disk'[q][k] = IF q = r /\ k = c THEN v ELSE disk[q][k]
  BY <1>1, <1>2
<1>5. \A q \in Roots, k \in Cards : disk[q][k] # None => disk'[q][k] = disk[q][k]
  BY <1>1, <1>4 DEF Kept, FilesAreCards
<1>6. HalfIsWhole'
  BY <1>2, <1>5 DEF Kept, HalfIsWhole, Whole
<1>7. FilesAreCards'
  BY <1>1, <1>4 DEF Kept, FilesAreCards
<1>8. NeverNowhere'
  <2>1. ASSUME NEW k \in ours, k # c
        PROVE  \E q \in Roots : Whole(q, k)' \/ WholeIn(hidden'.disk[q], k)
    BY <2>1, <1>2, <1>5 DEF Kept, NeverNowhere, Whole
  <2>2. Whole(r, c)'
    BY <1>1, <1>3, <1>4 DEF Whole
  <2> QED BY <2>1, <2>2, <1>1 DEF NeverNowhere
<1> QED BY <1>6, <1>7, <1>8

LEMMA KeptWhereACardIsDamaged ==
  ASSUME Kept, NEW r \in Roots, NEW c \in Cards, Damage(r, c)
  PROVE  (HalfIsWhole /\ FilesAreCards /\ NeverNowhere)'
<1> DEFINE v == [disk[r][c] EXCEPT !.project = None]
<1>1. /\ disk \in [Roots -> [Cards -> Card \cup {None}]] /\ ours \subseteq Cards
      /\ run # None => run.to \in Roots /\ run.half \in Cards \cup {None}
  BY DEF Kept, TypeOK, Running
<1>2. /\ disk[r][c] \in Card /\ ~ disk[r][c].torn /\ c \in ours \cup Foreign
      /\ UNCHANGED <<run, ours, hidden>>
  BY <1>1 DEF Damage, Whole, Kept, FilesAreCards
<1>3. v \in Card /\ ~ v.torn
  BY <1>2, NoneIsApart DEF Card
<1>4. disk' = [disk EXCEPT ![r][c] = v]
  BY DEF Damage
<1> HIDE DEF v
<1>5. \A q \in Roots, k \in Cards : disk'[q][k] = IF q = r /\ k = c THEN v ELSE disk[q][k]
  BY <1>4, <1>1
<1>6. v # None
  BY <1>3, NoneIsNoCard
<1>7. \A q \in Roots, k \in Cards : Whole(q, k) => Whole(q, k)'
  BY <1>3, <1>5, <1>6 DEF Whole
<1>8. HalfIsWhole'
  BY <1>1, <1>2, <1>7 DEF Kept, HalfIsWhole
<1>9. FilesAreCards'
  BY <1>2, <1>5 DEF Kept, FilesAreCards
<1>10. NeverNowhere'
  BY <1>1, <1>2, <1>7 DEF Kept, NeverNowhere
<1> QED BY <1>8, <1>9, <1>10

\* The moves write a file where there was none before they take one away.
LEMMA KeptWhereACardIsMoved ==
  ASSUME Kept, NEW c \in Cards, Rename(c) \/ Copy(c) \/ Tear(c)
  PROVE  (HalfIsWhole /\ FilesAreCards /\ NeverNowhere)'
<1> USE NoneIsApart
<1>0. PICK from, to : from = run.from /\ to = run.to
  OBVIOUS
<1>1. /\ disk \in [Roots -> [Cards -> Card \cup {None}]] /\ ours \subseteq Cards
      /\ run \in Running /\ UNCHANGED <<ours, hidden>>
  BY DEF Kept, TypeOK, Rename, Copy, Tear, Movable, Moving, Running
<1>2. from \in Roots /\ to \in Roots /\ run.half = None
  BY <1>0, <1>1 DEF Rename, Copy, Tear, Movable, Moving, Running
<1>3. Movable(c)
  BY DEF Rename, Copy, Tear
<1>4. disk[to][c] = None /\ disk[from][c] \in Card /\ ~ disk[from][c].torn
  BY <1>0, <1>1, <1>2, <1>3 DEF Movable, Free, Whole, IsDir
<1>5. from # to
  BY <1>4, NoneIsNoCard
<1>6. c \in ours \cup Foreign
  BY <1>2, <1>4, NoneIsNoCard DEF Kept, FilesAreCards
<1>7. Carried(c) \in Card /\ ~ Carried(c).torn
  <2>1. Carried(c) \in Card
    BY <1>3, CarriedIsTyped DEF Kept
  <2>2. CASE run.name = None
    BY <2>1, <2>2, <1>0, <1>4 DEF Carried
  <2>3. CASE run.name # None
    BY <2>1, <2>3, <1>0, <1>4 DEF Carried, Card
  <2> QED BY <2>2, <2>3
<1>8. CASE Rename(c)
  <2> DEFINE v == disk[from][c]
  <2>1. disk' = [disk EXCEPT ![to][c] = v, ![from][c] = None]
    BY <1>0, <1>8 DEF Rename
  <2>2. run'.half = None
    BY <1>1, <1>2, <1>8 DEF Rename, Running
  <2>3. \A q \in Roots, k \in Cards :
          disk'[q][k] = IF q = from /\ k = c THEN None
                        ELSE IF q = to /\ k = c THEN v ELSE disk[q][k]
    BY <2>1, <1>1, <1>2, <1>5
  <2>4. FilesAreCards'
    BY <2>3, <1>1, <1>6 DEF Kept, FilesAreCards
  <2>5. Whole(to, c)'
    BY <2>3, <1>2, <1>4, <1>5, NoneIsNoCard DEF Whole
  <2>6. ASSUME NEW k \in ours, k # c
        PROVE  \E q \in Roots : Whole(q, k)' \/ WholeIn(hidden'.disk[q], k)
    BY <2>6, <2>3, <1>1 DEF Kept, NeverNowhere, Whole
  <2>7. NeverNowhere'
    BY <2>5, <2>6, <1>1, <1>2 DEF NeverNowhere
  <2> QED BY <2>2, <2>4, <2>7 DEF HalfIsWhole
<1>9. ASSUME NEW v \in Card, disk' = [disk EXCEPT ![to][c] = v]
      PROVE  FilesAreCards' /\ NeverNowhere'
  <2>1. \A q \in Roots, k \in Cards :
          disk'[q][k] = IF q = to /\ k = c THEN v ELSE disk[q][k]
    BY <1>9, <1>1, <1>2
  <2>2. FilesAreCards'
    BY <2>1, <1>1, <1>6 DEF Kept, FilesAreCards
  <2>3. \A q \in Roots, k \in Cards : Whole(q, k) => Whole(q, k)'
    BY <2>1, <1>4 DEF Whole
  <2>4. NeverNowhere'
    <3>1. \A k \in ours : k \in Cards
      BY <1>1
    <3> QED BY <2>3, <3>1, <1>1 DEF Kept, NeverNowhere
  <2> QED BY <2>2, <2>4
<1>10. CASE Copy(c)
  <2>1. disk' = [disk EXCEPT ![to][c] = Carried(c)] /\ run' = [run EXCEPT !.half = c]
    BY <1>0, <1>10 DEF Copy
  <2>2. run'.half = c /\ run'.from = from /\ run'.to = to
    BY <2>1, <1>0, <1>1 DEF Running
  <2>3. disk'[to][c] = Carried(c)
    BY <2>1, <1>1, <1>2
  <2>4. HalfIsWhole'
    BY <2>2, <2>3, <1>5, <1>7, NoneIsNoCard DEF HalfIsWhole, Whole
  <2> QED BY <2>1, <2>4, <1>7, <1>9
<1>11. CASE Tear(c)
  <2> DEFINE v == [Carried(c) EXCEPT !.torn = TRUE]
  <2>1. disk' = [disk EXCEPT ![to][c] = v]
    BY <1>0, <1>11 DEF Tear
  <2>2. v \in Card
    BY <1>7 DEF Card
  <2>3. run'.half = None
    BY <1>1, <1>2, <1>11 DEF Tear, Running
  <2> QED BY <2>1, <2>2, <2>3, <1>9 DEF HalfIsWhole
<1> QED BY <1>8, <1>10, <1>11

\* The original goes when the copy is whole, at another root.
LEMMA KeptWhereAnOriginalGoes ==
  ASSUME Kept, RemoveOriginal
  PROVE  (HalfIsWhole /\ FilesAreCards /\ NeverNowhere)'
<1> USE NoneIsApart
<1>0. PICK from, to, c : from = run.from /\ to = run.to /\ c = run.half
  OBVIOUS
<1>1. /\ disk \in [Roots -> [Cards -> Card \cup {None}]] /\ ours \subseteq Cards
      /\ run \in Running /\ c # None /\ UNCHANGED <<ours, hidden>>
  BY <1>0 DEF Kept, TypeOK, RemoveOriginal, Running
<1>2. from \in Roots /\ to \in Roots /\ c \in Cards
  BY <1>0, <1>1 DEF Running
<1>3. run'.half = None
  BY <1>1 DEF RemoveOriginal, Running
<1>4. disk' = [disk EXCEPT ![from][c] = None]
  BY <1>0 DEF RemoveOriginal
<1>5. from # to /\ (Whole(to, c) \/ WholeIn(hidden.disk[to], c))
  BY <1>0, <1>1 DEF Kept, HalfIsWhole, RemoveOriginal
<1>6. \A q \in Roots, k \in Cards :
        disk'[q][k] = IF q = from /\ k = c THEN None ELSE disk[q][k]
  BY <1>4, <1>1, <1>2
<1>7. FilesAreCards'
  BY <1>6, <1>1 DEF Kept, FilesAreCards
<1>8. Whole(to, c)' \/ WholeIn(hidden'.disk[to], c)
  BY <1>5, <1>6, <1>1, <1>2 DEF Whole
<1>9. ASSUME NEW k \in ours, k # c
      PROVE  \E q \in Roots : Whole(q, k)' \/ WholeIn(hidden'.disk[q], k)
  BY <1>9, <1>6, <1>1 DEF Kept, NeverNowhere, Whole
<1>10. NeverNowhere'
  BY <1>8, <1>9, <1>1, <1>2 DEF NeverNowhere
<1> QED BY <1>3, <1>7, <1>10 DEF HalfIsWhole

LEMMA KeptHolds == ASSUME Kept, [Next]_vars PROVE Kept'
<1> DEFINE Goal == (HalfIsWhole /\ FilesAreCards /\ NeverNowhere)'
<1>1. SUFFICES Goal
  BY TypesKept DEF Kept
<1>2. CASE \/ \E n \in Names, p \in Trackers : Save(n, p)
           \/ Configure \/ Poll \/ Ask \/ Forget \/ Dismiss \/ Stop \/ UNCHANGED vars
           \/ \E s \in Sessions : StartSession(s)
  <2>1. UNCHANGED <<disk, hidden, ours>> /\ (run' = run \/ run' = None)
    BY <1>2 DEF Save, Configure, Poll, Ask, Forget, Dismiss, Stop, StartSession, vars
  <2> QED BY <2>1, KeptWhereFilesStay
<1>11. ASSUME NEW p \in Picks, Unmount(p) \/ Mount(p) PROVE Goal
  <2>1. UNCHANGED <<ours, run>> /\ (Turn(p) \/ UNCHANGED <<disk, hidden>>)
    BY <1>11 DEF Unmount, Mount
  <2> QED BY <2>1, KeptWhereAVolumeTurns, KeptWhereFilesStay
<1>3. CASE Migrate
  <2>1. UNCHANGED <<disk, hidden, ours>>
    BY <1>3 DEF Migrate
  <2>2. run' = None \/ run'.half = None
    BY <1>3, MigrateSets DEF Kept
  <2> QED BY <2>1, <2>2, KeptWhereFilesStay
<1>4. ASSUME NEW c \in Cards, AlreadyThere(c) \/ Fail(c) PROVE Goal
  <2>1. UNCHANGED <<disk, hidden, ours>> /\ run \in Running /\ run.half = None
    BY <1>4 DEF AlreadyThere, Fail, Moving, Kept, TypeOK, Running
  <2>2. run'.half = None
    BY <1>4, <2>1 DEF AlreadyThere, Fail, Running
  <2> QED BY <2>1, <2>2, KeptWhereFilesStay
<1>5. CASE OriginalStays \/ MigrateEnd
  <2>1. UNCHANGED <<disk, hidden, ours>>
    BY <1>5 DEF OriginalStays, MigrateEnd
  <2>2. run' = None \/ run'.half = None
    BY <1>5 DEF OriginalStays, MigrateEnd, Kept, TypeOK, Running
  <2> QED BY <2>1, <2>2, KeptWhereFilesStay
<1>6. ASSUME NEW c \in Cards, Rename(c) \/ Copy(c) \/ Tear(c) PROVE Goal
  BY <1>6, KeptWhereACardIsMoved
<1>7. CASE RemoveOriginal
  BY <1>7, KeptWhereAnOriginalGoes
<1>8. CASE Create
  <2>1. RootOf(ws) \in Roots /\ ws.name \in Names
    BY <1>8, RootIsARoot DEF Kept, TypeOK, Create
  <2>2. Filed(RootOf(ws), ws.name, boards') /\ UNCHANGED <<run, hidden>>
    BY <1>8 DEF Create
  <2> QED BY <2>1, <2>2, KeptWhereACardIsFiled
<1>9. ASSUME NEW s \in Sessions, FileFromSession(s) PROVE Goal
  <2>1. env[s].root \in Roots /\ env[s].project \in Names
    BY <1>9, NoneIsApart DEF Kept, TypeOK, FileFromSession
  <2>2. Filed(env[s].root, env[s].project, boards') /\ UNCHANGED <<run, hidden>>
    BY <1>9 DEF FileFromSession
  <2> QED BY <2>1, <2>2, KeptWhereACardIsFiled
<1>10. ASSUME NEW r \in Roots, NEW c \in Cards, Damage(r, c) PROVE Goal
  BY <1>10, KeptWhereACardIsDamaged
<1> QED BY <1>2, <1>3, <1>4, <1>5, <1>6, <1>7, <1>8, <1>9, <1>10, <1>11
       DEF Next, MoveStep

LEMMA KeptBegins == ASSUME Init PROVE Kept
<1>1. PICK n \in Names, p \in Picks \cup {Here}, current \in BOOLEAN, own \in BOOLEAN,
           home \in Roots, at \in Roots \ {Here}, c \in Cards \ Foreign :
        Began(n, p, current, own, home, at, c)
  BY Beginning
<1>2. TypeOK
  BY TypesBegin
<1>3. run = None
  BY DEF Init
<1>4. FilesAreCards
  <2>1. \A r \in Roots, k \in Cards : hidden.disk[r][k] = None
    BY DEF Init
  <2> QED BY <1>1, <2>1 DEF Began, FilesAreCards
<1>5. Whole(home, c)
  <2>1. disk[home][c] = [project |-> n, own |-> own, torn |-> FALSE]
    BY <1>1 DEF Began
  <2>2. [project |-> n, own |-> own, torn |-> FALSE] \in Card
    BY DEF Card
  <2>3. [project |-> n, own |-> own, torn |-> FALSE] # None
    BY <2>2, NoneIsNoCard
  <2>4. ~ disk[home][c].torn
    BY <2>1
  <2> QED BY <2>1, <2>3, <2>4 DEF Whole
<1>6. NeverNowhere
  BY <1>1, <1>5 DEF Began, NeverNowhere
<1> QED BY <1>2, <1>3, <1>4, <1>6 DEF Kept, HalfIsWhole

(* Whatever fails, quits or is unplugged, a card that was filed can be read  *)
(* somewhere: move_one takes a source away only when the destination is      *)
(* whole.                                                                    *)
THEOREM NeverNowhereEver == Spec => []NeverNowhere
<1>1. Init => Kept
  BY KeptBegins
<1>2. Kept /\ [Next]_vars => Kept'
  BY KeptHolds
<1>3. Kept => NeverNowhere
  BY DEF Kept
<1> QED BY <1>1, <1>2, <1>3, PTL DEF Spec

---------------------------------------------------------------------------
(* Roots. *)

(* Polls, saves, migrations and starts make a root only below a folder that  *)
(* is there (RootCreation::may_create).                                      *)
THEOREM RootsAreBelowABase == Spec => OnlyBelowABase
<1>1. ASSUME [Next]_vars PROVE \A r \in dirs' \ dirs : Reached(r) \/ hollow' # hollow
  <2>1. dirs' = Ensured(RootOf(ws)) \/ dirs' = dirs \/ hollow' # hollow
    BY <1>1 DEF Next, MoveStep, Save, Configure, Poll, Ask, Forget, Dismiss, Migrate,
                AlreadyThere, Rename, Copy, Fail, Tear, RemoveOriginal, OriginalStays,
                MigrateEnd, Create, StartSession, FileFromSession, Damage, Unmount, Mount,
                Stop, vars
  <2> QED BY <2>1 DEF Ensured
<1> QED BY <1>1, PTL DEF Spec, OnlyBelowABase

---------------------------------------------------------------------------
(* The cards of other projects. *)

\* Those that a step leaves as they are, wherever they are.
Untouched == \A c \in Foreign, r \in Roots : UNCHANGED <<disk[r][c], hidden.disk[r][c]>>

LEMMA WorkspaceStep ==
  ASSUME [Next]_vars
  PROVE  ws' = ws \/ ws' = Cleared \/ \E n \in Names, p \in Trackers : Save(n, p)
BY DEF Next, MoveStep, Configure, Poll, Ask, Forget, Dismiss, Migrate, AlreadyThere, Rename,
       Copy, Fail, Tear, RemoveOriginal, OriginalStays, MigrateEnd, Create, StartSession,
       FileFromSession, Damage, Unmount, Mount, Stop, vars

LEMMA OwnIsHereHolds == ASSUME TypeOK, OwnIsHere, [Next]_vars PROVE OwnIsHere'
<1>1. CASE ws' = ws
  BY <1>1 DEF OwnIsHere
<1>2. CASE ws' = Cleared
  <2>1. ws' = ws \/ (ws'.prev = None /\ ws'.current)
    BY <1>2 DEF Cleared, TypeOK
  <2>2. CASE ws' = ws
    BY <2>2 DEF OwnIsHere
  <2>3. CASE ws'.prev = None /\ ws'.current
    <3>1. Prev(ws') = None
      BY <2>3 DEF Prev
    <3>2. Prev(ws)' = None
      BY <3>1
    <3> QED BY <3>2 DEF OwnIsHere
  <2> QED BY <2>1, <2>2, <2>3
<1>3. ASSUME NEW n \in Names, NEW p \in Trackers, Save(n, p) PROVE OwnIsHere'
  <2> DEFINE new == [name |-> n, pick |-> p, prev |-> None, current |-> TRUE]
  <2>1. PICK prev : prev = Previous(ws, new)
    OBVIOUS
  <2>2. ws' = [name |-> n, pick |-> p, prev |-> prev, current |-> TRUE]
    BY <1>3, <2>1 DEF Save
  <2>3. Prev(ws') = prev
    BY <2>2 DEF Prev
  <2>4. Prev(ws)' = prev
    BY <2>3
  <2>5. prev # None /\ prev.own => prev.root = Here
    <3>1. CASE Prev(ws) # None
      BY <2>1, <3>1 DEF Previous, OwnIsHere
    <3>2. CASE Prev(ws) = None
      <4>1. ws.pick = Here => RootOf(ws) = Here
        BY NoneIsApart DEF RootOf
      <4> QED BY <2>1, <3>2, <4>1 DEF Previous
    <3> QED BY <3>1, <3>2
  <2> QED BY <2>4, <2>5 DEF OwnIsHere
<1>4. ws' = ws \/ ws' = Cleared \/ \E n \in Names, p \in Trackers : Save(n, p)
  BY WorkspaceStep
<1> QED BY <1>1, <1>2, <1>3, <1>4

LEMMA ClaimsAreOurs ==
  ASSUME Apart, Prev(ws) # None
  PROVE  ClaimedAt(Prev(ws)) \cap Foreign = {}
<1>1. Prev(ws).root \in Roots /\ Prev(ws).project \in Names
  BY PrevIsAPointer DEF Apart, Pointer
<1>2. Prev(ws).own => Prev(ws).root = Here
  BY DEF Apart, OwnIsHere
<1> QED BY <1>1, <1>2, NoneIsApart DEF Apart, ForeignIsOther, ClaimedAt, Claimed

LEMMA ForeignWhereACardIsFiled ==
  ASSUME Apart, UNCHANGED <<run, hidden>>, NEW r \in Roots, NEW n \in Names, NEW bs,
         Filed(r, n, bs)
  PROVE  Untouched /\ (ours \cap Foreign = {})' /\ ForeignIsNotMoved'
<1>1. PICK c \in Cards, v \in Card :
        /\ c \notin ours \cup Foreign
        /\ disk' = [disk EXCEPT ![r][c] = v]
        /\ ours' = ours \cup {c}
  BY FiledCard DEF Apart
<1>2. disk \in [Roots -> [Cards -> Card \cup {None}]]
  BY DEF Apart, TypeOK
<1>3. Untouched
  BY <1>1, <1>2, NoneIsApart DEF Untouched
<1>4. (ours \cap Foreign = {})'
  BY <1>1 DEF Apart, ForeignIsOther
<1>5. ForeignIsNotMoved'
  BY DEF Apart, ForeignIsNotMoved
<1> QED BY <1>3, <1>4, <1>5

LEMMA ForeignWhereACardIsMoved ==
  ASSUME Apart, MoveStep
  PROVE  Untouched /\ UNCHANGED ours /\ ForeignIsNotMoved'
<1> USE NoneIsApart
<1>1. /\ disk \in [Roots -> [Cards -> Card \cup {None}]]
      /\ run \in Running /\ run.todo \cap Foreign = {} /\ run.half \notin Foreign
  BY DEF Apart, TypeOK, ForeignIsNotMoved, Running, MoveStep, AlreadyThere, Rename, Copy, Fail,
         Tear, Moving, Movable, RemoveOriginal, OriginalStays, MigrateEnd
<1>2. UNCHANGED <<ours, hidden>>
  BY DEF MoveStep, AlreadyThere, Rename, Copy, Fail, Tear, RemoveOriginal, OriginalStays,
         MigrateEnd
<1>3. ASSUME NEW c \in Cards, AlreadyThere(c) \/ Rename(c) \/ Copy(c) \/ Fail(c) \/ Tear(c)
      PROVE  Untouched /\ ForeignIsNotMoved'
  <2>1. c \notin Foreign
    BY <1>1, <1>3 DEF AlreadyThere, Rename, Copy, Fail, Tear, Movable, Moving
  <2>2. Untouched
    BY <1>1, <1>2, <1>3, <2>1 DEF Untouched, AlreadyThere, Rename, Copy, Fail, Tear
  <2>3. ForeignIsNotMoved'
    BY <1>1, <1>3, <2>1 DEF ForeignIsNotMoved, AlreadyThere, Rename, Copy, Fail, Tear, Running
  <2> QED BY <2>2, <2>3
<1>4. CASE RemoveOriginal
  <2>1. Untouched
    BY <1>1, <1>2, <1>4 DEF Untouched, RemoveOriginal
  <2>2. ForeignIsNotMoved'
    BY <1>1, <1>4 DEF ForeignIsNotMoved, RemoveOriginal, Running
  <2> QED BY <2>1, <2>2, <1>2
<1>5. CASE OriginalStays
  BY <1>1, <1>2, <1>5 DEF Untouched, ForeignIsNotMoved, OriginalStays, Running
<1>6. CASE MigrateEnd
  BY <1>2, <1>6 DEF Untouched, ForeignIsNotMoved, MigrateEnd
<1> QED BY <1>2, <1>3, <1>4, <1>5, <1>6 DEF MoveStep

\* Nothing is done to a foreign card but what an editor does to it.
LEMMA ForeignWhereACardIsDamaged ==
  ASSUME Apart, NEW r \in Roots, NEW c \in Cards, Damage(r, c)
  PROVE  ForeignIsOther' /\ ForeignIsNotMoved'
<1>1. disk \in [Roots -> [Cards -> Card \cup {None}]] /\ UNCHANGED <<run, ours, hidden>>
  BY DEF Apart, TypeOK, Damage
<1>2. PICK v : v = [disk[r][c] EXCEPT !.project = None]
  OBVIOUS
<1>3. disk[r][c] \in Card
  BY <1>1 DEF Damage, Whole
<1>4. v.project = None /\ disk[r][c] # None
  BY <1>2, <1>3 DEF Card, Damage, Whole
<1>5. \A q \in Roots, k \in Cards : disk'[q][k] = IF q = r /\ k = c THEN v ELSE disk[q][k]
  BY <1>1, <1>2 DEF Damage
<1>6. ForeignIsOther'
  BY <1>1, <1>4, <1>5, NoneIsApart DEF Apart, ForeignIsOther
<1> QED BY <1>1, <1>6 DEF Apart, ForeignIsNotMoved

\* A volume takes its cards along.
LEMMA ForeignWhereAVolumeTurns ==
  ASSUME Apart, NEW p \in Picks, Unmount(p) \/ Mount(p)
  PROVE  /\ ForeignIsOther' /\ ForeignIsNotMoved'
         /\ \A r \in Roots : Home(r)' = Home(r)
<1>1. UNCHANGED <<ours, run>>
  BY DEF Unmount, Mount
<1>2. CASE UNCHANGED <<disk, hidden, hollow>>
  BY <1>1, <1>2 DEF Apart, ForeignIsOther, ForeignIsNotMoved, Home
<1>3. CASE Turn(p) /\ (p \in hollow <=> hollow' = hollow \ {p})
                  /\ (p \notin hollow <=> hollow' = hollow \cup {p})
  <2>1. \A r \in Roots :
          IF r \in Below(p) THEN disk'[r] = hidden.disk[r] /\ hidden'.disk[r] = disk[r]
          ELSE disk'[r] = disk[r] /\ hidden'.disk[r] = hidden.disk[r]
    BY <1>3, TurnIsTyped DEF Apart
  <2>2. ForeignIsOther'
    BY <1>1, <2>1 DEF Apart, ForeignIsOther
  <2>3. ForeignIsNotMoved'
    BY <1>1 DEF Apart, ForeignIsNotMoved
  <2>4. ASSUME NEW r \in Roots PROVE Home(r)' = Home(r)
    <3>1. CASE r \in Below(p)
      <4>1. r # Here /\ r[1] = p /\ (p \in hollow' <=> p \notin hollow)
        BY <1>3, <3>1 DEF Below
      <4> QED BY <2>1, <3>1, <4>1 DEF Home
    <3>2. CASE r \notin Below(p)
      <4>1. r # Here => (r[1] \in hollow' <=> r[1] \in hollow)
        BY <1>3, <3>2 DEF Below
      <4> QED BY <2>1, <3>2, <4>1 DEF Home
    <3> QED BY <3>1, <3>2
  <2> QED BY <2>2, <2>3, <2>4
<1>4. \/ UNCHANGED <<disk, hidden, hollow>>
      \/ Turn(p) /\ (p \in hollow <=> hollow' = hollow \ {p})
                 /\ (p \notin hollow <=> hollow' = hollow \cup {p})
  BY DEF Unmount, Mount
<1> QED BY <1>2, <1>3, <1>4

\* What ForeignStays says of a step.
Spared == \A c \in Foreign, r \in Roots :
            Home(r)[c]' = Home(r)[c] \/ (\E q \in Roots, k \in Cards : Damage(q, k))

LEMMA UntouchedIsSpared ==
  ASSUME Apart, Untouched, (ours \cap Foreign = {})', UNCHANGED hollow
  PROVE  Spared /\ ForeignIsOther'
<1>1. ForeignIsOther'
  BY DEF Apart, ForeignIsOther, Untouched
<1>2. Spared
  BY DEF Spared, Untouched, Home
<1> QED BY <1>1, <1>2

LEMMA ApartHolds == ASSUME Apart, [Next]_vars PROVE Spared /\ Apart'
<1> DEFINE Goal == Spared /\ ForeignIsOther' /\ ForeignIsNotMoved'
<1>1. SUFFICES Goal
  BY TypesKept, OwnIsHereHolds DEF Apart
<1>2. CASE \/ \E n \in Names, p \in Trackers : Save(n, p)
           \/ Configure \/ Poll \/ Ask \/ Forget \/ Dismiss \/ Stop \/ UNCHANGED vars
           \/ \E s \in Sessions : StartSession(s)
  <2>1. UNCHANGED <<disk, hidden, hollow, ours>> /\ (run' = run \/ run' = None)
    BY <1>2 DEF Save, Configure, Poll, Ask, Forget, Dismiss, Stop, StartSession, vars
  <2>2. ForeignIsNotMoved'
    BY <2>1 DEF Apart, ForeignIsNotMoved
  <2>3. Untouched /\ (ours \cap Foreign = {})'
    BY <2>1 DEF Apart, ForeignIsOther, Untouched
  <2> QED BY <2>1, <2>2, <2>3, UntouchedIsSpared
<1>8. ASSUME NEW p \in Picks, Unmount(p) \/ Mount(p) PROVE Goal
  <2>1. ForeignIsOther' /\ ForeignIsNotMoved' /\ \A r \in Roots : Home(r)' = Home(r)
    BY <1>8, ForeignWhereAVolumeTurns
  <2>2. Spared
    BY <2>1 DEF Spared
  <2> QED BY <2>1, <2>2
<1>3. CASE Migrate
  <2>1. UNCHANGED <<disk, hidden, hollow, ours>>
    BY <1>3 DEF Migrate
  <2>2. ForeignIsNotMoved'
    <3>1. CASE run' = None
      BY <3>1 DEF ForeignIsNotMoved
    <3>2. CASE run' # None
      <4>1. Prev(ws) # None /\ run'.todo \subseteq ClaimedAt(Prev(ws)) /\ run'.half = None
        BY <1>3, <3>2, MigrateSets DEF Apart
      <4> QED BY <4>1, ClaimsAreOurs, NoneIsApart DEF ForeignIsNotMoved
    <3> QED BY <3>1, <3>2
  <2>3. Untouched /\ (ours \cap Foreign = {})'
    BY <2>1 DEF Apart, ForeignIsOther, Untouched
  <2> QED BY <2>1, <2>2, <2>3, UntouchedIsSpared
<1>4. CASE MoveStep
  <2>1. Untouched /\ UNCHANGED ours /\ ForeignIsNotMoved' /\ UNCHANGED hollow
    BY <1>4, ForeignWhereACardIsMoved, MoveLeaves DEF Apart
  <2>2. (ours \cap Foreign = {})'
    BY <2>1 DEF Apart, ForeignIsOther
  <2> QED BY <2>1, <2>2, UntouchedIsSpared
<1>5. CASE Create
  <2>1. RootOf(ws) \in Roots /\ ws.name \in Names
    BY <1>5, RootIsARoot DEF Apart, TypeOK, Create
  <2>2. Filed(RootOf(ws), ws.name, boards') /\ UNCHANGED <<run, hidden, hollow>>
    BY <1>5 DEF Create
  <2> QED BY <2>1, <2>2, ForeignWhereACardIsFiled, UntouchedIsSpared
<1>6. ASSUME NEW s \in Sessions, FileFromSession(s) PROVE Goal
  <2>1. env[s].root \in Roots /\ env[s].project \in Names
    BY <1>6, NoneIsApart DEF Apart, TypeOK, FileFromSession
  <2>2. Filed(env[s].root, env[s].project, boards') /\ UNCHANGED <<run, hidden, hollow>>
    BY <1>6 DEF FileFromSession
  <2> QED BY <2>1, <2>2, ForeignWhereACardIsFiled, UntouchedIsSpared
<1>7. ASSUME NEW r \in Roots, NEW c \in Cards, Damage(r, c) PROVE Goal
  <2>1. Spared
    BY <1>7 DEF Spared
  <2> QED BY <2>1, <1>7, ForeignWhereACardIsDamaged
<1> QED BY <1>2, <1>3, <1>4, <1>5, <1>6, <1>7, <1>8 DEF Next

LEMMA ApartBegins == ASSUME Init PROVE Apart
<1>1. PICK n \in Names, p \in Picks \cup {Here}, current \in BOOLEAN, own \in BOOLEAN,
           home \in Roots, at \in Roots \ {Here}, c \in Cards \ Foreign :
        Began(n, p, current, own, home, at, c)
  BY Beginning
<1>2. run = None /\ \A r \in Roots, k \in Cards : hidden.disk[r][k] = None
  BY DEF Init
<1>3. ForeignIsOther
  BY <1>1, <1>2, NoneIsApart DEF Began, ForeignIsOther
<1>4. OwnIsHere
  BY <1>1 DEF Began, OwnIsHere, Prev
<1> QED BY <1>2, <1>3, <1>4, TypesBegin DEF Apart, ForeignIsNotMoved

(* migrate::plan takes a card by the project it names, and a damaged one     *)
(* only where every card is ours: the files of another project in a folder   *)
(* that is shared are never moved, written or removed.                       *)
THEOREM ForeignStaysThere == Spec => ForeignStays
<1>1. Init => Apart
  BY ApartBegins
<1>2. Apart /\ [Next]_vars => Apart'
  BY ApartHolds
<1>3. Apart /\ [Next]_vars =>
        \A c \in Foreign, r \in Roots :
          Home(r)[c]' = Home(r)[c] \/ (\E q \in Roots, k \in Cards : Damage(q, k))
  BY ApartHolds DEF Spared
<1> QED BY <1>1, <1>2, <1>3, PTL DEF Spec, ForeignStays

---------------------------------------------------------------------------
(* Cards in sight.                                                         *)

\* OnBoard, Offered and InSight where no volume left its mount point.
Shown(c) == ws.pick # None /\ Whole(RootOf(ws), c)
            /\ disk[RootOf(ws)][c].project \in {ws.name, None}
Pointed(c) == Prev(ws) # None /\ c \in ClaimedAt(Prev(ws))
InView(c) == Shown(c) \/ Pointed(c)

\* The pointer never leads to the root that is in use.
Aside == Prev(ws) # None => Prev(ws).root # RootOf(ws)

NoneTorn == \A r \in Roots, c \in Cards : disk[r][c] # None => ~ disk[r][c].torn

AskedOfNothing == asked => Prev(ws) = None \/ ClaimedAt(Prev(ws)) \subseteq missed

\* A migration that runs brings home what the pointer of the workspace claims.
BringsHome ==
  run # None =>
    /\ ws.pick # None
    /\ run.to = RootOf(ws)
    /\ run.half # None => run.half \in run.todo /\ (run.half \in missed \/ Shown(run.half))
    /\ Prev(ws) = None => run.todo \subseteq missed
    /\ Prev(ws) # None =>
         /\ run.from = Prev(ws).root
         /\ run.name = IF Prev(ws).project = ws.name THEN None ELSE ws.name
         /\ run.todo \subseteq ClaimedAt(Prev(ws))
         /\ ~ run.failed =>
              \A c \in ours \cap ClaimedAt(Prev(ws)) :
                c \in run.todo \/ c \in missed \/ Shown(c)

\* What a finished move leaves at the root in use is a card of the board.
CopiesAgree == \A c \in ours : Moving(c) /\ ~ Free(c) => c \in missed \/ Shown(c)

Clear == NoneTorn /\ AskedOfNothing /\ BringsHome
SightStays == \A c \in ours : InView(c) => InView(c)' \/ c \in missed'

LEMMA ClaimedThere ==
  ASSUME NEW prev, NEW c
  PROVE  c \in ClaimedAt(prev) <=>
           /\ c \in Cards /\ Whole(prev.root, c)
           /\ \/ disk[prev.root][c].project = prev.project
              \/ disk[prev.root][c].project = None /\ prev.own
BY DEF ClaimedAt, Claimed, Whole

LEMMA ClaimedThereNext ==
  ASSUME NEW prev, NEW c
  PROVE  (c \in ClaimedAt(prev))' <=>
           /\ c \in Cards /\ Whole(prev.root, c)'
           /\ \/ disk'[prev.root][c].project = prev.project
              \/ disk'[prev.root][c].project = None /\ prev.own
BY DEF ClaimedAt, Claimed, Whole

LEMMA ClearedForgets ==
  ASSUME TypeOK
  PROVE  /\ ws.pick = None => Cleared = ws
         /\ ws.pick # None => /\ Prev(Cleared) = None /\ RootOf(Cleared) = RootOf(ws)
                              /\ Cleared.pick = ws.pick /\ Cleared.name = ws.name
<1>1. ws \in [name : Names, pick : Trackers, prev : Pointer \cup {None}, current : BOOLEAN]
  BY DEF TypeOK
<1> QED BY <1>1 DEF Cleared, Prev, RootOf

\* Sight depends on the workspace and the files of the card.
LEMMA SightOfOthers ==
  ASSUME TypeOK, UNCHANGED ws, NEW k \in Cards,
         \A r \in Roots : disk'[r][k] = disk[r][k]
  PROVE  /\ Shown(k)' <=> Shown(k)
         /\ Prev(ws) # None => ((k \in ClaimedAt(Prev(ws)))' <=> k \in ClaimedAt(Prev(ws)))
         /\ InView(k)' <=> InView(k)
<1>1. ws.pick # None => RootOf(ws) \in Roots
  BY RootIsARoot DEF TypeOK
<1>2. Shown(k)' <=> Shown(k)
  BY <1>1 DEF Shown, Whole
<1>3. PICK prev : prev = Prev(ws)
  OBVIOUS
<1>4. prev # None => prev.root \in Roots
  BY <1>3, PrevIsAPointer DEF Pointer
<1>5. prev # None => ((k \in ClaimedAt(Prev(ws)))' <=> k \in ClaimedAt(Prev(ws)))
  BY <1>3, <1>4 DEF ClaimedAt, Claimed, Whole
<1>6. Prev(ws)' = Prev(ws)
  OBVIOUS
<1>7. Pointed(k)' <=> Pointed(k)
  BY <1>3, <1>5, <1>6 DEF Pointed
<1> QED BY <1>2, <1>3, <1>5, <1>7 DEF InView

LEMMA SightWhereFilesStay ==
  ASSUME TypeOK, UNCHANGED <<ws, disk>>
  PROVE  /\ SightStays
         /\ NoneTorn => NoneTorn'
         /\ AskedOfNothing /\ (asked' = asked \/ asked' = FALSE) /\ missed \subseteq missed'
              => AskedOfNothing'
         /\ BringsHome /\ UNCHANGED ours /\ (run' = run \/ run' = None)
              /\ missed \subseteq missed' => BringsHome'
<1>1. \A k \in Cards : /\ Shown(k)' <=> Shown(k)
                       /\ InView(k)' <=> InView(k)
  BY SightOfOthers
<1>2. ours \subseteq Cards /\ (run # None => run \in Running)
  BY DEF TypeOK, Running
<1>3. SightStays
  BY <1>1, <1>2 DEF SightStays
<1>4. \A prev : ClaimedAt(prev)' = ClaimedAt(prev)
  BY DEF ClaimedAt, Claimed, Whole
<1>5. \A prev : prev = Prev(ws) => ClaimedAt(Prev(ws))' = ClaimedAt(prev)
  BY <1>4
<1>6. ClaimedAt(Prev(ws))' = ClaimedAt(Prev(ws))
  BY <1>5
<1>7. AskedOfNothing /\ (asked' = asked \/ asked' = FALSE) /\ missed \subseteq missed'
        => AskedOfNothing'
  BY <1>6 DEF AskedOfNothing
<1>8. ASSUME BringsHome, UNCHANGED ours, run' = run, run # None, missed \subseteq missed'
      PROVE  BringsHome'
  <2>1. run.half # None => run.half \in Cards
    BY <1>2, <1>8 DEF Running
  <2>2. run.half # None => run.half \in missed' \/ Shown(run.half)'
    BY <2>1, <1>1, <1>8 DEF BringsHome
  <2>3. \A k \in ours : Shown(k)' <=> Shown(k)
    BY <1>1, <1>2
  <2> QED BY <2>2, <2>3, <1>6, <1>8 DEF BringsHome
<1>9. run' = None => BringsHome'
  BY DEF BringsHome
<1> QED BY <1>3, <1>7, <1>8, <1>9 DEF NoneTorn

\* A card that a migration has yet to move is claimed behind the pointer.
LEMMA TodoIsClaimed ==
  ASSUME TypeOK, Aside, Clear, run # None, Prev(ws) # None, NEW c \in run.todo
  PROVE  /\ run \in Running /\ c \in Cards /\ run.from \in Roots /\ run.to \in Roots
         /\ run.from # run.to /\ ws.pick # None /\ run.to = RootOf(ws)
         /\ run.from = Prev(ws).root
         /\ run.todo \subseteq ClaimedAt(Prev(ws))
         /\ Whole(run.from, c)
         /\ \/ disk[run.from][c].project = Prev(ws).project
            \/ disk[run.from][c].project = None
         /\ run.name = IF Prev(ws).project = ws.name THEN None ELSE ws.name
<1>1. run \in Running
  BY DEF TypeOK, Running
<1>2. c \in Cards /\ run.from \in Roots /\ run.to \in Roots
  BY <1>1 DEF Running
<1>3. ws.pick # None /\ run.to = RootOf(ws)
  BY DEF Clear, BringsHome
<1>4. /\ run.from = Prev(ws).root /\ run.todo \subseteq ClaimedAt(Prev(ws))
      /\ run.name = IF Prev(ws).project = ws.name THEN None ELSE ws.name
  BY <1>3 DEF Clear, BringsHome
<1>5. run.from # run.to
  BY <1>3, <1>4 DEF Aside
<1>6. c \in ClaimedAt(Prev(ws))
  BY <1>4
<1> QED BY <1>1, <1>2, <1>3, <1>4, <1>5, <1>6, ClaimedThere

\* One card of the run is dealt with: it is where it can be seen, or was passed
\* over, it waits for its original to go, or the run has failed.
LEMMA SightAfterAMove ==
  ASSUME TypeOK, Aside, Clear, run # None, Prev(ws) # None, NEW c \in run.todo,
         UNCHANGED <<ws, ours, asked, missed>>,
         \A r \in Roots, k \in Cards : k # c => disk'[r][k] = disk[r][k],
         \A r \in Roots : disk'[r][c] # None => ~ disk'[r][c].torn,
         c \in ours /\ InView(c) => InView(c)' \/ c \in missed,
         run'.from = run.from, run'.to = run.to, run'.name = run.name,
         \/ /\ run'.todo = run.todo \ {c} /\ run'.half = None
            /\ \/ run'.failed = TRUE
               \/ run'.failed = run.failed /\ (c \in ours => c \in missed \/ Shown(c)')
         \/ /\ run'.todo = run.todo /\ run'.half = c /\ run'.failed = run.failed
            /\ Shown(c)' /\ (c \in ClaimedAt(Prev(ws)))'
  PROVE  Clear' /\ SightStays
<1>1. /\ run \in Running /\ c \in Cards /\ ws.pick # None /\ run.to = RootOf(ws)
      /\ run.from = Prev(ws).root
      /\ run.todo \subseteq ClaimedAt(Prev(ws))
      /\ run.name = IF Prev(ws).project = ws.name THEN None ELSE ws.name
  BY TodoIsClaimed
<1>2. ours \subseteq Cards /\ run.todo \subseteq Cards
  BY <1>1 DEF TypeOK, Running
<1>3. \A k \in Cards : k # c => /\ Shown(k)' <=> Shown(k)
                                /\ (k \in ClaimedAt(Prev(ws)))' <=> k \in ClaimedAt(Prev(ws))
                                /\ InView(k)' <=> InView(k)
  BY <1>1, SightOfOthers
<1>4. SightStays
  BY <1>2, <1>3 DEF SightStays
<1>5. NoneTorn'
  BY <1>1 DEF NoneTorn, Clear
<1>7. PICK claims : claims = ClaimedAt(Prev(ws))'
  OBVIOUS
<1>8. \A k \in Cards : k # c => (k \in claims <=> k \in ClaimedAt(Prev(ws)))
  BY <1>3, <1>7
<1>9. claims \subseteq Cards
  BY <1>7 DEF ClaimedAt, Claimed
<1>10. run'.todo \subseteq claims
  BY <1>1, <1>2, <1>7, <1>8
<1>6. AskedOfNothing'
  <2>1. claims \subseteq ClaimedAt(Prev(ws))
    BY <1>1, <1>8, <1>9
  <2> QED BY <2>1, <1>7 DEF Clear, AskedOfNothing
<1>11. ASSUME ~ run'.failed, NEW k \in ours \cap claims
       PROVE  k \in run'.todo \/ k \in missed \/ Shown(k)'
  <2>1. CASE k = c
    BY <2>1, <1>11
  <2>2. CASE k # c
    <3>1. ~ run.failed /\ k \in ClaimedAt(Prev(ws)) /\ k \in Cards
      BY <2>2, <1>2, <1>8, <1>11
    <3>2. k \in run.todo \/ k \in missed \/ Shown(k)
      BY <3>1, <1>1 DEF Clear, BringsHome
    <3> QED BY <3>1, <3>2, <2>2, <1>3
  <2> QED BY <2>1, <2>2
<1>12. (run.half # None => run.half \in run.todo /\ Shown(run.half))'
  BY DEF Shown, Whole
<1>13. Prev(ws)' = Prev(ws) /\ RootOf(ws)' = RootOf(ws)
  OBVIOUS
<1>14. BringsHome'
  BY <1>1, <1>7, <1>10, <1>11, <1>12, <1>13 DEF BringsHome
<1> QED BY <1>4, <1>5, <1>6, <1>14 DEF Clear

\* The pointer was forgotten under a migration that goes on: what it still has
\* to bring was passed over.
LEMMA SightAfterALostMove ==
  ASSUME TypeOK, Clear, run # None, Prev(ws) = None, NEW c \in run.todo,
         UNCHANGED <<ws, ours, asked, missed>>,
         \A r \in Roots, k \in Cards : k # c => disk'[r][k] = disk[r][k],
         \A r \in Roots : disk'[r][c] # None => ~ disk'[r][c].torn,
         run'.to = run.to, run'.todo \subseteq run.todo,
         run'.half = None \/ (run'.half = c /\ c \in run'.todo)
  PROVE  Clear' /\ SightStays
<1>1. run \in Running
  BY DEF TypeOK, Running
<1>2. c \in Cards /\ ours \subseteq Cards
  BY <1>1 DEF TypeOK, Running
<1>3. run.todo \subseteq missed /\ run.to = RootOf(ws) /\ ws.pick # None
  BY DEF Clear, BringsHome
<1>4. SightStays
  BY <1>2, <1>3, SightOfOthers DEF SightStays
<1>5. NoneTorn'
  BY <1>2 DEF NoneTorn, Clear
<1>6. Prev(ws)' = None /\ RootOf(ws)' = RootOf(ws)
  OBVIOUS
<1>7. AskedOfNothing' /\ BringsHome'
  BY <1>3, <1>6 DEF AskedOfNothing, BringsHome
<1> QED BY <1>4, <1>5, <1>7 DEF Clear

LEMMA SightWhereACardIsMoved ==
  ASSUME TypeOK, Aside, Clear, CopiesAgree, NEW c \in Cards,
         AlreadyThere(c) \/ Rename(c) \/ Copy(c) \/ Fail(c)
  PROVE  Clear' /\ SightStays
<1>1. Moving(c)
  BY DEF AlreadyThere, Rename, Copy, Fail, Movable
<1>2. run # None /\ run.half = None /\ c \in run.todo
  BY <1>1 DEF Moving
<1>3. PICK from, to : from = run.from /\ to = run.to
  OBVIOUS
<1>4. /\ run \in Running /\ from \in Roots /\ to \in Roots /\ ws.pick # None
      /\ to = RootOf(ws)
  BY <1>2, <1>3 DEF TypeOK, Running, Clear, BringsHome
<1>5. /\ disk \in [Roots -> [Cards -> Card \cup {None}]] /\ ours \subseteq Cards
      /\ UNCHANGED <<ws, ours, asked, missed>>
  BY DEF TypeOK, AlreadyThere, Rename, Copy, Fail
<1>6. \A r \in Roots, k \in Cards : disk[r][k] # None => ~ disk[r][k].torn
  BY DEF Clear, NoneTorn
<1>7. Movable(c) => Whole(from, c) /\ disk[to][c] = None /\ from # to
  BY <1>3 DEF Movable, Free, IsDir, Whole
<1>12. Prev(ws) # None =>
         /\ from # to /\ from = Prev(ws).root
         /\ run.todo \subseteq ClaimedAt(Prev(ws)) /\ Whole(from, c)
         /\ disk[from][c].project \in {Prev(ws).project, None}
         /\ run.name = IF Prev(ws).project = ws.name THEN None ELSE ws.name
  BY <1>2, <1>3, TodoIsClaimed
<1>8. CASE AlreadyThere(c)
  <2>1. disk' = disk /\ run' = [run EXCEPT !.todo = @ \ {c}] /\ ~ Free(c)
    BY <1>8 DEF AlreadyThere
  <2>2. /\ run'.from = run.from /\ run'.to = run.to /\ run'.name = run.name
        /\ run'.todo = run.todo \ {c} /\ run'.half = None /\ run'.failed = run.failed
    BY <2>1, <1>2, <1>4 DEF Running
  <2>3. (Shown(c)' <=> Shown(c)) /\ (InView(c)' <=> InView(c))
    BY <2>1, <1>5, SightOfOthers
  <2>4. c \in ours => c \in missed \/ Shown(c)'
    BY <2>1, <2>3, <1>1 DEF CopiesAgree
  <2>5. CASE Prev(ws) # None
    BY <2>1, <2>2, <2>3, <2>4, <2>5, <1>2, <1>5, <1>6, SightAfterAMove
  <2>6. CASE Prev(ws) = None
    BY <2>1, <2>2, <2>6, <1>2, <1>5, <1>6, SightAfterALostMove
  <2> QED BY <2>5, <2>6
<1>9. CASE Fail(c)
  <2>1. disk' = disk /\ run' = [run EXCEPT !.todo = @ \ {c}, !.failed = TRUE]
    BY <1>9 DEF Fail
  <2>2. /\ run'.from = run.from /\ run'.to = run.to /\ run'.name = run.name
        /\ run'.todo = run.todo \ {c} /\ run'.half = None /\ run'.failed = TRUE
    BY <2>1, <1>2, <1>4 DEF Running
  <2>3. InView(c)' <=> InView(c)
    BY <2>1, <1>5, SightOfOthers
  <2>5. CASE Prev(ws) # None
    BY <2>1, <2>2, <2>3, <2>5, <1>2, <1>5, <1>6, SightAfterAMove
  <2>6. CASE Prev(ws) = None
    BY <2>1, <2>2, <2>6, <1>2, <1>5, <1>6, SightAfterALostMove
  <2> QED BY <2>5, <2>6
<1>10. CASE Rename(c)
  <2> DEFINE v == disk[from][c]
  <2>1. /\ disk' = [disk EXCEPT ![to][c] = v, ![from][c] = None]
        /\ run' = [run EXCEPT !.todo = @ \ {c}] /\ run.name = None
    BY <1>3, <1>10 DEF Rename
  <2>2. /\ run'.from = run.from /\ run'.to = run.to /\ run'.name = run.name
        /\ run'.todo = run.todo \ {c} /\ run'.half = None /\ run'.failed = run.failed
    BY <2>1, <1>2, <1>4 DEF Running
  <2>10. Whole(from, c) /\ disk[to][c] = None /\ from # to
    BY <1>7, <1>10 DEF Rename
  <2>3. \A q \in Roots, k \in Cards :
          disk'[q][k] = IF q = from /\ k = c THEN None
                        ELSE IF q = to /\ k = c THEN v ELSE disk[q][k]
    BY <2>1, <2>10, <1>4, <1>5
  <2>4. /\ v # None /\ ~ v.torn
        /\ Prev(ws) # None => v.project \in {ws.name, None}
    BY <2>1, <2>10, <1>12, NoneIsApart DEF Whole, TypeOK
  <2> HIDE DEF v
  <2>5. disk'[to][c] = v
    BY <2>3, <2>10, <1>4
  <2>6. Prev(ws) # None => Shown(c)'
    BY <2>4, <2>5, <1>4, <1>5 DEF Shown, Whole
  <2>7. \A r \in Roots, k \in Cards : k # c => disk'[r][k] = disk[r][k]
    BY <2>3
  <2>8. \A r \in Roots : disk'[r][c] # None => ~ disk'[r][c].torn
    BY <2>3, <2>4, <1>6
  <2>9. CASE Prev(ws) # None
    BY <2>2, <2>6, <2>7, <2>8, <2>9, <1>2, <1>5, SightAfterAMove DEF InView
  <2>11. CASE Prev(ws) = None
    BY <2>2, <2>7, <2>8, <2>11, <1>2, <1>5, SightAfterALostMove
  <2> QED BY <2>9, <2>11
<1>11. CASE Copy(c)
  <2> DEFINE v == Carried(c)
  <2>1. disk' = [disk EXCEPT ![to][c] = v] /\ run' = [run EXCEPT !.half = c]
    BY <1>3, <1>11 DEF Copy
  <2>2. /\ run'.from = run.from /\ run'.to = run.to /\ run'.name = run.name
        /\ run'.todo = run.todo /\ run'.half = c /\ run'.failed = run.failed
    BY <2>1, <1>2, <1>4 DEF Running
  <2>3. v \in Card
    BY <1>11, CarriedIsTyped DEF Copy
  <2>12. Whole(from, c) /\ from # to
    BY <1>7, <1>11 DEF Copy
  <2>4. /\ ~ v.torn
        /\ Prev(ws) # None => v.project \in {ws.name, None}
    <3>1. disk[from][c] \in Card /\ ~ disk[from][c].torn
      BY <2>12, <1>4, <1>5 DEF Whole
    <3>2. CASE run.name = None
      BY <3>1, <3>2, <1>3, <1>12, NoneIsApart DEF Carried, TypeOK
    <3>3. CASE run.name # None
      <4>1. v = [disk[from][c] EXCEPT !.project = run.name]
        BY <3>3, <1>3 DEF Carried
      <4>2. Prev(ws) # None => run.name = ws.name
        BY <3>3, <1>12
      <4> QED BY <4>1, <4>2, <3>1 DEF Card
    <3> QED BY <3>2, <3>3
  <2> HIDE DEF v
  <2>5. v # None
    BY <2>3, NoneIsNoCard
  <2>6. \A q \in Roots, k \in Cards :
          disk'[q][k] = IF q = to /\ k = c THEN v ELSE disk[q][k]
    BY <2>1, <1>4, <1>5
  <2>7. disk'[to][c] = v /\ disk'[from][c] = disk[from][c]
    BY <2>6, <2>12, <1>4
  <2>8. Prev(ws) # None => Shown(c)'
    BY <2>4, <2>5, <2>7, <1>4, <1>5 DEF Shown, Whole
  <2>9. Prev(ws) # None => (c \in ClaimedAt(Prev(ws)))'
    <3> SUFFICES ASSUME Prev(ws) # None PROVE (c \in ClaimedAt(Prev(ws)))'
      OBVIOUS
    <3>1. c \in ClaimedAt(Prev(ws))
      BY <1>2, <1>12
    <3>2. PICK prev : prev = Prev(ws)
      OBVIOUS
    <3>3. prev = Prev(ws)'
      BY <3>2, <1>5
    <3>4. c \in ClaimedAt(prev)'
      BY <3>1, <3>2, <2>7, <1>12, ClaimedThere, ClaimedThereNext DEF Whole
    <3> QED BY <3>3, <3>4 DEF ClaimedAt, Claimed, Whole
  <2>10. \A r \in Roots, k \in Cards : k # c => disk'[r][k] = disk[r][k]
    BY <2>6
  <2>11. \A r \in Roots : disk'[r][c] # None => ~ disk'[r][c].torn
    BY <2>4, <2>6, <1>6
  <2>13. CASE Prev(ws) # None
    BY <2>2, <2>8, <2>9, <2>10, <2>11, <2>13, <1>2, <1>5, SightAfterAMove DEF InView
  <2>14. CASE Prev(ws) = None
    BY <2>2, <2>10, <2>11, <2>14, <1>2, <1>5, SightAfterALostMove
  <2> QED BY <2>13, <2>14
<1> QED BY <1>8, <1>9, <1>10, <1>11

LEMMA SightWhereAnOriginalGoes ==
  ASSUME TypeOK, Aside, Clear, RemoveOriginal \/ OriginalStays
  PROVE  Clear' /\ SightStays
<1>1. PICK c : c = run.half
  OBVIOUS
<1>2. run # None /\ c # None
  BY <1>1 DEF RemoveOriginal, OriginalStays
<1>3. c \in run.todo /\ (c \in missed \/ Shown(c))
  BY <1>1, <1>2 DEF Clear, BringsHome
<1>4. PICK from, to : from = run.from /\ to = run.to
  OBVIOUS
<1>5. /\ run \in Running /\ from \in Roots /\ to \in Roots /\ ws.pick # None
      /\ to = RootOf(ws) /\ c \in Cards
  BY <1>2, <1>3, <1>4 DEF TypeOK, Running, Clear, BringsHome
<1>6. /\ disk \in [Roots -> [Cards -> Card \cup {None}]]
      /\ UNCHANGED <<ws, ours, asked, missed>>
  BY DEF TypeOK, RemoveOriginal, OriginalStays
<1>7. \A r \in Roots, k \in Cards : disk[r][k] # None => ~ disk[r][k].torn
  BY DEF Clear, NoneTorn
<1>8. Prev(ws) # None => from # to
  BY <1>2, <1>3, <1>4, TodoIsClaimed
<1>9. CASE RemoveOriginal
  <2>1. /\ disk' = [disk EXCEPT ![from][c] = None]
        /\ run' = [run EXCEPT !.todo = @ \ {c}, !.half = None]
    BY <1>1, <1>4, <1>9 DEF RemoveOriginal
  <2>2. /\ run'.from = run.from /\ run'.to = run.to /\ run'.name = run.name
        /\ run'.todo = run.todo \ {c} /\ run'.half = None /\ run'.failed = run.failed
    BY <2>1, <1>5 DEF Running
  <2>3. \A q \in Roots, k \in Cards :
          disk'[q][k] = IF q = from /\ k = c THEN None ELSE disk[q][k]
    BY <2>1, <1>5, <1>6
  <2>4. from # to => disk'[to][c] = disk[to][c]
    BY <2>3, <1>5
  <2>5. from # to => c \in missed \/ Shown(c)'
    BY <2>4, <1>3, <1>5, <1>6 DEF Shown, Whole
  <2>6. \A r \in Roots, k \in Cards : k # c => disk'[r][k] = disk[r][k]
    BY <2>3
  <2>7. \A r \in Roots : disk'[r][c] # None => ~ disk'[r][c].torn
    BY <2>3, <1>5, <1>7
  <2>8. CASE Prev(ws) # None
    BY <2>2, <2>5, <2>6, <2>7, <2>8, <1>2, <1>3, <1>6, <1>8, SightAfterAMove DEF InView
  <2>9. CASE Prev(ws) = None
    BY <2>2, <2>6, <2>7, <2>9, <1>2, <1>3, <1>6, SightAfterALostMove
  <2> QED BY <2>8, <2>9
<1>10. CASE OriginalStays
  <2>1. /\ disk' = disk
        /\ run' = [run EXCEPT !.todo = @ \ {c}, !.half = None, !.failed = TRUE]
    BY <1>1, <1>10 DEF OriginalStays
  <2>2. /\ run'.from = run.from /\ run'.to = run.to /\ run'.name = run.name
        /\ run'.todo = run.todo \ {c} /\ run'.half = None /\ run'.failed = TRUE
    BY <2>1, <1>5 DEF Running
  <2>3. InView(c)' <=> InView(c)
    BY <2>1, <1>5, <1>6, SightOfOthers
  <2>4. CASE Prev(ws) # None
    BY <2>1, <2>2, <2>3, <2>4, <1>2, <1>3, <1>5, <1>6, <1>7, SightAfterAMove
  <2>5. CASE Prev(ws) = None
    BY <2>1, <2>2, <2>5, <1>2, <1>3, <1>5, <1>6, <1>7, SightAfterALostMove
  <2> QED BY <2>4, <2>5
<1> QED BY <1>9, <1>10

\* The pointer is forgotten when nothing that it claims is left to bring but
\* what was passed over.
LEMMA SightWhereThePointerGoes ==
  ASSUME TypeOK, Clear, Forget \/ MigrateEnd
  PROVE  Clear' /\ SightStays
<1>1. /\ UNCHANGED <<disk, ours, missed>>
      /\ asked' = asked \/ asked' = FALSE
      /\ run' = run \/ run' = None
      /\ ws' = ws \/ ws' = Cleared
  BY DEF Forget, MigrateEnd
<1>2. CASE ws' = ws
  BY <1>1, <1>2, SightWhereFilesStay DEF Clear
<1>3. CASE ws' # ws
  <2>1. /\ ws' = Cleared /\ ws.pick # None
        /\ Prev(ws') = None /\ RootOf(ws') = RootOf(ws)
        /\ ws'.pick = ws.pick /\ ws'.name = ws.name
    BY <1>1, <1>3, ClearedForgets
  <2>2. Prev(ws)' = None /\ RootOf(ws)' = RootOf(ws)
    BY <2>1
  <2>3. \A k \in Cards : Shown(k) => Shown(k)'
    BY <1>1, <2>1, <2>2 DEF Shown, Whole
  <2>4. ours \subseteq Cards
    BY DEF TypeOK
  <2>5. \A k \in ours : InView(k) => Shown(k) \/ k \in missed
    <3>1. CASE Forget
      <4>1. asked
        BY <3>1 DEF Forget
      <4> QED BY <4>1 DEF Clear, AskedOfNothing, InView, Pointed
    <3>2. CASE MigrateEnd
      <4>1. run # None /\ run.todo = {} /\ ~ run.failed
        BY <3>2, <1>3 DEF MigrateEnd, Complete
      <4>2. ASSUME NEW k \in ours, Pointed(k) PROVE Shown(k) \/ k \in missed
        BY <4>1, <4>2 DEF Clear, BringsHome, Pointed
      <4> QED BY <4>2 DEF InView
    <3> QED BY <3>1, <3>2
  <2>6. SightStays
    BY <1>1, <2>3, <2>4, <2>5 DEF SightStays, InView
  <2>7. NoneTorn' /\ AskedOfNothing'
    BY <1>1, <2>2 DEF Clear, NoneTorn, AskedOfNothing
  <2>8. BringsHome'
    <3>1. CASE run' = None
      BY <3>1 DEF BringsHome
    <3>2. CASE run' # None
      <4>1. Forget /\ run' = run /\ asked
        BY <3>2 DEF Forget, MigrateEnd
      <4>2. run.todo \subseteq missed
        <5>1. Prev(ws) # None => run.todo \subseteq ClaimedAt(Prev(ws))
          BY <3>2, <4>1 DEF Clear, BringsHome
        <5>2. Prev(ws) = None => run.todo \subseteq missed
          BY <3>2, <4>1 DEF Clear, BringsHome
        <5> QED BY <5>1, <5>2, <4>1 DEF Clear, AskedOfNothing
      <4>3. run.to = RootOf(ws) /\ (run.half # None => run.half \in run.todo)
        BY <3>2, <4>1 DEF Clear, BringsHome
      <4> QED BY <4>1, <4>2, <4>3, <1>1, <2>1, <2>2 DEF BringsHome
    <3> QED BY <3>1, <3>2
  <2> QED BY <2>6, <2>7, <2>8 DEF Clear
<1> QED BY <1>2, <1>3

\* Where every volume is, what is at a root is what its path shows.
LEMMA PassedOverThere ==
  ASSUME hollow = {}, NEW prev, NEW unread, IsDir(prev.root)
  PROVE  PassedOver(prev, unread) = ClaimedAt(prev) \ (ClaimedAt(prev) \ unread)
<1>1. Home(prev.root) = disk[prev.root]
  BY DEF Home
<1> QED BY <1>1 DEF PassedOver, ClaimedHome, ClaimedAt

LEMMA SightWhereARunBegins ==
  ASSUME TypeOK, Aside, Clear, ~ left.busy, hollow = {}, Migrate
  PROVE  Clear' /\ SightStays
<1>1. run = None /\ ~ asked /\ ws.pick # None /\ UNCHANGED <<ws, disk, ours, asked>>
  BY DEF Migrate, Calm
<1>2. NoneTorn' /\ AskedOfNothing' /\ SightStays
  <2>1. NoneTorn' /\ SightStays
    BY <1>1, SightWhereFilesStay DEF Clear
  <2> QED BY <2>1, <1>1 DEF AskedOfNothing
<1>3. BringsHome'
  <2>1. CASE run' = None
    BY <2>1 DEF BringsHome
  <2>2. CASE run' # None
    <3>1. PICK prev, to : prev = Prev(ws) /\ to = RootOf(ws)
      OBVIOUS
    <3>2. PICK unread \in SUBSET ClaimedAt(prev) :
            /\ prev # None /\ IsDir(prev.root)
            /\ missed' = missed \cup PassedOver(prev, unread)
            /\ run' = [from |-> prev.root, to |-> to, todo |-> ClaimedAt(prev) \ unread,
                       name |-> IF prev.project = ws.name THEN None ELSE ws.name,
                       half |-> None, failed |-> FALSE]
      <4>1. Reached(to) /\ prev # None /\ IsDir(prev.root)
        BY <2>2, <3>1 DEF Migrate
      <4> QED BY <2>2, <4>1, <3>1 DEF Migrate
    <3>3. /\ run'.from = prev.root /\ run'.to = to /\ run'.todo = ClaimedAt(prev) \ unread
          /\ run'.name = IF prev.project = ws.name THEN None ELSE ws.name
          /\ run'.half = None
      BY <3>2
    <3>4. Prev(ws)' = prev /\ RootOf(ws)' = to
      BY <3>1, <1>1
    <3>5. ClaimedAt(prev)' = ClaimedAt(prev)
      BY <1>1 DEF ClaimedAt, Claimed, Whole
    <3>6. ClaimedAt(Prev(ws))' = ClaimedAt(prev)
      BY <3>4, <3>5 DEF ClaimedAt, Claimed, Whole
    <3>7. \A c \in ClaimedAt(prev) : c \in run'.todo \/ c \in missed'
      BY <3>2, <3>3, PassedOverThere
    <3> QED BY <3>2, <3>3, <3>4, <3>6, <3>7, <1>1 DEF BringsHome
  <2> QED BY <2>1, <2>2
<1> QED BY <1>2, <1>3 DEF Clear

\* What waits for a calm moment finds no run and no answer on the way.
LEMMA SightWhereItIsCalm ==
  ASSUME Kept, Clear, ~ left.busy,
         \/ \E n \in Names, p \in Trackers : Save(n, p)
         \/ Configure \/ Dismiss \/ Create
         \/ \E s \in Sessions : FileFromSession(s)
         \/ \E r \in Roots, c \in Cards : Damage(r, c)
  PROVE  Clear' /\ (SightStays \/ ByPeople)
<1>1. run = None /\ ~ asked /\ UNCHANGED <<run, asked>>
  BY DEF Save, Configure, Dismiss, Create, FileFromSession, Damage, Calm
<1>2. AskedOfNothing' /\ BringsHome'
  BY <1>1 DEF AskedOfNothing, BringsHome
<1>3. CASE \/ \E n \in Names, p \in Trackers : Save(n, p)
           \/ Dismiss
  <2>1. UNCHANGED disk /\ ByPeople
    BY <1>3 DEF Save, Dismiss, ByPeople
  <2> QED BY <2>1, <1>2 DEF Clear, NoneTorn
<1>4. CASE Configure
  <2>1. UNCHANGED <<ws, disk>>
    BY <1>4 DEF Configure
  <2> QED BY <2>1, <1>2, SightWhereFilesStay DEF Clear, Kept
<1>5. ASSUME NEW r \in Roots, NEW n \in Names, NEW bs, Filed(r, n, bs), UNCHANGED ws
      PROVE  NoneTorn' /\ SightStays
  <2>1. PICK c \in Cards, v \in Card :
          /\ c \notin ours \cup Foreign /\ ~ v.torn
          /\ disk' = [disk EXCEPT ![r][c] = v]
          /\ ours' = ours \cup {c}
    BY <1>5, FiledCard DEF Kept
  <2>2. disk \in [Roots -> [Cards -> Card \cup {None}]] /\ ours \subseteq Cards
    BY DEF Kept, TypeOK
  <2>3. \A q \in Roots, k \in Cards : disk'[q][k] = IF q = r /\ k = c THEN v ELSE disk[q][k]
    BY <2>1, <2>2
  <2>4. NoneTorn'
    BY <2>1, <2>3 DEF Clear, NoneTorn
  <2>5. \A k \in ours : InView(k)' <=> InView(k)
    BY <2>1, <2>2, <2>3, <1>5, SightOfOthers DEF Kept
  <2> QED BY <2>4, <2>5 DEF SightStays
<1>6. CASE Create
  <2>1. RootOf(ws) \in Roots /\ ws.name \in Names
    BY <1>6, RootIsARoot DEF Kept, TypeOK, Create
  <2>2. Filed(RootOf(ws), ws.name, boards') /\ UNCHANGED ws
    BY <1>6 DEF Create
  <2> QED BY <2>1, <2>2, <1>2, <1>5 DEF Clear
<1>7. ASSUME NEW s \in Sessions, FileFromSession(s) PROVE NoneTorn' /\ SightStays
  <2>1. env[s].root \in Roots /\ env[s].project \in Names
    BY <1>7, NoneIsApart DEF Kept, TypeOK, FileFromSession
  <2>2. Filed(env[s].root, env[s].project, boards') /\ UNCHANGED ws
    BY <1>7 DEF FileFromSession
  <2> QED BY <2>1, <2>2, <1>5
<1>8. ASSUME NEW r \in Roots, NEW c \in Cards, Damage(r, c) PROVE NoneTorn' /\ ByPeople
  <2>1. /\ disk \in [Roots -> [Cards -> Card \cup {None}]]
        /\ disk[r][c] \in Card /\ ~ disk[r][c].torn
    BY <1>8 DEF Kept, TypeOK, Damage, Whole
  <2>2. PICK v : v = [disk[r][c] EXCEPT !.project = None]
    OBVIOUS
  <2>3. ~ v.torn
    BY <2>1, <2>2 DEF Card
  <2>4. disk' = [disk EXCEPT ![r][c] = v]
    BY <1>8, <2>2 DEF Damage
  <2>5. \A q \in Roots, k \in Cards : disk'[q][k] = IF q = r /\ k = c THEN v ELSE disk[q][k]
    BY <2>1, <2>4
  <2> QED BY <2>3, <2>5, <1>8 DEF Clear, NoneTorn, ByPeople
<1> QED BY <1>2, <1>3, <1>4, <1>6, <1>7, <1>8 DEF Clear

LEMMA SightWhereItIsAsked ==
  ASSUME TypeOK, Clear, hollow = {}, Ask
  PROVE  Clear' /\ SightStays
<1>1. PICK prev : prev = Prev(ws)
  OBVIOUS
<1>2. PICK unread \in SUBSET ClaimedAt(prev) :
        /\ asked' = Forgettable(prev, unread)
        /\ missed' = missed \cup PassedOver(prev, unread)
  BY <1>1 DEF Ask
<1>3. UNCHANGED <<ws, disk, run, ours>> /\ missed \subseteq missed'
  BY <1>2 DEF Ask
<1>4. NoneTorn' /\ BringsHome' /\ SightStays
  BY <1>3, SightWhereFilesStay DEF Clear
<1>5. ClaimedAt(prev)' = ClaimedAt(prev)
  BY <1>3 DEF ClaimedAt, Claimed, Whole
<1>6. Prev(ws)' = prev
  BY <1>1, <1>3
<1>7. ClaimedAt(Prev(ws))' = ClaimedAt(prev)
  BY <1>5, <1>6 DEF ClaimedAt, Claimed, Whole
<1>8. ASSUME asked' PROVE ClaimedAt(prev) \subseteq missed'
  <2>1. IsDir(prev.root) /\ ClaimedAt(prev) \subseteq unread
    BY <1>2, <1>8 DEF Forgettable
  <2>2. PassedOver(prev, unread) = ClaimedAt(prev) \ (ClaimedAt(prev) \ unread)
    BY <2>1, PassedOverThere
  <2> QED BY <2>1, <2>2, <1>2
<1>9. AskedOfNothing'
  BY <1>7, <1>8 DEF AskedOfNothing
<1> QED BY <1>4, <1>9 DEF Clear

\* A save keeps a pointer that leads elsewhere, or points at the root it leaves.
LEMMA AsideHolds == ASSUME TypeOK, Aside, [Next]_vars PROVE Aside'
<1>1. CASE ws' = ws
  <2>1. Prev(ws)' = Prev(ws) /\ RootOf(ws)' = RootOf(ws)
    BY <1>1
  <2> QED BY <2>1 DEF Aside
<1>2. CASE ws' = Cleared
  <2>1. CASE ws.pick = None
    BY <2>1, <1>1, <1>2, ClearedForgets
  <2>2. CASE ws.pick # None
    <3>1. Prev(ws)' = None
      BY <2>2, <1>2, ClearedForgets
    <3> QED BY <3>1 DEF Aside
  <2> QED BY <2>1, <2>2
<1>3. ASSUME NEW n \in Names, NEW p \in Trackers, Save(n, p) PROVE Aside'
  <2> DEFINE new == [name |-> n, pick |-> p, prev |-> None, current |-> TRUE]
  <2>1. PICK prev : prev = Previous(ws, new)
    OBVIOUS
  <2>2. ws' = [name |-> n, pick |-> p, prev |-> prev, current |-> TRUE]
    BY <1>3, <2>1 DEF Save
  <2>3. RootOf(ws') = RootOf(new) /\ Prev(ws') = prev
    BY <2>2 DEF RootOf, Prev
  <2>4. prev # None => prev.root # RootOf(new)
    <3> HIDE DEF new
    <3> QED BY <2>1 DEF Previous
  <2>5. RootOf(ws)' = RootOf(new) /\ Prev(ws)' = prev
    BY <2>3
  <2> HIDE DEF new
  <2> QED BY <2>4, <2>5 DEF Aside
<1>4. ws' = ws \/ ws' = Cleared \/ \E n \in Names, p \in Trackers : Save(n, p)
  BY WorkspaceStep
<1> QED BY <1>1, <1>2, <1>3, <1>4

Kinds == {"save", "start", "file", "dismiss", "configure", "damage", "unmount", "vacate",
          "unread", "fault", "tear", "stop"}

LEMMA SpentOnce ==
  ASSUME left \in Budgets, NEW k \in Kinds, Spend(k)
  PROVE  left' \in Budgets /\ left'.busy = left.busy /\ (\A j \in Kinds : left[j] = 0 => left'[j] = 0)
<1>1. PICK n : n = left[k] - 1
  OBVIOUS
<1>2. n \in Nat /\ left[k] # 0
  BY <1>1 DEF Spend, Kinds, Budgets
<1>3. left' = [left EXCEPT ![k] = n]
  BY <1>1 DEF Spend
<1>4. \A j \in Kinds : left'[j] = IF j = k THEN n ELSE left[j]
  BY <1>3 DEF Kinds, Budgets
<1>5. left'.busy = left.busy
  BY <1>3 DEF Kinds, Budgets
<1>6. left' \in Budgets
  BY <1>2, <1>3 DEF Kinds, Budgets
<1> QED BY <1>2, <1>4, <1>5, <1>6

LEMMA LeftHolds ==
  ASSUME left \in Budgets, [Next]_vars
  PROVE  left' \in Budgets /\ left'.busy = left.busy /\ (\A j \in Kinds : left[j] = 0 => left'[j] = 0)
<1>1. CASE Ask \/ Migrate
  <2>1. UNCHANGED left \/ Spend("unread")
    BY <1>1 DEF Ask, Migrate, Skips
  <2> QED BY <2>1, SpentOnce DEF Kinds
<1>2. CASE ~ (Ask \/ Migrate)
  <2>1. UNCHANGED left \/ \E k \in Kinds : Spend(k)
    BY <1>2 DEF Next, MoveStep, Save, Configure, Poll, Forget, Dismiss, AlreadyThere, Rename,
           Copy, Fail, Tear, RemoveOriginal, OriginalStays, MigrateEnd, Create, StartSession,
           FileFromSession, Damage, Unmount, Mount, Stop, vars, Filed, Kinds
  <2> QED BY <2>1, SpentOnce
<1> QED BY <1>1, <1>2

\* While people wait for what runs no write is torn, and no volume leaves its
\* mount point behind.
Firm == left \in Budgets /\ (~ left.busy => left.tear = 0 /\ left.vacate = 0 /\ hollow = {})
Sighted == Kept /\ Aside /\ Firm /\ (~ left.busy => Clear)

LEMMA FirmHolds == ASSUME Firm, [Next]_vars PROVE Firm' /\ left'.busy = left.busy
<1>1. left' \in Budgets /\ left'.busy = left.busy /\ \A j \in Kinds : left[j] = 0 => left'[j] = 0
  BY LeftHolds DEF Firm
<1>2. ASSUME ~ left.busy PROVE hollow' = {}
  <2>1. left.vacate = 0 /\ hollow = {} /\ ~ Spend("vacate")
    BY <1>2 DEF Firm, Spend
  <2>2. ASSUME NEW p \in Picks, Unmount(p) \/ Mount(p) PROVE UNCHANGED hollow
    BY <2>1, <2>2 DEF Unmount, Mount
  <2>3. (\E p \in Picks : Unmount(p) \/ Mount(p)) \/ UNCHANGED hollow
    BY DEF Next, MoveStep, Save, Configure, Poll, Ask, Forget, Dismiss, Migrate, AlreadyThere,
           Rename, Copy, Fail, Tear, RemoveOriginal, OriginalStays, MigrateEnd, Create,
           StartSession, FileFromSession, Damage, Stop, vars
  <2> QED BY <2>1, <2>2, <2>3
<1> QED BY <1>1, <1>2 DEF Firm, Kinds

LEMMA SightedHolds ==
  ASSUME Sighted, ~ left.busy => CopiesAgree, [Next]_vars
  PROVE  Sighted' /\ (~ left.busy => SightStays \/ ByPeople)
<1>1. Kept' /\ Aside'
  BY KeptHolds, AsideHolds DEF Sighted, Kept
<1>2. Firm' /\ left'.busy = left.busy
  BY FirmHolds DEF Sighted
<1>3. ASSUME ~ left.busy PROVE Clear' /\ (SightStays \/ ByPeople)
  <2>1. /\ TypeOK /\ Aside /\ Clear /\ CopiesAgree /\ Kept
        /\ left.tear = 0 /\ left.vacate = 0 /\ hollow = {}
    BY <1>3 DEF Sighted, Kept, Firm
  <2>2. CASE \/ \E n \in Names, p \in Trackers : Save(n, p)
             \/ Configure \/ Dismiss \/ Create
             \/ \E s \in Sessions : FileFromSession(s)
             \/ \E r \in Roots, c \in Cards : Damage(r, c)
    BY <2>1, <2>2, <1>3, SightWhereItIsCalm
  <2>3. CASE \/ Poll \/ Stop \/ UNCHANGED vars
             \/ \E s \in Sessions : StartSession(s)
             \/ \E p \in Picks : Unmount(p) \/ Mount(p)
    <3>1. ~ Spend("vacate")
      BY <2>1 DEF Spend
    <3>2. /\ UNCHANGED <<ws, disk>> /\ UNCHANGED <<ours, missed>>
          /\ asked' = asked \/ asked' = FALSE
          /\ run' = run \/ run' = None
      <4>1. ASSUME NEW p \in Picks, Unmount(p) \/ Mount(p)
            PROVE  UNCHANGED <<ws, disk, ours, missed, asked, run>>
        BY <4>1, <3>1, <2>1 DEF Unmount, Mount
      <4> QED BY <2>3, <4>1 DEF Poll, Stop, StartSession, vars
    <3> QED BY <3>2, <2>1, SightWhereFilesStay DEF Clear
  <2>4. CASE Ask
    BY <2>1, <2>4, SightWhereItIsAsked
  <2>5. CASE Forget \/ MigrateEnd
    BY <2>1, <2>5, SightWhereThePointerGoes
  <2>6. CASE Migrate
    BY <2>1, <2>6, <1>3, SightWhereARunBegins
  <2>7. CASE RemoveOriginal \/ OriginalStays
    BY <2>1, <2>7, SightWhereAnOriginalGoes
  <2>8. ASSUME NEW c \in Cards, AlreadyThere(c) \/ Rename(c) \/ Copy(c) \/ Fail(c)
        PROVE  Clear' /\ SightStays
    BY <2>1, <2>8, SightWhereACardIsMoved
  <2>9. ASSUME NEW c \in Cards, Tear(c) PROVE FALSE
    BY <2>1, <2>9 DEF Tear, Spend
  <2> QED BY <2>2, <2>3, <2>4, <2>5, <2>6, <2>7, <2>8, <2>9 DEF Next, MoveStep
<1> QED BY <1>1, <1>2, <1>3 DEF Sighted

\* Where every volume is, a card in sight is one in view.
LEMMA SightIsView ==
  ASSUME TypeOK, hollow = {}, NEW c
  PROVE  InSight(c) <=> InView(c)
<1>1. \A r \in Roots : Home(r) = disk[r]
  BY DEF Home
<1>2. OnBoard(c) <=> Shown(c)
  <2>1. ws.pick # None => RootOf(ws) \in Roots
    BY RootIsARoot DEF TypeOK
  <2> QED BY <2>1, <1>1 DEF OnBoard, Shown, Whole
<1>3. Offered(c) <=> Pointed(c)
  <2>1. Prev(ws) # None => ClaimedHome(Prev(ws)) = ClaimedAt(Prev(ws))
    <3>1. Prev(ws) # None => Prev(ws).root \in Roots
      BY PrevIsAPointer DEF Pointer
    <3> QED BY <3>1, <1>1 DEF ClaimedHome, ClaimedAt
  <2> QED BY <2>1 DEF Offered, Pointed
<1> QED BY <1>2, <1>3 DEF InSight, InView

\* The same, of the next state.
LEMMA SightIsViewNext ==
  ASSUME TypeOK', hollow' = {}, NEW c
  PROVE  InSight(c)' <=> InView(c)'
<1>1. \A r \in Roots : Home(r)' = disk'[r]
  BY DEF Home
<1>2. OnBoard(c)' <=> Shown(c)'
  <2>1. ws'.pick # None => RootOf(ws') \in Roots
    BY RootIsARoot DEF TypeOK
  <2>2. PICK r : r = RootOf(ws')
    OBVIOUS
  <2>3. RootOf(ws)' = r
    BY <2>2
  <2> QED BY <2>1, <2>2, <2>3, <1>1 DEF OnBoard, Shown, Whole
<1>3. Offered(c)' <=> Pointed(c)'
  <2>1. PICK prev : prev = Prev(ws')
    OBVIOUS
  <2>2. Prev(ws)' = prev
    BY <2>1
  <2>3. prev # None => prev.root \in Roots
    BY <2>1, PointerOf DEF TypeOK, Pointer
  <2> QED BY <2>2, <2>3, <1>1 DEF Offered, Pointed, ClaimedHome, ClaimedAt, Claimed
<1> QED BY <1>2, <1>3 DEF InSight, InView

\* What the property says of a step that keeps the sight of every card.
LEMMA SightStaysThere ==
  ASSUME Sighted, Sighted', ~ left.busy, ~ left'.busy, SightStays \/ ByPeople
  PROVE  \A c \in ours : InSight(c) => InSight(c)' \/ ByPeople \/ c \in missed' \/ Covered(c)'
<1>1. TypeOK /\ TypeOK' /\ hollow = {} /\ hollow' = {}
  BY DEF Sighted, Kept, Firm
<1> QED BY <1>1, SightIsView, SightIsViewNext DEF SightStays

\* No mode lets a write be torn, or a mount point be left behind, while people
\* wait for what runs.
NoTear == \A m \in Modes : ~ m.busy => m.tear = 0 /\ m.vacate = 0

LEMMA SightedBegins == ASSUME NoTear, Init PROVE Sighted
<1>1. PICK n \in Names, p \in Picks \cup {Here}, current \in BOOLEAN, own \in BOOLEAN,
           home \in Roots, at \in Roots \ {Here}, c \in Cards \ Foreign :
        Began(n, p, current, own, home, at, c)
  BY Beginning
<1>2. left \in Modes /\ run = None /\ asked = FALSE /\ hollow = {}
  BY DEF Init
<1>3. Firm
  BY <1>2, CardMovesAssumption DEF NoTear, Firm
<1>4. NoneTorn
  BY <1>1 DEF Began, NoneTorn
<1>5. ws = [name |-> n, pick |-> p, prev |-> None, current |-> current]
  BY <1>1 DEF Began
<1>6. Aside
  <2>1. CASE Prev(ws) # None
    <3>1. p \in Picks /\ Prev(ws).root = <<p, None>> /\ RootOf(ws) = <<p, n>>
      BY <2>1, <1>5 DEF Prev, Old, RootOf
    <3> QED BY <3>1, NoneIsApart DEF Aside
  <2> QED BY <2>1 DEF Aside
<1> QED BY <1>2, <1>3, <1>4, <1>6, KeptBegins DEF Sighted, Clear, AskedOfNothing, BringsHome

---------------------------------------------------------------------------
(* A workspace that keeps its name: whatever fails, stops or is unplugged. *)

OneName == \A n, m \in Names : n = m

\* A card that was filed here does not turn into somebody else's.
Named ==
  \A r \in Roots, c \in ours :
    /\ disk[r][c] # None => disk[r][c].project # Other
    /\ hidden.disk[r][c] # None => hidden.disk[r][c].project # Other

\* A card that is at the root in use is on the board, for there is one name.
LEMMA NamedCopiesAgree ==
  ASSUME OneName, TypeOK, NoneTorn, Named, BringsHome
  PROVE  CopiesAgree
<1>1. ASSUME NEW c \in ours, Moving(c), ~ Free(c) PROVE Shown(c)
  <2>1. run # None /\ run \in Running
    BY <1>1 DEF Moving, TypeOK, Running
  <2>2. PICK to : to = run.to
    OBVIOUS
  <2>3. to \in Roots /\ to = RootOf(ws) /\ ws.pick # None /\ ws.name \in Names
    BY <2>1, <2>2 DEF BringsHome, Running, TypeOK
  <2>4. c \in Cards /\ disk[to][c] # None
    BY <1>1, <2>2 DEF Free, TypeOK
  <2>5. disk[to][c] \in Card /\ ~ disk[to][c].torn /\ disk[to][c].project # Other
    BY <1>1, <2>3, <2>4 DEF TypeOK, NoneTorn, Named
  <2>6. disk[to][c].project \in {ws.name, None}
    BY <2>3, <2>5 DEF Card, OneName
  <2> QED BY <2>3, <2>4, <2>5, <2>6 DEF Shown, Whole
<1> QED BY <1>1 DEF CopiesAgree

LEMMA NamedWhereACardIsFiled ==
  ASSUME Kept, Named, UNCHANGED hidden, NEW r \in Roots, NEW n \in Names, NEW bs, Filed(r, n, bs)
  PROVE  Named'
<1>1. PICK c \in Cards, v \in Card :
        /\ c \notin ours \cup Foreign /\ v.project = n
        /\ disk' = [disk EXCEPT ![r][c] = v]
        /\ ours' = ours \cup {c}
  BY FiledCard DEF Kept
<1>2. disk \in [Roots -> [Cards -> Card \cup {None}]] /\ ours \subseteq Cards
  BY DEF Kept, TypeOK
<1>3. \A q \in Roots, k \in Cards : disk'[q][k] = IF q = r /\ k = c THEN v ELSE disk[q][k]
  BY <1>1, <1>2
<1>4. n # Other
  BY NoneIsApart
<1>6. ASSUME NEW q \in Roots, NEW k \in ours', hidden.disk[q][k] # None
      PROVE  hidden.disk[q][k].project # Other
  <2>1. k \in ours /\ k \in Cards
    BY <1>1, <1>2, <1>6 DEF Kept, FilesAreCards
  <2> QED BY <2>1, <1>6 DEF Named
<1>5. ASSUME NEW q \in Roots, NEW k \in ours', disk'[q][k] # None
      PROVE  disk'[q][k].project # Other
  <2>1. CASE k = c /\ q = r
    BY <2>1, <1>1, <1>3, <1>4
  <2>2. CASE k = c /\ q # r
    <3>1. disk[q][c] # None
      BY <2>2, <1>1, <1>3, <1>5
    <3> QED BY <3>1, <1>1 DEF Kept, FilesAreCards
  <2>3. CASE k # c
    <3>1. k \in ours /\ k \in Cards /\ disk'[q][k] = disk[q][k]
      BY <2>3, <1>1, <1>2, <1>3, <1>5
    <3> QED BY <3>1, <1>5 DEF Named
  <2> QED BY <2>1, <2>2, <2>3
<1> QED BY <1>5, <1>6 DEF Named

LEMMA NamedHolds == ASSUME Kept, Named, [Next]_vars PROVE Named'
<1> USE NoneIsApart
<1>1. /\ disk \in [Roots -> [Cards -> Card \cup {None}]] /\ ours \subseteq Cards
      /\ run # None => run \in Running
  BY DEF Kept, TypeOK, Running
<1>2. CASE UNCHANGED <<disk, hidden, ours>>
  BY <1>2 DEF Named
<1>3. ASSUME NEW r \in Roots, NEW c \in Cards, NEW v \in Card \cup {None},
             UNCHANGED <<ours, hidden>>,
             disk' = [disk EXCEPT ![r][c] = v],
             v # None => (c \in ours => v.project # Other)
      PROVE  Named'
  <2>1. \A q \in Roots, k \in Cards : disk'[q][k] = IF q = r /\ k = c THEN v ELSE disk[q][k]
    BY <1>1, <1>3
  <2> QED BY <2>1, <1>1, <1>3 DEF Named
<1>4. ASSUME NEW c \in Cards, Rename(c) \/ Copy(c) \/ Tear(c) PROVE Named'
  <2>1. PICK from, to : from = run.from /\ to = run.to
    OBVIOUS
  <2>2. Movable(c) /\ UNCHANGED <<ours, hidden>>
    BY <1>4 DEF Rename, Copy, Tear
  <2>3. /\ run \in Running /\ from \in Roots /\ to \in Roots
        /\ disk[from][c] \in Card
    BY <1>1, <2>1, <2>2 DEF Movable, Moving, Running, Whole
  <2>4. c \in ours => disk[from][c].project # Other
    BY <2>3, NoneIsNoCard DEF Named
  <2>5. Carried(c) \in Card /\ (c \in ours => Carried(c).project # Other)
    <3>1. Carried(c) \in Card
      BY <2>2, CarriedIsTyped DEF Kept
    <3>2. CASE run.name = None
      BY <3>1, <3>2, <2>1, <2>4 DEF Carried
    <3>3. CASE run.name # None
      <4>1. Carried(c) = [disk[from][c] EXCEPT !.project = run.name] /\ run.name \in Names
        BY <3>3, <2>1, <2>3 DEF Carried, Running
      <4> QED BY <3>1, <4>1, <2>3 DEF Card
    <3> QED BY <3>2, <3>3
  <2>6. CASE Rename(c)
    <3> DEFINE v == disk[from][c]
    <3>1. disk' = [disk EXCEPT ![to][c] = v, ![from][c] = None]
      BY <2>1, <2>6 DEF Rename
    <3>2. \A q \in Roots, k \in Cards :
            disk'[q][k] = IF q = from /\ k = c THEN None
                          ELSE IF q = to /\ k = c THEN v ELSE disk[q][k]
      BY <3>1, <1>1, <2>3
    <3> QED BY <3>2, <1>1, <2>2, <2>4 DEF Named
  <2>7. CASE Copy(c)
    <3>1. disk' = [disk EXCEPT ![to][c] = Carried(c)]
      BY <2>1, <2>7 DEF Copy
    <3> QED BY <3>1, <2>2, <2>3, <2>5, <1>3
  <2>8. CASE Tear(c)
    <3>1. PICK v : v = [Carried(c) EXCEPT !.torn = TRUE]
      OBVIOUS
    <3>2. v \in Card /\ v.project = Carried(c).project
      BY <3>1, <2>5 DEF Card
    <3>3. disk' = [disk EXCEPT ![to][c] = v]
      BY <3>1, <2>1, <2>8 DEF Tear
    <3> QED BY <3>2, <3>3, <2>2, <2>3, <2>5, <1>3
  <2> QED BY <1>4, <2>6, <2>7, <2>8
<1>5. CASE RemoveOriginal
  <2>1. run \in Running /\ run.half \in Cards /\ run.from \in Roots
        /\ UNCHANGED <<ours, hidden>>
        /\ disk' = [disk EXCEPT ![run.from][run.half] = None]
    BY <1>1, <1>5 DEF RemoveOriginal, Running
  <2> QED BY <2>1, <1>3
<1>6. CASE Create
  <2>1. /\ RootOf(ws) \in Roots /\ ws.name \in Names /\ UNCHANGED hidden
        /\ Filed(RootOf(ws), ws.name, boards')
    BY <1>6, RootIsARoot DEF Kept, TypeOK, Create
  <2> QED BY <2>1, NamedWhereACardIsFiled
<1>7. ASSUME NEW s \in Sessions, FileFromSession(s) PROVE Named'
  <2>1. /\ env[s].root \in Roots /\ env[s].project \in Names /\ UNCHANGED hidden
        /\ Filed(env[s].root, env[s].project, boards')
    BY <1>7 DEF Kept, TypeOK, FileFromSession
  <2> QED BY <2>1, NamedWhereACardIsFiled
<1>8. ASSUME NEW r \in Roots, NEW c \in Cards, Damage(r, c) PROVE Named'
  <2>1. disk[r][c] \in Card
    BY <1>1, <1>8 DEF Damage, Whole
  <2>2. PICK v : v = [disk[r][c] EXCEPT !.project = None]
    OBVIOUS
  <2>3. v \in Card /\ v.project = None
    BY <2>1, <2>2 DEF Card
  <2>4. disk' = [disk EXCEPT ![r][c] = v] /\ UNCHANGED <<ours, hidden>>
    BY <1>8, <2>2 DEF Damage
  <2> QED BY <2>3, <2>4, <1>3
<1>9. ASSUME NEW p \in Picks, Turn(p), UNCHANGED ours PROVE Named'
  <2>1. \A r \in Roots :
          \/ disk'[r] = hidden.disk[r] /\ hidden'.disk[r] = disk[r]
          \/ disk'[r] = disk[r] /\ hidden'.disk[r] = hidden.disk[r]
    <3>1. \A r \in Roots :
            IF r \in Below(p) THEN disk'[r] = hidden.disk[r] /\ hidden'.disk[r] = disk[r]
            ELSE disk'[r] = disk[r] /\ hidden'.disk[r] = hidden.disk[r]
      BY <1>9, TurnIsTyped DEF Kept
    <3> QED BY <3>1
  <2> QED BY <2>1, <1>9 DEF Named
<1>10. ASSUME NEW p \in Picks, Unmount(p) \/ Mount(p) PROVE Named'
  <2>1. UNCHANGED <<disk, hidden, ours>> \/ (Turn(p) /\ UNCHANGED ours)
    BY <1>10 DEF Unmount, Mount
  <2> QED BY <2>1, <1>2, <1>9
<1>11. \/ UNCHANGED <<disk, hidden, ours>> \/ RemoveOriginal \/ Create
       \/ \E s \in Sessions : FileFromSession(s)
       \/ \E r \in Roots, c \in Cards : Damage(r, c)
       \/ \E c \in Cards : Rename(c) \/ Copy(c) \/ Tear(c)
       \/ \E p \in Picks : Unmount(p) \/ Mount(p)
  BY DEF Next, MoveStep, Save, Configure, Poll, Ask, Forget, Dismiss, Migrate, AlreadyThere,
         Fail, OriginalStays, MigrateEnd, StartSession, Stop, vars
<1> QED BY <1>2, <1>4, <1>5, <1>6, <1>7, <1>8, <1>10, <1>11

LEMMA NamedBegins == ASSUME Init PROVE Named
<1>1. PICK n \in Names, p \in Picks \cup {Here}, current \in BOOLEAN, own \in BOOLEAN,
           home \in Roots, at \in Roots \ {Here}, c \in Cards \ Foreign :
        Began(n, p, current, own, home, at, c)
  BY Beginning
<1>2. \A r \in Roots, k \in Cards : hidden.disk[r][k] = None
  BY DEF Init
<1>3. ours \subseteq Cards
  BY <1>1 DEF Began
<1> QED BY <1>1, <1>2, <1>3, NoneIsApart DEF Began, Named

(* No poll, no migration, no volume and no quit takes a card out of sight    *)
(* but one that a scan of the previous location could not read, whatever     *)
(* fails half way, as long as the workspace keeps its name, no half-written  *)
(* file is left behind and a volume that goes takes its mount point along:   *)
(* what a broken run leaves at the destination (migrate.rs: "the same name   *)
(* is the same card") is the card.                                           *)
THEOREM SightIsKeptUnrenamed ==
  ASSUME NoTear, OneName
  PROVE  Spec => SightIsKept
<1>1. Init => Sighted /\ Named
  BY SightedBegins, NamedBegins
<1>2. ASSUME Sighted, Named, [Next]_vars
      PROVE  /\ Sighted' /\ Named' /\ (~ left.busy => SightStays \/ ByPeople)
             /\ left'.busy = left.busy
  <2>1. ~ left.busy => CopiesAgree
    BY <1>2, NamedCopiesAgree DEF Sighted, Kept, Clear
  <2> QED BY <2>1, <1>2, SightedHolds, NamedHolds, FirmHolds DEF Sighted
<1>3. Sighted /\ Named /\ [Next]_vars =>
        (~ left.busy => \A c \in ours :
           InSight(c) => InSight(c)' \/ ByPeople \/ c \in missed' \/ Covered(c)')
  BY <1>2, SightStaysThere
<1>4. Sighted /\ Named /\ [Next]_vars => (Sighted /\ Named)'
  BY <1>2
<1> QED BY <1>1, <1>3, <1>4, PTL DEF Spec, SightIsKept

---------------------------------------------------------------------------
(* A workspace of any names, when nothing fails, stops or is unplugged.    *)

Unbroken == \A m \in Modes : ~ m.busy => m.fault = 0 /\ m.stop = 0 /\ m.unmount = 0

\* A card is in one place, or in two while its original waits to be removed.
OnePlace ==
  \A c \in ours, r, q \in Roots :
    r # q /\ disk[r][c] # None /\ disk[q][c] # None =>
      run # None /\ run.half = c /\ {r, q} = {run.from, run.to}

Sound == mounted = Picks /\ OnePlace
Unharmed ==
  left \in Budgets /\ (~ left.busy => /\ left.fault = 0 /\ left.stop = 0 /\ left.unmount = 0
                                      /\ Sound)

LEMMA AllIsReached ==
  ASSUME mounted = Picks, NEW r \in Roots
  PROVE  Reached(r)
BY DEF Reached, Roots

LEMMA OnePlaceCopiesAgree ==
  ASSUME TypeOK, Aside, Clear, Sound
  PROVE  CopiesAgree
<1>1. ASSUME NEW c \in ours, Moving(c), ~ Free(c) PROVE c \in missed
  <2>1. run # None /\ run.half = None /\ c \in run.todo /\ c \in Cards
    BY <1>1 DEF Moving, TypeOK
  <2>2. CASE Prev(ws) = None
    BY <2>1, <2>2 DEF Clear, BringsHome
  <2>3. CASE Prev(ws) # None
    <3>1. /\ run.from \in Roots /\ run.to \in Roots /\ run.from # run.to
          /\ disk[run.from][c] # None
      BY <2>1, <2>3, TodoIsClaimed DEF Whole
    <3>2. disk[run.to][c] # None
      BY <1>1 DEF Free
    <3> QED BY <2>1, <3>1, <3>2, NoneIsApart DEF Sound, OnePlace
  <2> QED BY <2>2, <2>3
<1> QED BY <1>1 DEF CopiesAgree

LEMMA OnePlaceWhereACardIsFiled ==
  ASSUME Kept, OnePlace, UNCHANGED run, NEW r \in Roots, NEW n \in Names, NEW bs,
         Filed(r, n, bs)
  PROVE  OnePlace'
<1>1. PICK c \in Cards, v \in Card :
        /\ c \notin ours \cup Foreign
        /\ disk' = [disk EXCEPT ![r][c] = v]
        /\ ours' = ours \cup {c}
  BY FiledCard DEF Kept
<1>2. disk \in [Roots -> [Cards -> Card \cup {None}]] /\ ours \subseteq Cards
  BY DEF Kept, TypeOK
<1>3. \A q \in Roots, k \in Cards : disk'[q][k] = IF q = r /\ k = c THEN v ELSE disk[q][k]
  BY <1>1, <1>2
<1>4. \A q \in Roots : disk[q][c] = None
  BY <1>1 DEF Kept, FilesAreCards
<1>5. ASSUME NEW k \in ours', NEW p \in Roots, NEW q \in Roots, p # q,
             disk'[p][k] # None, disk'[q][k] # None
      PROVE  run # None /\ run.half = k /\ {p, q} = {run.from, run.to}
  <2>1. k # c
    BY <1>1, <1>3, <1>4, <1>5
  <2>2. k \in ours /\ disk[p][k] # None /\ disk[q][k] # None
    BY <2>1, <1>1, <1>2, <1>3, <1>5
  <2> QED BY <2>2, <1>5 DEF OnePlace
<1> QED BY <1>5 DEF OnePlace

LEMMA OnePlaceWhereACardIsMoved ==
  ASSUME TypeOK, Aside, Clear, Sound, NEW c \in Cards, Rename(c) \/ Copy(c)
  PROVE  OnePlace'
<1>1. PICK from, to : from = run.from /\ to = run.to
  OBVIOUS
<1>2. Movable(c) /\ UNCHANGED ours
  BY DEF Rename, Copy
<1>3. run # None /\ run.half = None /\ c \in run.todo /\ disk[from][c] # None
  BY <1>1, <1>2 DEF Movable, Moving, Whole
<1>4. run \in Running /\ from \in Roots /\ to \in Roots /\ from # to
  <2>1. run \in Running /\ from \in Roots /\ to \in Roots
    BY <1>1, <1>3 DEF TypeOK, Running
  <2>2. disk[to][c] = None
    BY <1>1, <1>2, <2>1, AllIsReached DEF Movable, Free, Sound
  <2> QED BY <2>1, <2>2, <1>3
<1>5. disk \in [Roots -> [Cards -> Card \cup {None}]] /\ ours \subseteq Cards
  BY DEF TypeOK
<1>6. \A k \in ours, r, q \in Roots : ~ (r # q /\ disk[r][k] # None /\ disk[q][k] # None)
  BY <1>3, <1>5, NoneIsApart DEF Sound, OnePlace
<1>7. c \in ours => \A r \in Roots \ {from} : disk[r][c] = None
  BY <1>3, <1>4, <1>6
<1>8. CASE Rename(c)
  <2> DEFINE v == disk[from][c]
  <2>1. disk' = [disk EXCEPT ![to][c] = v, ![from][c] = None]
    BY <1>1, <1>8 DEF Rename
  <2>2. \A q \in Roots, k \in Cards :
          disk'[q][k] = IF q = from /\ k = c THEN None
                        ELSE IF q = to /\ k = c THEN v ELSE disk[q][k]
    BY <2>1, <1>4, <1>5
  <2> HIDE DEF v
  <2>3. \A k \in ours, r, q \in Roots : ~ (r # q /\ disk'[r][k] # None /\ disk'[q][k] # None)
    BY <2>2, <1>5, <1>6, <1>7
  <2> QED BY <2>3, <1>2 DEF OnePlace
<1>9. CASE Copy(c)
  <2> DEFINE v == Carried(c)
  <2>1. disk' = [disk EXCEPT ![to][c] = v] /\ run' = [run EXCEPT !.half = c]
    BY <1>1, <1>9 DEF Copy
  <2> HIDE DEF v
  <2>2. \A q \in Roots, k \in Cards :
          disk'[q][k] = IF q = to /\ k = c THEN v ELSE disk[q][k]
    BY <2>1, <1>4, <1>5
  <2>3. run'.half = c /\ run'.from = from /\ run'.to = to /\ run' \in Running
    BY <2>1, <1>1, <1>4 DEF Running
  <2>4. ASSUME NEW k \in ours, NEW r \in Roots, NEW q \in Roots, r # q,
               disk'[r][k] # None, disk'[q][k] # None
        PROVE  k = c /\ {r, q} = {from, to}
    BY <2>2, <2>4, <1>5, <1>6, <1>7
  <2>5. run' # None
    BY <2>3, NoneIsNoRun
  <2> QED BY <2>3, <2>4, <2>5, <1>2 DEF OnePlace
<1> QED BY <1>8, <1>9

LEMMA OnePlaceWhereAnOriginalGoes ==
  ASSUME TypeOK, OnePlace, RemoveOriginal
  PROVE  OnePlace'
<1>1. PICK from, c : from = run.from /\ c = run.half
  OBVIOUS
<1>2. run # None /\ run \in Running /\ c # None
  BY <1>1 DEF RemoveOriginal, TypeOK, Running
<1>3. from \in Roots /\ c \in Cards
  BY <1>1, <1>2 DEF Running
<1>4. disk' = [disk EXCEPT ![from][c] = None] /\ UNCHANGED ours
  BY <1>1 DEF RemoveOriginal
<1>5. disk \in [Roots -> [Cards -> Card \cup {None}]] /\ ours \subseteq Cards
  BY DEF TypeOK
<1>6. \A q \in Roots, k \in Cards : disk'[q][k] = IF q = from /\ k = c THEN None ELSE disk[q][k]
  BY <1>3, <1>4, <1>5
<1>7. ASSUME NEW k \in ours, NEW r \in Roots, NEW q \in Roots, r # q,
             disk'[r][k] # None, disk'[q][k] # None
      PROVE  FALSE
  <2>1. disk[r][k] # None /\ disk[q][k] # None
    BY <1>5, <1>6, <1>7
  <2>2. c = k /\ from \in {r, q}
    BY <2>1, <1>1, <1>7 DEF OnePlace
  <2> QED BY <2>2, <1>3, <1>6, <1>7
<1> QED BY <1>4, <1>7 DEF OnePlace

LEMMA UnharmedHolds == ASSUME Sighted, Unharmed, [Next]_vars PROVE Unharmed'
<1> USE NoneIsApart
<1>1. left' \in Budgets /\ left'.busy = left.busy
      /\ \A j \in Kinds : left[j] = 0 => left'[j] = 0
  BY LeftHolds DEF Unharmed
<1>2. ASSUME ~ left.busy PROVE Sound'
  <2>1. /\ TypeOK /\ Kept /\ Aside /\ Clear /\ Sound /\ left.tear = 0
        /\ left.fault = 0 /\ left.stop = 0 /\ left.unmount = 0
        /\ left.vacate = 0 /\ hollow = {}
    BY <1>2 DEF Sighted, Unharmed, Firm, Kept
  <2>2. /\ disk \in [Roots -> [Cards -> Card \cup {None}]] /\ ours \subseteq Cards
        /\ run # None => run \in Running
    BY <2>1 DEF TypeOK, Running
  <2>3. run = None \/ run.half = None =>
          \A k \in ours, r, q \in Roots : ~ (r # q /\ disk[r][k] # None /\ disk[q][k] # None)
    BY <2>1, <2>2 DEF Sound, OnePlace
  <2>4. ~ Stop /\ (\A p \in Picks : ~ Unmount(p)) /\ (\A c \in Cards : ~ Tear(c))
    <3>1. ~ Spend("stop") /\ ~ Spend("unmount") /\ ~ Spend("vacate") /\ ~ Spend("tear")
      BY <2>1 DEF Spend
    <3>2. ~ Stop
      BY <3>1 DEF Stop
    <3>3. \A p \in Picks : ~ Unmount(p)
      BY <3>1 DEF Unmount
    <3>4. \A c \in Cards : ~ Tear(c)
      BY <3>1 DEF Tear
    <3> QED BY <3>2, <3>3, <3>4
  <2>6. (\A p \in Picks : ~ Mount(p)) /\ mounted' = mounted
    <3>1. \A p \in Picks : ~ Mount(p)
      BY <2>1 DEF Mount, Sound
    <3> QED BY <3>1, <2>4 DEF Next, MoveStep, Save, Configure, Poll, Ask, Forget, Dismiss,
               Migrate, AlreadyThere, Rename, Copy, Fail, RemoveOriginal, OriginalStays,
               MigrateEnd, Create, StartSession, FileFromSession, Damage, vars
  <2> SUFFICES OnePlace'
    BY <2>1, <2>6 DEF Sound
  <2>5. CASE OriginalStays
    <3>1. ~ Spend("fault") /\ run # None /\ run \in Running /\ run.half # None
      BY <2>1, <2>2, <2>5 DEF OriginalStays, Spend
    <3>2. Reached(run.from)
      BY <3>1, <2>1, AllIsReached DEF Sound, Running
    <3>3. disk[run.from][run.half] = None
      BY <3>1, <3>2, <2>5 DEF OriginalStays, Removable
    <3>4. UNCHANGED <<disk, ours>>
      BY <2>5 DEF OriginalStays
    <3>5. ASSUME NEW k \in ours, NEW r \in Roots, NEW q \in Roots, r # q,
                 disk[r][k] # None, disk[q][k] # None
          PROVE  FALSE
      <4>1. run.half = k /\ {r, q} = {run.from, run.to}
        BY <3>5, <2>1 DEF Sound, OnePlace
      <4> QED BY <4>1, <3>3, <3>5
    <3> QED BY <3>4, <3>5 DEF OnePlace
  <2>7. CASE UNCHANGED <<disk, ours, run>>
    BY <2>1, <2>7 DEF Sound, OnePlace
  <2>8. CASE /\ UNCHANGED <<disk, ours>>
             /\ run = None \/ run.half = None
    BY <2>3, <2>8 DEF OnePlace
  <2>9. ASSUME NEW c \in Cards, Rename(c) \/ Copy(c) PROVE OnePlace'
    BY <2>1, <2>9, OnePlaceWhereACardIsMoved
  <2>10. CASE RemoveOriginal
    BY <2>1, <2>10, OnePlaceWhereAnOriginalGoes DEF Sound
  <2>11. CASE Create
    <3>1. /\ RootOf(ws) \in Roots /\ ws.name \in Names /\ UNCHANGED run
          /\ Filed(RootOf(ws), ws.name, boards')
      BY <2>1, <2>11, RootIsARoot DEF TypeOK, Create
    <3> QED BY <3>1, <2>1, OnePlaceWhereACardIsFiled DEF Sound
  <2>12. ASSUME NEW s \in Sessions, FileFromSession(s) PROVE OnePlace'
    <3>1. /\ env[s].root \in Roots /\ env[s].project \in Names /\ UNCHANGED run
          /\ Filed(env[s].root, env[s].project, boards')
      BY <2>1, <2>12 DEF TypeOK, FileFromSession
    <3> QED BY <3>1, <2>1, OnePlaceWhereACardIsFiled DEF Sound
  <2>13. ASSUME NEW r \in Roots, NEW c \in Cards, Damage(r, c) PROVE OnePlace'
    <3>1. PICK v : v = [disk[r][c] EXCEPT !.project = None]
      OBVIOUS
    <3>2. disk' = [disk EXCEPT ![r][c] = v] /\ UNCHANGED <<ours, run>> /\ disk[r][c] # None
      BY <3>1, <2>13 DEF Damage, Whole
    <3>3. \A q \in Roots, k \in Cards : disk'[q][k] # None => disk[q][k] # None
      BY <3>2, <2>2
    <3>4. OnePlace /\ run' = run /\ ours' = ours
      BY <3>2, <2>1 DEF Sound
    <3>5. ASSUME NEW k \in ours', NEW p \in Roots, NEW q \in Roots, p # q,
                 disk'[p][k] # None, disk'[q][k] # None
          PROVE  run # None /\ run.half = k /\ {p, q} = {run.from, run.to}
      <4>1. k \in ours /\ disk[p][k] # None /\ disk[q][k] # None
        BY <3>3, <3>4, <3>5, <2>2
      <4> QED BY <4>1, <3>4, <3>5 DEF OnePlace
    <3> QED BY <3>4, <3>5 DEF OnePlace
  <2>14. ASSUME NEW c \in Cards, AlreadyThere(c) \/ Fail(c)
         PROVE  UNCHANGED <<disk, ours>> /\ run.half = None
    BY <2>14 DEF AlreadyThere, Fail, Moving
  <2>15. CASE Migrate \/ MigrateEnd
    <3>1. UNCHANGED <<disk, ours>> /\ (run = None \/ run.half = None)
      BY <2>15 DEF Migrate, MigrateEnd
    <3> QED BY <3>1, <2>8
  <2>16. CASE \/ \E n \in Names, p \in Trackers : Save(n, p)
              \/ Configure \/ Poll \/ Ask \/ Forget \/ Dismiss \/ UNCHANGED vars
              \/ \E s \in Sessions : StartSession(s)
    <3>1. UNCHANGED <<disk, ours, run>>
      BY <2>16 DEF Save, Configure, Poll, Ask, Forget, Dismiss, StartSession, vars
    <3> QED BY <3>1, <2>7
  <2> QED
    BY <2>4, <2>5, <2>6, <2>8, <2>9, <2>10, <2>11, <2>12, <2>13, <2>14, <2>15, <2>16
       DEF Next, MoveStep
<1> QED BY <1>1, <1>2 DEF Unharmed, Kinds

LEMMA UnharmedBegins == ASSUME Unbroken, Init PROVE Unharmed
<1>1. PICK n \in Names, p \in Picks \cup {Here}, current \in BOOLEAN, own \in BOOLEAN,
           home \in Roots, at \in Roots \ {Here}, c \in Cards \ Foreign :
        Began(n, p, current, own, home, at, c)
  BY Beginning
<1>2. left \in Modes /\ mounted = Picks
  BY DEF Init
<1>3. \A k \in ours, q \in Roots : disk[q][k] # None => q = home
  BY <1>1 DEF Began
<1>4. OnePlace
  BY <1>3 DEF OnePlace
<1> QED BY <1>2, <1>4, CardMovesAssumption DEF Unbroken, Unharmed, Sound

(* A workspace that moves and is renamed, between saves in any order, keeps  *)
(* its cards in sight through every poll and migration, but for one that a   *)
(* scan of the previous location could not read, as long as no migration     *)
(* fails, is cut short or loses its volume.                                  *)
THEOREM SightIsKeptUnbroken ==
  ASSUME NoTear, Unbroken
  PROVE  Spec => SightIsKept
<1>1. Init => Sighted /\ Unharmed
  BY SightedBegins, UnharmedBegins
<1>2. ASSUME Sighted, Unharmed, [Next]_vars
      PROVE  /\ Sighted' /\ Unharmed' /\ (~ left.busy => SightStays \/ ByPeople)
             /\ left'.busy = left.busy
  <2>1. ~ left.busy => CopiesAgree
    BY <1>2, OnePlaceCopiesAgree DEF Sighted, Kept, Unharmed
  <2> QED BY <2>1, <1>2, SightedHolds, UnharmedHolds, FirmHolds DEF Sighted
<1>3. Sighted /\ Unharmed /\ [Next]_vars =>
        (~ left.busy => \A c \in ours :
           InSight(c) => InSight(c)' \/ ByPeople \/ c \in missed' \/ Covered(c)')
  BY <1>2, SightStaysThere
<1>4. Sighted /\ Unharmed /\ [Next]_vars => (Sighted /\ Unharmed)'
  BY <1>2
<1> QED BY <1>1, <1>3, <1>4, PTL DEF Spec, SightIsKept
=============================================================================
