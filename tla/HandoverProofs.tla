--------------------------- MODULE HandoverProofs ---------------------------
(***************************************************************************)
(* What Handover keeps for every set of sessions, every pace and every     *)
(* bound: its types, that a payload is emitted to a window that listens,   *)
(* and, while a hand-off is left to finish, who draws, owns, hears and     *)
(* restores each session.                                                  *)
(***************************************************************************)
EXTENDS Handover, TLAPS

-----------------------------------------------------------------------------
(* The two windows. *)

Pair(t, f) == t \in Windows /\ f \in Windows /\ t # f

LEMMA PairIsAll ==
  ASSUME NEW t, NEW f, Pair(t, f)
  PROVE  Windows = {t, f} /\ Pair(f, t) /\ Nobody \notin Windows
BY LabelsAssumption DEF Pair, Windows

-----------------------------------------------------------------------------
(* What a mailbox holds. *)

Brings(m) == IF m.kind = "take" THEN m.tiles ELSE {}
Names(m) == IF m.kind = "owner" THEN {m.session} ELSE {}
Says(m, t) == m.kind = "owner" => m.owner = t

Takes(q) == {s \in Sessions : \E i \in DOMAIN q : s \in Brings(q[i])}
Tells(q) == {s \in Sessions : \E i \in DOMAIN q : s \in Names(q[i])}
Agreed(q, t) == \A i \in DOMAIN q : Says(q[i], t)

LEMMA MessageParts ==
  ASSUME NEW m \in Messages
  PROVE  Brings(m) \subseteq Sessions /\ Names(m) \subseteq Sessions
BY DEF Messages, Brings, Names

LEMMA MadeMessages ==
  ASSUME NEW s \in Sessions, NEW w \in Windows, NEW set \in SUBSET Sessions
  PROVE  /\ Take(set) \in Messages /\ Brings(Take(set)) = set /\ Names(Take(set)) = {}
         /\ \A t : Says(Take(set), t)
         /\ OwnerIs(s, w) \in Messages /\ Brings(OwnerIs(s, w)) = {} /\ Names(OwnerIs(s, w)) = {s}
         /\ Says(OwnerIs(s, w), w)
         /\ Over(s) \in Messages /\ Brings(Over(s)) = {} /\ Names(Over(s)) = {}
         /\ \A t : Says(Over(s), t)
BY DEF Messages, Take, OwnerIs, Over, Brings, Names, Says

LEMMA MailEmpty ==
  ASSUME NEW t
  PROVE  Takes(<<>>) = {} /\ Tells(<<>>) = {} /\ Agreed(<<>>, t)
BY DEF Takes, Tells, Agreed

LEMMA MailGrows ==
  ASSUME NEW q \in Seq(Messages), NEW m \in Messages
  PROVE  /\ Append(q, m) \in Seq(Messages)
         /\ Takes(Append(q, m)) = Takes(q) \cup Brings(m)
         /\ Tells(Append(q, m)) = Tells(q) \cup Names(m)
         /\ \A t : Agreed(q, t) /\ Says(m, t) => Agreed(Append(q, m), t)
<1> DEFINE a == Append(q, m)
           n == Len(q)
<1>1. n \in Nat /\ DOMAIN q = 1 .. n /\ a \in Seq(Messages) /\ DOMAIN a = 1 .. n + 1
  OBVIOUS
<1>2. a[n + 1] = m /\ \A i \in 1 .. n : a[i] = q[i]  OBVIOUS
<1>3. Brings(m) \subseteq Sessions /\ Names(m) \subseteq Sessions  BY MessageParts
<1> HIDE DEF a, n
<1>4. \A i \in DOMAIN a : i = n + 1 \/ i \in DOMAIN q  BY <1>1
<1>5. n + 1 \in DOMAIN a /\ \A i \in DOMAIN q : i \in DOMAIN a  BY <1>1
<1>6. Takes(a) = Takes(q) \cup Brings(m)  BY <1>1, <1>2, <1>3, <1>4, <1>5 DEF Takes
<1>7. Tells(a) = Tells(q) \cup Names(m)  BY <1>1, <1>2, <1>3, <1>4, <1>5 DEF Tells
<1>8. \A t : Agreed(q, t) /\ Says(m, t) => Agreed(a, t)  BY <1>1, <1>2, <1>4 DEF Agreed
<1> QED BY <1>1, <1>6, <1>7, <1>8 DEF a

LEMMA MailShrinks ==
  ASSUME NEW q \in Seq(Messages), q # <<>>
  PROVE  /\ Tail(q) \in Seq(Messages) /\ Head(q) \in Messages
         /\ Takes(q) = Takes(Tail(q)) \cup Brings(Head(q))
         /\ Tells(q) = Tells(Tail(q)) \cup Names(Head(q))
         /\ \A t : Agreed(q, t) => Agreed(Tail(q), t) /\ Says(Head(q), t)
<1> DEFINE r == Tail(q)
           m == Head(q)
           n == Len(q)
<1>1. n \in Nat /\ n >= 1 /\ DOMAIN q = 1 .. n /\ r \in Seq(Messages) /\ m \in Messages
      /\ DOMAIN r = 1 .. n - 1
  OBVIOUS
<1>2. q[1] = m /\ \A i \in 1 .. n - 1 : r[i] = q[i + 1]  OBVIOUS
<1>3. Brings(m) \subseteq Sessions /\ Names(m) \subseteq Sessions  BY <1>1, MessageParts
<1> HIDE DEF r, m, n
<1>4. \A i \in DOMAIN q : i = 1 \/ (i - 1 \in DOMAIN r /\ r[i - 1] = q[i])  BY <1>1, <1>2
<1>5. 1 \in DOMAIN q /\ \A i \in DOMAIN r : i + 1 \in DOMAIN q /\ r[i] = q[i + 1]  BY <1>1, <1>2
<1>6. Takes(q) = Takes(r) \cup Brings(m)  BY <1>2, <1>3, <1>4, <1>5 DEF Takes
<1>7. Tells(q) = Tells(r) \cup Names(m)  BY <1>2, <1>3, <1>4, <1>5 DEF Tells
<1>8. \A t : Agreed(q, t) => Agreed(r, t) /\ Says(m, t)  BY <1>2, <1>5 DEF Agreed
<1> QED BY <1>1, <1>6, <1>7, <1>8 DEF r, m

-----------------------------------------------------------------------------
(* Types.  A session nobody started yet is in no picture, message or list. *)

Known == Sessions \ fresh

ClaimStates == {"no", "asked", "retargeted", "done", "refused"}

PlainType ==
  /\ owner \in [Sessions -> Windows \cup {Nobody}] /\ sink \in [Sessions -> Windows \cup {Nobody}]
  /\ running \subseteq Known /\ ended \subseteq running /\ fresh \subseteq Sessions
  /\ ready \subseteq {Other} /\ win \in {"down", "built", "listening", "booted", "leaving"}
  /\ opening \in BOOLEAN /\ ears \subseteq Windows /\ stranded \subseteq Sessions
  /\ opens \in 0 .. MaxOpens /\ quits \in 0 .. MaxQuits /\ dirty \in 0 .. MaxDirty

PictureType ==
  /\ tiles \in [Windows -> SUBSET Known] /\ over \in [Windows -> SUBSET Known]
  /\ job \in [Windows -> SUBSET Known]
  /\ claim \in [Windows -> [Sessions -> ClaimStates]]

MailType ==
  /\ mail \in [Windows -> Seq(Messages)]
  /\ \A w \in Windows : Takes(mail[w]) \subseteq Known

DiskType ==
  /\ saves \in [Windows -> Seq(SUBSET Known)] /\ memo \in [Windows -> SUBSET Known]
  /\ layout \subseteq Known \X Windows

Typed == PlainType /\ PictureType /\ MailType /\ DiskType

LEMMA SeqGrows ==
  ASSUME NEW X, NEW Y, X \subseteq Y
  PROVE  Seq(X) \subseteq Seq(Y)
OBVIOUS

LEMMA TypedIsTypeOK == ASSUME Typed PROVE TypeOK
<1>1. Known \subseteq Sessions /\ Known \cap fresh = {}  BY DEF Known
<1>2. saves \in [Windows -> Seq(SUBSET Sessions)]
  <2>1. Seq(SUBSET Known) \subseteq Seq(SUBSET Sessions)  BY <1>1, SeqGrows
  <2> QED BY <2>1 DEF Typed, DiskType
<1>3. memo \in [Windows -> SUBSET Sessions] /\ layout \subseteq Sessions \X Windows
  BY <1>1 DEF Typed, DiskType
<1>4. /\ tiles \in [Windows -> SUBSET Sessions] /\ over \in [Windows -> SUBSET Sessions]
      /\ job \in [Windows -> SUBSET Sessions]
  BY <1>1 DEF Typed, PictureType
<1> QED BY <1>1, <1>2, <1>3, <1>4 DEF Typed, PlainType, PictureType, MailType, ClaimStates, TypeOK

\* What is written to a mailbox keeps it well typed.
LEMMA EmitTyped ==
  ASSUME MailType, NEW w \in Windows, NEW m \in Messages, Brings(m) \subseteq Known
  PROVE  /\ Emit(w, m) \in [Windows -> Seq(Messages)]
         /\ \A x \in Windows : Takes(Emit(w, m)[x]) \subseteq Known
<1>1. Append(mail[w], m) \in Seq(Messages) /\ Takes(Append(mail[w], m)) \subseteq Known
  BY MailGrows DEF MailType
<1> QED BY <1>1 DEF Emit, MailType

LEMMA HandedOffTyped ==
  ASSUME MailType, PictureType, Known' = Known,
         NEW from \in Windows, NEW to \in Windows, HandedOff(from, to)
  PROVE  MailType'
<1> DEFINE payload == tiles[from] \ Commands
<1>1. payload \subseteq Known /\ payload \in SUBSET Sessions  BY DEF PictureType, Known
<1>2. Take(payload) \in Messages /\ Brings(Take(payload)) = payload
  BY <1>1 DEF Messages, Take, Brings
<1>3. CASE payload = {}  BY <1>3 DEF HandedOff, MailType
<1>4. CASE payload # {}  BY <1>1, <1>2, <1>4, EmitTyped DEF HandedOff, MailType
<1> QED BY <1>3, <1>4

LEMMA SameMailTyped == ASSUME MailType, Known' = Known, mail' = mail PROVE MailType'
BY DEF MailType

\* A payload that is not sent leaves the mail as it was.
LEMMA OfferedTyped ==
  ASSUME MailType, PictureType, Known' = Known, Offered
  PROVE  MailType'
<1>1. Main \in Windows /\ Other \in Windows  BY DEF Windows
<1> QED BY <1>1, HandedOffTyped, SameMailTyped DEF Offered

LEMMA LeavesTyped ==
  ASSUME MailType, PictureType, Known' = Known, stranded \subseteq Sessions, Leaves
  PROVE  MailType' /\ stranded' \subseteq Sessions /\ win' = "leaving"
<1>1. Main \in Windows /\ Other \in Windows  BY DEF Windows
<1>2. tiles[Other] \subseteq Sessions  BY <1>1 DEF PictureType, Known
<1> QED BY <1>1, <1>2, HandedOffTyped, SameMailTyped DEF Leaves

LEMMA EmptyMailTyped ==
  ASSUME MailType, Known' = Known, NEW w \in Windows, mail' = [mail EXCEPT ![w] = <<>>]
  PROVE  MailType'
BY MailEmpty DEF MailType

LEMMA PersistTyped ==
  ASSUME DiskType, Known' = Known, NEW w \in Windows, NEW t \in SUBSET Known, Persist(w, t)
  PROVE  saves' \in [Windows -> Seq(SUBSET Known')]
<1>1. Append(saves[w], Saved(t)) \in Seq(SUBSET Known)  BY DEF DiskType, Saved
<1> QED BY <1>1 DEF Persist, DiskType

LEMMA ClaimTyped ==
  ASSUME PictureType, NEW w \in Windows, NEW s \in Sessions, NEW c \in ClaimStates
  PROVE  [claim EXCEPT ![w][s] = c] \in [Windows -> [Sessions -> ClaimStates]]
<1>1. [claim[w] EXCEPT ![s] = c] \in [Sessions -> ClaimStates]  BY DEF PictureType
<1> QED BY <1>1 DEF PictureType

LEMMA GoneTyped ==
  ASSUME PlainType, PictureType, DiskType, Gone,
         UNCHANGED <<sink, running, ended, claim, saves, layout, fresh, opens, quits, dirty, stranded>>,
         opening' \in BOOLEAN
  PROVE  PlainType' /\ PictureType' /\ DiskType'
<1>1. Known' = Known  BY DEF Known
<1>2. Windows = {Main, Other}  BY DEF Windows
<1>3. PlainType'
  <2>1. owner' \in [Sessions -> Windows \cup {Nobody}]  BY <1>2 DEF Gone, PlainType
  <2>2. ready' \subseteq {Other} /\ win' = "down" /\ ears' \subseteq Windows
    BY DEF Gone, PlainType, Forgotten
  <2> QED BY <1>1, <2>1, <2>2 DEF PlainType
<1>4. PictureType'  BY <1>1, <1>2 DEF Gone, PictureType
<1>5. DiskType'  BY <1>1, <1>2 DEF Gone, DiskType
<1> QED BY <1>3, <1>4, <1>5
LEMMA TypedInit == Init => Typed
<1> SUFFICES ASSUME Init PROVE Typed  OBVIOUS
<1>1. Windows = {Main, Other}  BY DEF Windows
<1>2. PICK s \in Sessions \ Commands :
        /\ running = {s} /\ fresh = Sessions \ {s}
        /\ owner = [x \in Sessions |-> IF x = s THEN Main ELSE Nobody]
        /\ sink = owner
        /\ tiles = [w \in Windows |-> IF w = Main THEN {s} ELSE {}]
        /\ memo = tiles /\ layout = {<<s, Main>>}
  BY DEF Init
<1>3. Known = {s}  BY <1>2 DEF Known
<1>4. PlainType
  <2>1. owner \in [Sessions -> Windows \cup {Nobody}] /\ sink = owner  BY <1>1, <1>2
  <2>2. running = {s} /\ fresh \subseteq Sessions /\ ended = {}  BY <1>2 DEF Init
  <2>3. /\ ready = {} /\ win = "down" /\ opening = FALSE /\ opens = 0 /\ quits = 0 /\ dirty = 0
        /\ ears \subseteq Windows /\ stranded = {}
    BY <1>1 DEF Init
  <2>4. opens \in 0 .. MaxOpens /\ quits \in 0 .. MaxQuits /\ dirty \in 0 .. MaxDirty
    BY <2>3, BoundsAssumption
  <2>5. ready \subseteq {Other} /\ opening \in BOOLEAN /\ running \subseteq Known /\ ended \subseteq running
    BY <1>3, <2>2, <2>3
  <2> QED BY <2>1, <2>2, <2>3, <2>4, <2>5 DEF PlainType
<1>5. PictureType  BY <1>1, <1>2, <1>3 DEF Init, PictureType, ClaimStates
<1>6. MailType  BY SMTT(30), MailEmpty DEF Init, MailType
<1>7. DiskType  BY <1>1, <1>2, <1>3 DEF Init, DiskType
<1> QED BY <1>4, <1>5, <1>6, <1>7 DEF Typed

LEMMA TypedOpening ==
  ASSUME Typed, DetachNew \/ DetachExisting \/ Listen \/ Announce \/ OpenReturns \/ HandBack
  PROVE  Typed'
<1>1. Known' = Known
  BY DEF Known, DetachNew, DetachExisting, Listen, Announce, OpenReturns, HandBack, disk, frontend
<1>2. Main \in Windows /\ Other \in Windows  BY DEF Windows
<1>3. CASE DetachNew
  <2>1. PlainType'
    BY <1>1, <1>3, BoundsAssumption DEF Typed, PlainType, DetachNew, backend, Forgotten
  <2>2. PictureType' /\ DiskType'  BY <1>1, <1>3 DEF Typed, PictureType, DiskType, DetachNew, frontend, disk
  <2>3. MailType'  BY <1>1, <1>3, SameMailTyped DEF Typed, DetachNew, frontend
  <2> QED BY <2>1, <2>2, <2>3 DEF Typed
<1>4. CASE DetachExisting
  <2>1. PlainType'
    BY <1>1, <1>4, BoundsAssumption DEF Typed, PlainType, DetachExisting, backend, window
  <2>2. PictureType' /\ DiskType'  BY <1>1, <1>4 DEF Typed, PictureType, DiskType, DetachExisting, disk
  <2>3. MailType'  BY <1>1, <1>4, OfferedTyped DEF Typed, DetachExisting
  <2> QED BY <2>1, <2>2, <2>3 DEF Typed
<1>5. CASE Listen
  <2>1. PlainType'  BY <1>1, <1>2, <1>5 DEF Typed, PlainType, Listen, backend, bounds
  <2>2. PictureType' /\ DiskType'  BY <1>1, <1>5 DEF Typed, PictureType, DiskType, Listen, frontend, disk
  <2>3. MailType'  BY <1>1, <1>5, SameMailTyped DEF Typed, Listen, frontend
  <2> QED BY <2>1, <2>2, <2>3 DEF Typed
<1>6. CASE Announce
  <2>1. PlainType'  BY <1>1, <1>6 DEF Typed, PlainType, Announce, backend, bounds
  <2>2. PictureType' /\ DiskType'  BY <1>1, <1>6 DEF Typed, PictureType, DiskType, Announce, frontend, disk
  <2>3. MailType'  BY <1>1, <1>6, SameMailTyped DEF Typed, Announce, frontend
  <2> QED BY <2>1, <2>2, <2>3 DEF Typed
<1>7. CASE OpenReturns
  <2>1. PlainType'  BY <1>1, <1>7 DEF Typed, PlainType, OpenReturns, backend, bounds
  <2>2. PictureType' /\ DiskType'  BY <1>1, <1>7 DEF Typed, PictureType, DiskType, OpenReturns, disk
  <2>3. MailType'  BY <1>1, <1>7, OfferedTyped DEF Typed, OpenReturns
  <2> QED BY <2>1, <2>2, <2>3 DEF Typed
<1>8. CASE HandBack
  <2>4. Leaves  BY <1>8 DEF HandBack
  <2>5. MailType' /\ stranded' \subseteq Sessions /\ win' = "leaving"
    BY <1>1, <2>4, LeavesTyped DEF Typed, PlainType
  <2>1. PlainType'  BY <1>1, <1>8, <2>5 DEF Typed, PlainType, HandBack, backend
  <2>2. PictureType' /\ DiskType'  BY <1>1, <1>8 DEF Typed, PictureType, DiskType, HandBack, disk
  <2> QED BY <2>1, <2>2, <2>5 DEF Typed
<1> QED BY <1>3, <1>4, <1>5, <1>6, <1>7, <1>8

LEMMA TypedLeaving ==
  ASSUME Typed, Boot \/ OpenTimesOut \/ Destroyed
  PROVE  Typed'
<1>1. Known' = Known  BY DEF Known, Boot, OpenTimesOut, Destroyed
<1>2. Main \in Windows /\ Other \in Windows  BY DEF Windows
<1>3. CASE Boot
  <2>0. PICK mine \in {Restores(Other), {}} :
          LET started == mine \ running
          IN /\ tiles' = [tiles EXCEPT ![Other] = @ \cup mine]
             /\ over' = [over EXCEPT ![Other] = @ \cup (mine \ started)]
             /\ running' = running \cup started
             /\ owner' = [s \in Sessions |-> IF s \in started THEN Other ELSE owner[s]]
             /\ sink' = [s \in Sessions |-> IF s \in started THEN Other ELSE sink[s]]
             /\ IF mine = {} THEN saves' = saves ELSE Persist(Other, tiles[Other] \cup mine)
    BY <1>3 DEF Boot
  <2> DEFINE started == mine \ running
  <2>10. Restores(Other) \subseteq Known  BY DEF Typed, DiskType, Restores
  <2>1. mine \subseteq Known  BY <2>10
  <2>2. /\ tiles' = [tiles EXCEPT ![Other] = @ \cup mine]
        /\ over' = [over EXCEPT ![Other] = @ \cup (mine \ started)]
        /\ running' = running \cup started
        /\ owner' = [s \in Sessions |-> IF s \in started THEN Other ELSE owner[s]]
        /\ sink' = [s \in Sessions |-> IF s \in started THEN Other ELSE sink[s]]
        /\ saves' = saves \/ Persist(Other, tiles[Other] \cup mine)
    BY <2>0
  <2> HIDE DEF started
  <2>3. started \subseteq Known  BY <2>1 DEF started
  <2>4. PlainType'  BY <1>1, <1>2, <1>3, <2>2, <2>3 DEF Typed, PlainType, Boot, bounds
  <2>5. PictureType'  BY <1>1, <1>2, <1>3, <2>1, <2>2 DEF Typed, PictureType, Boot
  <2>6. MailType'  BY <1>1, <1>3, SameMailTyped DEF Typed, Boot
  <2>7. tiles[Other] \cup mine \in SUBSET Known  BY <1>2, <2>1 DEF Typed, PictureType
  <2>8. saves' \in [Windows -> Seq(SUBSET Known')]
    BY <1>1, <1>2, <2>2, <2>7, PersistTyped DEF Typed, DiskType
  <2>9. DiskType'  BY <1>1, <1>3, <2>8 DEF Typed, DiskType, Boot
  <2> QED BY <2>4, <2>5, <2>6, <2>9 DEF Typed
<1>4. CASE OpenTimesOut
  <2>1. CASE win = "built" /\ Gone /\ mail' = [mail EXCEPT ![Other] = <<>>]
               /\ UNCHANGED <<sink, running, ended, claim, saves, layout, stranded>>
    <3>1. PlainType' /\ PictureType' /\ DiskType'
      BY <1>4, <2>1, GoneTyped DEF Typed, OpenTimesOut, bounds
    <3>2. MailType'  BY <1>1, <1>2, <2>1, EmptyMailTyped DEF Typed
    <3> QED BY <3>1, <3>2 DEF Typed
  <2>2. CASE Leaves /\ UNCHANGED <<backend, ready, ears, tiles, over, job, claim, disk>>
    <3>3. MailType' /\ stranded' \subseteq Sessions /\ win' = "leaving"
      BY <1>1, <2>2, LeavesTyped DEF Typed, PlainType
    <3>1. PlainType'  BY <1>1, <1>4, <2>2, <3>3 DEF Typed, PlainType, OpenTimesOut, backend
    <3>2. PictureType' /\ DiskType'  BY <1>1, <2>2 DEF Typed, PictureType, DiskType, disk
    <3> QED BY <3>1, <3>2, <3>3 DEF Typed
  <2>3. CASE UNCHANGED <<backend, ready, win, ears, frontend, disk, stranded>>
    <3>1. PlainType'  BY <1>1, <1>4, <2>3 DEF Typed, PlainType, OpenTimesOut, backend, bounds
    <3>2. PictureType' /\ DiskType'
      BY <1>1, <2>3 DEF Typed, PictureType, DiskType, disk, frontend
    <3>3. MailType'  BY <1>1, <2>3, SameMailTyped DEF Typed, frontend
    <3> QED BY <3>1, <3>2, <3>3 DEF Typed
  <2> QED BY <1>4, <2>1, <2>2, <2>3 DEF OpenTimesOut
<1>5. CASE Destroyed
  <2>1. PlainType' /\ PictureType' /\ DiskType'
    BY <1>5, GoneTyped DEF Typed, Destroyed, bounds, PlainType
  <2>2. MailType'  BY <1>1, <1>2, <1>5, EmptyMailTyped DEF Typed, Destroyed
  <2> QED BY <2>1, <2>2 DEF Typed
<1> QED BY <1>3, <1>4, <1>5
LEMMA TypedClaims ==
  ASSUME Typed, NEW w \in Windows,
         Receive(w) \/ \E s \in Sessions :
           TakeTile(w, s) \/ ClaimRetargets(w, s) \/ ClaimRecords(w, s) \/ ClaimReturns(w, s)
  PROVE  Typed'
<1>1. Known' = Known  BY DEF Known, Receive, TakeTile, ClaimRetargets, ClaimRecords, ClaimReturns
<1>2. CASE Receive(w)
  <2> DEFINE m == Head(mail[w])
  <2>1. /\ m \in Messages /\ Tail(mail[w]) \in Seq(Messages)
        /\ Takes(mail[w]) = Takes(Tail(mail[w])) \cup Brings(m)
    BY <1>2, MailShrinks DEF Typed, MailType, Receive
  <2>2. Brings(m) \subseteq Known  BY <2>1 DEF Typed, MailType
  <2>3. MailType'  BY <1>1, <1>2, <2>1 DEF Typed, MailType, Receive
  <2>4. PlainType'  BY <1>1, <1>2 DEF Typed, PlainType, Receive, backend, window, bounds
  <2>5. /\ layout' = layout /\ memo' = memo /\ claim' = claim
        /\ \/ /\ m.kind = "take" /\ job' = [job EXCEPT ![w] = @ \cup m.tiles]
              /\ UNCHANGED <<tiles, over, saves>>
           \/ /\ tiles' = [tiles EXCEPT ![w] = @ \ {m.session}]
              /\ over' = [over EXCEPT ![w] = @ \ {m.session}]
              /\ Persist(w, tiles[w] \ {m.session}) /\ job' = job
           \/ UNCHANGED <<tiles, over, saves, job>>
           \/ /\ over' = [over EXCEPT ![w] = @ \cup ({m.session} \cap tiles[w])]
              /\ UNCHANGED <<tiles, job, saves>>
    BY <1>2 DEF Receive
  <2>6. m.kind = "take" => m.tiles \subseteq Known  BY <2>2 DEF Brings
  <2> HIDE DEF m
  <2>7. PictureType'  BY <1>1, <2>5, <2>6 DEF Typed, PictureType
  <2>8. tiles[w] \ {m.session} \in SUBSET Known  BY DEF Typed, PictureType
  <2>9. saves' \in [Windows -> Seq(SUBSET Known')]
    BY <1>1, <2>5, <2>8, PersistTyped DEF Typed, DiskType
  <2>10. DiskType'  BY <1>1, <2>5, <2>9 DEF Typed, DiskType
  <2> QED BY <2>3, <2>4, <2>7, <2>10 DEF Typed
<1>3. CASE \E s \in Sessions : TakeTile(w, s)
  <2> PICK s \in Sessions : TakeTile(w, s)  BY <1>3
  <2>1. s \in Known  BY DEF Typed, PictureType, TakeTile
  <2>2. PlainType'  BY <1>1 DEF Typed, PlainType, TakeTile, backend, window, bounds
  <2>3. DiskType'  BY <1>1 DEF Typed, DiskType, TakeTile, disk
  <2>6. claim' = claim \/ claim' = [claim EXCEPT ![w][s] = "asked"]  BY DEF TakeTile
  <2>7. [claim EXCEPT ![w][s] = "asked"] \in [Windows -> [Sessions -> ClaimStates]]
    BY ClaimTyped DEF Typed, ClaimStates
  <2>8. claim' \in [Windows -> [Sessions -> ClaimStates]]  BY <2>6, <2>7 DEF Typed, PictureType
  <2>9. tiles' \in [Windows -> SUBSET Known] /\ job' \in [Windows -> SUBSET Known]
    BY <2>1 DEF Typed, PictureType, TakeTile
  <2>4. PictureType'  BY <1>1, <2>8, <2>9 DEF Typed, PictureType, TakeTile
  <2>5. MailType'  BY <1>1, SameMailTyped DEF Typed, TakeTile
  <2> QED BY <2>2, <2>3, <2>4, <2>5 DEF Typed
<1>4. CASE \E s \in Sessions : ClaimRetargets(w, s)
  <2> PICK s \in Sessions : ClaimRetargets(w, s)  BY <1>4
  <2>1. PlainType'  BY <1>1 DEF Typed, PlainType, ClaimRetargets, window, bounds
  <2>2. DiskType'  BY <1>1 DEF Typed, DiskType, ClaimRetargets, disk
  <2>8. \E c \in {"retargeted", "refused"} : claim' = [claim EXCEPT ![w][s] = c]  BY DEF ClaimRetargets
  <2>9. claim' \in [Windows -> [Sessions -> ClaimStates]]
    BY <2>8, ClaimTyped DEF Typed, ClaimStates
  <2>3. PictureType'  BY <1>1, <2>9 DEF Typed, PictureType, ClaimRetargets
  <2>4. MailType'  BY <1>1, SameMailTyped DEF Typed, ClaimRetargets
  <2> QED BY <2>1, <2>2, <2>3, <2>4 DEF Typed
<1>5. CASE \E s \in Sessions : ClaimRecords(w, s)
  <2> PICK s \in Sessions : ClaimRecords(w, s)  BY <1>5
  <2>1. PlainType'  BY <1>1 DEF Typed, PlainType, ClaimRecords, window, bounds
  <2>2. DiskType'  BY <1>1 DEF Typed, DiskType, ClaimRecords, disk
  <2>8. \E c \in {"done"} : claim' = [claim EXCEPT ![w][s] = c]  BY DEF ClaimRecords
  <2>9. claim' \in [Windows -> [Sessions -> ClaimStates]]
    BY <2>8, ClaimTyped DEF Typed, ClaimStates
  <2>3. PictureType'  BY <1>1, <2>9 DEF Typed, PictureType, ClaimRecords
  <2>4. OwnerIs(s, w) \in Messages /\ Brings(OwnerIs(s, w)) = {}
    BY DEF Messages, OwnerIs, Brings
  <2>5. \A x \in Windows :
          /\ Emit(x, OwnerIs(s, w)) \in [Windows -> Seq(Messages)]
          /\ Takes(Emit(x, OwnerIs(s, w))[x]) \subseteq Known
    BY <2>4, EmitTyped DEF Typed
  <2>6. mail' = [x \in Windows |-> IF x # w THEN Emit(x, OwnerIs(s, w))[x] ELSE mail[x]]
    BY DEF ClaimRecords
  <2>7. MailType'  BY <1>1, <2>5, <2>6 DEF Typed, MailType
  <2> QED BY <2>1, <2>2, <2>3, <2>7 DEF Typed
<1>6. CASE \E s \in Sessions : ClaimReturns(w, s)
  <2> PICK s \in Sessions : ClaimReturns(w, s)  BY <1>6
  <2>1. PlainType'  BY <1>1 DEF Typed, PlainType, ClaimReturns, backend, window, bounds
  <2>8. \E c \in {"no"} : claim' = [claim EXCEPT ![w][s] = c]  BY DEF ClaimReturns
  <2>9. claim' \in [Windows -> [Sessions -> ClaimStates]]
    BY <2>8, ClaimTyped DEF Typed, ClaimStates
  <2>2. PictureType'  BY <1>1, <2>9 DEF Typed, PictureType, ClaimReturns
  <2>3. MailType'  BY <1>1, SameMailTyped DEF Typed, ClaimReturns
  <2>4. tiles[w] \in SUBSET Known  BY DEF Typed, PictureType
  <2>5. saves' \in [Windows -> Seq(SUBSET Known')]
    BY <1>1, <2>4, PersistTyped DEF Typed, DiskType, ClaimReturns
  <2>6. DiskType'  BY <1>1, <2>5 DEF Typed, DiskType, ClaimReturns
  <2> QED BY <2>1, <2>2, <2>3, <2>6 DEF Typed
<1> QED BY <1>2, <1>3, <1>4, <1>5, <1>6

LEMMA TypedSessions ==
  ASSUME Typed, NEW w \in Windows,
         SaveLands(w) \/ Rename(w) \/ Quit \/ \E s \in Sessions : Exit(s) \/ CloseTile(w, s)
  PROVE  Typed'
<1>1. Known' = Known  BY DEF Known, SaveLands, Rename, Exit, CloseTile, Quit
<1>2. CASE SaveLands(w)
  <2>1. Head(saves[w]) \in SUBSET Known /\ Tail(saves[w]) \in Seq(SUBSET Known)
    BY <1>2 DEF Typed, DiskType, SaveLands
  <2>2. layout' \subseteq Known \X Windows
    BY <1>2, <2>1 DEF Typed, DiskType, SaveLands, Merged
  <2>3. DiskType'  BY <1>1, <1>2, <2>1, <2>2 DEF Typed, DiskType, SaveLands
  <2>4. PlainType'  BY <1>1, <1>2 DEF Typed, PlainType, SaveLands, backend, window, bounds
  <2>5. PictureType'  BY <1>1, <1>2 DEF Typed, PictureType, SaveLands, frontend
  <2>6. MailType'  BY <1>1, <1>2, SameMailTyped DEF Typed, SaveLands, frontend
  <2> QED BY <2>3, <2>4, <2>5, <2>6 DEF Typed
<1>3. CASE Rename(w)
  <2>1. Append(saves[w], Saved(tiles[w])) \in Seq(SUBSET Known)
    BY DEF Typed, DiskType, PictureType, Saved
  <2>2. DiskType'  BY <1>1, <1>3, <2>1 DEF Typed, DiskType, Rename
  <2>3. PlainType'
    BY <1>1, <1>3, BoundsAssumption DEF Typed, PlainType, Rename, backend, window
  <2>4. PictureType'  BY <1>1, <1>3 DEF Typed, PictureType, Rename, frontend
  <2>5. MailType'  BY <1>1, <1>3, SameMailTyped DEF Typed, Rename, frontend
  <2> QED BY <2>2, <2>3, <2>4, <2>5 DEF Typed
<1>4. ASSUME NEW s \in Sessions, Exit(s) PROVE Typed'
  <2>1. Over(s) \in Messages /\ Brings(Over(s)) = {}  BY DEF Messages, Over, Brings
  <2>2. \A x \in Windows :
          /\ Emit(x, Over(s)) \in [Windows -> Seq(Messages)]
          /\ Takes(Emit(x, Over(s))[x]) \subseteq Known
    BY <2>1, EmitTyped DEF Typed
  <2>3. MailType'  BY <1>1, <1>4, <2>2 DEF Typed, MailType, Exit
  <2>4. PlainType'  BY <1>1, <1>4 DEF Typed, PlainType, Exit, window, bounds
  <2>5. PictureType' /\ DiskType'  BY <1>1, <1>4 DEF Typed, PictureType, DiskType, Exit, disk
  <2> QED BY <2>3, <2>4, <2>5 DEF Typed
<1>5. ASSUME NEW s \in Sessions, CloseTile(w, s) PROVE Typed'
  <2>1. PlainType'  BY <1>1, <1>5 DEF Typed, PlainType, CloseTile, window, bounds
  <2>2. PictureType'  BY <1>1, <1>5 DEF Typed, PictureType, CloseTile
  <2>3. MailType'  BY <1>1, <1>5, SameMailTyped DEF Typed, CloseTile
  <2>4. tiles[w] \ {s} \in SUBSET Known  BY DEF Typed, PictureType
  <2>5. saves' \in [Windows -> Seq(SUBSET Known')]
    BY <1>1, <1>5, <2>4, PersistTyped DEF Typed, CloseTile
  <2>6. DiskType'  BY <1>1, <1>5, <2>5 DEF Typed, DiskType, CloseTile
  <2> QED BY <2>1, <2>2, <2>3, <2>6 DEF Typed
<1>6. CASE Quit
  <2> DEFINE mine == Restores(Main)
  <2>1. mine \subseteq Known  BY DEF Typed, DiskType, Restores
  <2>2. /\ running' = mine /\ ended' = {}
        /\ owner' = [x \in Sessions |-> IF x \in mine THEN Main ELSE Nobody]
        /\ sink' = owner'
        /\ tiles' = [x \in Windows |-> IF x = Main THEN mine ELSE {}]
        /\ memo' = tiles' /\ over' = [x \in Windows |-> {}]
    BY <1>6 DEF Quit
  <2> HIDE DEF mine
  <2>3. PlainType'
    <3>1. owner' \in [Sessions -> Windows \cup {Nobody}]  BY <2>2 DEF Windows
    <3>2. quits' \in 0 .. MaxQuits /\ opens' = opens /\ dirty' = dirty /\ fresh' = fresh
      BY <1>6, BoundsAssumption DEF Typed, PlainType, Quit
    <3>3. ready' = {} /\ win' = "down" /\ opening' = FALSE  BY <1>6 DEF Quit
    <3>4. sink' \in [Sessions -> Windows \cup {Nobody}]  BY <2>2, <3>1
    <3>5. ears' \subseteq Windows /\ stranded' = {}  BY <1>6 DEF Quit, Windows
    <3> QED BY <1>1, <2>1, <2>2, <3>1, <3>2, <3>3, <3>4, <3>5 DEF Typed, PlainType
  <2>4. PictureType'  BY <1>1, <1>6, <2>1, <2>2 DEF Typed, PictureType, Quit, ClaimStates
  <2>7. <<>> \in Seq(Messages) /\ Takes(<<>>) = {}  BY MailEmpty
  <2>8. mail' = [x \in Windows |-> <<>>]  BY <1>6 DEF Quit
  <2>5. MailType'  BY <2>7, <2>8 DEF MailType
  <2>6. DiskType'  BY <1>1, <1>6, <2>1, <2>2 DEF Typed, DiskType, Quit
  <2> QED BY <2>3, <2>4, <2>5, <2>6 DEF Typed
<1> QED BY <1>2, <1>3, <1>4, <1>5, <1>6

\* Started, a session becomes known.
LEMMA TypedStart ==
  ASSUME Typed, NEW w \in Windows, NEW s \in Sessions, Start(w, s)
  PROVE  Typed'
<1>1. Known \subseteq Known' /\ s \in Known' /\ Known' \subseteq Sessions  BY DEF Known, Start
<1>2. PlainType'  BY <1>1 DEF Typed, PlainType, Start, window, bounds
<1>3. PictureType'  BY <1>1 DEF Typed, PictureType, Start
<1>4. MailType'  BY <1>1 DEF Typed, MailType, Start
<1>5. Seq(SUBSET Known) \subseteq Seq(SUBSET Known')
  <2>1. SUBSET Known \subseteq SUBSET Known'  BY <1>1
  <2> QED BY <2>1, SeqGrows
<1>6. Append(saves[w], Saved(tiles[w] \cup {s})) \in Seq(SUBSET Known')
  <2>1. saves[w] \in Seq(SUBSET Known')  BY <1>5 DEF Typed, DiskType
  <2>2. Saved(tiles[w] \cup {s}) \in SUBSET Known'  BY <1>1 DEF Typed, PictureType, Saved
  <2> DEFINE set == SUBSET Known'
             list == Saved(tiles[w] \cup {s})
             q == saves[w]
  <2>3. q \in Seq(set) /\ list \in set  BY <2>1, <2>2
  <2> HIDE DEF set, list, q
  <2>4. Append(q, list) \in Seq(set)  BY <2>3
  <2> QED BY <2>4 DEF set, list, q
<1>7. saves' \in [Windows -> Seq(SUBSET Known')]
  BY <1>5, <1>6 DEF Typed, DiskType, Start, Persist
<1>8. DiskType'  BY <1>1, <1>7 DEF Typed, DiskType, Start
<1> QED BY <1>2, <1>3, <1>4, <1>8 DEF Typed

LEMMA TypedNext == Typed /\ [Next]_vars => Typed'
<1> SUFFICES ASSUME Typed, [Next]_vars PROVE Typed'  OBVIOUS
<1>1. CASE UNCHANGED vars
  <2>1. Known' = Known  BY <1>1 DEF Known, vars
  <2> QED BY <1>1, <2>1 DEF vars, backend, window, frontend, disk, bounds, Typed, PlainType,
        PictureType, MailType, DiskType
<1>2. CASE DetachNew \/ DetachExisting \/ Listen \/ Announce \/ OpenReturns \/ HandBack
  BY <1>2, TypedOpening
<1>3. CASE Boot \/ OpenTimesOut \/ Destroyed  BY <1>3, TypedLeaving
<1>4. ASSUME NEW w \in Windows, Receive(w) PROVE Typed'  BY <1>4, TypedClaims
<1>5. ASSUME NEW w \in Windows, NEW s \in Sessions,
             TakeTile(w, s) \/ ClaimRetargets(w, s) \/ ClaimRecords(w, s) \/ ClaimReturns(w, s)
      PROVE  Typed'
  BY <1>5, TypedClaims
<1>6. ASSUME NEW w \in Windows,
             SaveLands(w) \/ Rename(w) \/ Quit \/ \E s \in Sessions : Exit(s) \/ CloseTile(w, s)
      PROVE  Typed'
  BY <1>6, TypedSessions
<1>7. ASSUME NEW w \in Windows, NEW s \in Sessions, Start(w, s) PROVE Typed'
  BY <1>7, TypedStart
<1>8. CASE Quit
  <2>1. Main \in Windows  BY DEF Windows
  <2> QED BY <1>6, <1>8, <2>1
<1>9. ASSUME NEW s \in Sessions, Exit(s) PROVE Typed'
  <2>1. Main \in Windows  BY DEF Windows
  <2> QED BY <1>6, <1>9, <2>1
<1> QED BY <1>1, <1>2, <1>3, <1>4, <1>5, <1>6, <1>7, <1>8, <1>9 DEF Next, HandOff

\* Every variable keeps its type, and a window draws, is sent and restores
\* only sessions that were started: whatever a person does (Init, Next).
THEOREM TypeCorrect == Spec => []TypeOK
<1>1. Spec => []Typed  BY TypedInit, TypedNext, PTL DEF Spec
<1>2. Typed => TypeOK  BY TypedIsTypeOK
<1> QED BY <1>1, <1>2, PTL
-----------------------------------------------------------------------------
(* Readiness is of the window that is up, and a wait is for one that is. *)

WindowInv ==
  /\ Other \in ready => win \in {"booted", "leaving"}
  /\ Main \notin mode.deaf => Main \in ears
  /\ ~ mode.hasty /\ opening => win \in {"built", "listening", "booted"}
  /\ ~ mode.hasty /\ ~ opening => win \in {"down", "leaving"} \/ (win = "booted" /\ Other \in ready)

LEMMA WindowInit == Init => WindowInv
BY DEF Init, WindowInv

LEMMA WindowNext == Typed /\ WindowInv /\ [Next]_vars => WindowInv'
<1> SUFFICES ASSUME Typed, WindowInv, [Next]_vars PROVE WindowInv'  OBVIOUS
<1> USE DEF WindowInv
<1>1. CASE UNCHANGED <<window, mode>>  BY <1>1 DEF window
<1> USE LabelsAssumption
<1>2. CASE DetachNew  BY <1>2 DEF DetachNew, Forgotten, Person, Quiet
<1>3. CASE Listen  BY <1>3 DEF Listen, bounds
<1>4. CASE Boot  BY <1>4 DEF Boot, bounds
<1>5. CASE Announce  BY <1>5 DEF Announce, bounds
<1>6. CASE OpenReturns  BY <1>6 DEF OpenReturns, bounds
<1>7. CASE OpenTimesOut  BY <1>7 DEF OpenTimesOut, Gone, Leaves, Forgotten, backend
<1>8. CASE HandBack  BY <1>8 DEF HandBack, Leaves, Person, Quiet
<1>9. CASE Destroyed  BY <1>9 DEF Destroyed, Gone, Forgotten, bounds
<1>10. CASE Quit  BY <1>10 DEF Quit
<1>11. CASE UNCHANGED vars  BY <1>1, <1>11 DEF vars, bounds
<1>12. CASE DetachExisting  BY <1>1, <1>12 DEF DetachExisting
<1>13. ASSUME NEW w \in Windows, Receive(w) \/ SaveLands(w) \/ Rename(w)
       PROVE  UNCHANGED <<window, mode>>
  BY <1>13 DEF Receive, SaveLands, Rename, bounds
<1>14. ASSUME NEW w \in Windows, NEW s \in Sessions,
              TakeTile(w, s) \/ ClaimRetargets(w, s) \/ ClaimRecords(w, s) \/ ClaimReturns(w, s)
       PROVE  UNCHANGED <<window, mode>>
  BY <1>14 DEF TakeTile, ClaimRetargets, ClaimRecords, ClaimReturns, bounds
<1>15. ASSUME NEW w \in Windows, NEW s \in Sessions, Start(w, s) \/ CloseTile(w, s) \/ Exit(s)
       PROVE  UNCHANGED <<window, mode>>
  BY <1>15 DEF Start, CloseTile, Exit, bounds
<1>16. ASSUME NEW s \in Sessions, Exit(s) PROVE UNCHANGED <<window, mode>>
  BY <1>16 DEF Exit, bounds
<1> QED
  BY <1>1, <1>2, <1>3, <1>4, <1>5, <1>6, <1>7, <1>8, <1>9, <1>10, <1>11, <1>12, <1>13, <1>14,
     <1>15, <1>16 DEF Next, HandOff

LEMMA WindowAlways == Spec => [](Typed /\ WindowInv)
BY TypedInit, TypedNext, WindowInit, WindowNext, PTL DEF Spec

\* Whoever waits for a label hears only of the window that is up, when its start
\* has come to an end, and never of one that left before.
THEOREM ReadyIsItsOwnAlways == Spec => ReadyIsItsOwn
<1>1. WindowInv => (OpenReturns => win = "booted" \/ mode.hasty)
  BY DEF WindowInv, OpenReturns
<1> QED BY <1>1, WindowAlways, PTL DEF ReadyIsItsOwn
-----------------------------------------------------------------------------
(***************************************************************************)
(* What holds while a hand-off is left to finish, one session after the    *)
(* other: sessions go from a giving window f to a taking window t.         *)
(***************************************************************************)

Taker == IF win \in {"leaving", "down"} THEN Main ELSE Other
Giver == IF win \in {"leaving", "down"} THEN Other ELSE Main

Coming(w) == job[w] \cup Takes(mail[w])
Told(w) == Tells(mail[w])
Claimed(w) == {s \in Sessions : claim[w][s] # "no"}

\* What a window saved last, or is saving.
Lists(w) == Saved(tiles[w] \ Claimed(w))

\* Only t takes, and only f is told to give a session up.
SidesInv(t, f) ==
  /\ Coming(f) = {} /\ Claimed(f) = {} /\ Told(t) = {}
  /\ \A w \in Windows : Agreed(mail[w], t)

\* Agents are taken; the only one there is is taken when nothing else is left to settle.
ComingInv(t, f) ==
  /\ Coming(t) \subseteq running \ Commands
  /\ ~ mode.prompt /\ ~ (Coming(t) \subseteq tiles[t]) =>
       Claimed(t) = {} /\ Told(f) = {} /\ saves[t] = <<>> /\ saves[f] = <<>>

\* One claim at a time; until it is recorded the giver owns what it draws.
ClaimInv(t, f) ==
  \A s \in Claimed(t) :
    /\ \A x \in Claimed(t) : s = x
    /\ s \in tiles[t] /\ s \notin Commands
    /\ saves[t] = <<>>
    /\ claim[t][s] \in {"asked", "retargeted", "done"}
    /\ claim[t][s] # "asked" => sink[s] = t
    /\ claim[t][s] = "done" =>
         owner[s] = t /\ (s \in tiles[f] => s \in Told(f) \/ f \notin ears)
    /\ claim[t][s] # "done" =>
         saves[f] = <<>> /\ Told(f) = {} /\ (s \in tiles[f] => owner[s] = f \/ s \in stranded)

\* One session is given up at a time, once the save before it has landed.
ToldInv(t, f) ==
  \A s \in Told(f) :
    /\ \A x \in Told(f) : s = x
    /\ s \in tiles[t] /\ s \notin Commands
    /\ s \in tiles[f] => saves[f] = <<>>

\* Who draws a session owns it and hears it, but for a tile that is being claimed
\* and for what a failed hand-back has stranded.  Two draw it only while the giver
\* is about to be told; a window on its way out may not hear it any more.
PlaceInv(t, f) ==
  /\ tiles[t] \subseteq running /\ tiles[f] \subseteq running
  /\ \A s \in tiles[t] \ Claimed(t) :
       /\ s \in stranded \/ (owner[s] = t /\ sink[s] = t)
       /\ s \in tiles[f] => s \in Told(f) \/ f \notin ears
  /\ \A s \in tiles[f] \ tiles[t] : s \in stranded \/ (owner[s] = f /\ sink[s] = f)
  /\ running \ Commands \subseteq tiles[t] \cup tiles[f] \cup Coming(t) \cup stranded

SaveInv ==
  \A w \in Windows :
    /\ saves[w] = <<>> => memo[w] = Lists(w)
    /\ saves[w] # <<>> => saves[w] = <<Lists(w)>>

FileInv ==
  /\ \A e, g \in layout : e[1] = g[1] => e = g
  /\ \A e \in layout : e[1] \notin Commands

\* What a window holds and has no save of under way, the file says it restores.
LaidInv(t, f) ==
  /\ \A s \in tiles[t] \ (Claimed(t) \cup Commands) : saves[t] = <<>> => <<s, t>> \in layout
  /\ \A s \in tiles[f] \ (tiles[t] \cup Commands) : saves[f] = <<>> => <<s, f>> \in layout

HandInv(t, f) ==
  /\ SidesInv(t, f) /\ ComingInv(t, f) /\ ClaimInv(t, f) /\ ToldInv(t, f)
  /\ PlaceInv(t, f) /\ SaveInv /\ FileInv /\ LaidInv(t, f)

NoTransit == \A w \in Windows : Coming(w) = {} /\ Claimed(w) = {} /\ Told(w) = {}

WaitInv == opening => NoTransit /\ saves[Main] = <<>> /\ (Other \in ready => saves[Other] = <<>>)

DownInv ==
  /\ win \in {"down", "built", "listening"} =>
       tiles[Other] = {} /\ memo[Other] = {} /\ saves[Other] = <<>>

\* A window that leaves has handed over every agent it draws, or stranded it;
\* one that does not hear of what becomes of them has no list to save.
LeaveInv ==
  win = "leaving" =>
    /\ tiles[Other] \ Commands \subseteq tiles[Main] \cup Coming(Main) \cup stranded
    /\ Other \notin ears => Told(Other) = {} /\ saves[Other] = <<>>

ShellInv == mode.agents => running \cap Commands \subseteq tiles[Main]

OrderInv ==
  Orderly => HandInv(Taker, Giver) /\ WaitInv /\ DownInv /\ LeaveInv /\ ShellInv

LEMMA SidesPair == Pair(Taker, Giver)
BY LabelsAssumption DEF Pair, Taker, Giver, Windows

\* A giver that does not hear draws nothing, but for the window that leaves.
LEMMA GiverHears ==
  ASSUME WindowInv, OrderInv, Orderly, win # "leaving"
  PROVE  Giver \in ears \/ tiles[Giver] = {}
BY DEF WindowInv, OrderInv, Orderly, DownInv, Giver

\* The three properties of the runs, from the invariant.
LEMMA InvHeld == ASSUME Typed, WindowInv, OrderInv PROVE OrderlyIsHeld
<1> SUFFICES ASSUME Orderly, mode.agents, Quiet, NEW s \in running \ stranded
             PROVE  \E w \in Windows : Held(w, s) /\ \A x \in Windows \ {w} : s \notin tiles[x]
  BY DEF OrderlyIsHeld, LiveIsHeld
<1> DEFINE t == Taker
           f == Giver
<1>1. Pair(t, f) /\ Windows = {t, f}  BY SidesPair, PairIsAll
<1>2. HandInv(t, f) /\ ShellInv  BY DEF OrderInv
<1>8. f \in ears \/ tiles[f] = {}  BY GiverHears DEF Quiet
<1> HIDE DEF t, f
<1>3. t \in Windows /\ f \in Windows /\ t # f  BY <1>1 DEF Pair
<1>4. Coming(t) = {} /\ Claimed(t) = {} /\ Told(f) = {}
  BY <1>3, MailEmpty DEF Quiet, Coming, Claimed, Told
<1>5. s \in tiles[t] \cup tiles[f]
  <2>1. Main \in {t, f}  BY <1>1 DEF Windows
  <2> QED BY <1>2, <1>4, <2>1 DEF HandInv, PlaceInv, ShellInv
<1>6. CASE s \in tiles[t]
  <2>1. Held(t, s) /\ s \notin tiles[f]  BY <1>2, <1>4, <1>6, <1>8 DEF HandInv, PlaceInv, Held
  <2> QED BY <1>1, <2>1
<1>7. CASE s \in tiles[f] /\ s \notin tiles[t]
  <2>1. Held(f, s)  BY <1>2, <1>7 DEF HandInv, PlaceInv, Held
  <2> QED BY <1>1, <1>7, <2>1
<1> QED BY <1>5, <1>6, <1>7

LEMMA InvTold == ASSUME Typed, WindowInv, OrderInv PROVE StaleIsTold
<1> SUFFICES ASSUME Orderly, NEW w \in Windows, NEW s \in (running \cap tiles[w]) \ stranded,
                    owner[s] # w, claim[w][s] = "no", win # "leaving"
             PROVE  \E i \in DOMAIN mail[w] :
                      mail[w][i].kind = "owner" /\ mail[w][i].session = s /\ mail[w][i].owner # w
  BY DEF StaleIsTold
<1> DEFINE t == Taker
           f == Giver
<1>1. Pair(t, f) /\ Windows = {t, f}  BY SidesPair, PairIsAll
<1>2. HandInv(t, f)  BY DEF OrderInv
<1>10. f \in ears \/ tiles[f] = {}  BY GiverHears
<1> HIDE DEF t, f
<1>3. t \in Windows /\ f \in Windows /\ t # f  BY <1>1 DEF Pair
<1>4. s \notin Claimed(w)  BY DEF Claimed
<1>5. w = f /\ s \in tiles[t]  BY <1>1, <1>2, <1>4 DEF HandInv, PlaceInv
<1>6. s \in Told(f)
  <2>1. CASE s \in Claimed(t)
    BY <1>2, <1>5, <1>10, <2>1 DEF HandInv, ClaimInv
  <2>2. CASE s \notin Claimed(t)  BY <1>2, <1>5, <1>10, <2>2 DEF HandInv, PlaceInv
  <2> QED BY <2>1, <2>2
<1>7. PICK i \in DOMAIN mail[f] : s \in Names(mail[f][i])  BY <1>6 DEF Told, Tells
<1>8. mail[f][i].kind = "owner" /\ mail[f][i].session = s  BY <1>7 DEF Names
<1>9. mail[f][i].owner = t
  BY <1>2, <1>3, <1>8 DEF HandInv, SidesInv, Agreed, Says
<1> QED BY <1>3, <1>5, <1>8, <1>9

LEMMA InvLaid == ASSUME Typed, WindowInv, OrderInv PROVE OrderlyLayout
<1> SUFFICES ASSUME Orderly, Quiet, NEW w \in Windows, NEW s \in running \ Commands, Held(w, s)
             PROVE  <<s, w>> \in layout
  BY DEF OrderlyLayout, LiveIsLaidOut
<1> DEFINE t == Taker
           f == Giver
<1>1. Pair(t, f) /\ Windows = {t, f}  BY SidesPair, PairIsAll
<1>2. HandInv(t, f)  BY DEF OrderInv
<1>8. f \in ears \/ tiles[f] = {}  BY GiverHears DEF Quiet
<1> HIDE DEF t, f
<1>3. t \in Windows /\ f \in Windows /\ t # f  BY <1>1 DEF Pair
<1>4. saves[t] = <<>> /\ saves[f] = <<>> /\ Claimed(t) = {} /\ Told(f) = {}
  BY <1>3, MailEmpty DEF Quiet, Claimed, Told
<1>5. s \in tiles[w]  BY DEF Held
<1>6. CASE w = t  BY <1>2, <1>4, <1>5, <1>6 DEF HandInv, LaidInv
<1>7. CASE w = f
  <2>1. s \notin tiles[t]  BY <1>2, <1>4, <1>5, <1>7, <1>8 DEF HandInv, PlaceInv
  <2> QED BY <1>2, <1>4, <1>5, <1>7, <2>1 DEF HandInv, LaidInv
<1> QED BY <1>1, <1>6, <1>7
-----------------------------------------------------------------------------
(* Nothing is being handed over: then neither window gives or takes. *)

RestInv ==
  /\ NoTransit
  /\ tiles[Main] \cap tiles[Other] = {}
  /\ \A w \in Windows :
       /\ tiles[w] \subseteq running
       /\ \A s \in tiles[w] \ stranded : owner[s] = w /\ sink[s] = w
  /\ running \ Commands \subseteq tiles[Main] \cup tiles[Other] \cup stranded
  /\ SaveInv /\ FileInv
  /\ \A w \in Windows : \A s \in tiles[w] \ Commands : saves[w] = <<>> => <<s, w>> \in layout

LEMMA Rests ==
  ASSUME HandInv(Taker, Giver), NoTransit, Giver \in ears \/ tiles[Giver] = {}
  PROVE  RestInv
<1> DEFINE t == Taker
           f == Giver
<1>1. Pair(t, f) /\ Windows = {t, f} /\ {t, f} = {Main, Other}  BY SidesPair, PairIsAll DEF Windows
<1>2. HandInv(t, f) /\ (f \in ears \/ tiles[f] = {})  OBVIOUS
<1> HIDE DEF t, f
<1>3. t \in Windows /\ f \in Windows /\ t # f  BY <1>1 DEF Pair
<1>4. Coming(t) = {} /\ Claimed(t) = {} /\ Told(f) = {}  BY <1>3 DEF NoTransit
<1>5. tiles[t] \cap tiles[f] = {}  BY <1>2, <1>4 DEF HandInv, PlaceInv
<1>6. \A w \in Windows :
        tiles[w] \subseteq running /\ \A s \in tiles[w] \ stranded : owner[s] = w /\ sink[s] = w
  BY <1>1, <1>2, <1>4, <1>5 DEF HandInv, PlaceInv
<1>7. running \ Commands \subseteq tiles[Main] \cup tiles[Other] \cup stranded
  BY <1>1, <1>2, <1>4 DEF HandInv, PlaceInv
<1>8. \A w \in Windows : \A s \in tiles[w] \ Commands : saves[w] = <<>> => <<s, w>> \in layout
  BY <1>1, <1>2, <1>4, <1>5 DEF HandInv, LaidInv
<1>9. tiles[Main] \cap tiles[Other] = {}  BY <1>1, <1>5
<1> QED BY <1>2, <1>6, <1>7, <1>8, <1>9 DEF RestInv, HandInv

LEMMA Resumes == Typed /\ RestInv => HandInv(Taker, Giver)
<1> SUFFICES ASSUME Typed, RestInv PROVE HandInv(Taker, Giver)  OBVIOUS
<1> DEFINE t == Taker
           f == Giver
<1>1. Pair(t, f) /\ Windows = {t, f} /\ {t, f} = {Main, Other}  BY SidesPair, PairIsAll DEF Windows
<1> HIDE DEF t, f
<1>2. t \in Windows /\ f \in Windows /\ t # f  BY <1>1 DEF Pair
<1>3. /\ Coming(t) = {} /\ Claimed(t) = {} /\ Told(t) = {}
      /\ Coming(f) = {} /\ Claimed(f) = {} /\ Told(f) = {}
  BY <1>2 DEF RestInv, NoTransit
<1>4. SidesInv(t, f)
  <2>1. ASSUME NEW w \in Windows, NEW i \in DOMAIN mail[w], mail[w][i].kind = "owner"
        PROVE  FALSE
    <3>1. mail[w][i] \in Messages  BY DEF Typed, MailType
    <3>2. mail[w][i].session \in Sessions /\ mail[w][i].session \in Names(mail[w][i])
      BY <2>1, <3>1 DEF Messages, Names
    <3>3. mail[w][i].session \in Told(w)  BY <3>2 DEF Told, Tells
    <3> QED BY <3>3 DEF RestInv, NoTransit
  <2>2. \A w \in Windows : Agreed(mail[w], t)  BY <2>1 DEF Agreed, Says
  <2> QED BY <1>3, <2>2 DEF SidesInv
<1>5. ComingInv(t, f) /\ ClaimInv(t, f) /\ ToldInv(t, f)
  BY <1>3 DEF ComingInv, ClaimInv, ToldInv
<1>6. tiles[t] \cap tiles[f] = {}  BY <1>1, <1>2 DEF RestInv
<1>7. PlaceInv(t, f)  BY <1>1, <1>2, <1>3, <1>6 DEF RestInv, PlaceInv
<1>8. LaidInv(t, f)  BY <1>1, <1>2 DEF RestInv, LaidInv
<1>9. HandInv(t, f)  BY <1>4, <1>5, <1>7, <1>8 DEF RestInv, HandInv
<1> QED BY <1>9 DEF t, f

LEMMA ResumesNext == Typed' /\ RestInv' => HandInv(Taker, Giver)'
BY Resumes, PTL

LEMMA OrderInit == Init => OrderInv
<1> SUFFICES ASSUME Init PROVE OrderInv  OBVIOUS
<1>1. Windows = {Main, Other} /\ Main # Other  BY LabelsAssumption DEF Windows
<1>2. PICK s \in Sessions \ Commands :
        /\ running = {s} /\ fresh = Sessions \ {s}
        /\ owner = [x \in Sessions |-> IF x = s THEN Main ELSE Nobody]
        /\ sink = owner
        /\ tiles = [w \in Windows |-> IF w = Main THEN {s} ELSE {}]
        /\ memo = tiles /\ layout = {<<s, Main>>}
  BY DEF Init
<1>3. /\ mail = [w \in Windows |-> <<>>] /\ job = [w \in Windows |-> {}]
      /\ claim = [w \in Windows |-> [x \in Sessions |-> "no"]]
      /\ saves = [w \in Windows |-> <<>>] /\ win = "down" /\ ~ opening /\ stranded = {}
  BY DEF Init
<1>4. tiles[Main] = {s} /\ tiles[Other] = {} /\ memo[Other] = {} /\ saves[Other] = <<>>
  BY <1>1, <1>2, <1>3
<1>5. NoTransit  BY <1>3, MailEmpty DEF NoTransit, Coming, Claimed, Told
<1>6. \A w \in Windows : Lists(w) = tiles[w]
  BY <1>1, <1>2, <1>4, <1>5 DEF Lists, Saved, NoTransit
<1>7. SaveInv  BY <1>2, <1>3, <1>6 DEF SaveInv
<1>8. FileInv  BY <1>2 DEF FileInv
<1>9. RestInv
  <2>1. owner[s] = Main /\ sink[s] = Main  BY <1>2
  <2>2. \A w \in Windows :
          tiles[w] \subseteq running /\ \A x \in tiles[w] : owner[x] = w /\ sink[x] = w
    BY <1>1, <1>2, <1>4, <2>1
  <2>3. \A w \in Windows : \A x \in tiles[w] \ Commands : saves[w] = <<>> => <<x, w>> \in layout
    BY <1>1, <1>2, <1>4
  <2> QED BY <1>2, <1>4, <1>5, <1>7, <1>8, <2>2, <2>3 DEF RestInv
<1>10. HandInv(Taker, Giver)  BY <1>9, TypedInit, Resumes
<1> QED BY <1>2, <1>3, <1>4, <1>10 DEF OrderInv, WaitInv, DownInv, LeaveInv, ShellInv
-----------------------------------------------------------------------------
(* Steps that nothing of a hand-off is under way in. *)

\* What is orderly after a step was so before: agents are only ever added.
LEMMA OrderlyBefore ==
  ASSUME mode' = mode, fresh' \subseteq fresh, Orderly'
  PROVE  Orderly
BY DEF Orderly, Agents

LEMMA QuietRests ==
  ASSUME Typed, WindowInv, OrderInv, Orderly, Quiet
  PROVE  RestInv /\ \A w \in Windows : saves[w] = <<>>
<1>1. NoTransit  BY MailEmpty DEF Quiet, NoTransit, Coming, Claimed, Told
<1>2. win # "leaving"  BY DEF Quiet
<1> QED BY <1>1, <1>2, GiverHears, Rests DEF OrderInv, Quiet

LEMMA WaitRests ==
  ASSUME WindowInv, OrderInv, Orderly, opening
  PROVE  RestInv /\ saves[Main] = <<>>
<1>1. win # "leaving"  BY DEF WindowInv, Orderly
<1> QED BY <1>1, GiverHears, Rests DEF OrderInv, WaitInv

LEMMA TransitKept ==
  ASSUME NoTransit, mail' = mail, job' = job, claim' = claim
  PROVE  NoTransit'
BY DEF NoTransit, Coming, Claimed, Told

LEMMA RestKept ==
  ASSUME RestInv, UNCHANGED <<owner, sink, running, frontend, disk, stranded>>
  PROVE  RestInv'
<1>1. NoTransit'  BY TransitKept DEF RestInv, frontend
<1>2. \A w \in Windows : Lists(w)' = Lists(w)  BY DEF Lists, Claimed, Saved, frontend
<1>3. SaveInv'  BY <1>2 DEF RestInv, SaveInv, disk
<1>4. FileInv'  BY DEF RestInv, FileInv, disk
<1> QED BY <1>1, <1>3, <1>4 DEF RestInv, frontend, disk

\* A list that is to be saved, by a window that has nothing else to save.
LEMMA PersistSaves ==
  ASSUME Typed, SaveInv, NEW w \in Windows, saves[w] = <<>>, NEW set, Persist(w, set)
  PROVE  /\ \A x \in Windows : x # w => saves'[x] = saves[x]
         /\ saves'[w] = <<>> => Saved(set) = Lists(w)
         /\ saves'[w] # <<>> => saves'[w] = <<Saved(set)>>
<1>1. memo[w] = Lists(w)  BY DEF SaveInv
<1>2. (saves' = saves /\ Saved(set) = memo[w]) \/ saves' = [saves EXCEPT ![w] = Append(@, Saved(set))]
  BY DEF Persist
<1>3. Append(<<>>, Saved(set)) = <<Saved(set)>> /\ <<Saved(set)>> # <<>>  OBVIOUS
<1>4. saves \in [Windows -> Seq(SUBSET Known)]  BY DEF Typed, DiskType
<1> QED BY <1>1, <1>2, <1>3, <1>4

\* Then what it saved, or is saving, is its new list.
LEMMA PersistKeeps ==
  ASSUME Typed, SaveInv, NEW w \in Windows, saves[w] = <<>>, NEW set, Persist(w, set),
         memo' = memo, Lists(w)' = Saved(set),
         \A x \in Windows : x # w => Lists(x)' = Lists(x)
  PROVE  SaveInv'
<1>1. /\ \A x \in Windows : x # w => saves'[x] = saves[x]
      /\ saves'[w] = <<>> => Saved(set) = Lists(w)
      /\ saves'[w] # <<>> => saves'[w] = <<Saved(set)>>
  BY PersistSaves
<1>2. saves'[w] = <<>> => memo'[w] = Lists(w)'  BY <1>1 DEF SaveInv
<1> QED BY <1>1, <1>2 DEF SaveInv

LEMMA OrderOpening ==
  ASSUME Typed, Typed', WindowInv, OrderInv, DetachNew \/ Listen \/ Announce, Orderly'
  PROVE  OrderInv'
<1>1. /\ UNCHANGED <<backend, frontend, disk, fresh, mode, stranded>>
      /\ win' # "leaving" /\ win # "leaving"
  BY DEF DetachNew, Listen, Announce, bounds
<1>2. Orderly  BY <1>1, OrderlyBefore
<1>3. opening \/ Quiet
  BY <1>2 DEF DetachNew, Listen, Announce, Person, WindowInv, Orderly
<1>4. RestInv /\ saves[Main] = <<>>
  <2>1. Main \in Windows  BY DEF Windows
  <2> QED BY <1>2, <1>3, <2>1, QuietRests, WaitRests
<1>5. RestInv'  BY <1>1, <1>4, RestKept DEF backend
<1>6. HandInv(Taker, Giver)'  BY <1>5, ResumesNext
<1>7. WaitInv'
  <2>1. NoTransit'  BY <1>5 DEF RestInv
  <2>2. Other \in ready' => saves[Other] = <<>>
    <3>1. CASE DetachNew  BY <3>1 DEF DetachNew, Forgotten
    <3>2. CASE Listen  BY <1>2, <3>2 DEF Listen, WindowInv
    <3>3. CASE Announce  BY <3>3 DEF Announce, Served
    <3> QED BY <3>1, <3>2, <3>3
  <2> QED BY <1>1, <1>4, <2>1, <2>2 DEF WaitInv, disk
<1>8. DownInv'
  BY <1>1, <1>2 DEF OrderInv, DownInv, DetachNew, Listen, Announce, frontend, disk
<1>9. LeaveInv'  BY <1>1 DEF LeaveInv
<1>10. ShellInv'  BY <1>1, <1>2 DEF OrderInv, ShellInv, backend, frontend
<1> QED BY <1>6, <1>7, <1>8, <1>9, <1>10 DEF OrderInv

\* The other window restores what no one runs: the main one restores what it holds.
LEMMA OrderBoot ==
  ASSUME Typed, Typed', WindowInv, OrderInv, Boot, Orderly'
  PROVE  OrderInv'
<1>0. PICK mine \in {Restores(Other), {}} :
        LET started == mine \ running
        IN /\ tiles' = [tiles EXCEPT ![Other] = @ \cup mine]
           /\ over' = [over EXCEPT ![Other] = @ \cup (mine \ started)]
           /\ running' = running \cup started
           /\ owner' = [s \in Sessions |-> IF s \in started THEN Other ELSE owner[s]]
           /\ sink' = [s \in Sessions |-> IF s \in started THEN Other ELSE sink[s]]
           /\ IF mine = {} THEN saves' = saves ELSE Persist(Other, tiles[Other] \cup mine)
  BY DEF Boot
<1>1. /\ win = "listening" /\ win' = "booted" /\ opening' = opening /\ ready' = ready
      /\ mail' = mail /\ job' = job /\ claim' = claim /\ memo' = memo /\ layout' = layout
      /\ fresh' = fresh /\ mode' = mode /\ stranded' = stranded
      /\ tiles' = [tiles EXCEPT ![Other] = @ \cup mine]
      /\ running' = running \cup (mine \ running)
      /\ owner' = [s \in Sessions |-> IF s \in mine \ running THEN Other ELSE owner[s]]
      /\ sink' = [s \in Sessions |-> IF s \in mine \ running THEN Other ELSE sink[s]]
      /\ (saves' = saves /\ mine = {}) \/ Persist(Other, tiles[Other] \cup mine)
  BY <1>0 DEF Boot, bounds
<1>2. Orderly /\ opening /\ Other \notin ready
  <2>1. Orderly  BY <1>1, OrderlyBefore
  <2> QED BY <1>1, <2>1 DEF WindowInv, Orderly
<1>3. RestInv /\ saves[Main] = <<>>  BY <1>2, WaitRests
<1>4. tiles[Other] = {} /\ saves[Other] = <<>> /\ Claimed(Other) = {} /\ Claimed(Main) = {}
  BY <1>1, <1>2, <1>3 DEF OrderInv, DownInv, RestInv, NoTransit, Windows
<1>5. Main \in Windows /\ Other \in Windows /\ Main # Other /\ Windows = {Main, Other}
  BY LabelsAssumption DEF Windows
<1>6. mine \subseteq Sessions \ Commands /\ \A s \in mine : <<s, Other>> \in layout
  BY <1>3 DEF Restores, RestInv, FileInv
<1>7. mine \cap tiles[Main] = {} /\ mine \cap running \subseteq stranded
  <2>1. ASSUME NEW s \in mine, s \in tiles[Main] PROVE FALSE
    <3>1. <<s, Main>> \in layout  BY <1>3, <1>5, <1>6, <2>1 DEF RestInv
    <3>2. <<s, Other>> \in layout  BY <1>6
    <3> QED BY <1>3, <1>5, <3>1, <3>2 DEF RestInv, FileInv
  <2> QED BY <1>3, <1>4, <1>6, <2>1 DEF RestInv
<1>8. tiles'[Other] = mine /\ tiles'[Main] = tiles[Main] /\ running' = running \cup mine
  BY <1>1, <1>4, <1>5 DEF Typed, PictureType
<1>9. NoTransit'  BY <1>1, <1>3, TransitKept DEF RestInv
<1>10. Lists(Other)' = Saved(mine) /\ Lists(Main)' = Lists(Main)
  <2>1. Claimed(Other)' = {} /\ Claimed(Main)' = {}  BY <1>5, <1>9 DEF NoTransit
  <2> QED BY <1>4, <1>8, <2>1 DEF Lists, Saved
<1>11. SaveInv'
  <2>1. CASE Persist(Other, tiles[Other] \cup mine)
    <3>1. Saved(tiles[Other] \cup mine) = Saved(mine)  BY <1>4 DEF Saved
    <3> QED BY <1>1, <1>3, <1>4, <1>5, <1>10, <2>1, <3>1, PersistKeeps DEF RestInv
  <2>2. CASE saves' = saves /\ mine = {}
    <3>1. Lists(Other)' = Lists(Other)  BY <1>4, <1>10, <2>2 DEF Lists, Saved
    <3> QED BY <1>1, <1>3, <1>5, <1>10, <2>2, <3>1 DEF RestInv, SaveInv
  <2> QED BY <1>1, <2>1, <2>2
<1>12. RestInv'
  <2>1. \A s \in mine \ stranded : owner'[s] = Other /\ sink'[s] = Other
    BY <1>1, <1>6, <1>7
  <2>2. \A s \in tiles[Main] \ stranded : owner'[s] = Main /\ sink'[s] = Main
    BY <1>1, <1>3, <1>5, <1>7 DEF RestInv, Typed, PictureType, Known
  <2>3. \A w \in Windows :
          /\ tiles'[w] \subseteq running'
          /\ \A s \in tiles'[w] \ stranded' : owner'[s] = w /\ sink'[s] = w
    BY <1>1, <1>3, <1>5, <1>8, <2>1, <2>2 DEF RestInv
  <2>4. \A w \in Windows : \A s \in tiles'[w] \ Commands : <<s, w>> \in layout'
    BY <1>1, <1>3, <1>5, <1>6, <1>8 DEF RestInv
  <2>5. tiles'[Main] \cap tiles'[Other] = {}  BY <1>3, <1>5, <1>7, <1>8 DEF RestInv
  <2>6. running' \ Commands \subseteq tiles'[Main] \cup tiles'[Other] \cup stranded'
    BY <1>1, <1>3, <1>4, <1>8 DEF RestInv
  <2>7. FileInv'  BY <1>1, <1>3 DEF RestInv, FileInv
  <2> QED BY <1>9, <1>11, <2>3, <2>4, <2>5, <2>6, <2>7 DEF RestInv
<1>13. HandInv(Taker, Giver)'  BY <1>12, ResumesNext
<1>14. saves'[Main] = <<>>
  <2>1. CASE Persist(Other, tiles[Other] \cup mine)
    BY <1>3, <1>4, <1>5, <2>1, PersistSaves DEF RestInv
  <2> QED BY <1>1, <1>3, <2>1
<1>15. WaitInv'  BY <1>1, <1>2, <1>9, <1>14 DEF WaitInv
<1>16. DownInv' /\ LeaveInv'  BY <1>1 DEF DownInv, LeaveInv
<1>17. ShellInv'  BY <1>1, <1>2, <1>6, <1>8 DEF OrderInv, ShellInv
<1> QED BY <1>13, <1>15, <1>16, <1>17 DEF OrderInv
\* What a mailbox gains by an event.
LEMMA EmitParts ==
  ASSUME MailType, NEW w \in Windows, NEW m \in Messages
  PROVE  /\ \A x \in Windows : x # w => Emit(w, m)[x] = mail[x]
         /\ Emit(w, m)[w] = IF Reaches(w, m) THEN Append(mail[w], m) ELSE mail[w]
         /\ Reaches(w, m) => /\ Takes(Emit(w, m)[w]) = Takes(mail[w]) \cup Brings(m)
                             /\ Tells(Emit(w, m)[w]) = Tells(mail[w]) \cup Names(m)
         /\ \A t : Agreed(mail[w], t) /\ Says(m, t) => Agreed(Emit(w, m)[w], t)
<1>1. mail[w] \in Seq(Messages)  BY DEF MailType
<1>2. Emit(w, m)[w] = IF Reaches(w, m) THEN Append(mail[w], m) ELSE mail[w]  BY DEF Emit, MailType
<1>3. \A x \in Windows : x # w => Emit(w, m)[x] = mail[x]  BY DEF Emit, MailType
<1> HIDE DEF Emit
<1> QED BY <1>1, <1>2, <1>3, MailGrows

\* A window hands over the agents it draws, with nothing left to save.
LEMMA Departs ==
  ASSUME Typed, RestInv, NEW t, NEW f, Pair(t, f), HandedOff(f, t) \/ UNCHANGED mail,
         \A w \in Windows : saves[w] = <<>>, stranded \subseteq stranded',
         UNCHANGED <<owner, sink, running, tiles, job, claim, saves, memo, layout, mode, ears>>
  PROVE  /\ HandInv(t, f)' /\ Told(f)' = {}
         /\ HandedOff(f, t) /\ t \in ears => tiles[f] \ Commands \subseteq Coming(t)'
<1> DEFINE payload == tiles[f] \ Commands
<1>1. t \in Windows /\ f \in Windows /\ t # f /\ Windows = {t, f} /\ Windows = {Main, Other}
  BY PairIsAll DEF Pair, Windows
<1>2. payload \in SUBSET Sessions
  BY <1>1 DEF Typed, PictureType, Known
<1>3. Take(payload) \in Messages /\ Brings(Take(payload)) = payload /\ Names(Take(payload)) = {}
      /\ Says(Take(payload), t)
  BY <1>2 DEF Messages, Take, Brings, Names, Says
<1>4. /\ mail' = mail \/ mail' = Emit(t, Take(payload))
      /\ HandedOff(f, t) /\ payload # {} => mail' = Emit(t, Take(payload))
  BY DEF HandedOff
<1>5. /\ Coming(t) = {} /\ Claimed(t) = {} /\ Told(t) = {}
      /\ Coming(f) = {} /\ Claimed(f) = {} /\ Told(f) = {}
  BY <1>1 DEF RestInv, NoTransit
<1>6. HandInv(Taker, Giver)  BY Resumes
<1>7. tiles[t] \cap tiles[f] = {}  BY <1>1 DEF RestInv
<1> HIDE DEF payload
<1>8. /\ mail'[f] = mail[f] /\ Tells(mail'[t]) = Tells(mail[t])
      /\ Takes(mail'[t]) \subseteq Takes(mail[t]) \cup payload
      /\ HandedOff(f, t) /\ t \in ears => payload \subseteq Takes(mail'[t])
      /\ Agreed(mail[t], t) => Agreed(mail'[t], t)
  <2> DEFINE m == Take(payload)
  <2>1. m \in Messages /\ Says(m, t) /\ m.kind = "take" /\ Brings(m) = payload /\ Names(m) = {}
    BY <1>3 DEF Take
  <2> HIDE DEF m
  <2>2. Reaches(t, m) <=> t \in ears  BY <2>1 DEF Reaches
  <2>3. CASE mail' = Emit(t, m)
    <3>1. /\ mail'[f] = mail[f]
          /\ mail'[t] = IF Reaches(t, m) THEN Append(mail[t], m) ELSE mail[t]
          /\ Reaches(t, m) => /\ Takes(mail'[t]) = Takes(mail[t]) \cup Brings(m)
                              /\ Tells(mail'[t]) = Tells(mail[t]) \cup Names(m)
          /\ Agreed(mail[t], t) => Agreed(mail'[t], t)
      BY <1>1, <2>1, <2>3, EmitParts DEF Typed
    <3> QED BY <2>1, <2>2, <3>1
  <2>4. CASE mail' = mail /\ (HandedOff(f, t) => payload = {})  BY <2>4
  <2> QED BY <1>4, <2>3, <2>4 DEF m
<1>9. /\ Coming(f)' = {} /\ Told(f)' = {} /\ Told(t)' = {} /\ Claimed(t)' = {} /\ Claimed(f)' = {}
      /\ Coming(t)' \subseteq payload /\ (HandedOff(f, t) /\ t \in ears => payload \subseteq Coming(t)')
  BY <1>1, <1>5, <1>8 DEF Coming, Told, Claimed
<1>10. \A w \in Windows : Agreed(mail[w], t)
  <2>1. ASSUME NEW w \in Windows, NEW i \in DOMAIN mail[w], mail[w][i].kind = "owner"
        PROVE  FALSE
    <3>1. mail[w][i] \in Messages  BY DEF Typed, MailType
    <3>2. mail[w][i].session \in Sessions /\ mail[w][i].session \in Names(mail[w][i])
      BY <2>1, <3>1 DEF Messages, Names
    <3>3. mail[w][i].session \in Told(w)  BY <3>2 DEF Told, Tells
    <3> QED BY <3>3 DEF RestInv, NoTransit
  <2> QED BY <2>1 DEF Agreed, Says
<1>11. SidesInv(t, f)'  BY <1>1, <1>8, <1>9, <1>10 DEF SidesInv
<1>12. payload \subseteq tiles[f] /\ payload \cap Commands = {}  BY DEF payload
<1>13. ComingInv(t, f)'
  BY <1>1, <1>7, <1>9, <1>12 DEF ComingInv, RestInv
<1>14. ClaimInv(t, f)' /\ ToldInv(t, f)'  BY <1>9 DEF ClaimInv, ToldInv
<1>15. PlaceInv(t, f)'  BY <1>1, <1>7, <1>9 DEF PlaceInv, RestInv
<1>16. SaveInv'
  <2>1. \A w \in Windows : Lists(w)' = Lists(w)  BY DEF Lists, Claimed, Saved
  <2> QED BY <2>1 DEF SaveInv, RestInv
<1>17. FileInv' /\ LaidInv(t, f)'  BY <1>1, <1>9 DEF FileInv, LaidInv, RestInv
<1> QED BY <1>9, <1>11, <1>13, <1>14, <1>15, <1>16, <1>17 DEF HandInv, payload

LEMMA OrderHandsOver ==
  ASSUME Typed, Typed', WindowInv, OrderInv, DetachExisting \/ OpenReturns \/ HandBack, Orderly'
  PROVE  OrderInv'
<1>1. /\ UNCHANGED <<backend, tiles, over, job, claim, disk, fresh, mode>>
      /\ ready' = ready /\ ears' = ears
      /\ opening' = FALSE \/ opening' = opening
      /\ win' = win \/ win' = "leaving"
  BY DEF DetachExisting, OpenReturns, HandBack, Leaves, window, bounds
<1>2. Orderly  BY <1>1, OrderlyBefore
<1>3. Main \in Windows /\ Other \in Windows /\ Main # Other /\ Windows = {Main, Other}
  BY LabelsAssumption DEF Windows
<1>4. RestInv /\ \A w \in Windows : saves[w] = <<>>
  <2>1. CASE OpenReturns
    BY <1>2, <1>3, <2>1, WaitRests DEF OpenReturns, OrderInv, WaitInv
  <2>2. CASE DetachExisting \/ HandBack
    <3>1. Quiet  BY <1>2, <2>2 DEF DetachExisting, HandBack, Person, Orderly
    <3> QED BY <1>2, <3>1, QuietRests
  <2> QED BY <2>1, <2>2
<1>5. ~ opening' /\ win = "booted"
  BY <1>2 DEF DetachExisting, OpenReturns, HandBack, Person, Quiet, Orderly, WindowInv, window
<1>6. CASE HandBack
  <2>1. /\ Taker' = Main /\ Giver' = Other /\ win' = "leaving"
        /\ \/ HandedOff(Other, Main) /\ stranded' = stranded
           \/ mail' = mail /\ stranded' = stranded \cup (tiles[Other] \ Commands)
    BY <1>6 DEF HandBack, Leaves, Taker, Giver
  <2>2. /\ HandInv(Main, Other)' /\ Told(Other)' = {}
        /\ HandedOff(Other, Main) /\ Main \in ears => tiles[Other] \ Commands \subseteq Coming(Main)'
    BY <1>1, <1>3, <1>4, <2>1, Departs DEF Pair, backend, disk
  <2>8. Main \in ears  BY <1>2 DEF WindowInv, Orderly
  <2>3. LeaveInv'  BY <1>1, <1>3, <1>4, <2>1, <2>2, <2>8 DEF LeaveInv, disk
  <2>4. HandInv(Taker, Giver)'  BY <2>1, <2>2
  <2>5. DownInv'  BY <2>1 DEF DownInv
  <2>6. ShellInv'  BY <1>1, <1>2 DEF OrderInv, ShellInv, backend
  <2>7. WaitInv'  BY <1>5 DEF WaitInv
  <2> QED BY <2>3, <2>4, <2>5, <2>6, <2>7 DEF OrderInv
<1>7. CASE DetachExisting \/ OpenReturns
  <2>1. win' = "booted" /\ (HandedOff(Main, Other) \/ mail' = mail) /\ stranded' = stranded
    BY <1>5, <1>7 DEF DetachExisting, OpenReturns, Offered, window, bounds
  <2>2. Taker' = Other /\ Giver' = Main  BY <2>1 DEF Taker, Giver
  <2>3. HandInv(Other, Main)'
    BY <1>1, <1>3, <1>4, <2>1, Departs DEF Pair, backend, disk
  <2>4. HandInv(Taker, Giver)'  BY <2>2, <2>3
  <2>5. DownInv' /\ LeaveInv'  BY <2>1 DEF DownInv, LeaveInv
  <2>6. ShellInv'  BY <1>1, <1>2 DEF OrderInv, ShellInv, backend
  <2>7. WaitInv'  BY <1>5 DEF WaitInv
  <2> QED BY <2>4, <2>5, <2>6, <2>7 DEF OrderInv
<1> QED BY <1>6, <1>7

\* The window that goes owned nothing any window still draws.
LEMMA OrderTimesOut ==
  ASSUME Typed, Typed', WindowInv, OrderInv, OpenTimesOut, Orderly'
  PROVE  OrderInv'
<1>1. /\ opening /\ Other \notin ready /\ opening' = FALSE
      /\ UNCHANGED <<fresh, opens, quits, dirty, mode>>
  BY DEF OpenTimesOut, bounds
<1>2. Orderly  BY <1>1, OrderlyBefore
<1>3. Main \in Windows /\ Other \in Windows /\ Main # Other /\ Windows = {Main, Other}
  BY LabelsAssumption DEF Windows
<1>4. RestInv /\ saves[Main] = <<>>  BY <1>1, <1>2, WaitRests
<1>5. win \notin {"down", "leaving"}  BY <1>1, <1>2 DEF WindowInv, Orderly
<1>6. WaitInv'  BY <1>1 DEF WaitInv
<1>7. CASE win = "built" /\ Gone /\ mail' = [mail EXCEPT ![Other] = <<>>]
           /\ UNCHANGED <<sink, running, ended, claim, saves, layout, stranded>>
  <2>1. tiles[Other] = {} /\ memo[Other] = {} /\ saves[Other] = <<>>
    BY <1>2, <1>7 DEF OrderInv, DownInv
  <2>2. /\ win' = "down" /\ tiles' = [tiles EXCEPT ![Other] = {}]
        /\ job' = [job EXCEPT ![Other] = {}] /\ memo' = [memo EXCEPT ![Other] = {}]
        /\ owner' = [s \in Sessions |-> IF owner[s] = Other THEN Nobody ELSE owner[s]]
    BY <1>7 DEF Gone
  <2>3. tiles' = tiles /\ memo' = memo
    BY <1>3, <2>1, <2>2 DEF Typed, PictureType, DiskType
  <2>4. NoTransit'
    <3>1. /\ job'[Main] = job[Main] /\ job'[Other] = {}
          /\ mail'[Main] = mail[Main] /\ mail'[Other] = <<>>
      BY <1>3, <1>7, <2>2 DEF Typed, PictureType, MailType
    <3> QED BY <1>3, <1>4, <1>7, <3>1, MailEmpty DEF RestInv, NoTransit, Coming, Told, Claimed
  <2>5. SaveInv'
    <3>1. \A w \in Windows : Lists(w)' = Lists(w)  BY <1>7, <2>3 DEF Lists, Claimed, Saved
    <3> QED BY <1>4, <1>7, <2>3, <3>1 DEF RestInv, SaveInv
  <2>6. FileInv'  BY <1>4, <1>7 DEF RestInv, FileInv
  <2>7. \A w \in Windows : \A s \in tiles[w] \ stranded : owner'[s] = w
    BY <1>3, <1>4, <2>1, <2>2 DEF RestInv, Typed, PictureType, Known
  <2>8. RestInv'  BY <1>4, <1>7, <2>3, <2>4, <2>5, <2>6, <2>7 DEF RestInv
  <2>9. HandInv(Taker, Giver)'  BY <2>8, ResumesNext
  <2>10. DownInv' /\ LeaveInv'  BY <1>7, <2>1, <2>2, <2>3 DEF DownInv, LeaveInv
  <2>11. ShellInv'  BY <1>1, <1>2, <1>7, <2>3 DEF OrderInv, ShellInv
  <2> QED BY <1>6, <2>9, <2>10, <2>11 DEF OrderInv
<1>8. CASE /\ win \in {"listening", "booted"} /\ Served(Other)
           /\ Leaves
           /\ UNCHANGED <<backend, ready, ears, tiles, over, job, claim, disk>>
  <2>1. /\ Taker' = Main /\ Giver' = Other /\ win' = "leaving"
        /\ \/ HandedOff(Other, Main) /\ stranded' = stranded
           \/ mail' = mail /\ stranded' = stranded \cup (tiles[Other] \ Commands)
    BY <1>8 DEF Leaves, Taker, Giver
  <2>2. \A w \in Windows : saves[w] = <<>>  BY <1>3, <1>4, <1>8 DEF Served
  <2>3. /\ HandInv(Main, Other)' /\ Told(Other)' = {}
        /\ HandedOff(Other, Main) /\ Main \in ears => tiles[Other] \ Commands \subseteq Coming(Main)'
    BY <1>1, <1>3, <1>4, <1>8, <2>1, <2>2, Departs DEF Pair, backend, disk
  <2>4. HandInv(Taker, Giver)'  BY <2>1, <2>3
  <2>7. Main \in ears  BY <1>2 DEF WindowInv, Orderly
  <2>5. DownInv' /\ LeaveInv'
    BY <1>3, <1>8, <2>1, <2>2, <2>3, <2>7 DEF DownInv, LeaveInv, disk
  <2>6. ShellInv'  BY <1>1, <1>2, <1>8 DEF OrderInv, ShellInv, backend
  <2> QED BY <1>6, <2>4, <2>5, <2>6 DEF OrderInv
<1> QED BY <1>5, <1>7, <1>8 DEF OpenTimesOut
LEMMA OrderStart ==
  ASSUME Typed, Typed', WindowInv, OrderInv, NEW w \in Windows, NEW s \in Sessions, Start(w, s), Orderly'
  PROVE  OrderInv'
<1>1. /\ s \in fresh
      /\ w = Main \/ win = "booted"
      /\ mode.agents /\ w = Other => s \notin Commands
      /\ fresh' = fresh \ {s} /\ running' = running \cup {s}
      /\ owner' = [owner EXCEPT ![s] = w] /\ sink' = [sink EXCEPT ![s] = w]
      /\ tiles' = [tiles EXCEPT ![w] = @ \cup {s}]
      /\ Persist(w, tiles[w] \cup {s})
      /\ UNCHANGED <<ready, win, opening, mail, job, claim, memo, layout, mode, stranded>>
  BY DEF Start, window, bounds
<1>2. Orderly  BY <1>1, OrderlyBefore
<1>3. Quiet  BY <1>2 DEF Start, Person, Orderly
<1>4. RestInv /\ \A x \in Windows : saves[x] = <<>>  BY <1>2, <1>3, QuietRests
<1>5. Main \in Windows /\ Other \in Windows /\ Main # Other /\ Windows = {Main, Other}
  BY LabelsAssumption DEF Windows
<1>6. s \notin running /\ \A x \in Windows : s \notin tiles[x]
  BY <1>1 DEF Typed, PlainType, PictureType, Known
<1>7. /\ tiles'[w] = tiles[w] \cup {s}
      /\ \A x \in Windows : x # w => tiles'[x] = tiles[x]
  BY <1>1 DEF Typed, PictureType
<1>8. /\ owner'[s] = w /\ sink'[s] = w
      /\ \A x \in Sessions : x # s => owner'[x] = owner[x] /\ sink'[x] = sink[x]
  BY <1>1 DEF Typed, PlainType
<1>9. NoTransit'  BY <1>1, <1>4, TransitKept DEF RestInv
<1>10. \A x \in Windows : Lists(x)' = Saved(tiles'[x]) /\ Lists(x) = Saved(tiles[x])
  BY <1>4, <1>9 DEF Lists, Saved, RestInv, NoTransit
<1>11. SaveInv'
  <2>1. Lists(w)' = Saved(tiles[w] \cup {s}) /\ \A x \in Windows : x # w => Lists(x)' = Lists(x)
    BY <1>7, <1>10
  <2> QED BY <1>1, <1>4, <2>1, PersistKeeps DEF RestInv
<1>12. RestInv'
  <2>1. \A x \in Windows :
          /\ tiles'[x] \subseteq running'
          /\ \A y \in tiles'[x] \ stranded' : owner'[y] = x /\ sink'[y] = x
    <3>1. \A x \in Windows : tiles[x] \subseteq Sessions  BY DEF Typed, PictureType, Known
    <3> QED BY <1>1, <1>4, <1>6, <1>7, <1>8, <3>1 DEF RestInv
  <2>2. \A x \in Windows : \A y \in tiles'[x] \ Commands : saves'[x] = <<>> => <<y, x>> \in layout'
    <3>1. /\ \A x \in Windows : x # w => saves'[x] = saves[x]
          /\ saves'[w] = <<>> => Saved(tiles[w] \cup {s}) = Lists(w)
      BY <1>1, <1>4, PersistSaves DEF RestInv
    <3>2. saves'[w] = <<>> => s \in Commands  BY <1>6, <1>10, <3>1 DEF Saved
    <3> QED BY <1>1, <1>4, <1>7, <3>1, <3>2 DEF RestInv
  <2>3. tiles'[Main] \cap tiles'[Other] = {}  BY <1>4, <1>5, <1>6, <1>7 DEF RestInv
  <2>4. running' \ Commands \subseteq tiles'[Main] \cup tiles'[Other] \cup stranded'
    BY <1>1, <1>4, <1>5, <1>7 DEF RestInv
  <2>5. FileInv'  BY <1>1, <1>4 DEF RestInv, FileInv
  <2> QED BY <1>9, <1>11, <2>1, <2>2, <2>3, <2>4, <2>5 DEF RestInv
<1>13. HandInv(Taker, Giver)'  BY <1>12, ResumesNext
<1>14. WaitInv' /\ LeaveInv'  BY <1>1, <1>3 DEF WaitInv, LeaveInv, Quiet
<1>15. DownInv'
  <2>1. CASE win = "booted"  BY <1>1, <2>1 DEF DownInv
  <2>2. CASE w = Main
    <3>1. saves'[Other] = saves[Other]  BY <1>1, <1>4, <1>5, <2>2, PersistSaves DEF RestInv
    <3> QED BY <1>1, <1>2, <1>5, <1>7, <2>2, <3>1 DEF OrderInv, DownInv
  <2> QED BY <1>1, <2>1, <2>2
<1>16. ShellInv'  BY <1>1, <1>2, <1>5, <1>7 DEF OrderInv, ShellInv
<1> QED BY <1>13, <1>14, <1>15, <1>16 DEF OrderInv

LEMMA OrderClose ==
  ASSUME Typed, Typed', WindowInv, OrderInv, NEW w \in Windows, NEW s \in Sessions, CloseTile(w, s), Orderly'
  PROVE  OrderInv'
<1>1. /\ s \in tiles[w] /\ Listens(w) /\ running' = running \ {s}
      /\ owner' = [owner EXCEPT ![s] = Nobody] /\ sink' = sink
      /\ tiles' = [tiles EXCEPT ![w] = @ \ {s}]
      /\ Persist(w, tiles[w] \ {s})
      /\ UNCHANGED <<fresh, ready, win, opening, mail, job, claim, memo, layout, mode, stranded>>
  BY DEF CloseTile, window, bounds
<1>2. Orderly  BY <1>1, OrderlyBefore
<1>3. Quiet  BY <1>2 DEF CloseTile, Person, Orderly
<1>4. RestInv /\ \A x \in Windows : saves[x] = <<>>  BY <1>2, <1>3, QuietRests
<1>5. Main \in Windows /\ Other \in Windows /\ Main # Other /\ Windows = {Main, Other}
  BY LabelsAssumption DEF Windows
<1>6. \A x \in Windows : x # w => s \notin tiles[x]  BY <1>1, <1>4, <1>5 DEF RestInv
<1>7. /\ tiles'[w] = tiles[w] \ {s}
      /\ \A x \in Windows : x # w => tiles'[x] = tiles[x]
  BY <1>1 DEF Typed, PictureType
<1>8. \A x \in Sessions : x # s => owner'[x] = owner[x]  BY <1>1 DEF Typed, PlainType
<1>9. NoTransit'  BY <1>1, <1>4, TransitKept DEF RestInv
<1>10. \A x \in Windows : Lists(x)' = Saved(tiles'[x]) /\ Lists(x) = Saved(tiles[x])
  BY <1>4, <1>9 DEF Lists, Saved, RestInv, NoTransit
<1>11. SaveInv'
  <2>1. Lists(w)' = Saved(tiles[w] \ {s}) /\ \A x \in Windows : x # w => Lists(x)' = Lists(x)
    BY <1>7, <1>10
  <2> QED BY <1>1, <1>4, <2>1, PersistKeeps DEF RestInv
<1>12. RestInv'
  <2>1. \A x \in Windows :
          /\ tiles'[x] \subseteq running'
          /\ \A y \in tiles'[x] \ stranded' : owner'[y] = x /\ sink'[y] = x
    <3>1. \A x \in Windows : tiles[x] \subseteq Sessions  BY DEF Typed, PictureType, Known
    <3> QED BY <1>1, <1>4, <1>6, <1>7, <1>8, <3>1 DEF RestInv
  <2>2. \A x \in Windows : \A y \in tiles'[x] \ Commands : saves'[x] = <<>> => <<y, x>> \in layout'
    BY <1>1, <1>4, <1>7 DEF RestInv
  <2>3. tiles'[Main] \cap tiles'[Other] = {}  BY <1>4, <1>5, <1>7 DEF RestInv
  <2>4. running' \ Commands \subseteq tiles'[Main] \cup tiles'[Other] \cup stranded'
    BY <1>1, <1>4, <1>5, <1>7 DEF RestInv
  <2>5. FileInv'  BY <1>1, <1>4 DEF RestInv, FileInv
  <2> QED BY <1>9, <1>11, <2>1, <2>2, <2>3, <2>4, <2>5 DEF RestInv
<1>13. HandInv(Taker, Giver)'  BY <1>12, ResumesNext
<1>14. WaitInv' /\ LeaveInv'  BY <1>1, <1>3 DEF WaitInv, LeaveInv, Quiet
<1>15. DownInv'
  <2>1. CASE w = Other  BY <1>1, <1>2, <1>5, <2>1 DEF OrderInv, DownInv, Listens, Quiet, WindowInv
  <2>2. CASE w = Main
    <3>1. saves'[Other] = saves[Other]  BY <1>1, <1>4, <1>5, <2>2, PersistSaves DEF RestInv
    <3> QED BY <1>1, <1>2, <1>5, <1>7, <2>2, <3>1 DEF OrderInv, DownInv
  <2> QED BY <1>5, <2>1, <2>2
<1>16. ShellInv'
  <2>1. tiles'[Main] = tiles[Main] \/ tiles'[Main] = tiles[Main] \ {s}  BY <1>5, <1>7
  <2> QED BY <1>1, <1>2, <2>1 DEF OrderInv, ShellInv
<1> QED BY <1>13, <1>14, <1>15, <1>16 DEF OrderInv

LEMMA OrderQuit ==
  ASSUME Typed, Typed', WindowInv, OrderInv, Quit, Orderly'
  PROVE  OrderInv'
<1> DEFINE mine == Restores(Main)
<1>1. /\ running' = mine
      /\ owner' = [s \in Sessions |-> IF s \in mine THEN Main ELSE Nobody]
      /\ sink' = owner'
      /\ tiles' = [w \in Windows |-> IF w = Main THEN mine ELSE {}] /\ memo' = tiles'
      /\ win' = "down" /\ opening' = FALSE
      /\ mail' = [w \in Windows |-> <<>>] /\ job' = [w \in Windows |-> {}]
      /\ claim' = [w \in Windows |-> [s \in Sessions |-> "no"]]
      /\ saves' = [w \in Windows |-> <<>>]
      /\ layout' = layout /\ fresh' = fresh /\ mode' = mode
  BY DEF Quit
<1>2. Orderly  BY <1>1, OrderlyBefore
<1>3. Quiet  BY <1>2 DEF Quit, Person, Orderly
<1>4. RestInv  BY <1>2, <1>3, QuietRests
<1>5. Main \in Windows /\ Other \in Windows /\ Main # Other /\ Windows = {Main, Other}
  BY LabelsAssumption DEF Windows
<1>6. mine \subseteq Sessions \ Commands /\ \A s \in mine : <<s, Main>> \in layout
  BY <1>4 DEF Restores, RestInv, FileInv
<1> HIDE DEF mine
<1>7. tiles'[Main] = mine /\ tiles'[Other] = {}  BY <1>1, <1>5
<1>8. NoTransit'  BY <1>1, MailEmpty DEF NoTransit, Coming, Told, Claimed
<1>9. SaveInv'
  <2>1. \A w \in Windows : Lists(w)' = tiles'[w]
    BY <1>5, <1>6, <1>7, <1>8 DEF Lists, Saved, NoTransit
  <2> QED BY <1>1, <2>1 DEF SaveInv
<1>10. RestInv'
  <2>1. \A s \in mine : owner'[s] = Main /\ sink'[s] = Main  BY <1>1, <1>6
  <2>2. FileInv'  BY <1>1, <1>4 DEF RestInv, FileInv
  <2> QED BY <1>1, <1>5, <1>6, <1>7, <1>8, <1>9, <2>1, <2>2 DEF RestInv
<1>11. HandInv(Taker, Giver)'  BY <1>10, ResumesNext
<1>12. DownInv'  BY <1>1, <1>5, <1>7 DEF DownInv
<1>13. WaitInv' /\ LeaveInv'  BY <1>1 DEF WaitInv, LeaveInv
<1>14. ShellInv'  BY <1>1, <1>7 DEF ShellInv
<1> QED BY <1>11, <1>12, <1>13, <1>14 DEF OrderInv
-----------------------------------------------------------------------------
(* Steps of a hand-off under way. *)

\* Where no step of a hand-off is possible, nothing of one is found.
LEMMA WaitsAtRest ==
  ASSUME WindowInv, OrderInv, Orderly, ~ NoTransit
  PROVE  ~ opening /\ win \in {"booted", "leaving", "down"} /\ (Taker = Other => win = "booted")
BY LabelsAssumption DEF OrderInv, WaitInv, WindowInv, Orderly, Taker

\* Mail that brings, names and says what it did leaves all as it was.
LEMMA HandKept ==
  ASSUME NEW t, NEW f, Pair(t, f), HandInv(t, f),
         \A w \in Windows : Coming(w)' = Coming(w) /\ Told(w)' = Told(w) /\ Agreed(mail'[w], t),
         UNCHANGED <<owner, sink, running, tiles, claim, saves, memo, layout, mode, ears, stranded>>
  PROVE  HandInv(t, f)'
<1>1. t \in Windows /\ f \in Windows  BY DEF Pair
<1>2. \A w \in Windows : Claimed(w)' = Claimed(w) /\ Lists(w)' = Lists(w)
  BY DEF Claimed, Lists, Saved
<1>3. SidesInv(t, f)'  BY <1>1, <1>2 DEF HandInv, SidesInv
<1>4. ComingInv(t, f)'  BY <1>1, <1>2 DEF HandInv, ComingInv
<1>5. ClaimInv(t, f)'  BY <1>1, <1>2 DEF HandInv, ClaimInv
<1>6. ToldInv(t, f)'  BY <1>1 DEF HandInv, ToldInv
<1>7. PlaceInv(t, f)'
  <2>1. /\ Claimed(t)' = Claimed(t) /\ Told(f)' = Told(f) /\ Coming(t)' = Coming(t)
        /\ tiles' = tiles /\ running' = running /\ owner' = owner /\ sink' = sink
        /\ ears' = ears /\ stranded' = stranded
    BY <1>1, <1>2
  <2>2. PlaceInv(t, f)  BY DEF HandInv
  <2> QED BY <2>1, <2>2 DEF PlaceInv
<1>8. SaveInv' /\ FileInv'  BY <1>2 DEF HandInv, SaveInv, FileInv
<1>9. LaidInv(t, f)'  BY <1>1, <1>2 DEF HandInv, LaidInv
<1> QED BY <1>3, <1>4, <1>5, <1>6, <1>7, <1>8, <1>9 DEF HandInv

\* Such mail, and nothing else that is spoken of, changes.
LEMMA OrderKept ==
  ASSUME OrderInv, Orderly,
         \A w \in Windows : Coming(w)' = Coming(w) /\ Told(w)' = Told(w) /\ Agreed(mail'[w], Taker),
         UNCHANGED <<owner, sink, running, tiles, claim, saves, memo, layout, mode, window, stranded>>
  PROVE  OrderInv'
<1> DEFINE t == Taker
           f == Giver
<1>1. Pair(t, f) /\ HandInv(t, f)  BY SidesPair DEF OrderInv
<1>2. t' = t /\ f' = f  BY DEF Taker, Giver, window
<1>3. \A w \in Windows : Coming(w)' = Coming(w) /\ Told(w)' = Told(w) /\ Agreed(mail'[w], t)
  OBVIOUS
<1>10. UNCHANGED <<owner, sink, running, tiles, claim, saves, memo, layout, mode, ears, stranded>>
  BY DEF window
<1> HIDE DEF t, f
<1>4. HandInv(t, f)'  BY <1>1, <1>2, <1>3, <1>10, HandKept
<1>5. HandInv(Taker, Giver)'  BY <1>2, <1>4 DEF t, f
<1>6. WaitInv'
  <2>1. NoTransit => NoTransit'  BY DEF NoTransit, Claimed
  <2> QED BY <2>1 DEF OrderInv, WaitInv, window
<1>7. DownInv'  BY DEF OrderInv, DownInv, window
<1>8. LeaveInv'
  <2>1. Main \in Windows /\ Other \in Windows  BY DEF Windows
  <2> QED BY <2>1 DEF OrderInv, LeaveInv, window
<1>9. ShellInv'  BY DEF OrderInv, ShellInv
<1> QED BY <1>5, <1>6, <1>7, <1>8, <1>9 DEF OrderInv

LEMMA OrderExit ==
  ASSUME Typed, OrderInv, NEW s \in Sessions, Exit(s), Orderly'
  PROVE  OrderInv'
<1>1. /\ mail' = [w \in Windows |-> Emit(w, Over(s))[w]]
      /\ UNCHANGED <<owner, sink, running, window, tiles, over, job, claim, disk, fresh, bounds>>
  BY DEF Exit
<1>2. Orderly  BY <1>1, OrderlyBefore DEF bounds
<1>3. Over(s) \in Messages /\ Brings(Over(s)) = {} /\ Names(Over(s)) = {} /\ Says(Over(s), Taker)
  BY DEF Messages, Over, Brings, Names, Says
<1>4. ASSUME NEW w \in Windows
      PROVE  Coming(w)' = Coming(w) /\ Told(w)' = Told(w) /\ Agreed(mail'[w], Taker)
  <2> DEFINE m == Over(s)
             t == Taker
  <2>1. m \in Messages /\ Brings(m) = {} /\ Names(m) = {} /\ Says(m, t)  BY <1>3
  <2>2. mail'[w] = Emit(w, m)[w]  BY <1>1
  <2>3. Agreed(mail[w], t)  BY <1>2 DEF OrderInv, HandInv, SidesInv
  <2> HIDE DEF m, t
  <2>4. /\ mail'[w] = IF Reaches(w, m) THEN Append(mail[w], m) ELSE mail[w]
        /\ Reaches(w, m) => /\ Takes(mail'[w]) = Takes(mail[w]) \cup Brings(m)
                            /\ Tells(mail'[w]) = Tells(mail[w]) \cup Names(m)
        /\ Agreed(mail'[w], t)
    BY <2>1, <2>2, <2>3, EmitParts DEF Typed
  <2>5. Takes(mail'[w]) = Takes(mail[w]) /\ Tells(mail'[w]) = Tells(mail[w])
    BY <2>1, <2>4
  <2> QED BY <1>1, <2>4, <2>5 DEF Coming, Told, t
<1> QED BY <1>1, <1>2, <1>4, OrderKept DEF disk, bounds
\* Given up, a session is drawn by its taker only; the giver saves what it has left.
LEMMA OrderReceive ==
  ASSUME Typed, WindowInv, OrderInv, NEW w \in Windows, Receive(w), Orderly'
  PROVE  OrderInv'
<1> DEFINE t == Taker
           f == Giver
           m == Head(mail[w])
<1>1. /\ mail[w] # <<>> /\ Listens(w) /\ mail' = [mail EXCEPT ![w] = Tail(@)]
      /\ UNCHANGED <<backend, window, claim, memo, layout, fresh, bounds>>
  BY DEF Receive
<1>2. Orderly  BY <1>1, OrderlyBefore DEF bounds
<1>3. Pair(t, f) /\ Windows = {t, f} /\ HandInv(t, f) /\ t' = t /\ f' = f
  BY <1>1, <1>2, SidesPair, PairIsAll DEF OrderInv, Taker, Giver, window
<1>4. /\ \/ m.kind = "take" /\ job' = [job EXCEPT ![w] = @ \cup m.tiles] /\ tiles' = tiles /\ saves' = saves
         \/ m.kind = "owner" /\ job' = job
         \/ m.kind = "exit" /\ UNCHANGED <<tiles, job, saves>>
      /\ m.kind = "owner" =>
           IF m.owner # w /\ m.session \in tiles[w]
           THEN tiles' = [tiles EXCEPT ![w] = @ \ {m.session}] /\ Persist(w, tiles[w] \ {m.session})
           ELSE UNCHANGED <<tiles, saves>>
  BY DEF Receive
<1>5. /\ m \in Messages /\ Tail(mail[w]) \in Seq(Messages)
      /\ Takes(mail[w]) = Takes(Tail(mail[w])) \cup Brings(m)
      /\ Tells(mail[w]) = Tells(Tail(mail[w])) \cup Names(m)
      /\ Agreed(mail[w], t) => Agreed(Tail(mail[w]), t) /\ Says(m, t)
  BY <1>1, MailShrinks DEF Typed, MailType
<1>6. /\ mail'[w] = Tail(mail[w]) /\ \A x \in Windows : x # w => mail'[x] = mail[x]
  BY <1>1 DEF Typed, MailType
<1> HIDE DEF m
<1>7. \A x \in Windows : Agreed(mail'[x], t)
  BY <1>3, <1>5, <1>6 DEF HandInv, SidesInv
<1>8. CASE m.kind = "take" \/ m.kind = "exit"
  <2>1. UNCHANGED <<tiles, saves>> /\ Names(m) = {}
    BY <1>4, <1>8 DEF Names
  <2>2. job'[w] = job[w] \cup Brings(m) /\ \A x \in Windows : x # w => job'[x] = job[x]
    BY <1>4, <1>8 DEF Brings, Typed, PictureType
  <2>3. \A x \in Windows : Coming(x)' = Coming(x) /\ Told(x)' = Told(x)
    BY <1>5, <1>6, <2>1, <2>2 DEF Coming, Told
  <2> QED BY <1>1, <1>2, <1>7, <2>1, <2>3, OrderKept DEF backend, bounds
<1>9. CASE m.kind = "owner"
  <2> DEFINE s == m.session
  <2>1. /\ s \in Sessions /\ Names(m) = {s} /\ Brings(m) = {} /\ m.owner = t
    BY <1>3, <1>5, <1>9 DEF HandInv, SidesInv, Names, Brings, Says, Messages
  <2> HIDE DEF t, f
  <2>2. t \in Windows /\ f \in Windows /\ t # f  BY <1>3 DEF Pair
  <2>3. s \in Told(w)  BY <1>5, <2>1 DEF Told
  <2>4. w = f  BY <1>3, <2>2, <2>3 DEF HandInv, SidesInv
  <2>5. ~ opening /\ win \in {"booted", "leaving", "down"} /\ (t = Other => win = "booted")
    BY <1>2, <2>2, <2>3, <2>4, WaitsAtRest DEF NoTransit, t
  <2>6. win \in {"booted", "leaving"} /\ win' = win /\ opening' = opening
    BY <1>1, <1>3, <2>2, <2>4, <2>5 DEF Listens, window, Windows
  <2>7. /\ \A x \in Windows : Coming(x)' = Coming(x) /\ Claimed(x)' = Claimed(x)
        /\ \A x \in Told(f) : x = s
        /\ Told(f)' \subseteq {s} /\ Told(t)' = {}
    <3>1. job' = job /\ claim' = claim  BY <1>1, <1>4, <1>9
    <3>2. \A x \in Told(f) : x = s  BY <1>3, <2>3, <2>4 DEF HandInv, ToldInv
    <3>3. Told(f)' \subseteq Told(f) /\ Told(t)' = {}
      BY <1>3, <1>5, <1>6, <2>2, <2>4 DEF Told, HandInv, SidesInv
    <3>4. \A x \in Windows : Coming(x)' = Coming(x)
      BY <1>5, <1>6, <2>1, <3>1 DEF Coming
    <3> QED BY <3>1, <3>2, <3>3, <3>4 DEF Claimed
  <2>8. /\ tiles'[f] = tiles[f] \ {s} /\ tiles'[t] = tiles[t]
        /\ s \in tiles[t] /\ s \notin Commands
    BY <1>3, <1>4, <1>9, <2>1, <2>2, <2>3, <2>4 DEF HandInv, ToldInv, Typed, PictureType
  <2>9. /\ \A x \in Windows : x # f => saves'[x] = saves[x]
        /\ saves[f] # <<>> => saves' = saves
        /\ SaveInv'
    <3>1. CASE s \in tiles[f]
      <4>1. Persist(f, tiles[f] \ {s}) /\ saves[f] = <<>>
        BY <1>3, <1>4, <1>9, <2>1, <2>2, <2>3, <2>4, <3>1 DEF HandInv, ToldInv
      <4>2. Lists(f)' = Saved(tiles[f] \ {s}) /\ \A x \in Windows : x # f => Lists(x)' = Lists(x)
        <5>1. Claimed(f) = {}  BY <1>3 DEF HandInv, SidesInv
        <5> QED BY <1>3, <2>7, <2>8, <5>1 DEF Lists, Saved
      <4>3. memo' = memo  BY <1>1
      <4>4. \A x \in Windows : x # f => saves'[x] = saves[x]
        BY <1>3, <2>2, <4>1, PersistSaves DEF HandInv
      <4>5. SaveInv'
        BY <1>3, <2>2, <4>1, <4>2, <4>3, PersistKeeps DEF HandInv
      <4> QED BY <4>1, <4>4, <4>5
    <3>2. CASE s \notin tiles[f]
      <4>1. tiles' = tiles /\ saves' = saves /\ memo' = memo
        BY <1>1, <1>4, <1>9, <2>4, <3>2
      <4>2. \A x \in Windows : Lists(x)' = Lists(x)  BY <2>7, <4>1 DEF Lists, Saved
      <4> QED BY <1>3, <4>1, <4>2 DEF HandInv, SaveInv
    <3> QED BY <3>1, <3>2
  <2> HIDE DEF s
  <2>10. /\ UNCHANGED <<owner, sink, running, claim, layout, mode, ears, stranded>>
         /\ saves[f] # <<>> => saves'[f] # <<>>
    BY <1>1, <2>9 DEF backend, window, bounds
  <2>11. SidesInv(t, f)'
    BY <1>3, <1>7, <2>2, <2>7 DEF HandInv, SidesInv
  <2>12. ComingInv(t, f)'
    <3>1. mode.prompt \/ Coming(t) \subseteq tiles[t]
      BY <1>3, <2>3, <2>4 DEF HandInv, ComingInv
    <3> QED BY <1>3, <2>2, <2>7, <2>8, <2>10, <3>1 DEF HandInv, ComingInv
  <2>13. ClaimInv(t, f)'
    <3>1. \A x \in Claimed(t) : claim[t][x] = "done"
      BY <1>3, <2>3, <2>4 DEF HandInv, ClaimInv
    <3>2. \A x \in tiles'[f] : x \notin Told(f)  BY <2>7, <2>8
    <3> QED BY <1>3, <2>2, <2>7, <2>8, <2>9, <2>10, <3>1, <3>2 DEF HandInv, ClaimInv
  <2>14. ToldInv(t, f)'
    <3>1. \A x \in Told(f)' : x = s  BY <2>7
    <3>2. s \in tiles'[t] /\ s \notin tiles'[f] /\ s \notin Commands  BY <2>8
    <3> QED BY <1>3, <3>1, <3>2 DEF ToldInv
  <2>15. PlaceInv(t, f)'
    <3>1. \A x \in tiles'[f] : x \notin Told(f)  BY <2>7, <2>8
    <3> QED BY <1>3, <2>2, <2>7, <2>8, <2>10, <3>1 DEF HandInv, PlaceInv
  <2>16. FileInv'  BY <1>3, <2>10 DEF HandInv, FileInv
  <2>17. LaidInv(t, f)'
    BY <1>3, <2>2, <2>7, <2>8, <2>9, <2>10 DEF HandInv, LaidInv
  <2>18. HandInv(Taker, Giver)'
    BY <1>3, <2>9, <2>11, <2>12, <2>13, <2>14, <2>15, <2>16, <2>17 DEF HandInv, t, f
  <2>19. WaitInv' /\ DownInv'  BY <2>5, <2>6 DEF WaitInv, DownInv
  <2>20. LeaveInv'
    <3>1. win = "leaving" => t = Main /\ f = Other  BY DEF t, f, Taker, Giver
    <3>2. win = "leaving" =>
            /\ tiles[Other] \ Commands \subseteq tiles[Main] \cup Coming(Main) \cup stranded
            /\ Other \notin ears => Told(Other) = {}
      BY <1>2 DEF OrderInv, LeaveInv
    <3> QED BY <2>2, <2>3, <2>4, <2>6, <2>7, <2>8, <2>10, <3>1, <3>2 DEF LeaveInv
  <2>21. ShellInv'
    <3>1. tiles[Main] \ {s} \subseteq tiles'[Main]  BY <1>3, <2>8 DEF Windows
    <3> QED BY <1>2, <2>8, <2>10, <3>1 DEF OrderInv, ShellInv
  <2> QED BY <2>18, <2>19, <2>20, <2>21 DEF OrderInv
<1> QED BY <1>4, <1>8, <1>9
\* The taker draws a session it has yet to claim.
LEMMA OrderTakes ==
  ASSUME Typed, WindowInv, OrderInv, NEW w \in Windows, NEW s \in Sessions, TakeTile(w, s), Orderly'
  PROVE  OrderInv'
<1> DEFINE t == Taker
           f == Giver
<1>1. /\ s \in job[w] /\ saves[w] = <<>> /\ Prompt /\ \A x \in Sessions : claim[w][x] = "no"
      /\ job' = [job EXCEPT ![w] = @ \ {s}]
      /\ s \in tiles[w] => UNCHANGED <<tiles, claim>>
      /\ s \notin tiles[w] => /\ tiles' = [tiles EXCEPT ![w] = @ \cup {s}]
                              /\ claim' = [claim EXCEPT ![w][s] = "asked"]
      /\ UNCHANGED <<backend, window, over, mail, disk, fresh, bounds>>
  BY DEF TakeTile, Served
<1>2. Orderly  BY <1>1, OrderlyBefore DEF bounds
<1>3. Pair(t, f) /\ Windows = {t, f} /\ HandInv(t, f) /\ t' = t /\ f' = f
  BY <1>1, <1>2, SidesPair, PairIsAll DEF OrderInv, Taker, Giver, window
<1>4. s \in Coming(w)  BY <1>1 DEF Coming
<1>5. ~ opening /\ win \in {"booted", "leaving", "down"} /\ (t = Other => win = "booted")
  BY <1>2, <1>4, WaitsAtRest DEF NoTransit, t
<1>6. UNCHANGED <<owner, sink, running, win, opening, mail, saves, memo, layout, mode, ears, stranded>>
  BY <1>1 DEF backend, window, disk, bounds
<1>7. (t = Main /\ f = Other) \/ (t = Other /\ f = Main)  BY DEF Taker, Giver
<1>8. Main # Other  BY LabelsAssumption
<1> HIDE DEF t, f
<1>9. t \in Windows /\ f \in Windows /\ t # f  BY <1>3 DEF Pair
<1>10. w = t  BY <1>3, <1>4, <1>9 DEF HandInv, SidesInv
<1>11. /\ job'[f] = job[f] /\ job'[t] = job[t] \ {s} /\ tiles'[f] = tiles[f]
       /\ tiles'[t] = tiles[t] \cup {s}
  BY <1>1, <1>9, <1>10 DEF Typed, PictureType
<1>12. /\ Coming(f)' = Coming(f) /\ Coming(t)' \subseteq Coming(t)
       /\ Coming(t) \subseteq Coming(t)' \cup {s}
       /\ Told(t)' = Told(t) /\ Told(f)' = Told(f)
  BY <1>3, <1>6, <1>9, <1>11 DEF Coming, Told
<1>13. s \in running \ Commands  BY <1>3, <1>4, <1>10 DEF HandInv, ComingInv
<1>14. Claimed(t) = {}  BY <1>1, <1>10 DEF Claimed
<1>15. /\ Claimed(f)' = Claimed(f)
       /\ s \in tiles[t] => Claimed(t)' = {}
       /\ s \notin tiles[t] => Claimed(t)' = {s} /\ claim'[t][s] = "asked"
  <2>1. claim'[f] = claim[f]  BY <1>1, <1>9, <1>10 DEF Typed, PictureType
  <2>2. CASE s \in tiles[t]  BY <1>1, <1>3, <1>10, <1>14, <2>1, <2>2 DEF Claimed
  <2>3. CASE s \notin tiles[t]
    <3>1. claim'[t] = [claim[t] EXCEPT ![s] = "asked"]
      BY <1>1, <1>9, <1>10, <2>3 DEF Typed, PictureType
    <3>2. claim'[t][s] = "asked" /\ \A x \in Sessions : x # s => claim'[t][x] = "no"
      BY <1>1, <1>9, <1>10, <3>1 DEF Typed, PictureType
    <3> QED BY <1>3, <2>1, <2>3, <3>2 DEF Claimed
  <2> QED BY <2>2, <2>3
<1>16. SidesInv(t, f)'
  BY <1>3, <1>6, <1>9, <1>12, <1>15 DEF HandInv, SidesInv
<1>17. ComingInv(t, f)'
  <2>1. Coming(t)' \subseteq running \ Commands  BY <1>3, <1>12 DEF HandInv, ComingInv
  <2>2. ~ mode.prompt => Coming(t)' \subseteq tiles'[t]
    <3> SUFFICES ASSUME ~ mode.prompt, NEW x \in Coming(t)' PROVE x \in tiles'[t]  OBVIOUS
    <3>1. x \in Agents /\ s \in Agents
      BY <1>3, <1>12, <1>13 DEF HandInv, ComingInv, Agents, Typed, PlainType, Known
    <3>2. x = s  BY <1>2, <3>1 DEF Orderly
    <3> QED BY <1>11, <3>2
  <2>3. Coming(t)' \subseteq running' \ Commands /\ (~ mode'.prompt => Coming(t)' \subseteq tiles'[t])
    BY <1>6, <2>1, <2>2
  <2> QED BY <1>3, <2>3 DEF ComingInv
<1>18. s \notin tiles[t] => Told(f) = {} /\ saves[f] = <<>>
  <2>1. CASE mode.prompt
    <3>1. mail[f] = <<>> /\ saves[f] = <<>>  BY <1>1, <1>9, <2>1 DEF Prompt, Served
    <3> QED BY <3>1, MailEmpty DEF Told
  <2>2. CASE ~ mode.prompt  BY <1>3, <1>4, <1>10, <2>2 DEF HandInv, ComingInv
  <2> QED BY <2>1, <2>2
<1>19. ClaimInv(t, f)'
  <2>1. CASE s \in tiles[t]  BY <1>3, <1>15, <2>1 DEF ClaimInv
  <2>2. CASE s \notin tiles[t]
    <3>1. s \in tiles[f] => owner[s] = f \/ s \in stranded  BY <1>3, <2>2 DEF HandInv, PlaceInv
    <3>2. /\ Claimed(t)' = {s} /\ claim'[t][s] = "asked" /\ s \in tiles'[t] /\ s \notin Commands
          /\ saves'[t] = <<>> /\ saves'[f] = <<>> /\ Told(f)' = {}
          /\ s \in tiles'[f] => owner'[s] = f \/ s \in stranded'
      BY <1>1, <1>6, <1>10, <1>11, <1>12, <1>13, <1>15, <1>18, <2>2, <3>1
    <3> QED BY <1>3, <3>2 DEF ClaimInv
  <2> QED BY <2>1, <2>2
<1>20. ToldInv(t, f)'
  BY <1>3, <1>6, <1>11, <1>12 DEF HandInv, ToldInv
<1>21. PlaceInv(t, f)'
  <2>1. tiles'[t] \subseteq running' /\ tiles'[f] \subseteq running'
    BY <1>3, <1>6, <1>11, <1>13 DEF HandInv, PlaceInv
  <2>2. \A x \in tiles'[t] \ Claimed(t)' : x \in tiles[t] \ Claimed(t)
    BY <1>11, <1>14, <1>15
  <2>3. \A x \in tiles'[t] \ Claimed(t)' :
          /\ x \in stranded' \/ (owner'[x] = t /\ sink'[x] = t)
          /\ x \in tiles'[f] => x \in Told(f)' \/ f \notin ears'
    BY <1>3, <1>6, <1>11, <1>12, <2>2 DEF HandInv, PlaceInv
  <2>4. \A x \in tiles'[f] \ tiles'[t] : x \in stranded' \/ (owner'[x] = f /\ sink'[x] = f)
    BY <1>3, <1>6, <1>11 DEF HandInv, PlaceInv
  <2>5. running' \ Commands \subseteq tiles'[t] \cup tiles'[f] \cup Coming(t)' \cup stranded'
    BY <1>3, <1>6, <1>11, <1>12 DEF HandInv, PlaceInv
  <2> QED BY <1>3, <2>1, <2>3, <2>4, <2>5 DEF PlaceInv
<1>22. \A x \in Windows : Lists(x)' = Lists(x)
  <2>1. tiles'[t] \ Claimed(t)' = tiles[t] \ Claimed(t)  BY <1>11, <1>14, <1>15
  <2> QED BY <1>3, <1>11, <1>15, <2>1 DEF Lists, Saved
<1>23. SaveInv' /\ FileInv'
  BY <1>3, <1>6, <1>22 DEF HandInv, SaveInv, FileInv
<1>24. LaidInv(t, f)'
  <2>1. tiles'[t] \ Claimed(t)' = tiles[t] \ Claimed(t)  BY <1>11, <1>14, <1>15
  <2> QED BY <1>3, <1>6, <1>11, <2>1 DEF HandInv, LaidInv
<1>25. HandInv(Taker, Giver)'
  BY <1>3, <1>16, <1>17, <1>19, <1>20, <1>21, <1>23, <1>24 DEF HandInv, t, f
<1>26. WaitInv'  BY <1>5, <1>6 DEF WaitInv
<1>27. DownInv'  BY <1>2, <1>5, <1>6, <1>7, <1>8, <1>11 DEF OrderInv, DownInv
<1>28. LeaveInv'
  <2>1. CASE win = "leaving"
    <3>1. t = Main /\ f = Other  BY <1>5, <1>7, <2>1
    <3>2. /\ tiles[Other] \ Commands \subseteq tiles[Main] \cup Coming(Main) \cup stranded
          /\ Other \notin ears => Told(Other) = {} /\ saves[Other] = <<>>
      BY <1>2, <2>1 DEF OrderInv, LeaveInv
    <3> QED BY <1>6, <1>3, <1>11, <1>12, <3>1, <3>2 DEF LeaveInv
  <2>2. CASE win # "leaving"  BY <1>6, <2>2 DEF LeaveInv
  <2> QED BY <2>1, <2>2
<1>29. ShellInv'
  <2>1. tiles[Main] \subseteq tiles'[Main]  BY <1>7, <1>11
  <2> QED BY <1>2, <1>6, <2>1 DEF OrderInv, ShellInv
<1> QED BY <1>25, <1>26, <1>27, <1>28, <1>29 DEF OrderInv
\* What a claim under way says: its window takes, and holds what it claims.
LEMMA ClaimFacts ==
  ASSUME Typed, WindowInv, OrderInv, Orderly, NEW w \in Windows, NEW s \in Sessions,
         claim[w][s] # "no"
  PROVE  /\ w = Taker /\ s \in Claimed(Taker) /\ ~ NoTransit
         /\ \A x \in Claimed(Taker) : x = s
         /\ s \in tiles[Taker] /\ s \in running /\ s \notin Commands /\ saves[Taker] = <<>>
         /\ Alive(Taker)
<1> DEFINE t == Taker
           f == Giver
<1>1. Pair(t, f) /\ Windows = {t, f} /\ HandInv(t, f)  BY SidesPair, PairIsAll DEF OrderInv
<1>2. s \in Claimed(w)  BY DEF Claimed
<1>3. ~ NoTransit  BY <1>2 DEF NoTransit
<1>4. t = Main \/ win = "booted"  BY <1>3, WaitsAtRest DEF Taker
<1> HIDE DEF t, f
<1>5. w = t  BY <1>1, <1>2 DEF HandInv, SidesInv
<1>6. /\ \A x \in Claimed(t) : x = s
      /\ s \in tiles[t] /\ s \in running /\ s \notin Commands /\ saves[t] = <<>>
  BY <1>1, <1>2, <1>5 DEF HandInv, ClaimInv, PlaceInv
<1> QED BY <1>2, <1>3, <1>4, <1>5, <1>6 DEF Alive, t

\* The session is held, so its output moves.
LEMMA OrderRetargets ==
  ASSUME Typed, WindowInv, OrderInv, NEW w \in Windows, NEW s \in Sessions,
         ClaimRetargets(w, s), Orderly'
  PROVE  OrderInv'
<1> DEFINE t == Taker
           f == Giver
<1>1. /\ claim[w][s] = "asked"
      /\ s \in running => sink' = [sink EXCEPT ![s] = w] /\ claim' = [claim EXCEPT ![w][s] = "retargeted"]
      /\ UNCHANGED <<owner, running, ended, window, tiles, over, mail, job, disk, fresh, bounds>>
  BY DEF ClaimRetargets
<1>2. Orderly  BY <1>1, OrderlyBefore DEF bounds
<1>3. Pair(t, f) /\ Windows = {t, f} /\ HandInv(t, f) /\ t' = t /\ f' = f
  BY <1>1, <1>2, SidesPair, PairIsAll DEF OrderInv, Taker, Giver, window
<1>4. /\ w = t /\ s \in Claimed(t) /\ ~ NoTransit /\ \A x \in Claimed(t) : x = s
      /\ s \in tiles[t] /\ s \in running /\ s \notin Commands
  BY <1>1, <1>2, ClaimFacts
<1>5. ~ opening  BY <1>2, <1>4, WaitsAtRest
<1> HIDE DEF t, f
<1>6. t \in Windows /\ f \in Windows /\ t # f  BY <1>3 DEF Pair
<1>7. UNCHANGED <<owner, running, win, opening, tiles, mail, job, saves, memo, layout, mode, ears, stranded>>
  BY <1>1 DEF window, disk, bounds
<1>8. /\ sink'[s] = t /\ \A x \in Sessions : x # s => sink'[x] = sink[x]
      /\ claim'[t][s] = "retargeted" /\ claim'[f] = claim[f]
      /\ \A x \in Sessions : x # s => claim'[t][x] = claim[t][x]
  <2>1. claim'[t] = [claim[t] EXCEPT ![s] = "retargeted"] /\ claim'[f] = claim[f]
    BY <1>1, <1>4, <1>6 DEF Typed, PictureType
  <2> QED BY <1>1, <1>4, <1>6, <2>1 DEF Typed, PictureType, PlainType
<1>9. \A x \in Windows : Claimed(x)' = Claimed(x) /\ Coming(x)' = Coming(x) /\ Told(x)' = Told(x)
  <2>1. Claimed(t)' = Claimed(t) /\ Claimed(f)' = Claimed(f)
    BY <1>1, <1>3, <1>4, <1>8 DEF Claimed
  <2> QED BY <1>3, <1>7, <2>1 DEF Coming, Told
<1>10. \A x \in Windows : Lists(x)' = Lists(x)  BY <1>7, <1>9 DEF Lists, Saved
<1>11. SidesInv(t, f)' /\ ComingInv(t, f)' /\ ToldInv(t, f)'
  BY <1>3, <1>6, <1>7, <1>9 DEF HandInv, SidesInv, ComingInv, ToldInv
<1>12. SaveInv' /\ FileInv' /\ LaidInv(t, f)'
  BY <1>3, <1>6, <1>7, <1>9, <1>10 DEF HandInv, SaveInv, FileInv, LaidInv
<1>13. ClaimInv(t, f)'
  <2>1. /\ saves[t] = <<>> /\ saves[f] = <<>> /\ Told(f) = {} /\ (s \in tiles[f] => owner[s] = f \/ s \in stranded)
    BY <1>1, <1>3, <1>4 DEF HandInv, ClaimInv
  <2> QED BY <1>3, <1>4, <1>6, <1>7, <1>8, <1>9, <2>1 DEF ClaimInv
<1>14. PlaceInv(t, f)'
  <2>1. \A x \in tiles[t] \ Claimed(t) : x \in Sessions /\ x # s
    BY <1>4, <1>6 DEF Typed, PictureType, Known
  <2>2. \A x \in tiles[f] \ tiles[t] : x \in Sessions /\ x # s
    BY <1>4, <1>6 DEF Typed, PictureType, Known
  <2> QED BY <1>3, <1>6, <1>7, <1>8, <1>9, <2>1, <2>2 DEF HandInv, PlaceInv
<1>15. HandInv(Taker, Giver)'
  BY <1>3, <1>11, <1>12, <1>13, <1>14 DEF HandInv, t, f
<1>16. WaitInv'  BY <1>5, <1>7 DEF WaitInv
<1>17. DownInv' /\ LeaveInv' /\ ShellInv'
  <2>1. Main \in Windows /\ Other \in Windows  BY DEF Windows
  <2> QED BY <1>2, <1>7, <1>9, <2>1 DEF OrderInv, DownInv, LeaveInv, ShellInv
<1> QED BY <1>15, <1>16, <1>17 DEF OrderInv

\* The window that drew it is told, if there is one.
LEMMA OrderRecords ==
  ASSUME Typed, WindowInv, OrderInv, NEW w \in Windows, NEW s \in Sessions,
         ClaimRecords(w, s), Orderly'
  PROVE  OrderInv'
<1> DEFINE t == Taker
           f == Giver
           m == OwnerIs(s, w)
<1>1. /\ claim[w][s] = "retargeted" /\ owner' = [owner EXCEPT ![s] = w]
      /\ mail' = [x \in Windows |-> IF x # w THEN Emit(x, m)[x] ELSE mail[x]]
      /\ claim' = [claim EXCEPT ![w][s] = "done"]
      /\ stranded' = stranded \ {s}
      /\ UNCHANGED <<sink, running, ended, window, tiles, over, job, disk, fresh, mode>>
  BY DEF ClaimRecords
<1>2. Orderly  BY <1>1, OrderlyBefore
<1>3. Pair(t, f) /\ Windows = {t, f} /\ HandInv(t, f) /\ t' = t /\ f' = f
  BY <1>1, <1>2, SidesPair, PairIsAll DEF OrderInv, Taker, Giver, window
<1>4. /\ w = t /\ s \in Claimed(t) /\ ~ NoTransit /\ \A x \in Claimed(t) : x = s
      /\ s \in tiles[t] /\ s \in running /\ s \notin Commands
  BY <1>1, <1>2, ClaimFacts
<1>5. ~ opening /\ (t = Other => win = "booted") /\ win \in {"booted", "leaving", "down"}
  BY <1>2, <1>4, WaitsAtRest
<1>6. (t = Main /\ f = Other) \/ (t = Other /\ f = Main)  BY DEF Taker, Giver
<1>8. m \in Messages /\ Brings(m) = {} /\ Names(m) = {s} /\ Says(m, t)
      /\ (Reaches(f, m) <=> f \in ears)
  BY <1>4 DEF Reaches, Messages, OwnerIs, Brings, Names, Says
<1> HIDE DEF t, f, m
<1>9. t \in Windows /\ f \in Windows /\ t # f  BY <1>3 DEF Pair
<1>10. UNCHANGED <<sink, running, win, opening, tiles, job, saves, memo, layout, mode, ears>>
  BY <1>1 DEF window, disk
<1>11. /\ owner'[s] = t /\ \A x \in Sessions : x # s => owner'[x] = owner[x]
       /\ claim'[t][s] = "done" /\ claim'[f] = claim[f]
       /\ \A x \in Sessions : x # s => claim'[t][x] = claim[t][x]
  <2>1. claim'[t] = [claim[t] EXCEPT ![s] = "done"] /\ claim'[f] = claim[f]
    BY <1>1, <1>4, <1>9 DEF Typed, PictureType
  <2> QED BY <1>1, <1>4, <1>9, <2>1 DEF Typed, PictureType, PlainType
<1>12. \A x \in Windows : Claimed(x)' = Claimed(x)
  <2>1. Claimed(t)' = Claimed(t) /\ Claimed(f)' = Claimed(f)
    BY <1>1, <1>3, <1>4, <1>11 DEF Claimed
  <2> QED BY <1>3, <2>1
<1>13. /\ mail'[t] = mail[t]
       /\ mail'[f] = IF Reaches(f, m) THEN Append(mail[f], m) ELSE mail[f]
       /\ Reaches(f, m) => /\ Takes(mail'[f]) = Takes(mail[f]) \cup Brings(m)
                           /\ Tells(mail'[f]) = Tells(mail[f]) \cup Names(m)
       /\ Agreed(mail[f], t) => Agreed(mail'[f], t)
  <2>1. mail'[t] = mail[t] /\ mail'[f] = Emit(f, m)[f]  BY <1>1, <1>4, <1>9
  <2> QED BY <1>8, <1>9, <2>1, EmitParts DEF Typed
<1>14. /\ Coming(t)' = Coming(t) /\ Coming(f)' = Coming(f) /\ Told(t)' = Told(t)
       /\ f \in ears => Told(f)' = Told(f) \cup {s}
       /\ f \notin ears => Told(f)' = Told(f)
  BY <1>3, <1>8, <1>10, <1>13 DEF Coming, Told
<1>15. /\ saves[t] = <<>> /\ saves[f] = <<>> /\ Told(f) = {} /\ sink[s] = t
  BY <1>1, <1>3, <1>4 DEF HandInv, ClaimInv
<1>16. \A x \in Windows : Lists(x)' = Lists(x)  BY <1>10, <1>12 DEF Lists, Saved
<1>17. SidesInv(t, f)'
  BY <1>3, <1>9, <1>12, <1>13, <1>14 DEF HandInv, SidesInv
<1>18. ComingInv(t, f)'
  <2>1. mode.prompt \/ Coming(t) \subseteq tiles[t]
    BY <1>3, <1>4 DEF HandInv, ComingInv
  <2> QED BY <1>3, <1>9, <1>10, <1>14, <2>1 DEF HandInv, ComingInv
<1>19. ToldInv(t, f)'
  <2>1. Told(f)' \subseteq {s}  BY <1>14, <1>15
  <2> QED BY <1>3, <1>4, <1>10, <1>15, <2>1 DEF ToldInv
<1>20. s \in Told(f)' \/ f \notin ears'  BY <1>10, <1>14
<1>21. ClaimInv(t, f)'
  BY <1>3, <1>4, <1>9, <1>10, <1>11, <1>12, <1>15, <1>20 DEF ClaimInv
<1>22. PlaceInv(t, f)'
  <2>1. \A x \in tiles[t] \ Claimed(t) : x \in Sessions /\ x # s
    BY <1>4, <1>9 DEF Typed, PictureType, Known
  <2>2. \A x \in tiles[f] \ tiles[t] : x \in Sessions /\ x # s
    BY <1>4, <1>9 DEF Typed, PictureType, Known
  <2>3. \A x \in tiles[t] \ Claimed(t) : x \in tiles[f] => f \notin ears
    BY <1>3, <1>15 DEF HandInv, PlaceInv
  <2>4. stranded' = stranded \ {s} /\ s \in tiles[t]  BY <1>1, <1>4
  <2>5. PlaceInv(t, f) /\ Claimed(t)' = Claimed(t) /\ Coming(t)' = Coming(t)
    BY <1>3, <1>9, <1>12, <1>14 DEF HandInv
  <2>6. running' \ Commands \subseteq tiles'[t] \cup tiles'[f] \cup Coming(t)' \cup stranded'
    BY <1>10, <2>4, <2>5 DEF PlaceInv
  <2>7. \A x \in tiles'[t] \ Claimed(t)' :
          /\ x \in stranded' \/ (owner'[x] = t /\ sink'[x] = t)
          /\ x \in tiles'[f] => f \notin ears'
    BY <1>10, <1>11, <2>1, <2>3, <2>4, <2>5 DEF PlaceInv
  <2>8. \A x \in tiles'[f] \ tiles'[t] : x \in stranded' \/ (owner'[x] = f /\ sink'[x] = f)
    BY <1>10, <1>11, <2>2, <2>4, <2>5 DEF PlaceInv
  <2>9. tiles'[t] \subseteq running' /\ tiles'[f] \subseteq running'  BY <1>10, <2>5 DEF PlaceInv
  <2> QED BY <1>3, <2>6, <2>7, <2>8, <2>9 DEF PlaceInv
<1>23. SaveInv' /\ FileInv' /\ LaidInv(t, f)'
  BY <1>3, <1>9, <1>10, <1>12, <1>16 DEF HandInv, SaveInv, FileInv, LaidInv
<1>24. HandInv(Taker, Giver)'
  BY <1>3, <1>17, <1>18, <1>19, <1>21, <1>22, <1>23 DEF HandInv, t, f
<1>25. WaitInv'  BY <1>5, <1>10 DEF WaitInv
<1>26. DownInv' /\ LeaveInv' /\ ShellInv'
  <2>1. Coming(Main)' = Coming(Main)  BY <1>3, <1>6, <1>14
  <2>2. win = "leaving" => t = Main /\ f = Other  BY <1>5, <1>6
  <2>3. LeaveInv'
    <3>1. stranded' = stranded \ {s} /\ s \in tiles[t]  BY <1>1, <1>4
    <3>2. f \notin ears => Told(f)' = Told(f)  BY <1>14
    <3>3. LeaveInv  BY <1>2 DEF OrderInv
    <3> QED BY <1>3, <1>10, <2>1, <2>2, <3>1, <3>2, <3>3 DEF LeaveInv
  <2> QED BY <1>2, <1>10, <2>3 DEF OrderInv, DownInv, ShellInv
<1> QED BY <1>24, <1>25, <1>26 DEF OrderInv
\* The claim is over: the taker saves the session with the others it draws.
LEMMA OrderReturns ==
  ASSUME Typed, WindowInv, OrderInv, NEW w \in Windows, NEW s \in Sessions,
         ClaimReturns(w, s), Orderly'
  PROVE  OrderInv'
<1> DEFINE t == Taker
           f == Giver
<1>1. /\ claim[w][s] \in {"done", "refused"} /\ claim' = [claim EXCEPT ![w][s] = "no"]
      /\ claim[w][s] = "done" /\ Alive(w) => Persist(w, tiles[w])
      /\ UNCHANGED <<backend, window, tiles, mail, job, memo, layout, fresh, bounds>>
  BY DEF ClaimReturns
<1>2. Orderly  BY <1>1, OrderlyBefore DEF bounds
<1>3. Pair(t, f) /\ Windows = {t, f} /\ HandInv(t, f) /\ t' = t /\ f' = f
  BY <1>1, <1>2, SidesPair, PairIsAll DEF OrderInv, Taker, Giver, window
<1>4. /\ w = t /\ s \in Claimed(t) /\ ~ NoTransit /\ \A x \in Claimed(t) : x = s
      /\ s \in tiles[t] /\ s \in running /\ s \notin Commands /\ saves[t] = <<>> /\ Alive(t)
  BY <1>1, <1>2, ClaimFacts
<1>5. ~ opening /\ (t = Other => win = "booted")
  BY <1>2, <1>4, WaitsAtRest
<1>6. (t = Main /\ f = Other) \/ (t = Other /\ f = Main)  BY DEF Taker, Giver
<1> HIDE DEF t, f
<1>7. t \in Windows /\ f \in Windows /\ t # f  BY <1>3 DEF Pair
<1>8. UNCHANGED <<owner, sink, running, win, opening, tiles, mail, job, memo, layout, mode, ears, stranded>>
  BY <1>1 DEF backend, window, bounds
<1>9. claim[t][s] = "done"
  BY <1>1, <1>3, <1>4 DEF HandInv, ClaimInv
<1>10. Persist(t, tiles[t])  BY <1>1, <1>4, <1>9
<1>11. Claimed(t)' = {} /\ Claimed(f)' = Claimed(f)
  <2>1. claim'[t] = [claim[t] EXCEPT ![s] = "no"] /\ claim'[f] = claim[f]
    BY <1>1, <1>4, <1>7 DEF Typed, PictureType
  <2>2. claim'[t][s] = "no" /\ \A x \in Sessions : x # s => claim'[t][x] = claim[t][x]
    BY <1>4, <1>7, <2>1 DEF Typed, PictureType
  <2>3. \A x \in Sessions : claim'[t][x] = "no"
    BY <1>4, <2>2 DEF Claimed
  <2> QED BY <1>3, <2>1, <2>3 DEF Claimed
<1>12. \A x \in Windows : Coming(x)' = Coming(x) /\ Told(x)' = Told(x)
  BY <1>8 DEF Coming, Told
<1>13. Lists(t)' = Saved(tiles[t]) /\ \A x \in Windows : x # t => Lists(x)' = Lists(x)
  BY <1>3, <1>8, <1>11 DEF Lists, Saved
<1>14. /\ \A x \in Windows : x # t => saves'[x] = saves[x]
       /\ saves'[t] # <<>>
  <2>1. SaveInv  BY <1>3 DEF HandInv
  <2>2. /\ \A x \in Windows : x # t => saves'[x] = saves[x]
        /\ saves'[t] = <<>> => Saved(tiles[t]) = Lists(t)
    BY <1>4, <1>7, <1>10, <2>1, PersistSaves
  <2>3. s \in Saved(tiles[t]) /\ s \notin Lists(t)  BY <1>4 DEF Saved, Lists
  <2> QED BY <2>2, <2>3
<1>15. SaveInv'
  <2>1. SaveInv /\ memo' = memo  BY <1>3, <1>8 DEF HandInv
  <2>2. Lists(t)' = Saved(tiles[t])  BY <1>13
  <2> QED BY <1>3, <1>4, <1>7, <1>10, <1>13, <2>1, <2>2, PersistKeeps
<1>16. SidesInv(t, f)'
  BY <1>3, <1>7, <1>8, <1>11, <1>12 DEF HandInv, SidesInv
<1>17. ComingInv(t, f)'
  <2>1. mode.prompt \/ Coming(t) \subseteq tiles[t]
    BY <1>3, <1>4 DEF HandInv, ComingInv
  <2> QED BY <1>3, <1>7, <1>8, <1>12, <2>1 DEF HandInv, ComingInv
<1>18. ClaimInv(t, f)'  BY <1>3, <1>11 DEF ClaimInv
<1>19. ToldInv(t, f)'
  BY <1>3, <1>7, <1>8, <1>12, <1>14 DEF HandInv, ToldInv
<1>20. PlaceInv(t, f)'
  <2>1. owner[s] = t /\ sink[s] = t /\ (s \in tiles[f] => s \in Told(f) \/ f \notin ears)
    BY <1>3, <1>4, <1>9 DEF HandInv, ClaimInv
  <2>2. \A x \in tiles[t] :
          /\ x \in stranded \/ (owner[x] = t /\ sink[x] = t)
          /\ x \in tiles[f] => x \in Told(f) \/ f \notin ears
    BY <1>3, <1>4, <2>1 DEF HandInv, PlaceInv
  <2> QED BY <1>3, <1>7, <1>8, <1>12, <2>2 DEF HandInv, PlaceInv
<1>21. FileInv' /\ LaidInv(t, f)'
  BY <1>3, <1>7, <1>8, <1>14 DEF HandInv, FileInv, LaidInv
<1>22. HandInv(Taker, Giver)'
  BY <1>3, <1>15, <1>16, <1>17, <1>18, <1>19, <1>20, <1>21 DEF HandInv, t, f
<1>23. WaitInv'  BY <1>5, <1>8 DEF WaitInv
<1>24. DownInv'  BY <1>2, <1>5, <1>6, <1>7, <1>8, <1>14 DEF OrderInv, DownInv
<1>25. LeaveInv' /\ ShellInv'
  <2>1. Main \in Windows /\ Other \in Windows  BY DEF Windows
  <2>2. win = "leaving" => saves'[Other] = saves[Other]  BY <1>5, <1>6, <1>7, <1>14
  <2> QED BY <1>2, <1>8, <1>12, <2>1, <2>2 DEF OrderInv, LeaveInv, ShellInv
<1> QED BY <1>22, <1>23, <1>24, <1>25 DEF OrderInv

\* A list that lands: what its window draws, and nothing the other holds.
LEMMA OrderLands ==
  ASSUME Typed, WindowInv, OrderInv, NEW w \in Windows, SaveLands(w), Orderly'
  PROVE  OrderInv'
<1> DEFINE t == Taker
           f == Giver
           list == Lists(w)
<1>1. /\ saves[w] # <<>> /\ layout' = Merged(layout, Head(saves[w]), w)
      /\ saves' = [saves EXCEPT ![w] = Tail(@)]
      /\ memo' = IF Alive(w) THEN [memo EXCEPT ![w] = Head(saves[w])] ELSE memo
      /\ UNCHANGED <<backend, window, frontend, fresh, bounds>>
  BY DEF SaveLands
<1>2. Orderly  BY <1>1, OrderlyBefore DEF bounds
<1>3. Pair(t, f) /\ Windows = {t, f} /\ HandInv(t, f) /\ t' = t /\ f' = f
  BY <1>1, <1>2, SidesPair, PairIsAll DEF OrderInv, Taker, Giver, window
<1>4. saves[w] = <<Lists(w)>>  BY <1>1, <1>3 DEF HandInv, SaveInv
<1>5. w = Main \/ (w = Other /\ win \notin {"down", "built", "listening"})
  BY <1>1, <1>2 DEF OrderInv, DownInv, Windows
<1>6. Alive(w)  BY <1>5 DEF Alive
<1>7. Main # Other /\ Main \in Windows /\ Other \in Windows  BY LabelsAssumption DEF Windows
<1>29. f \in ears \/ tiles[f] = {} \/ (f = Other /\ saves[Other] = <<>>)
  <2>1. win = "leaving" => f = Other  BY DEF Giver
  <2>2. win = "leaving" /\ Other \notin ears => saves[Other] = <<>>
    BY <1>2 DEF OrderInv, LeaveInv
  <2> QED BY <1>2, <2>1, <2>2, GiverHears
<1> HIDE DEF t, f, list
<1>8. t \in Windows /\ f \in Windows /\ t # f  BY <1>3 DEF Pair
<1>9. UNCHANGED <<owner, sink, running, ready, win, opening, tiles, mail, job, claim, mode, ears, stranded>>
  BY <1>1 DEF backend, window, frontend, bounds
<1>10. Head(saves[w]) = list /\ Tail(saves[w]) = <<>>  BY <1>4 DEF list
<1>11. /\ saves'[w] = <<>> /\ memo'[w] = list
       /\ \A x \in Windows : x # w => saves'[x] = saves[x] /\ memo'[x] = memo[x]
  BY <1>1, <1>6, <1>10 DEF Typed, DiskType
<1>12. \A x \in Windows : Coming(x)' = Coming(x) /\ Told(x)' = Told(x) /\ Claimed(x)' = Claimed(x)
  BY <1>9 DEF Coming, Told, Claimed
<1>13. \A x \in Windows : Lists(x)' = Lists(x)  BY <1>9, <1>12 DEF Lists, Saved
<1>14. SaveInv'
  <2>1. memo'[w] = Lists(w)'  BY <1>11, <1>13 DEF list
  <2> QED BY <1>3, <1>11, <1>13, <2>1 DEF HandInv, SaveInv
<1>15. \A x \in Windows : saves[x] = <<>> => saves'[x] = <<>>  BY <1>11
<1>16. SidesInv(t, f)' /\ ComingInv(t, f)'
  BY <1>3, <1>8, <1>9, <1>12, <1>15 DEF HandInv, SidesInv, ComingInv
<1>17. ClaimInv(t, f)' /\ ToldInv(t, f)'
  BY <1>3, <1>8, <1>9, <1>12, <1>15 DEF HandInv, ClaimInv, ToldInv
<1>18. PlaceInv(t, f)'
  BY <1>3, <1>8, <1>9, <1>12 DEF HandInv, PlaceInv
<1>19. layout' = {e \in layout : e[2] # w /\ e[1] \notin list} \cup {<<x, w>> : x \in list}
  BY <1>1, <1>10 DEF Merged
<1>20. list \cap Commands = {} /\ list \subseteq tiles[w] /\ tiles[w] \ (Claimed(w) \cup Commands) \subseteq list
  BY DEF list, Lists, Saved
<1>21. FileInv'
  <2>1. layout \subseteq Known \X Windows  BY DEF Typed, DiskType
  <2>2. \A e \in layout' : (e \in layout /\ e[1] \notin list) \/ (\E x \in list : e = <<x, w>>)
    BY <1>19
  <2>3. \A e \in layout' : e[1] \notin Commands
    BY <1>3, <1>20, <2>2 DEF HandInv, FileInv
  <2>4. \A e, g \in layout' : e[1] = g[1] => e = g
    BY <1>3, <2>2 DEF HandInv, FileInv
  <2> QED BY <2>3, <2>4 DEF FileInv
<1>22. \A x, y : <<x, y>> \in layout /\ y # w /\ x \notin list => <<x, y>> \in layout'
  BY <1>19
<1>23. \A x \in list : <<x, w>> \in layout'  BY <1>19
<1>24. LaidInv(t, f)'
  <2>1. CASE w = t
    <3>1. Claimed(t) = {}
      BY <1>1, <1>3, <2>1 DEF HandInv, ClaimInv
    <3>2. \A x \in tiles[t] \ Commands : <<x, t>> \in layout'
      BY <1>20, <1>23, <2>1, <3>1
    <3>3. \A x \in tiles[f] \ (tiles[t] \cup Commands) : saves[f] = <<>> => <<x, f>> \in layout'
      BY <1>3, <1>8, <1>20, <1>22, <2>1 DEF HandInv, LaidInv
    <3> QED BY <1>3, <1>8, <1>9, <1>11, <2>1, <3>2, <3>3 DEF LaidInv
  <2>2. CASE w = f
    <3>1. Claimed(f) = {}  BY <1>3 DEF HandInv, SidesInv
    <3>2. \A x \in tiles[f] \ Commands : <<x, f>> \in layout'
      BY <1>20, <1>23, <2>2, <3>1
    <3>3. ASSUME NEW x \in tiles[t] \ (Claimed(t) \cup Commands), saves[t] = <<>>
          PROVE  <<x, t>> \in layout'
      <4>1. <<x, t>> \in layout  BY <1>3, <3>3 DEF HandInv, LaidInv
      <4>2. x \notin tiles[f]
        BY <1>1, <1>3, <1>29, <2>2 DEF HandInv, PlaceInv, ToldInv
      <4> QED BY <1>8, <1>20, <1>22, <2>2, <4>1, <4>2
    <3> QED BY <1>3, <1>8, <1>9, <1>11, <1>12, <2>2, <3>2, <3>3 DEF LaidInv
  <2> QED BY <1>3, <2>1, <2>2
<1>25. HandInv(Taker, Giver)'
  BY <1>3, <1>14, <1>16, <1>17, <1>18, <1>21, <1>24 DEF HandInv, t, f
<1>26. WaitInv'
  <2>1. opening => NoTransit /\ saves'[Main] = <<>> /\ (Other \in ready => saves'[Other] = <<>>)
    <3>1. Other \in Windows  BY DEF Windows
    <3> QED BY <1>2, <1>7, <1>15, <3>1 DEF OrderInv, WaitInv
  <2>2. NoTransit => NoTransit'  BY <1>12 DEF NoTransit
  <2> QED BY <1>9, <2>1, <2>2 DEF WaitInv
<1>27. DownInv'
  <2>1. CASE w = Main
    <3>1. Other \in Windows  BY DEF Windows
    <3> QED BY <1>2, <1>7, <1>9, <1>11, <2>1, <3>1 DEF OrderInv, DownInv
  <2>2. CASE w = Other  BY <1>5, <1>7, <1>9, <2>2 DEF DownInv
  <2> QED BY <1>5, <2>1, <2>2
<1>28. LeaveInv' /\ ShellInv'
  BY <1>2, <1>7, <1>9, <1>12, <1>15 DEF OrderInv, LeaveInv, ShellInv
<1> QED BY <1>25, <1>26, <1>27, <1>28 DEF OrderInv
\* The window that is destroyed drew only what its heir takes.
LEMMA OrderDestroyed ==
  ASSUME Typed, WindowInv, OrderInv, Destroyed, Orderly'
  PROVE  OrderInv'
<1>1. /\ win = "leaving" /\ saves[Other] = <<>> /\ win' = "down"
      /\ owner' = [s \in Sessions |-> IF owner[s] = Other THEN Nobody ELSE owner[s]]
      /\ tiles' = [tiles EXCEPT ![Other] = {}] /\ job' = [job EXCEPT ![Other] = {}]
      /\ memo' = [memo EXCEPT ![Other] = {}] /\ mail' = [mail EXCEPT ![Other] = <<>>]
      /\ UNCHANGED <<sink, running, opening, claim, saves, layout, fresh, mode, stranded>>
  BY DEF Destroyed, Gone, Served, bounds
<1>2. Orderly  BY <1>1, OrderlyBefore
<1>3. Main \in Windows /\ Other \in Windows /\ Main # Other /\ Windows = {Main, Other}
  BY LabelsAssumption DEF Windows
<1>4. HandInv(Main, Other) /\ Taker' = Main /\ Giver' = Other
  BY <1>1, <1>2 DEF OrderInv, Taker, Giver
<1>5. ~ opening  BY <1>1, <1>2 DEF WindowInv, Orderly
<1>6. /\ tiles'[Other] = {} /\ tiles'[Main] = tiles[Main]
      /\ job'[Other] = {} /\ job'[Main] = job[Main]
      /\ memo'[Other] = {} /\ memo'[Main] = memo[Main]
      /\ mail'[Other] = <<>> /\ mail'[Main] = mail[Main]
  BY <1>1, <1>3 DEF Typed, PictureType, DiskType, MailType
<1>7. /\ Coming(Main)' = Coming(Main) /\ Told(Main)' = Told(Main)
      /\ Coming(Other)' = {} /\ Told(Other)' = {}
      /\ Claimed(Main)' = Claimed(Main) /\ Claimed(Other)' = {}
  BY <1>1, <1>4, <1>6, MailEmpty DEF Coming, Told, Claimed, HandInv, SidesInv
<1>8. Lists(Main)' = Lists(Main) /\ Lists(Other)' = {}  BY <1>6, <1>7 DEF Lists, Saved
<1>9. \A s \in Sessions : owner[s] = Main => owner'[s] = Main  BY <1>1, <1>3
<1>10. tiles[Main] \subseteq Sessions  BY <1>3 DEF Typed, PictureType, Known
<1>11. SidesInv(Main, Other)'
  BY <1>3, <1>4, <1>6, <1>7, MailEmpty DEF HandInv, SidesInv
<1>12. ComingInv(Main, Other)' /\ ToldInv(Main, Other)'
  BY <1>1, <1>4, <1>6, <1>7 DEF HandInv, ComingInv, ToldInv
<1>13. ClaimInv(Main, Other)'
  BY <1>1, <1>4, <1>6, <1>7, <1>9, <1>10 DEF HandInv, ClaimInv
<1>14. PlaceInv(Main, Other)'
  <2>1. tiles[Other] \ Commands \subseteq tiles[Main] \cup Coming(Main) \cup stranded
    BY <1>1, <1>2 DEF OrderInv, LeaveInv
  <2>2. running \ Commands \subseteq tiles[Main] \cup Coming(Main) \cup stranded
    BY <1>4, <2>1 DEF HandInv, PlaceInv
  <2> QED BY <1>1, <1>4, <1>6, <1>7, <1>9, <1>10, <2>2 DEF HandInv, PlaceInv
<1>15. SaveInv'
  BY <1>1, <1>3, <1>4, <1>6, <1>8 DEF HandInv, SaveInv
<1>16. FileInv' /\ LaidInv(Main, Other)'
  BY <1>1, <1>4, <1>6, <1>7 DEF HandInv, FileInv, LaidInv
<1>17. HandInv(Main, Other)'
  BY <1>11, <1>12, <1>13, <1>14, <1>15, <1>16 DEF HandInv
<1>18. HandInv(Taker, Giver)'  BY <1>4, <1>17
<1>19. WaitInv' /\ DownInv' /\ LeaveInv'
  BY <1>1, <1>5, <1>6 DEF WaitInv, DownInv, LeaveInv
<1>20. ShellInv'  BY <1>1, <1>2, <1>6 DEF OrderInv, ShellInv
<1> QED BY <1>18, <1>19, <1>20 DEF OrderInv

LEMMA OrderSame ==
  ASSUME OrderInv, Orderly', UNCHANGED vars
  PROVE  OrderInv'
<1>1. /\ UNCHANGED <<owner, sink, running, tiles, claim, saves, memo, layout, mode, window, stranded>>
      /\ mail' = mail /\ job' = job /\ fresh' = fresh
  BY DEF vars, backend, window, frontend, disk, bounds
<1>2. Orderly  BY <1>1, OrderlyBefore
<1>3. \A w \in Windows : Coming(w)' = Coming(w) /\ Told(w)' = Told(w) /\ Agreed(mail'[w], Taker)
  BY <1>1, <1>2 DEF Coming, Told, OrderInv, HandInv, SidesInv
<1> QED BY <1>1, <1>2, <1>3, OrderKept

LEMMA OrderNext == Typed /\ WindowInv /\ OrderInv /\ [Next]_vars => OrderInv'
<1> SUFFICES ASSUME Typed, WindowInv, OrderInv, [Next]_vars, Orderly' PROVE OrderInv'
  BY DEF OrderInv
<1>1. Typed'  BY TypedNext
<1>2. CASE UNCHANGED vars  BY <1>2, OrderSame
<1>3. CASE DetachNew \/ Listen \/ Announce  BY <1>1, <1>3, OrderOpening
<1>4. CASE Boot  BY <1>1, <1>4, OrderBoot
<1>5. CASE DetachExisting \/ OpenReturns \/ HandBack  BY <1>1, <1>5, OrderHandsOver
<1>6. CASE OpenTimesOut  BY <1>1, <1>6, OrderTimesOut
<1>7. CASE Destroyed  BY <1>7, OrderDestroyed
<1>8. CASE Quit  BY <1>1, <1>8, OrderQuit
<1>9. ASSUME NEW w \in Windows, Receive(w) PROVE OrderInv'  BY <1>9, OrderReceive
<1>10. ASSUME NEW w \in Windows, SaveLands(w) PROVE OrderInv'  BY <1>10, OrderLands
<1>11. ASSUME NEW w \in Windows, Rename(w) PROVE FALSE
  BY <1>11 DEF Rename, Orderly
<1>12. ASSUME NEW s \in Sessions, Exit(s) PROVE OrderInv'  BY <1>12, OrderExit
<1>13. ASSUME NEW w \in Windows, NEW s \in Sessions, TakeTile(w, s) PROVE OrderInv'
  BY <1>13, OrderTakes
<1>14. ASSUME NEW w \in Windows, NEW s \in Sessions, ClaimRetargets(w, s) PROVE OrderInv'
  BY <1>14, OrderRetargets
<1>15. ASSUME NEW w \in Windows, NEW s \in Sessions, ClaimRecords(w, s) PROVE OrderInv'
  BY <1>15, OrderRecords
<1>16. ASSUME NEW w \in Windows, NEW s \in Sessions, ClaimReturns(w, s) PROVE OrderInv'
  BY <1>16, OrderReturns
<1>17. ASSUME NEW w \in Windows, NEW s \in Sessions, Start(w, s) PROVE OrderInv'
  BY <1>1, <1>17, OrderStart
<1>18. ASSUME NEW w \in Windows, NEW s \in Sessions, CloseTile(w, s) PROVE OrderInv'
  BY <1>1, <1>18, OrderClose
<1> QED
  BY <1>2, <1>3, <1>4, <1>5, <1>6, <1>7, <1>8, <1>9, <1>10, <1>11, <1>12, <1>13, <1>14, <1>15,
     <1>16, <1>17, <1>18 DEF Next, HandOff

LEMMA OrderAlways == Spec => [](Typed /\ WindowInv /\ OrderInv)
BY TypedInit, TypedNext, WindowInit, WindowNext, OrderInit, OrderNext, PTL DEF Spec

\* When a hand-off has settled, a session that runs has one window that draws
\* it, may write to it and gets its output (app.ts, detachWorkspace and
\* onCloseRequested; commands.rs, claim_session).
THEOREM OrderlyIsHeldAlways == Spec => []OrderlyIsHeld
<1>1. Typed /\ WindowInv /\ OrderInv => OrderlyIsHeld  BY InvHeld
<1> QED BY <1>1, OrderAlways, PTL

\* A window that draws a session it may not write to is claiming it, or the
\* event that takes the tile away is on its way (ownership.rs; sessions.ts,
\* releaseTile).
THEOREM StaleIsToldAlways == Spec => []StaleIsTold
<1>1. Typed /\ WindowInv /\ OrderInv => StaleIsTold  BY InvTold
<1> QED BY <1>1, OrderAlways, PTL

\* The saves of two windows leave the file naming the window that holds an
\* agent (sessions.ts, persistLayout; store.rs, merge_layout).
THEOREM OrderlyLayoutAlways == Spec => []OrderlyLayout
<1>1. Typed /\ WindowInv /\ OrderInv => OrderlyLayout  BY InvLaid
<1> QED BY <1>1, OrderAlways, PTL
=============================================================================
