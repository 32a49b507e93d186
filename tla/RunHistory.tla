----------------------------- MODULE RunHistory -----------------------------
(***************************************************************************)
(* What the run journal promises: a list of records, each of which begins  *)
(* once, learns where its transcript is, ends once, and goes only by age   *)
(* or when the history of its scenario is erased.  Nothing that happens    *)
(* to the file shows.                                                      *)
(***************************************************************************)
EXTENDS RunLines

VARIABLE history

Init == history = <<>>

Begin(r) == r \notin RunsIn(history) /\ history' = Append(history, Opened(r))

Note(r) == \E p \in Paths, c \in BOOLEAN : history' = Noted(history, r, p, c)

End(r) == \E s \in Outcomes : history' = Ended(history, r, s)

Prune == history' = Recent(history)

Erase(k, w) == ~ HasRunning(history, k, w) /\ history' = Without(history, k, w)

Next ==
  \/ \E r \in Runs : Begin(r) \/ Note(r) \/ End(r)
  \/ Prune
  \/ \E k \in Scenarios, w \in Workspaces \cup {NoWorkspace} : Erase(k, w)

Spec == Init /\ [][Next]_history
=============================================================================
