----------------------------- MODULE MCRunFile -----------------------------
(* Three runs of one scenario, of which compaction keeps two, and one of
   another, in two workspaces; two detached writers beside the main thread
   and the listener, or one thread and every operation. *)
EXTENDS RunFile, TLC

CONSTANTS r1, r2, r3, k1, k2, w1, p1, p2, c1, c2

ScenarioOfRun == (r1 :> k1) @@ (r2 :> k1) @@ (r3 :> k2)
WorkspaceOfRun == (r1 :> w1) @@ (r2 :> NoWorkspace) @@ (r3 :> w1)

Writers == [runs |-> {r1, r2}, closers |-> 2, notes |-> 1, erasures |-> 0, full |-> 0]
Clears == [runs |-> {r1, r2}, closers |-> 1, notes |-> 2, erasures |-> 0, full |-> 0]
Erases == [runs |-> {r1, r2, r3}, closers |-> 0, notes |-> 0, erasures |-> 1, full |-> 0]
FillsUp == [runs |-> {r1, r2}, closers |-> 0, notes |-> 0, erasures |-> 0, full |-> 1]
FillsAndCloses == [runs |-> {r1, r2}, closers |-> 1, notes |-> 0, erasures |-> 0, full |-> 1]
Each == {Writers, Clears, Erases, FillsUp}
One == {FillsAndCloses}

Ascii == {Torn}
AnyText == {Torn, Split}
=============================================================================
