--------------------------- MODULE MCSessionRuns ---------------------------
(***************************************************************************)
(* Instances of SessionRuns for TLC: which scenario a session runs.        *)
(***************************************************************************)
EXTENDS SessionRuns, TLC

CONSTANT k1, k2

OneScenario == [s \in Sessions |-> k1]
EachItsOwn  == CHOOSE f \in [Sessions -> {k1, k2}] : \A s, t \in Sessions : s # t => f[s] # f[t]

\* A launch is only ever a fresh name; no run that uses this checks liveness.
Renamed == Permutations(Launches)

=============================================================================
