----------------------------- MODULE MCHandover -----------------------------
(* Two agents and a shell command, of one workspace and two windows. *)
EXTENDS Handover

CONSTANTS a1, a2, c1

Calm == [hasty |-> FALSE, renames |-> FALSE, agents |-> TRUE, ends |-> FALSE,
         prompt |-> FALSE, starts |-> {c1}, deaf |-> {Other}]
Prompted == [Calm EXCEPT !.prompt = TRUE, !.starts = Sessions]
Naming == [Calm EXCEPT !.renames = TRUE]
Shells == [Calm EXCEPT !.agents = FALSE]
Ending == [Calm EXCEPT !.ends = TRUE]
Two == [Calm EXCEPT !.starts = Sessions]
Chaos == [Calm EXCEPT !.hasty = TRUE, !.starts = {}]

Each == {Calm, Prompted, Naming, Shells, Ending, Two, Chaos}
OnlyTwo == {Two}
OnlyShells == {Shells}
OnlyEnding == {Ending}
OnlyHasty == {Chaos}
OnlyDeaf == {[Calm EXCEPT !.deaf = {Main}]}
=============================================================================
