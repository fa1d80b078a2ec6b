---------------------------- MODULE RebuildStorm ----------------------------
(***************************************************************************)
(* DriftRestart with a history: how often the process of a watcher has      *)
(* rebuilt the head its backoff is at.                                      *)
(***************************************************************************)
EXTENDS MCDriftRestart

VARIABLE tries

\* A tick has started a rebuild; the count stops one past the limit.
Counts(w) ==
  IF pc[w] = "idle" /\ pc'[w] = "materialize"
  THEN IF backoff[w].head # head THEN 1
       ELSE IF tries[w] <= MaxAttempts THEN tries[w] + 1 ELSE tries[w]
  ELSE IF backoff'[w].head # backoff[w].head THEN 0 ELSE tries[w]

StormInit == Init /\ tries = [w \in Watchers |-> 0]
StormNext == Next /\ tries' = [w \in Watchers |-> Counts(w)]
StormSpec == StormInit /\ [][StormNext]_<<vars, tries>>

\* The guard against retry storms: "permanently blocks further attempts once
\* MaxAttempts is reached" (RebuildBackoff), so one process rebuilds one head
\* at most MaxAttempts times.
AttemptsAreCapped == \A w \in Watchers : tries[w] <= MaxAttempts
=============================================================================
