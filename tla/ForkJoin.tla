------------------------------ MODULE ForkJoin ------------------------------
(***************************************************************************)
(* What parallel_training promises its caller, without its mechanism: in   *)
(* every round a process starts at most one child per rank, children run   *)
(* concurrently, and the round is over only when no child is running.      *)
(* Whatever comes after the round therefore has the memory for itself.     *)
(***************************************************************************)
EXTENDS Naturals

CONSTANTS Ranks, Rounds     \* Rounds: the number of rounds the caller asks for

VARIABLES
    mode,                   \* "open", "closed" or "stopped"
    round,                  \* rounds completed
    started,                \* ranks started in this round
    running                 \* ranks whose child is still running

vars == <<mode, round, started, running>>

Init == /\ mode = "open"
        /\ round = 0
        /\ started = {}
        /\ running = {}

Start(r) == /\ mode = "open"
            /\ r \notin started
            /\ started' = started \cup {r}
            /\ running' = running \cup {r}
            /\ UNCHANGED <<mode, round>>

End(r) == /\ r \in running
          /\ running' = running \ {r}
          /\ UNCHANGED <<mode, round, started>>

\* The round closes: every rank was started and none is running any more.
Join == /\ mode = "open"
        /\ started = Ranks
        /\ running = {}
        /\ mode' = "closed"
        /\ UNCHANGED <<round, started, running>>

\* The caller works alone, then opens the next round or stops.
NextRound == /\ mode = "closed"
             /\ round' = round + 1
             /\ mode' = IF round' \in Rounds THEN "open" ELSE "stopped"
             /\ started' = {}
             /\ UNCHANGED running

\* The caller may give up in the middle of a round; its children go on.
Abandon == /\ mode = "open"
           /\ mode' = "stopped"
           /\ UNCHANGED <<round, started, running>>

Next == \/ \E r \in Ranks : Start(r) \/ End(r)
        \/ Join
        \/ NextRound
        \/ Abandon

Spec == Init /\ [][Next]_vars

-----------------------------------------------------------------------------
\* The caller works alone: between two rounds no child is running.
CallerAlone == mode = "closed" => running = {}
=============================================================================
