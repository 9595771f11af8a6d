------------------------------ MODULE ForgeGit ------------------------------
(***************************************************************************)
(* The forge's git backend over one bare repository, as operators on its   *)
(* commits.  A commit is its place in the object store `log`: what it can  *)
(* reach, itself included, and the changes its tree holds.  Two changes    *)
(* that touch the same lines clash: git cannot merge a side that has one   *)
(* with a side that has the other.                                         *)
(***************************************************************************)
EXTENDS Integers, Sequences, FiniteSets

CONSTANTS
    Changes,    \* edits of the tree
    Clashing    \* pairs of changes git cannot merge

ASSUME ClashingAssumption == Clashing \subseteq Changes \X Changes

NoCommit == 0       \* a branch that is not there, a sha that is not given

Commits(log) == 1..Len(log)
Line(log, c) == log[c].line
Holds(log, c) == log[c].holds

(* A commit of a log: what it reaches and what its tree holds.             *)
CommitRow(n) == [line : SUBSET (1..n), holds : SUBSET Changes]

(* A new commit over the lines of its parents.                             *)
Committed(log, line, holds) == Append(log, [line |-> line \cup {Len(log) + 1}, holds |-> holds])

-----------------------------------------------------------------------------
(* Is `a` reachable from `d`?                                              *)
IsAncestor(log, a, d) == a \in Line(log, d)

(* Does merge-tree find no clash between what each side has of its own?    *)
IsMergeable(log, base, head) ==
    \A x \in Holds(log, base) \ Holds(log, head), y \in Holds(log, head) \ Holds(log, base) :
        <<x, y>> \notin Clashing /\ <<y, x>> \notin Clashing

(* merge --no-ff in a worktree attached to the base: a head the base       *)
(* already holds makes no commit.                                          *)
Merge(log, base, head) ==
    IF IsAncestor(log, head, base) THEN log
    ELSE Committed(log, Line(log, base) \cup Line(log, head), Holds(log, base) \cup Holds(log, head))

(* merge --squash and commit --allow-empty: always a commit, and its only  *)
(* parent is the base's tip.                                               *)
Squash(log, base, head) == Committed(log, Line(log, base), Holds(log, base) \cup Holds(log, head))

(* rebase --force-rebase in a detached worktree: what the base has already *)
(* is dropped, the rest is replayed as new commits (one here).             *)
Rebase(log, base, head) ==
    IF Holds(log, head) \subseteq Holds(log, base) THEN log
    ELSE Committed(log, Line(log, base), Holds(log, base) \cup Holds(log, head))

(* Where the worktree's HEAD is afterwards.                                *)
TipAfter(log, base, grown) == IF Len(grown) > Len(log) THEN Len(grown) ELSE base
=============================================================================
