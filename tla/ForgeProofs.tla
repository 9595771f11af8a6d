----------------------------- MODULE ForgeProofs -----------------------------
(* Proofs about Forge: a closed pull is always served, an unmerged open one  *)
(* has its head, the merge state a pull is served with is true, and what the *)
(* forge commits on a branch builds on it.  For any branches, pulls, levers  *)
(* and requests in flight.                                                   *)
(*                                                                           *)
(* And, from "The desk" on, about what every request passes first            *)
(* (ForgeDesk): a budget for every token binds every window, a lever refuses *)
(* as many requests as it was armed for, and issues and pulls share one      *)
(* numbering, for any credentials, limits, spans and bounds.                 *)
EXTENDS Forge, ForgeDesk, FiniteSetTheorems, TLAPS

(* A closed pull was frozen: it keeps the head and the base it closed with.  *)
Frozen == \A n \in DOMAIN pulls : ~pulls[n].open => pulls[n].closed_head # NoCommit /\ pulls[n].base_pinned

(* A landing is about a pull there is, and one that replayed or landed has a *)
(* commit to set the base to.                                                *)
Grounded ==
    \A t \in Threads :
        /\ flight[t].op \in {"checked", "replayed", "landed"} => flight[t].n \in DOMAIN pulls
        /\ flight[t].op \in {"replayed", "landed"} => flight[t].tip \in Commits(log)

(* A commit reaches itself, and nothing made after it.                       *)
Lined(commits) == \A c \in Commits(commits) : c \in Line(commits, c) /\ Line(commits, c) \subseteq 1 .. c

(* One request seeds the repository, and nothing is in it before.            *)
Blank == refs = [b \in Branches |-> NoCommit] /\ log = <<>> /\ pulls = <<>> /\ checks = <<>>
SeededOnce ==
    /\ made # "served" => Blank
    /\ \A t \in Threads : flight[t].op = "create" => made = "claimed"
    /\ \A t, u \in Threads : flight[t].op = "create" /\ flight[u].op = "create" => t = u

ForgeInv == TypeOK /\ Lined(log) /\ SeededOnce /\ Grounded /\ Frozen /\ OpenHeadsExist

-----------------------------------------------------------------------------
(* Commits                                                                   *)

(* What git may have made of a repository: one more commit, or none.         *)
Grows(old, grown) ==
    /\ grown \in Seq(CommitRow(MaxCommits)) /\ Lined(grown)
    /\ Len(grown) \in {Len(old), Len(old) + 1}
    /\ \A c \in Commits(old) : grown[c] = old[c]

(* A commit over the lines of commits there are.                            *)
LEMMA CommitGrows ==
    ASSUME NEW old \in Seq(CommitRow(MaxCommits)), Lined(old), Len(old) < MaxCommits,
           NEW line \in SUBSET Commits(old), NEW holds \in SUBSET Changes
    PROVE  LET grown == Committed(old, line, holds)
           IN  /\ Grows(old, grown) /\ Len(grown) = Len(old) + 1
               /\ Line(grown, Len(old) + 1) = line \cup {Len(old) + 1}
<1> DEFINE k == Len(old) + 1
           row == [line |-> line \cup {k}, holds |-> holds]
           grown == Append(old, row)
<1>1. MaxCommits \in Nat /\ Len(old) \in Nat BY ForgeAssumption
<1>11. \A i \in line : i \in Nat /\ 1 <= i /\ i <= Len(old) BY <1>1 DEF Commits
<1>2. row \in CommitRow(MaxCommits) /\ row.line = line \cup {k}
  <2>1. line \cup {k} \subseteq 1 .. MaxCommits BY <1>1, <1>11
  <2>2. QED BY <2>1 DEF CommitRow
<1>22. line \cup {k} \subseteq 1 .. k /\ k \in Nat BY <1>1, <1>11
<1>3. /\ grown \in Seq(CommitRow(MaxCommits)) /\ Len(grown) = k /\ grown[k] = row
      /\ \A c \in Commits(old) : grown[c] = old[c]
  BY <1>1, <1>2 DEF Commits
<1>4. grown = Committed(old, line, holds) BY DEF Committed
<1> HIDE DEF grown, row, k
<1>44. k = Len(old) + 1 BY DEF k
<1>5. ASSUME NEW c \in Commits(grown) PROVE c \in Line(grown, c) /\ Line(grown, c) \subseteq 1 .. c
  <2>1. CASE c = k BY <1>2, <1>22, <1>3, <2>1 DEF Line
  <2>2. CASE c # k
    <3>1. c \in Commits(old) BY <1>1, <1>3, <1>44, <1>5, <2>2 DEF Commits
    <3>2. QED BY <1>3, <3>1 DEF Line, Lined
  <2>3. QED BY <2>1, <2>2
<1>6. QED BY <1>1, <1>2, <1>3, <1>4, <1>44, <1>5 DEF Grows, Lined, Line

(* What the backend makes of two commits grows the repository, and where its *)
(* worktree stands afterwards has the base in its line.                      *)
LEMMA GitGrows ==
    ASSUME NEW old \in Seq(CommitRow(MaxCommits)), Lined(old), Len(old) < MaxCommits,
           NEW base \in Commits(old), NEW head \in Commits(old),
           NEW grown \in {Merge(old, base, head), Squash(old, base, head), Rebase(old, base, head)}
    PROVE  /\ Grows(old, grown) /\ TipAfter(old, base, grown) \in Commits(grown)
           /\ IsAncestor(grown, base, TipAfter(old, base, grown))
<1>1. Len(old) \in Nat /\ base \in 1 .. Len(old) /\ head \in 1 .. Len(old) BY DEF Commits
<1>2. /\ Line(old, base) \in SUBSET Commits(old) /\ Line(old, head) \in SUBSET Commits(old)
      /\ Holds(old, base) \in SUBSET Changes /\ Holds(old, head) \in SUBSET Changes
      /\ base \in Line(old, base)
  <2>1. \A c \in {base, head} : /\ c \in Line(old, c) /\ Line(old, c) \subseteq 1 .. c /\ old[c] \in CommitRow(MaxCommits)
                                /\ 1 .. c \subseteq 1 .. Len(old)
    BY <1>1 DEF Lined, Commits
  <2>2. QED BY <2>1 DEF Commits, Holds, CommitRow
<1>3. CASE grown = old
  <2>1. Grows(old, grown) BY <1>1, <1>3 DEF Grows
  <2>2. TipAfter(old, base, grown) = base BY <1>1, <1>3 DEF TipAfter
  <2>3. QED BY <1>2, <1>3, <2>1, <2>2 DEF IsAncestor
<1>4. ASSUME NEW line \in SUBSET Commits(old), NEW holds \in SUBSET Changes, base \in line,
             grown = Committed(old, line, holds)
      PROVE  /\ Grows(old, grown) /\ TipAfter(old, base, grown) \in Commits(grown)
             /\ IsAncestor(grown, base, TipAfter(old, base, grown))
  <2>1. /\ Grows(old, grown) /\ Len(grown) = Len(old) + 1
        /\ Line(grown, Len(old) + 1) = line \cup {Len(old) + 1}
    BY <1>4, CommitGrows
  <2>2. TipAfter(old, base, grown) = Len(old) + 1 BY <1>1, <2>1 DEF TipAfter
  <2>3. QED BY <1>1, <1>4, <2>1, <2>2 DEF IsAncestor, Commits
<1> DEFINE both == Line(old, base) \cup Line(old, head)
           trees == Holds(old, base) \cup Holds(old, head)
<1>45. both \in SUBSET Commits(old) /\ base \in both /\ trees \in SUBSET Changes BY <1>2
<1>5. CASE grown = Merge(old, base, head)
  <2>1. CASE IsAncestor(old, head, base) BY <1>3, <1>5, <2>1 DEF Merge
  <2>2. CASE ~IsAncestor(old, head, base)
    <3>1. grown = Committed(old, both, trees) BY <1>5, <2>2 DEF Merge
    <3> HIDE DEF both, trees
    <3>2. QED BY <1>4, <1>45, <3>1
  <2>3. QED BY <2>1, <2>2
<1>6. CASE grown = Squash(old, base, head) BY <1>2, <1>3, <1>4, <1>6 DEF Squash
<1>7. CASE grown = Rebase(old, base, head) BY <1>2, <1>3, <1>4, <1>7 DEF Rebase
<1>8. QED BY <1>5, <1>6, <1>7

-----------------------------------------------------------------------------
(* The repository                                                            *)

(* The repository grows or stays, and every branch is at a commit of it.     *)
Stored ==
    /\ log' \in Seq(CommitRow(MaxCommits)) /\ Lined(log')
    /\ Len(log') <= MaxCommits /\ Commits(log) \subseteq Commits(log')
    /\ refs' \in [Branches -> {NoCommit} \cup Commits(log')]

(* One more commit is within the bound.                                     *)
LEMMA GrowsStored ==
    ASSUME TypeOK, Len(log) < MaxCommits, Grows(log, log'),
           refs' \in [Branches -> {NoCommit} \cup Commits(log')]
    PROVE  Stored
<1>1. log \in Seq(CommitRow(MaxCommits)) BY DEF TypeOK
<1>2. PICK k : k = Len(log) OBVIOUS
<1>3. PICK l : l = Len(log') OBVIOUS
<1>4. k \in Nat /\ l \in {k, k + 1} /\ k < MaxCommits BY <1>1, <1>2, <1>3 DEF Grows
<1>5. l <= MaxCommits /\ 1 .. k \subseteq 1 .. l BY <1>4, ForgeAssumption
<1>6. QED BY <1>2, <1>3, <1>5 DEF Grows, Stored, Commits

(* A step that leaves the commits alone moves branches to commits there are. *)
LEMMA SameStored ==
    ASSUME TypeOK, Lined(log), log' = log, refs' \in [Branches -> {NoCommit} \cup Commits(log)]
    PROVE  Stored
BY DEF TypeOK, Stored

(* A branch at a commit, and the rest where it was.                         *)
LEMMA RefSet ==
    ASSUME TypeOK, NEW S, Commits(log) \subseteq S, NEW b \in Branches, NEW c \in S
    PROVE  [refs EXCEPT ![b] = c] \in [Branches -> {NoCommit} \cup S]
BY DEF TypeOK

(* A request that git serves grows the repository and moves one branch to   *)
(* what came of it.                                                          *)
LEMMA GitStored ==
    ASSUME ForgeInv, NEW base \in Commits(log), NEW head \in Commits(log), Len(log) < MaxCommits,
           log' \in {Merge(log, base, head), Squash(log, base, head), Rebase(log, base, head)},
           NEW b \in Branches, refs' \in {refs, [refs EXCEPT ![b] = TipAfter(log, base, log')]}
    PROVE  /\ Stored /\ TipAfter(log, base, log') \in Commits(log')
           /\ IsAncestor(log', base, TipAfter(log, base, log'))
<1>1. PICK old, grown : old = log /\ grown = log' OBVIOUS
<1>2. old \in Seq(CommitRow(MaxCommits)) /\ Lined(old) BY <1>1 DEF ForgeInv, TypeOK
<1>3. /\ Grows(old, grown) /\ TipAfter(old, base, grown) \in Commits(grown)
      /\ IsAncestor(grown, base, TipAfter(old, base, grown))
  BY <1>1, <1>2, GitGrows
<1>4. /\ Grows(log, log') /\ TipAfter(log, base, log') \in Commits(log')
      /\ IsAncestor(log', base, TipAfter(log, base, log'))
  BY <1>1, <1>3
<1>5. Commits(log) \subseteq Commits(log')
  <2>1. PICK k, l : k = Len(log) /\ l = Len(log') OBVIOUS
  <2>2. k \in Nat /\ l \in {k, k + 1} BY <1>1, <1>2, <1>4, <2>1 DEF Grows
  <2>3. QED BY <2>1, <2>2 DEF Commits
<1>6. PICK c : c = TipAfter(log, base, log') OBVIOUS
<1>7. refs' \in [Branches -> {NoCommit} \cup Commits(log')]
  BY SMTT(30), <1>4, <1>5, <1>6 DEF ForgeInv, TypeOK
<1>8. QED BY <1>4, <1>7, GrowsStored DEF ForgeInv

(* Every request keeps the repository in shape.                             *)
LEMMA StoreStep == ASSUME ForgeInv, Next PROVE Stored
<1> USE DEF ForgeInv
<1>0. /\ log \in Seq(CommitRow(MaxCommits)) /\ refs \in [Branches -> {NoCommit} \cup Commits(log)]
      /\ \A b \in Branches : Exists(b) => Tip(b) \in Commits(log)
      /\ Commits(log) \subseteq Commits(log)
  BY DEF TypeOK, Exists, Tip
<1>1. ASSUME UNCHANGED <<refs, log>> PROVE Stored BY <1>0, <1>1, SameStored
<1>2. ASSUME NEW t \in Threads, SeedRepository(t) PROVE Stored
  <2>1. Blank BY <1>2 DEF SeedRepository, SeededOnce
  <2>2. <<>> \in Seq(CommitRow(MaxCommits)) /\ Lined(<<>>) /\ Len(<<>>) = 0 BY DEF Lined, Commits
  <2>3. Grows(<<>>, Committed(<<>>, {}, {})) /\ Len(Committed(<<>>, {}, {})) = 1
    <3>1. PICK e, z : e = <<>> /\ z = {} OBVIOUS
    <3>2. e \in Seq(CommitRow(MaxCommits)) /\ Lined(e) /\ Len(e) = 0 /\ Len(e) < MaxCommits BY <2>2, <3>1, ForgeAssumption
    <3>3. z \in SUBSET Commits(e) /\ z \in SUBSET Changes BY <3>1
    <3>4. Grows(e, Committed(e, z, z)) /\ Len(Committed(e, z, z)) = Len(e) + 1 BY <3>2, <3>3, CommitGrows
    <3>5. QED BY <3>1, <3>2, <3>4
  <2>4. Grows(log, log') /\ Len(log') = 1 /\ Len(log) = 0 BY <1>2, <2>1, <2>3 DEF SeedRepository, Blank
  <2>5. 1 \in Commits(log') BY <2>4 DEF Commits
  <2>6. refs' \in [Branches -> {NoCommit} \cup Commits(log')]
    BY <1>2, <2>1, <2>5, ForgeAssumption DEF SeedRepository, Blank
  <2>7. QED BY <2>4, <2>6, GrowsStored, ForgeAssumption
<1>3. ASSUME NEW b \in Branches, NEW x \in Changes, Push(b, x) PROVE Stored
  <2>1. Tip(b) \in Commits(log) BY <1>0, <1>3 DEF Push
  <2>2. PICK c, line, holds : c = Tip(b) /\ line = Line(log, c) /\ holds = Holds(log, c) \cup {x} OBVIOUS
  <2>3. line \in SUBSET Commits(log) /\ holds \in SUBSET Changes
    <3>1. c \in 1 .. Len(log) /\ 1 .. c \subseteq 1 .. Len(log) BY <1>0, <2>1, <2>2 DEF Commits
    <3>2. log[c] \in CommitRow(MaxCommits) BY <1>0, <3>1
    <3>3. Line(log, c) \subseteq 1 .. c BY <2>1, <2>2 DEF Lined
    <3>4. QED BY <2>2, <3>1, <3>2, <3>3 DEF Commits, Holds, CommitRow
  <2>4. PICK old : old = log OBVIOUS
  <2>5. Grows(old, Committed(old, line, holds)) /\ Len(Committed(old, line, holds)) = Len(old) + 1
    BY <1>0, <1>3, <2>3, <2>4, CommitGrows DEF Push
  <2>6. Grows(log, log') /\ Len(log') = Len(log) + 1 BY <1>3, <2>2, <2>4, <2>5 DEF Push
  <2>7. Len(log) + 1 \in Commits(log') /\ Commits(log) \subseteq Commits(log') BY <1>0, <2>6 DEF Commits
  <2>8. refs' \in [Branches -> {NoCommit} \cup Commits(log')] BY <1>3, <2>7, <1>0 DEF Push
  <2>9. QED BY <1>3, <2>6, <2>8, GrowsStored DEF Push
<1>4. ASSUME NEW b \in Branches, NEW c \in Commits(log),
             create_ref(b, c) \/ \E force \in BOOLEAN : update_ref(b, c, force)
      PROVE  Stored
  <2>1. log' = log /\ refs' \in [Branches -> {NoCommit} \cup Commits(log)]
    BY <1>0, <1>4 DEF create_ref, update_ref
  <2>2. QED BY <2>1, SameStored
<1>5. ASSUME NEW b \in Branches, delete_ref(b) PROVE Stored
  <2>1. log' = log /\ refs' \in [Branches -> {NoCommit} \cup Commits(log)] BY <1>0, <1>5 DEF delete_ref
  <2>2. QED BY <2>1, SameStored
<1>6. ASSUME NEW base \in Branches, NEW head \in Branches, merge_branches(base, head) PROVE Stored
  <2>1. PICK b, h : b = Tip(base) /\ h = Tip(head) /\ b \in Commits(log) /\ h \in Commits(log)
    BY <1>0, <1>6 DEF merge_branches
  <2>2. QED BY <1>6, <2>1, GitStored DEF merge_branches
<1>7. ASSUME NEW n \in DOMAIN pulls, NEW sha, update_branch(n, sha) PROVE Stored
  <2>1. pulls[n].head \in Branches /\ pulls[n].base \in Branches BY <1>7 DEF TypeOK, PullRow
  <2>2. PICK b, h, r : b = Tip(pulls[n].base) /\ h = Tip(pulls[n].head) /\ b \in Commits(log) /\ h \in Commits(log)
                       /\ r = pulls[n].head
    BY <1>0, <1>7, <2>1 DEF update_branch, CanLand
  <2>3. r \in Branches /\ Len(log) < MaxCommits /\ log' = Merge(log, h, b)
        /\ refs' = [refs EXCEPT ![r] = TipAfter(log, h, log')]
    BY <1>7, <2>1, <2>2 DEF update_branch
  <2>4. QED BY <2>2, <2>3, GitStored
<1>8. ASSUME NEW t \in Threads, Land(t) \/ Replay(t) PROVE Stored
  <2>1. PICK n : n = flight[t].n /\ n \in DOMAIN pulls /\ CanLand(n) BY <1>8 DEF Land, Replay, Grounded
  <2>2. pulls[n].head \in Branches /\ pulls[n].base \in Branches BY <2>1 DEF TypeOK, PullRow
  <2>3. PICK b, h, r : b = Tip(pulls[n].base) /\ h = Tip(pulls[n].head) /\ b \in Commits(log) /\ h \in Commits(log)
                       /\ r = pulls[n].base
    BY <1>0, <2>1, <2>2 DEF CanLand
  <2>4. r \in Branches /\ Len(log) < MaxCommits
        /\ log' \in {Merge(log, b, h), Squash(log, b, h), Rebase(log, b, h)}
        /\ refs' \in {refs, [refs EXCEPT ![r] = TipAfter(log, b, log')]}
    BY <1>8, <2>1, <2>2, <2>3 DEF Land, Replay, LandedRefs
  <2>5. QED BY <2>3, <2>4, GitStored
<1>9. ASSUME NEW t \in Threads, LandReplay(t) PROVE Stored
  <2>1. PICK n, c : n = flight[t].n /\ n \in DOMAIN pulls /\ c = flight[t].tip /\ c \in Commits(log)
    BY <1>9 DEF LandReplay, Grounded
  <2>2. pulls[n].base \in Branches BY <2>1 DEF TypeOK, PullRow
  <2>3. log' = log /\ refs' \in [Branches -> {NoCommit} \cup Commits(log)]
    BY <1>0, <1>9, <2>1, <2>2 DEF LandReplay, LandedRefs
  <2>4. QED BY <2>3, SameStored
<1>10. QED
  BY <1>1, <1>2, <1>3, <1>4, <1>5, <1>6, <1>7, <1>8, <1>9
    DEF Next, RepoRoutes, RefRoutes, PullRoutes, LeverRoutes, ClaimRepository, SeedFails, create_pull, set_pull_state,
        CheckMerge, LandRefused, RecordMerge, ArmLever, ArmRule, ExternalMerge, RefChecks, clear_lever, clear_all_levers

-----------------------------------------------------------------------------
(* The pulls and the requests about them                                     *)

(* The pulls stay pulls, none goes, and a closed one is frozen.             *)
Pulled ==
    /\ DOMAIN pulls \subseteq DOMAIN pulls' /\ DOMAIN pulls' \subseteq Numbers
    /\ \A n \in DOMAIN pulls' : pulls'[n] \in PullRow
    /\ Frozen'

(* A pull is frozen at the commits of its branches.                         *)
LEMMA ClosedFrozen ==
    ASSUME ForgeInv, NEW n \in DOMAIN pulls, Freezable(n)
    PROVE  Closed(n) \in PullRow /\ ~Closed(n).open /\ Closed(n).closed_head # NoCommit /\ Closed(n).base_pinned
<1>1. pulls[n] \in PullRow BY DEF ForgeInv, TypeOK
<1>2. PICK c : c = Tip(pulls[n].head) OBVIOUS
<1>3. c \in Commits(log) /\ c # NoCommit
  BY <1>1, <1>2 DEF ForgeInv, TypeOK, Freezable, Exists, Tip, PullRow
<1>4. c \in 0 .. MaxCommits /\ c \in Nat
  <2>1. Len(log) \in Nat /\ Len(log) <= MaxCommits BY DEF ForgeInv, TypeOK
  <2>2. QED BY <1>3, <2>1, ForgeAssumption DEF Commits
<1>5. Closed(n) = [pulls[n] EXCEPT !.open = FALSE, !.closed_head = c, !.base_pinned = TRUE] BY <1>2 DEF Closed
<1>6. QED BY <1>1, <1>3, <1>4, <1>5 DEF PullRow

(* The number of a new pull is within the bound.                            *)
LEMMA NumberFits == ASSUME TypeOK, Cardinality(DOMAIN pulls) < MaxPulls PROVE NextNumber \in Numbers
<1>1. IsFiniteSet(Numbers) BY FS_Interval, ForgeAssumption DEF Numbers
<1>2. IsFiniteSet(DOMAIN pulls) BY <1>1, FS_Subset DEF TypeOK
<1>3. Cardinality(DOMAIN pulls) \in Nat BY SMTT(30), <1>2, FS_CardinalityType
<1>4. QED BY <1>3, ForgeAssumption DEF NextNumber, Numbers

(* Every request keeps the pulls in shape.                                  *)
LEMMA PullStep == ASSUME ForgeInv, Next PROVE Pulled
<1> USE DEF ForgeInv
<1>0. DOMAIN pulls \subseteq Numbers /\ \A n \in DOMAIN pulls : pulls[n] \in PullRow BY DEF TypeOK
<1>1. ASSUME pulls' = pulls PROVE Pulled BY <1>0, <1>1 DEF Pulled, Frozen
<1>2. ASSUME NEW b \in Branches, delete_ref(b) PROVE Pulled
  <2>1. PICK done : /\ \A n \in done : n \in OpenPulls /\ Freezable(n)
                    /\ pulls' = [n \in DOMAIN pulls |-> IF n \in done THEN Closed(n) ELSE pulls[n]]
    <3> DEFINE over == {n \in OpenPulls : b \in {pulls[n].head, pulls[n].base}}
               stuck == {n \in over : ~Freezable(n)}
               done == {n \in over : \A m \in stuck : n < m}
    <3>1. \A n \in done : n \in OpenPulls /\ Freezable(n)
      <4> SUFFICES ASSUME NEW n \in done PROVE n \in OpenPulls /\ Freezable(n) OBVIOUS
      <4>1. n \in over /\ n \in Nat BY <1>0 DEF OpenPulls, Numbers
      <4>2. n \notin stuck BY <4>1
      <4>3. QED BY <4>1, <4>2
    <3>2. pulls' = [n \in DOMAIN pulls |-> IF n \in done THEN Closed(n) ELSE pulls[n]] BY <1>2 DEF delete_ref
    <3>3. QED BY <3>1, <3>2
  <2>2. \A n \in done : n \in DOMAIN pulls /\ Freezable(n) BY <2>1 DEF OpenPulls
  <2>3. ASSUME NEW n \in DOMAIN pulls
        PROVE  pulls'[n] \in PullRow /\ (~pulls'[n].open => pulls'[n].closed_head # NoCommit /\ pulls'[n].base_pinned)
    BY <1>0, <2>1, <2>2, ClosedFrozen DEF Frozen
  <2>4. DOMAIN pulls' = DOMAIN pulls BY <2>1
  <2>5. QED BY <1>0, <2>3, <2>4 DEF Pulled, Frozen
<1>3. ASSUME NEW n \in DOMAIN pulls, NEW open \in BOOLEAN, set_pull_state(n, open) PROVE Pulled
  <2>1. DOMAIN pulls' = DOMAIN pulls /\ \A m \in DOMAIN pulls : m # n => pulls'[m] = pulls[m]
    BY <1>3 DEF set_pull_state
  <2>2. pulls'[n] \in PullRow /\ (~pulls'[n].open => pulls'[n].closed_head # NoCommit /\ pulls'[n].base_pinned)
    <3>1. CASE ~open /\ pulls[n].open BY <1>3, <3>1, ClosedFrozen DEF set_pull_state
    <3>2. CASE ~open /\ ~pulls[n].open BY <1>0, <1>3, <3>2 DEF set_pull_state, Frozen
    <3>3. CASE open
      <4>1. /\ pulls'[n].open = TRUE /\ DOMAIN pulls'[n] = DOMAIN pulls[n]
            /\ pulls'[n] = [pulls[n] EXCEPT !.open = TRUE,
                                            !.closed_head = IF pulls[n].merged THEN pulls[n].closed_head ELSE NoCommit,
                                            !.base_pinned = pulls[n].base_pinned /\ pulls[n].merged]
        BY <1>0, <1>3, <3>3 DEF set_pull_state, PullRow
      <4>2. pulls[n] \in PullRow BY <1>0
      <4>3. NoCommit \in 0 .. MaxCommits BY ForgeAssumption DEF NoCommit
      <4>4. QED BY <4>1, <4>2, <4>3 DEF PullRow
    <3>4. QED BY <3>1, <3>2, <3>3
  <2>3. QED BY <1>0, <2>1, <2>2 DEF Pulled, Frozen
<1>4. ASSUME NEW p \in Proposals, create_pull(p[1], p[2]) PROVE Pulled
  <2>1. PICK k, row : /\ k = NextNumber
                      /\ row = [head |-> p[1], base |-> p[2], open |-> TRUE, merged |-> FALSE,
                                closed_head |-> NoCommit, base_pinned |-> FALSE]
    OBVIOUS
  <2>2. p[1] \in Branches /\ p[2] \in Branches BY InputAssumption
  <2>3. k \in Numbers BY <1>4, <2>1, NumberFits DEF create_pull
  <2>4. row \in PullRow /\ row.open BY <2>1, <2>2, ForgeAssumption DEF PullRow, NoCommit
  <2>5. pulls' = [m \in DOMAIN pulls \cup {k} |-> IF m = k THEN row ELSE pulls[m]]
    BY <1>4, <2>1 DEF create_pull, Put
  <2>6. QED BY <1>0, <2>3, <2>4, <2>5 DEF Pulled, Frozen
<1>5. ASSUME NEW t \in Threads, RecordMerge(t) PROVE Pulled
  <2>1. PICK n, c : n = flight[t].n /\ c = flight[t].head /\ n \in DOMAIN pulls
    BY <1>5 DEF RecordMerge, Grounded
  <2>2. c \in 1 .. MaxCommits /\ c # NoCommit /\ c \in 0 .. MaxCommits
    <3>1. flight[t] \in FlightRow /\ flight[t].op = "landed" BY <1>5 DEF RecordMerge, TypeOK
    <3>2. QED BY <2>1, <3>1, ForgeAssumption DEF FlightRow, NoCommit
  <2>3. pulls' = [pulls EXCEPT ![n] = [pulls[n] EXCEPT !.merged = TRUE, !.open = FALSE,
                                                      !.closed_head = c, !.base_pinned = TRUE]]
    BY <1>5, <2>1 DEF RecordMerge, Recorded
  <2>4. pulls'[n] \in PullRow /\ pulls'[n].closed_head # NoCommit /\ pulls'[n].base_pinned
    BY <1>0, <2>1, <2>2, <2>3 DEF PullRow
  <2>5. DOMAIN pulls' = DOMAIN pulls /\ \A m \in DOMAIN pulls : m # n => pulls'[m] = pulls[m] BY <2>3
  <2>6. QED BY <1>0, <2>4, <2>5 DEF Pulled, Frozen
<1>6. QED
  BY <1>1, <1>2, <1>3, <1>4, <1>5
    DEF Next, RepoRoutes, RefRoutes, PullRoutes, LeverRoutes, ClaimRepository, SeedRepository, SeedFails, Push, create_ref,
        update_ref, merge_branches, CheckMerge, LandRefused, Land, Replay, LandReplay, update_branch, ArmLever, ArmRule,
        ExternalMerge, RefChecks, clear_lever, clear_all_levers

(* The requests in flight stay what they are, or are one step further.      *)
LEMMA FlightStep == ASSUME ForgeInv, Next PROVE flight' \in [Threads -> FlightRow] /\ Grounded'
<1> USE DEF ForgeInv
<1>0. flight \in [Threads -> FlightRow] BY DEF TypeOK
<1>1. Stored /\ Pulled BY StoreStep, PullStep
<1>2. Commits(log) \subseteq Commits(log') /\ DOMAIN pulls \subseteq DOMAIN pulls' BY <1>1 DEF Stored, Pulled
<1>3. ASSUME NEW t \in Threads, NEW row \in FlightRow, flight' = [flight EXCEPT ![t] = row],
             row.op \in {"checked", "replayed", "landed"} => row.n \in DOMAIN pulls',
             row.op \in {"replayed", "landed"} => row.tip \in Commits(log')
      PROVE  flight' \in [Threads -> FlightRow] /\ Grounded'
  BY <1>0, <1>2, <1>3 DEF Grounded
<1>4. ASSUME UNCHANGED flight PROVE flight' \in [Threads -> FlightRow] /\ Grounded'
  BY <1>0, <1>2, <1>4 DEF Grounded
<1>5. Idle \in FlightRow /\ Idle.op = "idle" BY DEF Idle, FlightRow
<1>6. [op |-> "create"] \in FlightRow BY DEF FlightRow
<1>7. ASSUME NEW t \in Threads, ClaimRepository(t) PROVE flight' \in [Threads -> FlightRow] /\ Grounded'
  BY <1>3, <1>6, <1>7 DEF ClaimRepository
<1>8. ASSUME NEW t \in Threads, SeedRepository(t) \/ SeedFails(t) \/ LandRefused(t) \/ RecordMerge(t)
      PROVE  flight' \in [Threads -> FlightRow] /\ Grounded'
  BY <1>3, <1>5, <1>8 DEF SeedRepository, SeedFails, LandRefused, RecordMerge
<1>9. ASSUME NEW n \in DOMAIN pulls, NEW t \in Threads, NEW m \in Methods, Landing(t, n, m), Exists(pulls[n].head)
      PROVE  flight' \in [Threads -> FlightRow] /\ Grounded'
  <2>1. PICK c : c = Tip(pulls[n].head) OBVIOUS
  <2>2. n \in Numbers /\ m \in MergeMethods /\ pulls[n].head \in Branches BY InputAssumption DEF TypeOK, PullRow
  <2>3. c \in 1 .. MaxCommits
    <3>1. c \in 1 .. Len(log) BY <1>9, <2>1, <2>2 DEF TypeOK, Tip, Exists, Commits
    <3>2. Len(log) \in Nat /\ Len(log) <= MaxCommits BY DEF TypeOK
    <3>3. QED BY <3>1, <3>2, ForgeAssumption
  <2>4. PICK row : row = [op |-> "checked", n |-> n, method |-> m, head |-> c, tip |-> NoCommit] OBVIOUS
  <2>5. row \in FlightRow /\ row.op = "checked" /\ row.n = n
    BY <2>2, <2>3, <2>4, ForgeAssumption DEF FlightRow, NoCommit
  <2>6. flight' = [flight EXCEPT ![t] = row] BY <1>9, <2>1, <2>4 DEF Landing
  <2>7. QED BY <1>2, <1>3, <2>5, <2>6
<1>10. ASSUME NEW t \in Threads, NEW op \in {"replayed", "landed"}, NEW c \in Commits(log'),
              flight[t].op \in {"checked", "replayed"},
              flight' = [flight EXCEPT ![t] = [flight[t] EXCEPT !.op = op, !.tip = c]]
       PROVE  flight' \in [Threads -> FlightRow] /\ Grounded'
  <2>1. PICK row : row = [flight[t] EXCEPT !.op = op, !.tip = c] OBVIOUS
  <2>2. c \in 0 .. MaxCommits
    <3>1. Len(log') \in Nat /\ Len(log') <= MaxCommits BY <1>1 DEF Stored
    <3>2. QED BY <1>10, <3>1, ForgeAssumption DEF Commits
  <2>3. row \in FlightRow /\ row.op = op /\ row.n = flight[t].n /\ row.tip = c
    BY <1>0, <1>10, <2>1, <2>2 DEF FlightRow
  <2>4. row.n \in DOMAIN pulls BY <1>10, <2>3 DEF Grounded
  <2>5. QED BY <1>2, <1>3, <1>10, <2>1, <2>3, <2>4
<1>11. ASSUME NEW t \in Threads, Land(t) \/ Replay(t) PROVE flight' \in [Threads -> FlightRow] /\ Grounded'
  <2>1. PICK n : n = flight[t].n /\ n \in DOMAIN pulls /\ CanLand(n) BY <1>11 DEF Land, Replay, Grounded
  <2>2. pulls[n].head \in Branches /\ pulls[n].base \in Branches BY <2>1 DEF TypeOK, PullRow
  <2>3. PICK b, h, r, k : b = Tip(pulls[n].base) /\ h = Tip(pulls[n].head) /\ b \in Commits(log) /\ h \in Commits(log)
                          /\ r = pulls[n].base /\ k = TipAfter(log, b, log')
    BY <2>1, <2>2 DEF CanLand, TypeOK, Exists, Tip
  <2>4. /\ r \in Branches /\ Len(log) < MaxCommits
        /\ log' \in {Merge(log, b, h), Squash(log, b, h), Rebase(log, b, h)}
        /\ refs' \in {refs, [refs EXCEPT ![r] = TipAfter(log, b, log')]}
        /\ flight[t].op = "checked"
        /\ \E op \in {"replayed", "landed"} : flight' = [flight EXCEPT ![t] = [flight[t] EXCEPT !.op = op, !.tip = k]]
    BY <1>11, <2>1, <2>2, <2>3 DEF Land, Replay, LandedRefs
  <2>5. k \in Commits(log') BY <2>3, <2>4, GitStored
  <2>6. QED BY <1>10, <2>4, <2>5
<1>12. ASSUME NEW t \in Threads, LandReplay(t) PROVE flight' \in [Threads -> FlightRow] /\ Grounded'
  <2>1. PICK c : c = flight[t].tip /\ c \in Commits(log) BY <1>12 DEF LandReplay, Grounded
  <2>2. flight' = [flight EXCEPT ![t] = [flight[t] EXCEPT !.op = "landed", !.tip = c]]
    BY <1>0, <1>12, <2>1 DEF LandReplay, FlightRow
  <2>3. QED BY <1>2, <1>10, <1>12, <2>1, <2>2 DEF LandReplay
<1>13. QED
  BY <1>4, <1>7, <1>8, <1>9, <1>11, <1>12
    DEF Next, RepoRoutes, RefRoutes, PullRoutes, LeverRoutes, create_pull, set_pull_state, Push, create_ref,
        update_ref, merge_branches, delete_ref, CheckMerge, ExternalMerge, update_branch, ArmLever, ArmRule,
        RefChecks, clear_lever, clear_all_levers, MergeAccepted

(* The levers stay levers of pulls, branches and commits there are.         *)
LEMMA LeverStep ==
    ASSUME ForgeInv, Next
    PROVE  /\ levers' \subseteq Kinds \X (DOMAIN pulls' \cup {AnyNumber}) /\ rules' \subseteq RuleLevers \X Branches
           /\ DOMAIN checks' \subseteq Commits(log') /\ \A c \in DOMAIN checks' : checks'[c] \subseteq CheckStatuses
<1> USE DEF ForgeInv
<1>0. /\ levers \subseteq Kinds \X (DOMAIN pulls \cup {AnyNumber}) /\ rules \subseteq RuleLevers \X Branches
      /\ DOMAIN checks \subseteq Commits(log) /\ \A c \in DOMAIN checks : checks[c] \subseteq CheckStatuses
  BY DEF TypeOK
<1>1. Commits(log) \subseteq Commits(log') /\ DOMAIN pulls \subseteq DOMAIN pulls'
  BY StoreStep, PullStep DEF Stored, Pulled
<1>2. levers' \subseteq Kinds \X (DOMAIN pulls \cup {AnyNumber})
  <2>1. CASE levers' \subseteq levers BY <1>0, <2>1
  <2>2. ASSUME NEW kind \in Kinds \ RuleLevers, NEW n \in DOMAIN pulls \cup {AnyNumber}, ArmLever(kind, n)
        PROVE  levers' \subseteq Kinds \X (DOMAIN pulls \cup {AnyNumber})
    BY <1>0, <2>2 DEF ArmLever
  <2>3. QED
    BY <2>1, <2>2
      DEF Next, RepoRoutes, RefRoutes, PullRoutes, LeverRoutes, ClaimRepository, SeedRepository, SeedFails, Push,
          create_ref, update_ref, merge_branches, delete_ref, create_pull, set_pull_state, CheckMerge, LandRefused, Land,
          Replay, LandReplay, RecordMerge, update_branch, ArmRule, ExternalMerge, RefChecks, clear_lever, clear_all_levers
<1>3. rules' \subseteq RuleLevers \X Branches
  <2>1. CASE rules' \subseteq rules BY <1>0, <2>1
  <2>2. ASSUME NEW kind \in Kinds \cap RuleLevers, NEW b \in Branches, ArmRule(kind, b)
        PROVE  rules' \subseteq RuleLevers \X Branches
    BY <1>0, <2>2 DEF ArmRule
  <2>3. QED
    BY <2>1, <2>2
      DEF Next, RepoRoutes, RefRoutes, PullRoutes, LeverRoutes, ClaimRepository, SeedRepository, SeedFails, Push,
          create_ref, update_ref, merge_branches, delete_ref, create_pull, set_pull_state, CheckMerge, LandRefused, Land,
          Replay, LandReplay, RecordMerge, update_branch, ArmLever, ExternalMerge, RefChecks, clear_lever, clear_all_levers
<1>4. DOMAIN checks' \subseteq Commits(log) /\ \A c \in DOMAIN checks' : checks'[c] \subseteq CheckStatuses
  <2>1. CASE checks' = checks BY <1>0, <2>1
  <2>2. ASSUME NEW c \in Commits(log), NEW status \in ArmedRuns, RefChecks(c, status)
        PROVE  DOMAIN checks' \subseteq Commits(log) /\ \A r \in DOMAIN checks' : checks'[r] \subseteq CheckStatuses
    <3>1. PICK runs : runs = (IF status = "none" THEN {} ELSE {status}) OBVIOUS
    <3>2. runs \subseteq CheckStatuses BY <3>1, InputAssumption
    <3>3. checks' = [r \in DOMAIN checks \cup {c} |-> IF r = c THEN runs ELSE checks[r]]
      BY <2>2, <3>1 DEF RefChecks, Put
    <3>4. QED BY <1>0, <3>2, <3>3
  <2>3. CASE clear_all_levers
    <3>1. DOMAIN checks' = {} BY <2>3 DEF clear_all_levers
    <3>2. QED BY <3>1
  <2>4. QED
    BY <2>1, <2>2, <2>3
      DEF Next, RepoRoutes, RefRoutes, PullRoutes, LeverRoutes, ClaimRepository, SeedRepository, SeedFails, Push,
          create_ref, update_ref, merge_branches, delete_ref, create_pull, set_pull_state, CheckMerge, LandRefused, Land,
          Replay, LandReplay, RecordMerge, update_branch, ArmLever, ArmRule, ExternalMerge, clear_lever
<1>5. QED BY <1>1, <1>2, <1>3, <1>4

(* One request at a time holds the path of the repository.                  *)
LEMMA SeedStep == ASSUME ForgeInv, Next PROVE SeededOnce' /\ made' \in {"absent", "claimed", "served"}
<1> USE DEF ForgeInv
<1>0. made \in {"absent", "claimed", "served"} /\ flight \in [Threads -> FlightRow] BY DEF TypeOK
<1>1. ASSUME NEW t \in Threads, ClaimRepository(t) PROVE SeededOnce' /\ made' \in {"absent", "claimed", "served"}
  <2>1. Blank' BY <1>1 DEF ClaimRepository, SeededOnce, Blank
  <2>2. \A u \in Threads : flight[u].op # "create" BY <1>1 DEF ClaimRepository, SeededOnce
  <2>3. \A u \in Threads : flight'[u].op = "create" => u = t BY <1>0, <1>1, <2>2 DEF ClaimRepository
  <2>4. made' = "claimed" BY <1>1 DEF ClaimRepository
  <2>5. QED BY <2>1, <2>3, <2>4 DEF SeededOnce
<1>2. ASSUME NEW t \in Threads, SeedRepository(t) \/ SeedFails(t)
      PROVE  SeededOnce' /\ made' \in {"absent", "claimed", "served"}
  <2>1. flight' = [flight EXCEPT ![t] = Idle] /\ flight[t].op = "create" /\ made' \in {"absent", "served"}
    BY <1>2 DEF SeedRepository, SeedFails
  <2>2. \A u \in Threads : flight'[u].op # "create" BY <1>0, <2>1 DEF SeededOnce, Idle
  <2>3. made' # "served" => Blank' BY <1>2 DEF SeedRepository, SeedFails, SeededOnce, Blank
  <2>4. QED BY <2>1, <2>2, <2>3 DEF SeededOnce
<1>3. ASSUME made' = made, Served \/ UNCHANGED <<refs, log, pulls, checks>> \/ clear_all_levers,
             \A t \in Threads : flight'[t].op = "create" => flight[t].op = "create"
      PROVE  SeededOnce' /\ made' \in {"absent", "claimed", "served"}
  BY <1>0, <1>3 DEF SeededOnce, Blank, Served, clear_all_levers
<1>4. ASSUME UNCHANGED <<made, flight>>, Served \/ UNCHANGED <<refs, log, pulls, checks>> \/ clear_all_levers
      PROVE  SeededOnce' /\ made' \in {"absent", "claimed", "served"}
  BY <1>3, <1>4
<1>5. ASSUME NEW n, NEW t \in Threads, NEW m, Landing(t, n, m), UNCHANGED <<made, refs, log, pulls, checks>>
      PROVE  SeededOnce' /\ made' \in {"absent", "claimed", "served"}
  <2>1. \A u \in Threads : flight'[u].op = "create" => flight[u].op = "create" BY <1>0, <1>5 DEF Landing
  <2>2. QED BY <1>3, <1>5, <2>1
<1>6. ASSUME NEW t \in Threads, LandRefused(t) \/ Land(t) \/ Replay(t) \/ LandReplay(t) \/ RecordMerge(t)
      PROVE  SeededOnce' /\ made' \in {"absent", "claimed", "served"}
  <2>1. made' = made /\ flight[t].op \in {"checked", "replayed", "landed"} /\ \E row : flight' = [flight EXCEPT ![t] = row]
    BY <1>6 DEF LandRefused, Land, Replay, LandReplay, RecordMerge
  <2>11. flight'[t].op # "create"
    <3>1. flight[t] \in FlightRow /\ t \in DOMAIN flight BY <1>0
    <3>2. CASE LandRefused(t) \/ RecordMerge(t) BY <3>1, <3>2 DEF LandRefused, RecordMerge, Idle
    <3>3. CASE Land(t) \/ Replay(t) \/ LandReplay(t)
      <4>1. \E tip : flight'[t] \in {[flight[t] EXCEPT !.op = "landed"], [flight[t] EXCEPT !.op = "landed", !.tip = tip],
                                     [flight[t] EXCEPT !.op = "replayed", !.tip = tip]}
        BY <3>1, <3>3 DEF Land, Replay, LandReplay
      <4>2. DOMAIN flight[t] = {"op", "n", "method", "head", "tip"} BY <2>1, <3>1 DEF FlightRow
      <4>3. QED BY <4>1, <4>2
    <3>4. QED BY <1>6, <3>2, <3>3
  <2>2. Served BY <1>0, <2>1 DEF Grounded, SeededOnce, Blank, Served
  <2>3. QED BY <1>3, <2>1, <2>11, <2>2
<1>61. ASSUME clear_all_levers PROVE SeededOnce' /\ made' \in {"absent", "claimed", "served"}
  BY SMTT(30), <1>4, <1>61 DEF clear_all_levers
<1>7. QED
  BY <1>1, <1>2, <1>4, <1>5, <1>6, <1>61
    DEF Next, RepoRoutes, RefRoutes, PullRoutes, LeverRoutes, create_pull, set_pull_state, Push, create_ref, update_ref,
        merge_branches, delete_ref, CheckMerge, update_branch, ArmLever, ArmRule, ExternalMerge, RefChecks, clear_lever

(* An unmerged open pull keeps its head.                                    *)
LEMMA HeadStep == ASSUME ForgeInv, Next PROVE OpenHeadsExist'
<1> USE DEF ForgeInv
<1>0. DOMAIN pulls \subseteq Numbers /\ \A n \in DOMAIN pulls : pulls[n] \in PullRow BY DEF TypeOK
<1>1. Stored BY StoreStep
<1>2. ASSUME \A b \in Branches : Exists(b) => refs'[b] # NoCommit, pulls' = pulls PROVE OpenHeadsExist'
  BY <1>0, <1>2 DEF OpenHeadsExist, OpenPulls, Exists, PullRow
<1>3. ASSUME NEW b \in Branches, NEW c, c # NoCommit, refs' = [refs EXCEPT ![b] = c], pulls' = pulls
      PROVE  OpenHeadsExist'
  BY <1>2, <1>3 DEF Exists, TypeOK
<1>4. ASSUME UNCHANGED <<refs, pulls>> PROVE OpenHeadsExist' BY <1>2, <1>4 DEF Exists
<1>5. ASSUME NEW t \in Threads, SeedRepository(t) PROVE OpenHeadsExist'
  <2>1. main \in Branches /\ 1 # NoCommit BY ForgeAssumption DEF NoCommit
  <2>2. QED BY <1>3, <1>5, <2>1 DEF SeedRepository
<1>6. ASSUME NEW b \in Branches, NEW x \in Changes, Push(b, x) PROVE OpenHeadsExist'
  <2>1. Len(log) + 1 # NoCommit BY DEF TypeOK, NoCommit
  <2>2. QED BY <1>3, <1>6, <2>1 DEF Push
<1>7. ASSUME NEW b \in Branches, NEW c \in Commits(log), create_ref(b, c) \/ \E force \in BOOLEAN : update_ref(b, c, force)
      PROVE  OpenHeadsExist'
  <2>1. c # NoCommit BY DEF Commits, NoCommit
  <2>2. QED BY <1>3, <1>7, <2>1 DEF create_ref, update_ref
<1>8. ASSUME NEW b \in Branches, NEW from \in Branches, Exists(from),
             refs' = [refs EXCEPT ![b] = TipAfter(log, Tip(from), log')], pulls' = pulls
      PROVE  OpenHeadsExist'
  <2>1. PICK c : c = TipAfter(log, Tip(from), log') OBVIOUS
  <2>2. Len(log) \in Nat /\ Len(log') \in Nat /\ Tip(from) # NoCommit BY <1>1, <1>8 DEF Stored, TypeOK, Exists, Tip
  <2>3. c # NoCommit BY <2>1, <2>2 DEF TipAfter, NoCommit
  <2>4. QED BY <1>3, <1>8, <2>1, <2>3
<1>9. ASSUME NEW base \in Branches, NEW head \in Branches, merge_branches(base, head) PROVE OpenHeadsExist'
  BY <1>8, <1>9 DEF merge_branches
<1>10. ASSUME NEW n \in DOMAIN pulls, NEW sha, update_branch(n, sha) PROVE OpenHeadsExist'
  <2>1. PICK b : b = pulls[n].head /\ b \in Branches BY <1>0 DEF PullRow
  <2>2. QED BY <1>8, <1>10, <2>1 DEF update_branch
<1>11. ASSUME NEW t \in Threads, Land(t) PROVE OpenHeadsExist'
  <2>1. PICK n, b : n = flight[t].n /\ n \in DOMAIN pulls /\ b = pulls[n].base /\ b \in Branches
    BY <1>0, <1>11 DEF Land, Grounded, PullRow
  <2>2. Exists(b) /\ refs' = [refs EXCEPT ![b] = TipAfter(log, Tip(b), log')] /\ pulls' = pulls
    BY <1>11, <2>1 DEF Land, LandedRefs, CanLand
  <2>3. QED BY <1>8, <2>1, <2>2
<1>12. ASSUME NEW t \in Threads, LandReplay(t) PROVE OpenHeadsExist'
  <2>1. PICK n, c, b : n = flight[t].n /\ n \in DOMAIN pulls /\ c = flight[t].tip /\ c \in Commits(log)
                       /\ b = pulls[n].base /\ b \in Branches
    BY <1>0, <1>12 DEF LandReplay, Grounded, PullRow
  <2>2. c # NoCommit BY <2>1 DEF Commits, NoCommit
  <2>3. QED BY <1>3, <1>12, <2>1, <2>2 DEF LandReplay, LandedRefs
<1>13. ASSUME NEW b \in Branches, delete_ref(b) PROVE OpenHeadsExist'
  <2> DEFINE over == {n \in OpenPulls : b \in {pulls[n].head, pulls[n].base}}
             stuck == {n \in over : ~Freezable(n)}
             done == {n \in over : \A m \in stuck : n < m}
  <2>1. /\ pulls' = [n \in DOMAIN pulls |-> IF n \in done THEN Closed(n) ELSE pulls[n]]
        /\ refs' = IF stuck = {} THEN [refs EXCEPT ![b] = NoCommit] ELSE refs
    BY <1>13 DEF delete_ref
  <2>2. \A n \in done : n \in DOMAIN pulls /\ pulls'[n].open = FALSE
    <3>1. \A n \in done : n \in DOMAIN pulls BY DEF OpenPulls
    <3>2. \A n \in DOMAIN pulls : Closed(n).open = FALSE BY <1>0 DEF Closed, PullRow
    <3>3. QED BY <2>1, <3>1, <3>2
  <2>3. ASSUME NEW n \in DOMAIN pulls', pulls'[n].open, ~pulls'[n].merged PROVE refs'[pulls'[n].head] # NoCommit
    <3>1. n \in DOMAIN pulls /\ n \notin done /\ pulls'[n] = pulls[n] BY <2>1, <2>2, <2>3
    <3>2. n \in OpenPulls /\ Exists(pulls[n].head) /\ pulls[n].head \in Branches
      BY <1>0, <2>3, <3>1 DEF OpenHeadsExist, OpenPulls, PullRow
    <3>3. CASE stuck # {} BY <2>1, <3>1, <3>2, <3>3 DEF Exists
    <3>4. CASE stuck = {}
      <4>1. n \notin over BY <3>1, <3>4
      <4>2. pulls[n].head # b BY <3>2, <4>1
      <4>3. QED BY <2>1, <3>1, <3>2, <3>4, <4>2 DEF Exists
    <3>5. QED BY <3>3, <3>4
  <2>4. QED BY <2>3 DEF OpenHeadsExist, OpenPulls, Exists
<1>14. ASSUME NEW p \in Proposals, create_pull(p[1], p[2]) PROVE OpenHeadsExist'
  <2>1. PICK k, row : /\ k = NextNumber
                      /\ row = [head |-> p[1], base |-> p[2], open |-> TRUE, merged |-> FALSE,
                                closed_head |-> NoCommit, base_pinned |-> FALSE]
    OBVIOUS
  <2>2. pulls' = [m \in DOMAIN pulls \cup {k} |-> IF m = k THEN row ELSE pulls[m]] /\ refs' = refs /\ Exists(p[1])
    BY <1>14, <2>1 DEF create_pull, Put, MayOpen
  <2>3. ASSUME NEW n \in DOMAIN pulls', pulls'[n].open, ~pulls'[n].merged PROVE refs'[pulls'[n].head] # NoCommit
    BY <2>1, <2>2, <2>3 DEF OpenHeadsExist, OpenPulls, Exists
  <2>4. QED BY <2>3 DEF OpenHeadsExist, OpenPulls, Exists
<1>15. ASSUME NEW n \in DOMAIN pulls, NEW open \in BOOLEAN, set_pull_state(n, open) PROVE OpenHeadsExist'
  <2>1. /\ refs' = refs /\ DOMAIN pulls' = DOMAIN pulls /\ \A m \in DOMAIN pulls : m # n => pulls'[m] = pulls[m]
        /\ \E row : pulls' = [pulls EXCEPT ![n] = row]
    BY <1>0, <1>15 DEF set_pull_state
  <2>11. pulls'[n].head = pulls[n].head /\ pulls'[n].merged = pulls[n].merged
    <3>1. pulls[n] \in PullRow BY <1>0
    <3>2. CASE ~open BY <1>15, <3>1, <3>2 DEF set_pull_state, Closed, PullRow
    <3>3. CASE open BY <1>15, <3>1, <3>3 DEF set_pull_state, PullRow
    <3>4. QED BY <3>2, <3>3
  <2>2. pulls'[n].open /\ ~pulls'[n].merged => Exists(pulls[n].head)
    <3>1. pulls[n] \in PullRow BY <1>0
    <3>2. CASE ~open
      <4>1. pulls'[n] = IF pulls[n].open THEN Closed(n) ELSE pulls[n] BY <1>15, <3>2 DEF set_pull_state
      <4>2. Closed(n).open = FALSE BY <3>1 DEF Closed, PullRow
      <4>3. ~pulls'[n].open BY <4>1, <4>2
      <4>4. QED BY <4>3
    <3>3. CASE open
      <4>1. pulls[n].merged \/ Exists(pulls[n].head) BY <1>15, <3>3 DEF set_pull_state
      <4>2. QED BY <2>11, <4>1, Zenon
    <3>4. QED BY <3>2, <3>3
  <2>3. QED BY <2>1, <2>11, <2>2 DEF OpenHeadsExist, OpenPulls, Exists
<1>16. ASSUME NEW t \in Threads, RecordMerge(t) PROVE OpenHeadsExist'
  <2>1. PICK n : n = flight[t].n /\ n \in DOMAIN pulls BY <1>16 DEF RecordMerge, Grounded
  <2>2. /\ refs' = refs /\ DOMAIN pulls' = DOMAIN pulls /\ \A m \in DOMAIN pulls : m # n => pulls'[m] = pulls[m]
        /\ pulls'[n].merged
    BY <1>0, <1>16, <2>1 DEF RecordMerge, Recorded, PullRow
  <2>3. QED BY <2>1, <2>2 DEF OpenHeadsExist, OpenPulls, Exists
<1>17. QED
  BY <1>4, <1>5, <1>6, <1>7, <1>9, <1>10, <1>11, <1>12, <1>13, <1>14, <1>15, <1>16
    DEF Next, RepoRoutes, RefRoutes, PullRoutes, LeverRoutes, ClaimRepository, SeedFails, CheckMerge, LandRefused, Replay,
        ArmLever, ArmRule, ExternalMerge, RefChecks, clear_lever, clear_all_levers

(* An empty forge satisfies the invariant.                                  *)
LEMMA ForgeStarts == Init => ForgeInv
<1> SUFFICES ASSUME Init PROVE ForgeInv OBVIOUS
<1>1. DOMAIN pulls = {} /\ DOMAIN checks = {} /\ log = <<>> /\ Len(log) = 0 /\ Commits(log) = {}
  BY DEF Init, Commits
<1>2. \A t \in Threads : flight[t] = Idle /\ flight[t].op = "idle" BY DEF Init, Idle
<1>3. flight \in [Threads -> FlightRow] BY DEF Init, Idle, FlightRow
<1>4. log \in Seq(CommitRow(MaxCommits)) BY <1>1
<1>5. TypeOK
  BY <1>1, <1>3, <1>4, ForgeAssumption DEF Init, TypeOK
<1>6. SeededOnce BY <1>2 DEF Init, SeededOnce, Blank
<1>7. Lined(log) /\ Grounded /\ Frozen /\ OpenHeadsExist
  BY <1>1, <1>2 DEF Lined, Grounded, Frozen, OpenHeadsExist, OpenPulls
<1>8. QED BY <1>5, <1>6, <1>7 DEF ForgeInv

(* The invariant speaks of the stores and the requests.                     *)
LEMMA ForgeStays == ForgeInv /\ UNCHANGED vars => ForgeInv'
<1> SUFFICES ASSUME ForgeInv, UNCHANGED vars PROVE ForgeInv' OBVIOUS
<1>1. TypeOK' BY DEF ForgeInv, vars, TypeOK
<1>2. Lined(log)' /\ SeededOnce' /\ Grounded' BY DEF ForgeInv, vars, SeededOnce, Blank, Grounded
<1>3. Frozen' /\ OpenHeadsExist' BY DEF ForgeInv, vars, Frozen, OpenHeadsExist, OpenPulls, Exists
<1>4. QED BY <1>1, <1>2, <1>3 DEF ForgeInv

(* The invariant of the forge holds throughout.                             *)
THEOREM ForgeInvariant == Spec => []ForgeInv
<1>1. ForgeInv /\ Next => ForgeInv'
  <2> SUFFICES ASSUME ForgeInv, Next PROVE ForgeInv' OBVIOUS
  <2>1. TypeOK' BY StoreStep, PullStep, FlightStep, LeverStep, SeedStep DEF TypeOK, Stored, Pulled
  <2>2. QED BY <2>1, StoreStep, PullStep, FlightStep, SeedStep, HeadStep DEF ForgeInv, Stored, Pulled
<1>2. QED BY <1>1, ForgeStarts, ForgeStays, PTL DEF Spec

(* Every store keeps its shape, whatever is pushed, landed, deleted, armed.  *)
THEOREM ForgeTypes == Spec => []TypeOK
<1>1. ForgeInv => TypeOK BY DEF ForgeInv
<1>2. QED BY <1>1, ForgeInvariant, PTL

(* A closed or merged pull is served, whatever became of its branches.      *)
THEOREM ClosedPullsServed == Spec => []ClosedPullsList
<1>1. ForgeInv => ClosedPullsList BY DEF ForgeInv, Frozen, ClosedPullsList, ViewHead, HasBase
<1>2. QED BY <1>1, ForgeInvariant, PTL

(* An open pull that has not merged has its head.                           *)
THEOREM OpenHeadsKept == Spec => []OpenHeadsExist
<1>1. ForgeInv => OpenHeadsExist BY DEF ForgeInv
<1>2. QED BY <1>1, ForgeInvariant, PTL

(* Dirty never lands, and clean is green.                                   *)
THEOREM MergeStateTold == Spec => []MergeStateIsTrue
<1>1. ForgeInv => DirtyNeverLands
  <2> SUFFICES ASSUME NEW n \in OpenPulls, Mergeability(n) = "dirty", NEW m \in MergeMethods,
                      MergeAccepted(n, m), CanLand(n)
               PROVE  FALSE
    BY DEF DirtyNeverLands
  <2>1. LiveState(n) = "dirty" /\ ~Armed("merge_conflict", n)
    BY DEF Mergeability, MergeAccepted
  <2>2. IsMergeable(log, Tip(pulls[n].base), Tip(pulls[n].head)) BY DEF CanLand
  <2>3. QED BY <2>1, <2>2 DEF LiveState
<1>2. ForgeInv => CleanPullsAreGreen
  <2> SUFFICES ASSUME NEW n \in OpenPulls, NEW c, c = Tip(pulls[n].head), PullAt(c) = n, c \notin DOMAIN checks,
                      ~(Armed("base_checks_failed", AnyNumber) /\ c = Tip(main)), Mergeability(n) = "clean"
               PROVE  CheckRuns(c) = {"success"}
    BY DEF CleanPullsAreGreen
  <2>1. LiveState(n) = "clean" BY DEF Mergeability
  <2>2. ~Armed("checks_pending", n) /\ ~Armed("checks_failed", n) /\ ~Armed("checks_startup_failure", n)
    BY <2>1 DEF LiveState
  <2>3. QED BY <2>2 DEF CheckRuns
<1>3. QED BY <1>1, <1>2, ForgeInvariant, PTL DEF MergeStateIsTrue

(* A commit the forge makes on a branch has the branch's tip in its line,    *)
(* whether a landing, a merge of branches or an update-branch makes it: only *)
(* a replay is set as the base without a look at where the base is by then. *)
Makes(b) ==
    \/ \E t \in Threads : Land(t) /\ b = pulls[flight[t].n].base
    \/ \E head \in Branches : merge_branches(b, head)
    \/ \E n \in DOMAIN pulls, sha \in {NoCommit} \cup Commits(log) : update_branch(n, sha) /\ b = pulls[n].head

(* What the forge commits on a branch builds on what the branch had.          *)
THEOREM CommitsBuildOn == Spec => [][\A b \in Branches : Makes(b) => IsAncestor(log', refs[b], refs'[b])]_vars
<1>1. ASSUME ForgeInv, NEW r \in Branches, Makes(r) PROVE IsAncestor(log', refs[r], refs'[r])
  <2>1. ASSUME NEW from \in Branches, Exists(r), Exists(from), Len(log) < MaxCommits,
               log' \in {Merge(log, Tip(r), Tip(from)), Squash(log, Tip(r), Tip(from))},
               refs' = [refs EXCEPT ![r] = TipAfter(log, Tip(r), log')]
        PROVE  IsAncestor(log', refs[r], refs'[r])
    <3>1. PICK b, h : b = Tip(r) /\ h = Tip(from) /\ b \in Commits(log) /\ h \in Commits(log)
      BY <1>1, <2>1 DEF ForgeInv, TypeOK, Exists, Tip
    <3>2. /\ log' \in {Merge(log, b, h), Squash(log, b, h), Rebase(log, b, h)}
          /\ refs' = [refs EXCEPT ![r] = TipAfter(log, b, log')]
      BY <2>1, <3>1
    <3>3. IsAncestor(log', b, TipAfter(log, b, log')) BY <1>1, <2>1, <3>1, <3>2, GitStored
    <3>4. refs[r] = b /\ refs'[r] = TipAfter(log, b, log') BY <1>1, <3>1, <3>2 DEF ForgeInv, TypeOK, Tip
    <3>5. QED BY <3>3, <3>4
  <2>2. ASSUME NEW t \in Threads, Land(t), r = pulls[flight[t].n].base PROVE IsAncestor(log', refs[r], refs'[r])
    <3>1. PICK n, from : n = flight[t].n /\ n \in DOMAIN pulls /\ CanLand(n) /\ from = pulls[n].head /\ from \in Branches
      BY <1>1, <2>2 DEF Land, ForgeInv, Grounded, TypeOK, PullRow
    <3>2. /\ Exists(r) /\ Exists(from) /\ Len(log) < MaxCommits
          /\ log' \in {Merge(log, Tip(r), Tip(from)), Squash(log, Tip(r), Tip(from))}
          /\ refs' = [refs EXCEPT ![r] = TipAfter(log, Tip(r), log')]
      BY <2>2, <3>1 DEF Land, LandedRefs, CanLand
    <3>3. QED BY <2>1, <3>1, <3>2
  <2>3. ASSUME NEW head \in Branches, merge_branches(r, head) PROVE IsAncestor(log', refs[r], refs'[r])
    BY <2>1, <2>3 DEF merge_branches
  <2>4. ASSUME NEW n \in DOMAIN pulls, NEW sha, update_branch(n, sha), r = pulls[n].head
        PROVE  IsAncestor(log', refs[r], refs'[r])
    <3>1. PICK from : from = pulls[n].base /\ from \in Branches BY <1>1 DEF ForgeInv, TypeOK, PullRow
    <3>2. /\ Exists(r) /\ Exists(from) /\ Len(log) < MaxCommits
          /\ log' = Merge(log, Tip(r), Tip(from)) /\ refs' = [refs EXCEPT ![r] = TipAfter(log, Tip(r), log')]
      BY <2>4, <3>1 DEF update_branch, CanLand
    <3>3. QED BY <2>1, <3>1, <3>2
  <2>5. QED BY <1>1, <2>2, <2>3, <2>4 DEF Makes
<1> DEFINE Builds == \A b \in Branches : Makes(b) => IsAncestor(log', refs[b], refs'[b])
<1>2. ForgeInv => Builds BY <1>1
<1>3. QED BY <1>2, ForgeInvariant, PTL DEF Spec

-----------------------------------------------------------------------------
(* The desk: the inductive invariant                                         *)

Ledger ==
    /\ now \in 0..MaxTime
    /\ windows \in [Buckets -> Window \cup {None}]
    /\ template \in Window \cup {None} /\ budget \in Window \cup {None}

(* While a budget for every token lasts, the template is that budget, so a   *)
(* window opened later starts from it, and no live window has more left.     *)
Bound ==
    budget # None /\ now < budget.reset =>
        /\ template = budget
        /\ \A b \in Buckets : windows[b] # None /\ now < windows[b].reset =>
              windows[b].remaining <= budget.remaining

(* What a lever has left and what it has refused make what it was armed      *)
(* with, and it stands only while something is left or nothing was refused.  *)
Levered ==
    /\ lever \in Lever \cup {None} /\ hits \in Nat
    /\ lever # None /\ lever.armed # None =>
          lever.left \in Nat /\ lever.left + hits = lever.armed /\ (lever.left > 0 \/ hits = 0)
    /\ lever # None /\ lever.armed = None => lever.left = None

(* Issues and pulls take their numbers from one counter without a gap, and   *)
(* no number is both.                                                        *)
Numbered ==
    /\ IsFiniteSet(DOMAIN issues) /\ IsFiniteSet(pull_numbers)
    /\ Cardinality(DOMAIN issues) <= MaxEach /\ Cardinality(pull_numbers) <= MaxEach
    /\ DOMAIN issues \cup pull_numbers = 1..(NewNumber - 1) /\ (DOMAIN issues) \cap pull_numbers = {}

Rows ==
    /\ \A n \in DOMAIN issues : issues[n] \in IssueRow
    /\ labels \subseteq Labels

DeskInv == Ledger /\ Bound /\ Levered /\ Numbered /\ Rows

-----------------------------------------------------------------------------
(* The rate ledger                                                           *)

LEMMA NoneIsNoWindow == None \notin Window /\ None \notin Nat
BY DeskAssumption

LEMMA CoreBuckets == \A c \in Credentials : <<c, "core">> \in Buckets /\ <<c, "graphql">> \in Buckets
BY DEF Buckets, Resources

LEMMA LiveShape ==
    ASSUME Ledger, NEW w \in Window \cup {None}
    PROVE  /\ Live(w) \in {w, None} /\ Live(w) \in Window \cup {None}
           /\ Live(w) # None => w \in Window /\ now < w.reset
           /\ w # None /\ now < w.reset => Live(w) = w
<1>1. now \in Nat
    BY DeskAssumption DEF Ledger
<1>2. w # None => w \in Window /\ w.reset \in Nat
    BY DEF Window
<1>q. QED
    BY <1>1, <1>2 DEF Live

LEMMA OpenedShape ==
    ASSUME Ledger, NEW b \in Buckets
    PROVE  Fresh(template) \in Window /\ Opened(b) \in Window /\ TemplateAfter(b) \in {template, Live(template)}
<1>1. template \in Window \cup {None} /\ windows[b] \in Window \cup {None} /\ now \in Nat
    BY DeskAssumption DEF Ledger
<1>2. [remaining |-> Limit, reset |-> now + Span] \in Window
    BY <1>1, DeskAssumption DEF Window
<1>3. Fresh(template) \in Window
    BY <1>1, <1>2, LiveShape DEF Fresh
<1>q. QED
    BY <1>1, <1>3, LiveShape DEF Opened, TemplateAfter

LEMMA SpentShape ==
    ASSUME NEW w \in Window
    PROVE  Spent(w) \in Window /\ Spent(w).remaining <= w.remaining /\ Spent(w).reset = w.reset
BY DEF Spent, Window

LEMMA AppliedShape ==
    ASSUME NEW w \in Window, NEW remaining \in Nat \cup {None}, NEW reset \in Nat \cup {None}
    PROVE  /\ Applied(w, remaining, reset) \in Window
           /\ remaining # None => Applied(w, remaining, reset).remaining = remaining
BY DEF Applied, Window

(* While the budget lasts, a window it opens or finds has no more left.      *)
LEMMA OpenedBound ==
    ASSUME Ledger, Bound, NEW b \in Buckets, budget # None, now < budget.reset
    PROVE  Opened(b).remaining <= budget.remaining /\ Live(template) = template /\ TemplateAfter(b) = template
<1>1. template \in Window /\ template = budget /\ windows[b] \in Window \cup {None}
    BY DEF Ledger, Bound
<1>2. Live(template) = template /\ template # None
    BY <1>1, LiveShape, NoneIsNoWindow
<1>3. CASE Live(windows[b]) # None
    <2>1. windows[b] # None /\ now < windows[b].reset
        BY <1>1, <1>3, LiveShape, NoneIsNoWindow
    <2>q. QED
        BY <1>1, <1>2, <1>3, <2>1 DEF Bound, Opened, TemplateAfter
<1>4. CASE Live(windows[b]) = None
    <2>1. Opened(b) = template
        BY <1>2, <1>4 DEF Opened, Fresh
    <2>q. QED
        BY <1>1, <1>2, <1>4, <2>1 DEF TemplateAfter, Window
<1>q. QED
    BY <1>3, <1>4

(* What a request leaves in a bucket: what was there, that with its expired  *)
(* window gone, or the window opened for it with at most one spent.          *)
Touched(b) == {windows[b], Live(windows[b]), Spent(Opened(b))}

Requested ==
    /\ \A b \in Buckets : windows'[b] \in Touched(b)
    /\ windows' = [b \in Buckets |-> windows'[b]]
    /\ template' \in {template} \cup {TemplateAfter(b) : b \in Buckets}
    /\ UNCHANGED <<now, budget>>

LEMMA RequestedKeeps ==
    ASSUME Ledger, Bound, Requested
    PROVE  Ledger' /\ Bound'
<1>1. \A b \in Buckets : windows[b] \in Window \cup {None} /\ windows'[b] \in Window \cup {None}
    <2> TAKE b \in Buckets
    <2>1. windows[b] \in Window \cup {None}
        BY DEF Ledger
    <2>q. QED
        BY <2>1, LiveShape, OpenedShape, SpentShape DEF Requested, Touched
<1>2. template' \in Window \cup {None}
    <2>1. Live(template) \in Window \cup {None} /\ template \in Window \cup {None}
        BY LiveShape DEF Ledger
    <2>2. \A b \in Buckets : TemplateAfter(b) \in Window \cup {None}
        BY <2>1, OpenedShape
    <2>q. QED
        BY <2>1, <2>2 DEF Requested
<1>3. Ledger'
    BY <1>1, <1>2 DEF Ledger, Requested
<1>4. ASSUME budget # None, now < budget.reset
      PROVE  template' = budget /\ \A b \in Buckets : windows'[b] # None /\ now < windows'[b].reset =>
                 windows'[b].remaining <= budget.remaining
    <2>1. template' = budget
        BY <1>4, OpenedBound DEF Bound, Requested
    <2>2. ASSUME NEW b \in Buckets, windows'[b] # None, now < windows'[b].reset
          PROVE  windows'[b].remaining <= budget.remaining
        <3>1. CASE windows'[b] \in {windows[b], Live(windows[b])}
            <4>1. windows'[b] = windows[b]
                BY <1>1, <2>2, <3>1, LiveShape
            <4>q. QED
                BY <1>4, <2>2, <4>1 DEF Bound
        <3>2. CASE windows'[b] = Spent(Opened(b))
            <4>1. Opened(b) \in Window /\ Opened(b).remaining <= budget.remaining
                BY <1>4, OpenedBound, OpenedShape
            <4>2. Spent(Opened(b)).remaining <= Opened(b).remaining /\ Spent(Opened(b)) \in Window
                BY <4>1, SpentShape
            <4>3. Spent(Opened(b)).remaining \in Nat /\ Opened(b).remaining \in Nat /\ budget.remaining \in Nat
                BY <1>4, <4>1, <4>2 DEF Ledger, Window
            <4>q. QED
                BY <3>2, <4>1, <4>2, <4>3
        <3>q. QED
            BY <2>2, <3>1, <3>2 DEF Requested, Touched
    <2>q. QED
        BY <2>1, <2>2
<1>q. QED
    BY <1>3, <1>4 DEF Bound, Requested

(* Every request, refused, read or answered, is such a step.                 *)
LEMMA TakenIsRequested ==
    ASSUME Ledger, NEW b \in Buckets, UNCHANGED <<now, budget>>, template' = TemplateAfter(b),
           NEW g \in Buckets,
           \/ windows' = [windows EXCEPT ![b] = Spent(Opened(b))]
           \/ windows' = Peeked(b)
           \/ windows' = [Peeked(b) EXCEPT ![g] = Live(@)]
           \/ windows' = [Peeked(g) EXCEPT ![b] = Spent(Opened(b))]
    PROVE  Requested
<1>1. DOMAIN windows = Buckets /\ windows = [x \in Buckets |-> windows[x]]
    BY DEF Ledger
<1>2. Live(Live(windows[b])) = Live(windows[b])
    BY LiveShape, NoneIsNoWindow DEF Ledger, Live
<1>3. \A x \in Buckets : windows'[x] \in Touched(x)
    BY <1>1, <1>2 DEF Peeked, Touched
<1>4. windows' = [x \in Buckets |-> windows'[x]]
    BY <1>1 DEF Peeked
<1>q. QED
    BY <1>3, <1>4 DEF Requested

LEMMA ReachIsRequested ==
    ASSUME Ledger, NEW c \in Credentials, Reach(c)
    PROVE  Requested /\ UNCHANGED <<lever, hits>>
<1>1. Requested
    BY CoreBuckets, TakenIsRequested DEF Reach, count
<1>q. QED
    BY <1>1 DEF Reach

LEMMA OthersAreRequested ==
    ASSUME Ledger, NEW c \in Credentials
    PROVE  /\ \A matches \in BOOLEAN : ListIssues(c, matches) => Requested /\ UNCHANGED <<lever, hits>>
           /\ Graphql(c) => Requested /\ UNCHANGED <<lever, hits>>
           /\ Refuse(c) => Requested
<1>1. ASSUME NEW matches \in BOOLEAN, ListIssues(c, matches)
      PROVE  Requested /\ UNCHANGED <<lever, hits>>
    <2>1. CASE matches
        BY <1>1, <2>1, CoreBuckets, TakenIsRequested DEF ListIssues
    <2>2. CASE ~matches
        BY <1>1, <2>2, ReachIsRequested DEF ListIssues
    <2>q. QED
        BY <2>1, <2>2
<1>2. ASSUME Graphql(c)
      PROVE  Requested /\ UNCHANGED <<lever, hits>>
    <2>1. CASE Opened(<<c, "graphql">>).remaining <= 0
        BY <1>2, <2>1, CoreBuckets, TakenIsRequested DEF Graphql
    <2>2. CASE ~(Opened(<<c, "graphql">>).remaining <= 0)
        BY <1>2, <2>2, CoreBuckets, TakenIsRequested DEF Graphql
    <2>q. QED
        BY <2>1, <2>2
<1>3. ASSUME Refuse(c)
      PROVE  Requested
    <2>1. CASE lever.kind \in Expiring
        BY <1>3, <2>1, CoreBuckets, TakenIsRequested DEF Refuse
    <2>2. CASE lever.kind \notin Expiring
        <3>1. UNCHANGED <<windows, template, now, budget>> /\ windows = [x \in Buckets |-> windows[x]]
            BY <1>3, <2>2 DEF Refuse, Ledger
        <3>q. QED
            BY <3>1 DEF Requested, Touched
    <2>q. QED
        BY <2>1, <2>2
<1>q. QED
    BY <1>1, <1>2, <1>3

(* A budget for one token ends the one for all.                              *)
LEMMA SetBudgetKeeps ==
    ASSUME Ledger, NEW c \in Credentials, NEW remaining \in Budgets \cup {None},
           NEW reset \in (now + 1)..(now + Span) \cup {None}, SetBudget(c, remaining, reset)
    PROVE  Ledger' /\ Bound'
<1> DEFINE b == <<c, "core">>
           w == Applied(Opened(b), remaining, reset)
<1>1. remaining \in Nat \cup {None} /\ reset \in Nat \cup {None}
    BY DeskAssumption DEF Ledger
<1>2. w \in Window
    BY <1>1, CoreBuckets, OpenedShape, AppliedShape
<1>3. windows' \in [Buckets -> Window \cup {None}]
    BY <1>2, CoreBuckets DEF SetBudget, Ledger
<1>4. template' \in Window \cup {None}
    BY CoreBuckets, OpenedShape, LiveShape DEF SetBudget, Ledger
<1>q. QED
    BY <1>3, <1>4 DEF SetBudget, Ledger, Bound

LEMMA SetBudgetForAllKeeps ==
    ASSUME Ledger, NEW remaining \in Budgets \cup {None},
           NEW reset \in (now + 1)..(now + Span) \cup {None}, SetBudgetForAll(remaining, reset)
    PROVE  Ledger' /\ Bound'
<1>1. remaining \in Nat \cup {None} /\ reset \in Nat \cup {None} /\ now \in Nat
    BY DeskAssumption DEF Ledger
<1>2. template' \in Window /\ template' # None
    BY <1>1, DeskAssumption DEF SetBudgetForAll, Window
<1>3. ASSUME NEW b \in Buckets
      PROVE  /\ BudgetedWindow(b, remaining, reset) \in Window \cup {None}
             /\ remaining # None /\ BudgetedWindow(b, remaining, reset) # None =>
                    BudgetedWindow(b, remaining, reset).remaining = remaining
    <2>1. CASE Live(windows[b]) # None
        <3>1. windows[b] \in Window
            BY <2>1, LiveShape DEF Ledger
        <3>q. QED
            BY <1>1, <2>1, <3>1, AppliedShape DEF BudgetedWindow
    <2>2. CASE Live(windows[b]) = None
        BY <1>1, <2>2, OpenedShape, AppliedShape DEF BudgetedWindow
    <2>q. QED
        BY <2>1, <2>2
<1>4. windows' \in [Buckets -> Window \cup {None}] /\ \A b \in Buckets : windows'[b] = BudgetedWindow(b, remaining, reset)
    BY <1>3 DEF SetBudgetForAll
<1>5. Ledger'
    BY <1>2, <1>4 DEF SetBudgetForAll, Ledger
<1>6. Bound'
    <2>1. CASE remaining = None
        BY <2>1 DEF SetBudgetForAll, Bound
    <2>2. CASE remaining # None
        <3>1. budget' = template' /\ template'.remaining = remaining /\ remaining \in Nat
            BY <1>1, <2>2 DEF SetBudgetForAll
        <3>2. \A b \in Buckets : windows'[b] # None => windows'[b].remaining <= budget'.remaining
            BY <1>3, <1>4, <2>2, <3>1
        <3>q. QED
            BY <3>1, <3>2 DEF Bound
    <2>q. QED
        BY <2>1, <2>2
<1>q. QED
    BY <1>5, <1>6

-----------------------------------------------------------------------------
(* Levers                                                                    *)

LEMMA RefuseCounts ==
    ASSUME Levered, NEW c \in Credentials, Refuse(c)
    PROVE  Levered'
<1>0. lever # None /\ lever \in Lever /\ hits \in Nat
    BY DEF Levered, Refuse
<1>1. CASE lever.kind \in Expiring
    <2>1. lever' = Consumed /\ hits' = IF lever' = None \/ lever.left = None THEN 0 ELSE hits + 1
        BY <1>1 DEF Refuse
    <2>2. CASE lever.left = None
        BY <1>0, <2>1, <2>2, NoneIsNoWindow DEF Levered, Consumed, Lever
    <2>3. CASE lever.left # None
        <3>1. lever.left \in Nat /\ lever.armed \in Nat /\ lever.left + hits = lever.armed
            BY <1>0, <2>3 DEF Levered, Lever
        <3>2. CASE lever.left <= 1
            BY <2>1, <2>3, <3>2 DEF Levered, Consumed
        <3>3. CASE lever.left > 1
            <4>1. lever' = [lever EXCEPT !.left = @ - 1]
                BY <2>1, <2>3, <3>1, <3>3 DEF Consumed
            <4>2. lever'.left = lever.left - 1 /\ lever'.armed = lever.armed /\ lever' \in Lever
                BY <1>0, <3>1, <3>3, <4>1 DEF Lever
            <4>3. lever' = None \/ hits' = hits + 1
                BY <2>1, <2>3
            <4>4. hits' \in Nat
                BY <1>0, <2>1
            <4>q. QED
                BY <1>0, <3>1, <3>3, <4>2, <4>3, <4>4, DeskAssumption DEF Levered
        <3>q. QED
            BY <3>1, <3>2, <3>3
    <2>q. QED
        BY <2>2, <2>3
<1>2. CASE lever.kind \notin Expiring
    BY <1>2 DEF Refuse, Levered
<1>q. QED
    BY <1>1, <1>2

LEMMA ArmRefusalCounts ==
    ASSUME NEW kind \in Refusals, NEW left \in Counts \cup {None}, ArmRefusal(kind, left)
    PROVE  Levered'
<1>1. left \in Nat \cup {None} /\ None \notin Nat
    BY DeskAssumption
<1>2. lever' \in Lever /\ hits' = 0 /\ lever'.left = lever'.armed
    BY <1>1 DEF ArmRefusal, Lever
<1>3. lever'.left \in Nat \cup {None}
    BY <1>2 DEF Lever
<1>q. QED
    BY <1>1, <1>2, <1>3 DEF Levered

-----------------------------------------------------------------------------
(* Numbers and rows                                                          *)

LEMMA NewNumberIsNew ==
    ASSUME Numbered
    PROVE  /\ NewNumber \in Nat \ {0} /\ NewNumber \notin DOMAIN issues \cup pull_numbers
           /\ Cardinality(DOMAIN issues) \in Nat /\ Cardinality(pull_numbers) \in Nat
<1>1. Cardinality(DOMAIN issues) \in Nat /\ Cardinality(pull_numbers) \in Nat
    BY FS_CardinalityType DEF Numbered
<1>q. QED
    BY <1>1 DEF Numbered, NewNumber

LEMMA IssueNumbered ==
    ASSUME Numbered, Rows, NEW c \in Credentials, NEW ls \in SUBSET Labels, create_issue(c, ls)
    PROVE  Numbered' /\ Rows'
<1> DEFINE I == DOMAIN issues
<1>0. MaxEach \in Nat /\ MaxComments \in Nat
    BY DeskAssumption
<1>1. /\ NewNumber \in Nat \ {0} /\ NewNumber \notin I \cup pull_numbers
      /\ Cardinality(I) \in Nat /\ Cardinality(pull_numbers) \in Nat
    BY NewNumberIsNew
<1>2. /\ issues' = [n \in I \cup {NewNumber} |->
                       IF n \in I THEN issues[n] ELSE [open |-> TRUE, labels |-> ls, comments |-> 0]]
      /\ pull_numbers' = pull_numbers /\ labels' = labels /\ Cardinality(I) < MaxEach
    BY DEF create_issue
<1>3. DOMAIN issues' = I \cup {NewNumber}
    BY <1>2
<1>4. IsFiniteSet(DOMAIN issues') /\ Cardinality(DOMAIN issues') = Cardinality(I) + 1
    <2>1. IsFiniteSet(I)
        BY DEF Numbered
    <2>2. IsFiniteSet(I \cup {NewNumber}) /\ Cardinality(I \cup {NewNumber}) = Cardinality(I) + 1
        <3> HIDE DEF I
        <3>q. QED
            BY <1>1, <2>1, FS_AddElement
    <2>q. QED
        BY <1>3, <2>2
<1>5. NewNumber' = NewNumber + 1
    BY <1>1, <1>2, <1>4 DEF NewNumber
<1>6. 1..(NewNumber' - 1) = (1..(NewNumber - 1)) \cup {NewNumber}
    BY <1>1, <1>5
<1>7. DOMAIN issues' \cup pull_numbers' = 1..(NewNumber' - 1) /\ (DOMAIN issues') \cap pull_numbers' = {}
    BY <1>1, <1>2, <1>3, <1>6 DEF Numbered
<1>8. Numbered'
    BY <1>0, <1>1, <1>2, <1>4, <1>7 DEF Numbered
<1>9. [open |-> TRUE, labels |-> ls, comments |-> 0] \in IssueRow
    BY <1>0 DEF IssueRow
<1>10. Rows'
    BY <1>2, <1>3, <1>9 DEF Rows
<1>q. QED
    BY <1>8, <1>10

LEMMA PullNumbered ==
    ASSUME Numbered, Rows, NEW c \in Credentials, number_pull(c)
    PROVE  Numbered' /\ Rows'
<1>0. MaxEach \in Nat
    BY DeskAssumption
<1>1. /\ NewNumber \in Nat \ {0} /\ NewNumber \notin DOMAIN issues \cup pull_numbers
      /\ Cardinality(DOMAIN issues) \in Nat /\ Cardinality(pull_numbers) \in Nat
    BY NewNumberIsNew
<1>2. pull_numbers' = pull_numbers \cup {NewNumber} /\ issues' = issues /\ labels' = labels /\ Cardinality(pull_numbers) < MaxEach
    BY DEF number_pull
<1>3. IsFiniteSet(pull_numbers') /\ Cardinality(pull_numbers') = Cardinality(pull_numbers) + 1
    <2>1. IsFiniteSet(pull_numbers)
        BY DEF Numbered
    <2>2. IsFiniteSet(pull_numbers \cup {NewNumber}) /\ Cardinality(pull_numbers \cup {NewNumber}) = Cardinality(pull_numbers) + 1
        BY <1>1, <2>1, FS_AddElement
    <2>q. QED
        BY <1>2, <2>2
<1>4. NewNumber' = NewNumber + 1
    BY <1>1, <1>2, <1>3 DEF NewNumber
<1>5. 1..(NewNumber' - 1) = (1..(NewNumber - 1)) \cup {NewNumber}
    BY <1>1, <1>4
<1>6. DOMAIN issues' \cup pull_numbers' = 1..(NewNumber' - 1) /\ (DOMAIN issues') \cap pull_numbers' = {}
    BY <1>1, <1>2, <1>5 DEF Numbered
<1>7. Numbered'
    BY <1>0, <1>1, <1>2, <1>3, <1>6 DEF Numbered
<1>q. QED
    BY <1>2, <1>7 DEF Rows

(* A step that rewrites rows in place numbers nothing.                       *)
LEMMA RewriteNumbered ==
    ASSUME Numbered, DOMAIN issues' = DOMAIN issues, pull_numbers' = pull_numbers
    PROVE  Numbered'
BY DEF Numbered, NewNumber

(* An issue under the bound on comments has fewer comments than the bound:   *)
(* its own are among those counted.                                          *)
LEMMA CommentsCounted ==
    ASSUME Numbered, Rows, NEW n \in DOMAIN issues, Cardinality(Comments) < MaxComments
    PROVE  issues[n].comments < MaxComments
<1>0. MaxComments \in Nat /\ issues[n].comments \in 0..MaxComments
    BY DeskAssumption DEF Rows, IssueRow
<1>1. SUFFICES ASSUME issues[n].comments = MaxComments
               PROVE  FALSE
    BY <1>0
<1>2. {n} \X (1..MaxComments) \subseteq Comments
    BY <1>0, <1>1 DEF Comments
<1>3. IsFiniteSet(1..MaxComments) /\ Cardinality(1..MaxComments) = MaxComments
    BY <1>0, FS_Interval
<1>4. IsFiniteSet({n} \X (1..MaxComments)) /\ Cardinality({n} \X (1..MaxComments)) = MaxComments
    <2>1. IsFiniteSet({n}) /\ Cardinality({n}) = 1
        BY FS_Singleton
    <2>q. QED
        BY <1>0, <1>3, <2>1, FS_Product
<1>5. IsFiniteSet(Comments)
    <2>1. IsFiniteSet((DOMAIN issues) \X (1..MaxComments))
        BY <1>3, FS_Product DEF Numbered
    <2>q. QED
        BY <2>1, FS_Subset DEF Comments
<1>6. Cardinality({n} \X (1..MaxComments)) <= Cardinality(Comments) /\ Cardinality(Comments) \in Nat
    BY <1>2, <1>5, FS_Subset, FS_CardinalityType
<1>q. QED
    BY <1>0, <1>4, <1>6

-----------------------------------------------------------------------------
(* Every step keeps the invariant.                                           *)

(* The routes of issues and labels.                                          *)
LEMMA RoutesKeepRows ==
    ASSUME Numbered, Rows, IssueRoutes \/ LabelRoutes
    PROVE  Numbered' /\ Rows'
<1>0. MaxComments \in Nat
    BY DeskAssumption
<1>1. ASSUME NEW n \in DOMAIN issues, NEW row \in IssueRow, issues' = [issues EXCEPT ![n] = row],
             UNCHANGED <<pull_numbers, labels>>
      PROVE  Numbered' /\ Rows'
    <2>1. DOMAIN issues' = DOMAIN issues /\ \A k \in DOMAIN issues : issues'[k] = IF k = n THEN row ELSE issues[k]
        BY <1>1
    <2>2. Numbered'
        BY <1>1, <2>1, RewriteNumbered
    <2>q. QED
        BY <1>1, <2>1, <2>2 DEF Rows
<1>2. \A n \in DOMAIN issues : issues[n] \in IssueRow
    BY DEF Rows
<1>3. CASE IssueRoutes
    <2>1. PICK c \in Credentials :
              \/ number_pull(c) \/ \E matches \in BOOLEAN : ListIssues(c, matches)
              \/ \E ls \in SUBSET Labels : create_issue(c, ls)
              \/ \E n \in DOMAIN issues : create_issue_comment(c, n) \/ \E open \in BOOLEAN : set_issue_state(c, n, open)
        BY <1>3 DEF IssueRoutes
    <2>2. CASE number_pull(c)
        BY <2>2, PullNumbered
    <2>3. CASE \E matches \in BOOLEAN : ListIssues(c, matches)
        <3>1. UNCHANGED store
            BY <2>3 DEF ListIssues
        <3>q. QED
            BY <3>1, RewriteNumbered DEF store, Rows
    <2>4. CASE \E ls \in SUBSET Labels : create_issue(c, ls)
        BY <2>4, IssueNumbered
    <2>5. ASSUME NEW n \in DOMAIN issues, create_issue_comment(c, n)
          PROVE  Numbered' /\ Rows'
        <3>1. issues' = [issues EXCEPT ![n].comments = @ + 1] /\ UNCHANGED <<pull_numbers, labels>>
            BY <2>5 DEF create_issue_comment
        <3>2. issues[n].comments < MaxComments
            BY <2>5, CommentsCounted DEF create_issue_comment
        <3>3. [issues[n] EXCEPT !.comments = @ + 1] \in IssueRow
            BY <1>0, <1>2, <3>2 DEF IssueRow
        <3>q. QED
            BY <1>1, <3>1, <3>3
    <2>6. ASSUME NEW n \in DOMAIN issues, NEW open \in BOOLEAN, set_issue_state(c, n, open)
          PROVE  Numbered' /\ Rows'
        <3>1. issues' = [issues EXCEPT ![n].open = open] /\ UNCHANGED <<pull_numbers, labels>>
            BY <2>6 DEF set_issue_state
        <3>2. [issues[n] EXCEPT !.open = open] \in IssueRow
            BY <1>2 DEF IssueRow
        <3>q. QED
            BY <1>1, <3>1, <3>2
    <2>q. QED
        BY <2>1, <2>2, <2>3, <2>4, <2>5, <2>6
<1>4. CASE LabelRoutes
    <2>1. PICK c \in Credentials, l \in Labels :
              \/ create_label(c, l)
              \/ \E n \in DOMAIN issues : add_issue_labels(c, n, l) \/ remove_issue_label(c, n, l)
        BY <1>4 DEF LabelRoutes
    <2>2. CASE create_label(c, l)
        BY <2>2, RewriteNumbered DEF create_label, Rows
    <2>3. ASSUME NEW n \in DOMAIN issues, add_issue_labels(c, n, l)
          PROVE  Numbered' /\ Rows'
        <3>1. issues' = [issues EXCEPT ![n].labels = @ \cup {l}] /\ UNCHANGED <<pull_numbers, labels>>
            BY <2>3 DEF add_issue_labels
        <3>2. [issues[n] EXCEPT !.labels = @ \cup {l}] \in IssueRow
            BY <1>2 DEF IssueRow
        <3>q. QED
            BY <1>1, <3>1, <3>2
    <2>4. ASSUME NEW n \in DOMAIN issues, remove_issue_label(c, n, l)
          PROVE  Numbered' /\ Rows'
        <3>1. issues' = [issues EXCEPT ![n].labels = @ \ {l}] /\ UNCHANGED <<pull_numbers, labels>>
            BY <2>4 DEF remove_issue_label
        <3>2. [issues[n] EXCEPT !.labels = @ \ {l}] \in IssueRow
            BY <1>2 DEF IssueRow
        <3>q. QED
            BY <1>1, <3>1, <3>2
    <2>q. QED
        BY <2>1, <2>2, <2>3, <2>4
<1>q. QED
    BY <1>3, <1>4

(* A route behind the middleware spends from the ledger as a request does    *)
(* and leaves the levers alone.                                              *)
LEMMA RoutesKeepLedger ==
    ASSUME Ledger, Bound, Levered, IssueRoutes \/ LabelRoutes
    PROVE  Ledger' /\ Bound' /\ Levered'
<1>1. \/ \E c \in Credentials : Reach(c)
      \/ \E c \in Credentials, matches \in BOOLEAN : ListIssues(c, matches)
    BY DEF IssueRoutes, LabelRoutes, create_issue, number_pull, set_issue_state, create_issue_comment,
           create_label, add_issue_labels, remove_issue_label
<1>2. Requested /\ UNCHANGED <<lever, hits>>
    BY <1>1, ReachIsRequested, OthersAreRequested
<1>q. QED
    BY <1>2, RequestedKeeps DEF Levered

LEMMA LeversKeep ==
    ASSUME Ledger, Bound, Levered, DeskLeverRoutes
    PROVE  Ledger' /\ Bound' /\ Levered' /\ UNCHANGED store
<1>1. ASSUME NEW kind \in Refusals, NEW left \in Counts \cup {None}, ArmRefusal(kind, left)
      PROVE  Ledger' /\ Bound' /\ Levered' /\ UNCHANGED store
    <2>1. UNCHANGED <<now, windows, template, issues, pull_numbers, labels, budget>> /\ Levered'
        BY <1>1, ArmRefusalCounts DEF ArmRefusal
    <2>q. QED
        BY <2>1 DEF Ledger, Bound, store
<1>2. ASSUME NEW remaining \in Budgets \cup {None}, NEW reset \in (now + 1)..(now + Span) \cup {None},
             SetBudgetForAll(remaining, reset) \/ \E c \in Credentials : SetBudget(c, remaining, reset)
      PROVE  Ledger' /\ Bound' /\ Levered' /\ UNCHANGED store
    <2>1. Ledger' /\ Bound'
        BY <1>2, SetBudgetKeeps, SetBudgetForAllKeeps
    <2>2. UNCHANGED <<lever, hits, issues, pull_numbers, labels>>
        BY <1>2 DEF SetBudgetForAll, SetBudget
    <2>q. QED
        BY <2>1, <2>2 DEF Levered, store
<1>3. CASE ClearRefusal
    BY <1>3 DEF ClearRefusal, Ledger, Bound, Levered, store
<1>4. CASE ClearAll
    BY <1>4 DEF ClearAll, Ledger, Bound, Levered, store
<1>q. QED
    BY <1>1, <1>2, <1>3, <1>4 DEF DeskLeverRoutes

LEMMA TickKeeps ==
    ASSUME Ledger, Bound, Tick
    PROVE  Ledger' /\ Bound'
<1>1. now' = now + 1 /\ now \in Nat /\ now' \in 0..MaxTime /\ UNCHANGED <<windows, template, budget>>
    BY DeskAssumption DEF Tick, Ledger
<1>2. Ledger'
    BY <1>1 DEF Ledger
<1>3. \A w \in Window : now' < w.reset => now < w.reset
    BY <1>1 DEF Window
<1>4. \A b \in Buckets : windows[b] \in Window \cup {None}
    BY DEF Ledger
<1>5. budget \in Window \cup {None}
    BY DEF Ledger
<1>6. Bound'
    BY <1>1, <1>3, <1>4, <1>5 DEF Bound
<1>q. QED
    BY <1>2, <1>6

LEMMA StartsGood == DeskInit => DeskInv
<1> SUFFICES ASSUME DeskInit
             PROVE  DeskInv
    OBVIOUS
<1>1. DOMAIN issues = {} /\ pull_numbers = {}
    BY DEF DeskInit
<1>2. Numbered
    <2>1. NewNumber = 1 /\ 1..(NewNumber - 1) = {}
        BY <1>1, FS_EmptySet DEF NewNumber
    <2>q. QED
        BY <1>1, <2>1, FS_EmptySet, DeskAssumption DEF Numbered
<1>3. Ledger /\ Bound /\ Levered /\ Rows
    BY <1>1, DeskAssumption DEF DeskInit, Ledger, Bound, Levered, Rows
<1>q. QED
    BY <1>2, <1>3 DEF DeskInv

LEMMA StepsKeep == DeskInv /\ [DeskNext]_deskVars => DeskInv'
<1> SUFFICES ASSUME DeskInv, [DeskNext]_deskVars
             PROVE  DeskInv'
    OBVIOUS
<1>0. Ledger /\ Bound /\ Levered /\ Numbered /\ Rows
    BY DEF DeskInv
<1>1. UNCHANGED store => Numbered' /\ Rows'
    BY <1>0, RewriteNumbered DEF store, Rows
<1>2. CASE IssueRoutes \/ LabelRoutes
    BY <1>0, <1>2, RoutesKeepRows, RoutesKeepLedger DEF DeskInv
<1>3. CASE DeskLeverRoutes
    BY <1>0, <1>1, <1>3, LeversKeep DEF DeskInv
<1>4. CASE Tick
    <2>1. UNCHANGED store /\ UNCHANGED <<lever, hits>>
        BY <1>4 DEF Tick, store
    <2>q. QED
        BY <1>0, <1>1, <1>4, <2>1, TickKeeps DEF DeskInv, Levered
<1>5. ASSUME NEW c \in Credentials, Refuse(c)
      PROVE  DeskInv'
    <2>1. UNCHANGED store
        BY <1>5 DEF Refuse, store
    <2>2. Ledger' /\ Bound' /\ Levered'
        BY <1>0, <1>5, OthersAreRequested, RequestedKeeps, RefuseCounts
    <2>q. QED
        BY <1>1, <2>1, <2>2 DEF DeskInv
<1>6. ASSUME NEW c \in Credentials, Graphql(c)
      PROVE  DeskInv'
    <2>1. UNCHANGED store
        BY <1>6 DEF Graphql, store
    <2>2. Ledger' /\ Bound' /\ Levered'
        BY <1>0, <1>6, OthersAreRequested, RequestedKeeps DEF Levered
    <2>q. QED
        BY <1>1, <2>1, <2>2 DEF DeskInv
<1>7. CASE UNCHANGED deskVars
    BY <1>0, <1>1, <1>7 DEF deskVars, store, DeskInv, Ledger, Bound, Levered
<1>q. QED
    BY <1>2, <1>3, <1>4, <1>5, <1>6, <1>7 DEF DeskNext

(* The ledger, the levers and the numbering hold together in every state.    *)
THEOREM DeskInvariant == DeskSpec => []DeskInv
<1>q. QED
    BY StartsGood, StepsKeep, PTL DEF DeskSpec

(* Windows, levers and rows keep their shapes, a window's remaining never    *)
(* under zero and no number beyond what the counters may hand out.           *)
THEOREM DeskTypeCorrect == DeskSpec => []DeskTypeOK
<1>1. DeskInv => DeskTypeOK
    <2> SUFFICES ASSUME DeskInv
                 PROVE  DeskTypeOK
        OBVIOUS
    <2>1. Cardinality(DOMAIN issues) \in Nat /\ Cardinality(pull_numbers) \in Nat /\ MaxEach \in Nat
        BY NewNumberIsNew, DeskAssumption DEF DeskInv
    <2>2. NewNumber - 1 <= 2 * MaxEach /\ NewNumber \in Nat
        BY <2>1 DEF DeskInv, Numbered, NewNumber
    <2>3. DOMAIN issues \subseteq 1..(2 * MaxEach) /\ pull_numbers \subseteq 1..(2 * MaxEach)
        <3>1. 1..(NewNumber - 1) \subseteq 1..(2 * MaxEach)
            BY <2>1, <2>2
        <3>q. QED
            BY <3>1 DEF DeskInv, Numbered
    <2>q. QED
        BY <2>3 DEF DeskInv, Ledger, Levered, Rows, DeskTypeOK
<1>q. QED
    BY <1>1, DeskInvariant, PTL

(* A budget set for every token binds every bucket until its reset, those    *)
(* that run out and those first used meanwhile (set_budget, _fresh, _live).  *)
THEOREM BudgetBinds == DeskSpec => []BudgetBindsEveryBucket
<1>1. DeskInv => BudgetBindsEveryBucket
    BY OpenedBound DEF DeskInv, BudgetBindsEveryBucket, peek
<1>q. QED
    BY <1>1, DeskInvariant, PTL

(* A lever never refuses more requests than it was armed for, or one when    *)
(* armed for none (ILeverStore.consume).                                     *)
THEOREM LeverCounts == DeskSpec => []LeverRefusesItsCount
<1>1. DeskInv => LeverRefusesItsCount
    <2> SUFFICES ASSUME DeskInv, lever # None, lever.armed # None
                 PROVE  hits < (IF lever.armed > 1 THEN lever.armed ELSE 1)
        BY DEF LeverRefusesItsCount
    <2>1. lever.armed \in Nat /\ lever.left \in Nat /\ hits \in Nat
        BY DEF DeskInv, Levered, Lever
    <2>q. QED
        BY <2>1 DEF DeskInv, Levered
<1>q. QED
    BY <1>1, DeskInvariant, PTL

(* Issues and pulls share one numbering: it has no gap, no number is both    *)
(* (an issue stays an issue), and the next one handed out is neither         *)
(* (create_issue, create_pull).                                              *)
THEOREM NumberingShared ==
    DeskSpec => [](/\ (DOMAIN issues) \cap pull_numbers = {}
                   /\ DOMAIN issues \cup pull_numbers = 1..(NewNumber - 1)
                   /\ NewNumber \notin DOMAIN issues \cup pull_numbers)
<1>1. DeskInv => /\ (DOMAIN issues) \cap pull_numbers = {}
                 /\ DOMAIN issues \cup pull_numbers = 1..(NewNumber - 1)
                 /\ NewNumber \notin DOMAIN issues \cup pull_numbers
    BY NewNumberIsNew DEF DeskInv, Numbered
<1>q. QED
    BY <1>1, DeskInvariant, PTL
=============================================================================
