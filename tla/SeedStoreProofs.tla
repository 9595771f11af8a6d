-------------------------- MODULE SeedStoreProofs --------------------------
(* Proofs about SeedStore: what a verb read still holds of the rows it wrote *)
(* from it, no outbox number is issued twice, a chunk lands at the status it *)
(* was asked for, and a fleet cut short is safe.  For any invocations,       *)
(* tenants, runners and flags, and any stores the tool is first run against. *)
EXTENDS SeedStore, FiniteSetTheorems, WellFoundedInduction, TLAPS

-----------------------------------------------------------------------------
(* Rows of sequences                                                         *)

(* A value that is a sequence of something.                                  *)
IsSeq(s) == \E S : s \in Seq(S)

(* A set of naturals has a least element.                                    *)
LEMMA Least ==
    ASSUME NEW T, T \subseteq Nat, T # {}
    PROVE  \E n \in T : \A m \in T : n <= m
<1> DEFINE R == OpToRel(<, Nat)
<1>1. IsWellFoundedOn(R, Nat) BY NatLessThanWellFounded
<1>2. \A x, y \in Nat : x < y => <<x, y>> \in R BY DEF OpToRel
<1> HIDE DEF R
<1>3. PICK x \in T : \A y \in T : <<y, x>> \notin R BY <1>1, WFMin
<1>4. \A y \in T : x <= y
  <2> TAKE y \in T
  <2>1. x \in Nat /\ y \in Nat /\ ~(y < x) BY <1>2, <1>3
  <2>2. QED BY <2>1
<1>5. QED BY <1>4

(* What a sequence is made of.                                               *)
LEMMA SeqParts ==
    ASSUME NEW s, IsSeq(s)
    PROVE  Len(s) \in Nat /\ DOMAIN s = 1 .. Len(s)
BY DEF IsSeq

(* A concatenation holds the rows of both, a tuple its members.              *)
LEMMA CatRows ==
    ASSUME NEW s, NEW t, IsSeq(s), IsSeq(t)
    PROVE  IsSeq(s \o t) /\ Rows(s \o t) = Rows(s) \cup Rows(t)
<1>1. PICK S : s \in Seq(S) BY DEF IsSeq
<1>2. PICK T : t \in Seq(T) BY DEF IsSeq
<1>3. PICK U : U = S \cup T OBVIOUS
<1>4. s \in Seq(U) /\ t \in Seq(U) BY <1>1, <1>2, <1>3
<1>5. s \o t \in Seq(U) BY <1>4
<1>6. /\ DOMAIN (s \o t) = 1 .. Len(s) + Len(t)
      /\ \A i \in 1 .. Len(s) : (s \o t)[i] = s[i]
      /\ \A i \in 1 .. Len(t) : (s \o t)[Len(s) + i] = t[i]
      /\ Len(s) \in Nat /\ Len(t) \in Nat /\ DOMAIN s = 1 .. Len(s) /\ DOMAIN t = 1 .. Len(t)
  BY <1>4
<1>7. Rows(s \o t) \subseteq Rows(s) \cup Rows(t)
  <2> SUFFICES ASSUME NEW i \in DOMAIN (s \o t) PROVE (s \o t)[i] \in Rows(s) \cup Rows(t) BY DEF Rows
  <2>1. CASE i <= Len(s) BY <1>6, <2>1 DEF Rows
  <2>2. CASE i > Len(s)
    <3>1. i - Len(s) \in 1 .. Len(t) /\ i = Len(s) + (i - Len(s)) BY <1>6, <2>2
    <3>2. (s \o t)[i] = t[i - Len(s)] BY <1>6, <3>1
    <3>3. QED BY <1>6, <3>1, <3>2 DEF Rows
  <2>3. QED BY <1>6, <2>1, <2>2
<1>8. Rows(s) \subseteq Rows(s \o t)
  <2> SUFFICES ASSUME NEW i \in DOMAIN s PROVE s[i] \in Rows(s \o t) BY DEF Rows
  <2>1. i \in DOMAIN (s \o t) /\ (s \o t)[i] = s[i] BY <1>6
  <2>2. QED BY <2>1 DEF Rows
<1>9. Rows(t) \subseteq Rows(s \o t)
  <2> SUFFICES ASSUME NEW i \in DOMAIN t PROVE t[i] \in Rows(s \o t) BY DEF Rows
  <2>1. Len(s) + i \in DOMAIN (s \o t) /\ (s \o t)[Len(s) + i] = t[i] BY <1>6
  <2>2. QED BY <2>1 DEF Rows
<1>10. IsSeq(s \o t) BY <1>5 DEF IsSeq
<1>11. QED BY <1>7, <1>8, <1>9, <1>10

LEMMA TupleRows ==
    /\ IsSeq(<< >>) /\ Rows(<< >>) = {}
    /\ \A a : IsSeq(<< a >>) /\ Rows(<< a >>) = {a}
    /\ \A a, b : IsSeq(<< a, b >>) /\ Rows(<< a, b >>) = {a, b}
    /\ \A a, b, c : IsSeq(<< a, b, c >>) /\ Rows(<< a, b, c >>) = {a, b, c}
<1>1. IsSeq(<< >>) /\ Rows(<< >>) = {}
  <2>1. << >> \in Seq({}) OBVIOUS
  <2>2. QED BY <2>1 DEF IsSeq, Rows
<1>2. ASSUME NEW a PROVE IsSeq(<< a >>) /\ Rows(<< a >>) = {a}
  <2>1. << a >> \in Seq({a}) OBVIOUS
  <2>2. Rows(<< a >>) = {a} BY DEF Rows
  <2>3. QED BY <2>1, <2>2 DEF IsSeq
<1>3. ASSUME NEW a, NEW b PROVE IsSeq(<< a, b >>) /\ Rows(<< a, b >>) = {a, b}
  <2>1. << a, b >> \in Seq({a, b}) OBVIOUS
  <2>2. PICK s : s = << a, b >> OBVIOUS
  <2>3. DOMAIN s = {1, 2} /\ s[1] = a /\ s[2] = b BY <2>2
  <2>4. Rows(s) = {a, b} BY <2>3 DEF Rows
  <2>5. QED BY <2>1, <2>2, <2>4 DEF IsSeq
<1>4. ASSUME NEW a, NEW b, NEW c PROVE IsSeq(<< a, b, c >>) /\ Rows(<< a, b, c >>) = {a, b, c}
  <2>1. << a, b, c >> \in Seq({a, b, c}) OBVIOUS
  <2>2. PICK s : s = << a, b, c >> OBVIOUS
  <2>3. DOMAIN s = {1, 2, 3} /\ s[1] = a /\ s[2] = b /\ s[3] = c BY <2>2
  <2>4. Rows(s) = {a, b, c} BY <2>3 DEF Rows
  <2>5. QED BY <2>1, <2>2, <2>4 DEF IsSeq
<1>5. QED BY <1>1, <1>2, <1>3, <1>4

(* FlattenSeq is a recursion over the positions: it has a value.             *)
Joined(f, ss, n) == f = [i \in 1 .. n |-> IF i = 1 THEN ss[i] ELSE f[i - 1] \o ss[i]]
LEMMA JoinedExists ==
    ASSUME NEW ss, NEW n \in Nat
    PROVE  \E f : Joined(f, ss, n)
<1> SUFFICES ASSUME ~ \E f : Joined(f, ss, n) PROVE FALSE OBVIOUS
<1> DEFINE Bad == {m \in Nat : ~ \E f : Joined(f, ss, m)}
<1>1. PICK m \in Bad : \A k \in Bad : m <= k BY Least
<1>2. m \in Nat /\ ~ \E f : Joined(f, ss, m) OBVIOUS
<1>3. m # 0
  <2> SUFFICES ASSUME m = 0 PROVE FALSE OBVIOUS
  <2>1. PICK f : f = [i \in {} |-> << >>] OBVIOUS
  <2>2. 1 .. m = {} OBVIOUS
  <2>3. Joined(f, ss, m) BY <2>1, <2>2 DEF Joined
  <2>4. QED BY <1>2, <2>3
<1>4. m - 1 \in Nat /\ m - 1 \notin Bad BY <1>1, <1>2, <1>3
<1>5. PICK f : Joined(f, ss, m - 1) BY <1>4
<1> HIDE DEF Bad
<1>6. PICK g : g = [i \in 1 .. m |-> IF i = 1 THEN ss[i] ELSE f[i - 1] \o ss[i]] OBVIOUS
<1>7. \A i \in 1 .. m - 1 : f[i] = (IF i = 1 THEN ss[i] ELSE f[i - 1] \o ss[i]) BY <1>5, <1>2 DEF Joined
<1>8. \A i \in 1 .. m - 1 : g[i] = f[i] BY <1>2, <1>6, <1>7
<1>9. \A i \in 1 .. m : g[i] = (IF i = 1 THEN ss[i] ELSE g[i - 1] \o ss[i])
  <2> TAKE i \in 1 .. m
  <2>1. g[i] = (IF i = 1 THEN ss[i] ELSE f[i - 1] \o ss[i]) BY <1>6
  <2>2. i # 1 => i - 1 \in 1 .. m - 1 BY <1>2
  <2>3. i # 1 => f[i - 1] = g[i - 1] BY <1>8, <2>2
  <2>4. QED BY <2>1, <2>3
<1>10. Joined(g, ss, m) BY ZenonT(60), <1>6, <1>9 DEF Joined
<1>11. QED BY <1>2, <1>10

(* The rows of a flattened sequence are those of its members.                *)
LEMMA FlattenRows ==
    ASSUME NEW n \in Nat, NEW ss, IsSeq(ss), Len(ss) = n, \A i \in 1 .. n : IsSeq(ss[i])
    PROVE  IsSeq(FlattenSeq(ss)) /\ Rows(FlattenSeq(ss)) = UNION {Rows(ss[i]) : i \in 1 .. n}
<1>0. DOMAIN ss = 1 .. n BY SeqParts
<1>1. CASE n = 0
  <2>1. FlattenSeq(ss) = ss BY <1>1 DEF FlattenSeq
  <2>2. Rows(ss) = {} BY <1>0, <1>1 DEF Rows
  <2>3. QED BY <1>1, <2>1, <2>2
<1>2. CASE n # 0
  <2>1. FlattenSeq(ss) = (CHOOSE f : Joined(f, ss, n))[n] BY <1>2 DEF FlattenSeq, Joined
  <2>2. PICK f : f = (CHOOSE g : Joined(g, ss, n)) OBVIOUS
  <2>3. Joined(f, ss, n) BY <2>2, JoinedExists
  <2>4. \A i \in 1 .. n : f[i] = (IF i = 1 THEN ss[i] ELSE f[i - 1] \o ss[i]) BY <2>3 DEF Joined
  <2> DEFINE Fine(m) == IsSeq(f[m]) /\ Rows(f[m]) = UNION {Rows(ss[i]) : i \in 1 .. m}
  <2> DEFINE Bad == {m \in 1 .. n : ~Fine(m)}
  <2>5. Bad = {}
    <3> SUFFICES ASSUME Bad # {} PROVE FALSE OBVIOUS
    <3>1. Bad \subseteq Nat OBVIOUS
    <3>2. PICK m \in Bad : \A k \in Bad : m <= k BY <3>1, Least
    <3>3. m \in 1 .. n /\ ~Fine(m) OBVIOUS
    <3>4. m # 1
      <4> SUFFICES ASSUME m = 1 PROVE FALSE OBVIOUS
      <4>1. f[1] = ss[1] /\ 1 .. 1 = {1} BY <2>4, <3>3
      <4>2. UNION {Rows(ss[i]) : i \in {1}} = Rows(ss[1]) OBVIOUS
      <4>3. Fine(1) BY <4>1, <4>2, <3>3
      <4>4. QED BY <3>3, <4>3
    <3>5. m - 1 \in 1 .. n /\ m - 1 \notin Bad BY <3>2, <3>3, <3>4
    <3>6. Fine(m - 1) BY <3>5
    <3>7. f[m] = f[m - 1] \o ss[m] BY <2>4, <3>3, <3>4
    <3>8. IsSeq(f[m]) /\ Rows(f[m]) = Rows(f[m - 1]) \cup Rows(ss[m]) BY <3>3, <3>6, <3>7, CatRows
    <3>9. 1 .. m = (1 .. m - 1) \cup {m} BY <3>3
    <3>10. (UNION {Rows(ss[i]) : i \in 1 .. m}) = (UNION {Rows(ss[i]) : i \in 1 .. m - 1}) \cup Rows(ss[m]) BY <3>9
    <3>11. QED BY <3>3, <3>6, <3>8, <3>10
  <2>6. Fine(n) BY <1>2, <2>5
  <2>7. QED BY <2>1, <2>2, <2>6
<1>3. QED BY <1>1, <1>2

-----------------------------------------------------------------------------
(* Outbox numbers                                                            *)

(* The rows of one lane of one runner's outbox.                              *)
Outbox(r, lane) == {e \in runner.rows : e.runner = r /\ LaneOf(e.fact.table) = lane}

RunnerShape == runner = [rows |-> runner.rows, identity |-> runner.identity, counter |-> runner.counter]

(* A lane holds no number above its counter, except the one row a store from *)
(* before counters was found with.                                           *)
SeqsInv ==
    /\ RunnerShape
    /\ runner.counter \in [Runners \X Lanes -> Nat]
    /\ \A r \in Runners, lane \in Lanes : \A e \in Outbox(r, lane) :
          e.seq \in Nat /\ (runner.counter[<<r, lane>>] = 0 => e.seq = 1)
    /\ SeqsIssuedOnce

(* Max is the bound that is a member.                                        *)
LEMMA MaxIs ==
    ASSUME NEW S, S \subseteq Int, NEW m \in S, \A x \in S : x <= m
    PROVE  Max(S) = m
<1>1. PICK x : x = Max(S) OBVIOUS
<1>2. m \in S /\ \A y \in S : m >= y OBVIOUS
<1>3. x \in S /\ \A y \in S : x >= y BY <1>1, <1>2 DEF Max
<1>4. QED BY <1>1, <1>2, <1>3

(* The last number a lane issued bounds its counter and every row it holds.  *)
LEMMA LastIs ==
    ASSUME SeqsInv, NEW r \in Runners, NEW lane \in Lanes
    PROVE  /\ LastIssued(r, lane) \in Nat /\ runner.counter[<<r, lane>>] \in Nat
           /\ LastIssued(r, lane) >= runner.counter[<<r, lane>>]
           /\ \A e \in Outbox(r, lane) : e.seq <= LastIssued(r, lane)
<1>1. PICK c : c = runner.counter[<<r, lane>>] OBVIOUS
<1>2. c \in Nat BY <1>1 DEF SeqsInv
<1>3. PICK S : S = HeldSeqs(r, lane) OBVIOUS
<1>4. S = {e.seq : e \in Outbox(r, lane)} BY <1>3 DEF HeldSeqs, Outbox
<1>5. LastIssued(r, lane) = Max({c} \cup S) BY <1>1, <1>3 DEF LastIssued
<1>6. S \subseteq Nat BY <1>4 DEF SeqsInv
<1>7. CASE c # 0
  <2>1. \A e \in Outbox(r, lane) : e.seq <= c BY <1>1, <1>7 DEF SeqsInv, SeqsIssuedOnce, Outbox
  <2>2. \A x \in {c} \cup S : x <= c BY <1>2, <1>4, <2>1
  <2>3. Max({c} \cup S) = c
    <3>1. {c} \cup S \subseteq Int /\ c \in {c} \cup S BY <1>2, <1>6
    <3>2. QED BY <2>2, <3>1, MaxIs
  <2>4. QED BY <1>1, <1>2, <1>5, <2>1, <2>3
<1>8. CASE c = 0 /\ S = {}
  <2>1. Max({c} \cup S) = c BY <1>2, <1>8, MaxIs
  <2>2. Outbox(r, lane) = {} BY <1>4, <1>8
  <2>3. QED BY <1>1, <1>2, <1>5, <2>1, <2>2
<1>9. CASE c = 0 /\ S # {}
  <2>1. \A e \in Outbox(r, lane) : e.seq = 1 BY <1>1, <1>9 DEF SeqsInv
  <2>2. S = {1} BY <1>4, <1>9, <2>1
  <2>3. Max({c} \cup S) = 1
    <3>1. {c} \cup S \subseteq Int /\ 1 \in {c} \cup S /\ \A x \in {c} \cup S : x <= 1 BY <1>9, <2>2
    <3>2. QED BY <3>1, MaxIs
  <2>4. QED BY <1>1, <1>5, <1>9, <2>1, <2>3
<1>10. QED BY <1>7, <1>8, <1>9

(* How many rows of a lane a hand-over holds up to a position: it grows with *)
(* each of them.                                                             *)
LEMMA LaneCount ==
    ASSUME NEW rows, NEW lane, NEW n \in Nat
    PROVE  /\ \A i \in 0 .. n : Cardinality(LaneRows(rows, lane, i)) \in Nat
           /\ \A i, j \in 1 .. n : i < j /\ LaneOf(rows[j].table) = lane =>
                 Cardinality(LaneRows(rows, lane, i)) < Cardinality(LaneRows(rows, lane, j))
           /\ \A i \in 1 .. n : Cardinality(LaneRows(rows, lane, i)) <= Cardinality(LaneRows(rows, lane, n))
           /\ \A i \in 1 .. n : LaneOf(rows[i].table) = lane => Cardinality(LaneRows(rows, lane, i)) > 0
<1> DEFINE L(i) == LaneRows(rows, lane, i)
<1>1. \A i \in 0 .. n : IsFiniteSet(L(i)) /\ Cardinality(L(i)) \in Nat
  <2> TAKE i \in 0 .. n
  <2>1. IsFiniteSet(1 .. i) BY FS_Interval
  <2>2. L(i) \subseteq 1 .. i BY DEF LaneRows
  <2>3. IsFiniteSet(L(i)) BY <2>1, <2>2, FS_Subset
  <2>4. QED BY <2>3, FS_CardinalityType
<1>2. \A i, j \in 0 .. n : i <= j => L(i) \subseteq L(j) BY DEF LaneRows
<1>3. \A i, j \in 0 .. n : i <= j => Cardinality(L(i)) <= Cardinality(L(j))
  <2> SUFFICES ASSUME NEW i \in 0 .. n, NEW j \in 0 .. n, i <= j
               PROVE  Cardinality(L(i)) <= Cardinality(L(j)) OBVIOUS
  <2>1. L(i) \subseteq L(j) /\ IsFiniteSet(L(j)) BY <1>1, <1>2
  <2> HIDE DEF L
  <2>2. QED BY <2>1, FS_Subset
<1>4. \A i, j \in 0 .. n : i < j /\ LaneOf(rows[j].table) = lane => Cardinality(L(i)) < Cardinality(L(j))
  <2> SUFFICES ASSUME NEW i \in 0 .. n, NEW j \in 0 .. n, i < j, LaneOf(rows[j].table) = lane
               PROVE  Cardinality(L(i)) < Cardinality(L(j)) OBVIOUS
  <2>1. L(i) \subseteq L(j) BY <1>2
  <2>2. j \in L(j) /\ j \notin L(i) BY DEF LaneRows
  <2>3. L(i) # L(j) BY <2>2
  <2>4. IsFiniteSet(L(j)) /\ Cardinality(L(i)) \in Nat /\ Cardinality(L(j)) \in Nat BY <1>1
  <2> HIDE DEF L
  <2>5. Cardinality(L(i)) <= Cardinality(L(j)) /\ (Cardinality(L(i)) = Cardinality(L(j)) => L(i) = L(j))
    BY <2>1, <2>4, FS_Subset
  <2>6. QED BY <2>3, <2>4, <2>5
<1>5. \A i \in 1 .. n : LaneOf(rows[i].table) = lane => Cardinality(L(i)) > 0
  <2> SUFFICES ASSUME NEW i \in 1 .. n, LaneOf(rows[i].table) = lane PROVE Cardinality(L(i)) > 0 OBVIOUS
  <2>1. 0 \in 0 .. n /\ i \in 0 .. n /\ 0 < i OBVIOUS
  <2>2. Cardinality(L(0)) < Cardinality(L(i)) BY <1>4, <2>1
  <2>3. Cardinality(L(0)) \in Nat /\ Cardinality(L(i)) \in Nat BY <1>1, <2>1
  <2> HIDE DEF L
  <2>4. QED BY <2>2, <2>3
<1>6. 1 .. n \subseteq 0 .. n /\ n \in 0 .. n OBVIOUS
<1> HIDE DEF L
<1>7. QED
  <2>1. \A i \in 0 .. n : Cardinality(L(i)) \in Nat BY <1>1
  <2>2. \A i, j \in 1 .. n : i < j /\ LaneOf(rows[j].table) = lane => Cardinality(L(i)) < Cardinality(L(j))
    BY <1>4, <1>6
  <2>3. \A i \in 1 .. n : Cardinality(L(i)) <= Cardinality(L(n)) BY <1>3, <1>6
  <2>4. QED BY <1>5, <2>1, <2>2, <2>3 DEF L

(* A hand-over's rows take numbers nobody had, and the counter passes them.  *)
LEMMA SeqsLand ==
    ASSUME SeqsInv, NEW rows, IsSeq(rows), NEW r,
           runner' = [rows |-> runner.rows \cup Assigned(rows, r),
                      identity |-> runner.identity, counter |-> Advanced(rows, r)]
    PROVE  SeqsInv'
<1>1. PICK n : n = Len(rows) /\ n \in Nat /\ DOMAIN rows = 1 .. n BY SeqParts
<1>2. /\ runner'.rows = runner.rows \cup Assigned(rows, r)
      /\ runner'.counter = Advanced(rows, r) /\ runner'.identity = runner.identity
      /\ RunnerShape'
  BY DEF SeqsInv, RunnerShape
<1>3. ASSUME NEW x \in Runners, NEW lane \in Lanes
      PROVE  /\ runner'.counter[<<x, lane>>] \in Nat /\ runner'.counter[<<x, lane>>] >= runner.counter[<<x, lane>>]
             /\ \A e \in Outbox(x, lane)' : e.seq \in Nat /\ (runner'.counter[<<x, lane>>] = 0 => e.seq = 1)
             /\ \A e, f \in Outbox(x, lane)' : e.seq = f.seq => e = f
             /\ runner'.counter[<<x, lane>>] # 0 => \A e \in Outbox(x, lane)' : e.seq <= runner'.counter[<<x, lane>>]
  <2> DEFINE K(i) == Cardinality(LaneRows(rows, lane, i))
             last == LastIssued(x, lane)
             new == [fact : {rows[i] : i \in 1 .. n}, runner : {r}, seq : Nat]
             old == Outbox(x, lane)
  <2>0. lane # "none" /\ <<x, lane>> \in Runners \X Lanes BY DEF Lanes
  <2>1. last \in Nat /\ runner.counter[<<x, lane>>] \in Nat /\ last >= runner.counter[<<x, lane>>]
        /\ \A e \in old : e.seq <= last BY LastIs
  <2>2. /\ \A i \in 0 .. n : K(i) \in Nat
        /\ \A i, j \in 1 .. n : i < j /\ LaneOf(rows[j].table) = lane => K(i) < K(j)
        /\ \A i \in 1 .. n : K(i) <= K(n)
        /\ \A i \in 1 .. n : LaneOf(rows[i].table) = lane => K(i) > 0
    BY <1>1, LaneCount
  <2>3. runner'.counter[<<x, lane>>] = IF x = r /\ LaneRows(rows, lane, n) # {} THEN last + K(n)
                                   ELSE runner.counter[<<x, lane>>]
    <3>1. DOMAIN runner.counter = Runners \X Lanes BY DEF SeqsInv
    <3>2. runner'.counter[<<x, lane>>] = Advanced(rows, r)[<<x, lane>>] BY <1>2
    <3>3. QED BY <1>1, <2>0, <3>1, <3>2 DEF Advanced
  <2>4. CASE x # r \/ LaneRows(rows, lane, n) = {}
    <3>1. Outbox(x, lane)' = old
      <4>1. \A e \in Assigned(rows, r) : ~(e.runner = x /\ LaneOf(e.fact.table) = lane)
        BY <1>1, <2>4 DEF Assigned, LaneRows
      <4>2. QED BY <1>2, <4>1 DEF Outbox
    <3>2. runner'.counter[<<x, lane>>] = runner.counter[<<x, lane>>] BY <2>3, <2>4
    <3>3. \A e \in old : e.seq \in Nat /\ (runner.counter[<<x, lane>>] = 0 => e.seq = 1) BY DEF SeqsInv
    <3>4. /\ \A e, f \in old : e.seq = f.seq => e = f
          /\ runner.counter[<<x, lane>>] # 0 => \A e \in old : e.seq <= runner.counter[<<x, lane>>]
      BY DEF SeqsInv, SeqsIssuedOnce, Outbox
    <3> HIDE DEF old, last, K
    <3>5. QED BY <2>1, <3>1, <3>2, <3>3, <3>4
  <2>5. CASE x = r /\ LaneRows(rows, lane, n) # {}
    <3>0. runner'.counter[<<x, lane>>] = last + K(n) BY <2>3, <2>5
    <3>1. K(n) \in Nat /\ K(n) > 0
      <4>1. PICK i \in 1 .. n : LaneOf(rows[i].table) = lane BY <2>5 DEF LaneRows
      <4>2. n \in 0 .. n /\ i \in 0 .. n BY <1>1
      <4>3. K(i) \in Nat /\ K(n) \in Nat /\ K(i) > 0 /\ K(i) <= K(n) BY <2>2, <4>1, <4>2
      <4> HIDE DEF K
      <4>4. QED BY <4>3
    <3>2. \A e \in Outbox(x, lane)' : e \in old \/
             \E i \in 1 .. n : /\ LaneOf(rows[i].table) = lane
                               /\ e = [fact |-> rows[i], runner |-> r, seq |-> last + K(i)]
      <4> SUFFICES ASSUME NEW e \in Assigned(rows, r), e.runner = x, LaneOf(e.fact.table) = lane
                   PROVE  \E i \in 1 .. n : /\ LaneOf(rows[i].table) = lane
                               /\ e = [fact |-> rows[i], runner |-> r, seq |-> last + K(i)]
        BY <1>2 DEF Outbox
      <4>1. PICK i \in 1 .. n : e = [fact |-> rows[i], runner |-> r, seq |-> AssignedSeq(rows, r, i)]
        BY <1>1 DEF Assigned
      <4>2. LaneOf(rows[i].table) = lane BY <4>1
      <4>3. AssignedSeq(rows, r, i) = last + K(i) BY <2>0, <2>5, <4>2 DEF AssignedSeq
      <4>4. QED BY <4>1, <4>2, <4>3
    <3>3. \A i \in 1 .. n : K(i) \in Nat BY <2>2, <1>1
    <3>4. \A e \in old : e.seq \in Nat /\ e.seq <= last BY <2>1 DEF SeqsInv
    <3>5. \A e, f \in old : e.seq = f.seq => e = f BY DEF SeqsInv, SeqsIssuedOnce, Outbox
    <3> HIDE DEF old, last, K
    <3>6. \A e \in Outbox(x, lane)' : e.seq \in Nat /\ e.seq <= last + K(n)
      <4> SUFFICES ASSUME NEW e \in Outbox(x, lane)' PROVE e.seq \in Nat /\ e.seq <= last + K(n) OBVIOUS
      <4>1. CASE e \in old BY <4>1, <2>1, <3>1, <3>4
      <4>2. CASE e \notin old
        <5>1. PICK i \in 1 .. n : e = [fact |-> rows[i], runner |-> r, seq |-> last + K(i)] BY <3>2, <4>2
        <5>2. e.seq = last + K(i) BY <5>1
        <5>3. K(i) \in Nat /\ K(i) <= K(n) BY <2>2, <3>3
        <5>4. QED BY <2>1, <3>1, <5>2, <5>3
      <4>3. QED BY <4>1, <4>2
    <3>7. \A e, f \in Outbox(x, lane)' : e.seq = f.seq => e = f
      <4> SUFFICES ASSUME NEW e \in Outbox(x, lane)', NEW f \in Outbox(x, lane)', e.seq = f.seq
                   PROVE  e = f OBVIOUS
      <4>1. CASE e \in old /\ f \in old BY <3>5, <4>1
      <4>2. CASE e \notin old /\ f \notin old
        <5>1. PICK i \in 1 .. n : /\ LaneOf(rows[i].table) = lane
                                  /\ e = [fact |-> rows[i], runner |-> r, seq |-> last + K(i)] BY <3>2, <4>2
        <5>2. PICK j \in 1 .. n : /\ LaneOf(rows[j].table) = lane
                                  /\ f = [fact |-> rows[j], runner |-> r, seq |-> last + K(j)] BY <3>2, <4>2
        <5>3. e.seq = last + K(i) /\ f.seq = last + K(j) BY <5>1, <5>2
        <5>4. K(i) \in Nat /\ K(j) \in Nat BY <3>3
        <5>5. K(i) = K(j)
          <6>1. last + K(i) = last + K(j) BY <5>3
          <6>2. PICK a, b, l : a = K(i) /\ b = K(j) /\ l = last OBVIOUS
          <6>3. l + a = l + b /\ l \in Nat /\ a \in Nat /\ b \in Nat BY <2>1, <5>4, <6>1, <6>2
          <6>4. QED BY <6>2, <6>3
        <5>6. ~(i < j) /\ ~(j < i) BY <2>2, <5>1, <5>2, <5>4, <5>5
        <5>7. i = j BY <1>1, <5>6
        <5>8. QED BY <5>1, <5>2, <5>7
      <4>3. ASSUME NEW d \in old, NEW g \in Outbox(x, lane)', g \notin old PROVE d.seq # g.seq
        <5>1. PICK i \in 1 .. n : /\ LaneOf(rows[i].table) = lane
                                  /\ g = [fact |-> rows[i], runner |-> r, seq |-> last + K(i)] BY <3>2, <4>3
        <5>2. g.seq = last + K(i) BY <5>1
        <5>3. K(i) \in Nat /\ K(i) > 0 BY <2>2, <3>3, <5>1
        <5>4. d.seq \in Nat /\ d.seq <= last BY <3>4
        <5>5. QED BY <2>1, <5>2, <5>3, <5>4
      <4>4. QED BY <4>1, <4>2, <4>3
    <3>8. QED BY <2>1, <3>0, <3>1, <3>6, <3>7
  <2>6. QED BY <2>4, <2>5
<1>4. (runner.counter \in [Runners \X Lanes -> Nat])'
  <2>1. DOMAIN runner.counter = Runners \X Lanes BY DEF SeqsInv
  <2>2. \A k \in Runners \X Lanes : \E x \in Runners, lane \in Lanes : k = <<x, lane>> OBVIOUS
  <2>3. \A k \in Runners \X Lanes : runner'.counter[k] \in Nat BY <1>3, <2>2
  <2>4. runner'.counter = [k \in Runners \X Lanes |-> runner'.counter[k]] BY <1>2, <2>1 DEF Advanced
  <2>5. QED BY <2>3, <2>4
<1>5. SeqsIssuedOnce' BY ZenonT(60), <1>3 DEF SeqsIssuedOnce, Outbox
<1>6. QED BY <1>2, <1>3, <1>4, <1>5 DEF SeqsInv

(* What leaves the outbox alone keeps its numbers.                           *)
LEMMA SeqsKept ==
    ASSUME SeqsInv, RunnerShape', runner'.rows = runner.rows, runner'.counter = runner.counter
    PROVE  SeqsInv'
<1>1. SeqsIssuedOnce' BY DEF SeqsInv, SeqsIssuedOnce
<1>2. \A r \in Runners, lane \in Lanes : Outbox(r, lane)' = Outbox(r, lane) BY DEF Outbox
<1>3. QED BY <1>1, <1>2 DEF SeqsInv

(* An empty store has issued nothing.                                        *)
LEMMA SeqsEmpty ==
    ASSUME runner.rows = {}, runner.counter = NoCounters, RunnerShape PROVE SeqsInv
<1>1. \A r, lane : Outbox(r, lane) = {} BY DEF Outbox
<1>2. SeqsIssuedOnce BY <1>1 DEF SeqsIssuedOnce, Outbox
<1>3. runner.counter \in [Runners \X Lanes -> Nat] BY DEF NoCounters
<1>4. QED BY <1>1, <1>2, <1>3 DEF SeqsInv
LEMMA SeqsInit == ASSUME Init PROVE SeqsInv
<1>1. PICK s \in Stores :
        runner = [rows |-> IF s.identity = None THEN {} ELSE OldOutbox(s.identity),
                  identity |-> s.identity, counter |-> NoCounters] BY DEF Init
<1>2. RunnerShape BY <1>1 DEF RunnerShape
<1>3. CASE s.identity = None BY <1>1, <1>2, <1>3, SeqsEmpty
<1>4. CASE s.identity # None
  <2>1. PICK e : runner.rows = {e} /\ e.seq = 1
    <3>1. PICK e : e = [fact |-> compose_outbound_fact("old", None, 0)[1], runner |-> s.identity, seq |-> 1]
      OBVIOUS
    <3>2. runner.rows = {e} BY <1>1, <1>4, <3>1 DEF OldOutbox
    <3>3. e.seq = 1 BY <3>1
    <3>4. QED BY <3>2, <3>3
  <2>2. runner.counter = NoCounters
    <3>1. PICK rows : runner = [rows |-> rows, identity |-> s.identity, counter |-> NoCounters] BY <1>1
    <3>2. QED BY <3>1
  <2>3. \A r \in Runners, lane \in Lanes : runner.counter[<<r, lane>>] = 0 BY <2>2 DEF NoCounters
  <2>4. \A r, lane : Outbox(r, lane) \subseteq {e} BY <2>1 DEF Outbox
  <2>5. SeqsIssuedOnce
    <3>1. \A r \in Runners, lane \in Lanes : \A d, f \in Outbox(r, lane) : d.seq = f.seq => d = f BY <2>4
    <3>2. QED BY <2>3, <3>1 DEF SeqsIssuedOnce, Outbox
  <2>6. runner.counter \in [Runners \X Lanes -> Nat] BY <2>2 DEF NoCounters
  <2>7. QED BY <1>2, <2>1, <2>4, <2>5, <2>6 DEF SeqsInv
<1>5. QED BY <1>3, <1>4

-----------------------------------------------------------------------------
(* What the rows of a hub rest on                                            *)

Names == {"build", "deliver", "long"}

(* A node of a graph, and of a chunk's own graph.                            *)
NodeOf(H, graph, node) ==
    \E n \in H : n.fact.table = "graph_nodes" /\ n.fact.id = node /\ n.fact.of = graph
OwnNode(H, chunk, node) ==
    \E k \in H : k.fact.table = "chunks" /\ k.fact.id = chunk /\ NodeOf(H, k.fact.of, node)
ParentHere(e, H, table) ==
    \E k \in H : k.fact.table = table /\ k.fact.id = e.fact.of /\ k.tenant = e.tenant

(* What a row's reader relies on among the entries H: a chunk is on a graph  *)
(* of its tenant, an artifact or a decision on a chunk of its tenant, what   *)
(* names a node names one of its chunk's graph, a lease's epoch has the      *)
(* lease's owner, a node's id is its graph's and its name's, and a graph has *)
(* its two nodes.                                                            *)
Grounded(e, H) ==
    LET f == e.fact IN
    /\ f.table = "chunks" => ParentHere(e, H, "graphs")
    /\ f.table \in {"artifacts", "decisions"} => ParentHere(e, H, "chunks")
    /\ f.table \in {"transitions", "artifacts", "decisions"} => f.node = Done \/ OwnNode(H, f.of, f.node)
    /\ f.table = "transitions" => f.ref = None \/ OwnNode(H, f.of, f.ref)
    /\ f.table = "lease_facts" =>
          \E o \in H : /\ o.fact.table = "epoch_owners" /\ o.fact.of = f.of
                       /\ o.fact.epoch = f.epoch /\ o.fact.runner = OwnerOf(f.runner)
    /\ f.table = "graph_nodes" => f.of \in Int /\ f.tag \in Names /\ f.id = NodeId(f.of, f.tag)
    /\ f.table = "graphs" => f.id \in Int /\ \A name \in {"build", "deliver"} : NodeOf(H, f.id, NodeId(f.id, name))

(* The hub store: keys are keys, every row has its parent and is grounded,   *)
(* and a hub from before tenancy names no tenant.                            *)
KeysHold == \A e, f \in hub : Clash(e.fact, f.fact) => e = f
HubInv ==
    /\ KeysHold
    /\ \A e \in hub : Parented(e.fact, Facts(hub)) /\ Grounded(e, hub)
    /\ ~tenanted => \A e \in hub : e.tenant = None
    /\ None \notin HeldTenants

-----------------------------------------------------------------------------
(* Invocations in flight                                                     *)

(* The tenant a hand-over lands in, on a hub holding some tenants.           *)
Resolved(ten, held, named) ==
    IF ~ten THEN IF named = None THEN None ELSE Refused
    ELSE IF named # None THEN IF named \in held THEN named ELSE Refused
    ELSE IF Cardinality(held) = 1 THEN CHOOSE t \in held : TRUE ELSE Refused
TablesOf(rows) == {f.table : f \in Rows(rows)}
TenantOf(s, ten, held) ==
    IF s.tenant = None /\ TablesOf(s.rows) \subseteq GlobalTables THEN None ELSE Resolved(ten, held, s.tenant)
Entry(f, t) == [fact |-> f, tenant |-> StampOf(f, t)]
Written(s, ten, held) == Stamped(s.rows, TenantOf(s, ten, held))

(* The facts of a hub a chunk of these rows is new to, and the rows that     *)
(* make it derive a status there, whatever else the hub holds.               *)
NewTo(F, rows, k) ==
    /\ \A f \in F : f.table \in ChunkFacts => f.of # k.id
    /\ \A q \in rows, a \in F :
          q.table = "questions" /\ q.of = k.id /\ a.table = "question_answers" => a.of # q.id
    /\ \A n \in F \cup rows :
          n.table = "graph_nodes" => n.of \in Int /\ n.tag \in Names /\ n.id = NodeId(n.of, n.tag)
    /\ \E n \in F \cup rows : n.table = "graph_nodes" /\ n.of = k.of /\ n.tag = "deliver"
Derives(rows, k, status) == \A F : NewTo(F, rows, k) => DerivedStatus(F \cup rows, k.id) = status

(* A hand-over fits a hub that will hold at least the entries H: its rows    *)
(* are grounded there, and the chunks among them derive what was asked.      *)
Fits(s, asked, ten, held, H) ==
    s.rows # Refused =>
    /\ IsSeq(s.rows)
    /\ s.store = "hub" =>
         \A f \in Rows(s.rows) :
            /\ f.table # "tenants"
            /\ Grounded(Entry(f, TenantOf(s, ten, held)), H \cup Written(s, ten, held))
            /\ f.table = "chunks" => f.id \in DOMAIN asked /\ Derives(Rows(s.rows), f, asked[f.id])

(* Entries that land before the i-th hand-over of an invocation does.        *)
Ahead(steps, i, ten, held) ==
    UNION {Written(steps[j], ten, held) : j \in {k \in 1 .. i - 1 : steps[k].store = "hub"}}
InFlight(x, ten, held, H) ==
    /\ IsSeq(x.steps)
    /\ \A i \in 1 .. Len(x.steps) : Fits(x.steps[i], x.asked, ten, held, H \cup Ahead(x.steps, i, ten, held))

(* Where a fleet stands: before its brake, before its board with the brake   *)
(* engaged, or before its mirror with the board's chunks held.               *)
Braked(r, entries) == \E e \in entries : e.fact.table = "local_pause_facts" /\ e.runner = r
HoldsChunk(c, H) == \E e \in H : e.fact.table = "chunks" /\ e.fact.id = c
BrakeStep(r, stream) == Step("runner", None, r, compose_local_pause(Instant(stream, 0)))
MirrorStep(r, stream) == Step("runner", None, r, FleetRows(stream, "escalated"))
Fleet(x, entries, H) ==
    x.pinned # None =>
    \E stream, board, tenant :
        LET hubStep == Step("hub", tenant, None, board) IN
        /\ \A i \in {3, 4} : \E f \in Rows(board) : f.table = "chunks" /\ f.id = BoardChunk(stream, i)
        /\ \/ x.steps = << BrakeStep(x.pinned, stream), hubStep, MirrorStep(x.pinned, stream) >>
           \/ x.steps = << hubStep, MirrorStep(x.pinned, stream) >> /\ Braked(x.pinned, entries)
           \/ /\ x.steps = << MirrorStep(x.pinned, stream) >>
              /\ \A i \in {3, 4} : HoldsChunk(BoardChunk(stream, i), H)

StepsInv ==
    /\ DOMAIN inv = Procs
    /\ \A p \in Procs : InFlight(inv[p], tenanted, HeldTenants, hub) /\ Fleet(inv[p], runner.rows, hub)

(* The inductive invariant.                                                  *)
IInv == begun \in Nat /\ SeqsInv /\ HubInv /\ StepsInv

-----------------------------------------------------------------------------
(* What stays true as the stores grow                                        *)

LEMMA GroundedGrows ==
    ASSUME NEW e, NEW H, NEW K, H \subseteq K, Grounded(e, H) PROVE Grounded(e, K)
<1>1. \A t : ParentHere(e, H, t) => ParentHere(e, K, t) BY DEF ParentHere
<1>2. \A g, n : NodeOf(H, g, n) => NodeOf(K, g, n) BY DEF NodeOf
<1>3. \A c, n : OwnNode(H, c, n) => OwnNode(K, c, n) BY <1>2 DEF OwnNode
<1>4. QED BY <1>1, <1>2, <1>3 DEF Grounded
LEMMA FitsGrows ==
    ASSUME NEW s, NEW asked, NEW ten, NEW held, NEW H, NEW K, H \subseteq K, Fits(s, asked, ten, held, H)
    PROVE  Fits(s, asked, ten, held, K)
<1>1. PICK W : W = Written(s, ten, held) OBVIOUS
<1>2. H \cup W \subseteq K \cup W OBVIOUS
<1>3. QED BY <1>1, <1>2, GroundedGrows DEF Fits
LEMMA InFlightGrows ==
    ASSUME NEW x, NEW ten, NEW held, NEW H, NEW K, H \subseteq K, InFlight(x, ten, held, H)
    PROVE  InFlight(x, ten, held, K)
<1> SUFFICES ASSUME NEW i \in 1 .. Len(x.steps)
             PROVE  Fits(x.steps[i], x.asked, ten, held, K \cup Ahead(x.steps, i, ten, held))
  BY DEF InFlight
<1>1. PICK A : A = Ahead(x.steps, i, ten, held) OBVIOUS
<1>2. Fits(x.steps[i], x.asked, ten, held, H \cup A) BY <1>1 DEF InFlight
<1>3. H \cup A \subseteq K \cup A OBVIOUS
<1>4. QED BY <1>1, <1>2, <1>3, FitsGrows
LEMMA FleetGrows ==
    ASSUME NEW x, NEW E, NEW D, NEW H, NEW K, E \subseteq D, H \subseteq K, Fleet(x, E, H)
    PROVE  Fleet(x, D, K)
<1>1. \A r : Braked(r, E) => Braked(r, D) BY DEF Braked
<1>2. \A c : HoldsChunk(c, H) => HoldsChunk(c, K) BY DEF HoldsChunk
<1>3. CASE x.pinned = None BY <1>3 DEF Fleet
<1>4. CASE x.pinned # None
  <2>1. PICK stream, board, tenant :
        /\ \A i \in {3, 4} : \E f \in Rows(board) : f.table = "chunks" /\ f.id = BoardChunk(stream, i)
        /\ \/ x.steps = << BrakeStep(x.pinned, stream), Step("hub", tenant, None, board), MirrorStep(x.pinned, stream) >>
           \/ x.steps = << Step("hub", tenant, None, board), MirrorStep(x.pinned, stream) >> /\ Braked(x.pinned, E)
           \/ /\ x.steps = << MirrorStep(x.pinned, stream) >>
              /\ \A i \in {3, 4} : HoldsChunk(BoardChunk(stream, i), H)
    BY <1>4 DEF Fleet
  <2>2. \/ x.steps = << BrakeStep(x.pinned, stream), Step("hub", tenant, None, board), MirrorStep(x.pinned, stream) >>
        \/ x.steps = << Step("hub", tenant, None, board), MirrorStep(x.pinned, stream) >> /\ Braked(x.pinned, D)
        \/ /\ x.steps = << MirrorStep(x.pinned, stream) >>
           /\ \A i \in {3, 4} : HoldsChunk(BoardChunk(stream, i), K)
    BY <1>1, <1>2, <2>1
  <2>3. QED BY <2>1, <2>2 DEF Fleet
<1>5. QED BY <1>3, <1>4

(* An invocation that ended asks for nothing more.                           *)
LEMMA IdleFits == \A ten, held, E, H : InFlight(Idle, ten, held, H) /\ Fleet(Idle, E, H)
<1>1. Idle.steps = << >> /\ Idle.pinned = None BY DEF Idle
<1>2. Len(<< >>) = 0 /\ 1 .. 0 = {} OBVIOUS
<1>3. QED BY <1>1, <1>2, TupleRows DEF InFlight, Fleet

(* The rest of an invocation fits the hub its first hand-over landed on.     *)
LEMMA RestFits ==
    ASSUME NEW x, NEW ten, NEW held, NEW H, NEW K, H \subseteq K, InFlight(x, ten, held, H),
           x.steps # << >>, Len(x.steps) # 1,
           x.steps[1].store = "hub" => Written(x.steps[1], ten, held) \subseteq K,
           NEW y, y.steps = Tail(x.steps), y.asked = x.asked
    PROVE  InFlight(y, ten, held, K)
<1>1. PICK s : s = x.steps OBVIOUS
<1>2. PICK S : s \in Seq(S) BY <1>1 DEF InFlight, IsSeq
<1>3. Len(s) \in Nat /\ Len(s) > 1 /\ s # << >>
  <2>1. Len(s) \in Nat /\ s = [i \in 1 .. Len(s) |-> s[i]] BY <1>2
  <2>2. Len(s) = 0 => s = << >> BY <2>1
  <2>3. s # << >> BY <1>1
  <2>4. Len(s) # 1 BY <1>1
  <2>5. QED BY <2>1, <2>2, <2>3, <2>4
<1>4. Tail(s) \in Seq(S) /\ Len(Tail(s)) = Len(s) - 1 /\ \A i \in 1 .. Len(s) - 1 : Tail(s)[i] = s[i + 1]
  BY <1>2, <1>3
<1>5. IsSeq(y.steps) BY <1>1, <1>4 DEF IsSeq
<1> SUFFICES ASSUME NEW i \in 1 .. Len(y.steps)
             PROVE  Fits(y.steps[i], y.asked, ten, held, K \cup Ahead(y.steps, i, ten, held))
  BY <1>5 DEF InFlight
<1>6. i \in 1 .. Len(s) - 1 /\ i + 1 \in 1 .. Len(s) /\ y.steps[i] = s[i + 1] BY <1>1, <1>3, <1>4
<1>7. PICK A : A = Ahead(s, i + 1, ten, held) OBVIOUS
<1>8. Fits(y.steps[i], x.asked, ten, held, H \cup A) BY <1>1, <1>6, <1>7 DEF InFlight
<1>9. A \subseteq K \cup Ahead(y.steps, i, ten, held)
  <2> SUFFICES ASSUME NEW j \in 1 .. (i + 1) - 1, s[j].store = "hub", NEW e \in Written(s[j], ten, held)
               PROVE  e \in K \cup Ahead(y.steps, i, ten, held)
    BY <1>7 DEF Ahead
  <2>1. CASE j = 1 BY <1>1, <2>1
  <2>2. CASE j # 1
    <3>1. j - 1 \in 1 .. i - 1 /\ j - 1 \in 1 .. Len(s) - 1 BY <1>6, <2>2
    <3>2. y.steps[j - 1] = s[j] BY <1>1, <1>4, <3>1
    <3>3. QED BY <3>1, <3>2 DEF Ahead
  <2>3. QED BY <2>1, <2>2
<1>10. H \cup A \subseteq K \cup Ahead(y.steps, i, ten, held) BY <1>9
<1>11. QED BY <1>8, <1>10, FitsGrows

-----------------------------------------------------------------------------
(* A hand-over lands                                                         *)

LEMMA TenantIs ==
    ASSUME NEW s
    PROVE  /\ TenantFor(TablesOf(s.rows), s.tenant) = TenantOf(s, tenanted, HeldTenants)
           /\ ResolveTenant(s.tenant) = Resolved(tenanted, HeldTenants, s.tenant)
BY DEF TenantFor, TenantOf, ResolveTenant, Resolved
LEMMA ClashBothWays == ASSUME NEW f, NEW g, Clash(f, g) PROVE Clash(g, f)
BY DEF Clash
LEMMA ParentedGrows == ASSUME NEW f, NEW F, NEW G, F \subseteq G, Parented(f, F) PROVE Parented(f, G)
BY DEF Parented
LEMMA FactsOf ==
    /\ \A H, K : Facts(H \cup K) = Facts(H) \cup Facts(K)
    /\ \A H, K : H \subseteq K => Facts(H) \subseteq Facts(K)
    /\ \A rows, t : Facts(Stamped(rows, t)) = Rows(rows)
<1>1. \A H, K : Facts(H \cup K) = Facts(H) \cup Facts(K) BY DEF Facts
<1>2. \A H, K : H \subseteq K => Facts(H) \subseteq Facts(K) BY DEF Facts
<1>3. ASSUME NEW rows, NEW t PROVE Facts(Stamped(rows, t)) = Rows(rows)
  <2>1. ASSUME NEW f \in Rows(rows) PROVE f \in Facts(Stamped(rows, t))
    <3>1. PICK e : e = [fact |-> f, tenant |-> StampOf(f, t)] OBVIOUS
    <3>2. e \in Stamped(rows, t) /\ e.fact = f BY <3>1 DEF Stamped
    <3>3. QED BY <3>2 DEF Facts
  <2>2. ASSUME NEW e \in Stamped(rows, t) PROVE e.fact \in Rows(rows) BY DEF Stamped
  <2>3. QED BY <2>1, <2>2 DEF Facts
<1>4. QED BY <1>1, <1>2, <1>3

(* A store that grows by entries that are grounded, parented and clash with  *)
(* nothing is still a hub.                                                   *)
LEMMA HubGrows ==
    ASSUME HubInv, tenanted' = tenanted, NEW W, hub' = hub \cup W,
           \A e \in W : /\ e.fact.table # "tenants" /\ Grounded(e, hub \cup W)
                        /\ Parented(e.fact, Facts(hub \cup W))
                        /\ ~tenanted => e.tenant = None
           , \A e \in W, f \in hub \cup W : Clash(e.fact, f.fact) => e = f
    PROVE  HubInv' /\ HeldTenants' = HeldTenants
<1>1. HeldTenants' = HeldTenants BY DEF HeldTenants, Facts
<1>2. KeysHold'
  <2> SUFFICES ASSUME NEW e \in hub', NEW f \in hub', Clash(e.fact, f.fact) PROVE e = f BY DEF KeysHold
  <2>1. CASE e \in W BY <2>1
  <2>2. CASE f \in W
    <3>1. Clash(f.fact, e.fact) BY ClashBothWays
    <3>2. QED BY <2>2, <3>1
  <2>3. CASE e \notin W /\ f \notin W BY <2>3 DEF HubInv, KeysHold
  <2>4. QED BY <2>1, <2>2, <2>3
<1>3. ASSUME NEW e \in hub' PROVE Parented(e.fact, Facts(hub')) /\ Grounded(e, hub')
  <2>1. PICK K : K = hub' OBVIOUS
  <2>2. hub \subseteq K /\ K = hub \cup W BY <2>1
  <2>3. CASE e \in W BY <2>2, <2>1, <2>3
  <2>4. CASE e \in hub
    <3>1. Parented(e.fact, Facts(hub)) /\ Grounded(e, hub) BY <2>4 DEF HubInv
    <3>2. PICK F, G : F = Facts(hub) /\ G = Facts(K) OBVIOUS
    <3>3. F \subseteq G BY <2>2, <3>2, FactsOf
    <3>4. Parented(e.fact, G) BY <3>1, <3>2, <3>3, ParentedGrows
    <3>5. Grounded(e, K) BY <2>2, <3>1, GroundedGrows
    <3>6. QED BY <2>1, <3>2, <3>4, <3>5
  <2>5. QED BY <1>3, <2>2, <2>1, <2>3, <2>4
<1>4. ~tenanted' => \A e \in hub' : e.tenant = None BY DEF HubInv
<1>5. None \notin HeldTenants' BY <1>1 DEF HubInv
<1>6. QED BY <1>1, <1>2, <1>3, <1>4, <1>5 DEF HubInv

(* A transaction the hub takes leaves a hub behind.                          *)
LEMMA HubLands ==
    ASSUME HubInv, NEW s, NEW asked, Fits(s, asked, tenanted, HeldTenants, hub), s.rows # Refused,
           s.store = "hub", HubTakes(s),
           hub' = hub \cup Stamped(s.rows, TenantFor({f.table : f \in Rows(s.rows)}, s.tenant)),
           tenanted' = tenanted
    PROVE  /\ HubInv' /\ HeldTenants' = HeldTenants
           /\ hub' = hub \cup Written(s, tenanted, HeldTenants)
<1>1. PICK t : t = TenantOf(s, tenanted, HeldTenants) OBVIOUS
<1>2. TablesOf(s.rows) = {f.table : f \in Rows(s.rows)} BY DEF TablesOf
<1>3. TenantFor({f.table : f \in Rows(s.rows)}, s.tenant) = t BY <1>1, <1>2, TenantIs
<1>4. PICK W : W = Stamped(s.rows, t) OBVIOUS
<1>5. hub' = hub \cup W /\ W = Written(s, tenanted, HeldTenants) BY <1>1, <1>3, <1>4 DEF Written
<1>6. PICK n : n = Len(s.rows) /\ n \in Nat /\ DOMAIN s.rows = 1 .. n BY SeqParts DEF Fits
<1>7. \A e \in W : \E i \in 1 .. n : e = Entry(s.rows[i], t) BY <1>4, <1>6 DEF Stamped, Entry, Rows
<1>8. t # Refused BY <1>3 DEF HubTakes
<1>9. \A e \in W, f \in hub \cup W : Clash(e.fact, f.fact) => e = f
  <2> SUFFICES ASSUME NEW e \in W, NEW f \in hub \cup W, Clash(e.fact, f.fact) PROVE e = f OBVIOUS
  <2>1. PICK i \in 1 .. n : e = Entry(s.rows[i], t) BY <1>7
  <2>2. e.fact = s.rows[i] BY <2>1 DEF Entry
  <2>3. Clashing(s.rows, Facts(hub)) = {} BY DEF HubTakes
  <2>4. \A g \in Facts(hub) : ~Clash(s.rows[i], g) BY <1>6, <2>3 DEF Clashing
  <2>5. f \notin hub BY <2>2, <2>4 DEF Facts
  <2>6. PICK j \in 1 .. n : f = Entry(s.rows[j], t) BY <1>7, <2>5
  <2>7. f.fact = s.rows[j] BY <2>6 DEF Entry
  <2>8. ~(i < j) /\ ~(j < i)
    <3>1. \A k \in 1 .. n : \A m \in 1 .. k - 1 : ~Clash(s.rows[k], s.rows[m]) BY <1>6, <2>3 DEF Clashing
    <3>2. Clash(s.rows[i], s.rows[j]) BY <2>2, <2>7
    <3>3. Clash(s.rows[j], s.rows[i]) BY <3>2, ClashBothWays
    <3>4. i < j => i \in 1 .. j - 1 BY <1>6
    <3>5. j < i => j \in 1 .. i - 1 BY <1>6
    <3>6. QED BY <3>1, <3>2, <3>3, <3>4, <3>5
  <2>9. i = j BY <1>6, <2>8
  <2>10. QED BY <2>1, <2>6, <2>9
<1>10. ASSUME NEW e \in W
       PROVE  /\ e.fact.table # "tenants" /\ Grounded(e, hub \cup W)
              /\ Parented(e.fact, Facts(hub \cup W)) /\ (~tenanted => e.tenant = None)
  <2>1. PICK f \in Rows(s.rows) : e = Entry(f, t) BY <1>4, <1>10 DEF Stamped, Entry
  <2>2. e.fact = f /\ e.tenant = StampOf(f, t) BY <2>1 DEF Entry
  <2>3. f.table # "tenants" /\ Grounded(e, hub \cup W) BY <1>1, <1>5, <2>1 DEF Fits
  <2>4. Facts(hub \cup W) = Facts(hub) \cup Rows(s.rows) BY <1>4, FactsOf
  <2>5. Parented(f, Facts(hub) \cup Rows(s.rows)) BY DEF HubTakes, Orphans
  <2>6. ~tenanted => t = None BY <1>1, <1>8 DEF TenantOf, Resolved
  <2>7. QED BY <2>2, <2>3, <2>4, <2>5, <2>6 DEF StampOf
<1>11. HubInv' /\ HeldTenants' = HeldTenants BY <1>5, <1>9, <1>10, HubGrows
<1>12. QED BY <1>5, <1>11

(* Every other invocation fits a hub and a runner store that grew.           *)
LEMMA OthersFit ==
    ASSUME StepsInv, hub \subseteq hub', runner.rows \subseteq runner'.rows,
           tenanted' = tenanted, HeldTenants' = HeldTenants, NEW p \in Procs, inv'[p] = inv[p]
    PROVE  InFlight(inv'[p], tenanted', HeldTenants', hub') /\ Fleet(inv'[p], runner'.rows, hub')
<1>1. PICK x, ten, held, H, E : x = inv[p] /\ ten = tenanted /\ held = HeldTenants /\ H = hub /\ E = runner.rows
  OBVIOUS
<1>2. PICK K, D : K = hub' /\ D = runner'.rows OBVIOUS
<1>3. InFlight(x, ten, held, H) /\ Fleet(x, E, H) BY <1>1 DEF StepsInv
<1>4. H \subseteq K /\ E \subseteq D BY <1>1, <1>2
<1>5. InFlight(x, ten, held, K) BY <1>3, <1>4, InFlightGrows
<1>6. Fleet(x, D, K) BY <1>3, <1>4, FleetGrows
<1>7. x = inv'[p] /\ ten = tenanted' /\ held = HeldTenants' BY <1>1
<1>8. InFlight(inv'[p], tenanted', HeldTenants', hub') BY <1>2, <1>5, <1>7
<1>9. Fleet(inv'[p], runner'.rows, hub') BY <1>2, <1>6, <1>7
<1>10. QED BY <1>8, <1>9

(* What an action does to the invocations, from what it does to its own.     *)
LEMMA StepsFrom ==
    ASSUME StepsInv, hub \subseteq hub', runner.rows \subseteq runner'.rows,
           tenanted' = tenanted, HeldTenants' = HeldTenants, NEW p \in Procs,
           NEW x, inv' = [inv EXCEPT ![p] = x],
           InFlight(x, tenanted, HeldTenants, hub') /\ Fleet(x, runner'.rows, hub')
    PROVE  StepsInv'
<1>1. DOMAIN inv' = Procs /\ inv'[p] = x /\ \A q \in Procs \ {p} : inv'[q] = inv[q] BY DEF StepsInv
<1>2. ASSUME NEW q \in Procs
      PROVE  InFlight(inv'[q], tenanted', HeldTenants', hub') /\ Fleet(inv'[q], runner'.rows, hub')
  <2>1. CASE q = p
    <3>1. PICK K, D, ten, held : K = hub' /\ D = runner'.rows /\ ten = tenanted' /\ held = HeldTenants' OBVIOUS
    <3>2. ten = tenanted /\ held = HeldTenants BY <3>1
    <3>3. InFlight(x, ten, held, K) /\ Fleet(x, D, K) BY <3>1, <3>2
    <3>4. inv'[q] = x BY <1>1, <2>1
    <3>5. QED BY <3>1, <3>3, <3>4
  <2>2. CASE q # p
    <3>1. inv'[q] = inv[q] BY <1>1, <2>2
    <3>2. QED BY <3>1, OthersFit
  <2>3. QED BY <2>1, <2>2
<1>3. QED BY <1>1, <1>2 DEF StepsInv

(* A refused or a killed invocation leaves the others as they were.          *)
LEMMA EndsFit ==
    ASSUME StepsInv, NEW p \in Procs, inv' = [inv EXCEPT ![p] = Idle], UNCHANGED <<tenanted, hub, runner>>
    PROVE  StepsInv'
<1>1. HeldTenants' = HeldTenants BY DEF HeldTenants
<1>2. PICK x, K, D, ten, held : x = Idle /\ K = hub' /\ D = runner'.rows /\ ten = tenanted /\ held = HeldTenants OBVIOUS
<1>3. InFlight(x, ten, held, K) /\ Fleet(x, D, K) BY <1>2, IdleFits
<1>4. QED BY <1>1, <1>2, <1>3, StepsFrom
LEMMA HubSame == ASSUME HubInv, UNCHANGED <<tenanted, hub>> PROVE HubInv'
<1>1. HeldTenants' = HeldTenants BY DEF HeldTenants
<1>2. Facts(hub)' = Facts(hub) BY DEF Facts
<1>3. QED BY <1>1, <1>2 DEF HubInv, KeysHold

(* What a flying invocation hands over next.                                 *)
LEMMA NextStep ==
    ASSUME NEW x, NEW ten, NEW held, NEW H, InFlight(x, ten, held, H), x.steps # << >>
    PROVE  /\ Head(x.steps) = x.steps[1] /\ Len(x.steps) \in Nat \ {0}
           /\ Fits(x.steps[1], x.asked, ten, held, H)
<1>1. PICK s : s = x.steps OBVIOUS
<1>2. PICK S : s \in Seq(S) BY <1>1 DEF InFlight, IsSeq
<1>3. Len(s) \in Nat /\ s = [i \in 1 .. Len(s) |-> s[i]] BY <1>2
<1>4. Len(s) = 0 => s = << >> BY <1>3
<1>5. s # << >> BY <1>1
<1>6. Len(s) \in Nat \ {0} BY <1>3, <1>4, <1>5
<1>7. Head(s) = s[1] BY <1>2, <1>5
<1>8. Ahead(s, 1, ten, held) = {} BY DEF Ahead
<1>9. 1 \in 1 .. Len(s) BY <1>6
<1>10. Fits(s[1], x.asked, ten, held, H \cup Ahead(s, 1, ten, held)) BY <1>1, <1>9 DEF InFlight
<1>11. H \cup Ahead(s, 1, ten, held) = H BY <1>8
<1>12. Fits(s[1], x.asked, ten, held, H) BY <1>10, <1>11
<1>13. QED BY <1>1, <1>6, <1>7, <1>12

(* What is left of an invocation after its next hand-over.                   *)
LEMMA LeftFits ==
    ASSUME NEW x, NEW ten, NEW held, NEW H, NEW K, H \subseteq K, InFlight(x, ten, held, H), x.steps # << >>,
           x.steps[1].store = "hub" => Written(x.steps[1], ten, held) \subseteq K
    PROVE  InFlight(HandedOver(x), ten, held, K)
<1>1. CASE Len(x.steps) = 1 BY <1>1, IdleFits DEF HandedOver
<1>2. CASE Len(x.steps) # 1
  <2>1. PICK y : y = [steps |-> Tail(x.steps), asked |-> x.asked, pinned |-> x.pinned] OBVIOUS
  <2>2. y.steps = Tail(x.steps) /\ y.asked = x.asked BY <2>1
  <2>3. InFlight(y, ten, held, K) BY <1>2, <2>2, RestFits
  <2>4. QED BY <1>2, <2>1, <2>3 DEF HandedOver
<1>3. QED BY <1>1, <1>2

LEMMA TailsOf ==
    /\ \A a : Len(<< a >>) = 1 /\ << a >>[1] = a
    /\ \A a, b : Len(<< a, b >>) = 2 /\ Tail(<< a, b >>) = << b >> /\ << a, b >>[1] = a
    /\ \A a, b, c : Len(<< a, b, c >>) = 3 /\ Tail(<< a, b, c >>) = << b, c >> /\ << a, b, c >>[1] = a
OBVIOUS

(* A fleet cut after a hand-over stands where it should: the brake's landed  *)
(* braked, the board's landed holds the chunks the mirror is about.          *)
LEMMA FleetMoves ==
    ASSUME NEW x, NEW E, NEW D, NEW H, NEW K, Fleet(x, E, H), x.steps # << >>, E \subseteq D,
           NEW s, s = x.steps[1],
           s.store # "hub" => /\ H = K
                              /\ s.named # None => \A f \in Rows(s.rows) : \E e \in D : e.fact = f /\ e.runner = s.named,
           s.store = "hub" => \A f \in Rows(s.rows) : \E e \in K : e.fact = f
    PROVE  Fleet(HandedOver(x), D, K)
<1>1. CASE x.pinned = None
  <2>1. HandedOver(x).pinned = None BY <1>1 DEF HandedOver, Idle
  <2>2. QED BY <2>1 DEF Fleet
<1>2. CASE x.pinned # None
  <2>0. PICK r : r = x.pinned OBVIOUS
  <2>1. PICK stream, board, tenant :
        /\ \A i \in {3, 4} : \E f \in Rows(board) : f.table = "chunks" /\ f.id = BoardChunk(stream, i)
        /\ \/ x.steps = << BrakeStep(r, stream), Step("hub", tenant, None, board), MirrorStep(r, stream) >>
           \/ x.steps = << Step("hub", tenant, None, board), MirrorStep(r, stream) >> /\ Braked(r, E)
           \/ /\ x.steps = << MirrorStep(r, stream) >>
              /\ \A i \in {3, 4} : HoldsChunk(BoardChunk(stream, i), H)
    BY <1>2, <2>0 DEF Fleet
  <2>2. PICK brake, onboard, mirror :
          brake = BrakeStep(r, stream) /\ onboard = Step("hub", tenant, None, board) /\ mirror = MirrorStep(r, stream)
    OBVIOUS
  <2>3. PICK y : y = HandedOver(x) OBVIOUS
  <2>4. CASE x.steps = << brake, onboard, mirror >>
    <3>1. s = brake /\ Len(x.steps) = 3 /\ Tail(x.steps) = << onboard, mirror >> BY <2>4, TailsOf
    <3>2. y = [steps |-> << onboard, mirror >>, asked |-> x.asked, pinned |-> r]
      <4>1. Len(x.steps) # 1 BY <3>1
      <4>2. HandedOver(x) = [steps |-> Tail(x.steps), asked |-> x.asked, pinned |-> x.pinned]
        BY <4>1 DEF HandedOver
      <4>3. QED BY <2>0, <2>3, <3>1, <4>2
    <3>3. y.steps = << onboard, mirror >> /\ y.pinned = r BY <3>2
    <3>4. PICK f : f = Fact("local_pause_facts", None, None, Instant(stream, 0)) OBVIOUS
    <3>5. s.store = "runner" /\ s.named = r /\ s.rows = << f >>
      BY <2>2, <3>1, <3>4 DEF BrakeStep, Step, compose_local_pause
    <3>6. f \in Rows(s.rows) /\ f.table = "local_pause_facts" BY <3>4, <3>5, TupleRows DEF Fact
    <3>7. PICK e \in D : e.fact = f /\ e.runner = r BY <1>2, <2>0, <3>5, <3>6
    <3>8. Braked(r, D) BY <3>6, <3>7 DEF Braked
    <3>9. Fleet(y, D, K) BY <2>1, <2>2, <3>3, <3>8 DEF Fleet
    <3>10. QED BY <2>3, <3>9
  <2>5. CASE x.steps = << onboard, mirror >>
    <3>1. s = onboard /\ Len(x.steps) = 2 /\ Tail(x.steps) = << mirror >> BY <2>5, TailsOf
    <3>2. y = [steps |-> << mirror >>, asked |-> x.asked, pinned |-> r]
      <4>1. Len(x.steps) # 1 BY <3>1
      <4>2. HandedOver(x) = [steps |-> Tail(x.steps), asked |-> x.asked, pinned |-> x.pinned]
        BY <4>1 DEF HandedOver
      <4>3. QED BY <2>0, <2>3, <3>1, <4>2
    <3>3. y.steps = << mirror >> /\ y.pinned = r BY <3>2
    <3>4. s.store = "hub" /\ s.rows = board BY <2>2, <3>1 DEF Step
    <3>5. ASSUME NEW i \in {3, 4} PROVE HoldsChunk(BoardChunk(stream, i), K)
      <4>1. PICK f \in Rows(board) : f.table = "chunks" /\ f.id = BoardChunk(stream, i) BY <2>1
      <4>2. PICK e \in K : e.fact = f BY <3>4, <4>1
      <4>3. QED BY <4>1, <4>2 DEF HoldsChunk
    <3>6. Fleet(y, D, K) BY <2>1, <2>2, <3>3, <3>5 DEF Fleet
    <3>7. QED BY <2>3, <3>6
  <2>6. CASE x.steps = << mirror >>
    <3>1. y = Idle BY <2>3, <2>6, TailsOf DEF HandedOver
    <3>2. QED BY <2>3, <3>1, IdleFits
  <2>7. QED BY <2>1, <2>2, <2>4, <2>5, <2>6
<1>3. QED BY <1>1, <1>2

(* land.                                                                     *)
LEMMA LandStep == ASSUME IInv, NEW p \in Procs, land(p) PROVE IInv'
<1>1. PICK x : x = inv[p] OBVIOUS
<1>2. PICK s : s = Head(x.steps) OBVIOUS
<1>3. PICK ten, held, H, E : ten = tenanted /\ held = HeldTenants /\ H = hub /\ E = runner.rows OBVIOUS
<1>4. InFlight(x, ten, held, H) /\ Fleet(x, E, H) BY <1>1, <1>3 DEF IInv, StepsInv
<1>5. x.steps # << >> BY <1>1 DEF land, Flying
<1>6. s = x.steps[1] /\ Fits(s, x.asked, ten, held, H) BY <1>2, <1>4, <1>5, NextStep
<1>7. s.rows # Refused /\ IsSeq(s.rows) BY <1>1, <1>2, <1>6 DEF land, Takes, Fits
<1>8. inv' = [inv EXCEPT ![p] = HandedOver(x)] /\ tenanted' = tenanted /\ begun' = begun BY <1>1 DEF land
<1>9. CASE s.store = "hub"
  <2>1. HubTakes(s) /\ runner' = runner
        /\ hub' = hub \cup Stamped(s.rows, TenantFor({f.table : f \in Rows(s.rows)}, s.tenant))
    BY <1>1, <1>2, <1>9 DEF land, Takes
  <2>2. Fits(s, x.asked, tenanted, HeldTenants, hub) BY <1>3, <1>6
  <2>3. HubInv BY DEF IInv
  <2>4. HubInv' /\ HeldTenants' = HeldTenants /\ hub' = hub \cup Written(s, tenanted, HeldTenants)
    BY <1>7, <1>8, <1>9, <2>1, <2>2, <2>3, HubLands
  <2>5. PICK K, D : K = hub' /\ D = runner'.rows OBVIOUS
  <2>6. K = H \cup Written(s, ten, held) /\ D = E BY <1>3, <2>1, <2>4, <2>5
  <2>7. InFlight(HandedOver(x), ten, held, K) BY <1>4, <1>5, <1>6, <2>6, LeftFits
  <2>8. \A f \in Rows(s.rows) : \E e \in K : e.fact = f
    <3>1. PICK t : t = TenantOf(s, ten, held) OBVIOUS
    <3>2. Facts(Stamped(s.rows, t)) = Rows(s.rows) BY FactsOf
    <3>3. QED BY <2>6, <3>1, <3>2 DEF Facts, Written
  <2>9. Fleet(HandedOver(x), D, K) BY <1>4, <1>5, <1>6, <1>9, <2>6, <2>8, FleetMoves
  <2>10. PICK y : y = HandedOver(x) OBVIOUS
  <2>11. InFlight(y, tenanted, HeldTenants, hub') /\ Fleet(y, runner'.rows, hub') BY <1>3, <2>5, <2>7, <2>9, <2>10
  <2>12. hub \subseteq hub' /\ runner.rows \subseteq runner'.rows BY <2>1
  <2>13. inv' = [inv EXCEPT ![p] = y] BY <1>8, <2>10
  <2>14. StepsInv' BY <1>8, <2>4, <2>11, <2>12, <2>13, StepsFrom DEF IInv
  <2>15. SeqsInv' BY <2>1, SeqsKept DEF IInv, SeqsInv, RunnerShape
  <2>16. QED BY <1>8, <2>4, <2>14, <2>15 DEF IInv
<1>10. CASE s.store # "hub"
  <2>1. RunnerTakes(s) /\ hub' = hub
        /\ runner' = [rows |-> runner.rows \cup Assigned(s.rows, RunnerFor(s.named)),
                      identity |-> runner.identity, counter |-> Advanced(s.rows, RunnerFor(s.named))]
    BY <1>1, <1>2, <1>10 DEF land, Takes
  <2>2. PICK r : r = RunnerFor(s.named) OBVIOUS
  <2>3. SeqsInv' BY <1>7, <2>1, <2>2, SeqsLand DEF IInv
  <2>4. HubInv' BY <1>8, <2>1, HubSame DEF IInv
  <2>5. HeldTenants' = HeldTenants BY <2>1 DEF HeldTenants
  <2>6. PICK K, D : K = hub' /\ D = runner'.rows OBVIOUS
  <2>7. K = H /\ D = E \cup Assigned(s.rows, r) BY <1>3, <2>1, <2>2, <2>6
  <2>8. InFlight(HandedOver(x), ten, held, K) BY <1>4, <1>5, <1>6, <1>10, <2>7, LeftFits
  <2>9. s.named # None => \A f \in Rows(s.rows) : \E e \in D : e.fact = f /\ e.runner = s.named
    <3> SUFFICES ASSUME s.named # None, NEW f \in Rows(s.rows) PROVE \E e \in D : e.fact = f /\ e.runner = s.named
      OBVIOUS
    <3>1. r = s.named BY <2>1, <2>2 DEF RunnerTakes, RunnerFor
    <3>2. PICK i \in DOMAIN s.rows : f = s.rows[i] BY DEF Rows
    <3>3. PICK e : e = [fact |-> s.rows[i], runner |-> r, seq |-> AssignedSeq(s.rows, r, i)] OBVIOUS
    <3>4. e \in Assigned(s.rows, r) BY <3>3 DEF Assigned
    <3>5. e.fact = f /\ e.runner = s.named BY <3>1, <3>2, <3>3
    <3>6. QED BY <2>7, <3>4, <3>5
  <2>10. Fleet(HandedOver(x), D, K) BY <1>4, <1>5, <1>6, <1>10, <2>7, <2>9, FleetMoves
  <2>11. PICK y : y = HandedOver(x) OBVIOUS
  <2>12. InFlight(y, tenanted, HeldTenants, hub') /\ Fleet(y, runner'.rows, hub') BY <1>3, <2>6, <2>8, <2>10, <2>11
  <2>13. hub \subseteq hub' /\ runner.rows \subseteq runner'.rows BY <1>3, <2>1, <2>6, <2>7
  <2>14. inv' = [inv EXCEPT ![p] = y] BY <1>8, <2>11
  <2>15. StepsInv' BY <1>8, <2>5, <2>12, <2>13, <2>14, StepsFrom DEF IInv
  <2>16. QED BY <1>8, <2>3, <2>4, <2>15 DEF IInv
<1>11. QED BY <1>9, <1>10

(* refuse and crash.                                                         *)
LEMMA EndStep ==
    ASSUME IInv, NEW p \in Procs, inv' = [inv EXCEPT ![p] = Idle], UNCHANGED <<tenanted, hub, runner, begun>>
    PROVE  IInv'
<1>1. StepsInv' BY EndsFit DEF IInv
<1>2. HubInv' BY HubSame DEF IInv
<1>3. SeqsInv' BY SeqsKept DEF IInv, SeqsInv, RunnerShape
<1>4. QED BY <1>1, <1>2, <1>3 DEF IInv

(* An invocation begins.                                                     *)
LEMMA BeginStep ==
    ASSUME IInv, NEW p \in Procs, NEW steps, NEW asked, NEW pinned, Begin(p, steps, asked, pinned),
           InFlight([steps |-> steps, asked |-> asked, pinned |-> pinned], tenanted, HeldTenants, hub),
           Fleet([steps |-> steps, asked |-> asked, pinned |-> pinned], runner.rows, hub)
    PROVE  IInv'
<1>1. PICK x : x = [steps |-> steps, asked |-> asked, pinned |-> pinned] OBVIOUS
<1>2. inv' = [inv EXCEPT ![p] = x] /\ UNCHANGED <<tenanted, hub, runner>> /\ begun' = begun + 1
  BY <1>1 DEF Begin
<1>3. HeldTenants' = HeldTenants BY <1>2 DEF HeldTenants
<1>4. InFlight(x, tenanted, HeldTenants, hub') /\ Fleet(x, runner'.rows, hub') BY <1>1, <1>2
<1>5. StepsInv' BY <1>2, <1>3, <1>4, StepsFrom DEF IInv
<1>6. HubInv' BY <1>2, HubSame DEF IInv
<1>7. SeqsInv' BY <1>2, SeqsKept DEF IInv, SeqsInv, RunnerShape
<1>8. QED BY <1>2, <1>5, <1>6, <1>7 DEF IInv

-----------------------------------------------------------------------------
(* Resets and daemons                                                        *)

(* Tables whose rows rest on no other row.                                   *)
Free == {"tenants", "hub_event_log", "work_item_sequence", "projects", "runner_registrations"}
LEMMA FreeFits ==
    ASSUME NEW e, NEW H, NEW F, e.fact.table \in Free PROVE Grounded(e, H) /\ Parented(e.fact, F)
<1>1. Grounded(e, H) BY DEF Free, Grounded
<1>2. ParentTable(e.fact) = "none" BY DEF Free, ParentTable, ChunkFacts
<1>3. QED BY <1>1, <1>2 DEF Parented

LEMMA AllFit ==
    ASSUME StepsInv, hub \subseteq hub', runner.rows \subseteq runner'.rows,
           tenanted' = tenanted, HeldTenants' = HeldTenants, inv' = inv
    PROVE  StepsInv'
<1>1. \A p \in Procs : InFlight(inv'[p], tenanted', HeldTenants', hub') /\ Fleet(inv'[p], runner'.rows, hub')
  BY OthersFit
<1>2. DOMAIN inv' = Procs BY DEF StepsInv
<1>3. QED BY <1>1, <1>2 DEF StepsInv

LEMMA ResetStep == ASSUME IInv, NEW store, reset(store) PROVE IInv'
<1>1. inv' = inv /\ tenanted' = tenanted /\ begun' \in Nat BY DEF reset, IInv
<1>2. StepsInv'
  <2>1. ASSUME NEW p \in Procs
        PROVE  InFlight(inv'[p], tenanted', HeldTenants', hub') /\ Fleet(inv'[p], runner'.rows, hub')
    <3>1. PICK x, E, H, K, D, ten, held : /\ x = inv[p] /\ E = runner.rows /\ H = hub
                                          /\ K = hub' /\ D = runner'.rows /\ ten = tenanted' /\ held = HeldTenants'
      OBVIOUS
    <3>2. x.steps = << >> BY <3>1 DEF reset, Flying
    <3>3. Fleet(x, E, H) BY <3>1 DEF IInv, StepsInv
    <3>4. x.pinned = None
      <4>1. \A a : << a >> # << >> BY TailsOf
      <4>2. \A a, b : << a, b >> # << >> BY TailsOf
      <4>3. \A a, b, c : << a, b, c >> # << >> BY TailsOf
      <4>4. QED BY <3>2, <3>3, <4>1, <4>2, <4>3 DEF Fleet
    <3>5. Fleet(x, D, K) BY <3>4 DEF Fleet
    <3>6. 1 .. Len(x.steps) = {} /\ IsSeq(x.steps) BY <3>2, TupleRows
    <3>7. InFlight(x, ten, held, K) BY <3>6 DEF InFlight
    <3>8. inv'[p] = x BY <1>1, <3>1
    <3>9. InFlight(inv'[p], tenanted', HeldTenants', hub') BY <3>1, <3>7, <3>8
    <3>10. Fleet(inv'[p], runner'.rows, hub') BY <3>1, <3>5, <3>8
    <3>11. QED BY <3>9, <3>10
  <2>2. DOMAIN inv' = Procs BY <1>1 DEF IInv, StepsInv
  <2>3. QED BY <2>1, <2>2 DEF StepsInv
<1>3. CASE store = "hub"
  <2>1. runner' = runner /\ hub' = (IF tenanted THEN {e \in hub : StartingState(e)} ELSE {}) BY <1>3 DEF reset
  <2>2. SeqsInv' BY <2>1, SeqsKept DEF IInv, SeqsInv, RunnerShape
  <2>3. \A e \in hub' : e \in hub /\ e.fact.table \in Free
    BY <2>1 DEF StartingState, GlobalTables, Free
  <2>4. KeysHold' BY <2>3 DEF KeysHold, IInv, HubInv
  <2>5. \A e \in hub' : Parented(e.fact, Facts(hub')) /\ Grounded(e, hub')
    <3>1. PICK F, K : F = Facts(hub') /\ K = hub' OBVIOUS
    <3>2. \A e \in K : Parented(e.fact, F) /\ Grounded(e, K) BY <2>3, <3>1, FreeFits
    <3>3. QED BY <3>1, <3>2
  <2>6. HeldTenants' \subseteq HeldTenants BY <2>3 DEF HeldTenants, Facts
  <2>7. HubInv' BY <1>1, <2>3, <2>4, <2>5, <2>6 DEF HubInv, IInv
  <2>8. QED BY <1>1, <1>2, <2>2, <2>7 DEF IInv
<1>4. CASE store # "hub"
  <2>1. hub' = hub /\ runner' = [rows |-> {}, identity |-> None, counter |-> NoCounters] BY <1>4 DEF reset
  <2>2. HubInv' BY <1>1, <2>1, HubSame DEF IInv
  <2>3. RunnerShape' BY <2>1 DEF RunnerShape
  <2>4. runner'.rows = {} /\ runner'.counter = NoCounters BY <2>1
  <2>5. \A r, lane : Outbox(r, lane)' = {} BY <2>4 DEF Outbox
  <2>6. SeqsIssuedOnce' BY <2>5 DEF SeqsIssuedOnce, Outbox
  <2>7. runner'.counter \in [Runners \X Lanes -> Nat] BY <2>4 DEF NoCounters
  <2>8. SeqsInv' BY <2>3, <2>5, <2>6, <2>7 DEF SeqsInv
  <2>9. QED BY <1>1, <1>2, <2>2, <2>8 DEF IInv
<1>5. QED BY <1>3, <1>4

LEMMA RegisterStep == ASSUME IInv, NEW r, daemon_registers(r) PROVE IInv'
<1>1. inv' = inv /\ tenanted' = tenanted /\ begun' = begun /\ runner' = [runner EXCEPT !.identity = r]
  BY DEF daemon_registers
<1>2. runner'.rows = runner.rows /\ runner'.counter = runner.counter /\ RunnerShape'
  BY <1>1 DEF IInv, SeqsInv, RunnerShape
<1>3. SeqsInv' BY <1>2, SeqsKept DEF IInv
<1> DEFINE at == IF tenanted THEN CHOOSE t \in HeldTenants : TRUE ELSE None
<1>0. ~tenanted => at = None OBVIOUS
<1> HIDE DEF at
<1>4. PICK e : e = [fact |-> Registration(r, TRUE, 0), tenant |-> at] OBVIOUS
<1>5. e.fact.table = "runner_registrations" /\ e.fact.id = r /\ (~tenanted => e.tenant = None)
  BY <1>0, <1>4 DEF Registration, Fact
<1>6. PICK W : hub' = hub \cup W /\ W \subseteq {e} /\ (W # {} =>
                 ~ \E f \in Facts(hub) : f.table = "runner_registrations" /\ f.id = r)
  <2>1. CASE \E f \in Facts(hub) : f.table = "runner_registrations" /\ f.id = r
    <3>1. hub' = hub \cup {} BY <2>1 DEF daemon_registers
    <3>2. QED BY <3>1
  <2>2. CASE ~ \E f \in Facts(hub) : f.table = "runner_registrations" /\ f.id = r
    <3>1. hub' = hub \cup {e} BY <1>4, <2>2 DEF daemon_registers, at
    <3>2. QED BY <2>2, <3>1
  <2>3. QED BY <2>1, <2>2
<1>7. \A d \in W, f \in hub \cup W : Clash(d.fact, f.fact) => d = f
  BY <1>5, <1>6 DEF Clash, Facts
<1>8. \A d \in W : d = e /\ e.fact.table \in Free /\ e.fact.table # "tenants" BY <1>5, <1>6 DEF Free
<1>9. PICK F, K : F = Facts(hub \cup W) /\ K = hub \cup W OBVIOUS
<1>10. \A d \in W : d.fact.table # "tenants" /\ Grounded(d, K) /\ Parented(d.fact, F) /\ (~tenanted => d.tenant = None)
  BY <1>5, <1>8, FreeFits
<1>11. HubInv' /\ HeldTenants' = HeldTenants BY <1>1, <1>6, <1>7, <1>9, <1>10, HubGrows DEF IInv
<1>12. StepsInv' BY <1>1, <1>2, <1>6, <1>11, AllFit DEF IInv
<1>13. QED BY <1>1, <1>3, <1>11, <1>12 DEF IInv

LEMMA ProjectStep == ASSUME IInv, NEW t, daemon_adds_project(t) PROVE IInv'
<1>1. UNCHANGED <<tenanted, runner, inv, begun>> /\ tenanted BY DEF daemon_adds_project
<1>2. PICK e : e = [fact |-> [Fact("projects", None, None, 0) EXCEPT !.tag = "second"], tenant |-> t] OBVIOUS
<1>3. hub' = hub \cup {e} BY <1>2 DEF daemon_adds_project
<1>4. e.fact.table = "projects" BY <1>2 DEF Fact
<1>5. SeqsInv' BY <1>1, SeqsKept DEF IInv, SeqsInv, RunnerShape
<1>6. \A f : ~Clash(e.fact, f) BY <1>4 DEF Clash, Keyed
<1>7. e.fact.table \in Free /\ e.fact.table # "tenants" BY <1>4 DEF Free
<1>8. PICK F, K, W : F = Facts(hub \cup {e}) /\ K = hub \cup {e} /\ W = {e} OBVIOUS
<1>9. Grounded(e, K) /\ Parented(e.fact, F) BY <1>7, FreeFits
<1>10. HubInv' /\ HeldTenants' = HeldTenants
  <2>1. \A d \in W : d.fact.table # "tenants" /\ Grounded(d, hub \cup W) /\ Parented(d.fact, Facts(hub \cup W))
                     /\ (~tenanted => d.tenant = None) BY <1>1, <1>7, <1>8, <1>9
  <2>2. \A d \in W, f \in hub \cup W : Clash(d.fact, f.fact) => d = f BY <1>6, <1>8
  <2>3. hub' = hub \cup W BY <1>3, <1>8
  <2>4. QED BY <1>1, <2>1, <2>2, <2>3, HubGrows DEF IInv
<1>11. StepsInv' BY <1>1, <1>3, <1>10, AllFit DEF IInv
<1>12. QED BY <1>1, <1>5, <1>10, <1>11 DEF IInv

-----------------------------------------------------------------------------
(* A chunk's rows                                                            *)

(* A node's id tells its graph and its name.                                 *)
LEMMA NodeIds ==
    \A g \in Int : /\ NodeId(g, "build") = 10 * g + 1 /\ NodeId(g, "deliver") = 10 * g + 2
                   /\ NodeId(g, "long") = 10 * g + 3
<1>1. NodeNames[1] = "build" /\ NodeNames[2] = "deliver" /\ NodeNames[3] = "long" BY DEF NodeNames
<1>2. 1 .. 3 = {1, 2, 3} OBVIOUS
<1>3. PICK b : b = (CHOOSE i \in 1 .. 3 : NodeNames[i] = "build") OBVIOUS
<1>4. PICK d : d = (CHOOSE i \in 1 .. 3 : NodeNames[i] = "deliver") OBVIOUS
<1>5. PICK l : l = (CHOOSE i \in 1 .. 3 : NodeNames[i] = "long") OBVIOUS
<1>6. b \in {1, 2, 3} /\ NodeNames[b] = "build" BY <1>1, <1>2, <1>3
<1>7. d \in {1, 2, 3} /\ NodeNames[d] = "deliver" BY <1>1, <1>2, <1>4
<1>8. l \in {1, 2, 3} /\ NodeNames[l] = "long" BY <1>1, <1>2, <1>5
<1>9. b = 1 /\ d = 2 /\ l = 3 BY <1>1, <1>6, <1>7, <1>8
<1>10. QED BY <1>3, <1>4, <1>5, <1>9 DEF NodeId
LEMMA TenApart ==
    ASSUME NEW g \in Int, NEW h \in Int, NEW a \in 1 .. 3, NEW b \in 1 .. 3, 10 * g + a = 10 * h + b
    PROVE  g = h /\ a = b
OBVIOUS
NodeNo(name) == IF name = "build" THEN 1 ELSE IF name = "deliver" THEN 2 ELSE 3
LEMMA NodesApart ==
    /\ \A g \in Int, n \in Names : NodeId(g, n) \in Int /\ NodeId(g, n) # Done /\ NodeId(g, n) # None
    /\ \A g, h \in Int, n, m \in Names : NodeId(g, n) = NodeId(h, m) => g = h /\ n = m
<1>0. ASSUME NEW g \in Int, NEW n \in Names
      PROVE  NodeId(g, n) = 10 * g + NodeNo(n) /\ NodeNo(n) \in 1 .. 3 /\ NodeId(g, n) \in Int
  <2>1. n \in {"build", "deliver", "long"} BY DEF Names
  <2>2. NodeId(g, n) = 10 * g + NodeNo(n) /\ NodeNo(n) \in {1, 2, 3} BY <2>1, NodeIds DEF NodeNo
  <2>3. PICK a, b : a = NodeId(g, n) /\ b = NodeNo(n) OBVIOUS
  <2>4. a = 10 * g + b /\ b \in {1, 2, 3} BY <2>2, <2>3
  <2>5. a \in Int /\ b \in 1 .. 3 BY <2>4
  <2>6. QED BY <2>2, <2>3, <2>5
<1>2. ASSUME NEW g \in Int, NEW h \in Int, NEW n \in Names, NEW m \in Names, NodeId(g, n) = NodeId(h, m)
      PROVE  g = h /\ n = m
  <2>1. PICK a, b : a = NodeNo(n) /\ b = NodeNo(m) OBVIOUS
  <2>2. a \in 1 .. 3 /\ b \in 1 .. 3 /\ 10 * g + a = 10 * h + b BY <1>0, <1>2, <2>1
  <2>3. g = h /\ a = b BY <2>2, TenApart
  <2>4. NodeNo(n) = NodeNo(m) => n = m BY DEF Names, NodeNo
  <2>5. QED BY <2>1, <2>3, <2>4
<1>3. QED BY <1>0, <1>2, ColumnAssumption

(* The parts of a composed chunk, each with the rows it is made of.          *)
Stamps(stream) == [offset \in 0 .. 5 |-> Instant(stream, offset)]
ChunkRow(graph, chunk, at) == Fact("chunks", graph, chunk, at[0])
LEMMA StampsRise ==
    ASSUME NEW stream \in Nat
    PROVE  \A i, j \in 0 .. 5 : /\ Stamps(stream)[i] \in Int
                                /\ (i < j => Stamps(stream)[i] < Stamps(stream)[j])
BY DEF Stamps, Instant

(* Every part of a composed chunk is a sequence of rows.                     *)
LEMMA PartRows ==
    ASSUME NEW c, NEW chunk, NEW graph, NEW id, NEW at
    PROVE  /\ IsSeq(Promoted(c, chunk, at)) /\ IsSeq(Leased(c, chunk, at))
           /\ IsSeq(Moved(c, chunk, graph, id, at)) /\ IsSeq(Held(c, chunk, graph, id, at))
           /\ IsSeq(Routed(c, chunk, id, at))
<1>1. IsSeq(Promoted(c, chunk, at)) BY TupleRows DEF Promoted
<1>2. IsSeq(Leased(c, chunk, at)) BY TupleRows DEF Leased, compose_lease_rows
<1>3. IsSeq(Moved(c, chunk, graph, id, at)) BY TupleRows DEF Moved
<1>4. IsSeq(Held(c, chunk, graph, id, at)) BY TupleRows DEF Held
<1>5. IsSeq(Routed(c, chunk, id, at)) BY TupleRows DEF Routed
<1>6. QED BY <1>1, <1>2, <1>3, <1>4, <1>5
LEMMA ChunkRows ==
    ASSUME NEW c, NEW chunk, NEW graph, NEW nodes, NEW stream, NEW draw, ~ChunkRefused(c, nodes),
           NEW at, at = Stamps(stream), NEW id, id = Mint(stream, draw),
           NEW R, R = compose_chunk(c, chunk, graph, nodes, stream, draw)
    PROVE  /\ IsSeq(R)
           /\ Rows(R) = {ChunkRow(graph, chunk, at)} \cup Rows(Promoted(c, chunk, at))
                        \cup Rows(Leased(c, chunk, at)) \cup Rows(Moved(c, chunk, graph, id, at))
                        \cup Rows(Held(c, chunk, graph, id, at)) \cup Rows(Routed(c, chunk, id, at))
<1>1. PICK k, p, l, m, h, r :
         /\ k = << ChunkRow(graph, chunk, at) >> /\ p = Promoted(c, chunk, at) /\ l = Leased(c, chunk, at)
         /\ m = Moved(c, chunk, graph, id, at) /\ h = Held(c, chunk, graph, id, at) /\ r = Routed(c, chunk, id, at)
  OBVIOUS
<1>2. IsSeq(k) /\ IsSeq(p) /\ IsSeq(l) /\ IsSeq(m) /\ IsSeq(h) /\ IsSeq(r) BY <1>1, PartRows, TupleRows
<1>3. R = k \o p \o l \o m \o h \o r BY <1>1 DEF compose_chunk, Stamps, ChunkRow
<1>4. IsSeq(k \o p) /\ Rows(k \o p) = Rows(k) \cup Rows(p) BY <1>2, CatRows
<1>5. IsSeq(k \o p \o l) /\ Rows(k \o p \o l) = Rows(k) \cup Rows(p) \cup Rows(l) BY <1>2, <1>4, CatRows
<1>6. IsSeq(k \o p \o l \o m) /\ Rows(k \o p \o l \o m) = Rows(k) \cup Rows(p) \cup Rows(l) \cup Rows(m)
  BY <1>2, <1>5, CatRows
<1>7. IsSeq(k \o p \o l \o m \o h)
      /\ Rows(k \o p \o l \o m \o h) = Rows(k) \cup Rows(p) \cup Rows(l) \cup Rows(m) \cup Rows(h)
  BY <1>2, <1>6, CatRows
<1>8. IsSeq(R) /\ Rows(R) = Rows(k) \cup Rows(p) \cup Rows(l) \cup Rows(m) \cup Rows(h) \cup Rows(r)
  BY <1>2, <1>3, <1>7, CatRows
<1>9. Rows(k) = {ChunkRow(graph, chunk, at)} BY <1>1, TupleRows
<1>10. QED BY <1>1, <1>8, <1>9

(* The columns of each kind of row a chunk is composed of.                   *)
LEMMA FactIs ==
    ASSUME NEW table, NEW of, NEW id, NEW at, NEW f, f = Fact(table, of, id, at)
    PROVE  /\ f.table = table /\ f.of = of /\ f.id = id /\ f.at = at
           /\ f.runner = None /\ f.node = None /\ f.epoch = 0 /\ f.ref = None /\ f.tag = None
BY DEF Fact
LEMMA TransitionIs ==
    ASSUME NEW c, NEW chunk, NEW id, NEW from, NEW to, NEW at, NEW f, f = Transition(c, chunk, id, from, to, at)
    PROVE  f.table = "transitions" /\ f.of = chunk /\ f.id = id /\ f.at = at /\ f.ref = from /\ f.node = to
BY DEF Transition, Fact
LEMMA LeaseIs ==
    ASSUME NEW chunk, NEW epoch, NEW r, NEW at, NEW f, f = LeaseRow(chunk, epoch, r, at)
    PROVE  f.table = "lease_facts" /\ f.of = chunk /\ f.at = at /\ f.runner = r /\ f.epoch = epoch
BY DEF LeaseRow, Fact
LEMMA OwnerIs ==
    ASSUME NEW chunk, NEW epoch, NEW r, NEW at, NEW f, f = OwnerRow(chunk, epoch, r, at)
    PROVE  f.table = "epoch_owners" /\ f.of = chunk /\ f.at = at /\ f.runner = OwnerOf(r) /\ f.epoch = epoch
BY DEF OwnerRow, Fact
LEMMA RouteIs ==
    ASSUME NEW c, NEW chunk, NEW id, NEW at, NEW f, f = RouteRow(c, chunk, id, at)
    PROVE  f.table = "route_created" /\ f.of = chunk /\ f.id = id /\ f.at = at
BY DEF RouteRow, Fact

(* What each part holds, by the status the chunk is composed for.            *)
LEMMA PromotedIs ==
    ASSUME NEW c, NEW chunk, NEW at
    PROVE  /\ c.status = "not_ready" => Rows(Promoted(c, chunk, at)) = {}
           /\ c.status # "not_ready" => Rows(Promoted(c, chunk, at)) = {Fact("chunk_promoted", chunk, None, at[1])}
BY TupleRows DEF Promoted
LEMMA LeasedIs ==
    ASSUME NEW c, NEW chunk, NEW at
    PROVE  /\ c.status \in {"done", "delivering", "running"} =>
                Rows(Leased(c, chunk, at)) =
                    {LeaseRow(chunk, c.epoch, c.runner, at[2]), OwnerRow(chunk, c.epoch, c.runner, at[2])}
           /\ c.status \notin {"done", "delivering", "running"} => Rows(Leased(c, chunk, at)) = {}
BY TupleRows DEF Leased, compose_lease_rows
LEMMA RoutedIs ==
    ASSUME NEW c, NEW chunk, NEW id, NEW at
    PROVE  /\ c.status \in {"delivering", "running"} =>
                Rows(Routed(c, chunk, id, at)) = {RouteRow(c, chunk, id, at[3])}
           /\ c.status \notin {"delivering", "running"} /\ c.mirrored =>
                Rows(Routed(c, chunk, id, at)) = {RouteRow(c, chunk, id, at[5])}
           /\ c.status \notin {"delivering", "running"} /\ ~c.mirrored => Rows(Routed(c, chunk, id, at)) = {}
BY TupleRows DEF Routed, Mirrored
Hop(c, chunk, graph, id, from, name, at) == Transition(c, chunk, id, from, NodeId(graph, name), at)
Finish(c, chunk, graph, id, at) == Transition(c, chunk, id + 1, NodeId(graph, Lands(c)), Done, at)
LEMMA MovedIs ==
    ASSUME NEW c, NEW chunk, NEW graph, NEW id, NEW at, c.status \in Statuses
    PROVE  /\ c.status \in {"ready", "not_ready"} => Moved(c, chunk, graph, id, at) = << >>
           /\ c.status = "stopped" /\ c.node = None => Moved(c, chunk, graph, id, at) = << >>
           /\ c.status = "stopped" /\ c.node # None =>
                Moved(c, chunk, graph, id, at) = << Hop(c, chunk, graph, id, None, c.node, at[2]) >>
           /\ c.status = "done" /\ Lands(c) = "build" =>
                Moved(c, chunk, graph, id, at) = << Finish(c, chunk, graph, id, at[4]) >>
           /\ c.status = "done" /\ Lands(c) # "build" =>
                Moved(c, chunk, graph, id, at) = << Hop(c, chunk, graph, id, NodeId(graph, "build"), Lands(c), at[3]),
                                                    Finish(c, chunk, graph, id, at[4]) >>
           /\ c.status \in {"delivering", "running"} =>
                Moved(c, chunk, graph, id, at) = << Hop(c, chunk, graph, id, None, Lands(c), at[4]) >>
           /\ c.status \in {"needs_human", "waiting_on_human", "paused"} =>
                Moved(c, chunk, graph, id, at) = << Hop(c, chunk, graph, id, None, Lands(c), at[2]) >>
BY DEF Moved, Hop, Finish
LEMMA HeldIs ==
    ASSUME NEW c, NEW chunk, NEW graph, NEW id, NEW at
    PROVE  /\ c.status = "stopped" => Rows(Held(c, chunk, graph, id, at)) = {Fact("chunk_stopped", chunk, None, at[3])}
           /\ c.status = "needs_human" => Rows(Held(c, chunk, graph, id, at)) =
                {[Fact("escalations", chunk, None, at[3]) EXCEPT !.epoch = c.epoch]}
           /\ c.status = "waiting_on_human" => Rows(Held(c, chunk, graph, id, at)) =
                {[Fact("questions", chunk, id + 1, at[3]) EXCEPT
                    !.runner = c.runner, !.epoch = c.epoch, !.node = NodeId(graph, Lands(c))]}
           /\ c.status = "paused" => Rows(Held(c, chunk, graph, id, at)) = {Fact("chunk_pause_facts", chunk, None, at[3])}
           /\ c.status \notin {"stopped", "needs_human", "waiting_on_human", "paused"} =>
                Rows(Held(c, chunk, graph, id, at)) = {}
BY TupleRows DEF Held

(* The tables each part writes.                                              *)
PartsHang(c, chunk, graph, id, at) ==
    /\ \A f \in Rows(Promoted(c, chunk, at)) : f.table = "chunk_promoted" /\ f.of = chunk
    /\ \A f \in Rows(Leased(c, chunk, at)) : f.table \in {"lease_facts", "epoch_owners"} /\ f.of = chunk
    /\ \A f \in Rows(Moved(c, chunk, graph, id, at)) : f.table = "transitions" /\ f.of = chunk
    /\ \A f \in Rows(Held(c, chunk, graph, id, at)) :
          f.table \in {"chunk_stopped", "escalations", "questions", "chunk_pause_facts"} /\ f.of = chunk
    /\ \A f \in Rows(Routed(c, chunk, id, at)) : f.table = "route_created" /\ f.of = chunk
LEMMA PartTables ==
    ASSUME NEW c, NEW chunk, NEW graph, NEW id, NEW at, c.status \in Statuses
    PROVE  PartsHang(c, chunk, graph, id, at)
<1>1. \A f \in Rows(Promoted(c, chunk, at)) : f.table = "chunk_promoted" /\ f.of = chunk
  BY PromotedIs, FactIs
<1>2. \A f \in Rows(Leased(c, chunk, at)) : f.table \in {"lease_facts", "epoch_owners"} /\ f.of = chunk
  <2> SUFFICES ASSUME NEW f \in Rows(Leased(c, chunk, at))
               PROVE  f.table \in {"lease_facts", "epoch_owners"} /\ f.of = chunk OBVIOUS
  <2>1. f \in {LeaseRow(chunk, c.epoch, c.runner, at[2]), OwnerRow(chunk, c.epoch, c.runner, at[2])}
    BY LeasedIs
  <2>2. CASE f = LeaseRow(chunk, c.epoch, c.runner, at[2]) BY <2>2, LeaseIs
  <2>3. CASE f = OwnerRow(chunk, c.epoch, c.runner, at[2]) BY <2>3, OwnerIs
  <2>4. QED BY <2>1, <2>2, <2>3
<1>3. \A f \in Rows(Moved(c, chunk, graph, id, at)) : f.table = "transitions" /\ f.of = chunk
  <2> SUFFICES ASSUME NEW f \in Rows(Moved(c, chunk, graph, id, at))
               PROVE  f.table = "transitions" /\ f.of = chunk OBVIOUS
  <2>1. PICK from, to, i, a : f = Transition(c, chunk, i, from, to, a)
    <3>1. c.status \in {"ready", "not_ready"} \/ c.status = "stopped" \/ c.status = "done"
          \/ c.status \in {"delivering", "running"}
          \/ c.status \in {"needs_human", "waiting_on_human", "paused"} BY DEF Statuses
    <3>2. CASE c.status \in {"ready", "not_ready"} BY <3>2, MovedIs, TupleRows
    <3>3. CASE c.status = "stopped" BY <3>3, MovedIs, TupleRows DEF Hop
    <3>4. CASE c.status = "done" BY <3>4, MovedIs, TupleRows DEF Hop, Finish
    <3>5. CASE c.status \in {"delivering", "running"} BY <3>5, MovedIs, TupleRows DEF Hop
    <3>6. CASE c.status \in {"needs_human", "waiting_on_human", "paused"} BY <3>6, MovedIs, TupleRows DEF Hop
    <3>7. QED BY <3>1, <3>2, <3>3, <3>4, <3>5, <3>6
  <2>2. QED BY <2>1, TransitionIs
<1>4. \A f \in Rows(Held(c, chunk, graph, id, at)) :
                 /\ f.table \in {"chunk_stopped", "escalations", "questions", "chunk_pause_facts"}
                 /\ f.of = chunk
  <2> SUFFICES ASSUME NEW f \in Rows(Held(c, chunk, graph, id, at))
               PROVE  /\ f.table \in {"chunk_stopped", "escalations", "questions", "chunk_pause_facts"}
                      /\ f.of = chunk OBVIOUS
  <2>0. PICK R, a, node : R = Rows(Held(c, chunk, graph, id, at)) /\ a = at[3] /\ node = NodeId(graph, Lands(c))
    OBVIOUS
  <2>1. CASE c.status = "stopped"
    <3>1. R = {Fact("chunk_stopped", chunk, None, a)} BY <2>0, <2>1, HeldIs
    <3>2. f = Fact("chunk_stopped", chunk, None, a) BY <2>0, <3>1
    <3>3. QED BY <3>2, FactIs
  <2>2. CASE c.status = "needs_human"
    <3>1. R = {[Fact("escalations", chunk, None, a) EXCEPT !.epoch = c.epoch]} BY <2>0, <2>2, HeldIs
    <3>2. f = [Fact("escalations", chunk, None, a) EXCEPT !.epoch = c.epoch] BY <2>0, <3>1
    <3>3. QED BY <3>2 DEF Fact
  <2>3. CASE c.status = "waiting_on_human"
    <3>1. R = {[Fact("questions", chunk, id + 1, a) EXCEPT !.runner = c.runner, !.epoch = c.epoch, !.node = node]}
      BY <2>0, <2>3, HeldIs
    <3>2. f = [Fact("questions", chunk, id + 1, a) EXCEPT !.runner = c.runner, !.epoch = c.epoch, !.node = node]
      BY <2>0, <3>1
    <3>3. QED BY <3>2 DEF Fact
  <2>4. CASE c.status = "paused"
    <3>1. R = {Fact("chunk_pause_facts", chunk, None, a)} BY <2>0, <2>4, HeldIs
    <3>2. f = Fact("chunk_pause_facts", chunk, None, a) BY <2>0, <3>1
    <3>3. QED BY <3>2, FactIs
  <2>5. CASE c.status \notin {"stopped", "needs_human", "waiting_on_human", "paused"}
    <3>1. R = {} BY <2>0, <2>5, HeldIs
    <3>2. QED BY <2>0, <3>1
  <2>6. QED BY <2>1, <2>2, <2>3, <2>4, <2>5
<1>5. \A f \in Rows(Routed(c, chunk, id, at)) : f.table = "route_created" /\ f.of = chunk
  <2> SUFFICES ASSUME NEW f \in Rows(Routed(c, chunk, id, at))
               PROVE  f.table = "route_created" /\ f.of = chunk OBVIOUS
  <2>1. f \in {RouteRow(c, chunk, id, at[3]), RouteRow(c, chunk, id, at[5])} BY RoutedIs
  <2>2. QED BY <2>1, RouteIs
<1>6. QED BY <1>1, <1>2, <1>3, <1>4, <1>5 DEF PartsHang

(* A chunk lands on a node of its graph.                                     *)
LEMMA LandsIn ==
    ASSUME NEW c, NEW nodes, c.status \in Statuses, ~ChunkRefused(c, nodes), nodes \subseteq Names
    PROVE  /\ c.status \notin {"ready", "not_ready"} => Lands(c) \in nodes \cup {"build", "deliver"}
           /\ c.status = "delivering" => Lands(c) = "deliver"
           /\ c.status = "running" => Lands(c) \in {"build", "long"}
           /\ c.status = "stopped" /\ c.node # None => c.node \in nodes
<1>1. DefaultNode(c.status) \in {"build", "deliver"} BY DEF DefaultNode
<1>2. \A n \in Names : (Executor(n) = "hub" <=> n = "deliver") BY DEF Executor, Names
<1>3. c.status \notin {"ready", "not_ready"} => Lands(c) \in nodes \cup {"build", "deliver"}
  BY <1>1 DEF Lands, ChunkRefused
<1>4. "build" \in Names /\ "deliver" \in Names BY DEF Names
<1>5. c.status = "delivering" => Lands(c) = "deliver"
  <2> SUFFICES ASSUME c.status = "delivering" PROVE Lands(c) = "deliver" OBVIOUS
  <2>1. Lands(c) \in Names BY <1>3, <1>4
  <2>2. Executor(Lands(c)) = "hub" BY DEF ChunkRefused
  <2>3. QED BY <1>2, <2>1, <2>2
<1>6. c.status = "running" => Lands(c) \in {"build", "long"}
  <2> SUFFICES ASSUME c.status = "running" PROVE Lands(c) \in {"build", "long"} OBVIOUS
  <2>1. Lands(c) \in Names BY <1>3, <1>4
  <2>2. Executor(Lands(c)) # "hub" BY DEF ChunkRefused
  <2>3. Lands(c) # "deliver" BY <1>2, <2>1, <2>2
  <2>4. QED BY <2>1, <2>3 DEF Names
<1>7. c.status = "stopped" /\ c.node # None => c.node \in nodes BY DEF ChunkRefused
<1>8. QED BY <1>3, <1>5, <1>6, <1>7

(* A transition of a composed chunk lands on the terminal or on a node of    *)
(* the graph, and leaves from nowhere or from one.                           *)
LEMMA MovesOnGraph ==
    ASSUME NEW c, NEW nodes, c.status \in Statuses, ~ChunkRefused(c, nodes), nodes \subseteq Names,
           NEW chunk, NEW graph, NEW id, NEW at, NEW f \in Rows(Moved(c, chunk, graph, id, at))
    PROVE  /\ f.node = Done \/ \E n \in nodes \cup {"build", "deliver"} : f.node = NodeId(graph, n)
           /\ f.ref = None \/ \E n \in nodes \cup {"build", "deliver"} : f.ref = NodeId(graph, n)
<1>1. CASE c.status \in {"ready", "not_ready"} BY <1>1, MovedIs, TupleRows
<1>2. CASE c.status = "stopped"
  <2>1. CASE c.node = None BY <1>2, <2>1, MovedIs, TupleRows
  <2>2. CASE c.node # None
    <3>1. f = Transition(c, chunk, id, None, NodeId(graph, c.node), at[2])
      BY <1>2, <2>2, MovedIs, TupleRows DEF Hop
    <3>2. f.ref = None /\ f.node = NodeId(graph, c.node) BY <3>1, TransitionIs
    <3>3. QED BY <1>2, <2>2, <3>2, LandsIn
  <2>3. QED BY <2>1, <2>2
<1>3. CASE c.status = "done"
  <2>1. Lands(c) \in nodes \cup {"build", "deliver"} BY <1>3, LandsIn
  <2>2. f \in {Hop(c, chunk, graph, id, NodeId(graph, "build"), Lands(c), at[3]), Finish(c, chunk, graph, id, at[4])}
    BY <1>3, MovedIs, TupleRows
  <2>3. CASE f = Hop(c, chunk, graph, id, NodeId(graph, "build"), Lands(c), at[3])
    <3>1. f.ref = NodeId(graph, "build") /\ f.node = NodeId(graph, Lands(c)) BY <2>3, TransitionIs DEF Hop
    <3>2. QED BY <2>1, <3>1
  <2>4. CASE f = Finish(c, chunk, graph, id, at[4])
    <3>1. f.ref = NodeId(graph, Lands(c)) /\ f.node = Done BY <2>4, TransitionIs DEF Finish
    <3>2. QED BY <2>1, <3>1
  <2>5. QED BY <2>2, <2>3, <2>4
<1>4. CASE c.status \in {"delivering", "running", "needs_human", "waiting_on_human", "paused"}
  <2>1. PICK a : f = Transition(c, chunk, id, None, NodeId(graph, Lands(c)), a)
    BY <1>4, MovedIs, TupleRows DEF Hop
  <2>2. f.ref = None /\ f.node = NodeId(graph, Lands(c)) BY <2>1, TransitionIs
  <2>3. Lands(c) \in nodes \cup {"build", "deliver"} BY <1>4, LandsIn
  <2>4. QED BY <2>2, <2>3
<1>5. QED BY <1>1, <1>2, <1>3, <1>4 DEF Statuses

(* A chunk composed on a graph that is there, with the nodes it was composed *)
(* for, is grounded.                                                         *)
OnGraph(H, graph, nodes, t) ==
    /\ \E g \in H : g.fact.table = "graphs" /\ g.fact.id = graph /\ g.tenant = t
    /\ \A n \in nodes \cup {"build", "deliver"} : NodeOf(H, graph, NodeId(graph, n))
LEMMA ChunkGrounded ==
    ASSUME NEW c, NEW chunk, NEW graph, NEW nodes, NEW stream, NEW draw, ~ChunkRefused(c, nodes),
           c.status \in Statuses, nodes \subseteq Names,
           NEW R, R = compose_chunk(c, chunk, graph, nodes, stream, draw),
           NEW t, NEW H, OnGraph(H, graph, nodes, t), \A f \in Rows(R) : \E e \in H : e.fact = f,
           NEW f \in Rows(R)
    PROVE  /\ Grounded(Entry(f, t), H) /\ f.table # "tenants"
           /\ f.table \in {"chunks", "chunk_promoted", "lease_facts", "epoch_owners", "transitions", "chunk_stopped",
                           "escalations", "questions", "chunk_pause_facts", "route_created"}
           /\ f.table = "chunks" => f = Fact("chunks", graph, chunk, Instant(stream, 0))
           /\ f.table # "chunks" => f.of = chunk
<1>1. PICK at, id : at = Stamps(stream) /\ id = Mint(stream, draw) OBVIOUS
<1>2. PICK k : k = ChunkRow(graph, chunk, at) OBVIOUS
<1>3. Rows(R) = {k} \cup Rows(Promoted(c, chunk, at))
                        \cup Rows(Leased(c, chunk, at)) \cup Rows(Moved(c, chunk, graph, id, at))
                        \cup Rows(Held(c, chunk, graph, id, at)) \cup Rows(Routed(c, chunk, id, at))
  BY <1>1, <1>2, ChunkRows
<1>4. k.table = "chunks" /\ k.of = graph /\ k.id = chunk BY <1>2, FactIs DEF ChunkRow
<1>5. PICK e : e = Entry(f, t) OBVIOUS
<1>6. e.fact = f /\ e.tenant = StampOf(f, t) BY <1>5 DEF Entry
<1>7. PICK j \in H : j.fact = k BY <1>3
<1>8b. \A n \in nodes \cup {"build", "deliver"} : OwnNode(H, chunk, NodeId(graph, n))
  BY <1>4, <1>7 DEF OnGraph, OwnNode
<1>8a. k = Fact("chunks", graph, chunk, Instant(stream, 0)) BY <1>1, <1>2 DEF ChunkRow, Stamps
<1>8. PartsHang(c, chunk, graph, id, at) BY PartTables
<1>9. CASE f = k
  <2>1. e.tenant = t BY <1>4, <1>6, <1>9 DEF StampOf, GlobalTables
  <2>2. ParentHere(e, H, "graphs") BY <1>4, <1>6, <1>9, <2>1 DEF OnGraph, ParentHere
  <2>3. Grounded(e, H) BY <1>4, <1>6, <1>9, <2>2 DEF Grounded
  <2>4. QED BY <1>4, <1>5, <1>8a, <1>9, <2>3
<1>10. CASE f \in Rows(Promoted(c, chunk, at))
  <2>1. f.table = "chunk_promoted" /\ f.of = chunk BY <1>10, <1>8 DEF PartsHang
  <2>2. Grounded(e, H) BY <1>6, <2>1 DEF Grounded
  <2>3. QED BY <1>5, <2>1, <2>2
<1>11. CASE f \in Rows(Leased(c, chunk, at))
  <2>0. f.table \in {"lease_facts", "epoch_owners"} /\ f.of = chunk BY <1>11, <1>8 DEF PartsHang
  <2>1. PICK l, o : l = LeaseRow(chunk, c.epoch, c.runner, at[2]) /\ o = OwnerRow(chunk, c.epoch, c.runner, at[2])
    OBVIOUS
  <2>2. Rows(Leased(c, chunk, at)) = {l, o} BY <1>11, <2>1, LeasedIs
  <2>3. /\ l.table = "lease_facts" /\ l.of = chunk /\ l.runner = c.runner /\ l.epoch = c.epoch
        /\ o.table = "epoch_owners" /\ o.of = chunk /\ o.runner = OwnerOf(c.runner) /\ o.epoch = c.epoch
    BY <2>1, LeaseIs, OwnerIs
  <2>4. PICK d \in H : d.fact = o BY <1>3, <2>2
  <2>5. CASE f = l
    <3>1. \E x \in H : /\ x.fact.table = "epoch_owners" /\ x.fact.of = f.of
                       /\ x.fact.epoch = f.epoch /\ x.fact.runner = OwnerOf(f.runner)
      BY <2>3, <2>4, <2>5
    <3>2. Grounded(e, H) BY <1>6, <2>3, <2>5, <3>1 DEF Grounded
    <3>3. QED BY <1>5, <2>0, <3>2
  <2>6. CASE f = o
    <3>1. Grounded(e, H) BY <1>6, <2>3, <2>6 DEF Grounded
    <3>2. QED BY <1>5, <2>0, <3>1
  <2>7. QED BY <1>11, <2>2, <2>5, <2>6
<1>12. CASE f \in Rows(Moved(c, chunk, graph, id, at))
  <2>1. f.table = "transitions" /\ f.of = chunk BY <1>12, <1>8 DEF PartsHang
  <2>2. /\ f.node = Done \/ \E n \in nodes \cup {"build", "deliver"} : f.node = NodeId(graph, n)
        /\ f.ref = None \/ \E n \in nodes \cup {"build", "deliver"} : f.ref = NodeId(graph, n)
    BY <1>12, MovesOnGraph
  <2>3. (f.node = Done \/ OwnNode(H, f.of, f.node)) /\ (f.ref = None \/ OwnNode(H, f.of, f.ref))
    BY <1>8b, <2>1, <2>2
  <2>4. Grounded(e, H) BY <1>6, <2>1, <2>3 DEF Grounded
  <2>5. QED BY <1>5, <2>1, <2>4
<1>13. CASE f \in Rows(Held(c, chunk, graph, id, at))
  <2>1. f.table \in {"chunk_stopped", "escalations", "questions", "chunk_pause_facts"} /\ f.of = chunk
    BY <1>13, <1>8 DEF PartsHang
  <2>2. Grounded(e, H) BY <1>6, <2>1 DEF Grounded
  <2>3. QED BY <1>5, <2>1, <2>2
<1>14. CASE f \in Rows(Routed(c, chunk, id, at))
  <2>1. f.table = "route_created" /\ f.of = chunk BY <1>14, <1>8 DEF PartsHang
  <2>2. Grounded(e, H) BY <1>6, <2>1 DEF Grounded
  <2>3. QED BY <1>5, <2>1, <2>2
<1>15. QED BY <1>3, <1>9, <1>10, <1>11, <1>12, <1>13, <1>14

-----------------------------------------------------------------------------
(* What a chunk derives                                                      *)

(* The hub's derivation, condition by condition.                             *)
Own(G, k, table) == {f \in G : f.table = table /\ f.of = k}
Landed(G, k) == \E t \in Newest(Own(G, k, "transitions")) : t.node = Done
OpenOf(G, k) == {e \in Own(G, k, "escalations") : \A l \in Own(G, k, "lease_facts") : l.at <= e.at}
Unanswered(G, k) ==
    {q \in Own(G, k, "questions") : \A a \in G : a.table = "question_answers" => a.of # q.id}
Undecided(G, k) == {d \in Own(G, k, "decisions") : \A t \in Own(G, k, "transitions") : t.at <= d.at}
HubNode(G, n) == \E f \in G : f.table = "graph_nodes" /\ f.id = n /\ Executor(f.tag) = "hub"
OnHubNode(G, k) == \E t \in Newest(Own(G, k, "transitions")) : HubNode(G, t.node)
(* What a chunk none of the conditions before the n-th is met for.           *)
Unmet(G, k) == Own(G, k, "chunk_stopped") = {} /\ ~Landed(G, k) /\ OpenOf(G, k) = {}
Unheld(G, k) ==
    Unmet(G, k) /\ Unanswered(G, k) = {} /\ Undecided(G, k) = {} /\ Own(G, k, "chunk_pause_facts") = {}
LEMMA Matches ==
    ASSUME NEW G, NEW k
    PROVE  /\ Own(G, k, "chunk_stopped") # {} => DerivedStatus(G, k) = "stopped"
           /\ Own(G, k, "chunk_stopped") = {} /\ Landed(G, k) => DerivedStatus(G, k) = "done"
           /\ Own(G, k, "chunk_stopped") = {} /\ ~Landed(G, k) /\ OpenOf(G, k) # {} =>
                DerivedStatus(G, k) = "needs_human"
           /\ Unmet(G, k) /\ Unanswered(G, k) # {} => DerivedStatus(G, k) = "waiting_on_human"
           /\ Unmet(G, k) /\ Unanswered(G, k) = {} /\ Undecided(G, k) = {}
              /\ Own(G, k, "chunk_pause_facts") # {} => DerivedStatus(G, k) = "paused"
           /\ Unheld(G, k) /\ Own(G, k, "route_created") # {} =>
                DerivedStatus(G, k) = IF OnHubNode(G, k) THEN "delivering" ELSE "running"
           /\ Unheld(G, k) /\ Own(G, k, "route_created") = {} =>
                DerivedStatus(G, k) = IF Own(G, k, "chunk_promoted") = {} THEN "not_ready" ELSE "ready"
<1>1. DerivedStatus(G, k) =
             IF Own(G, k, "chunk_stopped") # {} THEN "stopped"
             ELSE IF Landed(G, k) THEN "done"
             ELSE IF OpenOf(G, k) # {} THEN "needs_human"
             ELSE IF Unanswered(G, k) \cup Undecided(G, k) # {} THEN "waiting_on_human"
             ELSE IF Own(G, k, "chunk_pause_facts") # {} THEN "paused"
             ELSE IF Own(G, k, "route_created") # {} THEN IF OnHubNode(G, k) THEN "delivering" ELSE "running"
             ELSE IF Own(G, k, "chunk_promoted") = {} THEN "not_ready" ELSE "ready"
  BY DEF DerivedStatus, Own, Landed, OpenOf, Unanswered, Undecided, HubNode, OnHubNode, Newest
<1>2. Own(G, k, "chunk_stopped") # {} => DerivedStatus(G, k) = "stopped" BY <1>1
<1>3. Own(G, k, "chunk_stopped") = {} /\ Landed(G, k) => DerivedStatus(G, k) = "done" BY <1>1
<1>4. Own(G, k, "chunk_stopped") = {} /\ ~Landed(G, k) /\ OpenOf(G, k) # {} => DerivedStatus(G, k) = "needs_human"
  BY <1>1
<1>5. Unmet(G, k) /\ Unanswered(G, k) # {} => DerivedStatus(G, k) = "waiting_on_human"
  <2>1. Unanswered(G, k) # {} => Unanswered(G, k) \cup Undecided(G, k) # {} OBVIOUS
  <2>2. QED BY <1>1, <2>1 DEF Unmet
<1>6. Unmet(G, k) /\ Unanswered(G, k) = {} /\ Undecided(G, k) = {} /\ Own(G, k, "chunk_pause_facts") # {} =>
         DerivedStatus(G, k) = "paused"
  <2>1. Unanswered(G, k) = {} /\ Undecided(G, k) = {} => Unanswered(G, k) \cup Undecided(G, k) = {} OBVIOUS
  <2>2. QED BY <1>1, <2>1 DEF Unmet
<1>7. ASSUME Unheld(G, k)
      PROVE  DerivedStatus(G, k) =
               IF Own(G, k, "route_created") # {} THEN IF OnHubNode(G, k) THEN "delivering" ELSE "running"
               ELSE IF Own(G, k, "chunk_promoted") = {} THEN "not_ready" ELSE "ready"
  <2>1. Unanswered(G, k) \cup Undecided(G, k) = {} BY <1>7 DEF Unheld
  <2>2. QED BY <1>1, <1>7, <2>1 DEF Unheld, Unmet
<1>8. Unheld(G, k) /\ Own(G, k, "route_created") # {} =>
         DerivedStatus(G, k) = IF OnHubNode(G, k) THEN "delivering" ELSE "running" BY <1>7
<1>9. Unheld(G, k) /\ Own(G, k, "route_created") = {} =>
         DerivedStatus(G, k) = IF Own(G, k, "chunk_promoted") = {} THEN "not_ready" ELSE "ready" BY <1>7
<1>10. QED BY <1>2, <1>3, <1>4, <1>5, <1>6, <1>8, <1>9

StatusFacts == {"chunk_promoted", "lease_facts", "transitions", "chunk_stopped", "escalations", "questions",
                "chunk_pause_facts", "route_created", "decisions"}
(* A hub whose facts of a chunk's status are its composed rows, and maybe    *)
(* more questions of a chunk composed to wait.                               *)
Only(G, R, chunk, status) ==
    \A f \in G : f.table \in StatusFacts /\ f.of = chunk =>
        f \in R \/ (f.table = "questions" /\ status = "waiting_on_human")
Unasked(G, R) ==
    \A q \in R, a \in G : q.table = "questions" /\ a.table = "question_answers" => a.of # q.id
NodesNamed(G) == \A n \in G : n.table = "graph_nodes" => n.of \in Int /\ n.tag \in Names /\ n.id = NodeId(n.of, n.tag)
Delivers(G, graph) == \E n \in G : n.table = "graph_nodes" /\ n.of = graph /\ n.tag = "deliver"
(* The chunk's own facts, part by part.                                      *)
LEMMA OwnParts ==
    ASSUME NEW c, NEW chunk, NEW graph, NEW nodes, NEW stream, NEW draw, ~ChunkRefused(c, nodes),
           c.status \in Statuses,
           NEW R, R = Rows(compose_chunk(c, chunk, graph, nodes, stream, draw)),
           NEW G, R \subseteq G, Only(G, R, chunk, c.status),
           NEW at, at = Stamps(stream), NEW id, id = Mint(stream, draw),
           NEW P, P = Rows(Promoted(c, chunk, at)), NEW L, L = Rows(Leased(c, chunk, at)),
           NEW M, M = Rows(Moved(c, chunk, graph, id, at)), NEW H, H = Rows(Held(c, chunk, graph, id, at)),
           NEW T, T = Rows(Routed(c, chunk, id, at))
    PROVE  /\ Own(G, chunk, "chunk_promoted") = P
           /\ Own(G, chunk, "lease_facts") \subseteq L
           /\ Own(G, chunk, "transitions") = M
           /\ \A t \in {"chunk_stopped", "escalations", "chunk_pause_facts"} :
                 Own(G, chunk, t) = {f \in H : f.table = t}
           /\ {f \in H : f.table = "questions"} \subseteq Own(G, chunk, "questions")
           /\ c.status # "waiting_on_human" => Own(G, chunk, "questions") \subseteq H
           /\ Own(G, chunk, "route_created") = T
           /\ Own(G, chunk, "decisions") = {}
           /\ H \subseteq R /\ \A f \in H : f.table \in {"chunk_stopped", "escalations", "questions", "chunk_pause_facts"}
<1>1. PICK k : k = ChunkRow(graph, chunk, at) OBVIOUS
<1>2. R = {k} \cup P \cup L \cup M \cup H \cup T
  <2>1. PICK s : s = compose_chunk(c, chunk, graph, nodes, stream, draw) OBVIOUS
  <2>2. Rows(s) = {ChunkRow(graph, chunk, at)} \cup Rows(Promoted(c, chunk, at))
                        \cup Rows(Leased(c, chunk, at)) \cup Rows(Moved(c, chunk, graph, id, at))
                        \cup Rows(Held(c, chunk, graph, id, at)) \cup Rows(Routed(c, chunk, id, at))
    BY <2>1, ChunkRows
  <2>3. QED BY <1>1, <2>1, <2>2
<1>3. PartsHang(c, chunk, graph, id, at) BY PartTables
<1>4. /\ \A f \in P : f.table = "chunk_promoted" /\ f.of = chunk
      /\ \A f \in L : f.table \in {"lease_facts", "epoch_owners"} /\ f.of = chunk
      /\ \A f \in M : f.table = "transitions" /\ f.of = chunk
      /\ \A f \in H : f.table \in {"chunk_stopped", "escalations", "questions", "chunk_pause_facts"} /\ f.of = chunk
      /\ \A f \in T : f.table = "route_created" /\ f.of = chunk
  BY <1>3 DEF PartsHang
<1>5. k.table = "chunks" BY <1>1, FactIs DEF ChunkRow
<1>6. \A t \in StatusFacts : \A f \in Own(G, chunk, t) :
         f.table = t /\ (f \in P \cup L \cup M \cup H \cup T \/ (t = "questions" /\ c.status = "waiting_on_human"))
  BY <1>2, <1>5 DEF Own, Only, StatusFacts
<1>7. \A f \in P \cup L \cup M \cup H \cup T : f \in Own(G, chunk, f.table) BY <1>2, <1>4 DEF Own
<1>8. Own(G, chunk, "chunk_promoted") = P
  <2>1. "chunk_promoted" \in StatusFacts /\ "chunk_promoted" # "questions" BY DEF StatusFacts
  <2>2. ASSUME NEW f \in Own(G, chunk, "chunk_promoted") PROVE f \in P BY <1>4, <1>6, <2>1
  <2>3. ASSUME NEW f \in P PROVE f \in Own(G, chunk, "chunk_promoted") BY <1>4, <1>7
  <2>4. QED BY <2>2, <2>3
<1>9. Own(G, chunk, "lease_facts") \subseteq L BY <1>4, <1>6 DEF StatusFacts
<1>10. Own(G, chunk, "transitions") = M
  <2>1. "transitions" \in StatusFacts /\ "transitions" # "questions" BY DEF StatusFacts
  <2>2. ASSUME NEW f \in Own(G, chunk, "transitions") PROVE f \in M BY <1>4, <1>6, <2>1
  <2>3. ASSUME NEW f \in M PROVE f \in Own(G, chunk, "transitions") BY <1>4, <1>7
  <2>4. QED BY <2>2, <2>3
<1>11. \A t \in {"chunk_stopped", "escalations", "chunk_pause_facts"} : Own(G, chunk, t) = {f \in H : f.table = t}
  BY <1>4, <1>6, <1>7 DEF StatusFacts
<1>12. {f \in H : f.table = "questions"} \subseteq Own(G, chunk, "questions") BY <1>7
<1>13. c.status # "waiting_on_human" => Own(G, chunk, "questions") \subseteq H BY <1>4, <1>6 DEF StatusFacts
<1>14. Own(G, chunk, "route_created") = T
  <2>1. "route_created" \in StatusFacts /\ "route_created" # "questions" BY DEF StatusFacts
  <2>2. ASSUME NEW f \in Own(G, chunk, "route_created") PROVE f \in T BY <1>4, <1>6, <2>1
  <2>3. ASSUME NEW f \in T PROVE f \in Own(G, chunk, "route_created") BY <1>4, <1>7
  <2>4. QED BY <2>2, <2>3
<1>15. Own(G, chunk, "decisions") = {} BY <1>4, <1>6 DEF StatusFacts
<1>16. QED BY <1>2, <1>4, <1>8, <1>9, <1>10, <1>11, <1>12, <1>13, <1>14, <1>15

(* The newest of one row, and of two in order, is the last.                  *)
LEMMA NewestIs ==
    /\ Newest({}) = {}
    /\ \A f : f.at \in Int => Newest({f}) = {f}
    /\ \A f, g : f.at \in Int /\ g.at \in Int /\ f.at < g.at => Newest({f, g}) = {g}
BY DEF Newest

(* The row a held chunk is held by.                                          *)
LEMMA HeldRow ==
    ASSUME NEW c, NEW chunk, NEW graph, NEW id, NEW at, NEW H, H = Rows(Held(c, chunk, graph, id, at))
    PROVE  /\ c.status = "stopped" => \E f : H = {f} /\ f.table = "chunk_stopped"
           /\ c.status = "needs_human" => \E f : H = {f} /\ f.table = "escalations"
           /\ c.status = "waiting_on_human" => \E f : H = {f} /\ f.table = "questions"
           /\ c.status = "paused" => \E f : H = {f} /\ f.table = "chunk_pause_facts"
           /\ c.status \notin {"stopped", "needs_human", "waiting_on_human", "paused"} => H = {}
<1>1. PICK a, node, epoch, r : a = at[3] /\ node = NodeId(graph, Lands(c)) /\ epoch = c.epoch /\ r = c.runner OBVIOUS
<1>2. c.status = "stopped" => \E f : H = {f} /\ f.table = "chunk_stopped"
  <2> SUFFICES ASSUME c.status = "stopped" PROVE \E f : H = {f} /\ f.table = "chunk_stopped" OBVIOUS
  <2>1. PICK f : f = Fact("chunk_stopped", chunk, None, a) OBVIOUS
  <2>2. Held(c, chunk, graph, id, at) = << f >> BY <1>1, <2>1 DEF Held
  <2>3. QED BY <2>1, <2>2, TupleRows, FactIs
<1>3. c.status = "needs_human" => \E f : H = {f} /\ f.table = "escalations"
  <2> SUFFICES ASSUME c.status = "needs_human" PROVE \E f : H = {f} /\ f.table = "escalations" OBVIOUS
  <2>1. PICK f : f = [Fact("escalations", chunk, None, a) EXCEPT !.epoch = epoch] OBVIOUS
  <2>2. Held(c, chunk, graph, id, at) = << f >> BY <1>1, <2>1 DEF Held
  <2>3. f.table = "escalations" BY <2>1 DEF Fact
  <2>4. QED BY <2>2, <2>3, TupleRows
<1>4. c.status = "waiting_on_human" => \E f : H = {f} /\ f.table = "questions"
  <2> SUFFICES ASSUME c.status = "waiting_on_human" PROVE \E f : H = {f} /\ f.table = "questions" OBVIOUS
  <2>1. PICK f : f = [Fact("questions", chunk, id + 1, a) EXCEPT !.runner = r, !.epoch = epoch, !.node = node] OBVIOUS
  <2>2. Held(c, chunk, graph, id, at) = << f >> BY <1>1, <2>1 DEF Held
  <2>3. f.table = "questions" BY <2>1 DEF Fact
  <2>4. QED BY <2>2, <2>3, TupleRows
<1>5. c.status = "paused" => \E f : H = {f} /\ f.table = "chunk_pause_facts"
  <2> SUFFICES ASSUME c.status = "paused" PROVE \E f : H = {f} /\ f.table = "chunk_pause_facts" OBVIOUS
  <2>1. PICK f : f = Fact("chunk_pause_facts", chunk, None, a) OBVIOUS
  <2>2. Held(c, chunk, graph, id, at) = << f >> BY <1>1, <2>1 DEF Held
  <2>3. QED BY <2>1, <2>2, TupleRows, FactIs
<1>6. c.status \notin {"stopped", "needs_human", "waiting_on_human", "paused"} => H = {} BY HeldIs
<1>7. QED BY <1>2, <1>3, <1>4, <1>5, <1>6

(* A chunk composed for a status, in a hub that holds only what was composed *)
(* of it, derives that status.                                               *)
LEMMA ChunkDerives ==
    ASSUME NEW c, NEW chunk, NEW graph \in Int, NEW nodes, nodes \subseteq Names, NEW stream \in Nat, NEW draw,
           ~ChunkRefused(c, nodes), c.status \in Statuses, c.mirrored => c.status \in MirroredStatuses,
           NEW R, R = Rows(compose_chunk(c, chunk, graph, nodes, stream, draw)),
           NEW G, R \subseteq G, Only(G, R, chunk, c.status), Unasked(G, R), NodesNamed(G), Delivers(G, graph)
    PROVE  DerivedStatus(G, chunk) = c.status
<1>1. PICK at, id : at = Stamps(stream) /\ id = Mint(stream, draw) OBVIOUS
<1>2. PICK P, L, M, H, T :
         /\ P = Rows(Promoted(c, chunk, at)) /\ L = Rows(Leased(c, chunk, at))
         /\ M = Rows(Moved(c, chunk, graph, id, at)) /\ H = Rows(Held(c, chunk, graph, id, at))
         /\ T = Rows(Routed(c, chunk, id, at))
  OBVIOUS
<1>3. /\ Own(G, chunk, "chunk_promoted") = P /\ Own(G, chunk, "lease_facts") \subseteq L
      /\ Own(G, chunk, "transitions") = M
      /\ \A t \in {"chunk_stopped", "escalations", "chunk_pause_facts"} : Own(G, chunk, t) = {f \in H : f.table = t}
      /\ {f \in H : f.table = "questions"} \subseteq Own(G, chunk, "questions")
      /\ c.status # "waiting_on_human" => Own(G, chunk, "questions") \subseteq H
      /\ Own(G, chunk, "route_created") = T /\ Own(G, chunk, "decisions") = {}
      /\ H \subseteq R /\ \A f \in H : f.table \in {"chunk_stopped", "escalations", "questions", "chunk_pause_facts"}
  BY <1>1, <1>2, OwnParts
<1>4. at[1] \in Int /\ at[2] \in Int /\ at[3] \in Int /\ at[4] \in Int /\ at[3] < at[4] BY <1>1, StampsRise
<1>5. \A n \in Names : NodeId(graph, n) # Done BY NodesApart
<1>6. Undecided(G, chunk) = {} BY <1>3 DEF Undecided
<1>7. ASSUME NEW n, NEW to \in Names, n = NodeId(graph, to)
      PROVE  HubNode(G, n) => to = "deliver"
  <2> SUFFICES ASSUME NEW f \in G, f.table = "graph_nodes", f.id = n, Executor(f.tag) = "hub" PROVE to = "deliver"
    BY DEF HubNode
  <2>1. f.of \in Int /\ f.tag \in Names /\ f.id = NodeId(f.of, f.tag) BY DEF NodesNamed
  <2>2. f.tag = to BY <1>7, <2>1, NodesApart
  <2>3. QED BY <2>2 DEF Executor
<1>8. HubNode(G, NodeId(graph, "deliver"))
  <2>1. PICK n \in G : n.table = "graph_nodes" /\ n.of = graph /\ n.tag = "deliver" BY DEF Delivers
  <2>2. n.id = NodeId(graph, "deliver") BY <2>1 DEF NodesNamed
  <2>3. Executor(n.tag) = "hub" BY <2>1 DEF Executor
  <2>4. QED BY <2>1, <2>2, <2>3 DEF HubNode
(* Where a chunk with one transition off the terminal stands.                *)
<1>9. ASSUME NEW to, NEW a \in Int, to # Done, NEW i, M = {Transition(c, chunk, i, None, to, a)}
      PROVE  ~Landed(G, chunk) /\ (OnHubNode(G, chunk) <=> HubNode(G, to))
  <2>1. PICK f : f = Transition(c, chunk, i, None, to, a) OBVIOUS
  <2>2. f.node = to /\ f.at = a BY <2>1, TransitionIs
  <2>3. Newest(Own(G, chunk, "transitions")) = {f} BY <1>3, <1>9, <2>1, <2>2, NewestIs
  <2>4. QED BY <1>9, <2>2, <2>3 DEF Landed, OnHubNode
<1>10. M = {} => ~Landed(G, chunk) BY <1>3, NewestIs DEF Landed
<1>0. /\ c.status = "stopped" => \E f : H = {f} /\ f.table = "chunk_stopped"
      /\ c.status = "needs_human" => \E f : H = {f} /\ f.table = "escalations"
      /\ c.status = "waiting_on_human" => \E f : H = {f} /\ f.table = "questions"
      /\ c.status = "paused" => \E f : H = {f} /\ f.table = "chunk_pause_facts"
      /\ c.status \notin {"stopped", "needs_human", "waiting_on_human", "paused"} => H = {}
  BY <1>2, HeldRow
<1>11. c.status # "stopped" => Own(G, chunk, "chunk_stopped") = {} BY <1>0, <1>3
<1>12. c.status # "needs_human" => OpenOf(G, chunk) = {}
  <2>1. c.status # "needs_human" => Own(G, chunk, "escalations") = {} BY <1>0, <1>3
  <2>2. QED BY <2>1 DEF OpenOf
<1>13. c.status # "waiting_on_human" => Unanswered(G, chunk) = {}
  <2>1. c.status # "waiting_on_human" => Own(G, chunk, "questions") = {} BY <1>0, <1>3 DEF Own
  <2>2. QED BY <2>1 DEF Unanswered
<1>14. c.status # "paused" => Own(G, chunk, "chunk_pause_facts") = {} BY <1>0, <1>3
<1>15. "build" \in Names /\ "deliver" \in Names BY DEF Names
<1>16. c.status \notin {"ready", "not_ready"} => Lands(c) \in Names BY <1>15, LandsIn
<1>20. CASE c.status = "stopped"
  <2>1. Own(G, chunk, "chunk_stopped") # {} BY <1>0, <1>3, <1>20
  <2>2. QED BY <1>20, <2>1, Matches
<1>21. CASE c.status = "done"
  <2>1. PICK hop, last : /\ hop = Hop(c, chunk, graph, id, NodeId(graph, "build"), Lands(c), at[3])
                         /\ last = Finish(c, chunk, graph, id, at[4])
    OBVIOUS
  <2>2. hop.at = at[3] /\ last.at = at[4] /\ last.node = Done BY <2>1, TransitionIs DEF Hop, Finish
  <2>3. M = {last} \/ M = {hop, last}
    <3>1. Moved(c, chunk, graph, id, at) = << last >> \/ Moved(c, chunk, graph, id, at) = << hop, last >>
      BY <1>21, <2>1, MovedIs
    <3>2. QED BY <1>2, <3>1, TupleRows
  <2>4. Newest(M) = {last} BY <1>4, <2>2, <2>3, NewestIs
  <2>5. Landed(G, chunk) BY <1>3, <2>2, <2>4 DEF Landed
  <2>6. QED BY <1>11, <1>21, <2>5, Matches
<1>17. c.status \in {"needs_human", "waiting_on_human", "paused"} => ~Landed(G, chunk) /\ L = {}
  <2> SUFFICES ASSUME c.status \in {"needs_human", "waiting_on_human", "paused"}
               PROVE  ~Landed(G, chunk) /\ L = {} OBVIOUS
  <2>1. PICK to, a : to = NodeId(graph, Lands(c)) /\ a = at[2] OBVIOUS
  <2>2. Moved(c, chunk, graph, id, at) = << Transition(c, chunk, id, None, to, a) >> BY <2>1, MovedIs DEF Hop
  <2>3. M = {Transition(c, chunk, id, None, to, a)} BY <1>2, <2>2, TupleRows
  <2>4. to # Done /\ a \in Int BY <1>4, <1>5, <1>16, <2>1
  <2>5. L = {} BY <1>2, LeasedIs
  <2>6. QED BY <1>9, <2>3, <2>4, <2>5
<1>22. CASE c.status = "needs_human"
  <2>1. PICK f : H = {f} /\ f.table = "escalations" BY <1>0, <1>22
  <2>2. f \in Own(G, chunk, "escalations") BY <1>3, <2>1
  <2>3. Own(G, chunk, "lease_facts") = {} BY <1>3, <1>17, <1>22
  <2>4. OpenOf(G, chunk) # {} BY <2>2, <2>3 DEF OpenOf
  <2>5. QED BY <1>11, <1>17, <1>22, <2>4, Matches
<1>23. CASE c.status = "waiting_on_human"
  <2>1. PICK f : H = {f} /\ f.table = "questions" BY <1>0, <1>23
  <2>2. f \in Own(G, chunk, "questions") BY <1>3, <2>1
  <2>3. f \in R BY <1>3, <2>1
  <2>4. Unanswered(G, chunk) # {} BY <2>1, <2>2, <2>3 DEF Unanswered, Unasked
  <2>5. QED BY <1>11, <1>12, <1>17, <1>23, <2>4, Matches DEF Unmet
<1>24. CASE c.status = "paused"
  <2>1. Own(G, chunk, "chunk_pause_facts") # {} BY <1>0, <1>3, <1>24
  <2>2. QED BY <1>6, <1>11, <1>12, <1>13, <1>17, <1>24, <2>1, Matches DEF Unmet
<1>25. CASE c.status \in {"delivering", "running"}
  <2>1. PICK to, a : to = NodeId(graph, Lands(c)) /\ a = at[4] OBVIOUS
  <2>2. Moved(c, chunk, graph, id, at) = << Transition(c, chunk, id, None, to, a) >> BY <1>25, <2>1, MovedIs DEF Hop
  <2>3. M = {Transition(c, chunk, id, None, to, a)} BY <1>2, <2>2, TupleRows
  <2>4. to # Done /\ a \in Int BY <1>4, <1>5, <1>16, <1>25, <2>1
  <2>5. ~Landed(G, chunk) /\ (OnHubNode(G, chunk) <=> HubNode(G, to)) BY <1>9, <2>3, <2>4
  <2>6. OnHubNode(G, chunk) <=> c.status = "delivering"
    <3>1. CASE c.status = "delivering"
      <4>1. Lands(c) = "deliver" BY <3>1, LandsIn
      <4>2. QED BY <1>8, <2>1, <2>5, <3>1, <4>1
    <3>2. CASE c.status = "running"
      <4>1. Lands(c) \in {"build", "long"} BY <3>2, LandsIn
      <4>2. Lands(c) \in Names /\ Lands(c) # "deliver" BY <4>1 DEF Names
      <4>3. QED BY <1>7, <2>1, <2>5, <3>2, <4>2
    <3>3. QED BY <1>25, <3>1, <3>2
  <2>7. T # {} BY <1>2, <1>25, RoutedIs
  <2>8. Own(G, chunk, "route_created") # {} BY <1>3, <2>7
  <2>9. Unheld(G, chunk) BY <1>6, <1>11, <1>12, <1>13, <1>14, <1>25, <2>5 DEF Unheld, Unmet
  <2>10. DerivedStatus(G, chunk) = IF OnHubNode(G, chunk) THEN "delivering" ELSE "running" BY <2>8, <2>9, Matches
  <2>11. QED BY <1>25, <2>6, <2>10
<1>26. CASE c.status \in {"ready", "not_ready"}
  <2>1. M = {} BY <1>2, <1>26, MovedIs, TupleRows
  <2>2. T = {}
    <3>1. c.status \notin MirroredStatuses BY <1>26 DEF MirroredStatuses
    <3>2. QED BY <1>2, <1>26, <3>1, RoutedIs
  <2>3. Own(G, chunk, "route_created") = {} BY <1>3, <2>2
  <2>4. Own(G, chunk, "chunk_promoted") = {} <=> c.status = "not_ready" BY <1>2, <1>3, PromotedIs
  <2>5. Unheld(G, chunk) BY <1>6, <1>10, <1>11, <1>12, <1>13, <1>14, <1>26, <2>1 DEF Unheld, Unmet
  <2>6. DerivedStatus(G, chunk) = IF Own(G, chunk, "chunk_promoted") = {} THEN "not_ready" ELSE "ready"
    BY <2>3, <2>5, Matches
  <2>7. QED BY <1>26, <2>4, <2>6
<1>30. QED BY <1>20, <1>21, <1>22, <1>23, <1>24, <1>25, <1>26 DEF Statuses

-----------------------------------------------------------------------------
(* An invocation begins                                                      *)

LEMMA OneStep ==
    ASSUME NEW s, NEW asked, NEW ten, NEW held, NEW H, Fits(s, asked, ten, held, H), NEW x, x.steps = << s >>, x.asked = asked
    PROVE  InFlight(x, ten, held, H)
<1>1. IsSeq(x.steps) BY TupleRows
<1>2. Len(x.steps) = 1 /\ x.steps[1] = s BY TailsOf
<1>3. ASSUME NEW i \in 1 .. Len(x.steps) PROVE Fits(x.steps[i], x.asked, ten, held, H \cup Ahead(x.steps, i, ten, held))
  <2>1. i = 1 BY <1>2
  <2>2. PICK K : K = H \cup Ahead(x.steps, i, ten, held) OBVIOUS
  <2>3. Fits(s, asked, ten, held, K) BY <2>2, FitsGrows
  <2>4. QED BY <1>2, <2>1, <2>2, <2>3
<1>4. QED BY <1>1, <1>3 DEF InFlight

(* A seeding of one hand-over that fits keeps the invariant.                 *)
LEMMA SeedStep ==
    ASSUME IInv, NEW p \in Procs, NEW store, NEW tenant, NEW named, NEW rows, Seed(p, store, tenant, named, rows),
           NEW s, s = Step(store, tenant, named, rows),
           Fits(s, Idle.asked, tenanted, HeldTenants, hub)
    PROVE  IInv'
<1>1. PICK x : x = [steps |-> << s >>, asked |-> Idle.asked, pinned |-> None] OBVIOUS
<1>2. x.steps = << s >> /\ x.asked = Idle.asked /\ x.pinned = None BY <1>1
<1>3. Begin(p, << s >>, Idle.asked, None) BY DEF Seed
<1>4. InFlight(x, tenanted, HeldTenants, hub)
  <2>1. PICK ten, held, H, asked : ten = tenanted /\ held = HeldTenants /\ H = hub /\ asked = Idle.asked OBVIOUS
  <2>2. InFlight(x, ten, held, H) BY <1>2, <2>1, OneStep
  <2>3. QED BY <2>1, <2>2
<1>5. Fleet(x, runner.rows, hub) BY <1>2 DEF Fleet
<1>6. QED BY <1>1, <1>3, <1>4, <1>5, BeginStep

(* Rows that rest on no row a verb reads.                                    *)
Grounds == {"chunks", "artifacts", "decisions", "transitions", "lease_facts", "graph_nodes", "graphs", "tenants"}
LEMMA PlainGrounded == ASSUME NEW e, NEW H, e.fact.table \notin Grounds PROVE Grounded(e, H)
BY DEF Grounds, Grounded
LEMMA PlainFits ==
    ASSUME NEW s, NEW asked, NEW ten, NEW held, NEW H, IsSeq(s.rows), \A f \in Rows(s.rows) : f.table \notin Grounds
    PROVE  Fits(s, asked, ten, held, H)
<1> SUFFICES ASSUME NEW f \in Rows(s.rows)
             PROVE  /\ f.table # "tenants" /\ f.table # "chunks"
                    /\ Grounded(Entry(f, TenantOf(s, ten, held)), H \cup Written(s, ten, held))
  BY DEF Fits
<1>1. PICK K, e : K = H \cup Written(s, ten, held) /\ e = Entry(f, TenantOf(s, ten, held)) OBVIOUS
<1>2. e.fact = f BY <1>1 DEF Entry
<1>3. Grounded(e, K) BY <1>2, PlainGrounded
<1>4. QED BY <1>1, <1>3 DEF Grounds
LEMMA RunnerFits ==
    ASSUME NEW s, NEW asked, NEW ten, NEW held, NEW H, IsSeq(s.rows), s.store = "runner"
    PROVE  Fits(s, asked, ten, held, H)
BY DEF Fits
LEMMA StepIs ==
    ASSUME NEW store, NEW tenant, NEW named, NEW rows, NEW s, s = Step(store, tenant, named, rows)
    PROVE  s.store = store /\ s.tenant = tenant /\ s.named = named /\ s.rows = rows
BY DEF Step
LEMMA PlainSeed ==
    ASSUME IInv, NEW p \in Procs, NEW tenant, NEW named, NEW rows, Seed(p, "hub", tenant, named, rows),
           IsSeq(rows), \A f \in Rows(rows) : f.table \notin Grounds
    PROVE  IInv'
<1>1. PICK s, ten, held, H, asked : /\ s = Step("hub", tenant, named, rows)
                                    /\ ten = tenanted /\ held = HeldTenants /\ H = hub /\ asked = Idle.asked
  OBVIOUS
<1>2. s.rows = rows BY <1>1, StepIs
<1>3. Fits(s, asked, ten, held, H) BY <1>2, PlainFits
<1>4. QED BY <1>1, <1>3, SeedStep
LEMMA RunnerSeed ==
    ASSUME IInv, NEW p \in Procs, NEW tenant, NEW named, NEW rows, Seed(p, "runner", tenant, named, rows), IsSeq(rows)
    PROVE  IInv'
<1>1. PICK s, ten, held, H, asked : /\ s = Step("runner", tenant, named, rows)
                                    /\ ten = tenanted /\ held = HeldTenants /\ H = hub /\ asked = Idle.asked
  OBVIOUS
<1>2. s.rows = rows /\ s.store = "runner" BY <1>1, StepIs
<1>3. Fits(s, asked, ten, held, H) BY <1>2, RunnerFits
<1>4. QED BY <1>1, <1>3, SeedStep

(* What a verb reads is in the tenant it resolved, where it writes.          *)
LEMMA QueryEntry ==
    ASSUME HubInv, NEW named, NEW t, t = ResolveTenant(named), t # Refused, NEW table, NEW f \in Query(table, t)
    PROVE  \E e \in hub : e.fact = f /\ f.table = table /\ e.tenant = t
<1>1. PICK e \in hub : e.fact = f /\ e.fact.table = table /\ (t # None => e.tenant = t) BY DEF Query
<1>2. t = None => ~tenanted
  <2>1. None \notin HeldTenants BY DEF HubInv
  <2>2. ASSUME tenanted, named = None PROVE t # None
    <3>1. Cardinality(HeldTenants) = 1 /\ t = CHOOSE u \in HeldTenants : TRUE BY <2>2 DEF ResolveTenant
    <3>2. HeldTenants # {} BY <3>1, FS_EmptySet
    <3>3. t \in HeldTenants BY <3>1, <3>2
    <3>4. QED BY <2>1, <3>3
  <2>3. ASSUME tenanted, named # None PROVE t # None BY <2>3 DEF ResolveTenant
  <2>4. QED BY <2>2, <2>3
<1>3. t = None => e.tenant = None BY <1>2 DEF HubInv
<1>4. QED BY <1>1, <1>3

-----------------------------------------------------------------------------
(* The verbs that read nothing their rows rest on                            *)

LEMMA PlainTables ==
    /\ \A chunk, epoch, at : \A f \in Rows(compose_escalation(chunk, epoch, at)) : f.table = "escalations"
    /\ \A chunk, epoch, at : \A f \in Rows(compose_bounce(chunk, epoch, at)) : f.table = "chunk_bounces"
    /\ \A chunk, r, node, epoch, at : \A f \in Rows(compose_usage(chunk, r, node, epoch, at)) : f.table = "usage_facts"
    /\ \A r, local, at : \A f \in Rows(compose_runner_pause(r, local, at)) :
          f.table \in {"runner_local_pause_facts", "runner_pause_facts"}
<1>1. ASSUME NEW chunk, NEW epoch, NEW at, NEW f \in Rows(compose_escalation(chunk, epoch, at)) PROVE f.table = "escalations"
  <2>1. f = [Fact("escalations", chunk, None, at) EXCEPT !.epoch = epoch]
    <3>1. PICK e : e = [Fact("escalations", chunk, None, at) EXCEPT !.epoch = epoch] OBVIOUS
    <3>2. compose_escalation(chunk, epoch, at) = << e >> BY <3>1 DEF compose_escalation
    <3>3. f = e BY <1>1, <3>2, TupleRows
    <3>4. QED BY <3>1, <3>3
  <2>2. QED BY <2>1 DEF Fact
<1>2. ASSUME NEW chunk, NEW epoch, NEW at, NEW f \in Rows(compose_bounce(chunk, epoch, at)) PROVE f.table = "chunk_bounces"
  <2>1. f = [Fact("chunk_bounces", chunk, None, at) EXCEPT !.epoch = epoch]
    <3>1. PICK e : e = [Fact("chunk_bounces", chunk, None, at) EXCEPT !.epoch = epoch] OBVIOUS
    <3>2. compose_bounce(chunk, epoch, at) = << e >> BY <3>1 DEF compose_bounce
    <3>3. f = e BY <1>2, <3>2, TupleRows
    <3>4. QED BY <3>1, <3>3
  <2>2. QED BY <2>1 DEF Fact
<1>3. ASSUME NEW chunk, NEW r, NEW node, NEW epoch, NEW at, NEW f \in Rows(compose_usage(chunk, r, node, epoch, at))
      PROVE  f.table = "usage_facts"
  <2>1. f = [Fact("usage_facts", chunk, None, at) EXCEPT !.runner = r, !.node = node, !.epoch = epoch]
    <3>1. PICK e : e = [Fact("usage_facts", chunk, None, at) EXCEPT !.runner = r, !.node = node, !.epoch = epoch] OBVIOUS
    <3>2. compose_usage(chunk, r, node, epoch, at) = << e >> BY <3>1 DEF compose_usage
    <3>3. f = e BY <1>3, <3>2, TupleRows
    <3>4. QED BY <3>1, <3>3
  <2>2. QED BY <2>1 DEF Fact
<1>4. ASSUME NEW r, NEW local, NEW at, NEW f \in Rows(compose_runner_pause(r, local, at))
      PROVE  f.table \in {"runner_local_pause_facts", "runner_pause_facts"}
  <2>1. PICK e, g : /\ e = [Fact("runner_local_pause_facts", None, None, at) EXCEPT !.runner = r]
                    /\ g = Fact("runner_pause_facts", r, None, at) OBVIOUS
  <2>2. e.table = "runner_local_pause_facts" /\ g.table = "runner_pause_facts" BY <2>1 DEF Fact
  <2>3. compose_runner_pause(r, local, at) = << e >> \/ compose_runner_pause(r, local, at) = << g >>
    BY <2>1 DEF compose_runner_pause
  <2>4. QED BY <1>4, <2>2, <2>3, TupleRows
<1>5. QED BY <1>1, <1>2, <1>3, <1>4
LEMMA PlainSeqs ==
    /\ \A chunk, epoch, at : IsSeq(compose_escalation(chunk, epoch, at)) /\ IsSeq(compose_bounce(chunk, epoch, at))
    /\ \A chunk, r, node, epoch, at : IsSeq(compose_usage(chunk, r, node, epoch, at))
    /\ \A chunk, lease, node, at : IsSeq(compose_runner_usage(chunk, lease, node, at))
    /\ \A r, local, at : IsSeq(compose_runner_pause(r, local, at))
    /\ \A at : IsSeq(compose_local_pause(at))
    /\ \A chunk, lease, epoch, node, at : IsSeq(compose_lease(chunk, lease, epoch, node, at))
    /\ \A chunk, segment, lease, finalized, at : IsSeq(compose_transcript_segment(chunk, segment, lease, finalized, at))
    /\ \A chunk, segment, at : IsSeq(compose_final_marker(chunk, segment, at))
BY TupleRows DEF compose_escalation, compose_bounce, compose_usage, compose_runner_usage, compose_runner_pause,
                 compose_local_pause, compose_lease, compose_transcript_segment, compose_final_marker

LEMMA EventPlain ==
    ASSUME NEW kind, NEW r, NEW chunk, NEW at, NEW R, R = compose_event(kind, r, chunk, at), R # Refused
    PROVE  IsSeq(R) /\ \A f \in Rows(R) : f.table \in {"hub_event_log", "event_log"}
<1>1. PICK e, g : /\ e = [Fact("hub_event_log", None, None, at) EXCEPT !.tag = kind]
                  /\ g = [Fact("event_log", chunk, None, at) EXCEPT !.runner = r, !.tag = kind] OBVIOUS
<1>2. e.table = "hub_event_log" /\ g.table = "event_log" BY <1>1 DEF Fact
<1>3. R = << e >> \/ R = << g >> BY <1>1 DEF compose_event
<1>4. QED BY <1>2, <1>3, TupleRows
LEMMA QuestionPlain ==
    ASSUME NEW q, NEW id, NEW at, NEW R, R = compose_question(q, id, at), R # Refused
    PROVE  /\ IsSeq(R)
           /\ \A f \in Rows(R) : f.table \in {"questions", "question_answers", "answer_deliveries"}
           /\ q.trail = "open" => \A f \in Rows(R) : f.table = "questions" /\ f.of = q.chunk /\ f.id = id
<1>1. PICK a, b, d : /\ a = [Fact("questions", q.chunk, id, at) EXCEPT !.runner = q.runner, !.epoch = 1]
                     /\ b = Fact("question_answers", id, id, at + 1) /\ d = Fact("answer_deliveries", id, None, at + 2)
  OBVIOUS
<1>2. /\ a.table = "questions" /\ a.of = q.chunk /\ a.id = id
      /\ b.table = "question_answers" /\ d.table = "answer_deliveries" BY <1>1 DEF Fact
<1>3. /\ q.trail = "open" => R = << a >>
      /\ R = << a >> \/ R = << a, b >> \/ R = << a, b, d >> BY <1>1 DEF compose_question
<1>4. QED BY <1>2, <1>3, TupleRows
LEMMA GardenPlain ==
    ASSUME NEW closed, NEW id, NEW at, NEW R, R = compose_garden_proposal(closed, id, at)
    PROVE  IsSeq(R) /\ \A f \in Rows(R) : f.table \in {"garden_proposals", "garden_proposal_closures"}
<1>1. PICK a, b : a = Fact("garden_proposals", None, id, at) /\ b = Fact("garden_proposal_closures", id, None, at + 1) OBVIOUS
<1>2. a.table = "garden_proposals" /\ b.table = "garden_proposal_closures" BY <1>1, FactIs
<1>3. PICK s : s = IF closed THEN << b >> ELSE << >> OBVIOUS
<1>4. IsSeq(s) /\ Rows(s) \subseteq {b} BY <1>3, TupleRows
<1>5. IsSeq(<< a >>) /\ Rows(<< a >>) = {a} BY TupleRows
<1>6. R = << a >> \o s BY <1>1, <1>3 DEF compose_garden_proposal
<1>7. IsSeq(R) /\ Rows(R) = Rows(<< a >>) \cup Rows(s) BY <1>4, <1>5, <1>6, CatRows
<1>8. QED BY <1>2, <1>4, <1>5, <1>7
LEMMA RegistrationIs ==
    ASSUME NEW r, NEW connected, NEW at, NEW f, f = Registration(r, connected, at)
    PROVE  f.table = "runner_registrations" /\ f.of = None /\ f.id = r
BY DEF Registration, Fact
LEMMA RunnerPlain ==
    ASSUME NEW r, NEW at, NEW R, R = compose_runner(r, at)
    PROVE  IsSeq(R) /\ \A f \in Rows(R) : f.table \in {"runner_registrations", "runner_pause_facts",
                                                      "runner_external_usage", "runner_external_usage_misses"}
<1>1. PICK a, b, u, m : /\ a = Registration(r.runner, r.connected, at) /\ b = Fact("runner_pause_facts", r.runner, None, at)
                        /\ u = Fact("runner_external_usage", r.runner, r.runner, at)
                        /\ m = Fact("runner_external_usage_misses", r.runner, r.runner, at) OBVIOUS
<1>2. /\ a.table = "runner_registrations" /\ b.table = "runner_pause_facts"
      /\ u.table = "runner_external_usage" /\ m.table = "runner_external_usage_misses" BY <1>1, FactIs, RegistrationIs
<1>3. PICK s, v : s = (IF r.paused THEN << b >> ELSE << >>) /\ v = (IF r.sampled THEN << u, m >> ELSE << >>) OBVIOUS
<1>4. IsSeq(s) /\ Rows(s) \subseteq {b} BY <1>3, TupleRows
<1>5. IsSeq(v) /\ Rows(v) \subseteq {u, m} BY <1>3, TupleRows
<1>6. IsSeq(<< a >>) /\ Rows(<< a >>) = {a} BY TupleRows
<1>7. R = << a >> \o s \o v BY <1>1, <1>3 DEF compose_runner
<1>8. IsSeq(<< a >> \o s) /\ Rows(<< a >> \o s) = {a} \cup Rows(s) BY <1>4, <1>6, CatRows
<1>9. IsSeq(R) /\ Rows(R) = {a} \cup Rows(s) \cup Rows(v) BY <1>5, <1>7, <1>8, CatRows
<1>10. QED BY <1>2, <1>4, <1>5, <1>9

LEMMA EscalationStep == ASSUME IInv, NEW p \in Procs, NEW a, create_escalation(p, a) PROVE IInv'
<1>1. PICK at : at = Instant(Fresh(FALSE), 0) OBVIOUS
<1>2. PICK R : R = compose_escalation(a.chunk, 1, at) OBVIOUS
<1>3. Seed(p, "hub", a.tenant, None, R) BY <1>1, <1>2 DEF create_escalation
<1>4. IsSeq(R) /\ \A f \in Rows(R) : f.table \notin Grounds BY <1>2, PlainSeqs, PlainTables DEF Grounds
<1>5. QED BY <1>3, <1>4, PlainSeed
LEMMA BounceStep == ASSUME IInv, NEW p \in Procs, NEW a, create_bounce(p, a) PROVE IInv'
<1>1. PICK at : at = Instant(Fresh(FALSE), 0) OBVIOUS
<1>2. PICK R : R = compose_bounce(a.chunk, 1, at) OBVIOUS
<1>3. Seed(p, "hub", a.tenant, None, R) BY <1>1, <1>2 DEF create_bounce
<1>4. IsSeq(R) /\ \A f \in Rows(R) : f.table \notin Grounds BY <1>2, PlainSeqs, PlainTables DEF Grounds
<1>5. QED BY <1>3, <1>4, PlainSeed
LEMMA QuestionStep == ASSUME IInv, NEW p \in Procs, NEW a, create_question(p, a) PROVE IInv'
<1>1. PICK id, at : id = Mint(Fresh(a.seeded), 1) /\ at = Instant(Fresh(a.seeded), 0) OBVIOUS
<1>2. PICK R : R = compose_question(a, id, at) OBVIOUS
<1>3. Seed(p, "hub", a.tenant, None, R) BY <1>1, <1>2 DEF create_question
<1>4. R # Refused BY <1>3 DEF Seed
<1>5. IsSeq(R) /\ \A f \in Rows(R) : f.table \notin Grounds BY <1>2, <1>4, QuestionPlain DEF Grounds
<1>6. QED BY <1>3, <1>5, PlainSeed
LEMMA GardenStep == ASSUME IInv, NEW p \in Procs, NEW a, create_garden_proposal(p, a) PROVE IInv'
<1>1. PICK id, at : id = Mint(Fresh(FALSE), 1) /\ at = Instant(Fresh(FALSE), 0) OBVIOUS
<1>2. PICK R : R = compose_garden_proposal(a.closed, id, at) OBVIOUS
<1>3. Seed(p, "hub", a.tenant, None, R) BY <1>1, <1>2 DEF create_garden_proposal
<1>4. IsSeq(R) /\ \A f \in Rows(R) : f.table \notin Grounds BY <1>2, GardenPlain DEF Grounds
<1>5. QED BY <1>3, <1>4, PlainSeed
LEMMA EventStep == ASSUME IInv, NEW p \in Procs, NEW a, create_event(p, a) PROVE IInv'
<1>1. PICK at : at = Instant(Fresh(FALSE), 0) OBVIOUS
<1>2. PICK r : Seed(p, "hub", a.tenant, None, compose_event(a.kind, r, a.chunk, at)) BY <1>1 DEF create_event
<1>3. PICK R : R = compose_event(a.kind, r, a.chunk, at) OBVIOUS
<1>4. Seed(p, "hub", a.tenant, None, R) /\ R # Refused BY <1>2, <1>3 DEF Seed
<1>5. IsSeq(R) /\ \A f \in Rows(R) : f.table \notin Grounds BY <1>3, <1>4, EventPlain DEF Grounds
<1>6. QED BY <1>4, <1>5, PlainSeed
LEMMA UsageStep == ASSUME IInv, NEW p \in Procs, NEW a, create_usage(p, a) PROVE IInv'
<1>1. PICK at : at = Instant(Fresh(FALSE), 0) OBVIOUS
<1>2. \/ \E r, n, e : Seed(p, "hub", a.tenant, None, compose_usage(a.chunk, r, n, e, at))
      \/ Seed(p, "runner", None, a.runner, compose_runner_usage(a.chunk, Mint(0, 1), Mint(0, 11), at))
  BY <1>1 DEF create_usage
<1>3. ASSUME NEW r, NEW n, NEW e, Seed(p, "hub", a.tenant, None, compose_usage(a.chunk, r, n, e, at)) PROVE IInv'
  <2>1. PICK R : R = compose_usage(a.chunk, r, n, e, at) OBVIOUS
  <2>2. IsSeq(R) /\ \A f \in Rows(R) : f.table \notin Grounds BY <2>1, PlainSeqs, PlainTables DEF Grounds
  <2>3. QED BY <1>3, <2>1, <2>2, PlainSeed
<1>4. ASSUME Seed(p, "runner", None, a.runner, compose_runner_usage(a.chunk, Mint(0, 1), Mint(0, 11), at)) PROVE IInv'
  <2>1. PICK R : R = compose_runner_usage(a.chunk, Mint(0, 1), Mint(0, 11), at) OBVIOUS
  <2>2. IsSeq(R) BY <2>1, PlainSeqs
  <2>3. QED BY <1>4, <2>1, <2>2, RunnerSeed
<1>5. QED BY <1>2, <1>3, <1>4
LEMMA RunnerStep == ASSUME IInv, NEW p \in Procs, NEW a, create_runner(p, a) PROVE IInv'
<1>1. PICK at : at = Instant(Fresh(FALSE), 0) OBVIOUS
<1>2. PICK R : R = compose_runner(a, at) OBVIOUS
<1>3. Seed(p, "hub", a.tenant, None, R) BY <1>1, <1>2 DEF create_runner
<1>4. IsSeq(R) /\ \A f \in Rows(R) : f.table \notin Grounds BY <1>2, RunnerPlain DEF Grounds
<1>5. QED BY <1>3, <1>4, PlainSeed
LEMMA PauseStep == ASSUME IInv, NEW p \in Procs, NEW a, create_runner_pause(p, a) PROVE IInv'
<1>1. PICK at : at = Instant(Fresh(FALSE), 0) OBVIOUS
<1>2. PICK R, L : R = compose_runner_pause(a.runner, a.paused, at) /\ L = compose_local_pause(at) OBVIOUS
<1>3. Seed(p, "hub", a.tenant, None, R) \/ Seed(p, "runner", None, a.runner, L) BY <1>1, <1>2 DEF create_runner_pause
<1>4. IsSeq(R) /\ \A f \in Rows(R) : f.table \notin Grounds BY <1>2, PlainSeqs, PlainTables DEF Grounds
<1>5. IsSeq(L) BY <1>2, PlainSeqs
<1>6. QED BY <1>3, <1>4, <1>5, PlainSeed, RunnerSeed
LEMMA SegmentStep == ASSUME IInv, NEW p \in Procs, NEW a, create_transcript_segment(p, a) PROVE IInv'
<1>1. PICK at, id : at = Instant(Fresh(FALSE), 0) /\ id = Mint(Fresh(FALSE), 1) OBVIOUS
<1>2. PICK S, M : S = compose_transcript_segment(None, id, None, a.paused, at) /\ M = compose_final_marker(None, id, at)
  OBVIOUS
<1>3. Seed(p, "runner", a.tenant, a.runner, IF a.paused THEN S \o M ELSE S)
  BY <1>1, <1>2 DEF create_transcript_segment
<1>4. PICK R : R = IF a.paused THEN S \o M ELSE S OBVIOUS
<1>5. IsSeq(S) /\ IsSeq(M) BY <1>2, PlainSeqs
<1>6. IsSeq(R) BY <1>4, <1>5, CatRows
<1>7. QED BY <1>3, <1>4, <1>6, RunnerSeed

-----------------------------------------------------------------------------
(* Graphs and chunks                                                         *)

LEMMA FreshIs == ASSUME begun \in Nat, NEW seeded PROVE Fresh(seeded) \in Nat
BY DEF Fresh, Stream
LEMMA MintIs == \A stream, draw \in Int : Mint(stream, draw) \in Int
BY DEF Mint
LEMMA GraphRows ==
    ASSUME NEW graph \in Int, NEW name, NEW at, NEW R, R = compose_graph(graph, name, at)
    PROVE  /\ IsSeq(R)
           /\ \E g, b, d : /\ Rows(R) = {g, b, d}
                           /\ g.table = "graphs" /\ g.of = None /\ g.id = graph
                           /\ b.table = "graph_nodes" /\ b.of = graph /\ b.tag = "build" /\ b.id = NodeId(graph, "build")
                           /\ d.table = "graph_nodes" /\ d.of = graph /\ d.tag = "deliver"
                           /\ d.id = NodeId(graph, "deliver")
<1>1. PICK g, b, d : /\ g = [Fact("graphs", None, graph, at) EXCEPT !.tag = name]
                     /\ b = NodeRow(graph, "build", at) /\ d = NodeRow(graph, "deliver", at)
  OBVIOUS
<1>2. R = << g, b, d >> BY <1>1 DEF compose_graph
<1>3. g.table = "graphs" /\ g.of = None /\ g.id = graph BY <1>1 DEF Fact
<1>4. b.table = "graph_nodes" /\ b.of = graph /\ b.tag = "build" /\ b.id = NodeId(graph, "build")
  BY <1>1 DEF NodeRow, Fact
<1>5. d.table = "graph_nodes" /\ d.of = graph /\ d.tag = "deliver" /\ d.id = NodeId(graph, "deliver")
  BY <1>1 DEF NodeRow, Fact
<1>6. IsSeq(R) /\ Rows(R) = {g, b, d} BY <1>2, TupleRows
<1>7. QED BY <1>3, <1>4, <1>5, <1>6

(* A minted graph is grounded, and stands in the tenant it lands in.         *)
LEMMA GraphGrounded ==
    ASSUME NEW graph \in Int, NEW name, NEW at, NEW R, R = compose_graph(graph, name, at),
           NEW t, NEW H, \A f \in Rows(R) : Entry(f, t) \in H
    PROVE  /\ \A f \in Rows(R) : Grounded(Entry(f, t), H) /\ f.table \in {"graphs", "graph_nodes"}
           /\ OnGraph(H, graph, {"build", "deliver"}, t)
<1>1. PICK g, b, d : /\ Rows(R) = {g, b, d}
                     /\ g.table = "graphs" /\ g.id = graph
                     /\ b.table = "graph_nodes" /\ b.of = graph /\ b.tag = "build" /\ b.id = NodeId(graph, "build")
                     /\ d.table = "graph_nodes" /\ d.of = graph /\ d.tag = "deliver" /\ d.id = NodeId(graph, "deliver")
  BY GraphRows
<1>2. PICK x, y, z : x = Entry(g, t) /\ y = Entry(b, t) /\ z = Entry(d, t) OBVIOUS
<1>3. x \in H /\ y \in H /\ z \in H BY <1>1, <1>2
<1>4. x.fact = g /\ y.fact = b /\ z.fact = d BY <1>2 DEF Entry
<1>5. x.tenant = t BY <1>1, <1>2 DEF Entry, StampOf, GlobalTables
<1>6. NodeOf(H, graph, NodeId(graph, "build")) /\ NodeOf(H, graph, NodeId(graph, "deliver"))
  BY <1>1, <1>3, <1>4 DEF NodeOf
<1>7. OnGraph(H, graph, {"build", "deliver"}, t) BY <1>1, <1>3, <1>4, <1>5, <1>6 DEF OnGraph
<1>8. Grounded(x, H) BY <1>1, <1>4, <1>6 DEF Grounded
<1>9. "build" \in Names /\ "deliver" \in Names BY DEF Names
<1>10. Grounded(y, H) /\ Grounded(z, H) BY <1>1, <1>4, <1>9 DEF Grounded
<1>11. QED BY <1>1, <1>2, <1>7, <1>8, <1>10

(* The rows a hand-over writes stand in the tenant it resolves, unless they  *)
(* are the hub's own.                                                        *)
LEMMA WritesIn ==
    ASSUME NEW s, NEW ten, NEW held, NEW f \in Rows(s.rows), f.table \notin GlobalTables,
           NEW t, t = Resolved(ten, held, s.tenant)
    PROVE  /\ TenantOf(s, ten, held) = t
           /\ \A g \in Rows(s.rows) : Entry(g, t) \in Written(s, ten, held)
<1>1. f.table \in TablesOf(s.rows) BY DEF TablesOf
<1>2. TenantOf(s, ten, held) = t BY <1>1 DEF TenantOf
<1>3. \A g \in Rows(s.rows) : Entry(g, t) \in Stamped(s.rows, t) BY DEF Entry, Stamped
<1>4. QED BY <1>2, <1>3 DEF Written

LEMMA GraphFits ==
    ASSUME NEW graph \in Int, NEW name, NEW at, NEW s, s.rows = compose_graph(graph, name, at),
           NEW asked, NEW ten, NEW held, NEW H
    PROVE  /\ Fits(s, asked, ten, held, H)
           /\ OnGraph(Written(s, ten, held), graph, {"build", "deliver"}, Resolved(ten, held, s.tenant))
<1>1. PICK t, R, W, K : /\ t = Resolved(ten, held, s.tenant) /\ R = compose_graph(graph, name, at)
                        /\ W = Written(s, ten, held) /\ K = H \cup W
  OBVIOUS
<1>2. PICK g : g \in Rows(R) /\ g.table = "graphs" BY <1>1, GraphRows
<1>3. g.table \notin GlobalTables BY <1>2 DEF GlobalTables
<1>4. TenantOf(s, ten, held) = t /\ \A f \in Rows(R) : Entry(f, t) \in W BY <1>1, <1>2, <1>3, WritesIn
<1>5. /\ \A f \in Rows(R) : Grounded(Entry(f, t), K) /\ f.table \in {"graphs", "graph_nodes"}
      /\ OnGraph(W, graph, {"build", "deliver"}, t)
  <2>1. \A f \in Rows(R) : Entry(f, t) \in K BY <1>1, <1>4
  <2>2. \A f \in Rows(R) : Grounded(Entry(f, t), K) /\ f.table \in {"graphs", "graph_nodes"} BY <1>1, <2>1, GraphGrounded
  <2>3. OnGraph(W, graph, {"build", "deliver"}, t) BY <1>1, <1>4, GraphGrounded
  <2>4. QED BY <2>2, <2>3
<1>6. IsSeq(s.rows) BY GraphRows
<1>7. Fits(s, asked, ten, held, H) BY <1>1, <1>4, <1>5, <1>6 DEF Fits
<1>8. QED BY <1>1, <1>5, <1>7

LEMMA CreateGraphStep == ASSUME IInv, NEW p \in Procs, NEW a, create_graph(p, a) PROVE IInv'
<1>1. PICK stream : stream = Fresh(a.seeded) OBVIOUS
<1>2. stream \in Nat BY <1>1, FreshIs DEF IInv
<1>3. PICK graph, at, R : /\ graph = Mint(stream, 1) /\ at = Instant(stream, 0)
                          /\ R = compose_graph(graph, "default", at)
  OBVIOUS
<1>4. graph \in Int BY <1>2, <1>3, MintIs
<1>5. PICK s, ten, held, H, asked : /\ s = Step("hub", a.tenant, None, R)
                                    /\ ten = tenanted /\ held = HeldTenants /\ H = hub /\ asked = Idle.asked
  OBVIOUS
<1>6. s.rows = R BY <1>5, StepIs
<1>7. Fits(s, asked, ten, held, H) BY <1>3, <1>4, <1>6, GraphFits
<1>8. Seed(p, "hub", a.tenant, None, R) BY <1>1, <1>3 DEF create_graph
<1>9. QED BY <1>5, <1>7, <1>8, SeedStep

-----------------------------------------------------------------------------
(* A chunk alone                                                             *)

(* On its own a composed chunk derives what it was composed for, wherever    *)
(* it is new.                                                                *)
LEMMA ChunkAlone ==
    ASSUME NEW c, NEW chunk, NEW graph \in Int, NEW nodes, nodes \subseteq Names, NEW stream \in Nat, NEW draw,
           ~ChunkRefused(c, nodes), c.status \in Statuses, c.mirrored => c.status \in MirroredStatuses,
           NEW R, R = Rows(compose_chunk(c, chunk, graph, nodes, stream, draw)),
           NEW k, k.id = chunk, k.of = graph,
           \A f \in R : /\ f.table \in StatusFacts \cup {"chunks", "epoch_owners"}
                        /\ f.table # "chunks" => f.of = chunk
    PROVE  Derives(R, k, c.status)
<1> SUFFICES ASSUME NEW F, NewTo(F, R, k) PROVE DerivedStatus(F \cup R, chunk) = c.status BY DEF Derives
<1>1. PICK G : G = F \cup R OBVIOUS
<1>2. StatusFacts \subseteq ChunkFacts BY DEF StatusFacts, ChunkFacts
<1>3. Only(G, R, chunk, c.status) BY <1>1, <1>2 DEF Only, NewTo
<1>4. Unasked(G, R)
  <2> SUFFICES ASSUME NEW q \in R, NEW a \in G, q.table = "questions", a.table = "question_answers"
               PROVE  a.of # q.id BY DEF Unasked
  <2>0. "question_answers" \notin StatusFacts \cup {"chunks", "epoch_owners"} BY DEF StatusFacts
  <2>1. a \in F BY <1>1, <2>0
  <2>2. q.of = k.id OBVIOUS
  <2>3. \A x \in R, y \in F : x.table = "questions" /\ x.of = k.id /\ y.table = "question_answers" => y.of # x.id
    BY DEF NewTo
  <2>4. QED BY <2>1, <2>2, <2>3
<1>5. NodesNamed(G) BY <1>1 DEF NewTo, NodesNamed
<1>6. Delivers(G, graph) BY <1>1 DEF NewTo, Delivers
<1>7. QED BY <1>1, <1>3, <1>4, <1>5, <1>6, ChunkDerives
LEMMA OnGraphGrows ==
    ASSUME NEW H, NEW K, H \subseteq K, NEW graph, NEW nodes, NEW t, OnGraph(H, graph, nodes, t)
    PROVE  OnGraph(K, graph, nodes, t)
<1>1. \A n : NodeOf(H, graph, n) => NodeOf(K, graph, n) BY DEF NodeOf
<1>2. QED BY <1>1 DEF OnGraph
LEMMA ChunkFits ==
    ASSUME NEW c, c.status \in Statuses, c.mirrored => c.status \in MirroredStatuses,
           NEW chunk, NEW graph \in Int, NEW nodes, nodes \subseteq Names, NEW stream \in Nat, NEW draw,
           NEW s, s.rows = compose_chunk(c, chunk, graph, nodes, stream, draw),
           NEW ten, NEW held, NEW H, OnGraph(H, graph, nodes, Resolved(ten, held, s.tenant)),
           NEW asked, asked = [x \in {chunk} |-> c.status]
    PROVE  Fits(s, asked, ten, held, H)
<1> SUFFICES ASSUME s.rows # Refused PROVE Fits(s, asked, ten, held, H) BY DEF Fits
<1>1. ~ChunkRefused(c, nodes) BY DEF compose_chunk
<1>2. PICK t, R, W, K, at, id : /\ t = Resolved(ten, held, s.tenant) /\ R = s.rows
                                /\ W = Written(s, ten, held) /\ K = H \cup W
                                /\ at = Stamps(stream) /\ id = Mint(stream, draw)
  OBVIOUS
<1>3. IsSeq(R) /\ ChunkRow(graph, chunk, at) \in Rows(R) BY <1>1, <1>2, ChunkRows
<1>4. PICK k : k = ChunkRow(graph, chunk, at) OBVIOUS
<1>5. k.table = "chunks" /\ k.of = graph /\ k.id = chunk BY <1>4, FactIs DEF ChunkRow
<1>6. k.table \notin GlobalTables BY <1>5 DEF GlobalTables
<1>7. TenantOf(s, ten, held) = t /\ \A f \in Rows(R) : Entry(f, t) \in W BY <1>2, <1>3, <1>4, <1>6, WritesIn
<1>8. OnGraph(K, graph, nodes, t) BY <1>2, OnGraphGrows
<1>9. \A f \in Rows(R) : \E e \in K : e.fact = f
  <2>1. \A f : Entry(f, t).fact = f BY DEF Entry
  <2>2. QED BY <1>2, <1>7, <2>1
<1>10. ASSUME NEW f \in Rows(R)
       PROVE  /\ Grounded(Entry(f, t), K) /\ f.table # "tenants"
              /\ f.table \in {"chunks", "chunk_promoted", "lease_facts", "epoch_owners", "transitions", "chunk_stopped",
                              "escalations", "questions", "chunk_pause_facts", "route_created"}
              /\ f.table = "chunks" => f.id = chunk /\ f.of = graph
              /\ f.table # "chunks" => f.of = chunk
  <2>1. R = compose_chunk(c, chunk, graph, nodes, stream, draw) BY <1>2
  <2>2. /\ Grounded(Entry(f, t), K) /\ f.table # "tenants"
        /\ f.table \in {"chunks", "chunk_promoted", "lease_facts", "epoch_owners", "transitions", "chunk_stopped",
                        "escalations", "questions", "chunk_pause_facts", "route_created"}
        /\ f.table = "chunks" => f = Fact("chunks", graph, chunk, Instant(stream, 0))
        /\ f.table # "chunks" => f.of = chunk
    BY <1>1, <1>8, <1>9, <2>1, ChunkGrounded
  <2>3. QED BY <2>2, FactIs
<1>11. ASSUME NEW f \in Rows(R), f.table = "chunks" PROVE f.id \in DOMAIN asked /\ Derives(Rows(R), f, asked[f.id])
  <2>1. f.id = chunk /\ f.of = graph BY <1>10, <1>11
  <2>2. \A g \in Rows(R) : g.table \in StatusFacts \cup {"chunks", "epoch_owners"} /\ (g.table # "chunks" => g.of = chunk)
    BY <1>10 DEF StatusFacts
  <2>3. PICK Q : Q = Rows(R) OBVIOUS
  <2>4. Q = Rows(compose_chunk(c, chunk, graph, nodes, stream, draw)) BY <1>2, <2>3
  <2>5. Derives(Q, f, c.status) BY <1>1, <2>1, <2>2, <2>3, <2>4, ChunkAlone
  <2>6. asked[chunk] = c.status /\ chunk \in DOMAIN asked OBVIOUS
  <2>7. QED BY <2>1, <2>3, <2>5, <2>6
<1>12. QED BY <1>2, <1>3, <1>7, <1>10, <1>11 DEF Fits

(* An invocation of two hand-overs.                                          *)
LEMMA TwoSteps ==
    ASSUME NEW s, NEW u, NEW asked, NEW ten, NEW held, NEW H, Fits(s, asked, ten, held, H),
           Fits(u, asked, ten, held, H \cup (IF s.store = "hub" THEN Written(s, ten, held) ELSE {})),
           NEW x, x.steps = << s, u >>, x.asked = asked
    PROVE  InFlight(x, ten, held, H)
<1>1. IsSeq(x.steps) BY TupleRows
<1>2. Len(x.steps) = 2 /\ x.steps[1] = s /\ x.steps[2] = u OBVIOUS
<1>3. ASSUME NEW i \in 1 .. Len(x.steps) PROVE Fits(x.steps[i], x.asked, ten, held, H \cup Ahead(x.steps, i, ten, held))
  <2>1. PICK A, K : A = Ahead(x.steps, i, ten, held) /\ K = H \cup A OBVIOUS
  <2>2. CASE i = 1
    <3>1. H \subseteq K BY <2>1
    <3>2. Fits(s, asked, ten, held, K) BY <3>1, FitsGrows
    <3>3. QED BY <1>2, <2>1, <2>2, <3>2
  <2>3. CASE i = 2
    <3>1. PICK B : B = IF s.store = "hub" THEN Written(s, ten, held) ELSE {} OBVIOUS
    <3>2. B \subseteq A
      <4>1. 1 \in 1 .. i - 1 BY <2>3
      <4>2. s.store = "hub" => Written(x.steps[1], ten, held) \subseteq A BY <1>2, <2>1, <4>1 DEF Ahead
      <4>3. QED BY <1>2, <3>1, <4>2
    <3>3. H \cup B \subseteq K BY <2>1, <3>2
    <3>4. Fits(u, asked, ten, held, H \cup B) BY <3>1
    <3>5. Fits(u, asked, ten, held, K) BY <3>3, <3>4, FitsGrows
    <3>6. QED BY <1>2, <2>1, <2>3, <3>5
  <2>4. QED BY <1>2, <1>3, <2>2, <2>3
<1>4. QED BY <1>1, <1>3 DEF InFlight

LEMMA PairOf == ASSUME NEW a, NEW b PROVE << a >> \o << b >> = << a, b >>
<1>1. PICK S : S = {a, b} OBVIOUS
<1>2. << a >> \in Seq(S) /\ << b >> \in Seq(S) /\ << a, b >> \in Seq(S) BY <1>1
<1>3. Len(<< a >> \o << b >>) = 2 /\ (<< a >> \o << b >>)[1] = a /\ (<< a >> \o << b >>)[2] = b BY <1>2
<1>4. PICK s, t : s = << a >> \o << b >> /\ t = << a, b >> OBVIOUS
<1>5. s \in Seq(S) /\ t \in Seq(S) /\ Len(s) = 2 /\ Len(t) = 2 BY <1>2, <1>3, <1>4
<1>6. \A i \in 1 .. 2 : s[i] = t[i]
  <2>1. s[1] = a /\ s[2] = b /\ t[1] = a /\ t[2] = b BY <1>3, <1>4
  <2>2. \A i \in 1 .. 2 : i = 1 \/ i = 2 OBVIOUS
  <2>3. QED BY <2>1, <2>2
<1>7. s = t BY <1>5, <1>6
<1>8. QED BY <1>4, <1>7

(* A chunk begins on a graph its hub will hold.                              *)
LEMMA ResolveIs == \A named : ResolveTenant(named) = Resolved(tenanted, HeldTenants, named)
BY DEF ResolveTenant, Resolved
LEMMA CreateChunkStep == ASSUME IInv, NEW p \in Procs, NEW a \in ChunkCalls, create_chunk(p, a) PROVE IInv'
<1>1. PICK t, stream : t = ResolveTenant(a.tenant) /\ stream = Fresh(a.seeded) OBVIOUS
<1>2. stream \in Nat /\ t # Refused BY <1>1, FreshIs DEF IInv, create_chunk
<1>3. a.status \in Statuses /\ (a.mirrored => a.status \in MirroredStatuses) BY CallAssumption
<1>4. PICK ten, held, H : ten = tenanted /\ held = HeldTenants /\ H = hub OBVIOUS
<1>5. t = Resolved(ten, held, a.tenant) BY <1>1, <1>4, ResolveIs
<1>6. ASSUME NEW g \in Query("graphs", t),
             NEW y, y = ChunkSteps(a, g.id, GraphNodes(g.id, t), stream, 1, << >>),
             Begin(p, y.steps, y.asked, None)
      PROVE  IInv'
  <2>1. PICK nodes, graph, chunk, draw :
           /\ nodes = GraphNodes(g.id, t) /\ graph = g.id
           /\ chunk = (IF a.chunk = None THEN Mint(stream, 1) ELSE a.chunk)
           /\ draw = (IF a.chunk = None THEN 1 + 1 ELSE 1)
    OBVIOUS
  <2>2. PICK s, asked : /\ s = Step("hub", a.tenant, None, compose_chunk(a, chunk, graph, nodes, stream, draw))
                        /\ asked = [c \in {chunk} |-> a.status]
    OBVIOUS
  <2>3. y.steps = << >> \o << s >> /\ y.asked = asked BY <1>6, <2>1, <2>2 DEF ChunkSteps
  <2>4. y.steps = << s >> BY <2>3
  <2>5. s.rows = compose_chunk(a, chunk, graph, nodes, stream, draw) /\ s.tenant = a.tenant BY <2>2, StepIs
  <2>6. PICK e \in hub : e.fact = g /\ g.table = "graphs" /\ e.tenant = t BY <1>1, <1>2, <1>6, QueryEntry DEF IInv
  <2>7. Grounded(e, hub) BY <2>6 DEF IInv, HubInv
  <2>8. graph \in Int /\ \A name \in {"build", "deliver"} : NodeOf(hub, graph, NodeId(graph, name))
    BY <2>1, <2>6, <2>7 DEF Grounded
  <2>9. \A name \in nodes : name \in Names /\ NodeOf(hub, graph, NodeId(graph, name))
    <3> SUFFICES ASSUME NEW name \in nodes PROVE name \in Names /\ NodeOf(hub, graph, NodeId(graph, name)) OBVIOUS
    <3>1. PICK n \in Query("graph_nodes", t) : n.of = g.id /\ n.tag = name BY <2>1 DEF GraphNodes
    <3>2. PICK d \in hub : d.fact = n /\ n.table = "graph_nodes" BY <1>1, <1>2, <3>1, QueryEntry DEF IInv
    <3>3. Grounded(d, hub) BY <3>2 DEF IInv, HubInv
    <3>4. n.tag \in Names /\ n.id = NodeId(n.of, n.tag) BY <3>2, <3>3 DEF Grounded
    <3>5. QED BY <2>1, <3>1, <3>2, <3>4 DEF NodeOf
  <2>10. OnGraph(H, graph, nodes, Resolved(ten, held, s.tenant))
    BY <1>4, <1>5, <2>1, <2>5, <2>6, <2>8, <2>9 DEF OnGraph
  <2>11. nodes \subseteq Names BY <2>9
  <2>12. Fits(s, asked, ten, held, H) BY <1>2, <1>3, <2>2, <2>5, <2>8, <2>10, <2>11, ChunkFits
  <2>13. PICK x : x = [steps |-> y.steps, asked |-> y.asked, pinned |-> None] OBVIOUS
  <2>14. x.steps = << s >> /\ x.asked = asked /\ x.pinned = None BY <2>3, <2>4, <2>13
  <2>15. InFlight(x, ten, held, H) BY <2>12, <2>14, OneStep
  <2>16. Fleet(x, runner.rows, hub) BY <2>14 DEF Fleet
  <2>17. InFlight(x, tenanted, HeldTenants, hub) BY <1>4, <2>15
  <2>18. QED BY <1>6, <2>13, <2>16, <2>17, BeginStep
<1>7. ASSUME NEW name, NEW m, m = Step("hub", a.tenant, None, compose_graph(Mint(stream, 1), name, Instant(stream, 0))),
             NEW y, y = ChunkSteps(a, Mint(stream, 1), {"build", "deliver"}, stream, GraphDraws + 1, << m >>),
             Begin(p, y.steps, y.asked, None)
      PROVE  IInv'
  <2>1. PICK nodes, graph, chunk, draw, at :
           /\ nodes = {"build", "deliver"} /\ graph = Mint(stream, 1) /\ at = Instant(stream, 0)
           /\ chunk = (IF a.chunk = None THEN Mint(stream, GraphDraws + 1) ELSE a.chunk)
           /\ draw = (IF a.chunk = None THEN GraphDraws + 1 + 1 ELSE GraphDraws + 1)
    OBVIOUS
  <2>2. PICK s, asked : /\ s = Step("hub", a.tenant, None, compose_chunk(a, chunk, graph, nodes, stream, draw))
                        /\ asked = [c \in {chunk} |-> a.status]
    OBVIOUS
  <2>3. y.steps = << m >> \o << s >> /\ y.asked = asked BY <1>7, <2>1, <2>2 DEF ChunkSteps
  <2>4. y.steps = << m, s >> BY <2>3, PairOf
  <2>5. /\ s.rows = compose_chunk(a, chunk, graph, nodes, stream, draw) /\ s.tenant = a.tenant
        /\ m.rows = compose_graph(graph, name, at) /\ m.tenant = a.tenant /\ m.store = "hub"
    BY <1>7, <2>1, <2>2, StepIs
  <2>6. graph \in Int BY <1>2, <2>1, MintIs
  <2>7. PICK W : W = Written(m, ten, held) OBVIOUS
  <2>8. Fits(m, asked, ten, held, H) BY <2>5, <2>6, GraphFits
  <2>9. OnGraph(W, graph, nodes, Resolved(ten, held, m.tenant)) BY <2>1, <2>5, <2>6, <2>7, GraphFits
  <2>10. PICK K : K = H \cup W OBVIOUS
  <2>11. OnGraph(K, graph, nodes, Resolved(ten, held, s.tenant)) BY <2>5, <2>9, <2>10, OnGraphGrows
  <2>12. nodes \subseteq Names BY <2>1 DEF Names
  <2>13. Fits(s, asked, ten, held, K) BY <1>2, <1>3, <2>2, <2>5, <2>6, <2>11, <2>12, ChunkFits
  <2>14. PICK x : x = [steps |-> y.steps, asked |-> y.asked, pinned |-> None] OBVIOUS
  <2>15. x.steps = << m, s >> /\ x.asked = asked /\ x.pinned = None BY <2>3, <2>4, <2>14
  <2>16. Fits(s, asked, ten, held, H \cup (IF m.store = "hub" THEN Written(m, ten, held) ELSE {}))
    BY <2>5, <2>7, <2>10, <2>13
  <2>17. InFlight(x, ten, held, H) BY <2>8, <2>15, <2>16, TwoSteps
  <2>18. Fleet(x, runner.rows, hub) BY <2>15 DEF Fleet
  <2>19. InFlight(x, tenanted, HeldTenants, hub) BY <1>4, <2>17
  <2>20. QED BY <1>7, <2>14, <2>18, <2>19, BeginStep
<1>8. QED BY <1>1, <1>6, <1>7 DEF create_chunk, Newest

-----------------------------------------------------------------------------
(* Artifacts, decisions and leases                                           *)

(* The node an artifact or a decision is about is one of its chunk's graph,  *)
(* and its chunk stands in the tenant that was resolved.                     *)
LEMMA StepNodeIs ==
    ASSUME HubInv, NEW a, NEW t, t = ResolveTenant(a.tenant), t # Refused, NEW n \in StepNodes(a, t)
    PROVE  OwnNode(hub, a.chunk, n)
<1>1. ASSUME NEW table, NEW f \in Query(table, t)
      PROVE  \E e \in hub : e.fact = f /\ f.table = table /\ e.tenant = t /\ Grounded(e, hub)
  <2>1. PICK e \in hub : e.fact = f /\ f.table = table /\ e.tenant = t BY <1>1, QueryEntry
  <2>2. Grounded(e, hub) BY DEF HubInv
  <2>3. QED BY <2>1, <2>2
<1>2. CASE a.node # None
  <2>1. n \in NamedNodes(a.chunk, t, a.node) BY <1>2 DEF StepNodes
  <2>2. PICK x \in Query("graph_nodes", t), k \in Query("chunks", t) : n = x.id /\ k.id = a.chunk /\ k.of = x.of
    BY <2>1 DEF NamedNodes
  <2>3. PICK d \in hub : d.fact = x /\ x.table = "graph_nodes" BY <1>1
  <2>4. PICK e \in hub : e.fact = k /\ k.table = "chunks" BY <1>1
  <2>5. NodeOf(hub, k.of, n) BY <2>2, <2>3 DEF NodeOf
  <2>6. QED BY <2>2, <2>4, <2>5 DEF OwnNode
<1>3. CASE a.node = None
  <2>1. n \in Landings(a.chunk, t) /\ \E x \in Query("graph_nodes", t) : x.id = n BY <1>3 DEF StepNodes
  <2>2. PICK x \in Query("graph_nodes", t) : x.id = n BY <2>1
  <2>3. PICK d \in hub : d.fact = x /\ x.table = "graph_nodes" /\ Grounded(d, hub) BY <1>1
  <2>4. x.of \in Int /\ x.tag \in Names /\ n = NodeId(x.of, x.tag) BY <2>2, <2>3 DEF Grounded
  <2>5. n # Done /\ n # None BY <2>4, NodesApart
  <2>6. PICK m \in Newest({y \in Query("transitions", t) : y.of = a.chunk}) : n = m.node \/ n = m.ref
    BY <2>1 DEF Landings
  <2>7. m \in Query("transitions", t) /\ m.of = a.chunk BY <2>6 DEF Newest
  <2>8. PICK e \in hub : e.fact = m /\ m.table = "transitions" /\ Grounded(e, hub) BY <1>1, <2>7
  <2>9. (m.node = Done \/ OwnNode(hub, m.of, m.node)) /\ (m.ref = None \/ OwnNode(hub, m.of, m.ref))
    BY <2>8 DEF Grounded
  <2>10. QED BY <2>5, <2>6, <2>7, <2>9
<1>4. QED BY <1>2, <1>3
LEMMA OwnNodeGrows ==
    ASSUME NEW H, NEW K, H \subseteq K, NEW c, NEW n, OwnNode(H, c, n) PROVE OwnNode(K, c, n)
BY DEF OwnNode, NodeOf
LEMMA OnChunkFits ==
    ASSUME HubInv, NEW a, NEW t, t = ResolveTenant(a.tenant), t # Refused, SeededHere(a.chunk, t),
           NEW n, OwnNode(hub, a.chunk, n), NEW table \in {"artifacts", "decisions"}, NEW f,
           f.table = table, f.of = a.chunk, f.node = n,
           NEW s, IsSeq(s.rows), s.tenant = a.tenant, f \in Rows(s.rows),
           \A g \in Rows(s.rows) : g = f \/ g.table = "decision_resolutions"
    PROVE  Fits(s, Idle.asked, tenanted, HeldTenants, hub)
<1>1. PICK ten, held, H, W, K, asked : /\ ten = tenanted /\ held = HeldTenants /\ H = hub /\ asked = Idle.asked
                                       /\ W = Written(s, ten, held) /\ K = H \cup W
  OBVIOUS
<1>2. t = Resolved(ten, held, s.tenant) BY <1>1, ResolveIs
<1>3. f.table \notin GlobalTables BY DEF GlobalTables
<1>4. TenantOf(s, ten, held) = t BY <1>2, <1>3, WritesIn
<1>5. PICK c \in Query("chunks", t) : c.id = a.chunk BY DEF SeededHere
<1>6. PICK k \in hub : k.fact = c /\ c.table = "chunks" /\ k.tenant = t BY <1>5, QueryEntry
<1>7. PICK e : e = Entry(f, t) OBVIOUS
<1>8. e.fact = f /\ e.tenant = t BY <1>3, <1>7 DEF Entry, StampOf
<1>9. ParentHere(e, K, "chunks") BY <1>1, <1>5, <1>6, <1>8 DEF ParentHere
<1>10. H \subseteq K /\ OwnNode(H, a.chunk, n) BY <1>1
<1>11. OwnNode(K, a.chunk, n) BY <1>10, OwnNodeGrows
<1>12. Grounded(e, K) BY <1>8, <1>9, <1>11 DEF Grounded
<1>13. ASSUME NEW g \in Rows(s.rows)
       PROVE  g.table # "tenants" /\ g.table # "chunks" /\ Grounded(Entry(g, t), K)
  <2>1. CASE g = f BY <1>7, <1>12, <2>1
  <2>2. CASE g.table = "decision_resolutions"
    <3>1. PICK d : d = Entry(g, t) OBVIOUS
    <3>2. d.fact = g BY <3>1 DEF Entry
    <3>3. g.table \notin Grounds BY <2>2 DEF Grounds
    <3>4. Grounded(d, K) BY <3>2, <3>3, PlainGrounded
    <3>5. QED BY <2>2, <3>1, <3>4
  <2>3. QED BY <2>1, <2>2
<1>14. Fits(s, asked, ten, held, H) BY <1>1, <1>4, <1>13 DEF Fits
<1>15. QED BY <1>1, <1>14

LEMMA ArtifactIs ==
    ASSUME NEW chunk, NEW id, NEW node, NEW epoch, NEW seq, NEW at, NEW R,
           R = compose_artifact(chunk, id, node, epoch, seq, at)
    PROVE  IsSeq(R) /\ \E f : Rows(R) = {f} /\ f.table = "artifacts" /\ f.of = chunk /\ f.node = node /\ f.id = id
<1>1. PICK f : f = [Fact("artifacts", chunk, id, at) EXCEPT !.node = node, !.epoch = epoch, !.ref = seq] OBVIOUS
<1>2. f.table = "artifacts" /\ f.of = chunk /\ f.node = node /\ f.id = id BY <1>1 DEF Fact
<1>3. R = << f >> BY <1>1 DEF compose_artifact
<1>4. QED BY <1>2, <1>3, TupleRows
LEMMA DecisionIs ==
    ASSUME NEW d, NEW id, NEW node, NEW epoch, NEW at, NEW R, R = compose_decision(d, id, node, epoch, at), R # Refused
    PROVE  IsSeq(R) /\ \E f : /\ f \in Rows(R) /\ f.table = "decisions" /\ f.of = d.chunk /\ f.node = node
                              /\ \A g \in Rows(R) : g = f \/ g.table = "decision_resolutions"
<1>1. PICK f, r : /\ f = [Fact("decisions", d.chunk, id, at) EXCEPT !.node = node, !.epoch = epoch]
                  /\ r = Fact("decision_resolutions", id, id, at + 1) OBVIOUS
<1>2. f.table = "decisions" /\ f.of = d.chunk /\ f.node = node /\ r.table = "decision_resolutions" BY <1>1 DEF Fact
<1>3. R = << f >> \/ R = << f, r >> BY <1>1 DEF compose_decision
<1>4. QED BY <1>2, <1>3, TupleRows
LEMMA ArtifactStep == ASSUME IInv, NEW p \in Procs, NEW a, create_artifact(p, a) PROVE IInv'
<1>1. PICK t, id, at, seq : /\ t = ResolveTenant(a.tenant) /\ id = Mint(Fresh(FALSE), 1)
                            /\ at = Instant(Fresh(FALSE), 0) /\ seq = NextSeq(a.chunk, t)
  OBVIOUS
<1>2. t # Refused /\ SeededHere(a.chunk, t) BY <1>1 DEF create_artifact
<1>3. PICK n \in StepNodes(a, t), e \in LeaseEpochs(a.chunk, t) :
         Seed(p, "hub", a.tenant, None, compose_artifact(a.chunk, id, n, e, seq, at))
  BY <1>1 DEF create_artifact
<1>4. PICK R, s : R = compose_artifact(a.chunk, id, n, e, seq, at) /\ s = Step("hub", a.tenant, None, R) OBVIOUS
<1>5. s.rows = R /\ s.tenant = a.tenant BY <1>4, StepIs
<1>6. IsSeq(R) /\ \E f : Rows(R) = {f} /\ f.table = "artifacts" /\ f.of = a.chunk /\ f.node = n BY <1>4, ArtifactIs
<1>7. OwnNode(hub, a.chunk, n) BY <1>1, <1>2, <1>3, StepNodeIs DEF IInv
<1>8. PICK f : Rows(R) = {f} /\ f.table = "artifacts" /\ f.of = a.chunk /\ f.node = n BY <1>6
<1>9. IsSeq(s.rows) /\ f \in Rows(s.rows) /\ \A g \in Rows(s.rows) : g = f BY <1>5, <1>6, <1>8
<1>10. Fits(s, Idle.asked, tenanted, HeldTenants, hub) BY <1>1, <1>2, <1>5, <1>7, <1>8, <1>9, OnChunkFits DEF IInv
<1>11. QED BY <1>3, <1>4, <1>10, SeedStep
LEMMA DecisionStep == ASSUME IInv, NEW p \in Procs, NEW a, create_decision(p, a) PROVE IInv'
<1>1. PICK t, id, at : t = ResolveTenant(a.tenant) /\ id = Mint(Fresh(FALSE), 1) /\ at = Instant(Fresh(FALSE), 0)
  OBVIOUS
<1>2. t # Refused /\ SeededHere(a.chunk, t) BY <1>1 DEF create_decision
<1>3. PICK n \in StepNodes(a, t), e \in LeaseEpochs(a.chunk, t) :
         Seed(p, "hub", a.tenant, None, compose_decision(a, id, n, e, at))
  BY <1>1 DEF create_decision
<1>4. PICK R, s : R = compose_decision(a, id, n, e, at) /\ s = Step("hub", a.tenant, None, R) OBVIOUS
<1>5. s.rows = R /\ s.tenant = a.tenant /\ R # Refused BY <1>3, <1>4, StepIs DEF Seed
<1>6. IsSeq(R) /\ \E f : /\ f \in Rows(R) /\ f.table = "decisions" /\ f.of = a.chunk /\ f.node = n
                         /\ \A g \in Rows(R) : g = f \/ g.table = "decision_resolutions" BY <1>4, <1>5, DecisionIs
<1>7. OwnNode(hub, a.chunk, n) BY <1>1, <1>2, <1>3, StepNodeIs DEF IInv
<1>8. PICK f : /\ f \in Rows(R) /\ f.table = "decisions" /\ f.of = a.chunk /\ f.node = n
               /\ \A g \in Rows(R) : g = f \/ g.table = "decision_resolutions" BY <1>6
<1>9. IsSeq(s.rows) /\ f \in Rows(s.rows) /\ \A g \in Rows(s.rows) : g = f \/ g.table = "decision_resolutions"
  BY <1>5, <1>6, <1>8
<1>10. Fits(s, Idle.asked, tenanted, HeldTenants, hub) BY <1>1, <1>2, <1>5, <1>7, <1>8, <1>9, OnChunkFits DEF IInv
<1>11. QED BY <1>3, <1>4, <1>10, SeedStep

(* A lease lands beside its epoch's owner: the one that was read, which is   *)
(* its own, or the one it brings.                                            *)
LEMMA LeaseFits ==
    ASSUME NEW chunk, NEW epoch, NEW r, NEW at, NEW l, l = LeaseRow(chunk, epoch, r, at),
           NEW o, o = OwnerRow(chunk, epoch, r, at),
           NEW s, NEW asked, NEW ten, NEW held, NEW H,
           \/ s.rows = << l, o >>
           \/ /\ s.rows = << l >>
              /\ \E x \in H : /\ x.fact.table = "epoch_owners" /\ x.fact.of = chunk /\ x.fact.epoch = epoch
                              /\ x.fact.runner = OwnerOf(r)
    PROVE  Fits(s, asked, ten, held, H)
<1>1. PICK t, W, K : t = TenantOf(s, ten, held) /\ W = Written(s, ten, held) /\ K = H \cup W OBVIOUS
<1>2. /\ l.table = "lease_facts" /\ l.of = chunk /\ l.runner = r /\ l.epoch = epoch
      /\ o.table = "epoch_owners" /\ o.of = chunk /\ o.runner = OwnerOf(r) /\ o.epoch = epoch
  BY LeaseIs, OwnerIs
<1>3. IsSeq(s.rows) /\ l \in Rows(s.rows) /\ \A f \in Rows(s.rows) : f = l \/ f = o
  <2>1. IsSeq(<< l, o >>) /\ Rows(<< l, o >>) = {l, o} /\ IsSeq(<< l >>) /\ Rows(<< l >>) = {l} BY TupleRows
  <2>2. CASE s.rows = << l, o >> BY <2>1, <2>2
  <2>3. CASE s.rows = << l >> BY <2>1, <2>3
  <2>4. QED BY <2>2, <2>3
<1>4. \E x \in K : /\ x.fact.table = "epoch_owners" /\ x.fact.of = chunk /\ x.fact.epoch = epoch
                   /\ x.fact.runner = OwnerOf(r)
  <2>1. CASE s.rows = << l >> BY <1>1, <2>1
  <2>2. CASE s.rows = << l, o >>
    <3>1. PICK x : x = Entry(o, t) OBVIOUS
    <3>2. o \in Rows(s.rows) BY <2>2, TupleRows
    <3>3. x \in W /\ x.fact = o BY <1>1, <3>1, <3>2 DEF Entry, Written, Stamped
    <3>4. QED BY <1>1, <1>2, <3>3
  <2>3. QED BY <2>1, <2>2
<1>5. PICK d, e : d = Entry(l, t) /\ e = Entry(o, t) OBVIOUS
<1>6. d.fact = l /\ e.fact = o BY <1>5 DEF Entry
<1>7. Grounded(d, K) BY <1>2, <1>4, <1>6 DEF Grounded
<1>8. Grounded(e, K) BY <1>2, <1>6 DEF Grounded
<1>9. QED BY <1>1, <1>2, <1>3, <1>5, <1>7, <1>8 DEF Fits
LEMMA CreateLeaseStep == ASSUME IInv, NEW p \in Procs, NEW a, create_lease(p, a) PROVE IInv'
<1>1. PICK t, at, id, owners : /\ t = ResolveTenant(a.tenant) /\ at = Instant(Fresh(FALSE), 0)
                               /\ id = Mint(Fresh(FALSE), 1) /\ owners = Owners(a.chunk, a.epoch, t)
  OBVIOUS
<1>2. PICK l, o : l = LeaseRow(a.chunk, a.epoch, a.runner, at) /\ o = OwnerRow(a.chunk, a.epoch, a.runner, at) OBVIOUS
<1>3. \/ /\ t # Refused /\ OwnerAllows(owners, a.runner)
         /\ Seed(p, "hub", a.tenant, None, IF owners = {} THEN << l, o >> ELSE << l >>)
      \/ Seed(p, "runner", a.tenant, a.runner, compose_lease(a.chunk, id, a.epoch, None, at))
  BY <1>1, <1>2 DEF create_lease, compose_lease_rows
<1>4. ASSUME t # Refused, OwnerAllows(owners, a.runner),
             Seed(p, "hub", a.tenant, None, IF owners = {} THEN << l, o >> ELSE << l >>)
      PROVE  IInv'
  <2>1. PICK R, s : R = (IF owners = {} THEN << l, o >> ELSE << l >>) /\ s = Step("hub", a.tenant, None, R) OBVIOUS
  <2>2. s.rows = R BY <2>1, StepIs
  <2>3. owners # {} => \E x \in hub : /\ x.fact.table = "epoch_owners" /\ x.fact.of = a.chunk
                                      /\ x.fact.epoch = a.epoch /\ x.fact.runner = OwnerOf(a.runner)
    <3> SUFFICES ASSUME owners # {}
                 PROVE  \E x \in hub : /\ x.fact.table = "epoch_owners" /\ x.fact.of = a.chunk
                                       /\ x.fact.epoch = a.epoch /\ x.fact.runner = OwnerOf(a.runner) OBVIOUS
    <3>1. PICK f \in Query("epoch_owners", t) : f.of = a.chunk /\ f.epoch = a.epoch /\ f.runner \in owners
      BY <1>1 DEF Owners
    <3>2. f.runner = OwnerOf(a.runner) BY <1>4, <3>1 DEF OwnerAllows
    <3>3. PICK x \in hub : x.fact = f /\ f.table = "epoch_owners" BY <1>1, <1>4, QueryEntry DEF IInv
    <3>4. QED BY <3>1, <3>2, <3>3
  <2>4. PICK ten, held, H, asked : ten = tenanted /\ held = HeldTenants /\ H = hub /\ asked = Idle.asked OBVIOUS
  <2>5. Fits(s, asked, ten, held, H) BY <1>2, <2>1, <2>2, <2>3, <2>4, LeaseFits
  <2>6. QED BY <1>4, <2>1, <2>4, <2>5, SeedStep
<1>5. ASSUME Seed(p, "runner", a.tenant, a.runner, compose_lease(a.chunk, id, a.epoch, None, at)) PROVE IInv'
  <2>1. PICK R : R = compose_lease(a.chunk, id, a.epoch, None, at) OBVIOUS
  <2>2. IsSeq(R) BY <2>1, PlainSeqs
  <2>3. QED BY <1>5, <2>1, <2>2, RunnerSeed
<1>6. QED BY <1>3, <1>4, <1>5

-----------------------------------------------------------------------------
(* The chunks of a board                                                     *)

(* A board's members: its chunks by number, the two of --stress as 0 and -1. *)
Members(b) == 1 .. b.chunks \cup (IF b.stress THEN {0, -1} ELSE {})
MemberId(stream, x) ==
    IF x = 0 THEN Mint(stream, 401) ELSE IF x = -1 THEN Mint(stream, 402) ELSE BoardChunk(stream, x)
MemberStatus(x) == IF x = 0 THEN "waiting_on_human" ELSE IF x = -1 THEN "running" ELSE BoardStatus(x)
MemberCall(b, stream, x) ==
    [status |-> MemberStatus(x), node |-> IF x = -1 THEN "long" ELSE None,
     runner |-> IF x \in {0, -1} THEN Mint(stream, 400) ELSE BoardRunner(b, stream, x),
     epoch |-> 1, mirrored |-> IF x \in {0, -1} THEN FALSE ELSE BoardMirrors(b, x)]
MemberNodes(x) == IF x = -1 THEN {"build", "deliver", "long"} ELSE {"build", "deliver"}
MemberDraw(x) == IF x = 0 THEN 411 ELSE IF x = -1 THEN 421 ELSE 10 * x + 1
MemberRows(b, stream, x) ==
    compose_chunk(MemberCall(b, stream, x), MemberId(stream, x), Mint(stream, 1), MemberNodes(x), stream, MemberDraw(x))

LEMMA MemberIs ==
    ASSUME NEW b, b.chunks \in Int, NEW x \in Members(b)
    PROVE  x \in Int /\ (x \in 1 .. b.chunks \/ (b.stress /\ x \in {0, -1}))
<1>1. x \in 1 .. b.chunks \/ (b.stress /\ x \in {0, -1}) BY DEF Members
<1>2. x \in Int BY <1>1
<1>3. QED BY <1>1, <1>2
LEMMA BoardStatusIs ==
    /\ \A i \in Nat \ {0} : BoardStatus(i) \in Statuses
    /\ \A i \in Nat \ {0} : BoardStatus(i) = "waiting_on_human" => i >= 4
    /\ \A i \in Nat \ {0} : BoardStatus(i) = "done" => i >= 5
<1>1. Len(StatusOrder) = 9 BY DEF StatusOrder
<1>2. /\ StatusOrder[1] = "ready" /\ StatusOrder[2] = "running" /\ StatusOrder[3] = "needs_human"
      /\ StatusOrder[4] = "waiting_on_human" /\ StatusOrder[5] = "done" /\ StatusOrder[6] = "paused"
      /\ StatusOrder[7] = "delivering" /\ StatusOrder[8] = "stopped" /\ StatusOrder[9] = "not_ready"
  BY DEF StatusOrder
<1>3. ASSUME NEW i \in Nat \ {0}
      PROVE  \E j \in 1 .. 9 : BoardStatus(i) = StatusOrder[j] /\ j <= i
  <2>1. PICK m : m = (i - 1) % 9 OBVIOUS
  <2>2. m \in 0 .. 8 /\ m <= i - 1 BY <2>1
  <2>3. BoardStatus(i) = StatusOrder[m + 1] BY <1>1, <2>1 DEF BoardStatus
  <2>4. m + 1 \in 1 .. 9 /\ m + 1 <= i BY <2>2
  <2>5. QED BY <2>3, <2>4
<1>4. ASSUME NEW j \in 1 .. 9
      PROVE  /\ StatusOrder[j] \in Statuses /\ (StatusOrder[j] = "waiting_on_human" => j = 4)
             /\ (StatusOrder[j] = "done" => j = 5)
  <2>1. j \in {1, 2, 3, 4, 5, 6, 7, 8, 9} OBVIOUS
  <2>2. QED BY <1>2, <2>1 DEF Statuses
<1>5. QED BY <1>3, <1>4
LEMMA MemberComposed ==
    ASSUME NEW b, b.chunks \in Int, NEW stream, NEW x \in Members(b), NEW c, c = MemberCall(b, stream, x)
    PROVE  /\ c.status = MemberStatus(x) /\ c.status \in Statuses /\ (c.mirrored => c.status \in MirroredStatuses)
           /\ MemberNodes(x) \subseteq Names /\ ~ChunkRefused(c, MemberNodes(x))
<1>1. /\ c.status = MemberStatus(x) /\ c.node = (IF x = -1 THEN "long" ELSE None)
      /\ c.mirrored = (IF x \in {0, -1} THEN FALSE ELSE BoardMirrors(b, x))
  BY DEF MemberCall
<1>2. c.status \in Statuses
  <2>1. CASE x \in {0, -1} BY <1>1, <2>1 DEF MemberStatus, Statuses
  <2>2. CASE x \notin {0, -1}
    <3>1. x \in Nat \ {0} BY <2>2, MemberIs
    <3>2. QED BY <1>1, <2>2, <3>1, BoardStatusIs DEF MemberStatus
  <2>3. QED BY <2>1, <2>2
<1>3. c.mirrored => c.status \in MirroredStatuses BY <1>1 DEF BoardMirrors, MemberStatus
<1>4. MemberNodes(x) \subseteq Names BY DEF MemberNodes, Names
<1>5. CASE x = -1
  <2>1. c.status = "running" /\ c.node = "long" /\ "long" \in MemberNodes(x) BY <1>1, <1>5 DEF MemberStatus, MemberNodes
  <2>2. c.node # None => Lands(c) = "long" BY <2>1 DEF Lands
  <2>3. c.node = None => Lands(c) = "build" BY <2>1 DEF Lands, DefaultNode
  <2>4. Executor("long") # "hub" /\ Executor("build") # "hub" BY DEF Executor
  <2>5. ~ChunkRefused(c, MemberNodes(x)) BY <2>1, <2>2, <2>3, <2>4 DEF ChunkRefused
  <2>6. QED BY <1>1, <1>2, <1>3, <1>4, <2>5
<1>6. CASE x # -1
  <2>1. c.node = None BY <1>1, <1>6
  <2>2. Lands(c) = DefaultNode(c.status) BY <2>1 DEF Lands
  <2>3. c.status = "delivering" => Executor(Lands(c)) = "hub" BY <2>2 DEF DefaultNode, Executor
  <2>4. c.status = "running" => Executor(Lands(c)) # "hub" BY <2>2 DEF DefaultNode, Executor
  <2>5. ~ChunkRefused(c, MemberNodes(x)) BY <2>1, <2>3, <2>4 DEF ChunkRefused
  <2>6. QED BY <1>1, <1>2, <1>3, <1>4, <2>5
<1>7. QED BY <1>5, <1>6

(* No two members share an id, and each was asked for what it is composed    *)
(* for.                                                                      *)
LEMMA MembersApart ==
    ASSUME NEW b, b.chunks \in Int, NEW stream \in Nat, NEW x \in Members(b), NEW y \in Members(b),
           MemberId(stream, x) = MemberId(stream, y)
    PROVE  x = y
<1>1. x \in Int /\ y \in Int BY MemberIs
<1>2. MemberId(stream, x) = 1000 * stream + (IF x = 0 THEN 401 ELSE IF x = -1 THEN 402 ELSE 10 * x)
  BY DEF MemberId, Mint, BoardChunk
<1>3. MemberId(stream, y) = 1000 * stream + (IF y = 0 THEN 401 ELSE IF y = -1 THEN 402 ELSE 10 * y)
  BY DEF MemberId, Mint, BoardChunk
<1>4. PICK m, n : /\ m = (IF x = 0 THEN 401 ELSE IF x = -1 THEN 402 ELSE 10 * x)
                  /\ n = (IF y = 0 THEN 401 ELSE IF y = -1 THEN 402 ELSE 10 * y)
  OBVIOUS
<1>5. m \in Int /\ n \in Int BY <1>1, <1>4
<1>6. m = n
  <2>1. PICK k : k = 1000 * stream OBVIOUS
  <2>2. k \in Int BY <2>1
  <2>3. MemberId(stream, x) = k + m BY <1>2, <1>4, <2>1
  <2>4. MemberId(stream, y) = k + n BY <1>3, <1>4, <2>1
  <2>5. k + m = k + n BY <2>3, <2>4
  <2>6. QED BY <1>5, <2>2, <2>5
<1>7. QED BY <1>1, <1>4, <1>6
LEMMA MemberAsked ==
    ASSUME NEW b, b.chunks \in Int, NEW stream \in Nat, NEW x \in Members(b)
    PROVE  /\ MemberId(stream, x) \in DOMAIN BoardAsked(b, stream)
           /\ BoardAsked(b, stream)[MemberId(stream, x)] = MemberStatus(x)
<1>1. PICK k : k = MemberId(stream, x) OBVIOUS
<1>2. x \in Int /\ (x \in 1 .. b.chunks \/ (b.stress /\ x \in {0, -1})) BY MemberIs
<1>3. k \in {BoardChunk(stream, i) : i \in 1 .. b.chunks}
             \cup (IF b.stress THEN {Mint(stream, 401), Mint(stream, 402)} ELSE {})
  <2>1. CASE x \in 1 .. b.chunks
    <3>1. k = BoardChunk(stream, x) BY <1>1, <2>1 DEF MemberId
    <3>2. QED BY <2>1, <3>1
  <2>2. CASE b.stress /\ x \in {0, -1} BY <1>1, <2>2 DEF MemberId
  <2>3. QED BY <1>2, <2>1, <2>2
<1>4. k \in DOMAIN BoardAsked(b, stream) BY <1>3 DEF BoardAsked
<1>5. BoardAsked(b, stream)[k] =
        CASE k = Mint(stream, 401) -> "waiting_on_human"
          [] k = Mint(stream, 402) -> "running"
          [] OTHER -> BoardStatus((k - Mint(stream, 0)) \div 10)
  BY <1>3 DEF BoardAsked
<1>6. Mint(stream, 401) = 1000 * stream + 401 /\ Mint(stream, 402) = 1000 * stream + 402
      /\ Mint(stream, 0) = 1000 * stream + 0 BY DEF Mint
<1>7. Mint(stream, 401) # Mint(stream, 402) BY <1>6
<1>8. CASE x = 0 BY <1>1, <1>4, <1>5, <1>7, <1>8 DEF MemberId, MemberStatus
<1>9. CASE x = -1 BY <1>1, <1>4, <1>5, <1>7, <1>9 DEF MemberId, MemberStatus
<1>10. CASE x \notin {0, -1}
  <2>1. k = 1000 * stream + 10 * x BY <1>1, <1>10 DEF MemberId, Mint, BoardChunk
  <2>2. k # Mint(stream, 401) /\ k # Mint(stream, 402) BY <1>2, <1>6, <2>1
  <2>3. (k - Mint(stream, 0)) \div 10 = x
    <3>1. k - Mint(stream, 0) = 10 * x BY <1>2, <1>6, <2>1
    <3>2. (10 * x) \div 10 = x BY <1>2
    <3>3. QED BY <3>1, <3>2
  <2>4. BoardAsked(b, stream)[k] = BoardStatus(x) BY <1>5, <2>2, <2>3
  <2>5. QED BY <1>1, <1>4, <1>10, <2>4 DEF MemberStatus
<1>11. QED BY <1>8, <1>9, <1>10

(* Where a board's rows come from: its graph, a chunk composed for one of    *)
(* its members, an artifact on one's node, a further question of the one     *)
(* that waits, or a row that rests on nothing.                               *)
PlainOnBoard == {"runner_registrations", "usage_facts", "runner_local_pause_facts", "runner_pause_facts",
                 "event_log", "hub_event_log"}
OnBoard(b, stream, f) ==
    \/ f \in Rows(compose_graph(Mint(stream, 1), "default", Instant(stream, 0)))
    \/ f = NodeRow(Mint(stream, 1), "long", Instant(stream, 0)) /\ b.stress
    \/ \E x \in Members(b) : f \in Rows(MemberRows(b, stream, x))
    \/ f.table = "artifacts" /\ \E x \in Members(b) : /\ f.of = MemberId(stream, x)
                                                      /\ \E n \in MemberNodes(x) : f.node = NodeId(Mint(stream, 1), n)
    \/ f.table = "questions" /\ f.of = MemberId(stream, 0) /\ 0 \in Members(b)
    \/ f.table \in PlainOnBoard
AllOnBoard(b, stream, s) == IsSeq(s) /\ \A f \in Rows(s) : OnBoard(b, stream, f)
LEMMA BothOnBoard ==
    ASSUME NEW b, NEW stream, NEW s, NEW t, AllOnBoard(b, stream, s), AllOnBoard(b, stream, t)
    PROVE  AllOnBoard(b, stream, s \o t) /\ Rows(s \o t) = Rows(s) \cup Rows(t)
BY CatRows DEF AllOnBoard
LEMMA JoinOn ==
    ASSUME NEW b, NEW stream, NEW s, NEW t, AllOnBoard(b, stream, s), AllOnBoard(b, stream, t), NEW r, r = s \o t
    PROVE  AllOnBoard(b, stream, r) /\ Rows(s) \subseteq Rows(r) /\ Rows(t) \subseteq Rows(r)
BY BothOnBoard
LEMMA PlainOn ==
    ASSUME NEW b, NEW stream, NEW s, IsSeq(s), \A f \in Rows(s) : f.table \in PlainOnBoard
    PROVE  AllOnBoard(b, stream, s)
BY DEF AllOnBoard, OnBoard

(* A list by position is a sequence.                                         *)
LEMMA ListIs ==
    ASSUME NEW n \in Nat, NEW f, f = [i \in 1 .. n |-> f[i]]
    PROVE  IsSeq(f) /\ Len(f) = n /\ DOMAIN f = 1 .. n
<1>1. PICK S : S = {f[i] : i \in 1 .. n} OBVIOUS
<1>2. \A i \in 1 .. n : f[i] \in S BY <1>1
<1>3. f \in [1 .. n -> S] BY <1>2
<1>4. f \in Seq(S) BY <1>3
<1>5. Len(f) = n /\ DOMAIN f = 1 .. n BY <1>3
<1>6. QED BY <1>4, <1>5 DEF IsSeq

(* A member's rows, whichever verb's words compose them.                     *)
LEMMA MemberSeq ==
    ASSUME NEW b, b.chunks \in Int, NEW stream, NEW x \in Members(b)
    PROVE  AllOnBoard(b, stream, MemberRows(b, stream, x))
<1>1. PICK c, nodes : c = MemberCall(b, stream, x) /\ nodes = MemberNodes(x) OBVIOUS
<1>2. ~ChunkRefused(c, nodes) BY <1>1, MemberComposed
<1>3. IsSeq(MemberRows(b, stream, x)) BY <1>1, <1>2, ChunkRows DEF MemberRows
<1>4. QED BY <1>3 DEF AllOnBoard, OnBoard
LEMMA BoardChunkIs ==
    ASSUME NEW b, b.chunks \in Int, NEW stream, NEW i \in 1 .. b.chunks
    PROVE  BoardChunkRows(b, stream, i) = MemberRows(b, stream, i) /\ i \in Members(b)
<1>1. i \in Int /\ i # 0 /\ i # -1 /\ i \in Members(b) BY DEF Members
<1>2. MemberCall(b, stream, i) = [status |-> BoardStatus(i), node |-> None, runner |-> BoardRunner(b, stream, i),
                                  epoch |-> 1, mirrored |-> BoardMirrors(b, i)]
  BY <1>1 DEF MemberCall, MemberStatus
<1>3. MemberId(stream, i) = BoardChunk(stream, i) /\ MemberNodes(i) = {"build", "deliver"} /\ MemberDraw(i) = 10 * i + 1
  BY <1>1 DEF MemberId, MemberNodes, MemberDraw
<1>4. QED BY <1>1, <1>2, <1>3 DEF BoardChunkRows, MemberRows
LEMMA ChunksOn ==
    ASSUME NEW b, b.chunks \in Int, b.chunks >= 1, NEW stream,
           NEW s, s = FlattenSeq([i \in 1 .. b.chunks |-> BoardChunkRows(b, stream, i)])
    PROVE  /\ AllOnBoard(b, stream, s)
           /\ \A i \in 1 .. b.chunks : Rows(MemberRows(b, stream, i)) \subseteq Rows(s)
<1>1. PICK n, ss : n = b.chunks /\ ss = [i \in 1 .. n |-> BoardChunkRows(b, stream, i)] OBVIOUS
<1>2. n \in Nat /\ IsSeq(ss) /\ Len(ss) = n BY <1>1, ListIs
<1>3. \A i \in 1 .. n : ss[i] = MemberRows(b, stream, i) /\ i \in Members(b) BY <1>1, BoardChunkIs
<1>4. \A i \in 1 .. n : AllOnBoard(b, stream, ss[i]) BY <1>3, MemberSeq
<1>5. \A i \in 1 .. n : IsSeq(ss[i]) BY <1>4 DEF AllOnBoard
<1>6. s = FlattenSeq(ss) BY <1>1
<1>7. IsSeq(s) /\ Rows(s) = UNION {Rows(ss[i]) : i \in 1 .. n} BY <1>2, <1>5, <1>6, FlattenRows
<1>8. \A f \in Rows(s) : OnBoard(b, stream, f) BY <1>4, <1>7 DEF AllOnBoard
<1>9. \A i \in 1 .. n : Rows(MemberRows(b, stream, i)) \subseteq Rows(s) BY <1>3, <1>7
<1>10. QED BY <1>1, <1>7, <1>8, <1>9 DEF AllOnBoard
LEMMA RegistrationsOn ==
    ASSUME NEW b, b.chunks \in Int, b.chunks >= 1, NEW stream
    PROVE  AllOnBoard(b, stream, BoardRegistrations(b, stream))
<1>1. PICK at : at = Instant(stream, 0) OBVIOUS
<1>2. \A r, connected : Registration(r, connected, at).table \in PlainOnBoard
  BY DEF Registration, Fact, PlainOnBoard
<1>3. PICK n, ss, tt : /\ n = b.chunks /\ ss = [i \in 1 .. n |-> Registration(Mint(stream, 100 + i), TRUE, at)]
                       /\ tt = << Registration(Mint(stream, 201), TRUE, at), Registration(Mint(stream, 202), FALSE, at) >>
  OBVIOUS
<1>4. IsSeq(ss) /\ DOMAIN ss = 1 .. n BY <1>3, ListIs
<1>5. \A f \in Rows(ss) : f.table \in PlainOnBoard
  <2> SUFFICES ASSUME NEW i \in DOMAIN ss PROVE ss[i].table \in PlainOnBoard BY DEF Rows
  <2>1. ss[i] = Registration(Mint(stream, 100 + i), TRUE, at) BY <1>3, <1>4
  <2>2. PICK f, r : r = Mint(stream, 100 + i) /\ f = Registration(r, TRUE, at) OBVIOUS
  <2>3. f.table \in PlainOnBoard BY <1>2, <2>2
  <2>4. ss[i] = f BY <2>1, <2>2
  <2>5. QED BY <2>3, <2>4
<1>6. AllOnBoard(b, stream, ss) BY <1>4, <1>5, PlainOn
<1>7. IsSeq(tt) /\ \A f \in Rows(tt) : f.table \in PlainOnBoard
  <2>1. PICK f, g : f = Registration(Mint(stream, 201), TRUE, at) /\ g = Registration(Mint(stream, 202), FALSE, at)
    OBVIOUS
  <2>2. f.table \in PlainOnBoard /\ g.table \in PlainOnBoard BY <1>2, <2>1
  <2>3. tt = << f, g >> BY <1>3, <2>1
  <2>4. QED BY <2>2, <2>3, TupleRows
<1>8. AllOnBoard(b, stream, tt) BY <1>7, PlainOn
<1>9. AllOnBoard(b, stream, ss \o tt) BY <1>6, <1>8, BothOnBoard
<1>10. AllOnBoard(b, stream, << >>) BY PlainOn, TupleRows
<1>11. AllOnBoard(b, stream, << Registration(b.runner, TRUE, at) >>)
  <2>1. PICK f : f = Registration(b.runner, TRUE, at) OBVIOUS
  <2>2. f.table \in PlainOnBoard BY <1>2, <2>1
  <2>3. IsSeq(<< f >>) /\ \A g \in Rows(<< f >>) : g.table \in PlainOnBoard BY <2>2, TupleRows
  <2>4. AllOnBoard(b, stream, << f >>) BY <2>3, PlainOn
  <2>5. QED BY <2>1, <2>4
<1>12. BoardRegistrations(b, stream) = IF b.runner # None
                                       THEN IF b.register THEN << Registration(b.runner, TRUE, at) >> ELSE << >>
                                       ELSE ss \o tt
  BY <1>1, <1>3 DEF BoardRegistrations
<1>13. QED BY <1>9, <1>10, <1>11, <1>12

LEMMA UsageOn ==
    ASSUME NEW b, b.chunks \in Int, b.chunks >= 1, NEW stream
    PROVE  AllOnBoard(b, stream, BoardUsage(b, stream))
<1>1. PICK n, ss : /\ n = b.chunks
                   /\ ss = [i \in 1 .. n |->
                        IF i % 2 = 0 THEN << >>
                        ELSE compose_usage(BoardChunk(stream, i), BoardRunner(b, stream, i),
                                           NodeId(Mint(stream, 1), DefaultNode(BoardStatus(i))), 1, Instant(stream, 0))]
  OBVIOUS
<1>2. n \in Nat /\ IsSeq(ss) /\ Len(ss) = n BY <1>1, ListIs
<1>3. ASSUME NEW i \in 1 .. n PROVE IsSeq(ss[i]) /\ \A f \in Rows(ss[i]) : f.table \in PlainOnBoard
  <2>1. PICK c, r, m, at : /\ c = BoardChunk(stream, i) /\ r = BoardRunner(b, stream, i)
                           /\ m = NodeId(Mint(stream, 1), DefaultNode(BoardStatus(i))) /\ at = Instant(stream, 0)
    OBVIOUS
  <2>2. PICK u : u = compose_usage(c, r, m, 1, at) OBVIOUS
  <2>3. IsSeq(u) /\ \A f \in Rows(u) : f.table = "usage_facts" BY <2>2, PlainSeqs, PlainTables
  <2>4. ss[i] = << >> \/ ss[i] = u BY <1>1, <2>1, <2>2
  <2>5. QED BY <2>3, <2>4, TupleRows DEF PlainOnBoard
<1>4. BoardUsage(b, stream) = FlattenSeq(ss) BY <1>1 DEF BoardUsage
<1>5. IsSeq(FlattenSeq(ss)) /\ Rows(FlattenSeq(ss)) = UNION {Rows(ss[i]) : i \in 1 .. n} BY <1>2, <1>3, FlattenRows
<1>6. PICK s : s = FlattenSeq(ss) OBVIOUS
<1>7. IsSeq(s) /\ \A f \in Rows(s) : f.table \in PlainOnBoard BY <1>3, <1>5, <1>6
<1>8. QED BY <1>4, <1>6, <1>7, PlainOn

(* The artifacts of a board are on chunks it holds and nodes of its graph.   *)
LEMMA ArtifactOn ==
    ASSUME NEW b, NEW stream, NEW x \in Members(b), NEW n \in MemberNodes(x), NEW id, NEW seq,
           NEW s, s = compose_artifact(MemberId(stream, x), id, NodeId(Mint(stream, 1), n), 1, seq, Instant(stream, 0))
    PROVE  AllOnBoard(b, stream, s)
<1>1. PICK c, node, at : c = MemberId(stream, x) /\ node = NodeId(Mint(stream, 1), n) /\ at = Instant(stream, 0) OBVIOUS
<1>2. s = compose_artifact(c, id, node, 1, seq, at) BY <1>1
<1>3. IsSeq(s) /\ \E f : Rows(s) = {f} /\ f.table = "artifacts" /\ f.of = c /\ f.node = node BY <1>2, ArtifactIs
<1>4. QED BY <1>1, <1>3 DEF AllOnBoard, OnBoard
LEMMA ArtifactsOn ==
    ASSUME NEW b, b.chunks \in Int, b.chunks >= 1, NEW stream
    PROVE  AllOnBoard(b, stream, BoardArtifacts(b, stream))
<1> DEFINE row(i, n, seq) == compose_artifact(BoardChunk(stream, i), Mint(stream, 10 * i + seq),
                                              NodeId(Mint(stream, 1), n), 1, seq, Instant(stream, 0))
<1>1. ASSUME NEW i \in 1 .. b.chunks, NEW n \in {"build", "deliver"}, NEW seq PROVE AllOnBoard(b, stream, row(i, n, seq))
  <2>1. i # 0 /\ i # -1 /\ i \in Members(b) BY DEF Members
  <2>2. MemberId(stream, i) = BoardChunk(stream, i) /\ n \in MemberNodes(i) BY <2>1 DEF MemberId, MemberNodes
  <2>3. PICK s, id : id = Mint(stream, 10 * i + seq) /\ s = row(i, n, seq) OBVIOUS
  <2>4. s = compose_artifact(MemberId(stream, i), id, NodeId(Mint(stream, 1), n), 1, seq, Instant(stream, 0))
    BY <2>2, <2>3
  <2>5. AllOnBoard(b, stream, s) BY <2>1, <2>2, <2>4, ArtifactOn
  <2>6. QED BY <2>3, <2>5
<1>2. AllOnBoard(b, stream, << >>) BY PlainOn, TupleRows
<1>3. PICK r1, r4, r5, d5 : /\ r1 = row(1, "build", 1) /\ r4 = row(4, "build", 1)
                            /\ r5 = row(5, "build", 1) /\ d5 = row(5, "deliver", 2)
  OBVIOUS
<1>4. PICK w, d : /\ w = (IF \E i \in 1 .. b.chunks : BoardStatus(i) = "waiting_on_human" THEN r4 ELSE << >>)
                  /\ d = (IF \E i \in 1 .. b.chunks : BoardStatus(i) = "done" THEN r5 \o d5 ELSE << >>)
  OBVIOUS
<1>5. BoardArtifacts(b, stream) = r1 \o w \o d BY <1>3, <1>4 DEF BoardArtifacts
<1> HIDE DEF row
<1>6. AllOnBoard(b, stream, r1)
  <2>1. 1 \in 1 .. b.chunks OBVIOUS
  <2>2. QED BY <1>1, <1>3, <2>1
<1>7. AllOnBoard(b, stream, w)
  <2>1. CASE \E i \in 1 .. b.chunks : BoardStatus(i) = "waiting_on_human"
    <3>1. PICK i \in 1 .. b.chunks : BoardStatus(i) = "waiting_on_human" BY <2>1
    <3>2. i >= 4 BY <3>1, BoardStatusIs
    <3>3. 4 \in 1 .. b.chunks BY <3>2
    <3>4. QED BY <1>1, <1>3, <1>4, <2>1, <3>3
  <2>2. CASE ~ \E i \in 1 .. b.chunks : BoardStatus(i) = "waiting_on_human" BY <1>2, <1>4, <2>2
  <2>3. QED BY <2>1, <2>2
<1>8. AllOnBoard(b, stream, d)
  <2>1. CASE \E i \in 1 .. b.chunks : BoardStatus(i) = "done"
    <3>1. PICK i \in 1 .. b.chunks : BoardStatus(i) = "done" BY <2>1
    <3>2. i >= 5 BY <3>1, BoardStatusIs
    <3>3. 5 \in 1 .. b.chunks BY <3>2
    <3>4. AllOnBoard(b, stream, r5) /\ AllOnBoard(b, stream, d5) BY <1>1, <1>3, <3>3
    <3>5. QED BY <1>4, <2>1, <3>4, BothOnBoard
  <2>2. CASE ~ \E i \in 1 .. b.chunks : BoardStatus(i) = "done" BY <1>2, <1>4, <2>2
  <2>3. QED BY <2>1, <2>2
<1>9. PICK rw : rw = r1 \o w OBVIOUS
<1>10. AllOnBoard(b, stream, rw) BY <1>6, <1>7, <1>9, BothOnBoard
<1>11. AllOnBoard(b, stream, rw \o d) BY <1>8, <1>10, BothOnBoard
<1>12. QED BY <1>5, <1>9, <1>11

LEMMA EventOn ==
    ASSUME NEW b, NEW stream, NEW kind, kind \notin HubKinds, NEW r, NEW chunk, NEW at
    PROVE  AllOnBoard(b, stream, compose_event(kind, r, chunk, at))
<1>1. PICK f : f = [Fact("event_log", chunk, None, at) EXCEPT !.runner = r, !.tag = kind] OBVIOUS
<1>2. compose_event(kind, r, chunk, at) = << f >> BY <1>1 DEF compose_event
<1>3. f.table = "event_log" BY <1>1 DEF Fact
<1>4. IsSeq(<< f >>) /\ \A g \in Rows(<< f >>) : g.table \in PlainOnBoard BY <1>3, TupleRows DEF PlainOnBoard
<1>5. QED BY <1>2, <1>4, PlainOn
LEMMA EventsOn ==
    ASSUME NEW b, NEW stream
    PROVE  AllOnBoard(b, stream, BoardEvents(b, stream))
<1>1. PICK at, first, third, chunk : /\ at = Instant(stream, 0) /\ first = BoardRunner(b, stream, 1)
                                     /\ third = BoardRunner(b, stream, 3) /\ chunk = BoardChunk(stream, 3)
  OBVIOUS
<1>2. PICK p, q, e, s : /\ p = compose_event("runner.registered", first, None, at)
                        /\ q = compose_event("runner.paused", first, None, at)
                        /\ e = (IF b.chunks >= 3 THEN compose_event("chunk.escalated", third, chunk, at) ELSE << >>)
                        /\ s = compose_event("scenario.seeded", None, None, at)
  OBVIOUS
<1>3. BoardEvents(b, stream) = p \o q \o e \o s BY <1>1, <1>2 DEF BoardEvents
<1>4. /\ "runner.registered" \notin HubKinds /\ "runner.paused" \notin HubKinds
      /\ "chunk.escalated" \notin HubKinds /\ "scenario.seeded" \notin HubKinds
  BY DEF HubKinds
<1>5. AllOnBoard(b, stream, << >>) BY PlainOn, TupleRows
<1>6. AllOnBoard(b, stream, compose_event("chunk.escalated", third, chunk, at)) BY <1>4, EventOn
<1>7. /\ AllOnBoard(b, stream, p) /\ AllOnBoard(b, stream, q) /\ AllOnBoard(b, stream, s)
  BY <1>2, <1>4, EventOn
<1>8. AllOnBoard(b, stream, e) BY <1>2, <1>5, <1>6
<1>9. PICK pq, pqe : pq = p \o q /\ pqe = pq \o e OBVIOUS
<1>10. AllOnBoard(b, stream, pq) BY <1>7, <1>9, BothOnBoard
<1>11. AllOnBoard(b, stream, pqe) BY <1>8, <1>9, <1>10, BothOnBoard
<1>12. AllOnBoard(b, stream, pqe \o s) BY <1>7, <1>11, BothOnBoard
<1>13. QED BY <1>3, <1>9, <1>12

LEMMA AskOn ==
    ASSUME NEW b, b.stress, NEW stream, NEW r, NEW id, NEW at,
           NEW s, s = compose_question([chunk |-> Mint(stream, 401), runner |-> r, trail |-> "open"], id, at)
    PROVE  AllOnBoard(b, stream, s)
<1>1. PICK chunk : chunk = Mint(stream, 401) OBVIOUS
<1>2. PICK q : q = [chunk |-> chunk, runner |-> r, trail |-> "open"] OBVIOUS
<1>3. q.trail = "open" /\ q.chunk = chunk /\ s = compose_question(q, id, at) BY <1>1, <1>2
<1>4. PICK f : f = [Fact("questions", q.chunk, id, at) EXCEPT !.runner = q.runner, !.epoch = 1] OBVIOUS
<1>5. s = << f >> BY <1>3, <1>4 DEF compose_question
<1>6. f.table = "questions" /\ f.of = chunk BY <1>3, <1>4 DEF Fact
<1>7. MemberId(stream, 0) = chunk /\ 0 \in Members(b) BY <1>1 DEF MemberId, Members
<1>8. QED BY <1>5, <1>6, <1>7, TupleRows DEF AllOnBoard, OnBoard
LEMMA StressOn ==
    ASSUME NEW b, b.chunks \in Int, b.stress, NEW stream
    PROVE  /\ AllOnBoard(b, stream, StressRows(stream))
           /\ \A x \in {0, -1} : Rows(MemberRows(b, stream, x)) \subseteq Rows(StressRows(stream))
           /\ NodeRow(Mint(stream, 1), "long", Instant(stream, 0)) \in Rows(StressRows(stream))
<1>1. PICK graph, at, r : graph = Mint(stream, 1) /\ at = Instant(stream, 0) /\ r = Mint(stream, 400) OBVIOUS
<1>2. 0 \in Members(b) /\ -1 \in Members(b) /\ 0 # -1 BY DEF Members
<1>3. PICK w, v : w = MemberRows(b, stream, 0) /\ v = MemberRows(b, stream, -1) OBVIOUS
<1>4. w = compose_chunk([status |-> "waiting_on_human", node |-> None, runner |-> r, epoch |-> 1, mirrored |-> FALSE],
                        Mint(stream, 401), graph, {"build", "deliver"}, stream, 411)
  <2>1. MemberCall(b, stream, 0) =
          [status |-> "waiting_on_human", node |-> None, runner |-> r, epoch |-> 1, mirrored |-> FALSE]
    BY <1>1, <1>2 DEF MemberCall, MemberStatus
  <2>2. MemberId(stream, 0) = Mint(stream, 401) /\ MemberNodes(0) = {"build", "deliver"} /\ MemberDraw(0) = 411
    BY <1>2 DEF MemberId, MemberNodes, MemberDraw
  <2>3. QED BY <1>1, <1>3, <2>1, <2>2 DEF MemberRows
<1>5. v = compose_chunk([status |-> "running", node |-> "long", runner |-> r, epoch |-> 1, mirrored |-> FALSE],
                        Mint(stream, 402), graph, {"build", "deliver", "long"}, stream, 421)
  <2>1. MemberCall(b, stream, -1) =
          [status |-> "running", node |-> "long", runner |-> r, epoch |-> 1, mirrored |-> FALSE]
    BY <1>1, <1>2 DEF MemberCall, MemberStatus
  <2>2. MemberId(stream, -1) = Mint(stream, 402) /\ MemberNodes(-1) = {"build", "deliver", "long"} /\ MemberDraw(-1) = 421
    BY <1>2 DEF MemberId, MemberNodes, MemberDraw
  <2>3. QED BY <1>1, <1>3, <2>1, <2>2 DEF MemberRows
<1>6. PICK g, n, p, q, u : /\ g = Registration(r, TRUE, at) /\ n = NodeRow(graph, "long", at)
                           /\ p = compose_question([chunk |-> Mint(stream, 401), runner |-> r, trail |-> "open"], Mint(stream, 403), at)
                           /\ q = compose_question([chunk |-> Mint(stream, 401), runner |-> r, trail |-> "open"], Mint(stream, 404), at)
                           /\ u = compose_artifact(Mint(stream, 402), Mint(stream, 405), NodeId(graph, "long"), 1, 1, at)
  BY ZenonT(60)
<1>7. StressRows(stream) = << g >> \o w \o p \o q \o << n >> \o v \o u BY <1>1, <1>4, <1>5, <1>6 DEF StressRows
<1>8. AllOnBoard(b, stream, << g >>)
  <2>1. g.table \in PlainOnBoard BY <1>6 DEF Registration, Fact, PlainOnBoard
  <2>2. IsSeq(<< g >>) /\ \A f \in Rows(<< g >>) : f.table \in PlainOnBoard BY <2>1, TupleRows
  <2>3. QED BY <2>2, PlainOn
<1>9. AllOnBoard(b, stream, w) /\ AllOnBoard(b, stream, v) BY <1>2, <1>3, MemberSeq
<1>10. AllOnBoard(b, stream, p) /\ AllOnBoard(b, stream, q) BY <1>6, AskOn
<1>22. PICK m : m = << n >> OBVIOUS
<1>11. AllOnBoard(b, stream, m) /\ Rows(m) = {n} BY <1>1, <1>6, <1>22, TupleRows DEF AllOnBoard, OnBoard
<1>12. AllOnBoard(b, stream, u)
  <2>1. MemberId(stream, -1) = Mint(stream, 402) /\ "long" \in MemberNodes(-1) BY <1>2 DEF MemberId, MemberNodes
  <2>2. PICK id, n1 : id = Mint(stream, 405) /\ n1 = "long" OBVIOUS
  <2>3. u = compose_artifact(MemberId(stream, -1), id, NodeId(Mint(stream, 1), n1), 1, 1, Instant(stream, 0))
    BY <1>1, <1>6, <2>1, <2>2
  <2>4. QED BY <1>2, <2>1, <2>2, <2>3, ArtifactOn
<1>13. PICK s1, s2, s3, s4, s5, s6 : /\ s1 = << g >> \o w /\ s2 = s1 \o p /\ s3 = s2 \o q /\ s4 = s3 \o m
                                     /\ s5 = s4 \o v /\ s6 = s5 \o u
  OBVIOUS
<1>14. AllOnBoard(b, stream, s1) /\ Rows(w) \subseteq Rows(s1) BY <1>8, <1>9, <1>13, JoinOn
<1>15. AllOnBoard(b, stream, s2) /\ Rows(w) \subseteq Rows(s2) BY <1>10, <1>13, <1>14, JoinOn
<1>16. AllOnBoard(b, stream, s3) /\ Rows(w) \subseteq Rows(s3) BY <1>10, <1>13, <1>15, JoinOn
<1>17. AllOnBoard(b, stream, s4) /\ Rows(w) \subseteq Rows(s4) /\ n \in Rows(s4)
  <2>1. AllOnBoard(b, stream, m) /\ s4 = s3 \o m BY <1>11, <1>13
  <2>2. AllOnBoard(b, stream, s4) /\ Rows(s3) \subseteq Rows(s4) /\ Rows(m) \subseteq Rows(s4)
    BY <1>16, <2>1, JoinOn
  <2>3. QED BY <1>11, <1>16, <2>2
<1>18. AllOnBoard(b, stream, s5) /\ Rows(w) \subseteq Rows(s5) /\ n \in Rows(s5) /\ Rows(v) \subseteq Rows(s5)
  BY <1>9, <1>13, <1>17, JoinOn
<1>19. AllOnBoard(b, stream, s6) /\ Rows(w) \subseteq Rows(s6) /\ n \in Rows(s6) /\ Rows(v) \subseteq Rows(s6)
  BY <1>12, <1>13, <1>18, JoinOn
<1>20. StressRows(stream) = s6 BY <1>7, <1>13, <1>22
<1>21. QED BY <1>1, <1>3, <1>6, <1>19, <1>20

(* The shape of a board: its rows are all placed, and its graph, its         *)
(* members and the node they need are among them.                            *)
BoardShape(b, stream, B) ==
    /\ AllOnBoard(b, stream, B)
    /\ Rows(compose_graph(Mint(stream, 1), "default", Instant(stream, 0))) \subseteq Rows(B)
    /\ \A x \in Members(b) : Rows(MemberRows(b, stream, x)) \subseteq Rows(B)
    /\ b.stress => NodeRow(Mint(stream, 1), "long", Instant(stream, 0)) \in Rows(B)
LEMMA BoardIs ==
    ASSUME NEW b, b.chunks \in Int, b.chunks >= 1, NEW stream \in Int
    PROVE  BoardShape(b, stream, compose_board_scenario(b, stream))
<1>1. PICK g, c, r, u, a, p, e, t :
        /\ g = compose_graph(Mint(stream, 1), "default", Instant(stream, 0))
        /\ c = FlattenSeq([i \in 1 .. b.chunks |-> BoardChunkRows(b, stream, i)])
        /\ r = BoardRegistrations(b, stream) /\ u = BoardUsage(b, stream) /\ a = BoardArtifacts(b, stream)
        /\ p = compose_runner_pause(BoardRunner(b, stream, 1), TRUE, Instant(stream, 0))
        /\ e = BoardEvents(b, stream) /\ t = (IF b.stress THEN StressRows(stream) ELSE << >>)
  OBVIOUS
<1>2. compose_board_scenario(b, stream) = g \o c \o r \o u \o a \o p \o e \o t
  <2>1. ~(b.chunks < 1) OBVIOUS
  <2>2. compose_board_scenario(b, stream) =
          compose_graph(Mint(stream, 1), "default", Instant(stream, 0))
          \o FlattenSeq([i \in 1 .. b.chunks |-> BoardChunkRows(b, stream, i)])
          \o BoardRegistrations(b, stream) \o BoardUsage(b, stream) \o BoardArtifacts(b, stream)
          \o compose_runner_pause(BoardRunner(b, stream, 1), TRUE, Instant(stream, 0))
          \o BoardEvents(b, stream) \o (IF b.stress THEN StressRows(stream) ELSE << >>)
    BY <2>1, Zenon DEF compose_board_scenario
  <2>3. QED BY <1>1, <2>2
<1>3. AllOnBoard(b, stream, g)
  <2>1. PICK graph, at : graph = Mint(stream, 1) /\ at = Instant(stream, 0) OBVIOUS
  <2>2. graph \in Int BY <2>1, MintIs
  <2>3. g = compose_graph(graph, "default", at) BY <1>1, <2>1
  <2>4. IsSeq(g) BY <2>2, <2>3, GraphRows
  <2>5. QED BY <1>1, <2>4 DEF AllOnBoard, OnBoard
<1>4. AllOnBoard(b, stream, c) /\ \A i \in 1 .. b.chunks : Rows(MemberRows(b, stream, i)) \subseteq Rows(c)
  BY <1>1, ChunksOn
<1>5. AllOnBoard(b, stream, r) /\ AllOnBoard(b, stream, u) /\ AllOnBoard(b, stream, a) /\ AllOnBoard(b, stream, e)
  BY <1>1, RegistrationsOn, UsageOn, ArtifactsOn, EventsOn
<1>6. AllOnBoard(b, stream, p)
  <2>1. IsSeq(p) /\ \A f \in Rows(p) : f.table \in {"runner_local_pause_facts", "runner_pause_facts"}
    BY <1>1, PlainSeqs, PlainTables
  <2>2. QED BY <2>1, PlainOn DEF PlainOnBoard
<1>7. /\ AllOnBoard(b, stream, t)
      /\ b.stress => /\ \A x \in {0, -1} : Rows(MemberRows(b, stream, x)) \subseteq Rows(t)
                     /\ NodeRow(Mint(stream, 1), "long", Instant(stream, 0)) \in Rows(t)
  <2>1. CASE b.stress BY <1>1, <2>1, StressOn
  <2>2. CASE ~b.stress
    <3>1. AllOnBoard(b, stream, << >>) BY PlainOn, TupleRows
    <3>2. QED BY <1>1, <2>2, <3>1
  <2>3. QED BY <2>1, <2>2
<1>8. PICK s1, s2, s3, s4, s5, s6, s7 : /\ s1 = g \o c /\ s2 = s1 \o r /\ s3 = s2 \o u /\ s4 = s3 \o a
                                        /\ s5 = s4 \o p /\ s6 = s5 \o e /\ s7 = s6 \o t
  OBVIOUS
<1>9. AllOnBoard(b, stream, s1) /\ Rows(g) \cup Rows(c) \subseteq Rows(s1) BY <1>3, <1>4, <1>8, JoinOn
<1>10. AllOnBoard(b, stream, s2) /\ Rows(g) \cup Rows(c) \subseteq Rows(s2) BY <1>5, <1>8, <1>9, JoinOn
<1>11. AllOnBoard(b, stream, s3) /\ Rows(g) \cup Rows(c) \subseteq Rows(s3) BY <1>5, <1>8, <1>10, JoinOn
<1>12. AllOnBoard(b, stream, s4) /\ Rows(g) \cup Rows(c) \subseteq Rows(s4) BY <1>5, <1>8, <1>11, JoinOn
<1>13. AllOnBoard(b, stream, s5) /\ Rows(g) \cup Rows(c) \subseteq Rows(s5) BY <1>6, <1>8, <1>12, JoinOn
<1>14. AllOnBoard(b, stream, s6) /\ Rows(g) \cup Rows(c) \subseteq Rows(s6) BY <1>5, <1>8, <1>13, JoinOn
<1>15. AllOnBoard(b, stream, s7) /\ Rows(g) \cup Rows(c) \cup Rows(t) \subseteq Rows(s7)
  <2>1. AllOnBoard(b, stream, s7) /\ Rows(s6) \subseteq Rows(s7) /\ Rows(t) \subseteq Rows(s7)
    <3>1. AllOnBoard(b, stream, t) /\ s7 = s6 \o t BY <1>7, <1>8
    <3>2. QED BY <1>14, <3>1, JoinOn
  <2>2. QED BY <1>14, <2>1
<1>16. compose_board_scenario(b, stream) = s7 BY <1>2, <1>8
<1>17. ASSUME NEW x \in Members(b) PROVE Rows(MemberRows(b, stream, x)) \subseteq Rows(s7)
  <2>1. x \in 1 .. b.chunks \/ (b.stress /\ x \in {0, -1}) BY MemberIs
  <2>2. CASE x \in 1 .. b.chunks BY <1>4, <1>15, <2>2
  <2>3. CASE b.stress /\ x \in {0, -1} BY <1>7, <1>15, <2>3
  <2>4. QED BY <2>1, <2>2, <2>3
<1>18. b.stress => NodeRow(Mint(stream, 1), "long", Instant(stream, 0)) \in Rows(s7) BY <1>7, <1>15
<1>19. BoardShape(b, stream, s7) BY <1>1, <1>15, <1>17, <1>18 DEF BoardShape
<1>20. QED BY <1>16, <1>19

(* The rows of a member, and which of a board's rows are about it.           *)
LEMMA MemberTables ==
    ASSUME NEW b, b.chunks \in Int, NEW stream, NEW x \in Members(b)
    PROVE  /\ Fact("chunks", Mint(stream, 1), MemberId(stream, x), Instant(stream, 0)) \in Rows(MemberRows(b, stream, x))
           /\ \A f \in Rows(MemberRows(b, stream, x)) :
                 /\ f.table \in {"chunks", "chunk_promoted", "lease_facts", "epoch_owners", "transitions", "chunk_stopped",
                                 "escalations", "questions", "chunk_pause_facts", "route_created"}
                 /\ f.table # "chunks" => f.of = MemberId(stream, x)
<1>1. PICK c, chunk, graph, nodes, draw, at, id :
        /\ c = MemberCall(b, stream, x) /\ chunk = MemberId(stream, x) /\ graph = Mint(stream, 1)
        /\ nodes = MemberNodes(x) /\ draw = MemberDraw(x) /\ at = Stamps(stream) /\ id = Mint(stream, draw)
  OBVIOUS
<1>2. PICK R : R = compose_chunk(c, chunk, graph, nodes, stream, draw) OBVIOUS
<1>3. MemberRows(b, stream, x) = R BY <1>1, <1>2 DEF MemberRows
<1>4. ~ChunkRefused(c, nodes) /\ c.status \in Statuses BY <1>1, MemberComposed
<1>5. Rows(R) = {ChunkRow(graph, chunk, at)} \cup Rows(Promoted(c, chunk, at))
                \cup Rows(Leased(c, chunk, at)) \cup Rows(Moved(c, chunk, graph, id, at))
                \cup Rows(Held(c, chunk, graph, id, at)) \cup Rows(Routed(c, chunk, id, at))
  BY <1>1, <1>2, <1>4, ChunkRows
<1>6. PartsHang(c, chunk, graph, id, at) BY <1>4, PartTables
<1>7. PICK k : k = ChunkRow(graph, chunk, at) OBVIOUS
<1>8. at[0] = Instant(stream, 0) BY <1>1 DEF Stamps
<1>9. k = Fact("chunks", graph, chunk, Instant(stream, 0)) BY <1>7, <1>8 DEF ChunkRow
<1>10. k.table = "chunks" BY <1>9, FactIs
<1>11. ASSUME NEW f \in Rows(R)
       PROVE  /\ f.table \in {"chunks", "chunk_promoted", "lease_facts", "epoch_owners", "transitions", "chunk_stopped",
                              "escalations", "questions", "chunk_pause_facts", "route_created"}
              /\ f.table # "chunks" => f.of = chunk
  <2>1. CASE f = k BY <1>10, <2>1
  <2>2. CASE f # k BY <1>5, <1>6, <1>7, <2>2 DEF PartsHang
  <2>3. QED BY <2>1, <2>2
<1>12. QED BY <1>1, <1>3, <1>5, <1>7, <1>9, <1>11
LEMMA OthersApart ==
    ASSUME NEW b, b.chunks \in Int, NEW stream \in Nat, NEW x \in Members(b), NEW f, OnBoard(b, stream, f)
    PROVE  /\ f.table # "question_answers" /\ f.table # "tenants"
           /\ f.table \in StatusFacts /\ f.of = MemberId(stream, x) =>
                \/ f \in Rows(MemberRows(b, stream, x))
                \/ f.table = "questions" /\ MemberStatus(x) = "waiting_on_human"
<1>1. CASE f \in Rows(compose_graph(Mint(stream, 1), "default", Instant(stream, 0)))
  <2>1. PICK graph, at, R : /\ graph = Mint(stream, 1) /\ at = Instant(stream, 0)
                            /\ R = compose_graph(graph, "default", at) OBVIOUS
  <2>2. graph \in Int BY <2>1, MintIs
  <2>3. f \in Rows(R) BY <1>1, <2>1
  <2>4. \E g, c, d : /\ Rows(R) = {g, c, d} /\ g.table = "graphs" /\ c.table = "graph_nodes" /\ d.table = "graph_nodes"
    BY <2>1, <2>2, GraphRows
  <2>5. f.table \in {"graphs", "graph_nodes"} BY <2>3, <2>4
  <2>6. QED BY <2>5 DEF StatusFacts
<1>2. CASE f = NodeRow(Mint(stream, 1), "long", Instant(stream, 0))
  <2>1. f.table = "graph_nodes" BY <1>2 DEF NodeRow, Fact
  <2>2. QED BY <2>1 DEF StatusFacts
<1>3. CASE \E y \in Members(b) : f \in Rows(MemberRows(b, stream, y))
  <2>1. PICK y \in Members(b) : f \in Rows(MemberRows(b, stream, y)) BY <1>3
  <2>2. PICK u, m, n : u = Rows(MemberRows(b, stream, y)) /\ m = MemberId(stream, y) /\ n = MemberId(stream, x) OBVIOUS
  <2>3. f \in u BY <2>1, <2>2
  <2>4. /\ f.table \in {"chunks", "chunk_promoted", "lease_facts", "epoch_owners", "transitions", "chunk_stopped",
                        "escalations", "questions", "chunk_pause_facts", "route_created"}
        /\ f.table # "chunks" => f.of = m
    BY <2>1, <2>2, MemberTables
  <2>5. f.table \in StatusFacts => f.of = m BY <2>4 DEF StatusFacts
  <2>6. m = n => y = x BY <2>2, MembersApart
  <2>7. f.table \in StatusFacts /\ f.of = n => f \in Rows(MemberRows(b, stream, x)) BY <2>1, <2>5, <2>6
  <2>8. f.table # "question_answers" /\ f.table # "tenants" BY <2>4
  <2>9. QED BY <2>2, <2>7, <2>8
<1>4. CASE f.table = "artifacts" BY <1>4 DEF StatusFacts
<1>5. CASE f.table = "questions" /\ f.of = MemberId(stream, 0) /\ 0 \in Members(b)
  <2>1. PICK m, n, z : m = MemberId(stream, z) /\ n = MemberId(stream, x) /\ z = 0 OBVIOUS
  <2>2. z \in Members(b) BY <1>5, <2>1
  <2>3. m = n => z = x BY <2>1, <2>2, MembersApart
  <2>4. f.of = n => MemberStatus(x) = "waiting_on_human" BY <1>5, <2>1, <2>3 DEF MemberStatus
  <2>5. QED BY <1>5, <2>1, <2>4
<1>6. CASE f.table \in PlainOnBoard BY <1>6 DEF PlainOnBoard, StatusFacts
<1>7. QED BY <1>1, <1>2, <1>3, <1>4, <1>5, <1>6 DEF OnBoard

(* Each member of a board derives what it was composed for.                  *)
LEMMA MemberDerives ==
    ASSUME NEW b, b.chunks \in Int, NEW stream \in Nat, NEW B, BoardShape(b, stream, B), NEW x \in Members(b),
           NEW k, k.id = MemberId(stream, x), k.of = Mint(stream, 1)
    PROVE  Derives(Rows(B), k, MemberStatus(x))
<1>1. PICK c, chunk, graph, nodes, draw, RB :
        /\ c = MemberCall(b, stream, x) /\ chunk = MemberId(stream, x) /\ graph = Mint(stream, 1)
        /\ nodes = MemberNodes(x) /\ draw = MemberDraw(x) /\ RB = Rows(B)
  OBVIOUS
<1>2. PICK R : R = Rows(compose_chunk(c, chunk, graph, nodes, stream, draw)) OBVIOUS
<1>3. R = Rows(MemberRows(b, stream, x)) BY <1>1, <1>2 DEF MemberRows
<1>4. /\ ~ChunkRefused(c, nodes) /\ c.status \in Statuses /\ c.status = MemberStatus(x)
      /\ (c.mirrored => c.status \in MirroredStatuses) /\ nodes \subseteq Names
  BY <1>1, MemberComposed
<1>5. R \subseteq RB BY <1>1, <1>3 DEF BoardShape
<1>6. \A f \in RB : OnBoard(b, stream, f) BY <1>1 DEF BoardShape, AllOnBoard
<1>7. \A f \in RB : /\ f.table # "question_answers"
                    /\ f.table \in StatusFacts /\ f.of = chunk =>
                          f \in R \/ (f.table = "questions" /\ c.status = "waiting_on_human")
  BY <1>1, <1>3, <1>4, <1>6, OthersApart
<1>8. graph \in Int BY <1>1, MintIs
<1>9. \A q \in R : q.table = "questions" => q.of = chunk
  <2>1. \A f \in Rows(MemberRows(b, stream, x)) : f.table # "chunks" => f.of = MemberId(stream, x) BY MemberTables
  <2>2. QED BY <1>1, <1>3, <2>1
<1>10. ASSUME NEW F, NewTo(F, RB, k) PROVE DerivedStatus(F \cup RB, k.id) = c.status
  <2>1. PICK G : G = F \cup RB OBVIOUS
  <2>2. R \subseteq G BY <1>5, <2>1
  <2>3. StatusFacts \subseteq ChunkFacts BY DEF StatusFacts, ChunkFacts
  <2>4. \A f \in F : f.table \in ChunkFacts => f.of # chunk BY <1>1, <1>10 DEF NewTo
  <2>5. Only(G, R, chunk, c.status) BY <1>7, <2>1, <2>3, <2>4 DEF Only
  <2>6. Unasked(G, R)
    <3>1. ASSUME NEW q \in R, NEW a \in G, q.table = "questions", a.table = "question_answers" PROVE a.of # q.id
      <4>1. a \in F BY <1>7, <2>1, <3>1
      <4>2. q \in RB /\ q.of = k.id BY <1>1, <1>5, <1>9, <3>1
      <4>3. QED BY <1>10, <3>1, <4>1, <4>2 DEF NewTo
    <3>2. QED BY <3>1 DEF Unasked
  <2>7. NodesNamed(G) BY <1>10, <2>1 DEF NewTo, NodesNamed
  <2>8. Delivers(G, graph) BY <1>1, <1>10, <2>1 DEF NewTo, Delivers
  <2>9. DerivedStatus(G, chunk) = c.status BY <1>2, <1>4, <1>8, <2>2, <2>5, <2>6, <2>7, <2>8, ChunkDerives
  <2>10. QED BY <1>1, <2>1, <2>9
<1>11. QED BY <1>1, <1>4, <1>10 DEF Derives

(* A board fits any hub: what its rows rest on lands with them.              *)
LEMMA MemberGrounded ==
    ASSUME NEW b, b.chunks \in Int, NEW stream \in Nat, NEW x \in Members(b), NEW t, NEW K,
           OnGraph(K, Mint(stream, 1), MemberNodes(x), t),
           \A f \in Rows(MemberRows(b, stream, x)) : Entry(f, t) \in K,
           NEW f \in Rows(MemberRows(b, stream, x))
    PROVE  /\ Grounded(Entry(f, t), K)
           /\ f.table = "chunks" => f = Fact("chunks", Mint(stream, 1), MemberId(stream, x), Instant(stream, 0))
<1>1. PICK c, chunk, graph, nodes, draw :
        /\ c = MemberCall(b, stream, x) /\ chunk = MemberId(stream, x) /\ graph = Mint(stream, 1)
        /\ nodes = MemberNodes(x) /\ draw = MemberDraw(x)
  OBVIOUS
<1>2. PICK R : R = compose_chunk(c, chunk, graph, nodes, stream, draw) OBVIOUS
<1>3. R = MemberRows(b, stream, x) BY <1>1, <1>2 DEF MemberRows
<1>4. ~ChunkRefused(c, nodes) /\ c.status \in Statuses /\ nodes \subseteq Names BY <1>1, MemberComposed
<1>5. \A g \in Rows(R) : \E e \in K : e.fact = g
  <2> TAKE g \in Rows(R)
  <2>1. PICK e : e = Entry(g, t) OBVIOUS
  <2>2. e \in K /\ e.fact = g BY <1>3, <2>1 DEF Entry
  <2>3. QED BY <2>2
<1>6. OnGraph(K, graph, nodes, t) /\ f \in Rows(R) BY <1>1, <1>3
<1>7. Grounded(Entry(f, t), K) /\ (f.table = "chunks" => f = Fact("chunks", graph, chunk, Instant(stream, 0)))
  BY <1>2, <1>4, <1>5, <1>6, ChunkGrounded
<1>8. QED BY <1>1, <1>7
ChunkThere(K, chunk, graph, t) ==
    \E k \in K : k.fact.table = "chunks" /\ k.fact.id = chunk /\ k.fact.of = graph /\ k.tenant = t
LEMMA MemberChunk ==
    ASSUME NEW b, b.chunks \in Int, NEW stream, NEW x \in Members(b), NEW t, NEW K, NEW M,
           M = Rows(MemberRows(b, stream, x)), \A f \in M : Entry(f, t) \in K
    PROVE  ChunkThere(K, MemberId(stream, x), Mint(stream, 1), t)
<1>1. PICK c, chunk, graph, at : /\ chunk = MemberId(stream, x) /\ graph = Mint(stream, 1) /\ at = Instant(stream, 0)
                                 /\ c = Fact("chunks", graph, chunk, at)
  OBVIOUS
<1>2. c \in M BY <1>1, MemberTables
<1>3. c.table = "chunks" /\ c.of = graph /\ c.id = chunk BY <1>1, FactIs
<1>4. PICK k : k = Entry(c, t) OBVIOUS
<1>5. k \in K /\ k.fact = c /\ k.tenant = t BY <1>2, <1>3, <1>4 DEF Entry, StampOf, GlobalTables
<1>6. QED BY <1>1, <1>3, <1>5 DEF ChunkThere
LEMMA BoardFits ==
    ASSUME NEW b, b.chunks \in Int, NEW stream \in Nat, NEW s, BoardShape(b, stream, s.rows),
           NEW asked, asked = BoardAsked(b, stream), NEW ten, NEW held, NEW H
    PROVE  Fits(s, asked, ten, held, H)
<1>1. PICK B, graph, at, t, K : /\ B = s.rows /\ graph = Mint(stream, 1) /\ at = Instant(stream, 0)
                                /\ t = Resolved(ten, held, s.tenant) /\ K = H \cup Written(s, ten, held)
  OBVIOUS
<1>2. graph \in Int BY <1>1, MintIs
<1>3. PICK G : G = compose_graph(graph, "default", at) OBVIOUS
<1>4. Rows(G) \subseteq Rows(B) BY <1>1, <1>3 DEF BoardShape
<1>5. \E g \in Rows(G) : g.table = "graphs" BY <1>2, <1>3, GraphRows
<1>6. PICK g \in Rows(B) : g.table = "graphs" BY <1>4, <1>5
<1>7. g.table \notin GlobalTables BY <1>6 DEF GlobalTables
<1>8. TenantOf(s, ten, held) = t /\ \A f \in Rows(B) : Entry(f, t) \in K BY <1>1, <1>6, <1>7, WritesIn
<1>9. \A f \in Rows(G) : Entry(f, t) \in K BY <1>4, <1>8
<1>10. /\ \A f \in Rows(G) : Grounded(Entry(f, t), K) /\ f.table \in {"graphs", "graph_nodes"}
       /\ OnGraph(K, graph, {"build", "deliver"}, t)
  BY <1>2, <1>3, <1>9, GraphGrounded
<1>11. ASSUME NEW n, n = NodeRow(graph, "long", at)
       PROVE  n.table = "graph_nodes" /\ n.of = graph /\ n.tag = "long" /\ n.id = NodeId(graph, "long")
  BY <1>11 DEF NodeRow, Fact
<1>12. b.stress => NodeOf(K, graph, NodeId(graph, "long"))
  <2> SUFFICES ASSUME b.stress PROVE NodeOf(K, graph, NodeId(graph, "long")) OBVIOUS
  <2>1. PICK n, e : n = NodeRow(graph, "long", at) /\ e = Entry(n, t) OBVIOUS
  <2>2. n \in Rows(B) BY <1>1, <2>1 DEF BoardShape
  <2>3. e \in K /\ e.fact = n BY <1>8, <2>1, <2>2 DEF Entry
  <2>4. QED BY <1>11, <2>1, <2>3 DEF NodeOf
<1>13. ASSUME NEW x \in Members(b) PROVE OnGraph(K, graph, MemberNodes(x), t)
  <2>1. x = -1 => b.stress BY MemberIs
  <2>2. \A n \in MemberNodes(x) : n \in {"build", "deliver"} \/ (n = "long" /\ x = -1) BY DEF MemberNodes
  <2>3. QED BY <1>10, <1>12, <2>1, <2>2 DEF OnGraph
<1>14. ASSUME NEW x \in Members(b) PROVE \A f \in Rows(MemberRows(b, stream, x)) : Entry(f, t) \in K
  BY <1>1, <1>8 DEF BoardShape
<1>15. ASSUME NEW f \in Rows(B)
       PROVE  /\ f.table # "tenants" /\ Grounded(Entry(f, t), K)
              /\ f.table = "chunks" => f.id \in DOMAIN asked /\ Derives(Rows(B), f, asked[f.id])
  <2>1. OnBoard(b, stream, f) /\ IsSeq(B) BY <1>1 DEF BoardShape, AllOnBoard
  <2>2. CASE f \in Rows(G) BY <1>10, <2>2
  <2>3. CASE f = NodeRow(graph, "long", at)
    <3>1. f.table = "graph_nodes" /\ f.of = graph /\ f.tag = "long" /\ f.id = NodeId(graph, "long") BY <1>11, <2>3
    <3>2. PICK e : e = Entry(f, t) OBVIOUS
    <3>3. e.fact = f BY <3>2 DEF Entry
    <3>4. Grounded(e, K) BY <1>2, <3>1, <3>3 DEF Grounded, Names
    <3>5. QED BY <3>1, <3>2, <3>4
  <2>4. CASE \E x \in Members(b) : f \in Rows(MemberRows(b, stream, x))
    <3>1. PICK x \in Members(b) : f \in Rows(MemberRows(b, stream, x)) BY <2>4
    <3>2. f.table # "tenants" BY <3>1, MemberTables
    <3>3. /\ Grounded(Entry(f, t), K)
          /\ f.table = "chunks" => f = Fact("chunks", Mint(stream, 1), MemberId(stream, x), Instant(stream, 0))
      BY <1>1, <1>13, <1>14, <3>1, MemberGrounded
    <3>4. ASSUME f.table = "chunks" PROVE f.id \in DOMAIN asked /\ Derives(Rows(B), f, asked[f.id])
      <4>1. PICK m : m = MemberId(stream, x) OBVIOUS
      <4>2. f = Fact("chunks", graph, m, at) BY <1>1, <3>3, <3>4, <4>1
      <4>3. f.id = MemberId(stream, x) /\ f.of = Mint(stream, 1) BY <1>1, <4>1, <4>2, FactIs
      <4>4. Derives(Rows(B), f, MemberStatus(x)) BY <1>1, <3>1, <4>3, MemberDerives
      <4>5. f.id \in DOMAIN asked /\ asked[f.id] = MemberStatus(x) BY <3>1, <4>3, MemberAsked
      <4>6. QED BY <4>4, <4>5
    <3>5. QED BY <3>2, <3>3, <3>4
  <2>5. CASE f.table = "artifacts" /\ \E x \in Members(b) : /\ f.of = MemberId(stream, x)
                                                            /\ \E n \in MemberNodes(x) : f.node = NodeId(graph, n)
    <3>1. PICK x \in Members(b) : f.of = MemberId(stream, x) /\ \E n \in MemberNodes(x) : f.node = NodeId(graph, n)
      BY <2>5
    <3>2. PICK k \in K : k.fact.table = "chunks" /\ k.fact.id = f.of /\ k.fact.of = graph /\ k.tenant = t
      <4>0. PICK M : M = Rows(MemberRows(b, stream, x)) OBVIOUS
      <4>1. \A m \in M : Entry(m, t) \in K BY <1>14, <3>1, <4>0
      <4>2. ChunkThere(K, MemberId(stream, x), Mint(stream, 1), t)
        BY <3>1, <4>0, <4>1, MemberChunk
      <4>3. QED BY <1>1, <3>1, <4>2 DEF ChunkThere
    <3>3. NodeOf(K, graph, f.node) BY <1>13, <3>1 DEF OnGraph
    <3>4. OwnNode(K, f.of, f.node) BY <3>2, <3>3 DEF OwnNode
    <3>5. PICK e : e = Entry(f, t) OBVIOUS
    <3>6. e.fact = f /\ e.tenant = t BY <2>5, <3>5 DEF Entry, StampOf, GlobalTables
    <3>7. ParentHere(e, K, "chunks") BY <3>2, <3>6 DEF ParentHere
    <3>8. Grounded(e, K) BY <2>5, <3>4, <3>6, <3>7 DEF Grounded
    <3>9. QED BY <2>5, <3>5, <3>8
  <2>6. CASE f.table \in PlainOnBoard \cup {"questions"}
    <3>1. f.table \notin Grounds BY <2>6 DEF PlainOnBoard, Grounds
    <3>2. PICK e : e = Entry(f, t) OBVIOUS
    <3>3. e.fact = f BY <3>2 DEF Entry
    <3>4. Grounded(e, K) BY <3>1, <3>3, PlainGrounded
    <3>5. f.table # "tenants" /\ f.table # "chunks" BY <3>1 DEF Grounds
    <3>6. QED BY <3>2, <3>4, <3>5
  <2>7. QED BY <1>1, <1>3, <2>1, <2>2, <2>3, <2>4, <2>5, <2>6 DEF OnBoard
<1>16. IsSeq(B) BY <1>1 DEF BoardShape, AllOnBoard
<1>17. QED BY <1>1, <1>8, <1>15, <1>16 DEF Fits

LEMMA BoardStep == ASSUME IInv, NEW p \in Procs, NEW a \in BoardCalls, scenario_board(p, a) PROVE IInv'
<1>1. PICK stream : stream = Fresh(a.seeded) OBVIOUS
<1>2. stream \in Nat BY <1>1, FreshIs DEF IInv
<1>3. PICK b : b = [chunks |-> a.chunks, runner |-> None, register |-> TRUE, stress |-> a.stress] OBVIOUS
<1>4. PICK rows, asked : rows = compose_board_scenario(b, stream) /\ asked = BoardAsked(b, stream) OBVIOUS
<1>5. PICK s : s = Step("hub", a.tenant, None, rows) OBVIOUS
<1>6. rows # Refused /\ Begin(p, << s >>, asked, None) BY <1>1, <1>3, <1>4, <1>5 DEF scenario_board
<1>7. b.chunks \in Int BY <1>3, CallAssumption
<1>8. b.chunks >= 1
  <2>1. b.chunks < 1 => compose_board_scenario(b, stream) = Refused BY Zenon DEF compose_board_scenario
  <2>2. QED BY <1>4, <1>6, <1>7, <2>1
<1>9. s.rows = rows BY <1>5, StepIs
<1>10. stream \in Int BY <1>2
<1>11. BoardShape(b, stream, rows) BY <1>4, <1>7, <1>8, <1>10, BoardIs
<1>12. PICK ten, held, H : ten = tenanted /\ held = HeldTenants /\ H = hub OBVIOUS
<1>13. Fits(s, asked, ten, held, H) BY <1>2, <1>4, <1>7, <1>9, <1>11, BoardFits
<1>14. PICK x : x = [steps |-> << s >>, asked |-> asked, pinned |-> None] OBVIOUS
<1>15. x.steps = << s >> /\ x.asked = asked /\ x.pinned = None BY <1>14
<1>16. InFlight(x, ten, held, H) BY <1>13, <1>15, OneStep
<1>17. Fleet(x, runner.rows, hub) BY <1>15 DEF Fleet
<1>18. InFlight(x, tenanted, HeldTenants, hub) BY <1>12, <1>16
<1>19. QED BY <1>6, <1>14, <1>17, <1>18, BeginStep

-----------------------------------------------------------------------------
(* A fleet                                                                   *)

(* The rows of a fleet's mirror are about the two chunks it mirrors.         *)
About(s, chunk) == IsSeq(s) /\ \A f \in Rows(s) : f.of = chunk
LEMMA AboutBoth ==
    ASSUME NEW chunk, NEW s, NEW t, About(s, chunk), About(t, chunk), NEW r, r = s \o t PROVE About(r, chunk)
BY CatRows DEF About
LEMMA AboutOne ==
    ASSUME NEW f, NEW s, s = << f >> PROVE About(s, f.of)
BY TupleRows DEF About
LEMMA AboutTwo ==
    ASSUME NEW f, NEW g, f.of = g.of, NEW s, s = << f, g >> PROVE About(s, f.of)
BY TupleRows DEF About
LEMMA MirrorParts ==
    ASSUME NEW chunk, NEW at
    PROVE  /\ \A lease, epoch, node : About(compose_lease(chunk, lease, epoch, node, at), chunk)
           /\ About(compose_env_binding(chunk, at), chunk)
           /\ \A lease, q : About(compose_ask_park(chunk, lease, q, at), chunk)
           /\ \A lease, node : About(compose_runner_usage(chunk, lease, node, at), chunk)
           /\ \A segment, lease, finalized : About(compose_transcript_segment(chunk, segment, lease, finalized, at), chunk)
           /\ \A kind : About(compose_outbound_fact(kind, chunk, at), chunk)
           /\ \A lease, reason : About(compose_lease_closure(chunk, lease, reason, at), chunk)
           /\ \A takeover, lease : About(compose_takeover(chunk, takeover, lease, at), chunk)
           /\ \A segment : About(compose_final_marker(chunk, segment, at), chunk)
<1>1. ASSUME NEW lease, NEW epoch, NEW node PROVE About(compose_lease(chunk, lease, epoch, node, at), chunk)
  <2>1. PICK f, g : /\ f = [Fact("leases", chunk, lease, at) EXCEPT !.epoch = epoch]
                    /\ g = [Fact("lease_context", chunk, lease, at) EXCEPT !.node = node] OBVIOUS
  <2>2. f.of = chunk /\ g.of = chunk BY <2>1 DEF Fact
  <2>3. compose_lease(chunk, lease, epoch, node, at) = << f, g >> BY <2>1 DEF compose_lease
  <2>4. QED BY <2>2, <2>3, AboutTwo
<1>2. About(compose_env_binding(chunk, at), chunk)
  <2>1. PICK f : f = Fact("env_bindings", chunk, None, at) OBVIOUS
  <2>2. f.of = chunk BY <2>1 DEF Fact
  <2>3. compose_env_binding(chunk, at) = << f >> BY <2>1 DEF compose_env_binding
  <2>4. QED BY <2>2, <2>3, AboutOne
<1>3. ASSUME NEW lease, NEW q PROVE About(compose_ask_park(chunk, lease, q, at), chunk)
  <2>1. PICK f, g : /\ f = [Fact("asks", chunk, q, at) EXCEPT !.ref = lease]
                    /\ g = [Fact("park_facts", chunk, None, at) EXCEPT !.ref = lease] OBVIOUS
  <2>2. f.of = chunk /\ g.of = chunk BY <2>1 DEF Fact
  <2>3. compose_ask_park(chunk, lease, q, at) = << f, g >> BY <2>1 DEF compose_ask_park
  <2>4. QED BY <2>2, <2>3, AboutTwo
<1>4. ASSUME NEW lease, NEW node PROVE About(compose_runner_usage(chunk, lease, node, at), chunk)
  <2>1. PICK f : f = [Fact("usage_facts", chunk, None, at) EXCEPT !.ref = lease, !.node = node, !.epoch = 1] OBVIOUS
  <2>2. f.of = chunk BY <2>1 DEF Fact
  <2>3. compose_runner_usage(chunk, lease, node, at) = << f >> BY <2>1 DEF compose_runner_usage
  <2>4. QED BY <2>2, <2>3, AboutOne
<1>5. ASSUME NEW segment, NEW lease, NEW finalized
      PROVE  About(compose_transcript_segment(chunk, segment, lease, finalized, at), chunk)
  <2>1. PICK tag : tag = (IF finalized THEN "finalized" ELSE "open") OBVIOUS
  <2>2. PICK f : f = [Fact("transcript_segments", chunk, segment, at) EXCEPT !.ref = lease, !.tag = tag] OBVIOUS
  <2>3. f.of = chunk BY <2>2 DEF Fact
  <2>4. compose_transcript_segment(chunk, segment, lease, finalized, at) = << f >>
    BY <2>1, <2>2 DEF compose_transcript_segment
  <2>5. QED BY <2>3, <2>4, AboutOne
<1>6. ASSUME NEW kind PROVE About(compose_outbound_fact(kind, chunk, at), chunk)
  <2>1. PICK f : f = [Fact("outbound_buffer", chunk, None, at) EXCEPT !.tag = kind] OBVIOUS
  <2>2. f.of = chunk BY <2>1 DEF Fact
  <2>3. compose_outbound_fact(kind, chunk, at) = << f >> BY <2>1 DEF compose_outbound_fact
  <2>4. QED BY <2>2, <2>3, AboutOne
<1>7. ASSUME NEW lease, NEW reason PROVE About(compose_lease_closure(chunk, lease, reason, at), chunk)
  <2>1. PICK f : f = [Fact("lease_closures", chunk, None, at) EXCEPT !.id = lease, !.tag = reason] OBVIOUS
  <2>2. f.of = chunk BY <2>1 DEF Fact
  <2>3. compose_lease_closure(chunk, lease, reason, at) = << f >> BY <2>1 DEF compose_lease_closure
  <2>4. QED BY <2>2, <2>3, AboutOne
<1>8. ASSUME NEW takeover, NEW lease PROVE About(compose_takeover(chunk, takeover, lease, at), chunk)
  <2>1. PICK f : f = [Fact("takeovers", chunk, takeover, at) EXCEPT !.ref = lease] OBVIOUS
  <2>2. f.of = chunk BY <2>1 DEF Fact
  <2>3. compose_takeover(chunk, takeover, lease, at) = << f >> BY <2>1 DEF compose_takeover
  <2>4. QED BY <2>2, <2>3, AboutOne
<1>9. ASSUME NEW segment PROVE About(compose_final_marker(chunk, segment, at), chunk)
  <2>1. PICK f : f = [Fact("transcript_outbound_buffer", chunk, None, at) EXCEPT !.ref = segment] OBVIOUS
  <2>2. f.of = chunk BY <2>1 DEF Fact
  <2>3. compose_final_marker(chunk, segment, at) = << f >> BY <2>1 DEF compose_final_marker
  <2>4. QED BY <2>2, <2>3, AboutOne
<1>10. QED BY <1>1, <1>2, <1>3, <1>4, <1>5, <1>6, <1>7, <1>8, <1>9
LEMMA MirrorRows ==
    ASSUME NEW stream, NEW reason
    PROVE  /\ IsSeq(FleetRows(stream, reason))
           /\ \A f \in Rows(FleetRows(stream, reason)) : f.of \in {BoardChunk(stream, 3), BoardChunk(stream, 4)}
<1>1. PICK at, node, m, k : /\ at = Instant(stream, 0) /\ node = NodeId(Mint(stream, 1), "build")
                            /\ m = BoardChunk(stream, 4) /\ k = BoardChunk(stream, 3)
  OBVIOUS
<1>2. About(WaitingMirror(stream), m)
  <2>1. PICK l, q, g : l = Mint(stream, 501) /\ q = Mint(stream, 503) /\ g = Mint(stream, 504) OBVIOUS
  <2>2. PICK s1, s2, s3, s4, s5, s6 :
          /\ s1 = compose_lease(m, l, 1, node, at) /\ s2 = compose_env_binding(m, at)
          /\ s3 = compose_ask_park(m, l, q, at) /\ s4 = compose_runner_usage(m, l, node, at)
          /\ s5 = compose_transcript_segment(m, g, l, FALSE, at)
          /\ s6 = compose_outbound_fact("question.asked", m, at)
    OBVIOUS
  <2>3. /\ About(s1, m) /\ About(s2, m) /\ About(s3, m) /\ About(s4, m) /\ About(s5, m) /\ About(s6, m)
    BY <2>2, MirrorParts
  <2>4. WaitingMirror(stream) = s1 \o s2 \o s3 \o s4 \o s5 \o s6 BY <1>1, <2>1, <2>2 DEF WaitingMirror
  <2>5. PICK t2, t3, t4, t5, t6 : /\ t2 = s1 \o s2 /\ t3 = t2 \o s3 /\ t4 = t3 \o s4 /\ t5 = t4 \o s5 /\ t6 = t5 \o s6
    OBVIOUS
  <2>6. About(t2, m) BY <2>3, <2>5, AboutBoth
  <2>7. About(t3, m) BY <2>3, <2>5, <2>6, AboutBoth
  <2>8. About(t4, m) BY <2>3, <2>5, <2>7, AboutBoth
  <2>9. About(t5, m) BY <2>3, <2>5, <2>8, AboutBoth
  <2>10. About(t6, m) BY <2>3, <2>5, <2>9, AboutBoth
  <2>11. WaitingMirror(stream) = t6 BY <2>4, <2>5
  <2>12. QED BY <2>10, <2>11
<1>3. About(EscalatedMirror(stream, reason), k)
  <2>1. PICK l, v, g : l = Mint(stream, 502) /\ v = Mint(stream, 505) /\ g = Mint(stream, 506) OBVIOUS
  <2>2. PICK s1, s2, s3, s4, s5, s6, s7, s8 :
          /\ s1 = compose_lease(k, l, 1, node, at) /\ s2 = compose_lease_closure(k, l, reason, at)
          /\ s3 = compose_env_binding(k, at) /\ s4 = compose_takeover(k, v, l, at)
          /\ s5 = compose_runner_usage(k, l, node, at) /\ s6 = compose_transcript_segment(k, g, l, TRUE, at)
          /\ s7 = compose_final_marker(k, g, at) /\ s8 = compose_outbound_fact("escalation.recorded", k, at)
    OBVIOUS
  <2>3. /\ About(s1, k) /\ About(s2, k) /\ About(s3, k) /\ About(s4, k) /\ About(s5, k) /\ About(s6, k)
        /\ About(s7, k) /\ About(s8, k)
    BY <2>2, MirrorParts
  <2>4. EscalatedMirror(stream, reason) = s1 \o s2 \o s3 \o s4 \o s5 \o s6 \o s7 \o s8
    BY <1>1, <2>1, <2>2 DEF EscalatedMirror
  <2>5. PICK t2, t3, t4, t5, t6, t7, t8 : /\ t2 = s1 \o s2 /\ t3 = t2 \o s3 /\ t4 = t3 \o s4 /\ t5 = t4 \o s5
                                          /\ t6 = t5 \o s6 /\ t7 = t6 \o s7 /\ t8 = t7 \o s8
    OBVIOUS
  <2>6. About(t2, k) BY <2>3, <2>5, AboutBoth
  <2>7. About(t3, k) BY <2>3, <2>5, <2>6, AboutBoth
  <2>8. About(t4, k) BY <2>3, <2>5, <2>7, AboutBoth
  <2>9. About(t5, k) BY <2>3, <2>5, <2>8, AboutBoth
  <2>10. About(t6, k) BY <2>3, <2>5, <2>9, AboutBoth
  <2>11. About(t7, k) BY <2>3, <2>5, <2>10, AboutBoth
  <2>12. About(t8, k) BY <2>3, <2>5, <2>11, AboutBoth
  <2>13. EscalatedMirror(stream, reason) = t8 BY <2>4, <2>5
  <2>14. QED BY <2>12, <2>13
<1>4. PICK s, t, r : s = WaitingMirror(stream) /\ t = EscalatedMirror(stream, reason) /\ r = s \o t OBVIOUS
<1>5. FleetRows(stream, reason) = r BY <1>4 DEF FleetRows
<1>6. IsSeq(s) /\ IsSeq(t) BY <1>2, <1>3, <1>4 DEF About
<1>7. IsSeq(r) /\ Rows(r) = Rows(s) \cup Rows(t) BY <1>4, <1>6, CatRows
<1>8. \A f \in Rows(r) : f.of \in {k, m} BY <1>2, <1>3, <1>4, <1>7 DEF About
<1>9. QED BY <1>1, <1>5, <1>7, <1>8

LEMMA ThreeSteps ==
    ASSUME NEW s, NEW u, NEW v, NEW asked, NEW ten, NEW held, NEW H,
           \A K : Fits(s, asked, ten, held, K) /\ Fits(u, asked, ten, held, K) /\ Fits(v, asked, ten, held, K),
           NEW x, x.steps = << s, u, v >>, x.asked = asked
    PROVE  InFlight(x, ten, held, H)
<1>1. IsSeq(x.steps) BY TupleRows
<1>2. Len(x.steps) = 3 /\ x.steps[1] = s /\ x.steps[2] = u /\ x.steps[3] = v OBVIOUS
<1>3. ASSUME NEW i \in 1 .. Len(x.steps) PROVE Fits(x.steps[i], x.asked, ten, held, H \cup Ahead(x.steps, i, ten, held))
  <2>1. PICK K : K = H \cup Ahead(x.steps, i, ten, held) OBVIOUS
  <2>2. i = 1 \/ i = 2 \/ i = 3 BY <1>2, <1>3
  <2>3. Fits(x.steps[i], x.asked, ten, held, K) BY <1>2, <2>2
  <2>4. QED BY <2>1, <2>3
<1>4. QED BY <1>1, <1>3 DEF InFlight

(* A fleet begins before its brake, its board holding the chunks its mirror  *)
(* is about.                                                                 *)
LEMMA FleetStep == ASSUME IInv, NEW p \in Procs, NEW a \in FleetCalls, scenario_fleet(p, a) PROVE IInv'
<1>1. PICK stream, known : /\ stream = Fresh(a.seeded)
                           /\ known = \E g \in Query("runner_registrations", ResolveTenant(a.tenant)) : g.id = a.runner
  OBVIOUS
<1>2. stream \in Nat BY <1>1, FreshIs DEF IInv
<1>3. PICK b : b = [chunks |-> a.chunks, runner |-> a.runner, register |-> ~known, stress |-> FALSE] OBVIOUS
<1>4. PICK board, asked : board = compose_board_scenario(b, stream) /\ asked = BoardAsked(b, stream) OBVIOUS
<1>5. a.chunks >= 4 /\ Begin(p, FleetSteps(a, board, stream), asked, a.runner)
  BY <1>1, <1>3, <1>4 DEF scenario_fleet, MinimumForMirror
<1>6. b.chunks \in Int /\ b.chunks >= 4 /\ b.chunks >= 1 BY <1>3, <1>5, CallAssumption
<1>7. stream \in Int BY <1>2
<1>8. BoardShape(b, stream, board) BY <1>4, <1>6, <1>7, BoardIs
<1>9. PICK s, u, v : /\ s = BrakeStep(a.runner, stream) /\ u = Step("hub", a.tenant, None, board)
                     /\ v = MirrorStep(a.runner, stream)
  OBVIOUS
<1>10. FleetSteps(a, board, stream) = << s, u, v >> BY <1>9 DEF FleetSteps, BrakeStep, MirrorStep
<1>11. PICK ten, held, H : ten = tenanted /\ held = HeldTenants /\ H = hub OBVIOUS
<1>12. s.store = "runner" /\ IsSeq(s.rows)
  <2>1. PICK rows : rows = compose_local_pause(Instant(stream, 0)) OBVIOUS
  <2>2. IsSeq(rows) BY <2>1, PlainSeqs
  <2>3. s.store = "runner" /\ s.rows = rows BY <1>9, <2>1 DEF BrakeStep, Step
  <2>4. QED BY <2>2, <2>3
<1>13. v.store = "runner" /\ IsSeq(v.rows)
  <2>1. PICK rows : rows = FleetRows(stream, "escalated") OBVIOUS
  <2>2. IsSeq(rows) BY <2>1, MirrorRows
  <2>3. v.store = "runner" /\ v.rows = rows BY <1>9, <2>1 DEF MirrorStep, Step
  <2>4. QED BY <2>2, <2>3
<1>14. u.rows = board BY <1>9, StepIs
<1>15. ASSUME NEW K
       PROVE  Fits(s, asked, ten, held, K) /\ Fits(u, asked, ten, held, K) /\ Fits(v, asked, ten, held, K)
  <2>1. Fits(s, asked, ten, held, K) BY <1>12, RunnerFits
  <2>2. Fits(v, asked, ten, held, K) BY <1>13, RunnerFits
  <2>3. BoardShape(b, stream, u.rows) BY <1>8, <1>14
  <2>4. Fits(u, asked, ten, held, K) BY <1>2, <1>4, <1>6, <2>3, BoardFits
  <2>5. QED BY <2>1, <2>2, <2>4
<1>16. PICK x : x = [steps |-> << s, u, v >>, asked |-> asked, pinned |-> a.runner] OBVIOUS
<1>17. x.steps = << s, u, v >> /\ x.asked = asked /\ x.pinned = a.runner BY <1>16
<1>18. InFlight(x, ten, held, H) BY <1>15, <1>17, ThreeSteps
<1>19. \A i \in {3, 4} : \E f \in Rows(board) : f.table = "chunks" /\ f.id = BoardChunk(stream, i)
  <2> TAKE i \in {3, 4}
  <2>1. i \in 1 .. b.chunks /\ i # 0 /\ i # -1 BY <1>6
  <2>2. i \in Members(b) /\ MemberId(stream, i) = BoardChunk(stream, i) BY <2>1 DEF Members, MemberId
  <2>3. PICK graph, m, at, f : /\ graph = Mint(stream, 1) /\ m = MemberId(stream, i) /\ at = Instant(stream, 0)
                               /\ f = Fact("chunks", graph, m, at)
    OBVIOUS
  <2>4. f \in Rows(MemberRows(b, stream, i)) BY <1>6, <2>2, <2>3, MemberTables
  <2>5. f \in Rows(board) BY <1>8, <2>2, <2>4 DEF BoardShape
  <2>6. f.table = "chunks" /\ f.id = m BY <2>3, FactIs
  <2>7. QED BY <2>2, <2>3, <2>5, <2>6
<1>20. Fleet(x, runner.rows, hub)
  <2>1. x.steps = << BrakeStep(x.pinned, stream), Step("hub", a.tenant, None, board), MirrorStep(x.pinned, stream) >>
    BY <1>9, <1>17
  <2>2. QED BY <1>19, <2>1 DEF Fleet
<1>21. InFlight(x, tenanted, HeldTenants, hub) BY <1>11, <1>18
<1>22. Begin(p, << s, u, v >>, asked, a.runner) BY <1>5, <1>10
<1>23. QED BY <1>16, <1>20, <1>21, <1>22, BeginStep

-----------------------------------------------------------------------------
(* The stores the tool is first run against                                  *)

(* No two rows of a composed chunk have one key.                             *)
LEMMA MovesApart ==
    ASSUME NEW c, c.status \in Statuses, NEW chunk, NEW graph, NEW id \in Int, NEW at, NEW M,
           M = Rows(Moved(c, chunk, graph, id, at)), NEW f \in M, NEW g \in M, f.id = g.id
    PROVE  f = g
<1>1. PICK u, v, w, x, y, z : /\ u = Hop(c, chunk, graph, id, None, c.node, at[2])
                              /\ v = Finish(c, chunk, graph, id, at[4])
                              /\ w = Hop(c, chunk, graph, id, NodeId(graph, "build"), Lands(c), at[3])
                              /\ x = Hop(c, chunk, graph, id, None, Lands(c), at[4])
                              /\ y = Hop(c, chunk, graph, id, None, Lands(c), at[2])
                              /\ z = Moved(c, chunk, graph, id, at)
  OBVIOUS
<1>2. z = << >> \/ z = << u >> \/ z = << v >> \/ z = << w, v >> \/ z = << x >> \/ z = << y >>
  <2>1. c.status \in {"ready", "not_ready", "stopped", "done", "delivering", "running", "needs_human",
                      "waiting_on_human", "paused"} BY DEF Statuses
  <2>2. CASE c.status \in {"ready", "not_ready"} BY <1>1, <2>2, MovedIs
  <2>3. CASE c.status = "stopped" BY <1>1, <2>3, MovedIs
  <2>4. CASE c.status = "done" BY <1>1, <2>4, MovedIs
  <2>5. CASE c.status \in {"delivering", "running"} BY <1>1, <2>5, MovedIs
  <2>6. CASE c.status \in {"needs_human", "waiting_on_human", "paused"} BY <1>1, <2>6, MovedIs
  <2>7. QED BY <2>1, <2>2, <2>3, <2>4, <2>5, <2>6
<1>3. w.id = id /\ v.id = id + 1
  <2>1. w.id = id BY <1>1, TransitionIs DEF Hop
  <2>2. PICK i : i = id + 1 OBVIOUS
  <2>3. v.id = i BY <1>1, <2>2, TransitionIs DEF Finish
  <2>4. QED BY <2>1, <2>2, <2>3
<1>4. w.id # v.id BY <1>3
<1>5. M = Rows(z) BY <1>1
<1>6. QED BY <1>2, <1>4, <1>5, TupleRows
LEMMA ChunkKeys ==
    ASSUME NEW c, c.status \in Statuses, NEW chunk, NEW graph, NEW nodes, NEW stream, NEW draw, Mint(stream, draw) \in Int,
           ~ChunkRefused(c, nodes), NEW R, R = Rows(compose_chunk(c, chunk, graph, nodes, stream, draw)),
           NEW f \in R, NEW g \in R, Clash(f, g)
    PROVE  f = g
<1>1. PICK at, id, k, P, L, M, H, T :
        /\ at = Stamps(stream) /\ id = Mint(stream, draw) /\ k = ChunkRow(graph, chunk, at)
        /\ P = Rows(Promoted(c, chunk, at)) /\ L = Rows(Leased(c, chunk, at))
        /\ M = Rows(Moved(c, chunk, graph, id, at)) /\ H = Rows(Held(c, chunk, graph, id, at))
        /\ T = Rows(Routed(c, chunk, id, at))
  OBVIOUS
<1>2. R = {k} \cup P \cup L \cup M \cup H \cup T BY <1>1, ChunkRows
<1>3. PartsHang(c, chunk, graph, id, at) BY PartTables
<1>4. /\ \A r \in P : r.table = "chunk_promoted"
      /\ \A r \in L : r.table \in {"lease_facts", "epoch_owners"}
      /\ \A r \in M : r.table = "transitions"
      /\ \A r \in H : r.table \in {"chunk_stopped", "escalations", "questions", "chunk_pause_facts"}
      /\ \A r \in T : r.table = "route_created"
  BY <1>1, <1>3 DEF PartsHang
<1>5. k.table = "chunks"
  <2>1. PICK z : z = at[0] OBVIOUS
  <2>2. k = Fact("chunks", graph, chunk, z) BY <1>1, <2>1 DEF ChunkRow
  <2>3. QED BY <2>2, FactIs
<1>6. f.table = g.table /\ f.table \in Keyed \cup {"epoch_owners"} /\ (f.table \in Keyed => f.id = g.id)
  <2>1. "epoch_owners" \notin Keyed BY DEF Keyed
  <2>2. QED BY <2>1 DEF Clash
<1>7. f.table \notin {"chunk_promoted", "lease_facts", "chunk_stopped", "escalations", "chunk_pause_facts"}
  BY <1>6 DEF Keyed
<1>8. CASE f.table = "chunks"
  <2>1. f = k BY <1>2, <1>4, <1>8
  <2>2. g.table = "chunks" BY <1>6, <1>8
  <2>3. g = k BY <1>2, <1>4, <2>2
  <2>4. QED BY <2>1, <2>3
<1>9. CASE f.table = "epoch_owners"
  <2>1. f \in L /\ g \in L BY <1>2, <1>4, <1>5, <1>6, <1>9
  <2>2. PICK l, o, z : /\ z = at[2] /\ l = LeaseRow(chunk, c.epoch, c.runner, z)
                       /\ o = OwnerRow(chunk, c.epoch, c.runner, z) OBVIOUS
  <2>3. L = {l, o} \/ L = {} BY <1>1, <2>2, LeasedIs
  <2>4. l.table = "lease_facts" BY <2>2 DEF LeaseRow, Fact
  <2>5. f # l /\ g # l BY <1>6, <1>9, <2>4
  <2>6. QED BY <2>1, <2>3, <2>5
<1>10. CASE f.table = "transitions"
  <2>1. f \in M /\ g \in M BY <1>2, <1>4, <1>5, <1>6, <1>10
  <2>2. f.id = g.id BY <1>6, <1>10 DEF Keyed
  <2>3. id \in Int BY <1>1
  <2>4. M = Rows(Moved(c, chunk, graph, id, at)) BY <1>1
  <2>5. QED BY <2>1, <2>2, <2>3, <2>4, MovesApart
<1>11. CASE f.table = "questions"
  <2>1. f \in H /\ g \in H BY <1>2, <1>4, <1>5, <1>6, <1>11
  <2>2. (\E h : H = {h}) \/ H = {} BY <1>1, HeldRow
  <2>3. QED BY <2>1, <2>2
<1>12. CASE f.table = "route_created"
  <2>1. f \in T /\ g \in T BY <1>2, <1>4, <1>5, <1>6, <1>12
  <2>2. (\E h : T = {h}) \/ T = {}
    <3>1. PICK h, z : h = RouteRow(c, chunk, id, at[3]) /\ z = RouteRow(c, chunk, id, at[5]) OBVIOUS
    <3>2. T = {h} \/ T = {z} \/ T = {} BY <1>1, <3>1, RoutedIs
    <3>3. QED BY <3>2
  <2>3. QED BY <2>1, <2>2
<1>13. f.table \in {"chunks", "epoch_owners", "transitions", "questions", "route_created"} BY <1>2, <1>4, <1>5, <1>7
<1>14. QED BY <1>8, <1>9, <1>10, <1>11, <1>12, <1>13

(* Every row of a composed chunk on a graph has its parent.                  *)
LEMMA ChunkParented ==
    ASSUME NEW c, c.status \in Statuses, NEW chunk, NEW graph, NEW nodes, NEW stream, NEW draw,
           ~ChunkRefused(c, nodes), NEW R, R = Rows(compose_chunk(c, chunk, graph, nodes, stream, draw)),
           NEW F, R \subseteq F, \E g \in F : g.table = "graphs" /\ g.id = graph, NEW f \in R
    PROVE  Parented(f, F) /\ f.table \notin {"graphs", "graph_nodes", "tenants", "hub_event_log"}
<1>1. PICK at, id, k, P, L, M, H, T :
        /\ at = Stamps(stream) /\ id = Mint(stream, draw) /\ k = ChunkRow(graph, chunk, at)
        /\ P = Rows(Promoted(c, chunk, at)) /\ L = Rows(Leased(c, chunk, at))
        /\ M = Rows(Moved(c, chunk, graph, id, at)) /\ H = Rows(Held(c, chunk, graph, id, at))
        /\ T = Rows(Routed(c, chunk, id, at))
  OBVIOUS
<1>2. R = {k} \cup P \cup L \cup M \cup H \cup T BY <1>1, ChunkRows
<1>3. PartsHang(c, chunk, graph, id, at) BY PartTables
<1>4. \A r \in P \cup L \cup M \cup H \cup T :
         /\ r.of = chunk
         /\ r.table \in {"chunk_promoted", "lease_facts", "epoch_owners", "transitions", "chunk_stopped",
                         "escalations", "questions", "chunk_pause_facts", "route_created"}
  BY <1>1, <1>3 DEF PartsHang
<1>5. k.table = "chunks" /\ k.id = chunk /\ k.of = graph
  <2>1. PICK z : z = at[0] OBVIOUS
  <2>2. k = Fact("chunks", graph, chunk, z) BY <1>1, <2>1 DEF ChunkRow
  <2>3. QED BY <2>2, FactIs
<1>6. k \in F BY <1>2
<1>7. CASE f = k
  <2>1. ParentTable(f) = "graphs"
    <3>1. f.table = "chunks" BY <1>5, <1>7
    <3>2. QED BY <3>1 DEF ParentTable, ChunkFacts
  <2>2. Parented(f, F) BY <1>5, <1>7, <2>1 DEF Parented
  <2>3. QED BY <1>5, <1>7, <2>2
<1>8. CASE f # k
  <2>1. f \in P \cup L \cup M \cup H \cup T BY <1>2, <1>8
  <2>2. f.table \in ChunkFacts BY <1>4, <2>1 DEF ChunkFacts
  <2>3. ParentTable(f) = "chunks" BY <2>2 DEF ParentTable, ChunkFacts
  <2>4. Parented(f, F) BY <1>4, <1>5, <1>6, <2>1, <2>3 DEF Parented
  <2>5. QED BY <1>4, <2>1, <2>4
<1>9. QED BY <1>7, <1>8

(* What the creation of a tenant gives it rests on nothing and has no key.   *)
LEMMA TenantRowsFit ==
    ASSUME NEW t, NEW e \in TenantRows(t)
    PROVE  /\ e.fact.table \in {"tenants", "projects", "work_item_sequence"}
           /\ e.fact.table = "tenants" => e.fact.id = t
<1>1. PICK x, y, z : /\ x = [fact |-> Fact("tenants", None, t, 0), tenant |-> None]
                     /\ y = [fact |-> [Fact("projects", None, None, 0) EXCEPT !.tag = "default"], tenant |-> t]
                     /\ z = [fact |-> Fact("work_item_sequence", None, None, 0), tenant |-> t]
  OBVIOUS
<1>2. e = x \/ e = y \/ e = z BY <1>1 DEF TenantRows
<1>3. x.fact.table = "tenants" /\ x.fact.id = t BY <1>1 DEF Fact
<1>4. y.fact.table = "projects" BY <1>1 DEF Fact
<1>5. z.fact.table = "work_item_sequence" BY <1>1 DEF Fact
<1>6. QED BY <1>2, <1>3, <1>4, <1>5

(* The chunk an earlier invocation left, on its graph, rests on what it left.*)
LEMMA EarlierFit ==
    ASSUME NEW a, a.status \in Statuses, ~a.mirrored, ~ChunkRefused(a, {"build", "deliver"}), NEW H, Earlier(a) \subseteq H,
           NEW F, F = Facts(H)
    PROVE  /\ \A e \in Earlier(a) : /\ Grounded(e, H) /\ Parented(e.fact, F) /\ e.fact.table # "tenants"
                                    /\ e.fact.table \notin {"projects", "work_item_sequence"}
           /\ \A e, f \in Earlier(a) : Clash(e.fact, f.fact) => e = f
<1>1. PICK graph, at, nodes, stream, draw, t :
        /\ graph = Mint(0, 1) /\ at = Instant(0, 0) /\ nodes = {"build", "deliver"} /\ stream = 0
        /\ draw = GraphDraws + 1 /\ t = a.tenant
  OBVIOUS
<1>2. graph \in Int /\ draw \in Int /\ Mint(stream, draw) \in Int BY <1>1 DEF Mint, GraphDraws
<1>3. nodes \subseteq Names /\ ~ChunkRefused(a, nodes) BY <1>1 DEF Names
<1>4. PICK G, C : G = compose_graph(graph, "default", at) /\ C = compose_chunk(a, a.chunk, graph, nodes, stream, draw)
  OBVIOUS
<1>5. PICK S : S = G \o C OBVIOUS
<1>6. Earlier(a) = Stamped(S, t) BY <1>1, <1>4, <1>5 DEF Earlier
<1>7. IsSeq(G) BY <1>2, <1>4, GraphRows
<1>8. IsSeq(C) BY <1>3, <1>4, ChunkRows
<1>9. Rows(S) = Rows(G) \cup Rows(C) BY <1>5, <1>7, <1>8, CatRows
<1>10. Earlier(a) = {Entry(f, t) : f \in Rows(G) \cup Rows(C)} BY <1>6, <1>9 DEF Stamped, Entry
<1>11. \A f \in Rows(G) \cup Rows(C) : Entry(f, t) \in H BY <1>10
<1>12. \A f \in Rows(G) \cup Rows(C) : f \in F
  <2> TAKE f \in Rows(G) \cup Rows(C)
  <2>1. PICK e : e = Entry(f, t) OBVIOUS
  <2>2. e \in H /\ e.fact = f BY <1>11, <2>1 DEF Entry
  <2>3. QED BY <2>2 DEF Facts
<1>13. PICK g, b, d : /\ Rows(G) = {g, b, d} /\ g.table = "graphs" /\ g.id = graph
                      /\ b.table = "graph_nodes" /\ b.of = graph /\ b.id = NodeId(graph, "build")
                      /\ d.table = "graph_nodes" /\ d.of = graph /\ d.id = NodeId(graph, "deliver")
  BY <1>2, <1>4, GraphRows
<1>14. /\ \A f \in Rows(G) : Grounded(Entry(f, t), H) /\ f.table \in {"graphs", "graph_nodes"}
       /\ OnGraph(H, graph, {"build", "deliver"}, t)
  BY <1>2, <1>4, <1>11, GraphGrounded
<1>15. \A f \in Rows(C) : \E e \in H : e.fact = f
  <2> TAKE f \in Rows(C)
  <2>1. PICK e : e = Entry(f, t) OBVIOUS
  <2>2. e \in H /\ e.fact = f BY <1>11, <2>1 DEF Entry
  <2>3. QED BY <2>2
<1>16. OnGraph(H, graph, nodes, t) BY <1>1, <1>14
<1>17. PICK chunk : chunk = a.chunk OBVIOUS
<1>18. C = compose_chunk(a, chunk, graph, nodes, stream, draw) BY <1>4, <1>17
<1>19. ASSUME NEW f \in Rows(C) PROVE Grounded(Entry(f, t), H) /\ f.table # "tenants"
  BY <1>3, <1>15, <1>16, <1>18, ChunkGrounded
<1>20. g \in F /\ Rows(C) \subseteq F BY <1>12, <1>13
<1>21. ASSUME NEW f \in Rows(C)
       PROVE  Parented(f, F) /\ f.table \notin {"graphs", "graph_nodes", "tenants", "hub_event_log"}
  <2>1. \E h \in F : h.table = "graphs" /\ h.id = graph BY <1>13, <1>20
  <2>2. PICK R : R = Rows(compose_chunk(a, chunk, graph, nodes, stream, draw)) OBVIOUS
  <2>3. R \subseteq F /\ f \in R BY <1>18, <1>20, <1>21, <2>2
  <2>4. QED BY <1>3, <2>1, <2>2, <2>3, ChunkParented
<1>22. ASSUME NEW f \in Rows(C) PROVE f.table \notin {"projects", "work_item_sequence"}
  <2>1. \A r \in Rows(C) : r.table \in {"chunks", "chunk_promoted", "lease_facts", "epoch_owners", "transitions",
                                       "chunk_stopped", "escalations", "questions", "chunk_pause_facts", "route_created"}
    BY <1>3, <1>15, <1>16, <1>18, ChunkGrounded
  <2>2. QED BY <1>22, <2>1
<1>23. ASSUME NEW f \in Rows(G) PROVE Parented(f, F)
  <2>1. CASE f.table = "graphs"
    <3>1. ParentTable(f) = "none" BY <2>1 DEF ParentTable, ChunkFacts
    <3>2. QED BY <3>1 DEF Parented
  <2>2. CASE f.table = "graph_nodes"
    <3>1. ParentTable(f) = "graphs" BY <2>2 DEF ParentTable, ChunkFacts
    <3>2. f.of = graph BY <1>13, <1>23, <2>2
    <3>3. QED BY <1>13, <1>20, <3>1, <3>2 DEF Parented
  <2>3. QED BY <1>14, <1>23, <2>1, <2>2
<1>24. ASSUME NEW e \in Earlier(a)
       PROVE  /\ Grounded(e, H) /\ Parented(e.fact, F) /\ e.fact.table # "tenants"
              /\ e.fact.table \notin {"projects", "work_item_sequence"}
  <2>1. PICK f \in Rows(G) \cup Rows(C) : e = Entry(f, t) BY <1>10, <1>24
  <2>2. e.fact = f BY <2>1 DEF Entry
  <2>3. CASE f \in Rows(G) BY <1>14, <1>23, <2>1, <2>2, <2>3
  <2>4. CASE f \in Rows(C) BY <1>19, <1>21, <1>22, <2>1, <2>2, <2>4
  <2>5. QED BY <2>1, <2>3, <2>4
<1>25. ASSUME NEW x \in Rows(G) \cup Rows(C), NEW y \in Rows(G) \cup Rows(C), Clash(x, y) PROVE x = y
  <2>1. x.table = y.table BY <1>25 DEF Clash
  <2>2. CASE x \in Rows(G) /\ y \in Rows(G)
    <3>1. "graphs" # "epoch_owners" /\ "graph_nodes" # "epoch_owners" OBVIOUS
    <3>2. x.table # "epoch_owners" BY <1>14, <2>2
    <3>3. x.id = y.id BY <1>25, <3>2 DEF Clash
    <3>4. b.id # d.id
      <4>1. NodeId(graph, "build") = 10 * graph + 1 /\ NodeId(graph, "deliver") = 10 * graph + 2 BY <1>2, NodeIds
      <4>2. QED BY <1>2, <1>13, <4>1
    <3>5. QED BY <1>13, <2>1, <2>2, <3>3, <3>4
  <2>3. CASE x \in Rows(C) /\ y \in Rows(C)
    <3>1. PICK R : R = Rows(compose_chunk(a, chunk, graph, nodes, stream, draw)) OBVIOUS
    <3>2. x \in R /\ y \in R BY <1>18, <2>3, <3>1
    <3>3. QED BY <1>2, <1>3, <1>25, <3>1, <3>2, ChunkKeys
  <2>4. QED BY <1>14, <1>21, <1>25, <2>1, <2>2, <2>3
<1>26. ASSUME NEW e \in Earlier(a), NEW f \in Earlier(a), Clash(e.fact, f.fact) PROVE e = f
  <2>1. PICK x \in Rows(G) \cup Rows(C) : e = Entry(x, t) BY <1>10, <1>26
  <2>2. PICK y \in Rows(G) \cup Rows(C) : f = Entry(y, t) BY <1>10, <1>26
  <2>3. e.fact = x /\ f.fact = y BY <2>1, <2>2 DEF Entry
  <2>4. x = y BY <1>25, <1>26, <2>1, <2>2, <2>3
  <2>5. QED BY <2>1, <2>2, <2>4
<1>27. QED BY <1>24, <1>26

LEMMA InitInv == ASSUME Init PROVE IInv
<1>1. PICK s \in Stores :
        /\ tenanted = (s.tenants # {})
        /\ hub = (UNION {TenantRows(t) : t \in s.tenants}) \cup (UNION {Earlier(a) : a \in s.earlier})
  BY DEF Init
<1>2. inv = [p \in Procs |-> Idle] /\ begun = 0 BY DEF Init
<1>3. /\ s.tenants \subseteq Tenants
      /\ \A a \in s.earlier : /\ a.tenant \in s.tenants /\ a.status \in Statuses /\ ~a.mirrored
                              /\ ~ChunkRefused(a, {"build", "deliver"})
      /\ \A a, b \in s.earlier : a = b
  BY <1>1, StoreAssumption
<1>4. PICK H, F : H = hub /\ F = Facts(H) OBVIOUS
<1>15. PICK TS, ES : TS = {TenantRows(t) : t \in s.tenants} /\ ES = {Earlier(a) : a \in s.earlier} OBVIOUS
<1>16. H = (UNION TS) \cup (UNION ES) BY <1>1, <1>4, <1>15
<1>5. ASSUME NEW a \in s.earlier PROVE Earlier(a) \subseteq H
  <2>1. Earlier(a) \in ES BY <1>5, <1>15
  <2>2. PICK E : E = Earlier(a) OBVIOUS
  <2>3. E \in ES BY <2>1, <2>2
  <2>4. E \subseteq H BY <1>16, <2>3
  <2>5. QED BY <2>2, <2>4
<1>6. ASSUME NEW a \in s.earlier
      PROVE  /\ \A e \in Earlier(a) : /\ Grounded(e, H) /\ Parented(e.fact, F) /\ e.fact.table # "tenants"
                                      /\ e.fact.table \notin {"projects", "work_item_sequence"}
             /\ \A e, f \in Earlier(a) : Clash(e.fact, f.fact) => e = f
  BY <1>3, <1>4, <1>5, <1>6, EarlierFit
<1>7. ASSUME NEW e \in hub
      PROVE  (\E t \in s.tenants : e \in TenantRows(t)) \/ (\E a \in s.earlier : e \in Earlier(a))
  <2>0. e \in H BY <1>4, <1>7
  <2>1. (\E T \in TS : e \in T) \/ (\E E \in ES : e \in E) BY <1>16, <2>0
  <2>2. (\E T \in TS : e \in T) => \E t \in s.tenants : e \in TenantRows(t)
    <3> SUFFICES ASSUME NEW T \in TS, e \in T PROVE \E t \in s.tenants : e \in TenantRows(t) OBVIOUS
    <3>1. PICK t \in s.tenants : T = TenantRows(t) BY <1>15
    <3>2. QED BY <3>1
  <2>3. (\E E \in ES : e \in E) => \E a \in s.earlier : e \in Earlier(a)
    <3> SUFFICES ASSUME NEW E \in ES, e \in E PROVE \E a \in s.earlier : e \in Earlier(a) OBVIOUS
    <3>1. PICK a \in s.earlier : E = Earlier(a) BY <1>15
    <3>2. QED BY <3>1
  <2>4. QED BY <2>1, <2>2, <2>3
<1>8. ASSUME NEW e \in hub PROVE Parented(e.fact, Facts(hub)) /\ Grounded(e, hub)
  <2>1. CASE \E t \in s.tenants : e \in TenantRows(t)
    <3>1. PICK t \in s.tenants : e \in TenantRows(t) BY <2>1
    <3>2. e.fact.table \in Free BY <3>1, TenantRowsFit DEF Free
    <3>3. Grounded(e, H) /\ Parented(e.fact, F) BY <3>2, FreeFits
    <3>4. QED BY <1>4, <3>3
  <2>2. CASE \E a \in s.earlier : e \in Earlier(a)
    <3>1. Grounded(e, H) /\ Parented(e.fact, F) BY <1>6, <2>2
    <3>2. QED BY <1>4, <3>1
  <2>3. QED BY <1>7, <1>8, <2>1, <2>2
<1>9. KeysHold
  <2> SUFFICES ASSUME NEW e \in hub, NEW f \in hub, Clash(e.fact, f.fact) PROVE e = f BY DEF KeysHold
  <2>1. {"tenants", "projects", "work_item_sequence"} \cap (Keyed \cup {"epoch_owners"}) = {} BY DEF Keyed
  <2>2. e.fact.table \in Keyed \cup {"epoch_owners"} /\ f.fact.table = e.fact.table BY DEF Clash
  <2>3. \A x \in hub : x.fact.table \in Keyed \cup {"epoch_owners"} => \E a \in s.earlier : x \in Earlier(a)
    BY <1>7, <2>1, TenantRowsFit
  <2>4. PICK a \in s.earlier : e \in Earlier(a) BY <2>2, <2>3
  <2>5. PICK b \in s.earlier : f \in Earlier(b) BY <2>2, <2>3
  <2>6. a = b BY <1>3
  <2>7. QED BY <1>6, <2>4, <2>5, <2>6
<1>10. ~tenanted => \A e \in hub : e.tenant = None BY <1>1, <1>3, <1>7
<1>11. None \notin HeldTenants
  <2> SUFFICES ASSUME NEW f \in Facts(hub), f.table = "tenants", f.id = None PROVE FALSE BY DEF HeldTenants
  <2>1. PICK e \in hub : e.fact = f BY DEF Facts
  <2>2. CASE \E t \in s.tenants : e \in TenantRows(t)
    <3>1. PICK t \in s.tenants : e \in TenantRows(t) BY <2>2
    <3>2. t = None BY <2>1, <3>1, TenantRowsFit
    <3>3. QED BY <1>3, <3>2, ColumnAssumption
  <2>3. CASE \E a \in s.earlier : e \in Earlier(a) BY <1>6, <2>1, <2>3
  <2>4. QED BY <1>7, <2>1, <2>2, <2>3
<1>12. HubInv BY <1>8, <1>9, <1>10, <1>11 DEF HubInv
<1>13. StepsInv
  <2>1. DOMAIN inv = Procs /\ \A p \in Procs : inv[p] = Idle BY <1>2
  <2>2. PICK ten, held, E : ten = tenanted /\ held = HeldTenants /\ E = runner.rows OBVIOUS
  <2>3. InFlight(Idle, ten, held, H) /\ Fleet(Idle, E, H) BY IdleFits
  <2>4. InFlight(Idle, tenanted, HeldTenants, hub) /\ Fleet(Idle, runner.rows, hub) BY <1>4, <2>2, <2>3
  <2>5. QED BY <2>1, <2>4 DEF StepsInv
<1>14. QED BY <1>2, <1>12, <1>13, SeqsInit DEF IInv

-----------------------------------------------------------------------------
(* Every step                                                                *)
LEMMA NextInv == ASSUME IInv, [Next]_vars PROVE IInv'
<1>1. ASSUME NEW p \in Procs, land(p) PROVE IInv' BY <1>1, LandStep
<1>2. ASSUME NEW p \in Procs, refuse(p) \/ crash(p) PROVE IInv'
  <2>1. inv' = [inv EXCEPT ![p] = Idle] /\ UNCHANGED <<tenanted, hub, runner, begun>> BY <1>2 DEF refuse, crash
  <2>2. QED BY <2>1, EndStep
<1>3. ASSUME NEW p \in Procs, NEW a \in GraphCalls, create_graph(p, a) PROVE IInv' BY <1>3, CreateGraphStep
<1>4. ASSUME NEW p \in Procs, NEW a \in ChunkCalls, create_chunk(p, a) PROVE IInv' BY <1>4, CreateChunkStep
<1>5. ASSUME NEW p \in Procs, CreateFact(p) PROVE IInv'
  <2>1. PICK a \in FactCalls :
          \/ create_artifact(p, a) \/ create_decision(p, a) \/ create_usage(p, a) \/ create_event(p, a)
          \/ create_escalation(p, a) \/ create_bounce(p, a) \/ create_question(p, a)
          \/ create_garden_proposal(p, a) BY <1>5 DEF CreateFact
  <2>2. CASE create_artifact(p, a) \/ create_decision(p, a) BY <2>2, ArtifactStep, DecisionStep
  <2>3. CASE create_usage(p, a) \/ create_event(p, a) BY <2>3, UsageStep, EventStep
  <2>4. CASE create_escalation(p, a) \/ create_bounce(p, a) BY <2>4, EscalationStep, BounceStep
  <2>5. CASE create_question(p, a) \/ create_garden_proposal(p, a) BY <2>5, QuestionStep, GardenStep
  <2>6. QED BY <2>1, <2>2, <2>3, <2>4, <2>5
<1>6. ASSUME NEW p \in Procs, CreateRunnerFact(p) PROVE IInv'
  <2>1. PICK a \in RunnerCalls :
          create_runner(p, a) \/ create_runner_pause(p, a) \/ create_transcript_segment(p, a)
    BY <1>6 DEF CreateRunnerFact
  <2>2. QED BY <2>1, RunnerStep, PauseStep, SegmentStep
<1>7. ASSUME NEW p \in Procs, NEW a \in LeaseCalls, create_lease(p, a) PROVE IInv' BY <1>7, CreateLeaseStep
<1>8. ASSUME NEW p \in Procs, NEW a \in BoardCalls, scenario_board(p, a) PROVE IInv' BY <1>8, BoardStep
<1>9. ASSUME NEW p \in Procs, NEW a \in FleetCalls, scenario_fleet(p, a) PROVE IInv' BY <1>9, FleetStep
<1>10. ASSUME NEW store, reset(store) PROVE IInv' BY <1>10, ResetStep
<1>11. ASSUME NEW r, daemon_registers(r) PROVE IInv' BY <1>11, RegisterStep
<1>12. ASSUME NEW t, daemon_adds_project(t) PROVE IInv' BY <1>12, ProjectStep
<1>13. CASE UNCHANGED vars
  <2>1. UNCHANGED <<tenanted, hub, runner, inv, begun>> BY <1>13 DEF vars
  <2>2. SeqsInv' BY <2>1, SeqsKept DEF IInv, SeqsInv, RunnerShape
  <2>3. HubInv' BY <2>1, HubSame DEF IInv
  <2>4. HeldTenants' = HeldTenants BY <2>1 DEF HeldTenants
  <2>5. StepsInv' BY <2>1, <2>4, AllFit DEF IInv
  <2>6. QED BY <2>1, <2>2, <2>3, <2>5 DEF IInv
<1>14. CASE Next
  BY <1>1, <1>2, <1>3, <1>4, <1>5, <1>6, <1>7, <1>8, <1>9, <1>10, <1>11, <1>12, <1>14 DEF Next
<1>15. QED BY <1>13, <1>14

(* The stores and the invocations stay as IInv says, whatever invocations,   *)
(* resets and daemons interleave and wherever one is killed.                 *)
THEOREM StoreInvariant == Spec => []IInv
<1>1. Init => IInv BY InitInv
<1>2. IInv /\ [Next]_vars => IInv' BY NextInv
<1>3. QED BY <1>1, <1>2, PTL DEF Spec

(* stamp_outbox: no outbox number is issued twice, for any number of         *)
(* runners and invocations.                                                  *)
THEOREM SeqsAreIssuedOnce == Spec => []SeqsIssuedOnce
<1>1. IInv => SeqsIssuedOnce BY DEF IInv, SeqsInv
<1>2. QED BY <1>1, StoreInvariant, PTL

-----------------------------------------------------------------------------
(* What was read holds                                                       *)

(* A chunk is on the one graph its row names.                                *)
LEMMA OneChunk ==
    ASSUME KeysHold, NEW e \in hub, NEW d \in hub, e.fact.table = "chunks", d.fact.table = "chunks",
           e.fact.id = d.fact.id
    PROVE  e = d
BY DEF KeysHold, Clash, Keyed
LEMMA ReadsHoldHere == ASSUME HubInv PROVE ReadsHold
<1>1. ReadsStayInTenant
  <2> SUFFICES ASSUME NEW e \in hub, e.fact.table \in {"chunks", "artifacts", "decisions"}
               PROVE  \E k \in hub : /\ k.fact.table = ParentTable(e.fact) /\ k.fact.id = e.fact.of
                                     /\ k.tenant = e.tenant
    BY DEF ReadsStayInTenant
  <2>1. Grounded(e, hub) BY DEF HubInv
  <2>2. CASE e.fact.table = "chunks"
    <3>1. ParentTable(e.fact) = "graphs" BY <2>2 DEF ParentTable, ChunkFacts
    <3>2. ParentHere(e, hub, "graphs") BY <2>1, <2>2 DEF Grounded
    <3>3. QED BY <3>1, <3>2 DEF ParentHere
  <2>3. CASE e.fact.table \in {"artifacts", "decisions"}
    <3>1. ParentTable(e.fact) = "chunks" BY <2>3 DEF ParentTable, ChunkFacts
    <3>2. ParentHere(e, hub, "chunks") BY <2>1, <2>3 DEF Grounded
    <3>3. QED BY <3>1, <3>2 DEF ParentHere
  <2>4. QED BY <2>2, <2>3
<1>2. NodesOfOwnGraph
  <2> DEFINE C == FactsIn({"chunks"})
             graphOf == [k \in {f.id : f \in C} |-> (CHOOSE f \in C : f.id = k).of]
             nodes == {<<n.id, n.of>> : n \in FactsIn({"graph_nodes"})}
  <2> SUFFICES ASSUME NEW f \in FactsIn({"transitions", "artifacts", "decisions"}), f.node # Done
               PROVE  <<f.node, graphOf[f.of]>> \in nodes
    BY DEF NodesOfOwnGraph
  <2>1. PICK e \in hub : e.fact = f /\ f.table \in {"transitions", "artifacts", "decisions"} BY DEF FactsIn
  <2>2. Grounded(e, hub) BY DEF HubInv
  <2>3. OwnNode(hub, f.of, f.node) BY <2>1, <2>2 DEF Grounded
  <2>4. PICK k \in hub : k.fact.table = "chunks" /\ k.fact.id = f.of /\ NodeOf(hub, k.fact.of, f.node)
    BY <2>3 DEF OwnNode
  <2>5. PICK n \in hub : n.fact.table = "graph_nodes" /\ n.fact.id = f.node /\ n.fact.of = k.fact.of
    BY <2>4 DEF NodeOf
  <2>6. k.fact \in C /\ f.of \in {g.id : g \in C} BY <2>4 DEF FactsIn
  <2>7. \A g \in C : g.id = f.of => g = k.fact
    <3> SUFFICES ASSUME NEW g \in C, g.id = f.of PROVE g = k.fact OBVIOUS
    <3>1. PICK d \in hub : d.fact = g /\ g.table = "chunks" BY DEF FactsIn
    <3>2. KeysHold BY DEF HubInv
    <3>3. QED BY <2>4, <3>1, <3>2, OneChunk
  <2>8. (CHOOSE g \in C : g.id = f.of) = k.fact BY <2>4, <2>6, <2>7
  <2>9. graphOf[f.of] = k.fact.of BY <2>6, <2>8
  <2>10. n.fact \in FactsIn({"graph_nodes"}) BY <2>5 DEF FactsIn
  <2> HIDE DEF graphOf
  <2>11. QED BY <2>5, <2>9, <2>10
<1>3. LeasesMatchOwners
  <2> SUFFICES ASSUME NEW l \in FactsIn({"lease_facts"}), NEW o \in FactsIn({"epoch_owners"}),
                      l.of = o.of, l.epoch = o.epoch
               PROVE  o.runner = OwnerOf(l.runner)
    BY DEF LeasesMatchOwners
  <2>1. PICK e \in hub : e.fact = l /\ l.table = "lease_facts" BY DEF FactsIn
  <2>2. PICK d \in hub : d.fact = o /\ o.table = "epoch_owners" BY DEF FactsIn
  <2>3. Grounded(e, hub) BY DEF HubInv
  <2>4. PICK x \in hub : /\ x.fact.table = "epoch_owners" /\ x.fact.of = l.of
                         /\ x.fact.epoch = l.epoch /\ x.fact.runner = OwnerOf(l.runner)
    BY <2>1, <2>3 DEF Grounded
  <2>5. Clash(x.fact, d.fact) BY <2>2, <2>4 DEF Clash
  <2>6. x = d BY <2>5 DEF HubInv, KeysHold
  <2>7. QED BY <2>2, <2>4, <2>6
<1>4. QED BY <1>1, <1>2, <1>3 DEF ReadsHold

(* What a verb read still holds of the rows it wrote from it, though it read *)
(* in a transaction of its own and other invocations landed in between.      *)
THEOREM ReadsHoldAlways == Spec => []ReadsHold
<1>1. IInv => ReadsHold BY ReadsHoldHere DEF IInv
<1>2. QED BY <1>1, StoreInvariant, PTL

-----------------------------------------------------------------------------
(* What a step may add                                                       *)

(* Only a landing adds a chunk to the hub or a row to the runner store.      *)
Calm == NewChunks = {} /\ runner'.rows \subseteq runner.rows
LEMMA CalmBegin ==
    ASSUME NEW p, NEW steps, NEW asked, NEW pinned, Begin(p, steps, asked, pinned) PROVE Calm
<1>1. hub' = hub /\ runner' = runner BY DEF Begin
<1>2. Facts(hub') \ Facts(hub) = {} BY <1>1
<1>3. QED BY <1>1, <1>2 DEF Calm, NewChunks
LEMMA CalmSeed ==
    ASSUME NEW p, NEW store, NEW tenant, NEW named, NEW rows, Seed(p, store, tenant, named, rows) PROVE Calm
BY CalmBegin DEF Seed
LEMMA CalmFact == ASSUME NEW p, CreateFact(p) PROVE Calm
<1>1. PICK a \in FactCalls :
        \/ create_artifact(p, a) \/ create_decision(p, a) \/ create_usage(p, a) \/ create_event(p, a)
        \/ create_escalation(p, a) \/ create_bounce(p, a) \/ create_question(p, a)
        \/ create_garden_proposal(p, a) BY DEF CreateFact
<1>2. CASE create_artifact(p, a) BY <1>2, CalmSeed DEF create_artifact
<1>3. CASE create_decision(p, a) BY <1>3, CalmSeed DEF create_decision
<1>4. CASE create_usage(p, a) BY <1>4, CalmSeed DEF create_usage
<1>5. CASE create_event(p, a) BY <1>5, CalmSeed DEF create_event
<1>6. CASE create_escalation(p, a) \/ create_bounce(p, a) BY <1>6, CalmSeed DEF create_escalation, create_bounce
<1>7. CASE create_question(p, a) BY <1>7, CalmSeed DEF create_question
<1>8. CASE create_garden_proposal(p, a) BY <1>8, CalmSeed DEF create_garden_proposal
<1>9. QED BY <1>1, <1>2, <1>3, <1>4, <1>5, <1>6, <1>7, <1>8
LEMMA CalmOthers ==
    ASSUME Next, ~ \E p \in Procs : land(p), IInv PROVE Calm
<1>1. ASSUME NEW p, refuse(p) \/ crash(p) PROVE Calm
  <2>1. hub' = hub /\ runner' = runner BY <1>1 DEF refuse, crash
  <2>2. QED BY <2>1 DEF Calm, NewChunks
<1>2. ASSUME NEW p, NEW a, create_graph(p, a) PROVE Calm BY <1>2, CalmSeed DEF create_graph
<1>3. ASSUME NEW p, NEW a, create_chunk(p, a) PROVE Calm
  <2>1. \E steps, asked : Begin(p, steps, asked, None) BY <1>3 DEF create_chunk
  <2>2. QED BY <2>1, CalmBegin
<1>4. ASSUME NEW p, CreateRunnerFact(p) PROVE Calm
  <2>1. PICK a \in RunnerCalls :
          create_runner(p, a) \/ create_runner_pause(p, a) \/ create_transcript_segment(p, a)
    BY <1>4 DEF CreateRunnerFact
  <2>2. CASE create_runner(p, a) BY <2>2, CalmSeed DEF create_runner
  <2>3. CASE create_runner_pause(p, a) BY <2>3, CalmSeed DEF create_runner_pause
  <2>4. CASE create_transcript_segment(p, a) BY <2>4, CalmSeed DEF create_transcript_segment
  <2>5. QED BY <2>1, <2>2, <2>3, <2>4
<1>5. ASSUME NEW p, NEW a, create_lease(p, a) PROVE Calm BY <1>5, CalmSeed DEF create_lease
<1>6. ASSUME NEW p, NEW a, scenario_board(p, a) PROVE Calm BY <1>6, CalmBegin DEF scenario_board
<1>7. ASSUME NEW p, NEW a, scenario_fleet(p, a) PROVE Calm BY <1>7, CalmBegin DEF scenario_fleet
<1>8. ASSUME NEW store, reset(store) PROVE Calm
  <2>1. hub' \subseteq hub BY <1>8 DEF reset
  <2>2. Facts(hub') \subseteq Facts(hub) BY <2>1, FactsOf
  <2>3. runner'.rows \subseteq runner.rows
    <3>1. runner' = runner \/ runner' = [rows |-> {}, identity |-> None, counter |-> NoCounters]
      BY <1>8 DEF reset
    <3>2. QED BY <3>1
  <2>4. QED BY <2>2, <2>3 DEF Calm, NewChunks
<1>9. ASSUME NEW r, daemon_registers(r) PROVE Calm
  <2>1. runner' = [runner EXCEPT !.identity = r] BY <1>9 DEF daemon_registers
  <2>2. runner'.rows = runner.rows BY <2>1 DEF IInv, SeqsInv, RunnerShape
  <2>3. PICK e : hub' \subseteq hub \cup {e} /\ e.fact = Registration(r, TRUE, 0)
    <3> DEFINE at == IF tenanted THEN CHOOSE t \in HeldTenants : TRUE ELSE None
    <3> HIDE DEF at
    <3>1. PICK e : e = [fact |-> Registration(r, TRUE, 0), tenant |-> at] OBVIOUS
    <3>2. hub' = hub \/ hub' = hub \cup {e} BY <1>9, <3>1 DEF daemon_registers, at
    <3>3. e.fact = Registration(r, TRUE, 0) BY <3>1
    <3>4. QED BY <3>2, <3>3
  <2>4. e.fact.table # "chunks" BY <2>3 DEF Registration, Fact
  <2>5. \A f \in Facts(hub') : f \in Facts(hub) \/ f = e.fact BY <2>3 DEF Facts
  <2>6. NewChunks = {} BY <2>4, <2>5 DEF NewChunks
  <2>7. QED BY <2>2, <2>6 DEF Calm
<1>10. ASSUME NEW t, daemon_adds_project(t) PROVE Calm
  <2>1. PICK e : e = [fact |-> [Fact("projects", None, None, 0) EXCEPT !.tag = "second"], tenant |-> t] OBVIOUS
  <2>2. hub' = hub \cup {e} /\ runner' = runner BY <1>10, <2>1 DEF daemon_adds_project
  <2>3. e.fact.table # "chunks" BY <2>1 DEF Fact
  <2>4. \A f \in Facts(hub') : f \in Facts(hub) \/ f = e.fact BY <2>2 DEF Facts
  <2>5. NewChunks = {} BY <2>3, <2>4 DEF NewChunks
  <2>6. QED BY <2>2, <2>5 DEF Calm
<1>11. QED
  BY <1>1, <1>2, <1>3, <1>4, <1>5, <1>6, <1>7, <1>8, <1>9, <1>10, CalmFact DEF Next
LEMMA MovesByLanding ==
    ASSUME IInv, [Next]_vars, ~Calm PROVE \E p \in Procs : land(p)
<1>1. CASE Next BY <1>1, CalmOthers
<1>2. CASE UNCHANGED vars
  <2>1. hub' = hub /\ runner' = runner BY <1>2 DEF vars
  <2>2. QED BY <2>1 DEF Calm, NewChunks
<1>3. QED BY <1>1, <1>2

-----------------------------------------------------------------------------
(* A fleet cut short                                                         *)

(* A landing's hand-over is the next of an invocation that fits the hub.     *)
LEMMA Landing ==
    ASSUME IInv, NEW p \in Procs, land(p), NEW x, x = inv[p]
    PROVE  /\ x.steps # << >> /\ Takes(x.steps[1]) /\ x.steps[1].rows # Refused
           /\ Fits(x.steps[1], x.asked, tenanted, HeldTenants, hub)
           /\ \A q \in Procs : inv'[q] # inv[q] => q = p
           /\ x.steps[1].store # "hub" =>
                 hub' = hub /\ \A e \in runner'.rows \ runner.rows : e.fact \in Rows(x.steps[1].rows)
           /\ x.steps[1].store = "hub" =>
                 /\ runner' = runner /\ HubInv'
                 /\ hub' = hub \cup Written(x.steps[1], tenanted, HeldTenants)
<1>1. PICK ten, held, H : ten = tenanted /\ held = HeldTenants /\ H = hub OBVIOUS
<1>2. InFlight(x, ten, held, H) BY <1>1 DEF IInv, StepsInv
<1>3. x.steps # << >> BY DEF land, Flying
<1>4. PICK s : s = x.steps[1] OBVIOUS
<1>5. s = Head(x.steps) /\ Fits(s, x.asked, ten, held, H) BY <1>2, <1>3, <1>4, NextStep
<1>6. Takes(s) /\ s.rows # Refused BY <1>5 DEF land, Takes
<1>7. \A q \in Procs : inv'[q] # inv[q] => q = p
  <2>1. inv' = [inv EXCEPT ![p] = HandedOver(inv[p])] /\ DOMAIN inv = Procs BY DEF land, IInv, StepsInv
  <2>2. QED BY <2>1
<1>8. ASSUME s.store # "hub"
      PROVE  hub' = hub /\ \A e \in runner'.rows \ runner.rows : e.fact \in Rows(s.rows)
  <2>1. PICK r : r = RunnerFor(s.named) OBVIOUS
  <2>2. hub' = hub /\ runner' = [rows |-> runner.rows \cup Assigned(s.rows, r),
                                 identity |-> runner.identity, counter |-> Advanced(s.rows, r)]
    BY <1>5, <1>8, <2>1 DEF land
  <2>3. runner'.rows = runner.rows \cup Assigned(s.rows, r) BY <2>2
  <2>4. \A e \in Assigned(s.rows, r) : e.fact \in Rows(s.rows) BY DEF Assigned, Rows
  <2>5. QED BY <2>2, <2>3, <2>4
<1>9. ASSUME s.store = "hub"
      PROVE  /\ runner' = runner /\ HubInv' /\ hub' = hub \cup Written(s, tenanted, HeldTenants)
  <2>1. /\ runner' = runner /\ tenanted' = tenanted /\ HubTakes(s)
        /\ hub' = hub \cup Stamped(s.rows, TenantFor({f.table : f \in Rows(s.rows)}, s.tenant))
    BY <1>5, <1>6, <1>9 DEF land, Takes
  <2>2. Fits(s, x.asked, tenanted, HeldTenants, hub) BY <1>1, <1>5
  <2>3. HubInv BY DEF IInv
  <2>4. QED BY <1>6, <1>9, <2>1, <2>2, <2>3, HubLands
<1>10. QED BY <1>1, <1>3, <1>4, <1>5, <1>6, <1>7, <1>8, <1>9

LEMMA StepStores ==
    /\ \A r, stream : BrakeStep(r, stream).store = "runner" /\ MirrorStep(r, stream).store = "runner"
    /\ \A r, stream : BrakeStep(r, stream).rows = compose_local_pause(Instant(stream, 0))
    /\ \A r, stream : MirrorStep(r, stream).rows = FleetRows(stream, "escalated")
BY DEF BrakeStep, MirrorStep, Step
(* The pinned fleet's next hand-over: its board under the brake, or rows of  *)
(* the runner's half that are about no chunk or about one the hub holds.     *)
LEMMA FleetNext ==
    ASSUME NEW x, NEW E, NEW H, Fleet(x, E, H), x.pinned # None, NEW s, s = x.steps[1]
    PROVE  /\ s.store = "hub" => Braked(x.pinned, E)
           /\ s.store # "hub" => \A f \in Rows(s.rows) : f.of # None => HoldsChunk(f.of, H)
<1>1. PICK r, stream, board, tenant :
        /\ r = x.pinned
        /\ \/ x.steps = << BrakeStep(r, stream), Step("hub", tenant, None, board), MirrorStep(r, stream) >>
           \/ x.steps = << Step("hub", tenant, None, board), MirrorStep(r, stream) >> /\ Braked(r, E)
           \/ /\ x.steps = << MirrorStep(r, stream) >>
              /\ \A i \in {3, 4} : HoldsChunk(BoardChunk(stream, i), H)
  BY DEF Fleet
<1>2. PICK brake, onboard, mirror :
        brake = BrakeStep(r, stream) /\ onboard = Step("hub", tenant, None, board) /\ mirror = MirrorStep(r, stream)
  OBVIOUS
<1>3. brake.store = "runner" /\ mirror.store = "runner" /\ onboard.store = "hub" BY <1>2, StepStores DEF Step
<1>4. CASE x.steps = << brake, onboard, mirror >>
  <2>1. s = brake BY <1>4, TailsOf
  <2>2. PICK f : f = Fact("local_pause_facts", None, None, Instant(stream, 0)) OBVIOUS
  <2>3. s.rows = << f >> BY <1>2, <2>1, <2>2, StepStores DEF compose_local_pause
  <2>4. Rows(s.rows) = {f} /\ f.of = None BY <2>2, <2>3, TupleRows DEF Fact
  <2>5. QED BY <1>3, <2>1, <2>4
<1>5. CASE x.steps = << onboard, mirror >> /\ Braked(r, E)
  <2>1. s = onboard BY <1>5, TailsOf
  <2>2. QED BY <1>1, <1>3, <1>5, <2>1
<1>6. CASE x.steps = << mirror >> /\ \A i \in {3, 4} : HoldsChunk(BoardChunk(stream, i), H)
  <2>1. s = mirror BY <1>6, TailsOf
  <2>2. PICK R : R = FleetRows(stream, "escalated") OBVIOUS
  <2>3. s.rows = R BY <1>2, <2>1, <2>2, StepStores
  <2>4. \A f \in Rows(R) : f.of \in {BoardChunk(stream, 3), BoardChunk(stream, 4)} BY <2>2, MirrorRows
  <2>5. HoldsChunk(BoardChunk(stream, 3), H) /\ HoldsChunk(BoardChunk(stream, 4), H) BY <1>6
  <2>6. QED BY <1>3, <2>1, <2>3, <2>4, <2>5
<1>7. QED BY <1>1, <1>2, <1>4, <1>5, <1>6

(* scenario fleet may be cut after any of its three writes: its board lands  *)
(* only under its runner's brake, and its mirror only on chunks the hub      *)
(* holds, whatever lands or is reset in between.                             *)
THEOREM CutFleetIsAlwaysSafe == Spec => CutFleetIsSafe
<1> DEFINE Brakes == \A p \in Procs : inv[p].pinned # None /\ NewChunks # {} /\ inv'[p] # inv[p] =>
              \E e \in runner.rows : e.fact.table = "local_pause_facts" /\ e.runner = inv[p].pinned
           Mirrors == \A p \in Procs : inv[p].pinned # None /\ inv'[p] # inv[p] =>
              \A e \in runner'.rows \ runner.rows : e.fact.of # None =>
                  \E f \in Facts(hub) : f.table = "chunks" /\ f.id = e.fact.of
<1>1. ASSUME IInv, [Next]_vars PROVE Brakes
  <2> SUFFICES ASSUME NEW p \in Procs, inv[p].pinned # None, NewChunks # {}, inv'[p] # inv[p]
               PROVE  \E e \in runner.rows : e.fact.table = "local_pause_facts" /\ e.runner = inv[p].pinned
    OBVIOUS
  <2>1. PICK q \in Procs : land(q) BY <1>1, MovesByLanding DEF Calm
  <2>2. PICK x, E, H, s : x = inv[q] /\ E = runner.rows /\ H = hub /\ s = x.steps[1] OBVIOUS
  <2>3. /\ \A d \in Procs : inv'[d] # inv[d] => d = q
        /\ s.store # "hub" => hub' = hub BY <1>1, <2>1, <2>2, Landing
  <2>4. p = q BY <2>3
  <2>5. s.store = "hub"
    <3>1. hub' # hub BY DEF NewChunks
    <3>2. QED BY <2>3, <3>1
  <2>6. Fleet(x, E, H) BY <1>1, <2>2 DEF IInv, StepsInv
  <2>7. Braked(x.pinned, E) BY <2>2, <2>4, <2>5, <2>6, FleetNext
  <2>8. QED BY <2>2, <2>4, <2>7 DEF Braked
<1>2. ASSUME IInv, [Next]_vars PROVE Mirrors
  <2> SUFFICES ASSUME NEW p \in Procs, inv[p].pinned # None, inv'[p] # inv[p],
                      NEW e \in runner'.rows, e \notin runner.rows, e.fact.of # None
               PROVE  \E f \in Facts(hub) : f.table = "chunks" /\ f.id = e.fact.of
    OBVIOUS
  <2>1. PICK q \in Procs : land(q) BY <1>2, MovesByLanding DEF Calm
  <2>2. PICK x, E, H, s, ff : x = inv[q] /\ E = runner.rows /\ H = hub /\ s = x.steps[1] /\ ff = e.fact OBVIOUS
  <2>3. /\ \A d \in Procs : inv'[d] # inv[d] => d = q
        /\ s.store # "hub" => \A d \in runner'.rows \ runner.rows : d.fact \in Rows(s.rows)
        /\ s.store = "hub" => runner' = runner BY <1>2, <2>1, <2>2, Landing
  <2>4. p = q BY <2>3
  <2>5. s.store # "hub" BY <2>3
  <2>6. ff \in Rows(s.rows) /\ ff.of # None BY <2>2, <2>3, <2>5
  <2>7. Fleet(x, E, H) BY <1>2, <2>2 DEF IInv, StepsInv
  <2>8. HoldsChunk(ff.of, H) BY <2>2, <2>4, <2>5, <2>6, <2>7, FleetNext
  <2>9. QED BY <2>2, <2>8 DEF HoldsChunk, Facts
<1>3. IInv /\ [Next]_vars => [Brakes]_vars /\ [Mirrors]_vars BY <1>1, <1>2
<1>4. Spec => [][Brakes]_vars /\ [][Mirrors]_vars BY <1>3, StoreInvariant, PTL DEF Spec
<1>5. QED BY <1>4 DEF CutFleetIsSafe, BoardLandsBraked, MirrorsHeldChunks

-----------------------------------------------------------------------------
(* A chunk lands at the status it was asked for                              *)

(* A row that hangs on a chunk, or an answer, has it among the facts.        *)
LEMMA ParentsThere ==
    ASSUME NEW F, NEW f, Parented(f, F)
    PROVE  /\ f.table \in ChunkFacts => \E g \in F : g.table = "chunks" /\ g.id = f.of
           /\ f.table = "question_answers" => \E g \in F : g.table = "questions" /\ g.id = f.of
<1>1. f.table \in ChunkFacts => ParentTable(f) = "chunks" /\ f.table # "event_log" BY DEF ParentTable, ChunkFacts
<1>2. f.table = "question_answers" => ParentTable(f) = "questions" BY DEF ParentTable, ChunkFacts
<1>3. QED BY <1>1, <1>2 DEF Parented

(* A chunk whose rows the store takes is new to what the hub held.           *)
LEMMA NewHere ==
    ASSUME HubInv, HubInv', NEW F, F = Facts(hub), NEW R, Facts(hub') = F \cup R,
           \A f \in R, g \in F : ~Clash(f, g), NEW c \in R, c.table = "chunks"
    PROVE  NewTo(F, R, c)
<1>1. ASSUME NEW f \in F, f.table \in ChunkFacts, f.of = c.id PROVE FALSE
  <2>1. Parented(f, F) BY DEF HubInv, Facts
  <2>2. PICK g \in F : g.table = "chunks" /\ g.id = c.id BY <1>1, <2>1, ParentsThere
  <2>3. Clash(c, g) BY <2>2 DEF Clash, Keyed
  <2>4. QED BY <2>3
<1>2. ASSUME NEW q \in R, NEW a \in F, q.table = "questions", a.table = "question_answers", a.of = q.id PROVE FALSE
  <2>1. Parented(a, F) BY DEF HubInv, Facts
  <2>2. PICK g \in F : g.table = "questions" /\ g.id = q.id BY <1>2, <2>1, ParentsThere
  <2>3. Clash(q, g) BY <1>2, <2>2 DEF Clash, Keyed
  <2>4. QED BY <2>3
<1>3. PICK K : K = hub' OBVIOUS
<1>4. \A e \in K : Grounded(e, K) BY <1>3 DEF HubInv
<1>5. Facts(K) = F \cup R BY <1>3
<1>6. ASSUME NEW n \in F \cup R, n.table = "graph_nodes"
      PROVE  n.of \in Int /\ n.tag \in Names /\ n.id = NodeId(n.of, n.tag)
  <2>1. PICK e \in K : e.fact = n BY <1>5 DEF Facts
  <2>2. QED BY <1>4, <1>6, <2>1 DEF Grounded
<1>7. \E n \in F \cup R : n.table = "graph_nodes" /\ n.of = c.of /\ n.tag = "deliver"
  <2>1. PICK e \in K : e.fact = c BY <1>5 DEF Facts
  <2>2. ParentHere(e, K, "graphs") BY <1>4, <2>1 DEF Grounded
  <2>3. PICK g \in K : g.fact.table = "graphs" /\ g.fact.id = c.of BY <2>1, <2>2 DEF ParentHere
  <2>4. c.of \in Int /\ NodeOf(K, c.of, NodeId(c.of, "deliver")) BY <1>4, <2>3 DEF Grounded
  <2>5. PICK n \in K : n.fact.table = "graph_nodes" /\ n.fact.id = NodeId(c.of, "deliver") /\ n.fact.of = c.of
    BY <2>4 DEF NodeOf
  <2>6. n.fact \in F \cup R BY <1>5 DEF Facts
  <2>7. n.fact.tag \in Names /\ NodeId(c.of, n.fact.tag) = NodeId(c.of, "deliver") BY <1>6, <2>5, <2>6
  <2>8. n.fact.tag = "deliver" BY <2>4, <2>7, NodesApart DEF Names
  <2>9. QED BY <2>5, <2>6, <2>8
<1>8. QED BY <1>1, <1>2, <1>6, <1>7 DEF NewTo

(* compose_chunk against the hub's own projection: whatever the hub held, a  *)
(* chunk derives what it was asked for the moment its rows land, alone, on a *)
(* board of any size, or pinned and mirrored on a fleet's board.             *)
THEOREM ChunksLandAsAsked == Spec => LandsAsAsked
<1> DEFINE Asked == \A c \in NewChunks : \E p \in Procs :
              /\ c.id \in DOMAIN inv[p].asked
              /\ DerivedStatus(Facts(hub'), c.id) = inv[p].asked[c.id]
<1>1. ASSUME IInv, [Next]_vars PROVE Asked
  <2> SUFFICES ASSUME NEW c \in NewChunks
               PROVE  \E p \in Procs : /\ c.id \in DOMAIN inv[p].asked
                                       /\ DerivedStatus(Facts(hub'), c.id) = inv[p].asked[c.id]
    OBVIOUS
  <2>1. PICK p \in Procs : land(p) BY <1>1, MovesByLanding DEF Calm
  <2>2. PICK x, H, K, F, s, ten, held :
          /\ x = inv[p] /\ H = hub /\ K = hub' /\ F = Facts(hub) /\ s = x.steps[1]
          /\ ten = tenanted /\ held = HeldTenants
    OBVIOUS
  <2>3. PICK R : R = Rows(s.rows) OBVIOUS
  <2>4. /\ Takes(s) /\ s.rows # Refused /\ Fits(s, x.asked, ten, held, H)
        /\ s.store # "hub" => hub' = hub
        /\ s.store = "hub" => HubInv' /\ K = H \cup Written(s, ten, held)
    BY <1>1, <2>1, <2>2, Landing
  <2>5. c \in Facts(hub') /\ c \notin F /\ c.table = "chunks" BY <2>2 DEF NewChunks
  <2>6. s.store = "hub" BY <2>2, <2>4, <2>5
  <2>7. Facts(hub') = F \cup R
    <3>1. PICK t : t = TenantOf(s, ten, held) OBVIOUS
    <3>2. Facts(Stamped(s.rows, t)) = R BY <2>3, FactsOf
    <3>3. Facts(K) = Facts(H) \cup Facts(Stamped(s.rows, t)) BY <2>4, <2>6, <3>1, FactsOf DEF Written
    <3>4. QED BY <2>2, <3>2, <3>3
  <2>8. c \in R BY <2>5, <2>7
  <2>9. c.id \in DOMAIN x.asked /\ Derives(R, c, x.asked[c.id]) BY <2>3, <2>4, <2>5, <2>6, <2>8 DEF Fits
  <2>10. \A f \in R, g \in F : ~Clash(f, g)
    <3>1. Clashing(s.rows, Facts(hub)) = {} BY <2>4, <2>6 DEF Takes, HubTakes
    <3>2. QED BY <2>2, <2>3, <3>1 DEF Clashing, Rows
  <2>11. HubInv /\ HubInv' BY <1>1, <2>4, <2>6 DEF IInv
  <2>12. NewTo(F, R, c) BY <2>2, <2>5, <2>7, <2>8, <2>10, <2>11, NewHere
  <2>13. DerivedStatus(F \cup R, c.id) = x.asked[c.id] BY <2>9, <2>12 DEF Derives
  <2>14. QED BY <2>2, <2>7, <2>9, <2>13
<1>2. IInv /\ [Next]_vars => [Asked]_vars BY <1>1
<1>3. Spec => [][Asked]_vars BY <1>2, StoreInvariant, PTL DEF Spec
<1>4. QED BY <1>3 DEF LandsAsAsked
-----------------------------------------------------------------------------
(* Types                                                                     *)

(* A hub with tenants holds one, and stamps with one it holds what a tenant  *)
(* owns; a runner store's rows are a runner's, the outbox rows and no others *)
(* numbered; a hand-over to a runner store names a runner or none.           *)
StampFor(f) == IF tenanted /\ f.table \notin GlobalTables THEN HeldTenants ELSE {None}
HubTyped ==
    /\ tenanted \in BOOLEAN /\ (tenanted => HeldTenants # {})
    /\ \A e \in hub : e.tenant \in StampFor(e.fact)
RunnerTyped ==
    /\ \A e \in runner.rows : e.runner \in Runners /\ (e.seq > 0 <=> LaneOf(e.fact.table) \in Lanes)
    /\ runner.identity \in Runners \cup {None}
Handed(s) == s.store \in {"hub", "runner"} /\ (s.store = "runner" => s.named \in Runners \cup {None})
StepsTyped == \A p \in Procs : \A i \in DOMAIN inv[p].steps : Handed(inv[p].steps[i])
Typed == begun <= MaxInvocations /\ HubTyped /\ RunnerTyped /\ StepsTyped

LEMMA LanesOf == \A table : LaneOf(table) = "none" \/ LaneOf(table) \in Lanes
<1>1. DOMAIN Laned = {"outbound_buffer", "transcript_outbound_buffer"} BY DEF Laned
<1>2. Laned["outbound_buffer"] = "outbound" /\ Laned["transcript_outbound_buffer"] = "transcript" BY DEF Laned
<1>3. QED BY <1>1, <1>2 DEF LaneOf, Lanes

(* The tenant a write resolves to is one the hub holds.                      *)
LEMMA StampHeld ==
    ASSUME HubTyped, NEW tables, NEW named, NEW t, t = TenantFor(tables, named), t # Refused,
           NEW f, f.table \in tables
    PROVE  StampOf(f, t) \in StampFor(f)
<1>1. CASE f.table \in GlobalTables BY <1>1 DEF StampOf, StampFor
<1>2. CASE f.table \notin GlobalTables
  <2>1. t = ResolveTenant(named) /\ StampOf(f, t) = t BY <1>2 DEF TenantFor, StampOf
  <2>2. CASE ~tenanted BY <2>1, <2>2 DEF ResolveTenant, StampFor
  <2>3. CASE tenanted
    <3>1. t \in HeldTenants BY <2>1, <2>3 DEF ResolveTenant, HubTyped
    <3>2. QED BY <1>2, <2>1, <2>3, <3>1 DEF StampFor
  <2>4. QED BY <2>2, <2>3
<1>3. QED BY <1>1, <1>2

(* A hub that holds the tenants it held is typed if what is new in it is.    *)
LEMMA HubTypedStays ==
    ASSUME HubTyped, tenanted' = tenanted, HeldTenants' = HeldTenants,
           \A e \in hub' : e \in hub \/ e.tenant \in StampFor(e.fact)
    PROVE  HubTyped'
<1>1. \A f : StampFor(f)' = StampFor(f) BY DEF StampFor
<1>2. QED BY <1>1 DEF HubTyped
LEMMA BeginTyped ==
    ASSUME IInv, Typed, NEW p \in Procs, NEW steps, NEW asked, NEW pinned, Begin(p, steps, asked, pinned),
           \A i \in DOMAIN steps : Handed(steps[i])
    PROVE  Typed'
<1>1. UNCHANGED <<tenanted, hub, runner>> /\ begun' = begun + 1 /\ begun < MaxInvocations
      /\ inv' = [inv EXCEPT ![p] = [steps |-> steps, asked |-> asked, pinned |-> pinned]]
  BY DEF Begin
<1>2. HeldTenants' = HeldTenants BY <1>1 DEF HeldTenants
<1>3. HubTyped' BY <1>1, <1>2, HubTypedStays DEF Typed
<1>4. RunnerTyped' BY <1>1 DEF Typed, RunnerTyped
<1>5. StepsTyped' BY <1>1 DEF Typed, StepsTyped
<1>6. begun' <= MaxInvocations BY <1>1, StoreAssumption DEF IInv
<1>7. QED BY <1>3, <1>4, <1>5, <1>6 DEF Typed
LEMMA SeedTyped ==
    ASSUME IInv, Typed, NEW p \in Procs, NEW store, NEW tenant, NEW named, NEW rows,
           Seed(p, store, tenant, named, rows), store \in {"hub", "runner"},
           store = "runner" => named \in Runners \cup {None}
    PROVE  Typed'
<1>1. PICK s : s = Step(store, tenant, named, rows) OBVIOUS
<1>2. Begin(p, << s >>, Idle.asked, None) BY <1>1 DEF Seed
<1>3. Handed(s) BY <1>1 DEF Handed, Step
<1>4. DOMAIN << s >> = {1} /\ << s >>[1] = s OBVIOUS
<1>5. \A i \in DOMAIN << s >> : Handed(<< s >>[i]) BY <1>3, <1>4
<1>6. QED BY <1>2, <1>5, BeginTyped

(* land.                                                                     *)
LEMMA RowsNumbered ==
    ASSUME IInv, Typed, NEW rows, IsSeq(rows), NEW r \in Runners, NEW e \in Assigned(rows, r)
    PROVE  e.runner \in Runners /\ (e.seq > 0 <=> LaneOf(e.fact.table) \in Lanes)
<1>1. PICK i \in DOMAIN rows : e = [fact |-> rows[i], runner |-> r, seq |-> AssignedSeq(rows, r, i)]
  BY DEF Assigned
<1>2. PICK n : n = Len(rows) /\ n \in Nat /\ DOMAIN rows = 1 .. n BY SeqParts
<1>3. PICK lane : lane = LaneOf(rows[i].table) OBVIOUS
<1>4. e.runner = r /\ e.seq = AssignedSeq(rows, r, i) /\ LaneOf(e.fact.table) = lane BY <1>1, <1>3
<1>5. CASE lane = "none"
  <2>1. e.seq = 0 BY <1>3, <1>4, <1>5 DEF AssignedSeq
  <2>2. lane \notin Lanes BY <1>5 DEF Lanes
  <2>3. QED BY <1>4, <2>1, <2>2
<1>6. CASE lane # "none"
  <2>1. lane \in Lanes BY <1>3, <1>6, LanesOf
  <2>2. LastIssued(r, lane) \in Nat BY <2>1, LastIs DEF IInv
  <2>3. PICK k : k = Cardinality(LaneRows(rows, lane, i)) OBVIOUS
  <2>4. k \in Nat /\ k > 0
    <3>1. i \in 1 .. n /\ i \in 0 .. n BY <1>2
    <3>2. QED BY <1>2, <1>3, <2>3, <3>1, LaneCount
  <2>5. e.seq = LastIssued(r, lane) + k BY <1>3, <1>4, <1>6, <2>3 DEF AssignedSeq
  <2>6. e.seq > 0 BY <2>2, <2>4, <2>5
  <2>7. QED BY <1>4, <2>1, <2>6
<1>7. QED BY <1>5, <1>6
LEMMA LandTyped == ASSUME IInv, Typed, NEW p \in Procs, land(p) PROVE Typed'
<1>1. PICK x, s : x = inv[p] /\ s = x.steps[1] OBVIOUS
<1>2. PICK ten, held, H : ten = tenanted /\ held = HeldTenants /\ H = hub OBVIOUS
<1>3. InFlight(x, ten, held, H) BY <1>1, <1>2 DEF IInv, StepsInv
<1>4. x.steps # << >> BY <1>1 DEF land, Flying
<1>5. Head(x.steps) = s /\ Len(x.steps) \in Nat \ {0} /\ Fits(s, x.asked, ten, held, H)
  BY <1>1, <1>3, <1>4, NextStep
<1>6. IsSeq(x.steps) BY <1>3 DEF InFlight
<1>7. DOMAIN x.steps = 1 .. Len(x.steps) BY <1>6, SeqParts
<1>8. Handed(s) BY <1>1, <1>5, <1>7 DEF Typed, StepsTyped
<1>9. Takes(s) /\ s.rows # Refused /\ IsSeq(s.rows) BY <1>1, <1>5 DEF land, Takes, Fits
<1>10. inv' = [inv EXCEPT ![p] = HandedOver(x)] /\ tenanted' = tenanted /\ begun' = begun BY <1>1 DEF land
<1>11. StepsTyped'
  <2>1. ASSUME NEW i \in DOMAIN HandedOver(x).steps PROVE Handed(HandedOver(x).steps[i])
    <3>1. CASE Len(x.steps) = 1
      <4>1. HandedOver(x).steps = << >> BY <3>1 DEF HandedOver, Idle
      <4>2. QED BY <2>1, <4>1
    <3>2. CASE Len(x.steps) # 1
      <4>1. HandedOver(x).steps = Tail(x.steps) BY <3>2 DEF HandedOver
      <4>2. PICK y, n, S : y = x.steps /\ n = Len(y) /\ y \in Seq(S) BY <1>6 DEF IsSeq
      <4>3. n \in Nat \ {0, 1} BY <1>5, <3>2, <4>2
      <4>4. DOMAIN Tail(y) = 1 .. n - 1 /\ \A j \in 1 .. n - 1 : Tail(y)[j] = y[j + 1] BY <4>2, <4>3
      <4>5. i \in 1 .. n - 1 /\ HandedOver(x).steps[i] = y[i + 1] BY <2>1, <4>1, <4>2, <4>4
      <4>6. i + 1 \in 1 .. n BY <4>3, <4>5
      <4>7. Handed(y[i + 1]) BY <1>1, <1>7, <4>2, <4>6 DEF Typed, StepsTyped
      <4>8. QED BY <4>5, <4>7
    <3>3. QED BY <3>1, <3>2
  <2>2. PICK y : y = HandedOver(x) OBVIOUS
  <2>3. inv' = [inv EXCEPT ![p] = y] /\ DOMAIN inv = Procs BY <1>10, <2>2 DEF IInv, StepsInv
  <2>4. \A i \in DOMAIN y.steps : Handed(y.steps[i]) BY <2>1, <2>2
  <2>5. QED BY <2>3, <2>4 DEF Typed, StepsTyped
<1>12. CASE s.store = "hub"
  <2>1. PICK tables, t : tables = {f.table : f \in Rows(s.rows)} /\ t = TenantFor(tables, s.tenant) OBVIOUS
  <2>2. hub' = hub \cup Stamped(s.rows, t) /\ runner' = runner BY <1>1, <1>5, <1>12, <2>1 DEF land
  <2>3. HubTakes(s) BY <1>9, <1>12 DEF Takes
  <2>4. t # Refused BY <2>1, <2>3 DEF HubTakes
  <2>5. HeldTenants' = HeldTenants
    <3>1. \A f \in Rows(s.rows) : f.table # "tenants" BY <1>5, <1>9, <1>12 DEF Fits
    <3>2. Facts(hub') = Facts(hub) \cup Rows(s.rows) BY <2>2, FactsOf
    <3>3. QED BY <3>1, <3>2 DEF HeldTenants
  <2>6. \A e \in Stamped(s.rows, t) : e.tenant \in StampFor(e.fact)
    <3> SUFFICES ASSUME NEW e \in Stamped(s.rows, t) PROVE e.tenant \in StampFor(e.fact) OBVIOUS
    <3>1. PICK f \in Rows(s.rows) : e = [fact |-> f, tenant |-> StampOf(f, t)] BY DEF Stamped
    <3>2. e.fact = f /\ e.tenant = StampOf(f, t) BY <3>1
    <3>3. f.table \in tables BY <2>1
    <3>4. StampOf(f, t) \in StampFor(f) BY <2>1, <2>4, <3>3, StampHeld DEF Typed
    <3>5. QED BY <3>2, <3>4
  <2>7. HubTyped' BY <1>10, <2>2, <2>5, <2>6, HubTypedStays DEF Typed
  <2>8. RunnerTyped' BY <2>2 DEF Typed, RunnerTyped
  <2>9. QED BY <1>10, <1>11, <2>7, <2>8 DEF Typed
<1>13. CASE s.store # "hub"
  <2>1. PICK r : r = RunnerFor(s.named) OBVIOUS
  <2>2. hub' = hub /\ runner' = [rows |-> runner.rows \cup Assigned(s.rows, r),
                                 identity |-> runner.identity, counter |-> Advanced(s.rows, r)]
    BY <1>1, <1>5, <1>13, <2>1 DEF land
  <2>3. r \in Runners
    <3>1. RunnerTakes(s) BY <1>9, <1>13 DEF Takes
    <3>2. r \notin {None, Refused} BY <2>1, <3>1 DEF RunnerTakes
    <3>3. s.named \in Runners \cup {None} BY <1>8, <1>13 DEF Handed
    <3>4. r = runner.identity \/ r = s.named BY <2>1, <3>2 DEF RunnerFor
    <3>5. QED BY <3>2, <3>3, <3>4 DEF Typed, RunnerTyped
  <2>4. runner'.rows = runner.rows \cup Assigned(s.rows, r) /\ runner'.identity = runner.identity BY <2>2
  <2>5. \A e \in Assigned(s.rows, r) : e.runner \in Runners /\ (e.seq > 0 <=> LaneOf(e.fact.table) \in Lanes)
    BY <1>9, <2>3, RowsNumbered
  <2>6. RunnerTyped' BY <2>4, <2>5 DEF Typed, RunnerTyped
  <2>7. HeldTenants' = HeldTenants BY <2>2 DEF HeldTenants
  <2>8. HubTyped' BY <1>10, <2>2, <2>7, HubTypedStays DEF Typed
  <2>9. QED BY <1>10, <1>11, <2>6, <2>8 DEF Typed
<1>14. QED BY <1>12, <1>13
(* An invocation begins, to write into a hub, a runner store, or both.       *)
LEMMA ChunkStepsTyped ==
    ASSUME IInv, Typed, NEW p \in Procs, NEW a, NEW g, NEW nodes, NEW stream, NEW draw, NEW v, Handed(v),
           NEW first \in {<< >>, << v >>}, NEW y, y = ChunkSteps(a, g, nodes, stream, draw, first),
           Begin(p, y.steps, y.asked, None)
    PROVE  Typed'
<1>1. PICK chunk, next : /\ chunk = (IF a.chunk = None THEN Mint(stream, draw) ELSE a.chunk)
                         /\ next = (IF a.chunk = None THEN draw + 1 ELSE draw)
  OBVIOUS
<1>2. PICK u : u = Step("hub", a.tenant, None, compose_chunk(a, chunk, g, nodes, stream, next)) OBVIOUS
<1>3. y.steps = first \o << u >> BY <1>1, <1>2 DEF ChunkSteps
<1>4. Handed(u) BY <1>2 DEF Handed, Step
<1>5. PICK s : s = y.steps OBVIOUS
<1>6. s = << u >> \/ s = << v, u >>
  <2>1. CASE first = << >>
    <3>1. s = << >> \o << u >> BY <1>3, <1>5, <2>1
    <3>2. << >> \o << u >> = << u >> OBVIOUS
    <3>3. QED BY <3>1, <3>2
  <2>2. CASE first = << v >>
    <3>1. s = << v >> \o << u >> BY <1>3, <1>5, <2>2
    <3>2. QED BY <3>1, PairOf
  <2>3. QED BY <2>1, <2>2
<1>7. \A i \in DOMAIN s : Handed(s[i])
  <2>1. DOMAIN << u >> = {1} /\ << u >>[1] = u OBVIOUS
  <2>2. DOMAIN << v, u >> = {1, 2} /\ << v, u >>[1] = v /\ << v, u >>[2] = u OBVIOUS
  <2>3. QED BY <1>4, <1>6, <2>1, <2>2
<1>8. QED BY <1>5, <1>7, BeginTyped
LEMMA ChunkTyped == ASSUME IInv, Typed, NEW p \in Procs, NEW a, create_chunk(p, a) PROVE Typed'
<1>1. PICK t, stream : t = ResolveTenant(a.tenant) /\ stream = Fresh(a.seeded) OBVIOUS
<1>2. PICK v : v = Step("hub", a.tenant, None,
                        compose_graph(Mint(stream, 1), IF a.graph = None THEN "default" ELSE a.graph, Instant(stream, 0)))
  OBVIOUS
<1>3. Handed(v) BY <1>2 DEF Handed, Step
<1>4. ASSUME NEW g, NEW y, y = ChunkSteps(a, g.id, GraphNodes(g.id, t), stream, 1, << >>),
             Begin(p, y.steps, y.asked, None)
      PROVE  Typed'
  BY <1>3, <1>4, ChunkStepsTyped
<1>5. ASSUME NEW y, y = ChunkSteps(a, Mint(stream, 1), {"build", "deliver"}, stream, GraphDraws + 1, << v >>),
             Begin(p, y.steps, y.asked, None)
      PROVE  Typed'
  BY <1>3, <1>5, ChunkStepsTyped
<1>6. QED BY <1>1, <1>2, <1>4, <1>5 DEF create_chunk
LEMMA FactTyped == ASSUME IInv, Typed, NEW p \in Procs, CreateFact(p) PROVE Typed'
<1>1. PICK a \in FactCalls :
        \/ create_artifact(p, a) \/ create_decision(p, a) \/ create_usage(p, a) \/ create_event(p, a)
        \/ create_escalation(p, a) \/ create_bounce(p, a) \/ create_question(p, a)
        \/ create_garden_proposal(p, a) BY DEF CreateFact
<1>2. (\E rows : Seed(p, "hub", a.tenant, None, rows)) => Typed' BY SeedTyped
<1>3. CASE create_artifact(p, a) \/ create_decision(p, a)
  BY <1>2, <1>3 DEF create_artifact, create_decision
<1>4. CASE create_usage(p, a)
  <2>1. CASE \E rows : Seed(p, "hub", a.tenant, None, rows) BY <1>2, <2>1
  <2>2. CASE \E rows : Seed(p, "runner", None, a.runner, rows)
    <3>1. a.runner \in Runners \cup {None} BY <1>4, CallAssumption DEF create_usage
    <3>2. QED BY <2>2, <3>1, SeedTyped
  <2>3. QED BY <1>4, <2>1, <2>2 DEF create_usage
<1>5. CASE create_event(p, a) BY <1>2, <1>5 DEF create_event
<1>6. CASE create_escalation(p, a) \/ create_bounce(p, a) BY <1>2, <1>6 DEF create_escalation, create_bounce
<1>7. CASE create_question(p, a) BY <1>2, <1>7 DEF create_question
<1>8. CASE create_garden_proposal(p, a) BY <1>2, <1>8 DEF create_garden_proposal
<1>9. QED BY <1>1, <1>3, <1>4, <1>5, <1>6, <1>7, <1>8
LEMMA RunnerFactTyped == ASSUME IInv, Typed, NEW p \in Procs, CreateRunnerFact(p) PROVE Typed'
<1>1. PICK a \in RunnerCalls :
        create_runner(p, a) \/ create_runner_pause(p, a) \/ create_transcript_segment(p, a)
  BY DEF CreateRunnerFact
<1>2. a.runner \in Runners \cup {None} BY CallAssumption
<1>3. CASE create_runner(p, a) BY <1>3, SeedTyped DEF create_runner
<1>4. CASE create_runner_pause(p, a)
  <2>1. (\E rows : Seed(p, "hub", a.tenant, None, rows)) \/ \E rows : Seed(p, "runner", None, a.runner, rows)
    BY <1>4 DEF create_runner_pause
  <2>2. QED BY <1>2, <2>1, SeedTyped
<1>5. CASE create_transcript_segment(p, a)
  <2>1. \E rows : Seed(p, "runner", a.tenant, a.runner, rows) BY <1>5 DEF create_transcript_segment
  <2>2. QED BY <1>2, <2>1, SeedTyped
<1>6. QED BY <1>1, <1>3, <1>4, <1>5
LEMMA LeaseTyped == ASSUME IInv, Typed, NEW p \in Procs, NEW a \in LeaseCalls, create_lease(p, a) PROVE Typed'
<1>1. PICK t, at, id, owners : /\ t = ResolveTenant(a.tenant) /\ at = Instant(Fresh(FALSE), 0)
                               /\ id = Mint(Fresh(FALSE), 1) /\ owners = Owners(a.chunk, a.epoch, t)
  OBVIOUS
<1>2. PICK R, L : /\ R = IF owners = {} THEN compose_lease_rows(a.chunk, a.epoch, a.runner, at)
                         ELSE << LeaseRow(a.chunk, a.epoch, a.runner, at) >>
                  /\ L = compose_lease(a.chunk, id, a.epoch, None, at)
  OBVIOUS
<1>3. \/ Seed(p, "hub", a.tenant, None, R)
      \/ /\ a.store = "runner"
         /\ Seed(p, "runner", a.tenant, a.runner, L)
  BY <1>1, <1>2 DEF create_lease
<1>4. a.store = "runner" => a.runner \in Runners \cup {None} BY CallAssumption
<1>5. QED BY <1>3, <1>4, SeedTyped
LEMMA ScenarioTyped ==
    ASSUME IInv, Typed, NEW p \in Procs, (\E a \in BoardCalls : scenario_board(p, a))
                                         \/ \E a \in FleetCalls : scenario_fleet(p, a)
    PROVE  Typed'
<1>1. \A t, rows : Handed(Step("hub", t, None, rows)) BY DEF Handed, Step
<1>2. CASE \E a \in BoardCalls : scenario_board(p, a)
  <2>1. PICK a \in BoardCalls : scenario_board(p, a) BY <1>2
  <2>2. PICK rows, asked : Begin(p, << Step("hub", a.tenant, None, rows) >>, asked, None) BY <2>1 DEF scenario_board
  <2>3. PICK s : s = Step("hub", a.tenant, None, rows) OBVIOUS
  <2>4. DOMAIN << s >> = {1} /\ << s >>[1] = s OBVIOUS
  <2>5. \A i \in DOMAIN << s >> : Handed(<< s >>[i]) BY <1>1, <2>3, <2>4
  <2>6. QED BY <2>2, <2>3, <2>5, BeginTyped
<1>3. CASE \E a \in FleetCalls : scenario_fleet(p, a)
  <2>1. PICK a \in FleetCalls : scenario_fleet(p, a) BY <1>3
  <2>2. PICK board, stream, asked : Begin(p, FleetSteps(a, board, stream), asked, a.runner)
    BY <2>1 DEF scenario_fleet
  <2>3. PICK u, v, w : FleetSteps(a, board, stream) = << u, v, w >> /\ Handed(u) /\ Handed(v) /\ Handed(w)
    <3>1. a.runner \in Runners \cup {None} BY CallAssumption
    <3>2. \A rows : Handed(Step("runner", None, a.runner, rows)) BY <3>1 DEF Handed, Step
    <3>3. QED BY <1>1, <3>2 DEF FleetSteps
  <2>4. DOMAIN << u, v, w >> = {1, 2, 3} /\ << u, v, w >>[1] = u /\ << u, v, w >>[2] = v /\ << u, v, w >>[3] = w
    OBVIOUS
  <2>5. \A i \in DOMAIN << u, v, w >> : Handed(<< u, v, w >>[i]) BY <2>3, <2>4
  <2>6. QED BY <2>2, <2>3, <2>5, BeginTyped
<1>4. QED BY <1>2, <1>3

(* reset, refuse, crash and the daemons.                                     *)
LEMMA ResetTyped == ASSUME IInv, Typed, NEW store, reset(store) PROVE Typed'
<1>1. inv' = inv /\ tenanted' = tenanted /\ begun' = begun + 1 /\ begun < MaxInvocations BY DEF reset
<1>2. begun' <= MaxInvocations BY <1>1, StoreAssumption DEF IInv
<1>3. StepsTyped' BY <1>1 DEF Typed, StepsTyped
<1>4. HubTyped'
  <2>1. CASE hub' = hub
    <3>1. HeldTenants' = HeldTenants BY <2>1 DEF HeldTenants
    <3>2. QED BY <1>1, <2>1, <3>1, HubTypedStays DEF Typed
  <2>2. CASE ~tenanted /\ hub' = {} BY <1>1, <2>2 DEF Typed, HubTyped
  <2>3. CASE tenanted /\ hub' = {e \in hub : StartingState(e)}
    <3>1. \A e \in hub : e.fact.table = "tenants" => e \in hub' BY <2>3 DEF StartingState, GlobalTables
    <3>2. \A f : f.table = "tenants" => (f \in Facts(hub') <=> f \in Facts(hub)) BY <2>3, <3>1 DEF Facts
    <3>3. HeldTenants' = HeldTenants BY <3>2 DEF HeldTenants
    <3>4. \A e \in hub' : e \in hub BY <2>3
    <3>5. QED BY <1>1, <3>3, <3>4, HubTypedStays DEF Typed
  <2>4. QED BY <2>1, <2>2, <2>3 DEF reset
<1>5. RunnerTyped'
  <2>1. CASE runner' = runner BY <2>1 DEF Typed, RunnerTyped
  <2>2. CASE runner' = [rows |-> {}, identity |-> None, counter |-> NoCounters]
    <3>1. runner'.rows = {} /\ runner'.identity = None BY <2>2
    <3>2. QED BY <3>1 DEF RunnerTyped
  <2>3. QED BY <2>1, <2>2 DEF reset
<1>6. QED BY <1>2, <1>3, <1>4, <1>5 DEF Typed
LEMMA EndTyped ==
    ASSUME IInv, Typed, NEW p \in Procs, refuse(p) \/ crash(p) PROVE Typed'
<1>1. inv' = [inv EXCEPT ![p] = Idle] /\ UNCHANGED <<tenanted, hub, runner, begun>> BY DEF refuse, crash
<1>2. HeldTenants' = HeldTenants BY <1>1 DEF HeldTenants
<1>3. HubTyped' BY <1>1, <1>2, HubTypedStays DEF Typed
<1>4. RunnerTyped' BY <1>1 DEF Typed, RunnerTyped
<1>5. Idle.steps = << >> /\ DOMAIN << >> = {} BY DEF Idle
<1>6. PICK y : y = Idle OBVIOUS
<1>7. inv' = [inv EXCEPT ![p] = y] /\ DOMAIN y.steps = {} BY <1>1, <1>5, <1>6
<1>8. StepsTyped' BY <1>7 DEF Typed, StepsTyped
<1>9. QED BY <1>1, <1>3, <1>4, <1>8 DEF Typed
LEMMA DaemonTyped ==
    ASSUME IInv, Typed, (\E r \in Runners : daemon_registers(r)) \/ \E t \in Tenants : daemon_adds_project(t)
    PROVE  Typed'
<1>1. inv' = inv /\ tenanted' = tenanted /\ begun' = begun BY DEF daemon_registers, daemon_adds_project
<1>2. StepsTyped' BY <1>1 DEF Typed, StepsTyped
<1>3. PICK e, W : /\ hub' = hub \cup W /\ W \subseteq {e}
                  /\ e.fact.table # "tenants" /\ e.tenant \in StampFor(e.fact)
  <2>1. ASSUME NEW r \in Runners, daemon_registers(r)
        PROVE  \E e, W : /\ hub' = hub \cup W /\ W \subseteq {e}
                         /\ e.fact.table # "tenants" /\ e.tenant \in StampFor(e.fact)
    <3> DEFINE at == IF tenanted THEN CHOOSE t \in HeldTenants : TRUE ELSE None
    <3>1. IF tenanted THEN at \in HeldTenants ELSE at = None BY DEF Typed, HubTyped
    <3> HIDE DEF at
    <3>2. PICK e : e = [fact |-> Registration(r, TRUE, 0), tenant |-> at] OBVIOUS
    <3>3. e.fact.table = "runner_registrations" /\ e.tenant = at BY <3>2 DEF Registration, Fact
    <3>4. e.tenant \in StampFor(e.fact) BY <3>1, <3>3 DEF StampFor, GlobalTables
    <3>5. hub' = hub \/ hub' = hub \cup {e} BY <2>1, <3>2 DEF daemon_registers, at
    <3>6. PICK W : hub' = hub \cup W /\ W \subseteq {e}
      <4>1. PICK none, one : none = {} /\ one = {e} OBVIOUS
      <4>2. none \subseteq {e} /\ one \subseteq {e} /\ hub = hub \cup none BY <4>1
      <4>3. CASE hub' = hub
        <5>1. hub' = hub \cup none BY <4>2, <4>3
        <5>2. QED BY <4>2, <5>1
      <4>4. CASE hub' = hub \cup {e}
        <5>1. hub' = hub \cup one BY <4>1, <4>4
        <5>2. QED BY <4>2, <5>1
      <4>5. QED BY <3>5, <4>3, <4>4
    <3>7. e.fact.table # "tenants" BY <3>3
    <3>8. QED BY <3>4, <3>6, <3>7
  <2>2. ASSUME NEW t \in Tenants, daemon_adds_project(t)
        PROVE  \E e, W : /\ hub' = hub \cup W /\ W \subseteq {e}
                         /\ e.fact.table # "tenants" /\ e.tenant \in StampFor(e.fact)
    <3>1. PICK e : e = [fact |-> [Fact("projects", None, None, 0) EXCEPT !.tag = "second"], tenant |-> t] OBVIOUS
    <3>2. hub' = hub \cup {e} /\ t \in HeldTenants /\ tenanted BY <2>2, <3>1 DEF daemon_adds_project
    <3>3. e.fact.table = "projects" /\ e.tenant = t BY <3>1 DEF Fact
    <3>4. e.tenant \in StampFor(e.fact) BY <3>2, <3>3 DEF StampFor, GlobalTables
    <3>5. PICK W : hub' = hub \cup W /\ W \subseteq {e} BY <3>2
    <3>6. e.fact.table # "tenants" BY <3>3
    <3>7. QED BY <3>4, <3>5, <3>6
  <2>3. QED BY <2>1, <2>2
<1>4. HeldTenants' = HeldTenants
  <2>1. \A f : f.table = "tenants" => (f \in Facts(hub') <=> f \in Facts(hub)) BY <1>3 DEF Facts
  <2>2. QED BY <2>1 DEF HeldTenants
<1>5. HubTyped' BY <1>1, <1>3, <1>4, HubTypedStays DEF Typed
<1>6. RunnerTyped'
  <2>1. CASE \E r \in Runners : daemon_registers(r)
    <3>1. PICK r \in Runners : runner' = [runner EXCEPT !.identity = r] BY <2>1 DEF daemon_registers
    <3>2. runner'.rows = runner.rows /\ runner'.identity = r BY <3>1 DEF IInv, SeqsInv, RunnerShape
    <3>3. QED BY <3>2 DEF Typed, RunnerTyped
  <2>2. CASE \E t \in Tenants : daemon_adds_project(t)
    <3>1. runner' = runner BY <2>2 DEF daemon_adds_project
    <3>2. QED BY <3>1 DEF Typed, RunnerTyped
  <2>3. QED BY <2>1, <2>2
<1>7. QED BY <1>1, <1>2, <1>5, <1>6 DEF Typed

(* A store the tool is first run against.                                    *)
LEMMA InitTyped == ASSUME Init PROVE Typed
<1>1. PICK s \in Stores :
        /\ tenanted = (s.tenants # {})
        /\ hub = (UNION {TenantRows(t) : t \in s.tenants}) \cup (UNION {Earlier(a) : a \in s.earlier})
        /\ runner = [rows |-> IF s.identity = None THEN {} ELSE OldOutbox(s.identity),
                     identity |-> s.identity, counter |-> NoCounters]
  BY DEF Init
<1>2. s.identity \in Runners \cup {None} /\ \A a \in s.earlier : a.tenant \in s.tenants BY StoreAssumption
<1>3. (\A p \in Procs : inv[p] = Idle) /\ begun = 0 BY DEF Init
<1>4. s.tenants \subseteq HeldTenants
  <2> SUFFICES ASSUME NEW t \in s.tenants PROVE t \in HeldTenants OBVIOUS
  <2>1. PICK f, e : f = Fact("tenants", None, t, 0) /\ e = [fact |-> f, tenant |-> None] OBVIOUS
  <2>2. e \in TenantRows(t) BY <2>1 DEF TenantRows
  <2>3. PICK T : T = TenantRows(t) OBVIOUS
  <2>4. e \in UNION {TenantRows(d) : d \in s.tenants} BY <2>2, <2>3
  <2>5. e \in hub /\ e.fact = f BY <1>1, <2>1, <2>4
  <2>6. f \in Facts(hub) BY <2>5 DEF Facts
  <2>7. f.table = "tenants" /\ f.id = t BY <2>1 DEF Fact
  <2>8. QED BY <2>6, <2>7 DEF HeldTenants
<1>5. ASSUME NEW t \in s.tenants, NEW e \in TenantRows(t) PROVE e.tenant \in StampFor(e.fact)
  <2>1. tenanted /\ t \in HeldTenants BY <1>1, <1>4
  <2>2. \/ e.fact.table = "tenants" /\ e.tenant = None
        \/ e.fact.table \in {"projects", "work_item_sequence"} /\ e.tenant = t
    BY DEF TenantRows, Fact
  <2>3. QED BY <2>1, <2>2 DEF StampFor, GlobalTables
<1>6. ASSUME NEW a \in s.earlier, NEW e \in Earlier(a) PROVE e.tenant \in StampFor(e.fact)
  <2>1. a.tenant \in s.tenants BY <1>2
  <2>2. tenanted /\ a.tenant \in HeldTenants BY <1>1, <1>4, <2>1
  <2>3. PICK rows, t : t = a.tenant /\ e \in Stamped(rows, t) BY DEF Earlier
  <2>4. PICK f \in Rows(rows) : e = [fact |-> f, tenant |-> StampOf(f, t)] BY <2>3 DEF Stamped
  <2>5. e.fact = f /\ e.tenant = StampOf(f, t) BY <2>4
  <2>6. QED BY <2>2, <2>3, <2>5 DEF StampOf, StampFor
<1>7. HubTyped
  <2>1. tenanted \in BOOLEAN /\ (tenanted => HeldTenants # {}) BY <1>1, <1>4
  <2>2. ASSUME NEW e \in hub PROVE e.tenant \in StampFor(e.fact)
    <3>1. PICK TS, ES : TS = {TenantRows(t) : t \in s.tenants} /\ ES = {Earlier(a) : a \in s.earlier} OBVIOUS
    <3>2. hub = (UNION TS) \cup (UNION ES) BY <1>1, <3>1
    <3>3. CASE \E T \in TS : e \in T
      <4>1. PICK T \in TS : e \in T BY <3>3
      <4>2. PICK t \in s.tenants : T = TenantRows(t) BY <3>1
      <4>3. QED BY <1>5, <4>1, <4>2
    <3>4. CASE \E E \in ES : e \in E
      <4>1. PICK E \in ES : e \in E BY <3>4
      <4>2. PICK a \in s.earlier : E = Earlier(a) BY <3>1
      <4>3. QED BY <1>6, <4>1, <4>2
    <3>5. QED BY <3>2, <3>3, <3>4
  <2>3. QED BY <2>1, <2>2 DEF HubTyped
<1>8. RunnerTyped
  <2>1. runner.identity = s.identity /\ runner.rows = (IF s.identity = None THEN {} ELSE OldOutbox(s.identity))
    BY <1>1
  <2>2. ASSUME NEW r, NEW e \in OldOutbox(r) PROVE e.runner = r /\ e.seq = 1 /\ LaneOf(e.fact.table) = "outbound"
    <3>1. PICK f : f = [Fact("outbound_buffer", None, None, 0) EXCEPT !.tag = "old"] OBVIOUS
    <3>2. e = [fact |-> << f >>[1], runner |-> r, seq |-> 1] BY <3>1 DEF OldOutbox, compose_outbound_fact
    <3>3. << f >>[1] = f OBVIOUS
    <3>4. e.fact = f /\ e.runner = r /\ e.seq = 1 BY <3>2, <3>3
    <3>5. f.table = "outbound_buffer" BY <3>1 DEF Fact
    <3>6. QED BY <3>4, <3>5 DEF LaneOf, Laned
  <2>3. QED BY <1>2, <2>1, <2>2 DEF RunnerTyped, Lanes
<1>9. StepsTyped
  <2>1. Idle.steps = << >> /\ DOMAIN << >> = {} BY DEF Idle
  <2>2. QED BY <1>3, <2>1 DEF StepsTyped
<1>10. QED BY <1>3, <1>7, <1>8, <1>9, StoreAssumption DEF Typed
LEMMA NextTyped == ASSUME IInv, Typed, [Next]_vars PROVE Typed'
<1>1. CASE UNCHANGED vars
  <2>1. UNCHANGED <<tenanted, hub, runner, inv, begun>> BY <1>1 DEF vars
  <2>2. HeldTenants' = HeldTenants BY <2>1 DEF HeldTenants
  <2>3. HubTyped' BY <2>1, <2>2, HubTypedStays DEF Typed
  <2>4. RunnerTyped' /\ StepsTyped' BY <2>1 DEF Typed, RunnerTyped, StepsTyped
  <2>5. QED BY <2>1, <2>3, <2>4 DEF Typed
<1>2. ASSUME NEW p \in Procs, land(p) PROVE Typed' BY <1>2, LandTyped
<1>3. ASSUME NEW p \in Procs, refuse(p) \/ crash(p) PROVE Typed' BY <1>3, EndTyped
<1>4. ASSUME NEW p \in Procs, NEW a, create_graph(p, a) PROVE Typed'
  <2>1. PICK rows : Seed(p, "hub", a.tenant, None, rows) BY <1>4 DEF create_graph
  <2>2. QED BY <2>1, SeedTyped
<1>5. ASSUME NEW p \in Procs, NEW a, create_chunk(p, a) PROVE Typed' BY <1>5, ChunkTyped
<1>6. ASSUME NEW p \in Procs, CreateFact(p) PROVE Typed' BY <1>6, FactTyped
<1>7. ASSUME NEW p \in Procs, CreateRunnerFact(p) PROVE Typed' BY <1>7, RunnerFactTyped
<1>8. ASSUME NEW p \in Procs, NEW a \in LeaseCalls, create_lease(p, a) PROVE Typed' BY <1>8, LeaseTyped
<1>9. ASSUME NEW p \in Procs, (\E a \in BoardCalls : scenario_board(p, a))
                              \/ \E a \in FleetCalls : scenario_fleet(p, a)
      PROVE  Typed'
  BY <1>9, ScenarioTyped
<1>10. ASSUME NEW store, reset(store) PROVE Typed' BY <1>10, ResetTyped
<1>11. ASSUME (\E r \in Runners : daemon_registers(r)) \/ \E t \in Tenants : daemon_adds_project(t)
       PROVE  Typed'
  BY <1>11, DaemonTyped
<1>12. QED
  BY <1>1, <1>2, <1>3, <1>4, <1>5, <1>6, <1>7, <1>8, <1>9, <1>10, <1>11 DEF Next

(* ReflectedStore.write: whatever lands, in whatever order, every row of a   *)
(* tenant-owned table carries a tenant the hub holds, every runner row a     *)
(* runner, and the outbox rows, and no others, a number.                     *)
THEOREM TypeCorrect == Spec => []TypeOK
<1>1. Init => Typed BY InitTyped
<1>2. IInv /\ Typed /\ [Next]_vars => Typed' BY NextTyped
<1>3. IInv /\ Typed => TypeOK
  <2> SUFFICES ASSUME IInv, Typed PROVE TypeOK OBVIOUS
  <2>1. begun \in 0 .. MaxInvocations BY StoreAssumption DEF IInv, Typed
  <2>2. \A e \in hub : e.tenant \in IF tenanted /\ e.fact.table \notin GlobalTables THEN HeldTenants ELSE {None}
    BY DEF Typed, HubTyped, StampFor
  <2>3. runner.counter \in [Runners \X Lanes -> Nat] BY DEF IInv, SeqsInv
  <2>4. \A p \in Procs : \A i \in DOMAIN inv[p].steps : inv[p].steps[i].store \in {"hub", "runner"}
    BY DEF Typed, StepsTyped, Handed
  <2>5. QED BY <2>1, <2>2, <2>3, <2>4 DEF TypeOK, Typed, HubTyped, RunnerTyped
<1>4. QED BY <1>1, <1>2, <1>3, StoreInvariant, PTL DEF Spec
=============================================================================
