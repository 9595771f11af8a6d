---------------------------- MODULE HarnessProofs ----------------------------
(* Proofs about the Codex app-server's rotations (CodexAuth) and about the   *)
(* exec-engine's turns (HarnessTurn): the flock admits one process and the   *)
(* audit log tells what the file holds; a session's file loses no turn, no   *)
(* ask and not who it is; the envelope comes last; and the transcript tells  *)
(* every turn that printed one.  For any number of processes, whichever of   *)
(* them die.                                                                 *)
EXTENDS HarnessTurn, CodexAuth, TLAPS

Content == [gen : Nat, prev : Nat]
Pcs == {"idle", "locked", "read", "replaced", "done", "dead"}
Row == [pc : Pcs, read : Content \cup {Unreadable}, wrote : Content \cup {Unreadable}]
Held == {"locked", "read", "replaced", "done"}

TypeOK ==
    /\ auth \in Content \cup {Unreadable}
    /\ audit \in Seq(Content)
    /\ lock \subseteq Servers
    /\ issued \in Nat
    /\ server \in [Servers -> Row]

(* The processes between acquire and release are those that hold the lock,   *)
(* and they are one at most.                                                 *)
LockTells ==
    /\ \A p \in Servers : p \in lock <=> server[p].pc \in Held
    /\ \A p, q \in lock : p = q

(* What the holder read is still what the file says, until it replaces it;   *)
(* what it has just written is the file.                                     *)
HolderIsCurrent ==
    \A p \in Servers :
        /\ At(p, "read") => auth # Unreadable /\ server[p].read = auth
        /\ At(p, "replaced") => auth # Unreadable /\ server[p].wrote = auth

(* The file's generation is the last one issued, and nothing written         *)
(* earlier, in the log or by another process, reaches it.                    *)
Replacing == \E p \in Servers : At(p, "replaced")
GenerationsGrow ==
    /\ auth = Unreadable => issued = 0
    /\ auth # Unreadable => auth.gen = issued
    /\ \A i \in DOMAIN audit : audit[i].gen <= issued
    /\ \A p \in Servers : server[p].wrote # Unreadable => server[p].wrote.gen <= issued
    /\ \A p \in Servers : At(p, "replaced") =>
           /\ auth # Unreadable /\ issued > 0 /\ auth.prev = issued - 1
           /\ \A i \in DOMAIN audit : audit[i].gen < issued
           /\ \A q \in Servers \ {p} :
                  server[q].wrote # Unreadable => server[q].wrote.gen < issued

(* Every generation up to the present one is accounted for at the log's end: *)
(* by its last line, or by a writer that died.                               *)
LastGen == IF audit = << >> THEN 0 ELSE audit[Len(audit)].gen
TipAccounted ==
    /\ Replacing => issued - 1 \in Unlogged \cup {LastGen}
    /\ ~Replacing => issued \in Unlogged \cup {LastGen}
    /\ audit # << >> /\ LastGen = issued => auth = audit[Len(audit)]

AuthInv ==
    TypeOK /\ LockTells /\ HolderIsCurrent /\ GenerationsGrow /\ TipAccounted /\ RotationsChain
------------------------------------------------------------------------------
(* A step writes the row of the one process it is a step of.                 *)
Writes(p, pc, read, wrote) ==
    /\ server' \in [Servers -> Row]
    /\ server'[p].pc = pc /\ server'[p].read = read /\ server'[p].wrote = wrote
    /\ \A q \in Servers \ {p} : server'[q] = server[q]

(* Each kind of step, as the row it writes.                                  *)
LEMMA StepRows ==
    ASSUME TypeOK, HolderIsCurrent, NEW p \in Servers
    PROVE  /\ acquire(p) => Writes(p, "locked", server[p].read, server[p].wrote)
           /\ read_locked(p) => Writes(p, IF auth = Unreadable THEN "done" ELSE "read",
                                       auth, server[p].wrote)
           /\ replace(p) => Writes(p, "replaced", auth, auth') /\ auth' \in Content
           /\ append_audit(p) => Writes(p, "done", server[p].read, server[p].wrote)
           /\ release(p) => Writes(p, "idle", Unreadable, Unreadable)
           /\ read_account(p) => Writes(p, "idle", auth, server[p].wrote)
           /\ die(p) => Writes(p, "dead", server[p].read, server[p].wrote)
<1> USE DEF Row, Pcs
<1>1. server \in [Servers -> Row] /\ server[p] \in Row BY DEF TypeOK
<1>2. ASSUME read_locked(p)
      PROVE  Writes(p, IF auth = Unreadable THEN "done" ELSE "read", auth, server[p].wrote)
  BY <1>1, <1>2 DEF read_locked, ReadUnderLock, Writes, TypeOK
<1>3. ASSUME replace(p) PROVE Writes(p, "replaced", auth, auth') /\ auth' \in Content
  <2>1. server[p].read = auth /\ auth # Unreadable BY <1>3 DEF replace, HolderIsCurrent
  <2>2. auth' \in Content BY <1>3, <2>1 DEF replace, TypeOK, Content
  <2>3. server' = [server EXCEPT ![p].pc = "replaced", ![p].wrote = auth'] BY <1>3 DEF replace
  <2>4. QED BY <1>1, <2>1, <2>2, <2>3 DEF Writes
<1>4. ASSUME acquire(p) PROVE Writes(p, "locked", server[p].read, server[p].wrote)
  BY <1>1, <1>4 DEF acquire, Writes
<1>5. ASSUME append_audit(p) PROVE Writes(p, "done", server[p].read, server[p].wrote)
  BY <1>1, <1>5 DEF append_audit, Writes
<1>6. ASSUME die(p) PROVE Writes(p, "dead", server[p].read, server[p].wrote)
  BY <1>1, <1>6 DEF die, Writes
<1>7. ASSUME read_account(p) PROVE Writes(p, "idle", auth, server[p].wrote)
  BY <1>1, <1>7 DEF read_account, At, Writes, TypeOK
<1>8. ASSUME release(p) PROVE Writes(p, "idle", Unreadable, Unreadable)
  BY <1>1, <1>8 DEF release, Free, Writes
<1>9. QED BY <1>2, <1>3, <1>4, <1>5, <1>6, <1>7, <1>8

(* Who a step is of, and which: the shape of every proof below.              *)
LEMMA StepCases ==
    ASSUME AuthNext
    PROVE  \E p \in Servers : \/ acquire(p) \/ read_locked(p) \/ replace(p) \/ append_audit(p)
                              \/ release(p) \/ read_account(p) \/ die(p)
BY DEF AuthNext, Serve

(* The log and the file stay well formed.                                    *)
LEMMA TypeStep == TypeOK /\ HolderIsCurrent /\ [AuthNext]_authVars => TypeOK'
<1> SUFFICES ASSUME TypeOK, HolderIsCurrent, [AuthNext]_authVars PROVE TypeOK' OBVIOUS
<1>1. CASE UNCHANGED authVars BY <1>1 DEF authVars, TypeOK
<1>2. ASSUME NEW p \in Servers, acquire(p) \/ read_locked(p) \/ release(p) \/ read_account(p) \/ die(p)
      PROVE  TypeOK'
  BY <1>2, StepRows DEF Writes, acquire, read_locked, release, read_account, die, TypeOK
<1>3. ASSUME NEW p \in Servers, replace(p) PROVE TypeOK'
  <2>1. issued' = issued + 1 /\ UNCHANGED <<audit, lock>> BY <1>3 DEF replace
  <2>2. auth' \in Content /\ server' \in [Servers -> Row] BY <1>3, StepRows DEF Writes
  <2>3. QED BY <2>1, <2>2 DEF TypeOK
<1>4. ASSUME NEW p \in Servers, append_audit(p) PROVE TypeOK'
  <2>1. Logged(p) = auth /\ auth # Unreadable
    BY <1>4 DEF append_audit, Logged, HolderIsCurrent
  <2>2. audit' = Append(audit, auth) /\ auth \in Content /\ UNCHANGED <<auth, lock, issued>>
    BY <1>4, <2>1 DEF append_audit, TypeOK
  <2>3. audit' \in Seq(Content) BY <2>2 DEF TypeOK
  <2>4. QED BY <1>4, <2>2, <2>3, StepRows DEF Writes, TypeOK
<1>5. QED BY <1>1, <1>2, <1>3, <1>4, StepCases

(* The flock's step: taken when free, dropped by its holder's release or end.*)
LEMMA LockStep ==
    TypeOK /\ LockTells /\ HolderIsCurrent /\ [AuthNext]_authVars => LockTells'
<1> SUFFICES ASSUME TypeOK, LockTells, HolderIsCurrent, [AuthNext]_authVars PROVE LockTells'
    OBVIOUS
<1> USE DEF LockTells, Held
<1>1. CASE UNCHANGED authVars BY <1>1 DEF authVars
<1>2. ASSUME NEW p \in Servers, acquire(p) PROVE LockTells'
  BY <1>2, StepRows DEF Writes, acquire, At, Grantable
<1>3. ASSUME NEW p \in Servers, read_locked(p) \/ replace(p) \/ append_audit(p) PROVE LockTells'
  BY ZenonT(60), <1>3, StepRows DEF Writes, read_locked, replace, append_audit, At
<1>4. ASSUME NEW p \in Servers, release(p) \/ read_account(p) \/ die(p) PROVE LockTells'
  BY <1>4, StepRows DEF Writes, release, read_account, die, At
<1>5. QED BY <1>1, <1>2, <1>3, <1>4, StepCases

(* Only the holder replaces the file, so what it read cannot go stale.       *)
LEMMA CurrentStep ==
    TypeOK /\ LockTells /\ HolderIsCurrent /\ GenerationsGrow /\ [AuthNext]_authVars
        => HolderIsCurrent'
<1> SUFFICES ASSUME TypeOK, LockTells, HolderIsCurrent, GenerationsGrow, [AuthNext]_authVars
             PROVE  HolderIsCurrent'
    OBVIOUS
<1>1. CASE UNCHANGED authVars BY <1>1 DEF authVars, HolderIsCurrent, At
<1>2. ASSUME NEW p \in Servers, acquire(p) \/ append_audit(p) \/ release(p) \/ read_account(p) \/ die(p)
      PROVE  HolderIsCurrent'
  <2>1. UNCHANGED auth BY <1>2 DEF acquire, append_audit, release, read_account, die
  <2>2. server'[p].pc \notin {"read", "replaced"}
    BY <1>2, StepRows DEF Writes
  <2>3. \A q \in Servers \ {p} : server'[q] = server[q] BY <1>2, StepRows DEF Writes
  <2>4. QED BY <2>1, <2>2, <2>3 DEF HolderIsCurrent, At
<1>3. ASSUME NEW p \in Servers, read_locked(p) PROVE HolderIsCurrent'
  <2>1. UNCHANGED auth BY <1>3 DEF read_locked
  <2>2. /\ server'[p].pc = IF auth = Unreadable THEN "done" ELSE "read"
        /\ server'[p].read = auth
        /\ \A q \in Servers \ {p} : server'[q] = server[q]
    BY <1>3, StepRows DEF Writes
  <2>3. CASE auth = Unreadable BY <2>1, <2>2, <2>3 DEF HolderIsCurrent, At
  <2>4. CASE auth # Unreadable BY <2>1, <2>2, <2>4 DEF HolderIsCurrent, At
  <2>5. QED BY <2>3, <2>4
<1>4. ASSUME NEW p \in Servers, replace(p) PROVE HolderIsCurrent'
  <2>1. \A q \in Servers \ {p} : ~At(q, "read") /\ ~At(q, "replaced")
    BY <1>4 DEF replace, At, LockTells, Held
  <2>2. auth' # Unreadable BY <1>4, StepRows, UnreadableAssumption DEF Content
  <2>3. QED BY <1>4, <2>1, <2>2, StepRows DEF Writes, HolderIsCurrent, At
<1>5. QED BY <1>1, <1>2, <1>3, <1>4, StepCases

(* A process at most is between its rename and its line, and then no other   *)
(* is between its read and its line.                                         *)
LEMMA OneReplacer ==
    ASSUME TypeOK, LockTells, NEW p \in Servers, server[p].pc \in Held, NEW q \in Servers \ {p}
    PROVE  server[q].pc \notin Held
BY DEF LockTells

(* A fresh generation is above all the earlier ones.                         *)
LEMMA GenerationsStep ==
    TypeOK /\ LockTells /\ HolderIsCurrent /\ GenerationsGrow /\ [AuthNext]_authVars
        => GenerationsGrow'
<1> SUFFICES ASSUME TypeOK, LockTells, HolderIsCurrent, GenerationsGrow, [AuthNext]_authVars
             PROVE  GenerationsGrow'
    OBVIOUS
<1>1. CASE UNCHANGED authVars BY <1>1 DEF authVars, GenerationsGrow, At
<1>2. ASSUME NEW p \in Servers, UNCHANGED <<auth, audit, issued>>,
             server'[p].pc # "replaced", server'[p].wrote \in {Unreadable, server[p].wrote},
             \A q \in Servers \ {p} : server'[q] = server[q]
      PROVE  GenerationsGrow'
  BY <1>2 DEF GenerationsGrow, At
<1>3. ASSUME NEW p \in Servers, acquire(p) \/ read_locked(p) \/ release(p) \/ read_account(p) \/ die(p)
      PROVE  GenerationsGrow'
  <2>1. UNCHANGED <<auth, audit, issued>>
    BY <1>3 DEF acquire, read_locked, release, read_account, die
  <2>2. /\ server'[p].pc # "replaced" /\ server'[p].wrote \in {Unreadable, server[p].wrote}
        /\ \A q \in Servers \ {p} : server'[q] = server[q]
    BY <1>3, StepRows DEF Writes
  <2>3. QED BY <1>2, <2>1, <2>2
<1>4. ASSUME NEW p \in Servers, replace(p) PROVE GenerationsGrow'
  <2>1. auth # Unreadable /\ server[p].read = auth /\ auth.gen = issued
    BY <1>4 DEF replace, HolderIsCurrent, GenerationsGrow
  <2>2. issued' = issued + 1 /\ UNCHANGED audit /\ auth' = [gen |-> issued + 1, prev |-> issued]
    BY <1>4, <2>1 DEF replace
  <2>3. auth' # Unreadable BY <1>4, StepRows, UnreadableAssumption DEF Content
  <2>4. issued \in Nat BY DEF TypeOK
  <2>5. \A i \in DOMAIN audit : audit[i].gen \in Nat /\ audit[i].gen <= issued
    <3>1. \A i \in DOMAIN audit : audit[i] \in Content BY DEF TypeOK
    <3>2. QED BY <3>1 DEF GenerationsGrow, Content
  <2>6. \A q \in Servers : server[q].wrote # Unreadable =>
             server[q].wrote.gen \in Nat /\ server[q].wrote.gen <= issued
    BY DEF TypeOK, Row, GenerationsGrow, Content
  <2>7. server'[p].wrote = auth' /\ \A q \in Servers \ {p} : server'[q] = server[q]
    BY <1>4, StepRows DEF Writes
  <2>8. \A q \in Servers \ {p} : ~At(q, "replaced")'
    BY <1>4, <2>7, OneReplacer DEF replace, At, Held
  <2>9. QED BY <2>2, <2>3, <2>4, <2>5, <2>6, <2>7, <2>8 DEF GenerationsGrow
<1>5. ASSUME NEW p \in Servers, append_audit(p) PROVE GenerationsGrow'
  <2>1. /\ UNCHANGED <<auth, issued>> /\ audit' = Append(audit, auth)
        /\ auth # Unreadable
    BY <1>5 DEF append_audit, Logged, HolderIsCurrent
  <2>2. auth.gen = issued /\ issued \in Nat BY <2>1 DEF TypeOK, GenerationsGrow
  <2>3. \A i \in DOMAIN audit' : audit'[i].gen <= issued
    <3>1. \A i \in DOMAIN audit : audit[i].gen <= issued BY DEF GenerationsGrow
    <3>2. audit \in Seq(Content) /\ auth \in Content BY <2>1 DEF TypeOK
    <3>3. QED BY <2>1, <2>2, <3>1, <3>2
  <2>4. /\ server'[p].pc = "done" /\ server'[p].wrote = server[p].wrote
        /\ \A q \in Servers \ {p} : server'[q] = server[q]
    BY <1>5, StepRows DEF Writes
  <2>5. \A q \in Servers : ~At(q, "replaced")'
    BY <1>5, <2>4, OneReplacer DEF append_audit, At, Held
  <2>6. QED BY <2>1, <2>2, <2>3, <2>4, <2>5 DEF GenerationsGrow
<1>6. QED BY <1>1, <1>3, <1>4, <1>5, StepCases

(* What a dead writer left unlogged stays so: a later line is of another     *)
(* generation.                                                               *)
LEMMA UnloggedStays ==
    ASSUME TypeOK, HolderIsCurrent, GenerationsGrow, AuthNext
    PROVE  Unlogged \subseteq Unlogged'
<1> SUFFICES ASSUME NEW q \in Servers, At(q, "dead"), server[q].wrote # Unreadable,
                    server[q].wrote \notin Range(audit)
             PROVE  /\ At(q, "dead")' /\ server'[q].wrote = server[q].wrote
                    /\ server[q].wrote \notin Range(audit')
    BY DEF Unlogged
<1> USE DEF Range
<1>1. ASSUME NEW p \in Servers, acquire(p) \/ read_locked(p) \/ replace(p) \/ release(p)
                                \/ read_account(p) \/ die(p)
      PROVE  /\ server'[q] = server[q] /\ UNCHANGED audit
  <2>1. p # q /\ UNCHANGED audit
    BY <1>1 DEF acquire, read_locked, replace, release, read_account, die, At
  <2>2. QED BY <1>1, <2>1, StepRows DEF Writes
<1>2. ASSUME NEW p \in Servers, append_audit(p)
      PROVE  /\ server'[q] = server[q] /\ server[q].wrote \notin Range(audit')
  <2>1. p # q /\ At(p, "replaced") /\ audit' = Append(audit, auth)
    BY <1>2 DEF append_audit, At, Logged, HolderIsCurrent
  <2>2. auth \in Content /\ auth.gen = issued BY <2>1 DEF HolderIsCurrent, GenerationsGrow, TypeOK
  <2>3. server[q].wrote.gen < issued BY <2>1 DEF GenerationsGrow
  <2>4. server[q].wrote # auth BY <2>2, <2>3 DEF Content
  <2>5. audit \in Seq(Content) BY DEF TypeOK
  <2>6. server[q].wrote \notin Range(audit') BY <2>1, <2>2, <2>4, <2>5
  <2>7. QED BY <1>2, <2>1, <2>6, StepRows DEF Writes
<1>3. QED BY <1>1, <1>2, StepCases DEF At

(* The generation before the one being written, and afterwards the present   *)
(* one, is the log's last or a dead writer's.                                *)
LEMMA TipStep ==
    ASSUME TypeOK, LockTells, HolderIsCurrent, GenerationsGrow, TipAccounted, AuthNext
    PROVE  TipAccounted'
<1>1. issued \in Nat /\ audit \in Seq(Content) BY DEF TypeOK
<1>2. Unlogged \subseteq Unlogged' BY UnloggedStays
<1>3. audit # << >> => LastGen \in Nat /\ LastGen <= issued
  <2> SUFFICES ASSUME audit # << >> PROVE LastGen \in Nat /\ LastGen <= issued OBVIOUS
  <2>1. Len(audit) \in DOMAIN audit /\ audit[Len(audit)] \in Content BY <1>1
  <2>2. QED BY <2>1 DEF LastGen, GenerationsGrow, Content
<1>4. ASSUME NEW p \in Servers, acquire(p) \/ read_locked(p) \/ release(p) \/ read_account(p)
                                \/ (die(p) /\ ~At(p, "replaced"))
      PROVE  TipAccounted'
  <2>1. UNCHANGED <<auth, audit, issued>> /\ server[p].pc # "replaced"
    BY <1>4 DEF acquire, read_locked, release, read_account, die, At
  <2>2. server'[p].pc # "replaced" /\ \A q \in Servers \ {p} : server'[q] = server[q]
    BY <1>4, StepRows DEF Writes
  <2>3. Replacing' <=> Replacing BY <2>1, <2>2 DEF Replacing, At
  <2>4. UNCHANGED LastGen BY <2>1 DEF LastGen
  <2>5. QED BY <1>2, <2>1, <2>3, <2>4 DEF TipAccounted
<1>5. ASSUME NEW p \in Servers, die(p), At(p, "replaced") PROVE TipAccounted'
  <2>1. UNCHANGED <<auth, audit, issued, LastGen>> BY <1>5 DEF die, LastGen
  <2>2. /\ server'[p].pc = "dead" /\ server'[p].wrote = server[p].wrote
        /\ \A q \in Servers \ {p} : server'[q] = server[q]
    BY <1>5, StepRows DEF Writes
  <2>3. ~Replacing' BY <1>5, <2>2, OneReplacer DEF Replacing, At, Held
  <2>4. server[p].wrote = auth /\ auth # Unreadable /\ auth.gen = issued
    BY <1>5 DEF HolderIsCurrent, GenerationsGrow
  <2>5. auth \notin Range(audit)
    BY <1>1, <1>5, <2>4 DEF GenerationsGrow, Range
  <2>6. issued \in Unlogged' BY <2>1, <2>2, <2>4, <2>5 DEF Unlogged, At
  <2>7. QED BY <2>1, <2>3, <2>6 DEF TipAccounted
<1>6. ASSUME NEW p \in Servers, replace(p) PROVE TipAccounted'
  <2>1. issued' = issued + 1 /\ UNCHANGED <<audit, LastGen>> BY <1>6 DEF replace, LastGen
  <2>2. server'[p].pc = "replaced" BY <1>6, StepRows DEF Writes
  <2>3. Replacing' BY <2>2 DEF Replacing, At
  <2>4. ~Replacing BY <1>6, OneReplacer DEF Replacing, replace, At, Held
  <2>5. QED BY <1>1, <1>2, <1>3, <2>1, <2>3, <2>4 DEF TipAccounted
<1>7. ASSUME NEW p \in Servers, append_audit(p) PROVE TipAccounted'
  <2>1. audit' = Append(audit, auth) /\ auth # Unreadable /\ UNCHANGED <<auth, issued>>
    BY <1>7 DEF append_audit, Logged, HolderIsCurrent
  <2>2. auth \in Content /\ auth.gen = issued BY <2>1 DEF GenerationsGrow, TypeOK
  <2>3. audit' # << >> /\ audit'[Len(audit')] = auth BY <1>1, <2>1, <2>2
  <2>4. LastGen' = issued BY <2>2, <2>3 DEF LastGen
  <2>5. server'[p].pc = "done" /\ \A q \in Servers \ {p} : server'[q] = server[q]
    BY <1>7, StepRows DEF Writes
  <2>6. ~Replacing' BY <1>7, <2>5, OneReplacer DEF append_audit, Replacing, At, Held
  <2>7. QED BY <2>1, <2>3, <2>4, <2>6 DEF TipAccounted
<1>8. QED BY <1>4, <1>5, <1>6, <1>7, StepCases

(* A line is appended for the generation after the tip.                      *)
LEMMA ChainStep ==
    ASSUME TypeOK, HolderIsCurrent, GenerationsGrow, TipAccounted, RotationsChain, AuthNext
    PROVE  RotationsChain'
<1>1. audit \in Seq(Content) BY DEF TypeOK
<1>2. Unlogged \subseteq Unlogged' BY UnloggedStays
<1>3. CASE UNCHANGED audit BY <1>2, <1>3 DEF RotationsChain
<1>4. ASSUME NEW p \in Servers, append_audit(p) PROVE RotationsChain'
  <2>1. audit' = Append(audit, auth) /\ auth \in Content /\ At(p, "replaced")
    BY <1>4 DEF append_audit, Logged, HolderIsCurrent, TypeOK
  <2>2. auth.prev = issued - 1 /\ issued - 1 \in Unlogged \cup {LastGen}
    BY <2>1 DEF GenerationsGrow, TipAccounted, Replacing
  <2>3. /\ Len(audit') = Len(audit) + 1 /\ audit'[Len(audit) + 1] = auth
        /\ DOMAIN audit' = 1..(Len(audit) + 1) /\ DOMAIN audit = 1..Len(audit)
        /\ \A i \in 1..Len(audit) : audit'[i] = audit[i]
        /\ Len(audit) \in Nat
    BY <1>1, <2>1
  <2> SUFFICES ASSUME NEW i \in DOMAIN audit'
               PROVE  audit'[i].prev \in Unlogged'
                                         \cup {IF i = 1 THEN 0 ELSE audit'[i - 1].gen}
      BY DEF RotationsChain
  <2>4. CASE i \in 1..Len(audit)
    <3>1. audit'[i] = audit[i] /\ (i # 1 => audit'[i - 1] = audit[i - 1]) BY <2>3, <2>4
    <3>2. audit[i].prev \in Unlogged \cup {IF i = 1 THEN 0 ELSE audit[i - 1].gen}
      BY <2>3, <2>4 DEF RotationsChain
    <3>3. QED BY <1>2, <3>1, <3>2
  <2>5. CASE i = Len(audit) + 1
    <3>1. LastGen = IF i = 1 THEN 0 ELSE audit'[i - 1].gen
      BY <1>1, <2>3, <2>5 DEF LastGen
    <3>2. audit'[i].prev = issued - 1 BY <2>2, <2>3, <2>5
    <3>3. QED BY <1>2, <2>2, <3>1, <3>2
  <2>6. QED BY <2>3, <2>4, <2>5
<1>5. QED
  BY <1>3, <1>4, StepCases DEF acquire, read_locked, replace, release, read_account, die
------------------------------------------------------------------------------
(* The invariant holds at the start, and every step keeps it.                *)
LEMMA InvInit == AuthInit => AuthInv
<1> SUFFICES ASSUME AuthInit PROVE AuthInv OBVIOUS
<1>1. [gen |-> 0, prev |-> 0] \in Content BY DEF Content
<1>2. TypeOK BY <1>1 DEF AuthInit, TypeOK, Row, Pcs, Free
<1>3. \A p \in Servers : server[p] = Free BY DEF AuthInit
<1>4. LockTells /\ HolderIsCurrent BY <1>3 DEF AuthInit, LockTells, HolderIsCurrent, At, Free, Held
<1>5. GenerationsGrow BY <1>1, <1>3, UnreadableAssumption DEF AuthInit, GenerationsGrow, At, Free, Content
<1>6. TipAccounted /\ RotationsChain
  BY <1>3 DEF AuthInit, TipAccounted, RotationsChain, Replacing, LastGen, At, Free
<1>7. QED BY <1>2, <1>4, <1>5, <1>6 DEF AuthInv

(* Every step of a process, and its death, keep the invariant.              *)
LEMMA InvStep == AuthInv /\ [AuthNext]_authVars => AuthInv'
<1> SUFFICES ASSUME AuthInv, [AuthNext]_authVars PROVE AuthInv' OBVIOUS
<1>1. TypeOK' /\ LockTells' /\ HolderIsCurrent' /\ GenerationsGrow'
  BY TypeStep, LockStep, CurrentStep, GenerationsStep DEF AuthInv
<1>2. CASE AuthNext BY <1>1, <1>2, TipStep, ChainStep DEF AuthInv
<1>3. CASE UNCHANGED authVars
  BY <1>1, <1>3 DEF AuthInv, authVars, TipAccounted, Replacing, LastGen, Unlogged, At, RotationsChain
<1>4. QED BY <1>2, <1>3

(* The app-server's invariant, for every set of processes.                   *)
THEOREM RotationInvariant == AuthSpec => []AuthInv
BY InvInit, InvStep, PTL DEF AuthSpec

(* acquire admits one process between the read of auth.json and its line in  *)
(* the audit log, whichever processes die with the lock.                     *)
THEOREM OneRotation ==
    AuthSpec => [](\A p, q \in Servers :
                       server[p].pc \in Held /\ server[q].pc \in Held => p = q)
<1>1. AuthInv => \A p, q \in Servers :
                     server[p].pc \in Held /\ server[q].pc \in Held => p = q
  BY DEF AuthInv, LockTells
<1>2. QED BY <1>1, RotationInvariant, PTL

(* No rotation is lost: whatever is renamed over auth.json names the tokens  *)
(* that stood there as its predecessors, so no refresh rests on tokens that  *)
(* another one has already replaced.                                         *)
THEOREM RestsOnTheFile ==
    AuthSpec => [][auth' # auth => auth # Unreadable /\ auth'.prev = auth.gen]_authVars
<1>1. AuthInv /\ [AuthNext]_authVars
          => [auth' # auth => auth # Unreadable /\ auth'.prev = auth.gen]_authVars
  <2> SUFFICES ASSUME AuthInv, AuthNext, auth' # auth
               PROVE  auth # Unreadable /\ auth'.prev = auth.gen
      BY DEF authVars
  <2>1. PICK p \in Servers : replace(p)
    BY StepCases DEF acquire, read_locked, append_audit, release, read_account, die
  <2>2. QED BY <2>1 DEF AuthInv, HolderIsCurrent, replace
<1>2. QED BY <1>1, RotationInvariant, PTL DEF AuthSpec

(* The audit log tells the file: its lines follow each other, and once the   *)
(* lock is free its last one digests what auth.json holds, up to the         *)
(* generations whose writer died between the rename and the line.            *)
THEOREM AuditTells == AuthSpec => []AuditTellsFile
<1>1. AuthInv => AuditTellsFile
  <2> SUFFICES ASSUME AuthInv PROVE LastLineIsTheFile BY DEF AuthInv, AuditTellsFile
  <2> SUFFICES ASSUME lock = {}, issued > 0
               PROVE  \/ audit # << >> /\ auth = Last(audit)
                      \/ auth.gen \in Unlogged
      BY DEF LastLineIsTheFile
  <2>1. ~Replacing BY DEF AuthInv, LockTells, Replacing, At, Held
  <2>2. issued \in Nat /\ auth.gen = issued BY DEF AuthInv, TypeOK, GenerationsGrow
  <2>3. auth.gen \in Unlogged \cup {LastGen} BY <2>1, <2>2 DEF AuthInv, TipAccounted
  <2>4. CASE auth.gen = LastGen
    <3>1. audit # << >> BY <2>2, <2>4 DEF LastGen
    <3>2. QED BY <2>2, <2>4, <3>1 DEF AuthInv, TipAccounted, Last
  <2>5. QED BY <2>3, <2>4
<1>2. QED BY <1>1, RotationInvariant, PTL

------------------------------------------------------------------------------
(* Every store has its shape.                                                *)
TurnPcs == {"start", "opened", "begun", "told", "running", "calling", "ending", "closing",
            "saved", "recorded", "rendered"} \cup Halted
Shape ==
    /\ DOMAIN file = Ids /\ DOMAIN log = Logs /\ DOMAIN turn = Procs
    /\ sent \subseteq Procs
    /\ \A s \in Ids : file[s] \in SessionRow \cup {None, Torn}
    /\ \A p \in Procs :
        /\ DOMAIN turn[p] = DOMAIN Unstarted
        /\ turn[p].mem \in SessionRow /\ turn[p].pc \in TurnPcs
        /\ turn[p].pc # "start" => turn[p].session \in Ids
        /\ turn[p].pc \in {"start", "opened"} => turn[p].write = None

(* A session counts its turns, and lists none that has not begun.            *)
Lists(m, p) == p \in Range(m.invocations)
Counts(m) == m.turns = Len(m.invocations) /\ IsInjective(m.invocations)
Unbegun(p) == turn[p].pc \in {"start", "opened"}
Listed ==
    /\ \A s \in {x \in Ids : OnFile(x)} : Counts(file[s]) /\ \A p \in Procs : Unbegun(p) => ~Lists(file[s], p)
    /\ \A q \in Procs : Counts(turn[q].mem) /\ \A p \in Procs : Unbegun(p) => ~Lists(turn[q].mem, p)
Active(p) == Live(p) /\ ~Unbegun(p)
Begins ==
    /\ \A p \in Procs : Active(p) => Begun(p)
    /\ \A s \in Ids : file[s] = None => \A p \in Procs : turn[p].session # s \/ ~Begun(p)

(* Its identity is what its turns made of it.                                *)
Remembering ==
    /\ \A s \in {x \in Ids : OnFile(x)} : Remembers(file[s], file[s].invocations)
    /\ \A p \in Procs : 
        /\ Begun(p) => Remembers(turn[p].mem, turn[p].mem.invocations)
        /\ turn[p].pc = "opened" => Remembers(turn[p].mem, Append(turn[p].mem.invocations, p))

(* Turns of one session follow each other.                                   *)
Alone ==
    \A p, q \in Procs : Live(p) /\ Live(q) /\ turn[p].session = turn[q].session /\ turn[p].session \notin Overlapped
        => p = q
Turns(s) == {p \in Procs : turn[p].session = s /\ Begun(p)}
Complete ==
    /\ \A s \in {x \in Ids \ Overlapped : OnFile(x)} : Range(file[s].invocations) = Turns(s)
    /\ \A p \in Procs : Live(p) /\ turn[p].session \notin Overlapped =>
          Range(turn[p].mem.invocations) = Turns(turn[p].session)

(* What a turn asked is on its session's file once the turn has saved.       *)
Filed(p) == turn[p].pc \in {"closing", "saved", "recorded"} /\ turn[p].write # "state"
AskKept(p) ==
    /\ Begun(p) /\ p \in Range(turn[p].mem.asks)
    /\ (Filed(p) \/ turn[p].pc \in {"rendered", "exited"}) /\ turn[p].session \notin Overlapped =>
          /\ OnFile(turn[p].session) => p \in Range(file[turn[p].session].asks)
          /\ \A q \in Procs : Live(q) /\ turn[q].session = turn[p].session => p \in Range(turn[q].mem.asks)
AsksKept == \A p \in sent : AskKept(p)

(* A turn that has saved is what the file holds, until its envelope.         *)
SavedIsFile ==
    \A p \in Procs : 
        /\ Filed(p) /\ turn[p].session \notin Overlapped => file[turn[p].session] = turn[p].mem
        /\ turn[p].envelope # None => turn[p].pc \in {"rendered", "exited", "killed"} /\ turn[p].write = None
        /\ turn[p].pc \in {"saved", "recorded", "rendered"} => turn[p].write # "state"

TurnInv == Shape /\ Listed /\ Begins /\ Remembering /\ Alone /\ Complete /\ AsksKept /\ SavedIsFile
------------------------------------------------------------------------------
(* What a step does to the turn of one process.  It starts; or it goes on,   *)
(* its session in memory the same but for asks and verdicts; or it begins,   *)
(* or ends, which leaves the session's file torn; or it fills that file.     *)
Moves(p) ==
    /\ p \in Procs /\ DOMAIN turn' = Procs /\ DOMAIN log' = Logs
    /\ DOMAIN turn'[p] = DOMAIN Unstarted
    /\ \A q \in Procs \ {p} : turn'[q] = turn[q]
SameTurn(p) == turn'[p].call = turn[p].call /\ turn'[p].session = turn[p].session
SameIdentity(m, n) ==
    n.turns = m.turns /\ n.invocations = m.invocations /\ n.selftest = m.selftest /\ n.cred = m.cred

Starts(p, c) ==
    LET s == SessionOf(p, c)
        held == LoadOrCreate(file[s])
        state == turn'[p].mem
    IN  /\ Moves(p) /\ UNCHANGED <<file, sent>> /\ s \in Ids
        /\ turn[p].pc = "start" /\ turn'[p].pc \in {"exited", "died", "opened"}
        /\ turn'[p].call = c /\ turn'[p].session = s /\ turn'[p].mem \in SessionRow
        /\ turn'[p].write = None /\ turn'[p].envelope = None
        /\ s \notin Overlapped => \A q \in Procs : ~(Live(q) /\ turn[q].session = s)
        /\ turn'[p].pc # "opened" => state = NewSession
        /\ turn'[p].pc = "opened" =>
              /\ file[s] # Torn /\ state.turns = held.turns
              /\ state.invocations = held.invocations /\ state.asks = held.asks
              /\ state.selftest = (IF IsResume(c) THEN held.selftest ELSE c.lease = "selftest")
              /\ state.cred = IF IsResume(c) /\ c.lease = None THEN held.cred ELSE Credential(p, c)
Tears(p) == file' = [file EXCEPT ![turn[p].session] = Torn] /\ turn'[p].write = "state"
Opens(p) ==
    /\ Moves(p) /\ SameTurn(p) /\ Tears(p) /\ UNCHANGED sent
    /\ turn[p].pc = "opened" /\ turn'[p].pc = "begun" /\ turn'[p].envelope = turn[p].envelope
    /\ turn'[p].mem = Counted(p, turn[p].mem)
Ends(p) ==
    /\ Moves(p) /\ SameTurn(p) /\ Tears(p) /\ UNCHANGED sent
    /\ turn[p].pc = "ending" /\ turn'[p].pc = "closing" /\ turn'[p].envelope = turn[p].envelope
    /\ turn'[p].mem = turn[p].mem
Fills(p) ==
    /\ Moves(p) /\ SameTurn(p) /\ Live(p) /\ UNCHANGED sent
    /\ turn[p].write = "state" /\ turn'[p].write = None
    /\ file' = [file EXCEPT ![turn[p].session] = turn[p].mem]
    /\ turn'[p].pc = turn[p].pc /\ turn'[p].mem = turn[p].mem /\ turn'[p].envelope = turn[p].envelope
Continues(p) ==
    /\ Moves(p) /\ SameTurn(p) /\ UNCHANGED file
    /\ Live(p) /\ turn'[p].pc \in TurnPcs \ {"start", "opened"}
    /\ turn[p].pc = "opened" => turn'[p].pc \in {"died", "killed"}
    /\ turn'[p].mem \in SessionRow /\ SameIdentity(turn[p].mem, turn'[p].mem)
    /\ Range(turn[p].mem.asks) \subseteq Range(turn'[p].mem.asks)
    /\ \/ sent' = sent
       \/ sent' = sent \cup {p} /\ turn[p].pc = "running" /\ turn'[p].pc \in {"running", "ending"}
          /\ p \in Range(turn'[p].mem.asks)
    /\ Filed(p)' => Filed(p) /\ turn'[p].mem = turn[p].mem
    /\ turn'[p].pc \in {"rendered", "exited"} => Filed(p) \/ turn[p].pc = "rendered"
    /\ turn'[p].pc \in {"saved", "recorded", "rendered"} => turn'[p].write # "state"
    /\ turn'[p].envelope = turn[p].envelope \/ Filed(p)
    /\ turn'[p].envelope # None =>
          turn'[p].pc \in {"rendered", "exited", "killed"} /\ turn'[p].write = None

(* Appending an entry adds it to what a list holds.                          *)
LEMMA Appended ==
    ASSUME NEW S, NEW s \in Seq(S), NEW e \in S
    PROVE  /\ Append(s, e) \in Seq(S) /\ Len(Append(s, e)) = Len(s) + 1
           /\ DOMAIN Append(s, e) = DOMAIN s \cup {Len(s) + 1}
           /\ \A i \in DOMAIN s : Append(s, e)[i] = s[i] /\ i \in 1 .. Len(s)
           /\ Append(s, e)[Len(s) + 1] = e
           /\ Range(Append(s, e)) = Range(s) \cup {e}
<1>1. DOMAIN Append(s, e) = DOMAIN s \cup {Len(s) + 1} OBVIOUS
<1>2. /\ \A i \in DOMAIN s : Append(s, e)[i] = s[i] /\ i \in 1 .. Len(s)
      /\ Append(s, e)[Len(s) + 1] = e
  OBVIOUS
<1>3. Range(Append(s, e)) = Range(s) \cup {e} BY <1>1, <1>2 DEF Range
<1>4. QED BY <1>1, <1>2, <1>3

(* A new session is one, and a session that counts a turn stays one.         *)
LEMMA Fresh == NewSession \in SessionRow
<1>1. << >> \in Seq(Procs) /\ None \in Procs \cup {None} OBVIOUS
<1>2. QED BY <1>1 DEF NewSession, SessionRow
(* A session counts a turn by one and lists it last.                        *)
LEMMA CountsOne ==
    ASSUME NEW m \in SessionRow, NEW p \in Procs
    PROVE  LET n == Counted(p, m)
           IN  /\ n \in SessionRow
               /\ n.turns = m.turns + 1 /\ n.invocations = Append(m.invocations, p)
               /\ n.asks = m.asks /\ n.selftest = m.selftest /\ n.cred = m.cred
<1>1. m.turns + 1 \in Nat /\ Append(m.invocations, p) \in Seq(Procs) BY DEF SessionRow
<1>2. QED BY <1>1 DEF SessionRow, Counted

(* A launch starts a turn.                                                  *)
LEMMA LaunchStarts ==
    ASSUME Shape, NEW p \in Procs, NEW c \in TurnCalls, launch(p, c)
    PROVE  Starts(p, c)
<1> DEFINE s == SessionOf(p, c)
           held == LoadOrCreate(file[s])
           start == [Unstarted EXCEPT !.call = c, !.session = s]
           state == IF IsResume(c) THEN Resumed(p, c, held) ELSE Spawned(p, c, held)
           open == [start EXCEPT !.pc = "opened", !.mem = state, !.program = Program(c, state.selftest)]
<1>1. s \in Ids BY TurnAssumption DEF SessionOf, Ids
<1>2. turn[p].pc = "start" /\ UNCHANGED <<file, sent, log>> BY DEF launch
<1>3. DOMAIN turn = Procs /\ DOMAIN log = Logs /\ turn[p].mem \in SessionRow BY DEF Shape
<1>4. s \notin Overlapped => \A q \in Procs : ~(Live(q) /\ turn[q].session = s) BY DEF launch
<1>5. Moves(p) /\ turn'[p] = CASE ~Fenced(c) -> [start EXCEPT !.pc = "exited"]
                               [] Fenced(c) /\ file[s] = Torn -> [start EXCEPT !.pc = "died"]
                               [] OTHER -> open
  <2>1. turn' = [turn EXCEPT ![p] =
                CASE ~Fenced(c) -> [start EXCEPT !.pc = "exited"]
                  [] Fenced(c) /\ file[s] = Torn -> [start EXCEPT !.pc = "died"]
                  [] OTHER -> open] BY DEF launch
  <2>2. DOMAIN start = DOMAIN Unstarted /\ DOMAIN open = DOMAIN Unstarted OBVIOUS
  <2>3. QED BY <1>2, <1>3, <2>1, <2>2 DEF Moves
<1>6. held \in SessionRow \/ file[s] = Torn BY <1>1, Fresh DEF LoadOrCreate, Shape
<1>7. CASE ~Fenced(c) \/ file[s] = Torn
  <2>1. turn'[p] = [start EXCEPT !.pc = "exited"] \/ turn'[p] = [start EXCEPT !.pc = "died"]
    BY <1>5, <1>7
  <2>2. /\ turn'[p].call = c /\ turn'[p].session = s /\ turn'[p].mem = NewSession
        /\ turn'[p].write = None /\ turn'[p].envelope = None /\ turn'[p].pc \in {"exited", "died"}
    BY <2>1 DEF Unstarted
  <2>3. QED BY <1>1, <1>2, <1>4, <1>5, <2>2, Fresh DEF Starts
<1>8. CASE Fenced(c) /\ file[s] # Torn
  <2>1. turn'[p] = open BY <1>5, <1>8
  <2>2. /\ turn'[p].call = c /\ turn'[p].session = s /\ turn'[p].mem = state
        /\ turn'[p].write = None /\ turn'[p].envelope = None /\ turn'[p].pc = "opened"
    BY <2>1 DEF Unstarted
  <2>3. held \in SessionRow BY <1>6, <1>8
  <2>4. /\ state \in SessionRow /\ state.turns = held.turns
        /\ state.invocations = held.invocations /\ state.asks = held.asks
        /\ state.selftest = (IF IsResume(c) THEN held.selftest ELSE c.lease = "selftest")
        /\ state.cred = IF IsResume(c) /\ c.lease = None THEN held.cred ELSE Credential(p, c)
    <3>1. Credential(p, c) \in Procs \cup {None} BY DEF Credential
    <3>2. CASE IsResume(c)
      <4>1. Append(held.resumes, p) \in Seq(Procs) BY <2>3 DEF SessionRow
      <4>2. QED BY <2>3, <3>1, <3>2, <4>1 DEF SessionRow, Resumed
    <3>3. CASE ~IsResume(c) BY <2>3, <3>1, <3>3 DEF SessionRow, Spawned
    <3>4. QED BY <3>2, <3>3
  <2>5. QED BY <1>1, <1>2, <1>4, <1>5, <1>8, <2>2, <2>4 DEF Starts
<1>9. QED BY <1>7, <1>8

(* A record goes to the transcript, and leaves the turn as it is given.      *)
Becomes(p, next) ==
    /\ Moves(p) /\ turn'[p].pc = next.pc /\ turn'[p].call = next.call /\ turn'[p].session = next.session
    /\ turn'[p].mem = next.mem /\ turn'[p].envelope = next.envelope

(* Writing a line of the transcript moves one turn and no file.             *)
LEMMA Recorded ==
    ASSUME Shape, NEW p \in Procs, NEW entry, NEW next, DOMAIN next = DOMAIN Unstarted,
           Record(p, entry, next)
    PROVE  Becomes(p, next) /\ UNCHANGED file /\ turn'[p].write \in {next.write, "export"}
<1> USE DEF Shape
<1>1. CASE Rewrites(turn[p])
  <2> DEFINE doc == [next EXCEPT !.doc = Append(turn[p].doc, entry)]
  <2>1. Truncate(p, "export", doc) BY <1>1 DEF Record, Appends, Rewrites
  <2>2. /\ turn' = [turn EXCEPT ![p] = [doc EXCEPT !.write = "export"]] /\ file' = file
        /\ log' = [log EXCEPT ![Path(doc)] = Torn]
    BY <2>1 DEF Truncate
  <2>3. QED BY <2>2 DEF Becomes, Moves, Unstarted
<1>2. CASE Appends(turn[p]) /\ ~Rewrites(turn[p])
  <2>1. turn' = [turn EXCEPT ![p] = next] /\ file' = file /\ DOMAIN log' = DOMAIN log
    BY <1>2 DEF Record, Appends, Rewrites
  <2>2. QED BY <2>1 DEF Becomes, Moves
<1>3. CASE ~Appends(turn[p]) /\ ~Rewrites(turn[p])
  <2>1. turn' = [turn EXCEPT ![p] = next] /\ file' = file /\ log' = log BY <1>3 DEF Record
  <2>2. QED BY <2>1 DEF Becomes, Moves
<1>4. QED BY <1>1, <1>2, <1>3

(* A staged step leaves the turn as it is given, and the files alone.       *)
LEMMA Staged ==
    ASSUME Shape, NEW p \in Procs, NEW next, DOMAIN next = DOMAIN Unstarted, Stage(p, next)
    PROVE  Becomes(p, next) /\ turn'[p].write = next.write /\ UNCHANGED <<file, sent>>
BY DEF Shape, Stage, Becomes, Moves

(* A turn that goes on with its session as it is.                            *)
LEMMA GoesOn ==
    ASSUME Shape, SavedIsFile, NEW p \in Procs, NEW next, Becomes(p, next), UNCHANGED <<file, sent>>,
           Live(p), turn[p].pc # "opened", next.mem = turn[p].mem,
           next.call = turn[p].call, next.session = turn[p].session,
           next.envelope = turn[p].envelope, turn[p].envelope = None,
           \/ next.pc \in {"told", "running", "calling", "ending"}
           \/ Filed(p) /\ next.pc \in {"exited", "saved", "recorded"} /\ turn'[p].write # "state"
    PROVE  Continues(p)
<1>1. Moves(p) /\ SameTurn(p) /\ turn'[p].mem = turn[p].mem /\ turn'[p].envelope = None
  BY DEF Becomes, SameTurn
<1>2. turn[p].mem \in SessionRow BY DEF Shape
<1>3. /\ next.pc \in TurnPcs \ {"start", "opened"} /\ turn'[p].pc = next.pc
      /\ turn'[p].pc \in {"saved", "recorded", "rendered"} => turn'[p].write # "state"
      /\ turn'[p].pc \in {"rendered", "exited"} => Filed(p) \/ turn[p].pc = "rendered"
      /\ Filed(p)' => Filed(p)
  BY DEF TurnPcs, Halted, Becomes, Filed
<1>4. QED BY <1>1, <1>2, <1>3 DEF Continues, SameIdentity

(* Every step of a turn is of one of these kinds.                            *)
LEMMA StepKinds ==
    ASSUME Shape, SavedIsFile, NEW p \in Procs, Turn(p)
    PROVE  \/ \E c \in TurnCalls : launch(p, c) /\ Starts(p, c)
           \/ Opens(p) \/ Ends(p) \/ Fills(p) \/ Continues(p)
<1> DEFINE t == turn[p]
<1>0. /\ DOMAIN t = DOMAIN Unstarted /\ DOMAIN turn = Procs /\ DOMAIN file = Ids /\ DOMAIN log = Logs
      /\ t.mem \in SessionRow /\ t.pc \in TurnPcs
      /\ t.envelope # None => t.pc \in {"rendered", "exited", "killed"} /\ t.write = None
      /\ t.pc \in {"saved", "recorded", "rendered"} => t.write # "state"
  BY DEF Shape, SavedIsFile
<1>01. "state" # None /\ "export" # None BY TurnAssumption
<1>1. ASSUME NEW c \in TurnCalls, launch(p, c) PROVE launch(p, c) /\ Starts(p, c) BY <1>1, LaunchStarts
<1>2. CASE begin_turn(p)
  <2>1. CASE Rewrites(t) /\ log[Path(t)] = Torn
    <3>1. turn' = [turn EXCEPT ![p].pc = "died"] /\ UNCHANGED <<file, sent, log>> /\ t.pc = "opened"
      BY <1>2, <2>1 DEF begin_turn, Ready
    <3>2. Moves(p) /\ SameTurn(p) /\ turn'[p].mem = t.mem /\ turn'[p].pc = "died" /\ turn'[p].envelope = t.envelope
      BY <1>0, <3>1 DEF Moves, SameTurn, Unstarted
    <3>3. QED BY <1>0, <3>1, <3>2 DEF Continues, SameIdentity, Live, Halted, TurnPcs, Filed
  <2>2. CASE ~(Rewrites(t) /\ log[Path(t)] = Torn)
    <3> DEFINE next == [t EXCEPT !.pc = "begun", !.mem = Counted(p, t.mem),
                              !.doc = IF Rewrites(t) THEN OpenDocument(log[Path(t)]) ELSE @]
    <3>1. Truncate(p, "state", next) /\ UNCHANGED sent /\ t.pc = "opened"
      BY <1>2, <2>2 DEF begin_turn, Ready
    <3>2. DOMAIN next = DOMAIN Unstarted BY <1>0
    <3>3. /\ next.session = t.session /\ next.call = t.call /\ next.mem = Counted(p, t.mem)
          /\ next.pc = "begun" /\ next.envelope = t.envelope
      BY <1>0 DEF Unstarted
    <3> HIDE DEF next
    <3>4. /\ turn' = [turn EXCEPT ![p] = [next EXCEPT !.write = "state"]]
          /\ file' = [file EXCEPT ![t.session] = Torn] /\ log' = log
      BY <3>1, <3>3 DEF Truncate
    <3>5. Moves(p) /\ SameTurn(p) /\ turn'[p].mem = next.mem /\ turn'[p].pc = next.pc
          /\ turn'[p].envelope = next.envelope /\ turn'[p].write = "state"
      BY <1>0, <3>2, <3>3, <3>4 DEF Moves, SameTurn, Unstarted
    <3>6. QED BY <3>1, <3>3, <3>4, <3>5 DEF Opens, Tears
  <2>3. QED BY <2>1, <2>2
<1>3. CASE record_user(p)
  <2> DEFINE next == [t EXCEPT !.pc = "told"]
  <2>1. DOMAIN next = DOMAIN Unstarted /\ next.pc = "told" /\ next.mem = t.mem /\ next.call = t.call
        /\ next.session = t.session /\ next.envelope = t.envelope
    BY <1>0 DEF Unstarted
  <2>2. Record(p, Entry(p, "user", 0), next) /\ UNCHANGED sent /\ t.pc = "begun" BY <1>3 DEF record_user, Ready
  <2> HIDE DEF next
  <2>3. QED BY <1>0, <2>1, <2>2, Recorded, GoesOn DEF Live, Halted
<1>4. CASE start_exec(p)
  <2>1. turn' = [turn EXCEPT ![p].result = IF turn[p].program = "error" THEN "error" ELSE @,
                            ![p].pc = IF turn[p].program = "error" THEN "ending" ELSE "running"]
        /\ UNCHANGED <<file, log, sent>> /\ t.pc = "told"
    BY <1>4 DEF start_exec, Ready
  <2> DEFINE next == turn'[p]
  <2>2. Moves(p) /\ next.pc \in {"ending", "running"} /\ next.mem = t.mem /\ next.call = t.call
        /\ next.session = t.session /\ next.envelope = t.envelope
    BY <1>0, <2>1 DEF Moves, Unstarted
  <2>3. Becomes(p, next) BY <2>2 DEF Becomes
  <2>4. QED BY <1>0, <2>1, <2>2, <2>3, GoesOn DEF Live, Halted
<1>5. CASE tool_call(p)
  <2> DEFINE next == [t EXCEPT !.pc = "calling", !.tools = @ + 1]
  <2>1. DOMAIN next = DOMAIN Unstarted /\ next.pc = "calling" /\ next.mem = t.mem /\ next.call = t.call
        /\ next.session = t.session /\ next.envelope = t.envelope
    BY <1>0 DEF Unstarted
  <2>2. PICK entry : Record(p, entry, next) /\ UNCHANGED sent /\ t.pc = "running" BY <1>5 DEF tool_call, Ready
  <2> HIDE DEF next
  <2>3. QED BY <1>0, <2>1, <2>2, Recorded, GoesOn DEF Live, Halted
<1>6. CASE tool_result(p)
  <2> DEFINE next == [t EXCEPT !.pc = "running"]
             doc == [t EXCEPT !.pc = "running", !.doc = Completed(t.doc, p, t.tools)]
  <2>1. DOMAIN next = DOMAIN Unstarted /\ next.pc = "running" /\ next.mem = t.mem /\ next.call = t.call
        /\ next.session = t.session /\ next.envelope = t.envelope
    BY <1>0 DEF Unstarted
  <2>2. DOMAIN doc = DOMAIN Unstarted /\ doc.pc = "running" /\ doc.mem = t.mem /\ doc.call = t.call
        /\ doc.session = t.session /\ doc.envelope = t.envelope
    BY <1>0 DEF Unstarted
  <2>3. UNCHANGED sent /\ t.pc = "calling" BY <1>6 DEF tool_result, Ready
  <2>4. CASE Rewrites(t)
    <3>1. Truncate(p, "export", doc) BY <1>6, <2>4 DEF tool_result
    <3> HIDE DEF doc
    <3>2. turn' = [turn EXCEPT ![p] = [doc EXCEPT !.write = "export"]] /\ file' = file
          /\ log' = [log EXCEPT ![Path(doc)] = Torn]
      BY <3>1 DEF Truncate
    <3>3. Becomes(p, doc) BY <1>0, <2>2, <3>2 DEF Becomes, Moves, Unstarted
    <3>4. QED BY <1>0, <2>2, <2>3, <3>2, <3>3, GoesOn DEF Live, Halted
  <2>5. CASE ~Rewrites(t)
    <3>1. PICK entry : Record(p, entry, next) BY <1>6, <2>5 DEF tool_result
    <3> HIDE DEF next
    <3>2. QED BY <1>0, <2>1, <2>3, <3>1, Recorded, GoesOn DEF Live, Halted
  <2>6. QED BY <2>4, <2>5
<1>7. CASE verdict(p) \/ judge(p)
  <2>1. PICK next : /\ Stage(p, next) /\ DOMAIN next = DOMAIN Unstarted /\ next.call = t.call
                    /\ next.session = t.session /\ next.envelope = t.envelope /\ next.pc = "running"
                    /\ next.mem = [t.mem EXCEPT !.verdicts = Append(@, p)] /\ t.pc = "running"
    BY <1>0, <1>7 DEF verdict, judge, Ready, Unstarted
  <2>2. Append(t.mem.verdicts, p) \in Seq(Procs) BY <1>0 DEF SessionRow
  <2>3. next.mem \in SessionRow /\ SameIdentity(t.mem, next.mem) /\ next.mem.asks = t.mem.asks
    BY <1>0, <2>1, <2>2 DEF SessionRow, SameIdentity
  <2>4. Becomes(p, next) /\ UNCHANGED <<file, sent>> BY <2>1, Staged
  <2>5. QED BY <1>0, <2>1, <2>3, <2>4 DEF Continues, Becomes, SameTurn, Live, Halted, TurnPcs, Filed
<1>8. CASE usage_limited(p)
  <2> DEFINE next == [t EXCEPT !.result = "success"]
  <2>1. DOMAIN next = DOMAIN Unstarted /\ next.pc = t.pc /\ next.mem = t.mem /\ next.call = t.call
        /\ next.session = t.session /\ next.envelope = t.envelope
    BY <1>0 DEF Unstarted
  <2>2. PICK entry : Record(p, entry, next) /\ UNCHANGED sent /\ t.pc = "running" BY <1>8 DEF usage_limited, Ready
  <2> HIDE DEF next
  <2>3. QED BY <1>0, <2>1, <2>2, Recorded, GoesOn DEF Live, Halted
<1>9. CASE ask(p)
  <2>1. PICK next \in {"ending", "running"} :
            turn' = [turn EXCEPT ![p] = [t EXCEPT !.mem = AskNoted(p, t.mem), !.result = "ask", !.pc = next]]
    BY <1>9 DEF ask
  <2>2. UNCHANGED <<file, log>> /\ sent' = sent \cup {p} /\ t.pc = "running" BY <1>9 DEF ask, Ready
  <2> DEFINE noted == AskNoted(p, t.mem)
             asked == [t EXCEPT !.mem = noted, !.result = "ask", !.pc = next]
  <2> HIDE DEF noted
  <2>10. DOMAIN asked = DOMAIN Unstarted /\ turn'[p] = asked BY <1>0, <2>1 DEF noted
  <2>11. /\ asked.pc = next /\ asked.mem = noted /\ asked.call = t.call
        /\ asked.session = t.session /\ asked.envelope = t.envelope
    BY <1>0 DEF Unstarted
  <2> HIDE DEF asked
  <2>3. /\ Moves(p) /\ SameTurn(p) /\ turn'[p].pc = next /\ turn'[p].envelope = t.envelope
        /\ turn'[p].mem = AskNoted(p, t.mem)
    BY <1>0, <2>1, <2>2, <2>10, <2>11 DEF Moves, SameTurn, noted, asked
  <2>4. /\ Append(t.mem.asks, p) \in Seq(Procs)
        /\ Range(Append(t.mem.asks, p)) = Range(t.mem.asks) \cup {p}
    BY <1>0, Appended DEF SessionRow
  <2>5. /\ AskNoted(p, t.mem) \in SessionRow /\ SameIdentity(t.mem, AskNoted(p, t.mem))
        /\ AskNoted(p, t.mem).asks = Append(t.mem.asks, p)
    BY <1>0, <2>4 DEF SessionRow, AskNoted, SameIdentity
  <2>6. QED BY <1>0, <2>2, <2>3, <2>4, <2>5 DEF Continues, Live, Halted, TurnPcs, Filed
<1>10. CASE finish(p) \/ fail(p) \/ leave(p)
  <2>1. PICK next : /\ Stage(p, next) /\ DOMAIN next = DOMAIN Unstarted /\ next.call = t.call
                    /\ next.session = t.session /\ next.envelope = t.envelope /\ next.pc = "ending"
                    /\ next.mem = t.mem /\ t.pc \in {"running", "calling"}
    BY <1>0, <1>10 DEF finish, fail, leave, Ready, Unstarted
  <2>2. QED BY <1>0, <2>1, Staged, GoesOn DEF Live, Halted
<1>11. CASE save_end(p)
  <2> DEFINE next == [t EXCEPT !.pc = "closing"]
  <2>1. Truncate(p, "state", next) /\ UNCHANGED sent /\ t.pc = "ending" BY <1>11 DEF save_end, Ready
  <2>2. /\ DOMAIN next = DOMAIN Unstarted /\ next.session = t.session /\ next.call = t.call
        /\ next.mem = t.mem /\ next.pc = "closing" /\ next.envelope = t.envelope
    BY <1>0 DEF Unstarted
  <2> HIDE DEF next
  <2>3. /\ turn' = [turn EXCEPT ![p] = [next EXCEPT !.write = "state"]]
        /\ file' = [file EXCEPT ![t.session] = Torn] /\ log' = log
    BY <2>1, <2>2 DEF Truncate
  <2>4. Moves(p) /\ SameTurn(p) /\ turn'[p].mem = next.mem /\ turn'[p].pc = next.pc
        /\ turn'[p].envelope = next.envelope /\ turn'[p].write = "state"
    BY <1>0, <2>2, <2>3 DEF Moves, SameTurn, Unstarted
  <2>5. QED BY <2>1, <2>2, <2>3, <2>4 DEF Ends, Tears
<1>12. CASE close(p)
  <2> DEFINE next == [t EXCEPT !.pc = IF t.result = None THEN "exited" ELSE "saved"]
  <2>1. DOMAIN next = DOMAIN Unstarted /\ next.pc \in {"exited", "saved"} /\ next.mem = t.mem /\ next.call = t.call
        /\ next.session = t.session /\ next.envelope = t.envelope /\ next.write = t.write
    BY <1>0 DEF Unstarted
  <2>2. Stage(p, next) /\ t.pc = "closing" /\ t.write = None BY <1>12 DEF close, Ready
  <2> HIDE DEF next
  <2>3. QED BY <1>0, <1>01, <2>1, <2>2, Staged, GoesOn DEF Live, Halted, Filed
<1>13. CASE record_result(p)
  <2> DEFINE next == [t EXCEPT !.pc = "recorded"]
  <2>1. DOMAIN next = DOMAIN Unstarted /\ next.pc = "recorded" /\ next.mem = t.mem /\ next.call = t.call
        /\ next.session = t.session /\ next.envelope = t.envelope /\ next.write = t.write
    BY <1>0 DEF Unstarted
  <2>2. Record(p, Entry(p, t.result, 0), next) /\ t.pc = "saved" /\ t.write = None /\ UNCHANGED sent
    BY <1>13 DEF record_result, Ready
  <2> HIDE DEF next
  <2>3. Becomes(p, next) /\ UNCHANGED file /\ turn'[p].write \in {None, "export"} BY <2>1, <2>2, Recorded
  <2>4. QED BY <1>0, <1>01, <2>1, <2>2, <2>3, GoesOn DEF Live, Halted, Filed
<1>14. CASE render(p)
  <2> DEFINE next == [t EXCEPT !.pc = IF t.call.hooks THEN "rendered" ELSE "exited", !.envelope = Envelope(t)]
  <2>1. DOMAIN next = DOMAIN Unstarted /\ next.pc \in {"exited", "rendered"} /\ next.mem = t.mem /\ next.call = t.call
        /\ next.session = t.session /\ next.write = t.write
    BY <1>0 DEF Unstarted
  <2>2. Stage(p, next) /\ t.pc = "recorded" /\ t.write = None BY <1>14 DEF render, Ready
  <2> HIDE DEF next
  <2>3. Becomes(p, next) /\ turn'[p].write = None /\ UNCHANGED <<file, sent>> BY <2>1, <2>2, Staged
  <2>4. QED BY <1>0, <1>01, <2>1, <2>2, <2>3
      DEF Continues, Becomes, SameTurn, SameIdentity, Live, Halted, TurnPcs, Filed
<1>15. CASE on_session_end(p)
  <2> DEFINE next == [t EXCEPT !.pc = "exited"]
  <2>1. DOMAIN next = DOMAIN Unstarted /\ next.pc = "exited" /\ next.mem = t.mem /\ next.call = t.call
        /\ next.session = t.session /\ next.write = t.write /\ next.envelope = t.envelope
    BY <1>0 DEF Unstarted
  <2>2. Stage(p, next) /\ t.pc = "rendered" /\ t.write = None BY <1>15 DEF on_session_end, Ready
  <2> HIDE DEF next
  <2>3. Becomes(p, next) /\ turn'[p].write = None /\ UNCHANGED <<file, sent>> BY <2>1, <2>2, Staged
  <2>4. QED BY <1>0, <1>01, <2>1, <2>2, <2>3
      DEF Continues, Becomes, SameTurn, SameIdentity, Live, Halted, TurnPcs, Filed
<1>16. CASE flush(p) /\ t.write = "state"
  <2>1. /\ turn' = [turn EXCEPT ![p].write = None] /\ file' = [file EXCEPT ![t.session] = t.mem]
        /\ log' = log /\ UNCHANGED sent /\ Live(p)
    BY <1>16 DEF flush
  <2>2. /\ Moves(p) /\ SameTurn(p) /\ turn'[p].write = None /\ turn'[p].pc = t.pc
        /\ turn'[p].mem = t.mem /\ turn'[p].envelope = t.envelope
    BY <1>0, <2>1 DEF Moves, SameTurn, Unstarted
  <2>3. QED BY <1>16, <2>1, <2>2 DEF Fills
<1>17. CASE flush(p) /\ t.write # "state"
  <2>1. /\ turn' = [turn EXCEPT ![p].write = None] /\ file' = file
        /\ DOMAIN log' = DOMAIN log /\ UNCHANGED sent /\ Live(p) /\ t.write # None
    BY <1>17 DEF flush
  <2>2. /\ Moves(p) /\ SameTurn(p) /\ turn'[p].write = None /\ turn'[p].pc = t.pc
        /\ turn'[p].mem = t.mem /\ turn'[p].envelope = t.envelope
    BY <1>0, <2>1 DEF Moves, SameTurn, Unstarted
  <2>3. t.pc \notin {"start", "opened"} BY <2>1 DEF Shape
  <2>4. QED BY <1>0, <1>01, <1>17, <2>1, <2>2, <2>3 DEF Continues, SameIdentity, Live, Halted, TurnPcs, Filed
<1>18. CASE kill(p)
  <2> DEFINE next == [t EXCEPT !.pc = "killed"]
  <2>1. DOMAIN next = DOMAIN Unstarted /\ next.pc = "killed" /\ next.mem = t.mem /\ next.call = t.call
        /\ next.session = t.session /\ next.write = t.write /\ next.envelope = t.envelope
    BY <1>0 DEF Unstarted
  <2>2. Stage(p, next) /\ Live(p) BY <1>18 DEF kill
  <2> HIDE DEF next
  <2>3. Becomes(p, next) /\ turn'[p].write = t.write /\ UNCHANGED <<file, sent>> BY <2>1, <2>2, Staged
  <2>4. QED BY <1>0, <2>1, <2>2, <2>3
      DEF Continues, Becomes, SameTurn, SameIdentity, Live, Halted, TurnPcs, Filed
<1>19. QED BY <1>1, <1>2, <1>3, <1>4, <1>5, <1>6, <1>7, <1>8, <1>9, <1>10, <1>11, <1>12, <1>13,
              <1>14, <1>15, <1>16, <1>17, <1>18 DEF Turn, Script


(* The steps of a turn that has started.                                     *)
Steps(p) == Opens(p) \/ Ends(p) \/ Fills(p) \/ Continues(p)

(* A step of a turn that has started: whose it is, and what it leaves alone.*)
LEMMA Underway ==
    ASSUME Shape, NEW p \in Procs, Steps(p)
    PROVE  /\ Moves(p) /\ SameTurn(p) /\ Live(p)
           /\ turn[p].session \in Ids /\ turn[p].mem \in SessionRow /\ turn'[p].mem \in SessionRow
           /\ sent \subseteq sent' /\ sent' \subseteq sent \cup {p}
           /\ \A q \in Procs : Unbegun(q)' => Unbegun(q) /\ q # p
           /\ \A q \in Procs : Live(q)' => Live(q)
<1>1. turn[p].mem \in SessionRow /\ (turn[p].pc # "start" => turn[p].session \in Ids) BY DEF Shape
<1>2. CASE Opens(p) BY <1>1, <1>2, CountsOne DEF Opens, Moves, Live, Halted, Unbegun
<1>3. CASE Ends(p) BY <1>1, <1>3 DEF Ends, Moves, Live, Halted, Unbegun
<1>4. CASE Fills(p)
  <2>1. ~Unbegun(p)
    <3>1. turn[p].write # None BY <1>4, TurnAssumption DEF Fills
    <3>2. QED BY <3>1 DEF Shape, Unbegun
  <2>2. QED BY <1>1, <1>4, <2>1 DEF Fills, Moves, Live, Halted, Unbegun
<1>5. CASE Continues(p) BY <1>1, <1>5 DEF Continues, Moves, Live, Halted, Unbegun
<1>6. QED BY <1>2, <1>3, <1>4, <1>5 DEF Steps

(* What a step makes of the session files.                                   *)
LEMMA FileMoves ==
    ASSUME Shape, NEW p \in Procs, Steps(p)
    PROVE  /\ DOMAIN file' = Ids
           /\ \A s \in Ids : s # turn[p].session => file'[s] = file[s]
           /\ LET f == file'[turn[p].session] IN 
              \/ f = file[turn[p].session] /\ Continues(p)
              \/ f = Torn /\ (Opens(p) \/ Ends(p))
              \/ f = turn[p].mem /\ turn'[p].mem = turn[p].mem /\ Fills(p)
<1>1. DOMAIN file = Ids /\ turn[p].session \in Ids BY Underway DEF Shape
<1>2. CASE Opens(p) BY <1>1, <1>2 DEF Opens, Tears
<1>3. CASE Ends(p) BY <1>1, <1>3 DEF Ends, Tears
<1>4. CASE Fills(p) BY <1>1, <1>4 DEF Fills
<1>5. CASE Continues(p) BY <1>1, <1>5 DEF Continues
<1>6. QED BY <1>2, <1>3, <1>4, <1>5 DEF Steps

(* What is in memory is counted, goes on as it is, or is what it was.        *)
LEMMA MemMoves ==
    ASSUME Shape, NEW p \in Procs, Steps(p)
    PROVE  \/ /\ Opens(p) /\ turn'[p].mem = Counted(p, turn[p].mem)
           \/ /\ ~Opens(p) /\ SameIdentity(turn[p].mem, turn'[p].mem)
              /\ turn[p].pc = "opened" => turn'[p].pc \in {"died", "killed"}
<1>1. CASE Opens(p) BY <1>1 DEF Opens
<1>2. CASE Ends(p) BY <1>2 DEF Ends, Opens, SameIdentity
<1>3. CASE Fills(p)
  <2>1. turn[p].pc # "opened" BY <1>3, TurnAssumption DEF Fills, Shape
  <2>2. QED BY <1>3, <2>1 DEF Fills, Opens, SameIdentity
<1>4. CASE Continues(p) BY <1>4 DEF Continues, Opens
<1>5. QED BY <1>1, <1>2, <1>3, <1>4 DEF Steps

(* The stores keep their shape.                                             *)
LEMMA ShapeSteps == ASSUME Shape, NEW p \in Procs, Steps(p) PROVE Shape'
<1>1. /\ Moves(p) /\ SameTurn(p) /\ turn[p].session \in Ids /\ turn'[p].mem \in SessionRow
      /\ sent' \subseteq sent \cup {p} /\ Unbegun(p)' = FALSE /\ turn[p].pc # "start"
      /\ turn[p].mem \in SessionRow
  BY Underway DEF Unbegun, Live
<1>2. \A s \in Ids : file'[s] \in SessionRow \cup {None, Torn} BY <1>1, FileMoves DEF Shape
<1>3. turn'[p].pc \in TurnPcs
  BY <1>1 DEF Steps, Opens, Ends, Fills, Continues, TurnPcs, Shape
<1>4. QED BY <1>1, <1>2, <1>3, FileMoves DEF Shape, Moves, SameTurn, Unbegun

(* A turn that starts has the session it read, or a new one, in memory.     *)
LEMMA ShapeStarts == ASSUME Shape, NEW p \in Procs, NEW c \in TurnCalls, Starts(p, c) PROVE Shape'
BY DEF Shape, Starts, Moves, TurnPcs, Halted

(* What is opened is a session as it was filed, or a new one.                *)
LEMMA OpensWhatIsFiled ==
    ASSUME Shape, NEW p \in Procs, NEW c \in TurnCalls, Starts(p, c)
    PROVE  LET s == SessionOf(p, c)
               m == turn'[p].mem
           IN  \/ m.turns = 0 /\ m.invocations = << >> /\ m.asks = << >>
                  /\ (turn'[p].pc # "opened" \/ file[s] = None)
               \/ /\ OnFile(s) /\ turn'[p].pc = "opened" /\ m.turns = file[s].turns
                  /\ m.invocations = file[s].invocations /\ m.asks = file[s].asks
<1>1. /\ SessionOf(p, c) \in Ids
      /\ turn'[p].pc # "opened" => turn'[p].mem = NewSession
  BY DEF Starts
<1>2. NewSession.turns = 0 /\ NewSession.invocations = << >> /\ NewSession.asks = << >> BY DEF NewSession
<1>3. CASE turn'[p].pc # "opened" BY <1>1, <1>2, <1>3
<1>4. CASE turn'[p].pc = "opened" /\ file[SessionOf(p, c)] = None
  BY <1>2, <1>4 DEF Starts, LoadOrCreate
<1>5. CASE turn'[p].pc = "opened" /\ file[SessionOf(p, c)] # None
  BY <1>5 DEF Starts, LoadOrCreate, OnFile
<1>6. QED BY <1>3, <1>4, <1>5

------------------------------------------------------------------------------
(* A turn that starts is counted nowhere yet.                               *)
LEMMA ListedStarts ==
    ASSUME Shape, Listed, NEW p \in Procs, NEW c \in TurnCalls, Starts(p, c) PROVE Listed'
<1> DEFINE s == SessionOf(p, c)
           m == turn'[p].mem
<1>1. \A q \in Procs : Unbegun(q)' => Unbegun(q) BY DEF Unbegun, Starts, Moves
<1>2. s \in Ids /\ file' = file /\ \A q \in Procs \ {p} : turn'[q] = turn[q] BY DEF Starts, Moves
<1>3. Counts(m) /\ \A q \in Procs : Unbegun(q) => ~Lists(m, q)
  <2>1. CASE m.turns = 0 /\ m.invocations = << >> BY <2>1 DEF Counts, Lists, Range, IsInjective
  <2>2. CASE OnFile(s) /\ m.turns = file[s].turns /\ m.invocations = file[s].invocations
    <3>1. Counts(file[s]) /\ \A q \in Procs : Unbegun(q) => ~Lists(file[s], q) BY <1>2, <2>2 DEF Listed
    <3>2. QED BY <2>2, <3>1 DEF Counts, Lists
  <2>3. QED BY <2>1, <2>2, OpensWhatIsFiled
<1>4. \A x \in Ids : OnFile(x)' => Counts(file'[x]) /\ \A q \in Procs : Unbegun(q)' => ~Lists(file'[x], q)
  BY <1>1, <1>2 DEF Listed, OnFile
<1>5. \A q \in Procs : Counts(turn'[q].mem) /\ \A r \in Procs : Unbegun(r)' => ~Lists(turn'[q].mem, r)
  BY <1>1, <1>2, <1>3 DEF Listed
<1>6. QED BY <1>4, <1>5 DEF Listed

(* A turn is counted once, when it begins.                                  *)
LEMMA ListedSteps == ASSUME Shape, Listed, NEW p \in Procs, Steps(p) PROVE Listed'
<1> DEFINE m == turn[p].mem
           n == turn'[p].mem
<1>1. /\ \A q \in Procs : Unbegun(q)' => Unbegun(q) /\ q # p
      /\ \A q \in Procs \ {p} : turn'[q] = turn[q]
      /\ m \in SessionRow /\ turn[p].session \in Ids
  BY Underway DEF Moves
<1>2. Counts(m) /\ \A q \in Procs : Unbegun(q) => ~Lists(m, q) BY DEF Listed
<1>3. Counts(n) /\ \A q \in Procs : Unbegun(q)' => ~Lists(n, q)
  <2>1. CASE Opens(p) /\ n = Counted(p, m)
    <3>1. n.turns = m.turns + 1 /\ n.invocations = Append(m.invocations, p) BY <1>1, <2>1, CountsOne
    <3>2. m.invocations \in Seq(Procs) BY <1>1 DEF SessionRow
    <3>3. ~Lists(m, p) BY <1>2, <2>1 DEF Opens, Unbegun
    <3>4. Range(n.invocations) = Range(m.invocations) \cup {p} BY <3>1, <3>2, Appended
    <3>5. n.turns = Len(n.invocations) BY <1>2, <3>1, <3>2, Appended DEF Counts
    <3>6. IsInjective(n.invocations)
      <4> DEFINE a == m.invocations
                 b == n.invocations
      <4>1. /\ DOMAIN b = DOMAIN a \cup {Len(a) + 1} /\ b[Len(a) + 1] = p
            /\ \A i \in DOMAIN a : b[i] = a[i] /\ a[i] # p /\ i \in 1 .. Len(a)
        BY <3>1, <3>2, <3>3, Appended DEF Lists, Range
      <4>2. \A i, j \in DOMAIN a : a[i] = a[j] => i = j BY <1>2 DEF Counts, IsInjective
      <4>3. QED BY <4>1, <4>2 DEF IsInjective
    <3>7. QED BY <1>1, <1>2, <3>4, <3>5, <3>6 DEF Counts, Lists
  <2>2. CASE SameIdentity(m, n) BY <1>1, <1>2, <2>2 DEF SameIdentity, Counts, Lists
  <2>3. QED BY <2>1, <2>2, MemMoves
<1>4. \A q \in Procs : Counts(turn'[q].mem) /\ \A r \in Procs : Unbegun(r)' => ~Lists(turn'[q].mem, r)
  BY <1>1, <1>3 DEF Listed
<1>5. ASSUME NEW x \in Ids, OnFile(x)'
      PROVE  Counts(file'[x]) /\ \A r \in Procs : Unbegun(r)' => ~Lists(file'[x], r)
  <2>1. CASE file'[x] = file[x] BY <1>1, <1>5, <2>1 DEF Listed, OnFile
  <2>2. CASE file'[x] # file[x]
    <3>1. file'[x] = m BY <1>5, <2>2, FileMoves DEF OnFile
    <3>2. QED BY <1>1, <1>2, <3>1
  <2>3. QED BY <2>1, <2>2
<1>6. QED BY <1>4, <1>5 DEF Listed

(* A turn that starts has not begun.                                        *)
LEMMA BeginsStarts ==
    ASSUME Shape, Listed', Begins, NEW p \in Procs, NEW c \in TurnCalls, Starts(p, c) PROVE Begins'
<1>1. file' = file /\ (\A q \in Procs \ {p} : turn'[q] = turn[q]) /\ p \in Procs BY DEF Starts, Moves
<1>2. ~Active(p)' BY DEF Starts, Active, Live, Halted, Unbegun
<1>3. ~Begun(p)'
  <2>1. CASE turn'[p].pc = "opened" BY <2>1 DEF Listed, Unbegun, Lists, Begun
  <2>2. CASE turn'[p].pc # "opened"
    <3>1. turn'[p].mem.invocations = << >> BY <2>2, OpensWhatIsFiled
    <3>2. QED BY <3>1 DEF Begun, Range
  <2>3. QED BY <2>1, <2>2
<1>4. \A q \in Procs \ {p} : (Active(q)' <=> Active(q)) /\ (Begun(q)' <=> Begun(q))
  BY <1>1 DEF Active, Live, Unbegun, Begun
<1>5. QED BY <1>1, <1>2, <1>3, <1>4 DEF Begins

(* Only begin_turn makes a turn begin.                                      *)
LEMMA BegunSteps ==
    ASSUME Shape, Begins, NEW p \in Procs, Steps(p)
    PROVE  /\ \A q \in Procs \ {p} : Begun(q)' <=> Begun(q)
           /\ Opens(p) => Begun(p)'
           /\ ~Opens(p) => (Begun(p)' <=> Begun(p))
           /\ \A q \in Procs : turn'[q].session = turn[q].session
<1>1. Moves(p) /\ SameTurn(p) BY Underway
<1>2. \A q \in Procs \ {p} : Begun(q)' <=> Begun(q) BY <1>1 DEF Moves, Begun
<1>3. Opens(p) => Begun(p)'
  <2>1. turn[p].mem \in SessionRow /\ turn[p].mem.invocations \in Seq(Procs) BY DEF Shape, SessionRow
  <2>2. Range(Append(turn[p].mem.invocations, p)) = Range(turn[p].mem.invocations) \cup {p}
    BY <2>1, Appended
  <2>3. Counted(p, turn[p].mem).invocations = Append(turn[p].mem.invocations, p) BY <2>1, CountsOne
  <2>4. QED BY <2>2, <2>3 DEF Opens, Begun
<1>4. ~Opens(p) => (Begun(p)' <=> Begun(p)) BY MemMoves DEF SameIdentity, Begun
<1>5. QED BY <1>1, <1>2, <1>3, <1>4 DEF Moves, SameTurn

(* A file that is absent has had no turn.                                   *)
LEMMA BeginsSteps == ASSUME Shape, Begins, NEW p \in Procs, Steps(p) PROVE Begins'
<1>1. Moves(p) /\ SameTurn(p) /\ Live(p) /\ turn[p].session \in Ids /\ turn[p].mem \in SessionRow BY Underway
<1>2. ASSUME NEW q \in Procs, Active(q)' PROVE Begun(q)'
  <2>1. CASE q # p BY <1>1, <1>2, <2>1, BegunSteps DEF Moves, Active, Live, Unbegun, Begins
  <2>2. CASE q = p /\ ~Opens(p)
    <3>1. turn[p].pc # "opened" BY <1>2, <2>2, MemMoves DEF Active, Live, Halted
    <3>2. Active(p) BY <1>1, <3>1 DEF Active, Live, Unbegun
    <3>3. QED BY <2>2, <3>2, BegunSteps DEF Begins
  <2>3. QED BY <2>1, <2>2, BegunSteps
<1>3. ASSUME NEW s \in Ids, file'[s] = None, NEW q \in Procs
      PROVE  turn'[q].session # s \/ ~Begun(q)'
  <2>1. file'[s] # turn[p].mem /\ file'[s] # Torn BY <1>1, <1>3, TurnAssumption
  <2>2. file[s] = None BY <1>3, <2>1, FileMoves
  <2>3. turn[q].session # s \/ ~Begun(q) BY <2>2 DEF Begins
  <2>4. CASE Opens(p) /\ q = p
    <3>1. s # turn[p].session BY <2>1, <2>4, FileMoves DEF Opens, Fills, Continues
    <3>2. QED BY <2>4, <3>1, BegunSteps
  <2>5. QED BY <2>3, <2>4, BegunSteps
<1>4. QED BY <1>2, <1>3 DEF Begins


(* The calls of listed turns stay what they were.                            *)
LEMMA CallsStay ==
    ASSUME NEW p \in Procs, Moves(p), NEW list \in Seq(Procs),
           p \notin Range(list) \/ turn'[p].call = turn[p].call
    PROVE  CallsOf(list)' = CallsOf(list)
<1>1. \A i \in DOMAIN list : list[i] \in Procs /\ (list[i] = p => p \in Range(list)) BY DEF Range
<1>2. \A i \in DOMAIN list : turn'[list[i]].call = turn[list[i]].call BY <1>1 DEF Moves
<1>3. QED BY <1>2 DEF CallsOf

(* One more turn: a spawn, or a resume that brings a lease, changes who the  *)
(* session is.                                                               *)
LEMMA OneMoreCall ==
    ASSUME NEW n \in Nat, NEW old, NEW new, DOMAIN old = 1 .. n, DOMAIN new = 1 .. (n + 1),
           \A i \in 1 .. n : new[i] = old[i]
    PROVE  /\ Spawns(new) = Spawns(old) \cup (IF IsResume(new[n + 1]) THEN {} ELSE {n + 1})
           /\ Bearers(new) = Bearers(old) \cup
                  (IF IsResume(new[n + 1]) /\ new[n + 1].lease = None THEN {} ELSE {n + 1})
           /\ Spawns(old) \subseteq 1 .. n /\ Bearers(old) \subseteq 1 .. n
<1>1. DOMAIN new = DOMAIN old \cup {n + 1} OBVIOUS
<1>2. QED BY <1>1 DEF Spawns, Bearers
(* The place after all the others is the newest.                            *)
LEMMA NewestOne ==
    ASSUME NEW n \in Nat, NEW places \in SUBSET (1 .. n)
    PROVE  Newest(places \cup {n + 1}) = {n + 1}
<1>1. \A j \in places : j \in Int /\ j <= n OBVIOUS
<1>2. n + 1 \in Newest(places \cup {n + 1}) BY <1>1 DEF Newest
<1>3. \A i \in Newest(places \cup {n + 1}) : i = n + 1 BY <1>1 DEF Newest
<1>4. QED BY <1>2, <1>3
(* A session is the selftest's iff its last spawn was.                      *)
LEMMA BornAgain ==
    ASSUME NEW n \in Nat, NEW old, NEW new, DOMAIN old = 1 .. n, DOMAIN new = 1 .. (n + 1),
           \A i \in 1 .. n : new[i] = old[i]
    PROVE  BornSelftest(new) = IF IsResume(new[n + 1]) THEN BornSelftest(old) ELSE new[n + 1].lease = "selftest"
<1> DEFINE spawns == Spawns(old)
<1>1. spawns \subseteq 1 .. n /\ Newest(spawns) \subseteq 1 .. n BY DEF Spawns, Newest
<1>2. Spawns(new) = spawns \cup (IF IsResume(new[n + 1]) THEN {} ELSE {n + 1}) BY OneMoreCall
<1> HIDE DEF spawns
<1>3. CASE IsResume(new[n + 1])
  <2>1. Spawns(new) = spawns BY <1>2, <1>3
  <2>2. QED BY <1>1, <1>3, <2>1 DEF BornSelftest, spawns
<1>4. CASE ~IsResume(new[n + 1])
  <2>1. Newest(Spawns(new)) = {n + 1} BY <1>1, <1>2, <1>4, NewestOne
  <2>2. QED BY <1>4, <2>1 DEF BornSelftest
<1>5. QED BY <1>3, <1>4
(* Its credential is that of the last turn that brought one.                *)
LEMMA HoldsAgain ==
    ASSUME NEW n \in Nat, NEW old, NEW new, DOMAIN old = 1 .. n, DOMAIN new = 1 .. (n + 1),
           \A i \in 1 .. n : new[i] = old[i],
           NEW turns, NEW more, \A i \in 1 .. n : more[i] = turns[i],
           NEW cred, NEW held, Holds(held, turns, old),
           cred = IF IsResume(new[n + 1]) /\ new[n + 1].lease = None THEN held
                  ELSE Credential(more[n + 1], new[n + 1])
    PROVE  Holds(cred, more, new)
<1> DEFINE bearers == Bearers(old)
<1>1. bearers \subseteq 1 .. n /\ Newest(bearers) \subseteq 1 .. n BY DEF Bearers, Newest
<1>2. Bearers(new) = bearers \cup (IF IsResume(new[n + 1]) /\ new[n + 1].lease = None THEN {} ELSE {n + 1})
  BY OneMoreCall
<1> HIDE DEF bearers
<1>3. CASE IsResume(new[n + 1]) /\ new[n + 1].lease = None
  <2>1. Bearers(new) = bearers BY <1>2, <1>3
  <2>2. QED BY <1>1, <1>3, <2>1 DEF Holds, bearers
<1>4. CASE ~(IsResume(new[n + 1]) /\ new[n + 1].lease = None)
  <2>1. Newest(Bearers(new)) = {n + 1} /\ Bearers(new) # {} BY <1>1, <1>2, <1>4, NewestOne
  <2>2. QED BY <1>4, <2>1 DEF Holds
<1>5. QED BY <1>3, <1>4

(* A file or a memory that remembers goes on to, whatever step is taken.     *)
LEMMA StillRemembers ==
    ASSUME NEW p \in Procs, Moves(p), NEW m, NEW list \in Seq(Procs),
           p \notin Range(list) \/ turn'[p].call = turn[p].call, Remembers(m, list)
    PROVE  /\ m.selftest = BornSelftest(CallsOf(list)')
           /\ Holds(m.cred, list, CallsOf(list)')
BY CallsStay DEF Remembers

(* A turn opens its session knowing who it will be once it is counted.      *)
LEMMA RememberingStarts ==
    ASSUME Shape, Listed, Listed', Begins', Remembering, NEW p \in Procs, NEW c \in TurnCalls, Starts(p, c)
    PROVE  Remembering'
<1>0. PICK m : m = turn'[p].mem OBVIOUS
<1> DEFINE s == SessionOf(p, c)
           list == m.invocations
<1>1. /\ Moves(p) /\ file' = file /\ s \in Ids /\ turn'[p].call = c /\ m \in SessionRow /\ turn[p].pc = "start"
  BY <1>0 DEF Starts
<1>2. ASSUME NEW x \in Ids, OnFile(x)' PROVE Remembers(file[x], file[x].invocations)'
  <2>1. OnFile(x) /\ file'[x] = file[x] /\ file[x] \in SessionRow BY <1>1, <1>2 DEF OnFile, Shape
  <2>2. PICK f : f = file[x] OBVIOUS
  <2>3. f.invocations \in Seq(Procs) BY <2>1, <2>2 DEF SessionRow
  <2>4. p \notin Range(f.invocations) BY <1>1, <2>1, <2>2 DEF Listed, Unbegun, Lists
  <2>5. Remembers(f, f.invocations) BY <2>1, <2>2 DEF Remembering
  <2>6. f.selftest = BornSelftest(CallsOf(f.invocations)') /\ Holds(f.cred, f.invocations, CallsOf(f.invocations)')
    BY <1>1, <2>3, <2>4, <2>5, StillRemembers
  <2>7. QED BY <2>1, <2>2, <2>6 DEF Remembers
<1>3. ASSUME NEW q \in Procs, q # p
      PROVE  /\ Begun(q)' => Remembers(turn[q].mem, turn[q].mem.invocations)'
             /\ turn'[q].pc = "opened" => Remembers(turn[q].mem, Append(turn[q].mem.invocations, q))'
  <2>1. turn'[q] = turn[q] /\ turn[q].mem \in SessionRow BY <1>1, <1>3 DEF Moves, Shape
  <2>2. PICK f : f = turn[q].mem OBVIOUS
  <2>3. f.invocations \in Seq(Procs) BY <2>1, <2>2 DEF SessionRow
  <2>4. p \notin Range(f.invocations) BY <1>1, <2>2 DEF Listed, Unbegun, Lists
  <2>5. ASSUME Begun(q)' PROVE Remembers(turn[q].mem, turn[q].mem.invocations)'
    <3>1. Remembers(f, f.invocations) BY <2>1, <2>2, <2>5 DEF Remembering, Begun
    <3>2. f.selftest = BornSelftest(CallsOf(f.invocations)') /\ Holds(f.cred, f.invocations, CallsOf(f.invocations)')
      BY <1>1, <2>3, <2>4, <3>1, StillRemembers
    <3>3. QED BY <2>1, <2>2, <3>2 DEF Remembers
  <2>6. ASSUME turn'[q].pc = "opened" PROVE Remembers(turn[q].mem, Append(turn[q].mem.invocations, q))'
    <3> DEFINE more == Append(f.invocations, q)
    <3>1. Remembers(f, more) BY <2>1, <2>2, <2>6 DEF Remembering
    <3>2. more \in Seq(Procs) /\ p \notin Range(more) BY <1>3, <2>3, <2>4, Appended
    <3> HIDE DEF more
    <3>3. f.selftest = BornSelftest(CallsOf(more)') /\ Holds(f.cred, more, CallsOf(more)')
      BY <1>1, <3>1, <3>2, StillRemembers
    <3>4. QED BY <2>1, <2>2, <3>3 DEF Remembers, more
  <2>7. QED BY <2>5, <2>6
<1>4. ~Begun(p)' BY OpensWhatIsFiled DEF Listed, Unbegun, Lists, Begun, Range
<1>5. ASSUME turn'[p].pc = "opened" PROVE Remembers(turn[p].mem, Append(turn[p].mem.invocations, p))'
  <2> DEFINE held == LoadOrCreate(file[s])
             more == Append(list, p)
             old == CallsOf(list)
             new == CallsOf(more)'
  <2>1. list \in Seq(Procs) /\ held.invocations = list BY <1>0, <1>1, <1>5 DEF SessionRow, Starts
  <2>2. p \notin Range(list) BY <1>0, <1>5 DEF Listed, Unbegun, Lists
  <2>3. Len(list) \in Nat /\ DOMAIN list = 1 .. Len(list) BY <2>1
  <2>4. /\ DOMAIN more = 1 .. (Len(list) + 1) /\ more[Len(list) + 1] = p
        /\ \A i \in 1 .. Len(list) : more[i] = list[i] /\ list[i] \in Procs /\ list[i] # p
    BY <2>1, <2>2 DEF Range
  <2>5. DOMAIN old = 1 .. Len(list) /\ DOMAIN new = 1 .. (Len(list) + 1) BY <2>3, <2>4 DEF CallsOf
  <2>6. new[Len(list) + 1] = c BY <1>1, <2>3, <2>4 DEF CallsOf
  <2>7. \A i \in 1 .. Len(list) : new[i] = old[i] BY <1>1, <2>3, <2>4 DEF CallsOf, Moves
  <2>8. held.selftest = BornSelftest(old) /\ Holds(held.cred, list, old)
    <3>1. CASE file[s] = None
      <4>1. held = NewSession /\ list = << >> BY <2>1, <3>1 DEF LoadOrCreate, NewSession
      <4>2. Spawns(old) = {} /\ Bearers(old) = {} BY <2>5, <4>1 DEF Spawns, Bearers
      <4>3. QED BY <4>1, <4>2 DEF NewSession, BornSelftest, Holds, Newest
    <3>2. CASE file[s] # None
      <4>1. held = file[s] /\ OnFile(s) BY <1>5, <3>2 DEF LoadOrCreate, OnFile, Starts
      <4>2. QED BY <1>1, <2>1, <4>1 DEF Remembering, Remembers
    <3>3. QED BY <3>1, <3>2
  <2>9. /\ m.selftest = (IF IsResume(c) THEN held.selftest ELSE c.lease = "selftest")
        /\ m.cred = IF IsResume(c) /\ c.lease = None THEN held.cred ELSE Credential(p, c)
    BY <1>0, <1>5 DEF Starts
  <2> HIDE DEF held, old, new
  <2>10. m.selftest = BornSelftest(new)
    <3>1. PICK n, a, b : n = Len(list) /\ a = old /\ b = new OBVIOUS
    <3>2. n \in Nat /\ DOMAIN a = 1 .. n /\ DOMAIN b = 1 .. (n + 1) /\ \A i \in 1 .. n : b[i] = a[i]
      BY <2>3, <2>5, <2>7, <3>1
    <3>3. b[n + 1] = c BY <2>6, <3>1
    <3>4. BornSelftest(b) = IF IsResume(b[n + 1]) THEN BornSelftest(a) ELSE b[n + 1].lease = "selftest"
      BY <3>2, BornAgain
    <3>5. BornSelftest(a) = held.selftest BY <2>8, <3>1
    <3>6. BornSelftest(b) = BornSelftest(new) BY <3>1
    <3>7. QED BY <2>9, <3>3, <3>4, <3>5, <3>6
  <2>11. PICK cred : cred = m.cred OBVIOUS
  <2>12. Holds(cred, more, new)
    <3>1. cred = IF IsResume(new[Len(list) + 1]) /\ new[Len(list) + 1].lease = None THEN held.cred
                 ELSE Credential(more[Len(list) + 1], new[Len(list) + 1])
      BY <2>4, <2>6, <2>9, <2>11
    <3>2. \A i \in 1 .. Len(list) : more[i] = list[i] BY <2>4
    <3>3. PICK n, a, b, h, all :
              n = Len(list) /\ a = old /\ b = new /\ h = held.cred /\ all = more
      OBVIOUS
    <3>4. /\ n \in Nat /\ DOMAIN a = 1 .. n /\ DOMAIN b = 1 .. (n + 1) /\ \A i \in 1 .. n : b[i] = a[i]
          /\ \A i \in 1 .. n : all[i] = list[i]
          /\ Holds(h, list, a)
          /\ cred = IF IsResume(b[n + 1]) /\ b[n + 1].lease = None THEN h ELSE Credential(all[n + 1], b[n + 1])
      BY <2>3, <2>5, <2>7, <2>8, <3>1, <3>2, <3>3
    <3> HIDE DEF more, list
    <3>5. Holds(cred, all, b) BY SMTT(30), <3>4, HoldsAgain
    <3>6. QED BY <3>3, <3>5
  <2>13. QED BY <1>0, <2>10, <2>11, <2>12 DEF Remembers, new
<1>6. QED BY <1>2, <1>3, <1>4, <1>5 DEF Remembering


(* What a turn asked stays with it.                                         *)
LEMMA AsksGrow ==
    ASSUME Shape, NEW p \in Procs, Steps(p)
    PROVE  Range(turn[p].mem.asks) \subseteq Range(turn'[p].mem.asks)
<1>1. CASE Opens(p)
  <2>1. turn[p].mem \in SessionRow BY DEF Shape
  <2>2. QED BY <1>1, <2>1, CountsOne DEF Opens
<1>2. CASE Ends(p) \/ Fills(p) BY <1>2 DEF Ends, Fills
<1>3. CASE Continues(p) BY <1>3 DEF Continues
<1>4. QED BY <1>1, <1>2, <1>3 DEF Steps

(* No step makes a file or a memory forget who the session is.              *)
LEMMA RememberingSteps ==
    ASSUME Shape, Begins, Remembering, NEW p \in Procs, Steps(p) PROVE Remembering'
<1>1. /\ Moves(p) /\ SameTurn(p) /\ Live(p) /\ turn[p].mem \in SessionRow /\ turn'[p].mem \in SessionRow
      /\ turn[p].session \in Ids /\ ~Unbegun(p)'
  BY Underway
<1>2. ASSUME NEW m, NEW list \in Seq(Procs), Remembers(m, list)
      PROVE  m.selftest = BornSelftest(CallsOf(list)') /\ Holds(m.cred, list, CallsOf(list)')
  BY <1>1, <1>2, StillRemembers DEF SameTurn
<1>3. ASSUME NEW q \in Procs, q # p
      PROVE  /\ Begun(q)' => Remembers(turn[q].mem, turn[q].mem.invocations)'
             /\ turn'[q].pc = "opened" => Remembers(turn[q].mem, Append(turn[q].mem.invocations, q))'
  <2>1. turn'[q] = turn[q] /\ turn[q].mem \in SessionRow BY <1>1, <1>3 DEF Moves, Shape
  <2>2. PICK f, list : f = turn[q].mem /\ list = f.invocations OBVIOUS
  <2>3. list \in Seq(Procs) BY <2>1, <2>2 DEF SessionRow
  <2>4. ASSUME Begun(q)' PROVE Remembers(turn[q].mem, turn[q].mem.invocations)'
    <3>1. Remembers(f, list) BY <2>1, <2>2, <2>4 DEF Remembering, Begun
    <3>2. QED BY <1>2, <2>1, <2>2, <2>3, <3>1 DEF Remembers
  <2>5. ASSUME turn'[q].pc = "opened" PROVE Remembers(turn[q].mem, Append(turn[q].mem.invocations, q))'
    <3>1. PICK more : more = Append(list, q) OBVIOUS
    <3>2. Remembers(f, more) BY <2>1, <2>2, <2>5, <3>1 DEF Remembering
    <3>3. more \in Seq(Procs) BY <2>3, <3>1
    <3>4. f.selftest = BornSelftest(CallsOf(more)') /\ Holds(f.cred, more, CallsOf(more)')
      BY <1>2, <3>2, <3>3
    <3>5. QED BY <2>1, <2>2, <3>1, <3>4 DEF Remembers
  <2>6. QED BY <2>4, <2>5
<1>4. turn'[p].pc # "opened" BY <1>1 DEF Unbegun
<1>5. ASSUME Begun(p)' PROVE Remembers(turn[p].mem, turn[p].mem.invocations)'
  <2>1. PICK m, n, list : m = turn[p].mem /\ n = turn'[p].mem /\ list = n.invocations OBVIOUS
  <2>2. list \in Seq(Procs) BY <1>1, <2>1 DEF SessionRow
  <2>3. n.selftest = m.selftest /\ n.cred = m.cred
    BY <1>1, <2>1, MemMoves, CountsOne DEF SameIdentity
  <2>4. Remembers(m, list)
    <3>1. CASE Opens(p)
      <4>1. m \in SessionRow /\ n = Counted(p, m) BY <1>1, <2>1, <3>1 DEF Opens
      <4>2. list = Append(m.invocations, p) BY <2>1, <4>1, CountsOne
      <4>3. QED BY <2>1, <3>1, <4>2 DEF Opens, Remembering
    <3>2. CASE ~Opens(p)
      <4>1. Begun(p) BY <1>5, <3>2, BegunSteps
      <4>2. list = m.invocations BY <2>1, <3>2, MemMoves DEF SameIdentity
      <4>3. QED BY <2>1, <4>1, <4>2 DEF Remembering
    <3>3. QED BY <3>1, <3>2
  <2>5. m.selftest = BornSelftest(CallsOf(list)') /\ Holds(m.cred, list, CallsOf(list)')
    BY <1>2, <2>2, <2>4
  <2>6. QED BY <2>1, <2>3, <2>5 DEF Remembers
<1>6. ASSUME NEW x \in Ids, OnFile(x)' PROVE Remembers(file[x], file[x].invocations)'
  <2>1. PICK f, list : f = file'[x] /\ list = f.invocations OBVIOUS
  <2>2. f \in SessionRow /\ Remembers(f, list)
    <3>1. CASE file'[x] = file[x] BY <1>6, <2>1, <3>1 DEF OnFile, Shape, Remembering
    <3>2. CASE file'[x] # file[x]
      <4>1. f = turn[p].mem /\ Fills(p) BY <1>6, <2>1, <3>2, FileMoves DEF OnFile
      <4>2. turn[p].write # None BY <4>1, TurnAssumption DEF Fills
      <4>3. Active(p) BY <1>1, <4>2 DEF Active, Unbegun, Shape
      <4>4. QED BY <1>1, <2>1, <4>1, <4>3 DEF Begins, Remembering
    <3>3. QED BY <3>1, <3>2
  <2>3. list \in Seq(Procs) BY <2>1, <2>2 DEF SessionRow
  <2>4. f.selftest = BornSelftest(CallsOf(list)') /\ Holds(f.cred, list, CallsOf(list)')
    BY <1>2, <2>2, <2>3
  <2>5. QED BY <2>1, <2>4 DEF Remembers
<1>7. QED BY <1>1, <1>3, <1>4, <1>5, <1>6 DEF Remembering

------------------------------------------------------------------------------
(* A turn waits for the last one of its session.                            *)
LEMMA AloneStarts == ASSUME Alone, NEW p \in Procs, NEW c \in TurnCalls, Starts(p, c) PROVE Alone'
BY DEF Alone, Starts, Moves, Live, Halted
(* A turn at work stays in its session.                                     *)
LEMMA AloneSteps == ASSUME Shape, Alone, NEW p \in Procs, Steps(p) PROVE Alone'
<1>1. \A q \in Procs : (Live(q)' => Live(q)) /\ turn'[q].session = turn[q].session
  BY Underway DEF Moves, SameTurn
<1>2. QED BY <1>1 DEF Alone

(* A turn that starts is none of its session's yet.                         *)
LEMMA Unlisted ==
    ASSUME Shape, Listed, Listed', NEW p \in Procs, NEW c \in TurnCalls, Starts(p, c)
    PROVE  /\ ~Begun(p) /\ ~Begun(p)' /\ \A s : Turns(s)' = Turns(s)
<1>1. ~Begun(p) BY DEF Listed, Lists, Begun, Starts, Unbegun
<1>2. ~Begun(p)'
  <2>1. CASE turn'[p].pc = "opened" BY <2>1 DEF Listed, Unbegun, Lists, Begun
  <2>2. CASE turn'[p].pc # "opened"
    <3>1. turn'[p].mem.invocations = << >> BY <2>2, OpensWhatIsFiled
    <3>2. QED BY <3>1 DEF Begun, Range
  <2>3. QED BY <2>1, <2>2
<1>3. \A q \in Procs \ {p} : turn'[q] = turn[q] BY DEF Starts, Moves
<1>4. \A q \in Procs \ {p} : Begun(q)' <=> Begun(q) BY <1>3 DEF Begun
<1>5. QED BY <1>1, <1>2, <1>3, <1>4 DEF Turns

(* What is opened lists every turn of the session.                          *)
LEMMA CompleteStarts ==
    ASSUME Shape, Listed, Listed', Begins, Complete, NEW p \in Procs, NEW c \in TurnCalls, Starts(p, c)
    PROVE  Complete'
<1> DEFINE s == SessionOf(p, c)
<1>1. /\ \A x : Turns(x)' = Turns(x) /\ ~Begun(p)
  BY Unlisted
<1>2. /\ file' = file /\ s \in Ids /\ turn'[p].session = s /\ turn'[p].pc \in {"exited", "died", "opened"}
      /\ \A q \in Procs \ {p} : turn'[q] = turn[q]
  BY DEF Starts, Moves
<1>3. ASSUME Live(p)', s \notin Overlapped PROVE Range(turn'[p].mem.invocations) = Turns(s)
  <2>1. turn'[p].pc = "opened" BY <1>2, <1>3 DEF Live, Halted
  <2>2. CASE file[s] = None /\ turn'[p].mem.invocations = << >>
    <3>1. Turns(s) = {} BY <1>2, <2>2 DEF Begins, Turns
    <3>2. QED BY <2>2, <3>1 DEF Range
  <2>3. CASE OnFile(s) /\ turn'[p].mem.invocations = file[s].invocations BY <1>2, <1>3, <2>3 DEF Complete
  <2>4. QED BY <2>1, <2>2, <2>3, OpensWhatIsFiled
<1>4. \A x \in Ids \ Overlapped : OnFile(x)' => Range(file'[x].invocations) = Turns(x)'
  BY <1>1, <1>2 DEF Complete, OnFile
<1>5. ASSUME NEW q \in Procs, Live(q)', turn'[q].session \notin Overlapped
      PROVE  Range(turn'[q].mem.invocations) = Turns(turn[q].session)'
  <2>1. PICK x : x = turn'[q].session OBVIOUS
  <2>2. Range(turn'[q].mem.invocations) = Turns(x)
    <3>1. CASE q = p BY <1>2, <1>3, <1>5, <2>1, <3>1
    <3>2. CASE q # p BY <1>2, <1>5, <2>1, <3>2 DEF Complete, Live
    <3>3. QED BY <3>1, <3>2
  <2>3. Turns(x)' = Turns(x) BY <1>1
  <2>4. Turns(turn[q].session)' = Turns(x)' BY <2>1 DEF Turns
  <2>5. QED BY <2>2, <2>3, <2>4
<1>6. QED BY <1>4, <1>5 DEF Complete

(* A step adds at most its own turn to those of its session.                 *)
LEMMA TurnsGrow ==
    ASSUME Shape, Begins, NEW p \in Procs, Steps(p), NEW x
    PROVE  Turns(x)' = Turns(x) \cup (IF Opens(p) /\ turn[p].session = x THEN {p} ELSE {})
BY BegunSteps DEF Turns

(* A file, or the one turn at work, goes on listing them all.               *)
LEMMA CompleteSteps ==
    ASSUME Shape, Begins, Alone, Complete, NEW p \in Procs, Steps(p) PROVE Complete'
<1> DEFINE s == turn[p].session
<1>1. /\ Live(p) /\ s \in Ids /\ turn[p].mem \in SessionRow
      /\ \A q \in Procs : turn'[q].session = turn[q].session /\ (Live(q)' => Live(q))
      /\ \A q \in Procs \ {p} : turn'[q] = turn[q]
  BY Underway DEF Moves, SameTurn
<1>2. s \notin Overlapped =>
        Range(turn'[p].mem.invocations) = Turns(s) \cup (IF Opens(p) THEN {p} ELSE {})
  <2> SUFFICES ASSUME s \notin Overlapped
               PROVE  Range(turn'[p].mem.invocations) = Turns(s) \cup (IF Opens(p) THEN {p} ELSE {})
    OBVIOUS
  <2>1. Range(turn[p].mem.invocations) = Turns(s) BY <1>1 DEF Complete
  <2>2. CASE Opens(p)
    <3>1. turn[p].mem.invocations \in Seq(Procs) BY <1>1 DEF SessionRow
    <3>2. turn'[p].mem.invocations = Append(turn[p].mem.invocations, p) BY <1>1, <2>2, CountsOne DEF Opens
    <3>3. QED BY <2>1, <2>2, <3>1, <3>2, Appended
  <2>3. CASE ~Opens(p) BY <2>1, <2>3, MemMoves DEF SameIdentity
  <2>4. QED BY <2>2, <2>3
<1>3. ASSUME NEW q \in Procs, Live(q)', turn'[q].session \notin Overlapped
      PROVE  Range(turn'[q].mem.invocations) = Turns(turn[q].session)'
  <2>1. PICK x : x = turn'[q].session OBVIOUS
  <2>2. Turns(turn[q].session)' = Turns(x)' BY <2>1 DEF Turns
  <2>3. Turns(x)' = Turns(x) \cup (IF Opens(p) /\ s = x THEN {p} ELSE {}) BY TurnsGrow
  <2>4. CASE q = p BY <1>1, <1>2, <1>3, <2>1, <2>2, <2>3, <2>4
  <2>5. CASE q # p
    <3>1. x # s BY <1>1, <1>3, <2>1, <2>5 DEF Alone
    <3>2. Range(turn[q].mem.invocations) = Turns(x) BY <1>1, <1>3, <2>1, <2>5 DEF Complete
    <3>3. QED BY <1>1, <2>2, <2>3, <2>5, <3>1, <3>2
  <2>6. QED BY <2>4, <2>5
<1>4. ASSUME NEW x \in Ids \ Overlapped, OnFile(x)' PROVE Range(file'[x].invocations) = Turns(x)'
  <2>1. Turns(x)' = Turns(x) \cup (IF Opens(p) /\ s = x THEN {p} ELSE {}) BY TurnsGrow
  <2>2. CASE s # x
    <3>1. file'[x] = file[x] BY <2>2, FileMoves
    <3>2. QED BY <1>4, <2>1, <2>2, <3>1 DEF Complete, OnFile
  <2>3. CASE s = x /\ file'[x] = file[x] /\ Continues(p)
    <3>1. ~Opens(p) BY <2>3 DEF Continues, Opens, TurnPcs, Halted
    <3>2. QED BY <1>4, <2>1, <2>3, <3>1 DEF Complete, OnFile
  <2>4. CASE s = x /\ file'[x] = turn[p].mem /\ Fills(p)
    <3>1. ~Opens(p) BY <2>4 DEF Fills, Opens
    <3>2. Range(turn[p].mem.invocations) = Turns(s) BY <1>1, <1>4, <2>4 DEF Complete
    <3>3. QED BY <2>1, <2>4, <3>1, <3>2
  <2>5. QED BY <1>4, <2>2, <2>3, <2>4, FileMoves DEF OnFile
<1>5. QED BY <1>3, <1>4 DEF Complete

------------------------------------------------------------------------------
(* What is opened holds every ask already filed.                            *)
LEMMA AsksStarts ==
    ASSUME Shape, Listed, Listed', Begins, AsksKept, NEW p \in Procs, NEW c \in TurnCalls, Starts(p, c)
    PROVE  AsksKept'
<1> DEFINE s == SessionOf(p, c)
<1>1. /\ file' = file /\ sent' = sent /\ s \in Ids /\ turn'[p].session = s
      /\ turn'[p].pc \in {"exited", "died", "opened"}
      /\ \A q \in Procs \ {p} : turn'[q] = turn[q]
  BY DEF Starts, Moves
<1>2. ASSUME NEW q \in sent PROVE AskKept(q)'
  <2>1. q \in Procs /\ q # p /\ turn'[q] = turn[q] /\ AskKept(q)
    BY <1>1, Unlisted DEF AsksKept, AskKept, Shape
  <2>2. Begun(q)' /\ q \in Range(turn'[q].mem.asks) BY <2>1 DEF AskKept, Begun
  <2>3. ASSUME Filed(q)' \/ turn'[q].pc \in {"rendered", "exited"}, turn'[q].session \notin Overlapped
        PROVE  /\ OnFile(turn[q].session)' => q \in Range(file'[turn'[q].session].asks)
               /\ \A r \in Procs : Live(r)' /\ turn'[r].session = turn'[q].session => q \in Range(turn'[r].mem.asks)
    <3>1. /\ OnFile(turn[q].session) => q \in Range(file[turn[q].session].asks)
          /\ \A r \in Procs : Live(r) /\ turn[r].session = turn[q].session => q \in Range(turn[r].mem.asks)
      BY <2>1, <2>3 DEF AskKept, Filed
    <3>2. ASSUME Live(p)', s = turn[q].session PROVE q \in Range(turn'[p].mem.asks)
      <4>1. turn'[p].pc = "opened" BY <1>1, <3>2 DEF Live, Halted
      <4>2. file[s] # None BY <1>1, <2>1, <3>2 DEF AskKept, Begins
      <4>3. OnFile(s) /\ turn'[p].mem.asks = file[s].asks BY <4>1, <4>2, OpensWhatIsFiled
      <4>4. QED BY <3>1, <3>2, <4>3
    <3>3. QED BY <1>1, <2>1, <3>1, <3>2 DEF OnFile, Live
  <2>4. QED BY <2>2, <2>3 DEF AskKept
<1>3. QED BY <1>1, <1>2 DEF AsksKept

(* An ask is filed by its own turn and rewritten by later ones.             *)
LEMMA AsksSteps ==
    ASSUME Shape, Begins, Begins', Alone, AsksKept, NEW p \in Procs, Steps(p)
    PROVE  AsksKept'
<1> DEFINE s == turn[p].session
<1>1. /\ Live(p) /\ s \in Ids /\ sent' \subseteq sent \cup {p}
      /\ \A q \in Procs : turn'[q].session = turn[q].session /\ (Live(q)' => Live(q))
      /\ \A q \in Procs \ {p} : turn'[q] = turn[q]
  BY Underway DEF Moves, SameTurn
<1>2. Range(turn[p].mem.asks) \subseteq Range(turn'[p].mem.asks) BY AsksGrow
<1>3. ASSUME NEW q \in sent, q # p PROVE AskKept(q)'
  <2>1. q \in Procs /\ turn'[q] = turn[q] /\ AskKept(q) BY <1>1, <1>3 DEF AsksKept, Shape
  <2>2. Begun(q)' /\ q \in Range(turn'[q].mem.asks) BY <2>1 DEF AskKept, Begun
  <2>3. ASSUME Filed(q)' \/ turn'[q].pc \in {"rendered", "exited"}, turn'[q].session \notin Overlapped
        PROVE  /\ OnFile(turn[q].session)' => q \in Range(file'[turn'[q].session].asks)
               /\ \A r \in Procs : Live(r)' /\ turn'[r].session = turn'[q].session => q \in Range(turn'[r].mem.asks)
    <3> DEFINE x == turn[q].session
    <3>1. /\ OnFile(x) => q \in Range(file[x].asks)
          /\ \A r \in Procs : Live(r) /\ turn[r].session = x => q \in Range(turn[r].mem.asks)
      BY <2>1, <2>3 DEF AskKept, Filed
    <3>2. OnFile(x)' => q \in Range(file'[x].asks)
      <4>1. CASE x # s
        <5>1. x \in Ids BY <2>1, <2>3 DEF Shape, Filed
        <5>2. file'[x] = file[x] BY <4>1, <5>1, FileMoves
        <5>3. QED BY <2>1, <3>1, <5>2 DEF OnFile
      <4>2. CASE x = s
        <5>1. file'[s] = file[s] \/ file'[s] = Torn \/ file'[s] = turn[p].mem BY FileMoves
        <5>2. q \in Range(turn[p].mem.asks) BY <1>1, <3>1, <4>2
        <5>3. QED BY <2>1, <3>1, <4>2, <5>1, <5>2 DEF OnFile
      <4>3. QED BY <4>1, <4>2
    <3>3. ASSUME NEW r \in Procs, Live(r)', turn'[r].session = x PROVE q \in Range(turn'[r].mem.asks)
      BY <1>1, <1>2, <3>1, <3>3
    <3>4. QED BY <2>1, <3>2, <3>3 DEF OnFile
  <2>4. QED BY <2>2, <2>3 DEF AskKept
<1>4. ASSUME p \in sent PROVE AskKept(p)'
  <2>1. Begun(p) /\ p \in Range(turn[p].mem.asks) BY <1>4 DEF AsksKept, AskKept
  <2>2. Begun(p)' BY <2>1, BegunSteps
  <2>3. p \in Range(turn'[p].mem.asks) BY <1>2, <2>1
  <2>4. ASSUME Filed(p)' \/ turn'[p].pc \in {"rendered", "exited"}, s \notin Overlapped, file'[s] \notin {None, Torn}
        PROVE  p \in Range(file'[s].asks)
    <3>1. CASE file'[s] = turn[p].mem BY <2>1, <3>1
    <3>2. CASE file'[s] = file[s] /\ Continues(p)
      <4>1. Filed(p) \/ turn[p].pc \in {"rendered", "exited"} BY <2>4, <3>2 DEF Continues
      <4>2. QED BY <1>4, <2>4, <3>2, <4>1 DEF AsksKept, AskKept, OnFile
    <3>3. QED BY <2>4, <3>1, <3>2, FileMoves DEF OnFile
  <2>5. ASSUME s \notin Overlapped, NEW r \in Procs, Live(r)', turn'[r].session = s
        PROVE  p \in Range(turn'[r].mem.asks)
    <3>1. r = p BY <1>1, <2>5 DEF Alone
    <3>2. QED BY <2>3, <3>1
  <2>6. turn'[p].session = s BY <1>1
  <2>7. OnFile(turn[p].session)' <=> file'[s] \notin {None, Torn} BY <2>6 DEF OnFile
  <2>8. QED BY <2>2, <2>3, <2>4, <2>5, <2>6, <2>7 DEF AskKept
<1>5. ASSUME p \notin sent, p \in sent' PROVE AskKept(p)'
  <2>1. /\ turn'[p].pc \in {"running", "ending"} /\ p \in Range(turn'[p].mem.asks)
    BY <1>5 DEF Steps, Opens, Ends, Fills, Continues
  <2>2. Begun(p)' BY <2>1 DEF Begins, Active, Live, Halted, Unbegun
  <2>3. QED BY <2>1, <2>2 DEF AskKept, Filed
<1>6. QED BY <1>1, <1>3, <1>4, <1>5 DEF AsksKept

(* A turn that starts has filed nothing.                                    *)
LEMMA SavedStarts == ASSUME SavedIsFile, NEW p \in Procs, NEW c \in TurnCalls, Starts(p, c) PROVE SavedIsFile'
<1>1. /\ file' = file /\ turn'[p].pc \in {"exited", "died", "opened"} /\ turn'[p].envelope = None
      /\ \A q \in Procs \ {p} : turn'[q] = turn[q]
  BY DEF Starts, Moves
<1>2. ~Filed(p)' BY <1>1 DEF Filed
<1>3. QED BY <1>1, <1>2 DEF SavedIsFile, Filed

(* What a turn filed stays as it is until the envelope.                     *)
LEMMA SavedSteps == ASSUME Shape, Alone, SavedIsFile, NEW p \in Procs, Steps(p) PROVE SavedIsFile'
<1> DEFINE s == turn[p].session
<1>1. /\ Live(p) /\ s \in Ids
      /\ \A q \in Procs : turn'[q].session = turn[q].session
      /\ \A q \in Procs \ {p} : turn'[q] = turn[q]
  BY Underway DEF Moves, SameTurn
<1>2. ASSUME NEW q \in Procs, q # p, Filed(q), turn[q].session \notin Overlapped
      PROVE  file'[turn[q].session] = turn[q].mem
  <2>1. Live(q) /\ turn[q].session \in Ids BY <1>2 DEF Filed, Live, Halted, Shape
  <2>2. turn[q].session # s BY <1>1, <1>2, <2>1 DEF Alone
  <2>3. QED BY <1>2, <2>1, <2>2, FileMoves DEF SavedIsFile
<1>3. ASSUME Filed(p)', s \notin Overlapped PROVE file'[s] = turn'[p].mem
  <2>1. CASE Continues(p) BY <1>3, <2>1 DEF Continues, SavedIsFile
  <2>2. CASE Fills(p) BY <1>1, <2>2 DEF Fills, Shape
  <2>3. ~Opens(p) /\ ~Ends(p) BY <1>3 DEF Opens, Ends, Tears, Filed
  <2>4. QED BY <2>1, <2>2, <2>3 DEF Steps
<1>4. turn'[p].envelope # None => turn'[p].pc \in {"rendered", "exited", "killed"} /\ turn'[p].write = None
  BY DEF Steps, Opens, Ends, Fills, Continues, SavedIsFile
<1>5. turn'[p].pc \in {"saved", "recorded", "rendered"} => turn'[p].write # "state"
  BY TurnAssumption DEF Steps, Opens, Ends, Fills, Continues
<1>6. QED BY <1>1, <1>2, <1>3, <1>4, <1>5 DEF SavedIsFile, Filed

------------------------------------------------------------------------------
(* The invariant holds of every behaviour.                                   *)
LEMMA TurnStarts == TurnInit => TurnInv
<1> SUFFICES ASSUME TurnInit PROVE TurnInv OBVIOUS
<1>1. Unstarted.mem = NewSession /\ Unstarted.pc = "start" /\ Unstarted.write = None /\ Unstarted.envelope = None
  BY DEF Unstarted
<1>2. /\ NewSession.turns = 0 /\ NewSession.invocations = << >> /\ NewSession.asks = << >>
  BY DEF NewSession
<1>3. \A p \in Procs : turn[p] = Unstarted /\ ~Live(p) /\ ~Begun(p) /\ ~Filed(p)
  BY <1>1, <1>2 DEF TurnInit, Live, Begun, Range, Filed
<1>4. \A s \in Ids : file[s] = None /\ ~OnFile(s) BY DEF TurnInit, OnFile
<1>5. Shape BY <1>1, <1>3, <1>4, Fresh DEF TurnInit, Shape, TurnPcs
<1>6. Counts(NewSession) /\ \A p : ~Lists(NewSession, p) BY <1>2 DEF Counts, Lists, IsInjective, Range
<1>7. Listed /\ Begins BY <1>1, <1>3, <1>4, <1>6 DEF Listed, Begins, Active
<1>8. Remembering /\ Alone /\ Complete /\ AsksKept /\ SavedIsFile
  BY <1>1, <1>3, <1>4 DEF Remembering, Alone, Complete, AsksKept, SavedIsFile, TurnInit
<1>9. QED BY <1>5, <1>7, <1>8 DEF TurnInv

(* The invariant speaks of the turns and their files.                       *)
LEMMA TurnStays == TurnInv /\ UNCHANGED turnVars => TurnInv'
<1> SUFFICES ASSUME TurnInv, UNCHANGED turnVars PROVE TurnInv' OBVIOUS
<1>1. file' = file /\ log' = log /\ tracked' = tracked /\ sent' = sent /\ turn' = turn BY DEF turnVars
<1> USE DEF TurnInv
<1>2. Shape' BY <1>1 DEF Shape
<1>3. \A p : Live(p)' = Live(p) /\ Begun(p)' = Begun(p) /\ Filed(p)' = Filed(p) BY <1>1 DEF Live, Begun, Filed
<1>4. \A s : OnFile(s)' = OnFile(s) BY <1>1 DEF OnFile
<1>5. Listed' BY <1>1, <1>3, <1>4 DEF Listed, Lists, Counts, Unbegun, Active
<1>6. Begins'
  <2>1. \A p : Active(p)' = Active(p) BY <1>1, <1>3 DEF Active, Unbegun
  <2>2. Begins BY DEF TurnInv
  <2>3. QED BY <1>1, <1>3, <2>1, <2>2 DEF Begins
<1>7. Remembering'
  <2>1. \A m, ps : Remembers(m, ps)' = Remembers(m, ps) BY <1>1 DEF Remembers, CallsOf
  <2>2. Remembering BY DEF TurnInv
  <2>3. QED BY <1>1, <1>3, <1>4, <2>1, <2>2 DEF Remembering
<1>8. Alone' BY <1>1, <1>3 DEF Alone
<1>9. Complete' BY <1>1, <1>3, <1>4 DEF Complete, Turns, Lists
<1>10. AsksKept' BY <1>1, <1>3, <1>4 DEF AsksKept, AskKept
<1>11. SavedIsFile' BY <1>1, <1>3 DEF SavedIsFile
<1>12. QED BY <1>2, <1>5, <1>6, <1>7, <1>8, <1>9, <1>10, <1>11

(* The invariant of a turn and its session's file holds throughout.         *)
THEOREM TurnInvariant == TurnInit /\ [][TurnNext]_turnVars => []TurnInv
<1>1. TurnInv /\ TurnNext => TurnInv'
  <2> SUFFICES ASSUME TurnInv, NEW p \in Procs, Turn(p) PROVE TurnInv' BY DEF TurnNext
  <2> USE DEF TurnInv
  <2>1. ASSUME NEW c \in TurnCalls, Starts(p, c) PROVE TurnInv'
    <3>1. Shape' /\ Listed' BY <2>1, ShapeStarts, ListedStarts
    <3>2. Begins' BY <2>1, <3>1, BeginsStarts
    <3>3. QED BY <2>1, <3>1, <3>2, RememberingStarts, AloneStarts, CompleteStarts, AsksStarts, SavedStarts
  <2>2. ASSUME Steps(p) PROVE TurnInv'
    <3>1. Begins' BY <2>2, BeginsSteps
    <3>2. QED BY <2>2, <3>1, ShapeSteps, ListedSteps, RememberingSteps, AloneSteps, CompleteSteps, AsksSteps, SavedSteps
  <2>3. QED BY <2>1, <2>2, StepKinds DEF Steps
<1>2. QED BY <1>1, TurnStarts, TurnStays, PTL

(* No turn goes missing, no ask is lost, and a session knows who it is.      *)
THEOREM SessionsRemember == TurnInit /\ [][TurnNext]_turnVars => []SessionRemembered
<1>1. TurnInv => TurnsCounted
  BY DEF TurnInv, TurnsCounted, Listed, Counts, Complete, Turns
<1>2. TurnInv => AsksOnFile BY DEF TurnInv, AsksOnFile, AsksKept, AskKept
<1>3. TurnInv => SessionRemembers BY DEF TurnInv, SessionRemembers, Remembering
<1>4. QED BY <1>1, <1>2, <1>3, TurnInvariant, PTL DEF SessionRemembered

(* The envelope comes last.                                                  *)
THEOREM EnvelopeIsLast == TurnInit /\ [][TurnNext]_turnVars => EnvelopeComesLast
<1> DEFINE Lasts == \A p \in Procs : turn'[p] # turn[p] =>
          /\ turn[p].envelope # None => turn'[p].envelope = turn[p].envelope /\ UNCHANGED <<file, log>>
          /\ turn[p].envelope = None /\ turn'[p].envelope # None /\ turn[p].session \notin Overlapped =>
                file[turn[p].session] = turn[p].mem
<1>1. TurnInv /\ TurnNext => Lasts
  <2> SUFFICES ASSUME TurnInv, NEW q \in Procs, Turn(q), NEW p \in Procs, turn'[p] # turn[p]
               PROVE  /\ turn[p].envelope # None => turn'[p].envelope = turn[p].envelope /\ UNCHANGED <<file, log>>
                      /\ turn[p].envelope = None /\ turn'[p].envelope # None /\ turn[p].session \notin Overlapped =>
                            file[turn[p].session] = turn[p].mem
    BY DEF TurnNext
  <2>1. q = p
    <3>1. Moves(q) BY StepKinds, Underway DEF TurnInv, Steps, Starts
    <3>2. QED BY <3>1 DEF Moves
  <2>2. ASSUME turn[p].envelope # None
        PROVE  turn'[p].envelope = turn[p].envelope /\ UNCHANGED <<file, log>>
    <3>1. turn[p].pc \in {"rendered", "exited", "killed"} /\ turn[p].write = None
      BY SMTT(30), <2>2 DEF TurnInv, SavedIsFile
    <3>2. on_session_end(p) \/ kill(p)
      BY <2>1, <3>1 DEF Turn, Script, launch, begin_turn, record_user, start_exec, tool_call, tool_result, verdict,
             judge, usage_limited, ask, finish, fail, leave, save_end, close, record_result, render, flush, Ready
    <3>3. \E pc : Stage(p, [turn[p] EXCEPT !.pc = pc]) BY <3>2 DEF on_session_end, kill
    <3>4. QED BY <3>3 DEF Stage, TurnInv, Shape, Unstarted
  <2>3. ASSUME turn[p].envelope = None, turn'[p].envelope # None, turn[p].session \notin Overlapped
        PROVE  file[turn[p].session] = turn[p].mem
    <3>1. Filed(p)
      BY <2>1, <2>3, StepKinds DEF TurnInv, Starts, Opens, Ends, Fills, Continues, SavedIsFile, Filed
    <3>2. QED BY <2>3, <3>1 DEF TurnInv, SavedIsFile
  <2>4. QED BY <2>2, <2>3
<1>2. TurnInv /\ [TurnNext]_turnVars => [Lasts]_turnVars BY <1>1
<1>3. QED BY <1>2, TurnInvariant, PTL DEF EnvelopeComesLast
------------------------------------------------------------------------------
(* The transcripts.  An entry is a line of one turn.                         *)
Results == {"success", "pass", "fail", "error", "ask"}
Words == Results \cup {"user", "call", "pending", "completed", "output", "limit"}
Line == [by : Procs, what : Words, n : Nat]
Texts == Seq(Line)

(* What a turn has told: its message first, each of its calls with a result  *)
(* but the one it is at, and its own result last.                            *)
Heard(t) == t.pc \in {"told", "running", "calling", "ending", "closing", "saved", "recorded"} \/ t.envelope # None
Closed(t) == t.pc = "recorded" \/ t.envelope # None
Opener(t) == IF Rewrites(t) THEN "pending" ELSE "call"
AtCall(t) == IF t.pc = "calling" THEN {t.tools} ELSE {}
Answered(l, p, opener, but) ==
    \A i \in EntriesOf(l, p) :
        /\ l[i].what \in {"call", "pending"} => l[i].what = opener
        /\ l[i].what = opener /\ l[i].n \notin but => opener = "call" /\ HasOutput(l, p, l[i].n)
Tale(t, p, l) ==
    /\ OpensWith(l, p, "user")
    /\ t.result # "error" => Answered(l, p, Opener(t), AtCall(t))
    /\ Closed(t) => ClosesWith(l, p, t.result)

Writing(p) == Live(p) /\ turn[p].pc # "opened" /\ Rewrites(turn[p])
Unheard(p) == turn[p].pc \in {"start", "opened", "begun"}

(* A text is lines, and only a document is torn; a turn fails when its script *)
(* ends, has a result to record, and renders the one it recorded.            *)
Sound(t) ==
    /\ t.doc \in Texts /\ t.tools \in Nat /\ t.result \in Results \cup {None}
    /\ t.pc \in {"start", "opened", "begun", "told", "running", "calling"} => t.result # "error"
    /\ t.pc = "saved" => t.result # None
    /\ t.envelope # None => t.envelope.result = t.result
    /\ t.write = "export" => Rewrites(t)
Lined ==
    /\ \A x \in Logs : log[x] \in Texts \/ (x[1] = "opencode" /\ log[x] = Torn)
    /\ \A p \in Procs : Sound(turn[p])

(* A turn that has not told its message has told nothing.                    *)
Silence ==
    \A p \in {q \in Procs : Unheard(q)} :
        /\ \A x \in Logs : x[1] = "claude" \/ log[x] # Torn => EntriesOf(log[x], p) = {}
        /\ \A q \in Procs : EntriesOf(turn[q].doc, p) = {}

(* A turn that appends tells its tale to the file; one that rewrites, to its *)
(* document, which is what is on file unless a write of it was broken off.   *)
Appending ==
    \A p \in Procs : Heard(turn[p]) /\ Appends(turn[p]) => Tale(turn[p], p, log[Path(turn[p])])
Rewriting ==
    \A p \in {q \in Procs : Writing(q)} :
        /\ Heard(turn[p]) => Tale(turn[p], p, turn[p].doc)
        /\ turn[p].session \notin Overlapped => log[Path(turn[p])] \in {turn[p].doc, Torn}

(* The tale of a turn that is over is on file and in the document of every   *)
(* turn that came after it.                                                  *)
Handed(p) ==
    LET t == turn[p]
    IN  /\ log[Path(t)] # Torn => Tale(t, p, log[Path(t)])
        /\ \A q \in Procs : Writing(q) /\ turn[q].session = t.session => Tale(t, p, turn[q].doc)
HandedOn ==
    \A p \in Procs :
        turn[p].envelope # None /\ Rewrites(turn[p]) /\ turn[p].session \notin Overlapped => Handed(p)

TaleInv == Lined /\ Silence /\ Appending /\ Rewriting /\ HandedOn
------------------------------------------------------------------------------
(* What a step does to the texts.  The turn starts; it takes up its document; *)
(* it leaves them; it says one thing; it completes its call; or it stores    *)
(* its document.                                                             *)
SameTale(p) == SameTurn(p) /\ turn'[p].envelope = turn[p].envelope
Wakes(p) ==
    /\ Moves(p) /\ log' = log /\ Sound(turn'[p])
    /\ turn[p].pc = "start" /\ turn'[p].pc \in {"exited", "died", "opened"}
    /\ turn'[p].doc = << >> /\ turn'[p].envelope = None
TakesUp(p) ==
    /\ Moves(p) /\ log' = log /\ SameTale(p)
    /\ turn[p].pc = "opened" /\ turn'[p].pc = "begun" /\ turn'[p].write # "export"
    /\ turn'[p].tools = turn[p].tools /\ turn'[p].result = turn[p].result
    /\ Rewrites(turn[p]) => log[Path(turn[p])] # Torn
    /\ turn'[p].doc = IF Rewrites(turn[p]) THEN log[Path(turn[p])] ELSE turn[p].doc
Abides(t, n) ==
    /\ Heard(n) => Heard(t)
    /\ n.result # "error" => t.result # "error" /\ AtCall(t) \subseteq AtCall(n)
    /\ Closed(n) => Closed(t) /\ n.result = t.result
LeavesBe(p) ==
    /\ Moves(p) /\ log' = log /\ SameTurn(p) /\ Live(p) /\ Sound(turn'[p])
    /\ turn'[p].doc = turn[p].doc
    /\ Unheard(p)' => Unheard(p)
    /\ Writing(p)' => Writing(p)
    /\ Heard(turn'[p]) /\ Transcribes(turn[p]) => Abides(turn[p], turn'[p])
    /\ turn'[p].envelope = turn[p].envelope \/ turn[p].pc = "recorded"
TearsDoc(p) == log' = [log EXCEPT ![Path(turn[p])] = Torn]
Puts(p, entry) ==
    \/ Rewrites(turn[p]) /\ TearsDoc(p) /\ turn'[p].doc = Append(turn[p].doc, entry)
    \/ /\ Appends(turn[p]) /\ turn'[p].doc = turn[p].doc
       /\ log' = [log EXCEPT ![Path(turn[p])] = Append(@, entry)]
Utters(t, n, what, k) ==
    \/ t.pc = "begun" /\ n.pc = "told" /\ what = "user"
    \/ t.pc = "running" /\ n.pc = "calling" /\ what = Opener(t) /\ k = n.tools
    \/ t.pc = "calling" /\ n.pc = "running" /\ what = "output" /\ k = t.tools /\ ~Rewrites(t)
    \/ t.pc = "running" /\ n.pc = "running" /\ what = "limit"
    \/ t.pc = "saved" /\ n.pc = "recorded" /\ what = t.result /\ n.result = t.result
Says(p) ==
    /\ Moves(p) /\ SameTale(p) /\ turn[p].envelope = None
    /\ \E what \in Words, k \in Nat : Puts(p, Entry(p, what, k)) /\ Utters(turn[p], turn'[p], what, k)
    /\ turn'[p].tools \in Nat /\ turn'[p].result \in Results \cup {None}
    /\ turn'[p].result = "error" => turn[p].pc = "saved" /\ turn[p].result = "error"
    /\ turn'[p].write = "export" => Rewrites(turn[p])
Completes(p) ==
    /\ Moves(p) /\ SameTale(p) /\ Rewrites(turn[p]) /\ TearsDoc(p) /\ turn[p].envelope = None
    /\ turn[p].pc = "calling" /\ turn'[p].pc = "running"
    /\ turn'[p].doc = Completed(turn[p].doc, p, turn[p].tools)
    /\ turn'[p].tools = turn[p].tools /\ turn'[p].result = turn[p].result
Stores(p) ==
    /\ Moves(p) /\ SameTale(p) /\ Live(p) /\ Rewrites(turn[p]) /\ turn[p].envelope = None
    /\ log' = [log EXCEPT ![Path(turn[p])] = turn[p].doc]
    /\ turn'[p].doc = turn[p].doc /\ turn'[p].write = None
    /\ turn[p].pc \notin {"start", "opened"} /\ turn'[p].pc = turn[p].pc
    /\ turn'[p].tools = turn[p].tools /\ turn'[p].result = turn[p].result
Telling(p) == Wakes(p) \/ TakesUp(p) \/ LeavesBe(p) \/ Says(p) \/ Completes(p) \/ Stores(p)
------------------------------------------------------------------------------
(* What one turn says leaves what the others said where it was.              *)
Spares(l, m, p) ==
    \A q \in Procs \ {p} : EntriesOf(m, q) = EntriesOf(l, q) /\ \A i \in EntriesOf(l, q) : m[i] = l[i]

(* A line is a line of its turn.                                            *)
LEMMA Lines ==
    ASSUME NEW p \in Procs, NEW what \in Words, NEW k \in Nat
    PROVE  /\ Entry(p, what, k) \in Line /\ Entry(p, what, k).by = p
           /\ Entry(p, what, k).what = what /\ Entry(p, what, k).n = k
BY DEF Entry, Line

(* An entry put last spares the others' entries.                            *)
LEMMA PutSpares ==
    ASSUME NEW p \in Procs, NEW l \in Texts, NEW e \in Line, e.by = p
    PROVE  /\ Append(l, e) \in Texts /\ Spares(l, Append(l, e), p)
           /\ Len(l) \in Nat /\ DOMAIN l = 1 .. Len(l)
           /\ EntriesOf(Append(l, e), p) = EntriesOf(l, p) \cup {Len(l) + 1}
           /\ Append(l, e)[Len(l) + 1] = e
           /\ \A i \in EntriesOf(l, p) : Append(l, e)[i] = l[i] /\ i \in 1 .. Len(l)
<1> DEFINE m == Append(l, e)
<1>1. /\ m \in Texts /\ DOMAIN m = DOMAIN l \cup {Len(l) + 1} /\ m[Len(l) + 1] = e
      /\ \A i \in DOMAIN l : m[i] = l[i] /\ i \in 1 .. Len(l)
  BY Appended DEF Texts
<1>2. Len(l) \in Nat /\ DOMAIN l = 1 .. Len(l) BY DEF Texts
<1> HIDE DEF m
<1>3. ASSUME NEW q \in Procs, q # p
      PROVE  EntriesOf(m, q) = EntriesOf(l, q) /\ \A i \in EntriesOf(l, q) : m[i] = l[i]
  BY <1>1, <1>3 DEF EntriesOf
<1>4. /\ EntriesOf(m, p) = EntriesOf(l, p) \cup {Len(l) + 1}
      /\ \A i \in EntriesOf(l, p) : m[i] = l[i] /\ i \in 1 .. Len(l)
  BY <1>1 DEF EntriesOf
<1>5. QED BY <1>1, <1>2, <1>3, <1>4 DEF Spares, m

(* Completing a call changes its entry in place.                            *)
LEMMA CompletedSpares ==
    ASSUME NEW p \in Procs, NEW l \in Texts, NEW n \in Nat
    PROVE  LET m == Completed(l, p, n)
           IN  /\ m \in Texts /\ Spares(l, m, p)
               /\ EntriesOf(m, p) = EntriesOf(l, p)
               /\ \A i \in EntriesOf(l, p) :
                    \/ m[i] = l[i] /\ l[i] # Entry(p, "pending", n)
                    \/ l[i].what = "pending" /\ m[i].what = "completed" /\ m[i].n = n
<1> DEFINE m == Completed(l, p, n)
<1>1. /\ Entry(p, "pending", n).by = p /\ Entry(p, "pending", n).what = "pending"
      /\ Entry(p, "completed", n).by = p /\ Entry(p, "completed", n).what = "completed"
      /\ Entry(p, "completed", n).n = n /\ Entry(p, "completed", n) \in Line
  BY DEF Entry, Line, Words
<1>2. /\ l \in Seq(Line) /\ Len(l) \in Nat /\ DOMAIN l = 1 .. Len(l)
      /\ \A i \in DOMAIN l : l[i] \in Line
  BY DEF Texts
<1>3. /\ DOMAIN m = DOMAIN l
      /\ \A i \in DOMAIN l : \/ m[i] = l[i] /\ l[i] # Entry(p, "pending", n)
                             \/ l[i] = Entry(p, "pending", n) /\ m[i] = Entry(p, "completed", n)
  BY DEF Completed
<1>4. m \in Texts
  <2>1. m = [i \in 1 .. Len(l) |-> m[i]] BY <1>2 DEF Completed
  <2>2. \A i \in 1 .. Len(l) : m[i] \in Line BY <1>1, <1>2, <1>3
  <2> HIDE DEF m
  <2>3. QED BY <1>2, <2>1, <2>2 DEF Texts
<1> HIDE DEF m
<1>5. \A q \in Procs : EntriesOf(m, q) = EntriesOf(l, q) BY <1>1, <1>3 DEF EntriesOf
<1>6. ASSUME NEW q \in Procs \ {p}, NEW i \in EntriesOf(l, q) PROVE m[i] = l[i]
  BY <1>1, <1>3, <1>6 DEF EntriesOf
<1>7. Spares(l, m, p) BY <1>5, <1>6 DEF Spares
<1>8. ASSUME NEW i \in EntriesOf(l, p)
      PROVE  \/ m[i] = l[i] /\ l[i] # Entry(p, "pending", n)
             \/ l[i].what = "pending" /\ m[i].what = "completed" /\ m[i].n = n
  BY <1>1, <1>3, <1>8 DEF EntriesOf
<1>9. QED BY <1>4, <1>5, <1>7, <1>8 DEF m

(* The tale of a turn is told by its own entries.                           *)
LEMMA TaleSpared ==
    ASSUME NEW p \in Procs, NEW q \in Procs, q # p, NEW l, NEW m, NEW t, Spares(l, m, p), Tale(t, q, l)
    PROVE  Tale(t, q, m)
<1>1. EntriesOf(m, q) = EntriesOf(l, q) /\ \A i \in EntriesOf(l, q) : m[i] = l[i] BY DEF Spares
<1>2. OpensWith(m, q, "user") BY <1>1 DEF Tale, OpensWith, Oldest
<1>3. ClosesWith(l, q, t.result) => ClosesWith(m, q, t.result) BY <1>1 DEF ClosesWith, Newest
<1>4. \A n : HasOutput(l, q, n) => HasOutput(m, q, n) BY <1>1 DEF HasOutput
<1>5. \A o, but : Answered(l, q, o, but) => Answered(m, q, o, but) BY <1>1, <1>4 DEF Answered
<1>6. QED BY <1>2, <1>3, <1>5 DEF Tale

(* A tale stays told of a turn that leaves its text alone.                  *)
LEMMA TaleAbides ==
    ASSUME NEW p, NEW l, NEW t, NEW n, Heard(n), Abides(t, n), Rewrites(n) <=> Rewrites(t), Tale(t, p, l)
    PROVE  Tale(n, p, l)
<1>1. Opener(n) = Opener(t) BY DEF Opener
<1>2. n.result # "error" => Answered(l, p, Opener(t), AtCall(t)) BY DEF Abides, Tale
<1>3. n.result # "error" => AtCall(t) \subseteq AtCall(n) BY DEF Abides
<1>4. n.result # "error" => Answered(l, p, Opener(n), AtCall(n)) BY <1>1, <1>2, <1>3 DEF Answered
<1>5. Closed(n) => ClosesWith(l, p, n.result) BY DEF Abides, Tale
<1>6. QED BY <1>4, <1>5 DEF Tale

(* A turn's tale grows by what the turn says.                               *)
LEMMA TaleGrows ==
    ASSUME NEW p \in Procs, NEW l \in Texts, NEW t, NEW n, NEW what \in Words, NEW k \in Nat,
           Utters(t, n, what, k), Rewrites(n) <=> Rewrites(t), Sound(t), n.envelope = None,
           t.pc = "begun" => EntriesOf(l, p) = {},
           t.pc # "begun" => Tale(t, p, l),
           n.result = "error" => t.pc = "saved" /\ t.result = "error"
    PROVE  Tale(n, p, Append(l, Entry(p, what, k)))
<1> DEFINE e == Entry(p, what, k)
           m == Append(l, e)
           last == Len(l) + 1
<1>1. e \in Line /\ e.by = p /\ e.what = what /\ e.n = k BY Lines
<1> HIDE DEF e
<1>2. /\ Len(l) \in Nat /\ EntriesOf(m, p) = EntriesOf(l, p) \cup {last} /\ m[last] = e
      /\ \A i \in EntriesOf(l, p) : m[i] = l[i] /\ i \in 1 .. Len(l)
  BY <1>1, PutSpares
<1> HIDE DEF m
<1>3. t.pc # "begun" => OpensWith(l, p, "user") BY DEF Tale
<1>4. OpensWith(m, p, "user")
  <2>1. CASE t.pc = "begun"
    <3>1. EntriesOf(m, p) = {last} /\ m[last].what = "user" BY <1>1, <1>2, <2>1 DEF Utters
    <3>2. last \in Oldest(EntriesOf(m, p)) BY <1>2, <3>1 DEF Oldest
    <3>3. QED BY <3>1, <3>2 DEF OpensWith
  <2>2. CASE t.pc # "begun"
    <3>1. PICK i \in Oldest(EntriesOf(l, p)) : l[i].what = "user" BY <1>3, <2>2 DEF OpensWith
    <3>2. i \in Oldest(EntriesOf(m, p)) /\ i \in EntriesOf(l, p) BY <1>2, <3>1 DEF Oldest
    <3>3. QED BY <1>2, <3>1, <3>2 DEF OpensWith
  <2>3. QED BY <2>1, <2>2
<1>5. ASSUME Closed(n) PROVE ClosesWith(m, p, n.result)
  <2>1. n.pc = "recorded" /\ what = n.result BY <1>5 DEF Closed, Utters
  <2>2. last \in Newest(EntriesOf(m, p)) BY <1>2 DEF Newest
  <2>3. QED BY <1>1, <1>2, <2>1, <2>2 DEF ClosesWith
<1>6. ASSUME n.result # "error" PROVE Answered(m, p, Opener(n), AtCall(n))
  <2>1. t.result # "error" BY <1>6 DEF Utters, Sound
  <2>2. Opener(n) = Opener(t) BY DEF Opener
  <2>3. t.pc # "begun" => Answered(l, p, Opener(n), AtCall(t)) BY <2>1, <2>2 DEF Tale
  <2>4. ASSUME NEW i \in EntriesOf(l, p), l[i].what = Opener(n), l[i].n \notin AtCall(n)
        PROVE  Opener(n) = "call" /\ HasOutput(m, p, l[i].n)
    <3>1. \A x : HasOutput(l, p, x) => HasOutput(m, p, x) BY <1>2 DEF HasOutput
    <3>2. CASE l[i].n \notin AtCall(t) BY <2>3, <2>4, <3>1, <3>2 DEF Answered
    <3>3. CASE l[i].n \in AtCall(t)
      <4>1. what = "output" /\ k = t.tools /\ l[i].n = k /\ ~Rewrites(t) BY <3>3 DEF AtCall, Utters
      <4>2. HasOutput(m, p, l[i].n) BY <1>1, <1>2, <4>1 DEF HasOutput
      <4>3. QED BY <2>2, <4>1, <4>2 DEF Opener
    <3>4. QED BY <3>2, <3>3
  <2>5. e.what \in {"call", "pending"} => e.what = Opener(n) /\ e.n \in AtCall(n)
    <3>1. what = t.result /\ t.pc = "saved" => what \notin {"call", "pending"} BY DEF Sound, Results
    <3>2. QED BY <1>1, <2>2, <3>1 DEF Utters, AtCall
  <2>6. ASSUME NEW i \in EntriesOf(l, p) PROVE l[i].what \in {"call", "pending"} => l[i].what = Opener(n)
    BY <2>3, <2>6 DEF Answered
  <2>7. Opener(n) \in {"call", "pending"} BY DEF Opener
  <2>8. ASSUME NEW i \in EntriesOf(m, p)
        PROVE  /\ m[i].what \in {"call", "pending"} => m[i].what = Opener(n)
               /\ m[i].what = Opener(n) /\ m[i].n \notin AtCall(n) =>
                     Opener(n) = "call" /\ HasOutput(m, p, m[i].n)
    <3>1. CASE i \in EntriesOf(l, p) BY <1>2, <2>4, <2>6, <3>1
    <3>2. CASE i = last BY <1>2, <2>5, <2>7, <3>2
    <3>3. QED BY <1>2, <3>1, <3>2
  <2>9. QED BY <2>8 DEF Answered
<1>7. QED BY <1>4, <1>5, <1>6 DEF Tale, m, e

(* A document whose call is completed leaves none pending.                  *)
LEMMA TaleCompletes ==
    ASSUME NEW p \in Procs, NEW l \in Texts, NEW t, NEW n, Rewrites(t), Rewrites(n),
           t.pc = "calling", n.pc = "running", n.envelope = None, n.result = t.result, t.tools \in Nat,
           Tale(t, p, l)
    PROVE  Tale(n, p, Completed(l, p, t.tools))
<1> DEFINE m == Completed(l, p, t.tools)
<1>1. /\ EntriesOf(m, p) = EntriesOf(l, p)
      /\ \A i \in EntriesOf(l, p) :
            \/ m[i] = l[i] /\ l[i] # Entry(p, "pending", t.tools)
            \/ l[i].what = "pending" /\ m[i].what = "completed" /\ m[i].n = t.tools
  BY CompletedSpares
<1> HIDE DEF m
<1>2. l \in Seq(Line) BY DEF Texts
<1>3. OpensWith(m, p, "user")
  <2>1. PICK i \in Oldest(EntriesOf(l, p)) : l[i].what = "user" BY DEF Tale, OpensWith
  <2>2. i \in Oldest(EntriesOf(m, p)) /\ i \in EntriesOf(l, p) BY <1>1, <2>1 DEF Oldest
  <2>3. m[i].what = "user" BY <1>1, <2>1, <2>2
  <2>4. QED BY <2>2, <2>3 DEF OpensWith
<1>4. Opener(t) = "pending" /\ Opener(n) = "pending" /\ AtCall(t) = {t.tools} BY DEF Opener, AtCall
<1>5. ASSUME n.result # "error", NEW i \in EntriesOf(m, p) PROVE m[i].what \notin {"call", "pending"}
  <2>1. i \in EntriesOf(l, p) /\ i \in DOMAIN l BY <1>1, <1>5 DEF EntriesOf
  <2>2. l[i] \in Line /\ l[i].by = p BY <1>2, <2>1 DEF EntriesOf
  <2>3. /\ l[i].what \in {"call", "pending"} => l[i].what = "pending"
        /\ l[i].what = "pending" => l[i].n = t.tools
    BY <1>4, <1>5, <2>1 DEF Tale, Answered
  <2>4. l[i].what = "pending" => l[i] = Entry(p, "pending", t.tools) BY <2>2, <2>3 DEF Line, Entry
  <2>5. QED BY <1>1, <2>1, <2>3, <2>4
<1>6. ~Closed(n) BY DEF Closed
<1>7. n.result # "error" => Answered(m, p, Opener(n), AtCall(n)) BY <1>4, <1>5 DEF Answered
<1>8. QED BY <1>3, <1>6, <1>7 DEF Tale, m

(* What a step does to a transcript on file, and to a document in memory.   *)
FileTold(p, x) ==
    \/ log'[x] = log[x]
    \/ /\ Appends(turn[p]) /\ x[1] = "claude" /\ ~Unheard(p)'
       /\ log'[x] \in Texts /\ Spares(log[x], log'[x], p)
    \/ /\ Writing(p) /\ x = Path(turn[p]) /\ x[1] = "opencode"
       /\ log'[x] = Torn \/ (log'[x] = turn[p].doc /\ turn'[p].doc = turn[p].doc)
DocTold(p) ==
    \/ turn'[p].doc = turn[p].doc /\ (Writing(p)' => Writing(p))
    \/ Writing(p) /\ ~Unheard(p)' /\ Spares(turn[p].doc, turn'[p].doc, p)
    \/ /\ Rewrites(turn[p]) /\ turn[p].pc = "opened"
       /\ log[Path(turn[p])] # Torn /\ turn'[p].doc = log[Path(turn[p])]
    \/ turn'[p].doc = << >> /\ ~Writing(p)'

(* The transcript of a turn that has started is one of the transcripts.     *)
LEMMA Paths ==
    ASSUME Shape, NEW p \in Procs, turn[p].pc # "start", Transcribes(turn[p])
    PROVE  /\ Path(turn[p]) \in Logs
           /\ Appends(turn[p]) => Path(turn[p])[1] = "claude" /\ ~Rewrites(turn[p])
           /\ Rewrites(turn[p]) => Path(turn[p])[1] = "opencode" /\ ~Appends(turn[p])
BY DEF Shape, Path, Logs, Transcribes, Appends, Rewrites

(* Saying something adds a line, to the file or to the document.            *)
LEMMA SaysTold ==
    ASSUME Shape, Lined, NEW p \in Procs, Says(p)
    PROVE  /\ \A x \in Logs : FileTold(p, x)
           /\ DocTold(p) /\ turn'[p].doc \in Texts /\ ~Unheard(p)'
           /\ Live(p) /\ turn[p].pc \notin {"start", "opened"} /\ Transcribes(turn[p])
<1> DEFINE t == turn[p]
           x0 == Path(t)
<1>1. PICK what \in Words, k \in Nat : Puts(p, Entry(p, what, k)) /\ Utters(t, turn'[p], what, k) BY DEF Says
<1>2. PICK e : e = Entry(p, what, k) OBVIOUS
<1>3. e \in Line /\ e.by = p BY <1>2, Lines
<1>4. /\ Live(p) /\ t.pc \notin {"start", "opened"} /\ ~Unheard(p)' /\ Transcribes(t)
  BY <1>1 DEF Utters, Live, Halted, Unheard, Puts, Transcribes
<1>5. /\ x0 \in Logs /\ (Appends(t) => x0[1] = "claude" /\ ~Rewrites(t))
      /\ (Rewrites(t) => x0[1] = "opencode" /\ ~Appends(t))
  BY <1>4, Paths
<1>6. DOMAIN log = Logs /\ t.doc \in Texts /\ (log[x0] \in Texts \/ x0[1] = "opencode")
  BY <1>5 DEF Shape, Lined, Sound
<1>7. CASE Rewrites(t)
  <2>1. log' = [log EXCEPT ![x0] = Torn] /\ turn'[p].doc = Append(t.doc, e) BY <1>1, <1>2, <1>5, <1>7 DEF Puts, TearsDoc
  <2>2. turn'[p].doc \in Texts /\ Spares(t.doc, turn'[p].doc, p) BY <1>3, <1>6, <2>1, PutSpares
  <2>3. Writing(p) BY <1>4, <1>7 DEF Writing
  <2>4. \A x \in Logs : log'[x] = log[x] \/ (x = x0 /\ log'[x] = Torn) BY <1>6, <2>1
  <2>5. \A x \in Logs : FileTold(p, x) BY <1>5, <1>7, <2>3, <2>4 DEF FileTold
  <2>6. QED BY <1>4, <2>2, <2>3, <2>5 DEF DocTold
<1>8. CASE Appends(t)
  <2>1. log' = [log EXCEPT ![x0] = Append(@, e)] /\ turn'[p].doc = t.doc BY <1>1, <1>2, <1>5, <1>8 DEF Puts
  <2>2. log'[x0] = Append(log[x0], e) /\ \A x \in Logs : x # x0 => log'[x] = log[x] BY <1>5, <1>6, <2>1
  <2>3. log'[x0] \in Texts /\ Spares(log[x0], log'[x0], p) BY <1>3, <1>5, <1>6, <1>8, <2>2, PutSpares
  <2>4. \A x \in Logs : FileTold(p, x) BY <1>4, <1>5, <1>8, <2>2, <2>3 DEF FileTold
  <2>5. Rewrites(turn'[p]) <=> Rewrites(t) BY DEF Says, SameTale, SameTurn, Rewrites
  <2>6. QED BY <1>4, <1>5, <1>6, <1>8, <2>1, <2>4, <2>5 DEF DocTold, Writing
<1>9. QED BY <1>4, <1>7, <1>8 DEF Transcribes

(* Every step of a turn tells its texts so.                                 *)
LEMMA TextsTold ==
    ASSUME Shape, Lined, NEW p \in Procs, Telling(p)
    PROVE  /\ Moves(p) /\ (\A x \in Logs : FileTold(p, x)) /\ DocTold(p)
           /\ Unheard(p)' => Unheard(p)
           /\ turn[p].pc # "start" => SameTurn(p) /\ Live(p)
<1> DEFINE t == turn[p]
<1>1. CASE Wakes(p) BY <1>1 DEF Wakes, FileTold, DocTold, Writing, Unheard, Live, Halted
<1>2. CASE TakesUp(p)
  <2>1. /\ Moves(p) /\ log' = log /\ SameTurn(p) /\ Live(p) /\ Unheard(p)
    BY <1>2 DEF TakesUp, SameTale, Unheard, Live, Halted
  <2>2. Rewrites(turn'[p]) <=> Rewrites(t) BY <2>1 DEF SameTurn, Rewrites
  <2>3. DocTold(p) BY <1>2, <2>2 DEF TakesUp, DocTold, Writing
  <2>4. QED BY <2>1, <2>3 DEF FileTold
<1>3. CASE LeavesBe(p) BY <1>3 DEF LeavesBe, FileTold, DocTold
<1>4. CASE Says(p) BY <1>4, SaysTold DEF Says, SameTale
<1>5. CASE Completes(p)
  <2>1. /\ Moves(p) /\ SameTurn(p) /\ Live(p) /\ ~Unheard(p)' /\ Writing(p) /\ Rewrites(t)
        /\ t.pc # "start" /\ Transcribes(t)
    BY <1>5 DEF Completes, SameTale, Unheard, Live, Halted, Writing, Transcribes
  <2>2. Path(t) \in Logs /\ Path(t)[1] = "opencode" /\ DOMAIN log = Logs BY <2>1, Paths DEF Shape
  <2>3. \A x \in Logs : log'[x] = log[x] \/ (x = Path(t) /\ log'[x] = Torn)
    BY <1>5, <2>2 DEF Completes, TearsDoc
  <2>4. Spares(t.doc, turn'[p].doc, p)
    BY <1>5, CompletedSpares DEF Completes, Lined, Sound
  <2>5. QED BY <2>1, <2>2, <2>3, <2>4 DEF FileTold, DocTold
<1>6. CASE Stores(p)
  <2>1. /\ Moves(p) /\ SameTurn(p) /\ Live(p) /\ (Unheard(p)' => Unheard(p)) /\ Writing(p) /\ Rewrites(t)
        /\ t.pc # "start" /\ Transcribes(t)
    BY <1>6 DEF Stores, SameTale, Unheard, Live, Writing, Transcribes
  <2>2. Path(t) \in Logs /\ Path(t)[1] = "opencode" /\ DOMAIN log = Logs BY <2>1, Paths DEF Shape
  <2>3. \A x \in Logs : log'[x] = log[x] \/ (x = Path(t) /\ log'[x] = t.doc /\ turn'[p].doc = t.doc)
    BY <1>6, <2>2 DEF Stores
  <2>4. QED BY <1>6, <2>1, <2>2, <2>3 DEF FileTold, DocTold, Stores
<1>7. QED BY <1>1, <1>2, <1>3, <1>4, <1>5, <1>6 DEF Telling

(* The texts stay lines, and the turns sound.                               *)
LEMMA LinedSteps ==
    ASSUME Shape, Lined, NEW p \in Procs, Telling(p)
    PROVE  Lined'
<1> DEFINE t == turn[p]
<1>1. Moves(p) /\ (\A x \in Logs : FileTold(p, x)) BY TextsTold
<1>2. t.doc \in Texts /\ Sound(t) BY DEF Lined, Sound
<1>3. \A x \in Logs : log'[x] \in Texts \/ (x[1] = "opencode" /\ log'[x] = Torn)
  BY <1>1, <1>2 DEF FileTold, Lined
<1>4. Sound(turn'[p])
  <2>1. CASE Wakes(p) \/ LeavesBe(p) BY <2>1 DEF Wakes, LeavesBe
  <2>2. CASE TakesUp(p)
    <3>1. turn'[p].doc \in Texts
      <4>1. CASE Rewrites(t)
        <5>1. Path(t) \in Logs BY <2>2, <4>1, Paths DEF TakesUp, Transcribes
        <5>2. QED BY <2>2, <4>1, <5>1 DEF TakesUp, Lined
      <4>2. QED BY <1>2, <2>2, <4>1 DEF TakesUp
    <3>2. QED BY <1>2, <2>2, <3>1 DEF TakesUp, SameTale, Sound
  <2>3. CASE Says(p)
    <3>1. /\ turn'[p].doc \in Texts /\ (Rewrites(turn'[p]) <=> Rewrites(t))
          /\ turn'[p].pc \in {"told", "calling", "running", "recorded"}
      BY <2>3, SaysTold DEF Says, SameTale, SameTurn, Rewrites, Utters
    <3>2. t.pc = "saved" => turn'[p].pc = "recorded" BY <2>3 DEF Says, Utters
    <3>3. QED BY <2>3, <3>1, <3>2 DEF Says, SameTale, Sound
  <2>4. CASE Completes(p)
    <3>1. turn'[p].doc \in Texts BY <1>2, <2>4, CompletedSpares DEF Completes, Sound
    <3>2. Rewrites(turn'[p]) BY <2>4 DEF Completes, SameTale, SameTurn, Rewrites
    <3>3. QED BY <1>2, <2>4, <3>1, <3>2 DEF Completes, SameTale, Sound
  <2>5. CASE Stores(p)
    <3>1. Rewrites(turn'[p]) BY <2>5 DEF Stores, SameTale, SameTurn, Rewrites
    <3>2. QED BY <1>2, <2>5, <3>1 DEF Stores, SameTale, Sound
  <2>6. QED BY <2>1, <2>2, <2>3, <2>4, <2>5 DEF Telling
<1>5. QED BY <1>1, <1>3, <1>4 DEF Lined, Moves

(* A turn unheard of stays so in every text.                                *)
LEMMA SilenceSteps ==
    ASSUME Shape, Lined, Silence, NEW p \in Procs, Telling(p)
    PROVE  Silence'
<1>1. /\ Moves(p) /\ (\A x \in Logs : FileTold(p, x)) /\ DocTold(p)
      /\ Unheard(p)' => Unheard(p)
  BY TextsTold
<1> SUFFICES ASSUME NEW q \in Procs, Unheard(q)'
             PROVE  /\ \A x \in Logs : x[1] = "claude" \/ log'[x] # Torn => EntriesOf(log'[x], q) = {}
                    /\ \A r \in Procs : EntriesOf(turn'[r].doc, q) = {}
  BY DEF Silence
<1>2. Unheard(q) BY <1>1 DEF Moves, Unheard
<1>3. /\ \A x \in Logs : x[1] = "claude" \/ log[x] # Torn => EntriesOf(log[x], q) = {}
      /\ \A r \in Procs : EntriesOf(turn[r].doc, q) = {}
  BY <1>2 DEF Silence
<1>4. \A l, m : ~Unheard(p)' /\ Spares(l, m, p) => EntriesOf(m, q) = EntriesOf(l, q) BY DEF Spares
<1>5. ASSUME NEW x \in Logs, x[1] = "claude" \/ log'[x] # Torn PROVE EntriesOf(log'[x], q) = {}
  <2>1. CASE log'[x] = log[x] \/ log'[x] = turn[p].doc BY <1>3, <1>5, <2>1
  <2>2. CASE x[1] = "claude" /\ ~Unheard(p)' /\ Spares(log[x], log'[x], p) BY <1>3, <1>4, <2>2
  <2>3. CASE x[1] = "opencode" /\ log'[x] = Torn BY <1>5, <2>3
  <2>4. QED BY <1>1, <2>1, <2>2, <2>3 DEF FileTold
<1>6. ASSUME NEW r \in Procs PROVE EntriesOf(turn'[r].doc, q) = {}
  <2>1. CASE r # p BY <1>1, <1>3, <2>1 DEF Moves
  <2>2. CASE r = p
    <3>1. CASE turn'[p].doc = turn[p].doc BY <1>3, <2>2, <3>1
    <3>2. CASE ~Unheard(p)' /\ Spares(turn[p].doc, turn'[p].doc, p) BY <1>3, <1>4, <2>2, <3>2
    <3>3. CASE /\ Rewrites(turn[p]) /\ turn[p].pc = "opened"
               /\ log[Path(turn[p])] # Torn /\ turn'[p].doc = log[Path(turn[p])]
      <4>1. Path(turn[p]) \in Logs BY <3>3, Paths DEF Transcribes
      <4>2. QED BY <1>3, <2>2, <3>3, <4>1
    <3>4. CASE turn'[p].doc = << >> BY <2>2, <3>4 DEF EntriesOf
    <3>5. QED BY <1>1, <3>1, <3>2, <3>3, <3>4 DEF DocTold
  <2>3. QED BY <2>1, <2>2
<1>7. QED BY <1>5, <1>6

(* The text a turn speaks to.                                                *)
Text(p) == IF Rewrites(turn[p]) THEN turn[p].doc ELSE log[Path(turn[p])]

(* A turn keeps telling its tale to the text it speaks to.                  *)
LEMMA OwnTale ==
    ASSUME Shape, SavedIsFile, Lined, Silence, NEW p \in Procs, Telling(p), turn[p].pc # "start",
           Transcribes(turn[p]), Heard(turn'[p]), Heard(turn[p]) => Tale(turn[p], p, Text(p))
    PROVE  Tale(turn'[p], p, Text(p)')
<1> DEFINE t == turn[p]
           n == turn'[p]
<1>1. /\ Moves(p) /\ SameTurn(p) /\ Live(p) /\ Sound(t) BY TextsTold DEF Lined
<1>2. /\ Path(n) = Path(t) /\ (Rewrites(n) <=> Rewrites(t)) /\ (Appends(n) <=> Appends(t))
  BY <1>1 DEF SameTurn, Path, Rewrites, Appends
<1>3. /\ Path(t) \in Logs /\ (Appends(t) => Path(t)[1] = "claude" /\ ~Rewrites(t))
      /\ DOMAIN log = Logs
  BY Paths DEF Shape
<1>4. Text(p)' = IF Rewrites(t) THEN n.doc ELSE log'[Path(t)] BY <1>2 DEF Text
<1>5. Text(p) \in Texts
  <2>1. ~Rewrites(t) => Path(t)[1] = "claude" BY <1>3 DEF Transcribes
  <2>2. QED BY <1>1, <1>3, <2>1 DEF Text, Lined, Sound
<1>6. CASE Wakes(p) BY <1>6 DEF Wakes
<1>7. CASE TakesUp(p)
  <2>1. t.envelope # None BY <1>7 DEF TakesUp, SameTale, Heard
  <2>2. QED BY <1>7, <2>1 DEF TakesUp, SavedIsFile
<1>8. CASE LeavesBe(p) \/ Stores(p)
  <2>1. Abides(t, n)
    <3>1. CASE LeavesBe(p) BY <3>1 DEF LeavesBe
    <3>2. CASE Stores(p) BY <1>1, <3>2 DEF Stores, SameTale, Abides, Heard, AtCall, Closed
    <3>3. QED BY <1>8, <3>1, <3>2
  <2>2. Tale(t, p, Text(p)) BY <2>1 DEF Abides
  <2>3. Text(p)' = Text(p)
    <3>1. CASE LeavesBe(p) BY <1>4, <3>1 DEF LeavesBe, Text
    <3>2. CASE Stores(p) BY <1>4, <3>2 DEF Stores, Text
    <3>3. QED BY <1>8, <3>1, <3>2
  <2>4. QED BY <1>2, <2>1, <2>2, <2>3, TaleAbides
<1>9. CASE Says(p)
  <2>1. PICK what \in Words, k \in Nat : Puts(p, Entry(p, what, k)) /\ Utters(t, n, what, k) BY <1>9 DEF Says
  <2>2. n.envelope = None /\ (n.result = "error" => t.pc = "saved" /\ t.result = "error")
    BY <1>9 DEF Says, SameTale
  <2>3. t.pc = "begun" \/ Heard(t) BY <2>1 DEF Utters, Heard
  <2>4. t.pc = "begun" => EntriesOf(Text(p), p) = {}
    BY <1>3 DEF Unheard, Silence, Text, Transcribes
  <2>5. PICK e : e = Entry(p, what, k) OBVIOUS
  <2>6. Text(p)' = Append(Text(p), e)
    <3>1. CASE Rewrites(t) BY <1>3, <1>4, <2>1, <2>5, <3>1 DEF Puts, TearsDoc, Text
    <3>2. CASE ~Rewrites(t) BY <1>3, <1>4, <2>1, <2>5, <3>2 DEF Puts, Text
    <3>3. QED BY <3>1, <3>2
  <2>7. Tale(n, p, Append(Text(p), Entry(p, what, k)))
    <3>1. PICK l : l = Text(p) OBVIOUS
    <3>2. Tale(n, p, Append(l, Entry(p, what, k)))
      BY <1>1, <1>2, <1>5, <2>1, <2>2, <2>3, <2>4, <3>1, TaleGrows
    <3>3. QED BY <3>1, <3>2
  <2>8. QED BY <2>5, <2>6, <2>7
<1>10. CASE Completes(p)
  <2>1. Rewrites(t) /\ t.pc = "calling" /\ n.pc = "running" /\ n.envelope = None /\ n.result = t.result
    BY <1>10 DEF Completes, SameTale
  <2>2. Tale(t, p, Text(p)) BY <2>1 DEF Heard
  <2>3. Text(p)' = Completed(Text(p), p, t.tools) BY <1>4, <1>10, <2>1 DEF Completes, Text
  <2>4. t.tools \in Nat BY <1>1 DEF Sound
  <2>5. PICK l : l = Text(p) OBVIOUS
  <2>6. Tale(n, p, Completed(l, p, t.tools)) BY <1>2, <1>5, <2>1, <2>2, <2>4, <2>5, TaleCompletes
  <2>7. QED BY <2>3, <2>5, <2>6
<1>11. QED BY <1>6, <1>7, <1>8, <1>9, <1>10 DEF Telling

(* A turn heard of has started.                                              *)
LEMMA HeardStarted ==
    ASSUME SavedIsFile, NEW p \in Procs, Heard(turn[p]) PROVE turn[p].pc \notin {"start", "opened", "begun", "died"}
BY DEF SavedIsFile, Heard

(* What a turn that appends told stays in the file, whoever writes there.   *)
LEMMA AppendingSteps ==
    ASSUME Shape, SavedIsFile, Lined, Silence, Appending, NEW p \in Procs, Telling(p)
    PROVE  Appending'
<1>1. /\ Moves(p) /\ (\A x \in Logs : FileTold(p, x))
      /\ turn[p].pc # "start" => SameTurn(p)
  BY TextsTold
<1> SUFFICES ASSUME NEW q \in Procs, Heard(turn'[q]), Appends(turn'[q])
             PROVE  Tale(turn'[q], q, log'[Path(turn'[q])])
  BY DEF Appending
<1>2. CASE q = p
  <2>1. turn[p].pc # "start" BY <1>2 DEF Telling, Wakes, TakesUp, LeavesBe, Says, Utters, Completes, Stores, Heard, Live
  <2>2. Appends(turn[p]) /\ Transcribes(turn[p]) BY <1>1, <1>2, <2>1 DEF SameTurn, Appends, Transcribes
  <2>3. ~Rewrites(turn[p]) /\ ~Rewrites(turn'[p]) BY <1>2, <2>2 DEF Appends, Rewrites
  <2>4. Text(p) = log[Path(turn[p])] /\ Text(p)' = log'[Path(turn'[p])] BY <2>3 DEF Text
  <2>5. Heard(turn[p]) => Tale(turn[p], p, Text(p)) BY <2>2, <2>4 DEF Appending
  <2>6. Tale(turn'[p], p, Text(p)') BY <1>2, <2>1, <2>2, <2>5, OwnTale
  <2>7. QED BY <1>2, <2>4, <2>6
<1>3. CASE q # p
  <2>1. turn'[q] = turn[q] BY <1>1, <1>3 DEF Moves
  <2>2. turn[q].pc # "start" /\ Transcribes(turn[q]) BY <2>1, HeardStarted DEF Transcribes
  <2>3. PICK x : x = Path(turn[q]) OBVIOUS
  <2>4. x \in Logs /\ x[1] = "claude" BY <2>1, <2>2, <2>3, Paths
  <2>5. Tale(turn[q], q, log[x]) BY <2>1, <2>3 DEF Appending
  <2>6. log'[x] = log[x] \/ Spares(log[x], log'[x], p) BY <1>1, <2>4 DEF FileTold
  <2>7. Tale(turn[q], q, log'[x]) BY <1>3, <2>5, <2>6, TaleSpared
  <2>8. QED BY <2>1, <2>3, <2>7
<1>4. QED BY <1>2, <1>3

(* A document tells its turn, and is what is on file unless that is torn.   *)
LEMMA RewritingSteps ==
    ASSUME Shape, Alone, SavedIsFile, Lined, Silence, Rewriting, NEW p \in Procs, Telling(p)
    PROVE  Rewriting'
<1>1. /\ Moves(p) /\ (\A x \in Logs : FileTold(p, x))
      /\ turn[p].pc # "start" => SameTurn(p) /\ Live(p)
  BY TextsTold
<1> SUFFICES ASSUME NEW q \in Procs, Writing(q)'
             PROVE  /\ Heard(turn'[q]) => Tale(turn'[q], q, turn'[q].doc)
                    /\ turn'[q].session \notin Overlapped => log'[Path(turn'[q])] \in {turn'[q].doc, Torn}
  BY DEF Rewriting
<1>2. CASE q = p
  <2>1. turn[p].pc # "start"
    BY <1>2 DEF Telling, Wakes, TakesUp, LeavesBe, Says, Utters, Completes, Stores, Writing, Live, Halted
  <2>2. /\ Rewrites(turn[p]) /\ Rewrites(turn'[p]) /\ Transcribes(turn[p]) /\ Path(turn'[p]) = Path(turn[p])
        /\ turn'[p].session = turn[p].session
    BY <1>1, <1>2, <2>1 DEF Writing, SameTurn, Rewrites, Transcribes, Path
  <2>3. ASSUME Heard(turn'[p]) PROVE Tale(turn'[p], p, turn'[p].doc)
    <3>1. Text(p) = turn[p].doc /\ Text(p)' = turn'[p].doc BY <2>2 DEF Text
    <3>2. Heard(turn[p]) => Writing(p) BY <1>1, <2>1, <2>2, HeardStarted DEF Writing
    <3>3. Heard(turn[p]) => Tale(turn[p], p, Text(p)) BY <3>1, <3>2 DEF Rewriting
    <3>4. Tale(turn'[p], p, Text(p)') BY <2>1, <2>2, <2>3, <3>3, OwnTale
    <3>5. QED BY <3>1, <3>4
  <2>4. ASSUME turn[p].session \notin Overlapped PROVE log'[Path(turn[p])] \in {turn'[p].doc, Torn}
    <3>1. Path(turn[p]) \in Logs /\ DOMAIN log = Logs BY <2>1, <2>2, Paths DEF Shape
    <3>2. CASE TakesUp(p) BY <2>2, <3>2 DEF TakesUp
    <3>3. CASE LeavesBe(p) BY <1>2, <2>4, <3>3 DEF LeavesBe, Rewriting
    <3>4. CASE Says(p)
      <4>1. ~Appends(turn[p]) BY <2>2 DEF Appends, Rewrites
      <4>2. TearsDoc(p) BY <3>4, <4>1 DEF Says, Puts
      <4>3. QED BY <3>1, <4>2 DEF TearsDoc
    <3>5. CASE Completes(p) BY <3>1, <3>5 DEF Completes, TearsDoc
    <3>6. CASE Stores(p) BY <3>1, <3>6 DEF Stores
    <3>7. QED BY <2>1, <3>2, <3>3, <3>4, <3>5, <3>6 DEF Telling, Wakes
  <2>5. QED BY <1>2, <2>2, <2>3, <2>4
<1>3. CASE q # p
  <2>1. turn'[q] = turn[q] BY <1>1, <1>3 DEF Moves
  <2>2. Writing(q) /\ Live(q) /\ turn[q].pc # "start" /\ Transcribes(turn[q])
    BY <2>1 DEF Writing, Live, Transcribes
  <2>3. PICK x : x = Path(turn[q]) OBVIOUS
  <2>4. x \in Logs /\ x[1] = "opencode" /\ x[2] = turn[q].session BY <2>2, <2>3, Paths DEF Path, Writing
  <2>5. ASSUME turn[q].session \notin Overlapped PROVE log'[x] = log[x]
    <3>1. CASE Writing(p) /\ x = Path(turn[p])
      <4>1. Live(p) /\ turn[p].session = turn[q].session BY <2>4, <3>1 DEF Writing, Path
      <4>2. QED BY <1>3, <2>2, <2>5, <4>1 DEF Alone
    <3>2. QED BY <1>1, <2>4, <3>1 DEF FileTold
  <2>6. QED BY <2>1, <2>2, <2>3, <2>5 DEF Rewriting
<1>4. QED BY <1>2, <1>3

(* The tale of a turn that is over is handed on from document to document.  *)
LEMMA HandedSteps ==
    ASSUME Shape, Alone, SavedIsFile, Lined, Rewriting, HandedOn, NEW p \in Procs, Telling(p)
    PROVE  HandedOn'
<1>1. /\ Moves(p) /\ (\A x \in Logs : FileTold(p, x)) /\ DocTold(p)
      /\ turn[p].pc # "start" => SameTurn(p) /\ Live(p)
  BY TextsTold
<1> SUFFICES ASSUME NEW q \in Procs, turn'[q].envelope # None, Rewrites(turn'[q]), turn'[q].session \notin Overlapped
             PROVE  /\ log'[Path(turn'[q])] # Torn => Tale(turn'[q], q, log'[Path(turn'[q])])
                    /\ \A r \in Procs : Writing(r)' /\ turn'[r].session = turn'[q].session =>
                          Tale(turn'[q], q, turn'[r].doc)
  BY DEF HandedOn, Handed
<1>2. CASE q # p
  <2>1. turn'[q] = turn[q] BY <1>1, <1>2 DEF Moves
  <2>2. PICK t, s, x : t = turn[q] /\ s = t.session /\ x = Path(t) OBVIOUS
  <2>3. t.pc # "start" /\ Transcribes(t) BY <2>1, <2>2, HeardStarted DEF Transcribes, Heard
  <2>4. x \in Logs /\ x[1] = "opencode" /\ x[2] = s BY <2>1, <2>2, <2>3, Paths DEF Path
  <2>5. /\ log[x] # Torn => Tale(t, q, log[x])
        /\ \A r \in Procs : Writing(r) /\ turn[r].session = s => Tale(t, q, turn[r].doc)
    BY <2>1, <2>2 DEF HandedOn, Handed
  <2>6. ASSUME log'[x] # Torn PROVE Tale(t, q, log'[x])
    <3>1. CASE log'[x] = log[x] BY <2>5, <2>6, <3>1
    <3>2. CASE Writing(p) /\ x = Path(turn[p]) /\ log'[x] = turn[p].doc
      <4>1. turn[p].session = s BY <2>4, <3>2 DEF Path
      <4>2. QED BY <2>5, <3>2, <4>1
    <3>3. QED BY <1>1, <2>4, <2>6, <3>1, <3>2 DEF FileTold
  <2>7. ASSUME NEW r \in Procs, Writing(r)', turn'[r].session = s PROVE Tale(t, q, turn'[r].doc)
    <3>1. CASE r # p
      <4>1. turn'[r] = turn[r] BY <1>1, <3>1 DEF Moves
      <4>2. Writing(r) BY <2>7, <4>1 DEF Writing, Live
      <4>3. QED BY <2>5, <2>7, <4>1, <4>2
    <3>2. CASE r = p
      <4>1. turn[p].pc # "start"
        BY <2>7, <3>2 DEF Telling, Wakes, TakesUp, LeavesBe, Says, Utters, Completes, Stores, Writing, Live, Halted
      <4>2. turn[p].session = s /\ Rewrites(turn[p]) BY <1>1, <2>7, <3>2, <4>1 DEF SameTurn, Writing, Rewrites
      <4>3. CASE turn'[p].doc = turn[p].doc /\ Writing(p) BY <2>5, <3>2, <4>2, <4>3
      <4>4. CASE Writing(p) /\ Spares(turn[p].doc, turn'[p].doc, p)
        <5>1. PICK l, m : l = turn[p].doc /\ m = turn'[p].doc OBVIOUS
        <5>2. Tale(t, q, l) /\ Spares(l, m, p) BY <2>5, <4>2, <4>4, <5>1
        <5>3. Tale(t, q, m) BY <1>2, <5>2, TaleSpared
        <5>4. QED BY <3>2, <5>1, <5>3
      <4>5. CASE log[Path(turn[p])] # Torn /\ turn'[p].doc = log[Path(turn[p])]
        <5>1. Path(turn[p]) = x BY <2>1, <2>2, <4>2 DEF Path, Rewrites
        <5>2. QED BY <2>5, <3>2, <4>5, <5>1
      <4>6. QED BY <1>1, <2>7, <3>2, <4>3, <4>4, <4>5 DEF DocTold
    <3>3. QED BY <3>1, <3>2
  <2>8. QED BY <2>1, <2>2, <2>6, <2>7
<1>3. CASE q = p
  <2>1. LeavesBe(p)
    <3>1. turn[p].envelope # None => turn[p].pc \in {"rendered", "exited", "killed"} BY DEF SavedIsFile
    <3>2. QED BY <1>3, <3>1 DEF Telling, Wakes, TakesUp, Says, Completes, Stores, SameTale
  <2>2. PICK t, n, x : t = turn[p] /\ n = turn'[p] /\ x = Path(t) OBVIOUS
  <2>3. /\ SameTurn(p) /\ Live(p) /\ n.doc = t.doc /\ log' = log
        /\ Writing(p)' => Writing(p)
        /\ Heard(n) /\ Transcribes(t) => Abides(t, n)
        /\ n.envelope = t.envelope \/ t.pc = "recorded"
    BY <2>1, <2>2 DEF LeavesBe
  <2>4. /\ n.session = t.session /\ Path(n) = x /\ Rewrites(t) /\ Rewrites(n) /\ t.session \notin Overlapped
    BY <1>3, <2>2, <2>3 DEF SameTurn, Path, Rewrites
  <2>5. Heard(n) /\ Abides(t, n) BY <1>3, <2>2, <2>3, <2>4 DEF Heard, Transcribes
  <2>6. \A l : Tale(t, p, l) => Tale(n, p, l) BY <2>4, <2>5, TaleAbides
  <2>7. \A r \in Procs : Writing(r)' => Writing(r) /\ turn'[r].session = turn[r].session /\ turn'[r].doc = turn[r].doc
    BY <1>1, <2>2, <2>3, <2>4 DEF Moves, Writing, Live
  <2>8. CASE t.envelope # None
    <3>1. /\ log[x] # Torn => Tale(t, p, log[x])
          /\ \A r \in Procs : Writing(r) /\ turn[r].session = t.session => Tale(t, p, turn[r].doc)
      BY <2>2, <2>4, <2>8 DEF HandedOn, Handed
    <3>2. QED BY <1>3, <2>2, <2>3, <2>4, <2>6, <2>7, <3>1
  <2>9. CASE t.envelope = None
    <3>1. t.pc = "recorded" BY <1>3, <2>2, <2>3, <2>9
    <3>2. Writing(p) /\ Heard(t) BY <2>2, <2>3, <2>4, <3>1 DEF Writing, Heard
    <3>3. Tale(t, p, t.doc) /\ log[x] \in {t.doc, Torn} BY <2>2, <2>4, <3>2 DEF Rewriting
    <3>4. ASSUME NEW r \in Procs, Writing(r)', turn'[r].session = n.session PROVE r = p
      <4>1. Live(r) /\ turn[r].session = t.session BY <2>4, <2>7, <3>4 DEF Writing
      <4>2. QED BY <2>2, <2>3, <2>4, <4>1 DEF Alone
    <3>5. QED BY <1>3, <2>2, <2>3, <2>4, <2>6, <3>3, <3>4
  <2>10. QED BY <2>8, <2>9
<1>4. QED BY <1>2, <1>3

------------------------------------------------------------------------------
(* A step that leaves the texts alone, given what it makes of the turn.      *)
LEMMA Leaves ==
    ASSUME Shape, NEW p \in Procs, NEW next, turn' = [turn EXCEPT ![p] = next], log' = log, Live(p),
           DOMAIN next = DOMAIN Unstarted, next.call = turn[p].call, next.session = turn[p].session,
           next.doc = turn[p].doc, Sound(next),
           next.pc \notin {"start", "opened"}, next.pc = "begun" => turn[p].pc = "begun",
           turn[p].pc = "opened" => next.pc \in Halted,
           Heard(next) /\ Transcribes(turn[p]) => Abides(turn[p], next),
           next.envelope = turn[p].envelope \/ turn[p].pc = "recorded"
    PROVE  LeavesBe(p)
<1>1. DOMAIN turn = Procs /\ DOMAIN log = Logs BY DEF Shape
<1>2. turn'[p] = next /\ Moves(p) /\ SameTurn(p) BY <1>1 DEF Moves, SameTurn
<1>3. Unheard(p)' => Unheard(p) BY <1>2 DEF Unheard
<1>4. Writing(p)' => Writing(p) BY <1>2 DEF Writing, Live, Rewrites
<1>5. QED BY <1>2, <1>3, <1>4 DEF LeavesBe

(* A record says one thing, or leaves the texts alone if there are none.    *)
LEMMA RecordTells ==
    ASSUME Shape, NEW p \in Procs, NEW next, NEW what \in Words, NEW k \in Nat,
           Record(p, Entry(p, what, k), next), DOMAIN next = DOMAIN Unstarted,
           next.call = turn[p].call, next.session = turn[p].session, next.doc = turn[p].doc,
           next.write = None, next.envelope = None, turn[p].envelope = None,
           Sound(turn[p]), next.tools \in Nat, next.result \in Results \cup {None},
           next.result = "error" => turn[p].pc = "saved" /\ turn[p].result = "error",
           Utters(turn[p], next, what, k)
    PROVE  Telling(p)
<1> DEFINE t == turn[p]
<1>1. DOMAIN turn = Procs /\ DOMAIN log = Logs BY DEF Shape
<1>2. PICK e : e = Entry(p, what, k) OBVIOUS
<1>3. Path(next) = Path(t) /\ None # "export" BY TurnAssumption DEF Path
<1>4. CASE Rewrites(t)
  <2> DEFINE doc == [next EXCEPT !.doc = Append(t.doc, e)]
             put == [doc EXCEPT !.write = "export"]
  <2>1. Truncate(p, "export", doc) BY <1>2, <1>4 DEF Record, Appends, Rewrites
  <2>2. doc.session = t.session /\ doc.call = t.call BY DEF Unstarted
  <2>3. /\ put.call = t.call /\ put.session = t.session /\ put.doc = Append(t.doc, e)
        /\ put.pc = next.pc /\ put.tools = next.tools /\ put.result = next.result
        /\ put.envelope = None /\ put.write = "export" /\ DOMAIN put = DOMAIN Unstarted
    BY DEF Unstarted
  <2>4. turn' = [turn EXCEPT ![p] = put] /\ log' = [log EXCEPT ![Path(doc)] = Torn] BY <2>1 DEF Truncate
  <2>5. Path(doc) = Path(t) BY <2>2 DEF Path
  <2> HIDE DEF put, doc
  <2>6. turn'[p] = put /\ Moves(p) BY <1>1, <2>3, <2>4 DEF Moves
  <2>7. Puts(p, e) BY <1>4, <2>3, <2>4, <2>5, <2>6 DEF Puts, TearsDoc
  <2>8. Utters(t, turn'[p], what, k) BY <2>3, <2>6 DEF Utters
  <2>9. Says(p) BY <1>2, <1>4, <2>3, <2>6, <2>7, <2>8 DEF Says, SameTale, SameTurn
  <2>10. QED BY <2>9 DEF Telling
<1>5. CASE Appends(t) /\ ~Rewrites(t)
  <2>1. turn' = [turn EXCEPT ![p] = next] /\ log' = [log EXCEPT ![Path(t)] = Append(@, e)]
    BY <1>2, <1>5 DEF Record
  <2>2. turn'[p] = next /\ Moves(p) BY <1>1, <2>1 DEF Moves
  <2>3. Puts(p, e) BY <1>5, <2>1, <2>2 DEF Puts
  <2>4. Says(p) BY <1>2, <1>3, <2>2, <2>3 DEF Says, SameTale, SameTurn
  <2>5. QED BY <2>4 DEF Telling
<1>6. CASE ~Transcribes(t)
  <2>1. turn' = [turn EXCEPT ![p] = next] /\ log' = log BY <1>6 DEF Record, Transcribes
  <2>2. Live(p) /\ t.pc # "opened" /\ next.pc \in {"told", "running", "calling", "recorded"}
    BY DEF Utters, Live, Halted
  <2>3. Sound(next) BY <1>3, <2>2 DEF Sound, Utters
  <2>4. LeavesBe(p) BY <1>6, <2>1, <2>2, <2>3, Leaves
  <2>5. QED BY <2>4 DEF Telling
<1>7. QED BY <1>4, <1>5, <1>6 DEF Transcribes

(* Every step of a turn tells.                                               *)
LEMMA TurnTells ==
    ASSUME Shape, SavedIsFile, Lined, NEW p \in Procs, Turn(p)
    PROVE  Telling(p)
<1> DEFINE t == turn[p]
<1>0. /\ DOMAIN t = DOMAIN Unstarted /\ DOMAIN turn = Procs /\ DOMAIN log = Logs
      /\ t.envelope # None => t.pc \in {"rendered", "exited", "killed"} /\ t.write = None
      /\ t.pc \in {"start", "opened"} => t.write = None
      /\ Sound(t) /\ t.doc \in Texts
  BY DEF Shape, SavedIsFile, Lined, Sound
<1>01. None \notin {"state", "export", "error"} BY TurnAssumption
<1>1. ASSUME NEW c \in TurnCalls, launch(p, c) PROVE Telling(p)
  <2>1. Starts(p, c) /\ log' = log BY <1>1, LaunchStarts DEF launch
  <2>2. /\ turn'[p].doc = << >> /\ turn'[p].tools = 0 /\ turn'[p].result = None
    <3> DEFINE s == SessionOf(p, c)
               start == [Unstarted EXCEPT !.call = c, !.session = s]
               state == IF IsResume(c) THEN Resumed(p, c, LoadOrCreate(file[s]))
                        ELSE Spawned(p, c, LoadOrCreate(file[s]))
               exited == [start EXCEPT !.pc = "exited"]
               died == [start EXCEPT !.pc = "died"]
               open == [start EXCEPT !.pc = "opened", !.mem = state, !.program = Program(c, state.selftest)]
    <3>1. turn'[p] = CASE ~Fenced(c) -> exited
                       [] Fenced(c) /\ file[s] = Torn -> died
                       [] OTHER -> open
      BY <1>0, <1>1 DEF launch
    <3>2. turn'[p] \in {exited, died, open} BY <3>1
    <3> HIDE DEF state, s
    <3>3. /\ exited.doc = << >> /\ exited.tools = 0 /\ exited.result = None
          /\ died.doc = << >> /\ died.tools = 0 /\ died.result = None
          /\ open.doc = << >> /\ open.tools = 0 /\ open.result = None
      BY DEF Unstarted
    <3> HIDE DEF exited, died, open
    <3>4. QED BY <3>2, <3>3
  <2>3. << >> \in Texts BY DEF Texts
  <2>4. Sound(turn'[p]) BY <1>01, <2>1, <2>2, <2>3 DEF Sound, Starts
  <2>5. Wakes(p) BY <2>1, <2>2, <2>4 DEF Wakes, Starts
  <2>6. QED BY <2>5 DEF Telling
<1>2. CASE begin_turn(p)
  <2>1. t.pc = "opened" /\ Live(p) /\ t.envelope = None BY <1>0, <1>2 DEF begin_turn, Ready, Live, Halted
  <2>2. CASE Rewrites(t) /\ log[Path(t)] = Torn
    <3> DEFINE next == [t EXCEPT !.pc = "died"]
    <3>1. turn' = [turn EXCEPT ![p] = next] /\ log' = log BY <1>0, <1>2, <2>2 DEF begin_turn
    <3>2. /\ DOMAIN next = DOMAIN Unstarted /\ next.call = t.call /\ next.session = t.session /\ next.doc = t.doc
          /\ next.pc = "died" /\ next.envelope = t.envelope /\ next.tools = t.tools /\ next.result = t.result
          /\ next.write = t.write
      BY <1>0 DEF Unstarted
    <3> HIDE DEF next
    <3>3. Sound(next) /\ ~Heard(next) BY <1>0, <2>1, <3>2 DEF Sound, Heard, Rewrites
    <3>4. LeavesBe(p) BY <2>1, <3>1, <3>2, <3>3, Leaves DEF Halted
    <3>5. QED BY <3>4 DEF Telling
  <2>3. CASE ~(Rewrites(t) /\ log[Path(t)] = Torn)
    <3> DEFINE next == [t EXCEPT !.pc = "begun", !.mem = Counted(p, t.mem),
                              !.doc = IF Rewrites(t) THEN OpenDocument(log[Path(t)]) ELSE @]
    <3>1. Truncate(p, "state", next) BY <1>2, <2>3 DEF begin_turn
    <3>2. DOMAIN next = DOMAIN Unstarted BY <1>0
    <3>3. /\ next.session = t.session /\ next.call = t.call /\ next.tools = t.tools /\ next.result = t.result
          /\ next.pc = "begun" /\ next.envelope = t.envelope
          /\ next.doc = IF Rewrites(t) THEN log[Path(t)] ELSE t.doc
      BY <1>0 DEF Unstarted, OpenDocument
    <3> HIDE DEF next
    <3>4. turn' = [turn EXCEPT ![p] = [next EXCEPT !.write = "state"]] /\ log' = log
      BY <3>1 DEF Truncate
    <3>5. /\ Moves(p) /\ SameTale(p) /\ turn'[p].pc = "begun" /\ turn'[p].write = "state"
          /\ turn'[p].tools = t.tools /\ turn'[p].result = t.result
          /\ turn'[p].doc = IF Rewrites(t) THEN log[Path(t)] ELSE t.doc
      BY <1>0, <3>2, <3>3, <3>4 DEF Moves, SameTale, SameTurn, Unstarted
    <3>6. TakesUp(p) BY <2>1, <2>3, <3>4, <3>5 DEF TakesUp
    <3>7. QED BY <3>6 DEF Telling
  <2>4. QED BY <2>2, <2>3
<1>3. CASE record_user(p)
  <2> DEFINE next == [t EXCEPT !.pc = "told"]
  <2>1. /\ DOMAIN next = DOMAIN Unstarted /\ next.call = t.call /\ next.session = t.session /\ next.doc = t.doc
        /\ next.pc = "told" /\ next.envelope = t.envelope /\ next.tools = t.tools /\ next.result = t.result
        /\ next.write = t.write
    BY <1>0 DEF Unstarted
  <2>2. Record(p, Entry(p, "user", 0), next) /\ t.pc = "begun" /\ t.write = None BY <1>3 DEF record_user, Ready
  <2> HIDE DEF next
  <2>3. Utters(t, next, "user", 0) /\ "user" \in Words /\ t.envelope = None /\ t.result # "error"
    BY <1>0, <2>1, <2>2 DEF Utters, Words, Sound
  <2>4. t.tools \in Nat /\ t.result \in Results \cup {None} BY <1>0 DEF Sound
  <2>5. QED BY <1>0, <2>1, <2>2, <2>3, <2>4, RecordTells
<1>4. CASE start_exec(p)
  <2> DEFINE next == [t EXCEPT !.result = IF t.program = "error" THEN "error" ELSE @,
                               !.pc = IF t.program = "error" THEN "ending" ELSE "running"]
  <2>1. /\ DOMAIN next = DOMAIN Unstarted /\ next.call = t.call /\ next.session = t.session /\ next.doc = t.doc
        /\ next.envelope = t.envelope /\ next.tools = t.tools /\ next.write = t.write
        /\ \/ next.pc = "ending" /\ next.result = "error"
           \/ next.pc = "running" /\ next.result = t.result
    BY <1>0 DEF Unstarted
  <2>2. turn' = [turn EXCEPT ![p] = next] /\ log' = log /\ t.pc = "told" /\ t.write = None
    BY <1>0, <1>4 DEF start_exec, Ready
  <2> HIDE DEF next
  <2>3. Live(p) /\ t.envelope = None /\ t.result # "error" BY <1>0, <2>2 DEF Live, Halted, Sound
  <2>4. Sound(next) BY <1>0, <1>01, <2>1, <2>2, <2>3 DEF Sound, Results
  <2>5. Abides(t, next) BY <2>1, <2>2, <2>3 DEF Abides, Heard, AtCall, Closed
  <2>6. LeavesBe(p) BY <2>1, <2>2, <2>3, <2>4, <2>5, Leaves
  <2>7. QED BY <2>6 DEF Telling
<1>5. CASE tool_call(p)
  <2> DEFINE next == [t EXCEPT !.pc = "calling", !.tools = @ + 1]
  <2>1. /\ DOMAIN next = DOMAIN Unstarted /\ next.call = t.call /\ next.session = t.session /\ next.doc = t.doc
        /\ next.pc = "calling" /\ next.envelope = t.envelope /\ next.tools = t.tools + 1 /\ next.result = t.result
        /\ next.write = t.write
    BY <1>0 DEF Unstarted
  <2>2. Record(p, Entry(p, Opener(t), t.tools + 1), next) /\ t.pc = "running" /\ t.write = None
    BY <1>5 DEF tool_call, Ready, Opener
  <2> HIDE DEF next
  <2>3. t.tools \in Nat /\ t.tools + 1 \in Nat /\ t.result \in Results \cup {None} BY <1>0 DEF Sound
  <2>4. /\ Utters(t, next, Opener(t), t.tools + 1) /\ Opener(t) \in Words
        /\ t.envelope = None /\ t.result # "error"
    BY <1>0, <2>1, <2>2 DEF Utters, Words, Opener, Sound
  <2>5. QED BY <1>0, <2>1, <2>2, <2>3, <2>4, RecordTells
<1>6. CASE tool_result(p)
  <2>1. t.pc = "calling" /\ t.write = None /\ t.envelope = None BY <1>0, <1>6 DEF tool_result, Ready
  <2>2. CASE Rewrites(t)
    <3> DEFINE doc == [t EXCEPT !.pc = "running", !.doc = Completed(t.doc, p, t.tools)]
    <3>1. Truncate(p, "export", doc) BY <1>6, <2>2 DEF tool_result
    <3>2. /\ DOMAIN doc = DOMAIN Unstarted /\ doc.call = t.call /\ doc.session = t.session
          /\ doc.pc = "running" /\ doc.envelope = t.envelope /\ doc.tools = t.tools /\ doc.result = t.result
          /\ doc.doc = Completed(t.doc, p, t.tools)
      BY <1>0 DEF Unstarted
    <3> HIDE DEF doc
    <3>3. /\ turn' = [turn EXCEPT ![p] = [doc EXCEPT !.write = "export"]]
          /\ log' = [log EXCEPT ![Path(t)] = Torn]
      BY <3>1, <3>2 DEF Truncate, Path
    <3>4. /\ Moves(p) /\ SameTale(p) /\ turn'[p].pc = "running" /\ turn'[p].tools = t.tools
          /\ turn'[p].result = t.result /\ turn'[p].doc = Completed(t.doc, p, t.tools)
      BY <1>0, <3>2, <3>3 DEF Moves, SameTale, SameTurn, Unstarted
    <3>5. Completes(p) BY <2>1, <2>2, <3>3, <3>4 DEF Completes, TearsDoc
    <3>6. QED BY <3>5 DEF Telling
  <2>3. CASE ~Rewrites(t)
    <3> DEFINE next == [t EXCEPT !.pc = "running"]
    <3>1. /\ DOMAIN next = DOMAIN Unstarted /\ next.call = t.call /\ next.session = t.session /\ next.doc = t.doc
          /\ next.pc = "running" /\ next.envelope = t.envelope /\ next.tools = t.tools /\ next.result = t.result
          /\ next.write = t.write
      BY <1>0 DEF Unstarted
    <3>2. Record(p, Entry(p, "output", t.tools), next) BY <1>6, <2>3 DEF tool_result
    <3> HIDE DEF next
    <3>3. t.tools \in Nat /\ t.result \in Results \cup {None} BY <1>0 DEF Sound
    <3>4. Utters(t, next, "output", t.tools) /\ "output" \in Words /\ t.result # "error"
      BY <1>0, <2>1, <2>3, <3>1 DEF Utters, Words, Sound
    <3>5. QED BY <1>0, <2>1, <3>1, <3>2, <3>3, <3>4, RecordTells
  <2>4. QED BY <2>2, <2>3
<1>7. CASE verdict(p) \/ judge(p)
  <2>1. PICK next : /\ Stage(p, next) /\ DOMAIN next = DOMAIN Unstarted /\ next.call = t.call
                    /\ next.session = t.session /\ next.doc = t.doc /\ next.pc = "running"
                    /\ next.envelope = t.envelope /\ next.tools = t.tools /\ next.write = t.write
                    /\ next.result \in {"success", "pass", "fail"} /\ t.pc = "running"
    BY <1>0, <1>7 DEF verdict, judge, Ready, Unstarted
  <2>2. turn' = [turn EXCEPT ![p] = next] /\ log' = log BY <2>1 DEF Stage
  <2>3. Live(p) /\ t.envelope = None /\ t.result # "error" BY <1>0, <2>1 DEF Live, Halted, Sound
  <2>4. Sound(next) BY <1>0, <2>1, <2>3 DEF Sound, Results, Rewrites
  <2>5. Abides(t, next) BY <2>1, <2>3 DEF Abides, Heard, AtCall, Closed
  <2>6. LeavesBe(p) BY <2>1, <2>2, <2>3, <2>4, <2>5, Leaves
  <2>7. QED BY <2>6 DEF Telling
<1>8. CASE usage_limited(p)
  <2> DEFINE next == [t EXCEPT !.result = "success"]
  <2>1. /\ DOMAIN next = DOMAIN Unstarted /\ next.call = t.call /\ next.session = t.session /\ next.doc = t.doc
        /\ next.pc = t.pc /\ next.envelope = t.envelope /\ next.tools = t.tools /\ next.result = "success"
        /\ next.write = t.write
    BY <1>0 DEF Unstarted
  <2>2. Record(p, Entry(p, "limit", 0), next) /\ t.pc = "running" /\ t.write = None
    BY <1>8 DEF usage_limited, Ready
  <2> HIDE DEF next
  <2>3. Utters(t, next, "limit", 0) /\ "limit" \in Words /\ t.envelope = None
    BY <1>0, <2>1, <2>2 DEF Utters, Words
  <2>4. t.tools \in Nat /\ next.result \in Results \cup {None} BY <1>0, <2>1 DEF Sound, Results
  <2>5. QED BY <1>0, <2>1, <2>2, <2>3, <2>4, RecordTells
<1>9. CASE ask(p)
  <2>1. PICK pc \in {"ending", "running"} :
            turn' = [turn EXCEPT ![p] = [t EXCEPT !.mem = AskNoted(p, t.mem), !.result = "ask", !.pc = pc]]
    BY <1>9 DEF ask
  <2> DEFINE noted == AskNoted(p, t.mem)
             next == [t EXCEPT !.mem = noted, !.result = "ask", !.pc = pc]
  <2> HIDE DEF noted
  <2>2. turn' = [turn EXCEPT ![p] = next] /\ log' = log /\ t.pc = "running" BY <1>9, <2>1 DEF ask, Ready, noted
  <2>3. /\ DOMAIN next = DOMAIN Unstarted /\ next.call = t.call /\ next.session = t.session /\ next.doc = t.doc
        /\ next.pc = pc /\ next.envelope = t.envelope /\ next.tools = t.tools /\ next.result = "ask"
        /\ next.write = t.write
    BY <1>0 DEF Unstarted
  <2> HIDE DEF next
  <2>4. Live(p) /\ t.envelope = None /\ t.result # "error" BY <1>0, <2>2 DEF Live, Halted, Sound
  <2>5. Sound(next) BY <1>0, <2>1, <2>3, <2>4 DEF Sound, Results, Rewrites
  <2>6. Abides(t, next) BY <2>1, <2>2, <2>3, <2>4 DEF Abides, Heard, AtCall, Closed
  <2>7. LeavesBe(p) BY <2>1, <2>2, <2>3, <2>4, <2>5, <2>6, Leaves
  <2>8. QED BY <2>7 DEF Telling
<1>10. CASE finish(p) \/ fail(p) \/ leave(p)
  <2> DEFINE Quits(next) ==
               /\ DOMAIN next = DOMAIN Unstarted /\ next.call = t.call /\ next.session = t.session
               /\ next.doc = t.doc /\ next.pc = "ending" /\ next.envelope = t.envelope /\ next.tools = t.tools
               /\ next.write \in {t.write, None} /\ next.result \in {"success", "error", None, t.result}
               /\ t.pc = "running" \/ (t.pc = "calling" /\ next.result = "error")
  <2>1. ASSUME NEW next, Quits(next), Stage(p, next) PROVE Telling(p)
    <3>1. turn' = [turn EXCEPT ![p] = next] /\ log' = log BY <2>1 DEF Stage
    <3>2. Live(p) /\ t.envelope = None /\ t.result # "error" BY <1>0, <2>1 DEF Live, Halted, Sound
    <3>3. Sound(next) BY <1>0, <1>01, <2>1, <3>2 DEF Sound, Results, Rewrites
    <3>4. Abides(t, next) BY <2>1, <3>2 DEF Abides, Heard, AtCall, Closed
    <3>5. LeavesBe(p) BY <2>1, <3>1, <3>2, <3>3, <3>4, Leaves
    <3>6. QED BY <3>5 DEF Telling
  <2>2. CASE finish(p)
    <3> DEFINE next == [t EXCEPT !.pc = "ending", !.result = IF @ = None THEN "success" ELSE @]
    <3>1. Stage(p, next) /\ t.pc = "running" BY <2>2 DEF finish, Ready
    <3>2. Quits(next) BY <1>0, <3>1 DEF Unstarted
    <3> HIDE DEF next, Quits
    <3>3. QED BY <2>1, <3>1, <3>2
  <2>3. CASE fail(p)
    <3> DEFINE next == [t EXCEPT !.pc = "ending", !.result = "error", !.write = None]
    <3>1. Stage(p, next) /\ t.pc \in {"running", "calling"} BY <2>3 DEF fail
    <3>2. Quits(next) BY <1>0, <3>1 DEF Unstarted
    <3> HIDE DEF next, Quits
    <3>3. QED BY <2>1, <3>1, <3>2
  <2>4. CASE leave(p)
    <3> DEFINE next == [t EXCEPT !.pc = "ending", !.result = None]
    <3>1. Stage(p, next) /\ t.pc = "running" BY <2>4 DEF leave, Ready
    <3>2. Quits(next) BY <1>0, <3>1 DEF Unstarted
    <3> HIDE DEF next, Quits
    <3>3. QED BY <2>1, <3>1, <3>2
  <2>5. QED BY <1>10, <2>2, <2>3, <2>4
<1>11. CASE save_end(p)
  <2> DEFINE doc == [t EXCEPT !.pc = "closing"]
             next == [doc EXCEPT !.write = "state"]
  <2>1. Truncate(p, "state", doc) /\ t.pc = "ending" BY <1>11 DEF save_end, Ready
  <2>2. turn' = [turn EXCEPT ![p] = next] /\ log' = log BY <2>1 DEF Truncate
  <2>3. /\ DOMAIN next = DOMAIN Unstarted /\ next.call = t.call /\ next.session = t.session /\ next.doc = t.doc
        /\ next.pc = "closing" /\ next.envelope = t.envelope /\ next.tools = t.tools /\ next.result = t.result
        /\ next.write = "state"
    BY <1>0 DEF Unstarted
  <2> HIDE DEF next
  <2>4. Live(p) /\ t.envelope = None BY <1>0, <2>1 DEF Live, Halted
  <2>5. Sound(next) BY <1>0, <2>3, <2>4 DEF Sound
  <2>6. Abides(t, next) BY <2>1, <2>3, <2>4 DEF Abides, Heard, AtCall, Closed
  <2>7. LeavesBe(p) BY <2>1, <2>2, <2>3, <2>4, <2>5, <2>6, Leaves
  <2>8. QED BY <2>7 DEF Telling
<1>12. CASE close(p)
  <2> DEFINE next == [t EXCEPT !.pc = IF t.result = None THEN "exited" ELSE "saved"]
  <2>1. /\ DOMAIN next = DOMAIN Unstarted /\ next.call = t.call /\ next.session = t.session /\ next.doc = t.doc
        /\ next.envelope = t.envelope /\ next.tools = t.tools /\ next.result = t.result /\ next.write = t.write
        /\ next.pc \in {"exited", "saved"} /\ (next.pc = "saved" => t.result # None)
    BY <1>0 DEF Unstarted
  <2>2. Stage(p, next) /\ t.pc = "closing" BY <1>12 DEF close, Ready
  <2> HIDE DEF next
  <2>3. turn' = [turn EXCEPT ![p] = next] /\ log' = log BY <2>2 DEF Stage
  <2>4. Live(p) /\ t.envelope = None BY <1>0, <2>2 DEF Live, Halted
  <2>5. Sound(next) BY <1>0, <2>1, <2>4 DEF Sound, Rewrites
  <2>6. Abides(t, next) BY <2>1, <2>2, <2>4 DEF Abides, Heard, AtCall, Closed
  <2>7. LeavesBe(p) BY <2>1, <2>2, <2>3, <2>4, <2>5, <2>6, Leaves
  <2>8. QED BY <2>7 DEF Telling
<1>13. CASE record_result(p)
  <2> DEFINE next == [t EXCEPT !.pc = "recorded"]
  <2>1. /\ DOMAIN next = DOMAIN Unstarted /\ next.call = t.call /\ next.session = t.session /\ next.doc = t.doc
        /\ next.pc = "recorded" /\ next.envelope = t.envelope /\ next.tools = t.tools /\ next.result = t.result
        /\ next.write = t.write
    BY <1>0 DEF Unstarted
  <2>2. Record(p, Entry(p, t.result, 0), next) /\ t.pc = "saved" /\ t.write = None BY <1>13 DEF record_result, Ready
  <2> HIDE DEF next
  <2>3. /\ Utters(t, next, t.result, 0) /\ t.result \in Words /\ t.envelope = None
        /\ t.tools \in Nat /\ t.result \in Results \cup {None}
    BY <1>0, <2>1, <2>2 DEF Utters, Words, Sound
  <2>4. QED BY <1>0, <2>1, <2>2, <2>3, RecordTells
<1>14. CASE render(p)
  <2> DEFINE next == [t EXCEPT !.pc = IF t.call.hooks THEN "rendered" ELSE "exited", !.envelope = Envelope(t)]
  <2>1. /\ DOMAIN next = DOMAIN Unstarted /\ next.call = t.call /\ next.session = t.session /\ next.doc = t.doc
        /\ next.envelope = Envelope(t) /\ next.tools = t.tools /\ next.result = t.result /\ next.write = t.write
        /\ next.pc \in {"exited", "rendered"}
    BY <1>0 DEF Unstarted
  <2>2. Stage(p, next) /\ t.pc = "recorded" BY <1>14 DEF render, Ready
  <2> HIDE DEF next
  <2>3. turn' = [turn EXCEPT ![p] = next] /\ log' = log BY <2>2 DEF Stage
  <2>4. Live(p) /\ Envelope(t).result = t.result BY <2>2 DEF Live, Halted, Envelope
  <2>5. Sound(next) BY <1>0, <2>1, <2>4 DEF Sound, Rewrites
  <2>6. Abides(t, next) BY <2>1, <2>2 DEF Abides, Heard, AtCall, Closed
  <2>7. LeavesBe(p) BY <2>1, <2>2, <2>3, <2>4, <2>5, <2>6, Leaves
  <2>8. QED BY <2>7 DEF Telling
<1>15. ASSUME NEW pc \in {"exited", "killed"}, Stage(p, [t EXCEPT !.pc = pc]), Live(p) PROVE Telling(p)
  <2> DEFINE next == [t EXCEPT !.pc = pc]
  <2>1. /\ DOMAIN next = DOMAIN Unstarted /\ next.call = t.call /\ next.session = t.session /\ next.doc = t.doc
        /\ next.envelope = t.envelope /\ next.tools = t.tools /\ next.result = t.result /\ next.write = t.write
        /\ next.pc = pc
    BY <1>0 DEF Unstarted
  <2>2. turn' = [turn EXCEPT ![p] = next] /\ log' = log BY <1>15 DEF Stage
  <2> HIDE DEF next
  <2>3. Sound(next) BY <1>0, <2>1 DEF Sound, Rewrites
  <2>4. Heard(next) => Abides(t, next) BY <1>0, <2>1 DEF Abides, Heard, AtCall, Closed
  <2>5. LeavesBe(p) BY <1>15, <2>1, <2>2, <2>3, <2>4, Leaves DEF Halted
  <2>6. QED BY <2>5 DEF Telling
<1>16. CASE flush(p)
  <2> DEFINE next == [t EXCEPT !.write = None]
  <2>1. /\ DOMAIN next = DOMAIN Unstarted /\ next.call = t.call /\ next.session = t.session /\ next.doc = t.doc
        /\ next.envelope = t.envelope /\ next.tools = t.tools /\ next.result = t.result /\ next.write = None
        /\ next.pc = t.pc
    BY <1>0 DEF Unstarted
  <2>2. /\ turn' = [turn EXCEPT ![p] = next] /\ Live(p) /\ t.write # None
        /\ log' = IF t.write = "export" THEN [log EXCEPT ![Path(t)] = t.doc] ELSE log
    BY <1>0, <1>16 DEF flush
  <2> HIDE DEF next
  <2>3. t.envelope = None /\ t.pc \notin {"start", "opened"} BY <1>0, <2>2
  <2>4. CASE t.write = "export"
    <3>1. turn'[p] = next /\ Moves(p) BY <1>0, <2>1, <2>2, <2>4 DEF Moves
    <3>2. Rewrites(t) BY <1>0, <2>4 DEF Sound
    <3>3. Stores(p) BY <2>1, <2>2, <2>3, <2>4, <3>1, <3>2 DEF Stores, SameTale, SameTurn
    <3>4. QED BY <3>3 DEF Telling
  <2>5. CASE t.write # "export"
    <3>1. Sound(next) BY <1>0, <1>01, <2>1 DEF Sound
    <3>2. Abides(t, next) \/ ~Heard(next) BY <2>1 DEF Abides, Heard, AtCall, Closed
    <3>3. LeavesBe(p) BY <2>1, <2>2, <2>3, <2>5, <3>1, <3>2, Leaves
    <3>4. QED BY <3>3 DEF Telling
  <2>6. QED BY <2>4, <2>5
<1>17. CASE on_session_end(p) BY <1>15, <1>17 DEF on_session_end, Ready, Live, Halted
<1>18. CASE kill(p) BY <1>15, <1>18 DEF kill
<1>19. QED BY <1>1, <1>2, <1>3, <1>4, <1>5, <1>6, <1>7, <1>8, <1>9, <1>10, <1>11, <1>12, <1>13,
              <1>14, <1>16, <1>17, <1>18 DEF Turn, Script

(* Before the first turn nothing is told.                                    *)
LEMMA TaleStarts == TurnInit => TaleInv
<1> SUFFICES ASSUME TurnInit PROVE TaleInv OBVIOUS
<1>1. /\ Unstarted.pc = "start" /\ Unstarted.envelope = None /\ Unstarted.doc = << >> /\ Unstarted.tools = 0
      /\ Unstarted.result = None /\ Unstarted.write = None
  BY DEF Unstarted
<1>2. /\ \A p \in Procs : turn[p] = Unstarted /\ ~Heard(turn[p]) /\ ~Live(p)
      /\ \A x \in Logs : log[x] = << >>
  BY <1>1 DEF TurnInit, Heard, Live
<1>3. << >> \in Texts /\ \A p : EntriesOf(<< >>, p) = {} BY DEF Texts, EntriesOf
<1>4. Sound(Unstarted) BY <1>1, <1>3, TurnAssumption DEF Sound
<1>5. Lined /\ Silence BY <1>1, <1>2, <1>3, <1>4 DEF Lined, Silence
<1>6. Appending /\ Rewriting /\ HandedOn BY <1>1, <1>2 DEF Appending, Rewriting, HandedOn, Writing
<1>7. QED BY <1>5, <1>6 DEF TaleInv

(* The transcript of a turn that printed its envelope tells that turn, from  *)
(* its message to its result, through every later write of the file.         *)
THEOREM TranscriptTells == TurnInit /\ [][TurnNext]_turnVars => []TranscriptTellsTurn
<1>1. TurnInv /\ TaleInv /\ TurnNext => TaleInv'
  <2> SUFFICES ASSUME TurnInv, TaleInv, NEW p \in Procs, Turn(p) PROVE TaleInv' BY DEF TurnNext
  <2> USE DEF TurnInv, TaleInv
  <2>1. Telling(p) BY TurnTells
  <2>2. QED BY <2>1, LinedSteps, SilenceSteps, AppendingSteps, RewritingSteps, HandedSteps
<1>2. TaleInv /\ UNCHANGED turnVars => TaleInv'
  BY DEF TaleInv, turnVars, Lined, Silence, Unheard, Appending, Rewriting, Writing, Live, HandedOn, Handed
<1>3. TurnInv /\ TaleInv => TranscriptTellsTurn
  <2> SUFFICES ASSUME TurnInv, TaleInv, NEW p \in Procs, turn[p].envelope # None, Transcribes(turn[p]),
                      log[Path(turn[p])] # Torn, Appends(turn[p]) \/ turn[p].session \notin Overlapped
               PROVE  LET t == turn[p]
                          told == log[Path(t)]
                      IN  /\ OpensWith(told, p, "user") /\ ClosesWith(told, p, t.envelope.result)
                          /\ t.envelope.result # "error" => CallsAnswered(told, p)
    BY DEF TranscriptTellsTurn
  <2> DEFINE t == turn[p]
             told == log[Path(t)]
  <2>1. t.pc # "calling" /\ t.envelope.result = t.result
    BY DEF TurnInv, SavedIsFile, TaleInv, Lined, Sound
  <2>2. Heard(t) /\ Closed(t) /\ AtCall(t) = {} BY <2>1 DEF Heard, Closed, AtCall
  <2>3. Tale(t, p, told) BY <2>2 DEF TaleInv, Appending, HandedOn, Handed, Transcribes
  <2>4. t.result # "error" => CallsAnswered(told, p)
    BY <2>2, <2>3 DEF Tale, Answered, CallsAnswered, Opener
  <2>5. QED BY <2>1, <2>2, <2>3, <2>4 DEF Tale
<1>4. QED BY <1>1, <1>2, <1>3, TaleStarts, TurnInvariant, PTL
==============================================================================
