------------------------------ MODULE CodexAuth ------------------------------
(* mock-codex app-server: processes that answer account/read over one Codex  *)
(* home.  A refreshing read rotates the tokens of auth.json: it takes the    *)
(* lock file's flock, reads, writes a temporary file, renames it over the    *)
(* target and appends a digest of what it wrote to the audit log.  A plain   *)
(* read takes no lock.  A process that dies drops its lock with it.          *)
(*                                                                           *)
(* A generation of tokens is a number; a file's digest is its content.       *)
EXTENDS Integers, Sequences, SequencesExt, FiniteSets

CONSTANTS
    Servers,        \* app-server processes on one Codex home
    MaxGeneration,  \* bound: tokens ever issued
    Unreadable      \* auth.json missing, not JSON, or without tokens

ASSUME GenerationAssumption == MaxGeneration \in Nat
ASSUME UnreadableAssumption == Unreadable \notin [gen : Nat, prev : Nat]

VARIABLES
    auth,       \* the content of auth.json: [gen, prev], or Unreadable
    audit,      \* the audit log: the contents rotations wrote
    lock,       \* the processes holding the flock
    server,     \* per process: pc, what it read, what it wrote
    issued      \* generations issued

authVars == <<auth, audit, lock, server, issued>>

Free == [pc |-> "idle", read |-> Unreadable, wrote |-> Unreadable]
At(p, pc) == server[p].pc = pc

(* flock(LOCK_EX): granted when nobody else holds it.                        *)
Grantable(p) == lock = {}
acquire(p) ==
    /\ At(p, "idle") /\ Grantable(p)
    /\ lock' = lock \cup {p} /\ server' = [server EXCEPT ![p].pc = "locked"]
    /\ UNCHANGED <<auth, audit, issued>>
(* An unreadable file, or one without tokens, answers no account and         *)
(* rotates nothing.                                                          *)
MutReadBeforeLock(p) == IF server[p].read # Unreadable THEN server[p].read ELSE auth
ReadUnderLock(p) == auth
read_locked(p) ==
    /\ At(p, "locked")
    /\ server' = [server EXCEPT ![p].pc = IF auth = Unreadable THEN "done" ELSE "read",
                                ![p].read = ReadUnderLock(p)]
    /\ UNCHANGED <<auth, audit, lock, issued>>
replace(p) ==
    LET written == [gen |-> issued + 1, prev |-> server[p].read.gen] IN
    /\ At(p, "read") /\ issued < MaxGeneration
    /\ issued' = issued + 1 /\ auth' = written
    /\ server' = [server EXCEPT ![p].pc = "replaced", ![p].wrote = written]
    /\ UNCHANGED <<audit, lock>>
Logged(p) == server[p].wrote
append_audit(p) ==
    /\ At(p, "replaced")
    /\ audit' = Append(audit, Logged(p)) /\ server' = [server EXCEPT ![p].pc = "done"]
    /\ UNCHANGED <<auth, lock, issued>>
release(p) ==
    /\ At(p, "done")
    /\ lock' = lock \ {p} /\ server' = [server EXCEPT ![p] = Free]
    /\ UNCHANGED <<auth, audit, issued>>
(* account/read without a refresh: whatever the file holds, lock or not.     *)
read_account(p) ==
    /\ At(p, "idle") /\ server[p].read # auth
    /\ server' = [server EXCEPT ![p].read = auth]
    /\ UNCHANGED <<auth, audit, lock, issued>>
die(p) ==
    /\ ~At(p, "idle") /\ ~At(p, "dead")
    /\ lock' = lock \ {p} /\ server' = [server EXCEPT ![p].pc = "dead"]
    /\ UNCHANGED <<auth, audit, issued>>

AuthInit ==
    /\ auth \in {Unreadable, [gen |-> 0, prev |-> 0]}
    /\ audit = << >> /\ lock = {} /\ issued = 0 /\ server = [p \in Servers |-> Free]
Serve(p) ==
    \/ acquire(p) \/ read_locked(p) \/ replace(p) \/ append_audit(p) \/ release(p)
    \/ read_account(p) \/ die(p)
AuthNext == \E p \in Servers : Serve(p)
AuthSpec == AuthInit /\ [][AuthNext]_authVars
------------------------------------------------------------------------------
(* No rotation is lost: every content rests on the one that stood when it    *)
(* was written, so the log's generations follow each other, apart from a     *)
(* content whose writer died before it could log it.                         *)
Unlogged == {server[p].wrote.gen : p \in {q \in Servers :
                 At(q, "dead") /\ server[q].wrote \notin {Unreadable} \cup Range(audit)}}
RotationsChain ==
    \A i \in DOMAIN audit :
        audit[i].prev \in Unlogged \cup {IF i = 1 THEN 0 ELSE audit[i - 1].gen}

(* Once no one holds the lock, the file is what the last audit line digests, *)
(* unless the writer of what the file holds died between the rename and the  *)
(* line.                                                                     *)
LastLineIsTheFile ==
    lock = {} /\ issued > 0 =>
        \/ audit # << >> /\ auth = Last(audit)
        \/ auth.gen \in Unlogged

(* The audit log tells the file's history, up to the writers that died.      *)
AuditTellsFile == RotationsChain /\ LastLineIsTheFile
==============================================================================
