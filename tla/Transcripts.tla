----------------------------- MODULE Transcripts -----------------------------
(* The hub's transcript lane: ingest_transcripts and its read-back.  It has  *)
(* a mark of its own per runner, beside the fact lane's, and keeps records   *)
(* by their natural key.  A record may be capped, by its own size or by what *)
(* its chunk has room for, and is refused while another runner owns its      *)
(* epoch; the owner is the first runner whose lease.minted reached the hub,  *)
(* by the other lane, so it may come late.  Pushes of different runners are  *)
(* served at once, one record at a time; a runner pushes one batch at a time *)
(* and re-sends what it was not answered for.  One tenant's slice: every key *)
(* of the lane carries the tenant.                                           *)
EXTENDS Integers, Sequences, FiniteSets, FiniteSetsExt

CONSTANTS
    Runners,
    Outbox,         \* Outbox[r]: the records r ships, in order of seq:
                    \* key [segment, start], lease [chunk, node, epoch], size, supersedes
    RecordMax,      \* TRANSCRIPT_RECORD_MAX_BYTES
    ChunkBudget,    \* _TRANSCRIPT_CHUNK_BUDGET_MAX_BYTES
    Nobody, Nothing

(* Records are numbered from 1 and sized in bytes; Nothing is no verdict.    *)
Verdicts == {"applied", "already_applied", "capped", "refused"}
ASSUME OutboxAssumption ==
    /\ \A r \in Runners : /\ DOMAIN Outbox[r] = 1 .. Len(Outbox[r]) /\ Len(Outbox[r]) \in Nat
                          /\ \A n \in DOMAIN Outbox[r] : Outbox[r][n].size \in Nat
    /\ RecordMax \in Nat /\ ChunkBudget \in Nat
    /\ Nothing \notin Verdicts \cup {"accepted", "rejected"}

VARIABLES
    lane_mark,      \* _transcript_high_water
    epoch_owner,    \* _epoch_owners: [chunk, epoch] -> runner
    key_state,      \* _transcript_key_state and _transcript_rejected
    key_owner,      \* _transcript_owners: the lease and the runner a key was shipped for
    chunk_bytes,    \* _transcript_chunk_bytes
    segments,       \* _transcript_segments: the records retained, per lease
    push,           \* per runner, the push being served: its records left and its mark
    answered,       \* the runner: records up to this seq were answered
    told            \* history: the hub's last answer to each record, heard or not

laneVars == <<lane_mark, epoch_owner, key_state, key_owner, chunk_bytes, segments, push, answered, told>>

Shipped == UNION {{Outbox[r][n] : n \in DOMAIN Outbox[r]} : r \in Runners}
Leases == {rec.lease : rec \in Shipped}
Keys == {rec.key : rec \in Shipped}
Chunks == {l.chunk : l \in Leases}
Attempt(lease) == [chunk |-> lease.chunk, epoch |-> lease.epoch]
Attempts == {Attempt(l) : l \in Leases}
Idle == [left |-> {}, mark |-> 0, top |-> 0, open |-> FALSE]

Empty(r) == [n \in DOMAIN Outbox[r] |-> Nothing]
LaneInit ==
    /\ lane_mark = [r \in Runners |-> 0]
    /\ epoch_owner = [a \in Attempts |-> Nobody]
    /\ key_state = [k \in Keys |-> Nothing]
    /\ key_owner = [k \in Keys |-> Nothing]
    /\ chunk_bytes = [c \in Chunks |-> 0]
    /\ segments = [l \in Leases |-> {}]
    /\ push = [r \in Runners |-> Idle]
    /\ answered = [r \in Runners |-> 0]
    /\ told = [r \in Runners |-> Empty(r)]

------------------------------------------------------------------------------
ships_from_lease_holder(owner, r) == owner \in {Nobody, r}

(* _advance_fence, for the lane: the first to mint an epoch owns it.         *)
MutLastMinterOwns(a, r) == r
FirstMinter(a, r) == IF epoch_owner[a] = Nobody THEN r ELSE epoch_owner[a]
MintLease(r, a) ==
    /\ epoch_owner' = [epoch_owner EXCEPT ![a] = FirstMinter(a, r)]
    /\ UNCHANGED <<lane_mark, key_state, key_owner, chunk_bytes, segments, push, answered, told>>

(* A push reads the mark; its records are taken in order of seq.             *)
BeginPush(r, lo, hi) ==
    /\ ~push[r].open /\ lo <= answered[r] + 1 /\ lo <= hi
    /\ push' = [push EXCEPT ![r] = [left |-> lo .. hi, mark |-> lane_mark[r], top |-> hi, open |-> TRUE]]
    /\ UNCHANGED <<lane_mark, epoch_owner, key_state, key_owner, chunk_bytes, segments, answered, told>>
Serving(r, n) == push[r].open /\ n \in push[r].left /\ \A m \in push[r].left : n <= m
Admitted(r, n) == ships_from_lease_holder(epoch_owner[Attempt(Outbox[r][n].lease)], r)
MarkPast(p, n) == IF n > p.mark THEN n ELSE p.mark

Answer(r, n, what) ==
    /\ push' = [push EXCEPT ![r].left = @ \ {n}, ![r].mark = MarkPast(push[r], n)]
    /\ told' = [told EXCEPT ![r][n] = what]
Kept == <<key_state, key_owner, chunk_bytes, segments>>

RefuseRecord(r, n) ==
    /\ Serving(r, n) /\ ~Admitted(r, n)
    /\ Answer(r, n, "refused")
    /\ UNCHANGED <<lane_mark, epoch_owner, Kept, answered>>
ReplayRecord(r, n) ==
    /\ Serving(r, n) /\ Admitted(r, n) /\ n <= push[r].mark
    /\ Answer(r, n, IF key_state[Outbox[r][n].key] = "rejected" THEN "capped" ELSE "already_applied")
    /\ UNCHANGED <<lane_mark, epoch_owner, Kept, answered>>

(* A record the mark has not passed: a key accepted before is not looked at  *)
(* again, a rejected one is.                                                 *)
Deciding(r, n) == Serving(r, n) /\ Admitted(r, n) /\ n > push[r].mark
MutNeverKnown(k) == FALSE
Known(k) == key_state[k] = "accepted"
Over(rec) == rec.size > RecordMax \/ chunk_bytes[rec.lease.chunk] + rec.size > ChunkBudget
KnownRecord(r, n) ==
    /\ Deciding(r, n) /\ Known(Outbox[r][n].key)
    /\ Answer(r, n, "applied")
    /\ UNCHANGED <<lane_mark, epoch_owner, Kept, answered>>
MutFirstOwnerStays(r, rec) ==
    IF key_owner[rec.key] = Nothing THEN [lease |-> rec.lease, runner |-> r, rec |-> rec]
    ELSE key_owner[rec.key]
OwnedBy(r, rec) == [lease |-> rec.lease, runner |-> r, rec |-> rec]
CapRecord(r, n) ==
    LET rec == Outbox[r][n] IN
    /\ Deciding(r, n) /\ ~Known(rec.key) /\ Over(rec)
    /\ key_owner' = [key_owner EXCEPT ![rec.key] = OwnedBy(r, rec)]
    /\ key_state' = [key_state EXCEPT ![rec.key] = "rejected"]
    /\ Answer(r, n, "capped")
    /\ UNCHANGED <<lane_mark, epoch_owner, chunk_bytes, segments, answered>>
AcceptRecord(r, n) ==
    LET rec == Outbox[r][n] IN
    /\ Deciding(r, n) /\ ~Known(rec.key) /\ ~Over(rec)
    /\ key_owner' = [key_owner EXCEPT ![rec.key] = OwnedBy(r, rec)]
    /\ key_state' = [key_state EXCEPT ![rec.key] = "accepted"]
    /\ chunk_bytes' = [chunk_bytes EXCEPT ![rec.lease.chunk] = @ + rec.size]
    /\ segments' = [segments EXCEPT ![rec.lease] = {old \in @ : old.key # rec.key} \cup {rec}]
    /\ Answer(r, n, "applied")
    /\ UNCHANGED <<lane_mark, epoch_owner, answered>>

(* The mark is written and the partition answered, unless the answer is lost. *)
EndPush(r, heard) ==
    /\ push[r].open /\ push[r].left = {}
    /\ lane_mark' = [lane_mark EXCEPT ![r] = push[r].mark]
    /\ push' = [push EXCEPT ![r] = Idle]
    /\ answered' = [answered EXCEPT ![r] = IF heard /\ push[r].top > @ THEN push[r].top ELSE @]
    /\ UNCHANGED <<epoch_owner, Kept, told>>

(* POST /_seed/reset, between pushes; the runners start over with it.        *)
ResetLane ==
    /\ \A r \in Runners : ~push[r].open
    /\ lane_mark' = [r \in Runners |-> 0] /\ epoch_owner' = [a \in Attempts |-> Nobody]
    /\ key_state' = [k \in Keys |-> Nothing] /\ key_owner' = [k \in Keys |-> Nothing]
    /\ chunk_bytes' = [c \in Chunks |-> 0] /\ segments' = [l \in Leases |-> {}]
    /\ answered' = [r \in Runners |-> 0] /\ told' = [r \in Runners |-> Empty(r)]
    /\ UNCHANGED push

LaneNext ==
    \/ \E r \in Runners :
        \/ \E a \in Attempts : MintLease(r, a)
        \/ \E lo, hi \in DOMAIN Outbox[r] : BeginPush(r, lo, hi)
        \/ \E n \in DOMAIN Outbox[r] :
             RefuseRecord(r, n) \/ ReplayRecord(r, n) \/ KnownRecord(r, n) \/ CapRecord(r, n) \/ AcceptRecord(r, n)
        \/ \E heard \in BOOLEAN : EndPush(r, heard)
    \/ ResetLane

LaneSpec == LaneInit /\ [][LaneNext]_laneVars

------------------------------------------------------------------------------
(* lease_transcript: what a lease reads back as.  A superseded segment is    *)
(* not shown, and a capped record that is not superseded makes it truncated. *)
RejectedOf(l) == {key_owner[k].rec : k \in {x \in Keys : key_state[x] = "rejected" /\ key_owner[x].lease = l}}
Superseded(l) == {rec.supersedes : rec \in segments[l] \cup RejectedOf(l)}
Visible(l) == {rec \in segments[l] : rec.key.segment \notin Superseded(l)}
Truncated(l) == \E rec \in RejectedOf(l) : rec.key.segment \notin Superseded(l)

(* The lane's bytes are those of the records it keeps: a chunk is charged    *)
(* for each record once, however often it is re-sent or re-offered under a   *)
(* new seq, and never past its budget.                                       *)
RecordsOf(c) == UNION {segments[l] : l \in {x \in Leases : x.chunk = c}}
BytesAccounted ==
    \A c \in Chunks :
        /\ chunk_bytes[c] = FoldSet(LAMBDA rec, sum : rec.size + sum, 0, RecordsOf(c))
        /\ chunk_bytes[c] <= ChunkBudget
        /\ \A x, y \in RecordsOf(c) : x.key = y.key => x = y

(* What a runner was told of a record is true of the store: applied ones are *)
(* kept under their key, capped ones are on file as such (or were accepted   *)
(* since under their key), also when the answer came to a replay.            *)
ToldIsStored ==
    \A r \in Runners : \A n \in DOMAIN Outbox[r] :
        LET k == Outbox[r][n].key IN
        /\ told[r][n] \in {"applied", "already_applied"} => key_state[k] = "accepted"
        /\ told[r][n] = "capped" => key_state[k] \in {"rejected", "accepted"}

(* A lease reads back whole or says that it is not: every record a runner    *)
(* was told of, and none superseded, is shown, or its lease is truncated.    *)
ReadsBackWhole ==
    \A r \in Runners : \A n \in DOMAIN Outbox[r] :
        LET k == Outbox[r][n].key
            l == key_owner[k].lease
        IN  told[r][n] \in {"applied", "already_applied", "capped"} /\ k.segment \notin Superseded(l)
              => Truncated(l) \/ \E rec \in Visible(l) : rec.key = k

(* The lane's answers are true, at once and when the lease is read.          *)
AnswersAreTrue == ToldIsStored /\ ReadsBackWhole

(* Once an attempt has an owner it keeps it, and no other runner's record    *)
(* enters the attempt's leases any more, new, re-sent or re-offered.         *)
OwnerForLife ==
    [][\/ \A a \in Attempts : epoch_owner'[a] = Nobody       \* a reset, or nobody minted yet
       \/ \A a \in {x \in Attempts : epoch_owner[x] # Nobody} :
            /\ epoch_owner'[a] = epoch_owner[a]
            /\ \A k \in Keys : key_owner'[k] # key_owner[k] /\ Attempt(key_owner'[k].lease) = a
                                => key_owner'[k].runner = epoch_owner[a]]_laneVars
==============================================================================
