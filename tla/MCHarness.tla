------------------------------ MODULE MCHarness ------------------------------
(* TLC instance of the exec-engine turns (HarnessTurn) and of the Codex      *)
(* app-server (CodexAuth).  The two share nothing: a behaviour is of one or  *)
(* of the other, so that their states add up instead of multiplying.         *)
EXTENDS HarnessTurn, CodexAuth, TLC

CONSTANTS t1, t2, s1, s2, s3, solo, exported, shared

Call(facade, kind, session, prompt, lease, uses) ==
    [facade |-> facade, kind |-> kind, session |-> session, prompt |-> prompt,
     fence |-> {"variable", "marker"},
     lease |-> lease, hooks |-> (facade = "claude"), uses |-> uses]

(* Three named sessions: a Claude Code one, spawned as a selftest or for a   *)
(* lease and resumed with and without one; an OpenCode one, only ever        *)
(* resumed; and a Claude Code one that two turns work on at once.  And       *)
(* self-minted sessions, malformed prompts and a refusal by the fence.       *)
MCCalls ==
    {Call("claude", "spawn", solo, "plain", "selftest", {}),
     Call("claude", "spawn", solo, "tagged", "lease", {"tool", "verdict", "ask", "usage_limited", "exit"}),
     Call("claude", "resume", solo, "plain", None, {"verdict"}),
     Call("claude", "resume", solo, "plain", "lease", {"ask"}),
     Call("opencode", "resume", exported, "tagged", None, {"tool", "ask"}),
     Call("claude", "resume", shared, "tagged", None, {"tool"}),
     Call("opencode", "spawn", None, "badtag", None, {}),
     Call("codex", "last", None, "tagged", None, {"verdict"}),
     Call("direct", "spawn", None, "empty", None, {}),
     [Call("claude", "resume", solo, "plain", None, {}) EXCEPT !.fence = {"marker"}]}

Asleep == turn = [p \in Procs |-> [Unstarted EXCEPT !.pc = "exited"]]
Unserved == server = [p \in Servers |-> [Free EXCEPT !.pc = "dead"]]
MCInit ==
    \/ TurnInit /\ Unserved /\ auth = Unreadable /\ audit = << >> /\ lock = {} /\ issued = 0
    \/ /\ Asleep /\ file = [s \in Ids |-> None] /\ log = [l \in Logs |-> << >>]
       /\ tracked = {} /\ sent = {} /\ AuthInit
(* Turns of different sessions touch different files and commute: only turns *)
(* of one session run at the same time.                                      *)
OneSession == \A p, q \in Procs : Live(p)' /\ Live(q)' => turn'[p].session = turn'[q].session
MCNext == (TurnNext /\ OneSession /\ UNCHANGED authVars) \/ (AuthNext /\ UNCHANGED turnVars)
Symmetry == Permutations(Procs) \cup Permutations(Servers)
MCSpec == MCInit /\ [][MCNext]_<<turnVars, authVars>>
==============================================================================
