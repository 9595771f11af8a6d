----------------------------- MODULE HarnessTurn -----------------------------
(* The exec-engine harnesses: mock Claude Code, Codex and OpenCode 1.  One   *)
(* process runs one turn (run_prompt): it opens the session's state file,    *)
(* records the turn there and in the facade's transcript, executes the       *)
(* behaviour script its prompt carries, saves, and prints one envelope.      *)
(* Nothing but files ties two turns of a session together.  A whole-file     *)
(* write truncates the file and then fills it: another process may look in   *)
(* between, and a process may be killed there.                               *)
(*                                                                           *)
(* A process stands for what is its own: its prompt's message, its ask, its  *)
(* verdict, its spawn credential, and the id of the session it mints.        *)
EXTENDS Integers, Sequences, SequencesExt, FiniteSets

CONSTANTS
    Procs,      \* turns: processes that run once
    Sessions,   \* session ids a caller may name
    Overlapped, \* the sessions two live processes may work on at once
    TurnCalls,  \* the invocations: facade, kind, session, fence, prompt, lease, hooks,
                \* and the helpers its script uses, each once but for tool calls
    MaxTools,   \* bound: tool calls of one turn
    None, Torn

SessionRow == [turns : Nat, invocations : Seq(Procs), resumes : Seq(Procs), asks : Seq(Procs),
               verdicts : Seq(Procs), selftest : BOOLEAN, cred : Procs \cup {None}]

(* A caller names a session or none; an absent or torn file is no session.   *)
ASSUME TurnAssumption ==
    /\ Overlapped \subseteq Sessions
    /\ \A c \in TurnCalls : c.session \in Sessions \cup {None}
    /\ None # Torn /\ None \notin SessionRow /\ Torn \notin SessionRow
    /\ None \notin {"state", "export", "error"}

VARIABLES
    file,       \* per session, the state file's content
    log,        \* per facade that keeps one and session, the transcript
    tracked,    \* the sessions whose worktree carries the committed selftest file
    sent,       \* the turns whose ask went out through the runner's ask command
    turn        \* per process, its turn

turnVars == <<file, log, tracked, sent, turn>>

Ids == Sessions \cup Procs
Logs == {"claude", "opencode"} \X Ids
NewSession == [turns |-> 0, invocations |-> << >>, resumes |-> << >>, asks |-> << >>,
               verdicts |-> << >>, selftest |-> FALSE, cred |-> None]
Unstarted == [pc |-> "start", call |-> None, session |-> None, mem |-> NewSession, doc |-> << >>,
              write |-> None, program |-> None, tools |-> 0, result |-> None, envelope |-> None]

Halted == {"exited", "killed", "died"}
Live(p) == turn[p].pc \notin Halted \cup {"start"}
Ready(p, pc) == turn[p].pc = pc /\ turn[p].write = None

------------------------------------------------------------------------------
(* The facades.  Claude Code's transcript is appended to when the session id *)
(* is known beforehand; OpenCode's is one document, rewritten whole by each  *)
(* record; Codex and direct use keep none.  Each has a directory of its own. *)
Appends(t) == t.call.facade = "claude" /\ t.call.session # None
Rewrites(t) == t.call.facade = "opencode"
Transcribes(t) == Appends(t) \/ Rewrites(t)
Path(t) == <<t.call.facade, t.session>>

(* codex exec --last names no session: it is dispatched as a fresh spawn.    *)
IsResume(c) == c.kind = "resume" /\ c.session # None
SessionOf(p, c) == IF c.session # None THEN c.session ELSE p

(* Which program a prompt carries: a malformed tag or an empty whole message *)
(* fails the turn; a selftest session answers an untagged prompt itself.     *)
Program(c, selftest) ==
    IF selftest /\ c.prompt # "tagged" THEN IF IsResume(c) THEN "judge" ELSE "probe"
    ELSE IF c.prompt \in {"badtag", "empty"} THEN "error" ELSE "script"

Credential(p, c) == IF c.lease = None THEN None ELSE p
Resumed(p, c, state) ==
    [state EXCEPT !.resumes = Append(@, p),
                  !.cred = IF c.lease # None THEN Credential(p, c) ELSE @]
Spawned(p, c, state) == [state EXCEPT !.selftest = (c.lease = "selftest"), !.cred = Credential(p, c)]
MutAlwaysCreates(content) == NewSession
LoadOrCreate(content) == IF content = None THEN NewSession ELSE content

------------------------------------------------------------------------------
(* Test scaffolding marks the environment twice, and both marks are needed.  *)
Fenced(c) == c.fence = {"variable", "marker"}

(* A process starts: the fence is asserted before anything is read, and the  *)
(* session file is loaded; a torn one raises out of the turn.                *)
launch(p, c) ==
    LET s == SessionOf(p, c)
        start == [Unstarted EXCEPT !.call = c, !.session = s]
        state == IF IsResume(c) THEN Resumed(p, c, LoadOrCreate(file[s]))
                 ELSE Spawned(p, c, LoadOrCreate(file[s]))
    IN  /\ turn[p].pc = "start"
        /\ s \notin Overlapped => \A q \in Procs : Live(q) => turn[q].session # s
        /\ turn' = [turn EXCEPT ![p] =
                CASE ~Fenced(c) -> [start EXCEPT !.pc = "exited"]
                  [] Fenced(c) /\ file[s] = Torn -> [start EXCEPT !.pc = "died"]
                  [] OTHER -> [start EXCEPT !.pc = "opened", !.mem = state,
                                            !.program = Program(c, state.selftest)]]
        /\ UNCHANGED <<file, log, tracked, sent>>

(* A whole-file write, its two halves: the file is truncated, then filled    *)
(* with what the process holds.                                              *)
Truncate(p, name, next) ==
    /\ turn' = [turn EXCEPT ![p] = [next EXCEPT !.write = name]]
    /\ file' = IF name = "state" THEN [file EXCEPT ![next.session] = Torn] ELSE file
    /\ log' = IF name = "export" THEN [log EXCEPT ![Path(next)] = Torn] ELSE log
flush(p) ==
    LET t == turn[p] IN
    /\ Live(p) /\ t.write # None
    /\ turn' = [turn EXCEPT ![p].write = None]
    /\ file' = IF t.write = "state" THEN [file EXCEPT ![t.session] = t.mem] ELSE file
    /\ log' = IF t.write = "export" THEN [log EXCEPT ![Path(t)] = t.doc] ELSE log
    /\ UNCHANGED <<tracked, sent>>

(* The transcript writer of an OpenCode turn is built on the session's       *)
(* document; then the turn counts itself and saves.                          *)
MutOpensEmptyDocument(content) == << >>
OpenDocument(content) == content
Counted(p, state) == [state EXCEPT !.turns = @ + 1, !.invocations = Append(@, p)]
begin_turn(p) ==
    LET t == turn[p]
        counted == Counted(p, t.mem)
    IN  /\ Ready(p, "opened")
        /\ IF Rewrites(t) /\ log[Path(t)] = Torn
           THEN turn' = [turn EXCEPT ![p].pc = "died"] /\ UNCHANGED <<file, log>>
           ELSE Truncate(p, "state",
                    [t EXCEPT !.pc = "begun", !.mem = counted,
                              !.doc = IF Rewrites(t) THEN OpenDocument(log[Path(t)]) ELSE @])
        /\ UNCHANGED <<tracked, sent>>

(* One record of the transcript: appended to the file, or to the document    *)
(* the process holds, which is then written whole.                           *)
Entry(p, what, n) == [by |-> p, what |-> what, n |-> n]
Record(p, entry, next) ==
    LET t == turn[p] IN
    CASE Rewrites(t) -> LET doc == Append(t.doc, entry)
                        IN  Truncate(p, "export", [next EXCEPT !.doc = doc])
      [] Appends(t) -> /\ log' = [log EXCEPT ![Path(t)] = Append(@, entry)]
                       /\ turn' = [turn EXCEPT ![p] = next] /\ UNCHANGED file
      [] OTHER -> turn' = [turn EXCEPT ![p] = next] /\ UNCHANGED <<file, log>>
record_user(p) ==
    /\ Ready(p, "begun")
    /\ Record(p, Entry(p, "user", 0), [turn[p] EXCEPT !.pc = "told"])
    /\ UNCHANGED <<tracked, sent>>

(* The script runs, or a malformed prompt fails the turn in its place.       *)
start_exec(p) ==
    /\ Ready(p, "told")
    /\ turn' = [turn EXCEPT ![p].result = IF turn[p].program = "error" THEN "error" ELSE @,
                            ![p].pc = IF turn[p].program = "error" THEN "ending" ELSE "running"]
    /\ UNCHANGED <<file, log, tracked, sent>>

------------------------------------------------------------------------------
(* What a running script may do.  A tool call is recorded, then its result;  *)
(* commit and apply_diff are tool calls whose git command ran first, and the *)
(* selftest's own script commits the file its judge looks for.               *)
Uses(p, helper) == turn[p].program = "script" /\ helper \in turn[p].call.uses
tool_call(p) ==
    LET t == turn[p] IN
    /\ Ready(p, "running") /\ (t.program = "probe" \/ Uses(p, "tool"))
    /\ t.tools < (IF t.program = "probe" THEN 1 ELSE MaxTools)
    /\ Record(p, Entry(p, IF Rewrites(t) THEN "pending" ELSE "call", t.tools + 1),
              [t EXCEPT !.pc = "calling", !.tools = @ + 1])
    /\ tracked' = IF t.program = "probe" THEN tracked \cup {t.session} ELSE tracked
    /\ UNCHANGED sent
Completed(doc, p, n) ==
    [i \in DOMAIN doc |-> IF doc[i] = Entry(p, "pending", n) THEN Entry(p, "completed", n) ELSE doc[i]]
tool_result(p) ==
    LET t == turn[p]
        doc == Completed(t.doc, p, t.tools)
    IN  /\ Ready(p, "calling")
        /\ IF Rewrites(t) THEN Truncate(p, "export", [t EXCEPT !.pc = "running", !.doc = doc])
           ELSE Record(p, Entry(p, "output", t.tools), [t EXCEPT !.pc = "running"])
        /\ UNCHANGED <<tracked, sent>>

Stage(p, t) == turn' = [turn EXCEPT ![p] = t] /\ UNCHANGED <<file, log, tracked, sent>>
verdict(p) ==
    /\ Ready(p, "running") /\ Uses(p, "verdict") /\ p \notin Range(turn[p].mem.verdicts)
    /\ Stage(p, [turn[p] EXCEPT !.mem.verdicts = Append(@, p), !.result = "success"])
judge(p) ==
    /\ Ready(p, "running") /\ turn[p].program = "judge" /\ turn[p].result = None
    /\ Stage(p, [turn[p] EXCEPT !.mem.verdicts = Append(@, p),
                                !.result = IF turn[p].session \in tracked THEN "pass" ELSE "fail"])
(* The usage limit record is Claude Code's; like every helper of one facade  *)
(* it raises under any other (fail).                                         *)
usage_limited(p) ==
    LET t == turn[p] IN
    /\ Ready(p, "running") /\ Uses(p, "usage_limited") /\ t.result = None /\ Appends(t)
    /\ Record(p, Entry(p, "limit", 0), [t EXCEPT !.result = "success"])
    /\ UNCHANGED <<tracked, sent>>
(* ask notes the ask on the session in memory, tells the runner, and unwinds *)
(* the script; a script that catches everything goes on after it.            *)
AskNoted(p, state) == [state EXCEPT !.asks = Append(@, p)]
ask(p) ==
    /\ Ready(p, "running") /\ Uses(p, "ask") /\ p \notin sent
    /\ \E next \in {"ending", "running"} :
         turn' = [turn EXCEPT ![p] = [turn[p] EXCEPT !.mem = AskNoted(p, @), !.result = "ask", !.pc = next]]
    /\ sent' = sent \cup {p}
    /\ UNCHANGED <<file, log, tracked>>
(* The script ends; or it raises, crashes or is interrupted, which discards  *)
(* what it staged; or it exits the interpreter, which leaves no result.      *)
finish(p) ==
    LET t == turn[p] IN
    /\ Ready(p, "running") /\ (t.program = "judge" => t.result # None) /\ (t.program = "probe" => t.tools = 1)
    /\ Stage(p, [t EXCEPT !.pc = "ending", !.result = IF @ = None THEN "success" ELSE @])
fail(p) ==
    /\ turn[p].pc \in {"running", "calling"}      \* an interrupted write stays torn
    /\ Stage(p, [turn[p] EXCEPT !.pc = "ending", !.result = "error", !.write = None])
leave(p) ==
    /\ Ready(p, "running") /\ Uses(p, "exit")
    /\ Stage(p, [turn[p] EXCEPT !.pc = "ending", !.result = None])

------------------------------------------------------------------------------
(* Every way out of the script saves; then the result is recorded, rendered  *)
(* once, and the SessionEnd hooks run, whose failures are only logged.       *)
MutSaveUnlessFailed(p) ==
    LET t == turn[p] IN
    /\ Ready(p, "ending")
    /\ IF t.result = "error" THEN turn' = [turn EXCEPT ![p].pc = "closing"] /\ UNCHANGED <<file, log>>
       ELSE Truncate(p, "state", [t EXCEPT !.pc = "closing"])
    /\ UNCHANGED <<tracked, sent>>
save_end(p) ==
    LET t == turn[p] IN
    /\ Ready(p, "ending")
    /\ Truncate(p, "state", [t EXCEPT !.pc = "closing"])
    /\ UNCHANGED <<tracked, sent>>
close(p) ==
    /\ Ready(p, "closing")
    /\ Stage(p, [turn[p] EXCEPT !.pc = IF turn[p].result = None THEN "exited" ELSE "saved"])
record_result(p) ==
    /\ Ready(p, "saved")
    /\ Record(p, Entry(p, turn[p].result, 0), [turn[p] EXCEPT !.pc = "recorded"])
    /\ UNCHANGED <<tracked, sent>>
Envelope(t) == [result |-> t.result, turns |-> t.mem.turns]
render(p) ==
    /\ Ready(p, "recorded")
    /\ Stage(p, [turn[p] EXCEPT !.pc = IF turn[p].call.hooks THEN "rendered" ELSE "exited",
                                !.envelope = Envelope(turn[p])])
on_session_end(p) ==
    /\ Ready(p, "rendered")
    /\ Stage(p, [turn[p] EXCEPT !.pc = "exited"])

(* SIGKILL, SIGTERM, a hard crash, or a SIGINT outside the script: the       *)
(* process is gone, a write under way stays torn.                            *)
kill(p) == Live(p) /\ Stage(p, [turn[p] EXCEPT !.pc = "killed"])

TurnInit ==
    /\ file = [s \in Ids |-> None] /\ log = [l \in Logs |-> << >>]
    /\ tracked = {} /\ sent = {} /\ turn = [p \in Procs |-> Unstarted]

Script(p) ==
    \/ tool_call(p) \/ tool_result(p) \/ verdict(p) \/ judge(p)
    \/ usage_limited(p) \/ ask(p) \/ finish(p) \/ fail(p) \/ leave(p)
Turn(p) ==
    \/ \E c \in TurnCalls : launch(p, c)
    \/ begin_turn(p) \/ record_user(p) \/ start_exec(p) \/ Script(p)
    \/ save_end(p) \/ close(p) \/ record_result(p) \/ render(p) \/ on_session_end(p)
    \/ flush(p) \/ kill(p)
TurnNext == \E p \in Procs : Turn(p)
------------------------------------------------------------------------------
(* Type invariant: a session's file is absent, torn or a session, and a      *)
(* write under way is of the file it left torn.                              *)
TurnTypeOK ==
    /\ \A s \in Ids : file[s] \in {None, Torn} \/ file[s].turns \in 1 .. Cardinality(Procs)
    /\ tracked \subseteq Ids /\ sent \subseteq Procs
    /\ \A p \in Procs :
        /\ turn[p].session \in Ids \cup {None} /\ turn[p].tools \in 0 .. MaxTools
        /\ Live(p) /\ turn[p].write # None /\ turn[p].session \notin Overlapped =>
              Torn = IF turn[p].write = "state" THEN file[turn[p].session] ELSE log[Path(turn[p])]

Begun(p) == p \in Range(turn[p].mem.invocations)
OnFile(s) == file[s] \notin {None, Torn}

(* No turn goes missing from its session: whatever turns failed, were        *)
(* killed, refused by the fence or broken off, the file lists every turn     *)
(* that began and counts it once.  (Overlapping turns of one session lose    *)
(* each other's entries; their counts still agree with their lists.)         *)
TurnsCounted ==
    \A s \in {x \in Ids : OnFile(x)} :
        /\ file[s].turns = Len(file[s].invocations) /\ IsInjective(file[s].invocations)
        /\ s \notin Overlapped =>
              Range(file[s].invocations) = {p \in Procs : turn[p].session = s /\ Begun(p)}

(* An ask the runner heard of is on the session's file once its turn is      *)
(* over, though it goes out before anything is saved and later turns rewrite *)
(* the file: the resumed script finds what it asked.                         *)
AsksOnFile ==
    \A p \in sent : turn[p].pc = "exited" /\ turn[p].session \notin Overlapped /\ OnFile(turn[p].session)
        => p \in Range(file[turn[p].session].asks)

(* Who a session is, told from its turns: by the newest of its spawns, and by *)
(* the newest turn that was a spawn or brought a lease.                      *)
CallsOf(invocations) == [i \in DOMAIN invocations |-> turn[invocations[i]].call]
Newest(places) == {i \in places : \A j \in places : j <= i}
Spawns(calls) == {i \in DOMAIN calls : ~IsResume(calls[i])}
Bearers(calls) == {i \in DOMAIN calls : ~IsResume(calls[i]) \/ calls[i].lease # None}
BornSelftest(calls) == \E i \in Newest(Spawns(calls)) : calls[i].lease = "selftest"
Holds(cred, turns, calls) ==
    IF Bearers(calls) = {} THEN cred = None
    ELSE \E i \in Newest(Bearers(calls)) : cred = Credential(turns[i], calls[i])
Remembers(m, invocations) ==
    /\ m.selftest = BornSelftest(CallsOf(invocations))
    /\ Holds(m.cred, invocations, CallsOf(invocations))

(* A session remembers who it is across processes: it is the selftest's iff  *)
(* its last spawn was, and its credential is that of the last turn that was  *)
(* a spawn or brought a lease.                                               *)
SessionRemembers ==
    \A p \in {q \in Procs : Begun(q)} : Remembers(turn[p].mem, turn[p].mem.invocations)

(* The session's file is its memory across processes: its turns, what it     *)
(* asked, and who it is.                                                     *)
SessionRemembered == TurnsCounted /\ AsksOnFile /\ SessionRemembers

(* What a transcript holds of one turn: where its entries are, the first and *)
(* the last of them, and whether each call has its result.                   *)
EntriesOf(entries, p) == {i \in DOMAIN entries : entries[i].by = p}
Oldest(places) == {i \in places : \A j \in places : i <= j}
OpensWith(entries, p, what) == \E i \in Oldest(EntriesOf(entries, p)) : entries[i].what = what
ClosesWith(entries, p, what) == \E i \in Newest(EntriesOf(entries, p)) : entries[i].what = what
HasOutput(entries, p, n) == \E j \in EntriesOf(entries, p) : entries[j].n = n /\ entries[j].what = "output"
CallsAnswered(entries, p) ==
    \A i \in EntriesOf(entries, p) :
        /\ entries[i].what # "pending"
        /\ entries[i].what = "call" => HasOutput(entries, p, entries[i].n)

(* The transcript of a turn that printed its envelope tells that turn: it    *)
(* opens with the message, closes with the result the envelope carries, and  *)
(* leaves no call unanswered unless the turn failed, through every later     *)
(* resume that rewrites the document.                                        *)
TranscriptTellsTurn ==
    \A p \in {q \in Procs : turn[q].envelope # None /\ Transcribes(turn[q])} :
        LET t == turn[p]
            told == log[Path(t)]
        IN  told # Torn /\ (Appends(t) \/ t.session \notin Overlapped) =>
              /\ OpensWith(told, p, "user") /\ ClosesWith(told, p, t.envelope.result)
              /\ t.envelope.result # "error" => CallsAnswered(told, p)

(* The envelope comes last and once: when it is printed the session's file   *)
(* already holds the turn as it ended, and nothing of the turn is written    *)
(* after it.                                                                 *)
EnvelopeComesLast ==
    [][\A p \in Procs : turn'[p] # turn[p] =>
          /\ turn[p].envelope # None => turn'[p].envelope = turn[p].envelope /\ UNCHANGED <<file, log>>
          /\ turn[p].envelope = None /\ turn'[p].envelope # None /\ turn[p].session \notin Overlapped =>
                file[turn[p].session] = turn[p].mem]_turnVars
==============================================================================
