--------------------------- MODULE AgentSessions ----------------------------
(***************************************************************************)
(* The sessions of an agent process across its respawns                      *)
(* (src/client/agent.go, src/client/supervise.go): what AgentProc records of  *)
(* each session, how a call finds the session on the current child, and how   *)
(* the first call after a respawn establishes it there again by               *)
(* session/resume, session/load or session/new.                             *)
(*                                                                         *)
(* AgentSupervisor models how a child is replaced; here a child is its        *)
(* generation number and the sessions it holds.  Session ids are numbers in   *)
(* the order the agent mints them.  The relay knows a session by the id it    *)
(* was opened with, the current child by its wire id.                         *)
(***************************************************************************)
EXTENDS Integers, Sequences, FiniteSets

CONSTANTS
    Callers,    \* goroutines of the relay
    Agents,     \* what a child may advertise, each a subset of Features
    MaxWires,   \* bound on session ids
    MaxGens,    \* bound on children
    MaxCalls    \* bound on calls made

Features == {"resume", "load", "fork", "stable"}
Wires == 1 .. MaxWires
NoWire == 0

ASSUME SessionsAssumption ==
    /\ Agents \subseteq SUBSET Features /\ Agents # {}
    /\ {MaxWires, MaxGens, MaxCalls} \subseteq Nat /\ MaxGens # 0

VARIABLES
    cur, up, caps,  \* a.cur.n, whether that child lives, a.caps
    held,       \* the child: session ids it holds in memory
    prompted,   \* the child: those of them that have their system prompt
    run,        \* the child: per session id "none", or its run: "live",
                \*   "stopped" (its caller gave up) or "cancelled" (it was told)
    minted,     \* the agent: the last session id it made
    home,       \* the agent: session id -> its working directory, named for the
                \*   first session opened there
    recs,       \* every sessRec made
    sess,       \* a.sess: session id -> index in recs, 0 if none
    alias,      \* a.alias: wire id -> the relay's id, NoWire if none
    muted,      \* a.muted
    sinks,      \* the domain of a.sinks: what the relay holds
    notes,      \* the domain of a.stats and a.curModel
    at,         \* caller -> its call
    calls,
    raced       \* history: ids dropped or opened anew while being recovered

child == <<cur, up, caps, held, prompted, run, minted, home>>
tables == <<recs, sess, alias, muted, sinks, notes, raced>>
vars == <<child, tables, at, calls>>

Rec == [gen : 1 .. MaxGens, wire : Wires, sys : BOOLEAN, locked : BOOLEAN]

Ops == {"new", "probe", "resume", "fork", "prompt", "setModel", "release"}

Stages == {"idle", "live", "lock", "resume", "load", "new", "adopt", "call", "track", "wire",
           "note", "giveUp", "unwinding"}

CallT == [pc : Stages, op : Ops, sid : 0 .. MaxWires, gen : 0 .. MaxGens, rec : Nat,
          wire : 0 .. MaxWires, caps : SUBSET Features, sp : BOOLEAN, sent : BOOLEAN]

Idle == [pc |-> "idle", op |-> "new", sid |-> NoWire, gen |-> 0, rec |-> 0, wire |-> NoWire,
         caps |-> {}, sp |-> FALSE, sent |-> FALSE]

TypeOK ==
    /\ cur \in 1 .. MaxGens /\ up \in BOOLEAN /\ caps \in Agents
    /\ prompted \subseteq held /\ held \subseteq Wires
    /\ run \in [Wires -> {"none", "live", "stopped", "cancelled"}]
    /\ minted \in 0 .. MaxWires /\ home \in [Wires -> Wires \cup {NoWire}] /\ recs \in Seq(Rec)
    /\ sess \in [Wires -> 0 .. Len(recs)] /\ alias \in [Wires -> Wires \cup {NoWire}]
    /\ {muted, sinks, notes, raced} \subseteq SUBSET Wires
    /\ at \in [Callers -> CallT] /\ \A k \in Callers : at[k].rec <= Len(recs)

Init ==
    /\ cur = 1 /\ up = TRUE /\ caps \in Agents
    /\ held = {} /\ prompted = {} /\ run = [w \in Wires |-> "none"]
    /\ minted = 0 /\ home = [w \in Wires |-> NoWire]
    /\ recs = <<>> /\ sess = [w \in Wires |-> 0] /\ alias = [w \in Wires |-> NoWire]
    /\ muted = {} /\ sinks = {} /\ notes = {}
    /\ at = [k \in Callers |-> Idle] /\ calls = 0 /\ raced = {}

-----------------------------------------------------------------------------
(* The child and its successors *)

Dies ==
    /\ up
    /\ up' = FALSE /\ held' = {} /\ prompted' = {} /\ run' = [w \in Wires |-> "none"]
    /\ UNCHANGED <<cur, caps, minted, home, tables, at, calls>>

Respawns ==
    /\ ~up /\ cur < MaxGens
    /\ up' = TRUE /\ cur' = cur + 1 /\ caps' \in Agents
    /\ UNCHANGED <<held, prompted, run, minted, home, tables, at, calls>>

Lives(g) == up /\ g = cur

-----------------------------------------------------------------------------
(* The tables of AgentProc *)

\* The id the relay holds for a wire id of the agent.
CallerFor(w) == IF alias[w] # NoWire THEN alias[w] ELSE w

Recovering(k) == at[k].pc \in {"lock", "resume", "load", "new", "adopt"}

untracked(s) == [w \in Wires |-> IF alias[w] = s THEN NoWire ELSE alias[w]]

\* Somebody holds the record of s, to establish it anew, while it is forgotten
\* or opened again.
races(s) == IF \E k \in Callers : Recovering(k) /\ at[k].sid = s THEN raced \cup {s} ELSE raced

track(s, sys, g) ==
    /\ recs' = Append(recs, [gen |-> g, wire |-> s, sys |-> sys, locked |-> FALSE])
    /\ sess' = [sess EXCEPT ![s] = Len(recs) + 1]
    /\ alias' = untracked(s) /\ raced' = races(s)

DropSession(s) ==
    /\ s \in sinks
    /\ sess' = [sess EXCEPT ![s] = 0] /\ alias' = untracked(s)
    /\ sinks' = sinks \ {s} /\ notes' = notes \ {s} /\ raced' = races(s)
    /\ UNCHANGED <<child, recs, muted, at, calls>>

\* An update of the agent: from a session with a run, or from one being
\* loaded, whose history the agent replays.
SessionUpdate(w) ==
    /\ w \in held /\ (run[w] # "none" \/ w \in muted)
    /\ notes' = IF w \notin muted /\ CallerFor(w) \in sinks
                THEN notes \cup {CallerFor(w)} ELSE notes
    /\ UNCHANGED <<child, recs, sess, alias, muted, sinks, raced, at, calls>>

-----------------------------------------------------------------------------
(* Finding the session on the current child *)

Go(k, c) == at' = [at EXCEPT ![k] = c]
Return(k) == Go(k, Idle)

\* state.Manager resumes the session it finds with session/list in a
\* conversation's directory when the conversation has none: never one that is
\* still being opened.  Two calls may do so at once; they find the same one.
Resumable(w) ==
    /\ w \in 1 .. minted /\ home[w] # NoWire
    /\ \A k \in Callers : at[k].pc \in {"track", "wire"} /\ at[k].op # "resume" => at[k].wire # w
    /\ \A s \in Wires : (s \in sinks \/ sess[s] # 0) /\ home[s] = home[w] => s = w

\* Mutant: a conversation takes its next turn once the context of the last ended.
Prompting_NotUnwinding(s) ==
    \E k \in Callers :
        at[k].op = "prompt" /\ at[k].pc \notin {"idle", "giveUp"} /\ home[at[k].sid] = home[s]

\* One turn at a time per conversation (ConvoTurns), which has a directory of
\* its own: the turn lasts until PromptTurn returns.
Prompting(s) ==
    \E k \in Callers : at[k].op = "prompt" /\ at[k].pc # "idle" /\ home[at[k].sid] = home[s]

Begin(k, op, s) ==
    /\ at[k].pc = "idle" /\ calls < MaxCalls
    /\ \/ op \in {"new", "probe"} /\ s = NoWire
       \/ op = "resume" /\ "resume" \in caps /\ s # NoWire /\ Resumable(s)
       \/ op = "fork" /\ "fork" \in caps /\ s \in sinks
       \/ op = "prompt" /\ s \in sinks /\ ~Prompting(s)
       \/ op \in {"setModel", "release"} /\ s \in sinks
    /\ calls' = calls + 1
    /\ Go(k, [Idle EXCEPT !.pc = "live", !.op = op, !.sid = s,
                          !.sp = op = "fork" /\ "stable" \in caps])
    /\ UNCHANGED <<child, tables>>

\* live: the current child, once there is one that lives; and the record.
Live(k) ==
    /\ at[k].pc = "live" /\ up
    /\ LET c == [at[k] EXCEPT !.gen = cur] IN
       IF c.op \in {"new", "probe", "resume"}
       THEN Go(k, [c EXCEPT !.pc = "call", !.sp = "stable" \in caps, !.wire = c.sid])
       ELSE IF sess[c.sid] = 0 THEN Go(k, [c EXCEPT !.pc = "call", !.wire = c.sid])
       ELSE Go(k, [c EXCEPT !.pc = "lock", !.rec = sess[c.sid]])
    /\ UNCHANGED <<child, tables, calls>>

\* peek: the session's wire id, whichever child it lives on.
Peek(k) ==
    /\ at[k].pc = "lock" /\ at[k].op = "release" /\ ~recs[at[k].rec].locked
    /\ Go(k, [at[k] EXCEPT !.pc = "call", !.wire = recs[at[k].rec].wire])
    /\ UNCHANGED <<child, tables, calls>>

\* The first way to establish a session that the agent has: resume, load, new.
Way(c) == IF "resume" \in c THEN "resume" ELSE IF "load" \in c THEN "load" ELSE "new"

\* Mutant: a caller that waited for the lock establishes the session again.
onChild_Unchecked(r, g) == FALSE

onChild(r, g) == r.gen = g

\* route: the session lives on this child, or is established there first.
Route(k) ==
    /\ at[k].pc = "lock" /\ at[k].op # "release"
    /\ LET r == recs[at[k].rec] way == Way(caps) IN
       /\ ~r.locked
       /\ IF onChild(r, at[k].gen)
          THEN /\ Go(k, [at[k] EXCEPT !.pc = "call", !.wire = r.wire])
               /\ UNCHANGED <<recs, muted>>
          ELSE /\ Go(k, [at[k] EXCEPT !.pc = way, !.wire = r.wire, !.caps = caps])
               /\ recs' = [recs EXCEPT ![at[k].rec].locked = TRUE]
               /\ muted' = IF way = "load" THEN muted \cup {r.wire} ELSE muted
    /\ UNCHANGED <<child, sess, alias, sinks, notes, raced, calls>>

-----------------------------------------------------------------------------
(* Establishing a session on a new child: recoverSession *)

\* The child takes a session up, with its system prompt if the request had it.
Holds(w, sp) ==
    /\ held' = held \cup {w}
    /\ prompted' = IF sp THEN prompted \cup {w} ELSE prompted

\* Mutant: session/load does not carry the system prompt again.
resent_NotOnLoad(k) ==
    recs[at[k].rec].sys /\ "stable" \in at[k].caps /\ at[k].pc # "load"

resent(k) == recs[at[k].rec].sys /\ "stable" \in at[k].caps

\* The child answers session/resume or session/load.
ChildRestores(k) ==
    /\ at[k].pc \in {"resume", "load"} /\ Lives(at[k].gen)
    /\ Holds(at[k].wire, resent(k))
    /\ Go(k, [at[k] EXCEPT !.pc = "adopt"])
    /\ UNCHANGED <<cur, up, caps, run, minted, home, tables, calls>>

\* The child answers session/new.
ChildReplaces(k) ==
    /\ at[k].pc = "new" /\ Lives(at[k].gen) /\ minted < MaxWires
    /\ minted' = minted + 1 /\ Holds(minted', resent(k))
    /\ home' = [home EXCEPT ![minted'] = home[at[k].sid]]
    /\ Go(k, [at[k] EXCEPT !.pc = "adopt", !.wire = minted'])
    /\ UNCHANGED <<cur, up, caps, run, tables, calls>>

unmuted(k) == IF at[k].pc = "load" THEN muted \ {at[k].wire} ELSE muted

\* The child refuses: the next way, if there is one.
ChildRefuses(k) ==
    /\ at[k].pc \in {"resume", "load"} /\ Lives(at[k].gen)
    /\ LET tried == IF at[k].pc = "load" THEN {"resume", "load"} ELSE {"resume"}
           way == Way(at[k].caps \ tried) IN
       /\ Go(k, [at[k] EXCEPT !.pc = way])
       /\ muted' = IF way = "load" THEN muted \cup {at[k].wire} ELSE unmuted(k)
    /\ UNCHANGED <<child, recs, sess, alias, sinks, notes, raced, calls>>

\* The child died during the request, or refused session/new: the call fails
\* and the session stays on its old child.
RecoveryFails(k) ==
    /\ at[k].pc \in {"resume", "load", "new"}
    /\ ~Lives(at[k].gen) \/ at[k].pc = "new"
    /\ recs' = [recs EXCEPT ![at[k].rec].locked = FALSE]
    /\ muted' = unmuted(k)
    /\ Return(k)
    /\ UNCHANGED <<child, sess, alias, sinks, notes, raced, calls>>

\* Mutant: the new wire id is not mapped back to the id the relay holds.
Adopt_NoAlias(k) ==
    /\ at[k].pc = "adopt"
    /\ LET r == at[k].rec w == at[k].wire s == at[k].sid IN
       /\ recs' = [recs EXCEPT ![r].gen = at[k].gen, ![r].wire = w, ![r].locked = FALSE]
       /\ alias' = [alias EXCEPT ![recs[r].wire] = NoWire]
       /\ notes' = notes \cup {s} /\ muted' = muted \ {w}
    /\ Go(k, [at[k] EXCEPT !.pc = "call"])
    /\ UNCHANGED <<child, sess, sinks, raced, calls>>

\* The answer arrives: the mute ends, and the record moves to this child.
Adopt(k) ==
    /\ at[k].pc = "adopt"
    /\ LET r == at[k].rec w == at[k].wire s == at[k].sid IN
       /\ recs' = [recs EXCEPT ![r].gen = at[k].gen, ![r].wire = w, ![r].locked = FALSE]
       /\ alias' = [x \in Wires |-> IF x = w /\ w # s THEN s
                                    ELSE IF x = recs[r].wire THEN NoWire ELSE alias[x]]
       /\ notes' = notes \cup {s} /\ muted' = muted \ {w}
    /\ Go(k, [at[k] EXCEPT !.pc = "call"])
    /\ UNCHANGED <<child, sess, sinks, raced, calls>>

-----------------------------------------------------------------------------
(* The calls themselves *)

\* The child makes a session, whose directory is its own.
Makes(k, prompt, sys) ==
    /\ minted < MaxWires
    /\ minted' = minted + 1 /\ home' = [home EXCEPT ![minted'] = minted']
    /\ Holds(minted', prompt)
    /\ Go(k, [at[k] EXCEPT !.pc = "track", !.wire = minted', !.sp = sys])
    /\ UNCHANGED <<cur, up, caps, run, tables, calls>>

\* session/new.
ChildOpens(k) ==
    /\ at[k].pc = "call" /\ at[k].op \in {"new", "probe"} /\ Lives(at[k].gen)
    /\ Makes(k, at[k].sp, TRUE)

\* session/fork, which inherits the system prompt the child knows.
ChildForks(k) ==
    /\ at[k].pc = "call" /\ at[k].op = "fork" /\ Lives(at[k].gen) /\ at[k].wire \in held
    /\ LET sys == sess[at[k].sid] # 0 /\ recs[sess[at[k].sid]].sys IN
       Makes(k, (at[k].sp /\ sys) \/ at[k].wire \in prompted, sys)

\* session/resume: the child reads a session back.
ChildResumes(k) ==
    /\ at[k].pc = "call" /\ at[k].op = "resume" /\ Lives(at[k].gen)
    /\ Holds(at[k].wire, at[k].sp)
    /\ Go(k, [at[k] EXCEPT !.pc = "track", !.sp = TRUE])
    /\ UNCHANGED <<cur, up, caps, run, minted, home, tables, calls>>

\* NewSession, ResumeSession, ForkSession on the answer, first half.
Track(k) ==
    /\ at[k].pc = "track"
    /\ track(at[k].wire, at[k].sp, at[k].gen)
    /\ Go(k, [at[k] EXCEPT !.pc = "wire"])
    /\ UNCHANGED <<child, muted, sinks, notes, calls>>

\* The second half.
Wire(k) ==
    /\ at[k].pc = "wire" /\ at[k].op # "probe"
    /\ sinks' = sinks \cup {at[k].wire} /\ notes' = notes \cup {at[k].wire}
    /\ Return(k)
    /\ UNCHANGED <<child, recs, sess, alias, muted, raced, calls>>

\* ProbeModels drops the session it opened in a temporary directory.
Discard(k) ==
    /\ at[k].pc = "wire" /\ at[k].op = "probe"
    /\ sess' = [sess EXCEPT ![at[k].wire] = 0] /\ alias' = untracked(at[k].wire)
    /\ home' = [home EXCEPT ![at[k].wire] = NoWire]
    /\ Return(k)
    /\ UNCHANGED <<cur, up, caps, held, prompted, run, minted, recs, muted, sinks, notes,
                   raced, calls>>

\* session/set_config_option or session/set_model.
ChildSetsModel(k) ==
    /\ at[k].pc = "call" /\ at[k].op = "setModel" /\ Lives(at[k].gen) /\ at[k].wire \in held
    /\ Go(k, [at[k] EXCEPT !.pc = "note"])
    /\ UNCHANGED <<child, tables, calls>>

NoteModel(k) ==
    /\ at[k].pc = "note"
    /\ notes' = IF at[k].sid \in sinks THEN notes \cup {at[k].sid} ELSE notes
    /\ Return(k)
    /\ UNCHANGED <<child, recs, sess, alias, muted, sinks, raced, calls>>

\* session/release: the child forgets a session that does nothing.
ChildReleases(k) ==
    /\ at[k].pc = "call" /\ at[k].op = "release" /\ Lives(at[k].gen)
    /\ run[at[k].wire] = "none"
    /\ held' = held \ {at[k].wire} /\ prompted' = prompted \ {at[k].wire}
    /\ Return(k)
    /\ UNCHANGED <<cur, up, caps, run, minted, home, tables, calls>>

\* A call fails: its child died, or answered with an error.
CallFails(k) ==
    /\ at[k].pc = "call" /\ ~at[k].sent
    /\ Return(k)
    /\ UNCHANGED <<child, tables, calls>>

-----------------------------------------------------------------------------
(* PromptTurn *)

\* The request, written by a goroutine of its own, reaches the child.
PromptReaches(k) ==
    /\ at[k].pc \in {"call", "giveUp", "unwinding"} /\ at[k].op = "prompt" /\ ~at[k].sent
    /\ Lives(at[k].gen) /\ at[k].wire \in held /\ run[at[k].wire] = "none"
    /\ run' = [run EXCEPT ![at[k].wire] = IF at[k].pc = "call" THEN "live" ELSE "stopped"]
    /\ Go(k, [at[k] EXCEPT !.sent = TRUE])
    /\ UNCHANGED <<cur, up, caps, held, prompted, minted, home, tables, calls>>

\* The answer, or the end of the child, ends the call.
PromptEnds(k) ==
    /\ at[k].pc \in {"call", "unwinding"} /\ at[k].sent
    /\ IF Lives(at[k].gen) THEN run' = [run EXCEPT ![at[k].wire] = "none"] ELSE UNCHANGED run
    /\ Return(k)
    /\ UNCHANGED <<cur, up, caps, held, prompted, minted, home, tables, calls>>

\* The caller's context ends.
PromptGivesUp(k) ==
    /\ at[k].pc = "call" /\ at[k].op = "prompt"
    /\ IF at[k].sent /\ Lives(at[k].gen)
       THEN run' = [run EXCEPT ![at[k].wire] = "stopped"] ELSE UNCHANGED run
    /\ Go(k, [at[k] EXCEPT !.pc = "giveUp"])
    /\ UNCHANGED <<cur, up, caps, held, prompted, minted, home, tables, calls>>

\* session/cancel for the session as it is now: on the current child, under
\* its current wire id.
cancelled(s) ==
    LET w == IF sess[s] = 0 THEN s ELSE recs[sess[s]].wire IN
    IF up /\ run[w] # "none" THEN [run EXCEPT ![w] = "cancelled"] ELSE run

unlocked(s) == sess[s] # 0 => ~recs[sess[s]].locked

Cancel(k) ==
    /\ at[k].pc = "giveUp" /\ unlocked(at[k].sid)
    /\ run' = cancelled(at[k].sid)
    /\ Go(k, [at[k] EXCEPT !.pc = "unwinding"])
    /\ UNCHANGED <<cur, up, caps, held, prompted, minted, home, tables, calls>>

\* cancelNotifyTimeout is over, or the request failed.
Unanswered(k) ==
    /\ at[k].pc = "unwinding"
    /\ Return(k)
    /\ UNCHANGED <<child, tables, calls>>

-----------------------------------------------------------------------------
Call(k) ==
    \/ Live(k) \/ Peek(k) \/ Route(k)
    \/ ChildRestores(k) \/ ChildReplaces(k) \/ ChildRefuses(k) \/ RecoveryFails(k) \/ Adopt(k)
    \/ ChildOpens(k) \/ ChildForks(k) \/ ChildResumes(k) \/ Track(k) \/ Wire(k) \/ Discard(k)
    \/ ChildSetsModel(k) \/ NoteModel(k) \/ ChildReleases(k) \/ CallFails(k)
    \/ PromptReaches(k) \/ PromptEnds(k) \/ PromptGivesUp(k) \/ Cancel(k) \/ Unanswered(k)

Next ==
    \/ Dies \/ Respawns
    \/ \E w \in Wires : SessionUpdate(w) \/ DropSession(w)
    \/ \E k \in Callers : Call(k) \/ \E op \in Ops, s \in Wires \cup {NoWire} : Begin(k, op, s)

Spec == Init /\ [][Next]_vars

-----------------------------------------------------------------------------
(* Properties *)

\* Some call is still recovering this wire for a session dropped meanwhile.
Haunted(w) == \E k \in Callers : Recovering(k) /\ at[k].wire = w /\ at[k].sid \in raced

\* What the current child says in a session the relay holds reaches the sink
\* of that session: its wire id is mapped to the relay's id, and is not muted
\* once nobody loads it.  Not promised for a session that was dropped or
\* opened again while a call was recovering it, or that got the wire id such a
\* call is still recovering (DropSession against adopt and setMuted,
\* src/client/supervise.go:719).
HeardByItsSession ==
    \A s \in sinks :
        sess[s] # 0 =>
            LET r == recs[sess[s]] IN
            r.gen = cur /\ up /\ ~r.locked =>
                \/ CallerFor(r.wire) = s /\ r.wire \notin muted
                \/ {s, CallerFor(r.wire)} \cap raced # {}
                \/ Haunted(r.wire)

\* A session changes its wire id, which loses the agent's history, only by
\* moving to a newer child, whoever else was waiting to recover it; and it
\* never moves back to an older one (route, recoverSession, adopt).
WireFollowsChild ==
    [][\A r \in DOMAIN recs :
         /\ recs'[r].gen >= recs[r].gen
         /\ recs'[r].wire # recs[r].wire => recs'[r].gen > recs[r].gen]_vars

\* A session with a system prompt has it on every child that accepts one, by
\* whichever of new, resume, load or fork it came to live there.  A session has
\* one unless it was forked from a dropped session, of which AgentProc had
\* forgotten the prompt (ForkSession): then every record of its directory counts.
PromptRestored ==
    \A s \in Wires :
        sess[s] # 0 =>
            LET w == recs[sess[s]].wire IN
            /\ w \in held /\ "stable" \in caps
            /\ \A r \in DOMAIN recs : home[recs[r].wire] = home[w] => recs[r].sys
            => w \in prompted

\* A session that moves to another child is heard there and keeps its prompt.
RestoredOnItsChild == HeardByItsSession /\ PromptRestored

\* A prompt that gives up cancels no run but its own, although it looks the
\* session up again and may find it on another child (PromptTurn, Cancel).
StopsOnlyTheStopped ==
    [][\A w \in Wires : run[w] = "live" => run'[w] # "cancelled"]_vars
=============================================================================
