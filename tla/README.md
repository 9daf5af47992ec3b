# A TLA+ model of acp-kit

acp-kit is the Go library shared by chat relays that drive an ACP coding agent:
it starts and supervises the agent process, maps conversations to agent
sessions, decides which turn of a conversation runs, queues and schedules
prompts, serves tools to the agent and updates the relay's own binary. The
modules here model the parts of it whose difficulty lies in the order of events:
goroutines meeting between two critical sections, children that die at the wrong
moment, contexts that end, files that are saved late, restarts.

Contents: [inventory](#inventory) · [modules](#the-modules) · [runs](#the-runs) ·
[fairness](#fairness) · [proofs](#what-is-proved) · [disagreements](#where-code-and-documentation-part) ·
[not modelled](#what-is-not-modelled) · [what is left](#what-is-left) · [how to run](#how-to-run)

## Inventory

Paths are relative to the repository. "→" names the module that models the part.

### Conversations (`convo/`)

| part | state | operations | what is hard, and what makes it correct |
|---|---|---|---|
| turn registry, `active.go` → `ConvoTurns` | `m` (conversation → turn), `cancelled`, each turn's `displaced`, `ended`, context | `Begin`, `Supersede`, `Claim`, `End`, `Stop`, `CancelToken`, `CancelAll`, `WaitCancelled`, `WaitIdle` | The registry is swapped under the lock, contexts are cancelled and `session/cancel` is sent after it. At most one turn of a conversation runs; a turn that loses its place is cancelled; a cancel never hits a successor; a wait covers what it promises; nobody sleeps through a wakeup. |
| runner, `runner.go` → `ConvoTurns` (Supersede), `ConvoLanes` (Serial) | one goroutine per turn; `lanes.byID`, one drainer per busy lane | `Start`, `exec`, `push`, `drain`, `Manager.WaitIdle` | A chain of superseded turns of which several unwind at once; a lane that empties while a job is pushed. |
| sheddable queue, `queue.go` → `ConvoQueue` | `q`, `inFlight`, `stopped`, two one-token channels | `Push`, `PopOrWait`, `Finish`, `StopIfIdle`, `Stop`, `WaitIdle` | A token consumed by the wrong waiter; an item shed that must not be; a queue closed under its runner. |
| overrides, `overrides.go` → `ConvoControl` | chosen and applied model of each conversation, the file | `Set`, `Carry`, `Pending`, `MarkApplied`, `Save` | Memory changes under the lock, the save follows it: the two orders can differ. |
| manager, `convo.go` → `ConvoControl` | hooks over all of the above | `Dispatch`, filters, commands, `ApplyModel`, `ResetSession` | A reset against the turn in flight; a model applied to a session that is gone. |

### The agent (`client/`, `state/`)

| part | state | operations | what is hard, and what makes it correct |
|---|---|---|---|
| supervision, `client/supervise.go` → `AgentSupervisor` | `cur`, `genSeq`, `genCh`, `closing`, `closeCh`, `done`, `exitErr`; one reaper per child, one supervisor | `Start`, `spawn`, `attach`, `reap`, `onExit`, `supervise`, `Close`, `live`, `rpc` | Every goroutine may meet a `Close`, the end of the context or the death of the child it works on. One supervisor, no child after `Close`, nobody waiting for a child that never comes. |
| session recovery, `client/supervise.go` → `AgentSessions` | `sess`, `alias`, `muted`, `sessRec.gen`, `sessRec.wire` | `track`, `route`, `peek`, `recoverSession`, `adopt`, `callerFor` | A session is re-established once per child, updates go to the caller's id, a dropped session stays dropped. |
| session tables, `client/agent.go` → `AgentSessions`, `SessionState` | `sess`, `sinks`, `stats`, `curModel` | `NewSession`, `ResumeSession`, `DropSession`, `RebindSink`, `PromptTurn`, `Cancel` | A session that one caller drops and another holds. |
| liveness, `client/liveness.go` → `PromptGuards` | `lastProgress`, timer, `done` | `fire`, `Progress` | The timer's callback against the progress that should have stopped it. |
| validated and abstaining prompts, `client/refuse.go`, `client/abstain.go` → `PromptGuards` | buffer | `OnUpdate`, `Commit`, `CommitText`, `Drop`, `PromptValidated`, `PromptAbstainable` | A refused answer must not reach the user. |
| session manager, `state/state.go` → `SessionState` | `byKey`, `fresh`, `lastUsed`; the agent's stored sessions | `GetOrCreate`, `Reset`, `Touch`, `GCOnce`, `Run` | Two unlocked round trips to the agent between the look-up and the insertion. Callers agree on the session; a reset sticks; the tables of the agent follow. |

### Around them

| part | state | operations | what is hard, and what makes it correct |
|---|---|---|---|
| schedule, `schedule/schedule.go` → `Schedule` | `items`, `firing`, the file | `Add`, `Remove`, `Rekey`, `due`, `start`, `endFire`, `commitLocked` | Prompts that arm prompts; a claim that outlives a `Rekey`; a save that fails; a restart. No slot fires twice, the chain ends, the file follows memory. |
| MCP host, `mcphost/mcphost.go`, `mcp.go` → `McpHost` | tokens, listener, connections | `register`, `resolve`, `ExportTokens`, `SeedTokens`, `track`, `shutdown` | Tokens over an exec; a connection accepted while the host closes. |
| redirector, `mcphost/redir.go` → `McpProxy`, `RequestReply` | pending requests, connection, handshake | `forward`, `deliver`, `replayLocked`, `failPendingLocked`, `closeInput` | Each request is answered once over any number of reconnects. |
| logins, `command/` → `ConvoControl` | `pending` | `start`, `startMCP`, `complete`, `cancel`, `dropSessionLogin`, `Rekey` | One pending login per conversation, although the lock is released around the agent, whose answer may be an error; a slot must not outlive its session. |
| relay tools, `relaytool/` → `ConvoControl` | `pending` | `new_session`, `Rekey`, `EndTurn` | The reset waits for the end of a turn whose conversation may be renamed, replaced or reset meanwhile. |
| terminals, `terminal/` (not modelled) | `background`, `pendingBash` | `Exec`, `StartBackground`, `KillBackground`, cleanups | The limit is checked before the terminal exists; cleanup against starts in flight. |
| automatic updates, `autoupdate/` → `AutoUpdate` | offer, applying, blocked, halted, the binaries | `Poll`, `Decide`, `Tick`, `apply`, `resume`, `restore` | A crash between any two of rename, save and exec. |
| operator updates, `update/` → `UpdateFlow` | lock, marker, converge job | `Handle`, `converge`, `watch`, `Resume`, `rollback` | The report crosses an exec; the job may outlive its watcher. |
| attachments, skills, statusline, sysprompt, paths, log, origin, probe, remotefs, `state/meta.go`, the client's wire conversions | files or nothing | – | I/O and formatting; see [what is not modelled](#what-is-not-modelled). |

How they interact. A relay gives a message to `convo.Manager`, which starts a
turn (`Active`, `runner`). The turn asks `state.Manager` for its session, which
asks `client.AgentProc` for a new or a resumed one, and prompts it through the
current child. `!stop` reaches the turn through `Active` and the agent through
`AgentProc.Cancel`. The agent calls back with updates (sinks) and tools
(`mcphost`, `relaytool`), which may arm a schedule; the schedule's `Fire`
starts a turn through `Active.Claim`. An update waits for the turns with
`CancelAll`, `WaitCancelled` and `WaitIdle` before it replaces the process.
The parts share locks nowhere: each has a mutex of its own and calls the next
one without holding it. This is why each module models one part with all the
goroutines that may be in it, and the others by what they can do to it.

## The modules

One action is one critical section of the part's mutex, one call to another
part made outside it, or one step of an operating-system process. What a
goroutine remembers between two of them is in its record (`canc`, `wait`,
`creator`, `spawner`, …). Variables that the code does not have are marked
"history" where they are declared: no guard reads them.
`MCSessionState` and `MCConvoControl` add the symmetry sets of their runs; the other
modules are checked as they are, and runs with liveness properties use no symmetry.
A module named `…Proofs` holds theorems, inductive invariants and lemmas; no configuration
uses it. `ConvoTurnsProofs`, `AgentSessionsProofs`, `SessionStateProofs`, `ScheduleProofs`
and `McpProxyProofs` are about the module they are named for; `ConvoProofs` is about
`ConvoLanes`, `ConvoQueue` and `ConvoControl`, `ClientProofs` about `AgentSupervisor` and
`PromptGuards`, `UpdatesProofs` about `AutoUpdate` and `UpdateFlow`. The definitions of two
modules that meet in one of these have different names (`QueueSpec`, `ControlSpec`,
`GuardsSpec`, `FlowSpec`).
Most properties are conjunctions of named parts (`LaneDiscipline` of `LaneIsFifo` and
`OneDrainerPerBusyLane`, say): one property per question, one part per claim. Definitions
with an underscore (`Stop_NoCheck`) are mutants: plausible mistakes in the
definition that follows them. No run's specification uses them; each one put in
place of its original breaks the property `PROJECT.json` pairs it with.

### `ConvoTurns`: registry and Supersede mode

A turn is its number in the order of registration. `pc[t]` follows the turn from
the call of `Supersede` (`firing`, `notifying`: cancelling the turn it displaced
after the unlock) through `exec` (`waiting` for the displaced turn, `running`,
`unwinding` after `ended` is closed, `done` once deregistered).
`Supersede`/`SupersedeFire`/`SupersedeNotify`, `Stop` and `CancelToken`
with `CancelFire`/`CancelNotify`, and `CancelAll` with its `Sweep` are split
exactly where the code unlocks. `ClaimCall`/`ClaimPark`/`ClaimGrant`/`ClaimGiveUp`
are the loop around the condition variable, `WakeOnDone` the helper goroutine of
a context. `stoppedBy` and `wait.owed` are history.

`Linked(u, v)`, with which the properties speak of a chain, holds when no turn
from u up to v was taken out by `Stop` or `CancelAll`: after those the registry
is empty and the next turn displaces nothing, so it may overlap the one that
unwinds. The code accepts that, and the properties say so.

### `ConvoLanes`: Serial mode

Jobs, lanes, drainers, and what `Begin`, `End`, `Stop` and `Claim` do to the
registry. A drainer is named by the job whose `push` launched it.

### `ConvoQueue`: sheddable queue

The queue, its two tokens (`notify`, `idleCh`), the runner and the callers of
`WaitIdle`. An item's `fate` is history.

### `AgentSupervisor`: supervision

Generations number the children. `child` is the process as the operating system
sees it: up, mute (its pipes broke, it lives), doomed (killed, not gone), exited.
`reaper[g]` is `reap` and `onExit`; `spawner[s]` is the goroutine in `spawn`: Start,
or the supervisor that the exit of generation s started. `Close` is six steps, with
its second look at the current child; `live` is a look and a wait on the channel
that the next installation closes, recorded as the number of installations seen.
`MaxFaults` bounds everything that goes wrong: a crash, a broken pipe, a failed
start, a failed handshake. `respawn`, chosen in `Init`, is `Config.NoRespawn`
negated. `Stranded` names the one state the code cannot leave by itself: a child
that exited between its answer to `initialize` and its installation, whose reaper
looked before it was current (see the disagreements). `CloseEnds` and
`NobodyWaitsForever` say that every other wait ends.

### `SessionState`: session manager over the agent's tables

One conversation. `creator[c]` is a caller inside `GetOrCreate`: look-up, list,
resume, new, the two sections in which `AgentProc` records and wires the session,
insertion. `drops` are sessions taken from the map whose `DropSession` is still to
come. The agent lists the session created or prompted last first, and turns are
shorter than the idle timeout (or their relay calls `Touch`): assumptions about
the environment, stated in the module. `canResume`, chosen in `Init`, is the
agent's capability to list and resume sessions.

A `Reset` is only a mark in memory that the next insertion clears. `forgotten` is
history: it is set when a call that had begun before the `Reset` goes on to insert
its session or to run its turn, and when a restart comes before the next call.
`ResetSticks` says that these are the only ways in which a discarded session
comes back, and that none of them exists with an agent that cannot resume;
`ResetAlwaysSticks` is what `state.go` says, without the exception. In the same
way `LiveSessionIsWired` claims for agents that cannot resume what
`LiveIsAlwaysWired` claims for all.

### `AgentSessions`: the sessions of an agent over its respawns

A child is its generation, whether it lives, what it advertised (`caps`), the session
ids it holds, which of them have their system prompt, and whether a prompt runs in
them. `recs`, `sess`, `alias`, `muted`, `sinks` and `notes` are the tables of
`AgentProc` under `a.mu`; a record is an object that two calls may share, hence the
index. A call (`at[k]`) begins, peeks, routes (waiting for `rec.mu`), recovers the
session on the current child with resume, load or new, in the code's order and with the
mute around a load, adopts the new wire id, and does what it came for: prompt, cancel,
set the model, fork, release. The relay prompts a session in one turn at a time, which
`ConvoTurns` and `ConvoLanes` are for. `raced` is history: ids dropped, or opened anew,
while another call was recovering them. A wire id is `Haunted` while such a call is still
recovering it: its mute, or the alias it is about to adopt, falls on whoever has the wire
id by then. `home` is the directory a session was opened in; what recovery puts in its place on
a later child stays in it. A fork of a dropped session finds no system prompt in the tables (`systemPromptOf`), so
`PromptRestored` promises one only in a directory all of whose records have it.

### `Schedule`

The store, its file, the loop (`Due` claims, `StartFire` registers), the fires (the
relay's callback, then the turn, which may arm items), `Rekey`, conversations
that disappear and reappear, failing saves and restarts. Time counts in `MinInterval`.
`chain` is history: how many scheduled turns lie behind an item, which the code
only approximates by `Depth`; `fired` is the last slot of an item that was claimed.
`Awaited` names the tokens to which a fire, or a claim about to become one, still goes
after the conversation was renamed. If another conversation comes to own such a token,
`crossed` records it, and the promise about chains is no longer made.

### `McpHost`, `McpProxy`, `RequestReply`: tools over a reload

`McpHost` is the host's end of every connection, the token registry, `shutdown` and
the hand-over of the tokens through exec; a relay that dies loses them. `McpProxy`
extends it with the redirector: `fromAgent` and `fromHost`, which share the connection
under `p.mu` and hold it across a reconnect, while a line read from the host is
delivered in a later step. `cs` says how far `connectLocked` is: dialling, waiting for
the answer to the replayed `initialize`, about to send the notification.
`RequestReply` is what the agent is promised: a request is carried out at most once and
answered exactly once, with a result only if it was carried out. `AnsweredOnce`
(`Promise!Spec`) states that `McpProxy` implements it: `answers` is the sequence of
answers the agent really got for an id, mapped to `"twice"`, which no step of
`RequestReply` produces, when there is more than one.

### `ConvoControl`: what a message can be besides a prompt

`Manager.Dispatch`, the broker, the model overrides, `NewSession` and the agent's own
`new_session`. Two names of a conversation matter: the broker and the tools use its
token, which a relay may rename (`Rename`); the manager uses the id that `Hooks.Reset`
replaces (`rekeys`, chosen in `Init`; `ReplaceConv`). A message that becomes a prompt goes
to the id its conversation had when it came (`Submit(c, t)`), so a conversation that was
replaced may still run a turn, under the token it had last (`called`). A handler holds no
lock between its steps, so `at[k]` remembers what it read: the login it completes, the model
it is about to save, the conversation it replaces. A file write, a call of the agent and a
critical section are one step each.

The agent need not obey: a paste or a cancel may fail and leave the login open there
(`Concluded`, state `"left"`), a reset may fail (`ResetFails`), a turn may be cut short
without an `EndTurn` (`CutShort`), either save of `Carry` may fail (`Saved`), and the idle GC
takes a session away (`Collect`), which the agent may give back to the conversation's next
turn (`gone`). External, and modelled by what `src/` relies on: that a resumed session still
has the model it was told to use; that a relay keeps the prompts queued for a conversation it
replaces; `Hooks.Reset` itself. `EndTurn` is called once for each completed turn, with
the token the relay has for it then.

History: `unsaved` (conversations whose saves overlapped or failed), `torn` (two calls that
start or finish a login of one token overlapped, or the token was renamed under a call about
it), `lost` (sessions whose login nobody drops: reaped, or reset while a login was being asked
for them), `asked` (conversations whose agent asked for a new session: `asked` gains and loses
a conversation only at its own tool call and its own `EndTurn`, and does not follow
`deferred`), `mixed` (tokens under which more than one conversation defers or ends a turn).

### `PromptGuards`: liveness clock and validating sink

A turn's loop, the connection's reader and the timers of the runtime. `Expire` is the
timer firing; its callback gets the lock in `FireWedged` and cancels the context in
`CancelContext`, and updates may come before each. Time counts in ticks and is kept
relative: `quiet` since the last progress the clock saw, `silence` (history) since the
last it was told of, `timer` to its expiry, which may be late. A chunk is its attempt
and a class: passes, refused (or the sentinel), without text. `LateUpdate` is an attempt
that was cut without an answer and still speaks. `MaxUpdates` bounds the message chunks of an
attempt and nothing else: thoughts, tool calls and plans may come for ever. `Only` is what remains of a sequence of
chunks when those of one kind are kept: the text a validator reads, or what the turn's own
attempts said.

### `AutoUpdate`

Poll, decision, tick, swap, save, reload, health gate and rollback, with the state in
memory (`mem`) and on disk kept apart, and a crash possible between any two steps. An update of
the agent that fails, or an apply that fails after it, may have replaced the agent binary.
`Unhealthy` and `NeedsAgent` are properties of releases; versions are their order.
`faults` counts the failing operations, each at its place in the code. `relay` and `agent`
are the binaries in place, `relayPrev` and `agentPrev` those kept beside them, `img` and
`runningAgent` what runs. History: `failed` (releases whose last gate failed), `rolled` (the
last gate failed and no owner has acted since), `torn` (images whose swap was not followed
by its record), `stray` (what a crash or a failure left out of step: `"agent"`, when an apply
that had replaced the agent did not get to its record, or the agent could not be restored;
`"relay"`, when it could not be restored, or a `.prev` was overwritten under an older record;
`"image"`, when the restored relay could not be reloaded). `RestoredTogether` promises the relay
unless it is stray and the agent unless it is, and nothing else is exempted: neither crashes
nor failures as such.

### `UpdateFlow`

`Handle` under the update lock, the marker, exec, and `Resume` in the next image; on a
fleet host the detached converge job with its pid and rc files, and its watcher, which is
a goroutine of the old image or of the new one. The lock is lost in an exec; the marker,
the rc and the pid file are not. An image that finds the lock taken watches all the same,
without it: `watch` has a watcher with the lock and one without. A request that fails, or an
exec or a death that cuts it short, may have replaced the agent binary already (`CutShort`,
`HalfDone`), and then no copy of what it replaced is kept. History: `said`, what the requester
was told; `before`, what the agent binary was before it last changed; `spoilt`, that this
change was of a request that failed, was cut short or said that it kept no copy; `unlocked`,
the jobs watched without the lock. `step` says where `Handle` or the start of an
image is, `deaths` counts the ends of the process.

## The runs

Every run explores its state space completely and finds nothing violated. Deadlock is
not checked anywhere: all bounds are on how often something happens, so every model
stops when they are used up, and the systems themselves may be idle for ever. "No
goroutine waits for ever" is stated by liveness properties, by `WaitersAreServed` (turns)
and by `NothingStranded` (queue).

| run | configuration | what it shows |
|---|---|---|
| `turns` | 3 turns of one conversation, a canceller, a claimer whose context may end, a waiter | One turn at a time; turns of a chain end in order; a superseding turn's `session/cancel` never reaches that turn or a later one; nothing is left running uncancelled; nobody is parked without a reason, and a `WaitCancelled` that returns nil waited for the stopped turns; displaced and stopped turns unwind although the newest may run for ever. |
| `lanes` | 3 jobs, two lanes, one claimed turn, a waiter whose context may end | A lane is FIFO with one drainer while it is busy; `WaitIdle` covers what was queued, every job runs. |
| `queue` | 6 items, three sheddable, capacity 2, one waiter | Every item is accounted for and leaves, user turns are kept and alone pass the cap, no lost wakeup, a closed queue stays empty. |
| `supervisor` | 2 faults (3 children), respawn or not, a closer, a caller | One supervisor, one child; exits classified correctly; nothing left and nothing installed once closed; `Close`, `live` and `rpc` return unless a child was stranded. |
| `state` | 2 callers, 3 sessions, resume or not, a restart | Callers agree; without resume the live session is wired; a `Reset` sticks except as described above. |
| `sessions` | 2 callers, 3 calls, 3 children, 3 session ids; agents that resume, load, fork, or fork and take no system prompt | A recovered session is heard by its own sink and keeps its system prompt; its wire id changes only with the child, never backwards; a prompt that gives up cancels no other run. |
| `schedule` | 2 conversations, 2 items once or repeating, depth 1, a failed save, a restart, turns that need not end | No slot fires twice, file and memory agree through every undo, the recursion bound, repeats keep their grid, a due item is claimed. |
| `mcp` | 1 session, an `initialize` and a call, 3 connections, 2 reloads or deaths, 2 tokens | The proxy implements `RequestReply`; each connection carries the handshake before a call; tokens survive an exec; the hand-over is not held up by connections that arrive during it. |
| `control` | 2 tokens, 2 ids, 3 sessions, 2 models, 2 logins, 2 handlers, 3 messages, 1 upset (a renaming, a failed save or push, a restart, a reaped session) | The chosen model reaches agent and file; a pending login's slot is true; what is deferred under a conversation's token is what its agent asked for, and a turn resets only its own conversation, and only if its agent asked. |
| `guards` | 2 turns, window 2, ceiling 3 or none, 1 refusal, 2 message chunks an attempt, 1 late update, 2 callbacks of the timer at once | Only a silent turn is cut as wedged; a settled clock stays settled; no refused text gets out; every turn ends, unless no ceiling is set and the agent makes progress again and again. |
| `autoupdate` | 2 releases, the second unhealthy and needing the new agent, every mode but stage, fleet or not, 2 starts of the gate, 2 crashes, 4 faults | An unhealthy image goes out, and relay and agent are put back together unless `stray` names them; what failed is not installed again, and nothing without the owner; the relay comes back into service. |
| `update` | 2 requests, 2 deaths or reloads, 1 timed-out job, 2 agent versions, fleet or not | Converge jobs run one at a time, until one is given up, and are reported as they ended; `.prev` is the version before the last change unless that was of a request that failed or was cut short; who asked hears of it and the lock comes free. |

Why the bounds are enough. For the properties in the table of theorems the proofs
remove them; what follows is for the others. *Turns*: a step of the registry touches a turn, the
one it displaces and the one that displaces it; three make a chain with a
middle, in which a stop can fall on either side. *Lanes*: two jobs make a queue, a third
arrives while the drainer is between them or makes the second lane busy. *Queue*:
capacity 2 with three sheddable and three other items reaches
every case of `Push`: room, shed the oldest, refuse, grow. *Supervisor*: two
faults let the replacement of a child fail too, in each phase, and three
children are one more than any goroutine can know. *State*: two callers race
over one conversation; three sessions are one for each caller and one after a
reset, and a failed `session/new` stands in for more. *Sessions*: two goroutines in
one record, one of them overtaken by two respawns; three ids are an original, a
replacement and a fork. *Schedule*: one item can arm a second, which the depth of one
refuses a third; two conversations are what a renaming and its reuse need; two ticks make
a repeat miss a slot. *MCP*: the connection before the reload, the one after it, and one
that breaks in between, so that the second attempt of a write fails too; two requests,
so that one is in flight when the other is written. *Control*: two handlers meet between
any two steps, and the third message finds what they left; two ids are a conversation and
what replaced it, both with a turn. One upset comes between any two of those
steps; that two of them together do no other harm is what the proofs add. *Guards*: two attempts are a refused one and its retry, two turns an
abandoned attempt and the turn it speaks into; a window of two lets progress come at
half time; of two callbacks one is late when the other has been armed anew. *Automatic
updates*: an unhealthy release after a healthy one gives the rollback something to come back
to; two crashes fall one into the apply and one into the rollback, and four faults let a copy
fail after the agent was replaced, and then a restore, its report and a save. *Operator
updates*: a job and the request that comes too early; one death for each of them.

The history exemptions (`raced` with `Haunted`, `crossed`, `unsaved`/`torn`/`lost`/`mixed`,
`stray`, `spoilt`, `unlocked`) narrow a
property to the runs in which the code keeps it; each is a line in the table of
disagreements, none hides the ordinary case: the runs' mutants break the properties
without them being set.

## Fairness

Fairness is weak and on the goroutines that the code runs without waiting for
anybody's decision: critical sections, context cancels, helper goroutines, drainers,
reapers, supervisors. Callers are not obliged to call (push, stop, claim, close,
arm), contexts need not end, children need not fail.

- `ConvoTurns`: a turn that was cancelled returns from the agent
  (`WF(t \in dead /\ Return(t))`), because `Job.Run` gets the cancelled context;
  a turn that was not cancelled may run for ever.
- `ConvoLanes`: jobs return. The lane promises nothing otherwise.
- `ConvoQueue`: the runner goes on; its turn ends.
- `AgentSupervisor`: a doomed child goes, and the goroutines step. The backoff of
  `supervise` is a `select` over a timer and two channels; when several are ready
  Go picks one at random, so a close that stays possible from respawn to respawn
  is taken: strong fairness on `BackoffClosed` and `BackoffCtx`, weak on the rest.
  Faults are finitely many (`MaxFaults`).
- `Schedule`: the loop ticks and its steps are done. Turns need not end.
- `McpProxy`: both goroutines of the redirector and the host's handlers run, tool
  handlers return, and a relay that closed or died comes back. The agent need not ask,
  nor close its end, and the relay need not reload.
- `PromptGuards`: time passes, due timers and their callbacks run, a ceiling that was reached
  cuts the turn, and the turn's loop goes on. The agent owes nothing: that is what the guard is
  for. `TurnsEnd` has one premise, which `client/liveness.go:51-59` states as the design: a
  ceiling is set, or progress stops.
- `AutoUpdate`: `Run` is one goroutine that does not stop inside an apply or a `resume`,
  and a relay that died or reloads is started.
- `UpdateFlow`: goroutines and the job run, and a process that died is started. The watcher's
  deadline is checked on every round while the job runs, so it is strongly fair.
- `SessionState`, `AgentSessions`, `ConvoControl`: safety only. Their callers wait for an
  agent, which promises nothing; that calls return when it dies is `EverybodyReturns`.

## What is proved

Every safety property that a run checks is proved, for every value of the constants of the
module it is about. The only
assumptions on constants are the named ones declared there: that bounds are natural
numbers (`MaxJobsAssumption`, `MaxItemsAssumption`, `MaxFaultsAssumption`,
`BoundsAssumption`, `GuardsAssumption`, `FlowAssumption`, `ControlAssumption`, …), that a
capacity, a limit or a window is not zero (`CapAssumption`, `LimitsAssumption`; a child
exists, in `SessionsAssumption`), and that sets of constants are what they are called
(`NoConv \notin Convs`, `Impatient \subseteq …`, `Sheddable \subseteq 1..MaxItems`,
`Repeats \subseteq Nat`, `Key \in Keys`, `Handlers` apart from the conversations; in
`ConstantsAssumption`, that the release one starts with is healthy).
Three theorems have a further hypothesis, discussed with them. Of the two properties that
join safety and liveness, `JobsAreCovered` and `AnsweredOnce`, the safety half is proved.

| module | theorem | states |
|---|---|---|
| `ConvoTurnsProofs` | `TypeCorrect` | `[]TypeOK` |
| | `Exclusion` | `[]OneTurnAtATime` |
| | `ChainOrder` | `[]ChainEndsInOrder` |
| | `CancelAim` | `SupersedeCancelsNoSuccessor` (an action property) |
| | `NothingLeftRunning` | `[]NoOrphan` |
| | `NobodySleepsForNothing` | `[]ParkedForAReason` |
| | `EveryWaiterIsServed` | `WaitersAreServed` (a state and an action property), for one patient waiter at a time |
| `ConvoProofs` | `LanesAreOrderly` | `[]LaneDiscipline` |
| | `WaitIdleWaits` | `WaitIdleCoversJobs` (an action property; the safety half of `JobsAreCovered`) |
| | `UserTurnsKept` | `[]UserTurnsAreKept` |
| | `NoItemIsLost` | `[](Accounted /\ RunnerAwake /\ ClosedQueueIsEmpty)` |
| | `NobodyIsStranded` | `[]NothingStranded`, if one goroutine at a time is in `WaitIdle` |
| | `ChoiceIsAlwaysKept` | `[]ChoiceIsKept` |
| | `LoginSlotsAreTrue` | `[]LoginSlotIsTrue` |
| | `DeferredIsAlwaysAsked` | `DeferredIsAsked` (what is deferred in every state, and what a reset may do) |
| `ClientProofs` | `SupervisionDoesNotMultiply` | `[]OneSupervisor` |
| | `TheVerdictIsTrue` | `[]VerdictIsTrue` |
| | `NothingAfterClose` | `CloseIsTheEnd` (a state and an action property) |
| | `NoRefusedTextGetsOut` | `[]OnlyTheVerdictIsDelivered` |
| | `OnlySilenceIsCut` | `CutsAreTrue` (a state and an action property) |
| `SessionStateProofs` | `OneLiveSession` | `[]SessionIsShared` |
| | `ResetHolds` | `[]ResetSticks` |
| `AgentSessionsProofs` | `SessionsMoveForward` | `WireFollowsChild` (an action property) |
| | `CancelsItsOwn` | `StopsOnlyTheStopped` (an action property) |
| | `UpdatesAreHeard` | `[]HeardByItsSession` |
| | `RestoredHolds` | `[]RestoredOnItsChild`, for agents that agree (below) |
| `ScheduleProofs` | `SavedOnce` | `[]SavedAndFiredOnce` |
| | `ChainsEnd` | `[]ChainBounded` |
| | `OnGrid` | `RepeatsOnGrid` (an action property) |
| `McpProxyProofs` | `SessionOutlives` | `[]SessionSurvives` |
| | `Promised` | `Promise!Safe`: every step is one of `RequestReply` or a stutter |
| `UpdatesProofs` | `RollbackIsWholeAlways` | `[]RollbackIsWhole` |
| | `WhatFailedStaysOut` | `RolledBackStaysOut` (two action properties) |
| | `ConvergeJobsAreOrderly` | `[]JobsAreOrderly` |
| | `RollbackHasItsTarget` | `[]PrevIsLast` |

Each rests on an inductive invariant (`IInv`, or `QueueIInv`, `ControlIInv`, `GuardsIInv`,
`AutoIInv`, `FlowIInv`), proved by a lemma for the initial states, one
lemma per action or per kind of step, and a lemma that puts them together; each was checked
with TLC before it was proved. Few of the properties above are inductive as they stand. Why, and
what the invariants add:

**Turns.** `OneTurnAtATime` says nothing of *why* the new turn holds back: the turn it
displaced may itself still wait for an older one. The invariant is

    IInv == TypeInv /\ Births /\ Snapshots /\ Registered /\ CutOff /\ Chain

where `Births` says that exactly the turns up to `born` exist; `Snapshots` that what a
`CancelAll` has read exists; `Registered` that the registered turn is the newest of its
conversation, lives, and was not stopped; `CutOff` that a turn still alive in a
conversation without an entry was cut off by a `Stop` or `CancelAll`; and `Chain`, the
heart, that as long as a turn u lives, every later turn v of its chain is *held back*: v
has not passed its wait, and the turn it displaced is u or a later one and has not ended.
A step can disturb `Chain` in three ways: a new turn is registered (then `Registered` and
`CutOff` say what it displaces), a turn passes its wait (then the turn it displaced has
ended, which `Chain` forbids while any older one lives), or a turn is stopped (then fewer
pairs are in one chain). The effect of each action on the registry is reduced to four
shapes (`Entry`, `Move`, `Leave`, `TakeOut`) by the lemma `Effects`. `NoOrphan` needs the
invariant and its own induction: a turn that lives and is not registered is dead, or
`Excused`, its cancel being in the hands of the goroutine that took its place.

`ParkedForAReason` is inductive once a goroutine sleeps in `Claim` or in `WaitIdle` and not
in both (`OneSleep`, which a goroutine cannot help). For `WaitCancelled`, `Listed` follows
the turns that a `CancelAll` stopped or is about to stop: until they end they are on the list,
or in the hands of the call that took it; `Owed` then says that this call has all it must
wait for. The hypothesis (`LoneWaiter`) is that calls of `WaitCancelled` do not overlap and
that their contexts do not end: the list is taken and not copied, so a second call, or one
after a call that gave up, misses turns (see the disagreements).

**Lanes.**

    IInv == TypeOK /\ Births /\ Queues /\ Drained /\ Drainers /\ Sleepers /\ LaneIsFifo /\ Owed

A lane is FIFO because three things agree: the queue holds exactly the queued jobs of the
conversation, in the order of their numbers (`Queues`); what has left the queue and not
ended is in the hands of a drainer (`Drained`); and a lane has one drainer exactly while
it is busy (`Drainers`). The last is what the unlock between "the queue is empty" and
"the drainer leaves" could break, and does not, because `busy` is cleared in the same
critical section. `Owed` makes the promise of `WaitIdle` inductive: a caller past the lanes
waits only for the registry, so all it is owed has ended or will be seen there.

**Queue.**

    QueueIInv == QueueTypeOK /\ Offers /\ Ledger /\ UserTurnsAreKept /\ RunnerAwake
                 /\ ClosedQueueIsEmpty

`Accounted` compares two sets; `Ledger` says it item by item, and adds that `q` is in the
order of offering, without which an item taken out of the middle might remain elsewhere.
The lemmas `AppendOrdered` and `RemoveOrdered` are about sequences in general.
`NobodyIsStranded` supposes a single waiter, and no less will do: with two, TLC finds the
second asleep (see the disagreements).

**Supervision.**

    IInv == TypeOK /\ Reaped /\ Births /\ Succession /\ Accounted /\ Ended /\ Closing /\ VerdictIsTrue

Nothing in `supervise.go` counts supervisors. There is one because the right to spawn
travels with the current generation (`Succession`): whoever spawns was started by the reaper
of the current child, or is `Start` while there is none, and loses the right by installing a
successor; a reaper whose child is not current decides nothing. `Accounted` finds each
living child either current or in the hands of who spawns it, which is what `Close` relies
on when it looks twice. `Closing` records what each step of `Close` has achieved.

**Guards.**

    GuardsIInv == GuardsTypeOK /\ Spoken /\ Clocked /\ Judging /\ OnlyTheVerdictIsDelivered

`Judging` follows one attempt: what the turn's own attempts put into the buffer is what the
attempt said, up to its verdict, and nothing has been delivered by then. Chunks of abandoned
attempts may lie between, which is why it speaks of `Own(buf)`. What `Only` does to an
appended chunk, to a sequence that holds nothing else and to a prefix are lemmas
(`OnlyAppend`, `OnlyEmpty`, …) proved from the existence and uniqueness of the recursive
function, by the least element of a set of naturals. `Clocked` says that the silence the
clock measures is the true one, which a progress that lands before the expired timer's
callback gets the lock could break, and that a verdict comes before its cause.

**Session manager.** `Shared` says that a call holds the live session or one that a `Reset`
or a GC took away. With an agent that cannot resume, `Unshared` says that a session just
opened is in one pair of hands, which keeps its tables (`Wired`). For the `Reset`, a
call remembers what was discarded before it began: `Knows` and `Sticks` say it uses none of
that. With an agent that can resume the mark `fresh` does the work (`Marked`): no call that
began after the `Reset` lists sessions while the mark stands, and once it is gone the agent
lists another session first.

**Sessions over respawns.**

    IInv == TypeOK /\ Bounded /\ Handled /\ Homes /\ Fresh /\ Locking
            /\ Owned /\ Claimed /\ Aliases /\ Mutes /\ Runs

The heart is `Claimed`: a wire id that `session/new` made for an older session is no other
record's, nobody moves another record to it, and nobody resumes it as a session of its own.
Only then can `Aliases` say that the table and the records agree, but for the ids of a
race: a record on a foreign wire id is found under it, one on its own has no alias. `Locking`
(one call establishes a record, on a newer child than it was on) makes sessions move
forward only; `Owned` ties the record a call holds to the session it was asked for; `Fresh`
keeps a session just opened out of all other hands, until its tables are written;
`Mutes` lets no mute outlast the call that set it. For cancels, `Homes` says that
a session's wire ids belong to one directory, where one prompt runs at a time, and `Runs`
that a live run is that of a call which still waits for it on the current child: so a
call that gives up, and looks the session up again, can only find its own. The two dozen
actions and their many branches are first reduced to about twenty shapes (`StepShapes`), and
each part of the invariant is proved against the shapes.

`RestoredHolds` adds three invariants of its own: a session that the child holds without
its prompt has a record that knows none (`Known`, with `Bare` for those not recorded
yet), and what a call is about to send asks for the prompt when its child takes one
(`Ready`). Its hypothesis is that if any child takes system prompts, those that fork take them: relays start one agent binary again and again, so its children agree
unless the binary is replaced under them. Without it the theorem is false: `ForkSession`
reads the capabilities before it waits for a child, and TLC has a counterexample of four
calls (see the disagreements). The `sessions` run has agents beyond the hypothesis, whose
three calls do not suffice for that.

**Schedule.**

    IInv == TypeOK /\ Kept(items, …) /\ Kept(disk, …) /\ Running /\ Routed /\ Ahead /\ FileIsMemory

A restart turns the file into memory, so whatever is true of the items must be true of the
file (`Kept`, twice). `Routed` finds the conversation of a running fire under the name that
`Add` looks up, which is what bounds the depth of what it arms. `Ahead` has the slot an item
waits for after all that were claimed, so that none is claimed twice. `OnGrid` is arithmetic:
lemma `NextSlot` proves that `nextAfter` is the first slot of the grid to come, with the
least element of a set of numbers obtained by well-founded induction.

**MCP.**

    IInv == TypeOK /\ Locking /\ Books /\ Handshaken /\ Minted

`Books` follows a request: what `forward` holds was on no connection (`Unsent`), what is on
one is there once and was not carried out (`OnePlace`), what the host answers was
(`Earned`), and only what is pending is unanswered (`Replies`). Then each step of the proxy,
of the host and of the environment maps to `Ask`, `CarryOut`, `Result`, `Break` or a stutter
under the mapping of the module, lemma by lemma; that is `Promised`, the refinement without
`RequestReply`'s liveness. `Handshaken` says that whatever is on a connection before a call
contains the handshake, replayed or original; `Minted` that the token tables are inverse to
each other and that the blob is what was minted last.

**Model, logins and resets.**

    ControlIInv == Common /\ Deferrals /\ PushedChoices /\ Filing /\ LoginsKept

with `Common == ControlTyped /\ Roles /\ Names`: which goroutine does what (`Roles`), and that
a token names one conversation, and a turn goes by the token its conversation has or had last
(`Names`). `ChoiceIsKept`
needs that a session belongs to one conversation (`OwnSessions`), so that what a turn pushes
and marks is its own, and that a choice changed between the push and the mark is seen there
(`Pushing`). For the file, `Filing` has every saver of a conversation hold its newest choice
unless two savers met, which puts the conversation into `unsaved`. The logins have two halves.
`Holding` needs no hypothesis: a login is in at most one slot, and a call that got one from the
agent has it alone. `Slots` holds until two calls about the login of one token overlap, or the
token is renamed under one (`torn`): what each call read of its slot still holds (`CallsFit`),
a slot means a login that was neither finished nor cancelled (`SlotsHold`), and a login the
agent waits for is in a slot or in a call's hands (`OpenKnown`). A slot's session is `Valid`: it
is the conversation's, or a reset of the token is on its way to `dropSessionLogin`
(`Dropping`), or it is `lost`. A reset that comes to `dropSessionLogin` while a login of the
token is still being asked for does not see it; `lost` grows by that session there, and by
every session the GC reaps.

`DeferredByOwner` is about states and `ResetsItsOwn` about steps: a turn looks at what is
deferred in `EndTurn` and resets in a later one. `Deferrals` adds that what is deferred under
an unmixed token is some conversation's, without which a renaming could make an old request a
new conversation's, and `OwnTurn`: a turn, or the reset at its end, that goes by an unmixed
token is that of the conversation the token names. So `EndTurn` finds its own conversation's
request (`TurnAsks`), and the reset resolves the token to its own conversation (`ResetsOwn`).

**Operator updates.**

    FlowIInv   == LockedIInv \/ LooseIInv
    LockedIInv == FlowTypeOK /\ Fresh /\ Phases /\ Marked /\ Watched /\ OwnFiles /\ Results
                  /\ VerdictIsTrue

The lock is lost over a reload; what keeps two jobs apart is the marker. `Phases` says who
holds the lock, and that a running image without the lock has no marker; `Marked` that the
marker is the last request's; `Watched` that a job at work that nobody gave up, nor one before
it, is the one the marker names; `OwnFiles` that then its rc and pid files are its own, so that
the report is. `OneJob` follows from `Watched`: two such jobs would both be the marker's. All
this ends once an image watches a job without the lock. `LooseIInv` is what is left then: a
job g was watched so, the earlier ones are over or were given up themselves (`Loosened`), and
what was reported of them was true; of g and the later ones nothing is promised any more.
`PrevIsLast` is inductive by itself, with the types.

**Automatic updates.**

    AutoIInv == Ledger /\ Healthy /\ RelayFits /\ AgentFits

`Ledger` keeps two accounts of the failed gates, memory and file, because a crash turns one
into the other (`Remembers`, twice): each knows a failed release by its verdict, or by the
record that has the gate run again. `Healthy` says of every place a binary can come back from
(`img`, `relay`, `relayPrev`) that an unhealthy one is there only if its swap was cut off or
something failed beside its gate, or that the record on disk still covers it. `RelayFits` and
`AgentFits` say, each while its binary is not stray, that the one in place is the one that
runs, and that every record, in memory and in the file, which a rollback may read has in
`.prev` what it would put back (`RelayRecord`, `AgentRecord`, twice each). No count of crashes
or faults occurs in them.

What remains with TLC alone:

- Liveness, under fairness, and so ENABLED: all `~>` properties, and `NobodyWaits` in
  `AnsweredOnce`.
- `NothingStranded` of `ConvoQueue` for several waiters: false, as the theorem's hypothesis
  says.
- `WaitCancelledIsComplete` of `ConvoTurns` for overlapping or impatient waiters: false too.

## Where code and documentation part

Found while modelling and proving. Where a formula is named, it is in the module, and TLC
refutes it with the values, or without the part, that the first column gives; no run
checks that. The others are read off the actions.

| formula, values | the code | what is said of it |
|---|---|---|
| `ConvoTurns!SupersededNeverRuns`, 3 turns | A superseded turn can run: its predecessor ends between the unlock in `Supersede` and the cancel. | `CHANGELOG.md:65`, `convo/runner.go:52` |
| `ConvoTurns!WaitIdleIsComplete`, 1 turn, a canceller, a waiter | In Supersede mode `WaitIdle` does not see a stopped turn that unwinds. | `convo/runner.go:75` |
| `ConvoTurns!WaitCancelledIsComplete` for an impatient waiter, or for two, 1 turn | `WaitCancelled` takes the list of stopped turns (`active.go:257`); a second call, next to the first or after one that timed out, returns at once. | `convo/active.go:252` |
| `ConvoLanes!SerialQueuesBehindRunningTurn`, 1 job, 1 claim | In Serial mode a message that arrives during a claimed turn runs next to it. | `convo/convo.go:177-182` |
| `ConvoQueue!NothingStranded`, 1 item, 2 waiters | `idleCh` holds one token: of two goroutines in `WaitIdle` it wakes one and leaves the other to its timer. | `convo/queue.go:146` |
| `ConvoQueue!NoLostWakeup` without `~stopped`, 1 item, 1 waiter | `Stop` makes the queue idle and leaves `WaitIdle` to its timer. | `convo/queue.go:145` |
| `AgentSupervisor!DeadIsReplaced`, 1 fault, a closer | A child that exits between its answer to `initialize` and its installation (`supervise.go:267`) is installed dead and never replaced; `Close` then hangs. | `client/supervise.go:428` |
| `SessionState!ResetAlwaysSticks`, 2 callers | An insertion in flight (`state.go:192`) undoes a `Reset`; so does a restart. | `state/state.go:233` |
| `SessionState!LiveIsAlwaysWired`, 2 callers, 1 session | The loser of two concurrent resumes, or a GC between its two steps, drops the live session from the agent's tables. | `client/supervise.go:15` |
| `Schedule!OnlyTheGoneAreDropped`, 2 conversations | A claim made before a `Rekey` fires at the old token and removes the moved item (`schedule.go:487`). | `schedule/schedule.go:62` |
| `Schedule!ChainBounded` without `crossed`, 2 conversations | A turn fired before a `Rekey` arms items without its depth when the old token is used again. | `schedule/schedule.go:32` |
| `AgentSessions!HeardByItsSession` without `raced` | `adopt` puts the alias of a session back that was dropped during its recovery (`supervise.go:719`). | `client/agent.go:926` |
| `AgentSessions!HeardByItsSession` without `Haunted` | A call that still recovers a dropped session mutes its wire id (`supervise.go:676`) after another session got that id. | `client/agent.go:926` |
| `AgentSessions!PromptRestored` without `home` | A fork of a session that was dropped finds no system prompt to take over (`agent.go:783`). | – |
| `AgentSessions!PromptRestored` with agents `{"fork"}` and `{"fork", "stable", "resume"}`, 4 ids, 4 calls | `ForkSession` reads the capabilities before it waits for a child (`agent.go:772`); if the next child takes system prompts, the fork is made without one. `RestoredHolds` excludes this by its hypothesis. | `client/agent.go:768` |
| `ConvoControl!ChoiceIsKept` | A session re-created by `session/new` after a respawn keeps the id the relay knows (`supervise.go:690`), so its model is not pushed again. The module's turns never lose their child. | `convo/overrides.go:121` |
| `ConvoControl!FileIsChoice` without `unsaved` | Two saves of one conversation come in any order; a crash between the two saves of `Carry` (`overrides.go:118`), or a failure of the second, loses the choice. | `convo/overrides.go:90` |
| `ConvoControl!LoginSlotIsTrue` without `torn` | Two logins of one conversation both find no slot (`command.go:787`), the second overwrites the first; the end of one drops the slot of the other (`:832`). A renaming during a login call leaves that call with the old token. | `command/command.go:785` |
| `ConvoControl!LoginSlotIsTrue` without `lost`, 1 message, a reaped session | The idle GC drops a session (`state.go:268`) and leaves the slot of its `!mcp login`: the next message is taken for a paste for a session that is gone. | `command/actions.go:326` |
| `ConvoControl!LoginSlotIsTrue` without `lost`, 2 messages | A `!new` that comes while `!mcp login` waits for the agent's url finds no slot to drop (`actions.go:330`); the slot is filled afterwards (`mcplogin.go:151`), for the session the `!new` discarded. | `command/actions.go:326` |
| `ConvoControl!Concluded` | A paste or a cancel that the agent answers with an error empties the slot (`command.go:829-836`, `:851`; `actions.go:338`, `:366`): the agent may still wait for that login, and no message reaches it. | "must start over", `command/command.go:829` |
| `ConvoControl!Pasted` | While a login is pending every message but help and cancel is taken for its paste, commands too (`command.go:536-543`). | "any non-command text", `command/command.go:517` |
| `ConvoControl!AgentEnds` | A login that the agent's own listener finishes leaves its slot; the next message is taken for a paste. | – |
| `ConvoControl!DeferredByOwner`, `ResetsItsOwn` without `mixed`, relays with `Hooks.Reset` | `!new` replaces a conversation during its turn; the turn ends with `EndTurn(token)` (`relaytool.go:335`), which takes the request of the conversation that has the token now, and resets that one, maybe in mid-turn. A request made before the `!new` resets the new conversation too. | `relaytool/relaytool.go:33-48`, `:329` |
| `ConvoControl!DeferredByOwner` without `mixed`, a renaming | `wrap` resolves the token before the tool notes it; a renaming in between leaves the request under the old one (`relaytool.go:354`). | `relaytool/relaytool.go:310` |
| `ConvoControl!ResetsItsOwn` without `mixed`, a renaming | A renaming between `EndTurn`'s look and its `NewSession` (`relaytool.go:336-342`) leaves the reset with the old token, which a later conversation may have by then. | `relaytool/relaytool.go:310` |
| `PromptGuards!LateUpdate` | An attempt cut without an answer may speak into the next message's buffer (`refuse.go:65`). | – |
| `PromptGuards!Declined` | A message of content without text counts as empty, and is dropped (`abstain.go:45`). | "is empty", `client/abstain.go:25` |
| `AutoUpdate!UnhealthyIsRolledBack` without `torn` | A crash between the rename of the binary and the save of the record leaves the new image without a gate (`flow.go:342-353`). | – |
| `AutoUpdate!RestoredTogether` without `stray`, a crash or a fault | A crash, a failing copy or a failing rename (`flow.go:338-345`) after the agent was replaced (`flow.go:332`) leaves no record of it; the next apply copies the new agent over `AgentBin.prev` (`flow.go:328`), and its rollback brings the old relay back with the new agent. An update of the agent that fails may have replaced it just so. | `autoupdate/flow.go:320-327` |
| `AutoUpdate!RestoredTogether` without `stray`, a lost save | A save that fails leaves an older record in the file; the next apply overwrites the `.prev` files that record counts on. | – |
| `AutoUpdate!GatePasses` | The gate of an image that failed it runs again if the restore failed and the process died before the verdict was saved (`flow.go:408-414`); it may pass then. | – |
| `UpdateFlow!PrevIsLast` without `spoilt` | An `UpdateAgent` that fails after it replaced the binary costs the copy, which is removed (`update.go:405-408`); the old version is gone, and `.prev` is an older one. | `update/update.go:397` |
| `UpdateFlow!PrevIsLast` without `spoilt`, a death | A rollback that is cut short between its copy and its rename (`update.go:487-493`) leaves `.prev` equal to the agent. | `update/update.go:479` |
| `UpdateFlow!OneJob`, `RequesterHears` without `unlocked` | An image that cannot take the lock again watches the job all the same (`update.go:670`). The lock is not its own then, and is free when its holder is done: the next request may start a job beside this one, and each watcher may remove the other's marker. | `update/update.go:666` |
| `AutoUpdate`, `UpdateFlow` | An automatic apply does not take `update.lock`: both may swap the binaries. | – |
| `terminal` (not modelled) | `StartBackground` checks the limit before the terminal exists and counts it after (`terminal.go:200`). `Exec` without a timeout returns the wait's error when its context ends, and releases the terminal without killing it. | `terminal/terminal.go:128` |

## What is not modelled

Of the modelled parts: payloads, prompts, errors' texts, logging; the values of
backoff and timeouts (a timer may fire whenever its wait allows it); the agent
beyond what the calls can return. `SessionState` leaves out checkpoints and the
working directories, which are single files with one writer. `AgentSessions` leaves out
statistics and notices. `ConvoControl` leaves out the filters, the commands that only
read, and the loss of a child under a turn. `AutoUpdate` leaves out quiet hours, which only delay a tick, and the
texts of posts, `UpdateFlow` downloads and the output of the version commands.

Of the system: `terminal` keeps records of subprocesses; its one hard spot, the limit of
background commands, is a check and a count around an unlocked call, so there is no
invariant that the code keeps. `attachments`, `skills`, `remotefs`, `state/meta.go` are
file or process I/O; `statusline`, `sysprompt`, `paths`, `log`, `origin`,
`convo/liveness.go` and the client's conversions (`auth`, `ext`, `models`, `notice`,
`permission`, `sessionstats`, `sysprompt`) have no state that changes;
`command/resolve.go`, `table.go` and `skill.go` match and render text; `probe` is one
goroutine with a retry loop.

## What is left

The liveness properties (`DisplacedTurnsUnwind`, `EveryJobRuns`, `AcceptedItemsLeave`,
`EverybodyReturns`, `DueIsClaimed`, `HandOverEnds`, `TurnsEnd`, `BackInService`,
`UpdatesEnd`) have no proof: each would be a chain of leads-to lemmas under the fairness
above, which the installed back ends cannot start, for want of ENABLED. Of the parts that
are not modelled, the background terminals are the ones with state; their limit is not an
invariant of the code.

## How to run

    tlc -config ConvoTurns.cfg ConvoTurns
    tlc -config SessionState.cfg MCSessionState
    for m in *Proofs.tla; do tlapm $m; done

`PROJECT.json` lists, for each configuration, its module and properties, the lines
of the repository each definition translates, the mutants, the hazards and the
theorems. `AgentSessionsProofs` and `ConvoProofs` take the prover some ten minutes each, the others less.
