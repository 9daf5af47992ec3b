---------------------------- MODULE PromptGuards ----------------------------
(***************************************************************************)
(* The two guards a relay puts around one prompt: client.TurnLiveness, which *)
(* cuts a turn that makes no progress, and client.ValidatingSink, which      *)
(* holds the agent's message back until PromptValidated or                   *)
(* PromptAbstainable has judged it.                                          *)
(*                                                                           *)
(* The relay arms the clock, runs the prompt on the context it gets and      *)
(* installs clock.Wrap(sink) for the session, as client/liveness.go asks.    *)
(* Three goroutines meet here: the turn's loop, the connection's reader that *)
(* calls OnUpdate, and the runtime's timers.  A timer's callback is a        *)
(* goroutine: between the expiry and the lock of fire() anything may happen, *)
(* and between that lock and the cancellation of the context again.          *)
(*                                                                           *)
(* Time is kept relative to the turn: how long it has run, how long ago the  *)
(* last progress was, what is left on the timer.  Timers may be late.  A     *)
(* chunk is named by its attempt and by what the validator or the sentinel   *)
(* makes of it.  An agent says nothing of an attempt after its answer to it  *)
(* (the SDK handles a connection's messages in order); an attempt abandoned  *)
(* without an answer may still speak, into the sink of a later turn.         *)
(***************************************************************************)
EXTENDS Integers, Sequences, SequencesExt

CONSTANTS
    Window,        \* NoProgressTimeout, in ticks
    Ceilings,      \* what MaxTurnDuration may be, in ticks; 0 is no ceiling
    MaxRefusals,   \* RefuseConfig.MaxRefusals
    MaxTurns,      \* bound: turns of the session
    MaxUpdates,    \* bound: message chunks of one attempt
    MaxStale,      \* bound: updates of abandoned attempts still to come
    MaxFires       \* bound: expired callbacks waiting for the lock

ASSUME GuardsAssumption ==
    /\ Window \in Nat \ {0} /\ Ceilings \subseteq Nat /\ MaxRefusals \in Nat
    /\ MaxTurns \in Nat /\ MaxUpdates \in Nat /\ MaxStale \in Nat
    /\ MaxFires \in Nat \ {0}

Off == -1          \* a timer that is stopped or has fired

Modes == {"validate", "fallback", "abstain"}

(* What an update can be: three kinds of message chunk (text that passes, text
   the validator refuses or that is the sentinel, content without text), a
   thought or tool call, and bookkeeping such as a plan. *)
Message == {"plain", "marked", "image"}
Updates == Message \cup {"thought", "plan"}

Abandoned == -1    \* the attempt of a chunk nobody waits for

\* The chunks of a validator's text, of the turn's own attempts, and all.
TextKinds == {"plain", "marked", "mended"}
OwnChunks == [turn : 1..MaxTurns, attempt : 0..MaxRefusals, kind : Message \cup {"mended"}]
TextChunks == [turn : 1..MaxTurns, attempt : Abandoned..MaxRefusals, kind : TextKinds]
Chunks == [turn : 1..MaxTurns, attempt : Abandoned..MaxRefusals, kind : Message \cup {"mended"}]

\* What remains of the first chunks when only those of K are kept.
Sieve(chunks, K) ==
    LET kept[n \in 0..Len(chunks)] ==
            IF n = 0 THEN <<>>
            ELSE IF chunks[n] \in K THEN Append(kept[n - 1], chunks[n]) ELSE kept[n - 1]
    IN  kept

Only(chunks, K) == Sieve(chunks, K)[Len(chunks)]

VARIABLES
    turn, mode, phase,    \* the turn, how it is guarded, where its loop stands
    refusals, outcome,    \* the RefuseResult or AbstainResult so far
    buf,                  \* the ValidatingSink's buffer
    delivered,            \* what of this turn has reached the downstream sink
    said, updates, reply, \* the agent: this attempt's chunks, their number, answer
    stale, mixed,         \* updates abandoned attempts owe; one came this turn
    quiet, timer, settled,\* the TurnLiveness: since lastProgress, timer, done
    fires,                \* expired callbacks that have not got the lock yet
    verdict, cause,       \* the cause fire() settled on; the context's cause
    ceiling, age,         \* the relay's ceiling and the turn's age
    silence               \* history: ticks since progress reached the live clock

loop  == <<turn, mode, phase, refusals, outcome>>
sink  == <<buf, delivered>>
agent == <<said, updates, reply>>
late  == <<stale, mixed>>
clock == <<quiet, timer, settled, verdict, silence>>
ctx   == <<fires, cause, ceiling, age>>
guardsVars  == <<loop, sink, agent, late, clock, ctx>>

GuardsTypeOK ==
    /\ turn \in 0..MaxTurns /\ mode \in Modes /\ refusals \in Nat
    /\ phase \in {"over", "start", "asking", "unwinding", "answered",
                  "accepted", "exhausted", "fallback"}
    /\ outcome \in {"none", "ok", "abstained", "fellback", "exhausted", "error"}
    /\ reply \in {"none", "ok", "error"} /\ stale \in 0..MaxStale
    /\ quiet \in 0..Window /\ timer \in {Off} \cup 0..Window /\ silence \in 0..Window
    /\ fires \in Nat /\ settled \in BOOLEAN /\ mixed \in BOOLEAN
    /\ verdict \in {"none", "wedged", "stopped"}
    /\ cause \in {"none", "wedged", "stopped", "ceiling", "parent"}

GuardsInit ==
    /\ turn = 0 /\ mode = "validate" /\ phase = "over" /\ refusals = 0
    /\ outcome = "none" /\ buf = <<>> /\ delivered = <<>> /\ said = <<>>
    /\ updates = 0 /\ reply = "none" /\ stale = 0 /\ mixed = FALSE
    /\ quiet = 0 /\ timer = Off /\ settled = TRUE /\ fires = 0 /\ verdict = "stopped"
    /\ cause = "stopped" /\ ceiling \in Ceilings /\ age = 0 /\ silence = 0

-----------------------------------------------------------------------------
(* The clock. *)

(* Arm: StartTurnLiveness for the next turn, once the last one's stop has
   run and its context has ended. *)
Arm ==
    /\ phase = "over" /\ settled /\ cause # "none" /\ turn < MaxTurns
    /\ turn' = turn + 1 /\ mode' \in Modes
    /\ phase' = "start" /\ refusals' = 0 /\ outcome' = "none"
    /\ quiet' = 0 /\ silence' = 0 /\ timer' = Window /\ fires' = 0
    /\ settled' = FALSE /\ verdict' = "none" /\ cause' = "none" /\ age' = 0
    /\ delivered' = <<>> /\ mixed' = FALSE
    /\ said' = <<>> /\ updates' = 0 /\ reply' = "none"
    /\ UNCHANGED <<buf, stale, ceiling>>

(* A tick of the clock. *)
Tick ==
    /\ phase # "over"
    /\ quiet' = IF quiet < Window /\ ~settled THEN quiet + 1 ELSE quiet
    /\ silence' = IF silence < Window /\ ~settled THEN silence + 1 ELSE silence
    /\ age' = IF age < ceiling THEN age + 1 ELSE age
    /\ timer' = IF timer > 0 THEN timer - 1 ELSE timer
    /\ UNCHANGED <<loop, sink, agent, late, settled, verdict, fires, cause, ceiling>>

(* The timer expires: its callback is on its way to fire's lock. *)
Expire ==
    /\ timer = 0 /\ fires < MaxFires
    /\ timer' = Off /\ fires' = fires + 1
    /\ UNCHANGED <<loop, sink, agent, late, quiet, settled, verdict, silence, cause,
                   ceiling, age>>

(* fire's end, under the lock; what the clock measured is of no use any more. *)
Settle(v) ==
    settled' = TRUE /\ verdict' = v /\ timer' = Off /\ quiet' = Window /\ silence' = Window

(* fire(ErrNoProgress): under the lock the deadline is checked again. *)
\* Mutant: the callback that lost the race against progress is not noticed.
FireWedged_NoRecheck ==
    /\ fires > 0 /\ fires' = fires - 1
    /\ IF settled THEN UNCHANGED clock ELSE Settle("wedged")
    /\ UNCHANGED <<loop, sink, agent, late, cause, ceiling, age>>

FireWedged ==
    /\ fires > 0 /\ fires' = fires - 1
    /\ IF settled THEN UNCHANGED clock
       ELSE IF quiet < Window
       THEN timer' = Window - quiet /\ UNCHANGED <<quiet, settled, verdict, silence>>
       ELSE Settle("wedged")
    /\ UNCHANGED <<loop, sink, agent, late, cause, ceiling, age>>

(* The stop function, called by a user's stop at any time and by the relay
   when the turn is over. *)
FireStopped ==
    /\ ~settled
    /\ Settle("stopped")
    /\ UNCHANGED <<loop, sink, agent, late, ctx>>

(* fire's last lines: after the unlock the context is cancelled, which is a
   no-op when the ceiling or the parent was first. *)
CancelContext ==
    /\ verdict # "none" /\ cause = "none"
    /\ cause' = verdict
    /\ UNCHANGED <<loop, sink, agent, late, clock, fires, ceiling, age>>

(* The base context's deadline, and its end: both go past the clock. *)
CeilingReached ==
    /\ phase # "over" /\ cause = "none"
    /\ ceiling > 0 /\ age = ceiling
    /\ cause' = "ceiling"
    /\ UNCHANGED <<loop, sink, agent, late, clock, fires, ceiling, age>>

ParentEnds ==
    /\ phase # "over" /\ cause = "none"
    /\ cause' = "parent"
    /\ UNCHANGED <<loop, sink, agent, late, clock, fires, ceiling, age>>

\* Mutant: bookkeeping counts.
IsProgress_Any(u) == u \in Updates

(* IsProgress: agent output and tool calls, no bookkeeping. *)
IsProgress(u) == u # "plan"

\* Mutant: an update re-arms the timer of a turn that is settled.
Progress_Settled(u) ==
    /\ silence' = IF u = "plan" \/ settled THEN silence ELSE 0
    /\ UNCHANGED <<settled, verdict>>
    /\ IF IsProgress(u) THEN quiet' = 0 /\ timer' = Window ELSE UNCHANGED <<quiet, timer>>

(* Progress, under the clock's lock; silence records the update itself. *)
Progress(u) ==
    /\ silence' = IF u = "plan" \/ settled THEN silence ELSE 0
    /\ UNCHANGED <<settled, verdict>>
    /\ IF IsProgress(u) /\ ~settled THEN quiet' = 0 /\ timer' = Window
                                 ELSE UNCHANGED <<quiet, timer>>

-----------------------------------------------------------------------------
(* The sink and the agent's updates. *)

Chunk(a, u) == [turn |-> turn, attempt |-> a, kind |-> u]

(* ValidatingSink.OnUpdate behind the clock's sink: chunks are kept, the rest
   passes. *)
OnUpdate(a, u) ==
    /\ Progress(u)
    /\ buf' = IF u \in Message THEN Append(buf, Chunk(a, u)) ELSE buf

(* The agent reports on the attempt it was asked for, as often as it likes:
   thoughts, tool calls and plans have no bound. *)
Update(u) ==
    /\ phase \in {"asking", "unwinding"} /\ reply = "none"
    /\ u \in Message => updates < MaxUpdates
    /\ OnUpdate(refusals, u)
    /\ updates' = IF u \in Message THEN updates + 1 ELSE updates
    /\ said' = IF u \in Message THEN Append(said, Chunk(refusals, u)) ELSE said
    /\ UNCHANGED <<loop, delivered, reply, late, ctx>>

(* An abandoned attempt still speaks, into this turn's sink. *)
LateUpdate(u) ==
    /\ stale > 0 /\ phase # "over" /\ u # "plan"
    /\ stale' = stale - 1 /\ mixed' = TRUE
    /\ OnUpdate(Abandoned, u)
    /\ UNCHANGED <<loop, delivered, agent, ctx>>

(* The agent answers the prompt, or the request fails. *)
Answer ==
    /\ phase \in {"asking", "unwinding"} /\ reply = "none"
    /\ reply' \in {"ok", "error"}
    /\ UNCHANGED <<loop, sink, said, updates, late, clock, ctx>>

(* ValidatingSink.reset, which Drop is another name of. *)
\* Mutant: the next attempt is gathered behind the refused one.
Reset_Not == buf' = buf

Reset == buf' = <<>>

Text(chunks) == Only(chunks, TextChunks)
Kinds(chunks) == {chunks[i].kind : i \in DOMAIN chunks}

(* The validator's verdict on a text, and the sentinel's. *)
Valid(text) == "marked" \notin Kinds(text)
Declined(text) == text = <<>> \/ (Len(text) = 1 /\ ~Valid(text))

-----------------------------------------------------------------------------
(* The turn's loop: PromptTurn, PromptValidated, PromptAbstainable. *)

Over(o) == phase' = "over" /\ outcome' = o

(* The loop's head: the sink is reset, and the prompt is sent. *)
Ask ==
    /\ phase = "start"
    /\ phase' = "asking" /\ Reset
    /\ said' = <<>> /\ updates' = 0 /\ reply' = "none"
    /\ UNCHANGED <<turn, mode, refusals, outcome, delivered, late, clock, ctx>>

(* promptTurn returns the answer, or its error. *)
Answered ==
    /\ phase = "asking" /\ reply # "none"
    /\ IF reply = "ok" THEN phase' = "answered" /\ outcome' = outcome ELSE Over("error")
    /\ UNCHANGED <<turn, mode, refusals, sink, agent, late, clock, ctx>>

(* The context has ended first: session/cancel is sent. *)
Cut ==
    /\ phase = "asking" /\ cause # "none"
    /\ phase' = "unwinding"
    /\ UNCHANGED <<turn, mode, refusals, outcome, sink, agent, late, clock, ctx>>

(* The agent has answered the cancelled prompt, or the grace is over. *)
Unwound ==
    /\ phase = "unwinding"
    /\ Over("error")
    /\ stale' = IF reply = "none" THEN MaxStale ELSE stale
    /\ UNCHANGED <<turn, mode, refusals, sink, agent, mixed, clock, ctx>>

(* PromptValidated judges the text: it goes out, it is asked for again, or
   the refusals are used up. *)
Validate ==
    /\ phase = "answered" /\ mode # "abstain"
    /\ IF Valid(Text(buf)) THEN phase' = "accepted" /\ UNCHANGED <<refusals, buf>>
       ELSE IF refusals >= MaxRefusals
       THEN /\ phase' = IF mode = "fallback" THEN "fallback" ELSE "exhausted"
            /\ UNCHANGED <<refusals, buf>>
       ELSE phase' = "start" /\ refusals' = refusals + 1 /\ Reset
    /\ UNCHANGED <<turn, mode, outcome, delivered, agent, late, clock, ctx>>

(* PromptAbstainable: silence, or the sentinel alone, is not delivered. *)
Abstain ==
    /\ phase = "answered" /\ mode = "abstain"
    /\ IF Declined(Text(buf)) THEN Over("abstained") /\ Reset
       ELSE phase' = "accepted" /\ UNCHANGED <<outcome, buf>>
    /\ UNCHANGED <<turn, mode, refusals, delivered, agent, late, clock, ctx>>

(* Commit: the buffer is taken under the lock and flushed in order, until the
   downstream sink fails. *)
Commit ==
    /\ phase \in {"accepted", "exhausted"}
    /\ Reset
    /\ \E n \in 0..Len(buf) :
        /\ delivered' = SubSeq(buf, 1, n)
        /\ Over(IF n < Len(buf) THEN "error"
                ELSE IF phase = "accepted" THEN "ok" ELSE "exhausted")
    /\ UNCHANGED <<turn, mode, refusals, agent, late, clock, ctx>>

(* CommitText: one chunk with the mended text replaces the buffer. *)
CommitText ==
    /\ phase = "fallback"
    /\ Reset
    /\ \/ delivered' = <<Chunk(refusals, "mended")>> /\ Over("fellback")
       \/ delivered' = delivered /\ Over("error")
    /\ UNCHANGED <<turn, mode, refusals, agent, late, clock, ctx>>

-----------------------------------------------------------------------------
Loop  == Ask \/ Answered \/ Cut \/ Unwound \/ Validate \/ Abstain \/ Commit \/ CommitText

GuardsNext ==
    \/ Arm
    \/ Tick
    \/ Expire
    \/ FireWedged
    \/ FireStopped
    \/ CancelContext
    \/ CeilingReached
    \/ ParentEnds
    \/ \E u \in Updates : Update(u)
    \/ \E u \in Updates : LateUpdate(u)
    \/ Answer
    \/ Ask
    \/ Answered
    \/ Cut
    \/ Unwound
    \/ Validate
    \/ Abstain
    \/ Commit
    \/ CommitText

GuardsSpec == GuardsInit /\ [][GuardsNext]_guardsVars

(* Time passes, the runtime runs timers that are due (a context's deadline is
   one) and callbacks that are ready, and the turn's goroutine goes on where it can.  The agent owes
   nothing, and the relay need not stop or start a turn. *)
GuardsFairness ==
    /\ WF_guardsVars(Tick) /\ WF_guardsVars(Expire) /\ WF_guardsVars(FireWedged)
    /\ WF_guardsVars(CancelContext) /\ WF_guardsVars(CeilingReached)
    /\ WF_guardsVars(Loop)

GuardsFairSpec == GuardsSpec /\ GuardsFairness

-----------------------------------------------------------------------------
(* Properties. *)

(* A turn is cut as wedged only after a whole window without progress, even
   when the timer expires as an update arrives (fire, client/liveness.go). *)
WedgedIsTrue == [][settled # settled' /\ verdict' = "wedged" => silence >= Window]_guardsVars

(* A settled clock stays settled: no update re-arms its timer, and the cause
   it cut the turn for is the one the relay reads unless its own context
   ended first. *)
SettledForGood ==
    settled => /\ timer = Off
               /\ cause \in {"wedged", "stopped"} => cause = verdict

(* The chunks of the turn's own attempts. *)
Own(chunks) == Only(chunks, OwnChunks)

(* A turn is cut for a true reason, once. *)
CutsAreTrue == WedgedIsTrue /\ []SettledForGood

(* No refused attempt reaches the user: what is delivered is all the agent
   said in its last attempt, accepted, or its mended form, or after the last
   refusal and without a fallback the last attempt as it is; a failing sink
   cuts it short, and an agent that declines stays silent. *)
OnlyTheVerdictIsDelivered ==
    /\ refusals <= MaxRefusals
    /\ outcome = "ok" => Own(delivered) = said /\ (mode # "abstain" => Valid(Text(said)))
    /\ outcome = "exhausted" => Own(delivered) = said /\ refusals = MaxRefusals /\ mode = "validate"
    /\ outcome = "fellback" => Own(delivered) = <<Chunk(refusals, "mended")>> /\ mode = "fallback"
    /\ outcome = "error" => IsPrefix(Own(delivered), said)
    /\ outcome = "abstained" => delivered = <<>>
    /\ outcome \in {"ok", "abstained"} /\ mode = "abstain" /\ ~mixed =>
        (outcome = "abstained" <=> Declined(Text(said)))

(* An update that counts as progress reaches the turn's sink. *)
MakesProgress == \E u \in Updates \ {"plan"} : Update(u) \/ LateUpdate(u)

(* A turn ends: it is answered, runs out of refusals or is cut, and
   bookkeeping does not keep a silent agent's turn alive.  The one turn that
   may go on for ever is the one liveness.go:51-59 lets go on: no ceiling is
   set and the agent makes progress again and again. *)
TurnsEnd ==
    \/ phase = "start" ~> phase = "over"
    \/ ceiling = 0 /\ []<><<MakesProgress>>_guardsVars
=============================================================================
