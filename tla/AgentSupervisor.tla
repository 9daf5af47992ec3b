-------------------------- MODULE AgentSupervisor --------------------------
(* One AgentProc of client/supervise.go: the child processes it spawns one  *)
(* after the other, their reapers, the supervisor that replaces a child     *)
(* that died, Close, and the callers that wait for a live child and send it *)
(* a request.                                                               *)
(*                                                                          *)
(* Generations are numbered in the order in which their children start.  A  *)
(* spawner is the goroutine in spawn: Start for 0, and for g the supervise  *)
(* that generation g's exit started.                                        *)
EXTENDS Naturals, FiniteSets, FiniteSetsExt

CONSTANTS
    MaxFaults,    \* bound: how often a child, a handshake or a start goes wrong
    Closers,      \* goroutines that call Close
    Callers       \* goroutines that send requests

ASSUME MaxFaultsAssumption == MaxFaults \in Nat

Gens == 1..(MaxFaults + 1)   \* every fault is followed by one more child
None == 0                    \* the nil gen
Start == 0                   \* the spawner that is Start itself
Spawners == {Start} \cup Gens

VARIABLES
    respawn,  \* AgentProc.respawn: Config.NoRespawn is not set
    child,    \* the OS process of each generation
    reaper,   \* the goroutine in reap; past "wait" gen.done is closed
    exit,     \* gen.err, valid once gen.done is closed
    cur,      \* AgentProc.cur
    installs, \* AgentProc.genSeq; each one closes the genCh before it
    spawner,  \* the goroutines in spawn and supervise
    closing,  \* AgentProc.closing
    closeCh,  \* AgentProc.closeCh is closed
    ctxDone,  \* the context given to Start has ended
    done,     \* AgentProc.done is closed
    err,      \* AgentProc.exitErr
    closer,   \* the callers of Close
    caller,   \* the callers of rpc
    faults    \* faults so far, for the bound

vars == <<respawn, child, reaper, exit, cur, installs, spawner, closing, closeCh, ctxDone,
          done, err, closer, caller, faults>>
procVars == <<child, reaper, exit>>
lifeVars == <<closing, closeCh, ctxDone, done, err>>

TypeOK ==
    /\ respawn \in BOOLEAN
    /\ child \in [Gens -> {"none", "up", "mute", "doomed", "exited"}]
    /\ reaper \in [Gens -> {"none", "wait", "onExit", "react", "decide", "over"}]
    /\ exit \in [Gens -> {"none", "closed", "exited"}]
    /\ cur \in Gens \cup {None} /\ installs \in 0..(MaxFaults + 1)
    /\ spawner \in [Spawners -> [pc: {"off", "backoff", "spawn", "handshake", "install",
                                      "abort", "over", "failed"},
                                 gen: Gens \cup {None}]]
    /\ closing \in BOOLEAN /\ closeCh \in BOOLEAN /\ ctxDone \in BOOLEAN /\ done \in BOOLEAN
    /\ err \in {"none", "closed", "exited", "ctx"}
    /\ closer \in [Closers -> {"idle", "mark", "reread", "grace", "await", "returned"}]
    /\ caller \in [Callers -> [pc: {"idle", "live", "wait", "call", "reap"},
                               gen: Gens \cup {None}, seen: 0..(MaxFaults + 1)]]
    /\ faults \in 0..MaxFaults

Init ==
    /\ respawn \in BOOLEAN
    /\ child = [g \in Gens |-> "none"]
    /\ reaper = [g \in Gens |-> "none"]
    /\ exit = [g \in Gens |-> "none"]
    /\ cur = None
    /\ installs = 0
    /\ spawner = [s \in Spawners |-> [pc |-> IF s = Start THEN "spawn" ELSE "off", gen |-> None]]
    /\ closing = FALSE /\ closeCh = FALSE /\ ctxDone = FALSE /\ done = FALSE
    /\ err = "none"
    /\ closer = [c \in Closers |-> "idle"]
    /\ caller = [k \in Callers |-> [pc |-> "idle", gen |-> None, seen |-> 0]]
    /\ faults = 0

-----------------------------------------------------------------------------
Alive(g) == child[g] \in {"up", "mute", "doomed"}

\* gen.dead: the reaper has closed gen.done.
Dead(g) == reaper[g] \in {"onExit", "react", "decide", "over"}

\* Process.Kill and CommandContext's kill; a child that has exited stays so.
Killed(ch, gs) == [g \in Gens |-> IF g \in gs /\ Alive(g) THEN "doomed" ELSE ch[g]]

\* Start has returned its AgentProc.
Ready == spawner[Start].pc = "over"

Fault == faults < MaxFaults /\ faults' = faults + 1

\* finish: the first call wins.
Finish(why) ==
    /\ done' = TRUE
    /\ err' = IF done THEN err ELSE why

-----------------------------------------------------------------------------
(* The children.                                                            *)

\* A child exits of itself.
ChildExits(g) ==
    /\ child[g] \in {"up", "mute"}
    /\ Fault
    /\ child' = [child EXCEPT ![g] = "exited"]
    /\ UNCHANGED <<respawn, reaper, exit, cur, installs, spawner, lifeVars, closer, caller>>

\* A child's stdio breaks, or it stops talking, without an exit.
ChildMutes(g) ==
    /\ child[g] = "up"
    /\ Fault
    /\ child' = [child EXCEPT ![g] = "mute"]
    /\ UNCHANGED <<respawn, reaper, exit, cur, installs, spawner, lifeVars, closer, caller>>

\* A child that was killed, or obeys the interrupt, exits.
ChildGoes(g) ==
    /\ child[g] = "doomed"
    /\ child' = [child EXCEPT ![g] = "exited"]
    /\ UNCHANGED <<respawn, reaper, exit, cur, installs, spawner, lifeVars, closer, caller, faults>>

\* The context given to Start ends; CommandContext kills the child.
CtxEnds ==
    /\ ~ctxDone
    /\ ctxDone' = TRUE
    /\ child' = Killed(child, Gens)
    /\ UNCHANGED <<respawn, reaper, exit, cur, installs, spawner, closing, closeCh, done, err,
                   closer,
                   caller, faults>>

-----------------------------------------------------------------------------
(* The reaper of each child.                                                *)

\* Mutant: the exit is not classified.
Reap_Unclassified(g) ==
    /\ reaper[g] = "wait"
    /\ child[g] = "exited"
    /\ exit' = [exit EXCEPT ![g] = "exited"]
    /\ reaper' = [reaper EXCEPT ![g] = "onExit"]
    /\ UNCHANGED <<respawn, child, cur, installs, spawner, lifeVars, closer, caller, faults>>

\* cmd.Wait returns: the exit is classified and gen.done closed.
Reap(g) ==
    /\ reaper[g] = "wait"
    /\ child[g] = "exited"
    /\ exit' = [exit EXCEPT ![g] = IF closing THEN "closed" ELSE "exited"]
    /\ reaper' = [reaper EXCEPT ![g] = "onExit"]
    /\ UNCHANGED <<respawn, child, cur, installs, spawner, lifeVars, closer, caller, faults>>

\* Mutant: any child's exit matters.
OnExit_AnyChild(g) ==
    /\ reaper[g] = "onExit"
    /\ reaper' = [reaper EXCEPT ![g] = "react"]
    /\ UNCHANGED <<respawn, child, exit, cur, installs, spawner, lifeVars, closer, caller, faults>>

\* Only the current generation's exit matters, read under the lock.
OnExit(g) ==
    /\ reaper[g] = "onExit"
    /\ reaper' = [reaper EXCEPT ![g] = IF cur = g THEN "react" ELSE "over"]
    /\ UNCHANGED <<respawn, child, exit, cur, installs, spawner, lifeVars, closer, caller, faults>>

\* onExit after Close: permanently gone.
ReactClosed(g) ==
    /\ reaper[g] = "react"
    /\ IF closing
       THEN Finish("closed") /\ reaper' = [reaper EXCEPT ![g] = "over"]
       ELSE UNCHANGED <<done, err>> /\ reaper' = [reaper EXCEPT ![g] = "decide"]
    /\ UNCHANGED <<respawn, child, exit, cur, installs, spawner, closing, closeCh, ctxDone, closer,
                   caller,
                   faults>>

\* The end of onExit: without supervision the exit is the verdict, with it a
\* supervisor starts.
React(g) ==
    /\ reaper[g] = "decide"
    /\ reaper' = [reaper EXCEPT ![g] = "over"]
    /\ IF respawn
       THEN /\ spawner' = [spawner EXCEPT ![g].pc = "backoff"]
            /\ UNCHANGED <<done, err>>
       ELSE Finish(exit[g]) /\ UNCHANGED spawner
    /\ UNCHANGED <<respawn, child, exit, cur, installs, closing, closeCh, ctxDone, closer, caller,
                   faults>>

-----------------------------------------------------------------------------
(* The supervisor and spawn.                                                *)

\* The select of supervise: Close and the context end it, the timer spawns.
BackoffClosed(s) ==
    /\ spawner[s].pc = "backoff"
    /\ closeCh
    /\ Finish("closed")
    /\ spawner' = [spawner EXCEPT ![s].pc = "over"]
    /\ UNCHANGED <<respawn, procVars, cur, installs, closing, closeCh, ctxDone, closer, caller,
                   faults>>

BackoffCtx(s) ==
    /\ spawner[s].pc = "backoff"
    /\ ctxDone
    /\ Finish("ctx")
    /\ spawner' = [spawner EXCEPT ![s].pc = "over"]
    /\ UNCHANGED <<respawn, procVars, cur, installs, closing, closeCh, ctxDone, closer, caller,
                   faults>>

BackoffOver(s) ==
    /\ spawner[s].pc = "backoff"
    /\ spawner' = [spawner EXCEPT ![s].pc = "spawn"]
    /\ UNCHANGED <<respawn, procVars, cur, installs, lifeVars, closer, caller, faults>>

\* What the goroutine does with spawn's error: Start returns it, supervise
\* finishes if Close was called and tries again otherwise.
SpawnFailed(s) ==
    IF s = Start
    THEN /\ spawner' = [spawner EXCEPT ![s].pc = "failed"]
         /\ UNCHANGED <<done, err>>
    ELSE IF closing
    THEN /\ Finish("closed")
         /\ spawner' = [spawner EXCEPT ![s].pc = "over"]
    ELSE /\ spawner' = [spawner EXCEPT ![s] = [pc |-> "backoff", gen |-> None]]
         /\ UNCHANGED <<done, err>>

\* No pipes, no process: exec refuses to start one once the context ended.
SpawnFails(s) ==
    /\ spawner[s].pc = "spawn"
    /\ \/ ctxDone /\ UNCHANGED faults
       \/ ~ctxDone /\ Fault
    /\ SpawnFailed(s)
    /\ UNCHANGED <<respawn, procVars, cur, installs, closing, closeCh, ctxDone, closer, caller>>

\* The process starts, its reaper with it, and initialize is sent.
SpawnStarts(s) ==
    /\ spawner[s].pc = "spawn"
    /\ ~ctxDone
    /\ \E g \in Gens :
          /\ child[g] = "none"
          /\ \A h \in 1..(g - 1) : child[h] # "none"
          /\ child' = [child EXCEPT ![g] = "up"]
          /\ reaper' = [reaper EXCEPT ![g] = "wait"]
          /\ spawner' = [spawner EXCEPT ![s] = [pc |-> "handshake", gen |-> g]]
    /\ UNCHANGED <<respawn, exit, cur, installs, lifeVars, closer, caller, faults>>

\* The child answers initialize, and may even after Close cancelled it.
HandshakeAnswered(s) ==
    /\ spawner[s].pc = "handshake"
    /\ child[spawner[s].gen] = "up"
    /\ spawner' = [spawner EXCEPT ![s].pc = "install"]
    /\ UNCHANGED <<respawn, procVars, cur, installs, lifeVars, closer, caller, faults>>

\* initialize fails: the child is dead or mute, the context (which Close
\* cancels for a supervisor) ended, or the child answered an error or nothing
\* within the handshake's timeout.  The child is killed.
HandshakeFails(s) ==
    LET g == spawner[s].gen IN
    /\ spawner[s].pc = "handshake"
    /\ \/ /\ Dead(g) \/ child[g] = "mute" \/ ctxDone \/ (closeCh /\ s # Start)
          /\ UNCHANGED faults
       \/ child[g] = "up" /\ Fault
    /\ child' = Killed(child, {g})
    /\ spawner' = [spawner EXCEPT ![s].pc = "abort"]
    /\ UNCHANGED <<respawn, reaper, exit, cur, installs, lifeVars, closer, caller>>

\* Mutant: nobody waits for the reaper.
Abort_NoWait(s) ==
    /\ spawner[s].pc = "abort"
    /\ SpawnFailed(s)
    /\ UNCHANGED <<respawn, procVars, cur, installs, closing, closeCh, ctxDone, closer, caller,
                   faults>>

\* The rest of spawn's error path: <-g.done, and the error is returned.
Abort(s) ==
    /\ spawner[s].pc = "abort"
    /\ Dead(spawner[s].gen)
    /\ SpawnFailed(s)
    /\ UNCHANGED <<respawn, procVars, cur, installs, closing, closeCh, ctxDone, closer, caller,
                   faults>>

\* Mutant: Close is not looked at.
Install_IgnoresClose(s) ==
    LET g == spawner[s].gen IN
    /\ spawner[s].pc = "install"
    /\ cur' = g
    /\ installs' = installs + 1
    /\ spawner' = [spawner EXCEPT ![s].pc = "over"]
    /\ UNCHANGED <<respawn, procVars, lifeVars, closer, caller, faults>>

\* The end of attach, under the lock: the generation becomes current and the
\* goroutines in live are woken, unless Close won the race.
Install(s) ==
    LET g == spawner[s].gen IN
    /\ spawner[s].pc = "install"
    /\ IF closing
       THEN /\ child' = Killed(child, {g})
            /\ spawner' = [spawner EXCEPT ![s].pc = "abort"]
            /\ UNCHANGED <<cur, installs>>
       ELSE /\ cur' = g
            /\ installs' = installs + 1
            /\ spawner' = [spawner EXCEPT ![s].pc = "over"]
            /\ UNCHANGED child
    /\ UNCHANGED <<respawn, reaper, exit, lifeVars, closer, caller, faults>>

-----------------------------------------------------------------------------
(* Close.                                                                   *)

CloseMarks(c) ==
    /\ closer[c] = "idle"
    /\ Ready
    /\ closing' = TRUE
    /\ closer' = [closer EXCEPT ![c] = "mark"]
    /\ UNCHANGED <<respawn, procVars, cur, installs, spawner, closeCh, ctxDone, done, err, caller,
                   faults>>

CloseStopsSupervisor(c) ==
    /\ closer[c] = "mark"
    /\ closeCh' = TRUE
    /\ closer' = [closer EXCEPT ![c] = "reread"]
    /\ UNCHANGED <<respawn, procVars, cur, installs, spawner, closing, ctxDone, done, err, caller,
                   faults>>

\* The second read of cur, and the gentle signal, which a child may ignore.
CloseSignals(c) ==
    /\ closer[c] = "reread"
    /\ IF Dead(cur)
       THEN /\ closer' = [closer EXCEPT ![c] = "await"]
            /\ UNCHANGED child
       ELSE /\ closer' = [closer EXCEPT ![c] = "grace"]
            /\ child' \in {child, Killed(child, {cur})}
    /\ UNCHANGED <<respawn, reaper, exit, cur, installs, spawner, lifeVars, caller, faults>>

\* Mutant: a child that ignored the signal is left to itself.
CloseGrace_NoKill(c) ==
    /\ closer[c] = "grace"
    /\ closer' = [closer EXCEPT ![c] = "await"]
    /\ UNCHANGED <<respawn, procVars, cur, installs, spawner, lifeVars, caller, faults>>

\* The grace period: the child is gone, or is killed when it ends.  cur is
\* the generation Close signalled (CloseIsFinal).
CloseGrace(c) ==
    /\ closer[c] = "grace"
    /\ child' \in {Killed(child, {cur})} \cup {ch \in {child} : Dead(cur)}
    /\ closer' = [closer EXCEPT ![c] = "await"]
    /\ UNCHANGED <<respawn, reaper, exit, cur, installs, spawner, lifeVars, caller, faults>>

CloseReturns(c) ==
    /\ closer[c] = "await"
    /\ done
    /\ closer' = [closer EXCEPT ![c] = "returned"]
    /\ UNCHANGED <<respawn, procVars, cur, installs, spawner, lifeVars, caller, faults>>

-----------------------------------------------------------------------------
(* live and rpc.                                                            *)

Caller(k, pc, g, n) == caller' = [caller EXCEPT ![k] = [pc |-> pc, gen |-> g, seen |-> n]]

\* One turn of live's loop, up to its select: a live generation to call, or
\* the genCh to wait for; without supervision a dead one is the answer.
Live(k) ==
    /\ caller[k].pc \in {"idle", "live"}
    /\ Ready
    /\ IF ~Dead(cur) THEN Caller(k, "call", cur, 0)
       ELSE IF ~respawn THEN Caller(k, "idle", None, 0)
       ELSE Caller(k, "wait", cur, installs)
    /\ UNCHANGED <<respawn, procVars, cur, installs, spawner, lifeVars, closer, faults>>

\* Mutant: the wakeup is looked for after the fact.
LiveWakes_Never(k) ==
    /\ caller[k].pc = "wait"
    /\ done
    /\ Caller(k, "idle", None, 0)
    /\ UNCHANGED <<respawn, procVars, cur, installs, spawner, lifeVars, closer, faults>>

\* The select of live: a new generation, or none ever again.
LiveWakes(k) ==
    /\ caller[k].pc = "wait"
    /\ \/ installs > caller[k].seen /\ Caller(k, "live", None, 0)
       \/ done /\ Caller(k, "idle", None, 0)
    /\ UNCHANGED <<respawn, procVars, cur, installs, spawner, lifeVars, closer, faults>>

\* The child answers.
CallAnswered(k) ==
    /\ caller[k].pc = "call"
    /\ child[caller[k].gen] = "up"
    /\ Caller(k, "idle", None, 0)
    /\ UNCHANGED <<respawn, procVars, cur, installs, spawner, lifeVars, closer, faults>>

\* The child is reaped: the call fails with ErrAgentDied.
CallDies(k) ==
    /\ caller[k].pc \in {"call", "reap"}
    /\ Dead(caller[k].gen)
    /\ Caller(k, "idle", None, 0)
    /\ UNCHANGED <<respawn, procVars, cur, installs, spawner, lifeVars, closer, faults>>

\* Mutant: a wedged child is left alone.
CallKills_NoKill(k) ==
    /\ caller[k].pc = "call"
    /\ child[caller[k].gen] # "up"
    /\ caller' = [caller EXCEPT ![k].pc = "reap"]
    /\ UNCHANGED <<respawn, procVars, cur, installs, spawner, lifeVars, closer, faults>>

\* The connection is gone and the child is not, diedGrace later: it is killed.
CallKills(k) ==
    /\ caller[k].pc = "call"
    /\ child[caller[k].gen] # "up"
    /\ child' = Killed(child, {caller[k].gen})
    /\ caller' = [caller EXCEPT ![k].pc = "reap"]
    /\ UNCHANGED <<respawn, reaper, exit, cur, installs, spawner, lifeVars, closer, faults>>

-----------------------------------------------------------------------------
ReaperStep(g) == Reap(g) \/ OnExit(g) \/ ReactClosed(g) \/ React(g)
Handshake(s) == HandshakeAnswered(s) \/ HandshakeFails(s)
SpawnerStep(s) ==
    \/ BackoffClosed(s) \/ BackoffCtx(s) \/ BackoffOver(s)
    \/ SpawnFails(s) \/ SpawnStarts(s)
    \/ Handshake(s) \/ Abort(s) \/ Install(s)
CloserStep(c) == CloseStopsSupervisor(c) \/ CloseSignals(c) \/ CloseGrace(c) \/ CloseReturns(c)
CallerStep(k) == LiveWakes(k) \/ CallDies(k) \/ CallKills(k)

Next ==
    \/ \E g \in Gens : ChildExits(g) \/ ChildMutes(g) \/ ChildGoes(g) \/ ReaperStep(g)
    \/ CtxEnds
    \/ \E s \in Spawners : SpawnerStep(s)
    \/ \E c \in Closers : CloseMarks(c) \/ CloserStep(c)
    \/ \E k \in Callers : Live(k) \/ CallAnswered(k) \/ CallerStep(k)

Spec == Init /\ [][Next]_vars

\* Goroutines run, timers fire, a killed process exits.  Nobody has to call,
\* to Close or to answer a request; faults are bounded, so a spawn that is
\* tried again and again succeeds.  Go's select picks among the ready cases at
\* random: supervise does not prefer its timer to a closed channel forever.
Fairness ==
    /\ \A g \in Gens : WF_vars(ChildGoes(g)) /\ WF_vars(ReaperStep(g))
    /\ \A s \in Spawners : /\ WF_vars(SpawnerStep(s))
                          /\ SF_vars(BackoffClosed(s)) /\ SF_vars(BackoffCtx(s))
    /\ \A c \in Closers : WF_vars(CloserStep(c))
    /\ \A k \in Callers : WF_vars(CallerStep(k)) /\ WF_vars(caller[k].pc = "live" /\ Live(k))

FairSpec == Spec /\ Fairness

-----------------------------------------------------------------------------
(* Properties.                                                              *)

\* The goroutines in spawn or supervise.
Spawning ==
    {s \in Spawners : spawner[s].pc \in {"backoff", "spawn", "handshake", "install", "abort"}}

\* Supervision does not multiply: there is one goroutine that spawns, and only
\* while the current child is dead, and never two children alive.  Backoff and
\* the rest of supervise's state are written without a lock on this ground.
OneSupervisor ==
    /\ Cardinality(Spawning) <= 1
    /\ Spawning # {} /\ cur # None => Dead(cur)
    /\ Cardinality({g \in Gens : Alive(g)}) <= 1

\* Close returns, and Done closes, after every child has exited, those in the
\* middle of their handshake included, and no more will be started.
CloseLeavesNothing ==
    done \/ (\E c \in Closers : closer[c] = "returned") =>
        /\ \A g \in Gens : ~Alive(g)
        /\ Spawning = {}

\* Err says why: a Close, the end of the context or, without supervision, the
\* child's own exit.  A child that Close found alive died of the Close, for
\* Err and for the callers its exit is reported to.
VerdictIsTrue ==
    /\ err = "closed" => closing
    /\ err = "ctx" => ctxDone /\ respawn
    /\ err = "exited" => ~respawn
    /\ (\E c \in Closers : closer[c] = "grace") =>
           (Dead(cur) => exit[cur] = "closed") /\ (done => err = "closed")

\* No generation becomes current once Close has looked a second time, so the
\* one it signals and kills is the last.
CloseIsFinal ==
    [][(\E c \in Closers : closer[c] \in {"grace", "await", "returned"}) => cur' = cur]_vars

\* After a Close there is no child, and none comes.
CloseIsTheEnd == []CloseLeavesNothing /\ CloseIsFinal

\* A child that exited between its answer to initialize and its installation:
\* its reaper looked before it was current, so nobody replaces it or finishes.
Stranded == cur # None /\ reaper[cur] = "over" /\ spawner[cur].pc = "off" /\ ~done

\* Close returns, unless it finds such a child.
CloseEnds ==
    \A c \in Closers : (closer[c] = "mark") ~> (closer[c] = "returned" \/ Stranded)

\* A caller in live gets a generation or an error, unless it finds such a child.
NobodyWaitsForever ==
    \A k \in Callers : (caller[k].pc = "wait") ~> (caller[k].pc # "wait" \/ Stranded)

\* A call does not outlive its child, and a child that no longer talks does
\* not outlive a call.
CallsEnd ==
    \A k \in Callers :
        (caller[k].pc = "call" /\ child[caller[k].gen] # "up") ~> (caller[k].pc = "idle")

\* Close, live and rpc come back to their callers, unless a child is stranded.
EverybodyReturns == CloseEnds /\ NobodyWaitsForever /\ CallsEnd

\* supervise.go:428: "With supervision on (the default) an unexpected exit
\* does NOT close Done: the child is re-spawned."
DeadIsReplaced ==
    \A g \in Gens : (cur = g /\ Dead(g)) ~> (cur # g \/ done)
=============================================================================
