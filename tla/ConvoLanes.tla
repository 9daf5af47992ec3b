---------------------------- MODULE ConvoLanes ----------------------------
(* The Serial mode runner of convo/runner.go: one FIFO lane per             *)
(* conversation, drained by a goroutine that exists only while the lane has *)
(* work, over the registry of convo/active.go (Begin, End, Stop, Claim).    *)
(*                                                                          *)
(* Jobs are numbered in the order in which push appended them; a drainer is *)
(* named by the job whose push launched it.                                 *)
EXTENDS Naturals, Sequences, SequencesExt

CONSTANTS
    Convs,
    NoConv,     \* the conversation of a job not pushed yet
    MaxJobs,    \* bound: how many jobs are pushed
    MaxClaims,  \* bound: how many turns enter through Claim
    Waiters,    \* goroutines that call Manager.WaitIdle
    Impatient   \* waiters whose context may end

ASSUME MaxJobsAssumption == MaxJobs \in Nat /\ MaxClaims \in Nat
ASSUME NoConvAssumption == NoConv \notin Convs
ASSUME ImpatientAssumption == Impatient \subseteq Waiters

Jobs == 1..MaxJobs
Claims == (MaxJobs + 1)..(MaxJobs + MaxClaims)
NoTurn == 0

VARIABLES
    pushed,   \* number of jobs pushed
    conv,     \* Job.Conv, and the conversation of a claimed turn
    lane,     \* lanes.byID: the jobs queued, for the keys of busy
    busy,     \* the keys of lanes.byID
    drainer,  \* the drain goroutines: where they are and the job they run
    turn,     \* where each job or claimed turn is
    m,        \* Active.m
    wait,     \* Manager.WaitIdle; owed is history: the jobs the caller is promised
    ctxDone,  \* waiters whose context has ended
    behind,   \* history: the turns that ran in the conversation at a job's push
    parked    \* waiters in lanes.cond.Wait

vars == <<pushed, conv, lane, busy, drainer, turn, m, wait, ctxDone, behind, parked>>

TypeOK ==
    /\ pushed \in 0..MaxJobs
    /\ conv \in [Jobs \cup Claims -> Convs \cup {NoConv}]
    /\ lane \in [Convs -> Seq(Jobs)]
    /\ busy \subseteq Convs
    /\ drainer \in [Jobs -> [pc: {"none", "loop", "run", "gone"}, job: Jobs \cup {NoTurn}]]
    /\ turn \in [Jobs \cup Claims -> {"new", "queued", "popped", "running", "done"}]
    /\ m \in [Convs -> Jobs \cup Claims \cup {NoTurn}]
    /\ wait \in [Waiters -> [pc: {"idle", "lanes", "active"}, owed: SUBSET Jobs]]
    /\ ctxDone \subseteq Impatient
    /\ parked \subseteq Waiters
    /\ behind \in [Jobs -> SUBSET (Jobs \cup Claims)]

Init ==
    /\ pushed = 0
    /\ conv = [t \in Jobs \cup Claims |-> NoConv]
    /\ lane = [c \in Convs |-> <<>>]
    /\ busy = {}
    /\ drainer = [d \in Jobs |-> [pc |-> "none", job |-> NoTurn]]
    /\ turn = [t \in Jobs \cup Claims |-> "new"]
    /\ m = [c \in Convs |-> NoTurn]
    /\ wait = [w \in Waiters |-> [pc |-> "idle", owed |-> {}]]
    /\ ctxDone = {}
    /\ parked = {}
    /\ behind = [j \in Jobs |-> {}]

\* The turns running in c.
Running(c) == {t \in Jobs \cup Claims : turn[t] = "running" /\ conv[t] = c}

-----------------------------------------------------------------------------
\* Mutant: an empty lane counts as idle, although its drainer runs a job.
Push_EmptyIsIdle(c) ==
    LET j == pushed + 1
    IN  /\ pushed < MaxJobs
        /\ pushed' = j
        /\ conv' = [conv EXCEPT ![j] = c]
        /\ lane' = [lane EXCEPT ![c] = Append(@, j)]
        /\ busy' = busy \cup {c}
        /\ turn' = [turn EXCEPT ![j] = "queued"]
        /\ drainer' = IF lane[c] # <<>> THEN drainer ELSE [drainer EXCEPT ![j].pc = "loop"]
        /\ behind' = [behind EXCEPT ![j] = Running(c)]
        /\ UNCHANGED <<m, wait, ctxDone, parked>>

\* push: append under the lock; a lane that was not busy gets a drainer.
Push(c) ==
    LET j == pushed + 1
    IN  /\ pushed < MaxJobs
        /\ pushed' = j
        /\ conv' = [conv EXCEPT ![j] = c]
        /\ lane' = [lane EXCEPT ![c] = Append(@, j)]
        /\ busy' = busy \cup {c}
        /\ turn' = [turn EXCEPT ![j] = "queued"]
        /\ drainer' = IF c \in busy THEN drainer ELSE [drainer EXCEPT ![j].pc = "loop"]
        /\ behind' = [behind EXCEPT ![j] = Running(c)]
        /\ UNCHANGED <<m, wait, ctxDone, parked>>

\* Mutant: the newest job first.
DrainPop_Lifo(d) ==
    LET c == conv[d]
        j == Last(lane[c])
    IN  /\ drainer[d].pc = "loop"
        /\ lane[c] # <<>>
        /\ lane' = [lane EXCEPT ![c] = Front(@)]
        /\ drainer' = [drainer EXCEPT ![d] = [pc |-> "run", job |-> j]]
        /\ turn' = [turn EXCEPT ![j] = "popped"]
        /\ UNCHANGED <<pushed, conv, busy, m, wait, ctxDone, parked, behind>>

\* Mutant: the key goes with the last job of the queue.
DrainPop_DropsKey(d) ==
    LET c == conv[d]
        j == Head(lane[c])
    IN  /\ drainer[d].pc = "loop"
        /\ lane[c] # <<>>
        /\ lane' = [lane EXCEPT ![c] = Tail(@)]
        /\ busy' = IF Len(lane[c]) = 1 THEN busy \ {c} ELSE busy
        /\ drainer' = [drainer EXCEPT ![d] = [pc |-> "run", job |-> j]]
        /\ turn' = [turn EXCEPT ![j] = "popped"]
        /\ UNCHANGED <<pushed, conv, m, wait, ctxDone, parked, behind>>

\* drain's critical section with work in the lane.
DrainPop(d) ==
    LET c == conv[d]
        j == Head(lane[c])
    IN  /\ drainer[d].pc = "loop"
        /\ lane[c] # <<>>
        /\ lane' = [lane EXCEPT ![c] = Tail(@)]
        /\ drainer' = [drainer EXCEPT ![d] = [pc |-> "run", job |-> j]]
        /\ turn' = [turn EXCEPT ![j] = "popped"]
        /\ UNCHANGED <<pushed, conv, busy, m, wait, ctxDone, parked, behind>>

\* Mutant: the drainer leaves its key behind.
DrainExit_KeyStays(d) ==
    /\ drainer[d].pc = "loop"
    /\ lane[conv[d]] = <<>>
    /\ parked' = {}
    /\ drainer' = [drainer EXCEPT ![d].pc = "gone"]
    /\ UNCHANGED <<pushed, conv, lane, busy, turn, m, wait, ctxDone, behind>>

\* drain's critical section with an empty lane: the key and the goroutine go.
DrainExit(d) ==
    /\ drainer[d].pc = "loop"
    /\ lane[conv[d]] = <<>>
    /\ busy' = busy \ {conv[d]}
    /\ parked' = {}
    /\ drainer' = [drainer EXCEPT ![d].pc = "gone"]
    /\ UNCHANGED <<pushed, conv, lane, turn, m, wait, ctxDone, behind>>

\* Begin: the job's turn takes the registry entry, whoever holds it, and
\* exec, with nothing displaced to wait for, runs the job.
Begin(d) ==
    LET j == drainer[d].job
    IN  /\ drainer[d].pc = "run"
        /\ turn[j] = "popped"
        /\ m' = [m EXCEPT ![conv[j]] = j]
        /\ turn' = [turn EXCEPT ![j] = "running"]
        /\ UNCHANGED <<pushed, conv, lane, busy, drainer, wait, ctxDone, parked, behind>>

\* Deregistration by End, for the turn that is still registered.
Deregister(t) == m' = IF m[conv[t]] = t THEN [m EXCEPT ![conv[t]] = NoTurn] ELSE m

\* Job.Run returns, End, After; the drainer goes on with its loop.
JobDone(d) ==
    LET j == drainer[d].job
    IN  /\ drainer[d].pc = "run"
        /\ turn[j] = "running"
        /\ turn' = [turn EXCEPT ![j] = "done"]
        /\ drainer' = [drainer EXCEPT ![d] = [pc |-> "loop", job |-> NoTurn]]
        /\ Deregister(j)
        /\ UNCHANGED <<pushed, conv, lane, busy, wait, ctxDone, parked, behind>>

\* Stop: only the registered turn is cancelled; it unwinds by itself.
Stop(c) ==
    /\ m[c] # NoTurn
    /\ m' = [m EXCEPT ![c] = NoTurn]
    /\ UNCHANGED <<pushed, conv, lane, busy, drainer, turn, wait, ctxDone, parked, behind>>

\* Claim registers a turn in an idle conversation; its owner runs it.
Claim(t, c) ==
    /\ turn[t] = "new"
    /\ m[c] = NoTurn
    /\ m' = [m EXCEPT ![c] = t]
    /\ conv' = [conv EXCEPT ![t] = c]
    /\ turn' = [turn EXCEPT ![t] = "running"]
    /\ UNCHANGED <<pushed, lane, busy, drainer, wait, ctxDone, parked, behind>>

ClaimDone(t) ==
    /\ turn[t] = "running"
    /\ turn' = [turn EXCEPT ![t] = "done"]
    /\ Deregister(t)
    /\ UNCHANGED <<pushed, conv, lane, busy, drainer, wait, ctxDone, parked, behind>>

-----------------------------------------------------------------------------
\* Manager.WaitIdle: first the lanes, then the registry.
WaitIdle(w) ==
    /\ wait[w].pc = "idle"
    /\ wait' = [wait EXCEPT ![w] =
           [pc |-> "lanes", owed |-> {j \in Jobs : turn[j] \notin {"new", "done"}}]]
    /\ UNCHANGED <<pushed, conv, lane, busy, drainer, turn, m, ctxDone, parked, behind>>

\* One pass of the loop of lanes.waitIdle.
LanesIdle(w) ==
    /\ wait[w].pc = "lanes"
    /\ w \notin parked
    /\ IF busy # {} /\ w \notin ctxDone
       THEN parked' = parked \cup {w} /\ UNCHANGED <<wait, ctxDone>>
       ELSE /\ wait' = [wait EXCEPT ![w].pc = IF w \in ctxDone THEN "idle" ELSE "active",
                                    ![w].owed = IF w \in ctxDone THEN {} ELSE @]
            /\ ctxDone' = ctxDone \ {w}
            /\ UNCHANGED parked
    /\ UNCHANGED <<pushed, conv, lane, busy, drainer, turn, m, behind>>

\* Active.WaitIdle returns, idle or with the error of its context.
ActiveIdle(w) ==
    /\ wait[w].pc = "active"
    /\ w \in ctxDone \/ \A c \in Convs : m[c] = NoTurn
    /\ wait' = [wait EXCEPT ![w] = [pc |-> "idle", owed |-> {}]]
    /\ ctxDone' = ctxDone \ {w}
    /\ UNCHANGED <<pushed, conv, lane, busy, drainer, turn, m, parked, behind>>

ContextEnds(w) ==
    /\ wait[w].pc # "idle"
    /\ ctxDone' = ctxDone \cup {w}
    /\ UNCHANGED <<pushed, conv, lane, busy, drainer, turn, m, wait, parked, behind>>

\* waitIdle's helper goroutine.
WakeOnDone(w) ==
    /\ w \in ctxDone \cap parked
    /\ parked' = {}
    /\ UNCHANGED <<pushed, conv, lane, busy, drainer, turn, m, wait, ctxDone, behind>>

-----------------------------------------------------------------------------
DrainStep(d) == DrainPop(d) \/ DrainExit(d) \/ Begin(d) \/ JobDone(d)

WaitStep(w) == LanesIdle(w) \/ ActiveIdle(w)

Next ==
    \/ \E c \in Convs : Push(c) \/ Stop(c)
    \/ \E d \in Jobs : DrainStep(d)
    \/ \E t \in Claims : ClaimDone(t) \/ \E c \in Convs : Claim(t, c)
    \/ \E w \in Waiters : WaitIdle(w) \/ WaitStep(w)
    \/ \E w \in Impatient : ContextEnds(w) \/ WakeOnDone(w)

Spec == Init /\ [][Next]_vars

\* The goroutines run and jobs return; nobody is obliged to push, stop or wait.
Fairness ==
    /\ \A d \in Jobs : WF_vars(DrainStep(d))
    /\ \A w \in Waiters : WF_vars(WaitStep(w))
    /\ \A w \in Impatient : WF_vars(WakeOnDone(w))

FairSpec == Spec /\ Fairness
-----------------------------------------------------------------------------
(* Properties.                                                              *)

\* A lane is a FIFO with one consumer: a job leaves the queue only when every
\* older job of its conversation has finished, stopped or not.
LaneIsFifo ==
    \A i, j \in Jobs :
        i < j /\ conv[i] = conv[j] /\ turn[j] \in {"popped", "running", "done"}
        => turn[i] = "done"

\* push launches a drainer exactly when there is none: the key is there while
\* one runs, so a job never waits in a lane nobody drains and never finds two,
\* and nobody sleeps in lanes.waitIdle once the last drainer has left.
OneDrainerPerBusyLane ==
    \A c \in Convs :
        LET ds == {d \in Jobs : conv[d] = c /\ drainer[d].pc \in {"loop", "run"}}
        IN  /\ (c \in busy) <=> (ds # {})
            /\ \A d, e \in ds : d = e
            /\ lane[c] # <<>> => c \in busy
            /\ busy = {} => parked = {}

\* Jobs of a conversation run one after the other, in the order they came.
LaneDiscipline == LaneIsFifo /\ OneDrainerPerBusyLane

\* Manager.WaitIdle covers every job that was queued or running when it was
\* called, also one that !stop took out of the registry.
WaitIdleCoversJobs ==
    [][\A w \in Waiters :
           (wait[w].pc = "active" /\ wait'[w].pc = "idle" /\ w \notin ctxDone)
           => \A j \in wait[w].owed : turn[j] = "done"]_vars

\* convo.go:177-182: for "a message arriving while a turn runs in the same
\* conversation", "Serial queues it behind the running turn (FIFO)".
SerialQueuesBehindRunningTurn ==
    \A j \in Jobs : turn[j] = "running" => \A t \in behind[j] : turn[t] = "done"

\* "turns already queued behind it still run" (Start, of !stop): every job
\* that was pushed is run to its end.
EveryJobRuns == \A j \in Jobs : (turn[j] = "queued") ~> (turn[j] = "done")

\* No job gets lost: each is run, and a WaitIdle waits for it.
JobsAreCovered == EveryJobRuns /\ WaitIdleCoversJobs
=============================================================================
