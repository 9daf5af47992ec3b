----------------------------- MODULE UpdateFlow -----------------------------
(***************************************************************************)
(* Operator updates (src/update): `!update` and `!restart`.  Handle takes   *)
(* the update lock, changes the binaries, writes a marker and has the relay  *)
(* exec itself; the new image reports from the marker (Resume).  A fleet     *)
(* host runs its converge command instead: a detached job that itself        *)
(* reloads the relay, followed by a watcher, in the old image until the      *)
(* reload and in the new one after it.  An image that cannot take the lock   *)
(* again watches without it, and then two watchers may run.                 *)
(*                                                                         *)
(* The lock does not survive an exec, the marker, the rc and the pid file    *)
(* do; the process may be replaced or die between any two steps.             *)
(***************************************************************************)
EXTENDS Integers, FiniteSets

CONSTANTS
    Fleets,         \* BOOLEAN values of Config.Fleet to consider
    MaxRequests,    \* bound on requests that take the lock
    MaxDeaths,      \* bound on deaths of the process
    MaxTimeouts,    \* bound on converge jobs watched past ConvergeTimeout
    MaxAgent,       \* versions of the agent binary are 0 .. MaxAgent
    Nil

Requests == 1 .. MaxRequests
AgentVersion == 0 .. MaxAgent

Op == [kind : {"restart", "rollback", "update"}, force : BOOLEAN]
Marker == [request : Requests, converge : BOOLEAN]
Watcher == [at : {"look", "stat", "report", "remove"}, job : 0 .. MaxRequests, gone : BOOLEAN]
Rc == [job : Requests, ok : BOOLEAN]

ASSUME FlowAssumption ==
    /\ Fleets \subseteq BOOLEAN
    /\ {MaxRequests, MaxDeaths, MaxTimeouts, MaxAgent} \subseteq Nat
    /\ Nil \notin Nat \cup Op \cup Marker \cup Watcher \cup Rc

VARIABLES
    fleet,      \* Config.Fleet, fixed
    requests,   \* requests that took the lock so far
    op,         \* the request whose Handle runs: its kind, or Nil
    step,       \* where Handle, or the start of the image, is
    lock,       \* update.lock is held
    marker,     \* the marker file: [request, converge] or Nil
    watch,      \* the watcher with the lock (TRUE) and the one without (FALSE):
                \* [at, job, gone] or Nil; job 0 asks the pid file
    rc, pid,    \* the rc file ([job, ok] or Nil) and the pid file (a job, 0 if none)
    jobs,       \* request -> [stage, result] of its converge job
    bin, prev,  \* versions of AgentBin and AgentBin.prev
    deaths, timedOut,
    said,       \* history: request -> what was reported of it
    unlocked,   \* history: requests whose job an image watched without the lock
    before,     \* history: what AgentBin held before its last change
    spoilt      \* history: that change was of a request that failed, was cut
                \* short, or said that no copy was kept

binaries == <<bin, prev, before, spoilt>>
job == <<rc, pid, jobs>>
past == <<deaths, timedOut, unlocked>>
flowVars == <<fleet, requests, op, step, lock, marker, watch, job, binaries, past, said>>

FlowTypeOK ==
    /\ requests \in 0 .. MaxRequests /\ op \in Op \cup {Nil}
    /\ step \in {"idle", "run", "drain", "mark", "after", "start", "launch", "reloading",
               "down", "boot", "late", "posted"}
    /\ lock \in BOOLEAN
    /\ marker \in Marker \cup {Nil} /\ rc \in Rc \cup {Nil}
    /\ watch \in [BOOLEAN -> Watcher \cup {Nil}] /\ unlocked \subseteq Requests
    /\ pid \in 0 .. MaxRequests
    /\ jobs \in [Requests -> [stage : {"none", "spawned", "running", "written", "exited"},
                              result : {"none", "ok", "failed"}]]
    /\ bin \in AgentVersion /\ prev \in AgentVersion \cup {Nil}
    /\ said \in [Requests -> {"none", "ok", "failed", "done", "discarded"}]

FlowInit ==
    /\ fleet \in Fleets /\ requests = 0 /\ op = Nil /\ step = "idle" /\ lock = FALSE
    /\ marker = Nil /\ watch = [held \in BOOLEAN |-> Nil] /\ rc = Nil /\ pid = 0
    /\ jobs = [r \in Requests |-> [stage |-> "none", result |-> "none"]]
    /\ bin = 0 /\ prev = Nil /\ deaths = 0 /\ timedOut = {} /\ unlocked = {}
    /\ said = [r \in Requests |-> "none"] /\ before = Nil /\ spoilt = FALSE

-----------------------------------------------------------------------------
(* Handle *)

\* acquire: a lock that is held refuses the request, which changes nothing.
acquire == ~lock /\ lock' = TRUE
release == lock' = FALSE

\* Handle after its checks; --check and refused requests change nothing.
Handle(o) ==
    /\ step = "idle" /\ op = Nil /\ requests < MaxRequests
    /\ ~fleet \/ o.kind # "rollback"
    /\ acquire
    /\ requests' = requests + 1 /\ op' = o
    /\ step' = IF fleet /\ o.kind # "restart" THEN "start" ELSE "run"
    /\ UNCHANGED <<fleet, marker, watch, job, binaries, past, said>>

\* A result without After: the lock is free again.
Finish == release /\ op' = Nil /\ step' = "idle"

\* Mutant: the copy becomes .prev in any case.
UpdateAgent_AlwaysKept ==
    /\ bin' \in {bin} \cup {v \in AgentVersion : v > bin}
    /\ prev' = bin /\ UNCHANGED spoilt

\* run's update of the agent: the copy taken first becomes .prev if the agent
\* changed; when it cannot, the result says so.
UpdateAgent ==
    \/ bin' = bin /\ UNCHANGED <<prev, spoilt>>
    \/ /\ bin' \in {v \in AgentVersion : v > bin}
       /\ \/ prev' = bin /\ spoilt' = FALSE
          \/ prev' = prev /\ spoilt' = TRUE

\* rollback(): AgentBin and .prev change places; after a rollback that was cut
\* short they may be the same.
rollback == prev # Nil /\ bin' = prev /\ prev' = bin /\ spoilt' = (spoilt /\ bin' = bin)

Changes == before' = IF bin' # bin THEN bin ELSE before

RunFiles ==
    /\ step = "run"
    /\ \/ op.kind = "restart" /\ UNCHANGED <<bin, prev, spoilt>>
       \/ op.kind = "rollback" /\ rollback
       \/ op.kind = "update" /\ UpdateAgent
    /\ Changes
    /\ step' = IF op.force THEN "drain" ELSE "mark"
    /\ UNCHANGED <<fleet, requests, op, lock, marker, watch, job, past, said>>

\* What run may have put into AgentBin before an error, an exec or a death cut it
\* short: the updater's new version, or .prev.  The copy is lost or not yet .prev.
HalfDone ==
    CASE op.kind = "update"   -> {v \in AgentVersion : v > bin}
      [] op.kind = "rollback" -> {prev} \ {Nil}
      [] OTHER                -> {}

CutShort ==
    /\ \/ bin' = bin /\ UNCHANGED spoilt
       \/ step = "run" /\ bin' \in HalfDone /\ spoilt' = (spoilt \/ bin' # bin)
    /\ Changes /\ UNCHANGED prev

\* run gives up: the updater, which may have replaced the agent, or a copy
\* failed, the turns did not end, the marker could not be written.
RunFails ==
    /\ step \in {"run", "drain", "mark"} /\ CutShort /\ Finish
    /\ UNCHANGED <<fleet, requests, marker, watch, job, past, said>>

\* --force: every turn was cancelled and has ended.
Drained ==
    /\ step = "drain" /\ step' = "mark"
    /\ UNCHANGED <<fleet, requests, op, lock, marker, watch, job, binaries, past, said>>

WriteMarker ==
    /\ step = "mark" /\ step' = "after"
    /\ marker' = [request |-> requests, converge |-> FALSE]
    /\ UNCHANGED <<fleet, requests, op, lock, watch, job, binaries, past, said>>

\* Mutant: the lock is kept when the reload fails.
After_KeepsLock ==
    /\ step = "after"
    /\ \/ step' = "reloading" /\ UNCHANGED <<op, lock, marker>>
       \/ marker' = Nil /\ op' = Nil /\ step' = "idle" /\ UNCHANGED lock
    /\ UNCHANGED <<fleet, requests, watch, job, binaries, past, said>>

\* After: the relay posted the text; the reload is triggered, or fails.
After ==
    /\ step = "after"
    /\ \/ step' = "reloading" /\ UNCHANGED <<op, lock, marker>>
       \/ marker' = Nil /\ Finish
    /\ UNCHANGED <<fleet, requests, watch, job, binaries, past, said>>

-----------------------------------------------------------------------------
(* converge *)

\* Mutant: the rc of the last job stays.
ConvergePrepares_StaleRc ==
    /\ step = "start" /\ step' = "launch"
    /\ pid' = 0
    /\ marker' = [request |-> requests, converge |-> TRUE]
    /\ UNCHANGED <<fleet, requests, op, lock, watch, rc, jobs, binaries, past, said>>

\* The files of the last job are removed before the marker names this one.
ConvergePrepares ==
    /\ step = "start" /\ step' = "launch"
    /\ rc' = Nil /\ pid' = 0
    /\ marker' = [request |-> requests, converge |-> TRUE]
    /\ UNCHANGED <<fleet, requests, op, lock, watch, jobs, binaries, past, said>>

\* Turns that do not end, a marker that cannot be written or a command that
\* does not start: nothing runs.
ConvergeFails ==
    /\ \/ step = "start" /\ UNCHANGED <<rc, pid, marker>>
       \/ step = "start" /\ rc' = Nil /\ pid' = 0 /\ UNCHANGED marker
       \/ step = "launch" /\ marker' = Nil /\ UNCHANGED <<rc, pid>>
    /\ Finish
    /\ UNCHANGED <<fleet, requests, watch, jobs, binaries, past, said>>

Starting(j) == [at |-> "look", job |-> j, gone |-> FALSE]

\* The job runs, and the lock is the watcher's.
ConvergeStarts ==
    /\ step = "launch"
    /\ jobs' = [jobs EXCEPT ![requests].stage = "spawned"]
    /\ watch' = [watch EXCEPT ![TRUE] = Starting(requests)]
    /\ op' = Nil /\ step' = "idle"
    /\ UNCHANGED <<fleet, requests, lock, marker, rc, pid, binaries, past, said>>

-----------------------------------------------------------------------------
(* The job: a shell that writes its pid, runs the command, writes the rc and   *)
(* exits; it may be killed at any point.                                      *)

Alive(j) == jobs[j].stage \in {"spawned", "running", "written"}

\* The command has not ended: what is left of a written job is its shell.
AtWork(j) == jobs[j].stage \in {"spawned", "running"}

JobWritesPid(j) ==
    /\ jobs[j].stage = "spawned" /\ jobs' = [jobs EXCEPT ![j].stage = "running"]
    /\ pid' = j /\ UNCHANGED rc

JobWritesRc(j) ==
    /\ jobs[j].stage = "running"
    /\ \E ok \in BOOLEAN :
        /\ jobs' = [jobs EXCEPT ![j] = [stage |-> "written",
                                        result |-> IF ok THEN "ok" ELSE "failed"]]
        /\ rc' = [job |-> j, ok |-> ok]
    /\ UNCHANGED pid

JobExits(j) ==
    /\ Alive(j) /\ jobs' = [jobs EXCEPT ![j].stage = "exited"]
    /\ UNCHANGED <<rc, pid>>

JobStep(j) ==
    /\ JobWritesPid(j) \/ JobWritesRc(j) \/ JobExits(j)
    /\ UNCHANGED <<fleet, requests, op, step, lock, marker, watch, binaries, past, said>>

-----------------------------------------------------------------------------
(* The process is replaced *)

NewImage == lock' = FALSE /\ op' = Nil /\ watch' = [held \in BOOLEAN |-> Nil]

\* The exec in place, asked for by After or by the job; the lock's descriptor
\* is close-on-exec and the goroutines are gone.
Exec ==
    /\ \/ step = "reloading"
       \/ \E j \in Requests : jobs[j].stage = "running" /\ step \notin {"down", "boot", "late", "posted"}
                              /\ deaths < MaxDeaths
    /\ step' = "boot" /\ NewImage
    /\ deaths' = IF step = "reloading" THEN deaths ELSE deaths + 1
    /\ CutShort
    /\ UNCHANGED <<fleet, requests, marker, job, timedOut, unlocked, said>>

Die ==
    /\ step # "down" /\ deaths < MaxDeaths /\ deaths' = deaths + 1
    /\ step' = "down" /\ NewImage /\ CutShort
    /\ UNCHANGED <<fleet, requests, marker, job, timedOut, unlocked, said>>

Start ==
    /\ step = "down" /\ step' \in {"boot", "late"}     \* late: after markerTTL
    /\ UNCHANGED <<fleet, requests, op, lock, marker, watch, job, binaries, past, said>>

-----------------------------------------------------------------------------
(* Resume and the watcher *)

\* Resume without a marker, or with one that it discards as too old.
ResumeNothing ==
    /\ step = "late" \/ (step = "boot" /\ marker = Nil)
    /\ step' = "idle" /\ marker' = Nil
    /\ said' = IF marker = Nil THEN said ELSE [said EXCEPT ![marker.request] = "discarded"]
    /\ UNCHANGED <<fleet, requests, op, lock, watch, job, binaries, past>>

\* Resume posts the outcome ...
ResumePosts ==
    /\ step = "boot" /\ marker # Nil /\ ~marker.converge
    /\ said' = [said EXCEPT ![marker.request] = "done"] /\ step' = "posted"
    /\ UNCHANGED <<fleet, requests, op, lock, marker, watch, job, binaries, past>>

\* ... and removes the marker, whether or not it could post.
ResumeRemoves ==
    /\ step = "posted" /\ marker' = Nil /\ step' = "idle"
    /\ UNCHANGED <<fleet, requests, op, lock, watch, job, binaries, past, said>>

\* Mutant: the job goes on without the lock.
ResumeWatches_Unlocked ==
    /\ step = "boot" /\ marker # Nil /\ marker.converge
    /\ watch' = [watch EXCEPT ![TRUE] = Starting(0)]
    /\ step' = "idle"
    /\ UNCHANGED <<fleet, requests, op, lock, marker, job, binaries, past, said>>

\* Resume of a converge: the lock is taken again if it can be, and the job is
\* watched in any case.
ResumeWatches ==
    /\ step = "boot" /\ marker # Nil /\ marker.converge
    /\ \E held \in BOOLEAN :
        /\ watch' = [watch EXCEPT ![held] = Starting(0)]
        /\ IF held THEN acquire /\ UNCHANGED unlocked
           ELSE UNCHANGED lock /\ unlocked' = unlocked \cup {marker.request}
    /\ step' = "idle"
    /\ UNCHANGED <<fleet, requests, op, marker, job, binaries, deaths, timedOut, said>>

\* exited: the starter waits for its child, a new image asks the pid file.
exited(j) ==
    LET p == IF j # 0 THEN j ELSE pid IN p # 0 /\ jobs[p].stage = "exited"

WatchIsAt(held, at) == watch[held] # Nil /\ watch[held].at = at

\* watch: first whether the job is gone ...
WatchLook(held) ==
    /\ WatchIsAt(held, "look")
    /\ watch' = [watch EXCEPT ![held].at = "stat", ![held].gone = exited(watch[held].job)]
    /\ UNCHANGED <<fleet, requests, op, step, lock, marker, job, binaries, past, said>>

\* ... then the rc file ...
WatchStat(held) ==
    /\ WatchIsAt(held, "stat")
    /\ watch' = [watch EXCEPT ![held].at =
                    IF rc # Nil \/ watch[held].gone THEN "report" ELSE "look"]
    /\ UNCHANGED <<fleet, requests, op, step, lock, marker, job, binaries, past, said>>

\* ... and on until either, or the deadline.
WatchTimesOut(held) ==
    /\ WatchIsAt(held, "stat") /\ rc = Nil /\ ~watch[held].gone
    /\ timedOut' = timedOut \cup {j \in Requests : AtWork(j)}
    /\ Cardinality(timedOut') <= MaxTimeouts
    /\ watch' = [watch EXCEPT ![held].at = "report"]
    /\ UNCHANGED <<fleet, requests, op, step, lock, marker, job, binaries, deaths, unlocked, said>>

\* The report is made from the rc file.
convergeReport == IF rc # Nil /\ rc.ok THEN "ok" ELSE "failed"

\* Mutant: the marker goes first; an exec before the post loses the report.
WatchReports_RemovesFirst(held) ==
    /\ WatchIsAt(held, "report") /\ marker # Nil
    /\ said' \in {said, [said EXCEPT ![marker.request] = convergeReport]}
    /\ watch' = [watch EXCEPT ![held].at = "remove"] /\ marker' = Nil
    /\ UNCHANGED <<fleet, requests, op, step, lock, job, binaries, past>>

\* The report is posted to whom the marker names ...
WatchReports(held) ==
    /\ WatchIsAt(held, "report") /\ marker # Nil
    /\ said' = [said EXCEPT ![marker.request] = convergeReport]
    /\ watch' = [watch EXCEPT ![held].at = "remove"]
    /\ UNCHANGED <<fleet, requests, op, step, lock, marker, job, binaries, past>>

\* The watcher is done, and releases the lock if it holds it.
WatchEnds(held) ==
    /\ watch' = [watch EXCEPT ![held] = Nil]
    /\ IF held THEN release ELSE UNCHANGED lock
    /\ UNCHANGED <<fleet, requests, op, step, job, binaries, past, said>>

\* ... or, if another watcher has removed it, to nobody.
WatchFindsNothing(held) ==
    /\ WatchIsAt(held, "report") /\ marker = Nil
    /\ WatchEnds(held) /\ UNCHANGED marker

\* Only after the post is the marker removed.
WatchRemoves(held) ==
    /\ WatchIsAt(held, "remove") /\ marker' = Nil
    /\ WatchEnds(held)

-----------------------------------------------------------------------------
Run == RunFiles \/ RunFails \/ Drained \/ WriteMarker \/ After
ConvergeSteps == ConvergePrepares \/ ConvergeFails \/ ConvergeStarts
Resume == ResumeNothing \/ ResumePosts \/ ResumeRemoves \/ ResumeWatches
Watch(held) ==
    \/ WatchLook(held) \/ WatchStat(held) \/ WatchTimesOut(held)
    \/ WatchReports(held) \/ WatchFindsNothing(held) \/ WatchRemoves(held)

FlowNext ==
    \/ \E o \in Op : Handle(o)
    \/ Run \/ ConvergeSteps \/ Resume
    \/ \E held \in BOOLEAN : Watch(held)
    \/ \E j \in Requests : JobStep(j)
    \/ Exec \/ Die \/ Start

FlowSpec == FlowInit /\ [][FlowNext]_flowVars

\* Goroutines run, a job ends, a process that died is started again; requests,
\* reloads by a job and deaths need not happen.
FlowFairSpec ==
    /\ FlowSpec /\ WF_flowVars(Run) /\ WF_flowVars(ConvergeSteps) /\ WF_flowVars(Resume)
    /\ \A held \in BOOLEAN :
        /\ WF_flowVars(WatchLook(held) \/ WatchStat(held))
        /\ WF_flowVars(WatchReports(held) \/ WatchFindsNothing(held) \/ WatchRemoves(held))
        /\ SF_flowVars(WatchTimesOut(held))
    /\ \A j \in Requests : WF_flowVars(JobStep(j))
    /\ WF_flowVars(step = "reloading" /\ Exec) /\ WF_flowVars(Start)

-----------------------------------------------------------------------------
(* What is promised *)

\* Nothing keeps the next job from starting beside this one: ConvergeTimeout
\* passed, its marker was found too old, or the image that watches it could not
\* take the lock again.
GivenUp(j) == j \in timedOut \/ said[j] = "discarded" \/ j \in unlocked

\* Two converge jobs never run at once, although the lock is lost in the very
\* reload the job asks for (update.go:666): only once a job was
\* given up can it, and what its rc file is taken for, meet the next ones.
OneJob ==
    \A i, j \in Requests : i < j /\ AtWork(i) /\ AtWork(j) => \E g \in 1 .. i : GivenUp(g)

\* The report of a converge job says how it ended, whichever image makes it
\* and however its exit, its rc and the reload interleave (converge.go:133).
\* A job given up earlier may still write the rc file of a later one.
VerdictIsTrue ==
    \A j \in Requests : (\A i \in Requests : GivenUp(i) => i > j) =>
        /\ said[j] = "ok" => jobs[j].result = "ok"
        /\ said[j] = "failed" => jobs[j].result # "ok"

\* Converge jobs run one at a time and are reported as they ended.
JobsAreOrderly == OneJob /\ VerdictIsTrue

\* .prev is what the agent binary was before it last changed, unless the request
\* that changed it failed, was cut short or said that it kept no copy: an update
\* that installs nothing does not cost the operator the version to roll back to,
\* and the next update that goes well makes up for one that did not.
PrevIsLast == ~spoilt => prev = before

\* Whoever started a job, or an update that went on to its reload, hears of it:
\* no reload, exec or crash loses the report (converge.go:28), unless the relay
\* was down for longer than a marker lives, or watched a job without the lock,
\* whose watcher and the next one's take each other's marker.
RequesterHears ==
    \A r \in Requests :
        \/ jobs[r].stage # "none"
        \/ step = "reloading" /\ marker # Nil /\ marker.request = r
        ~> said[r] # "none" \/ unlocked # {}

\* No update keeps the next one out for ever.
LockComesFree == []<>~lock

\* Updates end, for who asked and for who asks next.
UpdatesEnd == RequesterHears /\ LockComesFree
=============================================================================
