---------------------------- MODULE UpdatesProofs ----------------------------
(* Theorems about operator updates and automatic updates, for any number of  *)
(* requests, versions, deaths of the process and failing operations.         *)
EXTENDS AutoUpdate, UpdateFlow, FiniteSetTheorems, TLAPS

-----------------------------------------------------------------------------
(* Operator updates.  The lock is not kept over a reload, so what keeps two  *)
(* jobs apart is the marker: whoever finds it at the start watches its job   *)
(* with the lock in hand, and no new job starts before the marker goes.      *)
(* Once an image watched a job without the lock, what remains is that the    *)
(* jobs before that one are over.                                            *)

\* No job up to j was given up.
Clean(j) == \A i \in Requests : GivenUp(i) => i > j

\* A request is new until its Handle is over.
Fresh ==
    \A r \in Requests : r > requests \/ (r = requests /\ op # Nil) =>
        jobs[r].stage = "none" /\ said[r] = "none"

\* What holds where Handle, or the start of the image, is: the lock is held by
\* Handle or by the watcher, and while it is free in a running image there is no
\* marker.
Phases ==
    /\ unlocked = {} /\ watch[FALSE] = Nil
    /\ op # Nil <=> step \in {"run", "drain", "mark", "after", "start", "launch", "reloading"}
    /\ op # Nil => requests \in Requests
    /\ lock <=> op # Nil \/ watch[TRUE] # Nil
    /\ watch[TRUE] # Nil => step = "idle" /\ marker # Nil /\ marker.converge
    /\ step = "idle" /\ marker # Nil => watch[TRUE] # Nil
    /\ step \in {"run", "drain", "mark", "start"} => marker = Nil
    /\ step \in {"after", "reloading", "posted"} => marker # Nil /\ ~marker.converge
    /\ step = "launch" => marker # Nil /\ marker.converge

\* The marker is of the last request, whose report is not final.
Marked == marker # Nil => marker.request = requests /\ said[marker.request] # "discarded"

\* A job at work that was not given up, nor any before it, is the one the marker
\* names, and its watcher goes on.
Watched ==
    \A j \in Requests : Clean(j) /\ AtWork(j) =>
        /\ marker # Nil /\ marker.request = j /\ marker.converge
        /\ watch[TRUE] # Nil => watch[TRUE].at \in {"look", "stat"} /\ ~watch[TRUE].gone

\* The files of the job the marker names are its own.
OwnFiles ==
    marker # Nil /\ marker.converge /\ Clean(marker.request) =>
        /\ rc = Nil => jobs[marker.request].result = "none"
        /\ rc # Nil => jobs[marker.request].result = IF rc.ok THEN "ok" ELSE "failed"
        /\ pid \in {0, marker.request}
        /\ watch[TRUE] # Nil => watch[TRUE].job \in {0, marker.request}

\* A result is there once the command has ended; a report was made after that.
Results ==
    \A j \in Requests :
        /\ jobs[j].stage = "none" \/ AtWork(j) => jobs[j].result = "none"
        /\ Clean(j) /\ said[j] \in {"ok", "failed"} => ~AtWork(j)

\* Every job so far was watched with the lock in hand.
LockedIInv == /\ FlowTypeOK /\ Fresh /\ Phases /\ Marked /\ Watched /\ OwnFiles /\ Results
              /\ VerdictIsTrue

\* The job of request g was watched without the lock: the jobs before it are
\* over, and nothing concerns them any more.
Loosened ==
    \E g \in unlocked :
        /\ requests >= g /\ (marker # Nil => marker.request >= g)
        /\ \A j \in Requests : j < g /\ Clean(j) => ~AtWork(j)

LooseIInv == FlowTypeOK /\ Loosened /\ VerdictIsTrue

FlowIInv == LockedIInv \/ LooseIInv

-----------------------------------------------------------------------------
(* Operator updates                                                         *)

LEMMA FlowBounds ==
  /\ MaxRequests \in Nat /\ MaxAgent \in Nat
  /\ \A r \in Requests : r \in Nat \ {0} /\ r <= MaxRequests
BY FlowAssumption DEF Requests

\* What is nothing is no record.
LEMMA NilIsNone ==
  Nil \notin Op /\ Nil \notin Marker /\ Nil \notin Watcher /\ Nil \notin Rc
BY FlowAssumption

\* What was given up stays so.
LEMMA CleanBefore ==
  ASSUME timedOut \subseteq timedOut', unlocked \subseteq unlocked',
         \A r \in Requests : said[r] = "discarded" => said'[r] = "discarded"
  PROVE  \A j \in Requests : Clean(j)' => Clean(j)
BY DEF Clean, GivenUp

LEMMA CleanSame ==
  ASSUME UNCHANGED <<timedOut, unlocked, said>>
  PROVE  \A j : Clean(j)' <=> Clean(j)
BY DEF Clean, GivenUp

LEMMA FlowInitIInv == FlowInit => LockedIInv
<1> USE FlowBounds, NilIsNone
<1> SUFFICES ASSUME FlowInit PROVE LockedIInv
  OBVIOUS
<1>1. FlowTypeOK
  <2>1. jobs \in [Requests -> [stage : {"none", "spawned", "running", "written", "exited"},
                              result : {"none", "ok", "failed"}]]
    BY DEF FlowInit
  <2>2. said \in [Requests -> {"none", "ok", "failed", "done", "discarded"}]
    BY DEF FlowInit
  <2>3. requests \in 0 .. MaxRequests /\ pid \in 0 .. MaxRequests
    BY DEF FlowInit
  <2>4. bin \in AgentVersion /\ prev \in AgentVersion \cup {Nil}
    BY DEF FlowInit, AgentVersion
  <2>5. lock \in BOOLEAN
    BY DEF FlowInit
  <2>6. step \in {"idle", "run", "drain", "mark", "after", "start", "launch", "reloading",
               "down", "boot", "late", "posted"}
    BY DEF FlowInit
  <2> QED BY <2>1, <2>2, <2>3, <2>4, <2>5, <2>6 DEF FlowInit, FlowTypeOK
<1>2. Fresh /\ Phases /\ Marked /\ OwnFiles
  BY DEF FlowInit, Fresh, Phases, Marked, OwnFiles
<1>3. Watched /\ Results /\ VerdictIsTrue
  BY DEF FlowInit, Watched, Results, VerdictIsTrue, AtWork
<1> QED BY <1>1, <1>2, <1>3 DEF LockedIInv

\* What a request that is cut short leaves in AgentBin is a version.
LEMMA CutShortTyped ==
  ASSUME FlowTypeOK, CutShort
  PROVE  bin' \in AgentVersion
BY DEF FlowTypeOK, CutShort, HalfDone

\* A step of any kind keeps to the types, once there was a request or from Init.
LEMMA FlowTypes ==
  ASSUME FlowTypeOK, requests \in Requests, [FlowNext]_flowVars
  PROVE  FlowTypeOK'
<1> USE FlowBounds, NilIsNone DEF FlowTypeOK
<1>1. CASE \E o \in Op : Handle(o)
  BY <1>1 DEF Handle, acquire, job, binaries, past
<1>2. CASE RunFiles
  BY <1>2 DEF RunFiles, job, past, rollback, UpdateAgent, Changes
<1>3. CASE RunFails
  BY <1>3, CutShortTyped DEF RunFails, CutShort, Finish, release, job, past
<1>4. CASE Drained
  BY <1>4 DEF Drained, job, binaries, past
<1>5. CASE WriteMarker
  BY <1>5 DEF WriteMarker, Marker, job, binaries, past
<1>6. CASE After
  BY <1>6 DEF After, Finish, release, job, binaries, past
<1>7. CASE ConvergePrepares
  BY <1>7 DEF ConvergePrepares, Marker, binaries, past
<1>8. CASE ConvergeFails
  <2>1. rc' \in Rc \cup {Nil} /\ pid' \in 0 .. MaxRequests /\ marker' \in Marker \cup {Nil}
    BY <1>8 DEF ConvergeFails
  <2> QED BY <1>8, <2>1 DEF ConvergeFails, Finish, release, binaries, past
<1>9. CASE ConvergeStarts
  BY <1>9 DEF ConvergeStarts, Starting, Watcher, binaries, past
<1>10. CASE ResumeNothing \/ ResumePosts \/ ResumeRemoves
  BY <1>10 DEF ResumeNothing, ResumePosts, ResumeRemoves, Marker, job, binaries, past
<1>11. CASE ResumeWatches
  <2>1. Starting(0) \in Watcher
    BY DEF Starting, Watcher
  <2>2. watch' \in [BOOLEAN -> Watcher \cup {Nil}]
    BY <1>11, <2>1 DEF ResumeWatches
  <2>3. lock' \in BOOLEAN /\ unlocked' \in {unlocked, unlocked \cup {marker.request}}
    BY <1>11 DEF ResumeWatches, acquire
  <2>4. unlocked' \subseteq Requests
    BY <1>11, <2>3 DEF ResumeWatches, Marker
  <2> QED BY <1>11, <2>2, <2>3, <2>4 DEF ResumeWatches, job, binaries
<1>12. ASSUME NEW held \in BOOLEAN, Watch(held) PROVE FlowTypeOK'
  <2>1. \A at \in {"look", "stat", "report", "remove"}, gone \in BOOLEAN : watch[held] # Nil =>
            [watch[held] EXCEPT !.at = at, !.gone = gone] \in Watcher
    BY DEF Watcher
  <2>2. \A at \in {"look", "stat", "report", "remove"} : watch[held] # Nil =>
            [watch[held] EXCEPT !.at = at] \in Watcher
    BY DEF Watcher
  <2>3. CASE WatchLook(held)
    BY <2>1, <2>3 DEF WatchLook, WatchIsAt, exited, job, binaries, past
  <2>4. CASE WatchStat(held)
    BY <2>2, <2>4 DEF WatchStat, WatchIsAt, job, binaries, past
  <2>5. CASE WatchTimesOut(held)
    BY <2>2, <2>5 DEF WatchTimesOut, WatchIsAt, job, binaries
  <2>6. CASE WatchReports(held)
    BY <2>2, <2>6 DEF WatchReports, WatchIsAt, Marker, convergeReport, job, binaries, past
  <2>7. CASE WatchFindsNothing(held) \/ WatchRemoves(held)
    BY <2>7 DEF WatchFindsNothing, WatchRemoves, WatchEnds, release, job, binaries, past
  <2> QED BY <1>12, <2>3, <2>4, <2>5, <2>6, <2>7 DEF Watch
<1>13. ASSUME NEW j \in Requests, JobStep(j) PROVE FlowTypeOK'
  BY <1>13 DEF JobStep, JobWritesPid, JobWritesRc, JobExits, Alive, Rc, binaries, past
<1>14. CASE Exec
  BY <1>14, CutShortTyped DEF Exec, NewImage, CutShort, job
<1>15. CASE Die
  BY <1>15, CutShortTyped DEF Die, NewImage, CutShort, job
<1>16. CASE Start
  BY <1>16 DEF Start, job, binaries, past
<1>17. CASE UNCHANGED flowVars
  BY <1>17 DEF flowVars, job, binaries, past
<1> QED BY <1>1, <1>2, <1>3, <1>4, <1>5, <1>6, <1>7, <1>8, <1>9, <1>10, <1>11, <1>12, <1>13, <1>14,
        <1>15, <1>16, <1>17 DEF FlowNext, Run, ConvergeSteps, Resume

\* The request's Handle begins.
LEMMA HandleIInv ==
  ASSUME LockedIInv, NEW o \in Op, Handle(o)
  PROVE  LockedIInv'
<1> USE FlowBounds, NilIsNone DEF LockedIInv
<1>1. FlowTypeOK'
  BY DEF FlowTypeOK, Handle, acquire, job, binaries, past
<1>2. Fresh'
  BY DEF FlowTypeOK, Fresh, Handle, acquire, job
<1>3. Phases'
  <2>1. /\ ~lock /\ step = "idle" /\ op = Nil /\ requests' \in Requests
        /\ lock' = TRUE /\ op' = o /\ o # Nil /\ step' \in {"run", "start"}
        /\ UNCHANGED <<marker, watch, unlocked>>
    BY DEF FlowTypeOK, Handle, acquire, past, Requests
  <2> QED BY <2>1 DEF Phases
<1>4. Marked' /\ marker = Nil /\ UNCHANGED <<marker, watch, said, timedOut, unlocked, rc, pid,
      jobs>>
  BY DEF FlowTypeOK, Phases, Marked, Handle, acquire, job, past
<1>5. Watched' /\ Results' /\ OwnFiles'
  BY <1>4, CleanSame DEF Watched, OwnFiles, Results, AtWork
<1>6. VerdictIsTrue'
  BY <1>4 DEF VerdictIsTrue, GivenUp
<1> QED BY <1>1, <1>2, <1>3, <1>4, <1>5, <1>6

\* While no job is under way, what Handle and Resume do to the marker concerns
\* no job.
LEMMA HandleGoesOn ==
  ASSUME LockedIInv, UNCHANGED <<watch, rc, pid, jobs, timedOut, unlocked, said>>,
         marker = Nil \/ ~marker.converge, marker' = Nil \/ ~marker'.converge
  PROVE  Watched' /\ OwnFiles' /\ Results' /\ VerdictIsTrue'
<1>1. \A j \in Requests : ~(Clean(j) /\ AtWork(j))
  BY DEF LockedIInv, Watched
<1>2. Watched' /\ OwnFiles'
  BY <1>1, CleanSame DEF Watched, OwnFiles, AtWork
<1>3. Results'
  BY CleanSame DEF LockedIInv, Results, AtWork
<1>4. VerdictIsTrue'
  BY DEF LockedIInv, VerdictIsTrue, GivenUp
<1> QED BY <1>2, <1>3, <1>4

\* The binaries, past are changed.
LEMMA RunFilesIInv ==
  ASSUME LockedIInv, RunFiles
  PROVE  LockedIInv'
<1> USE FlowBounds, NilIsNone DEF LockedIInv
<1>1. FlowTypeOK'
  BY DEF FlowTypeOK, RunFiles, job, past, rollback, UpdateAgent, Changes, AgentVersion, Op
<1>2. Fresh' /\ Marked'
  BY DEF FlowTypeOK, Fresh, Phases, Marked, Marker, RunFiles, job, rollback, UpdateAgent,
        AgentVersion, Op
<1>3. Phases'
  BY DEF FlowTypeOK, Phases, Marker, RunFiles, job, past, rollback, UpdateAgent, Changes,
        AgentVersion, Op
<1>4. Watched' /\ OwnFiles' /\ Results' /\ VerdictIsTrue'
  BY HandleGoesOn DEF Phases, RunFiles, job, past, rollback, UpdateAgent, Changes, AgentVersion, Op
<1> QED BY <1>1, <1>2, <1>3, <1>4

\* Handle gives up before the marker.
LEMMA RunFailsIInv ==
  ASSUME LockedIInv, RunFails
  PROVE  LockedIInv'
<1> USE FlowBounds, NilIsNone DEF LockedIInv
<1>1. FlowTypeOK'
  BY CutShortTyped DEF FlowTypeOK, RunFails, CutShort, Finish, release, job, past
<1>2. Fresh' /\ Marked'
  BY DEF FlowTypeOK, Fresh, Phases, Marked, Marker, RunFails, CutShort, Finish, release, job, past
<1>3. Phases'
  BY DEF FlowTypeOK, Phases, Marker, RunFails, CutShort, Finish, release, job, past
<1>4. Watched' /\ OwnFiles' /\ Results' /\ VerdictIsTrue'
  BY HandleGoesOn DEF Phases, RunFails, CutShort, Finish, release, job, past
<1> QED BY <1>1, <1>2, <1>3, <1>4

\* The turns have ended.
LEMMA DrainedIInv ==
  ASSUME LockedIInv, Drained
  PROVE  LockedIInv'
<1> USE FlowBounds, NilIsNone DEF LockedIInv
<1>1. FlowTypeOK'
  BY DEF FlowTypeOK, Drained, job, binaries, past
<1>2. Fresh' /\ Marked'
  BY DEF FlowTypeOK, Fresh, Phases, Marked, Marker, Drained, job, binaries, past
<1>3. Phases'
  BY DEF FlowTypeOK, Phases, Marker, Drained, job, binaries, past
<1>4. Watched' /\ OwnFiles' /\ Results' /\ VerdictIsTrue'
  BY HandleGoesOn DEF Phases, Drained, job, binaries, past
<1> QED BY <1>1, <1>2, <1>3, <1>4

\* The marker is written.
LEMMA WriteMarkerIInv ==
  ASSUME LockedIInv, WriteMarker
  PROVE  LockedIInv'
<1> USE FlowBounds, NilIsNone DEF LockedIInv
<1>1. op # Nil /\ requests \in Requests
  BY DEF Phases, WriteMarker
<1>2. marker' \in Marker /\ marker' # Nil /\ marker'.request = requests /\ ~marker'.converge
  <2>1. marker' = [request |-> requests, converge |-> FALSE]
    BY DEF WriteMarker
  <2>2. marker' \in Marker
    BY <1>1, <2>1 DEF Marker
  <2> QED BY <2>1, <2>2
<1>3. FlowTypeOK'
  BY <1>2 DEF FlowTypeOK, WriteMarker, job, binaries, past
<1>4. Fresh' /\ Marked'
  BY <1>1, <1>2 DEF FlowTypeOK, Fresh, Marked, WriteMarker, job, binaries, past
<1>5. Phases'
  BY <1>1, <1>2 DEF FlowTypeOK, Phases, WriteMarker, job, binaries, past
<1>6. Watched' /\ OwnFiles' /\ Results' /\ VerdictIsTrue'
  BY <1>2, HandleGoesOn DEF Phases, WriteMarker, job, past
<1> QED BY <1>3, <1>4, <1>5, <1>6

\* The reload is asked for.
LEMMA AfterIInv ==
  ASSUME LockedIInv, After
  PROVE  LockedIInv'
<1> USE FlowBounds, NilIsNone DEF LockedIInv
<1>1. FlowTypeOK'
  BY DEF FlowTypeOK, After, Finish, release, job, binaries, past
<1>2. Fresh' /\ Marked'
  BY DEF FlowTypeOK, Fresh, Phases, Marked, Marker, After, Finish, release, job, binaries, past
<1>3. Phases'
  BY DEF FlowTypeOK, Phases, Marker, After, Finish, release, job, binaries, past
<1>4. Watched' /\ OwnFiles' /\ Results' /\ VerdictIsTrue'
  BY HandleGoesOn DEF Phases, After, Finish, release, job, binaries, past
<1> QED BY <1>1, <1>2, <1>3, <1>4

\* The report of a request without a job is made.
LEMMA ResumeRemovesIInv ==
  ASSUME LockedIInv, ResumeRemoves
  PROVE  LockedIInv'
<1> USE FlowBounds, NilIsNone DEF LockedIInv
<1>1. FlowTypeOK'
  BY DEF FlowTypeOK, ResumeRemoves, job, binaries, past
<1>2. Fresh' /\ Marked'
  BY DEF FlowTypeOK, Fresh, Phases, Marked, Marker, ResumeRemoves, job, binaries, past
<1>3. Phases'
  BY DEF FlowTypeOK, Phases, Marker, ResumeRemoves, job, binaries, past
<1>4. Watched' /\ OwnFiles' /\ Results' /\ VerdictIsTrue'
  BY HandleGoesOn DEF Phases, ResumeRemoves, job, binaries, past
<1> QED BY <1>1, <1>2, <1>3, <1>4

LEMMA NoJobYet ==
  ASSUME LockedIInv, step \in {"start", "launch"}
  PROVE  /\ op # Nil /\ watch[TRUE] = Nil /\ requests \in Requests /\ lock
         /\ jobs[requests].stage = "none" /\ said[requests] = "none"
         /\ \A j \in Requests : ~(Clean(j) /\ AtWork(j))
         /\ step = "start" => marker = Nil
         /\ step = "launch" => marker # Nil /\ marker.request = requests /\ marker.converge
<1> USE FlowBounds, NilIsNone DEF LockedIInv
<1>1. op # Nil /\ watch[TRUE] = Nil /\ requests \in Requests /\ lock
  BY DEF Phases, FlowTypeOK
<1>2. jobs[requests].stage = "none" /\ said[requests] = "none"
  BY <1>1 DEF Fresh
<1>3. /\ step = "start" => marker = Nil
      /\ step = "launch" => marker # Nil /\ marker.request = requests /\ marker.converge
  BY DEF Phases, Marked
<1>4. ASSUME NEW j \in Requests, Clean(j), AtWork(j) PROVE FALSE
  <2>1. marker # Nil /\ marker.request = j
    BY <1>4 DEF Watched
  <2>2. j = requests
    BY <2>1 DEF Marked
  <2> QED BY <1>2, <1>4, <2>2 DEF AtWork
<1> QED BY <1>1, <1>2, <1>3, <1>4

\* The last job's files go, and the marker names the next job.
LEMMA ConvergePreparesIInv ==
  ASSUME LockedIInv, ConvergePrepares
  PROVE  LockedIInv'
<1> USE FlowBounds, NilIsNone DEF LockedIInv
<1> DEFINE m == [request |-> requests, converge |-> TRUE]
<1>1. /\ op # Nil /\ watch[TRUE] = Nil /\ requests \in Requests /\ lock
      /\ jobs[requests].stage = "none" /\ said[requests] = "none"
      /\ \A j \in Requests : ~(Clean(j) /\ AtWork(j))
  BY NoJobYet DEF ConvergePrepares
<1>2. /\ rc' = Nil /\ pid' = 0 /\ marker' = m /\ step = "start" /\ step' = "launch"
      /\ UNCHANGED <<fleet, requests, op, lock, watch, jobs, bin, prev, timedOut, unlocked, said>>
  BY DEF ConvergePrepares, binaries, past
<1>3. m \in Marker /\ m # Nil /\ m.request = requests /\ m.converge
  <2>1. m \in Marker
    BY <1>1 DEF Marker
  <2> QED BY <2>1
<1> HIDE DEF m
<1>4. FlowTypeOK'
  BY <1>2, <1>3 DEF FlowTypeOK
<1>5. Fresh' /\ Marked'
  BY <1>1, <1>2, <1>3 DEF Fresh, Marked
<1>6. Phases'
  BY <1>1, <1>2, <1>3 DEF Phases
<1>7. Watched'
  BY <1>1, <1>2, CleanSame DEF Watched, AtWork
<1>8. OwnFiles'
  BY <1>1, <1>2, <1>3 DEF OwnFiles, Results
<1>9. Results' /\ VerdictIsTrue'
  BY <1>2, CleanSame DEF Results, VerdictIsTrue, AtWork, GivenUp
<1> QED BY <1>4, <1>5, <1>6, <1>7, <1>8, <1>9

\* Nothing is started.
LEMMA ConvergeFailsIInv ==
  ASSUME LockedIInv, ConvergeFails
  PROVE  LockedIInv'
<1> USE FlowBounds, NilIsNone DEF LockedIInv
<1>1. /\ op # Nil /\ watch[TRUE] = Nil /\ requests \in Requests /\ lock
      /\ \A j \in Requests : ~(Clean(j) /\ AtWork(j))
  BY NoJobYet DEF ConvergeFails
<1>2. /\ rc' \in {rc, Nil} /\ pid' \in {pid, 0} /\ marker' = Nil /\ step' = "idle"
      /\ op' = Nil /\ lock' = FALSE
      /\ UNCHANGED <<fleet, requests, watch, jobs, bin, prev, timedOut, unlocked, said>>
  BY NoJobYet DEF ConvergeFails, Finish, release, binaries, past
<1>3. FlowTypeOK'
  <2>1. rc' \in Rc \cup {Nil} /\ pid' \in 0 .. MaxRequests
    BY <1>2 DEF FlowTypeOK
  <2>2. op' \in Op \cup {Nil} /\ marker' \in Marker \cup {Nil} /\ lock' \in BOOLEAN
    BY <1>2
  <2> QED BY <1>2, <2>1, <2>2 DEF FlowTypeOK
<1>4. Fresh' /\ Marked' /\ Phases' /\ OwnFiles'
  BY <1>1, <1>2 DEF Fresh, Marked, Phases, OwnFiles
<1>5. Watched'
  BY <1>1, <1>2, CleanSame DEF Watched, AtWork
<1>6. Results' /\ VerdictIsTrue'
  BY <1>2, CleanSame DEF Results, VerdictIsTrue, AtWork, GivenUp
<1> QED BY <1>3, <1>4, <1>5, <1>6

\* The job runs, watched by the image that started it.
LEMMA ConvergeStartsIInv ==
  ASSUME LockedIInv, ConvergeStarts
  PROVE  LockedIInv'
<1> USE FlowBounds, NilIsNone DEF LockedIInv
<1> DEFINE w == [at |-> "look", job |-> requests, gone |-> FALSE]
<1>1. /\ op # Nil /\ watch[TRUE] = Nil /\ requests \in Requests /\ lock
      /\ jobs[requests].stage = "none" /\ said[requests] = "none"
      /\ \A j \in Requests : ~(Clean(j) /\ AtWork(j))
  BY NoJobYet DEF ConvergeStarts
<1>2. /\ jobs' = [jobs EXCEPT ![requests].stage = "spawned"]
      /\ watch' = [watch EXCEPT ![TRUE] = w] /\ op' = Nil /\ step' = "idle"
      /\ UNCHANGED <<fleet, requests, lock, marker, rc, pid, bin, prev, timedOut, unlocked, said>>
  BY DEF ConvergeStarts, Starting, binaries, past
<1>3. w \in Watcher /\ w # Nil /\ w.at = "look" /\ w.job = requests /\ ~w.gone
  <2>1. w \in Watcher
    BY <1>1 DEF Watcher
  <2> QED BY <2>1
<1>4. marker # Nil /\ marker.request = requests /\ marker.converge
  BY NoJobYet DEF ConvergeStarts
<1> HIDE DEF w
<1>2a. watch'[TRUE] = w /\ watch'[FALSE] = watch[FALSE]
       /\ watch' \in [BOOLEAN -> Watcher \cup {Nil}]
  BY <1>2, <1>3 DEF FlowTypeOK
<1>5. /\ jobs'[requests].stage = "spawned" /\ jobs'[requests].result = jobs[requests].result
      /\ \A j \in Requests : j # requests => jobs'[j] = jobs[j]
  BY <1>1, <1>2 DEF FlowTypeOK
<1>6. FlowTypeOK'
  <2>1. jobs' \in [Requests -> [stage : {"none", "spawned", "running", "written", "exited"},
                                result : {"none", "ok", "failed"}]]
    BY <1>1, <1>2 DEF FlowTypeOK
  <2> QED BY <1>2, <1>2a, <2>1 DEF FlowTypeOK
<1>7. Fresh' /\ Marked'
  BY <1>1, <1>2, <1>2a, <1>4, <1>5 DEF Fresh, Marked, FlowTypeOK
<1>8. Phases'
  BY <1>1, <1>2, <1>2a, <1>3, <1>4 DEF Phases
<1>9. Watched'
  BY <1>1, <1>2, <1>2a, <1>3, <1>4, <1>5, CleanSame DEF Watched, AtWork
<1>10. OwnFiles'
  BY <1>1, <1>2, <1>2a, <1>3, <1>4, <1>5, CleanSame DEF OwnFiles
<1>11. Results'
  BY <1>1, <1>2, <1>2a, <1>5, CleanSame DEF Results, AtWork
<1>12. VerdictIsTrue'
  BY <1>1, <1>2, <1>2a, <1>5 DEF VerdictIsTrue, GivenUp
<1> QED BY <1>6, <1>7, <1>8, <1>9, <1>10, <1>11, <1>12

\* While the job the marker names and those before it were not given up, no
\* other job is at work.
LEMMA OnlyJob ==
  ASSUME LockedIInv, marker # Nil, marker.converge, Clean(marker.request),
         NEW j \in Requests, AtWork(j)
  PROVE  j = marker.request
<1> USE FlowBounds, NilIsNone DEF LockedIInv
<1>1. marker.request = requests
  BY DEF Marked
<1>2. requests \in Nat /\ ~(j > requests)
  BY DEF Fresh, AtWork, FlowTypeOK
<1>3. Clean(j)
  BY <1>1, <1>2 DEF Clean
<1> QED BY <1>3 DEF Watched

\* The job's shell writes its pid.
LEMMA JobWritesPidIInv ==
  ASSUME LockedIInv, NEW k \in Requests, JobWritesPid(k), JobStep(k)
  PROVE  LockedIInv'
<1> USE FlowBounds, NilIsNone DEF LockedIInv
<1>1. /\ jobs[k].stage = "spawned" /\ jobs' = [jobs EXCEPT ![k].stage = "running"]
      /\ pid' = k /\ AtWork(k)
      /\ UNCHANGED <<fleet, requests, op, step, lock, marker, watch, rc, bin, prev, timedOut,
           unlocked, said>>
  BY DEF JobWritesPid, JobStep, binaries, past, AtWork
<1>2. /\ jobs'[k].stage = "running" /\ jobs'[k].result = jobs[k].result
      /\ \A j \in Requests : j # k => jobs'[j] = jobs[j]
  BY <1>1 DEF FlowTypeOK
<1>3. FlowTypeOK'
  BY <1>1 DEF FlowTypeOK
<1>4. Fresh' /\ Marked' /\ Phases'
  BY <1>1, <1>2 DEF Fresh, Marked, Phases
<1>5. Watched'
  BY <1>1, <1>2, CleanSame DEF Watched, AtWork
<1>6. OwnFiles'
  <2>1. SUFFICES ASSUME marker # Nil, marker.converge, Clean(marker.request)
                 PROVE  OwnFiles'
    BY <1>1, CleanSame DEF OwnFiles
  <2>2. k = marker.request
    BY <1>1, <2>1, OnlyJob
  <2> QED BY <1>1, <1>2, <2>1, <2>2 DEF OwnFiles
<1>7. Results' /\ VerdictIsTrue'
  BY <1>1, <1>2, CleanSame DEF Results, VerdictIsTrue, AtWork, GivenUp
<1> QED BY <1>3, <1>4, <1>5, <1>6, <1>7

\* The job's shell writes how the command ended.
LEMMA JobWritesRcIInv ==
  ASSUME LockedIInv, NEW k \in Requests, JobWritesRc(k), JobStep(k)
  PROVE  LockedIInv'
<1> USE FlowBounds, NilIsNone DEF LockedIInv
<1>1. PICK ok \in BOOLEAN :
        /\ jobs' = [jobs EXCEPT ![k] = [stage |-> "written",
                                        result |-> IF ok THEN "ok" ELSE "failed"]]
        /\ rc' = [job |-> k, ok |-> ok]
  BY DEF JobWritesRc
<1>2. /\ jobs[k].stage = "running" /\ AtWork(k)
      /\ UNCHANGED <<fleet, requests, op, step, lock, marker, watch, pid, bin, prev, timedOut,
           unlocked, said>>
  BY DEF JobWritesRc, JobStep, binaries, past, AtWork, Alive
<1>3. /\ jobs'[k].stage = "written" /\ jobs'[k].result = IF ok THEN "ok" ELSE "failed"
      /\ \A j \in Requests : j # k => jobs'[j] = jobs[j]
  BY <1>1 DEF FlowTypeOK
<1>4. rc' \in Rc /\ rc' # Nil /\ rc'.ok = ok
  <2>1. rc' \in Rc
    BY <1>1 DEF Rc
  <2> QED BY <1>1, <2>1
<1>5. FlowTypeOK'
  BY <1>1, <1>2, <1>4 DEF FlowTypeOK
<1>6. Fresh' /\ Marked' /\ Phases'
  BY <1>2, <1>3 DEF Fresh, Marked, Phases
<1>7. Watched'
  BY <1>2, <1>3, CleanSame DEF Watched, AtWork
<1>8. OwnFiles'
  <2>1. SUFFICES ASSUME marker # Nil, marker.converge, Clean(marker.request)
                 PROVE  OwnFiles'
    BY <1>2, CleanSame DEF OwnFiles
  <2>2. k = marker.request
    BY <1>2, <2>1, OnlyJob
  <2> QED BY <1>2, <1>3, <1>4, <2>1, <2>2 DEF OwnFiles
<1>9. Clean(k) => said[k] \notin {"ok", "failed"}
  BY <1>2 DEF Results
<1>10. Results'
  BY <1>2, <1>3, CleanSame DEF Results, AtWork
<1>11. VerdictIsTrue'
  BY <1>2, <1>3, <1>9 DEF VerdictIsTrue, GivenUp, Clean
<1> QED BY <1>5, <1>6, <1>7, <1>8, <1>10, <1>11

\* The job's shell is gone.
LEMMA JobExitsIInv ==
  ASSUME LockedIInv, NEW k \in Requests, JobExits(k), JobStep(k)
  PROVE  LockedIInv'
<1> USE FlowBounds, NilIsNone DEF LockedIInv
<1>1. /\ jobs[k].stage # "none" /\ jobs' = [jobs EXCEPT ![k].stage = "exited"]
      /\ UNCHANGED <<fleet, requests, op, step, lock, marker, watch, rc, pid, bin, prev, timedOut,
           unlocked, said>>
  BY DEF JobExits, JobStep, binaries, past, Alive
<1>2. /\ jobs'[k].stage = "exited" /\ jobs'[k].result = jobs[k].result
      /\ \A j \in Requests : j # k => jobs'[j] = jobs[j]
  BY <1>1 DEF FlowTypeOK
<1>3. FlowTypeOK'
  BY <1>1 DEF FlowTypeOK
<1>4. Fresh' /\ Marked' /\ Phases'
  BY <1>1, <1>2 DEF Fresh, Marked, Phases
<1>5. Watched' /\ Results'
  BY <1>1, <1>2, CleanSame DEF Watched, Results, AtWork
<1>6. OwnFiles'
  BY <1>1, <1>2, CleanSame DEF OwnFiles, Marked, FlowTypeOK, Marker
<1>7. VerdictIsTrue'
  BY <1>1, <1>2 DEF VerdictIsTrue, GivenUp
<1> QED BY <1>3, <1>4, <1>5, <1>6, <1>7

\* Another process, or none: the lock and the watcher are gone with the old one.
LEMMA ImageIsReplaced ==
  ASSUME LockedIInv, NewImage, step' \in {"boot", "down"},
         bin' \in AgentVersion,
         UNCHANGED <<fleet, requests, marker, rc, pid, jobs, prev, timedOut, unlocked, said>>
  PROVE  LockedIInv'
<1> USE FlowBounds, NilIsNone DEF LockedIInv
<1>1. FlowTypeOK'
  BY DEF NewImage, FlowTypeOK
<1>2. Fresh' /\ Marked' /\ Phases'
  BY DEF NewImage, Fresh, Marked, Phases
<1>3. Watched' /\ OwnFiles' /\ Results'
  BY CleanSame DEF NewImage, Watched, OwnFiles, Results, AtWork
<1>4. VerdictIsTrue'
  BY DEF VerdictIsTrue, GivenUp
<1> QED BY <1>1, <1>2, <1>3, <1>4

LEMMA StartIInv ==
  ASSUME LockedIInv, Start
  PROVE  LockedIInv'
<1> USE FlowBounds, NilIsNone DEF LockedIInv
<1>1. /\ step = "down" /\ step' \in {"boot", "late"}
      /\ UNCHANGED <<fleet, requests, op, lock, marker, watch, rc, pid, jobs, bin, prev, timedOut,
           unlocked, said>>
  BY DEF Start, job, binaries, past
<1>2. FlowTypeOK' /\ Fresh' /\ Marked'
  BY <1>1 DEF FlowTypeOK, Fresh, Marked
<1>3. Phases'
  BY <1>1 DEF Phases
<1>4. Watched' /\ OwnFiles' /\ Results'
  BY <1>1, CleanSame DEF Watched, OwnFiles, Results, AtWork
<1>5. VerdictIsTrue'
  BY <1>1 DEF VerdictIsTrue, GivenUp
<1> QED BY <1>2, <1>3, <1>4, <1>5

\* A marker that is too old is discarded, and its job with it.
LEMMA ResumeNothingIInv ==
  ASSUME LockedIInv, ResumeNothing
  PROVE  LockedIInv'
<1> USE FlowBounds, NilIsNone DEF LockedIInv
<1>1. /\ step \in {"late", "boot"} /\ step' = "idle" /\ marker' = Nil
      /\ UNCHANGED <<fleet, requests, op, lock, watch, rc, pid, jobs, bin, prev, timedOut,
           unlocked>>
  BY DEF ResumeNothing, job, binaries, past
<1>2. op = Nil /\ watch[TRUE] = Nil /\ lock = FALSE
  BY <1>1 DEF Phases, FlowTypeOK
<1>3. \A j \in Requests :
          /\ said'[j] # said[j] => marker # Nil /\ marker.request = j
          /\ marker # Nil /\ marker.request = j => said'[j] = "discarded"
  BY DEF ResumeNothing, FlowTypeOK
<1>4. /\ \A j \in Requests : Clean(j)' => Clean(j)
      /\ \A j \in Requests : marker # Nil /\ marker.request = j => ~Clean(j)'
  <2>1. \A j \in Requests : said[j] = "discarded" => said'[j] = "discarded"
    BY <1>3
  <2>2. \A j \in Requests : Clean(j)' => Clean(j)
    BY <1>1, <2>1, CleanBefore
  <2>3. ASSUME NEW j \in Requests, marker # Nil, marker.request = j PROVE ~Clean(j)'
    BY <1>3, <2>3 DEF Clean, GivenUp
  <2> QED BY <2>2, <2>3
<1>5. FlowTypeOK'
  <2>1. said' \in [Requests -> {"none", "ok", "failed", "done", "discarded"}]
    BY DEF ResumeNothing, FlowTypeOK
  <2> QED BY <1>1, <2>1 DEF FlowTypeOK
<1>6. Fresh'
  BY <1>1, <1>2, <1>3 DEF Fresh, Marked, FlowTypeOK
<1>7. Marked' /\ Phases' /\ OwnFiles'
  BY <1>1, <1>2 DEF Marked, Phases, OwnFiles
<1>8. Watched'
  BY <1>1, <1>4 DEF Watched, AtWork
<1>9. Results'
  BY <1>1, <1>3, <1>4 DEF Results, AtWork
<1>10. VerdictIsTrue'
  BY <1>1, <1>3, <1>4 DEF VerdictIsTrue, Clean
<1> QED BY <1>5, <1>6, <1>7, <1>8, <1>9, <1>10

\* The outcome of a request without a job is posted.
LEMMA ResumePostsIInv ==
  ASSUME LockedIInv, ResumePosts
  PROVE  LockedIInv'
<1> USE FlowBounds, NilIsNone DEF LockedIInv
<1>1. /\ step = "boot" /\ step' = "posted" /\ marker # Nil /\ ~marker.converge
      /\ marker.request = requests /\ requests \in Requests
      /\ said' = [said EXCEPT ![requests] = "done"] /\ said[requests] # "discarded"
      /\ UNCHANGED <<fleet, requests, op, lock, marker, watch, rc, pid, jobs, bin, prev, timedOut,
           unlocked>>
  BY DEF ResumePosts, job, binaries, past, Marked, FlowTypeOK, Marker
<1>2. /\ said'[requests] = "done" /\ \A j \in Requests : j # requests => said'[j] = said[j]
      /\ said' \in [Requests -> {"none", "ok", "failed", "done", "discarded"}]
  BY <1>1 DEF FlowTypeOK
<1>3. \A j \in Requests : Clean(j)' <=> Clean(j)
  BY <1>1, <1>2 DEF Clean, GivenUp
<1>4. FlowTypeOK'
  BY <1>1, <1>2 DEF FlowTypeOK
<1>5. op = Nil
  BY <1>1 DEF Phases
<1>6. Fresh' /\ Marked'
  BY <1>1, <1>2, <1>5 DEF Fresh, Marked, FlowTypeOK
<1>7. Phases'
  BY <1>1, <1>5 DEF Phases
<1>8. Watched' /\ OwnFiles' /\ Results'
  BY <1>1, <1>2, <1>3 DEF Watched, OwnFiles, Results, AtWork
<1>9. VerdictIsTrue'
  BY <1>1, <1>2, <1>3 DEF VerdictIsTrue, Clean
<1> QED BY <1>4, <1>6, <1>7, <1>8, <1>9

\* The new image takes the lock again and watches the job.
LEMMA ResumeWatchesIInv ==
  ASSUME LockedIInv, ResumeWatches, unlocked' = unlocked
  PROVE  LockedIInv'
<1> USE FlowBounds, NilIsNone DEF LockedIInv
<1> DEFINE w == [at |-> "look", job |-> 0, gone |-> FALSE]
<1>1. /\ step = "boot" /\ step' = "idle" /\ marker # Nil /\ marker.converge
      /\ watch' = [watch EXCEPT ![TRUE] = w] /\ lock' = TRUE
      /\ UNCHANGED <<fleet, requests, op, marker, rc, pid, jobs, bin, prev, timedOut, unlocked,
           said>>
  <2>1. unlocked = {}
    BY DEF Phases
  <2> QED BY <2>1 DEF ResumeWatches, Starting, acquire, job, binaries, past
<1>2. w \in Watcher /\ w # Nil /\ w.at = "look" /\ w.job = 0 /\ ~w.gone
  <2>1. w \in Watcher
    BY DEF Watcher
  <2> QED BY <2>1
<1> HIDE DEF w
<1>2a. watch'[TRUE] = w /\ watch'[FALSE] = watch[FALSE]
       /\ watch' \in [BOOLEAN -> Watcher \cup {Nil}]
  BY <1>1, <1>2 DEF FlowTypeOK
<1>3. FlowTypeOK'
  BY <1>1, <1>2a DEF FlowTypeOK
<1>4. Fresh' /\ Marked' /\ Phases'
  BY <1>1, <1>2, <1>2a DEF Fresh, Marked, Phases
<1>5. Watched' /\ OwnFiles' /\ Results'
  BY <1>1, <1>2, <1>2a, CleanSame DEF Watched, OwnFiles, Results, AtWork
<1>6. VerdictIsTrue'
  BY <1>1 DEF VerdictIsTrue, GivenUp
<1> QED BY <1>3, <1>4, <1>5, <1>6

\* A step of the watcher that leaves it there: what is to be shown of where it
\* goes and of whether it found its job gone.
LEMMA WatcherMoves ==
  ASSUME LockedIInv, watch[TRUE] # Nil, NEW w \in Watcher, w.job = watch[TRUE].job,
         watch' = [watch EXCEPT ![TRUE] = w],
         UNCHANGED <<fleet, requests, op, step, lock, marker, rc, pid, jobs, bin, prev, unlocked,
               said>>,
         timedOut \subseteq timedOut',
         \A j \in Requests : Clean(j)' /\ AtWork(j) => w.at \in {"look", "stat"} /\ ~w.gone
  PROVE  LockedIInv'
<1> USE FlowBounds, NilIsNone DEF LockedIInv
<1>1. \A j \in Requests : Clean(j)' => Clean(j)
  BY CleanBefore
<1>2. watch'[TRUE] = w /\ watch'[TRUE] # Nil /\ watch'[FALSE] = watch[FALSE]
      /\ watch' \in [BOOLEAN -> Watcher \cup {Nil}]
  BY DEF FlowTypeOK
<1>3. FlowTypeOK'
  BY <1>2 DEF FlowTypeOK
<1>4. Fresh' /\ Marked' /\ Phases'
  BY <1>2 DEF Fresh, Marked, Phases
<1>5. Watched' /\ Results'
  BY <1>1, <1>2 DEF Watched, Results, AtWork
<1>6. OwnFiles'
  <2>1. marker # Nil => marker.request \in Requests
    BY DEF FlowTypeOK, Marker
  <2> QED BY <1>1, <1>2, <2>1 DEF OwnFiles
<1>7. VerdictIsTrue'
  BY <1>1 DEF VerdictIsTrue, Clean
<1> QED BY <1>3, <1>4, <1>5, <1>6, <1>7

\* Only the job itself can be what the watcher finds exited.
LEMMA WatchLookIInv ==
  ASSUME LockedIInv, WatchLook(TRUE)
  PROVE  LockedIInv'
<1> USE FlowBounds, NilIsNone DEF LockedIInv
<1> DEFINE w == [watch[TRUE] EXCEPT !.at = "stat", !.gone = exited(watch[TRUE].job)]
<1>1. /\ watch[TRUE] # Nil /\ watch' = [watch EXCEPT ![TRUE] = w]
      /\ UNCHANGED <<fleet, requests, op, step, lock, marker, rc, pid, jobs, bin, prev, timedOut,
           unlocked, said>>
  BY DEF WatchLook, WatchIsAt, job, binaries, past, FlowTypeOK
<1>2. watch[TRUE] \in Watcher
  BY <1>1 DEF FlowTypeOK
<1>3. w \in Watcher /\ w.job = watch[TRUE].job /\ w.at = "stat" /\ w.gone = exited(watch[TRUE].job)
  BY <1>2 DEF Watcher, exited
<1>4. ASSUME NEW j \in Requests, Clean(j)', AtWork(j) PROVE ~exited(watch[TRUE].job)
  <2>1. Clean(j) /\ marker # Nil /\ marker.request = j /\ marker.converge
    BY <1>1, <1>4, CleanSame DEF Watched
  <2>2. watch[TRUE].job \in {0, j} /\ pid \in {0, j}
    BY <1>1, <2>1 DEF OwnFiles
  <2> QED BY <1>4, <2>2 DEF exited, AtWork
<1> HIDE DEF w
<1> QED BY <1>1, <1>3, <1>4, WatcherMoves

LEMMA WatchStatIInv ==
  ASSUME LockedIInv, WatchStat(TRUE)
  PROVE  LockedIInv'
<1> USE FlowBounds, NilIsNone DEF LockedIInv
<1> DEFINE w == [watch[TRUE] EXCEPT !.at = IF rc # Nil \/ watch[TRUE].gone THEN "report" ELSE "look"]
<1>1. /\ watch[TRUE] # Nil /\ watch' = [watch EXCEPT ![TRUE] = w]
      /\ UNCHANGED <<fleet, requests, op, step, lock, marker, rc, pid, jobs, bin, prev, timedOut,
           unlocked, said>>
  BY DEF WatchStat, WatchIsAt, job, binaries, past, FlowTypeOK
<1>2. watch[TRUE] \in Watcher
  BY <1>1 DEF FlowTypeOK
<1>3. /\ w \in Watcher /\ w.job = watch[TRUE].job /\ w.gone = watch[TRUE].gone
      /\ w.at = IF rc # Nil \/ watch[TRUE].gone THEN "report" ELSE "look"
  BY <1>2 DEF Watcher
<1>4. ASSUME NEW j \in Requests, Clean(j)', AtWork(j) PROVE rc = Nil /\ ~watch[TRUE].gone
  <2>1. Clean(j) /\ marker # Nil /\ marker.request = j /\ marker.converge /\ ~watch[TRUE].gone
    BY <1>1, <1>4, CleanSame DEF Watched
  <2> QED BY <1>4, <2>1 DEF OwnFiles, Results
<1> HIDE DEF w
<1> QED BY <1>1, <1>3, <1>4, WatcherMoves

\* A job that is watched no longer is given up, if it is at work.
LEMMA WatchTimesOutIInv ==
  ASSUME LockedIInv, WatchTimesOut(TRUE)
  PROVE  LockedIInv'
<1> USE FlowBounds, NilIsNone DEF LockedIInv
<1> DEFINE w == [watch[TRUE] EXCEPT !.at = "report"]
<1>1. /\ watch[TRUE] # Nil /\ watch' = [watch EXCEPT ![TRUE] = w]
      /\ timedOut' = timedOut \cup {j \in Requests : AtWork(j)}
      /\ UNCHANGED <<fleet, requests, op, step, lock, marker, rc, pid, jobs, bin, prev, unlocked,
           said>>
  BY DEF WatchTimesOut, WatchIsAt, job, binaries, FlowTypeOK
<1>2. watch[TRUE] \in Watcher
  BY <1>1 DEF FlowTypeOK
<1>3. w \in Watcher /\ w.job = watch[TRUE].job
  BY <1>2 DEF Watcher
<1>4. timedOut \subseteq timedOut'
  BY <1>1
<1>5. ASSUME NEW j \in Requests, Clean(j)', AtWork(j) PROVE FALSE
  BY <1>1, <1>5 DEF Clean, GivenUp
<1> HIDE DEF w
<1> QED BY <1>1, <1>3, <1>4, <1>5, WatcherMoves

\* The rc file of the job tells how it ended.
LEMMA WatchReportsIInv ==
  ASSUME LockedIInv, WatchReports(TRUE)
  PROVE  LockedIInv'
<1> USE FlowBounds, NilIsNone DEF LockedIInv
<1>1. /\ watch[TRUE] # Nil /\ watch[TRUE].at = "report"
      /\ watch' = [watch EXCEPT ![TRUE].at = "remove"]
      /\ UNCHANGED <<fleet, requests, op, step, lock, marker, rc, pid, jobs, bin, prev, timedOut,
           unlocked>>
  BY DEF WatchReports, WatchIsAt, job, binaries, past
<1>2. /\ marker # Nil /\ marker.converge /\ marker.request = requests /\ requests \in Requests
      /\ said[requests] # "discarded" /\ step = "idle" /\ op = Nil
  BY <1>1 DEF Phases, Marked, FlowTypeOK, Marker
<1>3. /\ said'[requests] = convergeReport
      /\ \A j \in Requests : j # requests => said'[j] = said[j]
      /\ said' \in [Requests -> {"none", "ok", "failed", "done", "discarded"}]
  BY <1>2 DEF WatchReports, FlowTypeOK, convergeReport
<1>4. /\ watch'[TRUE] \in Watcher /\ watch'[TRUE].job = watch[TRUE].job /\ watch'[TRUE] # Nil
      /\ watch'[FALSE] = watch[FALSE] /\ watch' \in [BOOLEAN -> Watcher \cup {Nil}]
  <2>1. watch[TRUE] \in Watcher
    BY <1>1 DEF FlowTypeOK
  <2>2. watch'[TRUE] = [watch[TRUE] EXCEPT !.at = "remove"] /\ watch'[FALSE] = watch[FALSE]
    BY <1>1 DEF FlowTypeOK
  <2>3. watch'[TRUE] \in Watcher /\ watch'[TRUE].job = watch[TRUE].job
    BY <2>1, <2>2 DEF Watcher
  <2>4. watch' \in [BOOLEAN -> Watcher \cup {Nil}]
    BY <1>1, <2>2, <2>3 DEF FlowTypeOK
  <2> QED BY <2>2, <2>3, <2>4
<1>5. convergeReport \in {"ok", "failed"}
  BY DEF convergeReport
<1>6. \A j \in Requests : Clean(j)' <=> Clean(j)
  BY <1>1, <1>2, <1>3, <1>5 DEF Clean, GivenUp
<1>7. \A j \in Requests : ~(Clean(j) /\ AtWork(j))
  BY <1>1 DEF Watched
<1>8. FlowTypeOK'
  BY <1>1, <1>3, <1>4 DEF FlowTypeOK
<1>9. Fresh' /\ Marked'
  BY <1>1, <1>2, <1>3, <1>5 DEF Fresh, Marked, FlowTypeOK
<1>10. Phases'
  BY <1>1, <1>2, <1>4 DEF Phases
<1>11. Watched' /\ Results'
  BY <1>1, <1>6, <1>7 DEF Watched, Results, AtWork
<1>12. OwnFiles'
  BY <1>1, <1>2, <1>4, <1>6 DEF OwnFiles
<1>13. VerdictIsTrue'
  <2>1. ASSUME NEW j \in Requests, Clean(j)'
        PROVE  /\ said'[j] = "ok" => jobs[j].result = "ok"
               /\ said'[j] = "failed" => jobs[j].result # "ok"
    <3>1. CASE j = requests
      <4>1. /\ rc = Nil => jobs[j].result = "none"
            /\ rc # Nil => jobs[j].result = IF rc.ok THEN "ok" ELSE "failed"
        BY <1>2, <1>6, <2>1, <3>1 DEF OwnFiles
      <4> QED BY <1>3, <3>1, <4>1 DEF convergeReport
    <3>2. CASE j # requests
      BY <1>3, <1>6, <2>1, <3>2 DEF VerdictIsTrue, Clean
    <3> QED BY <3>1, <3>2
  <2> QED BY <1>1, <2>1 DEF VerdictIsTrue, Clean
<1> QED BY <1>8, <1>9, <1>10, <1>11, <1>12, <1>13

LEMMA WatchRemovesIInv ==
  ASSUME LockedIInv, WatchRemoves(TRUE)
  PROVE  LockedIInv'
<1> USE FlowBounds, NilIsNone DEF LockedIInv
<1>1. /\ watch[TRUE] # Nil /\ watch[TRUE].at = "remove" /\ marker' = Nil /\ lock' = FALSE
      /\ watch' = [watch EXCEPT ![TRUE] = Nil]
      /\ UNCHANGED <<fleet, requests, op, step, rc, pid, jobs, bin, prev, timedOut, unlocked, said>>
  BY DEF WatchRemoves, WatchEnds, WatchIsAt, release, job, binaries, past
<1>1a. watch'[TRUE] = Nil /\ watch'[FALSE] = watch[FALSE]
       /\ watch' \in [BOOLEAN -> Watcher \cup {Nil}]
  BY <1>1 DEF FlowTypeOK
<1>2. \A j \in Requests : ~(Clean(j) /\ AtWork(j))
  BY <1>1 DEF Watched
<1>3. FlowTypeOK'
  BY <1>1, <1>1a DEF FlowTypeOK
<1>4. Fresh' /\ Marked' /\ OwnFiles'
  BY <1>1 DEF Fresh, Marked, OwnFiles
<1>5. Phases'
  BY <1>1, <1>1a DEF Phases
<1>6. Watched' /\ Results'
  BY <1>1, <1>2, CleanSame DEF Watched, Results, AtWork
<1>7. VerdictIsTrue'
  BY <1>1 DEF VerdictIsTrue, GivenUp
<1> QED BY <1>3, <1>4, <1>5, <1>6, <1>7

LEMMA FlowStutter ==
  ASSUME LockedIInv, UNCHANGED flowVars
  PROVE  LockedIInv'
<1>1. /\ FlowTypeOK' /\ Fresh' /\ Phases' /\ Marked'
  BY DEF LockedIInv, FlowTypeOK, Fresh, Phases, Marked, flowVars, job, binaries, past
<1>2. UNCHANGED <<marker, watch, rc, pid, jobs, timedOut, unlocked, said>>
  BY DEF flowVars, job, binaries, past
<1>3. Watched' /\ OwnFiles' /\ Results'
  BY <1>2, CleanSame DEF LockedIInv, Watched, OwnFiles, Results, AtWork
<1>4. VerdictIsTrue'
  BY <1>2 DEF LockedIInv, VerdictIsTrue, GivenUp
<1> QED BY <1>1, <1>3, <1>4 DEF LockedIInv

\* With every job watched under the lock.
LEMMA LockedStep ==
  ASSUME LockedIInv, [FlowNext]_flowVars, unlocked' = unlocked
  PROVE  LockedIInv'
<1>1. CASE \E o \in Op : Handle(o)
  BY <1>1, HandleIInv
<1>2. CASE Run
  BY <1>2, RunFilesIInv, RunFailsIInv, DrainedIInv, WriteMarkerIInv, AfterIInv DEF Run
<1>3. CASE ConvergeSteps
  BY <1>3, ConvergePreparesIInv, ConvergeFailsIInv, ConvergeStartsIInv DEF ConvergeSteps
<1>4. CASE Resume
  BY <1>4, ResumeNothingIInv, ResumePostsIInv, ResumeRemovesIInv, ResumeWatchesIInv DEF Resume
<1>5. CASE \E held \in BOOLEAN : Watch(held)
  <2>1. watch[FALSE] = Nil /\ (watch[TRUE] # Nil => marker # Nil)
    BY DEF LockedIInv, Phases
  <2>2. Watch(TRUE) /\ ~WatchFindsNothing(TRUE)
    BY <1>5, <2>1 DEF Watch, WatchLook, WatchStat, WatchTimesOut, WatchReports, WatchFindsNothing,
          WatchRemoves, WatchIsAt
  <2> QED BY <2>2, WatchLookIInv, WatchStatIInv, WatchTimesOutIInv, WatchReportsIInv,
          WatchRemovesIInv DEF Watch
<1>6. CASE \E j \in Requests : JobStep(j)
  <2>1. PICK j \in Requests : JobStep(j)
    BY <1>6
  <2>2. JobWritesPid(j) \/ JobWritesRc(j) \/ JobExits(j)
    BY <2>1 DEF JobStep
  <2> QED BY <2>1, <2>2, JobWritesPidIInv, JobWritesRcIInv, JobExitsIInv
<1>7. CASE Exec
  <2>1. /\ NewImage /\ step' = "boot" /\ bin' \in AgentVersion
        /\ UNCHANGED <<fleet, requests, marker, rc, pid, jobs, prev, timedOut, unlocked, said>>
    BY <1>7, CutShortTyped DEF Exec, CutShort, job, LockedIInv
  <2> QED BY <2>1, ImageIsReplaced
<1>8. CASE Die
  <2>1. /\ NewImage /\ step' = "down" /\ bin' \in AgentVersion
        /\ UNCHANGED <<fleet, requests, marker, rc, pid, jobs, prev, timedOut, unlocked, said>>
    BY <1>8, CutShortTyped DEF Die, CutShort, job, LockedIInv
  <2> QED BY <2>1, ImageIsReplaced
<1>9. CASE Start
  BY <1>9, StartIInv
<1>10. CASE UNCHANGED flowVars
  BY <1>10, FlowStutter
<1> QED BY <1>1, <1>2, <1>3, <1>4, <1>5, <1>6, <1>7, <1>8, <1>9, <1>10 DEF FlowNext

\* An image that finds the lock taken watches without it.
LEMMA LockIsLost ==
  ASSUME LockedIInv, FlowNext, unlocked' # unlocked
  PROVE  LooseIInv'
<1> USE FlowBounds, NilIsNone DEF LockedIInv
<1>1. ResumeWatches
  BY DEF FlowNext, Handle, Run, RunFiles, RunFails, Drained, WriteMarker, After, ConvergeSteps,
     ConvergePrepares, ConvergeFails, ConvergeStarts, Resume, ResumeNothing, ResumePosts,
     ResumeRemoves, Watch, WatchLook, WatchStat, WatchTimesOut, WatchReports, WatchFindsNothing,
     WatchRemoves, WatchEnds, JobStep, Exec, Die, Start, past
<1>2. /\ marker # Nil /\ marker \in Marker /\ marker.request = requests
  BY <1>1 DEF ResumeWatches, Marked, FlowTypeOK
<1>3. requests \in Requests
  BY <1>2 DEF Marker
<1>4. unlocked' = unlocked \cup {requests}
      /\ UNCHANGED <<requests, marker, jobs, timedOut, said>>
  BY <1>1, <1>2 DEF ResumeWatches, job
<1>5. FlowTypeOK'
  BY <1>1, <1>3, FlowTypes
<1>6. \A j \in Requests : Clean(j)' => Clean(j)
  BY <1>4, CleanBefore
<1>7. Loosened'
  <2>1. ASSUME NEW j \in Requests, j < requests, Clean(j)' PROVE ~AtWork(j)'
    <3>1. Clean(j) /\ j # requests
      BY <1>3, <1>6, <2>1
    <3>2. ~AtWork(j)
      BY <1>2, <3>1 DEF Watched
    <3> QED BY <1>4, <3>2 DEF AtWork
  <2>2. requests \in unlocked' /\ requests \in Nat
    BY <1>3, <1>4
  <2>3. requests' >= requests /\ (marker' # Nil => marker'.request >= requests)
    BY <1>2, <1>4, <2>2
  <2> QED BY <1>4, <2>1, <2>2, <2>3 DEF Loosened
<1>8. VerdictIsTrue'
  BY <1>4, <1>6 DEF VerdictIsTrue, Clean
<1> QED BY <1>5, <1>7, <1>8 DEF LooseIInv

\* What no step does: concern a job before those the last request and the marker
\* name.
LEMMA EarlierJobsRest ==
  ASSUME FlowTypeOK, [FlowNext]_flowVars, NEW g \in Requests, requests >= g,
         marker # Nil => marker.request >= g
  PROVE  /\ timedOut \subseteq timedOut' /\ unlocked \subseteq unlocked'
         /\ requests' >= g /\ (marker' # Nil => marker'.request >= g)
         /\ \A j \in Requests : j < g =>
                /\ said'[j] = said[j]
                /\ ~AtWork(j) => (~AtWork(j)' /\ jobs'[j].result = jobs[j].result)
<1> USE FlowBounds, NilIsNone
<1>1. requests \in Requests /\ requests \in Nat
  BY DEF FlowTypeOK, Requests
<1>2. timedOut \subseteq timedOut' /\ unlocked \subseteq unlocked'
      /\ requests' \in {requests, requests + 1}
  BY DEF FlowNext, flowVars, Handle, Run, RunFiles, RunFails, Drained, WriteMarker, After,
        ConvergeSteps,
     ConvergePrepares, ConvergeFails, ConvergeStarts, Resume, ResumeNothing, ResumePosts,
     ResumeRemoves, ResumeWatches, Watch, WatchLook, WatchStat, WatchTimesOut, WatchReports,
           WatchFindsNothing,
     WatchRemoves, WatchEnds, JobStep, Exec, Die, Start, past
<1>3. marker' \in {marker, Nil} \/ marker'.request = requests
  <2>1. CASE WriteMarker \/ ConvergePrepares
    BY <2>1 DEF WriteMarker, ConvergePrepares
  <2>2. CASE ~WriteMarker /\ ~ConvergePrepares
    BY <2>2 DEF FlowNext, flowVars, Handle, Run, RunFiles, RunFails, Drained, After, ConvergeSteps,
     ConvergeFails, ConvergeStarts, Resume, ResumeNothing, ResumePosts, ResumeRemoves,
     ResumeWatches, Watch, WatchLook, WatchStat, WatchTimesOut, WatchReports,
     WatchFindsNothing, WatchRemoves, WatchEnds, JobStep, Exec, Die, Start
  <2> QED BY <2>1, <2>2
<1>4. ASSUME NEW j \in Requests, j < g PROVE said'[j] = said[j]
  <2>1. said' = said \/ \E v : marker # Nil /\ said' = [said EXCEPT ![marker.request] = v]
    BY DEF FlowNext, flowVars, Handle, Run, RunFiles, RunFails, Drained, WriteMarker, After,
          ConvergeSteps,
     ConvergePrepares, ConvergeFails, ConvergeStarts, Resume, ResumeNothing, ResumePosts,
     ResumeRemoves, ResumeWatches, Watch, WatchLook, WatchStat, WatchTimesOut, WatchReports,
           WatchFindsNothing,
     WatchRemoves, WatchEnds, JobStep, Exec, Die, Start
  <2>2. marker # Nil => marker.request # j /\ marker.request \in Requests
    BY <1>4 DEF FlowTypeOK, Marker
  <2> QED BY <2>1, <2>2 DEF FlowTypeOK
<1>5. ASSUME NEW j \in Requests, j < g, ~AtWork(j)
      PROVE  ~AtWork(j)' /\ jobs'[j].result = jobs[j].result
  <2>1. CASE ConvergeStarts
    BY <1>1, <1>5, <2>1 DEF ConvergeStarts, AtWork, FlowTypeOK
  <2>2. CASE \E k \in Requests : JobStep(k)
    <3>1. PICK k \in Requests : JobStep(k)
      BY <2>2
    <3> QED BY <1>5, <3>1
          DEF JobStep, JobWritesPid, JobWritesRc, JobExits, Alive, AtWork, FlowTypeOK
  <2>3. ~ConvergeStarts /\ ~(\E k \in Requests : JobStep(k)) => UNCHANGED jobs
    BY DEF FlowNext, flowVars, Handle, Run, RunFiles, RunFails, Drained, WriteMarker, After,
          ConvergeSteps,
     ConvergePrepares, ConvergeFails, Resume, ResumeNothing, ResumePosts,
     ResumeRemoves, ResumeWatches, Watch, WatchLook, WatchStat, WatchTimesOut, WatchReports,
           WatchFindsNothing,
     WatchRemoves, WatchEnds, Exec, Die, Start, job
  <2> QED BY <1>5, <2>1, <2>2, <2>3 DEF AtWork
<1> QED BY <1>1, <1>2, <1>3, <1>4, <1>5

LEMMA LooseStep ==
  ASSUME LooseIInv, [FlowNext]_flowVars
  PROVE  LooseIInv'
<1> USE FlowBounds
<1>1. PICK g \in unlocked :
          /\ requests >= g /\ (marker # Nil => marker.request >= g)
          /\ \A j \in Requests : j < g /\ Clean(j) => ~AtWork(j)
  BY DEF LooseIInv, Loosened
<1>2. g \in Requests /\ requests \in Requests
  BY <1>1 DEF LooseIInv, FlowTypeOK, Requests
<1>3. FlowTypeOK'
  BY <1>2, FlowTypes DEF LooseIInv
<1>4. /\ timedOut \subseteq timedOut' /\ unlocked \subseteq unlocked'
      /\ requests' >= g /\ (marker' # Nil => marker'.request >= g)
      /\ \A j \in Requests : j < g =>
             /\ said'[j] = said[j]
             /\ ~AtWork(j) => (~AtWork(j)' /\ jobs'[j].result = jobs[j].result)
  BY <1>1, <1>2, EarlierJobsRest DEF LooseIInv
<1>5. ASSUME NEW j \in Requests, Clean(j)' PROVE j < g /\ Clean(j)
  <2>1. GivenUp(g)'
    BY <1>1, <1>4 DEF GivenUp
  <2>2. g > j
    BY <1>2, <1>5, <2>1 DEF Clean
  <2>3. ASSUME NEW i \in Requests, GivenUp(i) PROVE i > j
    <3>1. CASE i < g
      BY <1>4, <1>5, <2>3, <3>1 DEF Clean, GivenUp
    <3>2. CASE ~(i < g)
      BY <1>2, <2>2, <3>2
    <3> QED BY <3>1, <3>2
  <2> QED BY <2>2, <2>3 DEF Clean
<1>6. Loosened'
  BY <1>1, <1>4, <1>5 DEF Loosened
<1>7. VerdictIsTrue'
  <2>1. ASSUME NEW j \in Requests, Clean(j)'
        PROVE  /\ said'[j] = "ok" => jobs'[j].result = "ok"
               /\ said'[j] = "failed" => jobs'[j].result # "ok"
    <3>1. j < g /\ Clean(j) /\ ~AtWork(j)
      BY <1>1, <1>5, <2>1
    <3> QED BY <1>4, <3>1 DEF LooseIInv, VerdictIsTrue, Clean
  <2> QED BY <2>1 DEF VerdictIsTrue, Clean
<1> QED BY <1>3, <1>6, <1>7 DEF LooseIInv

LEMMA FlowStep == FlowIInv /\ [FlowNext]_flowVars => FlowIInv'
<1> SUFFICES ASSUME FlowIInv, [FlowNext]_flowVars PROVE FlowIInv'
  OBVIOUS
<1>1. CASE LooseIInv
  BY <1>1, LooseStep DEF FlowIInv
<1>2. CASE LockedIInv /\ unlocked' = unlocked
  BY <1>2, LockedStep DEF FlowIInv
<1>3. CASE LockedIInv /\ unlocked' # unlocked
  <2>1. FlowNext
    BY <1>3 DEF flowVars, past
  <2> QED BY <1>3, <2>1, LockIsLost DEF FlowIInv
<1> QED BY <1>1, <1>2, <1>3 DEF FlowIInv

LEMMA FlowInvariance == FlowSpec => []FlowIInv
<1>1. FlowInit => FlowIInv
  BY FlowInitIInv DEF FlowIInv
<1> QED BY <1>1, FlowStep, PTL DEF FlowSpec

\* Two jobs at work: the earlier one was given up, or one before it, for
\* otherwise the marker names it, and it is of the last request.
LEMMA OneJobAtATime == FlowIInv => OneJob
<1> USE FlowBounds
<1> SUFFICES ASSUME FlowIInv, NEW i \in Requests, NEW j \in Requests, i < j, AtWork(i), AtWork(j),
                    \A g \in 1 .. i : ~GivenUp(g)
             PROVE  FALSE
  BY DEF OneJob
<1>1. Clean(i)
  BY DEF Clean, Requests
<1>2. CASE LockedIInv
  <2>1. i = requests
    BY <1>1, <1>2 DEF LockedIInv, Watched, Marked
  <2>2. ~(j > requests)
    BY <1>2 DEF LockedIInv, Fresh, AtWork
  <2> QED BY <2>1, <2>2
<1>3. CASE LooseIInv
  <2>1. PICK g \in unlocked : \A k \in Requests : k < g /\ Clean(k) => ~AtWork(k)
    BY <1>3 DEF LooseIInv, Loosened
  <2>2. g \in Requests /\ ~(i < g)
    BY <1>1, <1>3, <2>1 DEF LooseIInv, FlowTypeOK
  <2>3. GivenUp(g)
    BY <2>1 DEF GivenUp
  <2> QED BY <1>1, <2>2, <2>3 DEF Clean
<1> QED BY <1>2, <1>3 DEF FlowIInv

\* A converge job runs alone and its report says how it ended, whichever image
\* makes it, for any number of requests, reloads and deaths (update.go:666,
\* converge.go:133); only a job that was given up can meet a later one.
THEOREM ConvergeJobsAreOrderly == FlowSpec => []JobsAreOrderly
<1>1. FlowIInv => JobsAreOrderly
  BY OneJobAtATime DEF FlowIInv, LockedIInv, LooseIInv, JobsAreOrderly
<1> QED BY <1>1, FlowInvariance, PTL

\* Where a run is cut short, .prev stays what it was, and a changed agent is
\* spoilt.
LEMMA CutShortPrev == PrevIsLast /\ CutShort => PrevIsLast'
BY DEF PrevIsLast, CutShort, Changes

LEMMA PrevIsLastStep == PrevIsLast /\ [FlowNext]_flowVars => PrevIsLast'
<1> SUFFICES ASSUME PrevIsLast, [FlowNext]_flowVars PROVE PrevIsLast'
  OBVIOUS
<1>1. CASE RunFiles
  <2>1. CASE op.kind = "restart" /\ UNCHANGED <<bin, prev, spoilt>>
    BY <1>1, <2>1 DEF RunFiles, Changes, PrevIsLast
  <2>2. CASE rollback
    <3>1. bin' # bin => before' = bin /\ prev' = bin
      BY <1>1, <2>2 DEF RunFiles, rollback, Changes
    <3>2. bin' = bin => before' = before /\ prev' = prev /\ (spoilt' <=> spoilt)
      BY <1>1, <2>2 DEF RunFiles, rollback, Changes
    <3> QED BY <3>1, <3>2 DEF PrevIsLast
  <2>3. CASE UpdateAgent
    <3>1. bin' = bin => UNCHANGED <<prev, spoilt, before>>
      BY <1>1, <2>3, FlowBounds DEF RunFiles, UpdateAgent, Changes, AgentVersion
    <3>2. bin' # bin => before' = bin /\ (prev' = bin \/ spoilt')
      BY <1>1, <2>3 DEF RunFiles, UpdateAgent, Changes
    <3> QED BY <3>1, <3>2 DEF PrevIsLast
  <2> QED BY <1>1, <2>1, <2>2, <2>3 DEF RunFiles
<1>2. CASE RunFails \/ Exec \/ Die
  BY <1>2, CutShortPrev DEF RunFails, Exec, Die
<1>3. CASE UNCHANGED binaries
  BY <1>3 DEF binaries, PrevIsLast
<1>4. ASSUME ~RunFiles, ~RunFails, ~Exec, ~Die PROVE UNCHANGED binaries
  BY <1>4 DEF FlowNext, flowVars, Handle, Run, Drained, WriteMarker, After,
     ConvergeSteps, ConvergePrepares, ConvergeFails, ConvergeStarts, JobStep,
     Start, Resume, ResumeNothing, ResumePosts, ResumeRemoves, ResumeWatches,
     Watch, WatchLook, WatchStat, WatchTimesOut, WatchReports, WatchFindsNothing,
     WatchRemoves, WatchEnds
<1> QED BY <1>1, <1>2, <1>3, <1>4

\* .prev is what the agent binary was before it last changed, over any number of
\* updates, rollbacks, reloads and deaths, unless the request that changed it
\* failed, was cut short or said that no copy was kept (update.go:397-421).
THEOREM RollbackHasItsTarget == FlowSpec => []PrevIsLast
<1>1. FlowInit => PrevIsLast
  BY DEF FlowInit, PrevIsLast
<1> QED BY <1>1, PrevIsLastStep, PTL DEF FlowSpec
-----------------------------------------------------------------------------
(* Automatic updates.  A failed gate is remembered twice, in memory and in   *)
(* the file, each by the verdict (blocked, halted) or by the record that     *)
(* makes the next start run the gate again.                                  *)

\* The history is what it is named for.
Recorded ==
    /\ failed \subseteq Version /\ torn \subseteq Version /\ rolled \in BOOLEAN

\* An apply whose gate is still to decide.
Pending(st) == st.applying # None /\ ~st.applying.rolledBack

\* The memory and the file each know every failed gate: by the verdict, or by
\* the record that has the gate run again.  No version is offered meanwhile, and
\* never one that failed.
Remembers(st) ==
    /\ \A v \in failed : v \in st.blocked \/ (Pending(st) /\ st.applying.version = v)
    /\ rolled => st.halted \/ Pending(st)
    /\ st.applying # None => st.offer = None
    /\ st.offer # None => st.offer.version \notin failed

\* Where the process is in an apply or a resume, and what it has in hand.
Place ==
    /\ pc = "boot" => mem = disk
    /\ pc \in {"health", "restored"} =>
        /\ Pending(mem) /\ Pending(disk)
        /\ \A f \in {"version", "from", "agent"} : mem.applying[f] = disk.applying[f]
    /\ pc = "copy" => a # None /\ mem.offer # None /\ a.version = mem.offer.version /\ ~a.rolledBack
    /\ pc = "swapped" =>
        /\ Pending(mem) /\ failed \subseteq mem.blocked /\ (rolled => mem.halted)
    /\ cfg.fleet => mem.applying = None /\ disk.applying = None
                        /\ pc \in {"boot", "run", "reloading", "down"}

Ledger == TypeOK /\ Recorded /\ Place /\ Remembers(mem) /\ Remembers(disk)

\* A version that may be in service: healthy, or excused.
Flagged(v) == v \in Unhealthy => v \in torn \cup failed
Excused(v) ==
    v \in Unhealthy => v \in torn \/ (v \in failed /\ stray \cap {"relay", "image"} # {})

\* The image in RelayBin may be in service, or the record in the file has its
\* gate run.
Covered == Excused(relay) \/ (Pending(disk) /\ disk.applying.version = relay)

\* What a failed gate would put back may be in service.
Healthy ==
    ~cfg.fleet =>
        /\ Excused(relayPrev)
        /\ pc \in {"run", "copy", "swapped"} => Excused(img)
        /\ pc \in {"run", "copy", "restored"} => Excused(relay)
        /\ pc = "swapped" => mem.applying.version = relay
        /\ pc \in {"reloading", "down", "boot", "health"} => Covered
        /\ pc \in {"boot", "health"} => img = relay
        /\ pc = "restored" => Flagged(img)

\* A record names what RelayBin.prev has; RelayBin is the running image until
\* the swap, and what was there before once a gate failed.
RelayRecord(st) ==
    st.applying # None =>
        /\ st.applying.from = relayPrev
        /\ st.applying.rolledBack => relay = relayPrev

RelayFits ==
    ~cfg.fleet /\ "relay" \notin stray =>
        /\ RelayRecord(mem) /\ RelayRecord(disk)
        /\ pc \in {"boot", "health", "copy"} => img = relay
        /\ pc = "run" /\ mem.applying = None => img = relay
        /\ pc = "copy" => a.from = img
        /\ pc = "swapped" => relayPrev = img
        /\ pc = "restored" => relay = relayPrev

\* An offer names the agent only while the old one is there, and the record of
\* an apply that replaced it means that AgentBin.prev has it.
AgentRecord(st) ==
    /\ st.offer # None /\ st.offer.agent => agent = 0 \/ Replaced
    /\ st.applying # None /\ st.applying.agent =>
        /\ agentPrev = 0
        /\ st.applying.rolledBack => agent = 0 \/ Replaced

AgentFits ==
    ~cfg.fleet /\ "agent" \notin stray =>
        /\ AgentRecord(mem) /\ AgentRecord(disk)
        /\ pc \in {"boot", "health"} => agent = runningAgent
        /\ pc = "run" /\ mem.applying = None => agent = runningAgent
        /\ pc \in {"copy", "swapped"} /\ ~Replaced => agent = runningAgent
        /\ Replaced => agentPrev = 0 /\ runningAgent = 0
        /\ pc = "restored" /\ mem.applying.agent => agent = 0

AutoIInv == Ledger /\ Healthy /\ RelayFits /\ AgentFits

-----------------------------------------------------------------------------
LEMMA AutoBounds ==
  /\ None \notin Version /\ None \notin Offer /\ None \notin Applying
  /\ Unhealthy \subseteq Version /\ 0 \notin Unhealthy /\ GateBoots \in Nat
  /\ MaxVersion \in Nat /\ 0 \in Version
BY ConstantsAssumption DEF Version

\* What becomes of a state of the manager.
LEMMA Snoozed ==
  ASSUME NEW st \in persisted
  PROVE  /\ SnoozeEnds(st) \in persisted /\ SnoozeEnds(st).applying = st.applying
         /\ SnoozeEnds(st).blocked = st.blocked /\ SnoozeEnds(st).halted = st.halted
         /\ SnoozeEnds(st).offer = None <=> st.offer = None
         /\ st.offer # None => \A f \in {"version", "agent", "staged"} :
                                 SnoozeEnds(st).offer[f] = st.offer[f]
<1>1. CASE st.offer = None
  BY <1>1 DEF SnoozeEnds
<1>2. CASE st.offer # None
  <2> DEFINE o == [st.offer EXCEPT !.due = TRUE]
  <2>1. st.offer \in Offer
    BY <1>2 DEF persisted
  <2>2. o \in Offer /\ \A f \in {"version", "agent", "staged"} : o[f] = st.offer[f]
    BY <2>1 DEF Offer
  <2>3. o # None
    BY <2>2, AutoBounds
  <2>4. SnoozeEnds(st) = [st EXCEPT !.offer = o]
    BY <1>2 DEF SnoozeEnds
  <2> HIDE DEF o
  <2> QED BY <1>2, <2>2, <2>3, <2>4 DEF persisted
<1> QED BY <1>1, <1>2

LEMMA Cooled ==
  ASSUME NEW st \in persisted
  PROVE  /\ CooldownEnds(st) \in persisted
         /\ \A f \in {"offer", "applying", "blocked", "halted"} : CooldownEnds(st)[f] = st[f]
BY DEF CooldownEnds, persisted

\* The verdict.
LEMMA Judged ==
  ASSUME NEW st \in persisted, st.applying # None
  PROVE  /\ RolledBack(st) \in persisted /\ RolledBack(st).offer = st.offer
         /\ RolledBack(st).blocked = st.blocked \cup {st.applying.version}
         /\ RolledBack(st).halted /\ RolledBack(st).applying # None
         /\ RolledBack(st).applying.rolledBack
         /\ \A f \in {"version", "from", "agent"} :
                RolledBack(st).applying[f] = st.applying[f]
<1> DEFINE p == [st.applying EXCEPT !.rolledBack = TRUE]
           b == st.blocked \cup {st.applying.version}
<1>1. st.applying \in Applying /\ st.blocked \subseteq Version
  BY DEF persisted
<1>2. p \in Applying /\ p.rolledBack
      /\ \A f \in {"version", "from", "agent"} : p[f] = st.applying[f]
  BY <1>1 DEF Applying
<1>3. p # None /\ b \subseteq Version
  BY <1>1, <1>2, AutoBounds DEF Applying
<1>4. RolledBack(st) = [offer |-> st.offer, applying |-> p, blocked |-> b, cooling |-> st.cooling,
                        halted |-> TRUE]
  <2> DEFINE k == block(st, st.applying.version)
  <2>1. k = [offer |-> st.offer, applying |-> st.applying, blocked |-> b, cooling |-> st.cooling,
             halted |-> st.halted]
    BY DEF block, persisted
  <2>2. RolledBack(st) = [k EXCEPT !.applying = [k.applying EXCEPT !.rolledBack = TRUE], !.halted = TRUE]
    BY DEF RolledBack
  <2> HIDE DEF k
  <2> QED BY <2>1, <2>2
<1> HIDE DEF p, b
<1> QED BY <1>2, <1>3, <1>4 DEF persisted, b

LEMMA PublishLedger ==
  ASSUME Ledger, Publish PROVE Ledger'
<1> USE AutoBounds
<1>1. TypeOK'
  <2>1. cfg' \in [mode : {"notify", "stage", "auto"}, fleet : BOOLEAN]
        /\ {latest, relay, relayPrev, img}' \subseteq Version
        /\ {agent, agentPrev, runningAgent}' \subseteq 0 .. 1 /\ staged' \subseteq Version
        /\ stray' \subseteq {"relay", "agent", "image"}
    BY  DEF Ledger, TypeOK, Recorded, Publish, files, history
  <2>2. a' \in Applying \cup {None}
        /\ pc' \in {"boot", "health", "restored", "run", "copy", "swapped", "reloading", "down"}
    BY  DEF Ledger, TypeOK, Recorded, Publish
  <2>3. mem' \in persisted
    BY  DEF Ledger, TypeOK, Recorded, Publish
  <2>4. disk' \in persisted
    BY <2>3 DEF Ledger, TypeOK, Publish
  <2> QED BY <2>1, <2>2, <2>3, <2>4 DEF TypeOK
<1>2. Recorded'
  BY DEF Ledger, TypeOK, Recorded, Publish, history
<1>3. Place'
  BY  DEF Ledger, Place, Pending, Publish, history
<1>4. Remembers(mem)'
  BY  DEF Ledger, Remembers, Publish, history
<1>5. Remembers(disk)'
  BY <1>4 DEF Ledger, Remembers, Publish, history
<1> QED BY <1>1, <1>2, <1>3, <1>4, <1>5 DEF Ledger

\* Time touches no record of an apply, no verdict, and only the due date of an offer.
LEMMA ElapseKeeps ==
  ASSUME Ledger, Elapse
  PROVE  /\ mem' \in persisted /\ disk' \in persisted
         /\ UNCHANGED <<cfg, latest, files, img, runningAgent, pc, a, crashes, faults, history>>
         /\ mem = disk => mem' = disk'
         /\ mem'.applying = mem.applying /\ disk'.applying = disk.applying
         /\ mem'.blocked = mem.blocked /\ disk'.blocked = disk.blocked
         /\ mem'.halted = mem.halted /\ disk'.halted = disk.halted
         /\ (mem'.offer = None <=> mem.offer = None) /\ (disk'.offer = None <=> disk.offer = None)
         /\ mem.offer # None =>
              /\ mem'.offer.version = mem.offer.version /\ mem'.offer.agent = mem.offer.agent
              /\ mem'.offer.staged = mem.offer.staged
         /\ disk.offer # None =>
              /\ disk'.offer.version = disk.offer.version /\ disk'.offer.agent = disk.offer.agent
<1>1. mem \in persisted /\ disk \in persisted
  BY DEF Ledger, TypeOK
<1>2. UNCHANGED <<cfg, latest, files, img, runningAgent, pc, a, crashes, faults, history>>
  BY DEF Elapse
<1>3. CASE mem' = SnoozeEnds(mem) /\ disk' = SnoozeEnds(disk)
  BY <1>1, <1>2, <1>3, Snoozed
<1>4. CASE mem' = CooldownEnds(mem) /\ disk' = CooldownEnds(disk)
  BY <1>1, <1>2, <1>4, Cooled
<1> QED BY <1>3, <1>4 DEF Elapse

LEMMA ElapseLedger ==
  ASSUME Ledger, Elapse PROVE Ledger'
<1> USE AutoBounds, ElapseKeeps
<1>1. TypeOK' /\ Recorded'
  <2>1. UNCHANGED <<cfg, latest, files, img, runningAgent, pc, a, failed, torn, rolled, stray>>
    BY DEF history
  <2>2. TypeOK'
    BY <2>1 DEF Ledger, TypeOK, files
  <2> QED BY <2>1, <2>2 DEF Ledger, Recorded
<1>2. Place'
  BY  DEF Ledger, Place, Pending, history
<1>3. Remembers(mem)' /\ Remembers(disk)'
  BY  DEF Ledger, Remembers, Pending, history
<1> QED BY <1>1, <1>2, <1>3 DEF Ledger

LEMMA CrashLedger ==
  ASSUME Ledger, Crash PROVE Ledger'
<1> USE AutoBounds
<1>1. TypeOK'
  <2>1. cfg' \in [mode : {"notify", "stage", "auto"}, fleet : BOOLEAN]
        /\ {latest, relay, relayPrev, img}' \subseteq Version
        /\ {agent, agentPrev, runningAgent}' \subseteq 0 .. 1 /\ staged' \subseteq Version
        /\ stray' \subseteq {"relay", "agent", "image"}
    BY  DEF Ledger, TypeOK, Recorded, Crash, files, history, Strays, AgentLeft, RecordIsOld
  <2>2. a' \in Applying \cup {None}
        /\ pc' \in {"boot", "health", "restored", "run", "copy", "swapped", "reloading", "down"}
    BY  DEF Crash
  <2>3. mem' \in persisted
    BY  DEF Ledger, TypeOK, Recorded, Crash
  <2>4. disk' \in persisted
    BY <2>3 DEF Ledger, TypeOK, Crash
  <2> QED BY <2>1, <2>2, <2>3, <2>4 DEF TypeOK
<1>2. Recorded'
  BY DEF Ledger, TypeOK, Recorded, Crash
<1>3. Place'
  BY  DEF Ledger, Place, Pending, Crash
<1>4. Remembers(mem)'
  BY  DEF Ledger, Remembers, Crash
<1>5. Remembers(disk)'
  BY <1>4 DEF Crash
<1> QED BY <1>1, <1>2, <1>3, <1>4, <1>5 DEF Ledger

LEMMA BootLedger ==
  ASSUME Ledger, Boot PROVE Ledger'
<1> USE AutoBounds
<1>1. TypeOK'
  <2>1. cfg' \in [mode : {"notify", "stage", "auto"}, fleet : BOOLEAN]
        /\ {latest, relay, relayPrev, img}' \subseteq Version
        /\ {agent, agentPrev, runningAgent}' \subseteq 0 .. 1 /\ staged' \subseteq Version
        /\ stray' \subseteq {"relay", "agent", "image"}
    BY  DEF Ledger, TypeOK, Recorded, Boot, files, history
  <2>2. a' \in Applying \cup {None}
        /\ pc' \in {"boot", "health", "restored", "run", "copy", "swapped", "reloading", "down"}
    BY  DEF Ledger, TypeOK, Recorded, Boot
  <2>3. mem' \in persisted
    BY  DEF Ledger, TypeOK, Recorded, Boot
  <2>4. disk' \in persisted
    BY <2>3 DEF Ledger, TypeOK, Boot
  <2> QED BY <2>1, <2>2, <2>3, <2>4 DEF TypeOK
<1>2. Recorded'
  BY DEF Ledger, TypeOK, Recorded, Boot, history
<1>3. Place'
  BY  DEF Ledger, Place, Pending, Boot
<1>4. Remembers(mem)'
  BY  DEF Ledger, Remembers, Boot, history
<1>5. Remembers(disk)'
  BY <1>4 DEF Boot
<1> QED BY <1>1, <1>2, <1>3, <1>4, <1>5 DEF Ledger

\* The offer Poll makes is of the newest release.
LEMMA PollOffered ==
  ASSUME Ledger, PollOffers
  PROVE  /\ mem' \in persisted /\ mem'.offer # None /\ mem'.applying = mem.applying
         /\ mem'.offer.version = latest /\ mem'.blocked = mem.blocked /\ mem'.halted = mem.halted
<1>1. PICK postErr, saveErr \in BOOLEAN : save(replace(NewOffer(latest), postErr), saveErr)
  BY DEF PollOffers
<1> DEFINE n == NewOffer(latest)
           o == [n EXCEPT !.posted = ~postErr]
<1>2. n \in Offer /\ n.version = latest
  BY  DEF NewOffer, Offer, Ledger, TypeOK
<1>3. o \in Offer /\ o.version = latest
  BY <1>2 DEF Offer
<1>4. mem' = [mem EXCEPT !.offer = o] /\ mem \in persisted /\ o # None
  BY <1>1, <1>3, AutoBounds DEF save, replace, Ledger, TypeOK
<1> HIDE DEF n, o
<1> QED BY <1>3, <1>4 DEF persisted

LEMMA PollOffersLedger ==
  ASSUME Ledger, PollOffers PROVE Ledger'
<1> USE AutoBounds
<1>1. TypeOK'
  <2>1. cfg' \in [mode : {"notify", "stage", "auto"}, fleet : BOOLEAN]
        /\ {latest, relay, relayPrev, img}' \subseteq Version
        /\ {agent, agentPrev, runningAgent}' \subseteq 0 .. 1 /\ staged' \subseteq Version
        /\ stray' \subseteq {"relay", "agent", "image"}
    BY  DEF Ledger, TypeOK, Recorded, PollOffers, replace, NewOffer, wanted, offered,
       StagedWithout, save, history
  <2>2. a' \in Applying \cup {None}
        /\ pc' \in {"boot", "health", "restored", "run", "copy", "swapped", "reloading", "down"}
    BY  DEF Ledger, TypeOK, Recorded, PollOffers, replace, NewOffer, wanted, offered,
       StagedWithout, save
  <2>3. mem' \in persisted
    BY PollOffered
  <2>4. disk' \in persisted
    BY <2>3 DEF Ledger, TypeOK, PollOffers, replace, NewOffer, wanted, offered, StagedWithout, save
  <2> QED BY <2>1, <2>2, <2>3, <2>4 DEF TypeOK
<1>2. Recorded'
  BY DEF Ledger, TypeOK, Recorded, PollOffers, replace, NewOffer, wanted, offered,
     StagedWithout, save, history
<1>3. Place'
  BY  DEF Ledger, Place, Pending, PollOffers, replace, NewOffer, wanted, offered, StagedWithout,
     save
<1>4. Remembers(mem)'
  BY  DEF Ledger, Place, Pending, Remembers, PollOffers, replace, NewOffer, wanted, offered,
     StagedWithout, save, history
<1>5. Remembers(disk)'
  BY <1>4 DEF Ledger, Place, Pending, Remembers, PollOffers, replace, NewOffer, wanted, offered,
     StagedWithout, save, history
<1> QED BY <1>1, <1>2, <1>3, <1>4, <1>5 DEF Ledger

LEMMA PollDropsLedger ==
  ASSUME Ledger, PollDrops PROVE Ledger'
<1> USE AutoBounds
<1>1. TypeOK'
  <2>1. cfg' \in [mode : {"notify", "stage", "auto"}, fleet : BOOLEAN]
        /\ {latest, relay, relayPrev, img}' \subseteq Version
        /\ {agent, agentPrev, runningAgent}' \subseteq 0 .. 1 /\ staged' \subseteq Version
        /\ stray' \subseteq {"relay", "agent", "image"}
    BY  DEF Ledger, TypeOK, Recorded, PollDrops, drop, StagedWithout, save, wanted, history
  <2>2. a' \in Applying \cup {None}
        /\ pc' \in {"boot", "health", "restored", "run", "copy", "swapped", "reloading", "down"}
    BY  DEF Ledger, TypeOK, Recorded, PollDrops, drop, StagedWithout, save, wanted
  <2>3. mem' \in persisted
    BY  DEF Ledger, TypeOK, Recorded, persisted, Offer, Applying, PollDrops, drop,
       StagedWithout, save, wanted
  <2>4. disk' \in persisted
    BY <2>3 DEF Ledger, TypeOK, PollDrops, drop, StagedWithout, save, wanted
  <2> QED BY <2>1, <2>2, <2>3, <2>4 DEF TypeOK
<1>2. Recorded'
  BY DEF Ledger, TypeOK, Recorded, PollDrops, drop, StagedWithout, save, wanted, history
<1>3. Place'
  BY  DEF Ledger, Place, Pending, PollDrops, drop, StagedWithout, save, wanted
<1>4. Remembers(mem)'
  BY  DEF Ledger, Place, Pending, Remembers, PollDrops, drop, StagedWithout, save, wanted, history
<1>5. Remembers(disk)'
  BY <1>4 DEF Ledger, Remembers, PollDrops, drop, StagedWithout, save, wanted, history
<1> QED BY <1>1, <1>2, <1>3, <1>4, <1>5 DEF Ledger

LEMMA PollSavesLedger ==
  ASSUME Ledger, PollSaves PROVE Ledger'
<1> USE AutoBounds
<1>1. TypeOK'
  <2>1. cfg' \in [mode : {"notify", "stage", "auto"}, fleet : BOOLEAN]
        /\ {latest, relay, relayPrev, img}' \subseteq Version
        /\ {agent, agentPrev, runningAgent}' \subseteq 0 .. 1 /\ staged' \subseteq Version
        /\ stray' \subseteq {"relay", "agent", "image"}
    BY  DEF Ledger, TypeOK, Recorded, PollSaves, files, history
  <2>2. a' \in Applying \cup {None}
        /\ pc' \in {"boot", "health", "restored", "run", "copy", "swapped", "reloading", "down"}
    BY  DEF Ledger, TypeOK, Recorded, PollSaves
  <2>3. mem' \in persisted
    BY  DEF Ledger, TypeOK, Recorded, PollSaves
  <2>4. disk' \in persisted
    BY <2>3 DEF Ledger, TypeOK, PollSaves
  <2> QED BY <2>1, <2>2, <2>3, <2>4 DEF TypeOK
<1>2. Recorded'
  BY DEF Ledger, TypeOK, Recorded, PollSaves, history
<1>3. Place'
  BY  DEF Place, Pending, PollSaves
<1>4. Remembers(mem)'
  BY  DEF Ledger, Remembers, PollSaves, history
<1>5. Remembers(disk)'
  BY <1>4 DEF PollSaves
<1> QED BY <1>1, <1>2, <1>3, <1>4, <1>5 DEF Ledger

\* An owner's answer: the offer stays as it is, or is dropped and its version blocked.
LEMMA DecideKeeps ==
  ASSUME Ledger, Decide
  PROVE  /\ mem' \in persisted /\ disk' \in {mem', disk}
         /\ UNCHANGED <<cfg, latest, relay, relayPrev, agent, agentPrev, img, runningAgent, pc, a,
                        crashes, failed, torn, stray>>
         /\ pc = "run" /\ mem.offer # None /\ ~rolled' /\ rolled' \in BOOLEAN
         /\ mem'.applying = mem.applying /\ mem.blocked \subseteq mem'.blocked
         /\ \/ /\ UNCHANGED staged /\ mem'.offer # None /\ mem'.offer.version = mem.offer.version
               /\ mem'.offer.agent = mem.offer.agent /\ mem'.offer.staged = mem.offer.staged
            \/ mem'.offer = None /\ staged' \subseteq staged
<1> USE AutoBounds
<1>1. mem \in persisted /\ mem.offer \in Offer
  BY  DEF Ledger, TypeOK, Recorded, Decide, persisted
<1>2. UNCHANGED <<cfg, latest, relay, relayPrev, agent, agentPrev, img, runningAgent, pc, a,
                  crashes, failed, torn, stray>> /\ pc = "run" /\ mem.offer # None /\ ~rolled'
                        /\ rolled' \in BOOLEAN
  BY DEF Decide
<1>3. CASE DecideApply
  <2>1. PICK due, saveErr \in BOOLEAN :
          /\ Spend(<<saveErr>>)
          /\ save([mem EXCEPT !.halted = FALSE, !.offer.who = "owner", !.offer.due = due], saveErr)
    BY <1>3 DEF DecideApply
  <2> DEFINE o == [mem.offer EXCEPT !.who = "owner", !.due = due]
  <2>2. o \in Offer /\ o.version = mem.offer.version /\ o.agent = mem.offer.agent
        /\ o.staged = mem.offer.staged
    BY <1>1 DEF Offer
  <2>3. o # None
    BY <2>2
  <2>4. mem' = [mem EXCEPT !.halted = FALSE, !.offer = o] /\ disk' \in {mem', disk}
        /\ (~saveErr => disk' = mem')
    <3>1. mem' = [mem EXCEPT !.halted = FALSE, !.offer.who = "owner", !.offer.due = due]
      BY <2>1 DEF save
    <3>2. mem' = [mem EXCEPT !.halted = FALSE, !.offer = [[mem.offer EXCEPT !.who = "owner"] EXCEPT !.due = due]]
      BY <1>1, <3>1 DEF persisted
    <3> QED BY <2>1, <3>2 DEF save
  <2> HIDE DEF o
  <2>6. UNCHANGED staged
    BY <1>3 DEF DecideApply
  <2>7. mem' \in persisted /\ mem'.offer = o /\ mem'.applying = mem.applying
        /\ mem'.blocked = mem.blocked
    BY <1>1, <2>2, <2>4 DEF persisted
  <2> QED BY <1>2, <2>2, <2>3, <2>4, <2>6, <2>7
<1>4. CASE DecideSkip
  <2>1. PICK saveErr \in BOOLEAN :
          /\ Spend(<<saveErr>>)
          /\ save([block(drop(mem), mem.offer.version) EXCEPT !.halted = FALSE], saveErr)
    BY <1>4 DEF DecideSkip
  <2>3. mem.offer.version \in Version
    BY <1>1 DEF Offer
  <2>4. mem' \in persisted /\ mem'.offer = None /\ mem'.applying = mem.applying
        /\ mem.blocked \subseteq mem'.blocked
    BY <1>1, <2>1, <2>3 DEF save, block, drop, persisted
  <2>5. staged' \subseteq staged
    BY <1>4 DEF DecideSkip, StagedWithout
  <2> QED BY <1>2, <2>1, <2>4, <2>5 DEF save
<1> QED BY <1>3, <1>4 DEF Decide

LEMMA DecideLedger ==
  ASSUME Ledger, Decide PROVE Ledger'
<1> USE DecideKeeps
<1>1. TypeOK' /\ Recorded'
  <2>1. staged' \subseteq Version
    BY DEF Ledger, TypeOK
  <2>2. failed' \subseteq Version /\ torn' \subseteq Version /\ rolled' \in BOOLEAN
    BY DEF Ledger, Recorded
  <2>3. Recorded'
    BY <2>2 DEF Ledger, Recorded
  <2>4. disk' \in persisted
    BY DEF Ledger, TypeOK
  <2> QED BY <2>1, <2>3, <2>4 DEF Ledger, TypeOK
<1>2. Place'
  BY DEF Ledger, Place, Pending
<1>3. Remembers(mem)'
  BY DEF Ledger, Remembers, Pending
<1>4. Remembers(disk)'
  BY <1>3 DEF Ledger, Remembers, Pending
<1> QED BY <1>1, <1>2, <1>3, <1>4 DEF Ledger

LEMMA ConvergeLedger ==
  ASSUME Ledger, Converge PROVE Ledger'
<1> USE AutoBounds
<1>1. TypeOK'
  <2>1. cfg' \in [mode : {"notify", "stage", "auto"}, fleet : BOOLEAN]
        /\ {latest, relay, relayPrev, img}' \subseteq Version
        /\ {agent, agentPrev, runningAgent}' \subseteq 0 .. 1 /\ staged' \subseteq Version
        /\ stray' \subseteq {"relay", "agent", "image"}
    BY  DEF Ledger, TypeOK, Recorded, Converge, Ready, drop, save, history
  <2>2. a' \in Applying \cup {None}
        /\ pc' \in {"boot", "health", "restored", "run", "copy", "swapped", "reloading", "down"}
    BY  DEF Ledger, TypeOK, Recorded, Converge, Ready, drop, save
  <2>3. mem' \in persisted
    BY  DEF Ledger, TypeOK, Recorded, persisted, Offer, Applying, Converge, Ready, drop, save
  <2>4. disk' \in persisted
    BY <2>3 DEF Ledger, TypeOK, Converge, Ready, drop, save
  <2> QED BY <2>1, <2>2, <2>3, <2>4 DEF TypeOK
<1>2. Recorded'
  BY DEF Ledger, TypeOK, Recorded, Converge, Ready, drop, save, history
<1>3. Place'
  BY  DEF Ledger, Place, Pending, Converge, Ready, drop, save
<1>4. Remembers(mem)'
  BY  DEF Ledger, Place, Pending, Remembers, Converge, Ready, drop, save, history
<1>5. Remembers(disk)'
  BY <1>4 DEF Ledger, Remembers, Converge, Ready, drop, save, history
<1> QED BY <1>1, <1>2, <1>3, <1>4, <1>5 DEF Ledger

LEMMA ApplyStartsLedger ==
  ASSUME Ledger, ApplyStarts PROVE Ledger'
<1> USE AutoBounds
<1>1. TypeOK'
  <2>1. cfg' \in [mode : {"notify", "stage", "auto"}, fleet : BOOLEAN]
        /\ {latest, relay, relayPrev, img}' \subseteq Version
        /\ {agent, agentPrev, runningAgent}' \subseteq 0 .. 1 /\ staged' \subseteq Version
        /\ stray' \subseteq {"relay", "agent", "image"}
    BY  DEF Ledger, TypeOK, Recorded, ApplyStarts, Ready, Withdrawn, Downloadable, history
  <2>2. a' \in Applying \cup {None}
        /\ pc' \in {"boot", "health", "restored", "run", "copy", "swapped", "reloading", "down"}
    BY  DEF Ledger, TypeOK, Recorded, persisted, Offer, Applying, ApplyStarts, Ready,
       Withdrawn, Downloadable
  <2>3. mem' \in persisted
    BY  DEF Ledger, TypeOK, Recorded, persisted, Offer, Applying, ApplyStarts, Ready,
       Withdrawn, Downloadable
  <2>4. disk' \in persisted
    BY <2>3 DEF Ledger, TypeOK, ApplyStarts, Ready, Withdrawn, Downloadable
  <2> QED BY <2>1, <2>2, <2>3, <2>4 DEF TypeOK
<1>2. Recorded'
  BY DEF Ledger, TypeOK, Recorded, ApplyStarts, Ready, Withdrawn, Downloadable, history
<1>3. Place'
  <2>1. mem \in persisted /\ mem.offer \in Offer /\ mem.applying = None /\ ~cfg.fleet
    BY  DEF Ledger, TypeOK, Remembers, persisted, ApplyStarts, Ready
  <2> DEFINE o == [mem.offer EXCEPT !.staged = TRUE]
  <2>2. o \in Offer /\ o.version = mem.offer.version
    BY <2>1 DEF Offer
  <2>3. mem' = [mem EXCEPT !.offer = o]
    BY <2>1 DEF ApplyStarts
  <2>4. o # None
    BY <2>2
  <2> HIDE DEF o
  <2>5. mem'.offer # None /\ mem'.offer.version = mem.offer.version /\ mem'.applying = None
    BY <2>1, <2>2, <2>3, <2>4 DEF persisted
  <2>6. a' \in Applying
    BY <2>1 DEF ApplyStarts, Ledger, TypeOK, Applying, Offer
  <2>7. a' # None /\ a'.version = mem.offer.version /\ ~a'.rolledBack
    BY <2>6 DEF ApplyStarts
  <2>8. pc' = "copy" /\ cfg' = cfg
    BY DEF ApplyStarts
  <2> QED BY <2>1, <2>5, <2>7, <2>8 DEF Place
<1>4. Remembers(mem)'
  BY  DEF Ledger, TypeOK, Recorded, Place, Pending, persisted, Offer, Applying, Remembers,
     ApplyStarts, Ready, Withdrawn, Downloadable, history
<1>5. Remembers(disk)'
  BY <1>4 DEF Ledger, Remembers, ApplyStarts, Ready, Withdrawn, Downloadable, history
<1> QED BY <1>1, <1>2, <1>3, <1>4, <1>5 DEF Ledger

LEMMA ApplyFailsLedger ==
  ASSUME Ledger, ApplyFails PROVE Ledger'
<1> USE AutoBounds
<1>1. TypeOK'
  <2>1. cfg' \in [mode : {"notify", "stage", "auto"}, fleet : BOOLEAN]
        /\ {latest, relay, relayPrev, img}' \subseteq Version
        /\ {agent, agentPrev, runningAgent}' \subseteq 0 .. 1 /\ staged' \subseteq Version
        /\ stray' \subseteq {"relay", "agent", "image"}
    BY  DEF Ledger, TypeOK, Recorded, ApplyFails, Ready, Withdrawn, Downloadable, fail, drop,
       StagedWithout, save, history, Strays
  <2>2. a' \in Applying \cup {None}
        /\ pc' \in {"boot", "health", "restored", "run", "copy", "swapped", "reloading", "down"}
    BY  DEF ApplyFails, Ready, Withdrawn, Downloadable, fail, drop, StagedWithout, save
  <2>3. mem' \in persisted
    BY  DEF Ledger, TypeOK, Recorded, persisted, Offer, Applying, ApplyFails, Ready, Withdrawn,
       Downloadable, fail, drop, StagedWithout, save
  <2>4. disk' \in persisted
    BY <2>3 DEF Ledger, TypeOK, ApplyFails, Ready, Withdrawn, Downloadable, fail, drop,
       StagedWithout, save
  <2> QED BY <2>1, <2>2, <2>3, <2>4 DEF TypeOK
<1>2. Recorded'
  BY DEF Ledger, TypeOK, Recorded, ApplyFails, Ready, Withdrawn, Downloadable, fail, drop,
     StagedWithout, save, history
<1>3. Place'
  BY  DEF Place, Pending, ApplyFails, Ready, Withdrawn, Downloadable, fail, drop, StagedWithout,
     save
<1>4. Remembers(mem)'
  BY  DEF Ledger, Place, Pending, Remembers, ApplyFails, Ready, Withdrawn, Downloadable, fail,
     drop, StagedWithout, save, history
<1>5. Remembers(disk)'
  BY <1>4 DEF Ledger, Remembers, ApplyFails, Ready, Withdrawn, Downloadable, fail, drop,
     StagedWithout, save, history
<1> QED BY <1>1, <1>2, <1>3, <1>4, <1>5 DEF Ledger

\* The swap: the apply fails and its offer goes, or the image is replaced, with
\* the running one kept beside it, and only the memory knows.
LEMMA ApplySwapsKeeps ==
  ASSUME Ledger, ApplySwaps
  PROVE  /\ pc = "copy" /\ mem.offer # None /\ mem.applying = None /\ a \in Applying
         /\ a.version = mem.offer.version /\ a' = None /\ staged' \subseteq staged
         /\ mem' \in persisted /\ disk' \in {mem', disk} /\ mem'.offer = None
         /\ mem'.blocked = mem.blocked /\ mem'.halted = mem.halted
         /\ relayPrev' \in {relay, relayPrev} /\ stray \subseteq stray'
         /\ relayPrev' # relayPrev /\ disk.applying # None => "relay" \in stray'
         /\ \/ /\ mem'.applying = None /\ pc' = "run" /\ UNCHANGED relay
               /\ a.agent => "agent" \in stray'
            \/ /\ mem'.applying = a /\ pc' = "swapped" /\ UNCHANGED disk
               /\ relay' = a.version /\ relayPrev' = relay
               /\ disk.applying # None => "relay" \in stray'
         /\ stray' \subseteq {"relay", "agent", "image"}
         /\ UNCHANGED <<cfg, latest, agent, agentPrev, img, runningAgent, crashes, failed, torn,
                        rolled>>
<1> USE AutoBounds
<1>1. PICK copyErr, renameErr, saveErr \in BOOLEAN :
        /\ relayPrev' = IF copyErr THEN relayPrev ELSE relay
        /\ IF copyErr \/ renameErr \/ mem.offer.version \notin staged
           THEN fail(saveErr) /\ UNCHANGED relay
           ELSE /\ ~saveErr
                /\ relay' = a.version /\ staged' = StagedWithout(mem)
                /\ mem' = [mem EXCEPT !.offer = None, !.applying = a,
                                      !.cooling = @ \/ mem.offer.who = "auto"]
                /\ pc' = "swapped" /\ a' = None /\ UNCHANGED disk
        /\ Strays((IF copyErr THEN {} ELSE RecordIsOld) \cup (IF pc' = "run" THEN AgentLeft ELSE {}))
  BY DEF ApplySwaps
<1>2. pc = "copy" /\ UNCHANGED <<cfg, latest, agent, agentPrev, img, runningAgent, crashes, failed,
                                 torn, rolled>>
  BY DEF ApplySwaps
<1>3. /\ mem \in persisted /\ mem.offer \in Offer /\ mem.offer # None /\ mem.applying = None
      /\ a \in Applying /\ a.version = mem.offer.version
  BY <1>2 DEF Ledger, TypeOK, Place, Remembers, persisted
<1>4. /\ stray \subseteq stray' /\ stray' \subseteq {"relay", "agent", "image"}
      /\ ~copyErr /\ disk.applying # None => "relay" \in stray'
      /\ pc' = "run" /\ a.agent => "agent" \in stray'
  BY <1>1, <1>2 DEF Strays, RecordIsOld, AgentLeft, Replaced, Ledger, TypeOK
<1>5. CASE copyErr \/ renameErr \/ mem.offer.version \notin staged
  <2>1. /\ mem' = [mem EXCEPT !.offer = None] /\ disk' = (IF saveErr THEN disk ELSE mem')
        /\ staged' \subseteq staged /\ pc' = "run" /\ a' = None /\ UNCHANGED relay
    BY <1>1, <1>5 DEF fail, save, drop, StagedWithout
  <2>2. mem' \in persisted /\ mem'.offer = None /\ mem'.applying = None
        /\ mem'.blocked = mem.blocked /\ mem'.halted = mem.halted
    BY <1>3, <2>1 DEF persisted
  <2> QED BY <1>1, <1>2, <1>3, <1>4, <1>5, <2>1, <2>2
<1>6. CASE ~(copyErr \/ renameErr \/ mem.offer.version \notin staged)
  <2>1. /\ mem' = [mem EXCEPT !.offer = None, !.applying = a,
                              !.cooling = @ \/ mem.offer.who = "auto"]
        /\ staged' \subseteq staged /\ pc' = "swapped" /\ a' = None /\ UNCHANGED disk
        /\ relay' = a.version /\ relayPrev' = relay
    BY <1>1, <1>6 DEF StagedWithout
  <2> DEFINE c == mem.cooling \/ mem.offer.who = "auto"
  <2>2. mem' = [mem EXCEPT !.offer = None, !.applying = a, !.cooling = c] /\ c \in BOOLEAN
    BY <1>3, <2>1 DEF persisted
  <2> HIDE DEF c
  <2>3. mem' \in persisted /\ mem'.offer = None /\ mem'.applying = a
        /\ mem'.blocked = mem.blocked /\ mem'.halted = mem.halted
    BY <1>3, <2>2 DEF persisted
  <2> QED BY <1>1, <1>2, <1>3, <1>4, <1>6, <2>1, <2>3
<1> QED BY <1>5, <1>6

LEMMA ApplySwapsLedger ==
  ASSUME Ledger, ApplySwaps PROVE Ledger'
<1> USE AutoBounds, ApplySwapsKeeps
<1>1. TypeOK'
  <2>1. relay' \in Version /\ relayPrev' \in Version /\ staged' \subseteq Version
    BY DEF Ledger, TypeOK, Applying
  <2>2. disk' \in persisted
    BY DEF Ledger, TypeOK
  <2> QED BY <2>1, <2>2 DEF Ledger, TypeOK, history
<1>2. Recorded'
  BY DEF Ledger, Recorded, history
<1>3. ~a.rolledBack /\ ~cfg.fleet /\ failed \subseteq mem.blocked /\ (rolled => mem.halted)
  BY  DEF Ledger, Place, Remembers, Pending
<1>4. Place'
  BY <1>3 DEF Place, Pending, history
<1>5. Remembers(mem)'
  BY <1>3 DEF Remembers, history
<1>6. Remembers(disk)'
  BY <1>5 DEF Ledger, Remembers, history
<1> QED BY <1>1, <1>2, <1>4, <1>5, <1>6 DEF Ledger

\* The record is saved and the relay reloaded, or the old binaries come back and
\* the version is blocked.
LEMMA ApplyReloadsKeeps ==
  ASSUME Ledger, ApplyReloads
  PROVE  /\ pc = "swapped" /\ mem' \in persisted /\ disk' \in {mem', disk, mem}
         /\ Pending(mem) /\ mem.applying \in Applying
         /\ stray \subseteq stray' /\ stray' \subseteq {"relay", "agent", "image"}
         /\ UNCHANGED <<cfg, latest, relayPrev, agentPrev, staged, img, runningAgent, a, crashes,
                        failed, rolled>>
         /\ \/ /\ pc' = "run" /\ mem'.applying = None /\ mem'.offer = mem.offer
               /\ mem'.blocked = mem.blocked \cup {mem.applying.version}
               /\ mem'.halted = mem.halted
               /\ \/ relay' = relayPrev /\ torn' = torn
                  \/ /\ relay' = relay /\ torn' = torn \cup {mem.applying.version}
                     /\ "relay" \in stray'
               /\ agent' \in {agent, agentPrev} /\ (~mem.applying.agent => agent' = agent)
               /\ mem.applying.agent => agent' = agentPrev \/ "agent" \in stray'
            \/ /\ pc' = "reloading" /\ disk' = mem /\ UNCHANGED <<mem, relay, agent, torn, stray>>
<1> USE AutoBounds
<1>1. PICK writeErr, reloadErr, restoreErr, agentErr, saveErr \in BOOLEAN :
        /\ IF writeErr \/ reloadErr
           THEN /\ restore(mem.applying, restoreErr, agentErr)
                /\ mem' = block([mem EXCEPT !.applying = None], mem.applying.version)
                /\ disk' = IF ~saveErr THEN mem' ELSE IF writeErr THEN disk ELSE mem
                /\ pc' = "run"
                /\ torn' = IF restoreErr THEN torn \cup {mem.applying.version} ELSE torn
           ELSE /\ ~restoreErr /\ ~agentErr /\ ~saveErr
                /\ disk' = mem /\ pc' = "reloading" /\ UNCHANGED <<mem, relay, agent, torn, stray>>
  BY DEF ApplyReloads
<1>2. pc = "swapped" /\ UNCHANGED <<cfg, latest, relayPrev, agentPrev, staged, img, runningAgent,
                                    a, crashes, failed, rolled>>
  BY DEF ApplyReloads
<1>3. mem \in persisted /\ disk \in persisted /\ Pending(mem) /\ mem.applying \in Applying
      /\ mem.applying.version \in Version
  BY <1>2 DEF Ledger, TypeOK, Place, Pending, persisted, Applying
<1>4. stray \subseteq {"relay", "agent", "image"}
  BY DEF Ledger, TypeOK
<1>5. CASE writeErr \/ reloadErr
  <2>1. /\ restore(mem.applying, restoreErr, agentErr)
        /\ mem' = block([mem EXCEPT !.applying = None], mem.applying.version)
        /\ disk' \in {mem', disk, mem} /\ pc' = "run"
        /\ torn' = IF restoreErr THEN torn \cup {mem.applying.version} ELSE torn
    BY <1>1, <1>5
  <2>2. mem' = [offer |-> mem.offer, applying |-> None, cooling |-> mem.cooling,
                blocked |-> mem.blocked \cup {mem.applying.version}, halted |-> mem.halted]
    BY <1>3, <2>1 DEF block, persisted
  <2>3. mem' \in persisted
    BY <1>3, <2>2 DEF persisted
  <2>4. \/ relay' = relayPrev /\ torn' = torn
        \/ relay' = relay /\ torn' = torn \cup {mem.applying.version} /\ "relay" \in stray'
    BY <2>1 DEF restore, Strays
  <2>5. /\ agent' \in {agent, agentPrev} /\ (~mem.applying.agent => agent' = agent)
        /\ mem.applying.agent => agent' = agentPrev \/ "agent" \in stray'
        /\ stray \subseteq stray' /\ stray' \subseteq {"relay", "agent", "image"}
    BY <1>4, <2>1 DEF restore, Strays
  <2> QED BY <1>2, <1>3, <1>4, <1>5, <2>1, <2>2, <2>3, <2>4, <2>5
<1>6. CASE ~(writeErr \/ reloadErr)
  BY <1>1, <1>2, <1>3, <1>4, <1>6
<1> QED BY <1>5, <1>6

LEMMA ApplyReloadsLedger ==
  ASSUME Ledger, ApplyReloads PROVE Ledger'
<1> USE ApplyReloadsKeeps
<1>1. TypeOK'
  <2>1. relay' \in Version /\ agent' \in 0 .. 1 /\ disk' \in persisted
    BY DEF Ledger, TypeOK
  <2> QED BY <2>1 DEF Ledger, TypeOK
<1>2. Recorded'
  BY DEF Ledger, Recorded, Applying
<1>3. ~cfg.fleet /\ failed \subseteq mem.blocked /\ (rolled => mem.halted)
  BY DEF Ledger, Place, Pending
<1>4. Place'
  BY <1>3 DEF Ledger, Place
<1>5. Remembers(mem)'
  BY <1>3 DEF Ledger, Remembers, Pending
<1>6. Remembers(disk)'
  BY <1>5 DEF Ledger, Remembers, Pending
<1> QED BY <1>1, <1>2, <1>4, <1>5, <1>6 DEF Ledger

LEMMA ResumeIdleLedger ==
  ASSUME Ledger, ResumeIdle PROVE Ledger'
<1> USE AutoBounds
<1>1. TypeOK'
  <2>1. cfg' \in [mode : {"notify", "stage", "auto"}, fleet : BOOLEAN]
        /\ {latest, relay, relayPrev, img}' \subseteq Version
        /\ {agent, agentPrev, runningAgent}' \subseteq 0 .. 1 /\ staged' \subseteq Version
        /\ stray' \subseteq {"relay", "agent", "image"}
    BY  DEF Ledger, TypeOK, Recorded, ResumeIdle, files, history
  <2>2. a' \in Applying \cup {None}
        /\ pc' \in {"boot", "health", "restored", "run", "copy", "swapped", "reloading", "down"}
    BY  DEF Ledger, TypeOK, Recorded, ResumeIdle
  <2>3. mem' \in persisted
    BY  DEF Ledger, TypeOK, Recorded, ResumeIdle
  <2>4. disk' \in persisted
    BY <2>3 DEF Ledger, TypeOK, ResumeIdle
  <2> QED BY <2>1, <2>2, <2>3, <2>4 DEF TypeOK
<1>2. Recorded'
  BY DEF Ledger, TypeOK, Recorded, ResumeIdle, history
<1>3. Place'
  BY  DEF Ledger, Place, Pending, ResumeIdle
<1>4. Remembers(mem)'
  BY  DEF Ledger, Remembers, ResumeIdle, history
<1>5. Remembers(disk)'
  BY <1>4 DEF Ledger, Remembers, ResumeIdle, history
<1> QED BY <1>1, <1>2, <1>3, <1>4, <1>5 DEF Ledger

LEMMA ResumeReportsLedger ==
  ASSUME Ledger, ResumeReports PROVE Ledger'
<1> USE AutoBounds
<1>1. TypeOK'
  <2>1. cfg' \in [mode : {"notify", "stage", "auto"}, fleet : BOOLEAN]
        /\ {latest, relay, relayPrev, img}' \subseteq Version
        /\ {agent, agentPrev, runningAgent}' \subseteq 0 .. 1 /\ staged' \subseteq Version
        /\ stray' \subseteq {"relay", "agent", "image"}
    BY  DEF Ledger, TypeOK, Recorded, ResumeReports, save, files, history
  <2>2. a' \in Applying \cup {None}
        /\ pc' \in {"boot", "health", "restored", "run", "copy", "swapped", "reloading", "down"}
    BY  DEF Ledger, TypeOK, Recorded, ResumeReports, save
  <2>3. mem' \in persisted
    BY  DEF Ledger, TypeOK, Recorded, persisted, Offer, Applying, ResumeReports, save
  <2>4. disk' \in persisted
    BY <2>3 DEF Ledger, TypeOK, ResumeReports, save
  <2> QED BY <2>1, <2>2, <2>3, <2>4 DEF TypeOK
<1>2. Recorded'
  BY DEF Ledger, TypeOK, Recorded, ResumeReports, save, history
<1>3. Place'
  BY  DEF Ledger, Place, Pending, ResumeReports, save
<1>4. Remembers(mem)'
  BY  DEF Ledger, Place, Pending, Remembers, ResumeReports, save, history
<1>5. Remembers(disk)'
  BY <1>4 DEF Ledger, Remembers, ResumeReports, save, history
<1> QED BY <1>1, <1>2, <1>3, <1>4, <1>5 DEF Ledger

LEMMA ResumeGatesLedger ==
  ASSUME Ledger, ResumeGates PROVE Ledger'
<1> USE AutoBounds
<1>1. TypeOK'
  <2>1. cfg' \in [mode : {"notify", "stage", "auto"}, fleet : BOOLEAN]
        /\ {latest, relay, relayPrev, img}' \subseteq Version
        /\ {agent, agentPrev, runningAgent}' \subseteq 0 .. 1 /\ staged' \subseteq Version
        /\ stray' \subseteq {"relay", "agent", "image"}
    BY  DEF Ledger, TypeOK, Recorded, ResumeGates, save, files, history
  <2>2. a' \in Applying \cup {None}
        /\ pc' \in {"boot", "health", "restored", "run", "copy", "swapped", "reloading", "down"}
    BY  DEF Ledger, TypeOK, Recorded, ResumeGates, save
  <2>3. mem' \in persisted
    BY  DEF Ledger, TypeOK, Recorded, persisted, Offer, Applying, ResumeGates, save
  <2>4. disk' \in persisted
    BY <2>3 DEF Ledger, TypeOK, ResumeGates, save
  <2> QED BY <2>1, <2>2, <2>3, <2>4 DEF TypeOK
<1>2. Recorded'
  BY DEF Ledger, TypeOK, Recorded, ResumeGates, save, history
<1>3. Place'
  BY  DEF Ledger, TypeOK, Recorded, Place, Pending, persisted, Offer, Applying, ResumeGates, save
<1>4. Remembers(mem)'
  BY  DEF Ledger, TypeOK, Recorded, Place, Pending, persisted, Offer, Applying, Remembers,
     ResumeGates, save, history
<1>5. Remembers(disk)'
  BY <1>4 DEF Ledger, Remembers, ResumeGates, save, history
<1> QED BY <1>1, <1>2, <1>3, <1>4, <1>5 DEF Ledger

LEMMA GatePassesLedger ==
  ASSUME Ledger, GatePasses PROVE Ledger'
<1> USE AutoBounds
<1>1. TypeOK'
  <2>1. cfg' \in [mode : {"notify", "stage", "auto"}, fleet : BOOLEAN]
        /\ {latest, relay, relayPrev, img}' \subseteq Version
        /\ {agent, agentPrev, runningAgent}' \subseteq 0 .. 1 /\ staged' \subseteq Version
        /\ stray' \subseteq {"relay", "agent", "image"}
    BY  DEF Ledger, TypeOK, Recorded, GatePasses, health, save, files, history
  <2>2. a' \in Applying \cup {None}
        /\ pc' \in {"boot", "health", "restored", "run", "copy", "swapped", "reloading", "down"}
    BY  DEF Ledger, TypeOK, Recorded, GatePasses, health, save
  <2>3. mem' \in persisted
    BY  DEF Ledger, TypeOK, Recorded, persisted, Offer, Applying, GatePasses, health, save
  <2>4. disk' \in persisted
    BY <2>3 DEF Ledger, TypeOK, GatePasses, health, save
  <2> QED BY <2>1, <2>2, <2>3, <2>4 DEF TypeOK
<1>2. Recorded'
  BY DEF Ledger, TypeOK, Recorded, GatePasses, health, save
<1>3. Place'
  BY  DEF Ledger, Place, Pending, GatePasses, health, save
<1>4. Remembers(mem)'
  BY  DEF Ledger, Remembers, GatePasses, health, save
<1>5. Remembers(disk)'
  BY <1>4 DEF Ledger, Remembers, GatePasses, health, save
<1> QED BY <1>1, <1>2, <1>3, <1>4, <1>5 DEF Ledger

LEMMA GateFailsLedger ==
  ASSUME Ledger, GateFails PROVE Ledger'
<1> USE AutoBounds
<1>1. TypeOK'
  <2>1. cfg' \in [mode : {"notify", "stage", "auto"}, fleet : BOOLEAN]
        /\ {latest, relay, relayPrev, img}' \subseteq Version
        /\ {agent, agentPrev, runningAgent}' \subseteq 0 .. 1 /\ staged' \subseteq Version
        /\ stray' \subseteq {"relay", "agent", "image"}
    BY  DEF Ledger, TypeOK, Recorded, GateFails, health, restore, history, Strays
  <2>2. a' \in Applying \cup {None}
        /\ pc' \in {"boot", "health", "restored", "run", "copy", "swapped", "reloading", "down"}
    BY  DEF Ledger, TypeOK, Recorded, GateFails, health, restore
  <2>3. mem' \in persisted
    BY  DEF Ledger, TypeOK, Recorded, GateFails, health, restore
  <2>4. disk' \in persisted
    BY <2>3 DEF Ledger, TypeOK, GateFails, health, restore
  <2> QED BY <2>1, <2>2, <2>3, <2>4 DEF TypeOK
<1>2. Recorded'
  BY DEF Ledger, TypeOK, Recorded, Place, Pending, persisted, Offer, Applying, GateFails,
     health, restore
<1>3. Place'
  BY  DEF Ledger, Place, Pending, GateFails, health, restore
<1>4. Remembers(mem)'
  BY  DEF Ledger, Place, Pending, Remembers, GateFails, health, restore
<1>5. Remembers(disk)'
  BY <1>4 DEF Ledger, Place, Pending, Remembers, GateFails, health, restore
<1> QED BY <1>1, <1>2, <1>3, <1>4, <1>5 DEF Ledger

LEMMA ResumeRollsBackLedger ==
  ASSUME Ledger, ResumeRollsBack PROVE Ledger'
<1> USE AutoBounds
<1>1. TypeOK'
  <2>1. cfg' \in [mode : {"notify", "stage", "auto"}, fleet : BOOLEAN]
        /\ {latest, relay, relayPrev, img}' \subseteq Version
        /\ {agent, agentPrev, runningAgent}' \subseteq 0 .. 1 /\ staged' \subseteq Version
        /\ stray' \subseteq {"relay", "agent", "image"}
    BY  DEF Ledger, TypeOK, Recorded, ResumeRollsBack, RolledBack, block, save, files, history,
          Strays
  <2>2. a' \in Applying \cup {None}
        /\ pc' \in {"boot", "health", "restored", "run", "copy", "swapped", "reloading", "down"}
    BY  DEF Ledger, TypeOK, Recorded, ResumeRollsBack, RolledBack, block, save
  <2>3. mem' \in persisted
    BY Judged DEF Ledger, TypeOK, Place, Pending, ResumeRollsBack, save
  <2>4. disk' \in persisted
    BY <2>3 DEF Ledger, TypeOK, ResumeRollsBack, RolledBack, block, save
  <2> QED BY <2>1, <2>2, <2>3, <2>4 DEF TypeOK
<1>2. Recorded'
  BY DEF Ledger, TypeOK, Recorded, ResumeRollsBack, RolledBack, block, save, history
<1>3. Place'
  BY  DEF Ledger, Place, Pending, ResumeRollsBack, RolledBack, block, save
<1>4. Remembers(mem)'
  BY  DEF Ledger, Place, Pending, Remembers, ResumeRollsBack, RolledBack, block, save, history
<1>5. Remembers(disk)'
  BY <1>4 DEF Ledger, Remembers, ResumeRollsBack, RolledBack, block, save, history
<1> QED BY <1>1, <1>2, <1>3, <1>4, <1>5 DEF Ledger

LEMMA PublishHealthy ==
  ASSUME Ledger, Healthy, Publish PROVE Healthy'
BY AutoBounds DEF Healthy, Flagged, Excused, Covered, Remembers, Publish, files, history

LEMMA ElapseHealthy ==
  ASSUME Ledger, Healthy, Elapse PROVE Healthy'
BY ElapseKeeps DEF Healthy, Flagged, Excused, Covered, Pending, files, history

LEMMA CrashHealthy ==
  ASSUME Ledger, Healthy, Crash PROVE Healthy'
<1>1. stray \subseteq stray' /\ relayPrev' \in {relayPrev, relay} /\ pc' = "down"
      /\ (pc # "copy" => relayPrev' = relayPrev)
      /\ torn \subseteq torn' /\ (pc = "swapped" => relay \in torn')
      /\ UNCHANGED <<cfg, relay, disk, img, failed>>
  BY DEF Crash, Strays
<1>2. \A v : Excused(v) => Excused(v)'
  BY <1>1 DEF Excused
<1>3. Covered => Covered'
  BY <1>1, <1>2 DEF Covered, Pending
<1>4. pc \in {"boot", "health", "restored", "run", "copy", "swapped", "reloading", "down"}
  BY DEF Ledger, TypeOK
<1>5. ASSUME pc \in {"run", "copy", "restored"} PROVE ~cfg.fleet => Covered'
  BY <1>1, <1>2, <1>5 DEF Healthy, Covered
<1>6. ~cfg.fleet => Covered'
  <2>1. CASE pc = "swapped"
    BY <1>1, <2>1 DEF Covered, Excused
  <2>2. CASE pc \in {"reloading", "down", "boot", "health"}
    BY <1>3, <2>2 DEF Healthy
  <2> QED BY <1>4, <1>5, <2>1, <2>2
<1>7. ~cfg.fleet => Excused(relayPrev)'
  BY <1>1, <1>2 DEF Healthy, Excused
<1> QED BY <1>1, <1>6, <1>7 DEF Healthy

LEMMA BootHealthy ==
  ASSUME Ledger, Healthy, Boot PROVE Healthy'
BY AutoBounds DEF Healthy, Flagged, Excused, Covered, Remembers, Boot, files, history

LEMMA PollOffersHealthy ==
  ASSUME Ledger, Healthy, PollOffers PROVE Healthy'
BY AutoBounds DEF Healthy, Flagged, Excused, Covered, Ledger, TypeOK, Recorded, Remembers,
   PollOffers, replace, NewOffer, wanted, offered, StagedWithout, save, files, history

LEMMA PollDropsHealthy ==
  ASSUME Ledger, Healthy, PollDrops PROVE Healthy'
BY AutoBounds DEF Healthy, Flagged, Excused, Covered, Ledger, TypeOK, Recorded, Remembers,
   PollDrops, drop, StagedWithout, save, wanted, files, history

LEMMA PollSavesHealthy ==
  ASSUME Ledger, Healthy, PollSaves PROVE Healthy'
BY AutoBounds DEF Healthy, Flagged, Excused, Covered, Remembers, PollSaves, files, history

LEMMA DecideHealthy ==
  ASSUME Ledger, Healthy, Decide PROVE Healthy'
BY DecideKeeps DEF Healthy, Flagged, Excused, Ledger, Recorded

LEMMA ConvergeHealthy ==
  ASSUME Ledger, Healthy, Converge PROVE Healthy'
BY AutoBounds DEF Healthy, Remembers, Converge, Ready, drop, save

LEMMA ApplyStartsHealthy ==
  ASSUME Ledger, Healthy, ApplyStarts PROVE Healthy'
BY AutoBounds DEF Healthy, Flagged, Excused, Covered, Remembers, ApplyStarts, Ready,
   Withdrawn, Downloadable, files, history

LEMMA ApplyFailsHealthy ==
  ASSUME Ledger, Healthy, ApplyFails PROVE Healthy'
<1>1. /\ pc = "run" /\ pc' = "run" /\ stray \subseteq stray'
      /\ UNCHANGED <<cfg, relay, relayPrev, img, failed, torn>>
  BY  DEF ApplyFails, Ready, fail, Strays
<1> QED BY <1>1 DEF Healthy, Excused

LEMMA ApplySwapsHealthy ==
  ASSUME Ledger, Healthy, ApplySwaps PROVE Healthy'
BY ApplySwapsKeeps, AutoBounds DEF Healthy, Flagged, Excused, Ledger, Recorded, history

LEMMA ApplyReloadsHealthy ==
  ASSUME Ledger, Healthy, ApplyReloads PROVE Healthy'
BY ApplyReloadsKeeps, AutoBounds DEF Healthy, Flagged, Excused, Covered, Ledger, Recorded, Remembers

LEMMA ResumeIdleHealthy ==
  ASSUME Ledger, Healthy, ResumeIdle PROVE Healthy'
BY AutoBounds DEF Healthy, Flagged, Excused, Covered, Ledger, Place, Pending, Remembers,
   ResumeIdle, files, history

LEMMA ResumeReportsHealthy ==
  ASSUME Ledger, Healthy, ResumeReports PROVE Healthy'
BY AutoBounds DEF Healthy, Flagged, Excused, Covered, Ledger, TypeOK, Recorded, Place,
   Pending, Remembers, ResumeReports, save, files, history

\* The gate is noted in the record.
LEMMA ResumeGatesKeeps ==
  ASSUME Ledger, ResumeGates
  PROVE  /\ pc = "boot" /\ pc' = "health" /\ Pending(mem) /\ mem = disk
         /\ Pending(mem)' /\ Pending(disk)'
         /\ \A f \in {"version", "from", "agent"} :
              /\ mem'.applying[f] = mem.applying[f]
              /\ disk'.applying[f] = mem.applying[f]
         /\ mem'.offer = mem.offer /\ disk'.offer = mem.offer
         /\ UNCHANGED <<cfg, latest, files, img, runningAgent, a, crashes, history>>
<1> USE AutoBounds
<1>1. PICK saveErr \in BOOLEAN :
        /\ Spend(<<saveErr>>)
        /\ save([mem EXCEPT !.applying.boots = IF @ > GateBoots THEN @ ELSE @ + 1], saveErr)
  BY DEF ResumeGates
<1>2. /\ pc = "boot" /\ pc' = "health" /\ Pending(mem) /\ mem = disk
      /\ UNCHANGED <<cfg, latest, files, img, runningAgent, a, crashes, history>>
  BY  DEF ResumeGates, Pending, Ledger, Place
<1>3. mem \in persisted /\ mem.applying \in Applying
  BY <1>2 DEF Ledger, TypeOK, Pending, persisted
<1>5. PICK n \in Nat : mem' = [mem EXCEPT !.applying.boots = n]
  <2> DEFINE n == IF mem.applying.boots > GateBoots THEN mem.applying.boots ELSE mem.applying.boots + 1
  <2>1. n \in Nat
    BY <1>3 DEF Applying
  <2>2. mem' = [mem EXCEPT !.applying.boots = n]
    BY <1>1, <1>3 DEF save, persisted, Applying
  <2> QED BY <2>1, <2>2
<1> DEFINE p == [mem.applying EXCEPT !.boots = n]
<1>6. p \in Applying /\ p.rolledBack = mem.applying.rolledBack
      /\ \A f \in {"version", "from", "agent"} : p[f] = mem.applying[f]
  BY <1>3 DEF Applying
<1>7. mem' = [mem EXCEPT !.applying = p] /\ p # None
  BY <1>5, <1>6
<1> HIDE DEF p
<1>8. mem'.applying = p /\ mem'.offer = mem.offer
  BY <1>3, <1>7 DEF persisted
<1>9. disk' \in {mem', mem}
  BY <1>1, <1>2 DEF save
<1> QED BY <1>2, <1>6, <1>7, <1>8, <1>9 DEF Pending

LEMMA ResumeGatesHealthy ==
  ASSUME Ledger, Healthy, ResumeGates PROVE Healthy'
<1> USE ResumeGatesKeeps
<1>1. Covered => Covered'
  BY  DEF Covered, Excused, files, history, Ledger, Recorded
<1> QED BY <1>1 DEF Healthy, Excused, files, history, Ledger, Recorded

LEMMA GatePassesHealthy ==
  ASSUME Ledger, Healthy, GatePasses PROVE Healthy'
BY AutoBounds DEF Healthy, Flagged, Excused, Covered, Ledger, TypeOK, Recorded, Remembers,
   GatePasses, health, save, files, history

LEMMA GateFailsHealthy ==
  ASSUME Ledger, Healthy, GateFails PROVE Healthy'
<1>1. PICK err, agentErr \in BOOLEAN : restore(mem.applying, err, agentErr)
  BY DEF GateFails
<1>2. /\ pc = "health" /\ pc' = "restored" /\ failed' = failed \cup {mem.applying.version}
      /\ UNCHANGED <<cfg, relayPrev, disk, mem, img, torn>>
  BY DEF GateFails
<1>3. /\ stray \subseteq stray' /\ relay' \in {relay, relayPrev}
      /\ relay' # relayPrev => "relay" \in stray' /\ relay' = relay
  BY <1>1 DEF restore, Strays
<1>4. \A v : Excused(v) => Excused(v)'
  BY <1>2, <1>3 DEF Excused
<1>5. mem.applying.version = disk.applying.version
  BY <1>2 DEF Ledger, Place
<1>6. ~cfg.fleet => Excused(relay) \/ relay \in failed'
  BY <1>2, <1>5 DEF Healthy, Covered
<1>7. ~cfg.fleet => Excused(relay)'
  <2>1. CASE relay' = relay /\ "relay" \in stray'
    BY <1>2, <1>4, <1>6, <2>1 DEF Excused
  <2>2. CASE relay' = relayPrev
    BY <1>2, <1>4, <2>2 DEF Healthy, Excused
  <2> QED BY <1>3, <2>1, <2>2
<1>8. ~cfg.fleet => Flagged(img)'
  BY <1>2, <1>6 DEF Healthy, Flagged, Excused
<1>9. ~cfg.fleet => Excused(relayPrev)'
  BY <1>2, <1>4 DEF Healthy
<1> QED BY <1>2, <1>7, <1>8, <1>9 DEF Healthy, Excused

LEMMA ResumeRollsBackHealthy ==
  ASSUME Ledger, Healthy, ResumeRollsBack PROVE Healthy'
<1>1. /\ pc = "restored" /\ UNCHANGED <<cfg, relay, relayPrev, img, failed, torn>>
      /\ stray \subseteq stray'
      /\ pc' = "reloading" \/ (pc' = "run" /\ "image" \in stray')
  BY DEF ResumeRollsBack, Strays, files
<1>2. \A v : Excused(v) => Excused(v)'
  BY <1>1 DEF Excused
<1>3. ~cfg.fleet => Excused(relay)' /\ Excused(relayPrev)' /\ Flagged(img)
  BY <1>1, <1>2 DEF Healthy
<1>4. ~cfg.fleet /\ pc' = "run" => Excused(img)'
  BY <1>1, <1>3 DEF Flagged, Excused
<1> QED BY <1>1, <1>3, <1>4 DEF Healthy, Covered

LEMMA PublishRelayFits ==
  ASSUME Ledger, RelayFits, Publish PROVE RelayFits'
BY AutoBounds DEF RelayFits, RelayRecord, Ledger, TypeOK, persisted, Publish, files, history

LEMMA ElapseRelayFits ==
  ASSUME Ledger, RelayFits, Elapse PROVE RelayFits'
BY AutoBounds, ElapseKeeps
      DEF RelayFits, RelayRecord, Ledger, TypeOK, persisted, Place, Pending, Remembers, files,
      history

LEMMA CrashRelayFits ==
  ASSUME Ledger, RelayFits, Crash PROVE RelayFits'
BY AutoBounds DEF RelayFits, RelayRecord, Ledger, TypeOK, persisted, Crash, Strays, RecordIsOld,
      AgentLeft, Pending, Place, files, history

LEMMA BootRelayFits ==
  ASSUME Ledger, RelayFits, Boot PROVE RelayFits'
BY AutoBounds DEF RelayFits, RelayRecord, Ledger, TypeOK, persisted, Boot, files, history

LEMMA PollOffersRelayFits ==
  ASSUME Ledger, RelayFits, PollOffers PROVE RelayFits'
BY AutoBounds DEF RelayFits, RelayRecord, Ledger, TypeOK, persisted, PollOffers, replace, NewOffer,
      wanted, offered, StagedWithout, save, files, history

LEMMA PollDropsRelayFits ==
  ASSUME Ledger, RelayFits, PollDrops PROVE RelayFits'
BY AutoBounds DEF RelayFits, RelayRecord, Ledger, TypeOK, persisted, PollDrops, drop, StagedWithout,
      save, wanted, files, history

LEMMA PollSavesRelayFits ==
  ASSUME Ledger, RelayFits, PollSaves PROVE RelayFits'
BY AutoBounds DEF RelayFits, RelayRecord, Ledger, TypeOK, persisted, PollSaves, files, history

LEMMA DecideRelayFits ==
  ASSUME Ledger, RelayFits, Decide PROVE RelayFits'
BY AutoBounds, DecideKeeps
      DEF RelayFits, RelayRecord, Ledger, TypeOK, persisted, Place, Pending, Remembers, files,
      history

LEMMA ConvergeRelayFits ==
  ASSUME Ledger, RelayFits, Converge PROVE RelayFits'
BY AutoBounds DEF RelayFits, RelayRecord, Ledger, TypeOK, persisted, Converge, Ready, drop, save,
      files, history

LEMMA ApplyStartsRelayFits ==
  ASSUME Ledger, RelayFits, ApplyStarts PROVE RelayFits'
BY AutoBounds DEF RelayFits, RelayRecord, Ledger, TypeOK, persisted, ApplyStarts, Ready, Withdrawn,
      Downloadable, Place, Remembers, Offer, Applying, files, history

LEMMA ApplyFailsRelayFits ==
  ASSUME Ledger, RelayFits, ApplyFails PROVE RelayFits'
BY AutoBounds DEF RelayFits, RelayRecord, Ledger, TypeOK, persisted, ApplyFails, Ready, Withdrawn,
      Downloadable, fail, drop, StagedWithout, save, Strays, Remembers, files, history

LEMMA ApplySwapsRelayFits ==
  ASSUME Ledger, RelayFits, ApplySwaps PROVE RelayFits'
BY AutoBounds, ApplySwapsKeeps
      DEF RelayFits, RelayRecord, Ledger, TypeOK, persisted, Place, Pending, Remembers, files,
      history

LEMMA ApplyReloadsRelayFits ==
  ASSUME Ledger, RelayFits, ApplyReloads PROVE RelayFits'
BY AutoBounds, ApplyReloadsKeeps
      DEF RelayFits, RelayRecord, Ledger, TypeOK, persisted, Place, Pending, Remembers, files,
      history

LEMMA ResumeIdleRelayFits ==
  ASSUME Ledger, RelayFits, ResumeIdle PROVE RelayFits'
BY AutoBounds DEF RelayFits, RelayRecord, Ledger, TypeOK, persisted, ResumeIdle, Place, files,
      history

LEMMA ResumeReportsRelayFits ==
  ASSUME Ledger, RelayFits, ResumeReports PROVE RelayFits'
BY AutoBounds DEF RelayFits, RelayRecord, Ledger, TypeOK, persisted, ResumeReports, save, Place,
      files, history

LEMMA ResumeGatesRelayFits ==
  ASSUME Ledger, RelayFits, ResumeGates PROVE RelayFits'
BY AutoBounds, ResumeGatesKeeps
      DEF RelayFits, RelayRecord, Ledger, TypeOK, persisted, Place, Pending, Remembers, files,
      history

LEMMA GatePassesRelayFits ==
  ASSUME Ledger, RelayFits, GatePasses PROVE RelayFits'
BY AutoBounds DEF RelayFits, RelayRecord, Ledger, TypeOK, persisted, GatePasses, health, save,
      files, history

LEMMA GateFailsRelayFits ==
  ASSUME Ledger, RelayFits, GateFails PROVE RelayFits'
BY AutoBounds DEF RelayFits, RelayRecord, Ledger, TypeOK, persisted, GateFails, health, restore,
      Strays, Place, Pending, Remembers, files, history

LEMMA ResumeRollsBackRelayFits ==
  ASSUME Ledger, RelayFits, ResumeRollsBack PROVE RelayFits'
BY AutoBounds, Judged
      DEF RelayFits, RelayRecord, Ledger, TypeOK, persisted, ResumeRollsBack, save, Strays, Place,
      Pending, Remembers, files, history

LEMMA PublishAgentFits ==
  ASSUME Ledger, AgentFits, Publish PROVE AgentFits'
BY AutoBounds DEF AgentFits, AgentRecord, Replaced, Ledger, TypeOK, persisted, Publish, files,
      history

LEMMA ElapseAgentFits ==
  ASSUME Ledger, AgentFits, Elapse PROVE AgentFits'
BY AutoBounds, ElapseKeeps
      DEF AgentFits, AgentRecord, Replaced, Ledger, TypeOK, persisted, Place, Pending, Remembers,
      files, history

LEMMA CrashAgentFits ==
  ASSUME Ledger, AgentFits, Crash PROVE AgentFits'
BY AutoBounds DEF AgentFits, AgentRecord, Replaced, Ledger, TypeOK, persisted, Crash, Strays,
      RecordIsOld, AgentLeft, Pending, Place, files, history

LEMMA BootAgentFits ==
  ASSUME Ledger, AgentFits, Boot PROVE AgentFits'
BY AutoBounds DEF AgentFits, AgentRecord, Replaced, Ledger, TypeOK, persisted, Boot, files, history

LEMMA PollOffersAgentFits ==
  ASSUME Ledger, AgentFits, PollOffers PROVE AgentFits'
BY AutoBounds DEF AgentFits, AgentRecord, Replaced, Ledger, TypeOK, persisted, PollOffers, replace,
      NewOffer, wanted, offered, StagedWithout, save, files, history

LEMMA PollDropsAgentFits ==
  ASSUME Ledger, AgentFits, PollDrops PROVE AgentFits'
BY AutoBounds DEF AgentFits, AgentRecord, Replaced, Ledger, TypeOK, persisted, PollDrops, drop,
      StagedWithout, save, wanted, files, history

LEMMA PollSavesAgentFits ==
  ASSUME Ledger, AgentFits, PollSaves PROVE AgentFits'
BY AutoBounds DEF AgentFits, AgentRecord, Replaced, Ledger, TypeOK, persisted, PollSaves, files,
      history

LEMMA DecideAgentFits ==
  ASSUME Ledger, AgentFits, Decide PROVE AgentFits'
BY AutoBounds, DecideKeeps
      DEF AgentFits, AgentRecord, Replaced, Ledger, TypeOK, persisted, Place, Pending, Remembers,
      files, history

LEMMA ConvergeAgentFits ==
  ASSUME Ledger, AgentFits, Converge PROVE AgentFits'
BY AutoBounds DEF AgentFits, AgentRecord, Replaced, Ledger, TypeOK, persisted, Converge, Ready,
      drop, save, files, history

LEMMA ApplyStartsAgentFits ==
  ASSUME Ledger, AgentFits, ApplyStarts PROVE AgentFits'
BY AutoBounds DEF AgentFits, AgentRecord, Replaced, Ledger, TypeOK, persisted, ApplyStarts, Ready,
      Withdrawn, Downloadable, Place, Remembers, Offer, Applying, files, history

LEMMA ApplyFailsAgentFits ==
  ASSUME Ledger, AgentFits, ApplyFails PROVE AgentFits'
BY AutoBounds DEF AgentFits, AgentRecord, Replaced, Ledger, TypeOK, persisted, ApplyFails, Ready,
      Withdrawn, Downloadable, fail, drop, StagedWithout, save, Strays, Remembers, files, history

LEMMA ApplySwapsAgentFits ==
  ASSUME Ledger, AgentFits, ApplySwaps PROVE AgentFits'
BY AutoBounds, ApplySwapsKeeps
      DEF AgentFits, AgentRecord, Replaced, Ledger, TypeOK, persisted, Place, Pending, Remembers,
      files, history

LEMMA ApplyReloadsAgentFits ==
  ASSUME Ledger, AgentFits, ApplyReloads PROVE AgentFits'
BY AutoBounds, ApplyReloadsKeeps
      DEF AgentFits, AgentRecord, Replaced, Ledger, TypeOK, persisted, Place, Pending, Remembers,
      files, history

LEMMA ResumeIdleAgentFits ==
  ASSUME Ledger, AgentFits, ResumeIdle PROVE AgentFits'
BY AutoBounds DEF AgentFits, AgentRecord, Replaced, Ledger, TypeOK, persisted, ResumeIdle, Place,
      files, history

LEMMA ResumeReportsAgentFits ==
  ASSUME Ledger, AgentFits, ResumeReports PROVE AgentFits'
BY AutoBounds DEF AgentFits, AgentRecord, Replaced, Ledger, TypeOK, persisted, ResumeReports, save,
      Place, files, history

LEMMA ResumeGatesAgentFits ==
  ASSUME Ledger, AgentFits, ResumeGates PROVE AgentFits'
BY AutoBounds, ResumeGatesKeeps
      DEF AgentFits, AgentRecord, Replaced, Ledger, TypeOK, persisted, Place, Pending, Remembers,
      files, history

LEMMA GatePassesAgentFits ==
  ASSUME Ledger, AgentFits, GatePasses PROVE AgentFits'
BY AutoBounds DEF AgentFits, AgentRecord, Replaced, Ledger, TypeOK, persisted, GatePasses, health,
      save, files, history

LEMMA GateFailsAgentFits ==
  ASSUME Ledger, AgentFits, GateFails PROVE AgentFits'
BY AutoBounds DEF AgentFits, AgentRecord, Replaced, Ledger, TypeOK, persisted, GateFails, health,
      restore, Strays, Place, Pending, Remembers, files, history

LEMMA ResumeRollsBackAgentFits ==
  ASSUME Ledger, AgentFits, ResumeRollsBack PROVE AgentFits'
BY AutoBounds, Judged
      DEF AgentFits, AgentRecord, Replaced, Ledger, TypeOK, persisted, ResumeRollsBack, save,
      Strays, Place, Pending, Remembers, files, history

LEMMA AutoInit == Init => AutoIInv
<1> SUFFICES ASSUME Init PROVE AutoIInv
  OBVIOUS
<1> USE AutoBounds
<1>1. cfg \in [mode : {"notify", "stage", "auto"}, fleet : BOOLEAN]
  BY ConstantsAssumption DEF Init, New
<1>2. mem \in persisted /\ disk = mem /\ mem.applying = None /\ mem.offer = None
  BY DEF Init, persisted
<1>3. TypeOK
  BY <1>1, <1>2 DEF Init, TypeOK
<1>4. Recorded /\ Place /\ Remembers(mem) /\ Remembers(disk)
  <2>1. pc = "run" /\ failed = {} /\ torn = {} /\ rolled = FALSE /\ stray = {}
    BY DEF Init
  <2>2. Recorded
    BY <2>1 DEF Recorded
  <2>3. Place
    BY <1>2, <2>1 DEF Place
  <2>4. Remembers(mem) /\ Remembers(disk)
    BY <1>2, <2>1 DEF Remembers
  <2> QED BY <2>2, <2>3, <2>4
<1>5. Healthy /\ RelayFits /\ AgentFits
  BY <1>2 DEF Init, Healthy, Excused, RelayFits, RelayRecord, AgentFits, AgentRecord, Replaced
<1> QED BY <1>3, <1>4, <1>5 DEF AutoIInv, Ledger

LEMMA AutoStutter == AutoIInv /\ UNCHANGED vars => AutoIInv'
<1> SUFFICES ASSUME AutoIInv, UNCHANGED vars PROVE AutoIInv'
  OBVIOUS
<1>1. Ledger'
  <2>1. TypeOK'
    BY  DEF AutoIInv, Ledger, TypeOK, vars, files, history
  <2>2. Recorded' /\ Place' /\ Remembers(mem)' /\ Remembers(disk)'
    BY  DEF AutoIInv, Ledger, Recorded, Place, Remembers, Pending, vars, files, history
  <2> QED BY <2>1, <2>2 DEF Ledger
<1>2. Healthy' /\ RelayFits' /\ AgentFits'
  BY  DEF AutoIInv, Healthy, Flagged, Excused, Covered, Pending, RelayFits, RelayRecord, AgentFits,
     AgentRecord, Replaced, vars, files, history
<1> QED BY <1>1, <1>2 DEF AutoIInv

LEMMA AutoStep == AutoIInv /\ [Next]_vars => AutoIInv'
<1> SUFFICES ASSUME AutoIInv, [Next]_vars PROVE AutoIInv'
  OBVIOUS
<1> USE DEF AutoIInv
<1>1. CASE Publish
  BY <1>1, PublishLedger, PublishHealthy, PublishRelayFits, PublishAgentFits
<1>2. CASE Elapse
  BY <1>2, ElapseLedger, ElapseHealthy, ElapseRelayFits, ElapseAgentFits
<1>3. CASE Crash
  BY <1>3, CrashLedger, CrashHealthy, CrashRelayFits, CrashAgentFits
<1>4. CASE Boot
  BY <1>4, BootLedger, BootHealthy, BootRelayFits, BootAgentFits
<1>5. CASE PollOffers
  BY <1>5, PollOffersLedger, PollOffersHealthy, PollOffersRelayFits, PollOffersAgentFits
<1>6. CASE PollDrops
  BY <1>6, PollDropsLedger, PollDropsHealthy, PollDropsRelayFits, PollDropsAgentFits
<1>7. CASE PollSaves
  BY <1>7, PollSavesLedger, PollSavesHealthy, PollSavesRelayFits, PollSavesAgentFits
<1>8. CASE Decide
  BY <1>8, DecideLedger, DecideHealthy, DecideRelayFits, DecideAgentFits
<1>9. CASE Converge
  BY <1>9, ConvergeLedger, ConvergeHealthy, ConvergeRelayFits, ConvergeAgentFits
<1>10. CASE ApplyStarts
  BY <1>10, ApplyStartsLedger, ApplyStartsHealthy, ApplyStartsRelayFits, ApplyStartsAgentFits
<1>11. CASE ApplyFails
  BY <1>11, ApplyFailsLedger, ApplyFailsHealthy, ApplyFailsRelayFits, ApplyFailsAgentFits
<1>12. CASE ApplySwaps
  BY <1>12, ApplySwapsLedger, ApplySwapsHealthy, ApplySwapsRelayFits, ApplySwapsAgentFits
<1>13. CASE ApplyReloads
  BY <1>13, ApplyReloadsLedger, ApplyReloadsHealthy, ApplyReloadsRelayFits, ApplyReloadsAgentFits
<1>14. CASE ResumeIdle
  BY <1>14, ResumeIdleLedger, ResumeIdleHealthy, ResumeIdleRelayFits, ResumeIdleAgentFits
<1>15. CASE ResumeReports
  BY <1>15, ResumeReportsLedger, ResumeReportsHealthy, ResumeReportsRelayFits,
     ResumeReportsAgentFits
<1>16. CASE ResumeGates
  BY <1>16, ResumeGatesLedger, ResumeGatesHealthy, ResumeGatesRelayFits, ResumeGatesAgentFits
<1>17. CASE GatePasses
  BY <1>17, GatePassesLedger, GatePassesHealthy, GatePassesRelayFits, GatePassesAgentFits
<1>18. CASE GateFails
  BY <1>18, GateFailsLedger, GateFailsHealthy, GateFailsRelayFits, GateFailsAgentFits
<1>19. CASE ResumeRollsBack
  BY <1>19, ResumeRollsBackLedger, ResumeRollsBackHealthy, ResumeRollsBackRelayFits,
     ResumeRollsBackAgentFits
<1>20. CASE UNCHANGED vars
  BY <1>20, AutoStutter
<1> HIDE DEF AutoIInv
<1> QED
  BY <1>1, <1>2, <1>3, <1>4, <1>5, <1>6, <1>7, <1>8, <1>9, <1>10, <1>11, <1>12, <1>13, <1>14,
     <1>15, <1>16, <1>17, <1>18, <1>19, <1>20 DEF Next, Poll, Tick, Apply, resume

LEMMA AutoInvariance == Spec => []AutoIInv
<1> QED BY AutoInit, AutoStep, PTL DEF Spec

\* For any number of releases, crashes and failures: an unhealthy image stays in
\* service only if its swap was cut off before the save, or its gate failed and it
\* was not replaced; what a reported rollback has put back is the relay the apply
\* started from and the agent it ran with, but for the failures RestoredTogether
\* names (resume, restore).
THEOREM RollbackIsWholeAlways == Spec => []RollbackIsWhole
<1>1. AutoIInv => UnhealthyIsRolledBack
  BY  DEF AutoIInv, Healthy, Excused, UnhealthyIsRolledBack
<1>2. AutoIInv => RestoredTogether
  <2> SUFFICES ASSUME AutoIInv, pc = "boot", mem.applying # None, mem.applying.rolledBack
               PROVE /\ "relay" \notin stray => img = mem.applying.from
                     /\ mem.applying.agent /\ "agent" \notin stray => runningAgent = 0
    BY DEF RestoredTogether
  <2>1. ~cfg.fleet
    BY DEF AutoIInv, Ledger, Place
  <2>2. "relay" \notin stray => img = mem.applying.from
    BY <2>1 DEF AutoIInv, RelayFits, RelayRecord
  <2>3. mem.applying.agent /\ "agent" \notin stray => runningAgent = 0
    BY <2>1 DEF AutoIInv, AgentFits, AgentRecord, Replaced
  <2> QED BY <2>2, <2>3
<1>3. AutoIInv => RollbackIsWhole
  BY <1>1, <1>2 DEF RollbackIsWhole
<1> QED BY <1>3, AutoInvariance, PTL

\* A release whose gate failed is not swapped in again, and after a failed gate
\* no apply starts on the mode's own approval until an owner has acted, across
\* deaths of the process and saves that fail (block, Halted).
THEOREM WhatFailedStaysOut == Spec => RolledBackStaysOut
<1>1. AutoIInv /\ [Next]_vars => [pc = "copy" /\ relay' # relay => relay' \notin failed]_vars
  <2> SUFFICES ASSUME AutoIInv, Next, pc = "copy", relay' # relay
               PROVE relay' \notin failed
    OBVIOUS
  <2>1. CASE ApplySwaps
    <3>1. relay' = mem.offer.version /\ mem.offer # None
      BY <2>1, ApplySwapsKeeps DEF AutoIInv
    <3> QED BY <3>1 DEF AutoIInv, Ledger, Remembers
  <2>2. ~ApplySwaps => UNCHANGED relay
    BY  DEF Next, Publish, Elapse, Crash, Boot, Poll, PollOffers, PollDrops, PollSaves,
       Decide, Tick, Converge, Ready, Apply, ApplyStarts, ApplyFails, ApplyReloads, resume,
       ResumeIdle, ResumeReports, ResumeGates, GatePasses, GateFails, ResumeRollsBack, files
  <2> QED BY <2>1, <2>2
<1>2. AutoIInv /\ [Next]_vars =>
        [pc = "run" /\ pc' = "copy" /\ mem.offer.who = "auto" => ~rolled]_vars
  <2> SUFFICES ASSUME AutoIInv, Next, pc = "run", pc' = "copy", mem.offer.who = "auto"
               PROVE ~rolled
    OBVIOUS
  <2>1. ApplyStarts
    BY  DEF Next, Publish, Elapse, Crash, Boot, Poll, PollOffers, PollDrops, PollSaves,
       Decide, Tick, Converge, Apply, ApplyFails, fail, ApplySwaps, ApplyReloads, resume,
       ResumeIdle, ResumeReports, ResumeGates, GatePasses, GateFails, ResumeRollsBack
  <2>2. mem.offer # None /\ ~mem.halted
    BY <2>1 DEF ApplyStarts, Ready, Withdrawn
  <2> QED BY <2>2 DEF AutoIInv, Ledger, Remembers, Pending
<1>3. Spec => FailedStaysOut
  BY <1>1, AutoInvariance, PTL DEF Spec, FailedStaysOut
<1>4. Spec => AutoWaitsForOwner
  BY <1>2, AutoInvariance, PTL DEF Spec, AutoWaitsForOwner
<1> QED BY <1>3, <1>4 DEF RolledBackStaysOut
=============================================================================
