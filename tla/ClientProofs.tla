---------------------------- MODULE ClientProofs ----------------------------
(* Theorems about the two halves of the client package.                     *)
(*                                                                          *)
(* AgentSupervisor: the supervision of the agent's children, for every      *)
(* number of faults, of callers and of goroutines that call Close.          *)
(* Nothing in client/supervise.go says that there is one supervisor.  It is *)
(* so because the right to spawn travels with the current generation: who   *)
(* spawns was started by the reaper of the current child (or is Start,      *)
(* while there is none), and loses that right by installing its successor.  *)
(*                                                                          *)
(* PromptGuards: one guarded prompt, for every window and ceiling, for any  *)
(* number of turns, refusals, updates and chunks.  The buffer of the        *)
(* ValidatingSink holds what the agent said of the attempt that is judged,  *)
(* with the chunks of abandoned attempts in between; the lemmas on Sieve    *)
(* and Only say what is left when those are taken out.                      *)
EXTENDS AgentSupervisor, PromptGuards, FiniteSetTheorems, SequenceTheorems,
        WellFoundedInduction, TLAPS

-----------------------------------------------------------------------------
(* The supervision of the agent's children. *)

Active(s) == spawner[s].pc \in {"backoff", "spawn", "handshake", "install", "abort"}

\* spawn has started a process that is not the current generation yet.
Attempting(s) == spawner[s].pc \in {"handshake", "install", "abort"}

\* A process and its reaper start together, and cmd.Wait waits for the exit.
Reaped ==
    \A g \in Gens :
        /\ child[g] = "none" <=> reaper[g] = "none"
        /\ Dead(g) => child[g] = "exited"
        /\ exit[g] = "closed" => closing

\* Generations are numbered in the order of their starts, and only a later
\* one replaces the current one.
Births ==
    /\ \A g, h \in Gens : g < h /\ child[h] # "none" => child[g] # "none"
    /\ cur # None => child[cur] # "none"
    /\ installs <= cur
    /\ \A s \in Spawners : Attempting(s) =>
           spawner[s].gen \in Gens /\ child[spawner[s].gen] # "none" /\ cur < spawner[s].gen

\* Who spawns replaces the current generation, whose reaper is done with it.
Succession ==
    /\ \A s \in Spawners : Active(s) => s = cur /\ (s # Start => reaper[s] = "over" /\ respawn)
    /\ \A g \in Gens : reaper[g] \in {"react", "decide"} => cur = g
    /\ spawner[Start].pc \notin {"off", "backoff"}
    /\ Ready => cur # None

\* A child that lives is the current one or is about to be.
Accounted ==
    \A g \in Gens : Alive(g) => g = cur \/ \E s \in Spawners : Attempting(s) /\ spawner[s].gen = g

\* Once Done is closed, the last reaper has returned and nobody spawns.
Ended == done => cur # None /\ reaper[cur] = "over" /\ \A s \in Spawners : ~Active(s)

\* What Close has done by each of its steps.
Closing ==
    /\ closeCh => closing
    /\ \A c \in Closers :
          /\ closer[c] # "idle" => closing /\ cur # None
          /\ closer[c] = "returned" => done
          /\ closer[c] = "grace" => reaper[cur] # "decide" /\ \A s \in Spawners : ~Active(s)

IInv ==
    TypeOK /\ Reaped /\ Births /\ Succession /\ Accounted /\ Ended /\ Closing /\ VerdictIsTrue


\* Killing a child dooms it; a process does not come back.
LEMMA KilledChildren ==
  ASSUME NEW gs, TypeOK
  PROVE  /\ Killed(child, gs) \in [Gens -> {"none", "up", "mute", "doomed", "exited"}]
         /\ \A g \in Gens : /\ Killed(child, gs)[g] = "none" <=> child[g] = "none"
                            /\ Killed(child, gs)[g] = "exited" <=> child[g] = "exited"
  BY DEF Killed, Alive, TypeOK

\* The first verdict stays.
LEMMA Finished ==
  ASSUME NEW why, Finish(why)
  PROVE  done' = TRUE /\ (done => err' = err) /\ (~done => err' = why)
  BY DEF Finish

\* spawn's error ends Start or brings the supervisor back to its select,
\* unless Close was called.
LEMMA FailedSpawn ==
  ASSUME TypeOK, NEW s \in Spawners, SpawnFailed(s)
  PROVE  /\ spawner' \in [Spawners -> [pc: {"off", "backoff", "spawn", "handshake", "install",
                                          "abort", "over", "failed"},
                                     gen: Gens \cup {None}]]
         /\ \A t \in Spawners : t # s => spawner'[t] = spawner[t]
         /\ \/ s = Start /\ spawner'[s].pc = "failed" /\ UNCHANGED <<done, err>>
            \/ s # Start /\ spawner'[s].pc = "over" /\ closing /\ Finish("closed")
            \/ s # Start /\ spawner'[s].pc = "backoff" /\ UNCHANGED <<done, err>>
<1>1. CASE s = Start
  BY <1>1, SMTT(30) DEF SpawnFailed, TypeOK
<1>2. CASE s # Start /\ closing
  BY <1>2 DEF SpawnFailed, TypeOK
<1>3. CASE s # Start /\ ~closing
  <2>1. spawner' = [spawner EXCEPT ![s] = [pc |-> "backoff", gen |-> None]]
    BY <1>3 DEF SpawnFailed
  <2>2. [pc |-> "backoff", gen |-> None] \in
            [pc: {"off", "backoff", "spawn", "handshake", "install", "abort", "over", "failed"},
             gen: Gens \cup {None}]
    OBVIOUS
  <2> QED BY <1>3, <2>1, <2>2 DEF SpawnFailed, TypeOK
<1> QED BY <1>1, <1>2, <1>3

\* Whatever a child does, and the end of the context.
LEMMA ChildrenIInv ==
  ASSUME IInv, NEW g \in Gens, ChildExits(g) \/ ChildMutes(g) \/ ChildGoes(g) \/ CtxEnds
  PROVE  IInv'
<1>1. CASE ChildExits(g)
  <2>1. TypeOK'
    BY <1>1, MaxFaultsAssumption DEF IInv, TypeOK, ChildExits, Fault, procVars, lifeVars
  <2>2. Reaped'
    BY <1>1 DEF IInv, Reaped, Dead, ChildExits, Fault, procVars, lifeVars
  <2>3. Births'
    BY <1>1 DEF IInv, Births, Attempting, ChildExits, Fault, procVars, lifeVars
  <2>4. Accounted'
    BY <1>1 DEF IInv, Accounted, Alive, Attempting, ChildExits, Fault, procVars, lifeVars
  <2>5. (Succession /\ Ended /\ Closing /\ VerdictIsTrue)'
    BY <1>1 DEF IInv, Succession, Active, Ready, Ended, Closing, VerdictIsTrue, Dead, ChildExits,
       procVars, lifeVars
  <2> QED BY <2>1, <2>2, <2>3, <2>4, <2>5 DEF IInv
<1>2. CASE ChildMutes(g)
  <2>1. TypeOK'
    BY <1>2, MaxFaultsAssumption DEF IInv, TypeOK, ChildMutes, Fault, procVars, lifeVars
  <2>2. Reaped'
    BY <1>2 DEF IInv, Reaped, Dead, ChildMutes, Fault, procVars, lifeVars
  <2>3. Births'
    BY <1>2 DEF IInv, Births, Attempting, TypeOK, Reaped, Dead, Succession, Active, Ready,
       ChildMutes, Fault, Gens, None, Start, Spawners, procVars, lifeVars
  <2>4. Accounted'
    BY <1>2 DEF IInv, Accounted, Alive, Attempting, ChildMutes, Fault, procVars, lifeVars
  <2>5. (Succession /\ Ended /\ Closing /\ VerdictIsTrue)'
    BY <1>2 DEF IInv, Succession, Active, Ready, Ended, Closing, VerdictIsTrue, Dead, ChildMutes,
       procVars, lifeVars
  <2> QED BY <2>1, <2>2, <2>3, <2>4, <2>5 DEF IInv
<1>3. CASE ChildGoes(g)
  <2>1. TypeOK'
    BY <1>3, MaxFaultsAssumption DEF IInv, TypeOK, ChildGoes, procVars, lifeVars
  <2>2. Reaped'
    BY <1>3 DEF IInv, Reaped, Dead, ChildGoes, procVars, lifeVars
  <2>3. Births'
    BY <1>3 DEF IInv, Births, Attempting, ChildGoes, procVars, lifeVars
  <2>4. Accounted'
    BY <1>3 DEF IInv, Accounted, Alive, Attempting, ChildGoes, procVars, lifeVars
  <2>5. (Succession /\ Ended /\ Closing /\ VerdictIsTrue)'
    BY <1>3 DEF IInv, Succession, Active, Ready, Ended, Closing, VerdictIsTrue, Dead, ChildGoes,
       procVars, lifeVars
  <2> QED BY <2>1, <2>2, <2>3, <2>4, <2>5 DEF IInv
<1>4. CASE CtxEnds
  <2>1. /\ child' \in [Gens -> {"none", "up", "mute", "doomed", "exited"}]
        /\ \A h \in Gens : /\ child'[h] = "none" <=> child[h] = "none"
                           /\ child'[h] = "exited" <=> child[h] = "exited"
    BY <1>4, KilledChildren DEF CtxEnds, IInv, TypeOK
  <2>2. TypeOK'
    BY <1>4, <2>1, MaxFaultsAssumption DEF IInv, TypeOK, CtxEnds, procVars, lifeVars
  <2>3. Reaped'
    BY <1>4, <2>1 DEF IInv, Reaped, Dead, CtxEnds, procVars, lifeVars
  <2>4. Births'
    BY <1>4, <2>1 DEF IInv, Births, Attempting, TypeOK, CtxEnds, procVars, lifeVars
  <2>5. Accounted'
    BY <1>4, <2>1 DEF IInv, Accounted, Alive, Attempting, TypeOK, CtxEnds, procVars, lifeVars
  <2>6. VerdictIsTrue'
    BY <1>4, <2>1 DEF IInv, VerdictIsTrue, Dead, CtxEnds, procVars, lifeVars
  <2>7. (Succession /\ Ended /\ Closing)'
    BY <1>4 DEF IInv, Succession, Active, Ready, Ended, Closing, CtxEnds, procVars, lifeVars
  <2> QED BY <2>2, <2>3, <2>4, <2>5, <2>6, <2>7 DEF IInv
<1> QED BY <1>1, <1>2, <1>3, <1>4

\* The reaper of a child hands the right to spawn on, or ends it.
LEMMA ReaperIInv ==
  ASSUME IInv, NEW g \in Gens, ReaperStep(g)
  PROVE  IInv'
<1>1. CASE Reap(g)
  <2>1. TypeOK'
    BY <1>1, MaxFaultsAssumption DEF IInv, TypeOK, Reap, procVars, lifeVars
  <2>2. Reaped'
    BY <1>1 DEF IInv, Reaped, Dead, Reap, procVars, lifeVars
  <2>3. Succession'
    BY <1>1 DEF IInv, Succession, Active, Ready, Reap, procVars, lifeVars
  <2>4. Ended'
    BY <1>1 DEF IInv, Ended, Active, Reap, procVars, lifeVars
  <2>5. Closing'
    BY <1>1 DEF IInv, Closing, Active, Reap, procVars, lifeVars
  <2>6. VerdictIsTrue'
    BY <1>1 DEF IInv, VerdictIsTrue, Dead, TypeOK, Reaped, Succession, Active, Ready, Ended,
       Closing, Reap, procVars, lifeVars
  <2>7. (Births /\ Accounted)'
    BY <1>1 DEF IInv, Births, Attempting, Accounted, Alive, Reap, procVars, lifeVars
  <2> QED BY <2>1, <2>2, <2>3, <2>4, <2>5, <2>6, <2>7 DEF IInv
<1>2. CASE OnExit(g)
  <2>1. TypeOK'
    BY <1>2, MaxFaultsAssumption DEF IInv, TypeOK, OnExit, procVars, lifeVars
  <2>2. Reaped'
    BY <1>2 DEF IInv, Reaped, Dead, OnExit, procVars, lifeVars
  <2>3. Succession'
    BY <1>2 DEF IInv, Succession, Active, Ready, OnExit, procVars, lifeVars
  <2>4. Ended'
    BY <1>2 DEF IInv, Ended, Active, OnExit, procVars, lifeVars
  <2>5. Closing'
    BY <1>2 DEF IInv, Closing, Active, OnExit, procVars, lifeVars
  <2>6. VerdictIsTrue'
    BY <1>2 DEF IInv, VerdictIsTrue, Dead, OnExit, procVars, lifeVars
  <2>7. (Births /\ Accounted)'
    BY <1>2 DEF IInv, Births, Attempting, Accounted, Alive, OnExit, procVars, lifeVars
  <2> QED BY <2>1, <2>2, <2>3, <2>4, <2>5, <2>6, <2>7 DEF IInv
<1>3. CASE ReactClosed(g)
  <2>1. TypeOK'
    BY <1>3, MaxFaultsAssumption DEF IInv, TypeOK, ReactClosed, Finish, procVars, lifeVars
  <2>2. Reaped'
    BY <1>3 DEF IInv, Reaped, Dead, TypeOK, ReactClosed, Finish, procVars, lifeVars
  <2>3. Succession'
    BY <1>3 DEF IInv, Succession, Active, Ready, TypeOK, ReactClosed, Finish, procVars, lifeVars
  <2>4. Ended'
    <3>1. cur = g /\ ~done /\ (closing => reaper'[g] = "over") /\ (~closing => done' = done)
      BY <1>3 DEF IInv, TypeOK, Succession, Ended, ReactClosed
    <3>2. \A s \in Spawners : ~Active(s)
      BY <1>3 DEF IInv, Succession, ReactClosed, Active, Gens, Start
    <3>3. cur # None
      BY <1>3, <3>1 DEF Gens, None
    <3> QED BY <1>3, <3>1, <3>2, <3>3 DEF IInv, Ended, Active, ReactClosed
  <2>5. Closing'
    BY <1>3 DEF IInv, Closing, Active, TypeOK, ReactClosed, Finish, procVars, lifeVars
  <2>6. VerdictIsTrue'
    BY <1>3 DEF IInv, VerdictIsTrue, Dead, TypeOK, Reaped, Succession, Active, Ready, Ended,
       Closing, ReactClosed, Finish, procVars, lifeVars
  <2>7. (Births /\ Accounted)'
    BY <1>3 DEF IInv, Births, Attempting, Accounted, Alive, ReactClosed, procVars, lifeVars
  <2> QED BY <2>1, <2>2, <2>3, <2>4, <2>5, <2>6, <2>7 DEF IInv
<1>4. CASE React(g)
  <2>1. /\ ~done /\ cur = g /\ cur # None /\ \A t \in Spawners : ~Active(t)
        /\ \A t \in Spawners : Attempting(t)' <=> Attempting(t)
        /\ \A t \in Spawners : spawner'[t].gen = spawner[t].gen
    <3>1. cur = g /\ cur # None
      BY <1>4 DEF IInv, Succession, React, Gens, None
    <3>2. \A t \in Spawners : ~Active(t)
      BY <1>4, <3>1 DEF IInv, Succession, React, Start, None
    <3>3. ~done
      BY <1>4, <3>1 DEF IInv, Ended, React
    <3>4. g \in Spawners /\ \A t \in Spawners :
             \/ spawner'[t] = spawner[t]
             \/ t = g /\ spawner'[t].pc = "backoff" /\ spawner'[t].gen = spawner[t].gen
      BY <1>4 DEF IInv, TypeOK, React, Spawners
    <3>5. \A t \in Spawners : /\ Attempting(t)' <=> Attempting(t)
                              /\ spawner'[t].gen = spawner[t].gen
      BY <3>2, <3>4 DEF Attempting, Active
    <3> QED BY <3>1, <3>2, <3>3, <3>5
  <2>2. TypeOK'
    <3>1. spawner' \in [Spawners -> [pc: {"off", "backoff", "spawn", "handshake", "install",
                                         "abort", "over", "failed"},
                                    gen: Gens \cup {None}]]
      BY <1>4 DEF IInv, TypeOK, React, Spawners
    <3>2. done' \in BOOLEAN /\ err' \in {"none", "closed", "exited", "ctx"}
      BY <1>4 DEF IInv, TypeOK, React, Finish
    <3> QED BY <1>4, <3>1, <3>2 DEF IInv, TypeOK, React
  <2>3. Reaped'
    BY <1>4, <2>1 DEF IInv, Reaped, Dead, React, Finish, procVars, lifeVars
  <2>4. Births'
    BY <1>4, <2>1 DEF IInv, Births, React
  <2>5. Succession'
    BY <1>4, <2>1 DEF IInv, Succession, Active, Ready, TypeOK, React, Finish, Gens, None, Start,
       Spawners, procVars, lifeVars
  <2>6. Accounted'
    BY <1>4, <2>1 DEF IInv, Accounted, Alive, Attempting, React, Finish, procVars, lifeVars
  <2>7. Ended'
    BY <1>4, <2>1 DEF IInv, Ended, Active, TypeOK, Ready, React, Finish, Gens, None, Start,
       Spawners, procVars, lifeVars
  <2>8. Closing'
    BY <1>4, <2>1 DEF IInv, Closing, Active, TypeOK, React, Finish, procVars, lifeVars
  <2>9. VerdictIsTrue'
    BY <1>4, <2>1 DEF IInv, VerdictIsTrue, Dead, TypeOK, Reaped, Succession, Active, Ready, Ended,
       Closing, React, Finish, procVars, lifeVars
  <2> QED BY <2>2, <2>3, <2>4, <2>5, <2>6, <2>7, <2>8, <2>9 DEF IInv
<1> QED BY <1>1, <1>2, <1>3, <1>4 DEF ReaperStep

\* A spawn that failed, with its child gone, changes nothing but the spawner.
LEMMA FailedIInv ==
  ASSUME IInv, NEW s \in Spawners, Active(s), SpawnFailed(s),
         Attempting(s) => Dead(spawner[s].gen), faults' \in 0..MaxFaults,
         UNCHANGED <<respawn, procVars, cur, installs, closing, closeCh, ctxDone, closer, caller>>
  PROVE  IInv'
<1> USE DEF IInv, procVars
<1>1. /\ spawner' \in [Spawners -> [pc: {"off", "backoff", "spawn", "handshake", "install",
                                         "abort", "over", "failed"},
                                    gen: Gens \cup {None}]]
      /\ \A t \in Spawners : t # s => spawner'[t] = spawner[t]
  BY FailedSpawn
<1>2. \/ s = Start /\ spawner'[s].pc = "failed" /\ UNCHANGED <<done, err>>
      \/ s # Start /\ spawner'[s].pc = "over" /\ closing /\ Finish("closed")
      \/ s # Start /\ spawner'[s].pc = "backoff" /\ UNCHANGED <<done, err>>
  BY FailedSpawn
<1>3. s = cur /\ (s # Start => reaper[s] = "over" /\ respawn) /\ ~done
  BY DEF Succession, Ended
<1>4. done' \in BOOLEAN /\ err' \in {"none", "closed", "exited", "ctx"}
  BY <1>2 DEF Finish, TypeOK
<1>5. /\ \A t \in Spawners : Active(t)' => t = s /\ spawner'[s].pc = "backoff"
      /\ \A t \in Spawners : Attempting(t)' => FALSE
  BY <1>1, <1>2, <1>3 DEF Active, Attempting, Succession
<1>6. TypeOK'
  BY <1>1, <1>4 DEF TypeOK
<1>7. Reaped'
  BY DEF Reaped, Dead
<1>8. Births'
  BY <1>5 DEF Births
<1>9. Succession'
  <2>1. Ready' => Ready
    BY <1>1, <1>2 DEF Ready, Start, Spawners
  <2>2. spawner'[Start].pc \notin {"off", "backoff"}
    BY <1>1, <1>2 DEF Succession, Start, Spawners
  <2> QED BY <1>2, <1>3, <1>5, <2>1, <2>2 DEF Succession
<1>10. Accounted'
  <2>1. ASSUME NEW g \in Gens, Alive(g) PROVE g = cur
    <3>1. PICK t \in Spawners : g = cur \/ (Attempting(t) /\ spawner[t].gen = g)
      BY <2>1 DEF Accounted, Spawners
    <3>2. Attempting(t) => t = s
      BY <1>3 DEF Attempting, Active, Succession
    <3>3. ~Dead(g)
      BY <2>1 DEF Alive, Reaped
    <3> QED BY <3>1, <3>2, <3>3
  <2> QED BY <2>1 DEF Accounted, Alive
<1>11. Ended'
  BY <1>2, <1>3, <1>5 DEF Ended, Finish, Start, None
<1>12. Closing'
  <2>1. ASSUME NEW c \in Closers PROVE closer[c] # "grace"
    BY DEF Closing
  <2> QED BY <1>2, <1>3, <2>1 DEF Closing, Finish
<1>13. VerdictIsTrue'
  <2>1. ASSUME NEW c \in Closers PROVE closer[c] # "grace"
    BY DEF Closing
  <2> QED BY <1>2, <1>3, <2>1 DEF VerdictIsTrue, Finish
<1> QED BY <1>6, <1>7, <1>8, <1>9, <1>10, <1>11, <1>12, <1>13

\* attach: the spawner gives up its right with the generation it installs.
LEMMA InstallIInv ==
  ASSUME IInv, NEW s \in Spawners, Install(s)
  PROVE  IInv'
<1> USE DEF IInv
<1> DEFINE g == spawner[s].gen
<1>1. /\ Active(s) /\ Attempting(s) /\ s = cur /\ (s # Start => reaper[s] = "over" /\ respawn)
      /\ ~done /\ g \in Gens /\ child[g] # "none" /\ cur < g
  BY DEF Install, Active, Attempting, Succession, Ended, Births
<1>2. CASE closing
  <2>1. /\ child' = Killed(child, {g})
        /\ UNCHANGED <<respawn, reaper, exit, lifeVars, closer, caller, faults, cur, installs>>
    BY <1>2 DEF Install
  <2>2. /\ child' \in [Gens -> {"none", "up", "mute", "doomed", "exited"}]
        /\ \A h \in Gens : /\ child'[h] = "none" <=> child[h] = "none"
                           /\ child'[h] = "exited" <=> child[h] = "exited"
    BY <2>1, KilledChildren
  <2>3. /\ spawner' \in [Spawners -> [pc: {"off", "backoff", "spawn", "handshake", "install",
                                           "abort", "over", "failed"},
                                      gen: Gens \cup {None}]]
        /\ \A t \in Spawners : /\ spawner'[t].gen = spawner[t].gen
                               /\ t # s => spawner'[t].pc = spawner[t].pc
        /\ spawner'[s].pc = "abort" /\ spawner[s].pc = "install"
    BY <1>2 DEF Install, TypeOK
  <2>4. \A t \in Spawners : /\ Active(t)' <=> Active(t)
                            /\ Attempting(t)' <=> Attempting(t)
    BY <2>3 DEF Active, Attempting
  <2>5. \A h \in Gens : Alive(h)' <=> Alive(h)
    BY <2>2 DEF Alive, TypeOK
  <2>6. TypeOK'
    BY <2>1, <2>2, <2>3 DEF TypeOK, lifeVars
  <2>7. Reaped'
    BY <2>1, <2>2 DEF Reaped, Dead, lifeVars
  <2>8. Births'
    <3>1. cur # None => cur \in Gens
      BY DEF TypeOK
    <3>2. \A h, j \in Gens : h < j /\ child'[j] # "none" => child'[h] # "none"
      BY <2>2 DEF Births
    <3>3. (cur' # None => child'[cur'] # "none") /\ installs' <= cur'
      BY <2>1, <2>2, <3>1 DEF Births
    <3>4. ASSUME NEW t \in Spawners, Attempting(t)'
          PROVE  /\ spawner'[t].gen \in Gens /\ child'[spawner'[t].gen] # "none"
                 /\ cur' < spawner'[t].gen
      <4>1. Attempting(t) /\ spawner'[t].gen = spawner[t].gen /\ cur' = cur
        BY <2>1, <2>3, <2>4, <3>4
      <4> QED BY <2>2, <4>1 DEF Births
    <3> QED BY <3>2, <3>3, <3>4 DEF Births
  <2>9. Succession'
    BY <2>1, <2>3, <2>4 DEF Succession, Ready, Start, Spawners
  <2>10. Accounted'
    BY <2>1, <2>3, <2>4, <2>5 DEF Accounted
  <2>11. Ended' /\ Closing'
    BY <2>1, <2>4 DEF Ended, Closing, lifeVars
  <2>12. VerdictIsTrue'
    BY <2>1 DEF VerdictIsTrue, Dead, lifeVars
  <2> QED BY <2>6, <2>7, <2>8, <2>9, <2>10, <2>11, <2>12
<1>3. CASE ~closing
  <2>1. /\ cur' = g /\ installs' = installs + 1
        /\ UNCHANGED <<respawn, procVars, lifeVars, closer, caller, faults>>
    BY <1>3 DEF Install, procVars
  <2>2. /\ spawner' \in [Spawners -> [pc: {"off", "backoff", "spawn", "handshake", "install",
                                           "abort", "over", "failed"},
                                      gen: Gens \cup {None}]]
        /\ \A t \in Spawners : t # s => spawner'[t] = spawner[t]
        /\ spawner'[s].pc = "over"
    <3>1. spawner' = [spawner EXCEPT ![s].pc = "over"]
      BY <1>3 DEF Install
    <3> QED BY <3>1 DEF TypeOK
  <2>3. \A t \in Spawners : ~Active(t)' /\ ~Attempting(t)'
    BY <1>1, <2>2 DEF Active, Attempting, Succession
  <2>4. \A h \in Gens : reaper[h] \notin {"react", "decide"}
    BY <1>1 DEF Succession, Start, Gens
  <2>5. \A c \in Closers : closer[c] = "idle"
    BY <1>3 DEF Closing
  <2>6. TypeOK'
    <3>1. cur \in Nat /\ installs \in Nat /\ installs + 1 <= MaxFaults + 1
      BY <1>1, MaxFaultsAssumption DEF TypeOK, Births, Gens, None
    <3>2. installs' \in 0..(MaxFaults + 1)
      BY <2>1, <3>1, MaxFaultsAssumption
    <3> QED BY <1>1, <2>1, <2>2, <3>2 DEF TypeOK, procVars, lifeVars
  <2>7. Reaped'
    BY <2>1 DEF Reaped, Dead, procVars, lifeVars
  <2>8. Births'
    <3>1. installs' <= cur'
      BY <1>1, <2>1 DEF TypeOK, Births, Gens, None
    <3> QED BY <1>1, <2>1, <2>3, <3>1 DEF Births, procVars
  <2>9. Succession'
    <3>1. spawner'[Start].pc \notin {"off", "backoff"}
      BY <2>2 DEF Succession, Start, Spawners
    <3>2. cur' # None
      BY <1>1, <2>1 DEF Gens, None
    <3> QED BY <2>1, <2>3, <2>4, <3>1, <3>2 DEF Succession, procVars
  <2>10. Accounted'
    <3>1. ASSUME NEW h \in Gens, Alive(h) PROVE h = g
      <4>1. ~Dead(h)
        BY <3>1 DEF Alive, Reaped
      <4>2. h # cur
        BY <1>1, <4>1 DEF Dead, Start, Gens
      <4>3. PICK t \in Spawners : Attempting(t) /\ spawner[t].gen = h
        BY <3>1, <4>2 DEF Accounted
      <4>4. t = s
        BY <1>1, <4>3 DEF Attempting, Active, Succession
      <4> QED BY <4>3, <4>4
    <3> QED BY <2>1, <3>1 DEF Accounted, Alive, procVars
  <2>11. Ended' /\ Closing' /\ VerdictIsTrue'
    BY <1>1, <2>1, <2>5 DEF Ended, Closing, VerdictIsTrue, lifeVars
  <2> QED BY <2>6, <2>7, <2>8, <2>9, <2>10, <2>11
<1> QED BY <1>2, <1>3

\* The supervisor keeps that right until it installs a successor or gives up.
LEMMA SpawnerIInv ==
  ASSUME IInv, NEW s \in Spawners, SpawnerStep(s)
  PROVE  IInv'
<1>1. CASE BackoffClosed(s)
  <2>1. TypeOK'
    BY <1>1, MaxFaultsAssumption DEF IInv, TypeOK, BackoffClosed, Finish, procVars, lifeVars
  <2>2. Births'
    BY <1>1 DEF IInv, Births, Attempting, BackoffClosed, Finish, procVars, lifeVars
  <2>3. Succession'
    BY <1>1 DEF IInv, Succession, Active, Ready, BackoffClosed, Finish, procVars, lifeVars
  <2>4. Accounted'
    BY <1>1 DEF IInv, Accounted, Alive, Attempting, BackoffClosed, Finish, procVars, lifeVars
  <2>5. Ended'
    BY <1>1 DEF IInv, Ended, Active, TypeOK, Succession, Ready, Closing, BackoffClosed, Finish,
       Gens, None, Start, Spawners, procVars, lifeVars
  <2>6. Closing'
    BY <1>1 DEF IInv, Closing, Active, BackoffClosed, Finish, procVars, lifeVars
  <2>7. VerdictIsTrue'
    BY <1>1 DEF IInv, VerdictIsTrue, Dead, TypeOK, Reaped, Succession, Active, Ready, Ended,
       Closing, BackoffClosed, Finish, procVars, lifeVars
  <2>8. Reaped'
    BY <1>1 DEF IInv, Reaped, Dead, BackoffClosed, procVars, lifeVars
  <2> QED BY <2>1, <2>2, <2>3, <2>4, <2>5, <2>6, <2>7, <2>8 DEF IInv
<1>2. CASE BackoffCtx(s)
  <2>1. TypeOK'
    BY <1>2, MaxFaultsAssumption DEF IInv, TypeOK, BackoffCtx, Finish, procVars, lifeVars
  <2>2. Births'
    BY <1>2 DEF IInv, Births, Attempting, BackoffCtx, Finish, procVars, lifeVars
  <2>3. Succession'
    BY <1>2 DEF IInv, Succession, Active, Ready, BackoffCtx, Finish, procVars, lifeVars
  <2>4. Accounted'
    BY <1>2 DEF IInv, Accounted, Alive, Attempting, BackoffCtx, Finish, procVars, lifeVars
  <2>5. Ended'
    BY <1>2 DEF IInv, Ended, Active, TypeOK, Succession, Ready, Closing, BackoffCtx, Finish, Gens,
       None, Start, Spawners, procVars, lifeVars
  <2>6. Closing'
    BY <1>2 DEF IInv, Closing, Active, BackoffCtx, Finish, procVars, lifeVars
  <2>7. VerdictIsTrue'
    BY <1>2 DEF IInv, VerdictIsTrue, Dead, TypeOK, Reaped, Succession, Active, Ready, Ended,
       Closing, BackoffCtx, Finish, procVars, lifeVars
  <2>8. Reaped'
    BY <1>2 DEF IInv, Reaped, Dead, BackoffCtx, procVars, lifeVars
  <2> QED BY <2>1, <2>2, <2>3, <2>4, <2>5, <2>6, <2>7, <2>8 DEF IInv
<1>3. CASE BackoffOver(s)
  <2>1. TypeOK'
    BY <1>3, MaxFaultsAssumption DEF IInv, TypeOK, BackoffOver, procVars, lifeVars
  <2>2. Births'
    BY <1>3 DEF IInv, Births, Attempting, BackoffOver, procVars, lifeVars
  <2>3. Succession'
    BY <1>3 DEF IInv, Succession, Active, Ready, BackoffOver, procVars, lifeVars
  <2>4. Accounted'
    BY <1>3 DEF IInv, Accounted, Alive, Attempting, BackoffOver, procVars, lifeVars
  <2>5. Ended'
    BY <1>3 DEF IInv, Ended, Active, BackoffOver, procVars, lifeVars
  <2>6. Closing'
    BY <1>3 DEF IInv, Closing, Active, BackoffOver, procVars, lifeVars
  <2>7. (Reaped /\ VerdictIsTrue)'
    BY <1>3 DEF IInv, Reaped, Dead, VerdictIsTrue, BackoffOver, procVars, lifeVars
  <2> QED BY <2>1, <2>2, <2>3, <2>4, <2>5, <2>6, <2>7 DEF IInv
<1>4. CASE SpawnFails(s)
  <2>1. Active(s) /\ ~Attempting(s) /\ SpawnFailed(s) 
    BY <1>4 DEF SpawnFails, Active, Attempting
  <2>2. UNCHANGED <<respawn, procVars, cur, installs, closing, closeCh, ctxDone, closer, caller>>
    BY <1>4 DEF SpawnFails
  <2>3. faults' \in 0..MaxFaults
    BY <1>4, MaxFaultsAssumption DEF SpawnFails, Fault, IInv, TypeOK
  <2> QED BY <2>1, <2>2, <2>3, FailedIInv
<1>5. CASE SpawnStarts(s)
  <2>1. TypeOK'
    BY <1>5, MaxFaultsAssumption DEF IInv, TypeOK, SpawnStarts, procVars, lifeVars
  <2>2. Reaped'
    BY <1>5 DEF IInv, Reaped, Dead, TypeOK, SpawnStarts, procVars, lifeVars
  <2>3. Births'
    BY <1>5 DEF IInv, Births, Attempting, TypeOK, Dead, Active, Ready, SpawnStarts, Gens, None,
       Start, Spawners, procVars, lifeVars
  <2>4. Succession'
    <3>1. /\ spawner[s].pc = "spawn" /\ spawner'[s].pc = "handshake"
          /\ \A t \in Spawners : t # s => spawner'[t] = spawner[t]
      BY <1>5 DEF IInv, TypeOK, SpawnStarts
    <3>2. PICK h \in Gens : child[h] = "none" /\ reaper' = [reaper EXCEPT ![h] = "wait"]
      BY <1>5 DEF SpawnStarts
    <3>3. \A g \in Gens : reaper[g] # "none" => reaper'[g] = reaper[g]
      BY <3>2 DEF IInv, TypeOK, Reaped
    <3>4. reaper'[h] = "wait" /\ \A g \in Gens : g # h => reaper'[g] = reaper[g]
      BY <3>2 DEF IInv, TypeOK
    <3>5. cur' = cur /\ respawn' = respawn
      BY <1>5 DEF SpawnStarts
    <3> QED BY <3>1, <3>3, <3>4, <3>5 DEF IInv, Succession, Active, Ready, Start, Spawners
  <2>5. Accounted'
    BY <1>5 DEF IInv, Accounted, Alive, Attempting, TypeOK, SpawnStarts, procVars, lifeVars
  <2>6. Ended'
    BY <1>5 DEF IInv, Ended, Active, SpawnStarts, procVars, lifeVars
  <2>7. Closing'
    BY <1>5 DEF IInv, Closing, Active, SpawnStarts, procVars, lifeVars
  <2>8. VerdictIsTrue'
    BY <1>5 DEF IInv, VerdictIsTrue, Dead, SpawnStarts, procVars, lifeVars
  <2> QED BY <2>1, <2>2, <2>3, <2>4, <2>5, <2>6, <2>7, <2>8 DEF IInv
<1>6. CASE HandshakeAnswered(s)
  <2>1. TypeOK'
    BY <1>6, MaxFaultsAssumption DEF IInv, TypeOK, HandshakeAnswered, procVars, lifeVars
  <2>2. Births'
    BY <1>6 DEF IInv, Births, Attempting, HandshakeAnswered, procVars, lifeVars
  <2>3. Succession'
    BY <1>6 DEF IInv, Succession, Active, Ready, HandshakeAnswered, procVars, lifeVars
  <2>4. Accounted'
    BY <1>6 DEF IInv, Accounted, Alive, Attempting, HandshakeAnswered, procVars, lifeVars
  <2>5. Ended'
    BY <1>6 DEF IInv, Ended, Active, HandshakeAnswered, procVars, lifeVars
  <2>6. Closing'
    BY <1>6 DEF IInv, Closing, Active, HandshakeAnswered, procVars, lifeVars
  <2>7. (Reaped /\ VerdictIsTrue)'
    BY <1>6 DEF IInv, Reaped, Dead, VerdictIsTrue, HandshakeAnswered, procVars, lifeVars
  <2> QED BY <2>1, <2>2, <2>3, <2>4, <2>5, <2>6, <2>7 DEF IInv
<1>7. CASE HandshakeFails(s)
  <2>1. /\ child' \in [Gens -> {"none", "up", "mute", "doomed", "exited"}]
        /\ \A h \in Gens : /\ child'[h] = "none" <=> child[h] = "none"
                           /\ child'[h] = "exited" <=> child[h] = "exited"
        /\ \A t \in Spawners : /\ Active(t)' <=> Active(t)
                               /\ Attempting(t)' <=> Attempting(t)
                               /\ spawner'[t].gen = spawner[t].gen
    <3>1. child' = Killed(child, {spawner[s].gen}) /\ TypeOK
      BY <1>7 DEF HandshakeFails, IInv
    <3>2. \A t \in Spawners : \/ spawner'[t] = spawner[t]
                             \/ /\ spawner[t].pc = "handshake" /\ spawner'[t].pc = "abort"
                                /\ spawner'[t].gen = spawner[t].gen
      BY <1>7 DEF HandshakeFails, IInv, TypeOK
    <3> QED BY <3>1, <3>2, KilledChildren DEF Active, Attempting
  <2>2. TypeOK'
    <3>1. faults' \in 0..MaxFaults
      BY <1>7, MaxFaultsAssumption DEF HandshakeFails, Fault, IInv, TypeOK
    <3>2. spawner' \in [Spawners -> [pc: {"off", "backoff", "spawn", "handshake", "install",
                                         "abort", "over", "failed"},
                                    gen: Gens \cup {None}]]
      BY <1>7 DEF HandshakeFails, IInv, TypeOK
    <3> QED BY <1>7, <2>1, <3>1, <3>2 DEF HandshakeFails, IInv, TypeOK, lifeVars
  <2>3. Reaped'
    BY <1>7, <2>1 DEF IInv, Reaped, Dead, HandshakeFails, Killed, Fault, procVars, lifeVars
  <2>4. Births'
    <3>1. cur' = cur /\ installs' = installs /\ (cur # None => cur \in Gens)
      BY <1>7 DEF HandshakeFails, IInv, TypeOK
    <3>2. \A g, h \in Gens : g < h /\ child'[h] # "none" => child'[g] # "none"
      BY <2>1 DEF IInv, Births
    <3>3. cur # None => child'[cur] # "none"
      BY <2>1, <3>1 DEF IInv, Births
    <3>4. ASSUME NEW t \in Spawners, Attempting(t)'
          PROVE  /\ spawner'[t].gen \in Gens /\ child'[spawner'[t].gen] # "none"
                 /\ cur < spawner'[t].gen
      <4>1. Attempting(t) /\ spawner'[t].gen = spawner[t].gen
        BY <2>1, <3>4 DEF Attempting
      <4>2. /\ spawner[t].gen \in Gens /\ child[spawner[t].gen] # "none"
            /\ cur < spawner[t].gen
        BY <4>1 DEF IInv, Births
      <4> QED BY <2>1, <4>1, <4>2
    <3>5. installs <= cur
      BY DEF IInv, Births
    <3> QED BY <3>1, <3>2, <3>3, <3>4, <3>5 DEF Births
  <2>5. Succession'
    BY <1>7, <2>1 DEF IInv, Succession, Active, Ready, HandshakeFails, Killed, Fault, procVars,
       lifeVars
  <2>6. Accounted'
    <3>1. \A g \in Gens : Alive(g)' => Alive(g)
      BY <2>1 DEF Alive, IInv, TypeOK
    <3> QED BY <1>7, <2>1, <3>1 DEF IInv, Accounted, HandshakeFails
  <2>7. Ended'
    BY <1>7, <2>1 DEF IInv, Ended, Active, HandshakeFails, Killed, Fault, procVars, lifeVars
  <2>8. Closing'
    BY <1>7, <2>1 DEF IInv, Closing, Active, HandshakeFails, Killed, Fault, procVars, lifeVars
  <2>9. VerdictIsTrue'
    BY <1>7 DEF IInv, VerdictIsTrue, Dead, HandshakeFails, procVars, lifeVars
  <2> QED BY <2>2, <2>3, <2>4, <2>5, <2>6, <2>7, <2>8, <2>9 DEF IInv
<1>8. CASE Abort(s)
  BY <1>8, FailedIInv DEF Abort, Active, IInv, TypeOK
<1>9. CASE Install(s)
  BY <1>9, InstallIInv
<1> QED BY <1>1, <1>2, <1>3, <1>4, <1>5, <1>6, <1>7, <1>8, <1>9 DEF SpawnerStep, Handshake

\* Close finds the last generation.
LEMMA CloserIInv ==
  ASSUME IInv, NEW c \in Closers, CloseMarks(c) \/ CloserStep(c)
  PROVE  IInv'
<1>1. CASE CloseMarks(c)
  <2>1. TypeOK'
    BY <1>1, MaxFaultsAssumption DEF IInv, TypeOK, CloseMarks, procVars, lifeVars
  <2>2. Reaped'
    BY <1>1 DEF IInv, Reaped, Dead, CloseMarks, procVars, lifeVars
  <2>3. Closing'
    BY <1>1 DEF IInv, Closing, Active, TypeOK, Reaped, Dead, Succession, Ready, Ended, CloseMarks,
       procVars, lifeVars
  <2>4. VerdictIsTrue'
    BY <1>1 DEF IInv, VerdictIsTrue, Dead, CloseMarks, procVars, lifeVars
  <2>5. (Births /\ Succession /\ Accounted /\ Ended)'
    BY <1>1 DEF IInv, Births, Attempting, Succession, Active, Ready, Accounted, Alive, Ended,
       CloseMarks, procVars, lifeVars
  <2> QED BY <2>1, <2>2, <2>3, <2>4, <2>5 DEF IInv
<1>2. CASE CloseStopsSupervisor(c)
  <2>1. TypeOK'
    BY <1>2, MaxFaultsAssumption DEF IInv, TypeOK, CloseStopsSupervisor, procVars, lifeVars
  <2>2. Closing'
    BY <1>2 DEF IInv, Closing, Active, CloseStopsSupervisor, procVars, lifeVars
  <2>3. VerdictIsTrue'
    BY <1>2 DEF IInv, VerdictIsTrue, Dead, CloseStopsSupervisor, procVars, lifeVars
  <2>4. (Reaped /\ Births /\ Succession /\ Accounted /\ Ended)'
    BY <1>2 DEF IInv, Reaped, Dead, Births, Attempting, Succession, Active, Ready, Accounted,
       Alive, Ended, CloseStopsSupervisor, procVars, lifeVars
  <2> QED BY <2>1, <2>2, <2>3, <2>4 DEF IInv
<1>3. CASE CloseSignals(c)
  <2>1. /\ child' \in [Gens -> {"none", "up", "mute", "doomed", "exited"}]
        /\ \A g \in Gens : /\ child'[g] = "none" <=> child[g] = "none"
                           /\ child'[g] = "exited" <=> child[g] = "exited"
    BY <1>3, KilledChildren DEF CloseSignals, IInv, TypeOK
  <2>2. TypeOK'
    BY <1>3, <2>1, MaxFaultsAssumption DEF IInv, TypeOK, CloseSignals, procVars, lifeVars
  <2>3. Reaped'
    BY <1>3, <2>1 DEF IInv, Reaped, Dead, CloseSignals, procVars, lifeVars
  <2>4. Births'
    BY <1>3, <2>1 DEF IInv, Births, Attempting, TypeOK, CloseSignals, procVars, lifeVars
  <2>5. Accounted'
    <3>1. \A g \in Gens : Alive(g)' => Alive(g)
      BY <2>1 DEF Alive, IInv, TypeOK
    <3> QED BY <1>3, <3>1 DEF IInv, Accounted, Attempting, CloseSignals
  <2>6. Closing'
    BY <1>3, <2>1 DEF IInv, Closing, Active, TypeOK, Reaped, Dead, Succession, Ready, Ended,
       CloseSignals, Gens, None, Start, Spawners, procVars, lifeVars
  <2>7. VerdictIsTrue'
    BY <1>3, <2>1 DEF IInv, VerdictIsTrue, Dead, TypeOK, Reaped, Succession, Active, Ready, Ended,
       Closing, CloseSignals, procVars, lifeVars
  <2>8. (Succession /\ Ended)'
    BY <1>3 DEF IInv, Succession, Active, Ready, Ended, CloseSignals, procVars, lifeVars
  <2> QED BY <2>2, <2>3, <2>4, <2>5, <2>6, <2>7, <2>8 DEF IInv
<1>4. CASE CloseGrace(c)
  <2>1. /\ child' \in [Gens -> {"none", "up", "mute", "doomed", "exited"}]
        /\ \A g \in Gens : /\ child'[g] = "none" <=> child[g] = "none"
                           /\ child'[g] = "exited" <=> child[g] = "exited"
    BY <1>4, KilledChildren DEF CloseGrace, IInv, TypeOK
  <2>2. TypeOK'
    BY <1>4, <2>1, MaxFaultsAssumption DEF IInv, TypeOK, CloseGrace, procVars, lifeVars
  <2>3. Reaped'
    BY <1>4, <2>1 DEF IInv, Reaped, Dead, CloseGrace, procVars, lifeVars
  <2>4. Births'
    BY <1>4, <2>1 DEF IInv, Births, Attempting, TypeOK, CloseGrace, procVars, lifeVars
  <2>5. Accounted'
    BY <1>4, <2>1 DEF IInv, Accounted, Alive, Attempting, TypeOK, CloseGrace, procVars, lifeVars
  <2>6. Closing'
    BY <1>4, <2>1 DEF IInv, Closing, Active, CloseGrace, procVars, lifeVars
  <2>7. VerdictIsTrue'
    BY <1>4, <2>1 DEF IInv, VerdictIsTrue, Dead, CloseGrace, procVars, lifeVars
  <2>8. (Succession /\ Ended)'
    BY <1>4 DEF IInv, Succession, Active, Ready, Ended, CloseGrace, procVars, lifeVars
  <2> QED BY <2>2, <2>3, <2>4, <2>5, <2>6, <2>7, <2>8 DEF IInv
<1>5. CASE CloseReturns(c)
  <2>1. TypeOK'
    BY <1>5, MaxFaultsAssumption DEF IInv, TypeOK, CloseReturns, procVars, lifeVars
  <2>2. Closing'
    BY <1>5 DEF IInv, Closing, Active, CloseReturns, procVars, lifeVars
  <2>3. VerdictIsTrue'
    BY <1>5 DEF IInv, VerdictIsTrue, Dead, CloseReturns, procVars, lifeVars
  <2>4. (Reaped /\ Births /\ Succession /\ Accounted /\ Ended)'
    BY <1>5 DEF IInv, Reaped, Dead, Births, Attempting, Succession, Active, Ready, Accounted,
       Alive, Ended, CloseReturns, procVars, lifeVars
  <2> QED BY <2>1, <2>2, <2>3, <2>4 DEF IInv
<1> QED BY <1>1, <1>2, <1>3, <1>4, <1>5 DEF CloserStep

\* The callers only read, and kill.
LEMMA CallerIInv ==
  ASSUME IInv, NEW k \in Callers, Live(k) \/ CallAnswered(k) \/ CallerStep(k)
  PROVE  IInv'
<1>1. CASE Live(k)
  <2>1. TypeOK'
    BY <1>1, MaxFaultsAssumption DEF IInv, TypeOK, Live, Caller, procVars, lifeVars
  <2>2. (Reaped /\ Births /\ Succession /\ Accounted /\ Ended /\ Closing /\ VerdictIsTrue)'
    BY <1>1 DEF IInv, Reaped, Dead, Births, Attempting, Succession, Active, Ready, Accounted,
       Alive, Ended, Closing, VerdictIsTrue, Live, procVars, lifeVars, Caller
  <2> QED BY <2>1, <2>2 DEF IInv
<1>2. CASE LiveWakes(k)
  <2>1. TypeOK'
    <3>1. PICK pc \in {"idle", "live"} : Caller(k, pc, None, 0)
      BY <1>2 DEF LiveWakes
    <3>2. [pc |-> pc, gen |-> None, seen |-> 0] \in [pc: {"idle", "live", "wait", "call", "reap"},
               gen: Gens \cup {None}, seen: 0..(MaxFaults + 1)]
      BY MaxFaultsAssumption
    <3> QED BY <1>2, <3>1, <3>2 DEF LiveWakes, Caller, IInv, TypeOK, procVars, lifeVars
  <2>2. (Reaped /\ Births /\ Succession /\ Accounted /\ Ended /\ Closing /\ VerdictIsTrue)'
    BY <1>2 DEF IInv, Reaped, Dead, Births, Attempting, Succession, Active, Ready, Accounted,
       Alive, Ended, Closing, VerdictIsTrue, LiveWakes, procVars, lifeVars, Caller
  <2> QED BY <2>1, <2>2 DEF IInv
<1>3. CASE CallAnswered(k)
  <2>1. TypeOK'
    BY <1>3, MaxFaultsAssumption DEF IInv, TypeOK, CallAnswered, Caller, procVars, lifeVars
  <2>2. (Reaped /\ Births /\ Succession /\ Accounted /\ Ended /\ Closing /\ VerdictIsTrue)'
    BY <1>3 DEF IInv, Reaped, Dead, Births, Attempting, Succession, Active, Ready, Accounted,
       Alive, Ended, Closing, VerdictIsTrue, CallAnswered, procVars, lifeVars, Caller
  <2> QED BY <2>1, <2>2 DEF IInv
<1>4. CASE CallDies(k)
  <2>1. TypeOK'
    BY <1>4, MaxFaultsAssumption DEF IInv, TypeOK, CallDies, Caller, procVars, lifeVars
  <2>2. (Reaped /\ Births /\ Succession /\ Accounted /\ Ended /\ Closing /\ VerdictIsTrue)'
    BY <1>4 DEF IInv, Reaped, Dead, Births, Attempting, Succession, Active, Ready, Accounted,
       Alive, Ended, Closing, VerdictIsTrue, CallDies, procVars, lifeVars, Caller
  <2> QED BY <2>1, <2>2 DEF IInv
<1>5. CASE CallKills(k)
  <2>1. /\ child' \in [Gens -> {"none", "up", "mute", "doomed", "exited"}]
        /\ \A g \in Gens : /\ child'[g] = "none" <=> child[g] = "none"
                           /\ child'[g] = "exited" <=> child[g] = "exited"
    BY <1>5, KilledChildren DEF CallKills, IInv, TypeOK
  <2>2. TypeOK'
    <3>1. caller' \in [Callers -> [pc: {"idle", "live", "wait", "call", "reap"},
                                  gen: Gens \cup {None}, seen: 0..(MaxFaults + 1)]]
      BY <1>5 DEF CallKills, IInv, TypeOK
    <3> QED BY <1>5, <2>1, <3>1 DEF IInv, TypeOK, CallKills, lifeVars
  <2>3. Reaped'
    BY <1>5, <2>1 DEF IInv, Reaped, Dead, CallKills, procVars, lifeVars
  <2>4. Births'
    <3>1. /\ cur # None => cur \in Gens
          /\ \A s \in Spawners : Attempting(s)' => Attempting(s)
      BY <1>5 DEF IInv, TypeOK, Attempting, CallKills
    <3> QED BY <1>5, <2>1, <3>1 DEF IInv, Births, CallKills
  <2>5. Accounted'
    <3>1. \A g \in Gens : Alive(g)' => Alive(g)
      BY <2>1 DEF Alive, IInv, TypeOK
    <3> QED BY <1>5, <3>1 DEF IInv, Accounted, Attempting, CallKills
  <2>6. (Succession /\ Ended /\ Closing /\ VerdictIsTrue)'
    BY <1>5 DEF IInv, Succession, Active, Ready, Ended, Closing, VerdictIsTrue, Dead, CallKills,
       procVars, lifeVars
  <2> QED BY <2>2, <2>3, <2>4, <2>5, <2>6 DEF IInv
<1> QED BY <1>1, <1>2, <1>3, <1>4, <1>5 DEF CallerStep

LEMMA InitIInv == Init => IInv
<1> SUFFICES ASSUME Init PROVE IInv
  OBVIOUS
<1>1. TypeOK
  <2>1. ASSUME NEW pc \in {"off", "spawn"}
        PROVE  [pc |-> pc, gen |-> None] \in [pc: {"off", "backoff", "spawn", "handshake",
                   "install", "abort", "over", "failed"}, gen: Gens \cup {None}]
    OBVIOUS
  <2>2. [pc |-> "idle", gen |-> None, seen |-> 0] \in [pc: {"idle", "live", "wait", "call", "reap"},
             gen: Gens \cup {None}, seen: 0..(MaxFaults + 1)]
    BY MaxFaultsAssumption
  <2>3. spawner \in [Spawners -> [pc: {"off", "backoff", "spawn", "handshake", "install",
                                       "abort", "over", "failed"},
                                  gen: Gens \cup {None}]]
    BY <2>1 DEF Init
  <2>4. caller \in [Callers -> [pc: {"idle", "live", "wait", "call", "reap"},
                                gen: Gens \cup {None}, seen: 0..(MaxFaults + 1)]]
    BY <2>2 DEF Init
  <2>5. /\ child \in [Gens -> {"none", "up", "mute", "doomed", "exited"}]
        /\ reaper \in [Gens -> {"none", "wait", "onExit", "react", "decide", "over"}]
        /\ exit \in [Gens -> {"none", "closed", "exited"}]
        /\ closer \in [Closers -> {"idle", "mark", "reread", "grace", "await", "returned"}]
    BY DEF Init
  <2>6. cur \in Gens \cup {None} /\ installs \in 0..(MaxFaults + 1) /\ faults \in 0..MaxFaults
    BY MaxFaultsAssumption DEF Init
  <2> QED BY <2>3, <2>4, <2>5, <2>6 DEF Init, TypeOK
<1>2. Reaped /\ Births /\ Accounted
  BY MaxFaultsAssumption DEF Init, Reaped, Births, Accounted, Alive, Dead, Attempting, Gens, None,
     Start, Spawners
<1>3. Succession /\ Ended /\ Closing /\ VerdictIsTrue
  BY DEF Init, Succession, Ended, Closing, VerdictIsTrue, Active, Ready, Gens, None, Start,
     Spawners
<1> QED BY <1>1, <1>2, <1>3 DEF IInv

LEMMA Step == IInv /\ [Next]_vars => IInv'
<1> SUFFICES ASSUME IInv, [Next]_vars PROVE IInv'
  OBVIOUS
<1>1. CASE CtxEnds
  <2>1. 1 \in Gens
    BY MaxFaultsAssumption DEF Gens
  <2> QED BY <1>1, <2>1, ChildrenIInv
<1>2. ASSUME NEW g \in Gens, ChildExits(g) \/ ChildMutes(g) \/ ChildGoes(g) PROVE IInv'
  BY <1>2, ChildrenIInv
<1>3. ASSUME NEW g \in Gens, ReaperStep(g) PROVE IInv'
  BY <1>3, ReaperIInv
<1>4. ASSUME NEW s \in Spawners, SpawnerStep(s) PROVE IInv'
  BY <1>4, SpawnerIInv
<1>5. ASSUME NEW c \in Closers, CloseMarks(c) \/ CloserStep(c) PROVE IInv'
  BY <1>5, CloserIInv
<1>6. ASSUME NEW k \in Callers, Live(k) \/ CallAnswered(k) \/ CallerStep(k) PROVE IInv'
  BY <1>6, CallerIInv
<1>7. CASE UNCHANGED vars
  BY <1>7 DEF vars, procVars, lifeVars, IInv, TypeOK, Reaped, Births, Succession, Accounted,
     Ended, Closing, VerdictIsTrue, Active, Attempting, Alive, Dead, Ready
<1> QED BY <1>1, <1>2, <1>3, <1>4, <1>5, <1>6, <1>7 DEF Next

-----------------------------------------------------------------------------
(* The theorems                                                             *)

\* The inductive invariant of the supervision.
THEOREM Invariance == Spec => []IInv
  BY InitIInv, Step, PTL DEF Spec

\* There is at most one goroutine that spawns, only while the current child is
\* dead, and never two children alive, however often children die, handshakes
\* fail, callers kill and Close races an installation.
THEOREM SupervisionDoesNotMultiply == Spec => []OneSupervisor
<1>1. ASSUME IInv PROVE OneSupervisor
  <2>1. IsFiniteSet({cur}) /\ Cardinality({cur}) = 1
    BY FS_Singleton
  <2>2. Cardinality(Spawning) <= 1
    <3>1. Spawning \subseteq {cur}
      BY <1>1 DEF IInv, Spawning, Succession, Active
    <3>2. Cardinality(Spawning) <= Cardinality({cur})
      BY <2>1, <3>1, FS_Subset
    <3> QED BY <2>1, <3>2
  <2>3. Spawning # {} /\ cur # None => Dead(cur)
    BY <1>1 DEF IInv, Spawning, Succession, Active, Start, None, Dead
  <2>4. Cardinality({g \in Gens : Alive(g)}) <= 1
    <3> DEFINE only == IF cur # None /\ Alive(cur) THEN cur ELSE spawner[cur].gen
    <3>1. \A g \in Gens : Alive(g) => ~Dead(g)
      BY <1>1 DEF IInv, Reaped, Alive
    <3>2. \A s \in Spawners : Attempting(s) => s = cur /\ (cur # None => Dead(cur))
      BY <1>1 DEF IInv, Succession, Active, Attempting, Start, None, Dead
    <3>3. ASSUME NEW g \in Gens, Alive(g) PROVE g = only
      <4>1. CASE g = cur
        BY <3>3, <4>1 DEF Gens, None
      <4>2. CASE g # cur
        <5>1. PICK s \in Spawners : Attempting(s) /\ spawner[s].gen = g
          BY <1>1, <3>3, <4>2 DEF IInv, Accounted
        <5>2. s = cur /\ (cur # None => Dead(cur))
          BY <3>2, <5>1
        <5>3. cur # None => ~Alive(cur)
          BY <1>1, <3>1, <5>2 DEF IInv, TypeOK
        <5> QED BY <5>1, <5>2, <5>3
      <4> QED BY <4>1, <4>2
    <3> HIDE DEF only
    <3>4. {g \in Gens : Alive(g)} \subseteq {only}
      BY <3>3
    <3>5. IsFiniteSet({only}) /\ Cardinality({only}) = 1
      BY FS_Singleton
    <3>6. Cardinality({g \in Gens : Alive(g)}) <= Cardinality({only})
      BY <3>4, <3>5, FS_Subset
    <3> QED BY <3>5, <3>6
  <2> QED BY <2>2, <2>3, <2>4 DEF OneSupervisor
<1> QED BY <1>1, Invariance, PTL

\* Err tells a Close, the end of the context and the child's own exit apart,
\* and the exit of a child that Close found alive is laid to the Close.
THEOREM TheVerdictIsTrue == Spec => []VerdictIsTrue
<1>1. IInv => VerdictIsTrue
  BY DEF IInv
<1> QED BY <1>1, Invariance, PTL

\* After a Close, or Done, there is no child and none comes; the generation
\* Close kills is the last that was current.
THEOREM NothingAfterClose == Spec => CloseIsTheEnd
<1>1. ASSUME IInv PROVE CloseLeavesNothing
  <2> SUFFICES ASSUME done \/ \E c \in Closers : closer[c] = "returned"
               PROVE  (\A g \in Gens : ~Alive(g)) /\ Spawning = {}
    BY DEF CloseLeavesNothing
  <2>1. done /\ cur # None /\ reaper[cur] = "over" /\ \A s \in Spawners : ~Active(s)
    BY <1>1 DEF IInv, Closing, Ended
  <2>2. Spawning = {} /\ \A s \in Spawners : ~Attempting(s)
    BY <2>1 DEF Spawning, Active, Attempting
  <2>3. ASSUME NEW g \in Gens, Alive(g) PROVE FALSE
    <3>1. ~Dead(g)
      BY <1>1, <2>3 DEF IInv, Reaped, Alive
    <3>2. g # cur
      BY <2>1, <3>1 DEF Dead
    <3> QED BY <1>1, <2>2, <2>3, <3>2 DEF IInv, Accounted
  <2> QED BY <2>2, <2>3
<1>2. ASSUME IInv, [Next]_vars, NEW c \in Closers, closer[c] \in {"grace", "await", "returned"}
      PROVE  cur' = cur
  <2>1. closing
    BY <1>2 DEF IInv, Closing
  <2>2. \A s \in Spawners : Install(s) => cur' = cur
    BY <2>1 DEF Install
  <2>3. ASSUME NEW s \in Spawners, SpawnerStep(s) PROVE cur' = cur
    BY <2>2, <2>3 DEF SpawnerStep, Handshake, BackoffClosed, BackoffCtx, BackoffOver, SpawnFails,
       SpawnStarts, HandshakeAnswered, HandshakeFails, Abort
  <2>4. ASSUME NEW g \in Gens, ChildExits(g) \/ ChildMutes(g) \/ ChildGoes(g) \/ ReaperStep(g)
        PROVE  cur' = cur
    BY <2>4 DEF ChildExits, ChildMutes, ChildGoes, ReaperStep, Reap, OnExit, ReactClosed, React
  <2>5. ASSUME NEW d \in Closers, CloseMarks(d) \/ CloserStep(d) PROVE cur' = cur
    BY <2>5 DEF CloseMarks, CloserStep, CloseStopsSupervisor, CloseSignals, CloseGrace,
       CloseReturns
  <2>6. ASSUME NEW k \in Callers, Live(k) \/ CallAnswered(k) \/ CallerStep(k) PROVE cur' = cur
    BY <2>6 DEF Live, CallAnswered, CallerStep, LiveWakes, CallDies, CallKills
  <2>7. CtxEnds \/ UNCHANGED vars => cur' = cur
    BY DEF CtxEnds, vars
  <2> QED BY <1>2, <2>3, <2>4, <2>5, <2>6, <2>7 DEF Next
<1>3. IInv /\ [Next]_vars =>
        [(\E c \in Closers : closer[c] \in {"grace", "await", "returned"}) => cur' = cur]_vars
  BY <1>2
<1>4. Spec => []CloseLeavesNothing
  BY <1>1, Invariance, PTL
<1>5. Spec => CloseIsFinal
  BY <1>3, Invariance, PTL DEF Spec, CloseIsFinal
<1> QED BY <1>4, <1>5 DEF CloseIsTheEnd

-----------------------------------------------------------------------------
(* The guards of a prompt. *)

\* The chunks in the buffer, said and delivered.
Spoken ==
    /\ buf \in Seq(Chunks) /\ said \in Seq(Chunks) /\ delivered \in Seq(Chunks)
    /\ phase # "over" => turn > 0
    /\ refusals <= MaxRefusals

\* What the clock measures is the silence, and its verdict comes before the
\* cause it gives to the context.
Clocked ==
    /\ quiet = silence
    /\ ~settled => verdict = "none"
    /\ verdict = "none" => cause \notin {"wedged", "stopped"}
    /\ SettledForGood

\* While an attempt is asked for and judged the buffer holds what was said of
\* it, among the chunks of abandoned ones, and nothing has been delivered.
Judging ==
    /\ phase \notin {"over", "start"} => Own(buf) = said /\ (~mixed => buf = said)
    /\ phase # "over" => outcome = "none" /\ delivered = <<>>
    /\ phase = "accepted" =>
        /\ mode # "abstain" => Valid(Text(said))
        /\ mode = "abstain" /\ ~mixed => ~Declined(Text(said))
    /\ phase = "exhausted" => refusals = MaxRefusals /\ mode = "validate"
    /\ phase = "fallback" => mode = "fallback"

GuardsIInv == GuardsTypeOK /\ Spoken /\ Clocked /\ Judging /\ OnlyTheVerdictIsDelivered

(* Counting up, as the order of the naturals allows it: a set of naturals that
   is not empty has a least element. *)
LEMMA LeastNat ==
  ASSUME NEW T, T \subseteq Nat, T # {}
  PROVE  \E x \in T : \A y \in T : x <= y
<1> DEFINE R == OpToRel(<, Nat)
<1>1. IsWellFoundedOn(R, Nat)
  BY NatLessThanWellFounded
<1>2. \A x, y \in Nat : <<y, x>> \in R <=> y < x
  BY DEF OpToRel
<1> HIDE DEF R
<1>3. PICK x \in T : \A y \in T : ~ (<<y, x>> \in R)
  BY <1>1, WFMin
<1>4. ASSUME NEW y \in T PROVE x <= y
  <2>1. x \in Nat /\ y \in Nat /\ <<y, x>> \notin R
    BY <1>3
  <2>2. ~(y < x)
    BY <1>2, <2>1
  <2> QED BY <2>1, <2>2
<1> QED BY <1>4

\* What Sieve computes up to n.
Keeps(g, s, K, n) ==
    g = [i \in 0..n |-> IF i = 0 THEN <<>>
                        ELSE IF s[i] \in K THEN Append(g[i - 1], s[i]) ELSE g[i - 1]]

LEMMA KeepsExists ==
  ASSUME NEW s, NEW K, NEW m \in Nat
  PROVE  \E g : Keeps(g, s, K, m)
<1> DEFINE T == {n \in Nat : ~\E g : Keeps(g, s, K, n)}
<1>1. SUFFICES ASSUME T # {} PROVE FALSE
  OBVIOUS
<1>2. PICK n \in T : \A y \in T : n <= y
  BY <1>1, LeastNat
<1>3. CASE n = 0
  <2> DEFINE g == [i \in 0..0 |-> <<>>]
  <2>1. Keeps(g, s, K, 0)
    BY DEF Keeps
  <2> HIDE DEF g
  <2> QED BY <1>3, <2>1
<1>4. CASE n # 0
  <2>1. n - 1 \in Nat /\ n - 1 \notin T
    BY <1>2, <1>4
  <2>2. PICK g : Keeps(g, s, K, n - 1)
    BY <2>1
  <2> DEFINE h == [i \in 0..n |-> IF i < n THEN g[i]
                                  ELSE IF s[n] \in K THEN Append(g[n - 1], s[n]) ELSE g[n - 1]]
  <2>3. \A i \in 0..(n - 1) : h[i] = g[i]
    BY <2>1
  <2>4. \A i \in 0..(n - 1) : g[i] = IF i = 0 THEN <<>>
                                    ELSE IF s[i] \in K THEN Append(g[i - 1], s[i]) ELSE g[i - 1]
    BY <2>2 DEF Keeps
  <2>5. h[n] = IF s[n] \in K THEN Append(h[n - 1], s[n]) ELSE h[n - 1]
    BY <2>1, <2>3
  <2>6. \A i \in 0..n : h[i] = IF i = 0 THEN <<>>
                               ELSE IF s[i] \in K THEN Append(h[i - 1], s[i]) ELSE h[i - 1]
    <3> SUFFICES ASSUME NEW i \in 0..n
                 PROVE h[i] = IF i = 0 THEN <<>>
                              ELSE IF s[i] \in K THEN Append(h[i - 1], s[i]) ELSE h[i - 1]
      OBVIOUS
    <3> HIDE DEF h
    <3>1. CASE i = n
      BY <1>4, <2>5, <3>1
    <3>2. CASE i # n
      <4>1. i \in 0..(n - 1) /\ (i # 0 => i - 1 \in 0..(n - 1))
        BY <3>2, <2>1
      <4> QED BY <4>1, <2>3, <2>4
    <3> QED BY <3>1, <3>2
  <2>7. Keeps(h, s, K, n)
    <3>1. DOMAIN h = 0..n /\ h = [i \in 0..n |-> h[i]]
      OBVIOUS
    <3> HIDE DEF h
    <3> QED BY <2>6, <3>1 DEF Keeps
  <2> HIDE DEF h
  <2> QED BY <2>7
<1> QED BY <1>3, <1>4

\* The equations of Sieve.
LEMMA SieveStep ==
  ASSUME NEW S, NEW s \in Seq(S), NEW K
  PROVE  /\ Sieve(s, K)[0] = <<>>
         /\ \A i \in 1..Len(s) : Sieve(s, K)[i] =
               IF s[i] \in K THEN Append(Sieve(s, K)[i - 1], s[i]) ELSE Sieve(s, K)[i - 1]
<1>1. Len(s) \in Nat
  BY LenProperties
<1>2. PICK g : Keeps(g, s, K, Len(s))
  BY <1>1, KeepsExists
<1>3. Keeps(Sieve(s, K), s, K, Len(s))
  BY <1>2 DEF Keeps, Sieve
<1> DEFINE f == Sieve(s, K)
<1>4. Keeps(f, s, K, Len(s))
  BY <1>3
<1> HIDE DEF f
<1>5. \A i \in 0..Len(s) : f[i] = IF i = 0 THEN <<>>
                                 ELSE IF s[i] \in K THEN Append(f[i - 1], s[i]) ELSE f[i - 1]
  BY <1>4 DEF Keeps
<1>6. f[0] = <<>> /\ \A i \in 1..Len(s) : f[i] = IF s[i] \in K THEN Append(f[i - 1], s[i]) ELSE f[i - 1]
  BY <1>1, <1>5
<1> QED BY <1>6 DEF f

Elems(s) == {s[i] : i \in DOMAIN s}

\* Every entry of the sieve is a sequence of the elements of K met so far.
LEMMA SieveEntries ==
  ASSUME NEW S, NEW s \in Seq(S), NEW K
  PROVE  \A n \in 0..Len(s) :
            /\ Sieve(s, K)[n] \in Seq(S)
            /\ \A c \in S : c \in Elems(Sieve(s, K)[n]) <=> c \in K /\ \E i \in 1..n : s[i] = c
<1> DEFINE f == Sieve(s, K)
           P(n) == /\ f[n] \in Seq(S)
                   /\ \A c \in S : c \in Elems(f[n]) <=> c \in K /\ \E i \in 1..n : s[i] = c
           T == {n \in 0..Len(s) : ~P(n)}
<1>1. /\ Len(s) \in Nat /\ \A i \in 1..Len(s) : s[i] \in S
      /\ f[0] = <<>>
      /\ \A i \in 1..Len(s) : f[i] = IF s[i] \in K THEN Append(f[i - 1], s[i]) ELSE f[i - 1]
  BY SieveStep, LenProperties, ElementOfSeq
<1> HIDE DEF f
<1>2. SUFFICES ASSUME T # {} PROVE FALSE
  BY DEF f
<1>3. T \subseteq Nat
  OBVIOUS
<1>4. PICK n \in T : \A y \in T : n <= y
  BY <1>2, <1>3, LeastNat
<1>5. P(0)
  <2>1. f[0] \in Seq(S) /\ Elems(f[0]) = {}
    BY <1>1 DEF Elems
  <2> QED BY <2>1
<1>6. CASE n = 0
  BY <1>4, <1>5, <1>6
<1>7. CASE n # 0
  <2>1. n \in 1..Len(s) /\ n - 1 \in 0..Len(s) /\ n - 1 \notin T
    BY <1>4, <1>7, <1>1
  <2>2. P(n - 1)
    BY <2>1
  <2>3. s[n] \in S
    BY <1>1, <2>1
  <2>4. \A c \in S : (\E i \in 1..n : s[i] = c) <=> c = s[n] \/ \E i \in 1..(n - 1) : s[i] = c
    BY <2>1
  <2>5. CASE s[n] \notin K
    <3>1. f[n] = f[n - 1]
      BY <1>1, <2>1, <2>5
    <3> QED BY <1>4, <2>2, <2>4, <2>5, <3>1
  <2>6. CASE s[n] \in K
    <3>1. f[n] = Append(f[n - 1], s[n])
      BY <1>1, <2>1, <2>6
    <3>2. f[n] \in Seq(S) /\ Len(f[n]) = Len(f[n - 1]) + 1 /\ Len(f[n - 1]) \in Nat
          /\ DOMAIN f[n] = 1..(Len(f[n - 1]) + 1) /\ DOMAIN f[n - 1] = 1..Len(f[n - 1])
          /\ (\A i \in 1..Len(f[n - 1]) : f[n][i] = f[n - 1][i]) /\ f[n][Len(f[n - 1]) + 1] = s[n]
      BY <2>2, <2>3, <3>1, AppendProperties, LenProperties
    <3>3. \A c : c \in Elems(f[n]) <=> c \in Elems(f[n - 1]) \/ c = s[n]
      <4> DEFINE r == f[n]
                 q == f[n - 1]
                 k == Len(q)
      <4>1. /\ k \in Nat /\ DOMAIN r = 1..(k + 1) /\ DOMAIN q = 1..k
            /\ (\A i \in 1..k : r[i] = q[i]) /\ r[k + 1] = s[n]
        BY <3>2
      <4> HIDE DEF r, q, k
      <4>2. ASSUME NEW c \in Elems(r) PROVE c \in Elems(q) \/ c = s[n]
        BY <4>1, <4>2 DEF Elems
      <4>3. ASSUME NEW c \in Elems(q) PROVE c \in Elems(r)
        BY <4>1, <4>3 DEF Elems
      <4>4. s[n] \in Elems(r)
        BY <4>1 DEF Elems
      <4> QED BY <4>2, <4>3, <4>4 DEF r, q
    <3> QED BY <1>4, <2>2, <2>4, <2>6, <3>2, <3>3
  <2> QED BY <2>5, <2>6
<1> QED BY <1>6, <1>7

\* What is kept of a sequence are its elements that are in K.
LEMMA OnlyElements ==
  ASSUME NEW S, NEW s \in Seq(S), NEW K
  PROVE  /\ Only(s, K) \in Seq(S)
         /\ \A c \in S : c \in Elems(Only(s, K)) <=> c \in K /\ c \in Elems(s)
<1>1. Len(s) \in 0..Len(s) /\ DOMAIN s = 1..Len(s)
  BY LenProperties
<1>2. \A c : c \in Elems(s) <=> \E i \in 1..Len(s) : s[i] = c
  BY <1>1 DEF Elems
<1>3. /\ Only(s, K) \in Seq(S)
      /\ \A c \in S : c \in Elems(Only(s, K)) <=> c \in K /\ \E i \in 1..Len(s) : s[i] = c
  BY <1>1, SieveEntries DEF Only
<1> QED BY <1>2, <1>3

\* A later entry begins with an earlier one.
LEMMA SieveGrows ==
  ASSUME NEW S, NEW s \in Seq(S), NEW K, NEW m \in 0..Len(s)
  PROVE  \A n \in m..Len(s) :
            /\ Len(Sieve(s, K)[m]) <= Len(Sieve(s, K)[n])
            /\ \A i \in 1..Len(Sieve(s, K)[m]) : Sieve(s, K)[n][i] = Sieve(s, K)[m][i]
<1> DEFINE f == Sieve(s, K)
           P(n) == /\ Len(f[m]) <= Len(f[n])
                   /\ \A i \in 1..Len(f[m]) : f[n][i] = f[m][i]
           T == {n \in m..Len(s) : ~P(n)}
<1>1. /\ Len(s) \in Nat /\ \A i \in 1..Len(s) : s[i] \in S
      /\ \A i \in 1..Len(s) : f[i] = IF s[i] \in K THEN Append(f[i - 1], s[i]) ELSE f[i - 1]
      /\ \A i \in 0..Len(s) : f[i] \in Seq(S) /\ Len(f[i]) \in Nat
  BY SieveStep, SieveEntries, LenProperties, ElementOfSeq
<1> HIDE DEF f
<1>2. SUFFICES ASSUME T # {} PROVE FALSE
  BY DEF f
<1>3. T \subseteq Nat
  BY <1>1
<1>4. PICK n \in T : \A y \in T : n <= y
  BY <1>2, <1>3, LeastNat
<1>5. CASE n = m
  BY <1>1, <1>4, <1>5
<1>6. CASE n # m
  <2>1. n \in 1..Len(s) /\ n - 1 \in m..Len(s) /\ n - 1 \in 0..Len(s) /\ n - 1 \notin T
    BY <1>4, <1>6, <1>1
  <2>2. P(n - 1)
    BY <2>1
  <2>3. \/ f[n] = f[n - 1]
        \/ f[n] = Append(f[n - 1], s[n]) /\ s[n] \in S
    BY <1>1, <2>1
  <2>4. Len(f[n - 1]) <= Len(f[n]) /\ \A i \in 1..Len(f[n - 1]) : f[n][i] = f[n - 1][i]
    <3>1. CASE f[n] = f[n - 1]
      BY <1>1, <2>1, <3>1
    <3>2. CASE f[n] = Append(f[n - 1], s[n]) /\ s[n] \in S
      <4>1. f[n - 1] \in Seq(S) /\ Len(f[n - 1]) \in Nat
        BY <1>1, <2>1
      <4>2. Len(f[n]) = Len(f[n - 1]) + 1 /\ \A i \in 1..Len(f[n - 1]) : f[n][i] = f[n - 1][i]
        BY <3>2, <4>1, AppendProperties
      <4> QED BY <4>1, <4>2
    <3> QED BY <2>3, <3>1, <3>2
  <2>5. P(n)
    BY <1>1, <2>1, <2>2, <2>4
  <2> QED BY <1>4, <2>5
<1> QED BY <1>5, <1>6

\* Two sequences that begin alike are sieved alike.
LEMMA SieveAlike ==
  ASSUME NEW S, NEW s \in Seq(S), NEW t \in Seq(S), NEW K,
         Len(s) <= Len(t), \A i \in 1..Len(s) : s[i] = t[i]
  PROVE  Sieve(s, K)[Len(s)] = Sieve(t, K)[Len(s)]
<1> DEFINE f == Sieve(s, K)
           g == Sieve(t, K)
           T == {n \in 0..Len(s) : f[n] # g[n]}
<1>1. /\ Len(s) \in Nat /\ Len(t) \in Nat /\ f[0] = <<>> /\ g[0] = <<>>
      /\ \A i \in 1..Len(s) : f[i] = IF s[i] \in K THEN Append(f[i - 1], s[i]) ELSE f[i - 1]
      /\ \A i \in 1..Len(t) : g[i] = IF t[i] \in K THEN Append(g[i - 1], t[i]) ELSE g[i - 1]
  BY SieveStep, LenProperties
<1> HIDE DEF f, g
<1>2. SUFFICES ASSUME T # {} PROVE FALSE
  BY <1>1 DEF f, g
<1>3. T \subseteq Nat
  BY <1>1
<1>4. PICK n \in T : \A y \in T : n <= y
  BY <1>2, <1>3, LeastNat
<1>5. n # 0
  BY <1>1, <1>4
<1>6. n \in 1..Len(s) /\ n \in 1..Len(t) /\ n - 1 \in 0..Len(s) /\ n - 1 \notin T
  BY <1>1, <1>4, <1>5
<1>7. f[n] = g[n]
  BY <1>1, <1>6
<1> QED BY <1>4, <1>7

LEMMA OnlyEmpty ==
  ASSUME NEW K PROVE Only(<<>>, K) = <<>>
<1>1. <<>> \in Seq({}) /\ Len(<<>>) = 0
  OBVIOUS
<1>2. PICK s \in Seq({}) : s = <<>>
  BY <1>1
<1>3. Sieve(s, K)[0] = <<>>
  BY SieveStep
<1>4. Only(s, K) = <<>>
  BY <1>1, <1>2, <1>3 DEF Only
<1> QED BY <1>2, <1>4

LEMMA OnlyAppend ==
  ASSUME NEW S, NEW s \in Seq(S), NEW c \in S, NEW K
  PROVE  Only(Append(s, c), K) = IF c \in K THEN Append(Only(s, K), c) ELSE Only(s, K)
<1> DEFINE t == Append(s, c)
<1>1. /\ t \in Seq(S) /\ Len(t) = Len(s) + 1 /\ Len(s) \in Nat
      /\ (\A i \in 1..Len(s) : t[i] = s[i]) /\ t[Len(s) + 1] = c
  BY AppendProperties, LenProperties
<1> HIDE DEF t
<1>2. Sieve(t, K)[Len(s)] = Sieve(s, K)[Len(s)]
  BY <1>1, SieveAlike
<1>3. Sieve(t, K)[Len(t)] = IF c \in K THEN Append(Sieve(t, K)[Len(s)], c) ELSE Sieve(t, K)[Len(s)]
  <2>1. Len(t) \in 1..Len(t) /\ Len(t) - 1 = Len(s)
    BY <1>1
  <2> QED BY <1>1, <2>1, SieveStep
<1>4. Only(t, K) = IF c \in K THEN Append(Only(s, K), c) ELSE Only(s, K)
  BY <1>2, <1>3 DEF Only
<1> QED BY <1>4 DEF t

\* What is kept of the beginning is the beginning of what is kept.
LEMMA OnlyPrefix ==
  ASSUME NEW S, NEW s \in Seq(S), NEW K, NEW n \in 0..Len(s)
  PROVE  IsPrefix(Only(SubSeq(s, 1, n), K), Only(s, K))
<1> DEFINE t == SubSeq(s, 1, n)
<1>1. Len(s) \in Nat /\ \A i \in 1..Len(s) : s[i] \in S
  BY LenProperties, ElementOfSeq
<1>2. t \in Seq(S) /\ Len(t) = n /\ \A i \in 1..n : t[i] = s[i]
  BY <1>1, SubSeqProperties
<1> HIDE DEF t
<1>3. Only(t, K) = Sieve(s, K)[n]
  BY <1>1, <1>2, SieveAlike DEF Only
<1> DEFINE p == Only(t, K)
           q == Only(s, K)
<1>4. Len(p) <= Len(q) /\ \A i \in 1..Len(p) : q[i] = p[i]
  BY <1>1, <1>3, SieveGrows DEF Only
<1>5. p \in Seq(S) /\ q \in Seq(S) /\ Len(p) \in Nat /\ Len(q) \in Nat
  BY <1>2, OnlyElements, LenProperties
<1> HIDE DEF p, q
<1>6. SubSeq(p, 1, Len(p)) = SubSeq(q, 1, Len(p))
  BY <1>4, <1>5
<1>7. IsPrefix(p, q)
  BY <1>4, <1>6 DEF IsPrefix
<1> QED BY <1>7 DEF p, q, t

LEMMA GuardBounds ==
  /\ Window \in Nat \ {0} /\ MaxRefusals \in Nat /\ MaxTurns \in Nat /\ MaxUpdates \in Nat
  /\ MaxStale \in Nat /\ Abandoned = -1 /\ Off = -1
BY GuardsAssumption DEF Abandoned, Off

LEMMA ChunkKinds ==
  ASSUME GuardsIInv, phase # "over", NEW u \in Message \cup {"mended"}
  PROVE  /\ Chunk(refusals, u) \in Chunks /\ Chunk(refusals, u) \in OwnChunks
         /\ Chunk(Abandoned, u) \in Chunks /\ Chunk(Abandoned, u) \notin OwnChunks
<1>1. turn \in 1..MaxTurns /\ refusals \in 0..MaxRefusals
  BY GuardBounds DEF GuardsIInv, GuardsTypeOK, Spoken
<1> QED BY <1>1, GuardBounds DEF Chunk, Chunks, OwnChunks

\* The validator passes what it would pass among other chunks.
LEMMA ValidAlone ==
  ASSUME NEW b \in Seq(Chunks), Valid(Text(b))
  PROVE  Valid(Text(Own(b)))
<1> DEFINE w == Own(b)
<1>1. w \in Seq(Chunks) /\ \A c \in Chunks : c \in Elems(w) => c \in Elems(b)
  BY OnlyElements DEF Own
<1> HIDE DEF w
<1>2. \A c \in Chunks : c \in Elems(Text(w)) => c \in Elems(Text(b))
  BY <1>1, OnlyElements DEF Text
<1>3. Text(w) \in Seq(Chunks)
  BY <1>1, OnlyElements DEF Text
<1>4. \A i \in DOMAIN Text(w) : \E k \in DOMAIN Text(b) : Text(w)[i] = Text(b)[k]
  <2> SUFFICES ASSUME NEW i \in DOMAIN Text(w)
               PROVE \E k \in DOMAIN Text(b) : Text(w)[i] = Text(b)[k]
    OBVIOUS
  <2>1. Text(w)[i] \in Chunks /\ Text(w)[i] \in Elems(Text(w))
    BY <1>3, ElementOfSeq, LenProperties DEF Elems
  <2>2. Text(w)[i] \in Elems(Text(b))
    BY <1>2, <2>1
  <2> QED BY <2>2 DEF Elems
<1>5. Valid(Text(w))
  BY <1>4 DEF Valid, Kinds
<1> QED BY <1>5 DEF w

LEMMA GuardsStart == GuardsInit => GuardsIInv
<1> SUFFICES ASSUME GuardsInit PROVE GuardsIInv
  OBVIOUS
<1> USE GuardBounds
<1>1. GuardsTypeOK
  <2>1. /\ 0 \in 0..MaxTurns /\ 0 \in 0..MaxStale /\ 0 \in 0..Window /\ 0 \in Nat
        /\ "validate" \in Modes
    BY DEF Modes
  <2> QED BY <2>1 DEF GuardsInit, GuardsTypeOK
<1>2. Spoken
  BY DEF GuardsInit, Spoken
<1>3. Clocked
  BY DEF GuardsInit, Clocked, SettledForGood
<1>4. Judging /\ OnlyTheVerdictIsDelivered
  BY DEF GuardsInit, Judging, OnlyTheVerdictIsDelivered
<1> QED BY <1>1, <1>2, <1>3, <1>4 DEF GuardsIInv

-----------------------------------------------------------------------------
\* The steps of the clock and of its context do not touch the messages.
LEMMA MessagesSame ==
  ASSUME GuardsIInv, UNCHANGED <<loop, sink, said, mixed>>
  PROVE  Spoken' /\ Judging' /\ OnlyTheVerdictIsDelivered'
<1>1. Spoken'
  BY DEF GuardsIInv, Spoken, loop, sink
<1>2. Judging'
  BY DEF GuardsIInv, Judging, loop, sink
<1>3. OnlyTheVerdictIsDelivered'
  <2>1. /\ turn' = turn /\ mode' = mode /\ refusals' = refusals /\ outcome' = outcome
        /\ delivered' = delivered /\ said' = said /\ mixed' = mixed
    BY DEF loop, sink
  <2>2. Chunk(refusals, "mended")' = Chunk(refusals, "mended")
    BY <2>1 DEF Chunk
  <2> QED BY <2>1, <2>2 DEF GuardsIInv, OnlyTheVerdictIsDelivered
<1> QED BY <1>1, <1>2, <1>3

\* The steps of the turn's loop and of the agent do not touch the clock.
LEMMA ClockSame ==
  ASSUME GuardsIInv, UNCHANGED <<clock, cause>>
  PROVE  Clocked'
BY DEF GuardsIInv, Clocked, SettledForGood, clock

LEMMA TickGuards ==
  ASSUME GuardsIInv, Tick PROVE GuardsIInv'
<1> USE GuardBounds
<1>1. UNCHANGED <<loop, sink, agent, late>>
  BY DEF Tick
<1>2. GuardsTypeOK'
  BY <1>1 DEF GuardsIInv, GuardsTypeOK, Clocked, SettledForGood, Tick, Settle, clock, ctx, loop, agent, late
<1>3. Clocked'
  BY DEF GuardsIInv, GuardsTypeOK, Clocked, SettledForGood, Tick, Settle, clock, ctx
<1>4. UNCHANGED <<loop, sink, said, mixed>>
  BY <1>1 DEF agent, late
<1> QED BY <1>2, <1>3, <1>4, MessagesSame DEF GuardsIInv

LEMMA ExpireGuards ==
  ASSUME GuardsIInv, Expire PROVE GuardsIInv'
<1> USE GuardBounds
<1>1. UNCHANGED <<loop, sink, agent, late>>
  BY DEF Expire
<1>2. GuardsTypeOK'
  BY <1>1 DEF GuardsIInv, GuardsTypeOK, Clocked, SettledForGood, Expire, Settle, clock, ctx, loop, agent, late
<1>3. Clocked'
  BY DEF GuardsIInv, GuardsTypeOK, Clocked, SettledForGood, Expire, Settle, clock, ctx
<1>4. UNCHANGED <<loop, sink, said, mixed>>
  BY <1>1 DEF agent, late
<1> QED BY <1>2, <1>3, <1>4, MessagesSame DEF GuardsIInv

LEMMA FireWedgedGuards ==
  ASSUME GuardsIInv, FireWedged PROVE GuardsIInv'
<1> USE GuardBounds
<1>1. UNCHANGED <<loop, sink, agent, late>>
  BY DEF FireWedged
<1>2. GuardsTypeOK'
  <2>1. /\ fires' = fires - 1 /\ fires > 0 /\ fires \in Nat /\ cause' = cause
        /\ turn' = turn /\ mode' = mode /\ phase' = phase /\ refusals' = refusals
        /\ outcome' = outcome /\ reply' = reply /\ stale' = stale /\ mixed' = mixed
    BY <1>1 DEF FireWedged, loop, agent, late, GuardsIInv, GuardsTypeOK
  <2>2. /\ quiet' \in 0..Window /\ timer' \in {Off} \cup 0..Window
        /\ silence' \in 0..Window /\ settled' \in BOOLEAN
        /\ verdict' \in {"none", "wedged", "stopped"}
    <3>1. CASE settled
      BY <3>1 DEF FireWedged, clock, GuardsIInv, GuardsTypeOK
    <3>2. CASE ~settled /\ quiet < Window
      BY <3>2 DEF FireWedged, clock, GuardsIInv, GuardsTypeOK
    <3>3. CASE ~settled /\ ~(quiet < Window)
      BY <3>3 DEF FireWedged, Settle, GuardsIInv, GuardsTypeOK
    <3> QED BY <3>1, <3>2, <3>3
  <2> QED BY <2>1, <2>2 DEF GuardsIInv, GuardsTypeOK
<1>3. Clocked'
  BY DEF GuardsIInv, GuardsTypeOK, Clocked, SettledForGood, FireWedged, Settle, clock, ctx
<1>4. UNCHANGED <<loop, sink, said, mixed>>
  BY <1>1 DEF agent, late
<1> QED BY <1>2, <1>3, <1>4, MessagesSame DEF GuardsIInv

LEMMA FireStoppedGuards ==
  ASSUME GuardsIInv, FireStopped PROVE GuardsIInv'
<1> USE GuardBounds
<1>1. UNCHANGED <<loop, sink, agent, late>>
  BY DEF FireStopped
<1>2. GuardsTypeOK'
  BY <1>1 DEF GuardsIInv, GuardsTypeOK, Clocked, SettledForGood, FireStopped, Settle, clock, ctx, loop, agent, late
<1>3. Clocked'
  BY DEF GuardsIInv, GuardsTypeOK, Clocked, SettledForGood, FireStopped, Settle, clock, ctx
<1>4. UNCHANGED <<loop, sink, said, mixed>>
  BY <1>1 DEF agent, late
<1> QED BY <1>2, <1>3, <1>4, MessagesSame DEF GuardsIInv

LEMMA CancelContextGuards ==
  ASSUME GuardsIInv, CancelContext PROVE GuardsIInv'
<1> USE GuardBounds
<1>1. UNCHANGED <<loop, sink, agent, late>>
  BY DEF CancelContext
<1>2. GuardsTypeOK'
  BY <1>1 DEF GuardsIInv, GuardsTypeOK, Clocked, SettledForGood, CancelContext, Settle, clock, ctx, loop, agent, late
<1>3. Clocked'
  BY DEF GuardsIInv, GuardsTypeOK, Clocked, SettledForGood, CancelContext, Settle, clock, ctx
<1>4. UNCHANGED <<loop, sink, said, mixed>>
  BY <1>1 DEF agent, late
<1> QED BY <1>2, <1>3, <1>4, MessagesSame DEF GuardsIInv

LEMMA CeilingReachedGuards ==
  ASSUME GuardsIInv, CeilingReached PROVE GuardsIInv'
<1> USE GuardBounds
<1>1. UNCHANGED <<loop, sink, agent, late>>
  BY DEF CeilingReached
<1>2. GuardsTypeOK'
  BY <1>1 DEF GuardsIInv, GuardsTypeOK, Clocked, SettledForGood, CeilingReached, Settle, clock, ctx, loop, agent, late
<1>3. Clocked'
  BY DEF GuardsIInv, GuardsTypeOK, Clocked, SettledForGood, CeilingReached, Settle, clock, ctx
<1>4. UNCHANGED <<loop, sink, said, mixed>>
  BY <1>1 DEF agent, late
<1> QED BY <1>2, <1>3, <1>4, MessagesSame DEF GuardsIInv

LEMMA ParentEndsGuards ==
  ASSUME GuardsIInv, ParentEnds PROVE GuardsIInv'
<1> USE GuardBounds
<1>1. UNCHANGED <<loop, sink, agent, late>>
  BY DEF ParentEnds
<1>2. GuardsTypeOK'
  BY <1>1 DEF GuardsIInv, GuardsTypeOK, Clocked, SettledForGood, ParentEnds, Settle, clock, ctx, loop, agent, late
<1>3. Clocked'
  BY DEF GuardsIInv, GuardsTypeOK, Clocked, SettledForGood, ParentEnds, Settle, clock, ctx
<1>4. UNCHANGED <<loop, sink, said, mixed>>
  BY <1>1 DEF agent, late
<1> QED BY <1>2, <1>3, <1>4, MessagesSame DEF GuardsIInv

LEMMA AnswerGuards ==
  ASSUME GuardsIInv, Answer PROVE GuardsIInv'
<1>1. GuardsTypeOK'
  BY DEF GuardsIInv, GuardsTypeOK, Answer, loop, late, clock, ctx
<1>2. Clocked'
  BY ClockSame DEF Answer, ctx
<1>3. UNCHANGED <<loop, sink, said, mixed>>
  BY DEF Answer, late
<1> QED BY <1>1, <1>2, <1>3, MessagesSame DEF GuardsIInv

LEMMA ArmGuards ==
  ASSUME GuardsIInv, Arm PROVE GuardsIInv'
<1> USE GuardBounds
<1>1. GuardsTypeOK'
  <2>1. /\ turn' \in 0..MaxTurns /\ stale' \in 0..MaxStale /\ mode' \in Modes
    BY DEF GuardsIInv, GuardsTypeOK, Arm
  <2>2. 0 \in 0..Window /\ Window \in 0..Window /\ 0 \in Nat
    OBVIOUS
  <2> QED BY <2>1, <2>2 DEF GuardsTypeOK, Arm
<1>2. Spoken'
  BY DEF GuardsIInv, GuardsTypeOK, Spoken, Arm
<1>3. Clocked'
  BY DEF Arm, Clocked, SettledForGood
<1>4. Judging' /\ OnlyTheVerdictIsDelivered'
  BY DEF Arm, Judging, OnlyTheVerdictIsDelivered
<1> QED BY <1>1, <1>2, <1>3, <1>4 DEF GuardsIInv

\* An update resets the clock of a turn that goes on, and nothing else of it.
LEMMA ProgressClocked ==
  ASSUME GuardsIInv, NEW u, Progress(u), UNCHANGED cause
  PROVE  Clocked' /\ quiet' \in 0..Window /\ silence' \in 0..Window
         /\ timer' \in {Off} \cup 0..Window /\ settled' = settled /\ verdict' = verdict
BY GuardBounds DEF GuardsIInv, GuardsTypeOK, Clocked, SettledForGood, Progress, IsProgress

LEMMA UpdateGuards ==
  ASSUME GuardsIInv, NEW u \in Updates, Update(u) PROVE GuardsIInv'
<1> USE GuardBounds
<1>1. /\ phase \in {"asking", "unwinding"} /\ Progress(u)
      /\ UNCHANGED <<loop, delivered, reply, late, ctx>>
      /\ buf' = IF u \in Message THEN Append(buf, Chunk(refusals, u)) ELSE buf
      /\ said' = IF u \in Message THEN Append(said, Chunk(refusals, u)) ELSE said
  BY DEF Update, OnUpdate
<1>2. Clocked' /\ GuardsTypeOK'
  <2>1. UNCHANGED <<cause, fires, turn, mode, phase, refusals, outcome, reply, stale, mixed>>
    BY <1>1 DEF ctx, loop, late
  <2>2. Clocked' /\ quiet' \in 0..Window /\ silence' \in 0..Window
        /\ timer' \in {Off} \cup 0..Window /\ settled' = settled /\ verdict' = verdict
    BY <1>1, <2>1, ProgressClocked
  <2> QED BY <2>1, <2>2 DEF GuardsIInv, GuardsTypeOK
<1>3. UNCHANGED <<turn, mode, phase, refusals, outcome, delivered, mixed>>
  BY <1>1 DEF loop, late
<1>4. Own(buf) = said /\ (~mixed => buf = said) /\ buf \in Seq(Chunks) /\ said \in Seq(Chunks)
  BY <1>1 DEF GuardsIInv, Judging, Spoken
<1>5. buf' \in Seq(Chunks) /\ said' \in Seq(Chunks) /\ Own(buf') = said' /\ (~mixed => buf' = said')
  <2>1. CASE u \notin Message
    BY <1>1, <1>4, <2>1
  <2>2. CASE u \in Message
    <3>1. Chunk(refusals, u) \in Chunks /\ Chunk(refusals, u) \in OwnChunks
      BY <1>1, <2>2, ChunkKinds
    <3>2. Own(Append(buf, Chunk(refusals, u))) = Append(said, Chunk(refusals, u))
      BY <1>4, <3>1, OnlyAppend DEF Own
    <3> QED BY <1>1, <1>4, <2>2, <3>1, <3>2
  <2> QED BY <2>1, <2>2
<1>6. Spoken'
  BY <1>3, <1>5 DEF GuardsIInv, Spoken
<1>7. Judging'
  BY <1>1, <1>3, <1>5 DEF GuardsIInv, Judging
<1>8. OnlyTheVerdictIsDelivered'
  BY <1>1, <1>3 DEF GuardsIInv, Judging, OnlyTheVerdictIsDelivered
<1> QED BY <1>2, <1>6, <1>7, <1>8 DEF GuardsIInv

LEMMA LateUpdateGuards ==
  ASSUME GuardsIInv, NEW u \in Updates, LateUpdate(u) PROVE GuardsIInv'
<1> USE GuardBounds
<1>1. /\ phase # "over" /\ Progress(u) /\ mixed' = TRUE /\ stale > 0 /\ stale' = stale - 1
      /\ UNCHANGED <<loop, delivered, agent, ctx>>
      /\ buf' = IF u \in Message THEN Append(buf, Chunk(Abandoned, u)) ELSE buf
  BY DEF LateUpdate, OnUpdate
<1>2. Clocked' /\ GuardsTypeOK'
  <2>1. UNCHANGED <<cause, fires, turn, mode, phase, refusals, outcome, reply>>
    BY <1>1 DEF ctx, loop, agent
  <2>2. Clocked' /\ quiet' \in 0..Window /\ silence' \in 0..Window
        /\ timer' \in {Off} \cup 0..Window /\ settled' = settled /\ verdict' = verdict
    BY <1>1, <2>1, ProgressClocked
  <2> QED BY <1>1, <2>1, <2>2 DEF GuardsIInv, GuardsTypeOK
<1>3. UNCHANGED <<turn, mode, phase, refusals, outcome, delivered, said>>
  BY <1>1 DEF loop, agent
<1>4. buf' \in Seq(Chunks) /\ Own(buf') = Own(buf)
  <2>1. buf \in Seq(Chunks)
    BY DEF GuardsIInv, Spoken
  <2>2. CASE u \notin Message
    BY <1>1, <2>1, <2>2
  <2>3. CASE u \in Message
    <3>1. Chunk(Abandoned, u) \in Chunks /\ Chunk(Abandoned, u) \notin OwnChunks
      BY <1>1, <2>3, ChunkKinds
    <3>2. Own(Append(buf, Chunk(Abandoned, u))) = Own(buf)
      BY <2>1, <3>1, OnlyAppend DEF Own
    <3> QED BY <1>1, <2>1, <2>3, <3>1, <3>2
  <2> QED BY <2>2, <2>3
<1>5. Spoken'
  BY <1>3, <1>4 DEF GuardsIInv, Spoken
<1>6. Judging'
  BY <1>1, <1>3, <1>4 DEF GuardsIInv, Judging
<1>7. OnlyTheVerdictIsDelivered'
  BY <1>1, <1>3 DEF GuardsIInv, Judging, OnlyTheVerdictIsDelivered
<1> QED BY <1>2, <1>5, <1>6, <1>7 DEF GuardsIInv

LEMMA AskGuards ==
  ASSUME GuardsIInv, Ask PROVE GuardsIInv'
<1>1. GuardsTypeOK'
  BY DEF GuardsIInv, GuardsTypeOK, Ask, late, clock, ctx
<1>2. Clocked'
  BY ClockSame DEF Ask, ctx
<1>3. Spoken'
  BY DEF GuardsIInv, Spoken, Ask, Reset
<1>4. Judging'
  BY OnlyEmpty DEF GuardsIInv, Judging, Ask, Reset, Own, late
<1>5. OnlyTheVerdictIsDelivered'
  BY DEF GuardsIInv, Judging, OnlyTheVerdictIsDelivered, Ask
<1> QED BY <1>1, <1>2, <1>3, <1>4, <1>5 DEF GuardsIInv

LEMMA AnsweredGuards ==
  ASSUME GuardsIInv, Answered PROVE GuardsIInv'
<1>1. GuardsTypeOK'
  BY GuardBounds DEF GuardsIInv, GuardsTypeOK, Answered, Over, agent, late, clock, ctx
<1>2. Clocked'
  BY ClockSame DEF Answered, ctx
<1>3. Spoken'
  BY DEF GuardsIInv, Spoken, Answered, Over, sink, agent
<1>4. Judging'
  BY DEF GuardsIInv, Judging, Answered, Over, sink, agent, late
<1>5. OnlyTheVerdictIsDelivered'
  <2>1. Own(<<>>) = <<>> /\ IsPrefix(<<>>, said)
    BY OnlyEmpty DEF Own, IsPrefix, GuardsIInv, Spoken
  <2> QED BY <2>1 DEF GuardsIInv, Judging, OnlyTheVerdictIsDelivered, Answered, Over, sink, agent, late
<1> QED BY <1>1, <1>2, <1>3, <1>4, <1>5 DEF GuardsIInv

LEMMA CutGuards ==
  ASSUME GuardsIInv, Cut PROVE GuardsIInv'
<1>1. GuardsTypeOK'
  BY GuardBounds DEF GuardsIInv, GuardsTypeOK, Cut, Over, agent, late, clock, ctx
<1>2. Clocked'
  BY ClockSame DEF Cut, ctx
<1>3. Spoken'
  BY DEF GuardsIInv, Spoken, Cut, Over, sink, agent
<1>4. Judging'
  BY DEF GuardsIInv, Judging, Cut, Over, sink, agent, late
<1>5. OnlyTheVerdictIsDelivered'
  <2>1. Own(<<>>) = <<>> /\ IsPrefix(<<>>, said)
    BY OnlyEmpty DEF Own, IsPrefix, GuardsIInv, Spoken
  <2> QED BY <2>1 DEF GuardsIInv, Judging, OnlyTheVerdictIsDelivered, Cut, Over, sink, agent, late
<1> QED BY <1>1, <1>2, <1>3, <1>4, <1>5 DEF GuardsIInv

LEMMA UnwoundGuards ==
  ASSUME GuardsIInv, Unwound PROVE GuardsIInv'
<1>1. GuardsTypeOK'
  BY GuardBounds DEF GuardsIInv, GuardsTypeOK, Unwound, Over, agent, late, clock, ctx
<1>2. Clocked'
  BY ClockSame DEF Unwound, ctx
<1>3. Spoken'
  BY DEF GuardsIInv, Spoken, Unwound, Over, sink, agent
<1>4. Judging'
  BY DEF GuardsIInv, Judging, Unwound, Over, sink, agent, late
<1>5. OnlyTheVerdictIsDelivered'
  <2>1. Own(<<>>) = <<>> /\ IsPrefix(<<>>, said)
    BY OnlyEmpty DEF Own, IsPrefix, GuardsIInv, Spoken
  <2> QED BY <2>1 DEF GuardsIInv, Judging, OnlyTheVerdictIsDelivered, Unwound, Over, sink, agent, late
<1> QED BY <1>1, <1>2, <1>3, <1>4, <1>5 DEF GuardsIInv

LEMMA ValidateGuards ==
  ASSUME GuardsIInv, Validate PROVE GuardsIInv'
<1> USE GuardBounds
<1>1. phase = "answered" /\ mode # "abstain"
      /\ UNCHANGED <<turn, mode, outcome, delivered, agent, late, clock, ctx>>
  BY DEF Validate
<1>2. buf \in Seq(Chunks) /\ Own(buf) = said /\ refusals \in Nat /\ refusals <= MaxRefusals
      /\ outcome = "none" /\ mode \in Modes
  BY <1>1 DEF GuardsIInv, GuardsTypeOK, Spoken, Judging
<1>3. \/ phase' = "accepted" /\ UNCHANGED <<refusals, buf>> /\ Valid(Text(said))
      \/ phase' = "fallback" /\ UNCHANGED <<refusals, buf>> /\ mode = "fallback"
      \/ phase' = "exhausted" /\ UNCHANGED <<refusals, buf>> /\ mode # "fallback" /\ refusals = MaxRefusals
      \/ phase' = "start" /\ refusals' = refusals + 1 /\ refusals < MaxRefusals /\ buf' = <<>>
  BY <1>2, ValidAlone DEF Validate, Reset
<1>4. GuardsTypeOK'
  BY <1>1, <1>2, <1>3 DEF GuardsIInv, GuardsTypeOK, agent, late, clock, ctx
<1>5. Clocked'
  BY <1>1, ClockSame DEF ctx
<1>6. Spoken'
  <2>1. said' = said /\ delivered' = delivered /\ turn' = turn
    BY <1>1 DEF agent
  <2>2. buf' = buf \/ buf' = <<>>
    BY <1>3
  <2>3. <<>> \in Seq(Chunks)
    OBVIOUS
  <2>4. refusals' = refusals \/ (refusals < MaxRefusals /\ refusals' = refusals + 1)
    BY <1>3
  <2>5. refusals' <= MaxRefusals
    BY <1>2, <2>4
  <2> QED BY <1>1, <1>2, <2>1, <2>2, <2>3, <2>5 DEF GuardsIInv, Spoken
<1>7. Judging'
  BY <1>1, <1>2, <1>3 DEF GuardsIInv, Judging, agent, late, Modes
<1>8. OnlyTheVerdictIsDelivered'
  BY <1>1, <1>2, <1>3 DEF OnlyTheVerdictIsDelivered
<1> QED BY <1>4, <1>5, <1>6, <1>7, <1>8 DEF GuardsIInv

LEMMA AbstainGuards ==
  ASSUME GuardsIInv, Abstain PROVE GuardsIInv'
<1>1. phase = "answered" /\ mode = "abstain"
      /\ UNCHANGED <<turn, mode, refusals, delivered, agent, late, clock, ctx>>
  BY DEF Abstain
<1>2. buf \in Seq(Chunks) /\ Own(buf) = said /\ (~mixed => buf = said) /\ refusals <= MaxRefusals
      /\ outcome = "none" /\ delivered = <<>>
  BY <1>1 DEF GuardsIInv, Spoken, Judging
<1>3. \/ phase' = "over" /\ outcome' = "abstained" /\ buf' = <<>> /\ Declined(Text(buf))
      \/ phase' = "accepted" /\ UNCHANGED <<outcome, buf>> /\ ~Declined(Text(buf))
  BY DEF Abstain, Over, Reset
<1>4. GuardsTypeOK'
  BY <1>1, <1>3 DEF GuardsIInv, GuardsTypeOK, agent, late, clock, ctx
<1>5. Clocked'
  BY <1>1, ClockSame DEF ctx
<1>6. Spoken'
  BY <1>1, <1>2, <1>3 DEF GuardsIInv, Spoken, agent
<1>7. Judging'
  BY <1>1, <1>2, <1>3 DEF GuardsIInv, Judging, agent, late
<1>8. OnlyTheVerdictIsDelivered'
  BY <1>1, <1>2, <1>3 DEF OnlyTheVerdictIsDelivered, agent, late
<1> QED BY <1>4, <1>5, <1>6, <1>7, <1>8 DEF GuardsIInv

LEMMA CommitGuards ==
  ASSUME GuardsIInv, Commit PROVE GuardsIInv'
<1>1. /\ phase \in {"accepted", "exhausted"} /\ buf' = <<>> /\ phase' = "over"
      /\ UNCHANGED <<turn, mode, refusals, agent, late, clock, ctx>>
  BY DEF Commit, Reset, Over
<1>2. PICK n \in 0..Len(buf) :
        /\ delivered' = SubSeq(buf, 1, n)
        /\ outcome' = IF n < Len(buf) THEN "error"
                      ELSE IF phase = "accepted" THEN "ok" ELSE "exhausted"
  BY DEF Commit, Over
<1>3. buf \in Seq(Chunks) /\ Own(buf) = said /\ Len(buf) \in Nat
      /\ \A i \in 1..Len(buf) : buf[i] \in Chunks
  BY <1>1, LenProperties, ElementOfSeq DEF GuardsIInv, Spoken, Judging
<1>4. delivered' \in Seq(Chunks) /\ IsPrefix(Own(delivered'), said)
  <2>1. SubSeq(buf, 1, n) \in Seq(Chunks)
    BY <1>3, SubSeqProperties
  <2>2. IsPrefix(Own(SubSeq(buf, 1, n)), said)
    BY <1>3, OnlyPrefix DEF Own
  <2> QED BY <1>2, <2>1, <2>2
<1>5. n = Len(buf) => Own(delivered') = said
  <2>1. SubSeq(buf, 1, Len(buf)) = buf
    BY <1>3
  <2> QED BY <1>2, <1>3, <2>1
<1>6. GuardsTypeOK'
  BY <1>1, <1>2 DEF GuardsIInv, GuardsTypeOK, agent, late, clock, ctx
<1>7. Clocked'
  BY <1>1, ClockSame DEF ctx
<1>8. Spoken'
  BY <1>1, <1>4 DEF GuardsIInv, Spoken, agent
<1>9. Judging'
  BY <1>1 DEF Judging
<1>10. OnlyTheVerdictIsDelivered'
  BY <1>1, <1>2, <1>3, <1>4, <1>5
  DEF GuardsIInv, Spoken, Judging, OnlyTheVerdictIsDelivered, agent, late
<1> QED BY <1>6, <1>7, <1>8, <1>9, <1>10 DEF GuardsIInv

LEMMA CommitTextGuards ==
  ASSUME GuardsIInv, CommitText PROVE GuardsIInv'
<1>1. /\ phase = "fallback" /\ buf' = <<>> /\ phase' = "over"
      /\ UNCHANGED <<turn, mode, refusals, agent, late, clock, ctx>>
  BY DEF CommitText, Reset, Over
<1> DEFINE c == Chunk(refusals, "mended")
<1>2. \/ delivered' = <<c>> /\ outcome' = "fellback"
      \/ delivered' = delivered /\ outcome' = "error"
  BY DEF CommitText, Over
<1>3. c \in Chunks /\ c \in OwnChunks
  BY <1>1, ChunkKinds
<1>4. Own(<<c>>) = <<c>> /\ <<c>> \in Seq(Chunks)
  <2>1. <<>> \in Seq(Chunks) /\ <<c>> = Append(<<>>, c)
    OBVIOUS
  <2>2. Only(Append(<<>>, c), OwnChunks) = Append(Only(<<>>, OwnChunks), c)
    BY <1>3, <2>1, OnlyAppend
  <2>3. Only(<<>>, OwnChunks) = <<>>
    BY OnlyEmpty
  <2>4. Append(<<>>, c) \in Seq(Chunks)
    BY <1>3, <2>1, AppendProperties
  <2> QED BY <2>1, <2>2, <2>3, <2>4 DEF Own
<1>5. delivered = <<>> /\ mode = "fallback"
  BY <1>1 DEF GuardsIInv, Judging
<1>6. GuardsTypeOK'
  BY <1>1, <1>2 DEF GuardsIInv, GuardsTypeOK, agent, late, clock, ctx
<1>7. Clocked'
  BY <1>1, ClockSame DEF ctx
<1>8. Spoken'
  <2>1. /\ said' = said /\ refusals' = refusals /\ <<>> \in Seq(Chunks)
        /\ said \in Seq(Chunks) /\ delivered \in Seq(Chunks) /\ refusals <= MaxRefusals
    BY <1>1 DEF agent, GuardsIInv, Spoken
  <2>2. delivered' \in Seq(Chunks)
    BY <1>2, <1>4, <2>1
  <2> QED BY <1>1, <2>1, <2>2 DEF Spoken
<1>9. Judging'
  BY <1>1 DEF Judging
<1>10. OnlyTheVerdictIsDelivered'
  <2>1. Own(<<>>) = <<>> /\ IsPrefix(<<>>, said)
    BY OnlyEmpty DEF Own, IsPrefix, GuardsIInv, Spoken
  <2>2. UNCHANGED <<refusals, mode, said, mixed>>
    BY <1>1 DEF agent, late
  <2>3. CASE delivered' = <<c>> /\ outcome' = "fellback"
    <3>1. Chunk(refusals, "mended")' = c /\ refusals <= MaxRefusals
      BY <1>1, <2>2 DEF Chunk, GuardsIInv, Spoken
    <3>2. Own(delivered') = <<c>>
      BY <1>4, <2>3
    <3> HIDE DEF c
    <3> QED BY <1>5, <2>2, <2>3, <3>1, <3>2 DEF OnlyTheVerdictIsDelivered
  <2>4. CASE delivered' = delivered /\ outcome' = "error"
    BY <1>5, <2>1, <2>2, <2>4 DEF GuardsIInv, Spoken, OnlyTheVerdictIsDelivered
  <2> QED BY <1>2, <2>3, <2>4
<1> QED BY <1>6, <1>7, <1>8, <1>9, <1>10 DEF GuardsIInv

LEMMA GuardsStep == GuardsIInv /\ [GuardsNext]_guardsVars => GuardsIInv'
<1> SUFFICES ASSUME GuardsIInv, [GuardsNext]_guardsVars PROVE GuardsIInv'
  OBVIOUS
<1>1. CASE Arm
  BY <1>1, ArmGuards
<1>2. CASE Tick
  BY <1>2, TickGuards
<1>3. CASE Expire
  BY <1>3, ExpireGuards
<1>4. CASE FireWedged
  BY <1>4, FireWedgedGuards
<1>5. CASE FireStopped
  BY <1>5, FireStoppedGuards
<1>6. CASE CancelContext
  BY <1>6, CancelContextGuards
<1>7. CASE CeilingReached
  BY <1>7, CeilingReachedGuards
<1>20. CASE ParentEnds
  BY <1>20, ParentEndsGuards
<1>8. CASE Answer
  BY <1>8, AnswerGuards
<1>9. CASE Ask
  BY <1>9, AskGuards
<1>10. CASE Answered
  BY <1>10, AnsweredGuards
<1>11. CASE Cut
  BY <1>11, CutGuards
<1>12. CASE Unwound
  BY <1>12, UnwoundGuards
<1>13. CASE Validate
  BY <1>13, ValidateGuards
<1>14. CASE Abstain
  BY <1>14, AbstainGuards
<1>15. CASE Commit
  BY <1>15, CommitGuards
<1>16. CASE CommitText
  BY <1>16, CommitTextGuards
<1>17. CASE \E u \in Updates : Update(u)
  BY <1>17, UpdateGuards
<1>18. CASE \E u \in Updates : LateUpdate(u)
  BY <1>18, LateUpdateGuards
<1>19. CASE UNCHANGED guardsVars
  <2>1. UNCHANGED <<loop, sink, said, mixed>> /\ UNCHANGED <<clock, cause>>
    BY <1>19 DEF guardsVars, agent, late, ctx
  <2>2. GuardsTypeOK'
    BY <1>19 DEF GuardsIInv, GuardsTypeOK, guardsVars, loop, agent, late, clock, ctx
  <2> QED BY <2>1, <2>2, MessagesSame, ClockSame DEF GuardsIInv
<1> QED
  BY <1>1, <1>2, <1>3, <1>4, <1>5, <1>6, <1>7, <1>20, <1>8, <1>9, <1>10, <1>11, <1>12, <1>13, <1>14, <1>15, <1>16, <1>17, <1>18, <1>19 DEF GuardsNext

LEMMA GuardsInvariance == GuardsSpec => []GuardsIInv
<1> QED BY GuardsStart, GuardsStep, PTL DEF GuardsSpec

\* No refused attempt reaches the user: what is delivered is all the agent said
\* in its last attempt, accepted, or its mended form, or the last attempt as it
\* is when the refusals are used up (PromptValidated, PromptAbstainable).
THEOREM NoRefusedTextGetsOut == GuardsSpec => []OnlyTheVerdictIsDelivered
<1>1. GuardsIInv => OnlyTheVerdictIsDelivered
  BY DEF GuardsIInv
<1> QED BY <1>1, GuardsInvariance, PTL

\* A turn is cut as wedged only after a whole window of silence, however late
\* its timer is and whatever update crosses it, and what the clock settled on is
\* what the context says (fire).
THEOREM OnlySilenceIsCut == GuardsSpec => CutsAreTrue
<1>1. GuardsIInv /\ [GuardsNext]_guardsVars =>
        [settled # settled' /\ verdict' = "wedged" => silence >= Window]_guardsVars
  <2> SUFFICES ASSUME GuardsIInv, GuardsNext, settled # settled', verdict' = "wedged"
               PROVE silence >= Window
    OBVIOUS
  <2>1. CASE FireWedged
    BY <2>1, GuardBounds DEF FireWedged, Settle, clock, GuardsIInv, GuardsTypeOK, Clocked
  <2>2. CASE FireStopped
    BY <2>2 DEF FireStopped, Settle
  <2>3. CASE Arm
    BY <2>3 DEF Arm
  <2>4. ~FireWedged /\ ~FireStopped /\ ~Arm => settled' = settled
    BY DEF GuardsNext, Tick, Expire, CancelContext, CeilingReached, ParentEnds, Update, LateUpdate, OnUpdate, Progress,
           Answer, Ask, Answered, Cut, Unwound, Validate, Abstain, Commit, CommitText, clock
  <2> QED BY <2>1, <2>2, <2>3, <2>4
<1>2. GuardsSpec => WedgedIsTrue
  BY <1>1, GuardsInvariance, PTL DEF GuardsSpec, WedgedIsTrue
<1>3. GuardsIInv => SettledForGood
  BY DEF GuardsIInv, Clocked
<1>4. GuardsSpec => []SettledForGood
  BY <1>3, GuardsInvariance, PTL
<1> QED BY <1>2, <1>4 DEF CutsAreTrue
=============================================================================
