----------------------------- MODULE ConvoProofs -----------------------------
(* Theorems about what a conversation is told, for every number of          *)
(* conversations, jobs, waiters, items, goroutines, logins and sessions:    *)
(*   - the lanes of Serial mode and the sheddable queue (ConvoLanes,        *)
(*     ConvoQueue);                                                         *)
(*   - the chosen model, the logins and the deferred resets                 *)
(*     (ConvoControl).                                                      *)
EXTENDS ConvoLanes, ConvoQueue, ConvoControl, SequenceTheorems, TLAPS

Elements(s) == {s[n] : n \in DOMAIN s}
Ordered(s) == \A k, n \in DOMAIN s : k < n => s[k] < s[n]
-----------------------------------------------------------------------------
(* The lanes.  While a lane has work it has one drainer, which runs at most *)
(* one job, the oldest job of its lane that has not ended; the others are   *)
(* in the queue, in the order in which they were pushed.                    *)

\* Jobs are pushed in the order of their numbers, and a drainer is named by
\* one of them.
Births ==
    /\ \A j \in Jobs : turn[j] = "new" <=> j > pushed
    /\ \A j \in Jobs : j <= pushed => conv[j] \in Convs
    /\ \A j \in Jobs : j > pushed => conv[j] = NoConv
    /\ \A d \in Jobs : drainer[d].pc # "none" => d <= pushed

\* A lane holds the queued jobs of its conversation, oldest first.
Queues ==
    \A c \in Convs :
        /\ Ordered(lane[c])
        /\ \A j \in Jobs : j \in Elements(lane[c]) <=> conv[j] = c /\ turn[j] = "queued"

\* What a drainer runs has left the queue of its lane, and what has left the
\* queue and not ended is run by a drainer.
Drained ==
    /\ \A d \in Jobs : drainer[d].pc = "run" =>
           /\ drainer[d].job \in Jobs
           /\ conv[drainer[d].job] = conv[d]
           /\ turn[drainer[d].job] \in {"popped", "running"}
    /\ \A j \in Jobs : turn[j] \in {"popped", "running"} =>
           \E d \in Jobs : drainer[d].pc = "run" /\ drainer[d].job = j

Drains(d, c) == conv[d] = c /\ drainer[d].pc \in {"loop", "run"}

\* OneDrainerPerBusyLane, drainer by drainer.
Drainers ==
    \A c \in Convs :
        /\ c \in busy <=> \E d \in Jobs : Drains(d, c)
        /\ \A d, e \in Jobs : Drains(d, c) /\ Drains(e, c) => d = e
        /\ lane[c] # <<>> => c \in busy

Sleepers == busy = {} => parked = {}

\* A caller that has passed the lanes is owed nothing that runs.
Owed ==
    \A w \in Waiters :
        /\ \A j \in wait[w].owed : turn[j] # "new"
        /\ wait[w].pc = "active" => \A j \in wait[w].owed : turn[j] = "done"

IInv ==
    TypeOK /\ Births /\ Queues /\ Drained /\ Drainers /\ Sleepers /\ LaneIsFifo /\ Owed
-----------------------------------------------------------------------------
(* Ordered sequences of jobs                                                *)

LEMMA AppendOrdered ==
  ASSUME NEW s \in Seq(Jobs), Ordered(s), NEW i \in Jobs, \A j \in Elements(s) : j < i
  PROVE  /\ Append(s, i) \in Seq(Jobs) /\ Append(s, i) # <<>>
         /\ Ordered(Append(s, i)) /\ Elements(Append(s, i)) = Elements(s) \cup {i}
<1>1. /\ Append(s, i) \in Seq(Jobs) /\ Append(s, i) # <<>> /\ Len(Append(s, i)) = Len(s) + 1
      /\ \A n \in 1..Len(s) : Append(s, i)[n] = s[n]
      /\ Append(s, i)[Len(s) + 1] = i
  BY AppendProperties
<1>2. DOMAIN s = 1..Len(s) /\ DOMAIN Append(s, i) = 1..(Len(s) + 1) /\ Len(s) \in Nat
  BY <1>1, LenProperties
<1>3. Ordered(Append(s, i))
  BY <1>1, <1>2, MaxJobsAssumption DEF Ordered, Elements, Jobs
<1>4. Elements(Append(s, i)) = Elements(s) \cup {i}
  <2>1. ASSUME NEW x \in Elements(s) \cup {i} PROVE x \in Elements(Append(s, i))
    BY <2>1, <1>1, <1>2 DEF Elements
  <2>2. ASSUME NEW x \in Elements(Append(s, i)) PROVE x \in Elements(s) \cup {i}
    BY <2>2, <1>1, <1>2 DEF Elements
  <2> QED BY <2>1, <2>2
<1> QED BY <1>1, <1>3, <1>4

\* The job at the head is the oldest one.
LEMMA TailOrdered ==
  ASSUME NEW s \in Seq(Jobs), Ordered(s), s # <<>>
  PROVE  /\ Head(s) \in Jobs /\ Head(s) \in Elements(s)
         /\ \A j \in Elements(s) : Head(s) <= j
         /\ Tail(s) \in Seq(Jobs)
         /\ Ordered(Tail(s)) /\ Elements(Tail(s)) = Elements(s) \ {Head(s)}
<1>1. DOMAIN s = 1..Len(s) /\ Len(s) \in Nat \ {0} /\ Head(s) = s[1] /\ s[1] \in Jobs
  BY LenProperties, EmptySeq, ElementOfSeq
<1>2. Tail(s) \in Seq(Jobs) /\ Len(Tail(s)) = Len(s) - 1
      /\ \A k \in 1..(Len(s) - 1) : Tail(s)[k] = s[k + 1]
  BY HeadTailProperties
<1>3. DOMAIN Tail(s) = 1..(Len(s) - 1)
  BY <1>2, LenProperties
<1>4. Ordered(Tail(s))
  BY <1>1, <1>2, <1>3 DEF Ordered
<1>5. \A k \in DOMAIN s : k # 1 => s[1] < s[k]
  BY <1>1 DEF Ordered
<1>6. \A j \in Elements(s) : s[1] <= j
  BY <1>1, <1>5, MaxJobsAssumption DEF Elements, Jobs
<1>7. Elements(Tail(s)) = Elements(s) \ {s[1]}
  <2>1. \A k \in DOMAIN s : k # 1 => s[k] # s[1]
    BY <1>1, <1>5, MaxJobsAssumption DEF Jobs
  <2>2. ASSUME NEW x \in Elements(Tail(s)) PROVE x \in Elements(s) \ {s[1]}
    BY <1>1, <1>2, <1>3, <2>1, <2>2 DEF Elements
  <2>3. ASSUME NEW k \in DOMAIN s, k # 1 PROVE s[k] \in Elements(Tail(s))
    <3>1. k - 1 \in DOMAIN Tail(s) /\ Tail(s)[k - 1] = s[k]
      BY <1>1, <1>2, <1>3, <2>3
    <3> QED BY <3>1 DEF Elements
  <2> QED BY <2>2, <2>3 DEF Elements
<1>8. Head(s) \in Elements(s)
  BY <1>1 DEF Elements
<1> QED BY <1>1, <1>2, <1>4, <1>6, <1>7, <1>8
-----------------------------------------------------------------------------
(* The steps                                                                *)

LEMMA InitIInv == Init => IInv
<1> SUFFICES ASSUME Init PROVE IInv
  OBVIOUS
<1>1. TypeOK
  <2>1. lane \in [Convs -> Seq(Jobs)]
    BY EmptySeq DEF Init
  <2>2. drainer \in [Jobs -> [pc: {"none", "loop", "run", "gone"}, job: Jobs \cup {NoTurn}]]
    BY DEF Init
  <2>3. wait \in [Waiters -> [pc: {"idle", "lanes", "active"}, owed: SUBSET Jobs]]
    BY DEF Init
  <2> QED BY <2>1, <2>2, <2>3, MaxJobsAssumption DEF Init, TypeOK
<1>2. Births /\ Drained /\ Drainers /\ Sleepers /\ LaneIsFifo /\ Owed
  BY MaxJobsAssumption
     DEF Init, Births, Drained, Drainers, Drains, Sleepers, LaneIsFifo, Owed, Jobs
<1>3. Queues
  BY DEF Init, Queues, Ordered, Elements
<1> QED BY <1>1, <1>2, <1>3 DEF IInv

\* The waiters' invariant is kept by a turn that goes forward.
LEMMA OwedForward ==
  ASSUME TypeOK, Owed, UNCHANGED wait,
         \A j \in Jobs : turn[j] # "new" => turn'[j] # "new",
         \A j \in Jobs : turn[j] = "done" => turn'[j] = "done"
  PROVE  Owed'
<1>1. \A w \in Waiters : wait[w].owed \subseteq Jobs
  BY DEF TypeOK
<1> QED BY <1>1 DEF Owed

\* push: the new job is the youngest of its lane, and the lane has a drainer.
LEMMA PushIInv ==
  ASSUME IInv, NEW c \in Convs, Push(c)
  PROVE  IInv'
<1> DEFINE j == pushed + 1
<1> USE MaxJobsAssumption
<1>1. /\ TypeOK /\ pushed < MaxJobs /\ pushed \in Nat
      /\ pushed' = j
      /\ conv' = [conv EXCEPT ![j] = c]
      /\ lane' = [lane EXCEPT ![c] = Append(@, j)]
      /\ busy' = busy \cup {c}
      /\ turn' = [turn EXCEPT ![j] = "queued"]
      /\ drainer' = IF c \in busy THEN drainer ELSE [drainer EXCEPT ![j].pc = "loop"]
      /\ behind' = [behind EXCEPT ![j] = Running(c)]
      /\ UNCHANGED <<m, wait, ctxDone, parked>>
  BY DEF Push, IInv, TypeOK
<1>2. /\ j \in Jobs /\ j \notin Claims /\ turn[j] = "new" /\ conv[j] = NoConv /\ drainer[j].pc = "none"
  BY <1>1 DEF IInv, Births, Jobs, Claims, TypeOK
<1>3. /\ conv \in [Jobs \cup Claims -> Convs \cup {NoConv}]
      /\ lane \in [Convs -> Seq(Jobs)]
      /\ drainer \in [Jobs -> [pc: {"none", "loop", "run", "gone"}, job: Jobs \cup {NoTurn}]]
      /\ turn \in [Jobs \cup Claims -> {"new", "queued", "popped", "running", "done"}]
  BY <1>1 DEF TypeOK
<1> HIDE DEF j
<1>4. /\ Append(lane[c], j) \in Seq(Jobs) /\ Append(lane[c], j) # <<>>
      /\ Ordered(Append(lane[c], j))
      /\ Elements(Append(lane[c], j)) = Elements(lane[c]) \cup {j}
  <2>1. lane[c] \in Seq(Jobs) /\ Ordered(lane[c])
    BY <1>3 DEF IInv, Queues
  <2>2. ASSUME NEW i \in Elements(lane[c]) PROVE i < j
    <3>1. i \in Jobs /\ turn[i] = "queued"
      BY <2>1, LenProperties, ElementOfSeq DEF IInv, Queues, Elements
    <3> QED BY <1>1, <3>1 DEF IInv, Births, Jobs, j
  <2> QED BY <1>2, <2>1, <2>2, AppendOrdered
<1>5. TypeOK'
  <2>1. pushed' \in 0..MaxJobs
    BY <1>1 DEF j
  <2>2. Running(c) \in SUBSET (Jobs \cup Claims)
    BY DEF Running
  <2>3. drainer' \in [Jobs -> [pc: {"none", "loop", "run", "gone"}, job: Jobs \cup {NoTurn}]]
    BY <1>1, <1>2, <1>3
  <2> QED BY <1>1, <1>2, <1>3, <1>4, <2>1, <2>2, <2>3 DEF TypeOK
<1>6. \A i \in Jobs : i # j => turn'[i] = turn[i] /\ conv'[i] = conv[i]
  BY <1>1, <1>3
<1>7. turn'[j] = "queued" /\ conv'[j] = c
  BY <1>1, <1>2, <1>3
<1>8. \A d \in Jobs : /\ drainer'[d].job = drainer[d].job
                      /\ d # j \/ c \in busy => drainer'[d].pc = drainer[d].pc
                      /\ d = j /\ c \notin busy => drainer'[d].pc = "loop"
  BY <1>1, <1>2, <1>3
<1>9. Births'
  BY <1>1, <1>2, <1>6, <1>7, <1>8 DEF IInv, Births, Jobs, j
<1>10. Queues'
  <2> SUFFICES ASSUME NEW k \in Convs
               PROVE  /\ Ordered(lane'[k])
                      /\ \A i \in Jobs : i \in Elements(lane'[k]) <=> conv'[i] = k /\ turn'[i] = "queued"
    BY DEF Queues, Elements, Ordered
  <2>1. CASE k = c
    <3>1. lane'[k] = Append(lane[c], j)
      BY <1>1, <1>3, <2>1
    <3> QED BY <1>2, <1>4, <1>6, <1>7, <2>1, <3>1 DEF IInv, Queues
  <2>2. CASE k # c
    <3>1. lane'[k] = lane[k]
      BY <1>1, <1>3, <2>2
    <3> QED BY <1>2, <1>6, <1>7, <2>2, <3>1 DEF IInv, Queues
  <2> QED BY <2>1, <2>2
<1>11. Drained'
  BY <1>2, <1>6, <1>7, <1>8 DEF IInv, Drained
<1>12. \A d \in Jobs, k \in Convs :
          Drains(d, k)' <=> Drains(d, k) \/ (d = j /\ k = c /\ c \notin busy)
  BY <1>2, <1>6, <1>7, <1>8 DEF Drains, IInv, Births
<1>13. Drainers'
  BY <1>1, <1>2, <1>3, <1>12 DEF IInv, Drainers
<1>14. Sleepers'
  BY <1>1 DEF Sleepers
<1>15. LaneIsFifo'
  <2> SUFFICES ASSUME NEW i \in Jobs, NEW k \in Jobs, i < k, conv'[i] = conv'[k],
                      turn'[k] \in {"popped", "running", "done"}
               PROVE  turn'[i] = "done"
    BY DEF LaneIsFifo
  <2>1. k # j /\ turn[k] # "new"
    BY <1>6, <1>7
  <2>2. i # j
    BY <1>1, <2>1 DEF IInv, Births, Jobs, j
  <2> QED BY <1>6, <2>1, <2>2 DEF IInv, LaneIsFifo
<1>16. Owed'
  BY <1>1, <1>2, <1>6, <1>7, OwedForward DEF IInv
<1> QED BY <1>5, <1>9, <1>10, <1>11, <1>13, <1>14, <1>15, <1>16 DEF IInv

\* What is known of the lane of a drainer.
LEMMA LaneOf ==
  ASSUME IInv, NEW d \in Jobs, drainer[d].pc \in {"loop", "run"}
  PROVE  /\ conv[d] \in Convs /\ Drains(d, conv[d])
         /\ \A e \in Jobs : conv[e] = conv[d] /\ drainer[e].pc \in {"loop", "run"} => e = d
         /\ lane[conv[d]] \in Seq(Jobs) /\ Ordered(lane[conv[d]])
<1>1. conv[d] \in Convs
  BY DEF IInv, Births
<1>2. \A e \in Jobs : conv[e] = conv[d] /\ drainer[e].pc \in {"loop", "run"} => e = d
  BY <1>1 DEF IInv, Drainers, Drains
<1> QED BY <1>1, <1>2 DEF IInv, TypeOK, Queues, Drains

\* drain takes the oldest job: everything older in its lane has ended.
LEMMA DrainPopIInv ==
  ASSUME IInv, NEW d \in Jobs, DrainPop(d)
  PROVE  IInv'
<1> DEFINE c == conv[d]
           j == Head(lane[c])
<1> USE MaxJobsAssumption
<1>1. /\ TypeOK /\ drainer[d].pc = "loop" /\ lane[c] # <<>>
      /\ lane' = [lane EXCEPT ![c] = Tail(@)]
      /\ drainer' = [drainer EXCEPT ![d] = [pc |-> "run", job |-> j]]
      /\ turn' = [turn EXCEPT ![j] = "popped"]
      /\ UNCHANGED <<pushed, conv, busy, m, wait, ctxDone, parked, behind>>
  BY DEF DrainPop, IInv
<1>2. /\ conv \in [Jobs \cup Claims -> Convs \cup {NoConv}]
      /\ lane \in [Convs -> Seq(Jobs)]
      /\ drainer \in [Jobs -> [pc: {"none", "loop", "run", "gone"}, job: Jobs \cup {NoTurn}]]
      /\ turn \in [Jobs \cup Claims -> {"new", "queued", "popped", "running", "done"}]
  BY <1>1 DEF TypeOK
<1>3. /\ c \in Convs /\ lane[c] \in Seq(Jobs) /\ Ordered(lane[c])
      /\ \A e \in Jobs : conv[e] = c /\ drainer[e].pc \in {"loop", "run"} => e = d
  BY <1>1, LaneOf
<1>4. /\ j \in Jobs /\ j \in Elements(lane[c])
      /\ \A i \in Elements(lane[c]) : j <= i
      /\ Tail(lane[c]) \in Seq(Jobs)
      /\ Ordered(Tail(lane[c])) /\ Elements(Tail(lane[c])) = Elements(lane[c]) \ {j}
  BY <1>1, <1>3, TailOrdered
<1> HIDE DEF j, c
<1>5. conv[j] = c /\ turn[j] = "queued"
  BY <1>3, <1>4 DEF IInv, Queues
<1>6. \A i \in Jobs : turn'[i] = IF i = j THEN "popped" ELSE turn[i]
  BY <1>1, <1>2
<1>7. /\ drainer'[d].pc = "run" /\ drainer'[d].job = j
      /\ \A e \in Jobs : e # d => drainer'[e] = drainer[e]
  BY <1>1, <1>2
<1>8. TypeOK'
  <2>1. drainer' \in [Jobs -> [pc: {"none", "loop", "run", "gone"}, job: Jobs \cup {NoTurn}]]
    BY <1>1, <1>2, <1>4
  <2> QED BY <1>1, <1>2, <1>3, <1>4, <2>1 DEF TypeOK
<1>9. Births'
  BY <1>1, <1>5, <1>6, <1>7 DEF IInv, Births
<1>10. Queues'
  <2> SUFFICES ASSUME NEW k \in Convs
               PROVE  /\ Ordered(lane'[k])
                      /\ \A i \in Jobs : i \in Elements(lane'[k]) <=> conv[i] = k /\ turn'[i] = "queued"
    BY <1>1 DEF Queues, Elements, Ordered
  <2>1. CASE k = c
    <3>1. lane'[k] = Tail(lane[c])
      BY <1>1, <1>2, <2>1
    <3> QED BY <1>4, <1>6, <2>1, <3>1 DEF IInv, Queues
  <2>2. CASE k # c
    <3>1. lane'[k] = lane[k]
      BY <1>1, <1>2, <1>3, <2>2
    <3> QED BY <1>5, <1>6, <2>2, <3>1 DEF IInv, Queues
  <2> QED BY <2>1, <2>2
<1>11. Drained'
  <2>1. \A e \in Jobs : e # d /\ drainer[e].pc = "run" => drainer[e].job # j
    BY <1>5 DEF IInv, Drained
  <2>2. ASSUME NEW e \in Jobs, drainer'[e].pc = "run"
        PROVE  /\ drainer'[e].job \in Jobs
               /\ conv[drainer'[e].job] = conv[e]
               /\ turn'[drainer'[e].job] \in {"popped", "running"}
    <3>1. CASE e = d
      BY <1>4, <1>5, <1>6, <1>7, <3>1 DEF c
    <3>2. CASE e # d
      BY <1>6, <1>7, <2>1, <2>2, <3>2 DEF IInv, Drained
    <3> QED BY <3>1, <3>2
  <2>3. ASSUME NEW i \in Jobs, turn'[i] \in {"popped", "running"}
        PROVE  \E e \in Jobs : drainer'[e].pc = "run" /\ drainer'[e].job = i
    <3>1. CASE i = j
      BY <1>7, <3>1
    <3>2. CASE i # j
      <4>1. PICK e \in Jobs : drainer[e].pc = "run" /\ drainer[e].job = i
        BY <1>6, <2>3, <3>2 DEF IInv, Drained
      <4>2. e # d
        BY <1>1, <4>1
      <4> QED BY <1>7, <4>1, <4>2
    <3> QED BY <3>1, <3>2
  <2> QED BY <1>1, <2>2, <2>3 DEF Drained
<1>12. \A e \in Jobs, k \in Convs : Drains(e, k)' <=> Drains(e, k)
  BY <1>1, <1>7 DEF Drains
<1>13. Drainers'
  <2>1. \A k \in Convs : lane'[k] # <<>> => lane[k] # <<>>
    BY <1>1, <1>2
  <2> QED BY <1>1, <1>12, <2>1 DEF IInv, Drainers
<1>14. Sleepers'
  BY <1>1 DEF IInv, Sleepers
<1>15. LaneIsFifo'
  <2> SUFFICES ASSUME NEW i \in Jobs, NEW k \in Jobs, i < k, conv[i] = conv[k],
                      turn'[k] \in {"popped", "running", "done"}
               PROVE  turn'[i] = "done"
    BY <1>1 DEF LaneIsFifo
  <2>1. CASE k # j
    <3>1. turn[i] = "done"
      BY <1>6, <2>1 DEF IInv, LaneIsFifo
    <3> QED BY <1>5, <1>6, <3>1
  <2>2. CASE k = j
    <3>1. turn[i] # "new"
      BY <1>5, <2>2 DEF IInv, Births, Jobs, TypeOK
    <3>2. turn[i] # "queued"
      <4>1. ASSUME turn[i] = "queued" PROVE FALSE
        <5>1. i \in Elements(lane[c])
          BY <1>3, <1>5, <2>2, <4>1 DEF IInv, Queues
        <5> QED BY <1>4, <2>2, <5>1 DEF Jobs
      <4> QED BY <4>1
    <3>3. turn[i] \notin {"popped", "running"}
      <4>1. ASSUME turn[i] \in {"popped", "running"} PROVE FALSE
        <5>1. PICK e \in Jobs : drainer[e].pc = "run" /\ drainer[e].job = i
          BY <4>1 DEF IInv, Drained
        <5>2. conv[e] = c
          BY <1>5, <2>2, <5>1 DEF IInv, Drained
        <5> QED BY <1>1, <1>3, <5>1, <5>2
      <4> QED BY <4>1
    <3>4. turn[i] = "done"
      BY <1>2, <3>1, <3>2, <3>3
    <3> QED BY <1>5, <1>6, <3>4
  <2> QED BY <2>1, <2>2
<1>16. Owed'
  BY <1>1, <1>5, <1>6, OwedForward DEF IInv
<1> QED BY <1>8, <1>9, <1>10, <1>11, <1>13, <1>14, <1>15, <1>16 DEF IInv

\* A drainer that leaves its empty lane takes the key along.
LEMMA DrainExitIInv ==
  ASSUME IInv, NEW d \in Jobs, DrainExit(d)
  PROVE  IInv'
<1> DEFINE c == conv[d]
<1>1. /\ TypeOK /\ drainer[d].pc = "loop" /\ lane[c] = <<>>
      /\ busy' = busy \ {c} /\ parked' = {}
      /\ drainer' = [drainer EXCEPT ![d].pc = "gone"]
      /\ UNCHANGED <<pushed, conv, lane, turn, m, wait, ctxDone, behind>>
  BY DEF DrainExit, IInv
<1>2. drainer \in [Jobs -> [pc: {"none", "loop", "run", "gone"}, job: Jobs \cup {NoTurn}]]
  BY <1>1 DEF TypeOK
<1>3. c \in Convs /\ \A e \in Jobs : conv[e] = c /\ drainer[e].pc \in {"loop", "run"} => e = d
  BY <1>1, LaneOf
<1>4. /\ drainer'[d].pc = "gone" /\ \A e \in Jobs : e # d => drainer'[e] = drainer[e]
      /\ drainer' \in [Jobs -> [pc: {"none", "loop", "run", "gone"}, job: Jobs \cup {NoTurn}]]
  BY <1>1, <1>2
<1>5. TypeOK'
  BY <1>1, <1>4 DEF TypeOK
<1>6. Births' /\ Queues' /\ Sleepers' /\ LaneIsFifo' /\ Owed'
  BY <1>1, <1>4
     DEF IInv, Births, Queues, Ordered, Elements, Sleepers, LaneIsFifo, Owed
<1>7. Drained'
  <2>1. \A e \in Jobs : drainer'[e].pc = "run" <=> drainer[e].pc = "run"
    BY <1>1, <1>4
  <2>2. \A e \in Jobs : drainer[e].pc = "run" => drainer'[e] = drainer[e]
    BY <1>1, <1>4
  <2> QED BY <1>1, <2>1, <2>2 DEF IInv, Drained
<1>8. \A e \in Jobs, k \in Convs : Drains(e, k)' <=> Drains(e, k) /\ e # d
  BY <1>1, <1>4 DEF Drains
<1>9. Drainers'
  <2> SUFFICES ASSUME NEW k \in Convs
               PROVE  /\ k \in busy' <=> \E e \in Jobs : Drains(e, k)'
                      /\ \A e, f \in Jobs : Drains(e, k)' /\ Drains(f, k)' => e = f
                      /\ lane[k] # <<>> => k \in busy'
    BY <1>1 DEF Drainers
  <2>1. CASE k = c
    BY <1>1, <1>3, <1>8, <2>1 DEF Drains
  <2>2. CASE k # c
    <3>1. ~Drains(d, k)
      BY <2>2 DEF Drains
    <3> QED BY <1>1, <1>8, <2>2, <3>1 DEF IInv, Drainers
  <2> QED BY <2>1, <2>2
<1> QED BY <1>5, <1>6, <1>7, <1>9 DEF IInv

\* A job starts: its drainer goes on running it.
LEMMA BeginIInv ==
  ASSUME IInv, NEW d \in Jobs, Begin(d)
  PROVE  IInv'
<1> DEFINE j == drainer[d].job
<1>1. /\ TypeOK /\ drainer[d].pc = "run" /\ turn[j] = "popped"
      /\ m' = [m EXCEPT ![conv[j]] = j]
      /\ turn' = [turn EXCEPT ![j] = "running"]
      /\ UNCHANGED <<pushed, conv, lane, busy, drainer, wait, ctxDone, parked, behind>>
  BY DEF Begin, IInv
<1>2. j \in Jobs
  BY <1>1 DEF IInv, Drained
<1>3. \A i \in Jobs : turn'[i] = IF i = j THEN "running" ELSE turn[i]
  BY <1>1, <1>2 DEF TypeOK
<1> HIDE DEF j
<1>4. TypeOK'
  BY <1>1, <1>2 DEF TypeOK
<1>5. Births' /\ Queues' /\ Drained' /\ Sleepers' /\ LaneIsFifo'
  BY <1>1, <1>2, <1>3
     DEF IInv, Births, Queues, Ordered, Elements, Drained, Sleepers, LaneIsFifo
<1>6. Drainers'
  BY <1>1 DEF IInv, Drainers, Drains
<1>7. Owed'
  BY <1>1, <1>2, <1>3, OwedForward DEF IInv
<1> QED BY <1>4, <1>5, <1>6, <1>7 DEF IInv

\* A job ends: its drainer is free.
LEMMA JobDoneIInv ==
  ASSUME IInv, NEW d \in Jobs, JobDone(d)
  PROVE  IInv'
<1> DEFINE j == drainer[d].job
<1>1. /\ TypeOK /\ drainer[d].pc = "run" /\ turn[j] = "running"
      /\ turn' = [turn EXCEPT ![j] = "done"]
      /\ drainer' = [drainer EXCEPT ![d] = [pc |-> "loop", job |-> NoTurn]]
      /\ Deregister(j)
      /\ UNCHANGED <<pushed, conv, lane, busy, wait, ctxDone, parked, behind>>
  BY DEF JobDone, IInv
<1>2. j \in Jobs
  BY <1>1 DEF IInv, Drained
<1>3. \A i \in Jobs : turn'[i] = IF i = j THEN "done" ELSE turn[i]
  BY <1>1, <1>2 DEF TypeOK
<1>4. /\ drainer' \in [Jobs -> [pc: {"none", "loop", "run", "gone"}, job: Jobs \cup {NoTurn}]]
      /\ drainer'[d].pc = "loop" /\ \A e \in Jobs : e # d => drainer'[e] = drainer[e]
  BY <1>1 DEF TypeOK
<1>5. \A e \in Jobs : e # d /\ drainer[e].pc = "run" => drainer[e].job # j
  BY <1>1, LaneOf DEF IInv, Drained
<1>6. m' \in [Convs -> Jobs \cup Claims \cup {NoTurn}]
  BY <1>1 DEF Deregister, TypeOK
<1> HIDE DEF j
<1>7. TypeOK'
  BY <1>1, <1>2, <1>4, <1>6 DEF TypeOK
<1>8. Births' /\ Queues' /\ Sleepers' /\ LaneIsFifo'
  BY <1>1, <1>2, <1>3, <1>4
     DEF IInv, Births, Queues, Ordered, Elements, Sleepers, LaneIsFifo
<1>9. Drained'
  <2>1. ASSUME NEW e \in Jobs, drainer'[e].pc = "run"
        PROVE  /\ drainer'[e].job \in Jobs
               /\ conv[drainer'[e].job] = conv[e]
               /\ turn'[drainer'[e].job] \in {"popped", "running"}
    <3>1. e # d /\ drainer'[e] = drainer[e]
      BY <1>4, <2>1
    <3> QED BY <1>3, <1>5, <2>1, <3>1 DEF IInv, Drained
  <2>2. ASSUME NEW i \in Jobs, turn'[i] \in {"popped", "running"}
        PROVE  \E e \in Jobs : drainer'[e].pc = "run" /\ drainer'[e].job = i
    <3>1. i # j /\ turn[i] \in {"popped", "running"}
      BY <1>3, <2>2
    <3>2. PICK e \in Jobs : drainer[e].pc = "run" /\ drainer[e].job = i
      BY <3>1 DEF IInv, Drained
    <3>3. e # d
      BY <3>1, <3>2 DEF j
    <3> QED BY <1>4, <3>2, <3>3
  <2> QED BY <1>1, <2>1, <2>2 DEF Drained
<1>10. \A e \in Jobs, k \in Convs : Drains(e, k)' <=> Drains(e, k)
  BY <1>1, <1>4 DEF Drains
<1>11. Drainers'
  BY <1>1, <1>10 DEF IInv, Drainers
<1>12. Owed'
  BY <1>1, <1>2, <1>3, OwedForward DEF IInv
<1> QED BY <1>7, <1>8, <1>9, <1>11, <1>12 DEF IInv

\* Stop and the claimed turns touch no job.
LEMMA RegistryIInv ==
  ASSUME IInv,
         \/ \E c \in Convs : Stop(c)
         \/ \E t \in Claims : ClaimDone(t) \/ \E c \in Convs : Claim(t, c)
  PROVE  IInv'
<1> DEFINE Same == /\ UNCHANGED <<pushed, lane, busy, drainer, wait, ctxDone, parked, behind>>
                   /\ \A j \in Jobs : turn'[j] = turn[j] /\ conv'[j] = conv[j]
<1>a. /\ TypeOK /\ \A t \in Claims : t \notin Jobs
      /\ conv \in [Jobs \cup Claims -> Convs \cup {NoConv}]
      /\ turn \in [Jobs \cup Claims -> {"new", "queued", "popped", "running", "done"}]
      /\ m \in [Convs -> Jobs \cup Claims \cup {NoTurn}]
  BY MaxJobsAssumption DEF IInv, TypeOK, Jobs, Claims
<1>b. ASSUME NEW c \in Convs, Stop(c) PROVE Same /\ TypeOK'
  BY <1>a, <1>b DEF Stop, TypeOK
<1>c. ASSUME NEW t \in Claims, NEW c \in Convs, Claim(t, c) PROVE Same /\ TypeOK'
  <2>1. Same
    BY <1>a, <1>c DEF Claim
  <2>2. /\ conv' \in [Jobs \cup Claims -> Convs \cup {NoConv}]
        /\ turn' \in [Jobs \cup Claims -> {"new", "queued", "popped", "running", "done"}]
        /\ m' \in [Convs -> Jobs \cup Claims \cup {NoTurn}]
    BY <1>a, <1>c DEF Claim
  <2> QED BY <1>a, <2>1, <2>2 DEF TypeOK
<1>d. ASSUME NEW t \in Claims, ClaimDone(t) PROVE Same /\ TypeOK'
  <2>1. Same /\ UNCHANGED conv
    BY <1>a, <1>d DEF ClaimDone
  <2>2. /\ turn' \in [Jobs \cup Claims -> {"new", "queued", "popped", "running", "done"}]
        /\ m' \in [Convs -> Jobs \cup Claims \cup {NoTurn}]
    BY <1>a, <1>d DEF ClaimDone, Deregister
  <2> QED BY <1>a, <2>1, <2>2 DEF TypeOK
<1>1. Same /\ TypeOK
  BY <1>a, <1>b, <1>c, <1>d
<1>2. TypeOK'
  BY <1>b, <1>c, <1>d
<1>3. Births' /\ Queues' /\ Drained' /\ Sleepers' /\ LaneIsFifo'
  BY <1>1 DEF IInv, TypeOK, Births, Queues, Ordered, Elements, Drained, Sleepers, LaneIsFifo
<1>4. Drainers'
  BY <1>1 DEF IInv, Drainers, Drains
<1>5. Owed'
  BY <1>1, OwedForward DEF IInv
<1> QED BY <1>2, <1>3, <1>4, <1>5 DEF IInv

\* While no lane is busy no job is queued or runs.
LEMMA NothingBusy ==
  ASSUME IInv, busy = {}, NEW j \in Jobs
  PROVE  turn[j] \in {"new", "done"}
<1>1. turn[j] # "new" => conv[j] \in Convs
  BY MaxJobsAssumption DEF IInv, TypeOK, Births, Jobs
<1>2. turn[j] # "queued"
  <2>1. ASSUME turn[j] = "queued" PROVE FALSE
    <3>1. conv[j] \in Convs /\ j \in Elements(lane[conv[j]])
      BY <1>1, <2>1 DEF IInv, Queues
    <3>2. lane[conv[j]] # <<>>
      BY <3>1 DEF Elements
    <3> QED BY <3>1, <3>2 DEF IInv, Drainers
  <2> QED BY <2>1
<1>3. turn[j] \notin {"popped", "running"}
  <2>1. ASSUME NEW d \in Jobs, drainer[d].pc = "run" PROVE FALSE
    BY <2>1, LaneOf DEF IInv, Drainers
  <2> QED BY <2>1 DEF IInv, Drained
<1> QED BY <1>2, <1>3 DEF IInv, TypeOK

\* A waiter is let past the lanes only while none is busy.
LEMMA WaitIInv ==
  ASSUME IInv,
         \/ \E w \in Waiters : WaitIdle(w) \/ WaitStep(w)
         \/ \E w \in Impatient : ContextEnds(w) \/ WakeOnDone(w)
  PROVE  IInv'
<1>1. UNCHANGED <<pushed, conv, lane, busy, drainer, turn, m, behind>>
  BY DEF WaitIdle, WaitStep, LanesIdle, ActiveIdle, ContextEnds, WakeOnDone
<1>2. Births' /\ Queues' /\ Drained' /\ LaneIsFifo'
  BY <1>1 DEF IInv, Births, Queues, Ordered, Elements, Drained, LaneIsFifo
<1>3. Drainers'
  BY <1>1 DEF IInv, Drainers, Drains
<1>4. Sleepers'
  BY <1>1 DEF IInv, Sleepers, WaitIdle, WaitStep, LanesIdle, ActiveIdle, ContextEnds, WakeOnDone
<1> DEFINE Wait == [pc: {"idle", "lanes", "active"}, owed: SUBSET Jobs]
<1>5. TypeOK /\ wait \in [Waiters -> Wait]
  BY DEF IInv, TypeOK
<1>6. ASSUME NEW w \in Waiters, NEW r \in Wait, wait' = [wait EXCEPT ![w] = r],
             \A j \in r.owed : turn[j] # "new",
             r.pc = "active" => \A j \in r.owed : turn[j] = "done",
             parked' \subseteq Waiters, ctxDone' \subseteq Impatient
      PROVE  TypeOK' /\ Owed'
  <2>1. TypeOK'
    BY <1>1, <1>5, <1>6 DEF TypeOK
  <2>2. Owed'
    <3> SUFFICES ASSUME NEW v \in Waiters
                 PROVE  /\ \A j \in wait'[v].owed : turn[j] # "new"
                        /\ wait'[v].pc = "active" => \A j \in wait'[v].owed : turn[j] = "done"
      BY <1>1 DEF Owed
    <3>1. CASE v = w
      <4>1. wait'[v] = r
        BY <1>5, <1>6, <3>1
      <4> QED BY <1>6, <4>1
    <3>2. CASE v # w
      <4>1. wait'[v] = wait[v]
        BY <1>5, <1>6, <3>2
      <4> QED BY <4>1 DEF IInv, Owed
    <3> QED BY <3>1, <3>2
  <2> QED BY <2>1, <2>2
<1>7. ASSUME NEW w \in Waiters, WaitIdle(w) PROVE TypeOK' /\ Owed'
  <2> DEFINE r == [pc |-> "lanes", owed |-> {j \in Jobs : turn[j] \notin {"new", "done"}}]
  <2>1. r \in Wait /\ wait' = [wait EXCEPT ![w] = r] /\ UNCHANGED <<parked, ctxDone>>
    BY <1>7 DEF WaitIdle
  <2> QED BY <1>5, <1>6, <2>1 DEF TypeOK
<1>8. ASSUME NEW w \in Waiters, LanesIdle(w) PROVE TypeOK' /\ Owed'
  <2>1. CASE busy # {} /\ w \notin ctxDone
    <3>1. parked' = parked \cup {w} /\ UNCHANGED <<wait, ctxDone>>
      BY <1>8, <2>1 DEF LanesIdle
    <3> QED BY <1>1, <1>5, <3>1 DEF TypeOK, IInv, Owed
  <2>2. CASE ~(busy # {} /\ w \notin ctxDone)
    <3> DEFINE r == [pc |-> IF w \in ctxDone THEN "idle" ELSE "active",
                     owed |-> IF w \in ctxDone THEN {} ELSE wait[w].owed]
    <3>1. r \in Wait /\ wait[w] \in Wait
      BY <1>5
    <3>2. wait' = [wait EXCEPT ![w] = r] /\ ctxDone' = ctxDone \ {w} /\ UNCHANGED parked
      BY <1>5, <1>8, <2>2, <3>1 DEF LanesIdle
    <3>3. \A j \in r.owed : turn[j] # "new"
      BY DEF IInv, Owed
    <3>4. r.pc = "active" => \A j \in r.owed : turn[j] = "done"
      BY <2>2, <3>1, <3>3, NothingBusy
    <3> QED BY <1>5, <1>6, <3>1, <3>2, <3>3, <3>4 DEF TypeOK
  <2> QED BY <2>1, <2>2
<1>9. ASSUME NEW w \in Waiters, ActiveIdle(w) PROVE TypeOK' /\ Owed'
  <2> DEFINE r == [pc |-> "idle", owed |-> {}]
  <2>1. /\ r \in Wait /\ wait' = [wait EXCEPT ![w] = r]
        /\ ctxDone' = ctxDone \ {w} /\ UNCHANGED parked
    BY <1>9 DEF ActiveIdle
  <2> QED BY <1>5, <1>6, <2>1 DEF TypeOK
<1>10. ASSUME NEW w \in Impatient, ContextEnds(w) \/ WakeOnDone(w) PROVE TypeOK' /\ Owed'
  BY <1>1, <1>5, <1>10 DEF ContextEnds, WakeOnDone, TypeOK, IInv, Owed
<1>11. TypeOK' /\ Owed'
  BY <1>7, <1>8, <1>9, <1>10 DEF WaitStep
<1> QED BY <1>2, <1>3, <1>4, <1>11 DEF IInv

-----------------------------------------------------------------------------
(* The theorems                                                             *)

\* The invariant, for every number of conversations, jobs, claims and waiters.
THEOREM Invariance == Spec => []IInv
<1>1. Init => IInv
  BY InitIInv
<1>2. ASSUME IInv, [Next]_vars PROVE IInv'
  <2>1. CASE UNCHANGED vars
    BY <1>2, <2>1 DEF vars, IInv, TypeOK, Births, Queues, Ordered, Elements, Drained, Drainers,
                      Drains, Sleepers, LaneIsFifo, Owed
  <2>2. ASSUME NEW c \in Convs, Push(c) \/ Stop(c) PROVE IInv'
    BY <1>2, <2>2, PushIInv, RegistryIInv
  <2>3. ASSUME NEW d \in Jobs, DrainStep(d) PROVE IInv'
    BY <1>2, <2>3, DrainPopIInv, DrainExitIInv, BeginIInv, JobDoneIInv DEF DrainStep
  <2>4. CASE \E t \in Claims : ClaimDone(t) \/ \E c \in Convs : Claim(t, c)
    BY <1>2, <2>4, RegistryIInv
  <2>5. CASE \/ \E w \in Waiters : WaitIdle(w) \/ WaitStep(w)
             \/ \E w \in Impatient : ContextEnds(w) \/ WakeOnDone(w)
    BY <1>2, <2>5, WaitIInv
  <2> QED BY <1>2, <2>1, <2>2, <2>3, <2>4, <2>5 DEF Next
<1> QED BY <1>1, <1>2, PTL DEF Spec

\* The jobs of a conversation run one after the other in the order they came,
\* whoever is stopped or claims a turn in between, and a lane has one drainer
\* exactly while it is busy (push, drain).
THEOREM LanesAreOrderly == Spec => []LaneDiscipline
<1>1. IInv => LaneDiscipline
  <2> SUFFICES ASSUME IInv PROVE OneDrainerPerBusyLane
    BY DEF IInv, LaneDiscipline
  <2> QED BY DEF IInv, OneDrainerPerBusyLane, Drainers, Drains, Sleepers
<1> QED BY <1>1, Invariance, PTL

\* A waiter whose context has not ended returns from Manager.WaitIdle only
\* after every job queued or running at its call, also one that was stopped.
THEOREM WaitIdleWaits == Spec => WaitIdleCoversJobs
<1>1. ASSUME IInv, [Next]_vars
      PROVE  [\A w \in Waiters :
                  (wait[w].pc = "active" /\ wait'[w].pc = "idle" /\ w \notin ctxDone)
                  => \A j \in wait[w].owed : turn[j] = "done"]_vars
  BY <1>1 DEF IInv, Owed
<1> QED BY <1>1, Invariance, PTL DEF Spec, WaitIdleCoversJobs
-----------------------------------------------------------------------------
(* The sheddable queue.  The books (Accounted) are kept because q is in the *)
(* order of offering, so that the item taken from one end or the middle of  *)
(* it is nowhere else, and the item put at its end is new.                  *)

\* The items that were offered are those with a fate.
Offers == \A i \in Items : (fate[i] = "new") <=> (i > offered)

\* The runner does not sleep on a queue that holds something.
RunnerAwake == runner.pc = "select" /\ q # <<>> => notify

\* Accounted, item by item.
Ledger ==
    /\ \A i \in Items : i \in Elements(q) <=> fate[i] = "queued"
    /\ Ordered(q)
    /\ \A i \in Items : fate[i] = "popped" <=> runner.pc = "run" /\ runner.item = i
    /\ runner.pc = "run" => runner.item \in Items
    /\ inFlight <=> runner.pc = "run"

\* What holds of the queue whoever waits for it.
QueueIInv ==
    QueueTypeOK /\ Offers /\ Ledger /\ UserTurnsAreKept /\ RunnerAwake /\ ClosedQueueIsEmpty
-----------------------------------------------------------------------------
(* Ordered sequences of items                                               *)

\* A new youngest item goes to the end.
LEMMA AppendItem ==
  ASSUME NEW s \in Seq(Items), Ordered(s), NEW i \in Items, \A j \in Elements(s) : j < i
  PROVE  /\ Append(s, i) \in Seq(Items) /\ Len(Append(s, i)) = Len(s) + 1
         /\ Ordered(Append(s, i)) /\ Elements(Append(s, i)) = Elements(s) \cup {i}
<1>1. /\ Append(s, i) \in Seq(Items) /\ Len(Append(s, i)) = Len(s) + 1
      /\ \A n \in 1..Len(s) : Append(s, i)[n] = s[n]
      /\ Append(s, i)[Len(s) + 1] = i
  BY AppendProperties
<1>2. DOMAIN s = 1..Len(s) /\ DOMAIN Append(s, i) = 1..(Len(s) + 1) /\ Len(s) \in Nat
  BY <1>1, LenProperties
<1>3. Ordered(Append(s, i))
  BY <1>1, <1>2, MaxItemsAssumption DEF Ordered, Elements, Items
<1>4. Elements(Append(s, i)) = Elements(s) \cup {i}
  <2>1. ASSUME NEW x \in Elements(s) \cup {i} PROVE x \in Elements(Append(s, i))
    BY <2>1, <1>1, <1>2 DEF Elements
  <2>2. ASSUME NEW x \in Elements(Append(s, i)) PROVE x \in Elements(s) \cup {i}
    BY <2>2, <1>1, <1>2 DEF Elements
  <2> QED BY <2>1, <2>2
<1> QED BY <1>1, <1>3, <1>4

\* Whatever position an item is taken from, it is gone.
LEMMA RemoveOrdered ==
  ASSUME NEW s \in Seq(Items), Ordered(s), NEW n \in DOMAIN s
  PROVE  /\ RemoveAt(s, n) \in Seq(Items) /\ Len(RemoveAt(s, n)) = Len(s) - 1
         /\ Ordered(RemoveAt(s, n)) /\ Elements(RemoveAt(s, n)) = Elements(s) \ {s[n]}
<1> DEFINE a == SubSeq(s, 1, n - 1)
           b == SubSeq(s, n + 1, Len(s))
           r == RemoveAt(s, n)
<1>1. DOMAIN s = 1..Len(s) /\ Len(s) \in Nat /\ \A k \in 1..Len(s) : s[k] \in Items
  BY LenProperties, ElementOfSeq
<1>2. /\ a \in Seq(Items) /\ Len(a) = n - 1 /\ \A k \in 1..(n - 1) : a[k] = s[k]
  <2>1. \A k \in 1..(n - 1) : s[k] \in Items
    BY <1>1
  <2> QED BY <1>1, <2>1, SubSeqProperties
<1>3. /\ b \in Seq(Items) /\ Len(b) = Len(s) - n /\ \A k \in 1..(Len(s) - n) : b[k] = s[n + k]
  <2>1. \A k \in (n + 1)..Len(s) : s[k] \in Items
    BY <1>1
  <2>2. n + 1 \in Int /\ Len(s) \in Int
    BY <1>1
  <2>3. /\ b \in Seq(Items) /\ Len(b) = IF n + 1 <= Len(s) THEN Len(s) - (n + 1) + 1 ELSE 0
        /\ \A k \in 1..(Len(s) - (n + 1) + 1) : b[k] = s[n + 1 + k - 1]
    BY <2>1, <2>2, SubSeqProperties
  <2>4. Len(b) = Len(s) - n
    BY <1>1, <2>3
  <2>5. ASSUME NEW k \in 1..(Len(s) - n) PROVE b[k] = s[n + k]
    <3>1. k \in 1..(Len(s) - (n + 1) + 1) /\ n + 1 + k - 1 = n + k
      BY <1>1
    <3> QED BY <2>3, <3>1
  <2> QED BY <2>3, <2>4, <2>5
<1>4. r = a \o b
  BY DEF RemoveAt
<1> HIDE DEF a, b, r
<1>5. /\ r \in Seq(Items) /\ Len(r) = Len(s) - 1 /\ DOMAIN r = 1..(Len(s) - 1)
      /\ \A k \in 1..(Len(s) - 1) : r[k] = IF k < n THEN s[k] ELSE s[k + 1]
  <2>1. /\ r \in Seq(Items) /\ Len(r) = Len(a) + Len(b)
        /\ \A k \in 1..(Len(a) + Len(b)) : r[k] = IF k <= Len(a) THEN a[k] ELSE b[k - Len(a)]
    BY <1>2, <1>3, <1>4, ConcatProperties
  <2>2. Len(a) + Len(b) = Len(s) - 1
    BY <1>1, <1>2, <1>3
  <2>3. DOMAIN r = 1..Len(r)
    BY <2>1, LenProperties
  <2>4. ASSUME NEW k \in 1..(Len(s) - 1) PROVE r[k] = IF k < n THEN s[k] ELSE s[k + 1]
    <3>1. k \in 1..(Len(a) + Len(b)) /\ k \in Int /\ n \in Int
      BY <1>1, <2>2
    <3>2. CASE k < n
      BY <1>2, <2>1, <3>1, <3>2
    <3>3. CASE ~(k < n)
      <4>1. r[k] = b[k - (n - 1)]
        BY <1>2, <2>1, <3>1, <3>3
      <4>2. k - (n - 1) \in 1..(Len(s) - n) /\ n + (k - (n - 1)) = k + 1
        BY <1>1, <3>1, <3>3
      <4>3. b[k - (n - 1)] = s[n + (k - (n - 1))]
        BY <1>3, <4>2
      <4> QED BY <3>3, <4>1, <4>2, <4>3
    <3> QED BY <3>2, <3>3
  <2> QED BY <2>1, <2>2, <2>3, <2>4
<1>6. Ordered(r)
  <2> SUFFICES ASSUME NEW j \in 1..(Len(s) - 1), NEW k \in 1..(Len(s) - 1), j < k
               PROVE  r[j] < r[k]
    BY <1>5 DEF Ordered
  <2> DEFINE place(i) == IF i < n THEN i ELSE i + 1
  <2>1. place(j) \in DOMAIN s /\ place(k) \in DOMAIN s /\ place(j) < place(k)
    BY <1>1
  <2>2. r[j] = s[place(j)] /\ r[k] = s[place(k)]
    BY <1>5
  <2>3. s[place(j)] < s[place(k)]
    BY <2>1 DEF Ordered
  <2> QED BY <2>2, <2>3
<1>7. Elements(r) = Elements(s) \ {s[n]}
  <2>1. \A k \in DOMAIN s : k # n => s[k] # s[n]
    BY <1>1, MaxItemsAssumption DEF Ordered, Items
  <2>2. ASSUME NEW x \in Elements(r) PROVE x \in Elements(s) \ {s[n]}
    <3>1. PICK k \in 1..(Len(s) - 1) : x = r[k]
      BY <1>5, <2>2 DEF Elements
    <3>2. CASE k < n
      <4>1. k \in DOMAIN s /\ k # n /\ x = s[k]
        BY <1>1, <1>5, <3>1, <3>2
      <4> QED BY <2>1, <4>1 DEF Elements
    <3>3. CASE ~(k < n)
      <4>1. k + 1 \in DOMAIN s /\ k + 1 # n /\ x = s[k + 1]
        BY <1>1, <1>5, <3>1, <3>3
      <4> QED BY <2>1, <4>1 DEF Elements
    <3> QED BY <3>2, <3>3
  <2>3. ASSUME NEW k \in DOMAIN s, k # n PROVE s[k] \in Elements(r)
    <3>1. CASE k < n BY <1>1, <1>5, <3>1 DEF Elements
    <3>2. CASE k > n
      <4>1. k - 1 \in DOMAIN r /\ r[k - 1] = s[k]
        BY <1>1, <1>5, <3>2
      <4> QED BY <4>1 DEF Elements
    <3> QED BY <1>1, <2>3, <3>1, <3>2
  <2> QED BY <2>2, <2>3 DEF Elements
<1> QED BY <1>5, <1>6, <1>7 DEF r

LEMMA TailItem ==
  ASSUME NEW s \in Seq(Items), Ordered(s), s # <<>>
  PROVE  /\ Head(s) \in Items /\ Head(s) \in Elements(s)
         /\ Tail(s) \in Seq(Items) /\ Len(Tail(s)) = Len(s) - 1
         /\ Ordered(Tail(s)) /\ Elements(Tail(s)) = Elements(s) \ {Head(s)}
<1>1. DOMAIN s = 1..Len(s) /\ Len(s) \in Nat \ {0} /\ Head(s) = s[1] /\ s[1] \in Items
  BY LenProperties, EmptySeq, ElementOfSeq
<1>2. Tail(s) \in Seq(Items) /\ Len(Tail(s)) = Len(s) - 1
      /\ \A k \in 1..(Len(s) - 1) : Tail(s)[k] = s[k + 1]
  BY HeadTailProperties
<1>3. DOMAIN Tail(s) = 1..(Len(s) - 1)
  BY <1>2, LenProperties
<1>4. Ordered(Tail(s))
  BY <1>1, <1>2, <1>3 DEF Ordered
<1>5. Elements(Tail(s)) = Elements(s) \ {s[1]}
  <2>1. \A k \in DOMAIN s : k # 1 => s[k] # s[1]
    BY <1>1, MaxItemsAssumption DEF Ordered, Items
  <2>2. ASSUME NEW x \in Elements(Tail(s)) PROVE x \in Elements(s) \ {s[1]}
    BY <1>1, <1>2, <1>3, <2>1, <2>2 DEF Elements
  <2>3. ASSUME NEW k \in DOMAIN s, k # 1 PROVE s[k] \in Elements(Tail(s))
    <3>1. k - 1 \in DOMAIN Tail(s) /\ Tail(s)[k - 1] = s[k]
      BY <1>1, <1>2, <1>3, <2>3
    <3> QED BY <3>1 DEF Elements
  <2> QED BY <2>2, <2>3 DEF Elements
<1>6. Head(s) \in Elements(s)
  BY <1>1 DEF Elements
<1> QED BY <1>1, <1>2, <1>4, <1>5, <1>6
-----------------------------------------------------------------------------
(* The invariant                                                            *)

LEMMA Books ==
  ASSUME QueueTypeOK, Ledger
  PROVE  Accounted
<1>1. Elements(q) \subseteq Items
  BY LenProperties, ElementOfSeq DEF QueueTypeOK, Elements
<1>2. {q[n] : n \in DOMAIN q} = {i \in Items : fate[i] = "queued"}
  BY <1>1 DEF Ledger, Elements
<1>3. {i \in Items : fate[i] = "popped"} = IF runner.pc = "run" THEN {runner.item} ELSE {}
  BY DEF Ledger
<1> QED BY <1>2, <1>3 DEF Accounted, Ledger, Ordered

\* A queue is empty if nothing is in it.
LEMMA EmptyQueue ==
  ASSUME NEW s \in Seq(Items)
  PROVE  /\ s = <<>> <=> Len(s) = 0
         /\ Len(s) \in Nat /\ DOMAIN s = 1..Len(s) /\ Elements(s) \subseteq Items
  BY LenProperties, EmptySeq, ElementOfSeq DEF Elements

LEMMA QueueInitIInv == QueueInit => QueueIInv
<1> SUFFICES ASSUME QueueInit PROVE QueueIInv
  OBVIOUS
<1> USE MaxItemsAssumption, CapAssumption
<1>1. QueueTypeOK
  <2>1. q \in Seq(Items)
    BY EmptySeq DEF QueueInit
  <2>2. runner \in [pc: {"pop", "select", "run", "poke", "left"}, item: Items \cup {NoItem}]
    BY DEF QueueInit
  <2>3. fate \in [Items -> Fates] /\ waiting \in [QueueWaiters -> {"out", "check", "select"}]
    BY DEF QueueInit, Fates
  <2>4. offered \in 0..MaxItems
    BY DEF QueueInit
  <2>5. /\ inFlight \in BOOLEAN /\ stopped \in BOOLEAN /\ notify \in BOOLEAN
        /\ idleCh \in BOOLEAN /\ stop \in BOOLEAN
    BY DEF QueueInit
  <2> QED BY <2>1, <2>2, <2>3, <2>4, <2>5 DEF QueueTypeOK
<1>2. Offers
  BY DEF QueueInit, Offers, Items
<1>3. Elements(q) = {} /\ Ordered(q) /\ Len(q) = 0
  BY DEF QueueInit, Elements, Ordered
<1>4. Ledger
  BY <1>3 DEF QueueInit, Ledger
<1>5. UserTurnsAreKept
  BY <1>3 DEF QueueInit, UserTurnsAreKept
<1>6. RunnerAwake /\ ClosedQueueIsEmpty
  BY DEF QueueInit, RunnerAwake, ClosedQueueIsEmpty
<1> QED BY <1>1, <1>2, <1>4, <1>5, <1>6 DEF QueueIInv

\* A push: the accepted item is the youngest of those in the queue, where at
\* most one sheddable item made room for it.
LEMMA QueuePushIInv ==
  ASSUME QueueIInv, NEW i \in Items, QueuePush(i)
  PROVE  QueueIInv'
<1> USE MaxItemsAssumption, CapAssumption
<1>1. QueueTypeOK /\ Offers /\ offered \in Nat /\ i = offered + 1 /\ offered' = i
  BY DEF QueueIInv, QueueTypeOK, QueuePush, PushRefused, PushWithRoom, PushSheds, PushOverCap, Offer
<1>2. /\ q \in Seq(Items) /\ fate \in [Items -> Fates]
      /\ \A j \in Items : j \in Elements(q) <=> fate[j] = "queued"
      /\ Ordered(q)
      /\ \A j \in Items : fate[j] = "popped" <=> runner.pc = "run" /\ runner.item = j
      /\ runner.pc = "run" => runner.item \in Items
      /\ inFlight <=> runner.pc = "run"
  BY DEF QueueIInv, QueueTypeOK, Ledger
<1>3. UNCHANGED <<inFlight, stopped, idleCh, runner, stop, waiting>>
  BY DEF QueuePush, PushRefused, PushWithRoom, PushSheds, PushOverCap
<1>4. fate[i] = "new" /\ \A j \in Items : fate[j] = "queued" => j < i
  BY <1>1, <1>2 DEF Offers, Items
\* What the step is to the queue: rest is what is left in it, and out the item shed.
<1>5. ASSUME NEW f \in {"closed", "refused"}, UNCHANGED <<q, notify>>,
             fate' = [fate EXCEPT ![i] = f], f = "refused" => i \in Sheddable
      PROVE  QueueIInv'
  <2>1. QueueTypeOK' /\ Offers'
    BY <1>1, <1>2, <1>3, <1>5 DEF QueueTypeOK, Offers, Items, Fates
  <2>2. Ledger'
    BY <1>2, <1>3, <1>4, <1>5 DEF Ledger, Elements, Ordered
  <2>3. UserTurnsAreKept'
    BY <1>2, <1>5 DEF QueueIInv, UserTurnsAreKept, ShedPositions
  <2>4. RunnerAwake' /\ ClosedQueueIsEmpty'
    BY <1>3, <1>5 DEF QueueIInv, RunnerAwake, ClosedQueueIsEmpty
  <2> QED BY <2>1, <2>2, <2>3, <2>4 DEF QueueIInv
<1>6. ASSUME NEW rest \in Seq(Items), Ordered(rest), NEW out \in SUBSET Sheddable,
             Elements(rest) = Elements(q) \ out, out \subseteq Elements(q),
             Accept(i, rest), ~stopped,
             fate' = [j \in Items |-> IF j = i THEN "queued"
                                      ELSE IF j \in out THEN "shed" ELSE fate[j]],
             Len(rest) >= Cap => i \notin Sheddable /\ Elements(rest) \cap Sheddable = {}
      PROVE  QueueIInv'
  <2>1. /\ q' = Append(rest, i) /\ notify' = TRUE
        /\ q' \in Seq(Items) /\ Len(q') = Len(rest) + 1
        /\ Ordered(q') /\ Elements(q') = Elements(rest) \cup {i}
        /\ Len(rest) \in Nat
    <3>1. \A j \in Elements(rest) : j < i
      BY <1>2, <1>4, <1>6, EmptyQueue
    <3> QED BY <3>1, <1>6, AppendItem, EmptyQueue DEF Accept
  <2>2. QueueTypeOK' /\ Offers'
    <3>1. QueueTypeOK'
      BY <1>1, <1>2, <1>3, <1>6, <2>1 DEF QueueTypeOK, Fates, Items
    <3>2. \A j \in out : fate[j] = "queued"
      BY <1>2, <1>6, EmptyQueue
    <3>3. Offers'
      BY <1>1, <1>2, <1>6, <3>2 DEF Offers, Items
    <3> QED BY <3>1, <3>3
  <2>3. Ledger'
    <3>1. \A j \in Items : j \in Elements(q)' <=> fate'[j] = "queued"
      BY <1>2, <1>4, <1>6, <2>1 DEF Elements
    <3>2. \A j \in Items : fate'[j] = "popped" <=> fate[j] = "popped"
      BY <1>2, <1>4, <1>6
    <3>3. Ordered(q)'
      BY <2>1 DEF Ordered
    <3> QED BY <1>2, <1>3, <3>1, <3>2, <3>3 DEF Ledger
  <2>4. UserTurnsAreKept'
    <3>1. ASSUME Len(q') > Cap PROVE ShedPositions' = {}
      <4>1. Elements(q') \cap Sheddable = {}
        BY <1>6, <2>1, <3>1
      <4> QED BY <4>1 DEF ShedPositions, Elements
    <3> QED BY <1>6, <3>1 DEF QueueIInv, UserTurnsAreKept
  <2>5. RunnerAwake' /\ ClosedQueueIsEmpty'
    BY <1>3, <1>6, <2>1 DEF RunnerAwake, ClosedQueueIsEmpty
  <2> QED BY <2>2, <2>3, <2>4, <2>5 DEF QueueIInv
<1>7. Elements(q) \cap Sheddable = {q[n] : n \in ShedPositions}
  BY DEF Elements, ShedPositions
<1>8. CASE PushRefused(i)
  BY <1>5, <1>8 DEF PushRefused
<1>9. CASE PushWithRoom(i)
  <2>1. fate' = [j \in Items |-> IF j = i THEN "queued" ELSE IF j \in {} THEN "shed" ELSE fate[j]]
    BY <1>2, <1>9 DEF PushWithRoom
  <2>2. ~(Len(q) >= Cap) /\ Accept(i, q) /\ ~stopped
    BY <1>2, <1>9, EmptyQueue DEF PushWithRoom
  <2>3. Len(q) >= Cap => i \notin Sheddable /\ Elements(q) \cap Sheddable = {}
    BY <2>2
  <2>4. {} \in SUBSET Sheddable /\ {} \subseteq Elements(q) /\ Elements(q) = Elements(q) \ {}
    OBVIOUS
  <2> QED BY <1>2, <1>6, <2>1, <2>2, <2>3, <2>4
<1>10. CASE PushSheds(i)
  <2>1. PICK n \in ShedPositions :
           /\ Accept(i, RemoveAt(q, n))
           /\ fate' = [fate EXCEPT ![q[n]] = "shed", ![i] = "queued"]
    BY <1>10 DEF PushSheds
  <2>2. n \in DOMAIN q /\ q[n] \in Sheddable /\ q[n] \in Elements(q) /\ q[n] \in Items
    BY <1>2, EmptyQueue DEF ShedPositions, Elements
  <2>3. q[n] # i
    BY <1>2, <1>4, <2>2
  <2>4. fate' = [j \in Items |-> IF j = i THEN "queued"
                                 ELSE IF j \in {q[n]} THEN "shed" ELSE fate[j]]
    BY <1>2, <2>1, <2>2, <2>3
  <2>5. /\ RemoveAt(q, n) \in Seq(Items) /\ Len(RemoveAt(q, n)) = Len(q) - 1
        /\ Ordered(RemoveAt(q, n)) /\ Elements(RemoveAt(q, n)) = Elements(q) \ {q[n]}
    BY <1>2, <2>2, RemoveOrdered
  <2>6. ~(Len(RemoveAt(q, n)) >= Cap)
    <3>1. Len(q) <= Cap
      BY <1>2, EmptyQueue DEF QueueIInv, UserTurnsAreKept
    <3> QED BY <1>2, <2>5, <3>1, EmptyQueue
  <2>7. ~stopped
    BY <1>10 DEF PushSheds
  <2> HIDE DEF QueuePush
  <2> QED BY <1>6, <2>1, <2>2, <2>4, <2>5, <2>6, <2>7
<1>11. CASE PushOverCap(i)
  <2>1. CASE i \in Sheddable /\ fate' = [fate EXCEPT ![i] = "refused"] /\ UNCHANGED <<q, notify>>
    BY <1>5, <2>1
  <2>2. CASE i \notin Sheddable /\ Accept(i, q) /\ fate' = [fate EXCEPT ![i] = "queued"]
    <3>1. fate' = [j \in Items |-> IF j = i THEN "queued"
                                   ELSE IF j \in {} THEN "shed" ELSE fate[j]]
      BY <1>2, <2>2
    <3>2. Elements(q) \cap Sheddable = {} /\ ~stopped
      BY <1>7, <1>11 DEF PushOverCap
    <3> QED BY <1>2, <1>6, <2>2, <3>1, <3>2
  <2> QED BY <1>11, <2>1, <2>2 DEF PushOverCap
<1> QED BY <1>8, <1>9, <1>10, <1>11 DEF QueuePush

\* The runner's own steps.
LEMMA RunnerIInv ==
  ASSUME QueueIInv, RunnerStep
  PROVE  QueueIInv'
<1> USE MaxItemsAssumption, CapAssumption
<1>1. /\ QueueTypeOK /\ q \in Seq(Items) /\ fate \in [Items -> Fates]
      /\ runner \in [pc: {"pop", "select", "run", "poke", "left"}, item: Items \cup {NoItem}]
  BY DEF QueueIInv, QueueTypeOK
<1>2. CASE Pop
  <2>1. /\ Head(q) \in Items /\ Head(q) \in Elements(q)
        /\ Tail(q) \in Seq(Items) /\ Len(Tail(q)) = Len(q) - 1
        /\ Ordered(Tail(q)) /\ Elements(Tail(q)) = Elements(q) \ {Head(q)}
    BY <1>1, <1>2, TailItem DEF Pop, QueueIInv, Ledger
  <2>2. fate[Head(q)] = "queued" /\ runner.pc = "pop"
    BY <1>2, <2>1 DEF Pop, QueueIInv, Ledger
  <2>3. QueueTypeOK'
    BY <1>1, <1>2, <2>1 DEF Pop, QueueTypeOK, Fates
  <2>4. Offers'
    BY <1>1, <1>2, <2>1, <2>2 DEF Pop, QueueIInv, Offers
  <2>5. Ledger'
    <3>1. \A i \in Items : i \in Elements(q)' <=> fate'[i] = "queued"
      <4>1. Elements(q)' = Elements(q) \ {Head(q)}
        BY <1>2, <2>1 DEF Pop, Elements
      <4>2. \A i \in Items : fate'[i] = IF i = Head(q) THEN "popped" ELSE fate[i]
        BY <1>1, <1>2, <2>1 DEF Pop
      <4> QED BY <4>1, <4>2 DEF QueueIInv, Ledger
    <3>2. Ordered(q)'
      BY <1>2, <2>1 DEF Pop, Ordered
    <3>3. runner'.pc = "run" /\ runner'.item = Head(q) /\ inFlight' = TRUE
      BY <1>2 DEF Pop
    <3>4. \A i \in Items : fate'[i] = "popped" <=> i = Head(q)
      BY <1>1, <1>2, <2>1, <2>2 DEF Pop, QueueIInv, Ledger
    <3> QED BY <2>1, <3>1, <3>2, <3>3, <3>4 DEF Ledger
  <2>6. UserTurnsAreKept'
    <3>1. \A i \in Items \ Sheddable : fate'[i] \notin {"shed", "refused"}
      BY <1>1, <1>2, <2>1 DEF Pop, QueueIInv, UserTurnsAreKept
    <3>2. ASSUME Len(q') > Cap PROVE ShedPositions' = {}
      <4>1. ShedPositions = {}
        BY <1>1, <1>2, <2>1, <3>2, EmptyQueue DEF Pop, QueueIInv, UserTurnsAreKept
      <4>2. Elements(q) \cap Sheddable = {}
        BY <4>1 DEF ShedPositions, Elements
      <4>3. Elements(q') \cap Sheddable = {}
        BY <1>2, <2>1, <4>2 DEF Pop
      <4> QED BY <4>3 DEF ShedPositions, Elements
    <3> QED BY <3>1, <3>2 DEF UserTurnsAreKept
  <2>7. RunnerAwake' /\ ClosedQueueIsEmpty'
    BY <1>2 DEF Pop, QueueIInv, RunnerAwake, ClosedQueueIsEmpty
  <2> QED BY <2>3, <2>4, <2>5, <2>6, <2>7 DEF QueueIInv
<1>3. CASE Finish
  <2>1. /\ QueueTypeOK' /\ UNCHANGED <<q, offered, stopped, notify>>
    BY <1>1, <1>3 DEF Finish, QueueIInv, QueueTypeOK, Fates, Ledger
  <2>2. Ledger'
    BY <1>1, <1>3 DEF Finish, QueueIInv, Ledger, Elements, Ordered
  <2>3. Offers'
    BY <1>1, <1>3 DEF Finish, QueueIInv, Ledger, Offers
  <2>4. UserTurnsAreKept'
    BY <1>1, <1>3 DEF Finish, QueueIInv, UserTurnsAreKept, ShedPositions
  <2>5. RunnerAwake' /\ ClosedQueueIsEmpty'
    BY <1>3, <2>1 DEF Finish, QueueIInv, RunnerAwake, ClosedQueueIsEmpty
  <2> QED BY <2>1, <2>2, <2>3, <2>4, <2>5 DEF QueueIInv
<1>4. CASE PopEmpty \/ Select \/ Poke
  <2>1. /\ UNCHANGED <<q, offered, inFlight, stopped, fate>>
        /\ \E goal \in {"pop", "select", "left"} : runner' = [runner EXCEPT !.pc = goal]
        /\ runner.pc # "run"
    BY <1>4 DEF PopEmpty, Select, Poke
  <2>2. QueueTypeOK'
    BY <1>1, <1>4, <2>1 DEF QueueTypeOK, PopEmpty, Select, Poke
  <2>3. runner'.pc # "run"
    BY <1>1, <2>1
  <2>4. Ledger'
    BY <2>1, <2>3 DEF QueueIInv, Ledger, Elements, Ordered
  <2>5. Offers' /\ UserTurnsAreKept' /\ ClosedQueueIsEmpty'
    BY <2>1 DEF QueueIInv, Offers, UserTurnsAreKept, ShedPositions, ClosedQueueIsEmpty
  <2>6. RunnerAwake'
    BY <1>1, <1>4 DEF QueueIInv, RunnerAwake, PopEmpty, Select, Poke
  <2> QED BY <2>2, <2>4, <2>5, <2>6 DEF QueueIInv
<1> QED BY <1>2, <1>3, <1>4 DEF RunnerStep

\* Closing the queue empties it, or finds it empty.
LEMMA CloseIInv ==
  ASSUME QueueIInv, QueueStop \/ StopIfIdle
  PROVE  QueueIInv'
<1>1. /\ q' = <<>> /\ q' \in Seq(Items) /\ Len(q') = 0 /\ DOMAIN q' = {}
      /\ Elements(q') = {} /\ Ordered(q')
  <2>1. q' = <<>>
    BY DEF QueueStop, StopIfIdle, Idle
  <2>2. q' \in Seq(Items) /\ Len(q') = 0 /\ DOMAIN q' = {}
    BY <2>1, EmptySeq
  <2> QED BY <2>1, <2>2 DEF Elements, Ordered
<1>2. /\ UNCHANGED <<offered, inFlight, notify, idleCh, runner, waiting>>
      /\ stopped' = TRUE /\ stop' = TRUE
      /\ fate' = [i \in Items |-> IF fate[i] = "queued" THEN "detached" ELSE fate[i]]
  <2>1. CASE QueueStop
    BY <2>1 DEF QueueStop
  <2>2. CASE StopIfIdle
    <3>1. \A i \in Items : fate[i] # "queued"
      BY <2>2 DEF StopIfIdle, Idle, QueueIInv, Ledger, Elements
    <3> QED BY <2>2, <3>1 DEF StopIfIdle, QueueIInv, QueueTypeOK
  <2> QED BY <2>1, <2>2
<1>3. QueueTypeOK'
  BY <1>1, <1>2 DEF QueueIInv, QueueTypeOK, Fates
<1>4. Offers' /\ Ledger'
  BY <1>1, <1>2 DEF QueueIInv, Offers, Ledger
<1>5. UserTurnsAreKept'
  BY <1>1, <1>2, CapAssumption DEF QueueIInv, UserTurnsAreKept
<1>6. RunnerAwake' /\ ClosedQueueIsEmpty'
  BY <1>1 DEF RunnerAwake, ClosedQueueIsEmpty
<1> QED BY <1>3, <1>4, <1>5, <1>6 DEF QueueIInv

LEMMA WaiterIInv ==
  ASSUME QueueIInv, NEW w \in QueueWaiters, QueueWaitIdle(w) \/ WaitCheck(w) \/ WaitToken(w) \/ WaitTimer(w)
  PROVE  QueueIInv'
<1>1. UNCHANGED <<offered, q, inFlight, stopped, notify, runner, stop, fate>>
  BY DEF QueueWaitIdle, WaitCheck, WaitToken, WaitTimer
<1>2. QueueTypeOK'
  BY <1>1 DEF QueueIInv, QueueTypeOK, QueueWaitIdle, WaitCheck, WaitToken, WaitTimer
<1> QED BY <1>1, <1>2 DEF QueueIInv, Offers, Ledger, Elements, Ordered, UserTurnsAreKept,
                          ShedPositions, RunnerAwake, ClosedQueueIsEmpty

LEMMA Step ==
  ASSUME QueueIInv, [QueueNext]_queueVars
  PROVE  QueueIInv'
<1>1. CASE UNCHANGED queueVars
  BY <1>1 DEF queueVars, QueueIInv, QueueTypeOK, Offers, Ledger, Elements, Ordered, UserTurnsAreKept,
              ShedPositions, RunnerAwake, ClosedQueueIsEmpty
<1>2. CASE QueueNext
  BY <1>2, QueuePushIInv, RunnerIInv, CloseIInv, WaiterIInv DEF QueueNext
<1> QED BY <1>1, <1>2

\* The invariant, for every number of items and waiters, every cap and every
\* choice of the sheddable items.
THEOREM QueueInvariance == QueueSpec => []QueueIInv
<1>1. QueueInit => QueueIInv
  BY QueueInitIInv
<1>2. QueueIInv /\ [QueueNext]_queueVars => QueueIInv'
  BY Step
<1> QED BY <1>1, <1>2, PTL DEF QueueSpec

\* User turns are never shed or refused, and only they make the queue exceed
\* its cap (Push).
THEOREM UserTurnsKept == QueueSpec => []UserTurnsAreKept
<1>1. QueueIInv => UserTurnsAreKept
  BY DEF QueueIInv
<1> QED BY <1>1, QueueInvariance, PTL

\* No item is in two places or in none, and the runner leaves none behind: it
\* does not sleep on a queue that holds something, and a closed queue is empty
\* and stays so (Push, PopOrWait, StopIfIdle, Stop).
THEOREM NoItemIsLost == QueueSpec => [](Accounted /\ RunnerAwake /\ ClosedQueueIsEmpty)
<1>1. QueueIInv => Accounted /\ RunnerAwake /\ ClosedQueueIsEmpty
  BY Books DEF QueueIInv
<1> QED BY <1>1, QueueInvariance, PTL

-----------------------------------------------------------------------------
(* One waiter                                                               *)

\* A waiter asleep on an idle queue is about to be woken.
WaitersAwake ==
    \A w \in QueueWaiters :
        (waiting[w] = "select" /\ Idle /\ ~stopped) => (idleCh \/ runner.pc = "poke")

\* Nothing is stranded and nobody asleep who should be awake, as long as one
\* goroutine at a time waits for the queue: idleCh holds one token, and a
\* second waiter would be left to its timer (WaitIdle, Finish).
THEOREM NobodyIsStranded ==
  ASSUME \A v, w \in QueueWaiters : v = w
  PROVE  QueueSpec => []NothingStranded
<1>1. QueueInit => WaitersAwake
  BY DEF QueueInit, WaitersAwake
<1>2. ASSUME QueueIInv, WaitersAwake, [QueueNext]_queueVars PROVE WaitersAwake'
  <2> SUFFICES ASSUME NEW w \in QueueWaiters, waiting'[w] = "select", Idle', ~stopped'
               PROVE  idleCh' \/ runner'.pc = "poke"
    BY DEF WaitersAwake
  <2>1. waiting \in [QueueWaiters -> {"out", "check", "select"}]
        /\ runner \in [pc: {"pop", "select", "run", "poke", "left"}, item: Items \cup {NoItem}]
    BY <1>2 DEF QueueIInv, QueueTypeOK
  <2>2. q' = <<>> /\ inFlight' = FALSE /\ \A i \in Items : fate'[i] # "queued"
    <3>1. QueueIInv'
      BY <1>2, Step
    <3> QED BY <3>1 DEF Idle, QueueIInv, QueueTypeOK, Ledger, Elements
  <2>3. ASSUME NEW i \in Items, QueuePush(i) PROVE FALSE
    <3>1. ~stopped /\ fate'[i] # "queued"
      BY <2>2, <2>3 DEF QueuePush, PushRefused, PushWithRoom, PushSheds, PushOverCap
    <3>2. fate \in [Items -> Fates]
      BY <1>2 DEF QueueIInv, QueueTypeOK
    <3>3. ~PushRefused(i) /\ ~PushWithRoom(i)
      BY <3>1, <3>2 DEF PushRefused, PushWithRoom
    <3>4. ~PushSheds(i)
      <4>1. ASSUME NEW n, fate' = [fate EXCEPT ![q[n]] = "shed", ![i] = "queued"]
            PROVE  FALSE
        BY <3>1, <3>2, <4>1
      <4> QED BY <4>1 DEF PushSheds
    <3>5. UNCHANGED q /\ Len(q) >= Cap
      BY <2>3, <3>1, <3>2, <3>3, <3>4 DEF QueuePush, PushOverCap
    <3> QED BY <2>2, <3>5, CapAssumption
  <2>4. CASE RunnerStep
    BY <1>2, <2>1, <2>2, <2>4 DEF RunnerStep, Pop, PopEmpty, Select, Finish, Poke, WaitersAwake, Idle
  <2>5. CASE QueueStop \/ StopIfIdle
    BY <2>5 DEF QueueStop, StopIfIdle
  <2>6. ASSUME NEW v \in QueueWaiters, QueueWaitIdle(v) \/ WaitCheck(v) \/ WaitToken(v) \/ WaitTimer(v)
        PROVE  idleCh' \/ runner'.pc = "poke"
    <3>1. v = w
      OBVIOUS
    <3> QED BY <1>2, <2>1, <2>6, <3>1
            DEF QueueWaitIdle, WaitCheck, WaitToken, WaitTimer, WaitersAwake, Idle
  <2>7. CASE UNCHANGED queueVars
    BY <1>2, <2>7 DEF queueVars, WaitersAwake, Idle
  <2> QED BY <1>2, <2>3, <2>4, <2>5, <2>6, <2>7 DEF QueueNext
<1>3. QueueIInv /\ WaitersAwake => NothingStranded
  BY Books DEF QueueIInv, WaitersAwake, RunnerAwake, NoLostWakeup, NothingStranded
<1> QED BY <1>1, <1>2, <1>3, QueueInvariance, PTL DEF QueueSpec
-----------------------------------------------------------------------------
(* The controls of a conversation.  A turn knows its conversation by the    *)
(* token the relay gave it, and a session belongs to one conversation, so   *)
(* what a turn pushes and marks is its own.  Of two goroutines that save    *)
(* the choice of one conversation neither is trusted (unsaved); a lone      *)
(* saver holds the newest choice.  A login is in the slot of one token or   *)
(* in the hands of a call, and until two calls about one token overlap the  *)
(* slots say which login the agent waits for.  Under a token that is not    *)
(* mixed, what is deferred, and the turn that goes by the token, are those  *)
(* of the conversation it names.                                            *)

Actors == Handlers \cup Conversations

\* What a turn does between its start and its end.
TurnPcs == {"apply", "push", "mark", "run"}

Pcs == {"idle", "handle", "save", "reset", "cancelling"} \cup TurnPcs \cup LoginPcs \cup DroppingPcs

LoginStates == {"none", "open", "alone", "ended", "left"}

Calls == [pc : Pcs, kind : Kinds, tok : Tokens \cup {None}, conv : Conversations \cup {0},
          to : Conversations \cup {0}, id : Models \cup {None}, sess : Sessions \cup {0},
          login : Logins \cup {0}, changed : BOOLEAN]

ControlTyped ==
    /\ mem \in [Conversations -> [id : Models \cup {None}, applied : Sessions \cup {0}]]
    /\ file \in [Conversations -> Models \cup {None}]
    /\ name \in [Conversations -> Tokens \cup {None}]
    /\ called \in [Conversations -> Tokens \cup {None}]
    /\ tool \in [Conversations -> Tokens \cup {None}]
    /\ live \in [Conversations -> Sessions \cup {0}]
    /\ gone \in [Conversations -> Sessions \cup {0}]
    /\ model \in [Sessions -> Models \cup {None}]
    /\ pending \in [Tokens -> Logins \cup {0}]
    /\ logins \in [Logins -> [st : LoginStates, sess : Sessions \cup {0}]]
    /\ queued \in [Conversations -> Nat]
    /\ asked \subseteq Conversations /\ unsaved \subseteq Conversations
    /\ deferred \subseteq Tokens /\ mixed \subseteq Tokens /\ lost \subseteq Sessions
    /\ rekeys \in BOOLEAN /\ torn \in BOOLEAN
    /\ minted \in [sess : 0 .. MaxSessions, conv : 0 .. MaxConvs, login : 0 .. MaxLogins]
    /\ at \in [Actors -> Calls]

\* What the goroutines of messages and those of turns do.
Roles ==
    /\ \A k \in Handlers : at[k].pc \notin TurnPcs \cup {"reset"}
    /\ \A c \in Conversations :
            at[c].pc \in TurnPcs \cup DroppingPcs \cup {"idle", "reset", "cancelling"}
    /\ \A k \in Actors : at[k].pc # "idle" => at[k].tok # None
    /\ \A c \in Conversations : at[c].pc \in TurnPcs => at[c].sess # 0
    /\ \A k \in Actors : at[k].pc = "handle" => at[k].to = 0 /\ at[k].sess = 0

\* A token names one conversation; a turn knows its conversation by the token it
\* has or had last; and of conversations yet to be made nothing is known.
Names ==
    /\ \A c, d \in Conversations : name[c] # None /\ name[c] = name[d] => c = d
    /\ \A c \in Conversations : name[c] # None => called[c] = name[c]
    /\ \A c \in Conversations : at[c].pc \in TurnPcs => at[c].tok = called[c]
    /\ \A c \in Conversations : c <= minted.conv => called[c] # None
    /\ \A k \in Actors : at[k].conv <= minted.conv
    /\ \A c \in Conversations : c > minted.conv =>
            /\ name[c] = None /\ called[c] = None /\ queued[c] = 0 /\ at[c].pc = "idle"
            /\ tool[c] = None /\ live[c] = 0 /\ gone[c] = 0 /\ mem[c] = Unchosen /\ file[c] = None
            /\ c \notin asked \cup unsaved

\* Under a token of one conversation only, what is deferred is that
\* conversation's, and so is the turn, or the end of one, that goes by it.
OwnTurn(c) ==
    at[c].pc \in TurnPcs \cup {"reset"} /\ at[c].tok \notin mixed => name[c] = at[c].tok

Deferrals ==
    /\ \A t \in deferred \ mixed : \E c \in Conversations : name[c] = t
    /\ DeferredByOwner
    /\ \A c \in Conversations : OwnTurn(c)

\* A session belongs to one conversation.
Uses(c, s) ==
    s # 0 /\ (live[c] = s \/ gone[c] = s \/ mem[c].applied = s
                \/ (at[c].pc \in TurnPcs /\ at[c].sess = s))

OwnSessions ==
    /\ \A c, d \in Conversations : \A s \in Sessions : Uses(c, s) /\ Uses(d, s) => c = d
    /\ \A c \in Conversations : \A s \in Sessions : Uses(c, s) => s <= minted.sess

\* What a turn is about to push and to mark.
Pushing ==
    \A c \in Conversations :
        /\ at[c].pc \in {"push", "mark"} =>
            at[c].id # None /\ (at[c].changed \/ mem[c].id \in {at[c].id, None})
        /\ at[c].pc = "push" => mem[c].applied # at[c].sess
        /\ at[c].pc = "mark" => model[at[c].sess] = at[c].id

\* Who saves the choice of c.
SavePcs == {"save", "carry", "carried"}
Saves(k, c) == at[k].pc \in SavePcs /\ c \in {at[k].conv, at[k].to}

Filing ==
    /\ \A k \in Actors : at[k].pc = "save" =>
        /\ at[k].conv \in 1 .. minted.conv /\ at[k].to = 0
        /\ at[k].conv \notin unsaved => mem[at[k].conv].id = at[k].id
    /\ \A k \in Actors : at[k].pc \in {"carry", "carried"} =>
        /\ at[k].conv \in 1 .. minted.conv /\ at[k].to \in 1 .. minted.conv
        /\ at[k].conv # at[k].to /\ name[at[k].conv] = None /\ mem[at[k].conv].id = None
        /\ at[k].to \notin unsaved => mem[at[k].to].id = at[k].id
    /\ \A k \in Actors : at[k].pc = "carried" /\ at[k].conv \notin unsaved => file[at[k].conv] = None
    /\ \A j, k \in Actors : \A c \in Conversations :
        j # k /\ Saves(j, c) /\ Saves(k, c) => c \in unsaved
    /\ FileIsChoice

\* Where the logins are: in one slot each, or in the hands of a call; a call
\* that has just got one has it alone.
OneSlot == \A t, u \in Tokens : pending[t] # 0 /\ pending[t] = pending[u] => t = u

Numbered ==
    /\ \A t \in Tokens : pending[t] <= minted.login
    /\ \A k \in Actors : at[k].login <= minted.login

HandPcs == {"note", "complete", "drop", "cancelling"}

InHand ==
    \A k \in Actors :
        /\ at[k].pc \in HandPcs <=> at[k].login # 0
        /\ at[k].pc \in {"note", "cancelling"} => \A t \in Tokens : pending[t] # at[k].login

HasItAlone(k) ==
    at[k].pc = "note" =>
        /\ \A j \in Actors : j # k => at[j].login # at[k].login
        /\ logins[at[k].login].st \in {"open", "alone"}
        /\ logins[at[k].login].sess = at[k].sess

JustAsked == \A k \in Actors : HasItAlone(k)

Holding == OneSlot /\ Numbered /\ InHand /\ JustAsked

\* No two calls start or finish the login of one token.
Apart ==
    \A j, k \in Actors :
        j # k /\ at[j].tok = at[k].tok => ~({at[j].pc, at[k].pc} \subseteq LoginPcs)

\* A reset of token t is about to drop its login.
Dropping(t) == \E k \in Actors : at[k].tok = t /\ at[k].pc \in DroppingPcs

\* A login of token t for session s is its conversation's, or soon dropped, or
\* its session was lost.
Valid(t, s) == s \in lost \cup {0} \/ Current(t, s) \/ Dropping(t)

\* What a call knows of its token's slot still holds.
CallFits(k) ==
    /\ at[k].pc \in {"ask", "note"} =>
        pending[at[k].tok] = 0 /\ Valid(at[k].tok, at[k].sess)
    /\ at[k].pc \in {"complete", "drop"} => \A t \in Tokens :
            IF t = at[k].tok THEN pending[t] \in {0, at[k].login} ELSE pending[t] # at[k].login
    /\ at[k].pc = "drop" => logins[at[k].login].st # "open"

CallsFit == \A k \in Actors : CallFits(k)

SlotHolds(t) ==
    pending[t] # 0 =>
        /\ \/ logins[pending[t]].st \in {"open", "alone"}
           \/ \E k \in Actors : at[k].pc = "drop" /\ at[k].tok = t
        /\ Valid(t, logins[pending[t]].sess)

SlotsHold == \A t \in Tokens : SlotHolds(t)

OpenKnown ==
    \A l \in Logins : logins[l].st = "open" =>
        (\E t \in Tokens : pending[t] = l) \/ (\E k \in Actors : at[k].login = l)

Slots == Apart /\ CallsFit /\ SlotsHold /\ OpenKnown

LoginsKept == Holding /\ (~torn => Slots)

Common == ControlTyped /\ Roles /\ Names
PushedChoices == ChoiceReachesAgent /\ OwnSessions /\ Pushing
ControlIInv == Common /\ Deferrals /\ PushedChoices /\ Filing /\ LoginsKept

-----------------------------------------------------------------------------
(* One goroutine goes on with a call r. *)
Moved(k, r) ==
    /\ at' \in [Actors -> Calls] /\ at'[k] = r
    /\ \A j \in Actors : j # k => at'[j] = at[j]

\* torn is set as soon as two calls about one token's login overlap.
Watched(k, r) ==
    /\ torn' \in BOOLEAN
    /\ ~torn' => ~torn /\ (r.pc \in LoginPcs =>
           \A j \in Actors : j # k /\ at[j].tok = r.tok => at[j].pc \notin LoginPcs)

\* The constants; None and 0 name nothing.
LEMMA ControlBounds ==
  /\ MaxConvs \in Nat /\ MaxSessions \in Nat /\ MaxLogins \in Nat
  /\ \A k \in Handlers, c \in Conversations : k # c
  /\ None \notin Tokens /\ None \notin Models /\ 0 \notin Conversations /\ 0 \notin Sessions
       /\ 0 \notin Logins
  /\ \A c \in Conversations : c \in Nat
BY ControlAssumption DEF Conversations, Sessions, Logins

\* What a goroutine's step leaves of the others, and of the watch over overlaps.
LEMMA Goes ==
  ASSUME ControlTyped, NEW k \in Actors, NEW r \in Calls, Go(k, r)
  PROVE  Moved(k, r) /\ Watched(k, r)
<1>1. at' = [at EXCEPT ![k] = r] /\ at \in [Actors -> Calls] /\ torn \in BOOLEAN
  BY DEF Go, ControlTyped
<1>2. Moved(k, r)
  BY <1>1 DEF Moved
<1>3. torn' = (torn \/ Overlaps(k, r)) /\ Overlaps(k, r) \in BOOLEAN
  BY DEF Go, Overlaps
<1>4. ~Overlaps(k, r) => (r.pc \in LoginPcs =>
           \A j \in Actors : j # k /\ at[j].tok = r.tok => at[j].pc \notin LoginPcs)
  BY <1>1 DEF Overlaps
<1> QED BY <1>1, <1>2, <1>3, <1>4 DEF Watched

LEMMA RestingCall == Resting \in Calls /\ Resting.pc = "idle" /\ Resting.login = 0
      /\ Resting.tok = None
  /\ Resting.to = 0 /\ Resting.conv = 0 /\ Resting.sess = 0
BY DEF Resting, Calls, Pcs, Kinds, LoginPcs

\* A call about a login.
LEMMA LoginCall ==
  ASSUME NEW pc \in Pcs, NEW t \in Tokens, NEW l \in Logins \cup {0}
  PROVE  LET r == Call(pc, t, l) IN
         /\ r \in Calls /\ r.pc = pc /\ r.tok = t /\ r.login = l
         /\ r.conv = 0 /\ r.to = 0 /\ r.sess = 0
BY DEF Call, Resting, Calls, Kinds

\* The conversation a token resolves to.
LEMMA Resolved ==
  ASSUME ControlTyped, Names, NEW t \in Tokens
  PROVE  /\ Resolve(t) \in Conversations \cup {0}
         /\ \A c \in Conversations : name[c] = t <=> Resolve(t) = c
<1>1. t # None /\ 0 \notin Conversations
  BY ControlBounds
<1>2. CASE \E c \in Conversations : name[c] = t
  BY <1>1, <1>2 DEF Resolve, Names
<1>3. CASE ~\E c \in Conversations : name[c] = t
  BY <1>1, <1>3 DEF Resolve
<1> QED BY <1>2, <1>3

LEMMA ResolvedNext ==
  ASSUME ControlTyped', Names', NEW t \in Tokens
  PROVE  /\ Resolve(t)' \in Conversations \cup {0}
         /\ \A c \in Conversations : name'[c] = t <=> Resolve(t)' = c
<1>1. t # None /\ 0 \notin Conversations
  BY ControlBounds
<1>2. CASE \E c \in Conversations : name'[c] = t
  BY <1>1, <1>2 DEF Resolve, Names
<1>3. CASE ~\E c \in Conversations : name'[c] = t
  BY <1>1, <1>3 DEF Resolve
<1> QED BY <1>2, <1>3

\* A call that may go on as r.
Fitting(k, r) ==
    /\ k \in Handlers => r.pc \notin TurnPcs \cup {"reset"}
    /\ k \in Conversations =>
        /\ r.pc \in TurnPcs \cup DroppingPcs \cup {"idle", "reset", "cancelling"}
        /\ r.pc \in TurnPcs => r.sess # 0 /\ r.tok = called[k]
        /\ r.pc # "idle" => k <= minted.conv
    /\ r.pc = "handle" => r.to = 0 /\ r.sess = 0
    /\ r.pc # "idle" => r.tok # None
    /\ r.conv <= minted.conv

LEMMA MoveRoles ==
  ASSUME Roles, NEW k \in Actors, NEW r \in Calls, Moved(k, r), Fitting(k, r)
  PROVE  Roles'
BY ControlBounds DEF Roles, Moved, Fitting, Actors

\* Nothing but prompts and sessions is new to a conversation yet to be made.
LEMMA MoveNames ==
  ASSUME ControlTyped, Names, NEW k \in Actors, NEW r \in Calls, Moved(k, r), Fitting(k, r),
         name' = name, called' = called, minted'.conv = minted.conv,
         \A c \in Conversations : c > minted.conv =>
            /\ mem'[c] = mem[c] /\ file'[c] = file[c] /\ tool'[c] = tool[c]
            /\ queued'[c] = queued[c] /\ live'[c] = live[c] /\ gone'[c] = gone[c]
            /\ (c \in asked' => c \in asked) /\ (c \in unsaved' => c \in unsaved)
  PROVE  Names'
<1>1. \A c \in Conversations : c \in Actors /\ c \in Nat
  BY ControlBounds DEF Actors
<1>2. minted.conv \in Nat
  BY DEF ControlTyped
<1>3. \A j \in Actors : at'[j].conv <= minted'.conv
  BY DEF Names, Moved, Fitting
<1>4. \A c \in Conversations : at'[c].pc \in TurnPcs => at'[c].tok = called'[c]
  BY <1>1 DEF Names, Moved, Fitting
<1>5. \A c \in Conversations : c > minted'.conv => at'[c].pc = "idle"
  BY <1>1, <1>2 DEF Names, Moved, Fitting
<1> QED BY <1>3, <1>4, <1>5 DEF Names

\* A conversation that does something was made.
LEMMA BusyIsMade ==
  ASSUME ControlTyped, Names, NEW c \in Conversations,
         at[c].pc # "idle" \/ queued[c] > 0 \/ live[c] # 0 \/ name[c] # None \/ tool[c] # None
  PROVE  /\ c <= minted.conv /\ called[c] \in Tokens
BY ControlBounds DEF Names, ControlTyped

\* Steps that leave the names, and what is deferred, alone.
LEMMA DeferralsSame ==
  ASSUME ControlTyped, Deferrals, UNCHANGED <<name, deferred, asked>>, mixed \subseteq mixed',
         \A c \in Conversations :
            \/ at'[c].pc \notin TurnPcs \cup {"reset"}
            \/ at[c].pc \in TurnPcs \cup {"reset"} /\ at'[c].tok = at[c].tok
  PROVE  Deferrals'
<1>1. DeferredByOwner'
  BY DEF Deferrals, DeferredByOwner
<1>2. \A c \in Conversations : OwnTurn(c)'
  BY DEF Deferrals, OwnTurn
<1> QED BY <1>1, <1>2 DEF Deferrals

\* Steps that do not concern the choices, the saves, or the logins.
LEMMA ChoicesSame ==
  ASSUME ControlTyped, PushedChoices, UNCHANGED <<mem, model>>, minted'.sess = minted.sess,
         \A c \in Conversations :
            /\ live'[c] \in {live[c], 0} /\ gone'[c] \in {live[c], gone[c], 0}
            /\ \/ at'[c].pc \notin TurnPcs
               \/ /\ at'[c].pc = at[c].pc /\ at'[c].sess = at[c].sess /\ at'[c].id = at[c].id
                  /\ at[c].changed => at'[c].changed
  PROVE  PushedChoices'
<1>1. ChoiceReachesAgent'
  BY DEF PushedChoices, ChoiceReachesAgent, TurnPcs
<1>2. \A c \in Conversations, s \in Sessions : Uses(c, s)' => Uses(c, s)
  BY DEF Uses
<1>3. OwnSessions'
  BY <1>2 DEF PushedChoices, OwnSessions
<1>4. Pushing'
  BY DEF PushedChoices, Pushing, TurnPcs
<1> QED BY <1>1, <1>3, <1>4 DEF PushedChoices

LEMMA FilingSame ==
  ASSUME ControlTyped, at' \in [Actors -> Calls], Filing, UNCHANGED <<file, unsaved>>,
         \A c \in Conversations : mem'[c].id = mem[c].id,
         minted'.conv \in Nat, minted.conv <= minted'.conv,
         \A c \in 1 .. minted.conv : name[c] = None => name'[c] = None,
         \A k \in Actors :
            \/ at[k].pc \notin SavePcs /\ at'[k].pc \notin SavePcs
            \/ /\ at'[k].pc = at[k].pc /\ at'[k].conv = at[k].conv /\ at'[k].to = at[k].to
               /\ at'[k].id = at[k].id
  PROVE  Filing'
<1> USE DEF SavePcs
<1> DEFINE Same(k) == /\ at'[k].pc = at[k].pc /\ at'[k].conv = at[k].conv /\ at'[k].to = at[k].to
                      /\ at'[k].id = at[k].id
<1>1. \A k \in Actors : at'[k].pc \in SavePcs => Same(k)
  OBVIOUS
<1>2. \A k \in Actors : at[k].pc \in SavePcs => Same(k)
  OBVIOUS
<1>3. minted.conv \in Nat /\ \A c \in 1 .. minted.conv : c \in Conversations
  BY ControlBounds DEF ControlTyped, Conversations
<1>4. ASSUME NEW k \in Actors, at'[k].pc = "save"
      PROVE  /\ at'[k].conv \in 1 .. minted'.conv /\ at'[k].to = 0
             /\ at'[k].conv \notin unsaved' => mem'[at'[k].conv].id = at'[k].id
  BY <1>1, <1>3, <1>4 DEF Filing
<1>5. ASSUME NEW k \in Actors, at'[k].pc \in {"carry", "carried"}
      PROVE  /\ at'[k].conv \in 1 .. minted'.conv /\ at'[k].to \in 1 .. minted'.conv
             /\ at'[k].conv # at'[k].to /\ name'[at'[k].conv] = None
                  /\ mem'[at'[k].conv].id = None
             /\ at'[k].to \notin unsaved' => mem'[at'[k].to].id = at'[k].id
  BY <1>1, <1>3, <1>5 DEF Filing
<1>6. ASSUME NEW k \in Actors, at'[k].pc = "carried", at'[k].conv \notin unsaved'
      PROVE  file'[at'[k].conv] = None
  BY <1>1, <1>6 DEF Filing
<1>7. \A k \in Actors, c \in Conversations : Saves(k, c)' <=> Saves(k, c)
  BY <1>1, <1>2 DEF Saves
<1>8. \A c \in Conversations : Saving(c)' <=> Saving(c)
  <2>1. DOMAIN at = Actors /\ DOMAIN at' = Actors
    BY DEF ControlTyped
  <2> QED BY <1>1, <1>2, <2>1 DEF Saving
<1>9. FileIsChoice'
  BY <1>8 DEF Filing, FileIsChoice
<1> QED BY <1>4, <1>5, <1>6, <1>7, <1>9 DEF Filing

-----------------------------------------------------------------------------
(* Logins under a step of one goroutine.  Holding is kept whatever overlaps;   *)
(* the slots only while nothing did.                                         *)

\* A conversation keeps its sessions, but for those that are lost.
Keeps(t) == \A s \in Sessions : Current(t, s) => Current(t, s)' \/ s \in lost'

LEMMA ValidKept ==
  ASSUME NEW t \in Tokens, NEW s \in Sessions \cup {0}, Valid(t, s),
         lost \subseteq lost', Keeps(t), Dropping(t) => Dropping(t)'
  PROVE  Valid(t, s)'
BY DEF Valid, Keeps

\* Steps that touch no login.
LEMMA LoginsSame ==
  ASSUME ControlTyped, Roles, LoginsKept, UNCHANGED <<pending, logins>>,
        minted'.login = minted.login, DOMAIN at' = Actors,
        ~torn' => ~torn, lost \subseteq lost',
        \A t \in Tokens : Keeps(t),
        \A k \in Actors :
            /\ at'[k].login = at[k].login
            /\ \/ {at[k].pc, at'[k].pc} \cap (LoginPcs \cup DroppingPcs \cup {"cancelling"}) = {}
               \/ at'[k].pc = at[k].pc /\ at'[k].tok = at[k].tok /\ at'[k].sess = at[k].sess
               \/ at[k].pc = "ask" /\ at'[k].pc = "idle"
  PROVE  LoginsKept'
<1>1. \A k \in Actors : at[k].pc \in HandPcs \cup DroppingPcs =>
         at'[k].pc = at[k].pc /\ at'[k].tok = at[k].tok /\ at'[k].sess = at[k].sess
  BY DEF LoginPcs, DroppingPcs, HandPcs
<1>2. \A k \in Actors : at'[k].pc \in HandPcs \cup LoginPcs =>
         at'[k].pc = at[k].pc /\ at'[k].tok = at[k].tok /\ at'[k].sess = at[k].sess
  BY DEF LoginPcs, HandPcs
<1>3. Holding'
  <2>1. OneSlot' /\ Numbered'
    BY DEF LoginsKept, Holding, OneSlot, Numbered
  <2>2. InHand'
    BY <1>1, <1>2 DEF LoginsKept, Holding, InHand, HandPcs
  <2>3. JustAsked'
    BY <1>2 DEF LoginsKept, Holding, JustAsked, HasItAlone, HandPcs
  <2> QED BY <2>1, <2>2, <2>3 DEF Holding
<1>4. ASSUME ~torn' PROVE Slots'
  <2>1. Apart /\ CallsFit /\ SlotsHold /\ OpenKnown
    BY <1>4 DEF LoginsKept, Slots
  <2>2. \A t \in Tokens : Dropping(t) => Dropping(t)'
    BY <1>1 DEF Dropping
  <2>3. \A t \in Tokens, s \in Sessions \cup {0} : Valid(t, s) => Valid(t, s)'
    BY <2>2, ValidKept
  <2>4. Apart'
    BY <1>2, <2>1 DEF Apart
  <2>5. ASSUME NEW k \in Actors PROVE CallFits(k)'
    <3> SUFFICES ASSUME at'[k].pc \in LoginPcs PROVE CallFits(k)'
      BY DEF CallFits, LoginPcs
    <3>1. /\ at'[k].pc = at[k].pc /\ at'[k].tok = at[k].tok /\ at'[k].sess = at[k].sess
          /\ at'[k].login = at[k].login
      BY <1>2
    <3>2. PICK t \in Tokens, s \in Sessions \cup {0} : t = at[k].tok /\ s = at[k].sess
      BY <3>1 DEF ControlTyped, Calls, Roles, LoginPcs
    <3>3. Valid(t, s) => Valid(t, s)'
      BY <2>3
    <3>4. Valid(at[k].tok, at[k].sess) <=> Valid(t, s)
      BY <3>2
    <3>5. Valid(at[k].tok, at[k].sess)' <=> Valid(t, s)'
      BY <3>1, <3>2 DEF Valid, Current, Dropping, Resolve
    <3>6. CallFits(k)
      BY <2>1 DEF CallsFit
    <3> QED BY <3>1, <3>3, <3>4, <3>5, <3>6 DEF CallFits
  <2>6. ASSUME NEW t \in Tokens PROVE SlotHolds(t)'
    <3> SUFFICES ASSUME pending[t] # 0 PROVE SlotHolds(t)'
      BY DEF SlotHolds
    <3>1. PICK s \in Sessions \cup {0} : s = logins[pending[t]].sess
      BY DEF ControlTyped
    <3>2. Valid(t, s) => Valid(t, s)'
      BY <2>3
    <3>3. Valid(t, logins[pending[t]].sess) <=> Valid(t, s)
      BY <3>1
    <3>4. Valid(t, logins[pending[t]].sess)' <=> Valid(t, s)'
      BY <3>1 DEF Valid, Current, Dropping, Resolve
    <3>5. \A k \in Actors : at[k].pc = "drop" /\ at[k].tok = t => at'[k].pc = "drop"
          /\ at'[k].tok = t
      BY <1>1 DEF HandPcs
    <3>6. SlotHolds(t)
      BY <2>1 DEF SlotsHold
    <3> QED BY <3>2, <3>3, <3>4, <3>5, <3>6 DEF SlotHolds
  <2>7. OpenKnown'
    BY <2>1 DEF OpenKnown
  <2> QED BY <2>4, <2>5, <2>6, <2>7 DEF Slots, CallsFit, SlotsHold
<1> QED BY <1>3, <1>4 DEF LoginsKept

\* Goroutine k goes on as r, and changes at most the slot of T and the login it
\* holds or has just got.
Touches(k, r, T) ==
    /\ at[k].pc \in LoginPcs \cup DroppingPcs => at[k].tok = T
    /\ r.pc \in LoginPcs \cup DroppingPcs => r.tok = T
    /\ \A t \in Tokens : t # T => pending'[t] = pending[t]
    /\ \/ pending'[T] \in {0, pending[T]}
       \/ at[k].pc = "note" /\ pending'[T] = at[k].login
    /\ minted.login <= minted'.login
    /\ \/ r.login \in {0, at[k].login, pending[T]}
       \/ r.login > minted.login /\ r.login <= minted'.login
    /\ r.pc \in HandPcs <=> r.login # 0
    /\ r.pc \in {"note", "cancelling"} => \A t \in Tokens : pending'[t] # r.login
    /\ \A l \in Logins :
          /\ logins'[l] = logins[l] \/ l = at[k].login \/ l > minted.login
          /\ logins'[l].st = "open" =>
                logins[l].st = "open" \/ (l > minted.login /\ r.login = l)
          /\ ~torn' /\ logins'[l].st = "open" /\ l \in {at[k].login, pending[T]} =>
                pending'[T] = l \/ r.login = l

LEMMA HoldingMove ==
  ASSUME ControlTyped, Holding, NEW k \in Actors, NEW r \in Calls, Moved(k, r), NEW T \in Tokens,
         Touches(k, r, T), HasItAlone(k)', ControlTyped'
  PROVE  Holding'
<1>1. /\ at'[k] = r /\ \A j \in Actors : j # k => at'[j] = at[j]
      /\ OneSlot /\ Numbered /\ InHand /\ JustAsked
      /\ minted.login \in Nat /\ minted'.login \in Nat /\ minted.login <= minted'.login
      /\ pending \in [Tokens -> Logins \cup {0}] /\ pending' \in [Tokens -> Logins \cup {0}]
      /\ \A l \in Logins : l \in Nat /\ l # 0
      /\ \A j \in Actors : at[j].login \in Logins \cup {0}
      /\ r.login \in Logins \cup {0}
  BY ControlBounds DEF Moved, Holding, ControlTyped, Touches, Logins, Calls
<1>2. ASSUME NEW j \in Actors, at[j].pc \in {"note", "cancelling"}, NEW t \in Tokens
      PROVE  at[j].login # pending[t] /\ at[j].login # 0
  BY <1>1, <1>2 DEF InHand, HandPcs
<1>3. ASSUME NEW j \in Actors, j # k, at[j].pc = "note"
      PROVE  r.login # at[j].login /\ logins'[at[j].login] = logins[at[j].login]
  <2>1. at[j].login # at[k].login /\ at[j].login \in Logins /\ at[j].login <= minted.login
    BY <1>1, <1>2, <1>3 DEF JustAsked, HasItAlone, Numbered
  <2> QED BY <1>1, <1>2, <1>3, <2>1 DEF Touches
<1>4. at[k].pc = "note" =>
        /\ \A j \in Actors : j # k => at[j].login # at[k].login
        /\ \A t \in Tokens : pending[t] # at[k].login
  BY <1>1, <1>2 DEF JustAsked, HasItAlone
<1>5. OneSlot'
  BY <1>1, <1>4 DEF OneSlot, Touches
<1>6. Numbered'
  <2>1. \A t \in Tokens : pending[t] <= minted.login /\ pending[t] \in Nat
    BY <1>1 DEF Numbered
  <2>2. \A j \in Actors : at[j].login <= minted.login /\ at[j].login \in Nat
    BY <1>1 DEF Numbered
  <2>3. \A t \in Tokens : pending'[t] <= minted.login
    BY <1>1, <2>1, <2>2 DEF Touches
  <2>4. \A t \in Tokens : pending'[t] <= minted'.login
    BY <1>1, <2>3
  <2>5. r.login <= minted'.login
    BY <1>1, <2>1, <2>2 DEF Touches
  <2>6. \A j \in Actors : at'[j].login <= minted'.login
    BY <1>1, <2>2, <2>5
  <2> QED BY <2>4, <2>6 DEF Numbered
<1>7. InHand'
  <2>1. ASSUME NEW j \in Actors, j # k, at[j].pc \in {"note", "cancelling"}, NEW t \in Tokens
        PROVE  pending'[t] # at[j].login
    BY <1>1, <1>2, <1>4, <2>1 DEF Touches
  <2> QED BY <1>1, <2>1 DEF InHand, Touches
<1>8. JustAsked'
  <2>1. ASSUME NEW j \in Actors, j # k PROVE HasItAlone(j)'
    BY <1>1, <1>3, <2>1 DEF JustAsked, HasItAlone
  <2> QED BY <2>1 DEF JustAsked
<1> QED BY <1>5, <1>6, <1>7, <1>8 DEF Holding

LEMMA LoginMove ==
  ASSUME ControlTyped, Roles, LoginsKept, ControlTyped',
         NEW k \in Actors, NEW r \in Calls, Moved(k, r), Watched(k, r),
         NEW T \in Tokens, Touches(k, r, T), HasItAlone(k)',
         lost \subseteq lost', \A t \in Tokens : t # T => Keeps(t),
         \A j \in Actors : j # k /\ at[j].pc \in {"ask", "note"} /\ at[j].tok = T
              /\ Valid(T, at[j].sess) => Valid(T, at[j].sess)',
         ~torn' => CallFits(k)' /\ SlotHolds(T)'
  PROVE  LoginsKept'
<1>1. Holding'
  BY HoldingMove DEF LoginsKept
<1> SUFFICES ASSUME ~torn' PROVE Slots'
  BY <1>1 DEF LoginsKept
<1>2. /\ at'[k] = r /\ \A j \in Actors : j # k => at'[j] = at[j]
      /\ Apart /\ CallsFit /\ SlotsHold /\ OpenKnown
      /\ OneSlot /\ Numbered /\ InHand /\ JustAsked
      /\ minted.login \in Nat /\ pending \in [Tokens -> Logins \cup {0}]
      /\ \A l \in Logins : l \in Nat /\ l # 0
      /\ \A j \in Actors : at[j].login \in Logins \cup {0} /\ at[j].sess \in Sessions \cup {0}
      /\ \A l \in Logins : logins[l].sess \in Sessions \cup {0}
  BY ControlBounds DEF Moved, Watched, LoginsKept, Slots, Holding, ControlTyped, Logins, Calls
<1>3. \A t \in Tokens : t # T /\ Dropping(t) => Dropping(t)'
  BY <1>2 DEF Dropping, Touches
<1>4. \A t \in Tokens, s \in Sessions \cup {0} : t # T /\ Valid(t, s) => Valid(t, s)'
  BY <1>3, ValidKept
<1>5. \A j \in Actors : j # k /\ at[j].tok = T /\ at[j].pc \in LoginPcs =>
         at[k].pc \notin LoginPcs /\ r.pc \notin LoginPcs
  BY <1>2 DEF Apart, Touches, Watched
<1>6. Apart'
  BY <1>2, <1>5 DEF Apart, Touches
<1>7. ASSUME NEW j \in Actors, j # k PROVE CallFits(j)'
  <2> SUFFICES ASSUME at[j].pc \in LoginPcs PROVE CallFits(j)'
    BY <1>2, <1>7 DEF CallFits, LoginPcs
  <2>1. at'[j] = at[j] /\ at[j].tok \in Tokens /\ CallFits(j)
    BY <1>2, <1>7 DEF ControlTyped, Calls, Roles, LoginPcs, CallsFit
  <2>2. at[j].pc \in {"ask", "note"} =>
           pending'[at[j].tok] = 0 /\ Valid(at[j].tok, at[j].sess)'
    <3> SUFFICES ASSUME at[j].pc \in {"ask", "note"}
                 PROVE  pending'[at[j].tok] = 0 /\ Valid(at[j].tok, at[j].sess)'
      OBVIOUS
    <3>1. PICK t \in Tokens, s \in Sessions \cup {0} : t = at[j].tok /\ s = at[j].sess
      BY <1>2, <2>1
    <3>2. pending[t] = 0 /\ Valid(t, s)
      BY <2>1, <3>1 DEF CallFits
    <3>3. pending'[t] = 0
      BY <1>5, <1>7, <3>1, <3>2 DEF Touches, LoginPcs
    <3>4. Valid(t, s)'
      <4>1. CASE t # T
        BY <1>4, <3>2, <4>1
      <4>2. CASE t = T
        <5>1. Valid(T, at[j].sess) /\ Valid(T, at[j].sess)'
          BY <1>7, <3>1, <3>2, <4>2
        <5>2. Valid(T, at[j].sess)' <=> Valid(t, s)'
          BY <2>1, <3>1, <4>2 DEF Valid, Current, Dropping, Resolve
        <5> QED BY <5>1, <5>2
      <4> QED BY <4>1, <4>2
    <3>5. Valid(at[j].tok, at[j].sess)' <=> Valid(t, s)'
      BY <2>1, <3>1 DEF Valid, Current, Dropping, Resolve
    <3> QED BY <3>1, <3>3, <3>4, <3>5
  <2>3. at[j].pc \in {"complete", "drop"} => \A t \in Tokens :
            IF t = at[j].tok THEN pending'[t] \in {0, at[j].login}
                             ELSE pending'[t] # at[j].login
    <3> SUFFICES ASSUME at[j].pc \in {"complete", "drop"}, NEW t \in Tokens
                 PROVE  IF t = at[j].tok THEN pending'[t] \in {0, at[j].login}
                                         ELSE pending'[t] # at[j].login
      OBVIOUS
    <3>1. IF t = at[j].tok THEN pending[t] \in {0, at[j].login} ELSE pending[t] # at[j].login
      BY <2>1 DEF CallFits
    <3>2. at[j].login # 0
      BY <1>2 DEF InHand, HandPcs
    <3>3. pending'[t] \in {0, pending[t]} \/ (at[k].pc = "note" /\ t = T /\ pending'[t] = at[k].login)
      BY DEF Touches
    <3>4. at[k].pc = "note" => at[j].login # at[k].login /\ (t = T => t # at[j].tok)
      BY <1>2, <1>5, <1>7 DEF JustAsked, HasItAlone, LoginPcs
    <3> QED BY <3>1, <3>2, <3>3, <3>4
  <2>4. at[j].pc = "drop" => logins'[at[j].login].st # "open"
    <3> SUFFICES ASSUME at[j].pc = "drop" PROVE logins'[at[j].login].st # "open"
      OBVIOUS
    <3>1. at[j].login \in Logins /\ at[j].login <= minted.login /\ logins[at[j].login].st # "open"
      BY <1>2, <2>1 DEF InHand, HandPcs, Numbered, CallFits
    <3> QED BY <1>2, <3>1 DEF Touches
  <2> QED BY <2>1, <2>2, <2>3, <2>4 DEF CallFits
<1>8. ASSUME NEW t \in Tokens, t # T PROVE SlotHolds(t)'
  <2> SUFFICES ASSUME pending[t] # 0 PROVE SlotHolds(t)'
    BY <1>8 DEF SlotHolds, Touches
  <2>1. PICK p \in Logins : p = pending[t]
    BY <1>2
  <2>2. pending'[t] = p /\ p <= minted.login /\ SlotHolds(t)
    BY <1>2, <1>8, <2>1 DEF Touches, Numbered, SlotsHold
  <2>3. p # at[k].login
    <3>1. at[k].login = 0 \/ at[k].pc \in HandPcs
      BY <1>2 DEF InHand
    <3>2. CASE at[k].pc \in {"note", "cancelling"}
      BY <1>2, <2>1, <3>2 DEF InHand
    <3>3. CASE at[k].pc \in {"complete", "drop"}
      <4>1. CallFits(k) /\ at[k].tok = T
        BY <1>2, <3>3 DEF CallsFit, Touches, LoginPcs
      <4> QED BY <1>8, <2>1, <3>3, <4>1 DEF CallFits
    <3> QED BY <1>2, <2>1, <3>1, <3>2, <3>3 DEF HandPcs
  <2>4. logins'[p] = logins[p]
    BY <1>2, <2>2, <2>3 DEF Touches
  <2>5. (\E j \in Actors : at[j].pc = "drop" /\ at[j].tok = t) =>
             \E j \in Actors : at'[j].pc = "drop" /\ at'[j].tok = t
    BY <1>2, <1>8 DEF Touches, LoginPcs
  <2>6. PICK s \in Sessions \cup {0} : s = logins[p].sess
    BY <1>2
  <2>7. Valid(t, s) => Valid(t, s)'
    BY <1>4, <1>8
  <2>8. Valid(t, logins[pending[t]].sess) <=> Valid(t, s)
    BY <2>1, <2>6
  <2>9. Valid(t, logins[pending[t]].sess)' <=> Valid(t, s)'
    BY <2>2, <2>4, <2>6 DEF Valid, Current, Dropping, Resolve
  <2> QED BY <2>1, <2>2, <2>4, <2>5, <2>7, <2>8, <2>9 DEF SlotHolds
<1>9. OpenKnown'
  <2> SUFFICES ASSUME NEW l \in Logins, logins'[l].st = "open"
               PROVE  \/ \E t \in Tokens : pending'[t] = l
                      \/ \E j \in Actors : at'[j].login = l
    BY DEF OpenKnown
  <2>1. CASE l \in {at[k].login, pending[T]} \/ r.login = l
    <3>1. pending'[T] = l \/ r.login = l
      BY <2>1 DEF Touches
    <3> QED BY <1>2, <3>1
  <2>2. CASE l \notin {at[k].login, pending[T]} /\ r.login # l
    <3>1. logins[l].st = "open"
      BY <2>2 DEF Touches
    <3>2. (\E t \in Tokens : pending[t] = l) \/ (\E j \in Actors : at[j].login = l)
      BY <1>2, <3>1 DEF OpenKnown
    <3> QED BY <1>2, <2>2, <3>2 DEF Touches
  <2> QED BY <2>1, <2>2
<1>10. CallsFit' /\ SlotsHold'
  BY <1>7, <1>8 DEF CallsFit, SlotsHold
<1> QED BY <1>6, <1>9, <1>10 DEF Slots

-----------------------------------------------------------------------------
(* The calls about a login.  Each lemma names the call r the goroutine goes  *)
(* on with, and shows that the call and the slot of its token fit.           *)

\* A step of the login calls leaves the rest alone.
LEMMA LoginStep ==
  ASSUME Common, Deferrals, PushedChoices, Filing, ControlTyped',
         NEW k \in Actors, NEW r \in Calls, Moved(k, r), Fitting(k, r),
         r.pc \notin TurnPcs \cup {"reset"} \cup SavePcs, at[k].pc \notin SavePcs,
         UNCHANGED <<choices, resets, names, live, gone, model, queued>>,
         minted'.sess = minted.sess, minted'.conv = minted.conv
  PROVE  Common' /\ Deferrals' /\ PushedChoices' /\ Filing'
<1> USE DEF choices, resets, names
<1>0. ControlTyped /\ Roles /\ Names
  BY DEF Common
<1>1. /\ at' \in [Actors -> Calls] /\ at'[k] = r /\ \A j \in Actors : j # k => at'[j] = at[j]
      /\ \A c \in Conversations : c # k => at'[c] = at[c]
  BY DEF Moved, Actors
<1>2. Roles'
  BY <1>0, MoveRoles
<1>3. Names'
  BY <1>0, MoveNames
<1>4. Deferrals'
  BY <1>0, <1>1, DeferralsSame
<1>5. PushedChoices'
  BY <1>0, <1>1, ChoicesSame
<1>6. Filing'
  <2>1. minted.conv \in Nat
    BY <1>0 DEF ControlTyped
  <2> QED BY <1>0, <1>1, <2>1, FilingSame
<1> QED BY <1>2, <1>3, <1>4, <1>5, <1>6 DEF Common

\* What a step that drops no login for a session leaves of the validity of one.
LEMMA MoveValid ==
  ASSUME ControlTyped, NEW k \in Actors, NEW r \in Calls, Moved(k, r), at[k].pc \notin DroppingPcs,
         lost' = lost, UNCHANGED <<name, live>>
  PROVE  /\ \A t \in Tokens : Keeps(t)
         /\ \A t \in Tokens, s \in Sessions \cup {0} : Valid(t, s) => Valid(t, s)'
         /\ \A t \in Tokens, j \in Actors : j # k /\ Valid(t, at[j].sess) => Valid(t, at[j].sess)'
<1>1. \A t \in Tokens : Keeps(t)
  BY DEF Keeps, Current, Resolve
<1>2. \A t \in Tokens : Dropping(t) => Dropping(t)'
  BY DEF Dropping, Moved
<1>3. \A t \in Tokens, s \in Sessions \cup {0} : Valid(t, s) => Valid(t, s)'
  BY <1>1, <1>2, ValidKept
<1>4. ASSUME NEW t \in Tokens, NEW j \in Actors, j # k, Valid(t, at[j].sess)
      PROVE  Valid(t, at[j].sess)'
  <2>1. at'[j] = at[j]
    BY <1>4 DEF Moved
  <2>2. PICK s \in Sessions \cup {0} : s = at[j].sess
    BY DEF ControlTyped, Calls
  <2>3. Valid(t, s)'
    BY <1>3, <1>4, <2>2
  <2> QED BY <2>1, <2>2, <2>3 DEF Valid, Current, Dropping, Resolve
<1> QED BY <1>1, <1>3, <1>4

\* The slot of T stays as it is.
LEMMA SlotKept ==
  ASSUME ControlTyped, NEW k \in Actors, NEW r \in Calls, Moved(k, r), NEW T \in Tokens,
         SlotHolds(T), pending'[T] = pending[T],
         pending[T] # 0 => logins'[pending[T]] = logins[pending[T]], at[k].pc # "drop",
         \A s \in Sessions \cup {0} : Valid(T, s) => Valid(T, s)'
  PROVE  SlotHolds(T)'
<1> SUFFICES ASSUME pending[T] # 0 PROVE SlotHolds(T)'
  BY DEF SlotHolds
<1>1. PICK s \in Sessions \cup {0} : s = logins[pending[T]].sess
  BY DEF ControlTyped
<1>2. Valid(T, s)'
  BY <1>1 DEF SlotHolds
<1>3. Valid(T, logins[pending[T]].sess)' <=> Valid(T, s)'
  BY <1>1 DEF Valid, Current, Dropping, Resolve
<1>4. (\E j \in Actors : at[j].pc = "drop" /\ at[j].tok = T) =>
           \E j \in Actors : at'[j].pc = "drop" /\ at'[j].tok = T
  BY DEF Moved
<1> QED BY <1>2, <1>3, <1>4 DEF SlotHolds

\* A call about the login of token T that drops none for a session.
LEMMA LoginAction ==
  ASSUME ControlIInv, NEW k \in Actors, NEW r \in Calls, Go(k, r), Fitting(k, r),
         r.pc \notin TurnPcs \cup {"reset"} \cup SavePcs, at[k].pc \notin SavePcs \cup DroppingPcs,
         UNCHANGED <<choices, resets, names, sessions, model, queued>>,
         ControlTyped', minted'.sess = minted.sess, minted'.conv = minted.conv,
         NEW T \in Tokens, Touches(k, r, T), HasItAlone(k)',
         ~torn' => CallFits(k)' /\ SlotHolds(T)'
  PROVE  ControlIInv'
<1> USE DEF sessions, names
<1>1. Common /\ ControlTyped /\ Roles /\ Deferrals /\ PushedChoices /\ Filing /\ LoginsKept
  BY DEF ControlIInv, Common
<1>2. Moved(k, r) /\ Watched(k, r)
  BY <1>1, Goes
<1>3. Common' /\ Deferrals' /\ PushedChoices' /\ Filing'
  BY <1>1, <1>2, LoginStep
<1>4. LoginsKept'
  <2>1. /\ lost \subseteq lost' /\ \A t \in Tokens : Keeps(t)
        /\ \A t \in Tokens, j \in Actors : j # k /\ Valid(t, at[j].sess) => Valid(t, at[j].sess)'
    BY <1>1, <1>2, MoveValid
  <2> QED BY <1>1, <1>2, <2>1, LoginMove
<1> QED BY <1>3, <1>4 DEF ControlIInv

\* A message is taken for the paste of the pending login.
LEMMA PastedStep ==
  ASSUME ControlIInv, NEW k \in Handlers, Pasted(k),
         Go(k, Call("complete", at[k].tok, pending[at[k].tok]))
  PROVE  ControlIInv'
<1> USE DEF choices, loginVars, resets, world, names, sessions
<1>0. ControlTyped /\ Roles /\ Names /\ LoginsKept
  BY DEF ControlIInv, Common
<1>1. /\ k \in Actors /\ k \notin Conversations /\ at[k].pc = "handle" /\ at[k].tok \in Tokens
      /\ at[k].login = 0 /\ pending[at[k].tok] \in Logins
  BY <1>0, ControlBounds DEF Actors, Pasted, ControlTyped, Roles, Calls, LoginsKept, Holding,
        InHand, HandPcs
<1> PICK T \in Tokens, e \in Logins : T = at[k].tok /\ e = pending[T]
  BY <1>1
<1> PICK r \in Calls : r = Call("complete", T, e)
  BY LoginCall DEF Pcs, LoginPcs
<1>2. r.pc = "complete" /\ r.tok = T /\ r.login = e /\ r.conv = 0 /\ e # 0
  BY LoginCall, ControlBounds DEF Pcs, LoginPcs
<1>3. Go(k, r) /\ UNCHANGED <<choices, loginVars, resets, world>>
  BY <1>1 DEF Pasted
<1>4. Moved(k, r) /\ Watched(k, r)
  BY <1>0, <1>1, <1>3, Goes
<1>5. ControlTyped'
  BY <1>0, <1>3, <1>4 DEF ControlTyped, Moved, Watched
<1>6. Fitting(k, r)
  BY <1>0, <1>1, <1>2, ControlBounds DEF Fitting, TurnPcs, ControlTyped
<1>7. Touches(k, r, T)
  <2>1. /\ minted' = minted /\ minted.login <= minted.login /\ UNCHANGED <<pending, logins>>
        /\ 0 \notin Logins
    BY <1>0, <1>3, ControlBounds DEF ControlTyped
  <2> QED BY <1>1, <1>2, <2>1 DEF Touches, LoginPcs, DroppingPcs, HandPcs
<1>8. HasItAlone(k)'
  BY <1>2, <1>4 DEF HasItAlone, Moved
<1>9. ASSUME ~torn' PROVE CallFits(k)' /\ SlotHolds(T)'
  <2>1. SlotHolds(T) /\ OneSlot
    BY <1>0, <1>4, <1>9 DEF LoginsKept, Slots, SlotsHold, Watched, Holding
  <2>2. CallFits(k)'
    BY <1>1, <1>2, <1>3, <1>4, <2>1 DEF CallFits, Moved, OneSlot
  <2>3. SlotHolds(T)'
    BY <1>0, <1>1, <1>3, <1>4, <2>1, SlotKept, MoveValid DEF DroppingPcs
  <2> QED BY <2>2, <2>3
<1> QED BY <1>1, <1>2, <1>3, <1>5, <1>6, <1>7, <1>8, <1>9, LoginAction
      DEF TurnPcs, SavePcs, DroppingPcs

\* A login is asked for, with no other one pending: with no session, or for the
\* one the conversation has.
LEMMA AskStep ==
  ASSUME ControlIInv, NEW k \in Handlers, at[k].pc = "handle", pending[at[k].tok] = 0,
         NEW r \in Calls, Go(k, r), r.pc = "ask", r.tok = at[k].tok, r.login = 0,
         r.conv = at[k].conv, r.sess = 0 \/ Current(r.tok, r.sess),
         UNCHANGED <<choices, loginVars, resets, world>>
  PROVE  ControlIInv'
<1> USE DEF choices, loginVars, resets, world, names, sessions
<1>0. ControlTyped /\ Roles /\ Names /\ LoginsKept
  BY DEF ControlIInv, Common
<1>1. /\ k \in Actors /\ k \notin Conversations /\ at[k].tok \in Tokens /\ at[k].login = 0
  BY <1>0, ControlBounds DEF Actors, ControlTyped, Roles, Calls, LoginsKept, Holding, InHand, HandPcs
<1> PICK T \in Tokens : T = at[k].tok
  BY <1>1
<1>2. Moved(k, r) /\ Watched(k, r)
  BY <1>0, <1>1, Goes
<1>3. ControlTyped'
  BY <1>0, <1>2 DEF ControlTyped, Moved, Watched
<1>4. Fitting(k, r)
  BY <1>0, <1>1, ControlBounds DEF Fitting, TurnPcs, Names
<1>5. Touches(k, r, T)
  <2>1. /\ minted' = minted /\ minted.login <= minted.login /\ UNCHANGED <<pending, logins>>
        /\ 0 \notin Logins /\ pending[T] = 0
    BY <1>0, ControlBounds DEF ControlTyped
  <2> QED BY <1>1, <2>1 DEF Touches, LoginPcs, DroppingPcs, HandPcs
<1>6. HasItAlone(k)'
  BY <1>2 DEF HasItAlone, Moved
<1>7. CallFits(k)' /\ SlotHolds(T)'
  <2>1. pending'[T] = 0 /\ at'[k] = r
    BY <1>2 DEF Moved
  <2>2. Valid(r.tok, r.sess)'
    BY DEF Valid, Current, Resolve
  <2>3. Valid(at[k].tok, at[k].sess)' <=> Valid(r.tok, r.sess)'
    BY <2>1 DEF Valid, Current, Resolve, Dropping
  <2> QED BY <2>1, <2>2, <2>3 DEF CallFits, SlotHolds
<1> QED BY <1>1, <1>3, <1>4, <1>5, <1>6, <1>7, LoginAction DEF TurnPcs, SavePcs, DroppingPcs

LEMMA StartStep ==
  ASSUME ControlIInv, NEW k \in Handlers, Start(k)
  PROVE  ControlIInv'
<1> DEFINE r == [at[k] EXCEPT !.pc = "ask"]
<1>1. at[k].pc = "handle" /\ pending[at[k].tok] = 0 /\ Go(k, r)
      /\ UNCHANGED <<choices, loginVars, resets, world>>
  BY DEF Start, Handles
<1>2. at[k] \in Calls /\ at[k].sess = 0 /\ at[k].login = 0 /\ "ask" \in Pcs
  BY <1>1 DEF ControlIInv, Common, ControlTyped, Roles, LoginsKept, Holding, InHand, HandPcs, Actors, Pcs,
        LoginPcs
<1>3. /\ r \in Calls /\ r.pc = "ask" /\ r.tok = at[k].tok /\ r.login = 0
      /\ r.conv = at[k].conv /\ r.sess = 0
  BY <1>2 DEF Calls
<1> HIDE DEF r
<1> QED BY <1>1, <1>3, AskStep

LEMMA StartMCPStep ==
  ASSUME ControlIInv, NEW k \in Handlers, StartMCP(k),
         Resolve(at[k].tok) # 0, live[Resolve(at[k].tok)] # 0
  PROVE  ControlIInv'
<1> DEFINE s == live[Resolve(at[k].tok)]
           r == [at[k] EXCEPT !.pc = "ask", !.sess = s]
<1>1. at[k].pc = "handle" /\ pending[at[k].tok] = 0 /\ Go(k, r)
      /\ UNCHANGED <<choices, loginVars, resets, world>>
  BY DEF StartMCP, Handles
<1>2. at[k] \in Calls /\ at[k].login = 0 /\ at[k].tok \in Tokens /\ "ask" \in Pcs
  BY <1>1 DEF ControlIInv, Common, ControlTyped, Roles, LoginsKept, Holding, InHand, HandPcs, Actors, Pcs,
        LoginPcs, Calls
<1>3. s \in Sessions \cup {0} /\ Current(at[k].tok, s)
  <2>1. Resolve(at[k].tok) \in Conversations \cup {0}
    BY <1>2, Resolved DEF ControlIInv, Common
  <2>2. live \in [Conversations -> Sessions \cup {0}]
    BY DEF ControlIInv, Common, ControlTyped
  <2> QED BY <2>1, <2>2 DEF Current
<1> HIDE DEF s
<1>4. /\ r \in Calls /\ r.pc = "ask" /\ r.tok = at[k].tok /\ r.login = 0
      /\ r.conv = at[k].conv /\ r.sess = s
  BY <1>2, <1>3 DEF Calls
<1>5. Current(r.tok, r.sess)
  BY <1>3, <1>4
<1> HIDE DEF r
<1> QED BY <1>1, <1>4, <1>5, AskStep

\* The agent opens a login nobody had before.
LEMMA AskedStep ==
  ASSUME ControlIInv, NEW k \in Handlers, Asked(k)
  PROVE  ControlIInv'
<1> USE DEF choices, loginVars, resets, world, names, sessions
<1>0. ControlTyped /\ Roles /\ Names /\ LoginsKept
  BY DEF ControlIInv, Common
<1> DEFINE l == minted.login + 1
           r == [at[k] EXCEPT !.pc = "note", !.login = l]
<1>1. /\ k \in Actors /\ k \notin Conversations /\ at[k].pc = "ask" /\ at[k] \in Calls
      /\ at[k].tok \in Tokens /\ at[k].login = 0 /\ at[k].sess \in Sessions \cup {0}
      /\ minted.login \in Nat /\ minted.login < MaxLogins
  BY <1>0, ControlBounds DEF Asked, Actors, ControlTyped, Roles, Calls, LoginsKept, Holding, InHand, HandPcs
<1>2. /\ l \in Logins /\ l > minted.login /\ minted' = [minted EXCEPT !.login = l]
      /\ logins' = [logins EXCEPT ![l] = [st |-> "open", sess |-> at[k].sess]]
      /\ Go(k, r)
      /\ UNCHANGED <<choices, pending, resets, names, sessions, model, queued, budget>>
  BY <1>1, ControlBounds DEF Asked, Logins
<1> HIDE DEF l
<1>3. /\ r \in Calls /\ r.pc = "note" /\ r.tok = at[k].tok /\ r.login = l
      /\ r.conv = at[k].conv /\ r.sess = at[k].sess
  BY <1>1, <1>2 DEF Calls, Pcs, LoginPcs
<1> HIDE DEF r
<1> PICK T \in Tokens : T = at[k].tok
  BY <1>1
<1>4. Moved(k, r) /\ Watched(k, r)
  BY <1>0, <1>1, <1>2, <1>3, Goes
<1>5. /\ logins' \in [Logins -> [st : LoginStates, sess : Sessions \cup {0}]]
      /\ logins'[l].st = "open" /\ logins'[l].sess = at[k].sess
      /\ \A g \in Logins : g # l => logins'[g] = logins[g]
  BY <1>0, <1>1, <1>2 DEF ControlTyped, LoginStates
<1>6. /\ minted' \in [sess : 0 .. MaxSessions, conv : 0 .. MaxConvs, login : 0 .. MaxLogins]
      /\ minted'.sess = minted.sess /\ minted'.conv = minted.conv /\ minted'.login = l
  <2>1. l \in 0 .. MaxLogins
    BY <1>2, ControlBounds DEF Logins
  <2> QED BY <1>0, <1>2, <2>1 DEF ControlTyped
<1>7. ControlTyped'
  BY <1>0, <1>2, <1>4, <1>5, <1>6 DEF ControlTyped, Moved, Watched
<1>8. Fitting(k, r)
  BY <1>0, <1>1, <1>3, ControlBounds DEF Fitting, TurnPcs, Names
<1>9. \A t \in Tokens : pending[t] \in Nat /\ pending[t] <= minted.login
  BY <1>0, ControlBounds DEF LoginsKept, Holding, Numbered, ControlTyped, Logins
<1>10. Touches(k, r, T)
  <2>1. \A t \in Tokens : pending'[t] = pending[t] /\ pending[t] # l
    BY <1>1, <1>2, <1>9 DEF Logins
  <2>2. 0 \notin Logins /\ minted.login <= minted'.login /\ l # 0
    BY <1>1, <1>2, <1>6, ControlBounds DEF Logins
  <2>3. l <= minted'.login
    BY <1>2, <1>6 DEF Logins
  <2> QED BY <1>1, <1>2, <1>3, <1>5, <2>1, <2>2, <2>3
          DEF Touches, LoginPcs, DroppingPcs, HandPcs
<1>11. HasItAlone(k)'
  <2>1. \A j \in Actors : at[j].login # l
    BY <1>0, <1>1, <1>2, ControlBounds DEF LoginsKept, Holding, Numbered, ControlTyped, Calls, Logins
  <2> QED BY <1>3, <1>4, <1>5, <2>1 DEF HasItAlone, Moved
<1>12. ASSUME ~torn' PROVE CallFits(k)' /\ SlotHolds(T)'
  <2>1. CallFits(k) /\ at'[k] = r
    BY <1>0, <1>1, <1>4, <1>12 DEF LoginsKept, Slots, CallsFit, Watched, Moved
  <2>2. pending'[T] = 0 /\ Valid(T, at[k].sess)
    BY <1>1, <1>2, <2>1 DEF CallFits
  <2>3. PICK s \in Sessions \cup {0} : s = at[k].sess
    BY <1>1
  <2>4. Valid(T, s)'
    BY <1>0, <1>1, <1>2, <1>3, <1>4, <2>2, <2>3, MoveValid DEF DroppingPcs
  <2>5. Valid(at[k].tok, at[k].sess)' <=> Valid(T, s)'
    BY <1>3, <2>1, <2>3 DEF Valid, Current, Resolve, Dropping
  <2> QED BY <1>3, <2>1, <2>2, <2>4, <2>5 DEF CallFits, SlotHolds
<1> QED BY <1>1, <1>2, <1>3, <1>6, <1>7, <1>8, <1>10, <1>11, <1>12, LoginAction
      DEF TurnPcs, SavePcs, DroppingPcs

\* It is noted in the slot of its token.
LEMMA NotedStep ==
  ASSUME ControlIInv, NEW k \in Handlers, Noted(k)
  PROVE  ControlIInv'
<1> USE DEF choices, loginVars, resets, world, names, sessions
<1>0. ControlTyped /\ Roles /\ Names /\ LoginsKept
  BY DEF ControlIInv, Common
<1>1. /\ k \in Actors /\ k \notin Conversations /\ at[k].pc = "note" /\ at[k] \in Calls
      /\ at[k].tok \in Tokens /\ at[k].login \in Logins /\ at[k].sess \in Sessions \cup {0}
  BY <1>0, ControlBounds DEF Noted, Actors, ControlTyped, Roles, Calls, LoginsKept, Holding, InHand, HandPcs
<1> PICK T \in Tokens, e \in Logins : T = at[k].tok /\ e = at[k].login
  BY <1>1
<1>2. /\ pending' = [pending EXCEPT ![T] = e] /\ Go(k, Resting)
      /\ UNCHANGED <<choices, logins, resets, world>>
  BY DEF Noted, Return
<1>3. Moved(k, Resting) /\ Watched(k, Resting)
  BY <1>0, <1>1, <1>2, Goes, RestingCall
<1>4. /\ pending' \in [Tokens -> Logins \cup {0}] /\ pending'[T] = e
      /\ \A t \in Tokens : t # T => pending'[t] = pending[t]
  BY <1>0, <1>2 DEF ControlTyped
<1>5. ControlTyped'
  BY <1>0, <1>2, <1>3, <1>4 DEF ControlTyped, Moved, Watched
<1>6. Fitting(k, Resting)
  BY <1>0, <1>1, RestingCall, ControlBounds DEF Fitting, TurnPcs, ControlTyped
<1>7. ~torn' => pending[T] = 0 /\ Valid(T, at[k].sess)
  BY <1>0, <1>1, <1>3 DEF LoginsKept, Slots, CallsFit, CallFits, Watched
<1>8. Touches(k, Resting, T)
  <2>1. minted' = minted /\ minted.login <= minted.login /\ logins' = logins /\ 0 \notin Logins
    BY <1>0, <1>2, ControlBounds DEF ControlTyped
  <2> QED BY <1>1, <1>4, <1>7, <2>1, RestingCall DEF Touches, LoginPcs, DroppingPcs, HandPcs
<1>9. HasItAlone(k)'
  BY <1>3, RestingCall DEF HasItAlone, Moved
<1>10. ASSUME ~torn' PROVE CallFits(k)' /\ SlotHolds(T)'
  <2>1. CallFits(k)'
    BY <1>3, RestingCall DEF CallFits, Moved
  <2>2. logins[e].st \in {"open", "alone"} /\ logins[e].sess = at[k].sess
    BY <1>0, <1>1 DEF LoginsKept, Holding, JustAsked, HasItAlone
  <2>3. PICK s \in Sessions \cup {0} : s = at[k].sess
    BY <1>1
  <2>4. Valid(T, s)'
    BY <1>0, <1>1, <1>2, <1>3, <1>7, <1>10, <2>3, MoveValid, RestingCall DEF DroppingPcs
  <2>5. Valid(T, logins[pending[T]].sess)' <=> Valid(T, s)'
    BY <1>2, <1>4, <2>2, <2>3 DEF Valid, Current, Resolve, Dropping
  <2>6. SlotHolds(T)'
    BY <1>2, <1>4, <2>2, <2>4, <2>5 DEF SlotHolds
  <2> QED BY <2>1, <2>6
<1> QED BY <1>1, <1>2, <1>5, <1>6, <1>8, <1>9, <1>10, RestingCall, LoginAction
      DEF TurnPcs, SavePcs, DroppingPcs

\* The agent is told to finish or to cancel a login: only that one changes.
LEMMA ConcludedLogins ==
  ASSUME ControlTyped, NEW x \in Logins, Concluded(x)
  PROVE  /\ logins' \in [Logins -> [st : LoginStates, sess : Sessions \cup {0}]]
         /\ \A l \in Logins : logins'[l].sess = logins[l].sess
         /\ \A l \in Logins : l # x => logins'[l] = logins[l]
         /\ logins'[x].st # "open"
         /\ logins[x].st = "alone" => logins'[x].st = "alone"
<1>1. PICK st \in {"ended", "left"} :
         logins' = [logins EXCEPT ![x].st = IF @ = "open" THEN st ELSE @]
  BY DEF Concluded
<1> DEFINE e == [logins[x] EXCEPT !.st = IF @ = "open" THEN st ELSE @]
<1>2. logins \in [Logins -> [st : LoginStates, sess : Sessions \cup {0}]]
  BY DEF ControlTyped
<1>3. /\ e \in [st : LoginStates, sess : Sessions \cup {0}] /\ e.sess = logins[x].sess
      /\ e.st # "open" /\ (logins[x].st = "alone" => e.st = "alone")
  BY <1>2 DEF LoginStates
<1>4. logins' = [logins EXCEPT ![x] = e]
  BY <1>1
<1> HIDE DEF e
<1> QED BY <1>2, <1>3, <1>4

\* The paste reached the agent: the login ended, and its slot is about to be dropped.
LEMMA CompleteStep ==
  ASSUME ControlIInv, NEW k \in Handlers, Complete(k)
  PROVE  ControlIInv'
<1> USE DEF choices, loginVars, resets, world, names, sessions
<1>0. ControlTyped /\ Roles /\ Names /\ LoginsKept
  BY DEF ControlIInv, Common
<1>1. /\ k \in Actors /\ k \notin Conversations /\ at[k].pc = "complete" /\ at[k] \in Calls
      /\ at[k].tok \in Tokens /\ at[k].login \in Logins
  BY <1>0, ControlBounds DEF Complete, Actors, ControlTyped, Roles, Calls, LoginsKept, Holding, InHand, HandPcs
<1> PICK T \in Tokens, e \in Logins : T = at[k].tok /\ e = at[k].login
  BY <1>1
<1> PICK r \in Calls : r = Call("drop", T, e)
  BY LoginCall DEF Pcs, LoginPcs
<1>2. r.pc = "drop" /\ r.tok = T /\ r.login = e /\ r.conv = 0 /\ e # 0
  BY LoginCall, ControlBounds DEF Pcs, LoginPcs
<1>3. Concluded(e) /\ Go(k, r) /\ UNCHANGED <<choices, pending, resets, world>>
  BY DEF Complete
<1>4. Moved(k, r) /\ Watched(k, r)
  BY <1>0, <1>1, <1>3, Goes
<1>5. /\ logins' \in [Logins -> [st : LoginStates, sess : Sessions \cup {0}]]
      /\ \A l \in Logins : logins'[l].sess = logins[l].sess
      /\ \A l \in Logins : l # e => logins'[l] = logins[l]
      /\ logins'[e].st # "open"
  BY <1>0, <1>3, ConcludedLogins
<1>6. ControlTyped'
  BY <1>0, <1>3, <1>4, <1>5 DEF ControlTyped, Moved, Watched
<1>7. Fitting(k, r)
  BY <1>0, <1>1, <1>2, ControlBounds DEF Fitting, TurnPcs, ControlTyped
<1>8. Touches(k, r, T)
  <2>1. /\ minted' = minted /\ minted.login <= minted.login /\ pending' = pending
    BY <1>0, <1>3 DEF ControlTyped
  <2> QED BY <1>1, <1>2, <1>5, <2>1 DEF Touches, LoginPcs, DroppingPcs, HandPcs
<1>9. HasItAlone(k)'
  BY <1>2, <1>4 DEF HasItAlone, Moved
<1>10. ASSUME ~torn' PROVE CallFits(k)' /\ SlotHolds(T)'
  <2>1. CallFits(k) /\ SlotHolds(T) /\ at'[k] = r
    BY <1>0, <1>1, <1>4, <1>10 DEF LoginsKept, Slots, CallsFit, SlotsHold, Watched, Moved
  <2>2. CallFits(k)'
    BY <1>1, <1>2, <1>3, <1>5, <2>1 DEF CallFits
  <2>3. ASSUME pending[T] # 0 PROVE Valid(T, logins[pending[T]].sess)'
    <3>1. pending[T] \in Logins
      BY <1>0, <2>3 DEF ControlTyped
    <3>2. PICK s \in Sessions \cup {0} : s = logins[pending[T]].sess
      BY <1>0, <3>1 DEF ControlTyped
    <3>3. Valid(T, s)'
      BY <1>0, <1>1, <1>3, <1>4, <2>1, <2>3, <3>2, MoveValid DEF SlotHolds, DroppingPcs
    <3> QED BY <1>3, <1>5, <3>1, <3>2, <3>3 DEF Valid, Current, Resolve, Dropping
  <2>4. SlotHolds(T)'
    BY <1>1, <1>2, <1>3, <2>1, <2>3 DEF SlotHolds
  <2> QED BY <2>2, <2>4
<1> QED BY <1>1, <1>2, <1>3, <1>6, <1>7, <1>8, <1>9, <1>10, LoginAction
      DEF TurnPcs, SavePcs, DroppingPcs

\* The slot is dropped, whatever is in it by then.
LEMMA DropStep ==
  ASSUME ControlIInv, NEW k \in Handlers, Drop(k)
  PROVE  ControlIInv'
<1> USE DEF choices, loginVars, resets, world, names, sessions
<1>0. ControlTyped /\ Roles /\ Names /\ LoginsKept
  BY DEF ControlIInv, Common
<1>1. /\ k \in Actors /\ k \notin Conversations /\ at[k].pc = "drop" /\ at[k] \in Calls
      /\ at[k].tok \in Tokens /\ at[k].login \in Logins
  BY <1>0, ControlBounds DEF Drop, Actors, ControlTyped, Roles, Calls, LoginsKept, Holding, InHand, HandPcs
<1> PICK T \in Tokens, e \in Logins : T = at[k].tok /\ e = at[k].login
  BY <1>1
<1>2. /\ pending' = [pending EXCEPT ![T] = 0] /\ Go(k, Resting)
      /\ UNCHANGED <<choices, logins, resets, world>>
  BY DEF Drop, Return
<1>3. Moved(k, Resting) /\ Watched(k, Resting)
  BY <1>0, <1>1, <1>2, Goes, RestingCall
<1>4. /\ pending' \in [Tokens -> Logins \cup {0}] /\ pending'[T] = 0
      /\ \A t \in Tokens : t # T => pending'[t] = pending[t]
  BY <1>0, <1>2 DEF ControlTyped
<1>5. ControlTyped'
  BY <1>0, <1>2, <1>3, <1>4 DEF ControlTyped, Moved, Watched
<1>6. Fitting(k, Resting)
  BY <1>0, <1>1, RestingCall, ControlBounds DEF Fitting, TurnPcs, ControlTyped
<1>7. ~torn' => pending[T] \in {0, e} /\ logins[e].st # "open"
  BY <1>0, <1>1, <1>3 DEF LoginsKept, Slots, CallsFit, CallFits, Watched
<1>8. Touches(k, Resting, T)
  <2>1. minted' = minted /\ minted.login <= minted.login /\ logins' = logins /\ 0 \notin Logins
    BY <1>0, <1>2, ControlBounds DEF ControlTyped
  <2> QED BY <1>1, <1>4, <1>7, <2>1, RestingCall DEF Touches, LoginPcs, DroppingPcs, HandPcs
<1>9. HasItAlone(k)' /\ CallFits(k)' /\ SlotHolds(T)'
  BY <1>3, <1>4, RestingCall DEF HasItAlone, Moved, CallFits, SlotHolds
<1> QED BY <1>1, <1>2, <1>5, <1>6, <1>8, <1>9, RestingCall, LoginAction
      DEF TurnPcs, SavePcs, DroppingPcs

\* A cancel takes the login out of its slot.
LEMMA CancelStep ==
  ASSUME ControlIInv, NEW k \in Handlers, Cancel(k), pending[at[k].tok] # 0
  PROVE  ControlIInv'
<1> USE DEF choices, loginVars, resets, world, names, sessions
<1>0. ControlTyped /\ Roles /\ Names /\ LoginsKept
  BY DEF ControlIInv, Common
<1>1. /\ k \in Actors /\ k \notin Conversations /\ at[k].pc = "handle" /\ at[k].tok \in Tokens
      /\ at[k].login = 0 /\ pending[at[k].tok] \in Logins
  BY <1>0, ControlBounds DEF Actors, Cancel, ControlTyped, Roles, Calls, LoginsKept, Holding,
        InHand, HandPcs
<1> PICK T \in Tokens, e \in Logins : T = at[k].tok /\ e = pending[T]
  BY <1>1
<1> PICK r \in Calls : r = Call("cancelling", T, e)
  BY LoginCall DEF Pcs
<1>2. r.pc = "cancelling" /\ r.tok = T /\ r.login = e /\ r.conv = 0 /\ e # 0
  BY LoginCall, ControlBounds DEF Pcs
<1>3. /\ pending' = [pending EXCEPT ![T] = 0] /\ Go(k, r)
      /\ UNCHANGED <<choices, logins, resets, world>>
  BY DEF Cancel
<1>4. Moved(k, r) /\ Watched(k, r)
  BY <1>0, <1>1, <1>3, Goes
<1>5. /\ pending' \in [Tokens -> Logins \cup {0}] /\ pending'[T] = 0
      /\ \A t \in Tokens : t # T => pending'[t] = pending[t]
  BY <1>0, <1>3 DEF ControlTyped
<1>6. ControlTyped'
  BY <1>0, <1>3, <1>4, <1>5 DEF ControlTyped, Moved, Watched
<1>7. Fitting(k, r)
  BY <1>0, <1>1, <1>2, ControlBounds DEF Fitting, TurnPcs, ControlTyped
<1>8. Touches(k, r, T)
  <2>1. minted' = minted /\ minted.login <= minted.login /\ logins' = logins /\ 0 \notin Logins
    BY <1>0, <1>3, ControlBounds DEF ControlTyped
  <2>2. \A t \in Tokens : pending'[t] # e
    BY <1>0, <1>2, <1>5 DEF LoginsKept, Holding, OneSlot
  <2> QED BY <1>1, <1>2, <1>5, <2>1, <2>2 DEF Touches, LoginPcs, DroppingPcs, HandPcs
<1>9. HasItAlone(k)' /\ CallFits(k)' /\ SlotHolds(T)'
  BY <1>2, <1>4, <1>5 DEF HasItAlone, Moved, CallFits, SlotHolds
<1> QED BY <1>1, <1>2, <1>3, <1>6, <1>7, <1>8, <1>9, LoginAction
      DEF TurnPcs, SavePcs, DroppingPcs

\* The agent is told; the login is in no slot any more.
LEMMA CancellingStep ==
  ASSUME ControlIInv, NEW k \in Actors, Cancelling(k)
  PROVE  ControlIInv'
<1> USE DEF choices, loginVars, resets, world, names, sessions
<1>0. ControlTyped /\ Roles /\ Names /\ LoginsKept
  BY DEF ControlIInv, Common
<1>1. /\ at[k].pc = "cancelling" /\ at[k] \in Calls /\ at[k].tok \in Tokens /\ at[k].login \in Logins
      /\ \A t \in Tokens : pending[t] # at[k].login
  BY <1>0 DEF Cancelling, ControlTyped, Roles, Calls, LoginsKept, Holding, InHand, HandPcs
<1> PICK T \in Tokens, e \in Logins : T = at[k].tok /\ e = at[k].login
  BY <1>1
<1>2. Concluded(e) /\ Go(k, Resting) /\ UNCHANGED <<choices, pending, resets, world>>
  BY DEF Cancelling, Return
<1>3. Moved(k, Resting) /\ Watched(k, Resting)
  BY <1>0, <1>2, Goes, RestingCall
<1>4. /\ logins' \in [Logins -> [st : LoginStates, sess : Sessions \cup {0}]]
      /\ \A l \in Logins : l # e => logins'[l] = logins[l]
      /\ logins'[e].st # "open"
  BY <1>0, <1>2, ConcludedLogins
<1>5. ControlTyped'
  BY <1>0, <1>2, <1>3, <1>4 DEF ControlTyped, Moved, Watched
<1>6. Fitting(k, Resting)
  BY <1>0, <1>1, RestingCall, ControlBounds DEF Fitting, TurnPcs, ControlTyped
<1>7. Touches(k, Resting, T)
  <2>1. /\ minted' = minted /\ minted.login <= minted.login /\ pending' = pending
        /\ \A l \in Logins : logins'[l].st = "open" => logins[l].st = "open" /\ l # e
    BY <1>0, <1>2, <1>4 DEF ControlTyped
  <2> QED BY <1>1, <1>4, <2>1, RestingCall DEF Touches, LoginPcs, DroppingPcs, HandPcs
<1>8. HasItAlone(k)'
  BY <1>3, RestingCall DEF HasItAlone, Moved
<1>9. ASSUME ~torn' PROVE CallFits(k)' /\ SlotHolds(T)'
  <2>1. SlotHolds(T)
    BY <1>0, <1>3, <1>9 DEF LoginsKept, Slots, SlotsHold, Watched
  <2>2. CallFits(k)'
    BY <1>3, RestingCall DEF CallFits, Moved
  <2>3. \A s \in Sessions \cup {0} : Valid(T, s) => Valid(T, s)'
    BY <1>0, <1>1, <1>2, <1>3, MoveValid, RestingCall DEF DroppingPcs
  <2>4. pending[T] # 0 => pending[T] \in Logins /\ logins'[pending[T]] = logins[pending[T]]
    BY <1>0, <1>1, <1>4 DEF ControlTyped
  <2>5. SlotHolds(T)'
    BY <1>0, <1>1, <1>2, <1>3, <2>1, <2>3, <2>4, SlotKept, RestingCall
  <2> QED BY <2>2, <2>5
<1> QED BY <1>1, <1>2, <1>5, <1>6, <1>7, <1>8, <1>9, RestingCall, LoginAction
      DEF TurnPcs, SavePcs, DroppingPcs

\* A reset drops the slot if it is for a session, and gives up what is still
\* being asked for the session that is gone.
LEMMA DropSessionLoginStep ==
  ASSUME ControlIInv, NEW k \in Actors, DropSessionLogin(k)
  PROVE  ControlIInv'
<1> USE DEF choices, loginVars, resets, world, names, sessions
<1>0. Common /\ ControlTyped /\ Roles /\ Names /\ LoginsKept /\ Deferrals /\ PushedChoices /\ Filing
  BY DEF ControlIInv, Common
<1>1. /\ at[k].pc = "dropLogin" /\ at[k] \in Calls /\ at[k].tok \in Tokens /\ at[k].login = 0
      /\ k \in Conversations => k <= minted.conv
      /\ UNCHANGED <<choices, logins, resets, names, live, gone, model, minted, queued>>
  BY <1>0, BusyIsMade DEF DropSessionLogin, ControlTyped, Roles, Calls, LoginsKept, Holding, InHand, HandPcs
<1> PICK T \in Tokens : T = at[k].tok
  BY <1>1
<1> PICK e \in Logins \cup {0} : e = pending[T]
  BY <1>0 DEF ControlTyped
<1>2. PICK r \in Calls :
         /\ Go(k, r) /\ r.conv = 0
         /\ \/ /\ e # 0 /\ pending' = [pending EXCEPT ![T] = 0]
               /\ r.pc = "cancelling" /\ r.tok = T /\ r.login = e
            \/ /\ e = 0 \/ logins[e].sess = 0
               /\ pending' = pending /\ r.pc = "idle" /\ r.login = 0
  <2>1. CASE e # 0 /\ logins[e].sess # 0
    <3> DEFINE r == Call("cancelling", T, e)
    <3>1. r \in Calls /\ r.pc = "cancelling" /\ r.tok = T /\ r.login = e /\ r.conv = 0
      BY LoginCall DEF Pcs
    <3>2. Go(k, r) /\ pending' = [pending EXCEPT ![T] = 0]
      BY <2>1 DEF DropSessionLogin
    <3> HIDE DEF r
    <3> QED BY <2>1, <3>1, <3>2
  <2>2. CASE ~(e # 0 /\ logins[e].sess # 0)
    <3>1. Go(k, Resting) /\ pending' = pending
      BY <2>2 DEF DropSessionLogin, Return
    <3> QED BY <2>2, <3>1, RestingCall
  <2> QED BY <2>1, <2>2
<1>3. Moved(k, r) /\ Watched(k, r)
  BY <1>0, <1>2, Goes
<1>4. /\ pending' \in [Tokens -> Logins \cup {0}]
      /\ \A t \in Tokens : t # T => pending'[t] = pending[t]
      /\ pending'[T] = 0 \/ (pending'[T] = pending[T] /\ r.pc = "idle" /\ logins[e].sess = 0)
  BY <1>0, <1>2 DEF ControlTyped
<1>5. /\ lost \subseteq lost' /\ lost' \subseteq Sessions
      /\ \A j \in Actors : at[j].pc \in {"ask", "note"} /\ at[j].tok = T =>
            at[j].sess \in lost' \cup {0} \/ Current(T, at[j].sess)
  <2>1. DOMAIN at = Actors /\ \A j \in Actors : at[j].sess \in Sessions \cup {0}
    BY <1>0 DEF ControlTyped, Calls
  <2> QED BY <1>0, <2>1 DEF DropSessionLogin, ControlTyped
<1>6. ControlTyped'
  BY <1>0, <1>1, <1>3, <1>4, <1>5 DEF ControlTyped, Moved, Watched
<1>7. Fitting(k, r)
  BY <1>0, <1>1, <1>2, ControlBounds DEF Fitting, TurnPcs, ControlTyped
<1>8. Common' /\ Deferrals' /\ PushedChoices' /\ Filing'
  BY <1>0, <1>1, <1>2, <1>3, <1>6, <1>7, LoginStep DEF TurnPcs, SavePcs
<1>9. Touches(k, r, T)
  <2>1. minted' = minted /\ minted.login <= minted.login /\ logins' = logins /\ 0 \notin Logins
    BY <1>0, <1>1, ControlBounds DEF ControlTyped
  <2>2. r.pc = "cancelling" => \A t \in Tokens : pending'[t] # r.login
    BY <1>0, <1>2, <1>4 DEF LoginsKept, Holding, OneSlot
  <2> QED BY <1>1, <1>2, <1>4, <2>1, <2>2 DEF Touches, LoginPcs, DroppingPcs, HandPcs
<1>10. \A t \in Tokens, s \in Sessions : Current(t, s)' <=> Current(t, s)
  BY <1>1 DEF Current, Resolve
<1>11. \A t \in Tokens : Keeps(t)
  BY <1>10 DEF Keeps
<1>12. ASSUME NEW j \in Actors, j # k, at[j].pc \in {"ask", "note"}, at[j].tok = T
       PROVE  Valid(T, at[j].sess)'
  <2>1. at'[j] = at[j]
    BY <1>3, <1>12 DEF Moved
  <2>2. at[j].sess \in lost' \cup {0} \/ Current(T, at[j].sess)
    BY <1>5, <1>12
  <2> QED BY <1>1, <2>1, <2>2 DEF Valid, Current, Resolve
<1>13. HasItAlone(k)' /\ CallFits(k)'
  BY <1>2, <1>3 DEF HasItAlone, CallFits, Moved
<1>14. ASSUME ~torn' PROVE SlotHolds(T)'
  <2> SUFFICES ASSUME pending'[T] # 0 PROVE SlotHolds(T)'
    BY DEF SlotHolds
  <2>1. SlotHolds(T) /\ pending'[T] = e /\ pending[T] = e /\ logins[e].sess = 0 /\ logins' = logins
    BY <1>0, <1>1, <1>3, <1>4, <1>14 DEF LoginsKept, Slots, SlotsHold, Watched
  <2>2. (\E j \in Actors : at[j].pc = "drop" /\ at[j].tok = T) =>
             \E j \in Actors : at'[j].pc = "drop" /\ at'[j].tok = T
    BY <1>1, <1>3 DEF Moved
  <2>3. Valid(T, logins[pending[T]].sess)'
    BY <2>1 DEF Valid
  <2> QED BY <2>1, <2>2, <2>3 DEF SlotHolds
<1>15. LoginsKept'
  BY <1>0, <1>3, <1>5, <1>6, <1>9, <1>11, <1>12, <1>13, <1>14, LoginMove
<1> QED BY <1>8, <1>15 DEF ControlIInv

\* Steps of a goroutine that is not about a login.
LEMMA MoveLogins ==
  ASSUME ControlTyped, Roles, LoginsKept, NEW k \in Actors, NEW r \in Calls,
         Moved(k, r), Watched(k, r), UNCHANGED <<pending, logins>>,
         minted'.login = minted.login, lost \subseteq lost', \A t \in Tokens : Keeps(t),
         r.login = at[k].login,
         \/ {at[k].pc, r.pc} \cap (LoginPcs \cup DroppingPcs \cup {"cancelling"}) = {}
         \/ at[k].pc = "ask" /\ r.pc = "idle"
  PROVE  LoginsKept'
<1>1. /\ DOMAIN at' = Actors /\ at'[k] = r
      /\ \A j \in Actors : j # k => at'[j] = at[j]
      /\ ~torn' => ~torn
  BY DEF Moved, Watched
<1>2. ASSUME NEW j \in Actors
      PROVE  /\ at'[j].login = at[j].login
             /\ \/ {at[j].pc, at'[j].pc} \cap (LoginPcs \cup DroppingPcs \cup {"cancelling"}) = {}
                \/ at'[j].pc = at[j].pc /\ at'[j].tok = at[j].tok /\ at'[j].sess = at[j].sess
                \/ at[j].pc = "ask" /\ at'[j].pc = "idle"
  <2>1. CASE j = k
    BY <1>1, <2>1
  <2>2. CASE j # k
    BY <1>1, <2>2
  <2> QED BY <2>1, <2>2
<1> QED BY <1>1, <1>2, LoginsSame

\* A handler that takes up a message, or is done.
LEMMA HandlerStep ==
  ASSUME ControlIInv, NEW k \in Handlers, NEW r \in Calls, Go(k, r),
         at[k].pc \in {"idle", "handle", "ask"}, r.pc \in {"idle", "handle"},
         at[k].pc = "ask" => r.pc = "idle", r.login = 0, r.conv <= minted.conv,
         r.pc = "handle" => r.tok # None /\ r.to = 0 /\ r.sess = 0,
         UNCHANGED <<choices, loginVars, resets, names, sessions, model, minted, queued>>
  PROVE  ControlIInv'
<1> USE DEF choices, loginVars, resets, names, sessions
<1>0. Common /\ ControlTyped /\ Roles /\ Names /\ LoginsKept /\ Deferrals /\ PushedChoices /\ Filing
  BY DEF ControlIInv, Common
<1>1. k \in Actors /\ k \notin Conversations
  BY ControlBounds DEF Actors
<1>2. Moved(k, r) /\ Watched(k, r)
  BY <1>0, <1>1, Goes
<1>3. ControlTyped'
  BY <1>0, <1>2 DEF ControlTyped, Moved, Watched
<1>4. Fitting(k, r)
  BY <1>0, <1>1 DEF Fitting, TurnPcs
<1>5. Common' /\ Deferrals' /\ PushedChoices' /\ Filing'
  BY <1>0, <1>1, <1>2, <1>3, <1>4, LoginStep DEF TurnPcs, SavePcs
<1>6. LoginsKept'
  <2>1. \A t \in Tokens : Keeps(t)
    BY DEF Keeps, Current, Resolve
  <2>2. at[k].login = 0
    BY <1>0, <1>1 DEF LoginsKept, Holding, InHand, HandPcs
  <2> QED BY <1>0, <1>1, <1>2, <2>1, <2>2, MoveLogins DEF LoginPcs, DroppingPcs
<1> QED BY <1>5, <1>6 DEF ControlIInv

\* The messages that change nothing: an empty paste, a cancel with nothing to
\* cancel, a login for no session, or one that the agent needs none for.
LEMMA NothingStep ==
  ASSUME ControlIInv, NEW k \in Handlers, at[k].pc \in {"handle", "ask"}, Return(k),
         UNCHANGED <<choices, loginVars, resets, world>>
  PROVE  ControlIInv'
<1>1. 0 <= minted.conv
  BY ControlBounds DEF ControlIInv, Common, ControlTyped
<1> QED BY <1>1, HandlerStep, RestingCall DEF Return, world

-----------------------------------------------------------------------------
(* Messages, saves of a choice, and resets                                 *)

\* A prompt given to the turn runner, for a conversation or a new one.
LEMMA Submitted ==
  ASSUME ControlTyped, Names, NEW T \in Tokens, NEW b \in Conversations \cup {0},
         b <= minted.conv, Submit(b, T)
  PROVE  /\ name' \in [Conversations -> Tokens \cup {None}] /\ queued' \in [Conversations -> Nat]
         /\ called' \in [Conversations -> Tokens \cup {None}]
         /\ minted' \in [sess : 0 .. MaxSessions, conv : 0 .. MaxConvs, login : 0 .. MaxLogins]
         /\ minted'.sess = minted.sess /\ minted'.login = minted.login
         /\ minted.conv \in Nat /\ minted'.conv \in Nat /\ minted.conv <= minted'.conv
         /\ \A c \in Conversations :
               /\ \/ name'[c] = name[c] /\ called'[c] = called[c]
                  \/ /\ name[c] = None /\ name'[c] = T /\ called'[c] = T
                     /\ \A d \in Conversations : name[d] # T
                     /\ c > minted.conv /\ c <= minted'.conv
               /\ c <= minted'.conv => called'[c] # None
               /\ c > minted'.conv => queued'[c] = queued[c]
         /\ \A c, d \in Conversations : name'[c] # None /\ name'[c] = name'[d] => c = d
<1>1. /\ name \in [Conversations -> Tokens \cup {None}] /\ queued \in [Conversations -> Nat]
      /\ called \in [Conversations -> Tokens \cup {None}]
      /\ minted \in [sess : 0 .. MaxSessions, conv : 0 .. MaxConvs, login : 0 .. MaxLogins]
      /\ \A c \in Conversations : name[c] = T <=> Resolve(T) = c
      /\ Resolve(T) \in Conversations \cup {0} /\ T # None
      /\ \A c, d \in Conversations : name[c] # None /\ name[c] = name[d] => c = d
      /\ \A c \in Conversations : c <= minted.conv => called[c] # None
      /\ \A c \in Conversations : c > minted.conv => name[c] = None
      /\ \A c \in Conversations : c \in Nat /\ c # 0
      /\ minted.conv \in Nat
  BY Resolved, ControlBounds DEF ControlTyped, Names
<1> DEFINE d == IF b # 0 THEN b ELSE Resolve(T)
           n == minted.conv + 1
<1>2. CASE d # 0
  <2>1. /\ d \in Conversations /\ queued' = [queued EXCEPT ![d] = @ + 1]
        /\ name' = name /\ called' = called /\ minted' = minted
    BY <1>1, <1>2 DEF Submit
  <2>2. d <= minted.conv
    BY <1>1, <1>2, <2>1
  <2> HIDE DEF d
  <2>3. \A c \in Conversations : c > minted.conv => queued'[c] = queued[c]
    BY <1>1, <2>1, <2>2
  <2> QED BY <1>1, <2>1, <2>3
<1>3. CASE d = 0
  <2>1. Resolve(T) = 0
    BY <1>1, <1>3
  <2>2. /\ n \in Conversations /\ name' = [name EXCEPT ![n] = T]
        /\ called' = [called EXCEPT ![n] = T]
        /\ queued' = [queued EXCEPT ![n] = 1]
        /\ minted' = [minted EXCEPT !.conv = n]
    BY <1>3 DEF Submit
  <2>3. \A c \in Conversations : name[c] # T
    BY <1>1, <2>1
  <2>4. /\ minted' \in [sess : 0 .. MaxSessions, conv : 0 .. MaxConvs, login : 0 .. MaxLogins]
        /\ minted'.sess = minted.sess /\ minted'.login = minted.login /\ minted'.conv = n
    BY <1>1, <2>2 DEF Conversations
  <2>5. n > minted.conv /\ n \in Nat /\ name[n] = None
    BY <1>1, <2>2
  <2>6. \A c \in Conversations : c <= n => c <= minted.conv \/ c = n
    BY <1>1
  <2> HIDE DEF n, d
  <2>7. \A c \in Conversations :
               /\ \/ name'[c] = name[c] /\ called'[c] = called[c]
                  \/ /\ name[c] = None /\ name'[c] = T /\ called'[c] = T
                     /\ \A f \in Conversations : name[f] # T
                     /\ c > minted.conv /\ c <= minted'.conv
               /\ c <= minted'.conv => called'[c] # None
               /\ c > minted'.conv => queued'[c] = queued[c]
    <3> TAKE c \in Conversations
    <3>1. CASE c = n
      BY <1>1, <2>2, <2>3, <2>4, <2>5, <3>1
    <3>2. CASE c # n
      BY <1>1, <2>2, <2>4, <2>6, <3>2
    <3> QED BY <3>1, <3>2
  <2> QED BY <1>1, <2>2, <2>3, <2>4, <2>5, <2>7
<1> QED BY <1>2, <1>3

LEMMA SubmitStep ==
  ASSUME ControlIInv, NEW T \in Tokens, NEW b \in Conversations \cup {0}, b <= minted.conv,
         Submit(b, T), NEW k \in Handlers, NEW r \in Calls,
         Moved(k, r), Watched(k, r), r.pc = "idle", r.login = 0, r.conv <= minted.conv,
         at[k].pc \in {"idle", "handle", "ask"},
         UNCHANGED <<choices, loginVars, resets, rekeys, sessions, model>>
  PROVE  ControlIInv'
<1> USE DEF choices, loginVars, resets, sessions
<1>0. ControlTyped /\ Roles /\ Names /\ Deferrals /\ PushedChoices /\ Filing /\ LoginsKept
  BY DEF ControlIInv, Common
<1>1. k \in Actors /\ k \notin Conversations
  BY ControlBounds DEF Actors
<1>2. /\ at' \in [Actors -> Calls] /\ at'[k] = r /\ \A j \in Actors : j # k => at'[j] = at[j]
      /\ \A c \in Conversations : at'[c] = at[c]
  BY <1>1 DEF Moved, Actors
<1>3. /\ name' \in [Conversations -> Tokens \cup {None}] /\ queued' \in [Conversations -> Nat]
      /\ called' \in [Conversations -> Tokens \cup {None}]
      /\ minted' \in [sess : 0 .. MaxSessions, conv : 0 .. MaxConvs, login : 0 .. MaxLogins]
      /\ minted'.sess = minted.sess /\ minted'.login = minted.login
      /\ minted.conv \in Nat /\ minted'.conv \in Nat /\ minted.conv <= minted'.conv
      /\ \A c \in Conversations :
            /\ \/ name'[c] = name[c] /\ called'[c] = called[c]
               \/ /\ name[c] = None /\ name'[c] = T /\ called'[c] = T
                  /\ \A d \in Conversations : name[d] # T
                  /\ c > minted.conv /\ c <= minted'.conv
            /\ c <= minted'.conv => called'[c] # None
            /\ c > minted'.conv => queued'[c] = queued[c]
      /\ \A c, d \in Conversations : name'[c] # None /\ name'[c] = name'[d] => c = d
  BY <1>0, Submitted
<1>4. ControlTyped'
  BY <1>0, <1>2, <1>3 DEF ControlTyped, Watched
<1>5. Roles'
  BY <1>0, <1>1, MoveRoles DEF Fitting, TurnPcs
<1>6. Names'
  <2>1. \A c \in Conversations : c \in Nat /\ (c > minted'.conv => c > minted.conv)
    BY <1>3, ControlBounds
  <2>2. \A c \in Conversations : name'[c] # None => called'[c] = name'[c]
    BY <1>0, <1>3 DEF Names
  <2>3. ASSUME NEW c \in Conversations, at'[c].pc \in TurnPcs PROVE at'[c].tok = called'[c]
    <3>1. at'[c] = at[c] /\ ~(c > minted.conv)
      BY <1>0, <1>2, <2>3 DEF Names, TurnPcs
    <3> QED BY <1>0, <1>3, <2>3, <3>1 DEF Names
  <2>4. \A j \in Actors : at'[j].conv <= minted'.conv
    <3>1. \A j \in Actors : at'[j].conv <= minted.conv /\ at'[j].conv \in Nat
      BY <1>0, <1>2, ControlBounds DEF Names, Calls
    <3> QED BY <1>3, <3>1
  <2>5. ASSUME NEW c \in Conversations, c > minted'.conv
        PROVE  /\ name'[c] = None /\ called'[c] = None /\ queued'[c] = 0 /\ at'[c].pc = "idle"
               /\ tool'[c] = None /\ live'[c] = 0 /\ gone'[c] = 0 /\ mem'[c] = Unchosen
               /\ file'[c] = None /\ c \notin asked' \cup unsaved'
    <3>1. c > minted.conv /\ ~(c <= minted'.conv)
      BY <1>3, <2>1, <2>5
    <3>2. name'[c] = name[c] /\ called'[c] = called[c] /\ queued'[c] = queued[c]
      BY <1>3, <2>5, <3>1
    <3> QED BY <1>0, <1>2, <3>1, <3>2 DEF Names
  <2> QED BY <1>3, <2>2, <2>3, <2>4, <2>5 DEF Names
<1>7. Deferrals'
  <2>1. \A t \in Tokens, c \in Conversations : name[c] = t => name'[c] = t
    BY <1>3, ControlBounds
  <2>2. \A t \in deferred \ mixed : \E c \in Conversations : name'[c] = t
    BY <1>0, <2>1 DEF Deferrals, ControlTyped
  <2>3. ASSUME NEW c \in Conversations, name'[c] \notin mixed \cup {None}
        PROVE  c \in asked <=> name'[c] \in deferred
    <3>1. CASE name'[c] = name[c]
      BY <1>0, <2>3, <3>1 DEF Deferrals, DeferredByOwner
    <3>2. CASE name'[c] # name[c]
      <4>1. c > minted.conv /\ name'[c] = T /\ \A d \in Conversations : name[d] # T
        BY <1>3, <3>2
      <4>2. c \notin asked
        BY <1>0, <4>1 DEF Names
      <4>3. T \notin deferred
        BY <1>0, <2>3, <4>1 DEF Deferrals
      <4> QED BY <4>1, <4>2, <4>3
    <3> QED BY <3>1, <3>2
  <2>4. ASSUME NEW c \in Conversations PROVE OwnTurn(c)'
    <3> SUFFICES ASSUME at[c].pc \in TurnPcs \cup {"reset"}, at[c].tok \notin mixed
                 PROVE  name'[c] = at[c].tok
      BY <1>2 DEF OwnTurn
    <3>1. name[c] = at[c].tok /\ at[c].tok \in Tokens
      BY <1>0 DEF Deferrals, OwnTurn, Roles, ControlTyped, Calls, Actors, TurnPcs
    <3> QED BY <2>1, <3>1
  <2> QED BY <2>2, <2>3, <2>4 DEF Deferrals, DeferredByOwner
<1>8. PushedChoices'
  BY <1>0, <1>2, <1>3, ChoicesSame
<1>9. Filing'
  <2>1. \A c \in 1 .. minted.conv : name[c] = None => name'[c] = None
    <3>1. \A c \in 1 .. minted.conv : c \in Conversations /\ ~(c > minted.conv)
      BY <1>0, <1>3, ControlBounds DEF Conversations, ControlTyped
    <3> QED BY <1>3, <3>1
  <2>2. \A j \in Actors :
            \/ at[j].pc \notin SavePcs /\ at'[j].pc \notin SavePcs
            \/ /\ at'[j].pc = at[j].pc /\ at'[j].conv = at[j].conv /\ at'[j].to = at[j].to
               /\ at'[j].id = at[j].id
    BY <1>2 DEF SavePcs
  <2> QED BY <1>0, <1>2, <1>3, <2>1, <2>2, FilingSame
<1>10. LoginsKept'
  <2>1. ASSUME NEW t \in Tokens PROVE Keeps(t)
    <3> SUFFICES ASSUME NEW s \in Sessions, Resolve(t) # 0, live[Resolve(t)] = s
                 PROVE  Resolve(t)' # 0 /\ live[Resolve(t)]' = s
      BY DEF Keeps, Current
    <3> PICK c \in Conversations : c = Resolve(t)
      BY <1>0, Resolved
    <3>1. name[c] = t /\ t # None /\ c # 0
      BY <1>0, Resolved, ControlBounds
    <3>2. name'[c] = t
      BY <1>3, <3>1
    <3>3. Resolve(t)' = c
      BY <1>4, <1>6, <3>2, ResolvedNext
    <3> QED BY <3>1, <3>3
  <2>2. at[k].login = 0
    BY <1>0, <1>1 DEF LoginsKept, Holding, InHand, HandPcs
  <2> QED BY <1>0, <1>1, <1>3, <2>1, <2>2, MoveLogins DEF LoginPcs, DroppingPcs
<1> QED BY <1>4, <1>5, <1>6, <1>7, <1>8, <1>9, <1>10 DEF ControlIInv, Common

\* A message: to a handler, or a prompt.
LEMMA DispatchStep ==
  ASSUME ControlIInv, NEW k \in Handlers, NEW t \in Tokens, NEW kind \in Kinds,
         NEW id \in Models \cup {None}, Dispatch(k, t, kind, id)
  PROVE  ControlIInv'
<1> DEFINE c == IF kind \in {"text", "mcp"} THEN Resolve(t) ELSE 0
           r == [Resting EXCEPT !.pc = "handle", !.kind = kind, !.tok = t, !.id = id, !.conv = c]
<1>1. /\ k \in Actors /\ at[k] \in Calls /\ at[k].pc = "idle" /\ at \in [Actors -> Calls]
      /\ at[k].login = 0 /\ at[k].conv <= minted.conv
  BY DEF Actors, ControlIInv, Common, ControlTyped, Names, Dispatch, LoginsKept, Holding, InHand, HandPcs
<1>2. Resolve(t) \in Conversations \cup {0} /\ Resolve(t) <= minted.conv /\ 0 <= minted.conv
  <2>1. ControlTyped /\ Names /\ minted.conv \in Nat /\ t # None
    BY ControlBounds DEF ControlIInv, Common, ControlTyped
  <2>2. /\ Resolve(t) \in Conversations \cup {0}
        /\ \A d \in Conversations : name[d] = t <=> Resolve(t) = d
    BY <2>1, Resolved
  <2> QED BY <2>1, <2>2, BusyIsMade
<1>3. CASE kind # "text" \/ pending[t] # 0
  <2>1. /\ Go(k, r)
        /\ UNCHANGED <<choices, loginVars, resets, names, sessions, model, minted, queued>>
    BY <1>3 DEF Dispatch, names
  <2>2. c \in Conversations \cup {0} /\ c <= minted.conv
    BY <1>2
  <2> HIDE DEF c
  <2>3. /\ r \in Calls /\ r.pc = "handle" /\ r.login = 0 /\ r.tok = t /\ r.to = 0 /\ r.sess = 0
        /\ r.conv = c
    BY <2>2 DEF Resting, Calls, Pcs, LoginPcs
  <2> HIDE DEF r
  <2> QED BY <1>1, <2>1, <2>2, <2>3, HandlerStep, ControlBounds
<1>4. CASE ~(kind # "text" \/ pending[t] # 0)
  <2>1. /\ Submit(Resolve(t), t) /\ at' = at /\ torn' = torn
        /\ UNCHANGED <<choices, loginVars, resets, rekeys, sessions, model>>
    BY <1>4 DEF Dispatch
  <2>2. Moved(k, at[k])
    BY <1>1, <2>1 DEF Moved
  <2>3. Watched(k, at[k])
    BY <1>1, <2>1 DEF Watched, ControlIInv, Common, ControlTyped, LoginPcs
  <2> QED BY <1>1, <1>2, <2>1, <2>2, <2>3, SubmitStep
<1> QED BY <1>3, <1>4

\* A command or a text that is a prompt after all.
LEMMA ForwardedStep ==
  ASSUME ControlIInv, NEW k \in Handlers, Forwarded(k) \/ PassedThrough(k)
  PROVE  ControlIInv'
<1>1. /\ k \in Actors /\ at[k].pc \in {"handle", "ask"} /\ at[k].tok \in Tokens
      /\ at[k].conv \in Conversations \cup {0} /\ at[k].conv <= minted.conv /\ 0 <= minted.conv
  BY ControlBounds DEF Forwarded, PassedThrough, Handles, Actors, ControlIInv, Common, ControlTyped,
        Roles, Names, Calls
<1>2. /\ Submit(at[k].conv, at[k].tok) /\ Go(k, Resting)
      /\ UNCHANGED <<choices, loginVars, resets, rekeys, sessions, model>>
  BY DEF Forwarded, PassedThrough, Return
<1>3. Moved(k, Resting) /\ Watched(k, Resting)
  BY <1>1, <1>2, Goes, RestingCall DEF ControlIInv, Common
<1> QED BY <1>1, <1>2, <1>3, SubmitStep, RestingCall

-----------------------------------------------------------------------------
(* The choices of a model and their saves                                  *)

\* The choice changes: whoever saves an older one makes the file uncertain.
LEMMA SetStep ==
  ASSUME ControlIInv, NEW k \in Handlers, Set(k)
  PROVE  ControlIInv'
<1> USE DEF loginVars, resets, world, names, sessions, SavePcs
<1>0. ControlTyped /\ Roles /\ Names /\ Deferrals /\ PushedChoices /\ Filing /\ LoginsKept
  BY DEF ControlIInv, Common
<1>1. /\ k \in Actors /\ k \notin Conversations /\ at[k] \in Calls /\ at \in [Actors -> Calls]
      /\ at[k].pc = "handle" /\ at[k].to = 0 /\ at[k].tok \in Tokens
      /\ UNCHANGED <<file, loginVars, resets, world>>
  BY <1>0, ControlBounds DEF Actors, Set, Handles, ControlTyped, Roles, Calls
<1>2. CASE Resolve(at[k].tok) = 0
  <2>1. Go(k, Resting) /\ UNCHANGED <<mem, unsaved>>
    BY <1>2 DEF Set, Return
  <2>2. 0 <= minted.conv
    BY <1>0, ControlBounds DEF ControlTyped
  <2> QED BY <1>1, <2>1, <2>2, RestingCall, HandlerStep DEF choices
<1>3. CASE Resolve(at[k].tok) # 0
  <2> PICK c \in Conversations : c = Resolve(at[k].tok) /\ name[c] = at[k].tok
    BY <1>0, <1>1, <1>3, Resolved
  <2> DEFINE r == [at[k] EXCEPT !.pc = "save", !.conv = c]
             i == at[k].id
  <2>1. /\ mem' = [mem EXCEPT ![c] = [id |-> i, applied |-> 0]]
        /\ unsaved' = IF Saving(c) THEN unsaved \cup {c} ELSE unsaved
        /\ at' = [Changes(c) EXCEPT ![k] = r] /\ torn' = torn
    BY <1>3 DEF Set, Chosen
  <2>2. r \in Calls /\ r.pc = "save" /\ r.conv = c /\ r.to = 0 /\ r.id = i
        /\ i \in Models \cup {None}
        /\ r.tok = at[k].tok /\ r.login = at[k].login
    BY <1>1 DEF Calls, Pcs
  <2> HIDE DEF r, i
  <2>3. [at[c] EXCEPT !.changed = TRUE] \in Calls /\ c \in Actors /\ c # k
    BY <1>1 DEF Actors, Calls
  <2>4. /\ at' \in [Actors -> Calls] /\ at'[k] = r
        /\ at'[c] = [at[c] EXCEPT !.changed = TRUE]
        /\ \A j \in Actors : j # k /\ j # c => at'[j] = at[j]
    <3>1. DOMAIN at = Actors
      BY <1>1
    <3>2. Changes(c) = [j \in Actors |-> IF j = c THEN [at[j] EXCEPT !.changed = TRUE] ELSE at[j]]
      BY <3>1 DEF Changes
    <3>3. Changes(c) \in [Actors -> Calls]
      BY <1>1, <2>3, <3>2
    <3> QED BY <1>1, <2>1, <2>2, <2>3, <3>2, <3>3
  <2>5. \A j \in Actors : j # k =>
           /\ at'[j].pc = at[j].pc /\ at'[j].tok = at[j].tok /\ at'[j].sess = at[j].sess
           /\ at'[j].id = at[j].id /\ at'[j].conv = at[j].conv /\ at'[j].to = at[j].to
           /\ at'[j].login = at[j].login /\ (at[j].changed => at'[j].changed)
    BY <1>1, <2>3, <2>4 DEF Calls
  <2>6. /\ mem'[c].id = i /\ mem'[c].applied = 0 /\ \A d \in Conversations : d # c
             => mem'[d] = mem[d]
        /\ mem' \in [Conversations -> [id : Models \cup {None}, applied : Sessions \cup {0}]]
    BY <1>0, <2>1, <2>2 DEF ControlTyped
  <2>7. ControlTyped'
    BY <1>0, <1>1, <2>1, <2>4, <2>6 DEF ControlTyped
  <2>8. Roles'
    <3>1. \A j \in Handlers : at'[j].pc \notin TurnPcs \cup {"reset"}
      BY <1>0, <2>2, <2>4, <2>5 DEF Roles, Actors, TurnPcs
    <3>2. \A j \in Actors : at'[j].pc = "handle" => at'[j].to = 0 /\ at'[j].sess = 0
      BY <1>0, <2>2, <2>4, <2>5 DEF Roles
    <3>3. \A j \in Actors : at'[j].pc # "idle" => at'[j].tok # None
      BY <1>0, <1>1, <2>2, <2>4, <2>5, ControlBounds DEF Roles
    <3> QED BY <1>0, <1>1, <2>5, <3>1, <3>2, <3>3 DEF Roles, Actors
  <2>9. c <= minted.conv /\ ~(c > minted.conv) /\ c \in 1 .. minted.conv
    <3>1. minted.conv \in Nat /\ name[c] # None
      BY <1>0, <1>1, ControlBounds DEF ControlTyped
    <3>2. c <= minted.conv
      BY <1>0, <3>1, BusyIsMade
    <3> QED BY <3>1, <3>2, ControlBounds DEF Conversations
  <2>10. Names'
    <3>1. \A d \in Conversations : at'[d].pc = at[d].pc /\ at'[d].tok = at[d].tok
      BY <1>1, <2>5 DEF Actors
    <3>2. \A d \in Conversations : d > minted.conv => mem'[d] = mem[d]
          /\ (d \in unsaved' => d \in unsaved)
      BY <2>1, <2>6, <2>9
    <3>3. \A j \in Actors : at'[j].conv <= minted'.conv
      BY <1>0, <1>1, <2>2, <2>4, <2>5, <2>9 DEF Names
    <3> QED BY <1>0, <1>1, <3>1, <3>2, <3>3 DEF Names
  <2>11. Deferrals'
    <3>1. \A d \in Conversations : at'[d].pc = at[d].pc /\ at'[d].tok = at[d].tok
      BY <1>1, <2>5 DEF Actors
    <3> QED BY <1>0, <1>1, <3>1, DeferralsSame
  <2>12. PushedChoices'
    <3>0. at'[c].changed /\ \A d \in Conversations : d # c => at'[d] = at[d]
      BY <1>1, <2>3, <2>4 DEF Actors, Calls
    <3>1. ChoiceReachesAgent'
      BY <1>0, <1>1, <2>6, <3>0 DEF PushedChoices, ChoiceReachesAgent
    <3>2. \A d \in Conversations, s \in Sessions : Uses(d, s)' => Uses(d, s)
      BY <1>1, <2>5, <2>6, ControlBounds DEF Uses, Actors
    <3>3. OwnSessions'
      BY <1>0, <1>1, <3>2 DEF PushedChoices, OwnSessions
    <3>4. Pushing'
      <4>1. at'[c].sess # 0 \/ at'[c].pc \notin {"push", "mark"}
        BY <1>0, <1>1, <2>3, <2>5 DEF Roles, TurnPcs
      <4>2. /\ at'[c].pc = at[c].pc /\ at'[c].sess = at[c].sess /\ at'[c].id = at[c].id
        BY <2>3, <2>5
      <4> QED BY <1>0, <1>1, <2>6, <3>0, <4>1, <4>2 DEF PushedChoices, Pushing
    <3> QED BY <3>1, <3>3, <3>4 DEF PushedChoices
  <2>13. Filing'
    <3>0. \A d \in 1 .. minted.conv : d \in Conversations
      BY <1>0, ControlBounds DEF ControlTyped, Conversations
    <3>1. Saving(c) => c \in unsaved'
      BY <2>1
    <3>2. unsaved \subseteq unsaved' /\ \A d \in Conversations : d # c
          => (d \in unsaved' <=> d \in unsaved)
      BY <2>1
    <3>3. \A j \in Actors : j # k /\ Saves(j, c) => c \in unsaved'
      BY <1>1, <3>1 DEF Saves, Saving
    <3>4. \A j \in Actors, d \in Conversations : j # k => (Saves(j, d)' <=> Saves(j, d))
      BY <2>5 DEF Saves
    <3>5. \A d \in Conversations : Saves(k, d)' <=> d = c
      BY <2>2, <2>4, ControlBounds DEF Saves
    <3>6. \A d \in Conversations : ~Saves(k, d)
      BY <1>1 DEF Saves
    <3>7. ASSUME NEW j \in Actors, at'[j].pc = "save"
          PROVE  /\ at'[j].conv \in 1 .. minted'.conv /\ at'[j].to = 0
                 /\ at'[j].conv \notin unsaved' => mem'[at'[j].conv].id = at'[j].id
      <4>1. CASE j = k
        BY <1>1, <2>2, <2>4, <2>6, <2>9, <4>1
      <4>2. CASE j # k
        <5>1. /\ at[j].pc = "save" /\ at'[j].conv = at[j].conv /\ at'[j].to = at[j].to
                   /\ at'[j].id = at[j].id
          BY <2>5, <3>7, <4>2
        <5>2. CASE at[j].conv = c
          BY <1>0, <1>1, <3>3, <4>2, <5>1, <5>2 DEF Filing, Saves
        <5>3. CASE at[j].conv # c
          BY <1>0, <1>1, <2>6, <3>0, <3>2, <5>1, <5>3 DEF Filing
        <5> QED BY <5>2, <5>3
      <4> QED BY <4>1, <4>2
    <3>8. ASSUME NEW j \in Actors, at'[j].pc \in {"carry", "carried"}
          PROVE  /\ at'[j].conv \in 1 .. minted'.conv /\ at'[j].to \in 1 .. minted'.conv
                 /\ at'[j].conv # at'[j].to /\ name'[at'[j].conv] = None
                      /\ mem'[at'[j].conv].id = None
                 /\ at'[j].to \notin unsaved' => mem'[at'[j].to].id = at'[j].id
                 /\ at'[j].pc = "carried" /\ at'[j].conv \notin unsaved'
                      => file'[at'[j].conv] = None
      <4>1. j # k
        BY <2>2, <2>4, <3>8
      <4>2. /\ at[j].pc = at'[j].pc /\ at'[j].conv = at[j].conv /\ at'[j].to = at[j].to
                 /\ at'[j].id = at[j].id
        BY <2>5, <3>8, <4>1
      <4>3. at[j].conv # c
        BY <1>0, <1>1, <3>8, <4>2, ControlBounds DEF Filing
      <4>4. CASE at[j].to = c
        BY <1>0, <1>1, <2>6, <3>0, <3>2, <3>3, <3>8, <4>1, <4>2, <4>3, <4>4 DEF Filing, Saves
      <4>5. CASE at[j].to # c
        BY <1>0, <1>1, <2>6, <3>0, <3>2, <3>8, <4>2, <4>3, <4>5 DEF Filing
      <4> QED BY <4>4, <4>5
    <3>9. \A j, g \in Actors, d \in Conversations : j # g /\ Saves(j, d)' /\ Saves(g, d)'
          => d \in unsaved'
      BY <1>0, <3>2, <3>3, <3>4, <3>5 DEF Filing
    <3>10. FileIsChoice'
      <4>1. \A d \in Conversations : Saving(d)' <=> \E j \in Actors : Saves(j, d)'
        BY <2>4 DEF Saving, Saves
      <4>2. \A d \in Conversations : Saving(d) <=> \E j \in Actors : Saves(j, d)
        BY <1>1 DEF Saving, Saves
      <4>3. \A d \in Conversations : Saving(d)' <=> (d = c \/ Saving(d))
        BY <1>1, <3>4, <3>5, <3>6, <4>1, <4>2
      <4> QED BY <1>0, <1>1, <2>6, <3>2, <4>3 DEF Filing, FileIsChoice
    <3> QED BY <3>7, <3>8, <3>9, <3>10 DEF Filing
  <2>14. LoginsKept'
    <3>1. \A t \in Tokens : Keeps(t)
      BY <1>1 DEF Keeps, Current, Resolve
    <3>2. ASSUME NEW j \in Actors
          PROVE  /\ at'[j].login = at[j].login
                 /\ \/ {at[j].pc, at'[j].pc} \cap (LoginPcs \cup DroppingPcs \cup {"cancelling"}) = {}
                    \/ at'[j].pc = at[j].pc /\ at'[j].tok = at[j].tok /\ at'[j].sess = at[j].sess
      <4>1. CASE j = k
        BY <1>1, <2>2, <2>4, <4>1 DEF LoginPcs, DroppingPcs
      <4>2. CASE j # k
        BY <2>5, <4>2
      <4> QED BY <4>1, <4>2
    <3>3. DOMAIN at' = Actors
      BY <2>4
    <3> QED BY <1>0, <1>1, <2>1, <3>1, <3>2, <3>3, LoginsSame
  <2> QED BY <2>7, <2>8, <2>10, <2>11, <2>12, <2>13, <2>14 DEF ControlIInv, Common
<1> QED BY <1>2, <1>3

\* A save of one entry, which may fail.
LEMMA SavedFile ==
  ASSUME ControlTyped, NEW c \in Conversations, NEW i \in Models \cup {None}, Saved(c, i)
  PROVE  /\ file' \in [Conversations -> Models \cup {None}]
         /\ unsaved' \subseteq Conversations /\ unsaved \subseteq unsaved'
         /\ \A d \in Conversations : d # c => file'[d] = file[d] /\ (d \in unsaved' => d \in unsaved)
         /\ c \in unsaved' \/ file'[c] = i
<1>1. file \in [Conversations -> Models \cup {None}] /\ unsaved \subseteq Conversations
  BY DEF ControlTyped
<1>2. CASE file' = [file EXCEPT ![c] = i] /\ unsaved' = unsaved
  BY <1>1, <1>2
<1>3. CASE unsaved' = unsaved \cup {c} /\ file' = file
  BY <1>1, <1>3
<1> QED BY <1>2, <1>3 DEF Saved

\* The saver of a choice is alone with it, or the file was uncertain already.
LEMMA FilingSaves ==
  ASSUME ControlTyped, Filing, NEW k \in Actors, NEW r \in Calls, Moved(k, r),
         UNCHANGED <<mem, name>>, minted'.conv = minted.conv, at[k].pc \in SavePcs,
         NEW c \in Conversations, c \in {at[k].conv, at[k].to}, unsaved \subseteq unsaved',
         \A d \in Conversations : d # c => file'[d] = file[d] /\ (d \in unsaved' => d \in unsaved),
         c \in unsaved' \/ file'[c] = mem[c].id,
         \/ /\ at[k].pc = "carry" /\ r.pc = "carried" /\ c = at[k].conv
            /\ r.conv = at[k].conv /\ r.to = at[k].to /\ r.id = at[k].id
         \/ /\ r.pc \notin SavePcs
            /\ \A d \in Conversations : d # c /\ d \in {at[k].conv, at[k].to} =>
                   d \in unsaved \/ file[d] = mem[d].id
  PROVE  Filing'
<1> USE DEF SavePcs
<1>1. /\ at' \in [Actors -> Calls] /\ at'[k] = r /\ \A j \in Actors : j # k => at'[j] = at[j]
      /\ \A j \in Actors : at'[j].pc = "save" => j # k
      /\ at \in [Actors -> Calls] /\ minted.conv \in Nat
      /\ \A d \in 1 .. minted.conv : d \in Conversations
  BY ControlBounds DEF Moved, ControlTyped, Conversations
<1>2. \A j \in Actors, d \in Conversations : Saves(j, d)' => Saves(j, d)
  BY <1>1 DEF Saves
<1>3. \A j, g \in Actors : \A d \in Conversations : j # g /\ Saves(j, d)' /\ Saves(g, d)' => d \in unsaved'
  BY <1>2 DEF Filing
<1>4. \A j \in Actors : at'[j].pc = "save" =>
        /\ at'[j].conv \in 1 .. minted'.conv /\ at'[j].to = 0
        /\ at'[j].conv \notin unsaved' => mem'[at'[j].conv].id = at'[j].id
  BY <1>1 DEF Filing
<1>5. ASSUME NEW j \in Actors, at'[j].pc \in {"carry", "carried"}
      PROVE  /\ at'[j].conv \in 1 .. minted'.conv /\ at'[j].to \in 1 .. minted'.conv
             /\ at'[j].conv # at'[j].to /\ name'[at'[j].conv] = None /\ mem'[at'[j].conv].id = None
             /\ at'[j].to \notin unsaved' => mem'[at'[j].to].id = at'[j].id
  <2>1. /\ at[j].pc \in {"carry", "carried"} /\ at'[j].conv = at[j].conv /\ at'[j].to = at[j].to
        /\ at'[j].id = at[j].id
    BY <1>1, <1>5
  <2> QED BY <2>1 DEF Filing
<1>6. ASSUME NEW j \in Actors, at'[j].pc = "carried", at'[j].conv \notin unsaved'
      PROVE  file'[at'[j].conv] = None
  <2>1. at'[j].conv \in Conversations /\ mem[at'[j].conv].id = None
    BY <1>1, <1>5, <1>6
  <2>2. CASE j = k
    BY <1>1, <1>6, <2>1, <2>2
  <2>3. CASE j # k
    <3>1. at'[j] = at[j] /\ at[j].conv \notin unsaved /\ file[at[j].conv] = None
      BY <1>1, <1>6, <2>3 DEF Filing
    <3>2. at[j].conv # c
      <4>1. Saves(k, c) /\ (at[j].conv = c => Saves(j, c))
        BY <1>6, <3>1 DEF Saves
      <4> QED BY <2>1, <2>3, <3>1, <4>1 DEF Filing
    <3> QED BY <2>1, <3>1, <3>2
  <2> QED BY <2>2, <2>3
<1>7. ASSUME NEW d \in Conversations, d \notin unsaved', ~Saving(d)'
      PROVE  file'[d] = mem'[d].id
  <2>1. \A j \in Actors : ~Saves(j, d)'
    BY <1>1, <1>7 DEF Saving, Saves
  <2>2. \A j \in Actors : j # k => ~Saves(j, d)
    BY <1>1, <2>1 DEF Saves
  <2>3. CASE d = c
    BY <1>7, <2>3
  <2>4. CASE d # c /\ d \in {at[k].conv, at[k].to}
    <3>1. r.pc \notin SavePcs
      BY <1>1, <2>1, <2>4 DEF Saves
    <3> QED BY <1>7, <2>4, <3>1
  <2>5. CASE d # c /\ d \notin {at[k].conv, at[k].to}
    <3>1. ~Saves(k, d)
      BY <2>5 DEF Saves
    <3>2. ~Saving(d)
      BY <1>1, <2>2, <3>1 DEF Saving, Saves
    <3> QED BY <1>7, <2>5, <3>2 DEF Filing, FileIsChoice
  <2> QED BY <2>3, <2>4, <2>5
<1> QED BY <1>3, <1>4, <1>5, <1>6, <1>7 DEF Filing, FileIsChoice

\* What a save leaves alone.
LEMMA SavingStep ==
  ASSUME Common, Deferrals, PushedChoices, NEW k \in Actors, NEW r \in Calls, Moved(k, r), Watched(k, r),
         Fitting(k, r), r.pc \notin TurnPcs \cup {"reset"},
         NEW c \in Conversations, c <= minted.conv, NEW i \in Models \cup {None}, Saved(c, i),
         UNCHANGED <<mem, loginVars, resets, names, sessions, model, minted, queued>>
  PROVE  Common' /\ Deferrals' /\ PushedChoices'
<1> USE DEF loginVars, resets, names, sessions
<1>0. ControlTyped /\ Roles /\ Names
  BY DEF Common
<1>1. /\ file' \in [Conversations -> Models \cup {None}]
      /\ unsaved' \subseteq Conversations
      /\ \A d \in Conversations : d # c => file'[d] = file[d] /\ (d \in unsaved' => d \in unsaved)
  BY <1>0, SavedFile
<1>2. ControlTyped'
  BY <1>0, <1>1 DEF ControlTyped, Moved, Watched
<1>3. Roles'
  BY <1>0, MoveRoles
<1>4. Names'
  <2>1. \A d \in Conversations : d > minted.conv => d # c
    BY <1>0, ControlBounds DEF ControlTyped
  <2> QED BY <1>0, <1>1, <2>1, MoveNames
<1>5. \A d \in Conversations : at'[d] = at[d] \/ (d = k /\ at'[d] = r)
  BY DEF Moved, Actors
<1>6. Deferrals'
  BY <1>0, <1>5, DeferralsSame
<1>7. PushedChoices'
  BY <1>0, <1>5, ChoicesSame
<1> QED BY <1>2, <1>3, <1>4, <1>6, <1>7 DEF Common

LEMMA SaveStep ==
  ASSUME ControlIInv, NEW k \in Handlers, Save(k)
  PROVE  ControlIInv'
<1> USE DEF loginVars, resets, names, sessions
<1> DEFINE c == at[k].conv
           i == at[k].id
<1>0. Common /\ ControlTyped /\ Roles /\ Names /\ Deferrals /\ PushedChoices /\ Filing /\ LoginsKept
  BY DEF ControlIInv, Common
<1>1. /\ k \in Actors /\ k \notin Conversations /\ at[k].pc = "save" /\ at[k].login = 0
      /\ at[k].to = 0 /\ c \in Conversations /\ c <= minted.conv /\ i \in Models \cup {None}
      /\ c \in unsaved \/ mem[c].id = i
      /\ UNCHANGED <<mem, loginVars, resets, names, sessions, model, minted, queued>>
      /\ Go(k, Resting) /\ Saved(c, i)
  <2>1. k \in Actors /\ k \notin Conversations /\ at[k].pc = "save"
    BY ControlBounds DEF Actors, Save
  <2>2. minted.conv \in Nat /\ \A d \in 1 .. minted.conv : d \in Conversations
    BY <1>0, ControlBounds DEF ControlTyped, Conversations
  <2>3. at[k].to = 0 /\ c \in 1 .. minted.conv /\ (c \in unsaved \/ mem[c].id = i)
    BY <1>0, <2>1 DEF Filing
  <2>4. at[k].login = 0 /\ i \in Models \cup {None}
    BY <1>0, <2>1 DEF ControlTyped, Calls, LoginsKept, Holding, InHand, HandPcs
  <2> QED BY <2>1, <2>2, <2>3, <2>4 DEF Save, Return
<1> HIDE DEF c, i
<1>2. Moved(k, Resting) /\ Watched(k, Resting)
  BY <1>0, <1>1, RestingCall, Goes
<1>3. Fitting(k, Resting)
  BY <1>0, <1>1, RestingCall, ControlBounds DEF Fitting, TurnPcs, ControlTyped
<1>4. Common' /\ Deferrals' /\ PushedChoices'
  BY <1>0, <1>1, <1>2, <1>3, SavingStep, RestingCall DEF TurnPcs
<1>5. Filing'
  <2>1. /\ unsaved \subseteq unsaved'
        /\ \A d \in Conversations : d # c => file'[d] = file[d] /\ (d \in unsaved' => d \in unsaved)
        /\ c \in unsaved' \/ file'[c] = i
    BY <1>0, <1>1, SavedFile
  <2>2. c \in unsaved' \/ file'[c] = mem[c].id
    BY <1>1, <2>1
  <2>3. c = at[k].conv /\ \A d \in Conversations : d \in {at[k].conv, at[k].to} => d = c
    BY <1>1, ControlBounds DEF c
  <2> QED BY <1>0, <1>1, <1>2, <2>1, <2>2, <2>3, FilingSaves, RestingCall DEF SavePcs
<1>6. LoginsKept'
  <2>1. \A t \in Tokens : Keeps(t)
    BY <1>1 DEF Keeps, Current, Resolve
  <2> QED BY <1>0, <1>1, <1>2, <2>1, MoveLogins, RestingCall DEF LoginPcs, DroppingPcs
<1> QED BY <1>4, <1>5, <1>6 DEF ControlIInv
\* What every save of a carry is about: the old conversation, whose choice is
\* gone, and the new one, which has it.
LEMMA CarryIs ==
  ASSUME ControlIInv, NEW k \in Actors, at[k].pc \in {"carry", "carried"}
  PROVE  /\ at[k] \in Calls /\ at[k].tok \in Tokens /\ at[k].login = 0
         /\ at[k].conv \in Conversations /\ at[k].to \in Conversations /\ at[k].id \in Models \cup {None}
         /\ at[k].conv <= minted.conv /\ at[k].to <= minted.conv /\ at[k].conv # at[k].to
         /\ mem[at[k].conv].id = None
         /\ at[k].to \in unsaved \/ mem[at[k].to].id = at[k].id
         /\ at[k].pc = "carried" => at[k].conv \in unsaved \/ file[at[k].conv] = None
         /\ k \in Conversations => k <= minted.conv
<1>0. ControlTyped /\ Roles /\ Names /\ Filing /\ LoginsKept
  BY DEF ControlIInv, Common
<1>1. at[k] \in Calls /\ at[k].tok \in Tokens /\ at[k].login = 0 /\ at[k].id \in Models \cup {None}
  BY <1>0 DEF ControlTyped, Roles, Calls, LoginsKept, Holding, InHand, HandPcs
<1>2. minted.conv \in Nat /\ \A d \in 1 .. minted.conv : d \in Conversations /\ d <= minted.conv
  BY <1>0, ControlBounds DEF ControlTyped, Conversations
<1>3. k \in Conversations => k <= minted.conv
  BY <1>0, BusyIsMade
<1> QED BY <1>0, <1>1, <1>2, <1>3 DEF Filing

\* A step of a reset between its choice and its login: it goes on with the same token.
LEMMA ResettingLogins ==
  ASSUME ControlTyped, ControlTyped', Roles, LoginsKept, NEW k \in Actors, NEW r \in Calls,
         Moved(k, r), Watched(k, r), NEW T \in Tokens, at[k].tok = T, r.tok = T,
         at[k].login = 0, r.login = 0, at[k].pc \notin LoginPcs, r.pc \in DroppingPcs,
         UNCHANGED <<pending, logins>>, minted'.login = minted.login, lost' = lost,
         \A t \in Tokens : t # T => Keeps(t)
  PROVE  LoginsKept'
<1>1. at'[k] = r
  BY DEF Moved
<1>2. Dropping(T)'
  BY <1>1 DEF Dropping
<1>3. \A s : Valid(T, s)'
  BY <1>2 DEF Valid
<1>4. Touches(k, r, T)
  <2>1. minted.login <= minted'.login /\ 0 \notin Logins
    BY ControlBounds DEF ControlTyped
  <2> QED BY <2>1 DEF Touches, LoginPcs, DroppingPcs, HandPcs
<1>5. HasItAlone(k)' /\ CallFits(k)'
  BY <1>1 DEF HasItAlone, CallFits, DroppingPcs
<1>6. ASSUME NEW j \in Actors, j # k PROVE Valid(T, at[j].sess)'
  BY <1>2 DEF Valid, Dropping
<1>7. ASSUME ~torn' PROVE SlotHolds(T)'
  <2>1. SlotHolds(T)
    BY <1>7 DEF LoginsKept, Slots, SlotsHold, Watched
  <2>2. (\E j \in Actors : at[j].pc = "drop" /\ at[j].tok = T) =>
           \E j \in Actors : at'[j].pc = "drop" /\ at'[j].tok = T
    BY DEF Moved, LoginPcs
  <2>3. Valid(T, logins[pending[T]].sess)'
    BY <1>2 DEF Valid, Dropping
  <2> QED BY <2>1, <2>2, <2>3 DEF SlotHolds
<1> QED BY <1>4, <1>5, <1>6, <1>7, LoginMove

\* The first save of a carry: the old entry goes, if the save does not fail.
LEMMA CarryFirstStep ==
  ASSUME ControlIInv, NEW k \in Actors, at[k].pc = "carry", Saved(at[k].conv, None),
         Go(k, [at[k] EXCEPT !.pc = "carried"]),
         UNCHANGED <<mem, loginVars, resets, names, sessions, model, minted, queued>>
  PROVE  ControlIInv'
<1> USE DEF loginVars, resets, names, sessions
<1> DEFINE c == at[k].conv
           r == [at[k] EXCEPT !.pc = "carried"]
<1>0. Common /\ ControlTyped /\ Roles /\ Names /\ Deferrals /\ PushedChoices /\ Filing /\ LoginsKept
  BY DEF ControlIInv, Common
<1>1. /\ at[k] \in Calls /\ at[k].tok \in Tokens /\ at[k].login = 0
      /\ c \in Conversations /\ c <= minted.conv /\ mem[c].id = None
      /\ k \in Conversations => k <= minted.conv
  BY CarryIs
<1>2. /\ r \in Calls /\ r.pc = "carried" /\ r.tok = at[k].tok /\ r.login = 0
      /\ r.conv = c /\ r.to = at[k].to /\ r.id = at[k].id
  BY <1>1 DEF Calls, Pcs, DroppingPcs
<1> HIDE DEF r
<1>3. Moved(k, r) /\ Watched(k, r)
  BY <1>0, <1>2, Goes DEF r
<1>4. Fitting(k, r)
  BY <1>0, <1>1, <1>2, ControlBounds DEF Fitting, TurnPcs, DroppingPcs, ControlTyped
<1>5. Common' /\ Deferrals' /\ PushedChoices'
  BY <1>0, <1>1, <1>2, <1>3, <1>4, SavingStep DEF TurnPcs
<1>6. Filing'
  <2>1. /\ unsaved \subseteq unsaved'
        /\ \A d \in Conversations : d # c => file'[d] = file[d] /\ (d \in unsaved' => d \in unsaved)
        /\ c \in unsaved' \/ file'[c] = None
    BY <1>0, <1>1, SavedFile
  <2> QED BY <1>0, <1>1, <1>2, <1>3, <2>1, FilingSaves DEF SavePcs
<1>7. LoginsKept'
  <2>1. \A t \in Tokens : Keeps(t)
    BY DEF Keeps, Current, Resolve
  <2>2. ControlTyped'
    BY <1>5 DEF Common
  <2> QED BY <1>0, <1>1, <1>2, <1>3, <2>1, <2>2, ResettingLogins DEF LoginPcs, DroppingPcs
<1> QED BY <1>5, <1>6, <1>7 DEF ControlIInv

\* The second: the new entry comes.
LEMMA CarrySecondStep ==
  ASSUME ControlIInv, NEW k \in Actors, at[k].pc = "carried", Saved(at[k].to, at[k].id),
         Go(k, Call("dropLogin", at[k].tok, 0)),
         UNCHANGED <<mem, loginVars, resets, names, sessions, model, minted, queued>>
  PROVE  ControlIInv'
<1> USE DEF loginVars, resets, names, sessions
<1> DEFINE c == at[k].to
           i == at[k].id
<1>0. Common /\ ControlTyped /\ Roles /\ Names /\ Deferrals /\ PushedChoices /\ Filing /\ LoginsKept
  BY DEF ControlIInv, Common
<1>1. /\ at[k] \in Calls /\ at[k].tok \in Tokens /\ at[k].login = 0
      /\ c \in Conversations /\ c <= minted.conv /\ i \in Models \cup {None}
      /\ k \in Conversations => k <= minted.conv
      /\ c \in unsaved \/ mem[c].id = i
      /\ mem[at[k].conv].id = None
      /\ at[k].conv \in unsaved \/ file[at[k].conv] = None
  BY CarryIs
<1> HIDE DEF i
<1> PICK T \in Tokens : T = at[k].tok
  BY <1>1
<1> PICK r \in Calls : r = Call("dropLogin", T, 0)
  BY LoginCall DEF Pcs, DroppingPcs
<1>2. r.pc = "dropLogin" /\ r.tok = T /\ r.login = 0 /\ r.conv = 0 /\ r.to = 0
  BY LoginCall DEF Pcs, DroppingPcs
<1>3. Moved(k, r) /\ Watched(k, r)
  BY <1>0, <1>2, Goes
<1>4. Fitting(k, r)
  BY <1>0, <1>1, <1>2, ControlBounds DEF Fitting, TurnPcs, DroppingPcs, ControlTyped
<1>5. Common' /\ Deferrals' /\ PushedChoices'
  <2>1. Saved(c, i)
    BY DEF i
  <2> QED BY <1>0, <1>1, <1>2, <1>3, <1>4, <2>1, SavingStep DEF TurnPcs
<1>6. Filing'
  <2>1. /\ unsaved \subseteq unsaved'
        /\ \A d \in Conversations : d # c => file'[d] = file[d] /\ (d \in unsaved' => d \in unsaved)
        /\ c \in unsaved' \/ file'[c] = i
    BY <1>0, <1>1, SavedFile DEF i
  <2>2. c \in unsaved' \/ file'[c] = mem[c].id
    BY <1>1, <2>1
  <2> QED BY <1>0, <1>1, <1>2, <1>3, <2>1, <2>2, FilingSaves DEF SavePcs
<1>7. LoginsKept'
  <2>1. \A t \in Tokens : Keeps(t)
    BY DEF Keeps, Current, Resolve
  <2>2. ControlTyped'
    BY <1>5 DEF Common
  <2> QED BY <1>0, <1>1, <1>2, <1>3, <2>1, <2>2, ResettingLogins DEF LoginPcs, DroppingPcs
<1> QED BY <1>5, <1>6, <1>7 DEF ControlIInv

LEMMA CarryStep ==
  ASSUME ControlIInv, NEW k \in Actors, CarrySaves(k)
  PROVE  ControlIInv'
BY CarryFirstStep, CarrySecondStep DEF CarrySaves
-----------------------------------------------------------------------------
(* !new and new_session                                                    *)

\* Who resets a conversation: a handler, or a turn at its end.
LEMMA ResetsIs ==
  ASSUME ControlIInv, NEW k \in Actors, Resets(k)
  PROVE  /\ at[k] \in Calls /\ at[k].tok \in Tokens /\ at[k].pc \in {"reset", "handle"}
         /\ at[k].login = 0 /\ at[k].conv <= minted.conv
         /\ k \in Conversations => k <= minted.conv
<1>0. ControlTyped /\ Roles /\ Names /\ LoginsKept
  BY DEF ControlIInv, Common
<1>1. at[k].pc \in {"reset", "handle"}
  BY DEF Resets, Handles
<1>2. k \in Conversations => k <= minted.conv
  BY <1>0, <1>1, BusyIsMade
<1> QED BY <1>0, <1>1, <1>2 DEF ControlTyped, Roles, Names, Calls, LoginsKept, Holding, InHand, HandPcs

\* The conversation's session goes; its login is dropped next.
LEMMA ResetSessionStep ==
  ASSUME ControlIInv, NEW k \in Actors, ResetSession(k)
  PROVE  ControlIInv'
<1> USE DEF loginVars, resets, choices, names
<1>0. ControlTyped /\ Roles /\ Names /\ Deferrals /\ PushedChoices /\ Filing /\ LoginsKept
  BY DEF ControlIInv, Common
<1>1. /\ at[k] \in Calls /\ at[k].tok \in Tokens /\ at[k].login = 0
      /\ at[k].pc \in {"reset", "handle"} /\ (k \in Conversations => k <= minted.conv)
  BY ResetsIs DEF ResetSession
<1> PICK T \in Tokens : T = at[k].tok
  BY <1>1
<1> PICK r \in Calls : r = Call("dropLogin", T, 0)
  BY LoginCall DEF Pcs, DroppingPcs
<1>2. r.pc = "dropLogin" /\ r.tok = T /\ r.login = 0 /\ r.conv = 0 /\ r.to = 0
  BY LoginCall DEF Pcs, DroppingPcs
<1>3. /\ UNCHANGED <<choices, loginVars, resets, names, lost, model, minted, queued, budget>>
      /\ live' = [c \in Conversations |-> IF c = Resolve(T) THEN 0 ELSE live[c]]
      /\ gone' = [c \in Conversations |-> IF c = Resolve(T) THEN 0 ELSE gone[c]]
      /\ Moved(k, r) /\ Watched(k, r)
  BY <1>0, Goes DEF ResetSession
<1>4. /\ at' \in [Actors -> Calls] /\ at'[k] = r /\ \A j \in Actors : j # k => at'[j] = at[j]
      /\ live' \in [Conversations -> Sessions \cup {0}]
      /\ gone' \in [Conversations -> Sessions \cup {0}]
      /\ \A c \in Conversations : live'[c] \in {live[c], 0} /\ gone'[c] \in {gone[c], 0}
      /\ \A c \in Conversations : c # Resolve(T) => live'[c] = live[c]
  BY <1>0, <1>3 DEF Moved, ControlTyped
<1>5. ControlTyped'
  BY <1>0, <1>3, <1>4 DEF ControlTyped, Watched
<1>6. Fitting(k, r)
  BY <1>0, <1>1, <1>2, ControlBounds DEF Fitting, TurnPcs, DroppingPcs, ControlTyped
<1>7. Roles'
  BY <1>0, <1>3, <1>6, MoveRoles
<1>8. Names'
  <2>1. \A c \in Conversations : c > minted.conv => live[c] = 0 /\ gone[c] = 0
    BY <1>0 DEF Names
  <2>2. \A c \in Conversations : c > minted.conv => live'[c] = live[c] /\ gone'[c] = gone[c]
    BY <1>4, <2>1
  <2> QED BY <1>0, <1>3, <1>6, <2>2, MoveNames
<1>9. Deferrals'
  <2>1. \A c \in Conversations :
            \/ at'[c].pc \notin TurnPcs \cup {"reset"}
            \/ at[c].pc \in TurnPcs \cup {"reset"} /\ at'[c].tok = at[c].tok
    BY <1>2, <1>4 DEF TurnPcs, Actors
  <2> QED BY <1>0, <1>3, <2>1, DeferralsSame
<1>10. PushedChoices'
  <2>1. \A e \in Conversations :
            \/ at'[e].pc \notin TurnPcs
            \/ /\ at'[e].pc = at[e].pc /\ at'[e].sess = at[e].sess /\ at'[e].id = at[e].id
               /\ at[e].changed => at'[e].changed
    BY <1>2, <1>4 DEF TurnPcs, Actors
  <2> QED BY <1>0, <1>3, <1>4, <2>1, ChoicesSame
<1>11. Filing'
  <2>1. \A j \in Actors :
            \/ at[j].pc \notin SavePcs /\ at'[j].pc \notin SavePcs
            \/ /\ at'[j].pc = at[j].pc /\ at'[j].conv = at[j].conv /\ at'[j].to = at[j].to
               /\ at'[j].id = at[j].id
    BY <1>1, <1>2, <1>4 DEF SavePcs
  <2>2. minted.conv \in Nat
    BY <1>0 DEF ControlTyped
  <2> QED BY <1>0, <1>3, <1>4, <2>1, <2>2, FilingSame
<1>12. LoginsKept'
  <2>1. ASSUME NEW t \in Tokens, t # T PROVE Keeps(t)
    <3> SUFFICES ASSUME NEW s \in Sessions, Resolve(t) # 0, live[Resolve(t)] = s
                 PROVE  Current(t, s)'
      BY DEF Keeps, Current
    <3>1. Resolve(t)' = Resolve(t)
      BY <1>3 DEF Resolve
    <3>2. Resolve(t) \in Conversations /\ name[Resolve(t)] = t
      BY <1>0, Resolved
    <3>3. Resolve(t) # Resolve(T)
      BY <1>0, <2>1, <3>2, Resolved
    <3>4. live'[Resolve(t)] = s
      BY <1>4, <3>2, <3>3
    <3> QED BY <3>1, <3>4 DEF Current
  <2> QED BY <1>0, <1>1, <1>2, <1>3, <1>5, <2>1, ResettingLogins DEF LoginPcs, DroppingPcs
<1> QED BY <1>5, <1>7, <1>8, <1>9, <1>10, <1>11, <1>12 DEF ControlIInv, Common

\* A turn is over: it reset nothing, or had nothing to reset.
LEMMA TurnIsOver ==
  ASSUME ControlIInv, NEW c \in Conversations, at[c].pc \in TurnPcs \cup {"reset"}, Return(c),
         UNCHANGED <<choices, loginVars, resets, world>>
  PROVE  ControlIInv'
<1> USE DEF choices, loginVars, resets, world, names, sessions
<1>0. Common /\ ControlTyped /\ Roles /\ Names /\ Deferrals /\ PushedChoices /\ Filing /\ LoginsKept
  BY DEF ControlIInv, Common
<1>1. c \in Actors /\ at[c].login = 0 /\ 0 <= minted.conv
  BY <1>0, ControlBounds DEF Actors, LoginsKept, Holding, InHand, HandPcs, TurnPcs, ControlTyped
<1>2. Moved(c, Resting) /\ Watched(c, Resting)
  BY <1>0, <1>1, RestingCall, Goes DEF Return
<1>3. Fitting(c, Resting)
  BY <1>1, RestingCall DEF Fitting, TurnPcs
<1>4. ControlTyped'
  BY <1>0, <1>2 DEF ControlTyped, Moved, Watched
<1>5. Common' /\ Deferrals' /\ PushedChoices' /\ Filing'
  BY <1>0, <1>1, <1>2, <1>3, <1>4, LoginStep, RestingCall DEF TurnPcs, SavePcs
<1>6. LoginsKept'
  <2>1. \A t \in Tokens : Keeps(t)
    BY DEF Keeps, Current, Resolve
  <2> QED BY <1>0, <1>1, <1>2, <2>1, MoveLogins, RestingCall DEF LoginPcs, DroppingPcs, TurnPcs
<1> QED BY <1>5, <1>6 DEF ControlIInv

LEMMA ResetFailsStep ==
  ASSUME ControlIInv, NEW k \in Actors, ResetFails(k)
  PROVE  ControlIInv'
<1>1. /\ Return(k) /\ UNCHANGED <<choices, loginVars, resets, world>>
      /\ at[k].pc \in {"reset", "handle"}
  BY DEF ResetFails, Resets, Handles
<1>2. CASE k \in Handlers
  <2>1. at[k].pc = "handle"
    BY <1>1, <1>2 DEF ControlIInv, Common, Roles
  <2> QED BY <1>1, <1>2, <2>1, NothingStep
<1>3. CASE k \in Conversations
  <2>1. at[k].pc = "reset"
    BY <1>1, <1>3 DEF ControlIInv, Common, Roles, TurnPcs, DroppingPcs
  <2> QED BY <1>1, <1>3, <2>1, TurnIsOver
<1> QED BY <1>2, <1>3 DEF Actors

\* The new conversation takes the name and the choice; what the agent deferred
\* under the name, or was about to, is mixed from now on.
LEMMA ReplaceConvStep ==
  ASSUME ControlIInv, NEW k \in Actors, ReplaceConv(k)
  PROVE  ControlIInv'
<1> USE DEF loginVars, sessions
<1>0. ControlTyped /\ Roles /\ Names /\ Deferrals /\ PushedChoices /\ Filing /\ LoginsKept
  BY DEF ControlIInv, Common
<1> DEFINE d == minted.conv + 1
<1>1. /\ at[k] \in Calls /\ at \in [Actors -> Calls] /\ at[k].tok \in Tokens
      /\ at[k].pc \in {"reset", "handle"} /\ at[k].login = 0
      /\ k \in Conversations => k <= minted.conv
      /\ Resolve(at[k].tok) \in Conversations /\ d \in Conversations /\ minted.conv \in Nat
      /\ UNCHANGED <<file, loginVars, deferred, tool, asked, rekeys, sessions, model, queued, budget>>
  <2>1. /\ at[k] \in Calls /\ at[k].tok \in Tokens /\ at[k].pc \in {"reset", "handle"}
        /\ at[k].login = 0 /\ (k \in Conversations => k <= minted.conv)
    BY ResetsIs DEF ReplaceConv
  <2>2. Resolve(at[k].tok) \in Conversations
    BY <1>0, <2>1, Resolved DEF ReplaceConv
  <2> QED BY <1>0, <2>1, <2>2 DEF ReplaceConv, ControlTyped
<1> PICK T \in Tokens : T = at[k].tok
  BY <1>1
<1> PICK c \in Conversations : c = Resolve(T)
  BY <1>1
<1>2. /\ name' = [name EXCEPT ![c] = None, ![d] = T] /\ minted' = [minted EXCEPT !.conv = d]
      /\ called' = [called EXCEPT ![d] = T] /\ mem' = Carried(c, d)
      /\ unsaved' = IF Saving(c) \/ c \in unsaved THEN unsaved \cup {c, d} ELSE unsaved
      /\ mixed' = IF T \in deferred \/ InTurn(c) \/ (at[c].pc = "reset" /\ k # c)
                  THEN mixed \cup {T} ELSE mixed
      /\ Go(k, IF mem[c].id = None THEN Call("dropLogin", T, 0)
               ELSE [Call("carry", T, 0) EXCEPT !.conv = c, !.to = d, !.id = mem[c].id])
  BY DEF ReplaceConv
<1>3. PICK r \in Calls :
         /\ Go(k, r) /\ r.tok = T /\ r.login = 0 /\ r.conv \in {0, c}
         /\ \/ r.pc = "dropLogin" /\ mem[c].id = None
            \/ r.pc = "carry" /\ r.conv = c /\ r.to = d /\ r.id = mem[c].id
  <2>1. CASE mem[c].id = None
    <3> DEFINE r == Call("dropLogin", T, 0)
    <3>1. r \in Calls /\ r.pc = "dropLogin" /\ r.tok = T /\ r.login = 0 /\ r.conv = 0
      BY LoginCall DEF Pcs, DroppingPcs
    <3>2. Go(k, r)
      BY <1>2, <2>1
    <3> HIDE DEF r
    <3> QED BY <2>1, <3>1, <3>2
  <2>2. CASE mem[c].id # None
    <3> DEFINE x == Call("carry", T, 0)
               r == [x EXCEPT !.conv = c, !.to = d, !.id = mem[c].id]
    <3>1. x \in Calls /\ x.pc = "carry" /\ x.tok = T /\ x.login = 0
      BY LoginCall DEF Pcs, DroppingPcs
    <3>2. mem[c].id \in Models \cup {None}
      BY <1>0 DEF ControlTyped
    <3>3. Go(k, r)
      BY <1>2, <2>2
    <3> HIDE DEF x
    <3>4. r \in Calls /\ r.pc = "carry" /\ r.tok = T /\ r.login = 0 /\ r.conv = c /\ r.to = d
          /\ r.id = mem[c].id
      BY <1>1, <3>1, <3>2 DEF Calls
    <3> HIDE DEF r
    <3> QED BY <2>2, <3>3, <3>4
  <2> QED BY <2>1, <2>2
<1>4. /\ name[c] = T /\ T # None /\ \A e \in Conversations : e # c => name[e] # T
      /\ c # d /\ c <= minted.conv /\ d > minted.conv
      /\ c \in 1 .. minted.conv /\ d \notin 1 .. minted.conv /\ 0 \notin Conversations
  <2>1. name[c] = T /\ T # None /\ \A e \in Conversations : e # c => name[e] # T
    BY <1>0, <1>1, Resolved, ControlBounds
  <2>2. c <= minted.conv /\ d > minted.conv
    BY <1>0, <1>1, <2>1, BusyIsMade
  <2>3. c \in 1 .. minted.conv /\ d \notin 1 .. minted.conv
    BY <1>1, <2>2 DEF Conversations
  <2> QED BY <1>1, <2>1, <2>2, <2>3, ControlBounds
<1>5. /\ name[d] = None /\ called[d] = None /\ queued[d] = 0 /\ at[d].pc = "idle" /\ tool[d] = None
      /\ live[d] = 0 /\ gone[d] = 0 /\ mem[d] = Unchosen /\ file[d] = None
      /\ d \notin asked \cup unsaved
  BY <1>0, <1>1, <1>4 DEF Names
<1>6. k # d
  BY <1>1, <1>5
<1>7. Moved(k, r) /\ Watched(k, r)
  BY <1>0, <1>3, Goes
<1>8. /\ at' \in [Actors -> Calls] /\ at'[k] = r /\ \A j \in Actors : j # k => at'[j] = at[j]
      /\ \A e \in Conversations : e # k => at'[e] = at[e]
  BY <1>7 DEF Moved, Actors
<1>9. /\ minted'.conv = d /\ minted'.sess = minted.sess /\ minted'.login = minted.login
      /\ minted' \in [sess : 0 .. MaxSessions, conv : 0 .. MaxConvs, login : 0 .. MaxLogins]
  <2>1. d \in 0 .. MaxConvs
    BY <1>1 DEF Conversations
  <2> HIDE DEF d
  <2> QED BY <1>0, <1>2, <2>1 DEF ControlTyped
<1>10. minted'.conv = minted.conv + 1
  BY <1>9
<1> HIDE DEF d
<1>11. /\ name' \in [Conversations -> Tokens \cup {None}] /\ name'[c] = None /\ name'[d] = T
       /\ \A e \in Conversations : e # c /\ e # d => name'[e] = name[e]
       /\ called' \in [Conversations -> Tokens \cup {None}] /\ called'[d] = T
       /\ \A e \in Conversations : e # d => called'[e] = called[e]
  BY <1>0, <1>1, <1>2, <1>4 DEF ControlTyped
<1>12. /\ mem' \in [Conversations -> [id : Models \cup {None}, applied : Sessions \cup {0}]]
       /\ mem'[c].id = None /\ mem'[c].applied = 0 /\ mem'[d].id = mem[c].id
            /\ mem'[d].applied = 0
       /\ \A e \in Conversations : e # c /\ e # d => mem'[e] = mem[e]
  <2>1. Unchosen \in [id : Models \cup {None}, applied : Sessions \cup {0}]
        /\ Unchosen.id = None /\ Unchosen.applied = 0
    BY DEF Unchosen
  <2>2. [mem[c] EXCEPT !.applied = 0] \in [id : Models \cup {None}, applied : Sessions \cup {0}]
    BY <1>0 DEF ControlTyped
  <2> QED BY <1>0, <1>1, <1>2, <1>4, <2>1, <2>2 DEF ControlTyped, Carried
<1>13. /\ unsaved' \subseteq Conversations /\ unsaved \subseteq unsaved'
       /\ \A e \in Conversations : e # c /\ e # d => (e \in unsaved' <=> e \in unsaved)
       /\ Saving(c) => c \in unsaved' /\ d \in unsaved'
       /\ c \in unsaved => d \in unsaved'
       /\ c \in unsaved' => c \in unsaved \/ Saving(c)
  BY <1>0, <1>1, <1>2, <1>5 DEF ControlTyped
<1>14. /\ mixed \subseteq mixed' /\ mixed' \subseteq Tokens
       /\ T \notin mixed' => T \notin deferred /\ ~InTurn(c) /\ (at[c].pc # "reset" \/ k = c)
  BY <1>0, <1>2 DEF ControlTyped
<1>15. ControlTyped'
  BY <1>0, <1>1, <1>7, <1>8, <1>9, <1>11, <1>12, <1>13, <1>14 DEF ControlTyped, Watched
<1>16. Roles'
  <2>1. Fitting(k, r)
    BY <1>1, <1>3, <1>4, ControlBounds DEF Fitting, TurnPcs, DroppingPcs
  <2> QED BY <1>0, <1>7, <2>1, MoveRoles
<1>17. Names'
  <2>1. \A e, f \in Conversations : name'[e] # None /\ name'[e] = name'[f] => e = f
    BY <1>0, <1>4, <1>11 DEF Names
  <2>2. \A e \in Conversations : name'[e] # None => called'[e] = name'[e]
    BY <1>0, <1>11 DEF Names
  <2>3. ASSUME NEW e \in Conversations, at'[e].pc \in TurnPcs PROVE at'[e].tok = called'[e]
    <3>1. e # k /\ at'[e] = at[e]
      BY <1>3, <1>8, <2>3 DEF TurnPcs
    <3>2. e # d
      BY <1>5, <2>3, <3>1 DEF TurnPcs
    <3> QED BY <1>0, <1>11, <2>3, <3>1, <3>2 DEF Names
  <2>4. \A e \in Conversations : e <= minted'.conv => called'[e] # None
    <3>1. \A e \in Conversations : e <= minted'.conv => e <= minted.conv \/ e = d
      BY <1>1, <1>9, <1>10, ControlBounds
    <3> QED BY <1>0, <1>4, <1>11, <3>1 DEF Names
  <2>5. \A j \in Actors : at'[j].conv <= minted'.conv
    <3>1. \A j \in Actors : at'[j].conv <= minted.conv /\ at'[j].conv \in Nat
      <4>1. \A j \in Actors : at[j].conv <= minted.conv /\ at[j].conv \in Nat
        BY <1>0, ControlBounds DEF Names, ControlTyped, Calls
      <4>2. r.conv <= minted.conv /\ r.conv \in Nat
        BY <1>1, <1>3, <1>4, ControlBounds
      <4> QED BY <1>8, <4>1, <4>2
    <3> QED BY <1>1, <1>10, <3>1
  <2>6. ASSUME NEW e \in Conversations, e > minted'.conv
        PROVE  /\ name'[e] = None /\ called'[e] = None /\ queued'[e] = 0 /\ at'[e].pc = "idle"
               /\ tool'[e] = None /\ live'[e] = 0 /\ gone'[e] = 0 /\ mem'[e] = Unchosen
               /\ file'[e] = None /\ e \notin asked' \cup unsaved'
    <3>1. e > minted.conv /\ e # c /\ e # d
      <4>1. e \in Nat /\ c \in Nat /\ d \in Nat
        BY <1>1, ControlBounds
      <4> QED BY <1>1, <1>4, <1>9, <1>10, <2>6, <4>1
    <3>2. /\ name[e] = None /\ called[e] = None /\ queued[e] = 0 /\ at[e].pc = "idle"
          /\ tool[e] = None /\ live[e] = 0 /\ gone[e] = 0 /\ mem[e] = Unchosen /\ file[e] = None
          /\ e \notin asked \cup unsaved
      BY <1>0, <3>1 DEF Names
    <3>3. e # k
      BY <1>1, <3>2
    <3> QED BY <1>1, <1>8, <1>11, <1>12, <1>13, <3>1, <3>2, <3>3
  <2> QED BY <2>1, <2>2, <2>3, <2>4, <2>5, <2>6 DEF Names
<1>18. Deferrals'
  <2>1. ASSUME NEW t \in deferred \ mixed' PROVE \E e \in Conversations : name'[e] = t
    <3>1. t # T /\ t \in Tokens /\ t # None
      BY <1>0, <1>14, <2>1, ControlBounds DEF ControlTyped
    <3>2. PICK e \in Conversations : name[e] = t
      BY <1>0, <1>14, <2>1 DEF Deferrals
    <3>3. e # c /\ e # d
      BY <1>4, <1>5, <3>1, <3>2
    <3> QED BY <1>11, <3>2, <3>3
  <2>2. ASSUME NEW e \in Conversations, name'[e] \notin mixed' \cup {None}
        PROVE  e \in asked <=> name'[e] \in deferred
    <3>1. CASE e = d
      BY <1>5, <1>11, <1>14, <2>2, <3>1
    <3>2. CASE e # d
      BY <1>0, <1>11, <1>14, <2>2, <3>2 DEF Deferrals, DeferredByOwner
    <3> QED BY <3>1, <3>2
  <2>3. ASSUME NEW e \in Conversations PROVE OwnTurn(e)'
    <3> SUFFICES ASSUME at'[e].pc \in TurnPcs \cup {"reset"}, at'[e].tok \notin mixed'
                 PROVE  name'[e] = at'[e].tok
      BY DEF OwnTurn
    <3>1. e # k /\ at'[e] = at[e]
      BY <1>3, <1>8 DEF TurnPcs
    <3>2. name[e] = at[e].tok
      BY <1>0, <1>14, <3>1 DEF Deferrals, OwnTurn
    <3>3. e # d
      BY <1>5, <3>1 DEF TurnPcs
    <3>4. e # c
      BY <1>4, <1>14, <3>1, <3>2 DEF InTurn, TurnPcs
    <3> QED BY <1>11, <3>1, <3>2, <3>3, <3>4
  <2> QED BY <1>1, <2>1, <2>2, <2>3 DEF Deferrals, DeferredByOwner
<1>19. PushedChoices'
  <2>1. \A e \in Conversations : at'[e].pc \in TurnPcs => at'[e] = at[e] /\ e # k
    BY <1>3, <1>8 DEF TurnPcs
  <2>2. at'[d].pc \notin TurnPcs
    BY <1>1, <1>5, <1>6, <1>8 DEF TurnPcs
  <2>3. ChoiceReachesAgent'
    BY <1>0, <1>1, <1>12, <2>1, <2>2 DEF PushedChoices, ChoiceReachesAgent, TurnPcs
  <2>4. \A e \in Conversations, s \in Sessions : Uses(e, s)' => Uses(e, s)
    BY <1>1, <1>12, <2>1, ControlBounds DEF Uses
  <2>5. OwnSessions'
    BY <1>0, <1>9, <2>4 DEF PushedChoices, OwnSessions
  <2>6. Pushing'
    <3> SUFFICES ASSUME NEW e \in Conversations, at'[e].pc \in {"push", "mark"}
                 PROVE  /\ at'[e].id # None
                             /\ (at'[e].changed \/ mem'[e].id \in {at'[e].id, None})
                        /\ at'[e].pc = "push" => mem'[e].applied # at'[e].sess
                        /\ at'[e].pc = "mark" => model'[at'[e].sess] = at'[e].id
      BY DEF Pushing
    <3>1. at'[e] = at[e] /\ at[e].pc \in {"push", "mark"} /\ e # d /\ at[e].sess # 0
      BY <1>0, <2>1, <2>2 DEF TurnPcs, Roles
    <3> QED BY <1>0, <1>1, <1>12, <3>1 DEF PushedChoices, Pushing
  <2> QED BY <2>3, <2>5, <2>6 DEF PushedChoices
<1>20. Filing'
  <2> USE DEF SavePcs
  <2>1. \A e \in 1 .. minted.conv : e \in 1 .. minted'.conv /\ e \in Conversations /\ e # d
    BY <1>1, <1>4, <1>10, ControlBounds DEF Conversations, ControlTyped
  <2>2. c \in 1 .. minted'.conv /\ d \in 1 .. minted'.conv
    BY <1>1, <1>4, <1>9, <1>10
  <2>3. \A j \in Actors, e \in Conversations : j # k => (Saves(j, e)' <=> Saves(j, e))
    BY <1>8 DEF Saves
  <2>4. \A j \in Actors : Saves(j, c) => c \in unsaved' /\ d \in unsaved'
    BY <1>1, <1>13 DEF Saving, Saves
  <2>5. \A j \in Actors : ~Saves(j, d)
    BY <1>0, <1>1, <1>4 DEF Filing, Saves
  <2>6. \A e \in Conversations : Saves(k, e)' => e \in {c, d} /\ r.pc = "carry"
    BY <1>3, <1>8 DEF Saves
  <2>7. ASSUME NEW j \in Actors, at'[j].pc = "save"
        PROVE  /\ at'[j].conv \in 1 .. minted'.conv /\ at'[j].to = 0
               /\ at'[j].conv \notin unsaved' => mem'[at'[j].conv].id = at'[j].id
    <3>1. at'[j] = at[j] /\ j # k
      BY <1>3, <1>8, <2>7
    <3>2. /\ at[j].conv \in 1 .. minted.conv /\ at[j].to = 0
          /\ at[j].conv \notin unsaved => mem[at[j].conv].id = at[j].id
      BY <1>0, <2>7, <3>1 DEF Filing
    <3>3. CASE at[j].conv = c
      BY <2>1, <2>4, <2>7, <3>1, <3>2, <3>3 DEF Saves
    <3>4. CASE at[j].conv # c
      BY <1>12, <1>13, <2>1, <3>1, <3>2, <3>4
    <3> QED BY <3>3, <3>4
  <2>8. ASSUME NEW j \in Actors, at'[j].pc \in {"carry", "carried"}
        PROVE  /\ at'[j].conv \in 1 .. minted'.conv /\ at'[j].to \in 1 .. minted'.conv
               /\ at'[j].conv # at'[j].to /\ name'[at'[j].conv] = None
                    /\ mem'[at'[j].conv].id = None
               /\ at'[j].to \notin unsaved' => mem'[at'[j].to].id = at'[j].id
               /\ at'[j].pc = "carried" /\ at'[j].conv \notin unsaved' => file'[at'[j].conv] = None
    <3>1. CASE j = k
      BY <1>3, <1>4, <1>8, <1>11, <1>12, <2>2, <2>8, <3>1
    <3>2. CASE j # k
      <4>1. at'[j] = at[j]
        BY <1>8, <3>2
      <4>2. /\ at[j].conv \in 1 .. minted.conv /\ at[j].to \in 1 .. minted.conv
            /\ at[j].conv # at[j].to /\ name[at[j].conv] = None /\ mem[at[j].conv].id = None
            /\ at[j].to \notin unsaved => mem[at[j].to].id = at[j].id
            /\ at[j].pc = "carried" /\ at[j].conv \notin unsaved => file[at[j].conv] = None
        BY <1>0, <2>8, <4>1 DEF Filing
      <4>3. at[j].conv # c
        BY <1>4, <4>2
      <4>4. name'[at[j].conv] = None /\ mem'[at[j].conv].id = None
        BY <1>11, <1>12, <2>1, <4>2, <4>3
      <4>5. CASE at[j].to = c
        BY <1>1, <1>13, <2>1, <2>4, <2>8, <4>1, <4>2, <4>4, <4>5 DEF Saves
      <4>6. CASE at[j].to # c
        BY <1>1, <1>12, <1>13, <2>1, <4>1, <4>2, <4>4, <4>6
      <4> QED BY <4>5, <4>6
    <3> QED BY <3>1, <3>2
  <2>9. ASSUME NEW j \in Actors, NEW g \in Actors, NEW e \in Conversations, j # g, Saves(j, e)',
        Saves(g, e)'
        PROVE  e \in unsaved'
    <3>1. CASE j # k /\ g # k
      BY <1>0, <1>13, <2>3, <2>9, <3>1 DEF Filing
    <3>2. CASE j = k
      <4>1. e \in {c, d} /\ Saves(g, e)
        BY <2>3, <2>6, <2>9, <3>2
      <4> QED BY <2>4, <2>5, <4>1
    <3>3. CASE g = k
      <4>1. e \in {c, d} /\ Saves(j, e)
        BY <2>3, <2>6, <2>9, <3>3
      <4> QED BY <2>4, <2>5, <4>1
    <3> QED BY <3>1, <3>2, <3>3
  <2>10. ASSUME NEW e \in Conversations, e \notin unsaved', ~Saving(e)'
         PROVE  file'[e] = mem'[e].id
    <3>1. \A j \in Actors : ~Saves(j, e)'
      BY <1>8, <2>10 DEF Saving, Saves
    <3>2. \A j \in Actors : ~Saves(j, e)
      BY <1>1, <2>3, <3>1 DEF Saves
    <3>3. e \notin unsaved /\ ~Saving(e)
      BY <1>1, <1>13, <2>10, <3>2 DEF Saving, Saves
    <3>4. file[e] = mem[e].id
      BY <1>0, <3>3 DEF Filing, FileIsChoice
    <3>5. e \in {c, d} => mem[c].id = None
      BY <1>3, <1>8, <3>1 DEF Saves
    <3>6. CASE e = c
      BY <1>1, <1>12, <3>4, <3>5, <3>6
    <3>7. CASE e = d
      BY <1>1, <1>5, <1>12, <3>5, <3>7
    <3>8. CASE e # c /\ e # d
      BY <1>1, <1>12, <3>4, <3>8
    <3> QED BY <3>6, <3>7, <3>8
  <2> QED BY <2>7, <2>8, <2>9, <2>10 DEF Filing, FileIsChoice
<1>21. LoginsKept'
  <2>1. ASSUME NEW t \in Tokens, t # T PROVE Keeps(t)
    <3> SUFFICES ASSUME NEW s \in Sessions, Resolve(t) # 0, live[Resolve(t)] = s
                 PROVE  Resolve(t)' # 0 /\ live[Resolve(t)]' = s
      BY DEF Keeps, Current
    <3> PICK e \in Conversations : e = Resolve(t)
      BY <1>0, Resolved
    <3>1. name[e] = t /\ t # None /\ e # 0
      BY <1>0, Resolved, ControlBounds
    <3>2. e # c /\ e # d
      BY <1>4, <1>5, <2>1, <3>1
    <3>3. name'[e] = t
      BY <1>11, <3>1, <3>2
    <3>4. Resolve(t)' = e
      BY <1>15, <1>17, <3>3, ResolvedNext
    <3> QED BY <1>1, <3>1, <3>4
  <2>2. r.pc \in DroppingPcs /\ at[k].pc \notin LoginPcs
    BY <1>1, <1>3 DEF DroppingPcs, LoginPcs
  <2> QED BY <1>0, <1>1, <1>3, <1>7, <1>9, <1>15, <2>1, <2>2, ResettingLogins
<1> QED BY <1>15, <1>16, <1>17, <1>18, <1>19, <1>20, <1>21 DEF ControlIInv, Common

-----------------------------------------------------------------------------
(* Turns, and the new_session tool                                          *)

\* A step of a turn that changes no name, no session and no slot.
LEMMA TurnStep ==
  ASSUME Common, Deferrals, Filing, LoginsKept,
         NEW c \in Conversations, NEW r \in Calls, Moved(c, r), Watched(c, r), at[c].pc \in TurnPcs,
         r.pc \in TurnPcs, r.tok = at[c].tok, r.sess = at[c].sess, r.login = at[c].login, r.conv = at[c].conv,
         UNCHANGED <<file, unsaved, loginVars, resets, names, sessions, minted, queued>>,
         mem' \in [Conversations -> [id : Models \cup {None}, applied : Sessions \cup {0}]],
         model' \in [Sessions -> Models \cup {None}],
         \A d \in Conversations : mem'[d].id = mem[d].id /\ (d # c => mem'[d] = mem[d])
  PROVE  Common' /\ Deferrals' /\ Filing' /\ LoginsKept'
<1> USE DEF loginVars, resets, names, sessions
<1>0. ControlTyped /\ Roles /\ Names
  BY DEF Common
<1>1. /\ c \in Actors /\ at' \in [Actors -> Calls] /\ at'[c] = r
      /\ \A j \in Actors : j # c => at'[j] = at[j]
  BY DEF Moved, Actors
<1>2. ControlTyped'
  BY <1>0, <1>1 DEF ControlTyped, Watched
<1>3. Fitting(c, r)
  <2>1. c <= minted.conv /\ at[c].sess # 0 /\ at[c].tok = called[c] /\ r.tok # None
    BY <1>0, <1>1, BusyIsMade, ControlBounds DEF Roles, Names, TurnPcs
  <2>2. at[c].conv <= minted.conv
    BY <1>0, <1>1 DEF Names
  <2> QED BY <2>1, <2>2, ControlBounds DEF Fitting, TurnPcs
<1>4. Roles'
  BY <1>0, <1>1, <1>3, MoveRoles
<1>5. Names'
  <2>1. \A d \in Conversations : d > minted.conv => d # c
    BY <1>0 DEF Names, TurnPcs
  <2> QED BY <1>0, <1>1, <1>3, <2>1, MoveNames
<1>6. Deferrals'
  <2>1. \A d \in Conversations : d # c => at'[d] = at[d]
    BY <1>1 DEF Actors
  <2> QED BY <1>0, <1>1, <2>1, DeferralsSame
<1>7. Filing'
  <2>1. \A j \in Actors :
            \/ at[j].pc \notin SavePcs /\ at'[j].pc \notin SavePcs
            \/ /\ at'[j].pc = at[j].pc /\ at'[j].conv = at[j].conv /\ at'[j].to = at[j].to
               /\ at'[j].id = at[j].id
    BY <1>1 DEF TurnPcs, SavePcs
  <2>2. minted.conv \in Nat
    BY <1>0 DEF ControlTyped
  <2> QED BY <1>0, <1>1, <2>1, <2>2, FilingSame
<1>8. LoginsKept'
  <2>1. \A t \in Tokens : Keeps(t)
    BY DEF Keeps, Current, Resolve
  <2> QED BY <1>0, <1>1, <2>1, MoveLogins DEF LoginPcs, DroppingPcs, TurnPcs
<1> QED BY <1>2, <1>4, <1>5, <1>6, <1>7, <1>8 DEF Common

\* A turn looks at the choice and at the session it was pushed to.
LEMMA PendingStep ==
  ASSUME ControlIInv, NEW c \in Conversations, Pending(c)
  PROVE  ControlIInv'
<1> USE DEF choices, world
<1>0. ControlTyped /\ Roles /\ Names /\ Deferrals /\ PushedChoices /\ Filing /\ LoginsKept
  BY DEF ControlIInv, Common
<1> DEFINE p == IF mem[c].id = None \/ mem[c].applied = at[c].sess THEN "run" ELSE "push"
           r == [at[c] EXCEPT !.changed = FALSE, !.id = mem[c].id, !.pc = p]
<1>1. /\ at[c] \in Calls /\ at[c].pc = "apply" /\ c \in Actors /\ at[c].sess # 0
      /\ mem[c].id \in Models \cup {None}
      /\ Go(c, r) /\ UNCHANGED <<choices, loginVars, resets, world>>
  BY <1>0 DEF Pending, Actors, ControlTyped, Roles, TurnPcs
<1>2. /\ p \in {"run", "push"} /\ p \in Pcs
      /\ p = "push" => mem[c].id # None /\ mem[c].applied # at[c].sess
      /\ p = "run" => mem[c].id = None \/ mem[c].applied = at[c].sess
  BY DEF Pcs, TurnPcs
<1> HIDE DEF p
<1>3. /\ r \in Calls /\ r.pc = p /\ r.id = mem[c].id /\ r.tok = at[c].tok /\ r.sess = at[c].sess
      /\ r.login = at[c].login /\ r.conv = at[c].conv
  BY <1>1, <1>2 DEF Calls
<1> HIDE DEF r
<1>4. Moved(c, r) /\ Watched(c, r)
  BY <1>0, <1>1, <1>3, Goes
<1>5. Common' /\ Deferrals' /\ Filing' /\ LoginsKept'
  <2>1. r.pc \in TurnPcs /\ at[c].pc \in TurnPcs
    BY <1>1, <1>2, <1>3 DEF TurnPcs
  <2> QED BY <1>0, <1>1, <1>3, <1>4, <2>1, TurnStep DEF ControlTyped, Common
<1>6. at'[c] = r /\ \A d \in Conversations : d # c => at'[d] = at[d]
  BY <1>4 DEF Moved, Actors
<1>7. PushedChoices'
  <2>1. ASSUME mem[c].applied = at[c].sess, mem[c].id # None PROVE model[at[c].sess] = mem[c].id
    BY <1>0, <1>1, <2>1 DEF PushedChoices, ChoiceReachesAgent
  <2>2. ChoiceReachesAgent'
    BY <1>0, <1>1, <1>2, <1>3, <1>6, <2>1 DEF PushedChoices, ChoiceReachesAgent
  <2>3. \A d \in Conversations, s \in Sessions : Uses(d, s)' => Uses(d, s)
    BY <1>1, <1>3, <1>6 DEF Uses, TurnPcs, sessions, world
  <2>4. OwnSessions'
    BY <1>0, <1>1, <2>3 DEF PushedChoices, OwnSessions
  <2>5. Pushing'
    BY <1>0, <1>1, <1>2, <1>3, <1>6 DEF PushedChoices, Pushing
  <2> QED BY <2>2, <2>4, <2>5 DEF PushedChoices
<1> QED BY <1>5, <1>7 DEF ControlIInv

\* The session it pushes to is no other turn's, and marked by none.
LEMMA PushesStep ==
  ASSUME ControlIInv, NEW c \in Conversations, Pushes(c)
  PROVE  ControlIInv'
<1> USE DEF choices
<1>0. ControlTyped /\ Roles /\ Names /\ Deferrals /\ PushedChoices /\ Filing /\ LoginsKept
  BY DEF ControlIInv, Common
<1>1. /\ at[c] \in Calls /\ at[c].pc = "push" /\ c \in Actors /\ at[c].sess \in Sessions
      /\ at[c].id \in Models \cup {None} /\ at[c].id # None
      /\ at[c].changed \/ mem[c].id \in {at[c].id, None}
      /\ mem[c].applied # at[c].sess
      /\ UNCHANGED <<choices, loginVars, resets, names, sessions, minted, queued>>
  BY <1>0 DEF Pushes, Actors, ControlTyped, Roles, TurnPcs, Calls, PushedChoices, Pushing
<1>2. CASE model' = [model EXCEPT ![at[c].sess] = at[c].id] /\ Go(c, [at[c] EXCEPT !.pc = "mark"])
  <2> DEFINE r == [at[c] EXCEPT !.pc = "mark"]
  <2>1. /\ r \in Calls /\ r.pc = "mark" /\ r.tok = at[c].tok /\ r.sess = at[c].sess
             /\ r.login = at[c].login /\ r.conv = at[c].conv
        /\ r.id = at[c].id /\ r.changed = at[c].changed
    BY <1>1 DEF Calls, Pcs, TurnPcs
  <2>2. Moved(c, r) /\ Watched(c, r)
    BY <1>0, <1>1, <1>2, <2>1, Goes
  <2> HIDE DEF r
  <2>3. /\ at'[c] = r /\ \A d \in Conversations : d # c => at'[d] = at[d]
        /\ model' \in [Sessions -> Models \cup {None}] /\ model'[at[c].sess] = at[c].id
        /\ \A s \in Sessions : s # at[c].sess => model'[s] = model[s]
    BY <1>0, <1>1, <1>2, <2>2 DEF Moved, Actors, ControlTyped
  <2>4. Common' /\ Deferrals' /\ Filing' /\ LoginsKept'
    <3>1. r.pc \in TurnPcs /\ at[c].pc \in TurnPcs
      BY <1>1, <2>1 DEF TurnPcs
    <3> QED BY <1>0, <1>1, <2>1, <2>2, <2>3, <3>1, TurnStep DEF ControlTyped, Common
  <2>5. PushedChoices'
    <3>1. Uses(c, at[c].sess) /\ \A d \in Conversations : Uses(d, at[c].sess) => d = c
      BY <1>0, <1>1, ControlBounds DEF Uses, TurnPcs, PushedChoices, OwnSessions
    <3>2. \A d \in Conversations : mem[d].applied # at[c].sess
      BY <1>1, <3>1, ControlBounds DEF Uses
    <3>3. \A d \in Conversations : d # c /\ at[d].pc \in TurnPcs => at[d].sess # at[c].sess
          /\ at[d].sess \in Sessions
      BY <1>0, <1>1, <3>1, ControlBounds DEF Uses, ControlTyped, Calls, Roles, Actors
    <3>4. ChoiceReachesAgent'
      BY <1>0, <1>1, <2>1, <2>3, <3>2, <3>3 DEF PushedChoices, ChoiceReachesAgent, ControlTyped, TurnPcs
    <3>5. \A d \in Conversations, s \in Sessions : Uses(d, s)' => Uses(d, s)
      BY <1>1, <2>1, <2>3 DEF Uses, TurnPcs, sessions, world
    <3>6. OwnSessions'
      BY <1>0, <1>1, <3>5 DEF PushedChoices, OwnSessions
    <3>7. Pushing'
      BY <1>0, <1>1, <2>1, <2>3, <3>3 DEF PushedChoices, Pushing, TurnPcs
    <3> QED BY <3>4, <3>6, <3>7 DEF PushedChoices
  <2> QED BY <2>4, <2>5 DEF ControlIInv
<1>3. CASE model' = model /\ Go(c, [at[c] EXCEPT !.pc = "run", !.changed = TRUE])
  <2> DEFINE r == [at[c] EXCEPT !.pc = "run", !.changed = TRUE]
  <2>1. /\ r \in Calls /\ r.pc = "run" /\ r.tok = at[c].tok /\ r.sess = at[c].sess
             /\ r.login = at[c].login /\ r.conv = at[c].conv
        /\ r.changed = TRUE
    BY <1>1 DEF Calls, Pcs, TurnPcs
  <2>2. Moved(c, r) /\ Watched(c, r)
    BY <1>0, <1>1, <1>3, <2>1, Goes
  <2> HIDE DEF r
  <2>3. at'[c] = r /\ \A d \in Conversations : d # c => at'[d] = at[d]
    BY <2>2 DEF Moved, Actors
  <2>4. Common' /\ Deferrals' /\ Filing' /\ LoginsKept'
    <3>1. r.pc \in TurnPcs /\ at[c].pc \in TurnPcs
      BY <1>1, <2>1 DEF TurnPcs
    <3> QED BY <1>0, <1>1, <1>3, <2>1, <2>2, <3>1, TurnStep DEF ControlTyped, Common
  <2>5. PushedChoices'
    <3>1. ChoiceReachesAgent'
      BY <1>0, <1>1, <1>3, <2>1, <2>3 DEF PushedChoices, ChoiceReachesAgent
    <3>2. \A d \in Conversations, s \in Sessions : Uses(d, s)' => Uses(d, s)
      BY <1>1, <2>1, <2>3 DEF Uses, TurnPcs, sessions, world
    <3>3. OwnSessions'
      BY <1>0, <1>1, <3>2 DEF PushedChoices, OwnSessions
    <3>4. Pushing'
      BY <1>0, <1>1, <1>3, <2>1, <2>3 DEF PushedChoices, Pushing
    <3> QED BY <3>1, <3>3, <3>4 DEF PushedChoices
  <2> QED BY <2>4, <2>5 DEF ControlIInv
<1> QED BY <1>2, <1>3 DEF Pushes

\* Only a choice that is still the pushed one is marked.
LEMMA MarkAppliedStep ==
  ASSUME ControlIInv, NEW c \in Conversations, MarkApplied(c)
  PROVE  ControlIInv'
<1> USE DEF world
<1>0. ControlTyped /\ Roles /\ Names /\ Deferrals /\ PushedChoices /\ Filing /\ LoginsKept
  BY DEF ControlIInv, Common
<1> DEFINE r == [at[c] EXCEPT !.pc = "run"]
<1>1. /\ at[c] \in Calls /\ at[c].pc = "mark" /\ c \in Actors /\ at[c].sess \in Sessions
      /\ at[c].id # None /\ model[at[c].sess] = at[c].id
      /\ at[c].changed \/ mem[c].id \in {at[c].id, None}
      /\ Go(c, r) /\ UNCHANGED <<file, unsaved, loginVars, resets, world>>
  BY <1>0 DEF MarkApplied, Actors, ControlTyped, Roles, TurnPcs, Calls, PushedChoices, Pushing
<1>2. /\ r \in Calls /\ r.pc = "run" /\ r.tok = at[c].tok /\ r.sess = at[c].sess
           /\ r.login = at[c].login /\ r.conv = at[c].conv
      /\ r.changed = at[c].changed
  BY <1>1 DEF Calls, Pcs, TurnPcs
<1> HIDE DEF r
<1>3. Moved(c, r) /\ Watched(c, r)
  BY <1>0, <1>1, <1>2, Goes
<1>4. at'[c] = r /\ \A d \in Conversations : d # c => at'[d] = at[d]
  BY <1>3 DEF Moved, Actors
<1>5. /\ mem' \in [Conversations -> [id : Models \cup {None}, applied : Sessions \cup {0}]]
      /\ \A d \in Conversations : mem'[d].id = mem[d].id /\ (d # c => mem'[d] = mem[d])
      /\ mem'[c] = mem[c] \/ (mem'[c].applied = at[c].sess /\ mem[c].id = at[c].id)
  <2>1. mem \in [Conversations -> [id : Models \cup {None}, applied : Sessions \cup {0}]]
    BY <1>0 DEF ControlTyped
  <2>2. CASE mem[c].id = at[c].id
    <3> DEFINE g == [mem[c] EXCEPT !.applied = at[c].sess]
    <3>1. /\ g \in [id : Models \cup {None}, applied : Sessions \cup {0}]
          /\ g.id = mem[c].id /\ g.applied = at[c].sess
      BY <1>1, <2>1
    <3>2. mem' = [mem EXCEPT ![c] = g]
      BY <2>2 DEF MarkApplied
    <3> HIDE DEF g
    <3> QED BY <2>1, <2>2, <3>1, <3>2
  <2>3. CASE mem[c].id # at[c].id
    BY <2>1, <2>3 DEF MarkApplied
  <2> QED BY <2>2, <2>3
<1>6. Common' /\ Deferrals' /\ Filing' /\ LoginsKept'
  <2>1. r.pc \in TurnPcs /\ at[c].pc \in TurnPcs
    BY <1>1, <1>2 DEF TurnPcs
  <2> QED BY <1>0, <1>1, <1>2, <1>3, <1>5, <2>1, TurnStep DEF ControlTyped, Common
<1>7. PushedChoices'
  <2>1. ChoiceReachesAgent'
    BY <1>0, <1>1, <1>2, <1>4, <1>5 DEF PushedChoices, ChoiceReachesAgent
  <2>2. \A d \in Conversations, s \in Sessions : Uses(d, s)' => Uses(d, s)
    BY <1>1, <1>2, <1>4, <1>5 DEF Uses, TurnPcs, sessions, world
  <2>3. OwnSessions'
    BY <1>0, <1>1, <2>2 DEF PushedChoices, OwnSessions
  <2>4. Pushing'
    BY <1>0, <1>1, <1>2, <1>4, <1>5 DEF PushedChoices, Pushing
  <2> QED BY <2>1, <2>3, <2>4 DEF PushedChoices
<1> QED BY <1>6, <1>7 DEF ControlIInv

\* A new session has a number nobody has used; one that is resumed was the
\* conversation's.
LEMMA TurnBeginsStep ==
  ASSUME ControlIInv, NEW c \in Conversations, TurnBegins(c)
  PROVE  ControlIInv'
<1> USE DEF choices, loginVars, names
<1>0. ControlTyped /\ Roles /\ Names /\ Deferrals /\ PushedChoices /\ Filing /\ LoginsKept
  BY DEF ControlIInv, Common
<1>1. /\ at[c] \in Calls /\ at[c].pc = "idle" /\ c \in Actors /\ at \in [Actors -> Calls]
      /\ c <= minted.conv /\ called[c] \in Tokens /\ at[c].login = 0
      /\ queued' = [queued EXCEPT ![c] = @ - 1] /\ queued[c] > 0
      /\ mixed' = IF name[c] = None THEN mixed \cup {called[c]} ELSE mixed
      /\ UNCHANGED <<choices, loginVars, deferred, tool, asked, names, lost, model, budget>>
  <2>1. at[c].pc = "idle" /\ queued[c] > 0 /\ c \in Actors
    BY DEF TurnBegins, Actors
  <2>2. /\ at[c] \in Calls /\ at \in [Actors -> Calls] /\ c <= minted.conv /\ called[c] \in Tokens
        /\ at[c].login = 0
    BY <1>0, <2>1, BusyIsMade DEF ControlTyped, LoginsKept, Holding, InHand, HandPcs
  <2> QED BY <2>1, <2>2 DEF TurnBegins
<1>2. PICK s \in IF live[c] # 0 THEN {live[c]} ELSE {gone[c], minted.sess + 1} \cap Sessions :
        /\ live' = [live EXCEPT ![c] = s] /\ gone' = [gone EXCEPT ![c] = 0]
        /\ minted' = [minted EXCEPT !.sess = IF s > @ THEN s ELSE @]
        /\ Go(c, [Resting EXCEPT !.pc = "apply", !.tok = called[c], !.conv = c, !.sess = s])
  BY DEF TurnBegins
<1>3. /\ minted.sess \in Nat /\ \A e \in Sessions : e \in Nat /\ e # 0
      /\ s \in Sessions /\ (live[c] # 0 => s = live[c])
      /\ s \in {live[c], gone[c]} \/ s > minted.sess
  <2>1. minted.sess \in Nat /\ \A e \in Sessions : e \in Nat /\ e # 0
    BY <1>0, ControlBounds DEF ControlTyped, Sessions
  <2>2. live[c] \in Sessions \cup {0}
    BY <1>0 DEF ControlTyped
  <2> QED BY <1>2, <2>1, <2>2
<1> DEFINE r == [Resting EXCEPT !.pc = "apply", !.tok = called[c], !.conv = c, !.sess = s]
<1>4. /\ r \in Calls /\ r.pc = "apply" /\ r.tok = called[c] /\ r.login = 0 /\ r.sess = s
      /\ r.conv = c
  <2>1. "apply" \in Pcs
    BY DEF Pcs, TurnPcs
  <2> QED BY <1>1, <1>3, <2>1, RestingCall DEF Calls
<1>5. Go(c, r)
  BY <1>2
<1> HIDE DEF r
<1>6. Moved(c, r) /\ Watched(c, r)
  BY <1>0, <1>1, <1>4, <1>5, Goes
<1>7. /\ at' \in [Actors -> Calls] /\ at'[c] = r /\ \A j \in Actors : j # c => at'[j] = at[j]
      /\ \A d \in Conversations : d # c => at'[d] = at[d]
  BY <1>6 DEF Moved, Actors
<1>8. /\ live' \in [Conversations -> Sessions \cup {0}] /\ live'[c] = s
      /\ \A d \in Conversations : d # c => live'[d] = live[d] /\ gone'[d] = gone[d]
      /\ gone' \in [Conversations -> Sessions \cup {0}] /\ gone'[c] = 0
      /\ queued' \in [Conversations -> Nat]
      /\ \A d \in Conversations : d # c => queued'[d] = queued[d]
  BY <1>0, <1>1, <1>2, <1>3 DEF ControlTyped
<1>9. /\ minted' \in [sess : 0 .. MaxSessions, conv : 0 .. MaxConvs, login : 0 .. MaxLogins]
      /\ minted'.conv = minted.conv /\ minted'.login = minted.login
      /\ minted.sess <= minted'.sess /\ s <= minted'.sess /\ minted'.sess \in Nat
  <2> DEFINE n == IF s > minted.sess THEN s ELSE minted.sess
  <2>1. n \in 0 .. MaxSessions /\ minted.sess <= n /\ s <= n /\ n \in Nat
    BY <1>0, <1>3, ControlBounds DEF ControlTyped, Sessions
  <2>2. minted' = [minted EXCEPT !.sess = n]
    BY <1>2
  <2> HIDE DEF n
  <2> QED BY <1>0, <2>1, <2>2 DEF ControlTyped
<1>10. mixed \subseteq mixed' /\ mixed' \subseteq Tokens /\ (called[c] \notin mixed' => name[c] # None)
  BY <1>0, <1>1 DEF ControlTyped
<1>11. ControlTyped'
  BY <1>0, <1>1, <1>6, <1>7, <1>8, <1>9, <1>10 DEF ControlTyped, Watched
<1>12. Roles'
  <2>1. Fitting(c, r)
    BY <1>1, <1>3, <1>4, ControlBounds DEF Fitting, TurnPcs
  <2> QED BY <1>0, <1>1, <1>4, <1>6, <2>1, MoveRoles
<1>13. Names'
  <2>1. \A d \in Conversations : d > minted'.conv => d # c
    BY <1>0, <1>1, <1>9, ControlBounds DEF ControlTyped
  <2>2. \A j \in Actors : at'[j].conv <= minted'.conv
    BY <1>0, <1>1, <1>4, <1>7, <1>9 DEF Names
  <2> QED BY <1>0, <1>1, <1>4, <1>7, <1>8, <1>9, <2>1, <2>2 DEF Names
<1>14. Deferrals'
  <2>1. \A t \in deferred \ mixed' : \E e \in Conversations : name[e] = t
    BY <1>0, <1>10 DEF Deferrals
  <2>2. DeferredByOwner'
    BY <1>0, <1>1, <1>10 DEF Deferrals, DeferredByOwner
  <2>3. ASSUME NEW d \in Conversations PROVE OwnTurn(d)'
    <3>1. CASE d = c
      BY <1>0, <1>1, <1>4, <1>7, <1>10, <3>1 DEF OwnTurn, Names
    <3>2. CASE d # c
      BY <1>0, <1>1, <1>7, <1>10, <3>2 DEF OwnTurn, Deferrals
    <3> QED BY <3>1, <3>2
  <2> QED BY <1>1, <2>1, <2>2, <2>3 DEF Deferrals
<1>15. PushedChoices'
  <2>1. ChoiceReachesAgent'
    BY <1>0, <1>1, <1>4, <1>7 DEF PushedChoices, ChoiceReachesAgent
  <2>2. \A d \in Conversations, e \in Sessions : d # c => (Uses(d, e)' <=> Uses(d, e))
    BY <1>1, <1>7, <1>8 DEF Uses
  <2>3. \A e \in Sessions : Uses(c, e)' => Uses(c, e) \/ e = s
    BY <1>1, <1>3, <1>4, <1>7, <1>8 DEF Uses
  <2>4. Uses(c, s) \/ \A d \in Conversations : ~Uses(d, s)
    <3>1. CASE s \in {live[c], gone[c]}
      BY <1>3, <3>1 DEF Uses
    <3>2. CASE s > minted.sess
      BY <1>0, <1>3, <3>2 DEF PushedChoices, OwnSessions
    <3> QED BY <1>3, <3>1, <3>2
  <2>5. ASSUME NEW d \in Conversations, NEW f \in Conversations, NEW e \in Sessions, Uses(d, e)',
        Uses(f, e)'
        PROVE  d = f
    <3>1. CASE d # c /\ f # c
      BY <1>0, <2>2, <2>5, <3>1 DEF PushedChoices, OwnSessions
    <3>2. CASE d = c /\ f # c
      <4>1. Uses(f, e) /\ (Uses(c, e) \/ e = s)
        BY <2>2, <2>3, <2>5, <3>2
      <4> QED BY <1>0, <2>4, <3>2, <4>1 DEF PushedChoices, OwnSessions
    <3>3. CASE d # c /\ f = c
      <4>1. Uses(d, e) /\ (Uses(c, e) \/ e = s)
        BY <2>2, <2>3, <2>5, <3>3
      <4> QED BY <1>0, <2>4, <3>3, <4>1 DEF PushedChoices, OwnSessions
    <3> QED BY <3>1, <3>2, <3>3
  <2>6. ASSUME NEW d \in Conversations, NEW e \in Sessions, Uses(d, e)'
        PROVE  e <= minted'.sess
    <3>1. Uses(d, e) \/ e = s
      BY <2>2, <2>3, <2>6
    <3>2. Uses(d, e) => e <= minted.sess
      BY <1>0 DEF PushedChoices, OwnSessions
    <3> QED BY <1>3, <1>9, <3>1, <3>2
  <2>7. OwnSessions'
    BY <2>5, <2>6 DEF OwnSessions
  <2>8. Pushing'
    BY <1>0, <1>1, <1>4, <1>7 DEF PushedChoices, Pushing
  <2> QED BY <2>1, <2>7, <2>8 DEF PushedChoices
<1>16. Filing'
  <2>1. \A j \in Actors :
            \/ at[j].pc \notin SavePcs /\ at'[j].pc \notin SavePcs
            \/ /\ at'[j].pc = at[j].pc /\ at'[j].conv = at[j].conv /\ at'[j].to = at[j].to
               /\ at'[j].id = at[j].id
    BY <1>1, <1>4, <1>7 DEF SavePcs
  <2>2. minted.conv \in Nat
    BY <1>0 DEF ControlTyped
  <2> QED BY <1>0, <1>1, <1>7, <1>9, <2>1, <2>2, FilingSame
<1>17. LoginsKept'
  <2>1. ASSUME NEW t \in Tokens PROVE Keeps(t)
    <3> SUFFICES ASSUME NEW e \in Sessions, Resolve(t) # 0, live[Resolve(t)] = e
                 PROVE  Current(t, e)'
      BY DEF Keeps, Current
    <3>1. Resolve(t)' = Resolve(t)
      BY <1>1 DEF Resolve
    <3>2. Resolve(t) \in Conversations
      BY <1>0, Resolved
    <3>3. live'[Resolve(t)] = e
      BY <1>3, <1>8, <3>2
    <3> QED BY <3>1, <3>3 DEF Current
  <2> QED BY <1>0, <1>1, <1>4, <1>6, <1>9, <2>1, MoveLogins DEF LoginPcs, DroppingPcs
<1> QED BY <1>11, <1>12, <1>13, <1>14, <1>15, <1>16, <1>17 DEF ControlIInv, Common

\* An idle session goes, and what it leaves is lost.
LEMMA CollectStep ==
  ASSUME ControlIInv, NEW c \in Conversations, Collect(c)
  PROVE  ControlIInv'
<1> USE DEF choices, loginVars, resets, names
<1>0. ControlTyped /\ Roles /\ Names /\ Deferrals /\ PushedChoices /\ Filing /\ LoginsKept
  BY DEF ControlIInv, Common
<1>1. /\ live[c] # 0 /\ live' = [live EXCEPT ![c] = 0] /\ gone' = [gone EXCEPT ![c] = live[c]]
      /\ lost' = lost \cup {live[c]}
      /\ UNCHANGED <<choices, loginVars, resets, names, model, minted, queued, at, torn>>
  BY DEF Collect
<1>2. /\ live' \in [Conversations -> Sessions \cup {0}] /\ gone' \in [Conversations -> Sessions \cup {0}]
      /\ lost' \subseteq Sessions /\ c <= minted.conv
      /\ live'[c] = 0 /\ gone'[c] = live[c]
      /\ \A d \in Conversations : d # c => live'[d] = live[d] /\ gone'[d] = gone[d]
  BY <1>0, <1>1, BusyIsMade DEF ControlTyped
<1>3. ControlTyped' /\ Roles'
  BY <1>0, <1>1, <1>2 DEF ControlTyped, Roles
<1>4. Names'
  <2>1. \A d \in Conversations : d > minted.conv => d # c
    BY <1>0, <1>2, ControlBounds DEF ControlTyped
  <2> QED BY <1>0, <1>1, <1>2, <2>1 DEF Names
<1>5. Deferrals'
  BY <1>0, <1>1, DeferralsSame
<1>6. PushedChoices'
  BY <1>0, <1>1, <1>2, ChoicesSame
<1>7. Filing'
  <2>1. at' \in [Actors -> Calls] /\ minted.conv \in Nat
    BY <1>0, <1>1 DEF ControlTyped
  <2> QED BY <1>0, <1>1, <2>1, FilingSame
<1>8. LoginsKept'
  <2>1. ASSUME NEW t \in Tokens PROVE Keeps(t)
    <3> SUFFICES ASSUME NEW e \in Sessions, Resolve(t) # 0, live[Resolve(t)] = e
                 PROVE  Current(t, e)' \/ e \in lost'
      BY DEF Keeps, Current
    <3>1. Resolve(t)' = Resolve(t)
      BY <1>1 DEF Resolve
    <3>2. Resolve(t) \in Conversations
      BY <1>0, Resolved
    <3>3. CASE Resolve(t) = c
      BY <1>1, <3>3
    <3>4. CASE Resolve(t) # c
      BY <1>2, <3>1, <3>2, <3>4 DEF Current
    <3> QED BY <3>3, <3>4
  <2>2. DOMAIN at' = Actors
    BY <1>0, <1>1 DEF ControlTyped
  <2> QED BY <1>0, <1>1, <2>1, <2>2, LoginsSame
<1> QED BY <1>3, <1>4, <1>5, <1>6, <1>7, <1>8 DEF ControlIInv, Common

LEMMA CutShortStep ==
  ASSUME ControlIInv, NEW c \in Conversations, CutShort(c)
  PROVE  ControlIInv'
BY TurnIsOver DEF CutShort, InTurn, TurnPcs

\* Steps of the new_session tool, which leave the goroutines and all else alone.
LEMMA ToolStep ==
  ASSUME ControlIInv, UNCHANGED <<choices, loginVars, world, at, torn>>,
         tool' \in [Conversations -> Tokens \cup {None}], deferred' \subseteq Tokens,
         asked' \subseteq Conversations, mixed' \subseteq Tokens,
         \A c \in Conversations : c > minted.conv => tool'[c] = None /\ c \notin asked',
         Deferrals'
  PROVE  ControlIInv'
<1> USE DEF choices, loginVars, world, names, sessions
<1>0. ControlTyped /\ Roles /\ Names /\ PushedChoices /\ Filing /\ LoginsKept
  BY DEF ControlIInv, Common
<1>1. ControlTyped'
  BY <1>0 DEF ControlTyped
<1>2. Roles' /\ Names'
  BY <1>0 DEF Roles, Names
<1>3. PushedChoices'
  BY <1>0, ChoicesSame
<1>4. Filing'
  <2>1. at' \in [Actors -> Calls] /\ minted.conv \in Nat
    BY <1>0 DEF ControlTyped
  <2> QED BY <1>0, <2>1, FilingSame
<1>5. LoginsKept'
  <2>1. \A t \in Tokens : Keeps(t)
    BY DEF Keeps, Current, Resolve
  <2>2. DOMAIN at' = Actors
    BY <1>0 DEF ControlTyped
  <2> QED BY <1>0, <2>1, <2>2, LoginsSame
<1> QED BY <1>1, <1>2, <1>3, <1>4, <1>5 DEF ControlIInv, Common

\* The tool finds the name of its conversation.
LEMMA ToolCalledStep ==
  ASSUME ControlIInv, NEW c \in Conversations, ToolCalled(c)
  PROVE  ControlIInv'
<1>0. ControlTyped /\ Names /\ Deferrals
  BY DEF ControlIInv, Common
<1>1. /\ name[c] # None /\ tool' = [tool EXCEPT ![c] = name[c]]
      /\ UNCHANGED <<choices, loginVars, deferred, asked, mixed, world, at, torn>>
  BY DEF ToolCalled
<1>2. \A d \in Conversations : d > minted.conv => tool'[d] = None /\ d \notin asked'
  BY <1>0, <1>1 DEF ControlTyped, Names
<1>3. Deferrals'
  BY <1>0, <1>1, DeferralsSame DEF world, names
<1> QED BY <1>0, <1>1, <1>2, <1>3, ToolStep DEF ControlTyped

\* A name that changed since is mixed with the one the tool found.
LEMMA NewSessionToolStep ==
  ASSUME ControlIInv, NEW c \in Conversations, NewSessionTool(c)
  PROVE  ControlIInv'
<1>0. ControlTyped /\ Names /\ Deferrals
  BY DEF ControlIInv, Common
<1>1. /\ tool[c] # None /\ tool' = [tool EXCEPT ![c] = None] /\ tool[c] \in Tokens
      /\ deferred' = deferred \cup {tool[c]} /\ asked' = asked \cup {c}
      /\ mixed' = IF name[c] # tool[c] THEN mixed \cup ({name[c], tool[c]} \ {None}) ELSE mixed
      /\ UNCHANGED <<choices, loginVars, world, at, torn>>
  BY <1>0 DEF NewSessionTool, ControlTyped
<1>2. \A d \in Conversations : d > minted.conv => tool'[d] = None /\ d \notin asked'
  BY <1>0, <1>1 DEF ControlTyped, Names
<1>3. /\ mixed \subseteq mixed' /\ mixed' \subseteq Tokens /\ name' = name
      /\ name[c] # tool[c] => tool[c] \in mixed' /\ name[c] \in mixed' \cup {None}
  BY <1>0, <1>1 DEF ControlTyped, world, names
<1>4. Deferrals'
  <2>1. \A t \in deferred' \ mixed' : \E d \in Conversations : name'[d] = t
    BY <1>0, <1>1, <1>3 DEF Deferrals
  <2>2. ASSUME NEW d \in Conversations, name[d] \notin mixed' \cup {None}
        PROVE  d \in asked' <=> name[d] \in deferred'
    <3>1. d \in asked <=> name[d] \in deferred
      BY <1>0, <1>3, <2>2 DEF Deferrals, DeferredByOwner
    <3>2. d # c => name[d] # tool[c]
      BY <1>0, <1>3, <2>2 DEF Names
    <3>3. d = c => name[d] = tool[c]
      BY <1>3, <2>2
    <3> QED BY <1>1, <3>1, <3>2, <3>3
  <2>3. \A d \in Conversations : OwnTurn(d)'
    BY <1>0, <1>1, <1>3 DEF Deferrals, OwnTurn
  <2> QED BY <1>3, <2>1, <2>2, <2>3 DEF Deferrals, DeferredByOwner
<1>5. /\ tool' \in [Conversations -> Tokens \cup {None}] /\ deferred' \subseteq Tokens
      /\ asked' \subseteq Conversations
  BY <1>0, <1>1 DEF ControlTyped
<1> QED BY <1>1, <1>2, <1>3, <1>4, <1>5, ToolStep

\* The turn takes up what was deferred under its token.
LEMMA EndTurnStep ==
  ASSUME ControlIInv, NEW c \in Conversations, EndTurn(c)
  PROVE  ControlIInv'
<1> USE DEF choices, loginVars, world, names, sessions
<1>0. ControlTyped /\ Roles /\ Names /\ Deferrals /\ PushedChoices /\ Filing /\ LoginsKept
  BY DEF ControlIInv, Common
<1>1. /\ at[c] \in Calls /\ at[c].pc = "run" /\ c \in Actors /\ at[c].tok \in Tokens
      /\ at[c].login = 0 /\ at[c].tok = called[c] /\ c <= minted.conv
      /\ UNCHANGED <<choices, loginVars, tool, mixed, world>> /\ asked' = asked \ {c}
  <2>1. at[c].pc = "run" /\ c \in Actors
    BY DEF EndTurn, Actors
  <2>2. /\ at[c] \in Calls /\ at[c].tok \in Tokens /\ at[c].login = 0 /\ at[c].tok = called[c]
        /\ c <= minted.conv
    BY <1>0, <2>1, BusyIsMade DEF ControlTyped, Roles, Names, Calls, LoginsKept, Holding, InHand,
        HandPcs, TurnPcs
  <2> QED BY <2>1, <2>2 DEF EndTurn
<1> PICK T \in Tokens : T = at[c].tok
  BY <1>1
<1>2. PICK r \in Calls :
         /\ Go(c, r) /\ r.pc \in {"reset", "idle"} /\ r.login = 0 /\ r.conv = 0
         /\ r.pc = "reset" => r.tok = T
  <2>1. /\ Call("reset", T, 0) \in Calls /\ Call("reset", T, 0).pc = "reset"
        /\ Call("reset", T, 0).tok = T /\ Call("reset", T, 0).login = 0
        /\ Call("reset", T, 0).conv = 0
    BY LoginCall DEF Pcs
  <2>2. Go(c, Call("reset", T, 0)) \/ Go(c, Resting)
    BY DEF EndTurn, Return
  <2> QED BY <2>1, <2>2, RestingCall
<1>3. Moved(c, r) /\ Watched(c, r)
  BY <1>0, <1>1, <1>2, Goes
<1>4. /\ at' \in [Actors -> Calls] /\ at'[c] = r /\ \A j \in Actors : j # c => at'[j] = at[j]
      /\ \A d \in Conversations : d # c => at'[d] = at[d]
  BY <1>3 DEF Moved, Actors
<1>5. deferred' = deferred \ {T} /\ deferred' \subseteq Tokens /\ asked' \subseteq asked
  BY <1>0, <1>1 DEF ControlTyped, EndTurn
<1>6. ControlTyped'
  BY <1>0, <1>1, <1>3, <1>4, <1>5 DEF ControlTyped, Watched
<1>7. Fitting(c, r)
  BY <1>0, <1>1, <1>2, ControlBounds DEF Fitting, TurnPcs, ControlTyped
<1>8. Roles' /\ Names'
  BY <1>0, <1>1, <1>3, <1>5, <1>7, MoveRoles, MoveNames
<1>9. Deferrals'
  <2>1. \A t \in deferred' \ mixed' : \E d \in Conversations : name'[d] = t
    BY <1>0, <1>1, <1>5 DEF Deferrals
  <2>2. T \notin mixed => name[c] = T
    BY <1>0, <1>1 DEF Deferrals, OwnTurn, TurnPcs
  <2>3. ASSUME NEW d \in Conversations, name[d] \notin mixed \cup {None}
        PROVE  d \in asked' <=> name[d] \in deferred'
    <3>1. d \in asked <=> name[d] \in deferred
      BY <1>0, <2>3 DEF Deferrals, DeferredByOwner
    <3>2. d = c <=> name[d] = T
      BY <1>0, <1>1, <2>2, <2>3 DEF Names
    <3> QED BY <1>1, <1>5, <3>1, <3>2
  <2>4. ASSUME NEW d \in Conversations PROVE OwnTurn(d)'
    <3>1. CASE d = c
      BY <1>1, <1>2, <1>4, <2>2, <3>1 DEF OwnTurn, TurnPcs
    <3>2. CASE d # c
      BY <1>0, <1>1, <1>4, <3>2 DEF OwnTurn, Deferrals
    <3> QED BY <3>1, <3>2
  <2> QED BY <1>1, <2>1, <2>3, <2>4 DEF Deferrals, DeferredByOwner
<1>10. PushedChoices'
  <2>1. \A e \in Conversations :
            \/ at'[e].pc \notin TurnPcs
            \/ /\ at'[e].pc = at[e].pc /\ at'[e].sess = at[e].sess /\ at'[e].id = at[e].id
               /\ at[e].changed => at'[e].changed
    BY <1>2, <1>4 DEF TurnPcs
  <2> QED BY <1>0, <1>1, <2>1, ChoicesSame
<1>11. Filing'
  <2>1. \A j \in Actors :
            \/ at[j].pc \notin SavePcs /\ at'[j].pc \notin SavePcs
            \/ /\ at'[j].pc = at[j].pc /\ at'[j].conv = at[j].conv /\ at'[j].to = at[j].to
               /\ at'[j].id = at[j].id
    BY <1>1, <1>2, <1>4 DEF SavePcs
  <2>2. minted.conv \in Nat
    BY <1>0 DEF ControlTyped
  <2> QED BY <1>0, <1>1, <1>4, <2>1, <2>2, FilingSame
<1>12. LoginsKept'
  <2>1. \A t \in Tokens : Keeps(t)
    BY <1>1 DEF Keeps, Current, Resolve
  <2> QED BY <1>0, <1>1, <1>2, <1>3, <2>1, MoveLogins DEF LoginPcs, DroppingPcs
<1> QED BY <1>6, <1>8, <1>9, <1>10, <1>11, <1>12 DEF ControlIInv, Common
\* A login that ends by itself stays in its slot.
LEMMA AgentEndsStep ==
  ASSUME ControlIInv, NEW l \in Logins, AgentEnds(l)
  PROVE  ControlIInv'
<1> USE DEF choices, resets, world, names, sessions
<1>1. /\ logins \in [Logins -> [st : LoginStates, sess : Sessions \cup {0}]]
      /\ logins' = [logins EXCEPT ![l].st = "alone"] /\ logins[l].st = "open"
      /\ UNCHANGED <<choices, pending, resets, world, at, torn>>
  BY DEF AgentEnds, ControlIInv, Common, ControlTyped
<1>2. /\ logins' \in [Logins -> [st : LoginStates, sess : Sessions \cup {0}]]
      /\ \A g \in Logins : logins'[g].sess = logins[g].sess
      /\ \A g \in Logins : g # l => logins'[g] = logins[g]
      /\ logins'[l].st = "alone"
  BY <1>1 DEF LoginStates
<1>3. Common'
  BY <1>1, <1>2 DEF ControlIInv, Common, ControlTyped, Roles, Names
<1>4. Deferrals'
  BY <1>1 DEF ControlIInv, Deferrals, DeferredByOwner, OwnTurn
<1>5. PushedChoices'
  <2>1. \A c \in Conversations, s \in Sessions : Uses(c, s)' <=> Uses(c, s)
    BY <1>1 DEF Uses
  <2> QED BY <1>1, <2>1 DEF ControlIInv, PushedChoices, ChoiceReachesAgent, OwnSessions, Pushing
<1>6. Filing'
  <2>1. \A c \in Conversations, k \in Actors : Saves(k, c)' <=> Saves(k, c)
    BY <1>1 DEF Saves
  <2>2. \A c \in Conversations : Saving(c)' <=> Saving(c)
    BY <1>1 DEF Saving
  <2> QED BY <1>1, <2>1, <2>2 DEF ControlIInv, Filing, FileIsChoice
<1>7. Holding'
  BY <1>1, <1>2 DEF ControlIInv, LoginsKept, Holding, OneSlot, Numbered, InHand, JustAsked,
        HasItAlone, Common, ControlTyped, Calls
<1>8. ASSUME ~torn' PROVE Slots'
  <2>1. Apart /\ CallsFit /\ SlotsHold /\ OpenKnown
    BY <1>1, <1>8 DEF ControlIInv, LoginsKept, Slots
  <2>2. ASSUME NEW k \in Actors PROVE CallFits(k)'
    <3>1. CallFits(k) /\ at'[k] = at[k] /\ pending' = pending
      BY <1>1, <2>1 DEF CallsFit
    <3>2. at[k].pc = "drop" => at[k].login \in Logins
      BY DEF ControlIInv, Common, ControlTyped, Calls, LoginsKept, Holding, InHand, HandPcs
    <3>3. at[k].pc = "drop" => logins'[at[k].login].st # "open"
      BY <1>2, <3>1, <3>2 DEF CallFits
    <3>4. Valid(at[k].tok, at[k].sess)' <=> Valid(at[k].tok, at[k].sess)
      BY <1>1 DEF Valid, Current, Dropping, Resolve
    <3> QED BY <3>1, <3>3, <3>4 DEF CallFits
  <2>3. ASSUME NEW t \in Tokens PROVE SlotHolds(t)'
    <3> SUFFICES ASSUME pending[t] # 0 PROVE SlotHolds(t)'
      BY <1>1 DEF SlotHolds
    <3>1. SlotHolds(t) /\ pending[t] \in Logins
      BY <2>1 DEF SlotsHold, ControlIInv, Common, ControlTyped
    <3>2. \/ logins'[pending[t]].st \in {"open", "alone"}
          \/ \E k \in Actors : at[k].pc = "drop" /\ at[k].tok = t
      BY <1>2, <3>1 DEF SlotHolds
    <3>3. Valid(t, logins[pending[t]].sess)' <=> Valid(t, logins[pending[t]].sess)
      BY <1>1, <1>2, <3>1 DEF Valid, Current, Dropping, Resolve
    <3> QED BY <1>1, <3>1, <3>2, <3>3 DEF SlotHolds
  <2>4. OpenKnown'
    <3>1. \A g \in Logins : logins'[g].st = "open" => logins[g].st = "open"
      BY <1>2
    <3> QED BY <1>1, <2>1, <3>1 DEF OpenKnown
  <2> QED BY <1>1, <2>1, <2>2, <2>3, <2>4 DEF Slots, Apart, CallsFit, SlotsHold
<1> QED BY <1>3, <1>4, <1>5, <1>6, <1>7, <1>8 DEF ControlIInv, LoginsKept

\* A restart forgets the calls, the turns and the logins, and loads the choices
\* of the file, pushed to no session yet.
LEMMA RestartStep ==
  ASSUME ControlIInv, Restart
  PROVE  ControlIInv'
<1>0. ControlTyped /\ Roles /\ Names /\ PushedChoices
  BY DEF ControlIInv, Common
<1>1. /\ mem' = Loaded(file) /\ unsaved' = {} /\ live' = [c \in Conversations |-> 0]
      /\ gone' = [c \in Conversations |-> IF live[c] # 0 THEN live[c] ELSE gone[c]]
      /\ queued' = [c \in Conversations |-> 0] /\ pending' = [t \in Tokens |-> 0]
      /\ logins' = [l \in Logins |-> [logins[l] EXCEPT !.st = IF @ = "none" THEN @ ELSE "ended"]]
      /\ at' = [k \in Actors |-> Resting] /\ tool' = [c \in Conversations |-> None]
      /\ deferred' = {} /\ asked' = {} /\ torn' = FALSE /\ mixed' = {} /\ lost' = {}
      /\ UNCHANGED <<file, name, called, rekeys, model, minted>>
  BY <1>0 DEF Restart, ControlTyped, names
<1>2. \A k \in Actors : at'[k] = Resting
  BY <1>1
<1>3. /\ at' \in [Actors -> Calls]
      /\ \A k \in Actors : /\ at'[k].pc = "idle" /\ at'[k].login = 0 /\ at'[k].to = 0
                           /\ at'[k].conv = 0
  BY <1>1, <1>2, RestingCall
<1>4. ASSUME NEW c \in Conversations
      PROVE  /\ mem'[c] \in [id : Models \cup {None}, applied : Sessions \cup {0}]
             /\ mem'[c].id = file[c] /\ mem'[c].applied = 0
             /\ file[c] = None => mem'[c] = Unchosen
  <2>1. mem'[c] = [Unchosen EXCEPT !.id = file[c]] /\ file[c] \in Models \cup {None}
    BY <1>0, <1>1 DEF Loaded, ControlTyped
  <2> QED BY <2>1 DEF Unchosen
<1>5. ASSUME NEW l \in Logins
      PROVE  /\ logins'[l] \in [st : LoginStates, sess : Sessions \cup {0}]
             /\ logins'[l].st \in {"none", "ended"}
  <2>1. logins[l] \in [st : LoginStates, sess : Sessions \cup {0}]
    BY <1>0 DEF ControlTyped
  <2> QED BY <1>1, <2>1 DEF LoginStates
<1>6. ControlTyped'
  <2>1. mem' \in [Conversations -> [id : Models \cup {None}, applied : Sessions \cup {0}]]
    BY <1>1, <1>4 DEF Loaded
  <2>2. logins' \in [Logins -> [st : LoginStates, sess : Sessions \cup {0}]]
    <3>1. \E f : logins' = [l \in Logins |-> f[l]]
      <4>1. logins' = [l \in Logins |-> logins'[l]]
        BY <1>1
      <4> QED BY <4>1
    <3> QED BY <1>5, <3>1
  <2>3. gone' \in [Conversations -> Sessions \cup {0}]
    BY <1>0, <1>1 DEF ControlTyped
  <2> QED BY <1>0, <1>1, <1>3, <2>1, <2>2, <2>3 DEF ControlTyped
<1>7. \A k \in Handlers : k \in Actors
  BY DEF Actors
<1>8. \A c \in Conversations : c \in Actors
  BY DEF Actors
<1>9. Roles'
  BY <1>3, <1>7, <1>8 DEF Roles, TurnPcs
<1>10. Names'
  <2>1. 0 <= minted'.conv
    BY <1>0, <1>1, ControlBounds DEF ControlTyped
  <2>2. \A c \in Conversations : c > minted'.conv => gone'[c] = 0
    BY <1>0, <1>1 DEF Names
  <2> QED BY <1>0, <1>1, <1>3, <1>4, <1>8, <2>1, <2>2 DEF Names, TurnPcs
<1>11. Deferrals'
  BY <1>1, <1>3, <1>8 DEF Deferrals, DeferredByOwner, OwnTurn, TurnPcs
<1>12. PushedChoices'
  <2>1. ChoiceReachesAgent'
    BY <1>3, <1>4, <1>8 DEF ChoiceReachesAgent
  <2>2. \A c \in Conversations, s \in Sessions : Uses(c, s)' => Uses(c, s)
    BY <1>1, <1>3, <1>4, <1>8 DEF Uses, TurnPcs
  <2>3. OwnSessions'
    BY <1>0, <1>1, <2>2 DEF PushedChoices, OwnSessions
  <2>4. Pushing'
    BY <1>3, <1>8 DEF Pushing
  <2> QED BY <2>1, <2>3, <2>4 DEF PushedChoices
<1>13. Filing'
  <2>1. FileIsChoice'
    BY <1>1, <1>4 DEF FileIsChoice
  <2> QED BY <1>3, <2>1 DEF Filing, Saves, SavePcs
<1>14. Holding'
  <2>1. minted.login >= 0 /\ minted' = minted
    BY <1>0, <1>1, ControlBounds DEF ControlTyped
  <2>2. Numbered'
    BY <1>1, <1>3, <2>1 DEF Numbered
  <2> QED BY <1>1, <1>3, <2>2 DEF Holding, OneSlot, InHand, JustAsked, HasItAlone, HandPcs
<1>15. Slots'
  <2>1. Apart' /\ CallsFit'
    BY <1>3 DEF Apart, CallsFit, CallFits, LoginPcs
  <2>2. SlotsHold'
    BY <1>1 DEF SlotsHold, SlotHolds
  <2>3. OpenKnown'
    BY <1>5 DEF OpenKnown
  <2> QED BY <2>1, <2>2, <2>3 DEF Slots
<1> QED BY <1>6, <1>9, <1>10, <1>11, <1>12, <1>13, <1>14, <1>15
      DEF ControlIInv, Common, LoginsKept

\* A stuttering step.
LEMMA ControlStutter ==
  ASSUME ControlIInv, UNCHANGED controlVars
  PROVE  ControlIInv'
<1>1. UNCHANGED <<mem, file, unsaved, pending, logins, deferred, tool, asked, mixed, name, called,
                  rekeys, live, gone, lost, model, minted, queued, at, torn>>
  BY DEF controlVars, choices, loginVars, resets, world, names, sessions
<1>2. Common'
  BY <1>1 DEF ControlIInv, Common, ControlTyped, Roles, Names
<1>3. Deferrals'
  BY <1>1 DEF ControlIInv, Deferrals, DeferredByOwner, OwnTurn
<1>4. PushedChoices'
  BY <1>1 DEF ControlIInv, PushedChoices, ChoiceReachesAgent, OwnSessions, Uses, Pushing
<1>5. Filing'
  BY <1>1 DEF ControlIInv, Filing, FileIsChoice, Saves, Saving
<1>6. LoginsKept'
  <2>1. Holding'
    BY <1>1 DEF ControlIInv, LoginsKept, Holding, OneSlot, Numbered, InHand, JustAsked, HasItAlone
  <2>2. Slots => Slots'
    BY <1>1 DEF Slots, Apart, CallsFit, CallFits, SlotsHold, SlotHolds, OpenKnown, Valid, Dropping,
          Current, Resolve
  <2> QED BY <1>1, <2>1, <2>2 DEF ControlIInv, LoginsKept
<1> QED BY <1>2, <1>3, <1>4, <1>5, <1>6 DEF ControlIInv

\* Nothing was said yet.
LEMMA ControlInitHolds == ControlInit => ControlIInv
<1> SUFFICES ASSUME ControlInit PROVE ControlIInv
  OBVIOUS
<1>1. /\ mem = [c \in Conversations |-> Unchosen] /\ file = [c \in Conversations |-> None]
      /\ name = [c \in Conversations |-> None] /\ called = name /\ rekeys \in BOOLEAN
      /\ live = [c \in Conversations |-> 0] /\ gone = live /\ lost = {}
      /\ model = [s \in Sessions |-> None]
      /\ minted = [sess |-> 0, conv |-> 0, login |-> 0]
      /\ pending = [t \in Tokens |-> 0]
      /\ logins = [l \in Logins |-> [st |-> "none", sess |-> 0]]
      /\ deferred = {} /\ queued = [c \in Conversations |-> 0]
      /\ at = [k \in Actors |-> Resting] /\ tool = [c \in Conversations |-> None]
      /\ unsaved = {} /\ torn = FALSE /\ asked = {} /\ mixed = {}
  BY DEF ControlInit, Actors
<1>2. /\ at \in [Actors -> Calls]
      /\ \A k \in Actors : at[k].pc = "idle" /\ at[k].login = 0 /\ at[k].to = 0 /\ at[k].conv = 0
  BY <1>1, RestingCall
<1>3. /\ Unchosen \in [id : Models \cup {None}, applied : Sessions \cup {0}]
      /\ Unchosen.id = None /\ Unchosen.applied = 0
  BY DEF Unchosen
<1>4. \A k \in Handlers : k \in Actors
  BY DEF Actors
<1>5. \A c \in Conversations : c \in Actors
  BY DEF Actors
<1>6. ControlTyped
  <2>1. minted \in [sess : 0 .. MaxSessions, conv : 0 .. MaxConvs, login : 0 .. MaxLogins]
    BY <1>1, ControlBounds
  <2> QED BY <1>1, <1>2, <1>3, <2>1 DEF ControlTyped, LoginStates
<1>7. Roles
  BY <1>2, <1>4, <1>5 DEF Roles, TurnPcs
<1>8. Names
  <2>1. \A c \in Conversations : c \in Nat /\ c > 0
    BY DEF Conversations
  <2> QED BY <1>1, <1>2, <1>5, <2>1 DEF Names, TurnPcs
<1>9. Deferrals
  BY <1>1, <1>2, <1>5 DEF Deferrals, DeferredByOwner, OwnTurn, TurnPcs
<1>10. PushedChoices
  <2>1. ChoiceReachesAgent
    BY <1>1, <1>2, <1>3, <1>5 DEF ChoiceReachesAgent
  <2>2. \A c \in Conversations, s \in Sessions : ~Uses(c, s)
    BY <1>1, <1>2, <1>3, <1>5 DEF Uses, TurnPcs
  <2>3. OwnSessions
    BY <2>2 DEF OwnSessions
  <2>4. Pushing
    BY <1>2, <1>5 DEF Pushing
  <2> QED BY <2>1, <2>3, <2>4 DEF PushedChoices
<1>11. Filing
  <2>1. FileIsChoice
    BY <1>1, <1>3 DEF FileIsChoice
  <2> QED BY <1>2, <2>1 DEF Filing, Saves, SavePcs
<1>12. Holding
  BY <1>1, <1>2 DEF Holding, OneSlot, Numbered, InHand, JustAsked, HasItAlone, HandPcs
<1>13. Slots
  <2>1. Apart /\ CallsFit
    BY <1>2 DEF Apart, CallsFit, CallFits, LoginPcs
  <2>2. SlotsHold /\ OpenKnown
    BY <1>1 DEF SlotsHold, SlotHolds, OpenKnown
  <2> QED BY <2>1, <2>2 DEF Slots
<1> QED BY <1>6, <1>7, <1>8, <1>9, <1>10, <1>11, <1>12, <1>13 DEF ControlIInv, Common, LoginsKept

-----------------------------------------------------------------------------
(* Renamings                                                                *)
\* The login, the deferred reset and the turn follow the conversation.
LEMMA RenameStep ==
  ASSUME ControlIInv, NEW c \in Conversations, NEW u \in Tokens, Rename(c, u)
  PROVE  ControlIInv'
<1> USE DEF choices, sessions
<1>0. ControlTyped /\ Roles /\ Names /\ Deferrals /\ PushedChoices /\ Filing /\ LoginsKept
  BY DEF ControlIInv, Common
<1> PICK t \in Tokens : t = name[c]
  BY <1>0 DEF Rename, ControlTyped
<1>1. /\ t # None /\ u # None /\ t # u /\ Resolve(u) = 0 /\ \A d \in Conversations : name[d] # u
      /\ \A d \in Conversations : name[d] = t <=> d = c
      /\ c \in Actors /\ at \in [Actors -> Calls]
      /\ name' = [name EXCEPT ![c] = u] /\ called' = [called EXCEPT ![c] = u]
      /\ pending' = [pending EXCEPT ![t] = 0, ![u] = IF @ = 0 THEN pending[t] ELSE @]
      /\ IF pending[t] # 0 /\ pending[u] # 0 THEN Concluded(pending[t]) ELSE UNCHANGED logins
      /\ deferred' = moved(deferred, t, u)
      /\ at' = IF at[c].pc \in TurnPcs THEN [at EXCEPT ![c].tok = u] ELSE at
      /\ torn' = (torn \/ \E k \in Actors : at[k].tok \in {t, u}
                              /\ at[k].pc \in LoginPcs \cup DroppingPcs)
      /\ mixed' = mixed \cup (IF t \in mixed THEN {u} ELSE {})
                        \cup (IF at[c].pc = "reset" THEN {t} ELSE {})
      /\ UNCHANGED <<choices, tool, asked, rekeys, sessions, model, minted, queued>>
  <2>1. t # None /\ u # None /\ Resolve(u) = 0 /\ \A d \in Conversations : name[d] # u
    BY <1>0, Resolved, ControlBounds DEF Rename
  <2>2. at \in [Actors -> Calls] /\ DOMAIN at = Actors /\ c \in Actors
    BY <1>0 DEF ControlTyped, Actors
  <2>3. \A d \in Conversations : name[d] = t <=> d = c
    BY <1>0, <2>1 DEF Names
  <2> QED BY <2>1, <2>2, <2>3 DEF Rename, BrokerRekey, ToolsRekey, InTurn, TurnPcs
<1>2. /\ \A j \in Actors :
         /\ at'[j].pc = at[j].pc /\ at'[j].sess = at[j].sess /\ at'[j].id = at[j].id
         /\ at'[j].conv = at[j].conv /\ at'[j].to = at[j].to /\ at'[j].login = at[j].login
         /\ at'[j].changed = at[j].changed
         /\ at'[j].tok = (IF j = c /\ at[j].pc \in TurnPcs THEN u ELSE at[j].tok)
      /\ at' \in [Actors -> Calls]
  <2>1. CASE at[c].pc \in TurnPcs
    <3>1. at[c] \in Calls /\ [at[c] EXCEPT !.tok = u] \in Calls
      BY <1>1 DEF Calls
    <3>2. at' = [at EXCEPT ![c] = [at[c] EXCEPT !.tok = u]]
      BY <1>1, <2>1
    <3>3. \A j \in Actors : j # c => at'[j] = at[j]
      BY <1>1, <3>2
    <3>4. at'[c] = [at[c] EXCEPT !.tok = u] /\ at' \in [Actors -> Calls]
      BY <1>1, <3>1, <3>2
    <3> QED BY <2>1, <3>1, <3>3, <3>4 DEF Calls
  <2>2. CASE at[c].pc \notin TurnPcs
    BY <1>1, <2>2
  <2> QED BY <2>1, <2>2
<1>3. \A d \in Conversations : d \in Actors
  BY DEF Actors
<1>4. /\ name' \in [Conversations -> Tokens \cup {None}] /\ name'[c] = u
      /\ called' \in [Conversations -> Tokens \cup {None}] /\ called'[c] = u
      /\ \A d \in Conversations : d # c => name'[d] = name[d] /\ called'[d] = called[d]
  BY <1>0, <1>1 DEF ControlTyped
<1>5. /\ pending \in [Tokens -> Logins \cup {0}]
      /\ pending' \in [Tokens -> Logins \cup {0}] /\ pending'[t] = 0
      /\ pending'[u] = (IF pending[u] = 0 THEN pending[t] ELSE pending[u])
      /\ \A x \in Tokens : x # t /\ x # u => pending'[x] = pending[x]
  <2>1. pending \in [Tokens -> Logins \cup {0}]
    BY <1>0 DEF ControlTyped
  <2> QED BY <1>1, <2>1
<1>6. /\ logins \in [Logins -> [st : LoginStates, sess : Sessions \cup {0}]]
      /\ logins' \in [Logins -> [st : LoginStates, sess : Sessions \cup {0}]]
      /\ \A l \in Logins : logins'[l].sess = logins[l].sess
      /\ \A l \in Logins : l # pending[t] => logins'[l] = logins[l]
      /\ \A l \in Logins : logins'[l].st = "open" => logins[l].st = "open"
      /\ pending[t] = 0 \/ pending[u] = 0 => logins' = logins
      /\ pending[t] # 0 /\ pending[u] # 0 => logins'[pending[t]].st # "open"
  <2>1. logins \in [Logins -> [st : LoginStates, sess : Sessions \cup {0}]]
    BY <1>0 DEF ControlTyped
  <2>2. CASE pending[t] # 0 /\ pending[u] # 0
    <3>1. pending[t] \in Logins /\ Concluded(pending[t])
      BY <1>1, <1>5, <2>2
    <3> QED BY <1>0, <2>1, <2>2, <3>1, ConcludedLogins
  <2>3. CASE pending[t] = 0 \/ pending[u] = 0
    BY <1>1, <2>1, <2>3
  <2> QED BY <2>2, <2>3
<1>7. /\ deferred' \subseteq Tokens
      /\ \A x \in deferred' : x = u \/ (x # t /\ x \in deferred)
      /\ t \in deferred => u \in deferred' /\ t \notin deferred'
      /\ \A x \in Tokens : x # t /\ x # u => (x \in deferred' <=> x \in deferred)
      /\ u \in deferred' => t \in deferred \/ u \in deferred
  <2>1. CASE t \in deferred
    <3>1. deferred' = (deferred \ {t}) \cup {u}
      BY <1>1, <2>1 DEF moved
    <3> QED BY <1>0, <1>1, <2>1, <3>1 DEF ControlTyped
  <2>2. CASE t \notin deferred
    <3>1. deferred' = deferred
      BY <1>1, <2>2 DEF moved
    <3> QED BY <1>0, <1>1, <2>2, <3>1 DEF ControlTyped
  <2> QED BY <2>1, <2>2
<1>8. /\ torn' \in BOOLEAN /\ mixed' \subseteq Tokens /\ mixed \subseteq mixed'
      /\ u \notin mixed' => t \notin mixed
      /\ at[c].pc = "reset" => t \in mixed'
  BY <1>0, <1>1 DEF ControlTyped
<1>9. ControlTyped'
  BY <1>0, <1>1, <1>2, <1>4, <1>5, <1>6, <1>7, <1>8 DEF ControlTyped
<1>10. Roles'
  <2>1. \A j \in Actors : at'[j].pc # "idle" => at'[j].tok # None
    BY <1>0, <1>1, <1>2 DEF Roles
  <2>2. \A j \in Handlers : j \in Actors
    BY DEF Actors
  <2> QED BY <1>0, <1>2, <1>3, <2>1, <2>2 DEF Roles
<1>11. Names'
  <2>1. \A d, e \in Conversations : name'[d] # None /\ name'[d] = name'[e] => d = e
    BY <1>0, <1>1, <1>4 DEF Names
  <2>2. \A d \in Conversations : name'[d] # None => called'[d] = name'[d]
    BY <1>0, <1>4 DEF Names
  <2>3. \A d \in Conversations : at'[d].pc \in TurnPcs => at'[d].tok = called'[d]
    BY <1>0, <1>2, <1>3, <1>4 DEF Names
  <2>4. c <= minted.conv
    BY <1>0, <1>1, BusyIsMade
  <2>5. minted.conv \in Nat /\ c \in Nat
    BY <1>0, ControlBounds DEF ControlTyped
  <2>6. ASSUME NEW d \in Conversations, d > minted'.conv
        PROVE  /\ name'[d] = None /\ called'[d] = None /\ queued'[d] = 0 /\ at'[d].pc = "idle"
               /\ tool'[d] = None /\ live'[d] = 0 /\ gone'[d] = 0 /\ mem'[d] = Unchosen
               /\ file'[d] = None /\ d \notin asked' \cup unsaved'
    <3>1. d > minted.conv /\ d # c /\ d \in Actors
      BY <1>1, <1>3, <2>4, <2>5, <2>6
    <3> QED BY <1>0, <1>1, <1>2, <1>4, <3>1 DEF Names
  <2>7. \A d \in Conversations : d <= minted'.conv => called'[d] # None
    BY <1>0, <1>1, <1>4 DEF Names
  <2>8. \A j \in Actors : at'[j].conv <= minted'.conv
    BY <1>0, <1>1, <1>2 DEF Names
  <2> QED BY <2>1, <2>2, <2>3, <2>6, <2>7, <2>8 DEF Names
<1>12. Deferrals'
  <2>1. ASSUME NEW x \in deferred' \ mixed' PROVE \E d \in Conversations : name'[d] = x
    <3>1. CASE x = u
      BY <1>4, <3>1
    <3>2. CASE x # u
      <4>1. x # t /\ \E d \in Conversations : name[d] = x
        BY <1>0, <1>7, <1>8, <2>1, <3>2 DEF Deferrals
      <4> QED BY <1>1, <1>4, <4>1
    <3> QED BY <3>1, <3>2
  <2>2. ASSUME NEW d \in Conversations, name'[d] \notin mixed' \cup {None}
        PROVE  d \in asked' <=> name'[d] \in deferred'
    <3>1. CASE d = c
      <4>1. u \notin mixed /\ t \notin mixed
        BY <1>4, <1>8, <2>2, <3>1
      <4>2. c \in asked <=> t \in deferred
        BY <1>0, <1>1, <4>1 DEF Deferrals, DeferredByOwner
      <4>3. u \notin deferred
        BY <1>0, <1>1, <4>1 DEF Deferrals
      <4> QED BY <1>1, <1>4, <1>7, <3>1, <4>2, <4>3
    <3>2. CASE d # c
      <4>1. name'[d] = name[d] /\ name[d] \in Tokens /\ name[d] # t /\ name[d] # u
        BY <1>0, <1>1, <1>4, <2>2, <3>2 DEF ControlTyped
      <4>2. d \in asked <=> name[d] \in deferred
        BY <1>0, <1>8, <2>2, <4>1 DEF Deferrals, DeferredByOwner
      <4> QED BY <1>1, <1>7, <4>1, <4>2
    <3> QED BY <3>1, <3>2
  <2>3. ASSUME NEW d \in Conversations PROVE OwnTurn(d)'
    <3> SUFFICES ASSUME at'[d].pc \in TurnPcs \cup {"reset"}, at'[d].tok \notin mixed'
                 PROVE  name'[d] = at'[d].tok
      BY DEF OwnTurn
    <3>1. CASE d = c /\ at[c].pc \in TurnPcs
      BY <1>1, <1>2, <1>4, <3>1
    <3>2. CASE d = c /\ at[c].pc \notin TurnPcs
      <4>1. at[c].pc = "reset" /\ at[c].tok \notin mixed' /\ at[c].tok \notin mixed
        BY <1>1, <1>2, <1>8, <3>2
      <4>2. name[c] = at[c].tok
        BY <1>0, <4>1 DEF Deferrals, OwnTurn
      <4> QED BY <1>8, <4>1, <4>2
    <3>3. CASE d # c
      <4>1. at'[d].pc = at[d].pc /\ at'[d].tok = at[d].tok
        BY <1>2, <1>3, <3>3
      <4> QED BY <1>0, <1>4, <1>8, <3>3, <4>1 DEF Deferrals, OwnTurn
    <3> QED BY <3>1, <3>2, <3>3
  <2> QED BY <2>1, <2>2, <2>3 DEF Deferrals, DeferredByOwner
<1>13. PushedChoices'
  BY <1>0, <1>1, <1>2, <1>3, ChoicesSame
<1>14. Filing'
  <2>1. minted.conv \in Nat /\ \A d \in 1 .. minted.conv : d \in Conversations
    BY <1>0, ControlBounds DEF ControlTyped, Conversations
  <2>2. \A d \in 1 .. minted.conv : name[d] = None => name'[d] = None
    BY <1>1, <1>4, <2>1
  <2> QED BY <1>0, <1>1, <1>2, <2>1, <2>2, FilingSame
<1>15. Holding'
  <2>0. OneSlot /\ Numbered /\ InHand /\ JustAsked
    BY <1>0 DEF LoginsKept, Holding
  <2>1. OneSlot'
    BY <1>1, <1>5, <2>0 DEF OneSlot
  <2>2. Numbered'
    <3>1. \A x \in Tokens : pending'[x] <= minted.login
      <4>1. minted.login >= 0
        BY <1>0, ControlBounds DEF ControlTyped
      <4> QED BY <1>5, <2>0, <4>1 DEF Numbered
    <3>2. \A j \in Actors : at'[j].login = at[j].login
      BY <1>2
    <3> QED BY <1>1, <2>0, <3>1, <3>2 DEF Numbered
  <2>3. \A x \in Tokens : pending'[x] # 0 => \E y \in Tokens : pending[y] = pending'[x]
    BY <1>5
  <2>4. InHand'
    BY <1>2, <1>5, <2>0, <2>3, ControlBounds DEF InHand, HandPcs
  <2>5. ASSUME NEW j \in Actors PROVE HasItAlone(j)'
    <3> SUFFICES ASSUME at[j].pc = "note" PROVE HasItAlone(j)'
      BY <1>2 DEF HasItAlone
    <3>1. HasItAlone(j) /\ at[j].login \in Logins /\ at[j].login # pending[t]
      BY <1>0, <2>0 DEF JustAsked, InHand, HandPcs, ControlTyped, Calls
    <3>2. logins'[at[j].login] = logins[at[j].login]
      BY <1>6, <3>1
    <3> QED BY <1>2, <3>1, <3>2 DEF HasItAlone
  <2> QED BY <2>1, <2>2, <2>4, <2>5 DEF Holding, JustAsked
<1>16. ASSUME ~torn' PROVE Slots'
  <2>1. /\ ~torn /\ Apart /\ CallsFit /\ SlotsHold /\ OpenKnown /\ OneSlot
        /\ \A j \in Actors : at[j].pc \in LoginPcs \cup DroppingPcs =>
               at[j].tok # t /\ at[j].tok # u /\ at[j].tok \in Tokens
    <3>1. ~torn /\ \A j \in Actors : at[j].pc \in LoginPcs \cup DroppingPcs =>
               at[j].tok # t /\ at[j].tok # u
      BY <1>0, <1>1, <1>16 DEF ControlTyped
    <3>2. \A j \in Actors : at[j].pc \in LoginPcs \cup DroppingPcs => at[j].tok \in Tokens
      BY <1>0 DEF ControlTyped, Roles, Calls, LoginPcs, DroppingPcs
    <3> QED BY <1>0, <3>1, <3>2 DEF LoginsKept, Slots, Holding
  <2>2. \A j \in Actors : at[j].pc \in LoginPcs \cup DroppingPcs => at'[j].tok = at[j].tok
    BY <1>2 DEF LoginPcs, DroppingPcs, TurnPcs
  <2>3. Apart'
    BY <1>2, <2>1, <2>2 DEF Apart
  <2>4. ASSUME NEW x \in Tokens, NEW s \in Sessions \cup {0}, x # t, x # u, Valid(x, s)
        PROVE  Valid(x, s)'
    <3>1. \A d \in Conversations : name'[d] = x <=> name[d] = x
      BY <1>1, <1>4, <2>4
    <3>2. Resolve(x)' = Resolve(x)
      <4>1. Resolve(x) \in Conversations \cup {0} /\ Resolve(x)' \in Conversations \cup {0}
        BY <1>0, <1>9, <1>11, Resolved, ResolvedNext
      <4>2. \A d \in Conversations : Resolve(x) = d <=> Resolve(x)' = d
        BY <1>0, <1>9, <1>11, <3>1, Resolved, ResolvedNext
      <4> QED BY <4>1, <4>2
    <3>3. Current(x, s) => Current(x, s)'
      BY <1>1, <3>2 DEF Current
    <3>4. Dropping(x) => Dropping(x)'
      BY <1>2, <2>2 DEF Dropping
    <3> QED BY <1>1, <2>4, <3>3, <3>4 DEF Valid
  <2>5. ASSUME NEW j \in Actors PROVE CallFits(j)'
    <3> SUFFICES ASSUME at[j].pc \in LoginPcs PROVE CallFits(j)'
      BY <1>2 DEF CallFits, LoginPcs
    <3>1. /\ at'[j].pc = at[j].pc /\ at'[j].tok = at[j].tok /\ at'[j].sess = at[j].sess
          /\ at'[j].login = at[j].login
          /\ at[j].tok \in Tokens /\ at[j].tok # t /\ at[j].tok # u
      BY <1>2, <2>1, <2>2
    <3>2. CallFits(j) /\ pending'[at[j].tok] = pending[at[j].tok]
      BY <1>5, <2>1, <3>1 DEF CallsFit
    <3>3. at[j].sess \in Sessions \cup {0}
          /\ (at[j].pc \in {"complete", "drop"} => at[j].login \in Logins)
      BY <1>0 DEF ControlTyped, Calls, LoginsKept, Holding, InHand, HandPcs
    <3>4. Valid(at[j].tok, at[j].sess) => Valid(at[j].tok, at[j].sess)'
      <4> PICK x \in Tokens, s \in Sessions \cup {0} : x = at[j].tok /\ s = at[j].sess
        BY <3>1, <3>3
      <4>1. Valid(x, s) => Valid(x, s)'
        BY <2>4, <3>1
      <4> QED BY <3>1, <4>1 DEF Valid, Current, Dropping, Resolve
    <3>5. at[j].pc = "drop" => logins'[at[j].login].st # "open"
      BY <1>6, <3>2, <3>3 DEF CallFits
    <3>6. at[j].pc \in {"complete", "drop"} => \A x \in Tokens :
            IF x = at[j].tok THEN pending'[x] \in {0, at[j].login} ELSE pending'[x] # at[j].login
      <4> SUFFICES ASSUME at[j].pc \in {"complete", "drop"}, NEW x \in Tokens
                   PROVE  IF x = at[j].tok THEN pending'[x] \in {0, at[j].login}
                          ELSE pending'[x] # at[j].login
        OBVIOUS
      <4>1. at[j].login # 0 /\ pending[t] # at[j].login /\ pending[u] # at[j].login
        BY <3>1, <3>2, <3>3, ControlBounds DEF CallFits
      <4>2. CASE x \in {t, u}
        BY <1>1, <1>5, <3>1, <4>1, <4>2
      <4>3. CASE x \notin {t, u}
        BY <1>5, <3>2, <4>3 DEF CallFits
      <4> QED BY <4>2, <4>3
    <3>7. at[j].pc \in {"ask", "note"} =>
            pending'[at[j].tok] = 0 /\ Valid(at[j].tok, at[j].sess)'
      BY <3>2, <3>4 DEF CallFits
    <3> QED BY <3>1, <3>5, <3>6, <3>7 DEF CallFits
  <2>6. ~Dropping(t) /\ ~Dropping(u) /\ \A j \in Actors : at[j].pc = "drop" =>
           at[j].tok # t /\ at[j].tok # u
    BY <2>1 DEF Dropping, LoginPcs
  <2>7. ASSUME NEW x \in Tokens PROVE SlotHolds(x)'
    <3>1. CASE x = t
      BY <1>5, <3>1 DEF SlotHolds
    <3>2. CASE x = u /\ pending[u] = 0
      <4> SUFFICES ASSUME pending[t] # 0 PROVE SlotHolds(x)'
        BY <1>5, <3>2 DEF SlotHolds
      <4> PICK l \in Logins : l = pending[t]
        BY <1>5
      <4>1. pending'[u] = l /\ logins' = logins /\ live' = live /\ lost' = lost
        BY <1>1, <1>5, <1>6, <3>2
      <4>2. logins[l].st \in {"open", "alone"} /\ Valid(t, logins[l].sess)
        BY <2>1, <2>6 DEF SlotsHold, SlotHolds
      <4>3. Resolve(u)' = c /\ Resolve(t) = c /\ c # 0
        BY <1>0, <1>1, <1>4, <1>9, <1>11, Resolved, ResolvedNext, ControlBounds
      <4>4. Valid(u, logins[l].sess)'
        BY <2>6, <4>1, <4>2, <4>3 DEF Valid, Current
      <4>5. Valid(u, logins[pending[u]].sess)'
        BY <4>1, <4>4 DEF Valid, Current, Dropping, Resolve
      <4> QED BY <3>2, <4>1, <4>2, <4>5 DEF SlotHolds
    <3>3. CASE x = u /\ pending[u] # 0
      <4> PICK l \in Logins : l = pending[u]
        BY <1>5, <3>3
      <4>1. pending'[u] = l /\ l # pending[t] /\ logins'[l] = logins[l] /\ lost' = lost
        BY <1>1, <1>5, <1>6, <2>1, <3>3 DEF OneSlot
      <4>2. logins[l].st \in {"open", "alone"} /\ Valid(u, logins[l].sess)
        BY <2>1, <2>6, <3>3 DEF SlotsHold, SlotHolds
      <4>3. logins[l].sess \in lost \cup {0}
        BY <1>1, <2>6, <4>2 DEF Valid, Current
      <4>4. Valid(u, logins[pending[u]].sess)'
        BY <4>1, <4>3 DEF Valid
      <4> QED BY <3>3, <4>1, <4>2, <4>4 DEF SlotHolds
    <3>4. CASE x # t /\ x # u
      <4> SUFFICES ASSUME pending[x] # 0 PROVE SlotHolds(x)'
        BY <1>5, <3>4 DEF SlotHolds
      <4> PICK l \in Logins : l = pending[x]
        BY <1>5
      <4>1. pending'[x] = l /\ l # pending[t] /\ logins'[l] = logins[l] /\ SlotHolds(x)
        BY <1>5, <1>6, <2>1, <3>4 DEF OneSlot, SlotsHold
      <4>2. (\E j \in Actors : at[j].pc = "drop" /\ at[j].tok = x)
               => \E j \in Actors : at'[j].pc = "drop" /\ at'[j].tok = x
        BY <1>2, <2>2 DEF LoginPcs
      <4> PICK s \in Sessions \cup {0} : s = logins[l].sess
        BY <1>6
      <4>3. Valid(x, s)'
        <5>1. Valid(x, s)
          BY <4>1 DEF SlotHolds
        <5> QED BY <2>4, <3>4, <5>1
      <4>4. Valid(x, logins[pending[x]].sess)'
        BY <4>1, <4>3 DEF Valid, Current, Dropping, Resolve
      <4> QED BY <4>1, <4>2, <4>4 DEF SlotHolds
    <3> QED BY <3>1, <3>2, <3>3, <3>4
  <2>8. OpenKnown'
    <3> SUFFICES ASSUME NEW l \in Logins, logins'[l].st = "open"
                 PROVE  (\E x \in Tokens : pending'[x] = l) \/ (\E j \in Actors : at'[j].login = l)
      BY DEF OpenKnown
    <3>1. logins[l].st = "open" /\ l # 0
      BY <1>6, ControlBounds
    <3>2. CASE \E j \in Actors : at[j].login = l
      BY <1>2, <3>2
    <3>3. CASE \E x \in Tokens : pending[x] = l
      <4> PICK x \in Tokens : pending[x] = l
        BY <3>3
      <4>1. CASE x = t
        BY <1>5, <1>6, <3>1, <4>1
      <4>2. CASE x # t
        BY <1>5, <3>1, <4>2
      <4> QED BY <4>1, <4>2
    <3> QED BY <2>1, <3>1, <3>2, <3>3 DEF OpenKnown
  <2> QED BY <2>3, <2>5, <2>7, <2>8 DEF Slots, CallsFit, SlotsHold
<1> QED BY <1>9, <1>10, <1>11, <1>12, <1>13, <1>14, <1>15, <1>16
      DEF ControlIInv, Common, LoginsKept

-----------------------------------------------------------------------------
(* Every step keeps the invariant                                           *)
LEMMA ResettingStep ==
  ASSUME ControlIInv, NEW k \in Actors, Resetting(k)
  PROVE  ControlIInv'
<1>1. CASE ResetSession(k)
  BY <1>1, ResetSessionStep
<1>2. CASE ResetFails(k)
  BY <1>2, ResetFailsStep
<1>3. CASE ReplaceConv(k)
  BY <1>3, ReplaceConvStep
<1>4. CASE CarrySaves(k)
  BY <1>4, CarryStep
<1>5. CASE DropSessionLogin(k)
  BY <1>5, DropSessionLoginStep
<1>6. CASE Cancelling(k)
  BY <1>6, CancellingStep
<1> QED BY <1>1, <1>2, <1>3, <1>4, <1>5, <1>6 DEF Resetting

LEMMA MessageStep ==
  ASSUME ControlIInv, NEW k \in Handlers, Message(k)
  PROVE  ControlIInv'
<1>1. CASE \E t \in Tokens, kind \in Kinds, id \in Models \cup {None} : Dispatch(k, t, kind, id)
  BY <1>1, DispatchStep
<1>2. CASE Pasted(k)
  <2>1. CASE Go(k, Call("complete", at[k].tok, pending[at[k].tok]))
    BY <1>2, <2>1, PastedStep
  <2>2. CASE Return(k)
    BY <1>2, <2>2, NothingStep DEF Pasted
  <2> QED BY <1>2, <2>1, <2>2 DEF Pasted
<1>3. CASE Cancel(k)
  <2>1. CASE pending[at[k].tok] # 0
    BY <1>3, <2>1, CancelStep
  <2>2. CASE pending[at[k].tok] = 0
    BY <1>3, <2>2, NothingStep DEF Cancel, loginVars
  <2> QED BY <2>1, <2>2
<1>4. CASE Forwarded(k) \/ PassedThrough(k)
  BY <1>4, ForwardedStep
<1>5. CASE Start(k)
  BY <1>5, StartStep
<1>6. CASE StartMCP(k)
  <2>1. CASE Resolve(at[k].tok) # 0 /\ live[Resolve(at[k].tok)] # 0
    BY <1>6, <2>1, StartMCPStep
  <2>2. CASE ~(Resolve(at[k].tok) # 0 /\ live[Resolve(at[k].tok)] # 0)
    BY <1>6, <2>2, NothingStep DEF StartMCP, Handles
  <2> QED BY <2>1, <2>2
<1>7. CASE Asked(k)
  BY <1>7, AskedStep
<1>8. CASE NotAsked(k)
  BY <1>8, NothingStep DEF NotAsked
<1>9. CASE Noted(k)
  BY <1>9, NotedStep
<1>10. CASE Complete(k)
  BY <1>10, CompleteStep
<1>11. CASE Drop(k)
  BY <1>11, DropStep
<1>12. CASE Set(k)
  BY <1>12, SetStep
<1>13. CASE Save(k)
  BY <1>13, SaveStep
<1> QED BY <1>1, <1>2, <1>3, <1>4, <1>5, <1>6, <1>7, <1>8, <1>9, <1>10, <1>11, <1>12, <1>13
      DEF Message

LEMMA TurnOfStep ==
  ASSUME ControlIInv, NEW c \in Conversations, TurnOf(c)
  PROVE  ControlIInv'
<1>1. CASE TurnBegins(c)
  BY <1>1, TurnBeginsStep
<1>2. CASE Pending(c)
  BY <1>2, PendingStep
<1>3. CASE Pushes(c)
  BY <1>3, PushesStep
<1>4. CASE MarkApplied(c)
  BY <1>4, MarkAppliedStep
<1>5. CASE ToolCalled(c)
  BY <1>5, ToolCalledStep
<1>6. CASE NewSessionTool(c)
  BY <1>6, NewSessionToolStep
<1>7. CASE EndTurn(c)
  BY <1>7, EndTurnStep
<1>8. CASE CutShort(c)
  BY <1>8, CutShortStep
<1> QED BY <1>1, <1>2, <1>3, <1>4, <1>5, <1>6, <1>7, <1>8 DEF TurnOf

LEMMA ControlStep == ControlIInv /\ [ControlNext]_controlVars => ControlIInv'
<1> SUFFICES ASSUME ControlIInv, [ControlNext]_controlVars PROVE ControlIInv'
  OBVIOUS
<1>1. \A k \in Handlers : k \in Actors
  BY DEF Actors
<1>2. \A c \in Conversations : c \in Actors
  BY DEF Actors
<1>3. ASSUME NEW k \in Handlers, Message(k) \/ Resetting(k) PROVE ControlIInv'
  BY <1>1, <1>3, MessageStep, ResettingStep
<1>4. ASSUME NEW c \in Conversations, TurnOf(c) \/ Resetting(c) \/ Collect(c) PROVE ControlIInv'
  BY <1>2, <1>4, TurnOfStep, ResettingStep, CollectStep
<1>5. ASSUME NEW c \in Conversations, NEW u \in Tokens, Rename(c, u) PROVE ControlIInv'
  BY <1>5, RenameStep
<1>6. ASSUME NEW l \in Logins, AgentEnds(l) PROVE ControlIInv'
  BY <1>6, AgentEndsStep
<1>7. CASE Restart
  BY <1>7, RestartStep
<1>8. CASE UNCHANGED controlVars
  BY <1>8, ControlStutter
<1> QED BY <1>3, <1>4, <1>5, <1>6, <1>7, <1>8 DEF ControlNext

LEMMA ControlIsInvariant == ControlSpec => []ControlIInv
<1> QED BY ControlInitHolds, ControlStep, PTL DEF ControlSpec

-----------------------------------------------------------------------------
(* A turn's own reset                                                       *)
\* A message, and another conversation's turn or reset, are nothing to the turn
\* of conversation c.
LEMMA MessageElsewhere ==
  ASSUME ControlTyped, NEW k \in Handlers, NEW c \in Conversations, Message(k)
  PROVE  at'[c].pc = at[c].pc
<1>1. k # c /\ at \in [Actors -> Calls] /\ k \in Actors /\ c \in Actors /\ DOMAIN at = Actors
  BY ControlBounds DEF ControlTyped, Actors
<1>2. ASSUME NEW r, Go(k, r) PROVE at'[c] = at[c]
  BY <1>1, <1>2 DEF Go
<1>3. Return(k) => at'[c] = at[c]
  BY <1>2 DEF Return
<1>4. CASE \E t \in Tokens, kind \in Kinds, id \in Models \cup {None} : Dispatch(k, t, kind, id)
  <2> PICK t \in Tokens, kind \in Kinds, id \in Models \cup {None} : Dispatch(k, t, kind, id)
    BY <1>4
  <2>1. CASE kind # "text" \/ pending[t] # 0
    BY <1>2, <2>1 DEF Dispatch
  <2>2. CASE ~(kind # "text" \/ pending[t] # 0)
    BY <2>2 DEF Dispatch
  <2> QED BY <2>1, <2>2
<1>5. CASE Set(k)
  <2>1. CASE Resolve(at[k].tok) = 0
    BY <1>3, <1>5, <2>1 DEF Set
  <2>2. CASE Resolve(at[k].tok) # 0
    <3>1. PICK d, r : at' = [Changes(d) EXCEPT ![k] = r]
      BY <1>5, <2>2 DEF Set
    <3>2. at'[c] = (IF c = d THEN [at[c] EXCEPT !.changed = TRUE] ELSE at[c])
      BY <1>1, <3>1 DEF Changes
    <3> QED BY <1>1, <3>2 DEF Calls
  <2> QED BY <2>1, <2>2
<1>6. CASE Pasted(k) \/ Forwarded(k) \/ PassedThrough(k) \/ NotAsked(k) \/ Noted(k) \/ Drop(k) \/ Save(k)
  BY <1>2, <1>3, <1>6 DEF Pasted, Forwarded, PassedThrough, NotAsked, Noted, Drop, Save
<1>7. CASE Cancel(k) \/ Start(k) \/ StartMCP(k) \/ Complete(k)
  BY <1>2, <1>3, <1>7 DEF Cancel, Start, StartMCP, Complete
<1>8. CASE Asked(k)
  BY <1>2, <1>8 DEF Asked
<1> QED BY <1>4, <1>5, <1>6, <1>7, <1>8 DEF Message

LEMMA ResettingElsewhere ==
  ASSUME ControlTyped, NEW k \in Actors, NEW c \in Conversations, Resetting(k), k # c
  PROVE  at'[c].pc = at[c].pc
<1>1. at \in [Actors -> Calls] /\ c \in Actors
  BY DEF ControlTyped, Actors
<1>2. ASSUME NEW r, Go(k, r) PROVE at'[c] = at[c]
  BY <1>1, <1>2 DEF Go
<1> QED BY <1>2 DEF Resetting, ResetSession, ResetFails, ReplaceConv, CarrySaves, DropSessionLogin,
                    Cancelling, Return

LEMMA TurnElsewhere ==
  ASSUME ControlTyped, NEW d \in Conversations, NEW c \in Conversations, TurnOf(d), d # c
  PROVE  at'[c].pc = at[c].pc
<1>1. at \in [Actors -> Calls] /\ c \in Actors
  BY DEF ControlTyped, Actors
<1>2. ASSUME NEW r, Go(d, r) PROVE at'[c] = at[c]
  BY <1>1, <1>2 DEF Go
<1>3. CASE TurnBegins(d) \/ Pending(d) \/ Pushes(d) \/ MarkApplied(d)
  BY <1>2, <1>3 DEF TurnBegins, Pending, Pushes, MarkApplied
<1>4. CASE ToolCalled(d) \/ NewSessionTool(d)
  BY <1>4 DEF ToolCalled, NewSessionTool
<1>5. CASE EndTurn(d) \/ CutShort(d)
  BY <1>2, <1>5 DEF EndTurn, CutShort, Return
<1> QED BY <1>3, <1>4, <1>5 DEF TurnOf

\* Of its own steps only EndTurn asks for a reset.
LEMMA TurnAsks ==
  ASSUME ControlIInv, NEW c \in Conversations, TurnOf(c), at[c].tok \notin mixed
  PROVE  /\ at[c].pc = "run" /\ at'[c].pc = "reset" => c \in asked
         /\ at[c].pc = "reset" => at'[c].pc = "reset"
<1>1. at \in [Actors -> Calls] /\ c \in Actors
  BY DEF ControlIInv, Common, ControlTyped, Actors
<1>2. CASE ToolCalled(c) \/ NewSessionTool(c)
  BY <1>2 DEF ToolCalled, NewSessionTool
<1>3. CASE TurnBegins(c) \/ Pending(c) \/ Pushes(c) \/ MarkApplied(c)
  BY <1>3 DEF TurnBegins, Pending, Pushes, MarkApplied
<1>4. CASE CutShort(c)
  BY <1>1, <1>4 DEF CutShort, InTurn, Return, Go, Resting
<1>5. CASE EndTurn(c)
  <2> SUFFICES ASSUME at[c].pc = "run", at'[c].pc = "reset" PROVE c \in asked
    BY <1>5 DEF EndTurn
  <2>1. name[c] = at[c].tok /\ at[c].tok # None
    BY <1>1 DEF ControlIInv, Deferrals, OwnTurn, TurnPcs, Common, Roles
  <2>2. at[c].tok \in deferred
    BY <1>1, <1>5 DEF EndTurn, Return, Go, Resting
  <2> QED BY <2>1, <2>2 DEF ControlIInv, Deferrals, DeferredByOwner
<1> QED BY <1>2, <1>3, <1>4, <1>5 DEF TurnOf

\* The reset that a turn ends with is of its own conversation.
LEMMA ResetsOwn ==
  ASSUME ControlIInv, NEW c \in Conversations, Resetting(c), at[c].tok \notin mixed,
         at[c].pc = "reset", at'[c].pc \in DroppingPcs,
         NEW d \in Conversations, d # c, name[d] # None
  PROVE  name'[d] = name[d] /\ live'[d] = live[d]
<1>0. ControlTyped /\ Roles /\ Names /\ Deferrals
  BY DEF ControlIInv, Common
<1>1. at \in [Actors -> Calls] /\ c \in Actors
  BY <1>0 DEF ControlTyped, Actors
<1>2. name[c] = at[c].tok /\ at[c].tok \in Tokens
  BY <1>0, <1>1 DEF Deferrals, OwnTurn, Roles, Calls
<1>3. Resolve(at[c].tok) = c
  BY <1>0, <1>2, Resolved
<1>4. d <= minted.conv /\ minted.conv \in Nat
  BY <1>0, BusyIsMade DEF ControlTyped
<1>5. CASE ResetSession(c)
  BY <1>3, <1>5 DEF ResetSession, names
<1>6. CASE ReplaceConv(c)
  <2>1. name' = [name EXCEPT ![c] = None, ![minted.conv + 1] = at[c].tok] /\ live' = live
    BY <1>3, <1>6 DEF ReplaceConv, sessions
  <2>2. d # minted.conv + 1
    BY <1>4, ControlBounds
  <2> QED BY <1>0, <2>1, <2>2 DEF ControlTyped
<1>7. CASE ResetFails(c) \/ CarrySaves(c) \/ DropSessionLogin(c) \/ Cancelling(c)
  BY <1>1, <1>7 DEF ResetFails, CarrySaves, DropSessionLogin, Cancelling, Return, Go, Resting,
        DroppingPcs
<1> QED BY <1>5, <1>6, <1>7 DEF Resetting

\* No other step moves a turn that runs, or resets, but to let it go.
LEMMA OthersLeaveTurns ==
  ASSUME ControlIInv, NEW c \in Conversations,
         \/ \E d \in Conversations : Collect(d) \/ \E u \in Tokens : Rename(d, u)
         \/ \E l \in Logins : AgentEnds(l)
         \/ Restart \/ UNCHANGED controlVars
  PROVE  at'[c].pc \in {at[c].pc, "idle"}
<1>1. at \in [Actors -> Calls] /\ c \in Actors /\ DOMAIN at = Actors
  BY DEF ControlIInv, Common, ControlTyped, Actors
<1>2. ASSUME NEW d \in Conversations, NEW u \in Tokens, Rename(d, u) PROVE at'[c].pc = at[c].pc
  <2>1. at' = [at EXCEPT ![d] = [at[d] EXCEPT !.tok = u]] \/ at' = at
    BY <1>2 DEF Rename
  <2> QED BY <1>1, <2>1 DEF Calls
<1>3. ASSUME NEW d \in Conversations, Collect(d) PROVE at' = at
  BY <1>3 DEF Collect
<1>4. ASSUME NEW l \in Logins, AgentEnds(l) PROVE at' = at
  BY <1>4 DEF AgentEnds
<1>5. CASE Restart
  BY <1>1, <1>5 DEF Restart, Resting
<1>6. CASE UNCHANGED controlVars
  BY <1>6 DEF controlVars
<1> QED BY <1>2, <1>3, <1>4, <1>5, <1>6

LEMMA ResetsItsOwnStep == ControlIInv /\ [ControlNext]_controlVars => ResetsItsOwn
<1> SUFFICES ASSUME ControlIInv, [ControlNext]_controlVars,
                    NEW c \in Conversations, at[c].tok \notin mixed
             PROVE  /\ at[c].pc = "run" /\ at'[c].pc = "reset" => c \in asked
                    /\ at[c].pc = "reset" /\ at'[c].pc \in DroppingPcs =>
                        \A d \in Conversations \ {c} :
                            name[d] # None => name'[d] = name[d] /\ live'[d] = live[d]
  BY DEF ResetsItsOwn
<1>0. ControlTyped /\ c \in Actors
  BY DEF ControlIInv, Common, Actors
<1>1. CASE at'[c].pc \in {at[c].pc, "idle"}
  BY <1>1 DEF DroppingPcs
<1>2. ASSUME NEW k \in Handlers, Message(k) \/ Resetting(k) PROVE at'[c].pc = at[c].pc
  <2>1. k \in Actors /\ k # c
    BY ControlBounds DEF Actors
  <2> QED BY <1>0, <1>2, <2>1, MessageElsewhere, ResettingElsewhere
<1>3. ASSUME NEW d \in Conversations, d # c, TurnOf(d) \/ Resetting(d) PROVE at'[c].pc = at[c].pc
  <2>1. d \in Actors
    BY DEF Actors
  <2> QED BY <1>0, <1>3, <2>1, ResettingElsewhere, TurnElsewhere
<1>4. CASE TurnOf(c)
  BY <1>4, TurnAsks DEF DroppingPcs
<1>5. CASE Resetting(c)
  <2>1. ~(at[c].pc = "run" /\ at'[c].pc = "reset")
    BY <1>0, <1>5 DEF Resetting, ResetSession, ResetFails, ReplaceConv, CarrySaves,
          DropSessionLogin, Cancelling, Resets, Handles
  <2> QED BY <1>5, <2>1, ResetsOwn
<1> QED BY <1>1, <1>2, <1>3, <1>4, <1>5, OthersLeaveTurns DEF ControlNext

-----------------------------------------------------------------------------
(* The theorems                                                             *)
\* The model a user chose is the one the agent has and the file remembers: a
\* session marked as having the choice has it, whatever was chosen while an
\* earlier choice was pushed, a turn prompts with the choice it found, and with
\* no save under way the file holds the choice, after a restart as well
\* (Overrides.Set, Pending, MarkApplied, Carry, FileStore.Save).
THEOREM ChoiceIsAlwaysKept == ControlSpec => []ChoiceIsKept
<1>1. ControlIInv => ChoiceIsKept
  BY DEF ControlIInv, PushedChoices, Filing, ChoiceIsKept
<1> QED BY <1>1, ControlIsInvariant, PTL

\* The broker's slots and the agent agree: a message is taken for the paste of a
\* login only while that login waits for it, for the session the conversation
\* has, and every login the agent waits for has a slot or a call about it, or was
\* left there by a paste or a cancel that failed (Broker.start, startMCP, complete,
\* cancel, dropSessionLogin, Rekey).  The exemptions are LoginSlotIsTrue's own: a
\* session reaped, or reset before a login asked for it came; and two calls about
\* the login of one token that overlapped, or a rename under one.
THEOREM LoginSlotsAreTrue == ControlSpec => []LoginSlotIsTrue
<1>1. ControlIInv => LoginSlotIsTrue
  <2> SUFFICES ASSUME ControlIInv, ~torn PROVE LoginSlotIsTrue
    BY DEF LoginSlotIsTrue
  <2>1. ControlTyped /\ SlotsHold /\ OpenKnown
    BY DEF ControlIInv, Common, LoginsKept, Slots
  <2>2. DOMAIN at = Actors
    BY <2>1 DEF ControlTyped
  <2>3. ASSUME NEW t \in Tokens, pending[t] # 0,
               \A k \in DOMAIN at : ~(at[k].tok = t /\ at[k].pc \in {"drop"} \cup DroppingPcs)
        PROVE  LET l == logins[pending[t]] IN
               /\ l.st \in {"open", "alone"}
               /\ l.sess \notin lost \cup {0} => Current(t, l.sess)
    <3>1. ~Dropping(t) /\ ~\E k \in Actors : at[k].pc = "drop" /\ at[k].tok = t
      BY <2>2, <2>3 DEF Dropping
    <3> QED BY <2>1, <2>3, <3>1 DEF SlotsHold, SlotHolds, Valid
  <2>4. \A l \in Logins :
          logins[l].st = "open" =>
              (\E t \in Tokens : pending[t] = l) \/ (\E k \in DOMAIN at : at[k].login = l)
    BY <2>1, <2>2 DEF OpenKnown
  <2> QED BY <2>3, <2>4 DEF LoginSlotIsTrue
<1> QED BY <1>1, ControlIsInvariant, PTL

\* Under a token of one conversation only, a new session is deferred exactly if
\* the agent of the conversation it names asked, wherever the relay moved the
\* conversation since; a turn resets at its end only if its own agent asked; and
\* that reset changes no other conversation (Tools.wrap, EndTurn, Rekey,
\* Broker.NewSession).
THEOREM DeferredIsAlwaysAsked == ControlSpec => []DeferredByOwner /\ DeferredIsAsked
<1>1. ControlIInv => DeferredByOwner
  BY DEF ControlIInv, Deferrals
<1>2. ControlIInv /\ ControlIInv' /\ [ControlNext]_controlVars =>
          [DeferredByOwner' /\ ResetsItsOwn]_controlVars
  <2>1. ControlIInv' => DeferredByOwner'
    BY DEF ControlIInv, Deferrals
  <2> QED BY <2>1, ResetsItsOwnStep
<1> QED BY <1>1, <1>2, ControlIsInvariant, PTL DEF ControlSpec, DeferredIsAsked
=============================================================================
