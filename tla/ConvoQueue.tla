----------------------------- MODULE ConvoQueue -----------------------------
(* The sheddable queue of convo/queue.go between any number of pushers, the *)
(* one runner that pops, and the goroutines that wait for it or close it.   *)
(*                                                                          *)
(* The queue's two channels hold at most one token and are sent to without  *)
(* blocking; the relay's runner loops PopOrWait, its turn, Finish, and is   *)
(* told to leave by whoever closed the queue.                               *)
EXTENDS Naturals, Sequences, SequencesExt

CONSTANTS
    MaxItems,  \* bound: how many items are offered to Push
    Sheddable, \* the items that classify as sheddable
    Cap,       \* Queue.cap
    QueueWaiters \* goroutines that call WaitIdle

ASSUME MaxItemsAssumption == MaxItems \in Nat
ASSUME CapAssumption == Cap \in Nat \ {0}
ASSUME SheddableAssumption == Sheddable \subseteq 1..MaxItems

Items == 1..MaxItems   \* in the order in which Push took the lock
NoItem == 0

VARIABLES
    offered,  \* items offered so far
    q,        \* Queue.q
    inFlight, \* Queue.inFlight
    stopped,  \* Queue.stopped
    notify,   \* the token in Queue.notify
    idleCh,   \* the token in Queue.idleCh
    runner,   \* the runner: where it is and the item it holds
    stop,     \* the runner's stop channel is closed
    waiting,  \* the callers of WaitIdle
    fate      \* history: what became of each item

queueVars == <<offered, q, inFlight, stopped, notify, idleCh, runner, stop, waiting, fate>>

Fates == {"new", "queued", "popped", "finished", "shed", "refused", "closed", "detached"}

QueueTypeOK ==
    /\ offered \in 0..MaxItems
    /\ q \in Seq(Items)
    /\ inFlight \in BOOLEAN /\ stopped \in BOOLEAN /\ notify \in BOOLEAN
    /\ idleCh \in BOOLEAN /\ stop \in BOOLEAN
    /\ runner \in [pc: {"pop", "select", "run", "poke", "left"}, item: Items \cup {NoItem}]
    /\ waiting \in [QueueWaiters -> {"out", "check", "select"}]
    /\ fate \in [Items -> Fates]

QueueInit ==
    /\ offered = 0
    /\ q = <<>>
    /\ inFlight = FALSE /\ stopped = FALSE /\ notify = FALSE
    /\ idleCh = FALSE /\ stop = FALSE
    /\ runner = [pc |-> "pop", item |-> NoItem]
    /\ waiting = [w \in QueueWaiters |-> "out"]
    /\ fate = [i \in Items |-> "new"]

Idle == ~inFlight /\ q = <<>>

\* The sheddable items of q, and the positions they are at.
ShedPositions == {n \in DOMAIN q : q[n] \in Sheddable}

-----------------------------------------------------------------------------
\* Take item i out of the pushers' hands: what Push answers is in fate.
Offer(i) == offered < MaxItems /\ i = offered + 1 /\ offered' = i

\* Mutant: the runner is not told.
Accept_NoToken(i, rest) ==
    /\ q' = Append(rest, i)
    /\ UNCHANGED notify

\* The append under the lock, and the token for the runner.
Accept(i, rest) ==
    /\ q' = Append(rest, i)
    /\ notify' = TRUE

PushRefused(i) ==
    /\ Offer(i)
    /\ stopped
    /\ fate' = [fate EXCEPT ![i] = "closed"]
    /\ UNCHANGED <<q, notify, inFlight, stopped, idleCh, runner, stop, waiting>>

PushWithRoom(i) ==
    /\ Offer(i)
    /\ ~stopped
    /\ Len(q) < Cap
    /\ Accept(i, q)
    /\ fate' = [fate EXCEPT ![i] = "queued"]
    /\ UNCHANGED <<inFlight, stopped, idleCh, runner, stop, waiting>>

\* Mutant: the oldest item makes room, sheddable or not.
PushSheds_Oldest(i) ==
    /\ Offer(i)
    /\ ~stopped
    /\ Len(q) >= Cap
    /\ ShedPositions # {}
    /\ Accept(i, Tail(q))
    /\ fate' = [fate EXCEPT ![Head(q)] = "shed", ![i] = "queued"]
    /\ UNCHANGED <<inFlight, stopped, idleCh, runner, stop, waiting>>

\* At the cap the oldest sheddable item makes room; onShed is told.
PushSheds(i) ==
    /\ Offer(i)
    /\ ~stopped
    /\ Len(q) >= Cap
    /\ \E n \in ShedPositions :
          /\ \A k \in ShedPositions : n <= k
          /\ Accept(i, RemoveAt(q, n))
          /\ fate' = [fate EXCEPT ![q[n]] = "shed", ![i] = "queued"]
    /\ UNCHANGED <<inFlight, stopped, idleCh, runner, stop, waiting>>

\* At the cap with nothing to shed: a sheddable item is refused, any other
\* one makes the queue grow.
PushOverCap(i) ==
    /\ Offer(i)
    /\ ~stopped
    /\ Len(q) >= Cap
    /\ ShedPositions = {}
    /\ \/ /\ i \in Sheddable
          /\ fate' = [fate EXCEPT ![i] = "refused"]
          /\ UNCHANGED <<q, notify>>
       \/ /\ i \notin Sheddable
          /\ Accept(i, q)
          /\ fate' = [fate EXCEPT ![i] = "queued"]
    /\ UNCHANGED <<inFlight, stopped, idleCh, runner, stop, waiting>>

QueuePush(i) == PushRefused(i) \/ PushWithRoom(i) \/ PushSheds(i) \/ PushOverCap(i)

-----------------------------------------------------------------------------
\* Mutant: the item is not marked in flight.
Pop_Unmarked ==
    /\ runner.pc = "pop"
    /\ q # <<>>
    /\ q' = Tail(q)
    /\ runner' = [pc |-> "run", item |-> Head(q)]
    /\ fate' = [fate EXCEPT ![Head(q)] = "popped"]
    /\ UNCHANGED <<offered, inFlight, stopped, notify, idleCh, stop, waiting>>

\* PopOrWait with something to pop.
Pop ==
    /\ runner.pc = "pop"
    /\ q # <<>>
    /\ q' = Tail(q)
    /\ inFlight' = TRUE
    /\ runner' = [pc |-> "run", item |-> Head(q)]
    /\ fate' = [fate EXCEPT ![Head(q)] = "popped"]
    /\ UNCHANGED <<offered, stopped, notify, idleCh, stop, waiting>>

\* PopOrWait finds the queue empty and goes to its select.
PopEmpty ==
    /\ runner.pc = "pop"
    /\ q = <<>>
    /\ runner' = [runner EXCEPT !.pc = "select"]
    /\ UNCHANGED <<offered, q, inFlight, stopped, notify, idleCh, stop, waiting, fate>>

\* The select: a token, or stop; Go picks either when both are ready.
Select ==
    /\ runner.pc = "select"
    /\ \/ /\ notify
          /\ notify' = FALSE
          /\ runner' = [runner EXCEPT !.pc = "pop"]
       \/ /\ stop
          /\ runner' = [runner EXCEPT !.pc = "left"]
          /\ UNCHANGED notify
    /\ UNCHANGED <<offered, q, inFlight, stopped, idleCh, stop, waiting, fate>>

\* Finish's critical section, after the item's turn.
Finish ==
    /\ runner.pc = "run"
    /\ inFlight' = FALSE
    /\ runner' = [pc |-> "poke", item |-> NoItem]
    /\ fate' = [fate EXCEPT ![runner.item] = "finished"]
    /\ UNCHANGED <<offered, q, stopped, notify, idleCh, stop, waiting>>

\* Mutant: Finish tells nobody.
Poke_Missing ==
    /\ runner.pc = "poke"
    /\ runner' = [runner EXCEPT !.pc = "pop"]
    /\ UNCHANGED <<offered, q, inFlight, stopped, notify, idleCh, stop, waiting, fate>>

\* The rest of Finish: the token for WaitIdle.
Poke ==
    /\ runner.pc = "poke"
    /\ idleCh' = TRUE
    /\ runner' = [runner EXCEPT !.pc = "pop"]
    /\ UNCHANGED <<offered, q, inFlight, stopped, notify, stop, waiting, fate>>

-----------------------------------------------------------------------------
\* Stop: the queue is closed, its items are the caller's, and the runner is
\* told to leave.
QueueStop ==
    /\ ~stop
    /\ stopped' = TRUE
    /\ q' = <<>>
    /\ stop' = TRUE
    /\ fate' = [i \in Items |-> IF fate[i] = "queued" THEN "detached" ELSE fate[i]]
    /\ UNCHANGED <<offered, inFlight, notify, idleCh, runner, waiting>>

\* Mutant: Idle was read in an earlier critical section.
StopIfIdle_ClosesLater ==
    /\ ~inFlight
    /\ stopped' = TRUE
    /\ stop' = TRUE
    /\ UNCHANGED <<offered, q, inFlight, notify, idleCh, runner, waiting, fate>>

\* StopIfIdle answering true: an idle conversation's runner is told to leave.
StopIfIdle ==
    /\ Idle
    /\ stopped' = TRUE
    /\ stop' = TRUE
    /\ UNCHANGED <<offered, q, inFlight, notify, idleCh, runner, waiting, fate>>

\* WaitIdle: call, look at the queue, sleep on the token or the timer.
QueueWaitIdle(w) ==
    /\ waiting[w] = "out"
    /\ waiting' = [waiting EXCEPT ![w] = "check"]
    /\ UNCHANGED <<offered, q, inFlight, stopped, notify, idleCh, runner, stop, fate>>

WaitCheck(w) ==
    /\ waiting[w] = "check"
    /\ waiting' = [waiting EXCEPT ![w] = IF Idle THEN "out" ELSE "select"]
    /\ UNCHANGED <<offered, q, inFlight, stopped, notify, idleCh, runner, stop, fate>>

WaitToken(w) ==
    /\ waiting[w] = "select"
    /\ idleCh
    /\ idleCh' = FALSE
    /\ waiting' = [waiting EXCEPT ![w] = "check"]
    /\ UNCHANGED <<offered, q, inFlight, stopped, notify, runner, stop, fate>>

WaitTimer(w) ==
    /\ waiting[w] = "select"
    /\ waiting' = [waiting EXCEPT ![w] = "out"]
    /\ UNCHANGED <<offered, q, inFlight, stopped, notify, idleCh, runner, stop, fate>>

-----------------------------------------------------------------------------
RunnerStep == Pop \/ PopEmpty \/ Select \/ Finish \/ Poke

QueueNext ==
    \/ \E i \in Items : QueuePush(i)
    \/ RunnerStep
    \/ QueueStop
    \/ StopIfIdle
    \/ \E w \in QueueWaiters : QueueWaitIdle(w) \/ WaitCheck(w) \/ WaitToken(w) \/ WaitTimer(w)

QueueSpec == QueueInit /\ [][QueueNext]_queueVars

\* The runner runs and its turns return.  No fairness for the timer: what
\* follows does not lean on it.
QueueFairSpec ==
    /\ QueueSpec
    /\ WF_queueVars(RunnerStep)
    /\ \A w \in QueueWaiters : WF_queueVars(WaitCheck(w)) /\ WF_queueVars(WaitToken(w))
-----------------------------------------------------------------------------
(* Properties.                                                              *)

\* No item is in two places or in none: the queue holds exactly the items
\* accepted and not taken, oldest first, and one item is in flight exactly
\* while the runner holds it, as StopIfIdle and WaitIdle believe.
Accounted ==
    /\ {q[n] : n \in DOMAIN q} = {i \in Items : fate[i] = "queued"}
    /\ \A k, n \in DOMAIN q : k < n => q[k] < q[n]
    /\ {i \in Items : fate[i] = "popped"} =
           IF runner.pc = "run" THEN {runner.item} ELSE {}
    /\ inFlight <=> (runner.pc = "run")

\* "Non-sheddable items (real user turns) are never dropped": not by a push,
\* not at the cap; only Stop hands them back.  And only they make the queue
\* exceed its cap.
UserTurnsAreKept ==
    /\ \A i \in Items \ Sheddable : fate[i] \notin {"shed", "refused"}
    /\ Len(q) > Cap => ShedPositions = {}

\* The runner never sleeps on a queue that holds something, and a waiter does
\* not sleep on an idle one whose runner finished after it looked: the token
\* is there, or about to be.
NoLostWakeup ==
    /\ runner.pc = "select" /\ q # <<>> => notify
    /\ \A w \in QueueWaiters :
          (waiting[w] = "select" /\ Idle /\ ~stopped) => (idleCh \/ runner.pc = "poke")

\* The gap StopIfIdle is there to close: a closed queue is empty and stays so.
\* With its runner told to leave, an item in it would be nobody's.
ClosedQueueIsEmpty == stopped => q = <<>>

\* Nothing is stranded: no item outside the books or in a closed queue, and
\* nobody asleep who should be awake.
NothingStranded == Accounted /\ NoLostWakeup /\ ClosedQueueIsEmpty

\* Every accepted item leaves the queue.
AcceptedItemsLeave == \A i \in Items : (fate[i] = "queued") ~> (fate[i] # "queued")
=============================================================================
