---------------------------- MODULE ConvoTurns ----------------------------
(* The registry of in-flight turns of convo/active.go and the Supersede     *)
(* mode runner of convo/runner.go.                                          *)
(*                                                                          *)
(* One action is one critical section of Active.mu, one context cancel, one *)
(* session/cancel sent to the agent, or one step of a turn's own goroutine, *)
(* so every interleaving the locks admit is a behaviour.                    *)
(*                                                                          *)
(* A turn is named by the position at which it entered the registry: its    *)
(* Token, which the code draws before it takes the lock, is only ever       *)
(* compared for equality.                                                   *)
EXTENDS Naturals, FiniteSets

CONSTANTS
    Convs,      \* conversations
    NoConv,     \* "this claimer is not in Claim"
    MaxTurns,   \* bound: how many turns are ever registered
    Cancellers, \* goroutines that call Stop, CancelToken or CancelAll
    Claimers,   \* goroutines that call Claim
    Waiters,    \* goroutines that call WaitCancelled or Manager.WaitIdle
    Impatient   \* the claimers and waiters whose context may end

ASSUME MaxTurnsAssumption == MaxTurns \in Nat
ASSUME NoConvAssumption == NoConv \notin Convs
ASSUME ImpatientAssumption == Impatient \subseteq Claimers \cup Waiters

Turns == 1..MaxTurns
NoTurn == 0

VARIABLES
    born,       \* turns registered so far
    m,          \* Active.m: the registered turn of each conversation
    cancelled,  \* Active.cancelled: the turns WaitCancelled has to wait for
    conv,       \* Turn.Conv
    displaced,  \* Turn.displaced
    dead,       \* turns whose context is cancelled
    pc,         \* where the goroutine of each turn is
    canc,       \* the local state of Stop, CancelToken and CancelAll
    claim,      \* the conversation each claimer asks for
    wait,       \* the local state of WaitCancelled and Manager.WaitIdle; owed is
                \* history: the turns whose end the caller was promised
    ctxDone,    \* claimers and waiters whose context has ended
    parked,     \* goroutines in Active.cond.Wait
    stoppedBy   \* history: who deregistered the turn without its consent

turnVars == <<born, conv, displaced>>
vars == <<turnVars, m, cancelled, dead, pc, canc, claim, wait, ctxDone, parked,
          stoppedBy>>

TypeOK ==
    /\ born \in 0..MaxTurns
    /\ m \in [Convs -> Turns \cup {NoTurn}]
    /\ cancelled \subseteq Turns
    /\ conv \in [Turns -> Convs \cup {NoConv}]
    /\ displaced \in [Turns -> Turns \cup {NoTurn}]
    /\ dead \subseteq Turns
    /\ pc \in [Turns -> {"unborn", "firing", "notifying", "waiting",
                         "running", "unwinding", "done"}]
    /\ canc \in [Cancellers -> [pc: {"idle", "sweep", "fire", "notify"},
                                target: Turns \cup {NoTurn},
                                todo: SUBSET Turns]]
    /\ claim \in [Claimers -> Convs \cup {NoConv}]
    /\ wait \in [Waiters -> [pc: {"idle", "draining", "checking", "idling"},
                             todo: SUBSET Turns,
                             owed: SUBSET Turns]]
    /\ ctxDone \subseteq Impatient
    /\ parked \subseteq Claimers \cup Waiters
    /\ stoppedBy \in [Turns -> {"nobody", "Stop", "CancelAll"}]

Init ==
    /\ born = 0
    /\ m = [c \in Convs |-> NoTurn]
    /\ cancelled = {}
    /\ conv = [t \in Turns |-> NoConv]
    /\ displaced = [t \in Turns |-> NoTurn]
    /\ dead = {}
    /\ pc = [t \in Turns |-> "unborn"]
    /\ canc = [k \in Cancellers |-> [pc |-> "idle", target |-> NoTurn, todo |-> {}]]
    /\ claim = [p \in Claimers |-> NoConv]
    /\ wait = [w \in Waiters |-> [pc |-> "idle", todo |-> {}, owed |-> {}]]
    /\ ctxDone = {}
    /\ parked = {}
    /\ stoppedBy = [t \in Turns |-> "nobody"]

\* Turn.ended is closed.
Ended(t) == pc[t] \in {"unwinding", "done"}

\* The goroutine, or the Supersede call, of t still has something to do.
Live(t) == pc[t] \in {"firing", "notifying", "waiting", "running"}

\* newTurn and its registration: the next turn is c's, at control point at.
Register(c, d, at) ==
    LET t == born + 1
    IN  /\ born < MaxTurns
        /\ born' = t
        /\ conv' = [conv EXCEPT ![t] = c]
        /\ displaced' = [displaced EXCEPT ![t] = d]
        /\ pc' = [pc EXCEPT ![t] = at]
        /\ m' = [m EXCEPT ![c] = t]

\* Mutant: the entry goes and nobody is told.
Delete_NoBroadcast(c) ==
    /\ m' = [m EXCEPT ![c] = NoTurn]
    /\ UNCHANGED parked

\* delete(a.m, conv); a.cond.Broadcast()
Delete(c) ==
    /\ m' = [m EXCEPT ![c] = NoTurn]
    /\ parked' = {}

-----------------------------------------------------------------------------
(* A turn's own goroutine: Start, Supersede, exec and End.                  *)

\* Start in Supersede mode up to the unlock inside Supersede.  A turn that
\* displaces nobody has nobody to fire at and goes straight to exec.
Supersede(c) ==
    /\ Register(c, m[c], IF m[c] = NoTurn THEN "waiting" ELSE "firing")
    /\ parked' = {}
    /\ UNCHANGED <<cancelled, dead, canc, claim, wait, ctxDone, stoppedBy>>

\* Mutant: the agent is told, the context lives on.
SupersedeFire_NoCancel(t) ==
    /\ pc[t] = "firing"
    /\ pc' = [pc EXCEPT ![t] = "notifying"]
    /\ UNCHANGED <<turnVars, m, cancelled, dead, canc, claim, wait, ctxDone, parked, stoppedBy>>

\* fire(old), first half: the displaced turn's context is cancelled.
SupersedeFire(t) ==
    /\ pc[t] = "firing"
    /\ dead' = dead \cup {displaced[t]}
    /\ pc' = [pc EXCEPT ![t] = "notifying"]
    /\ UNCHANGED <<turnVars, m, cancelled, canc, claim, wait, ctxDone, parked, stoppedBy>>

\* fire(old), second half: OnCancel sends session/cancel for the
\* conversation, Supersede returns and Start launches exec.
SupersedeNotify(t) ==
    /\ pc[t] = "notifying"
    /\ pc' = [pc EXCEPT ![t] = "waiting"]
    /\ UNCHANGED <<turnVars, m, cancelled, dead, canc, claim, wait, ctxDone, parked, stoppedBy>>

\* Mutant: the new turn does not wait for the one it displaced.
Exec_NoWait(t) ==
    /\ pc[t] = "waiting"
    /\ pc' = [pc EXCEPT ![t] = IF t \in dead THEN "unwinding" ELSE "running"]
    /\ UNCHANGED <<turnVars, m, cancelled, dead, canc, claim, wait, ctxDone, parked, stoppedBy>>

\* Mutant: select on the predecessor and on the turn's own context.
Exec_SkipEarly(t) ==
    /\ pc[t] = "waiting"
    /\ \/ /\ displaced[t] # NoTurn => Ended(displaced[t])
          /\ pc' = [pc EXCEPT ![t] = "running"]
       \/ /\ t \in dead
          /\ pc' = [pc EXCEPT ![t] = "unwinding"]
    /\ UNCHANGED <<turnVars, m, cancelled, dead, canc, claim, wait, ctxDone, parked, stoppedBy>>

\* exec up to job.Run.  A turn that displaced nobody does not look at its
\* context; one that did first waits, and is skipped when it was cancelled.
Exec(t) ==
    /\ pc[t] = "waiting"
    /\ \/ /\ displaced[t] = NoTurn
          /\ pc' = [pc EXCEPT ![t] = "running"]
       \/ /\ displaced[t] # NoTurn
          /\ Ended(displaced[t])
          /\ pc' = [pc EXCEPT ![t] = IF t \in dead THEN "unwinding" ELSE "running"]
    /\ UNCHANGED <<turnVars, m, cancelled, dead, canc, claim, wait, ctxDone, parked, stoppedBy>>

\* job.Run returns; the deferred cancel and the close of Turn.ended.
Return(t) ==
    /\ pc[t] = "running"
    /\ dead' = dead \cup {t}
    /\ pc' = [pc EXCEPT ![t] = "unwinding"]
    /\ UNCHANGED <<turnVars, m, cancelled, canc, claim, wait, ctxDone, parked, stoppedBy>>

\* The critical section of End.
End(t) ==
    /\ pc[t] = "unwinding"
    /\ pc' = [pc EXCEPT ![t] = "done"]
    /\ IF m[conv[t]] = t THEN Delete(conv[t]) ELSE UNCHANGED <<m, parked>>
    /\ UNCHANGED <<turnVars, cancelled, dead, canc, claim, wait, ctxDone, stoppedBy>>

-----------------------------------------------------------------------------
(* Stop, CancelToken and CancelAll.                                         *)

\* Mutant: fire without looking whether there was a turn.
Stop_NoCheck(k, c) ==
    LET t == m[c]
    IN  /\ canc[k].pc = "idle"
        /\ Delete(c)
        /\ stoppedBy' = [stoppedBy EXCEPT ![t] = "Stop"]
        /\ canc' = [canc EXCEPT ![k] = [pc |-> "fire", target |-> t, todo |-> {}]]
        /\ UNCHANGED <<turnVars, cancelled, dead, pc, claim, wait, ctxDone>>

\* The critical section of Stop.  With nothing registered Stop does nothing.
Stop(k, c) ==
    LET t == m[c]
    IN  /\ canc[k].pc = "idle"
        /\ t # NoTurn
        /\ Delete(c)
        /\ stoppedBy' = [stoppedBy EXCEPT ![t] = "Stop"]
        /\ canc' = [canc EXCEPT ![k] = [pc |-> "fire", target |-> t, todo |-> {}]]
        /\ UNCHANGED <<turnVars, cancelled, dead, pc, claim, wait, ctxDone>>

\* CancelToken with the token of t: a stale token is a no-op, and the turn
\* stays registered.
CancelToken(k, t) ==
    /\ canc[k].pc = "idle"
    /\ pc[t] # "unborn"
    /\ m[conv[t]] = t
    /\ canc' = [canc EXCEPT ![k] = [pc |-> "fire", target |-> t, todo |-> {}]]
    /\ UNCHANGED <<turnVars, m, cancelled, dead, pc, claim, wait, ctxDone, parked, stoppedBy>>

\* fire, first half.
CancelFire(k) ==
    /\ canc[k].pc = "fire"
    /\ dead' = dead \cup {canc[k].target}
    /\ canc' = [canc EXCEPT ![k].pc = "notify"]
    /\ UNCHANGED <<turnVars, m, cancelled, pc, claim, wait, ctxDone, parked, stoppedBy>>

\* fire, second half; CancelAll goes on with its loop.
CancelNotify(k) ==
    /\ canc[k].pc = "notify"
    /\ canc' = [canc EXCEPT ![k].pc = IF canc[k].todo = {} THEN "idle" ELSE "sweep"]
    /\ UNCHANGED <<turnVars, m, cancelled, dead, pc, claim, wait, ctxDone, parked, stoppedBy>>

\* The first critical section of CancelAll: the snapshot, and the list of
\* WaitCancelled less the turns that have unwound.
CancelAll(k) ==
    LET ts == {t \in Turns : \E c \in Convs : m[c] = t}
    IN  /\ canc[k].pc = "idle"
        /\ ts # {}
        /\ cancelled' = {t \in cancelled : ~Ended(t)} \cup ts
        /\ canc' = [canc EXCEPT ![k] = [pc |-> "sweep", target |-> NoTurn, todo |-> ts]]
        /\ UNCHANGED <<turnVars, m, dead, pc, claim, wait, ctxDone, parked, stoppedBy>>

\* One iteration of CancelAll's loop: t is stopped if it is still registered.
Sweep(k, t) ==
    /\ canc[k].pc = "sweep"
    /\ t \in canc[k].todo
    /\ LET rest == canc[k].todo \ {t}
       IN  \/ /\ m[conv[t]] = t
              /\ Delete(conv[t])
              /\ stoppedBy' = [stoppedBy EXCEPT ![t] = "CancelAll"]
              /\ canc' = [canc EXCEPT ![k] = [pc |-> "fire", target |-> t, todo |-> rest]]
           \/ /\ m[conv[t]] # t
              /\ canc' = [canc EXCEPT ![k] = [pc |-> IF rest = {} THEN "idle" ELSE "sweep",
                                              target |-> NoTurn, todo |-> rest]]
              /\ UNCHANGED <<m, parked, stoppedBy>>
    /\ UNCHANGED <<turnVars, cancelled, dead, pc, claim, wait, ctxDone>>

-----------------------------------------------------------------------------
(* Claim: a turn that must not supersede another.                           *)

ClaimCall(p, c) ==
    /\ claim[p] = NoConv
    /\ claim' = [claim EXCEPT ![p] = c]
    /\ UNCHANGED <<turnVars, m, cancelled, dead, pc, canc, wait, ctxDone, parked, stoppedBy>>

\* One pass of Claim's loop that registers: the caller runs the turn itself.
ClaimGrant(p) ==
    /\ claim[p] # NoConv
    /\ p \notin parked \cup ctxDone
    /\ m[claim[p]] = NoTurn
    /\ Register(claim[p], NoTurn, "running")
    /\ claim' = [claim EXCEPT ![p] = NoConv]
    /\ UNCHANGED <<cancelled, dead, canc, wait, ctxDone, parked, stoppedBy>>

\* One pass that finds the conversation busy.
ClaimPark(p) ==
    /\ claim[p] # NoConv
    /\ p \notin parked \cup ctxDone
    /\ m[claim[p]] # NoTurn
    /\ parked' = parked \cup {p}
    /\ UNCHANGED <<turnVars, m, cancelled, dead, pc, canc, claim, wait, ctxDone, stoppedBy>>

\* The loop ends because the context did.
ClaimGiveUp(p) ==
    /\ claim[p] # NoConv
    /\ p \notin parked
    /\ p \in ctxDone
    /\ claim' = [claim EXCEPT ![p] = NoConv]
    /\ ctxDone' = ctxDone \ {p}
    /\ UNCHANGED <<turnVars, m, cancelled, dead, pc, canc, wait, parked, stoppedBy>>

-----------------------------------------------------------------------------
(* WaitCancelled and the WaitIdle it ends with.                             *)

\* The list is taken, not copied.
WaitCancelled(w) ==
    /\ wait[w].pc = "idle"
    /\ wait' = [wait EXCEPT ![w] =
           [pc |-> "draining", todo |-> cancelled,
            owed |-> {t \in Turns : stoppedBy[t] = "CancelAll" /\ ~Ended(t)}]]
    /\ cancelled' = {}
    /\ UNCHANGED <<turnVars, m, dead, pc, canc, claim, ctxDone, parked, stoppedBy>>

\* Mutant: one unwound turn is enough.
Drained_Any(w) ==
    /\ wait[w].pc = "draining"
    /\ wait[w].todo = {} \/ \E t \in wait[w].todo : Ended(t)
    /\ wait' = [wait EXCEPT ![w].pc = "checking", ![w].todo = {}]
    /\ UNCHANGED <<turnVars, m, cancelled, dead, pc, canc, claim, ctxDone, parked, stoppedBy>>

\* The loop over the list: all of it has ended, or the context has.
Drained(w) ==
    /\ wait[w].pc = "draining"
    /\ \/ /\ \A t \in wait[w].todo : Ended(t)
          /\ wait' = [wait EXCEPT ![w].pc = "checking", ![w].todo = {}]
          /\ UNCHANGED ctxDone
       \/ /\ w \in ctxDone
          /\ \E t \in wait[w].todo : ~Ended(t)
          /\ wait' = [wait EXCEPT ![w] = [pc |-> "idle", todo |-> {}, owed |-> {}]]
          /\ ctxDone' = ctxDone \ {w}
    /\ UNCHANGED <<turnVars, m, cancelled, dead, pc, canc, claim, parked, stoppedBy>>

\* Manager.WaitIdle in Supersede mode: its lanes are empty.
ManagerWaitIdle(w) ==
    /\ wait[w].pc = "idle"
    /\ wait' = [wait EXCEPT ![w] =
           [pc |-> "idling", todo |-> {}, owed |-> {t \in Turns : Live(t)}]]
    /\ UNCHANGED <<turnVars, m, cancelled, dead, pc, canc, claim, ctxDone, parked, stoppedBy>>

\* One pass of WaitIdle's loop; with its context over it returns the error.
WaitIdle(w) ==
    /\ wait[w].pc \in {"checking", "idling"}
    /\ w \notin parked
    /\ IF w \in ctxDone \/ \A c \in Convs : m[c] = NoTurn
       THEN /\ wait' = [wait EXCEPT ![w] = [pc |-> "idle", todo |-> {}, owed |-> {}]]
            /\ ctxDone' = ctxDone \ {w}
            /\ UNCHANGED parked
       ELSE /\ parked' = parked \cup {w}
            /\ UNCHANGED <<wait, ctxDone>>
    /\ UNCHANGED <<turnVars, m, cancelled, dead, pc, canc, claim, stoppedBy>>

\* The context of a caller of Claim or WaitCancelled ends.
ContextEnds(p) ==
    /\ p \in Impatient \ ctxDone
    /\ \/ p \in Claimers /\ claim[p] # NoConv
       \/ p \in Waiters /\ wait[p].pc # "idle"
    /\ ctxDone' = ctxDone \cup {p}
    /\ UNCHANGED <<turnVars, m, cancelled, dead, pc, canc, claim, wait, parked, stoppedBy>>

\* The helper goroutine of wakeOnDone, when it matters: its caller is parked.
WakeOnDone(p) ==
    /\ p \in ctxDone \cap parked
    /\ parked' = {}
    /\ UNCHANGED <<turnVars, m, cancelled, dead, pc, canc, claim, wait, ctxDone, stoppedBy>>

-----------------------------------------------------------------------------
TurnStep(t) ==
    \/ SupersedeFire(t)
    \/ SupersedeNotify(t)
    \/ Exec(t)
    \/ Return(t)
    \/ End(t)

CancelStep(k) ==
    \/ CancelFire(k)
    \/ CancelNotify(k)
    \/ \E t \in Turns : Sweep(k, t)

ClaimStep(p) == ClaimGrant(p) \/ ClaimPark(p) \/ ClaimGiveUp(p)

WaitStep(w) == Drained(w) \/ WaitIdle(w)

Call ==
    \/ \E c \in Convs : Supersede(c)
    \/ \E k \in Cancellers, c \in Convs : Stop(k, c)
    \/ \E k \in Cancellers, t \in Turns : CancelToken(k, t)
    \/ \E k \in Cancellers : CancelAll(k)
    \/ \E p \in Claimers, c \in Convs : ClaimCall(p, c)
    \/ \E w \in Waiters : WaitCancelled(w) \/ ManagerWaitIdle(w)
    \/ \E p \in Impatient : ContextEnds(p)

Next ==
    \/ Call
    \/ \E t \in Turns : TurnStep(t)
    \/ \E k \in Cancellers : CancelStep(k)
    \/ \E p \in Claimers : ClaimStep(p)
    \/ \E w \in Waiters : WaitStep(w)
    \/ \E p \in Impatient : WakeOnDone(p)

Spec == Init /\ [][Next]_vars

\* Nobody is obliged to call anything, and a turn nobody cancelled may run
\* for ever; a goroutine that can take a step does, and a job whose context
\* is cancelled returns.
Fairness ==
    /\ \A t \in Turns : /\ WF_vars(SupersedeFire(t) \/ SupersedeNotify(t) \/ Exec(t) \/ End(t))
                        /\ WF_vars(t \in dead /\ Return(t))
    /\ \A k \in Cancellers : WF_vars(CancelStep(k))
    /\ \A p \in Claimers : WF_vars(ClaimStep(p))
    /\ \A w \in Waiters : WF_vars(WaitStep(w))
    /\ \A p \in Impatient : WF_vars(WakeOnDone(p))

FairSpec == Spec /\ Fairness
-----------------------------------------------------------------------------
(* Properties.                                                              *)

\* u is an older turn of v's conversation and neither u nor any turn between
\* them was taken out of the registry by Stop or CancelAll.
Linked(u, v) ==
    /\ u < v
    /\ conv[u] = conv[v]
    /\ pc[u] # "unborn" /\ pc[v] # "unborn"
    /\ \A s \in u..(v - 1) : conv[s] = conv[u] => stoppedBy[s] = "nobody"

\* Start's "a burst of follow-ups can never leave two turns running" and
\* exec's "the agent never gets the new prompt while it still runs the
\* cancelled one": two turns of a conversation run at once only when Stop or
\* CancelAll cut the chain between them.
OneTurnAtATime ==
    \A u, v \in Turns : Linked(u, v) => ~(pc[u] = "running" /\ pc[v] = "running")

\* exec's "it still ends only after its predecessor: the turn that displaced
\* it waits on the whole chain": a turn, run or skipped, has ended only if
\* every older turn of its chain has.
ChainEndsInOrder ==
    \A u, v \in Turns : Linked(u, v) /\ Ended(v) => Ended(u)

\* A turn that lost its place in the registry is never left running: its
\* context is cancelled, or the goroutine that displaced or stopped it is
\* about to cancel it.
NoOrphan ==
    \A t \in Turns :
        Live(t) /\ m[conv[t]] # t =>
            \/ t \in dead
            \/ \E v \in Turns : pc[v] = "firing" /\ displaced[v] = t
            \/ \E k \in Cancellers : canc[k].pc = "fire" /\ canc[k].target = t

\* The session/cancel of a superseding turn goes to the conversation, not to
\* a turn.  It still never reaches the superseding turn itself or a later
\* one of the chain, because exec starts only after it was sent and whoever
\* comes later waits on exec.
SupersedeCancelsNoSuccessor ==
    [][\A t \in Turns : SupersedeNotify(t) =>
           \A v \in Turns : (v = t \/ Linked(t, v)) => pc[v] # "running"]_vars

\* No lost wakeup: a goroutine parked on the condition variable of Active
\* still has something to wait for.
ParkedForAReason ==
    /\ \A p \in parked \cap Claimers : claim[p] # NoConv /\ m[claim[p]] # NoTurn
    /\ \A w \in parked \cap Waiters : \E c \in Convs : m[c] # NoTurn

\* WaitCancelled "blocks until every turn CancelAll stopped has unwound, then
\* until nothing is registered" (active.go:252): when it returns nil, every
\* turn a CancelAll had deregistered before the call has ended.
WaitCancelledIsComplete ==
    [][\A w \in Waiters :
           (wait[w].pc = "checking" /\ wait'[w].pc = "idle" /\ w \notin ctxDone)
           => \A t \in wait[w].owed : Ended(t)]_vars

\* Whoever sleeps in Active has something to wait for, and a WaitCancelled that
\* returns waited for everything it should have.
WaitersAreServed == []ParkedForAReason /\ WaitCancelledIsComplete

\* Manager.WaitIdle "blocks until no turn is running or queued" (runner.go:75):
\* when it returns nil, every turn that was live at the call has ended.
WaitIdleIsComplete ==
    [][\A w \in Waiters :
           (wait[w].pc = "idling" /\ wait'[w].pc = "idle" /\ w \notin ctxDone)
           => \A t \in wait[w].owed : Ended(t)]_vars

\* CHANGELOG.md:65 and exec: "A turn that is superseded while it waits never
\* runs."
SupersededNeverRuns ==
    [][\A t \in Turns :
           (pc[t] = "waiting" /\ displaced[t] # NoTurn /\ pc'[t] = "running")
           => ~\E v \in Turns : v > t /\ displaced[v] = t]_vars

\* Turns that were displaced or stopped unwind, even when the turn they wait
\* for is itself several supersedes back: of finitely many turns only
\* registered ones are left alive in the end.
DisplacedTurnsUnwind == <>[](\A t \in Turns : Live(t) => m[conv[t]] = t)
=============================================================================
