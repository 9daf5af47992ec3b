-------------------------- MODULE ConvoTurnsProofs --------------------------
(* Theorems about the registry of turns, for every number of conversations, *)
(* turns and goroutines.  The argument is in the conjunct Chain: a live     *)
(* turn u holds back every later turn v of its chain, because v waits for a *)
(* turn that is itself u or held back by u.                                 *)
EXTENDS ConvoTurns, TLAPS

\* What is known of a turn by its position, and of a registered turn.
Births ==
    /\ \A t \in Turns : (pc[t] = "unborn") <=> (t > born)
    /\ \A t \in Turns : t <= born => conv[t] \in Convs
    /\ \A t \in Turns : t > born => conv[t] = NoConv /\ stoppedBy[t] = "nobody"

\* CancelAll's snapshot holds turns that were registered.
Snapshots == \A k \in Cancellers : \A t \in canc[k].todo : t <= born

Registered ==
    \A c \in Convs : m[c] # NoTurn =>
        /\ m[c] <= born
        /\ conv[m[c]] = c
        /\ stoppedBy[m[c]] = "nobody"
        /\ \A t \in Turns : conv[t] = c => t <= m[c]

\* Stop or CancelAll took a turn of u's conversation, u or a later one before
\* v, out of the registry.
Cut(u, v) == \E s \in u..(v - 1) : conv[s] = conv[u] /\ stoppedBy[s] # "nobody"

\* A live turn whose conversation has no registered turn was cut off.
CutOff ==
    \A u \in Turns :
        u <= born /\ ~Ended(u) /\ m[conv[u]] = NoTurn => Cut(u, born + 1)

\* v waits for a turn that is u or younger.
HeldBack(u, v) ==
    /\ pc[v] \in {"firing", "notifying", "waiting"}
    /\ displaced[v] \in u..(v - 1)
    /\ conv[displaced[v]] = conv[v]
    /\ ~Ended(displaced[v])

Chain ==
    \A u, v \in Turns :
        u < v /\ v <= born /\ conv[u] = conv[v] /\ ~Ended(u) /\ ~Cut(u, v) => HeldBack(u, v)

\* A goroutine about to fire has a turn to fire at.
Targets ==
    /\ \A t \in Turns : pc[t] \in {"firing", "notifying"} => displaced[t] # NoTurn
    /\ \A k \in Cancellers : canc[k].pc \in {"fire", "notify"} => canc[k].target # NoTurn

TypeInv == TypeOK /\ Targets

IInv == TypeInv /\ Births /\ Snapshots /\ Registered /\ CutOff /\ Chain
-----------------------------------------------------------------------------
LEMMA InitTypeInv == Init => TypeInv
  BY MaxTurnsAssumption DEF Init, TypeInv, TypeOK, Targets, Turns, NoTurn

\* Typing is preserved, a turn's own goroutine first.
LEMMA TurnStepTypeInv ==
  ASSUME TypeInv, NEW t \in Turns, TurnStep(t)
  PROVE  TypeInv'
<1> USE MaxTurnsAssumption DEF TypeInv, TypeOK, Targets, Turns, NoTurn
<1>1. CASE SupersedeFire(t) BY <1>1 DEF SupersedeFire, turnVars
<1>2. CASE SupersedeNotify(t) BY <1>2 DEF SupersedeNotify, turnVars
<1>3. CASE Exec(t) BY <1>3 DEF Exec, turnVars
<1>4. CASE Return(t) BY <1>4 DEF Return, turnVars
<1>5. CASE End(t) BY <1>5 DEF End, Delete, turnVars
<1> QED BY <1>1, <1>2, <1>3, <1>4, <1>5 DEF TurnStep

LEMMA CancelStepTypeInv ==
  ASSUME TypeInv, NEW k \in Cancellers, CancelStep(k)
  PROVE  TypeInv'
<1> DEFINE Pcs == {"idle", "sweep", "fire", "notify"}
           Local == [pc: Pcs, target: Turns \cup {NoTurn}, todo: SUBSET Turns]
<1>a. canc \in [Cancellers -> Local]
  BY DEF TypeInv, TypeOK
<1>b. canc[k] \in Local
  BY <1>a
<1>c. ASSUME NEW at \in Pcs, canc' = [canc EXCEPT ![k].pc = at]
      PROVE  /\ canc' \in [Cancellers -> Local]
             /\ canc'[k].pc = at
             /\ canc'[k].target = canc[k].target
             /\ \A j \in Cancellers \ {k} : canc'[j] = canc[j]
  BY <1>a, <1>b, <1>c
<1>1. CASE CancelFire(k)
  <2>1. canc[k].pc = "fire" /\ canc' = [canc EXCEPT ![k].pc = "notify"]
    BY <1>1 DEF CancelFire
  <2>2. /\ canc' \in [Cancellers -> Local]
        /\ canc'[k].pc = "notify" /\ canc'[k].target = canc[k].target
        /\ \A j \in Cancellers \ {k} : canc'[j] = canc[j]
    BY <2>1, <1>c
  <2>3. canc[k].target \in Turns
    BY <2>1, <1>b DEF TypeInv, Targets
  <2>4. TypeOK'
    BY <1>1, <2>2, <2>3 DEF CancelFire, TypeInv, TypeOK, turnVars
  <2>5. Targets'
    BY <1>1, <2>1, <2>2 DEF CancelFire, TypeInv, Targets, turnVars
  <2> QED BY <2>4, <2>5 DEF TypeInv
<1>2. CASE CancelNotify(k)
  <2>1. PICK at \in {"idle", "sweep"} : canc' = [canc EXCEPT ![k].pc = at]
    BY <1>2 DEF CancelNotify
  <2>2. /\ canc' \in [Cancellers -> Local]
        /\ canc'[k].pc = at /\ canc'[k].target = canc[k].target
        /\ \A j \in Cancellers \ {k} : canc'[j] = canc[j]
    BY <2>1, <1>c
  <2>3. TypeOK'
    BY <1>2, <2>2 DEF CancelNotify, TypeInv, TypeOK, turnVars
  <2>4. Targets'
    BY <1>2, <2>2 DEF CancelNotify, TypeInv, Targets, turnVars
  <2> QED BY <2>3, <2>4 DEF TypeInv
<1>3. ASSUME NEW t \in Turns, Sweep(k, t) PROVE TypeInv'
  <2>1. PICK r \in Local : canc' = [canc EXCEPT ![k] = r] /\ (r.pc = "fire" => r.target = t)
                           /\ r.pc # "notify"
    <3> DEFINE rest == canc[k].todo \ {t}
    <3>1. rest \in SUBSET Turns
      BY <1>b
    <3>2. CASE m[conv[t]] = t
      <4> DEFINE r == [pc |-> "fire", target |-> t, todo |-> rest]
      <4>1. r \in Local
        BY <3>1
      <4>2. canc' = [canc EXCEPT ![k] = r]
        BY <1>3, <3>2 DEF Sweep
      <4> QED BY <4>1, <4>2
    <3>3. CASE m[conv[t]] # t
      <4> DEFINE r == [pc |-> IF rest = {} THEN "idle" ELSE "sweep",
                       target |-> NoTurn, todo |-> rest]
      <4>1. r \in Local
        BY <3>1
      <4>2. canc' = [canc EXCEPT ![k] = r]
        BY <1>3, <3>3 DEF Sweep
      <4> QED BY <4>1, <4>2
    <3> QED BY <3>2, <3>3
  <2>2. /\ canc' \in [Cancellers -> Local]
        /\ canc'[k] = r
        /\ \A j \in Cancellers \ {k} : canc'[j] = canc[j]
    BY <2>1, <1>a
  <2>3. TypeOK'
    BY <1>3, <2>2 DEF Sweep, Delete, TypeInv, TypeOK, turnVars
  <2>4. Targets'
    BY <1>3, <2>1, <2>2 DEF Sweep, TypeInv, Targets, turnVars, Turns, NoTurn
  <2> QED BY <2>3, <2>4 DEF TypeInv
<1> QED BY <1>1, <1>2, <1>3 DEF CancelStep

LEMMA CallTypeInv ==
  ASSUME TypeInv, Call
  PROVE  TypeInv'
<1> USE MaxTurnsAssumption, ImpatientAssumption DEF TypeInv, TypeOK, Targets, Turns, NoTurn
<1>1. ASSUME NEW c \in Convs, Supersede(c) PROVE TypeInv'
  BY <1>1 DEF Supersede, Register
<1>2. ASSUME NEW k \in Cancellers, NEW c \in Convs, Stop(k, c) PROVE TypeInv'
  BY <1>2 DEF Stop, Delete, turnVars
<1>3. ASSUME NEW k \in Cancellers, NEW t \in Turns, CancelToken(k, t) PROVE TypeInv'
  BY <1>3 DEF CancelToken, turnVars
<1>4. ASSUME NEW k \in Cancellers, CancelAll(k) PROVE TypeInv'
  BY <1>4 DEF CancelAll, turnVars
<1>5. ASSUME NEW p \in Claimers, NEW c \in Convs, ClaimCall(p, c) PROVE TypeInv'
  BY <1>5 DEF ClaimCall, turnVars
<1>6. ASSUME NEW w \in Waiters, WaitCancelled(w) \/ ManagerWaitIdle(w) PROVE TypeInv'
  <2>1. CASE WaitCancelled(w) BY <2>1 DEF WaitCancelled, turnVars
  <2>2. CASE ManagerWaitIdle(w) BY <2>2 DEF ManagerWaitIdle, turnVars
  <2> QED BY <1>6, <2>1, <2>2
<1>7. ASSUME NEW p \in Impatient, ContextEnds(p) PROVE TypeInv'
  BY <1>7 DEF ContextEnds, turnVars
<1> QED BY <1>1, <1>2, <1>3, <1>4, <1>5, <1>6, <1>7 DEF Call

LEMMA WaiterStepTypeInv ==
  ASSUME TypeInv,
         \/ \E p \in Claimers : ClaimStep(p)
         \/ \E w \in Waiters : WaitStep(w)
         \/ \E p \in Impatient : WakeOnDone(p)
  PROVE  TypeInv'
<1> USE MaxTurnsAssumption, ImpatientAssumption DEF TypeInv, TypeOK, Targets, Turns, NoTurn
<1>1. ASSUME NEW p \in Claimers, ClaimGrant(p) PROVE TypeInv'
  BY <1>1 DEF ClaimGrant, Register
<1>2. ASSUME NEW p \in Claimers, ClaimPark(p) PROVE TypeInv'
  BY <1>2 DEF ClaimPark, turnVars
<1>3. ASSUME NEW p \in Claimers, ClaimGiveUp(p) PROVE TypeInv'
  BY <1>3 DEF ClaimGiveUp, turnVars
<1>4. ASSUME NEW w \in Waiters, Drained(w) PROVE TypeInv'
  <2> DEFINE Local == [pc: {"idle", "draining", "checking", "idling"}, todo: SUBSET Turns,
                       owed: SUBSET Turns]
  <2>1. wait \in [Waiters -> Local] /\ wait[w] \in Local
    OBVIOUS
  <2>2. wait' \in [Waiters -> Local]
    <3>1. CASE wait' = [wait EXCEPT ![w].pc = "checking", ![w].todo = {}]
      <4> DEFINE r == [wait[w] EXCEPT !.pc = "checking", !.todo = {}]
      <4>1. r \in Local
        BY <2>1
      <4>2. wait' = [wait EXCEPT ![w] = r]
        BY <3>1, <2>1
      <4> QED BY <4>1, <4>2, <2>1
    <3>2. CASE wait' = [wait EXCEPT ![w] = [pc |-> "idle", todo |-> {}, owed |-> {}]]
      BY <3>2, <2>1
    <3> QED BY <1>4, <3>1, <3>2 DEF Drained
  <2> QED BY <1>4, <2>2 DEF Drained, turnVars
<1>5. ASSUME NEW w \in Waiters, WaitIdle(w) PROVE TypeInv'
  <2> DEFINE Local == [pc: {"idle", "draining", "checking", "idling"}, todo: SUBSET Turns,
                       owed: SUBSET Turns]
  <2>1. wait' \in [Waiters -> Local]
    <3>1. [pc |-> "idle", todo |-> {}, owed |-> {}] \in Local
      OBVIOUS
    <3>2. wait \in [Waiters -> Local]
      OBVIOUS
    <3> QED BY <1>5, <3>1, <3>2 DEF WaitIdle
  <2>2. ctxDone' \subseteq Impatient /\ parked' \subseteq Claimers \cup Waiters
    BY <1>5 DEF WaitIdle
  <2> QED BY <1>5, <2>1, <2>2 DEF WaitIdle, turnVars
<1>6. ASSUME NEW p \in Impatient, WakeOnDone(p) PROVE TypeInv'
  BY <1>6 DEF WakeOnDone, turnVars
<1> QED BY <1>1, <1>2, <1>3, <1>4, <1>5, <1>6 DEF ClaimStep, WaitStep

LEMMA NextTypeInv == TypeInv /\ [Next]_vars => TypeInv'
<1> SUFFICES ASSUME TypeInv, [Next]_vars PROVE TypeInv'
  OBVIOUS
<1>1. CASE Next
  BY <1>1, CallTypeInv, TurnStepTypeInv, CancelStepTypeInv, WaiterStepTypeInv DEF Next
<1>2. CASE UNCHANGED vars
  BY <1>2 DEF vars, turnVars, TypeInv, TypeOK, Targets, Turns, NoTurn
<1> QED BY <1>1, <1>2

\* The state keeps its types: in particular a context that is cancelled is
\* always a turn's, so no fire is ever aimed at "no turn".
THEOREM TypeCorrect == Spec => []TypeOK
<1>1. TypeInv => TypeOK BY DEF TypeInv
<1> QED BY <1>1, InitTypeInv, NextTypeInv, PTL DEF Spec
-----------------------------------------------------------------------------
(* The inductive step of Births, Registered, CutOff and Chain.  They speak  *)
(* of six variables; every action changes those in one of five ways.        *)
chainVars == <<born, m, conv, displaced, pc, stoppedBy>>

\* A new turn of c, displacing the registered one if there is one.
Entry(c) ==
    /\ Register(c, m[c], IF m[c] = NoTurn THEN pc'[born + 1] ELSE "firing")
    /\ pc'[born + 1] \in {"firing", "waiting", "running"}
    /\ UNCHANGED stoppedBy

\* t moves on before its End: it unwinds only from "running", or from
\* "waiting" when its predecessor has ended.
Move(t) ==
    /\ \/ pc[t] = "firing" /\ pc' = [pc EXCEPT ![t] = "notifying"]
       \/ pc[t] = "notifying" /\ pc' = [pc EXCEPT ![t] = "waiting"]
       \/ /\ pc[t] = "waiting"
          /\ displaced[t] = NoTurn \/ Ended(displaced[t])
          /\ \E at \in {"running", "unwinding"} : pc' = [pc EXCEPT ![t] = at]
       \/ pc[t] = "running" /\ pc' = [pc EXCEPT ![t] = "unwinding"]
    /\ UNCHANGED <<born, m, conv, displaced, stoppedBy>>

\* The critical section of End.
Leave(t) ==
    /\ pc[t] = "unwinding"
    /\ pc' = [pc EXCEPT ![t] = "done"]
    /\ m' = IF m[conv[t]] = t THEN [m EXCEPT ![conv[t]] = NoTurn] ELSE m
    /\ UNCHANGED <<born, conv, displaced, stoppedBy>>

\* Stop or CancelAll takes the registered turn of c out.
TakeOut(c) ==
    /\ m[c] # NoTurn
    /\ m' = [m EXCEPT ![c] = NoTurn]
    /\ \E by \in {"Stop", "CancelAll"} : stoppedBy' = [stoppedBy EXCEPT ![m[c]] = by]
    /\ UNCHANGED <<born, conv, displaced, pc>>

LEMMA Effects ==
  ASSUME TypeInv, Births, Snapshots, [Next]_vars
  PROVE  \/ UNCHANGED chainVars
         \/ \E c \in Convs : Entry(c) \/ TakeOut(c)
         \/ \E t \in Turns : Move(t) \/ Leave(t)
<1> USE MaxTurnsAssumption DEF TypeInv, TypeOK, Turns, NoTurn
<1>1. ASSUME NEW c \in Convs, Supersede(c) PROVE Entry(c)
  <2>1. pc'[born + 1] = IF m[c] = NoTurn THEN "waiting" ELSE "firing"
    BY <1>1 DEF Supersede, Register
  <2> QED BY <1>1, <2>1 DEF Supersede, Register, Entry
<1>2. ASSUME NEW p \in Claimers, ClaimGrant(p) PROVE Entry(claim[p])
  <2>1. pc'[born + 1] = "running" /\ m[claim[p]] = NoTurn
    BY <1>2 DEF ClaimGrant, Register
  <2> QED BY <1>2, <2>1 DEF ClaimGrant, Register, Entry
<1>3. ASSUME NEW k \in Cancellers, NEW c \in Convs, Stop(k, c) PROVE TakeOut(c)
  BY <1>3 DEF Stop, Delete, TakeOut, turnVars
<1>4. ASSUME NEW k \in Cancellers, NEW t \in Turns, Sweep(k, t)
      PROVE  UNCHANGED chainVars \/ \E c \in Convs : TakeOut(c)
  <2>1. CASE m[conv[t]] = t /\ conv[t] \in Convs
    <3>1. TakeOut(conv[t])
      BY <1>4, <2>1 DEF Sweep, Delete, TakeOut, turnVars
    <3> QED BY <2>1, <3>1
  <2>2. CASE m[conv[t]] # t
    BY <1>4, <2>2 DEF Sweep, chainVars, turnVars
  <2>3. CASE m[conv[t]] = t /\ conv[t] \notin Convs
    <3>1. t <= born
      BY <1>4 DEF Sweep, Snapshots
    <3> QED BY <2>3, <3>1 DEF Births
  <2> QED BY <2>1, <2>2, <2>3
<1>5. ASSUME NEW t \in Turns, TurnStep(t) PROVE Move(t) \/ Leave(t)
  <2>1. CASE SupersedeFire(t) BY <2>1 DEF SupersedeFire, Move, turnVars
  <2>2. CASE SupersedeNotify(t) BY <2>2 DEF SupersedeNotify, Move, turnVars
  <2>3. CASE Exec(t) BY <2>3 DEF Exec, Move, turnVars
  <2>4. CASE Return(t) BY <2>4 DEF Return, Move, turnVars
  <2>5. CASE End(t) BY <2>5 DEF End, Delete, Leave, turnVars
  <2> QED BY <1>5, <2>1, <2>2, <2>3, <2>4, <2>5 DEF TurnStep
<1>6. CASE Call
  <2>1. ASSUME NEW k \in Cancellers, NEW t \in Turns, CancelToken(k, t)
        PROVE  UNCHANGED chainVars
    BY <2>1 DEF CancelToken, turnVars, chainVars
  <2>2. ASSUME NEW k \in Cancellers, CancelAll(k) PROVE UNCHANGED chainVars
    BY <2>2 DEF CancelAll, turnVars, chainVars
  <2>3. ASSUME NEW p \in Claimers, NEW c \in Convs, ClaimCall(p, c)
        PROVE  UNCHANGED chainVars
    BY <2>3 DEF ClaimCall, turnVars, chainVars
  <2>4. ASSUME NEW w \in Waiters, WaitCancelled(w) \/ ManagerWaitIdle(w)
        PROVE  UNCHANGED chainVars
    BY <2>4 DEF WaitCancelled, ManagerWaitIdle, turnVars, chainVars
  <2>5. ASSUME NEW p \in Impatient, ContextEnds(p) PROVE UNCHANGED chainVars
    BY <2>5 DEF ContextEnds, turnVars, chainVars
  <2> QED BY <1>6, <1>1, <1>3, <2>1, <2>2, <2>3, <2>4, <2>5 DEF Call
<1>7. ASSUME NEW k \in Cancellers, CancelStep(k)
      PROVE  UNCHANGED chainVars \/ \E c \in Convs : TakeOut(c)
  <2>1. CASE CancelFire(k) BY <2>1 DEF CancelFire, turnVars, chainVars
  <2>2. CASE CancelNotify(k) BY <2>2 DEF CancelNotify, turnVars, chainVars
  <2> QED BY <1>7, <1>4, <2>1, <2>2 DEF CancelStep
<1>8. ASSUME NEW p \in Claimers, ClaimStep(p)
      PROVE  UNCHANGED chainVars \/ \E c \in Convs : Entry(c)
  <2>1. CASE ClaimGrant(p)
    <3>1. claim[p] \in Convs
      BY <2>1 DEF ClaimGrant
    <3> QED BY <2>1, <1>2, <3>1
  <2>2. CASE ClaimPark(p) BY <2>2 DEF ClaimPark, turnVars, chainVars
  <2>3. CASE ClaimGiveUp(p) BY <2>3 DEF ClaimGiveUp, turnVars, chainVars
  <2> QED BY <1>8, <2>1, <2>2, <2>3 DEF ClaimStep
<1>9. ASSUME NEW w \in Waiters, WaitStep(w) PROVE UNCHANGED chainVars
  <2>1. CASE Drained(w) BY <2>1 DEF Drained, turnVars, chainVars
  <2>2. CASE WaitIdle(w) BY <2>2 DEF WaitIdle, turnVars, chainVars
  <2> QED BY <1>9, <2>1, <2>2 DEF WaitStep
<1>10. ASSUME NEW p \in Impatient, WakeOnDone(p) PROVE UNCHANGED chainVars
  BY <1>10 DEF WakeOnDone, turnVars, chainVars
<1>11. CASE UNCHANGED vars
  BY <1>11 DEF vars, turnVars, chainVars
<1> QED BY <1>5, <1>6, <1>7, <1>8, <1>9, <1>10, <1>11 DEF Next

\* CancelAll's snapshot is taken from the registry, and turns are not unborn.
LEMMA SnapshotsStep ==
  ASSUME TypeInv, Births, Snapshots, Registered, [Next]_vars
  PROVE  Snapshots'
<1> USE MaxTurnsAssumption DEF TypeInv, TypeOK, Turns, NoTurn
<1>1. born <= born'
  BY Effects DEF chainVars, Entry, Register, TakeOut, Move, Leave
<1>2. ASSUME NEW k \in Cancellers, NEW t \in canc'[k].todo
      PROVE  t \in canc[k].todo \/ \E c \in Convs : m[c] = t /\ m[c] # NoTurn
  <2> SUFFICES ASSUME canc' # canc PROVE t \in canc[k].todo \/ \E c \in Convs : m[c] = t /\ m[c] # NoTurn
    BY <1>2
  <2>1. ASSUME NEW j \in Cancellers, NEW c \in Convs, Stop(j, c) PROVE t \in canc[k].todo
    BY <1>2, <2>1 DEF Stop
  <2>2. ASSUME NEW j \in Cancellers, NEW u \in Turns, CancelToken(j, u) PROVE t \in canc[k].todo
    BY <1>2, <2>2 DEF CancelToken
  <2>3. ASSUME NEW j \in Cancellers, CancelAll(j)
        PROVE  t \in canc[k].todo \/ \E c \in Convs : m[c] = t /\ m[c] # NoTurn
    BY <1>2, <2>3 DEF CancelAll
  <2>4. ASSUME NEW j \in Cancellers, CancelStep(j) PROVE t \in canc[k].todo
    <3>1. CASE CancelFire(j) BY <1>2, <3>1 DEF CancelFire
    <3>2. CASE CancelNotify(j) BY <1>2, <3>2 DEF CancelNotify
    <3>3. ASSUME NEW u \in Turns, Sweep(j, u) PROVE t \in canc[k].todo
      <4>1. PICK at, to : canc' = [canc EXCEPT ![j] =
                   [pc |-> at, target |-> to, todo |-> canc[j].todo \ {u}]]
        BY <3>3 DEF Sweep
      <4>2. canc'[k].todo = canc[k].todo \/ canc'[k].todo = canc[k].todo \ {u}
        BY <4>1
      <4> QED BY <1>2, <4>2
    <3> QED BY <2>4, <3>1, <3>2, <3>3 DEF CancelStep
  <2>5. ASSUME Call PROVE t \in canc[k].todo \/ \E c \in Convs : m[c] = t /\ m[c] # NoTurn
    BY <2>1, <2>2, <2>3, <2>5 DEF Call, Supersede, ClaimCall, WaitCancelled, ManagerWaitIdle, ContextEnds
  <2>6. ~UNCHANGED vars
    BY DEF vars
  <2>7. ASSUME NEW u \in Turns PROVE ~TurnStep(u)
    BY DEF TurnStep, SupersedeFire, SupersedeNotify, Exec, Return, End
  <2>8. ASSUME NEW p \in Claimers PROVE ~ClaimStep(p)
    BY DEF ClaimStep, ClaimGrant, ClaimPark, ClaimGiveUp
  <2>9. ASSUME NEW w \in Waiters PROVE ~WaitStep(w)
    BY DEF WaitStep, Drained, WaitIdle
  <2>10. ASSUME NEW p \in Impatient PROVE ~WakeOnDone(p)
    BY DEF WakeOnDone
  <2> QED BY <2>4, <2>5, <2>6, <2>7, <2>8, <2>9, <2>10 DEF Next
<1>3. ASSUME NEW k \in Cancellers, NEW t \in canc'[k].todo
      PROVE  t <= born'
  <2>1. t \in Turns
    BY <1>2, <1>3
  <2>2. t <= born
    BY <1>2, <1>3 DEF Snapshots, Registered
  <2> QED BY <1>1, <2>1, <2>2, NextTypeInv
<1> QED BY <1>3 DEF Snapshots

\* What a registration does, in the terms of the invariants.
LEMMA EntryEffect ==
  ASSUME TypeInv, Births, NEW c \in Convs, Entry(c)
  PROVE  /\ born \in Nat /\ born + 1 \in Turns
         /\ born' = born + 1
         /\ m' = [m EXCEPT ![c] = born + 1]
         /\ conv' = [conv EXCEPT ![born + 1] = c]
         /\ displaced' = [displaced EXCEPT ![born + 1] = m[c]]
         /\ \A t \in Turns : t # born + 1 => pc'[t] = pc[t]
         /\ pc'[born + 1] \in {"firing", "waiting", "running"}
         /\ m[c] # NoTurn => pc'[born + 1] = "firing"
         /\ stoppedBy' = stoppedBy
BY MaxTurnsAssumption DEF Entry, Register, TypeInv, TypeOK, Turns, NoTurn

LEMMA BirthsStep ==
  ASSUME TypeInv, Births, Snapshots, Registered, [Next]_vars
  PROVE  Births'
<1> USE MaxTurnsAssumption DEF TypeInv, TypeOK, Turns, NoTurn
<1>1. ASSUME NEW c \in Convs, Entry(c) PROVE Births'
  <2> SUFFICES ASSUME NEW t \in Turns
               PROVE  /\ (pc'[t] = "unborn") <=> (t > born')
                      /\ t <= born' => conv'[t] \in Convs
                      /\ t > born' => conv'[t] = NoConv /\ stoppedBy'[t] = "nobody"
    BY DEF Births
  <2>1. CASE t = born + 1
    <3>1. born \in Nat /\ born' = born + 1 /\ conv'[t] = c
      BY <1>1, <2>1, EntryEffect
    <3>2. pc'[t] # "unborn"
      BY <1>1, <2>1, EntryEffect
    <3> QED BY <2>1, <3>1, <3>2
  <2>2. CASE t # born + 1
    <3>1. pc'[t] = pc[t] /\ conv'[t] = conv[t] /\ stoppedBy'[t] = stoppedBy[t]
      BY <1>1, <2>2, EntryEffect
    <3>2. born \in Nat /\ born' = born + 1 /\ t \in Nat
      BY <1>1, EntryEffect
    <3> QED BY <2>2, <3>1, <3>2 DEF Births
  <2> QED BY <2>1, <2>2
<1>2. ASSUME NEW t \in Turns, Move(t) PROVE Births'
  BY <1>2, ZenonT(30) DEF Births, Move
<1>3. ASSUME NEW t \in Turns, Leave(t) PROVE Births'
  BY <1>3 DEF Births, Leave
<1>4. ASSUME NEW c \in Convs, TakeOut(c) PROVE Births'
  <2>1. m[c] \in Turns /\ m[c] <= born
    BY <1>4 DEF TakeOut, Registered
  <2> QED BY <1>4, <2>1 DEF Births, TakeOut
<1>5. CASE UNCHANGED chainVars
  BY <1>5 DEF Births, chainVars
<1> QED BY Effects, <1>1, <1>2, <1>3, <1>4, <1>5

LEMMA RegisteredStep ==
  ASSUME TypeInv, Births, Snapshots, Registered, [Next]_vars
  PROVE  Registered'
<1> USE MaxTurnsAssumption DEF TypeInv, TypeOK, Turns, NoTurn
<1>1. ASSUME NEW c \in Convs, Entry(c) PROVE Registered'
  <2>1. /\ born \in Nat /\ born + 1 \in Turns /\ born' = born + 1
        /\ m' = [m EXCEPT ![c] = born + 1] /\ conv' = [conv EXCEPT ![born + 1] = c]
        /\ stoppedBy' = stoppedBy
    BY <1>1, EntryEffect
  <2>2. ASSUME NEW d \in Convs, m'[d] # NoTurn
        PROVE  /\ m'[d] <= born'
               /\ conv'[m'[d]] = d
               /\ stoppedBy'[m'[d]] = "nobody"
               /\ \A t \in Turns : conv'[t] = d => t <= m'[d]
    <3>1. CASE d = c
      <4>1. m'[d] = born + 1 /\ conv'[born + 1] = d
        BY <2>1, <3>1
      <4>2. stoppedBy'[born + 1] = "nobody"
        BY <2>1 DEF Births
      <4>3. ASSUME NEW t \in Turns, t > born + 1 PROVE conv'[t] = NoConv
        BY <2>1, <4>3 DEF Births
      <4> QED BY <2>1, <4>1, <4>2, <4>3, NoConvAssumption
    <3>2. CASE d # c
      <4>1. m'[d] = m[d] /\ m[d] <= born /\ m[d] \in Turns
        BY <2>1, <2>2, <3>2 DEF Registered
      <4>2. conv'[m[d]] = conv[m[d]]
        BY <2>1, <4>1
      <4>3. ASSUME NEW t \in Turns, conv'[t] = d PROVE conv[t] = d
        BY <2>1, <3>2, <4>3
      <4> QED BY <2>1, <2>2, <4>1, <4>2, <4>3 DEF Registered
    <3> QED BY <3>1, <3>2
  <2> QED BY <2>2 DEF Registered
<1>2. ASSUME NEW t \in Turns, Move(t) PROVE Registered'
  BY <1>2 DEF Registered, Move
<1>3. ASSUME NEW t \in Turns, Leave(t) PROVE Registered'
  BY <1>3 DEF Registered, Leave
<1>4. ASSUME NEW c \in Convs, TakeOut(c) PROVE Registered'
  BY <1>4 DEF Registered, TakeOut
<1>5. CASE UNCHANGED chainVars
  BY <1>5 DEF Registered, chainVars
<1> QED BY Effects, <1>1, <1>2, <1>3, <1>4, <1>5

\* A turn that is unwinding, or runs, has no live predecessor in its chain.
LEMMA NothingHeldBack ==
  ASSUME TypeInv, Chain, NEW u \in Turns, NEW v \in Turns,
         u < v, v <= born, conv[u] = conv[v],
         \/ pc[v] \in {"running", "unwinding", "done"}
         \/ displaced[v] = NoTurn
         \/ Ended(displaced[v])
  PROVE  Ended(u) \/ Cut(u, v)
<1> SUFFICES ASSUME ~Ended(u), ~Cut(u, v) PROVE FALSE
  OBVIOUS
<1>1. HeldBack(u, v)
  BY DEF Chain
<1>2. pc[v] \notin {"running", "unwinding", "done"}
  BY <1>1 DEF HeldBack
<1>3. displaced[v] # NoTurn
  BY <1>1, MaxTurnsAssumption DEF HeldBack, Turns, NoTurn
<1>4. ~Ended(displaced[v])
  BY <1>1 DEF HeldBack
<1> QED BY <1>2, <1>3, <1>4

\* A cut only grows: it is monotone in its end and in the steps.
LEMMA CutWider ==
  ASSUME TypeInv, NEW u \in Turns, NEW v \in Nat, NEW w \in Nat, v <= w, Cut(u, v)
  PROVE  Cut(u, w)
BY MaxTurnsAssumption DEF Cut, Turns, TypeInv, TypeOK

LEMMA CutOffStep ==
  ASSUME TypeInv, Births, Snapshots, Registered, CutOff, Chain, [Next]_vars
  PROVE  CutOff'
<1> USE MaxTurnsAssumption DEF TypeInv, TypeOK, Turns, NoTurn
<1>1. ASSUME NEW c \in Convs, Entry(c) PROVE CutOff'
  <2>1. /\ born \in Nat /\ born + 1 \in Turns /\ born' = born + 1
        /\ m' = [m EXCEPT ![c] = born + 1] /\ conv' = [conv EXCEPT ![born + 1] = c]
        /\ stoppedBy' = stoppedBy /\ \A t \in Turns : t # born + 1 => pc'[t] = pc[t]
    BY <1>1, EntryEffect
  <2>2. ASSUME NEW u \in Turns, u <= born', ~Ended(u)', m'[conv'[u]] = NoTurn
        PROVE  Cut(u, born + 1)'
    <3>1. u # born + 1
      BY <2>1, <2>2
    <3>2. u <= born /\ conv'[u] = conv[u] /\ conv[u] \in Convs
      BY <2>1, <2>2, <3>1 DEF Births
    <3>3. conv[u] # c /\ m[conv[u]] = NoTurn
      BY <2>1, <2>2, <3>2
    <3>4. ~Ended(u)
      BY <2>1, <2>2, <3>1 DEF Ended
    <3>5. Cut(u, born + 1)
      BY <3>2, <3>3, <3>4 DEF CutOff
    <3>6. PICK s \in u..born : conv[s] = conv[u] /\ stoppedBy[s] # "nobody"
      BY <2>1, <3>5 DEF Cut
    <3>7. conv'[s] = conv'[u] /\ s \in u..(born' + 1 - 1)
      BY <2>1, <3>2, <3>6
    <3> QED BY <2>1, <3>6, <3>7 DEF Cut
  <2> QED BY <2>2 DEF CutOff
<1>2. ASSUME NEW t \in Turns, Move(t) PROVE CutOff'
  BY <1>2 DEF CutOff, Move, Cut, Ended
<1>3. ASSUME NEW t \in Turns, Leave(t) PROVE CutOff'
  <2>1. /\ born' = born /\ conv' = conv /\ stoppedBy' = stoppedBy
        /\ pc[t] = "unwinding" /\ pc' = [pc EXCEPT ![t] = "done"]
    BY <1>3 DEF Leave
  <2>2. ASSUME NEW u \in Turns, u <= born, ~Ended(u)', m'[conv[u]] = NoTurn
        PROVE  Cut(u, born + 1)
    <3>1. ~Ended(u) /\ u # t /\ conv[u] \in Convs
      BY <2>1, <2>2 DEF Ended, Births
    <3>2. CASE m[conv[u]] = NoTurn
      BY <2>2, <3>1, <3>2 DEF CutOff
    <3>3. CASE m[conv[u]] # NoTurn
      <4>1. conv[u] = conv[t] /\ m[conv[u]] = t
        BY <1>3, <2>2, <3>1, <3>3 DEF Leave
      <4>2. u < t /\ t <= born
        BY <3>1, <3>3, <4>1 DEF Registered
      <4>3. Cut(u, t)
        BY <2>1, <3>1, <4>1, <4>2, NothingHeldBack
      <4> QED BY <4>2, <4>3, CutWider
    <3> QED BY <3>2, <3>3
  <2> QED BY <2>1, <2>2 DEF CutOff, Cut
<1>4. ASSUME NEW c \in Convs, TakeOut(c) PROVE CutOff'
  <2>1. /\ born' = born /\ conv' = conv /\ pc' = pc /\ m' = [m EXCEPT ![c] = NoTurn]
        /\ m[c] \in Turns /\ m[c] <= born /\ conv[m[c]] = c
    BY <1>4 DEF TakeOut, Registered
  <2>2. stoppedBy'[m[c]] # "nobody"
        /\ \A s \in Turns : stoppedBy[s] # "nobody" => stoppedBy'[s] # "nobody"
    BY <1>4, <2>1 DEF TakeOut
  <2>3. ASSUME NEW u \in Turns, u <= born, ~Ended(u), m'[conv[u]] = NoTurn
        PROVE  \E s \in u..born : conv[s] = conv[u] /\ stoppedBy'[s] # "nobody"
    <3>1. CASE conv[u] = c
      <4>1. u <= m[c]
        BY <1>4, <3>1 DEF TakeOut, Registered
      <4> QED BY <2>1, <2>2, <3>1, <4>1
    <3>2. CASE conv[u] # c
      <4>1. conv[u] \in Convs
        BY <2>3 DEF Births
      <4>2. Cut(u, born + 1)
        BY <2>1, <2>3, <3>2, <4>1 DEF CutOff
      <4> QED BY <2>2, <4>2 DEF Cut
    <3> QED BY <3>1, <3>2
  <2> QED BY <2>1, <2>3 DEF CutOff, Cut, Ended
<1>5. CASE UNCHANGED chainVars
  BY <1>5 DEF CutOff, Cut, Ended, chainVars
<1> QED BY Effects, <1>1, <1>2, <1>3, <1>4, <1>5

LEMMA ChainStep ==
  ASSUME TypeInv, Births, Snapshots, Registered, CutOff, Chain, [Next]_vars
  PROVE  Chain'
<1> USE MaxTurnsAssumption DEF TypeInv, TypeOK, Turns, NoTurn
<1>1. ASSUME NEW c \in Convs, Entry(c) PROVE Chain'
  <2>1. /\ born \in Nat /\ born + 1 \in Turns /\ born' = born + 1
        /\ conv' = [conv EXCEPT ![born + 1] = c]
        /\ displaced' = [displaced EXCEPT ![born + 1] = m[c]]
        /\ stoppedBy' = stoppedBy /\ \A t \in Turns : t # born + 1 => pc'[t] = pc[t]
        /\ m[c] # NoTurn => pc'[born + 1] = "firing"
    BY <1>1, EntryEffect
  <2>2. ASSUME NEW u \in Turns, NEW v \in Turns, u < v, v <= born',
               conv'[u] = conv'[v], ~Ended(u)', ~Cut(u, v)'
        PROVE  HeldBack(u, v)'
    <3>1. u <= born /\ conv'[u] = conv[u] /\ conv[u] \in Convs /\ ~Ended(u)
      BY <2>1, <2>2 DEF Births, Ended
    <3>2. ~Cut(u, v)
      <4>1. ASSUME NEW s \in u..(v - 1), conv[s] = conv[u], stoppedBy[s] # "nobody"
            PROVE  conv'[s] = conv'[u] /\ stoppedBy'[s] # "nobody"
        BY <2>1, <2>2, <3>1, <4>1
      <4> QED BY <2>2, <4>1 DEF Cut
    <3>3. CASE v <= born
      <4>1. HeldBack(u, v)
        BY <2>1, <2>2, <3>1, <3>2, <3>3 DEF Chain
      <4>2. displaced'[v] = displaced[v] /\ displaced[v] \in u..(v - 1)
        BY <2>1, <3>3, <4>1 DEF HeldBack
      <4>3. displaced[v] \in Turns /\ displaced[v] # born + 1 /\ v # born + 1
        BY <2>1, <3>3, <4>2
      <4>4. /\ conv'[v] = conv[v] /\ conv'[displaced[v]] = conv[displaced[v]]
            /\ pc'[v] = pc[v] /\ pc'[displaced[v]] = pc[displaced[v]]
        BY <2>1, <4>3
      <4> QED BY <4>1, <4>2, <4>4 DEF HeldBack, Ended
    <3>4. CASE v = born + 1
      <4>1. conv[u] = c
        BY <2>1, <2>2, <3>1, <3>4
      <4>2. m[c] # NoTurn
        BY <3>1, <3>2, <3>4, <4>1 DEF CutOff
      <4> DEFINE d == m[c]
      <4>3. d \in Turns /\ u <= d /\ d <= born /\ conv[d] = c
        BY <4>1, <4>2 DEF Registered
      <4>4. ~Ended(d)
        <5>1. CASE u = d BY <3>1, <5>1
        <5>2. CASE u # d
          <6>1. u < d
            BY <4>3, <5>2
          <6>2. ~Cut(u, d)
            BY <2>1, <3>2, <3>4, <4>3, CutWider
          <6>3. HeldBack(u, d)
            BY <3>1, <4>1, <4>3, <6>1, <6>2 DEF Chain
          <6> QED BY <6>3 DEF HeldBack, Ended
        <5> QED BY <5>1, <5>2
      <4>5. displaced'[v] = d /\ pc'[v] = "firing" /\ conv'[d] = c /\ conv'[v] = c
            /\ pc'[d] = pc[d]
        BY <2>1, <3>4, <4>2, <4>3
      <4>6. d \in u..(v - 1)
        BY <2>1, <3>4, <4>3
      <4> QED BY <4>4, <4>5, <4>6 DEF HeldBack, Ended
    <3> QED BY <2>1, <2>2, <3>3, <3>4
  <2> QED BY <2>2 DEF Chain
<1>2. ASSUME NEW t \in Turns, Move(t) PROVE Chain'
  <2>1. /\ born' = born /\ conv' = conv /\ displaced' = displaced /\ stoppedBy' = stoppedBy
        /\ \A v \in Turns : v # t => pc'[v] = pc[v]
        /\ pc[t] \notin {"unwinding", "done"}
    BY <1>2 DEF Move
  <2>2. ASSUME NEW u \in Turns, NEW v \in Turns, u < v, v <= born,
               conv[u] = conv[v], ~Ended(u)', ~Cut(u, v)
        PROVE  HeldBack(u, v)'
    <3>1. ~Ended(u)
      BY <2>1, <2>2 DEF Ended
    <3>2. HeldBack(u, v)
      BY <2>2, <3>1 DEF Chain
    <3> DEFINE d == displaced[v]
    <3>3. d \in Turns /\ u <= d /\ d < v /\ ~Ended(d) /\ conv[d] = conv[v]
      BY <3>2 DEF HeldBack
    <3>4. pc'[v] \in {"firing", "notifying", "waiting"}
      <4>1. pc[v] \in {"firing", "notifying", "waiting"} /\ d # NoTurn
        BY <3>2, <3>3 DEF HeldBack
      <4> QED BY <1>2, <2>1, <3>3, <4>1 DEF Move
    <3>5. ~Ended(d)'
      <4>1. CASE d = u BY <2>1, <2>2, <4>1
      <4>2. CASE d # u /\ d # t BY <2>1, <3>3, <4>2 DEF Ended
      <4>3. CASE d # u /\ d = t
        <5>1. ~Cut(u, d)
          BY <2>2, <3>3, CutWider
        <5>2. HeldBack(u, d)
          BY <2>2, <3>1, <3>3, <4>3, <5>1 DEF Chain
        <5>3. /\ pc[t] \in {"firing", "notifying", "waiting"}
              /\ displaced[t] # NoTurn /\ ~Ended(displaced[t])
          BY <4>3, <5>2 DEF HeldBack
        <5> QED BY <1>2, <4>3, <5>3 DEF Move, Ended
      <4> QED BY <4>1, <4>2, <4>3
    <3> QED BY <2>1, <3>2, <3>4, <3>5 DEF HeldBack
  <2> QED BY <2>1, <2>2 DEF Chain, Cut
<1>3. ASSUME NEW t \in Turns, Leave(t) PROVE Chain'
  <2>1. /\ born' = born /\ conv' = conv /\ displaced' = displaced /\ stoppedBy' = stoppedBy
        /\ pc[t] = "unwinding" /\ pc' = [pc EXCEPT ![t] = "done"]
    BY <1>3 DEF Leave
  <2>2. \A v \in Turns : Ended(v)' <=> Ended(v)
    BY <2>1 DEF Ended
  <2>3. \A v \in Turns : pc[v] \in {"firing", "notifying", "waiting"} => pc'[v] = pc[v]
    BY <2>1
  <2>4. ASSUME NEW u \in Turns, NEW v \in Turns, HeldBack(u, v) PROVE HeldBack(u, v)'
    BY <2>1, <2>2, <2>3, <2>4 DEF HeldBack
  <2> QED BY <2>1, <2>2, <2>4 DEF Chain, Cut
<1>4. ASSUME NEW c \in Convs, TakeOut(c) PROVE Chain'
  <2>1. born' = born /\ conv' = conv /\ displaced' = displaced /\ pc' = pc
    BY <1>4 DEF TakeOut
  <2>2. \A s \in Turns : stoppedBy[s] # "nobody" => stoppedBy'[s] # "nobody"
    BY <1>4 DEF TakeOut
  <2>3. ASSUME NEW u \in Turns, NEW v \in Turns, Cut(u, v) PROVE Cut(u, v)'
    BY <2>1, <2>2, <2>3 DEF Cut
  <2>4. ASSUME NEW u \in Turns, NEW v \in Turns, HeldBack(u, v) PROVE HeldBack(u, v)'
    BY <2>1, <2>4 DEF HeldBack, Ended
  <2>5. \A u \in Turns : Ended(u)' <=> Ended(u)
    BY <2>1 DEF Ended
  <2> QED BY <2>1, <2>3, <2>4, <2>5 DEF Chain
<1>5. CASE UNCHANGED chainVars
  <2>1. \A u, v \in Turns : (HeldBack(u, v)' <=> HeldBack(u, v)) /\ (Cut(u, v)' <=> Cut(u, v))
                            /\ (Ended(u)' <=> Ended(u))
    BY <1>5 DEF Cut, Ended, HeldBack, chainVars
  <2> QED BY <1>5, <2>1 DEF Chain, chainVars
<1> QED BY Effects, <1>1, <1>2, <1>3, <1>4, <1>5

LEMMA InitIInv == Init => IInv
<1> SUFFICES ASSUME Init PROVE IInv
  OBVIOUS
<1> USE MaxTurnsAssumption DEF Init, Turns, NoTurn
<1>1. Births
  BY DEF Births
<1>2. Snapshots
  BY DEF Snapshots
<1>3. Registered
  BY DEF Registered
<1>4. CutOff /\ Chain
  BY DEF CutOff, Chain
<1> QED BY <1>1, <1>2, <1>3, <1>4, InitTypeInv DEF IInv

LEMMA NextIInv == IInv /\ [Next]_vars => IInv'
BY NextTypeInv, BirthsStep, SnapshotsStep, RegisteredStep, CutOffStep, ChainStep DEF IInv

THEOREM Invariance == Spec => []IInv
BY InitIInv, NextIInv, PTL DEF Spec
-----------------------------------------------------------------------------
LEMMA LinkedTurns ==
  ASSUME IInv, NEW u \in Turns, NEW v \in Turns, Linked(u, v)
  PROVE  Ended(u) \/ HeldBack(u, v)
<1> USE MaxTurnsAssumption DEF IInv, TypeInv, TypeOK, Turns
<1>1. u < v /\ conv[u] = conv[v] /\ v <= born
  BY DEF Linked, Births
<1>2. ~Cut(u, v)
  BY DEF Linked, Cut
<1> QED BY <1>1, <1>2 DEF Chain

\* The agent never runs two turns of a conversation at once, unless Stop or
\* CancelAll cut the chain between them.
THEOREM Exclusion == Spec => []OneTurnAtATime
<1>1. IInv => OneTurnAtATime
  BY LinkedTurns DEF OneTurnAtATime, HeldBack, Ended
<1> QED BY <1>1, Invariance, PTL

\* Whoever waits for a turn to end has waited for the chain behind it.
THEOREM ChainOrder == Spec => []ChainEndsInOrder
<1>1. IInv => ChainEndsInOrder
  BY LinkedTurns DEF ChainEndsInOrder, HeldBack, Ended
<1> QED BY <1>1, Invariance, PTL

\* The session/cancel of a superseding turn never reaches that turn or a
\* later one of its chain.
THEOREM CancelAim == Spec => SupersedeCancelsNoSuccessor
<1>1. ASSUME IInv, NEW t \in Turns, SupersedeNotify(t), NEW v \in Turns, v = t \/ Linked(t, v)
      PROVE  pc[v] # "running"
  BY <1>1, LinkedTurns DEF SupersedeNotify, HeldBack, Ended
<1>2. IInv /\ [Next]_vars =>
         [\A t \in Turns : SupersedeNotify(t) =>
             \A v \in Turns : (v = t \/ Linked(t, v)) => pc[v] # "running"]_vars
  BY <1>1
<1> QED BY <1>2, Invariance, PTL DEF Spec, SupersedeCancelsNoSuccessor
-----------------------------------------------------------------------------
\* Somebody has cancelled t, or is about to.
Excused(t) ==
    \/ t \in dead
    \/ \E v \in Turns : pc[v] = "firing" /\ displaced[v] = t
    \/ \E k \in Cancellers : canc[k].pc = "fire" /\ canc[k].target = t

\* A step that only moves t's goroutine and keeps every other excuse.
LEMMA TurnStepNoOrphan ==
  ASSUME TypeInv, Births, NoOrphan, NEW w \in Turns, TurnStep(w)
  PROVE  NoOrphan'
<1> USE MaxTurnsAssumption DEF TypeInv, TypeOK, Turns, NoTurn
<1> SUFFICES ASSUME NEW t \in Turns, Live(t)', m'[conv'[t]] # t PROVE Excused(t)'
  BY DEF NoOrphan, Excused
<1>1. conv' = conv /\ displaced' = displaced /\ canc' = canc /\ dead \subseteq dead'
  BY DEF TurnStep, SupersedeFire, SupersedeNotify, Exec, Return, End, turnVars
<1>2. Live(t)
  <2>1. CASE t = w
    BY <2>1 DEF TurnStep, SupersedeFire, SupersedeNotify, Exec, Return, End, Live
  <2>2. CASE t # w
    <3>1. pc'[t] = pc[t]
      BY <2>2 DEF TurnStep, SupersedeFire, SupersedeNotify, Exec, Return, End
    <3> QED BY <3>1 DEF Live
  <2> QED BY <2>1, <2>2
<1>3. m[conv[t]] # t
  <2> SUFFICES ASSUME m[conv[t]] = t PROVE FALSE
    OBVIOUS
  <2>1. m' # m
    BY <1>1
  <2>2. End(w) /\ m[conv[w]] = w /\ m' = [m EXCEPT ![conv[w]] = NoTurn]
    BY <2>1 DEF TurnStep, SupersedeFire, SupersedeNotify, Exec, Return, End, Delete
  <2>3. conv[t] = conv[w]
    BY <1>1, <2>2
  <2>4. pc[t] = "unwinding"
    BY <2>2, <2>3 DEF End
  <2> QED BY <1>2, <2>4 DEF Live
<1>4. Excused(t)
  BY <1>2, <1>3 DEF NoOrphan, Excused
<1>5. ASSUME NEW v \in Turns, pc[v] = "firing", displaced[v] = t PROVE Excused(t)'
  <2>1. CASE v = w
    <3>1. t \in dead'
      BY <1>5, <2>1 DEF TurnStep, SupersedeFire, SupersedeNotify, Exec, Return, End
    <3> QED BY <3>1 DEF Excused
  <2>2. CASE v # w
    <3>1. pc'[v] = pc[v]
      BY <2>2 DEF TurnStep, SupersedeFire, SupersedeNotify, Exec, Return, End
    <3> QED BY <1>1, <1>5, <3>1 DEF Excused
  <2> QED BY <2>1, <2>2
<1> QED BY <1>1, <1>4, <1>5 DEF Excused

\* Registering c's next turn orphans at most m[c], and then fires at it.
LEMMA EntryNoOrphan ==
  ASSUME TypeInv, Births, NoOrphan, NEW c \in Convs, Entry(c), UNCHANGED <<dead, canc>>
  PROVE  NoOrphan'
<1> USE MaxTurnsAssumption DEF TypeInv, TypeOK, Turns, NoTurn
<1> SUFFICES ASSUME NEW t \in Turns, Live(t)', m'[conv'[t]] # t PROVE Excused(t)'
  BY DEF NoOrphan, Excused
<1>1. /\ born \in Nat /\ born + 1 \in Turns /\ born' = born + 1
      /\ m' = [m EXCEPT ![c] = born + 1] /\ conv' = [conv EXCEPT ![born + 1] = c]
      /\ displaced' = [displaced EXCEPT ![born + 1] = m[c]]
      /\ \A v \in Turns : v # born + 1 => pc'[v] = pc[v]
      /\ m[c] # NoTurn => pc'[born + 1] = "firing"
  BY EntryEffect
<1>2. t # born + 1
  BY <1>1
<1>3. Live(t) /\ conv'[t] = conv[t]
  BY <1>1, <1>2 DEF Live
<1>4. CASE m[conv[t]] # t
  <2>1. Excused(t)
    BY <1>3, <1>4 DEF NoOrphan, Excused
  <2>2. ASSUME NEW v \in Turns, pc[v] = "firing", displaced[v] = t
        PROVE  pc'[v] = "firing" /\ displaced'[v] = t
    <3>1. v # born + 1
      BY <1>1, <2>2 DEF Births
    <3> QED BY <1>1, <2>2, <3>1
  <2> QED BY <2>1, <2>2 DEF Excused
<1>5. CASE m[conv[t]] = t
  <2>1. m[c] = t
    BY <1>1, <1>3, <1>5
  <2> QED BY <1>1, <2>1 DEF Excused
<1> QED BY <1>4, <1>5

\* Whatever a canceller deregisters it goes on to fire at.
LEMMA CancellerNoOrphan ==
  ASSUME TypeInv, NoOrphan, NEW k \in Cancellers,
         \/ \E c \in Convs : Stop(k, c)
         \/ \E t \in Turns : CancelToken(k, t)
         \/ CancelAll(k)
         \/ CancelStep(k)
  PROVE  NoOrphan'
<1> USE MaxTurnsAssumption DEF TypeInv, TypeOK, Turns, NoTurn
<1> SUFFICES ASSUME NEW t \in Turns, Live(t)', m'[conv'[t]] # t PROVE Excused(t)'
  BY DEF NoOrphan, Excused
<1>1. /\ pc' = pc /\ conv' = conv /\ displaced' = displaced /\ dead \subseteq dead'
      /\ \A j \in Cancellers : j # k => canc'[j] = canc[j]
  BY DEF Stop, CancelToken, CancelAll, CancelStep, CancelFire, CancelNotify, Sweep, turnVars
<1>2. CASE m[conv[t]] = t
  <2>1. m' # m
    BY <1>1, <1>2
  <2>2. CASE \E c \in Convs : Stop(k, c)
    BY <1>1, <1>2, <2>2 DEF Stop, Delete, Excused
  <2>3. ASSUME NEW u \in Turns, Sweep(k, u) PROVE Excused(t)'
    <3>1. m[conv[u]] = u /\ m' = [m EXCEPT ![conv[u]] = NoTurn]
          /\ canc' = [canc EXCEPT ![k] =
                [pc |-> "fire", target |-> u, todo |-> canc[k].todo \ {u}]]
      BY <2>1, <2>3 DEF Sweep, Delete
    <3>2. conv[t] = conv[u]
      BY <1>1, <1>2, <3>1
    <3>3. canc'[k].pc = "fire" /\ canc'[k].target = t
      BY <1>2, <3>1, <3>2
    <3> QED BY <3>3 DEF Excused
  <2> QED BY <2>1, <2>2, <2>3 DEF CancelToken, CancelAll, CancelStep, CancelFire, CancelNotify
<1>3. CASE m[conv[t]] # t
  <2>1. Excused(t)
    BY <1>1, <1>3 DEF NoOrphan, Excused, Live
  <2>2. ASSUME canc[k].pc = "fire", canc[k].target = t PROVE t \in dead'
    BY <2>2 DEF Stop, CancelToken, CancelAll, CancelStep, CancelFire, CancelNotify, Sweep
  <2> QED BY <1>1, <2>1, <2>2 DEF Excused
<1> QED BY <1>2, <1>3

\* No turn that lost its place in the registry is left running uncancelled.
THEOREM NothingLeftRunning == Spec => []NoOrphan
<1>1. Init => NoOrphan
  BY DEF Init, NoOrphan, Live
<1>2. ASSUME IInv, NoOrphan, [Next]_vars PROVE NoOrphan'
  <2>1. ASSUME NEW c \in Convs, Supersede(c) PROVE NoOrphan'
    <3>1. pc'[born + 1] = IF m[c] = NoTurn THEN "waiting" ELSE "firing"
      BY <1>2, <2>1, MaxTurnsAssumption DEF Supersede, Register, IInv, TypeInv, TypeOK, Turns
    <3>2. Entry(c) /\ UNCHANGED <<dead, canc>>
      BY <2>1, <3>1 DEF Supersede, Register, Entry
    <3> QED BY <1>2, <3>2, EntryNoOrphan DEF IInv
  <2>2. ASSUME NEW p \in Claimers, ClaimGrant(p) PROVE NoOrphan'
    <3>1. pc'[born + 1] = "running" /\ m[claim[p]] = NoTurn /\ claim[p] \in Convs
      BY <1>2, <2>2, MaxTurnsAssumption
         DEF ClaimGrant, Register, IInv, TypeInv, TypeOK, Turns
    <3>2. Entry(claim[p]) /\ UNCHANGED <<dead, canc>>
      BY <2>2, <3>1 DEF ClaimGrant, Register, Entry
    <3> QED BY <1>2, <3>1, <3>2, EntryNoOrphan DEF IInv
  <2>3. CASE UNCHANGED <<turnVars, m, dead, pc, canc>>
    BY <1>2, <2>3 DEF NoOrphan, Live, turnVars
  <2>4. ASSUME NEW k \in Cancellers,
               \/ \E c \in Convs : Stop(k, c)
               \/ \E t \in Turns : CancelToken(k, t)
               \/ CancelAll(k)
               \/ CancelStep(k)
        PROVE  NoOrphan'
    BY <1>2, <2>4, CancellerNoOrphan DEF IInv
  <2>5. ASSUME NEW t \in Turns, TurnStep(t) PROVE NoOrphan'
    BY <1>2, <2>5, TurnStepNoOrphan DEF IInv
  <2>6. CASE Call
    <3>1. ASSUME \/ \E p \in Claimers, c \in Convs : ClaimCall(p, c)
                 \/ \E w \in Waiters : WaitCancelled(w) \/ ManagerWaitIdle(w)
                 \/ \E p \in Impatient : ContextEnds(p)
          PROVE  NoOrphan'
      BY <3>1, <2>3 DEF ClaimCall, WaitCancelled, ManagerWaitIdle, ContextEnds
    <3> QED BY <2>6, <2>1, <2>4, <3>1 DEF Call
  <2>7. ASSUME NEW p \in Claimers, ClaimStep(p) PROVE NoOrphan'
    BY <2>7, <2>2, <2>3 DEF ClaimStep, ClaimPark, ClaimGiveUp
  <2>8. ASSUME NEW w \in Waiters, WaitStep(w) PROVE NoOrphan'
    BY <2>8, <2>3 DEF WaitStep, Drained, WaitIdle
  <2>9. ASSUME NEW p \in Impatient, WakeOnDone(p) PROVE NoOrphan'
    BY <2>9, <2>3 DEF WakeOnDone
  <2>10. CASE UNCHANGED vars
    BY <2>10, <2>3 DEF vars
  <2> QED BY <1>2, <2>4, <2>5, <2>6, <2>7, <2>8, <2>9, <2>10 DEF Next
<1> QED BY <1>1, <1>2, Invariance, PTL DEF Spec
-----------------------------------------------------------------------------
(* Who waits.  A goroutine sleeps in Claim or in WaitIdle, never in both.   *)
(* Every turn a CancelAll has taken out, or is about to, is on the list of  *)
(* WaitCancelled or in the hands of the call that took the list, until it   *)
(* has ended.  The caller must be the only one, because the list is taken   *)
(* and not copied, and patient, because a call that gives up drops it.      *)

OneSleep == Claimers \cap Waiters = {}

LoneWaiter == (\A v, w \in Waiters : v = w) /\ Waiters \cap Impatient = {}

LEMMA StepParked ==
  ASSUME OneSleep, TypeInv, ParkedForAReason, [Next]_vars
  PROVE  ParkedForAReason'
<1> USE DEF ParkedForAReason
<1>1. CASE parked' = {}
  BY <1>1
<1>2. CASE UNCHANGED <<m, parked, claim>>
  BY <1>2
<1>3. ASSUME NEW p \in Claimers, NEW c \in Convs, ClaimCall(p, c)
      PROVE  ParkedForAReason'
  <2>1. p \notin parked /\ m' = m /\ parked' = parked
        /\ \A q \in Claimers : q # p => claim'[q] = claim[q]
    BY <1>3 DEF ClaimCall, turnVars, TypeInv, TypeOK
  <2> QED BY <2>1
<1>4. ASSUME NEW p \in Claimers, ClaimGrant(p) PROVE ParkedForAReason'
  <2>1. p \notin parked /\ parked' = parked /\ born + 1 # NoTurn
        /\ (\A q \in Claimers : q # p => claim'[q] = claim[q])
        /\ claim[p] \in Convs /\ m' = [m EXCEPT ![claim[p]] = born + 1]
    BY <1>4, MaxTurnsAssumption DEF ClaimGrant, Register, TypeInv, TypeOK, NoTurn
  <2>2. \A c \in Convs : m[c] # NoTurn => m'[c] # NoTurn
    BY <2>1 DEF TypeInv, TypeOK
  <2>3. \A q \in Claimers : claim[q] # NoConv => claim[q] \in Convs
    BY DEF TypeInv, TypeOK
  <2> QED BY <2>1, <2>2, <2>3
<1>5. ASSUME NEW p \in Claimers, ClaimPark(p) PROVE ParkedForAReason'
  BY <1>5 DEF ClaimPark, turnVars, OneSleep
<1>6. ASSUME NEW p \in Claimers, ClaimGiveUp(p) PROVE ParkedForAReason'
  <2>1. p \notin parked /\ m' = m /\ parked' = parked
        /\ \A q \in Claimers : q # p => claim'[q] = claim[q]
    BY <1>6 DEF ClaimGiveUp, turnVars, TypeInv, TypeOK
  <2> QED BY <2>1
<1>7. ASSUME NEW w \in Waiters, WaitIdle(w) PROVE ParkedForAReason'
  <2>1. m' = m /\ claim' = claim
    BY <1>7 DEF WaitIdle
  <2>2. CASE parked' = parked
    BY <2>1, <2>2
  <2>3. CASE parked' = parked \cup {w} /\ \E c \in Convs : m[c] # NoTurn
    BY <2>1, <2>3 DEF OneSleep
  <2> QED BY <1>7, <2>2, <2>3 DEF WaitIdle
<1>8. CASE Call
  <2>1. ASSUME NEW c \in Convs, Supersede(c) PROVE parked' = {}
    BY <2>1 DEF Supersede
  <2>2. ASSUME NEW k \in Cancellers, NEW c \in Convs, Stop(k, c) PROVE parked' = {}
    BY <2>2 DEF Stop, Delete
  <2>3. CASE \/ \E k \in Cancellers, t \in Turns : CancelToken(k, t)
             \/ \E k \in Cancellers : CancelAll(k)
             \/ \E w \in Waiters : WaitCancelled(w) \/ ManagerWaitIdle(w)
             \/ \E p \in Impatient : ContextEnds(p)
    BY <1>2, <2>3 DEF CancelToken, CancelAll, WaitCancelled, ManagerWaitIdle, ContextEnds
  <2> QED BY <1>1, <1>3, <1>8, <2>1, <2>2, <2>3 DEF Call
<1>9. ASSUME NEW t \in Turns, TurnStep(t) PROVE ParkedForAReason'
  <2>1. parked' = {} \/ UNCHANGED <<m, parked, claim>>
    BY <1>9 DEF TurnStep, SupersedeFire, SupersedeNotify, Exec, Return, End, Delete
  <2> QED BY <1>1, <1>2, <2>1
<1>10. ASSUME NEW k \in Cancellers, CancelStep(k) PROVE ParkedForAReason'
  <2>1. parked' = {} \/ UNCHANGED <<m, parked, claim>>
    BY <1>10 DEF CancelStep, CancelFire, CancelNotify, Sweep, Delete
  <2> QED BY <1>1, <1>2, <2>1
<1>11. ASSUME NEW w \in Waiters, Drained(w) PROVE ParkedForAReason'
  BY <1>2, <1>11 DEF Drained
<1>12. ASSUME NEW p \in Impatient, WakeOnDone(p) PROVE ParkedForAReason'
  BY <1>1, <1>12 DEF WakeOnDone
<1>13. CASE UNCHANGED vars
  BY <1>2, <1>13 DEF vars
<1> QED BY <1>3, <1>4, <1>5, <1>6, <1>7, <1>8, <1>9, <1>10, <1>11, <1>12, <1>13
        DEF Next, ClaimStep, WaitStep

\* No lost wakeup: every action that frees a conversation wakes all who sleep
\* on the condition variable of Active, so none sleeps with nothing to wait for.
THEOREM NobodySleepsForNothing ==
  ASSUME OneSleep
  PROVE  Spec => []ParkedForAReason
<1>1. Init => ParkedForAReason
  BY DEF Init, ParkedForAReason
<1>2. ParkedForAReason /\ IInv /\ [Next]_vars => ParkedForAReason'
  BY StepParked DEF IInv
<1> QED BY <1>1, <1>2, Invariance, PTL DEF Spec

\* The turns a CancelAll stopped or still has to look at.
Doomed(t) == stoppedBy[t] = "CancelAll" \/ \E k \in Cancellers : t \in canc[k].todo

Listed ==
    \A t \in Turns : Doomed(t) /\ ~Ended(t) =>
        \/ t \in cancelled
        \/ \E w \in Waiters : wait[w].pc = "draining" /\ t \in wait[w].todo

Owed ==
    \A w \in Waiters :
        /\ wait[w].pc = "draining" => \A t \in wait[w].owed : Ended(t) \/ t \in wait[w].todo
        /\ wait[w].pc = "checking" => \A t \in wait[w].owed : Ended(t)

\* What has ended stays so.
LEMMA EndedStays ==
  ASSUME TypeInv, Births, [Next]_vars, NEW t \in Turns, Ended(t)
  PROVE  Ended(t)'
<1> USE MaxTurnsAssumption DEF TypeInv, TypeOK, Turns
<1>1. CASE pc' = pc
  BY <1>1 DEF Ended
<1>2. ASSUME NEW c \in Convs, NEW d, NEW at, Register(c, d, at) PROVE Ended(t)'
  <2>1. t # born + 1
    BY <1>2 DEF Births, Ended, Register
  <2> QED BY <1>2, <2>1 DEF Register, Ended
<1>3. ASSUME NEW u \in Turns, TurnStep(u) PROVE Ended(t)'
  <2>1. CASE t = u
    BY <1>3, <2>1 DEF TurnStep, SupersedeFire, SupersedeNotify, Exec, Return, End, Ended
  <2>2. CASE t # u
    <3>1. pc'[t] = pc[t]
      BY <1>3, <2>2 DEF TurnStep, SupersedeFire, SupersedeNotify, Exec, Return, End
    <3> QED BY <3>1 DEF Ended
  <2> QED BY <2>1, <2>2
<1>4. ASSUME NEW p \in Claimers, ClaimStep(p) PROVE Ended(t)'
  <2>1. CASE ClaimGrant(p)
    <3>1. claim[p] \in Convs
      BY <2>1 DEF ClaimGrant
    <3> QED BY <1>2, <2>1, <3>1 DEF ClaimGrant
  <2> QED BY <1>1, <1>4, <2>1 DEF ClaimStep, ClaimPark, ClaimGiveUp
<1>5. CASE Call
  <2>1. CASE \E c \in Convs : Supersede(c)
    BY <1>2, <2>1 DEF Supersede
  <2>2. CASE ~\E c \in Convs : Supersede(c)
    <3>1. pc' = pc
      BY <1>5, <2>2 DEF Call, Stop, CancelToken, CancelAll, ClaimCall, WaitCancelled,
                        ManagerWaitIdle, ContextEnds
    <3> QED BY <1>1, <3>1
  <2> QED BY <2>1, <2>2
<1>6. CASE \/ \E k \in Cancellers : CancelStep(k)
           \/ \E w \in Waiters : WaitStep(w)
           \/ \E p \in Impatient : WakeOnDone(p)
           \/ UNCHANGED vars
  <2>1. pc' = pc
    BY <1>6 DEF CancelStep, CancelFire, CancelNotify, Sweep, WaitStep, Drained, WaitIdle,
                WakeOnDone, vars
  <2> QED BY <1>1, <2>1
<1> QED BY <1>3, <1>4, <1>5, <1>6 DEF Next

\* Only CancelAll dooms a turn, and it puts the turn on the list.
LEMMA DoomedBefore ==
  ASSUME TypeInv, [Next]_vars, NEW t \in Turns, Doomed(t)'
  PROVE  Doomed(t) \/ t \in cancelled'
<1> USE DEF TypeInv, TypeOK
<1>1. CASE UNCHANGED <<stoppedBy, canc>>
  BY <1>1 DEF Doomed
<1>2. ASSUME NEW k \in Cancellers, NEW c \in Convs, Stop(k, c) PROVE Doomed(t)
  <2>1. canc' = [canc EXCEPT ![k] = [pc |-> "fire", target |-> m[c], todo |-> {}]]
        /\ stoppedBy' = [stoppedBy EXCEPT ![m[c]] = "Stop"]
    BY <1>2 DEF Stop
  <2>2. \A j \in Cancellers : canc'[j].todo \subseteq canc[j].todo
    BY <2>1
  <2>3. stoppedBy'[t] = "CancelAll" => stoppedBy[t] = "CancelAll"
    BY <2>1
  <2> QED BY <2>2, <2>3 DEF Doomed
<1>3. ASSUME NEW k \in Cancellers, NEW u \in Turns, CancelToken(k, u) PROVE Doomed(t)
  <2>1. canc' = [canc EXCEPT ![k] = [pc |-> "fire", target |-> u, todo |-> {}]]
        /\ stoppedBy' = stoppedBy
    BY <1>3 DEF CancelToken
  <2>2. \A j \in Cancellers : canc'[j].todo \subseteq canc[j].todo
    BY <2>1
  <2> QED BY <2>1, <2>2 DEF Doomed
<1>4. ASSUME NEW k \in Cancellers, CancelAll(k) PROVE Doomed(t) \/ t \in cancelled'
  <2> DEFINE ts == {u \in Turns : \E c \in Convs : m[c] = u}
  <2>1. canc' = [canc EXCEPT ![k] = [pc |-> "sweep", target |-> NoTurn, todo |-> ts]]
        /\ stoppedBy' = stoppedBy /\ ts \subseteq cancelled'
    BY <1>4 DEF CancelAll
  <2>2. \A j \in Cancellers : canc'[j].todo \subseteq canc[j].todo \cup ts
    <3> HIDE DEF ts
    <3> QED BY <2>1
  <2> QED BY <2>1, <2>2 DEF Doomed
<1>5. ASSUME NEW k \in Cancellers, CancelFire(k) \/ CancelNotify(k) PROVE Doomed(t)
  <2>1. PICK at \in {"notify", "idle", "sweep"} : canc' = [canc EXCEPT ![k].pc = at]
    BY <1>5 DEF CancelFire, CancelNotify
  <2>2. \A j \in Cancellers : canc'[j].todo = canc[j].todo
    BY <2>1
  <2>3. stoppedBy' = stoppedBy
    BY <1>5 DEF CancelFire, CancelNotify
  <2> QED BY <2>2, <2>3 DEF Doomed
<1>6. ASSUME NEW k \in Cancellers, NEW u \in Turns, Sweep(k, u) PROVE Doomed(t)
  <2>1. u \in canc[k].todo
    BY <1>6 DEF Sweep
  <2>2. \A j \in Cancellers : canc'[j].todo \subseteq canc[j].todo
    <3>1. PICK at \in {"fire", "idle", "sweep"}, v \in {u, NoTurn} :
              canc' = [canc EXCEPT ![k] =
                           [pc |-> at, target |-> v, todo |-> canc[k].todo \ {u}]]
      BY <1>6 DEF Sweep
    <3> QED BY <3>1
  <2>3. stoppedBy' = stoppedBy \/ stoppedBy' = [stoppedBy EXCEPT ![u] = "CancelAll"]
    BY <1>6 DEF Sweep
  <2>4. stoppedBy'[t] = "CancelAll" => stoppedBy[t] = "CancelAll" \/ t = u
    BY <2>3
  <2> QED BY <2>1, <2>2, <2>4 DEF Doomed
<1>7. CASE Call
  <2>1. CASE \/ \E c \in Convs : Supersede(c)
             \/ \E p \in Claimers, c \in Convs : ClaimCall(p, c)
             \/ \E w \in Waiters : WaitCancelled(w) \/ ManagerWaitIdle(w)
             \/ \E p \in Impatient : ContextEnds(p)
    <3>1. UNCHANGED <<stoppedBy, canc>>
      BY <2>1 DEF Supersede, ClaimCall, WaitCancelled, ManagerWaitIdle, ContextEnds
    <3> QED BY <1>1, <3>1
  <2> QED BY <1>2, <1>3, <1>4, <1>7, <2>1 DEF Call
<1>8. CASE \/ \E u \in Turns : TurnStep(u)
           \/ \E p \in Claimers : ClaimStep(p)
           \/ \E w \in Waiters : WaitStep(w)
           \/ \E p \in Impatient : WakeOnDone(p)
           \/ UNCHANGED vars
  <2>1. UNCHANGED <<stoppedBy, canc>>
    BY <1>8 DEF TurnStep, SupersedeFire, SupersedeNotify, Exec, Return, End,
                ClaimStep, ClaimGrant, ClaimPark, ClaimGiveUp, WaitStep, Drained, WaitIdle,
                WakeOnDone, vars
  <2> QED BY <1>1, <2>1
<1> QED BY <1>5, <1>6, <1>7, <1>8 DEF Next, CancelStep

\* What a step may do to the list and to the locals of the lone waiter w.
LEMMA WaiterEffects ==
  ASSUME LoneWaiter, TypeInv, [Next]_vars, NEW w \in Waiters
  PROVE  \/ UNCHANGED <<cancelled, wait>>
         \/ (\E k \in Cancellers : CancelAll(k)) /\ UNCHANGED wait
         \/ WaitCancelled(w)
         \/ UNCHANGED cancelled /\ wait[w].pc = "draining" /\ wait'[w].pc = "checking"
            /\ wait'[w].owed = wait[w].owed /\ \A t \in wait[w].todo : Ended(t)
         \/ UNCHANGED cancelled /\ wait[w].pc # "draining"
            /\ wait'[w].pc \in {"idle", "idling"}
<1> USE DEF TypeInv, TypeOK, LoneWaiter
<1>1. ASSUME NEW v \in Waiters PROVE v = w
  OBVIOUS
<1>2. CASE ManagerWaitIdle(w)
  BY <1>2 DEF ManagerWaitIdle
<1>3. CASE Drained(w)
  <2>1. w \notin ctxDone
    OBVIOUS
  <2>2. wait' = [wait EXCEPT ![w].pc = "checking", ![w].todo = {}]
        /\ wait[w].pc = "draining" /\ cancelled' = cancelled
        /\ \A t \in wait[w].todo : Ended(t)
    BY <1>3, <2>1 DEF Drained
  <2> QED BY <2>2
<1>4. CASE WaitIdle(w)
  BY <1>4 DEF WaitIdle
<1>5. CASE Call
  <2>1. CASE \/ \E c \in Convs : Supersede(c)
             \/ \E k \in Cancellers, c \in Convs : Stop(k, c)
             \/ \E k \in Cancellers, t \in Turns : CancelToken(k, t)
             \/ \E p \in Claimers, c \in Convs : ClaimCall(p, c)
             \/ \E p \in Impatient : ContextEnds(p)
    BY <2>1 DEF Supersede, Stop, CancelToken, ClaimCall, ContextEnds
  <2>2. ASSUME NEW k \in Cancellers, CancelAll(k) PROVE UNCHANGED wait
    BY <2>2 DEF CancelAll
  <2>3. CASE \E v \in Waiters : WaitCancelled(v) \/ ManagerWaitIdle(v)
    BY <1>1, <1>2, <2>3
  <2> QED BY <1>5, <2>1, <2>2, <2>3 DEF Call
<1>6. CASE \/ \E u \in Turns : TurnStep(u)
           \/ \E k \in Cancellers : CancelStep(k)
           \/ \E p \in Claimers : ClaimStep(p)
           \/ \E p \in Impatient : WakeOnDone(p)
           \/ UNCHANGED vars
  BY <1>6 DEF TurnStep, SupersedeFire, SupersedeNotify, Exec, Return, End,
              CancelStep, CancelFire, CancelNotify, Sweep,
              ClaimStep, ClaimGrant, ClaimPark, ClaimGiveUp, WakeOnDone, vars
<1>7. CASE \E v \in Waiters : WaitStep(v)
  BY <1>1, <1>3, <1>4, <1>7 DEF WaitStep
<1> QED BY <1>5, <1>6, <1>7 DEF Next

LEMMA StepListed ==
  ASSUME LoneWaiter, TypeInv, Births, Listed, [Next]_vars
  PROVE  Listed'
<1> SUFFICES ASSUME NEW t \in Turns, Doomed(t)', ~Ended(t)'
             PROVE  \/ t \in cancelled'
                    \/ \E w \in Waiters : wait'[w].pc = "draining" /\ t \in wait'[w].todo
  BY DEF Listed
<1>1. ~Ended(t)
  BY EndedStays
<1>2. CASE t \in cancelled'
  BY <1>2
<1>3. CASE t \notin cancelled'
  <2>1. Doomed(t)
    BY <1>3, DoomedBefore
  <2>2. CASE Waiters = {}
    <3>1. t \in cancelled
      BY <1>1, <2>1, <2>2 DEF Listed
    <3>2. CASE \E k \in Cancellers : CancelAll(k)
      BY <1>1, <1>3, <3>1, <3>2 DEF CancelAll
    <3>3. CASE UNCHANGED cancelled
      BY <1>3, <3>1, <3>3
    <3>4. (\E k \in Cancellers : CancelAll(k)) \/ UNCHANGED cancelled
      <4>1. CASE Call
        BY <2>2, <4>1 DEF Call, Supersede, Stop, CancelToken, ClaimCall, ContextEnds
      <4>2. CASE ~Call
        BY <2>2, <4>2 DEF Next, TurnStep, SupersedeFire, SupersedeNotify, Exec, Return, End,
              CancelStep, CancelFire, CancelNotify, Sweep,
              ClaimStep, ClaimGrant, ClaimPark, ClaimGiveUp, WakeOnDone, vars
      <4> QED BY <4>1, <4>2
    <3> QED BY <3>2, <3>3, <3>4
  <2>3. ASSUME NEW w \in Waiters
        PROVE  wait'[w].pc = "draining" /\ t \in wait'[w].todo
    <3>1. t \in cancelled \/ (wait[w].pc = "draining" /\ t \in wait[w].todo)
      BY <1>1, <2>1, <2>3 DEF Listed, LoneWaiter
    <3>2. CASE UNCHANGED <<cancelled, wait>>
      BY <1>3, <3>1, <3>2
    <3>3. ASSUME NEW k \in Cancellers, CancelAll(k), UNCHANGED wait
          PROVE  wait'[w].pc = "draining" /\ t \in wait'[w].todo
      BY <1>1, <1>3, <3>1, <3>3 DEF CancelAll
    <3>4. CASE WaitCancelled(w)
      <4>1. t \in cancelled
        BY <3>1, <3>4 DEF WaitCancelled
      <4> QED BY <3>4, <4>1 DEF WaitCancelled, TypeInv, TypeOK
    <3>5. CASE UNCHANGED cancelled /\ \A u \in wait[w].todo : Ended(u)
      BY <1>1, <1>3, <3>1, <3>5
    <3>6. CASE UNCHANGED cancelled /\ wait[w].pc # "draining"
      BY <1>3, <3>1, <3>6
    <3> QED BY <2>3, <3>2, <3>3, <3>4, <3>5, <3>6, WaiterEffects
  <2> QED BY <2>2, <2>3
<1> QED BY <1>2, <1>3

LEMMA StepOwed ==
  ASSUME LoneWaiter, TypeInv, Births, Listed, Owed, [Next]_vars
  PROVE  Owed'
<1> SUFFICES ASSUME NEW w \in Waiters
             PROVE  /\ wait'[w].pc = "draining" =>
                           \A t \in wait'[w].owed : Ended(t)' \/ t \in wait'[w].todo
                    /\ wait'[w].pc = "checking" => \A t \in wait'[w].owed : Ended(t)'
  BY DEF Owed
<1>1. \A t \in Turns : Ended(t) => Ended(t)'
  BY EndedStays
<1>2. wait[w].owed \subseteq Turns /\ wait[w].todo \subseteq Turns
  BY DEF TypeInv, TypeOK
<1>3. CASE wait' = wait
  BY <1>1, <1>2, <1>3 DEF Owed
<1>4. CASE WaitCancelled(w)
  <2>1. /\ wait[w].pc = "idle" /\ wait'[w].pc = "draining" /\ wait'[w].todo = cancelled
        /\ wait'[w].owed = {t \in Turns : stoppedBy[t] = "CancelAll" /\ ~Ended(t)}
    BY <1>4 DEF WaitCancelled, TypeInv, TypeOK
  <2>2. \A t \in Turns : stoppedBy[t] = "CancelAll" /\ ~Ended(t) => t \in cancelled
    BY <2>1 DEF Listed, Doomed, LoneWaiter
  <2> QED BY <2>1, <2>2
<1>5. CASE /\ wait[w].pc = "draining" /\ wait'[w].pc = "checking"
           /\ wait'[w].owed = wait[w].owed /\ \A t \in wait[w].todo : Ended(t)
  BY <1>1, <1>2, <1>5 DEF Owed
<1>6. CASE wait'[w].pc \in {"idle", "idling"}
  BY <1>6
<1> QED BY <1>3, <1>4, <1>5, <1>6, WaiterEffects

\* Whoever sleeps in Active has something to wait for; and a WaitCancelled that
\* returns nil, called by one goroutine at a time whose context does not end,
\* has waited for every turn that CancelAll stopped before the call.
THEOREM EveryWaiterIsServed ==
  ASSUME OneSleep, LoneWaiter
  PROVE  Spec => WaitersAreServed
<1>1. Init => Listed /\ Owed
  BY DEF Init, Listed, Owed, Doomed
<1>2. IInv /\ Listed /\ Owed /\ [Next]_vars => Listed' /\ Owed'
  BY StepListed, StepOwed DEF IInv
<1>3. ASSUME IInv, Owed, [Next]_vars, NEW w \in Waiters,
             wait[w].pc = "checking", wait'[w].pc = "idle", w \notin ctxDone
      PROVE  \A t \in wait[w].owed : Ended(t)
  BY <1>3 DEF Owed
<1>4. Spec => WaitCancelledIsComplete
  <2>1. IInv /\ Owed /\ [Next]_vars =>
           [\A w \in Waiters :
               (wait[w].pc = "checking" /\ wait'[w].pc = "idle" /\ w \notin ctxDone)
               => \A t \in wait[w].owed : Ended(t)]_vars
    BY <1>3
  <2> QED BY <1>1, <1>2, <2>1, Invariance, PTL DEF Spec, WaitCancelledIsComplete
<1> QED BY <1>4, NobodySleepsForNothing, PTL DEF WaitersAreServed
=============================================================================
