------------------------------ MODULE Schedule ------------------------------
(* The store of scheduled prompts (schedule/schedule.go): arming, removing  *)
(* and moving items, the loop that claims due items and the goroutines that *)
(* fire them, the file the store is saved to, and restarts.                 *)
(*                                                                          *)
(* Time is counted in MinInterval, the only unit a check compares with.     *)
(* The relay's Fire callback answers ErrGone for a token that names no      *)
(* conversation and otherwise runs a turn in it, during which the agent may *)
(* arm further items for the conversation it runs in.  Ids do not repeat.   *)
EXTENDS Integers, FiniteSets, Functions

CONSTANTS
    Convs,       \* conversation tokens
    MaxItems,    \* bound: how many items are ever armed
    MaxNow,      \* bound: the last moment of the clock
    MaxDepth, MaxPerConv, MaxTotal,   \* Config, all positive
    Repeats,     \* the values of Item.Every: 0 for an item that fires once
    MaxFailures, \* bound: how many saves fail
    MaxRestarts  \* bound: how often the relay restarts

ASSUME BoundsAssumption ==
    /\ MaxItems \in Nat /\ MaxNow \in Nat /\ MaxFailures \in Nat /\ MaxRestarts \in Nat
ASSUME LimitsAssumption ==
    MaxDepth \in Nat \ {0} /\ MaxPerConv \in Nat \ {0} /\ MaxTotal \in Nat \ {0}
ASSUME RepeatsAssumption == Repeats \subseteq Nat

Ids == 1..MaxItems
Items == [conv: Convs, at: Nat, every: Repeats, depth: 1..MaxDepth]
Claims == [id: Ids, conv: Convs, depth: 1..MaxDepth, at: Nat]
Fires == [id: Ids, conv: Convs, arg: Convs, depth: 1..MaxDepth, at: Nat,
          pc: {"called", "turn", "gone"}]

VARIABLES
    items,    \* Store.items
    disk,     \* the items in the file at Config.Path
    claimed,  \* due items the loop holds and has not started
    firing,   \* Store.firing: the running fires; conv is firing.conv, arg the token
              \* Fire was given and then the one its turn runs in
    now,      \* the clock
    minted,   \* ids used so far
    gone,     \* tokens that name no conversation
    stale,    \* history: the file misses a claim
    lost,     \* history: a restart has read a file that missed a claim
    fired,    \* history: the last slot of each item that was claimed
    twice,    \* history: some claim was made a second time
    chain,    \* history: the length of the chain of turns behind each item
    crossed,  \* history: a token got a new conversation while a fire of its old one was on
    failures, restarts   \* for the bounds

vars == <<items, disk, claimed, firing, now, minted, gone, stale, lost, fired, twice, chain,
          crossed, failures, restarts>>
relayVars == <<now, gone, crossed>>
claimHistory == <<lost, fired, twice>>

TypeOK ==
    /\ DOMAIN items \subseteq Ids /\ DOMAIN disk \subseteq Ids
    /\ \A i \in DOMAIN items : items[i] \in Items
    /\ \A i \in DOMAIN disk : disk[i] \in Items
    /\ claimed \subseteq Claims /\ firing \subseteq Fires
    /\ now \in 0..MaxNow /\ minted \in 0..MaxItems /\ gone \subseteq Convs
    /\ stale \in BOOLEAN /\ lost \in BOOLEAN /\ twice \in BOOLEAN /\ crossed \in BOOLEAN
    /\ fired \in [Ids -> Nat \cup {-1}]
    /\ chain \in [Ids -> Nat]
    /\ failures \in 0..MaxFailures /\ restarts \in 0..MaxRestarts

Nothing == [i \in {} |-> 0]

Init ==
    /\ items = Nothing /\ disk = Nothing
    /\ claimed = {} /\ firing = {}
    /\ now = 0 /\ minted = 0 /\ gone = {}
    /\ stale = FALSE /\ lost = FALSE /\ fired = [i \in Ids |-> -1] /\ twice = FALSE
    /\ chain = [i \in Ids |-> 0]
    /\ failures = 0 /\ restarts = 0 /\ crossed = FALSE

-----------------------------------------------------------------------------
Of(its, c) == {i \in DOMAIN its : its[i].conv = c}

\* parentDepthLocked: the deepest scheduled turn firing in c, 0 for none.
ParentDepth(c) ==
    LET depths == {f.depth : f \in {f \in firing : f.conv = c}} \cup {0}
    IN  CHOOSE d \in depths : \A e \in depths : e <= d

\* Mutant: the next slot counts from now.
NextAfter_FromNow(at, every) == now + every

\* nextAfter: the first slot of the item's own grid after now.
NextAfter(at, every) ==
    IF at + every > now THEN at + every
    ELSE at + ((now - at) \div every + 1) * every

SaveFails == failures < MaxFailures /\ failures' = failures + 1

\* commitLocked with an undo: saved, or as if nothing had happened.
Committed(new) ==
    /\ items' = new
    /\ disk' = new
    /\ stale' = FALSE
    /\ UNCHANGED failures

Undone == SaveFails /\ UNCHANGED <<items, disk, stale>>

-----------------------------------------------------------------------------
\* The recursion guard of Add.
Allowed(c) == ParentDepth(c) + 1 <= MaxDepth

Room(c) ==
    /\ Cardinality(DOMAIN items) < MaxTotal
    /\ Cardinality(Of(items, c)) < MaxPerConv

\* Add, for a turn that has behind scheduled turns behind it.
Arm(c, at, every, behind) ==
    LET i == minted + 1
        it == [conv |-> c, at |-> at, every |-> every, depth |-> ParentDepth(c) + 1] IN
    /\ minted < MaxItems
    /\ at >= now
    /\ Allowed(c)
    /\ Room(c)
    /\ minted' = i
    /\ \/ Committed([k \in DOMAIN items \cup {i} |-> IF k = i THEN it ELSE items[k]])
       \/ Undone
    /\ chain' = [chain EXCEPT ![i] = behind + 1]
    /\ UNCHANGED <<claimed, firing, relayVars, claimHistory, restarts>>

\* Add in a turn a human started, and in a turn a fire started.
AddByHuman(c, at, every) == c \notin gone /\ Arm(c, at, every, 0)
AddByTurn(f, at, every) ==
    f \in firing /\ f.pc = "turn" /\ Arm(f.arg, at, every, chain[f.id])

\* Mutant: a removal that could not be saved is not undone.
Remove_NotUndone(i) ==
    /\ i \in DOMAIN items
    /\ \/ Committed(Restrict(items, DOMAIN items \ {i}))
       \/ SaveFails /\ items' = Restrict(items, DOMAIN items \ {i}) /\ UNCHANGED <<disk, stale>>
    /\ UNCHANGED <<claimed, firing, relayVars, minted, claimHistory, chain, restarts>>

\* Remove, by the item's conversation or the operator.
Remove(i) ==
    /\ i \in DOMAIN items
    /\ Committed(Restrict(items, DOMAIN items \ {i})) \/ Undone
    /\ UNCHANGED <<claimed, firing, relayVars, minted, claimHistory, chain, restarts>>

\* The relay moves the conversation: the turns that run in it go along.
Moved(f, from, to) ==
    IF f.pc = "turn" /\ f.arg = from THEN [f EXCEPT !.arg = to] ELSE f

\* Mutant: the running fires stay behind.
RekeyFires_Stay(from, to) == {Moved(f, from, to) : f \in firing}

\* The part of Rekey about running fires.
RekeyFires(from, to) ==
    {Moved(IF f.conv = from THEN [f EXCEPT !.conv = to] ELSE f, from, to) : f \in firing}

\* Whether some fire, called or claimed, still goes to the token.
Awaited(c) == (\E f \in firing : c \in {f.conv, f.arg}) \/ (\E k \in claimed : k.conv = c)

\* Rekey: a conversation gets another token and takes its items and its
\* running fires with it; a claimed item that was not started stays behind.
Rekey(from, to) ==
    LET moved == Of(items, from) IN
    /\ from # to /\ from \notin gone
    /\ \/ /\ IF moved = {}
             THEN UNCHANGED <<items, disk, stale, failures>>
             ELSE Committed([i \in DOMAIN items |->
                      IF i \in moved THEN [items[i] EXCEPT !.conv = to] ELSE items[i]])
          /\ firing' = RekeyFires(from, to)
          /\ gone' = (gone \cup {from}) \ {to}
          /\ crossed' = (crossed \/ (to \in gone /\ Awaited(to)))
       \/ moved # {} /\ Undone /\ UNCHANGED <<firing, gone, crossed>>
    /\ UNCHANGED <<claimed, now, minted, claimHistory, chain, restarts>>

-----------------------------------------------------------------------------
(* The loop and the fires.                                                  *)

DueItems == {i \in DOMAIN items : items[i].at <= now}

\* The loop's copies of items.
ClaimsOf(is) ==
    {[id |-> i, conv |-> items[i].conv, depth |-> items[i].depth, at |-> items[i].at] : i \in is}

\* What the claim leaves armed: the repeats, at their next slot.
AfterClaim ==
    [i \in {i \in DOMAIN items : i \in DueItems => items[i].every > 0} |->
        IF i \in DueItems
        THEN [items[i] EXCEPT !.at = NextAfter(items[i].at, items[i].every)]
        ELSE items[i]]

\* Mutant: a claim that could not be saved is undone.
Due_Undone ==
    /\ claimed = {}
    /\ DueItems # {}
    /\ claimed' = ClaimsOf(DueItems)
    /\ \/ Committed(AfterClaim)
       \/ Undone
    /\ fired' = [i \in Ids |-> IF i \in DueItems THEN items[i].at ELSE fired[i]]
    /\ twice' = (twice \/ \E i \in DueItems : items[i].at <= fired[i])
    /\ UNCHANGED <<firing, relayVars, minted, lost, chain, restarts>>

\* due: every item whose time has come is claimed and advanced or removed in
\* one critical section.  A claim that cannot be saved stands all the same.
Due ==
    /\ claimed = {}
    /\ DueItems # {}
    /\ claimed' = ClaimsOf(DueItems)
    /\ \/ Committed(AfterClaim)
       \/ /\ SaveFails
          /\ items' = AfterClaim
          /\ stale' = TRUE
          /\ UNCHANGED disk
    /\ fired' = [i \in Ids |-> IF i \in DueItems THEN items[i].at ELSE fired[i]]
    /\ twice' = (twice \/ \E i \in DueItems : items[i].at <= fired[i])
    /\ UNCHANGED <<firing, relayVars, minted, lost, chain, restarts>>

\* start: the fire is registered, its goroutine calls Fire.
StartFire(k) ==
    /\ k \in claimed
    /\ claimed' = claimed \ {k}
    /\ firing' = firing \cup {[id |-> k.id, conv |-> k.conv, arg |-> k.conv, depth |-> k.depth,
                               at |-> k.at, pc |-> "called"]}
    /\ UNCHANGED <<items, disk, stale, failures, relayVars, minted, claimHistory, chain, restarts>>

Become(f, pc) == firing' = (firing \ {f}) \cup {[f EXCEPT !.pc = pc]}

\* The relay's Fire: a turn in the conversation, or ErrGone.
FireResolves(f) ==
    /\ f \in firing /\ f.pc = "called"
    /\ IF f.arg \in gone THEN Become(f, "gone") ELSE Become(f, "turn")
    /\ UNCHANGED <<items, disk, stale, failures, claimed, relayVars, minted, claimHistory, chain,
                   restarts>>

\* The end of a fire whose turn is over, however it ended.
EndFire(f) ==
    /\ f \in firing /\ f.pc = "turn"
    /\ firing' = firing \ {f}
    /\ UNCHANGED <<items, disk, stale, failures, claimed, relayVars, minted, claimHistory, chain,
                   restarts>>

\* ErrGone: the item is removed whoever owns it now, and the fire ends.
DropGone(f) ==
    /\ f \in firing /\ f.pc = "gone"
    /\ IF f.id \in DOMAIN items
       THEN Committed(Restrict(items, DOMAIN items \ {f.id})) \/ Undone
       ELSE UNCHANGED <<items, disk, stale, failures>>
    /\ firing' = firing \ {f}
    /\ UNCHANGED <<claimed, relayVars, minted, claimHistory, chain, restarts>>

-----------------------------------------------------------------------------
Clock ==
    /\ now < MaxNow
    /\ now' = now + 1
    /\ UNCHANGED <<items, disk, stale, failures, claimed, firing, gone, crossed, minted,
                   claimHistory, chain, restarts>>

\* A conversation is retired, or the relay stops serving it.
Retire(c) ==
    /\ c \notin gone
    /\ \A f \in firing : f.pc = "turn" => f.conv # c
    /\ gone' = gone \cup {c}
    /\ UNCHANGED <<items, disk, stale, failures, claimed, firing, now, crossed, minted,
                   claimHistory, chain, restarts>>

\* A new conversation under an old token.
Revive(c) ==
    /\ c \in gone
    /\ gone' = gone \ {c}
    /\ crossed' = (crossed \/ Awaited(c))
    /\ UNCHANGED <<items, disk, stale, failures, claimed, firing, now, minted, claimHistory,
                   chain, restarts>>

\* The relay crashes and opens the store again.
Restart ==
    /\ restarts < MaxRestarts
    /\ restarts' = restarts + 1
    /\ items' = disk
    /\ claimed' = {} /\ firing' = {}
    /\ lost' = (lost \/ stale)
    /\ stale' = FALSE
    /\ UNCHANGED <<disk, failures, relayVars, minted, fired, twice, chain>>

\* Mutant: the loop waits for the fires it started.
LoopStep_Waits == firing = {} /\ (Due \/ \E k \in claimed : StartFire(k))

LoopStep == Due \/ \E k \in claimed : StartFire(k)

Next ==
    \/ \E at \in now..MaxNow, every \in Repeats :
          \/ \E c \in Convs : AddByHuman(c, at, every)
          \/ \E f \in firing : AddByTurn(f, at, every)
    \/ \E i \in Ids : Remove(i)
    \/ \E from, to \in Convs : Rekey(from, to)
    \/ LoopStep
    \/ \E f \in firing : FireResolves(f) \/ EndFire(f) \/ DropGone(f)
    \/ Clock
    \/ \E c \in Convs : Retire(c) \/ Revive(c)
    \/ Restart

Spec == Init /\ [][Next]_vars

\* The loop runs.  No fairness for the fires: a turn may take forever.
FairSpec == Spec /\ WF_vars(LoopStep)

-----------------------------------------------------------------------------
(* Properties.                                                              *)

\* "two ticks can never fire one item twice" (schedule.go:416): a slot of an
\* item is claimed a second time only if the first claim could not be saved
\* and the relay restarted.
FiresOnce == twice => lost

\* The file holds what is in memory, through every undo, except after a claim
\* that could not be saved.
FileIsMemory == ~stale => disk = items

\* Saves keep the promise of the claim: the file follows memory, and what was
\* fired stays claimed.
SavedAndFiredOnce == FiresOnce /\ FileIsMemory

\* "Every chain therefore terminates" (package comment): no item has more
\* scheduled turns behind it than its depth says, whatever was moved, merged
\* or restarted, and no depth exceeds the limit.  A fire that still goes to a
\* token of which another conversation has come to own the name is not seen.
ChainBounded ==
    \A i \in DOMAIN items :
        (chain[i] <= items[i].depth \/ crossed) /\ items[i].depth <= MaxDepth

\* nextAfter: a repeat stays on its grid, skips every slot it missed and none
\* to come.
RepeatsOnGrid ==
    [][\A i \in DOMAIN items \cap DOMAIN items' :
           items'[i].at # items[i].at /\ restarts' = restarts =>
               LET e == items[i].every IN
               /\ (items'[i].at - items[i].at) % e = 0
               /\ items'[i].at > now
               /\ items'[i].at - e <= now]_vars

\* Every due item is claimed, however long the turns of other fires take.
DueIsClaimed == DueItems # {} ~> DueItems = {}

\* "ErrGone is returned by a Fire callback whose conversation no longer
\* exists" (schedule.go:62): no item of a conversation that exists is removed
\* for it.
OnlyTheGoneAreDropped ==
    [][\A f \in firing : DropGone(f) =>
           (f.id \in DOMAIN items \ DOMAIN items' => items[f.id].conv \in gone)]_vars
=============================================================================
