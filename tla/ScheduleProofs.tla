--------------------------- MODULE ScheduleProofs ---------------------------
(* Theorems about the store of scheduled prompts, for any number of items,   *)
(* conversations, failed saves and restarts and any limits: what is claimed  *)
(* is claimed once, the file follows memory, chains end, repeats keep their  *)
(* grid.                                                                     *)
EXTENDS Schedule, WellFoundedInduction, TLAPS

-----------------------------------------------------------------------------
(* The invariant                                                            *)

\* A table holds items that were armed, each as deep as its chain is long.
Kept(table, armed, chains, x) ==
    /\ DOMAIN table \subseteq 1..armed
    /\ \A i \in DOMAIN table :
          table[i] \in Items /\ (chains[i] <= table[i].depth \/ x)

\* So is what was claimed and what fires.
Running ==
    \A f \in firing \cup claimed : f.id <= minted /\ (chain[f.id] <= f.depth \/ crossed)

\* A turn runs in the conversation its fire is registered under; a fire that
\* was called under another name will find nobody there.
Routed ==
    ~crossed => \A f \in firing : /\ f.pc = "turn" => f.arg = f.conv
                                  /\ f.pc = "called" /\ f.arg # f.conv => f.arg \in gone

\* The slot an item waits for comes after the slots that were claimed.
Ahead ==
    /\ ~lost => ~twice /\ \A i \in DOMAIN items : fired[i] < items[i].at
    /\ \A i \in Ids : i > minted => fired[i] = -1

IInv ==
    /\ TypeOK
    /\ Kept(items, minted, chain, crossed) /\ Kept(disk, minted, chain, crossed)
    /\ Running /\ Routed /\ Ahead /\ FileIsMemory

-----------------------------------------------------------------------------
(* Numbers                                                                  *)

LEMMA Smallest ==
  ASSUME NEW S \in SUBSET Nat, S # {}
  PROVE \E m \in S : \A x \in S : m <= x
<1> DEFINE R == {p \in Nat \X Nat : p[1] < p[2]}
<1>1. IsWellFoundedOn(R, Nat)
  BY NatLessThanWellFounded DEF OpToRel
<1>3. \A x, m \in Nat : <<x, m>> \in R <=> x < m
  OBVIOUS
<1> HIDE DEF R
<1>2. \E m \in S : \A x \in S : ~(<<x, m>> \in R)
  BY <1>1, WFMin
<1>4. PICK m \in S : \A x \in S : ~(<<x, m>> \in R)
  BY <1>2
<1>5. ASSUME NEW x \in S PROVE m <= x
  <2>1. <<x, m>> \notin R
    BY <1>4
  <2>2. ~(x < m)
    BY <1>3, <2>1
  <2> QED BY <2>2
<1> QED BY <1>5

LEMMA Largest ==
  ASSUME NEW n \in Nat, NEW S \in SUBSET (0..n), S # {}
  PROVE \E m \in S : \A x \in S : x <= m
<1> DEFINE T == {n - x : x \in S}
<1>0. \A x \in S : x \in Nat /\ n - x \in Nat /\ n - x \in T
  OBVIOUS
<1>1. T \subseteq Nat /\ T # {}
  BY <1>0
<1>2. PICK t \in T : \A x \in T : t <= x
  BY <1>1, Smallest
<1>3. PICK m \in S : t = n - m
  BY <1>2
<1> HIDE DEF T
<1> QED BY <1>0, <1>2, <1>3

\* The deepest turn firing in a conversation is one of those that fire.
LEMMA Deepest ==
  ASSUME TypeOK, NEW c \in Convs
  PROVE  /\ ParentDepth(c) \in 0..MaxDepth
         /\ \A f \in firing : f.conv = c => f.depth <= ParentDepth(c)
<1> DEFINE depths == {f.depth : f \in {g \in firing : g.conv = c}} \cup {0}
<1>1. \A f \in firing : f.depth \in 1..MaxDepth
  BY DEF TypeOK, Fires
<1>2. depths \in SUBSET (0..MaxDepth) /\ depths # {} /\ MaxDepth \in Nat
  BY <1>1, LimitsAssumption
<1>3. \A f \in firing : f.conv = c => f.depth \in depths
  OBVIOUS
<1>4. ParentDepth(c) = CHOOSE d \in depths : \A e \in depths : e <= d
  BY DEF ParentDepth
<1> HIDE DEF depths
<1>5. \E d \in depths : \A e \in depths : e <= d
  BY <1>2, Largest
<1>6. ParentDepth(c) \in depths /\ \A e \in depths : e <= ParentDepth(c)
  BY <1>4, <1>5
<1> QED BY <1>2, <1>3, <1>6

\* nextAfter: the first slot of the grid after now.
LEMMA NextSlot ==
  ASSUME NEW at \in Nat, NEW every \in Nat \ {0}, now \in Nat, at <= now
  PROVE  /\ NextAfter(at, every) \in Nat /\ NextAfter(at, every) > now
         /\ NextAfter(at, every) - every <= now
         /\ (NextAfter(at, every) - at) % every = 0
<1> DEFINE n == now - at  q == n \div every
<1>1. CASE at + every > now
  <2>1. every % every = 0 /\ at + every - at = every
    OBVIOUS
  <2> QED BY <1>1, <2>1 DEF NextAfter
<1>2. CASE ~(at + every > now)
  <2>1. n \in Nat /\ n = now - at
    OBVIOUS
  <2> HIDE DEF n
  <2>2. q \in Nat
    BY <2>1
  <2>3. every * q <= n
    BY <2>1
  <2>4. n < every * q + every
    BY <2>1
  <2>5. NextAfter(at, every) = at + (q + 1) * every
    BY <1>2 DEF NextAfter, n
  <2> HIDE DEF q
  <2>6. (q + 1) * every = every * q + every /\ every * q \in Nat
    BY <2>2
  <2>7. ((q + 1) * every) % every = 0
    BY <2>2
  <2> DEFINE m == (q + 1) * every
  <2>8. m \in Nat /\ m > n /\ m - every <= n /\ m % every = 0 /\ NextAfter(at, every) = at + m
    BY <2>1, <2>3, <2>4, <2>5, <2>6, <2>7
  <2> HIDE DEF m
  <2>9. NextAfter(at, every) - at = m
    BY <2>8
  <2> QED BY <2>1, <2>8, <2>9
<1> QED BY <1>1, <1>2

-----------------------------------------------------------------------------
(* The tables                                                               *)

Tables ==
    /\ Kept(items, minted, chain, crossed) /\ Kept(disk, minted, chain, crossed)
    /\ FileIsMemory /\ stale \in BOOLEAN /\ failures \in 0..MaxFailures

Others ==
    /\ claimed \subseteq Claims /\ firing \subseteq Fires
    /\ now \in 0..MaxNow /\ minted \in 0..MaxItems /\ gone \subseteq Convs
    /\ lost \in BOOLEAN /\ twice \in BOOLEAN /\ crossed \in BOOLEAN
    /\ fired \in [Ids -> Nat \cup {-1}] /\ chain \in [Ids -> Nat]
    /\ restarts \in 0..MaxRestarts

LEMMA Split == IInv <=> Tables /\ Others /\ Running /\ Routed /\ Ahead
<1>1. ASSUME minted \in 0..MaxItems, NEW t, Kept(t, minted, chain, crossed)
      PROVE  DOMAIN t \subseteq Ids /\ \A i \in DOMAIN t : t[i] \in Items
  BY <1>1, BoundsAssumption DEF Kept, Ids
<1>2. IInv => Tables /\ Others
  BY DEF IInv, Tables, Others, TypeOK
<1>3. Tables /\ Others => TypeOK
  <2> SUFFICES ASSUME Tables, Others PROVE TypeOK
    OBVIOUS
  <2>1. /\ DOMAIN items \subseteq Ids /\ \A i \in DOMAIN items : items[i] \in Items
        /\ DOMAIN disk \subseteq Ids /\ \A i \in DOMAIN disk : disk[i] \in Items
    BY <1>1 DEF Tables, Others
  <2> QED BY <2>1 DEF TypeOK, Tables, Others
<1> QED BY <1>2, <1>3 DEF IInv, Tables

LEMMA SplitNext == Tables' /\ Others' /\ Running' /\ Routed' /\ Ahead' => IInv'
  BY Split, PTL

\* The numbers of an item.
LEMMA ItemFields ==
  ASSUME NEW it \in Items
  PROVE  it.conv \in Convs /\ it.at \in Nat /\ it.every \in Nat /\ it.depth \in 1..MaxDepth
  BY RepeatsAssumption DEF Items

\* What was kept is, if an item of a greater number is armed.
LEMMA StillKept ==
  ASSUME NEW t, Kept(t, minted, chain, crossed), minted \in Nat, minted' \in Nat,
         minted <= minted', \A i \in 1..minted : chain'[i] = chain[i], crossed => crossed'
  PROVE  Kept(t, minted', chain', crossed')
  BY DEF Kept

\* A commit that succeeds or is undone.
LEMMA Stored ==
  ASSUME Tables, NEW new, Committed(new) \/ Undone, Kept(new, minted', chain', crossed'),
         minted \in Nat, minted' \in Nat, minted <= minted',
         \A i \in 1..minted : chain'[i] = chain[i], crossed => crossed'
  PROVE  Tables'
<1>1. CASE Committed(new)
  BY <1>1 DEF Committed, Tables, FileIsMemory
<1>2. CASE Undone
  <2>1. Kept(items, minted', chain', crossed') /\ Kept(disk, minted', chain', crossed')
    BY StillKept DEF Tables
  <2>2. failures' \in 0..MaxFailures
    BY <1>2, BoundsAssumption DEF Undone, SaveFails, Tables
  <2> QED BY <1>2, <2>1, <2>2 DEF Undone, Tables, FileIsMemory
<1> QED BY <1>1, <1>2

LEMMA Untouched ==
  ASSUME Tables, UNCHANGED <<items, disk, stale, failures, minted, chain>>, minted \in Nat,
         crossed => crossed'
  PROVE  Tables'
<1>1. Kept(items, minted', chain', crossed') /\ Kept(disk, minted', chain', crossed')
  BY StillKept DEF Tables
<1> QED BY <1>1 DEF Tables, FileIsMemory

\* Items removed.
LEMMA Restricted ==
  ASSUME Tables, NEW S, S \subseteq DOMAIN items
  PROVE  /\ DOMAIN Restrict(items, S) = S /\ \A i \in S : Restrict(items, S)[i] = items[i]
         /\ Kept(Restrict(items, S), minted, chain, crossed)
<1>1. DOMAIN Restrict(items, S) = S /\ \A i \in S : Restrict(items, S)[i] = items[i]
  BY DEF Restrict
<1> QED BY <1>1 DEF Tables, Kept

-----------------------------------------------------------------------------
(* The operations                                                           *)

\* An item is armed for a turn with no more scheduled turns behind it than the
\* deepest that fires in its conversation.
LEMMA ArmStep ==
  ASSUME IInv, NEW c \in Convs, NEW at \in Nat, NEW every \in Repeats, NEW behind \in Nat,
         behind <= ParentDepth(c) \/ crossed, Arm(c, at, every, behind)
  PROVE  IInv'
<1> DEFINE i == minted + 1
           it == [conv |-> c, at |-> at, every |-> every, depth |-> ParentDepth(c) + 1]
           new == [k \in DOMAIN items \cup {i} |-> IF k = i THEN it ELSE items[k]]
<1> Tables /\ Others /\ Running /\ Routed /\ Ahead /\ TypeOK
  BY Split DEF IInv
<1>1. /\ minted < MaxItems /\ minted' = i /\ at >= now /\ (Committed(new) \/ Undone)
      /\ chain' = [chain EXCEPT ![i] = behind + 1] /\ ParentDepth(c) + 1 <= MaxDepth
      /\ UNCHANGED <<claimed, firing, now, gone, crossed, lost, fired, twice, restarts>>
  BY DEF Arm, Allowed, relayVars, claimHistory
<1>2. minted \in Nat /\ MaxItems \in Nat /\ i \in Ids /\ now \in Nat /\ i \in Nat
  BY <1>1, BoundsAssumption DEF Others, Ids
<1>3. ParentDepth(c) \in 0..MaxDepth /\ MaxDepth \in Nat
  BY Deepest, LimitsAssumption
<1>4. /\ chain' \in [Ids -> Nat] /\ chain'[i] = behind + 1
      /\ \A k \in 1..minted : chain'[k] = chain[k]
  <2>1. \A k \in 1..minted : k # i /\ k \in Ids
    BY <1>1, <1>2 DEF Ids
  <2> QED BY <1>1, <1>2, <2>1 DEF Others
<1>5. it \in Items /\ it.at = at /\ it.depth = ParentDepth(c) + 1
  BY <1>1, <1>3 DEF Items
<1> HIDE DEF it
<1>6. /\ DOMAIN new = DOMAIN items \cup {i} /\ new[i] = it /\ i \notin DOMAIN items
      /\ \A k \in DOMAIN items : new[k] = items[k]
  BY <1>2 DEF Tables, Kept
<1> HIDE DEF new
<1>7. Kept(new, minted', chain', crossed')
  <2>1. Kept(items, minted', chain', crossed')
    <3>1. minted' \in Nat /\ minted <= minted'
      BY <1>1, <1>2
    <3> QED BY <1>1, <1>2, <1>4, <3>1, StillKept DEF Tables
  <2>2. chain'[i] <= it.depth \/ crossed'
    BY <1>1, <1>3, <1>4, <1>5
  <2> QED BY <1>1, <1>2, <1>5, <1>6, <2>1, <2>2 DEF Kept
<1>8. Tables'
  <2>1. minted' \in Nat /\ minted <= minted'
    BY <1>1, <1>2
  <2> QED BY <1>1, <1>2, <1>4, <1>7, <2>1, Stored
<1>9. Others'
  BY <1>1, <1>2, <1>4 DEF Others, Ids
<1>10. Running'
  <2>1. \A f \in firing \cup claimed : f.id \in 1..minted
    BY <1>2 DEF Running, Others, Claims, Fires, Ids
  <2> QED BY <1>1, <1>2, <1>4, <2>1 DEF Running
<1>11. Routed'
  BY <1>1 DEF Routed
<1>12. Ahead'
  <2>1. fired[i] = -1 /\ -1 < at
    BY <1>2 DEF Ahead
  <2>2. ~lost => \A k \in DOMAIN items' : fired[k] < items'[k].at
    BY <1>1, <1>5, <1>6, <2>1 DEF Committed, Undone, Ahead
  <2>3. \A k \in Ids : k > minted' => fired[k] = -1
    BY <1>1, <1>2 DEF Ahead, Ids
  <2> QED BY <1>1, <2>2, <2>3 DEF Ahead
<1> QED BY <1>8, <1>9, <1>10, <1>11, <1>12, SplitNext

LEMMA AddStep ==
  ASSUME IInv, NEW at \in now..MaxNow, NEW every \in Repeats,
         \/ \E c \in Convs : AddByHuman(c, at, every)
         \/ \E f \in firing : AddByTurn(f, at, every)
  PROVE  IInv'
<1>1. at \in Nat /\ TypeOK /\ Running /\ Routed
  BY DEF IInv, TypeOK
<1>2. ASSUME NEW c \in Convs, AddByHuman(c, at, every) PROVE IInv'
  BY <1>1, <1>2, Deepest, ArmStep, LimitsAssumption DEF AddByHuman
<1>3. ASSUME NEW f \in firing, AddByTurn(f, at, every) PROVE IInv'
  <2>1. /\ f.arg \in Convs /\ f.id \in Ids /\ chain[f.id] \in Nat /\ f.depth \in Nat
        /\ f.pc = "turn" /\ Arm(f.arg, at, every, chain[f.id])
    BY <1>1, <1>3 DEF AddByTurn, TypeOK, Fires
  <2>2. ParentDepth(f.arg) \in Nat /\ (f.conv = f.arg => f.depth <= ParentDepth(f.arg))
    BY <1>1, <2>1, Deepest
  <2>3. chain[f.id] <= f.depth \/ crossed
    BY <1>1 DEF Running
  <2>4. f.conv = f.arg \/ crossed
    BY <1>1, <2>1 DEF Routed
  <2>5. chain[f.id] <= ParentDepth(f.arg) \/ crossed
    BY <2>1, <2>2, <2>3, <2>4
  <2> QED BY <1>1, <2>1, <2>5, ArmStep
<1> QED BY <1>2, <1>3

\* An item less.
LEMMA RemoveStep ==
  ASSUME IInv, NEW i \in Ids, Remove(i)
  PROVE  IInv'
<1> DEFINE S == DOMAIN items \ {i}
           new == Restrict(items, S)
<1> Tables /\ Others /\ Running /\ Routed /\ Ahead
  BY Split
<1>1. /\ Committed(new) \/ Undone
      /\ UNCHANGED <<claimed, firing, now, gone, crossed, minted, lost, fired, twice, chain,
                     restarts>>
  BY DEF Remove, relayVars, claimHistory
<1>2. /\ DOMAIN new = S /\ \A k \in S : new[k] = items[k]
      /\ Kept(new, minted, chain, crossed)
  BY Restricted
<1> HIDE DEF new
<1>3. Tables'
  BY <1>1, <1>2, Stored DEF Others
<1>4. Others' /\ Running' /\ Routed'
  BY <1>1 DEF Others, Running, Routed
<1>5. Ahead'
  BY <1>1, <1>2 DEF Ahead, Committed, Undone
<1> QED BY <1>3, <1>4, <1>5, SplitNext

\* What moves along with a conversation.
LEMMA FiresMoved ==
  ASSUME Others, NEW from \in Convs, NEW to \in Convs, NEW g \in RekeyFires(from, to)
  PROVE  \E f \in firing :
            /\ g \in Fires /\ g.id = f.id /\ g.depth = f.depth /\ g.pc = f.pc
            /\ g.conv = IF f.conv = from THEN to ELSE f.conv
            /\ g.arg = IF f.pc = "turn" /\ f.arg = from THEN to ELSE f.arg
<1>1. PICK f \in firing :
          g = Moved(IF f.conv = from THEN [f EXCEPT !.conv = to] ELSE f, from, to)
  BY DEF RekeyFires
<1> DEFINE h == IF f.conv = from THEN [f EXCEPT !.conv = to] ELSE f
<1>2. f \in Fires
  BY DEF Others
<1>3. /\ h \in Fires /\ h.id = f.id /\ h.depth = f.depth /\ h.pc = f.pc /\ h.arg = f.arg
      /\ h.conv = IF f.conv = from THEN to ELSE f.conv
  BY <1>2 DEF Fires
<1> HIDE DEF h
<1>4. g = Moved(h, from, to)
  BY <1>1 DEF h
<1>5. /\ g \in Fires /\ g.id = h.id /\ g.depth = h.depth /\ g.pc = h.pc /\ g.conv = h.conv
      /\ g.arg = IF h.pc = "turn" /\ h.arg = from THEN to ELSE h.arg
  BY <1>3, <1>4 DEF Moved, Fires
<1> QED BY <1>3, <1>5

\* Turns follow their conversation; whoever was called before goes to a token
\* that is gone.
LEMMA RekeyStep ==
  ASSUME IInv, NEW from \in Convs, NEW to \in Convs, Rekey(from, to)
  PROVE  IInv'
<1> DEFINE moved == Of(items, from)
           new == [i \in DOMAIN items |->
                      IF i \in moved THEN [items[i] EXCEPT !.conv = to] ELSE items[i]]
<1> Tables /\ Others /\ Running /\ Routed /\ Ahead
  BY Split
<1>1. /\ from # to /\ from \notin gone
      /\ Committed(new) \/ Undone \/ UNCHANGED <<items, disk, stale, failures>>
      /\ \/ /\ firing' = RekeyFires(from, to) /\ gone' = (gone \cup {from}) \ {to}
            /\ crossed' = (crossed \/ (to \in gone /\ Awaited(to)))
         \/ UNCHANGED <<firing, gone, crossed>>
      /\ UNCHANGED <<claimed, now, minted, lost, fired, twice, chain, restarts>>
  BY DEF Rekey, claimHistory
<1>2. crossed => crossed'
  BY <1>1
<1>3. /\ DOMAIN new = DOMAIN items
      /\ \A i \in DOMAIN items : /\ new[i] \in Items /\ new[i].at = items[i].at
                                 /\ new[i].depth = items[i].depth
  <2>1. \A i \in DOMAIN items : items[i] \in Items
    BY DEF Tables, Kept
  <2> QED BY <2>1 DEF Items
<1> HIDE DEF new
<1>4. Kept(new, minted', chain', crossed')
  BY <1>1, <1>2, <1>3 DEF Tables, Kept
<1>5. minted \in Nat /\ minted' = minted /\ \A i \in 1..minted : chain'[i] = chain[i]
  BY <1>1 DEF Others
<1>6. Tables'
  BY <1>1, <1>2, <1>4, <1>5, Stored, Untouched
<1>7. Ahead'
  BY <1>1, <1>3 DEF Ahead, Committed, Undone
<1>8. CASE UNCHANGED <<firing, gone, crossed>>
  BY <1>1, <1>6, <1>7, <1>8, SplitNext DEF Others, Running, Routed
<1>9. CASE /\ firing' = RekeyFires(from, to) /\ gone' = (gone \cup {from}) \ {to}
           /\ crossed' = (crossed \/ (to \in gone /\ Awaited(to)))
  <2>1. ASSUME NEW g \in firing'
        PROVE  \E f \in firing :
                  /\ g \in Fires /\ g.id = f.id /\ g.depth = f.depth /\ g.pc = f.pc
                  /\ g.conv = IF f.conv = from THEN to ELSE f.conv
                  /\ g.arg = IF f.pc = "turn" /\ f.arg = from THEN to ELSE f.arg
    BY <1>9, FiresMoved
  <2>2. firing' \subseteq Fires /\ crossed' \in BOOLEAN
    BY <1>9, <2>1 DEF Others
  <2>3. Others'
    BY <1>1, <1>9, <2>2 DEF Others
  <2>4. Running'
    BY <1>1, <1>2, <2>1 DEF Running
  <2>5. Routed'
    <3> SUFFICES ASSUME ~crossed', NEW g \in firing'
                 PROVE  /\ g.pc = "turn" => g.arg = g.conv
                        /\ g.pc = "called" /\ g.arg # g.conv => g.arg \in gone'
      BY DEF Routed
    <3>1. PICK f \in firing :
              /\ g.pc = f.pc
              /\ g.conv = IF f.conv = from THEN to ELSE f.conv
              /\ g.arg = IF f.pc = "turn" /\ f.arg = from THEN to ELSE f.arg
      BY <2>1
    <3>2. /\ f.pc = "turn" => f.arg = f.conv
          /\ f.pc = "called" /\ f.arg # f.conv => f.arg \in gone
      BY <1>2 DEF Routed
    <3>3. to \in gone => f.arg # to
      BY <1>9 DEF Awaited
    <3> QED BY <1>1, <1>9, <3>1, <3>2, <3>3
  <2> QED BY <1>6, <1>7, <2>3, <2>4, <2>5, SplitNext
<1> QED BY <1>1, <1>8, <1>9

-----------------------------------------------------------------------------
(* The loop and the fires                                                   *)

\* What a claim leaves armed waits for a slot that is still to come.
LEMMA Advanced ==
  ASSUME Tables, Others
  PROVE  /\ DOMAIN AfterClaim \subseteq DOMAIN items
         /\ \A i \in DOMAIN AfterClaim :
               /\ AfterClaim[i] \in Items /\ AfterClaim[i].depth = items[i].depth
               /\ i \in DueItems => items[i].every # 0 /\ items[i].at <= now
               /\ AfterClaim[i].at = IF i \in DueItems
                                     THEN NextAfter(items[i].at, items[i].every)
                                     ELSE items[i].at
               /\ i \in DueItems => AfterClaim[i].at > now
<1>1. DOMAIN AfterClaim = {i \in DOMAIN items : i \in DueItems => items[i].every > 0}
  BY DEF AfterClaim
<1>2. now \in Nat
  BY DEF Others
<1>3. ASSUME NEW i \in DOMAIN AfterClaim
      PROVE  /\ AfterClaim[i] \in Items /\ AfterClaim[i].depth = items[i].depth
             /\ i \in DueItems => items[i].every # 0 /\ items[i].at <= now
             /\ AfterClaim[i].at = IF i \in DueItems
                                   THEN NextAfter(items[i].at, items[i].every)
                                   ELSE items[i].at
             /\ i \in DueItems => AfterClaim[i].at > now
  <2>1. items[i] \in Items
    BY <1>1 DEF Tables, Kept
  <2>2. AfterClaim[i] = IF i \in DueItems
                        THEN [items[i] EXCEPT !.at = NextAfter(items[i].at, items[i].every)]
                        ELSE items[i]
    BY <1>1 DEF AfterClaim
  <2>3. CASE i \notin DueItems
    BY <2>1, <2>2, <2>3
  <2>4. CASE i \in DueItems
    <3>1. items[i].every \in Nat \ {0} /\ items[i].at \in Nat /\ items[i].at <= now
      BY <1>1, <2>1, <2>4, ItemFields DEF DueItems
    <3> DEFINE next == NextAfter(items[i].at, items[i].every)
    <3>2. next \in Nat /\ next > now
      BY <1>2, <3>1, NextSlot
    <3> HIDE DEF next
    <3>3. AfterClaim[i] = [items[i] EXCEPT !.at = next]
      BY <2>2, <2>4 DEF next
    <3>4. AfterClaim[i] \in Items /\ AfterClaim[i].depth = items[i].depth /\ AfterClaim[i].at = next
      BY <2>1, <3>2, <3>3 DEF Items
    <3> QED BY <2>4, <3>1, <3>2, <3>4 DEF next
  <2> QED BY <2>3, <2>4
<1> QED BY <1>1, <1>3

LEMMA DueStep ==
  ASSUME IInv, Due
  PROVE  IInv'
<1> Tables /\ Others /\ Running /\ Routed /\ Ahead
  BY Split
<1>1. /\ claimed' = ClaimsOf(DueItems)
      /\ \/ Committed(AfterClaim)
         \/ SaveFails /\ items' = AfterClaim /\ stale' = TRUE /\ disk' = disk
      /\ fired' = [i \in Ids |-> IF i \in DueItems THEN items[i].at ELSE fired[i]]
      /\ twice' = (twice \/ \E i \in DueItems : items[i].at <= fired[i])
      /\ UNCHANGED <<firing, now, gone, crossed, minted, lost, chain, restarts>>
  BY DEF Due, relayVars
<1>2. \A i \in DueItems : /\ i \in Ids /\ i \in 1..minted /\ items[i] \in Items
                          /\ items[i].at \in Nat /\ items[i].at <= now
                          /\ (chain[i] <= items[i].depth \/ crossed)
  <2>1. DOMAIN items \subseteq Ids
    BY BoundsAssumption DEF Tables, Kept, Others, Ids
  <2> QED BY <2>1, ItemFields DEF Tables, Kept, DueItems
<1>3. Kept(AfterClaim, minted, chain, crossed)
  BY Advanced DEF Tables, Kept
<1>4. Tables'
  <2>1. failures' \in 0..MaxFailures
    BY <1>1, BoundsAssumption DEF Committed, SaveFails, Tables
  <2> QED BY <1>1, <1>3, <2>1 DEF Committed, Tables, FileIsMemory
<1>5. \A k \in claimed' : k \in Claims /\ k.id <= minted /\ (chain[k.id] <= k.depth \/ crossed)
  <2> SUFFICES ASSUME NEW i \in DueItems,
                      NEW k, k = [id |-> i, conv |-> items[i].conv, depth |-> items[i].depth,
                                  at |-> items[i].at]
               PROVE  k \in Claims /\ k.id <= minted /\ (chain[k.id] <= k.depth \/ crossed)
    BY <1>1 DEF ClaimsOf
  <2>1. items[i].conv \in Convs /\ items[i].depth \in 1..MaxDepth
    BY <1>2, ItemFields
  <2> QED BY <1>2, <2>1 DEF Claims, Others
<1>6. Others'
  <2>1. fired' \in [Ids -> Nat \cup {-1}]
    BY <1>1, <1>2 DEF Others
  <2> QED BY <1>1, <1>5, <2>1 DEF Others
<1>7. Running' /\ Routed'
  BY <1>1, <1>5 DEF Running, Routed
<1>8. Ahead'
  <2>1. \A i \in Ids : fired'[i] = IF i \in DueItems THEN items[i].at ELSE fired[i]
    BY <1>1
  <2>2. \A i \in Ids : i > minted' => fired'[i] = -1
    BY <1>1, <1>2, <2>1 DEF Ahead, Others
  <2>3. ASSUME ~lost' PROVE ~twice'
    <3>1. \A i \in DueItems : fired[i] < items[i].at /\ fired[i] \in Int
      BY <1>1, <1>2, <2>3 DEF Ahead, DueItems, Others
    <3>2. ~\E i \in DueItems : items[i].at <= fired[i]
      BY <1>2, <3>1
    <3>3. ~twice
      BY <1>1, <2>3 DEF Ahead
    <3> QED BY <1>1, <3>2, <3>3
  <2>4. ASSUME ~lost', NEW i \in DOMAIN items' PROVE fired'[i] < items'[i].at
    <3>1. items' = AfterClaim /\ i \in DOMAIN items /\ i \in Ids
      BY <1>1, Advanced, BoundsAssumption DEF Committed, Tables, Kept, Others, Ids
    <3>2. CASE i \in DueItems
      <4>1. AfterClaim[i].at > now /\ AfterClaim[i].at \in Nat /\ now \in Nat
        BY <2>4, <3>1, <3>2, Advanced, ItemFields DEF Others
      <4> QED BY <1>2, <2>1, <3>1, <3>2, <4>1
    <3>3. CASE i \notin DueItems
      BY <1>1, <2>1, <2>4, <3>1, <3>3, Advanced DEF Ahead
    <3> QED BY <3>2, <3>3
  <2> QED BY <2>2, <2>3, <2>4 DEF Ahead
<1> QED BY <1>4, <1>6, <1>7, <1>8, SplitNext

\* A claim becomes a fire.
LEMMA StartStep ==
  ASSUME IInv, NEW k \in claimed, StartFire(k)
  PROVE  IInv'
<1> DEFINE f == [id |-> k.id, conv |-> k.conv, arg |-> k.conv, depth |-> k.depth, at |-> k.at,
                 pc |-> "called"]
<1> Tables /\ Others /\ Running /\ Routed /\ Ahead
  BY Split
<1>1. /\ claimed' = claimed \ {k} /\ firing' = firing \cup {f}
      /\ UNCHANGED <<items, disk, stale, failures, now, gone, crossed, minted, lost, fired, twice,
                     chain, restarts>>
  BY DEF StartFire, relayVars, claimHistory
<1>2. /\ f \in Fires /\ f.id = k.id /\ f.depth = k.depth /\ f.pc = "called" /\ f.arg = f.conv
  BY DEF Others, Claims, Fires
<1> HIDE DEF f
<1>3. Tables'
  BY <1>1, Untouched DEF Others
<1>4. Others'
  BY <1>1, <1>2 DEF Others
<1>5. Running'
  BY <1>1, <1>2 DEF Running
<1>6. Routed' /\ Ahead'
  BY <1>1, <1>2 DEF Routed, Ahead
<1> QED BY <1>3, <1>4, <1>5, <1>6, SplitNext

\* The callback finds the conversation or not, and the fire ends.
LEMMA FireStep ==
  ASSUME IInv, NEW f \in firing, FireResolves(f) \/ EndFire(f)
  PROVE  IInv'
<1> Tables /\ Others /\ Running /\ Routed /\ Ahead
  BY Split
<1>1. UNCHANGED <<items, disk, stale, failures, claimed, now, gone, crossed, minted, lost, fired,
                  twice, chain, restarts>>
  BY DEF FireResolves, EndFire, relayVars, claimHistory
<1>2. ASSUME NEW g \in firing'
      PROVE  \/ g \in firing
             \/ /\ g \in Fires /\ g.id = f.id /\ g.depth = f.depth
                /\ f.pc = "called" /\ g.arg = f.arg /\ g.conv = f.conv
                /\ g.pc = IF f.arg \in gone THEN "gone" ELSE "turn"
  <2>1. CASE EndFire(f)
    BY <2>1 DEF EndFire
  <2>2. CASE FireResolves(f)
    BY <2>2 DEF FireResolves, Become, Others, Fires
  <2> QED BY <2>1, <2>2
<1>3. Tables'
  BY <1>1, Untouched DEF Others
<1>4. Others'
  BY <1>1, <1>2 DEF Others
<1>5. Running'
  BY <1>1, <1>2 DEF Running
<1>6. Routed'
  BY <1>1, <1>2 DEF Routed
<1>7. Ahead'
  BY <1>1 DEF Ahead
<1> QED BY <1>3, <1>4, <1>5, <1>6, <1>7, SplitNext

LEMMA GoneStep ==
  ASSUME IInv, NEW f \in firing, DropGone(f)
  PROVE  IInv'
<1> DEFINE S == DOMAIN items \ {f.id}
           new == Restrict(items, S)
<1> Tables /\ Others /\ Running /\ Routed /\ Ahead
  BY Split
<1>1. /\ Committed(new) \/ Undone \/ UNCHANGED <<items, disk, stale, failures>>
      /\ firing' = firing \ {f}
      /\ UNCHANGED <<claimed, now, gone, crossed, minted, lost, fired, twice, chain, restarts>>
  BY DEF DropGone, relayVars, claimHistory
<1>2. /\ DOMAIN new = S /\ \A k \in S : new[k] = items[k]
      /\ Kept(new, minted, chain, crossed)
  BY Restricted
<1> HIDE DEF new
<1>3. Tables'
  BY <1>1, <1>2, Stored, Untouched DEF Others
<1>4. Others' /\ Running' /\ Routed'
  BY <1>1 DEF Others, Running, Routed
<1>5. Ahead'
  BY <1>1, <1>2 DEF Ahead, Committed, Undone
<1> QED BY <1>3, <1>4, <1>5, SplitNext

-----------------------------------------------------------------------------
(* The relay                                                                *)

LEMMA RelayStep ==
  ASSUME IInv, Clock \/ \E c \in Convs : Retire(c) \/ Revive(c)
  PROVE  IInv'
<1> Tables /\ Others /\ Running /\ Routed /\ Ahead
  BY Split
<1>1. /\ UNCHANGED <<items, disk, stale, failures, claimed, firing, minted, lost, fired, twice,
                     chain, restarts>>
      /\ now' \in 0..MaxNow /\ crossed' \in BOOLEAN /\ gone' \subseteq Convs
      /\ crossed => crossed'
  <2>1. CASE Clock
    BY <2>1, BoundsAssumption DEF Clock, claimHistory, Others
  <2>2. CASE \E c \in Convs : Retire(c) \/ Revive(c)
    <3>1. crossed' \in BOOLEAN /\ (crossed => crossed')
      <4>1. crossed \in BOOLEAN
        BY DEF Others
      <4>2. crossed' = crossed \/ \E c \in Convs : crossed' = (crossed \/ Awaited(c))
        BY <2>2 DEF Retire, Revive
      <4> QED BY <4>1, <4>2
    <3>2. gone' \subseteq Convs /\ now' \in 0..MaxNow
      BY <2>2 DEF Retire, Revive, Others
    <3>3. UNCHANGED <<items, disk, stale, failures, claimed, firing, minted, lost, fired, twice,
                      chain, restarts>>
      BY <2>2 DEF Retire, Revive, claimHistory
    <3> QED BY <3>1, <3>2, <3>3
  <2> QED BY <2>1, <2>2
<1>2. Routed'
  <2>1. CASE Clock
    BY <2>1 DEF Clock, Routed
  <2>2. ASSUME NEW c \in Convs, Retire(c) PROVE Routed'
    BY <2>2 DEF Retire, Routed
  <2>3. ASSUME NEW c \in Convs, Revive(c) PROVE Routed'
    <3> SUFFICES ASSUME ~crossed', NEW f \in firing
                 PROVE  /\ f.pc = "turn" => f.arg = f.conv
                        /\ f.pc = "called" /\ f.arg # f.conv => f.arg \in gone'
      BY <1>1 DEF Routed
    <3>1. f.arg # c /\ ~crossed /\ gone' = gone \ {c}
      BY <2>3 DEF Revive, Awaited
    <3> QED BY <3>1 DEF Routed
  <2> QED BY <2>1, <2>2, <2>3
<1>3. Tables'
  BY <1>1, Untouched DEF Others
<1>4. Others' /\ Running' /\ Ahead'
  BY <1>1 DEF Others, Running, Ahead
<1> QED BY <1>2, <1>3, <1>4, SplitNext

\* The store is opened again: what the file missed is lost.
LEMMA RestartStep ==
  ASSUME IInv, Restart
  PROVE  IInv'
<1> Tables /\ Others /\ Running /\ Routed /\ Ahead
  BY Split
<1>1. /\ items' = disk /\ claimed' = {} /\ firing' = {} /\ lost' = (lost \/ stale)
      /\ stale' = FALSE /\ restarts < MaxRestarts /\ restarts' = restarts + 1
      /\ UNCHANGED <<disk, failures, now, gone, crossed, minted, fired, twice, chain>>
  BY DEF Restart, relayVars
<1>2. Tables'
  BY <1>1 DEF Tables, FileIsMemory
<1>3. Others'
  <2>1. restarts' \in 0..MaxRestarts /\ lost' \in BOOLEAN
    BY <1>1, BoundsAssumption DEF Others, Tables
  <2> QED BY <1>1, <2>1 DEF Others
<1>4. Running' /\ Routed'
  BY <1>1 DEF Running, Routed
<1>5. Ahead'
  BY <1>1 DEF Ahead, Tables, FileIsMemory
<1> QED BY <1>2, <1>3, <1>4, <1>5, SplitNext

-----------------------------------------------------------------------------
(* The theorems                                                             *)

LEMMA InitIInv == Init => IInv
<1> SUFFICES ASSUME Init PROVE IInv
  OBVIOUS
<1>1. DOMAIN items = {} /\ DOMAIN disk = {} /\ items = disk
  BY DEF Init, Nothing
<1>2. Tables
  <2>1. Kept(items, minted, chain, crossed) /\ Kept(disk, minted, chain, crossed)
    BY <1>1 DEF Kept
  <2>2. stale \in BOOLEAN
    BY DEF Init
  <2>3. failures \in 0..MaxFailures
    BY BoundsAssumption DEF Init
  <2> QED BY <1>1, <2>1, <2>2, <2>3 DEF Tables, FileIsMemory
<1>3. Others
  <2>1. now \in 0..MaxNow /\ minted \in 0..MaxItems /\ restarts \in 0..MaxRestarts
    BY BoundsAssumption DEF Init
  <2>2. fired \in [Ids -> Nat \cup {-1}] /\ chain \in [Ids -> Nat]
    BY DEF Init
  <2>3. /\ claimed \subseteq Claims /\ firing \subseteq Fires /\ gone \subseteq Convs
        /\ lost \in BOOLEAN /\ twice \in BOOLEAN /\ crossed \in BOOLEAN
    BY DEF Init
  <2> QED BY <2>1, <2>2, <2>3 DEF Others
<1>4. Running /\ Routed /\ Ahead
  BY <1>1 DEF Init, Running, Routed, Ahead
<1> QED BY <1>2, <1>3, <1>4, Split

LEMMA Step == IInv /\ [Next]_vars => IInv'
<1> SUFFICES ASSUME IInv, [Next]_vars PROVE IInv'
  OBVIOUS
<1>1. CASE UNCHANGED vars
  BY <1>1 DEF vars, IInv, TypeOK, Kept, Running, Routed, Ahead, FileIsMemory
<1> QED BY <1>1, AddStep, RemoveStep, RekeyStep, DueStep, StartStep, FireStep, GoneStep,
           RelayStep, RestartStep DEF Next, LoopStep

\* In every state the items, the file, the fires and their chains are as IInv
\* says (schedule.go).
THEOREM Invariance == Spec => []IInv
  BY InitIInv, Step, PTL DEF Spec

\* No slot of an item fires twice but across a restart that follows a claim
\* that could not be saved, and but for such a claim the file holds what is in
\* memory (schedule.go:416).
THEOREM SavedOnce == Spec => []SavedAndFiredOnce
<1>1. IInv => SavedAndFiredOnce
  BY DEF IInv, TypeOK, Ahead, SavedAndFiredOnce, FiresOnce
<1> QED BY <1>1, Invariance, PTL

\* Every chain of turns that arm turns is as long as the depth of its item at
\* most, and so ends (schedule.go, package comment).
THEOREM ChainsEnd == Spec => []ChainBounded
<1>1. IInv => ChainBounded
  <2> SUFFICES ASSUME IInv, NEW i \in DOMAIN items
               PROVE  (chain[i] <= items[i].depth \/ crossed) /\ items[i].depth <= MaxDepth
    BY DEF ChainBounded
  <2>1. items[i] \in Items /\ (chain[i] <= items[i].depth \/ crossed)
    BY DEF IInv, Kept
  <2>2. items[i].depth <= MaxDepth
    BY <2>1, ItemFields, LimitsAssumption
  <2> QED BY <2>1, <2>2
<1> QED BY <1>1, Invariance, PTL

\* A repeat that is claimed goes on with the first slot of its own grid that is
\* still to come (nextAfter, schedule.go).
THEOREM OnGrid == Spec => RepeatsOnGrid
<1> DEFINE Grid ==
      \A i \in DOMAIN items \cap DOMAIN items' :
           items'[i].at # items[i].at /\ restarts' = restarts =>
               LET e == items[i].every IN
               /\ (items'[i].at - items[i].at) % e = 0
               /\ items'[i].at > now
               /\ items'[i].at - e <= now
<1>1. IInv /\ [Next]_vars => [Grid]_vars
  <2> SUFFICES ASSUME IInv, Next PROVE Grid
    OBVIOUS
  <2> SUFFICES ASSUME NEW i \in DOMAIN items \cap DOMAIN items', items'[i].at # items[i].at,
                      restarts' = restarts
               PROVE  /\ (items'[i].at - items[i].at) % items[i].every = 0
                      /\ items'[i].at > now
                      /\ items'[i].at - items[i].every <= now
    OBVIOUS
  <2> Tables /\ Others
    BY Split
  <2>1. CASE Due
    <3>1. items' = AfterClaim
      BY <2>1 DEF Due, Committed
    <3>2. i \in DueItems
      BY <3>1, Advanced
    <3>3. /\ items'[i].at = NextAfter(items[i].at, items[i].every)
          /\ items[i].every # 0 /\ items[i].at <= now
      BY <3>1, <3>2, Advanced
    <3>4. items[i].at \in Nat /\ items[i].every \in Nat /\ now \in Nat
      BY ItemFields DEF Tables, Kept, Others
    <3> QED BY <3>3, <3>4, NextSlot
  <2>2. ~Restart
    BY DEF Restart, Others
  <2>3. ASSUME NEW c, NEW at, NEW every, NEW behind, Arm(c, at, every, behind) PROVE FALSE
    <3>1. minted + 1 \notin DOMAIN items
      BY DEF Tables, Kept, Others
    <3> QED BY <2>3, <3>1 DEF Arm, Committed, Undone
  <2>4. ASSUME NEW S, Committed(Restrict(items, S)) \/ Undone PROVE FALSE
    BY <2>4 DEF Committed, Undone, Restrict
  <2>5. ASSUME NEW from \in Convs, NEW to \in Convs, Rekey(from, to) PROVE FALSE
    <3>1. items[i] \in Items
      BY DEF Tables, Kept
    <3> QED BY <2>5, <3>1 DEF Rekey, Committed, Undone, Items
  <2>6. items' # items
    OBVIOUS
  <2> QED BY <2>1, <2>2, <2>3, <2>4, <2>5, <2>6
          DEF Next, AddByHuman, AddByTurn, Remove, LoopStep, StartFire, FireResolves, EndFire,
              DropGone, Clock, Retire, Revive
<1> QED BY <1>1, Invariance, PTL DEF Spec, RepeatsOnGrid
=============================================================================
