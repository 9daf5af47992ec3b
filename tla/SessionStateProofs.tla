------------------------- MODULE SessionStateProofs -------------------------
(* Theorems about one conversation of state.Manager, for any number of      *)
(* callers, sessions and restarts: whom the live session is shared by, and  *)
(* which sessions a Reset keeps out.                                        *)
EXTENDS SessionState, TLAPS

-----------------------------------------------------------------------------
(* The invariant                                                            *)

Owning == {"track", "sink", "insert"}     \* a session was opened, nobody knows of it
Holding == {"rebind", "have"}             \* a session of the map

\* Every session was made by the agent.
Made ==
    LET made == 1..minted IN
    /\ byKey \in made \cup {None} /\ recent \in made \cup {None}
    /\ drops \subseteq made /\ prompted \subseteq made /\ discarded \subseteq made
    /\ \A c \in Creators : creator[c].sid \in made \cup {None}

\* A call holds the live session, or one that a Reset or a GC took away.
Shared ==
    /\ \A c \in Creators : creator[c].pc \in Owning \cup Holding \cup {"resume"} =>
           creator[c].sid # None
    /\ \A c \in Creators : creator[c].pc \in Holding /\ creator[c].sid \notin retired =>
           byKey = creator[c].sid

\* With an agent that cannot resume, the session a call has opened is in
\* nobody else's hands.
Unshared ==
    /\ \A c \in Creators : creator[c].pc \notin {"list", "resume"}
    /\ \A c \in Creators : creator[c].pc \in Owning =>
           /\ creator[c].sid \notin prompted \cup discarded \cup drops
           /\ creator[c].sid # byKey
    /\ \A c, d \in Creators :
           creator[c].pc \in Owning /\ creator[d].pc \in Owning \cup Holding /\ c # d =>
               creator[c].sid # creator[d].sid

\* ... and its tables are kept until it is dropped.
Wired ==
    /\ byKey # None => byKey \in tracked /\ byKey \in sinks /\ byKey \notin drops
    /\ \A c \in Creators : creator[c].pc \in {"sink", "insert"} => creator[c].sid \in tracked
    /\ \A c \in Creators : creator[c].pc = "insert" => creator[c].sid \in sinks

\* A call that no Reset has crossed knows all that was discarded.
Knows ==
    \A c \in Creators :
        /\ creator[c].barred \subseteq discarded
        /\ creator[c].pc # "idle" /\ ~creator[c].crossed => creator[c].barred = discarded

\* The live session is none of the discarded.
Sticks ==
    /\ byKey \notin discarded
    /\ \A c \in Creators : creator[c].pc \in Holding => creator[c].sid \notin creator[c].barred

\* With an agent that resumes, the mark of the Reset (fresh) holds until a call
\* that came after it has a session of its own, and the agent lists first.
Marked ==
    /\ ~fresh => recent \notin discarded
    /\ \A c \in Creators : ~creator[c].crossed =>
           /\ creator[c].pc \in Owning \cup {"resume"} => creator[c].sid \notin discarded
           /\ fresh => creator[c].pc \notin {"list", "resume"}
           /\ creator[c].pc \in Owning => recent \notin discarded

IInv ==
    /\ TypeOK /\ Made /\ Shared /\ Knows
    /\ ~canResume => Unshared /\ Wired
    /\ ~canResume \/ ~forgotten => Sticks
    /\ canResume /\ ~forgotten => Marked

-----------------------------------------------------------------------------
(* Where a step leaves the callers                                          *)

Caller == [pc: {"idle", "rebind", "list", "resume", "new", "track", "sink", "insert", "have"},
           sid: Sids \cup {None}, barred: SUBSET Sids, crossed: BOOLEAN]

LEMMA Ids == None \notin Sids /\ \A s \in Sids : s \in Nat
  BY MaxSessionsAssumption DEF None, Sids

LEMMA Callers ==
  ASSUME TypeOK, NEW c \in Creators
  PROVE  /\ creator \in [Creators -> Caller] /\ creator[c] \in Caller
         /\ creator[c].pc \in {"idle", "rebind", "list", "resume", "new", "track", "sink",
                               "insert", "have"}
         /\ creator[c].sid \in Sids \cup {None} /\ creator[c].barred \subseteq Sids
         /\ creator[c].crossed \in BOOLEAN
  BY DEF TypeOK, Caller

LEMMA Histories ==
  ASSUME TypeOK
  PROVE  /\ byKey \in Sids \cup {None} /\ recent \in Sids \cup {None} /\ minted \in 0..MaxSessions
         /\ prompted \subseteq Sids /\ discarded \subseteq Sids /\ None \notin discarded
         /\ MaxSessions \in Nat
  BY Ids, MaxSessionsAssumption DEF TypeOK

\* One caller goes on.
Moves(c, pc, s) ==
    /\ creator' \in [Creators -> Caller]
    /\ creator'[c].pc = pc /\ creator'[c].sid = s
    /\ creator'[c].barred = creator[c].barred /\ creator'[c].crossed = creator[c].crossed
    /\ \A d \in Creators : d # c => creator'[d] = creator[d]

\* One caller is done.
Leaves(c) ==
    /\ creator' \in [Creators -> Caller] /\ creator'[c] = Idler
    /\ \A d \in Creators : d # c => creator'[d] = creator[d]

LEMMA IdlerCaller ==
  /\ Idler \in Caller /\ Idler.pc = "idle" /\ Idler.sid = None /\ Idler.barred = {}
  /\ Idler.crossed = FALSE
  BY DEF Idler, Caller

LEMMA Going ==
  ASSUME TypeOK, NEW c \in Creators,
         NEW pc \in {"rebind", "list", "resume", "new", "track", "sink", "insert", "have"}
  PROVE  /\ Goto(c, pc) => Moves(c, pc, creator[c].sid)
         /\ \A s \in Sids \cup {None} : GotoWith(c, pc, s) => Moves(c, pc, s)
         /\ creator' = [creator EXCEPT ![c] = Idler] => Leaves(c)
<1>1. ASSUME Goto(c, pc) PROVE Moves(c, pc, creator[c].sid)
  <2>1. [creator[c] EXCEPT !.pc = pc] \in Caller
    BY Callers DEF Caller
  <2> QED BY <1>1, <2>1, Callers DEF Goto, Moves, Caller
<1>2. ASSUME NEW s \in Sids \cup {None}, GotoWith(c, pc, s) PROVE Moves(c, pc, s)
  <2>1. [creator[c] EXCEPT !.pc = pc, !.sid = s] \in Caller
    BY Callers DEF Caller
  <2> QED BY <1>2, <2>1, Callers DEF GotoWith, Moves, Caller
<1>3. ASSUME creator' = [creator EXCEPT ![c] = Idler] PROVE Leaves(c)
  BY <1>3, Callers, IdlerCaller DEF Leaves
<1> QED BY <1>1, <1>2, <1>3

\* The live session, or the way to get one.
LEMMA LookupStep ==
  ASSUME IInv, NEW c \in Creators, Lookup(c)
  PROVE  IInv'
<1> USE DEF IInv
<1>1. /\ creator[c].pc = "idle" /\ UNCHANGED <<canResume, byKey, fresh, drops, tracked, sinks,
                                               minted, recent, prompted, discarded, retired,
                                               forgotten>>
      /\ creator'[c].pc = IF byKey # None THEN "rebind"
                          ELSE IF canResume /\ ~fresh THEN "list" ELSE "new"
      /\ creator'[c].sid = byKey /\ creator'[c].barred = discarded
      /\ creator'[c].crossed = FALSE /\ \A d \in Creators : d # c => creator'[d] = creator[d]
      /\ creator' \in [Creators -> Caller]
  BY Callers, Going, IdlerCaller
     DEF Lookup, Caller, TypeOK, managerVars, tableVars, agentVars, historyVars
<1>2. TypeOK'
  BY <1>1, Callers, Histories, Ids, IdlerCaller
     DEF Lookup, TypeOK, Shared, Owning, Holding, Caller, managerVars, tableVars, agentVars,
         historyVars
<1>3. Made'
  BY <1>1, <1>2, Callers, Histories, Ids, IdlerCaller DEF Made
<1>4. Shared'
  BY <1>1, <1>2, Callers, Histories, Ids, IdlerCaller DEF Shared, Owning, Holding
<1>5. Knows'
  BY <1>1, <1>2, Callers, Histories, Ids, IdlerCaller DEF Knows
<1>6. ASSUME ~canResume PROVE Unshared'
  BY <1>1, <1>2, <1>6, Callers, Histories, Ids, IdlerCaller
     DEF Unshared, Made, Shared, Owning, Holding
<1>7. ASSUME ~canResume PROVE Wired'
  BY <1>1, <1>2, <1>7, Callers, Histories, Ids, IdlerCaller
     DEF Wired, Unshared, Made, Shared, Owning
<1>8. ASSUME ~canResume \/ ~forgotten' PROVE Sticks'
  BY <1>1, <1>2, <1>8, Callers, Histories, Ids, IdlerCaller
     DEF Sticks, Knows, Made, Shared, Unshared, Marked, Owning, Holding
<1>9. ASSUME canResume, ~forgotten' PROVE Marked'
  BY <1>1, <1>2, <1>9, Callers, Histories, Ids, IdlerCaller
     DEF Marked, Knows, Made, Shared, Sticks, Owning, Holding
<1> QED BY <1>1, <1>2, <1>3, <1>4, <1>5, <1>6, <1>7, <1>8, <1>9

\* The sink of the session found.
LEMMA RebindStep ==
  ASSUME IInv, NEW c \in Creators, Rebind(c)
  PROVE  IInv'
<1> USE DEF IInv
<1>1. /\ creator[c].pc = "rebind" /\ Moves(c, "have", creator[c].sid)
      /\ sinks' = sinks \cup {creator[c].sid} /\ UNCHANGED <<canResume, byKey, fresh, drops,
                                                             tracked, minted, recent, prompted,
                                                             discarded, retired, forgotten>>
  BY Callers, Going, IdlerCaller DEF Rebind, managerVars, tableVars, agentVars, historyVars
<1>2. TypeOK'
  BY <1>1, Callers, Histories, Ids, IdlerCaller
     DEF Rebind, TypeOK, Shared, Owning, Holding, Caller, Moves, managerVars, tableVars,
         agentVars, historyVars
<1>3. Made'
  BY <1>1, <1>2, Callers, Histories, Ids, IdlerCaller DEF Made, Moves
<1>4. Shared'
  BY <1>1, <1>2, Callers, Histories, Ids, IdlerCaller DEF Shared, Owning, Holding, Moves
<1>5. Knows'
  BY <1>1, <1>2, Callers, Histories, Ids, IdlerCaller DEF Knows, Moves
<1>6. ASSUME ~canResume PROVE Unshared'
  BY <1>1, <1>2, <1>6, Callers, Histories, Ids, IdlerCaller
     DEF Unshared, Made, Shared, Owning, Holding, Moves
<1>7. ASSUME ~canResume PROVE Wired'
  BY <1>1, <1>2, <1>7, Callers, Histories, Ids, IdlerCaller
     DEF Wired, Unshared, Made, Shared, Owning, Moves
<1>8. ASSUME ~canResume \/ ~forgotten' PROVE Sticks'
  BY <1>1, <1>2, <1>8, Callers, Histories, Ids, IdlerCaller
     DEF Sticks, Knows, Made, Shared, Unshared, Marked, Owning, Holding, Moves
<1>9. ASSUME canResume, ~forgotten' PROVE Marked'
  BY <1>1, <1>2, <1>9, Callers, Histories, Ids, IdlerCaller
     DEF Marked, Knows, Made, Shared, Sticks, Owning, Holding, Moves
<1> QED BY <1>1, <1>2, <1>3, <1>4, <1>5, <1>6, <1>7, <1>8, <1>9

\* What the agent lists first.
LEMMA ListStep ==
  ASSUME IInv, NEW c \in Creators, List(c)
  PROVE  IInv'
<1> USE DEF IInv
<1>1. /\ creator[c].pc = "list" /\ UNCHANGED <<canResume, byKey, fresh, drops, tracked, sinks,
                                               minted, recent, prompted, discarded, retired,
                                               forgotten>>
      /\ \/ recent # None /\ Moves(c, "resume", recent)
         \/ Moves(c, "new", creator[c].sid)
  BY Callers, Going, IdlerCaller DEF List, TypeOK, managerVars, tableVars, agentVars, historyVars
<1>2. TypeOK'
  BY <1>1, Callers, Histories, Ids, IdlerCaller
     DEF List, TypeOK, Shared, Owning, Holding, Caller, Moves, managerVars, tableVars,
         agentVars, historyVars
<1>3. Made'
  BY <1>1, <1>2, Callers, Histories, Ids, IdlerCaller DEF Made, Moves
<1>4. Shared'
  BY <1>1, <1>2, Callers, Histories, Ids, IdlerCaller DEF Shared, Owning, Holding, Moves
<1>5. Knows'
  BY <1>1, <1>2, Callers, Histories, Ids, IdlerCaller DEF Knows, Moves
<1>6. ASSUME ~canResume PROVE Unshared'
  BY <1>1, <1>2, <1>6, Callers, Histories, Ids, IdlerCaller
     DEF Unshared, Made, Shared, Owning, Holding, Moves
<1>7. ASSUME ~canResume PROVE Wired'
  BY <1>1, <1>2, <1>7, Callers, Histories, Ids, IdlerCaller
     DEF Wired, Unshared, Made, Shared, Owning, Moves
<1>8. ASSUME ~canResume \/ ~forgotten' PROVE Sticks'
  BY <1>1, <1>2, <1>8, Callers, Histories, Ids, IdlerCaller
     DEF Sticks, Knows, Made, Shared, Unshared, Marked, Owning, Holding, Moves
<1>9. ASSUME canResume, ~forgotten' PROVE Marked'
  BY <1>1, <1>2, <1>9, Callers, Histories, Ids, IdlerCaller
     DEF Marked, Knows, Made, Shared, Sticks, Owning, Holding, Moves
<1> QED BY <1>1, <1>2, <1>3, <1>4, <1>5, <1>6, <1>7, <1>8, <1>9

\* A session the agent remembers.
LEMMA ResumeStep ==
  ASSUME IInv, NEW c \in Creators, Resume(c)
  PROVE  IInv'
<1> USE DEF IInv
<1>1. /\ creator[c].pc = "resume" /\ UNCHANGED <<canResume, byKey, fresh, drops, tracked, sinks,
                                                 minted, recent, prompted, discarded, retired,
                                                 forgotten>>
      /\ Moves(c, "track", creator[c].sid) \/ Moves(c, "new", None)
  BY Callers, Going, IdlerCaller DEF Resume, managerVars, tableVars, agentVars, historyVars
<1>2. TypeOK'
  BY <1>1, Callers, Histories, Ids, IdlerCaller
     DEF Resume, TypeOK, Shared, Owning, Holding, Caller, Moves, managerVars, tableVars,
         agentVars, historyVars
<1>3. Made'
  BY <1>1, <1>2, Callers, Histories, Ids, IdlerCaller DEF Made, Moves
<1>4. Shared'
  BY <1>1, <1>2, Callers, Histories, Ids, IdlerCaller DEF Shared, Owning, Holding, Moves
<1>5. Knows'
  BY <1>1, <1>2, Callers, Histories, Ids, IdlerCaller DEF Knows, Moves
<1>6. ASSUME ~canResume PROVE Unshared'
  BY <1>1, <1>2, <1>6, Callers, Histories, Ids, IdlerCaller
     DEF Unshared, Made, Shared, Owning, Holding, Moves
<1>7. ASSUME ~canResume PROVE Wired'
  BY <1>1, <1>2, <1>7, Callers, Histories, Ids, IdlerCaller
     DEF Wired, Unshared, Made, Shared, Owning, Moves
<1>8. ASSUME ~canResume \/ ~forgotten' PROVE Sticks'
  BY <1>1, <1>2, <1>8, Callers, Histories, Ids, IdlerCaller
     DEF Sticks, Knows, Made, Shared, Unshared, Marked, Owning, Holding, Moves
<1>9. ASSUME canResume, ~forgotten' PROVE Marked'
  BY <1>1, <1>2, <1>9, Callers, Histories, Ids, IdlerCaller
     DEF Marked, Knows, Made, Shared, Sticks, Owning, Holding, Moves
<1> QED BY <1>1, <1>2, <1>3, <1>4, <1>5, <1>6, <1>7, <1>8, <1>9

\* A new session, or none.
LEMMA NewStep ==
  ASSUME IInv, NEW c \in Creators, New(c)
  PROVE  IInv'
<1> USE DEF IInv
<1>1. /\ creator[c].pc = "new" /\ UNCHANGED <<canResume, byKey, fresh, drops, tracked, sinks,
                                              prompted, discarded, retired, forgotten>>
      /\ \/ /\ minted' = minted + 1 /\ recent' = minted' /\ minted' \in Sids
            /\ Moves(c, "track", minted')
         \/ Leaves(c) /\ UNCHANGED <<minted, recent>>
  <2>1. minted < MaxSessions => minted + 1 \in Sids
    BY Histories DEF Sids
  <2>2. \/ /\ minted < MaxSessions /\ minted' = minted + 1 /\ recent' = minted'
           /\ GotoWith(c, "track", minted')
        \/ creator' = [creator EXCEPT ![c] = Idler] /\ UNCHANGED <<minted, recent>>
    BY DEF New, agentVars
  <2>3. /\ creator[c].pc = "new"
        /\ UNCHANGED <<canResume, byKey, fresh, drops, tracked, sinks, prompted, discarded,
                       retired, forgotten>>
    BY DEF New, managerVars, tableVars, historyVars
  <2> QED BY <2>1, <2>2, <2>3, Going
<1>2. TypeOK'
  BY <1>1, Callers, Histories, Ids, IdlerCaller
     DEF New, TypeOK, Shared, Owning, Holding, Caller, Moves, Leaves, managerVars,
         tableVars, agentVars, historyVars
<1>3. Made'
  BY <1>1, <1>2, Callers, Histories, Ids, IdlerCaller DEF Made, Moves, Leaves
<1>4. Shared'
  BY <1>1, <1>2, Callers, Histories, Ids, IdlerCaller DEF Shared, Owning, Holding, Moves, Leaves
<1>5. Knows'
  BY <1>1, <1>2, Callers, Histories, Ids, IdlerCaller DEF Knows, Moves, Leaves
<1>6. ASSUME ~canResume PROVE Unshared'
  BY <1>1, <1>2, <1>6, Callers, Histories, Ids, IdlerCaller
     DEF Unshared, Made, Shared, Owning, Holding, Moves, Leaves
<1>7. ASSUME ~canResume PROVE Wired'
  BY <1>1, <1>2, <1>7, Callers, Histories, Ids, IdlerCaller
     DEF Wired, Unshared, Made, Shared, Owning, Moves, Leaves
<1>8. ASSUME ~canResume \/ ~forgotten' PROVE Sticks'
  BY <1>1, <1>2, <1>8, Callers, Histories, Ids, IdlerCaller
     DEF Sticks, Knows, Made, Shared, Unshared, Marked, Owning, Holding, Moves, Leaves
<1>9. ASSUME canResume, ~forgotten' PROVE Marked'
  BY <1>1, <1>2, <1>9, Callers, Histories, Ids, IdlerCaller
     DEF Marked, Knows, Made, Shared, Sticks, Owning, Holding, Moves, Leaves
<1> QED BY <1>1, <1>2, <1>3, <1>4, <1>5, <1>6, <1>7, <1>8, <1>9

\* Recorded for recovery.
LEMMA TrackStep ==
  ASSUME IInv, NEW c \in Creators, Track(c)
  PROVE  IInv'
<1> USE DEF IInv
<1>1. /\ creator[c].pc = "track" /\ Moves(c, "sink", creator[c].sid)
      /\ tracked' = tracked \cup {creator[c].sid} /\ UNCHANGED <<canResume, byKey, fresh, drops,
                                                                 sinks, minted, recent, prompted,
                                                                 discarded, retired, forgotten>>
  BY Callers, Going, IdlerCaller DEF Track, managerVars, tableVars, agentVars, historyVars
<1>2. TypeOK'
  BY <1>1, Callers, Histories, Ids, IdlerCaller
     DEF Track, TypeOK, Shared, Owning, Holding, Caller, Moves, managerVars, tableVars,
         agentVars, historyVars
<1>3. Made'
  BY <1>1, <1>2, Callers, Histories, Ids, IdlerCaller DEF Made, Moves
<1>4. Shared'
  BY <1>1, <1>2, Callers, Histories, Ids, IdlerCaller DEF Shared, Owning, Holding, Moves
<1>5. Knows'
  BY <1>1, <1>2, Callers, Histories, Ids, IdlerCaller DEF Knows, Moves
<1>6. ASSUME ~canResume PROVE Unshared'
  BY <1>1, <1>2, <1>6, Callers, Histories, Ids, IdlerCaller
     DEF Unshared, Made, Shared, Owning, Holding, Moves
<1>7. ASSUME ~canResume PROVE Wired'
  BY <1>1, <1>2, <1>7, Callers, Histories, Ids, IdlerCaller
     DEF Wired, Unshared, Made, Shared, Owning, Moves
<1>8. ASSUME ~canResume \/ ~forgotten' PROVE Sticks'
  BY <1>1, <1>2, <1>8, Callers, Histories, Ids, IdlerCaller
     DEF Sticks, Knows, Made, Shared, Unshared, Marked, Owning, Holding, Moves
<1>9. ASSUME canResume, ~forgotten' PROVE Marked'
  BY <1>1, <1>2, <1>9, Callers, Histories, Ids, IdlerCaller
     DEF Marked, Knows, Made, Shared, Sticks, Owning, Holding, Moves
<1> QED BY <1>1, <1>2, <1>3, <1>4, <1>5, <1>6, <1>7, <1>8, <1>9

\* Given its sink.
LEMMA SinkStep ==
  ASSUME IInv, NEW c \in Creators, Sink(c)
  PROVE  IInv'
<1> USE DEF IInv
<1>1. /\ creator[c].pc = "sink" /\ Moves(c, "insert", creator[c].sid)
      /\ sinks' = sinks \cup {creator[c].sid} /\ UNCHANGED <<canResume, byKey, fresh, drops,
                                                             tracked, minted, recent, prompted,
                                                             discarded, retired, forgotten>>
  BY Callers, Going, IdlerCaller DEF Sink, managerVars, tableVars, agentVars, historyVars
<1>2. TypeOK'
  BY <1>1, Callers, Histories, Ids, IdlerCaller
     DEF Sink, TypeOK, Shared, Owning, Holding, Caller, Moves, managerVars, tableVars,
         agentVars, historyVars
<1>3. Made'
  BY <1>1, <1>2, Callers, Histories, Ids, IdlerCaller DEF Made, Moves
<1>4. Shared'
  BY <1>1, <1>2, Callers, Histories, Ids, IdlerCaller DEF Shared, Owning, Holding, Moves
<1>5. Knows'
  BY <1>1, <1>2, Callers, Histories, Ids, IdlerCaller DEF Knows, Moves
<1>6. ASSUME ~canResume PROVE Unshared'
  BY <1>1, <1>2, <1>6, Callers, Histories, Ids, IdlerCaller
     DEF Unshared, Made, Shared, Owning, Holding, Moves
<1>7. ASSUME ~canResume PROVE Wired'
  BY <1>1, <1>2, <1>7, Callers, Histories, Ids, IdlerCaller
     DEF Wired, Unshared, Made, Shared, Owning, Moves
<1>8. ASSUME ~canResume \/ ~forgotten' PROVE Sticks'
  BY <1>1, <1>2, <1>8, Callers, Histories, Ids, IdlerCaller
     DEF Sticks, Knows, Made, Shared, Unshared, Marked, Owning, Holding, Moves
<1>9. ASSUME canResume, ~forgotten' PROVE Marked'
  BY <1>1, <1>2, <1>9, Callers, Histories, Ids, IdlerCaller
     DEF Marked, Knows, Made, Shared, Sticks, Owning, Holding, Moves
<1> QED BY <1>1, <1>2, <1>3, <1>4, <1>5, <1>6, <1>7, <1>8, <1>9

\* The first call's session becomes the live one, the others drop theirs.
LEMMA InsertStep ==
  ASSUME IInv, NEW c \in Creators, Insert(c)
  PROVE  IInv'
<1> USE DEF IInv
<1>1. /\ creator[c].pc = "insert" /\ fresh' = FALSE
      /\ forgotten' = (forgotten \/ creator[c].crossed) /\ UNCHANGED <<canResume, drops, minted,
                                                                       recent, prompted,
                                                                       discarded>>
      /\ \/ /\ byKey # None /\ byKey' = byKey /\ retired' = retired
            /\ Moves(c, "have", byKey) /\ tracked' = tracked \ {creator[c].sid}
            /\ sinks' = (sinks \ {creator[c].sid}) \cup {byKey}
         \/ /\ byKey = None /\ byKey' = creator[c].sid /\ retired' = retired \ {creator[c].sid}
            /\ Moves(c, "have", creator[c].sid) /\ UNCHANGED <<tracked, sinks>>
  BY Callers, Going, IdlerCaller
     DEF Insert, TypeOK, managerVars, tableVars, agentVars, historyVars
<1>2. TypeOK'
  BY <1>1, Callers, Histories, Ids, IdlerCaller
     DEF Insert, TypeOK, Shared, Owning, Holding, Caller, Moves, managerVars, tableVars,
         agentVars, historyVars
<1>3. Made'
  BY <1>1, <1>2, Callers, Histories, Ids, IdlerCaller DEF Made, Moves
<1>4. Shared'
  BY <1>1, <1>2, Callers, Histories, Ids, IdlerCaller DEF Shared, Owning, Holding, Moves
<1>5. Knows'
  BY <1>1, <1>2, Callers, Histories, Ids, IdlerCaller DEF Knows, Moves
<1>6. ASSUME ~canResume PROVE Unshared'
  BY <1>1, <1>2, <1>6, Callers, Histories, Ids, IdlerCaller
     DEF Unshared, Made, Shared, Owning, Holding, Moves
<1>7. ASSUME ~canResume PROVE Wired'
  BY <1>1, <1>2, <1>7, Callers, Histories, Ids, IdlerCaller
     DEF Wired, Unshared, Made, Shared, Owning, Moves
<1>8. ASSUME ~canResume \/ ~forgotten' PROVE Sticks'
  <2>1. Sticks /\ Knows
    BY <1>1, <1>8
  <2>2. byKey = None => creator[c].sid \notin discarded
    BY <1>1, <1>8, Callers DEF Unshared, Marked, Owning
  <2>3. byKey' \notin discarded /\ discarded' = discarded
    BY <1>1, <2>1, <2>2 DEF Sticks
  <2>4. \A d \in Creators : /\ creator'[d].barred = creator[d].barred
                            /\ \/ creator'[d].sid = byKey'
                               \/ d # c /\ creator'[d] = creator[d]
    BY <1>1 DEF Moves
  <2> QED BY <2>1, <2>3, <2>4 DEF Sticks, Knows
<1>9. ASSUME canResume, ~forgotten' PROVE Marked'
  BY <1>1, <1>2, <1>9, Callers, Histories, Ids, IdlerCaller
     DEF Marked, Knows, Made, Shared, Sticks, Owning, Holding, Moves
<1> QED BY <1>1, <1>2, <1>3, <1>4, <1>5, <1>6, <1>7, <1>8, <1>9

\* The session is the agent's latest.
LEMMA TurnStep ==
  ASSUME IInv, NEW c \in Creators, Turn(c)
  PROVE  IInv'
<1> USE DEF IInv
<1>1. /\ creator[c].pc = "have" /\ Leaves(c) /\ recent' = creator[c].sid
      /\ prompted' = prompted \cup {creator[c].sid}
      /\ forgotten' = (forgotten \/ creator[c].crossed) /\ UNCHANGED <<canResume, byKey, fresh,
                                                                       drops, tracked, sinks,
                                                                       minted, discarded,
                                                                       retired>>
  BY Callers, Going, IdlerCaller DEF Turn, managerVars, tableVars, agentVars, historyVars
<1>2. TypeOK'
  BY <1>1, Callers, Histories, Ids, IdlerCaller
     DEF Turn, TypeOK, Shared, Owning, Holding, Caller, Leaves, managerVars, tableVars,
         agentVars, historyVars
<1>3. Made'
  <2>1. creator[c].sid \in 1..minted
    BY <1>1 DEF Made, Shared, Holding
  <2> QED BY <1>1, <1>2, <2>1, IdlerCaller DEF Made, Leaves
<1>4. Shared'
  BY <1>1, <1>2, Callers, Histories, Ids, IdlerCaller DEF Shared, Owning, Holding, Leaves
<1>5. Knows'
  BY <1>1, <1>2, Callers, Histories, Ids, IdlerCaller DEF Knows, Leaves
<1>6. ASSUME ~canResume PROVE Unshared'
  BY <1>1, <1>2, <1>6, Callers, Histories, Ids, IdlerCaller
     DEF Unshared, Made, Shared, Owning, Holding, Leaves
<1>7. ASSUME ~canResume PROVE Wired'
  BY <1>1, <1>2, <1>7, Callers, Histories, Ids, IdlerCaller
     DEF Wired, Unshared, Made, Shared, Owning, Leaves
<1>8. ASSUME ~canResume \/ ~forgotten' PROVE Sticks'
  BY <1>1, <1>2, <1>8, Callers, Histories, Ids, IdlerCaller
     DEF Sticks, Knows, Made, Shared, Unshared, Marked, Owning, Holding, Leaves
<1>9. ASSUME canResume, ~forgotten' PROVE Marked'
  <2>1. Marked /\ Sticks /\ Knows /\ ~creator[c].crossed
    BY <1>1, <1>9, Callers
  <2>2. recent' \notin discarded
    BY <1>1, <2>1 DEF Sticks, Knows, Holding
  <2>3. \A d \in Creators : \/ creator'[d] = creator[d]
                            \/ creator'[d].pc = "idle"
    BY <1>1, IdlerCaller DEF Leaves
  <2> QED BY <1>1, <2>1, <2>2, <2>3 DEF Marked, Owning
<1> QED BY <1>1, <1>2, <1>3, <1>4, <1>5, <1>6, <1>7, <1>8, <1>9

\* What was live is discarded, and no call in flight knows.
LEMMA ResetStep ==
  ASSUME IInv, Reset
  PROVE  IInv'
<1> USE DEF IInv
<1>1. /\ drops' = drops \cup ({byKey} \ {None})
      /\ discarded' = discarded \cup prompted \cup ({byKey} \ {None})
      /\ retired' = retired \cup ({byKey} \ {None}) /\ byKey' = None /\ fresh' = TRUE
      /\ \A c \in Creators : /\ creator'[c].pc = creator[c].pc /\ creator'[c].sid = creator[c].sid
                             /\ creator'[c].barred = creator[c].barred
                             /\ creator'[c].crossed = (creator[c].pc # "idle")
      /\ creator' \in [Creators -> Caller]
      /\ UNCHANGED <<canResume, tracked, sinks, minted, recent, prompted, forgotten>>
  BY Callers, Going, IdlerCaller
     DEF Reset, Crossed, Caller, managerVars, tableVars, agentVars, historyVars
<1>2. TypeOK'
  BY <1>1, Callers, Histories, Ids, IdlerCaller
     DEF Reset, TypeOK, Shared, Owning, Holding, Caller, managerVars, tableVars, agentVars,
         historyVars
<1>3. Made'
  BY <1>1, <1>2, Callers, Histories, Ids, IdlerCaller DEF Made
<1>4. Shared'
  BY <1>1, <1>2, Callers, Histories, Ids, IdlerCaller DEF Shared, Owning, Holding
<1>5. Knows'
  BY <1>1, <1>2, Callers, Histories, Ids, IdlerCaller DEF Knows
<1>6. ASSUME ~canResume PROVE Unshared'
  BY <1>1, <1>2, <1>6, Callers, Histories, Ids, IdlerCaller
     DEF Unshared, Made, Shared, Owning, Holding
<1>7. ASSUME ~canResume PROVE Wired'
  BY <1>1, <1>2, <1>7, Callers, Histories, Ids, IdlerCaller
     DEF Wired, Unshared, Made, Shared, Owning
<1>8. ASSUME ~canResume \/ ~forgotten' PROVE Sticks'
  BY <1>1, <1>2, <1>8, Callers, Histories, Ids, IdlerCaller
     DEF Sticks, Knows, Made, Shared, Unshared, Marked, Owning, Holding
<1>9. ASSUME canResume, ~forgotten' PROVE Marked'
  BY <1>1, <1>2, <1>9, Callers, Histories, Ids, IdlerCaller
     DEF Marked, Knows, Made, Shared, Sticks, Owning, Holding
<1> QED BY <1>1, <1>2, <1>3, <1>4, <1>5, <1>6, <1>7, <1>8, <1>9

\* The session is not used.
LEMMA IdleStep ==
  ASSUME IInv, GoesIdle
  PROVE  IInv'
<1> USE DEF IInv
<1>1. UNCHANGED <<canResume, byKey, fresh, drops, tracked, sinks, minted, recent, prompted,
                  discarded, retired, forgotten, creator>>
  BY Callers, Going, IdlerCaller DEF GoesIdle, managerVars, tableVars, agentVars, historyVars
<1>2. TypeOK'
  BY <1>1, Callers, Histories, Ids, IdlerCaller
     DEF GoesIdle, TypeOK, Shared, Owning, Holding, Caller, managerVars, tableVars,
         agentVars, historyVars
<1>3. Made'
  BY <1>1, <1>2, Callers, Histories, Ids, IdlerCaller DEF Made
<1>4. Shared'
  BY <1>1, <1>2, Callers, Histories, Ids, IdlerCaller DEF Shared, Owning, Holding
<1>5. Knows'
  BY <1>1, <1>2, Callers, Histories, Ids, IdlerCaller DEF Knows
<1>6. ASSUME ~canResume PROVE Unshared'
  BY <1>1, <1>2, <1>6, Callers, Histories, Ids, IdlerCaller
     DEF Unshared, Made, Shared, Owning, Holding
<1>7. ASSUME ~canResume PROVE Wired'
  BY <1>1, <1>2, <1>7, Callers, Histories, Ids, IdlerCaller
     DEF Wired, Unshared, Made, Shared, Owning
<1>8. ASSUME ~canResume \/ ~forgotten' PROVE Sticks'
  BY <1>1, <1>2, <1>8, Callers, Histories, Ids, IdlerCaller
     DEF Sticks, Knows, Made, Shared, Unshared, Marked, Owning, Holding
<1>9. ASSUME canResume, ~forgotten' PROVE Marked'
  BY <1>1, <1>2, <1>9, Callers, Histories, Ids, IdlerCaller
     DEF Marked, Knows, Made, Shared, Sticks, Owning, Holding
<1> QED BY <1>1, <1>2, <1>3, <1>4, <1>5, <1>6, <1>7, <1>8, <1>9

\* What was idle is dropped.
LEMMA GCStep ==
  ASSUME IInv, GCOnce
  PROVE  IInv'
<1> USE DEF IInv
<1>1. /\ byKey # None /\ drops' = drops \cup {byKey} /\ retired' = retired \cup {byKey}
      /\ byKey' = None /\ UNCHANGED <<canResume, fresh, tracked, sinks, minted, recent, prompted,
                                      discarded, forgotten, creator>>
  BY Callers, Going, IdlerCaller DEF GCOnce, managerVars, tableVars, agentVars, historyVars
<1>2. TypeOK'
  BY <1>1, Callers, Histories, Ids, IdlerCaller
     DEF GCOnce, TypeOK, Shared, Owning, Holding, Caller, managerVars, tableVars, agentVars,
         historyVars
<1>3. Made'
  BY <1>1, <1>2, Callers, Histories, Ids, IdlerCaller DEF Made
<1>4. Shared'
  BY <1>1, <1>2, Callers, Histories, Ids, IdlerCaller DEF Shared, Owning, Holding
<1>5. Knows'
  BY <1>1, <1>2, Callers, Histories, Ids, IdlerCaller DEF Knows
<1>6. ASSUME ~canResume PROVE Unshared'
  BY <1>1, <1>2, <1>6, Callers, Histories, Ids, IdlerCaller
     DEF Unshared, Made, Shared, Owning, Holding
<1>7. ASSUME ~canResume PROVE Wired'
  BY <1>1, <1>2, <1>7, Callers, Histories, Ids, IdlerCaller
     DEF Wired, Unshared, Made, Shared, Owning
<1>8. ASSUME ~canResume \/ ~forgotten' PROVE Sticks'
  BY <1>1, <1>2, <1>8, Callers, Histories, Ids, IdlerCaller
     DEF Sticks, Knows, Made, Shared, Unshared, Marked, Owning, Holding
<1>9. ASSUME canResume, ~forgotten' PROVE Marked'
  BY <1>1, <1>2, <1>9, Callers, Histories, Ids, IdlerCaller
     DEF Marked, Knows, Made, Shared, Sticks, Owning, Holding
<1> QED BY <1>1, <1>2, <1>3, <1>4, <1>5, <1>6, <1>7, <1>8, <1>9

\* Nobody holds what is dropped.
LEMMA DropStep ==
  ASSUME IInv, NEW s \in Sids, DropSession(s)
  PROVE  IInv'
<1> USE DEF IInv
<1>1. /\ s \in drops /\ drops' = drops \ {s} /\ tracked' = tracked \ {s} /\ sinks' = sinks \ {s}
      /\ UNCHANGED <<canResume, byKey, fresh, minted, recent, prompted, discarded, retired,
                     forgotten, creator>>
  BY Callers, Going, IdlerCaller DEF DropSession, managerVars, tableVars, agentVars, historyVars
<1>2. TypeOK'
  BY <1>1, Callers, Histories, Ids, IdlerCaller
     DEF DropSession, TypeOK, Shared, Owning, Holding, Caller, managerVars, tableVars,
         agentVars, historyVars
<1>3. Made'
  BY <1>1, <1>2, Callers, Histories, Ids, IdlerCaller DEF Made
<1>4. Shared'
  BY <1>1, <1>2, Callers, Histories, Ids, IdlerCaller DEF Shared, Owning, Holding
<1>5. Knows'
  BY <1>1, <1>2, Callers, Histories, Ids, IdlerCaller DEF Knows
<1>6. ASSUME ~canResume PROVE Unshared'
  BY <1>1, <1>2, <1>6, Callers, Histories, Ids, IdlerCaller
     DEF Unshared, Made, Shared, Owning, Holding
<1>7. ASSUME ~canResume PROVE Wired'
  BY <1>1, <1>2, <1>7, Callers, Histories, Ids, IdlerCaller
     DEF Wired, Unshared, Made, Shared, Owning
<1>8. ASSUME ~canResume \/ ~forgotten' PROVE Sticks'
  BY <1>1, <1>2, <1>8, Callers, Histories, Ids, IdlerCaller
     DEF Sticks, Knows, Made, Shared, Unshared, Marked, Owning, Holding
<1>9. ASSUME canResume, ~forgotten' PROVE Marked'
  BY <1>1, <1>2, <1>9, Callers, Histories, Ids, IdlerCaller
     DEF Marked, Knows, Made, Shared, Sticks, Owning, Holding
<1> QED BY <1>1, <1>2, <1>3, <1>4, <1>5, <1>6, <1>7, <1>8, <1>9

\* Every call is gone, what the agent remembers is not.
LEMMA RestartStep ==
  ASSUME IInv, Restart
  PROVE  IInv'
<1> USE DEF IInv
<1>1. /\ forgotten' = (forgotten \/ fresh) /\ byKey' = None /\ fresh' = FALSE /\ drops' = {}
      /\ tracked' = {} /\ sinks' = {} /\ \A c \in Creators : creator'[c] = Idler
      /\ creator' \in [Creators -> Caller]
      /\ UNCHANGED <<canResume, minted, recent, prompted, discarded, retired>>
  BY Callers, Going, IdlerCaller DEF Restart, managerVars, tableVars, agentVars, historyVars
<1>2. TypeOK'
  <2>1. restarts' \in 0..MaxRestarts
    BY MaxRestartsAssumption DEF Restart, TypeOK
  <2>2. forgotten' \in BOOLEAN /\ creator' \in [Creators -> Caller] /\ idle' = FALSE
    BY <1>1, Callers DEF TypeOK, Restart
  <2> QED BY <1>1, <2>1, <2>2 DEF TypeOK, Caller
<1>3. Made'
  BY <1>1, <1>2, Callers, Histories, Ids, IdlerCaller DEF Made
<1>4. Shared'
  BY <1>1, <1>2, Callers, Histories, Ids, IdlerCaller DEF Shared, Owning, Holding
<1>5. Knows'
  BY <1>1, <1>2, Callers, Histories, Ids, IdlerCaller DEF Knows
<1>6. ASSUME ~canResume PROVE Unshared'
  BY <1>1, <1>2, <1>6, Callers, Histories, Ids, IdlerCaller
     DEF Unshared, Made, Shared, Owning, Holding
<1>7. ASSUME ~canResume PROVE Wired'
  BY <1>1, <1>2, <1>7, Callers, Histories, Ids, IdlerCaller
     DEF Wired, Unshared, Made, Shared, Owning
<1>8. ASSUME ~canResume \/ ~forgotten' PROVE Sticks'
  BY <1>1, <1>2, <1>8, Callers, Histories, Ids, IdlerCaller
     DEF Sticks, Knows, Made, Shared, Unshared, Marked, Owning, Holding
<1>9. ASSUME canResume, ~forgotten' PROVE Marked'
  BY <1>1, <1>2, <1>9, Callers, Histories, Ids, IdlerCaller
     DEF Marked, Knows, Made, Shared, Sticks, Owning, Holding
<1> QED BY <1>1, <1>2, <1>3, <1>4, <1>5, <1>6, <1>7, <1>8, <1>9

-----------------------------------------------------------------------------
(* The theorems                                                             *)

LEMMA InitIInv == Init => IInv
<1> SUFFICES ASSUME Init PROVE IInv
  OBVIOUS
<1>1. \A c \in Creators : creator[c] = Idler
  BY DEF Init
<1>2. TypeOK
  <2>1. creator \in [Creators -> Caller]
    BY IdlerCaller DEF Init
  <2>2. minted \in 0..MaxSessions /\ restarts \in 0..MaxRestarts
    BY MaxSessionsAssumption, MaxRestartsAssumption DEF Init
  <2> QED BY <2>1, <2>2 DEF Init, TypeOK, Caller
<1>3. Made /\ Shared /\ Knows /\ Unshared /\ Wired /\ Sticks /\ Marked
  BY <1>1, IdlerCaller DEF Init, Made, Shared, Knows, Unshared, Wired, Sticks, Marked, Owning,
     Holding
<1> QED BY <1>2, <1>3 DEF IInv

LEMMA Step == IInv /\ [Next]_vars => IInv'
<1> SUFFICES ASSUME IInv, [Next]_vars PROVE IInv'
  OBVIOUS
<1>1. CASE UNCHANGED vars
  BY <1>1 DEF vars, IInv, TypeOK, Made, Shared, Knows, Unshared, Wired, Sticks, Marked
<1> QED BY <1>1, LookupStep, RebindStep, ListStep, ResumeStep, NewStep, TrackStep, SinkStep,
           InsertStep, TurnStep, ResetStep, IdleStep, GCStep, DropStep, RestartStep
        DEF Next, GetOrCreate

\* In every state the calls, the map, the agent and the history of Resets are as
\* IInv says (state.go, agent.go).
THEOREM Invariance == Spec => []IInv
  BY InitIInv, Step, PTL DEF Spec

\* Goroutines that meet in GetOrCreate hold the live session, however many they
\* are and whatever Reset and GC do; with an agent that cannot resume, it is
\* recorded for recovery and has its sink (state.go:180, supervise.go:15).
THEOREM OneLiveSession == Spec => []SessionIsShared
<1>1. IInv => SessionIsShared
  BY DEF IInv, Shared, Wired, Holding, SessionIsShared, OneSession, LiveSessionIsWired,
         LiveIsAlwaysWired
<1> QED BY <1>1, Invariance, PTL

\* A Reset sticks unless it was crossed by an older call, or a restart came
\* before the next one; with an agent that cannot resume it always does
\* (state.go:233).
THEOREM ResetHolds == Spec => []ResetSticks
<1>1. IInv => ResetSticks
  BY DEF IInv, TypeOK, Sticks, Holding, ResetSticks, ResetAlwaysSticks
<1> QED BY <1>1, Invariance, PTL

=============================================================================
