---------------------------- MODULE SessionState ----------------------------
(* One conversation of state.Manager (state/state.go): GetOrCreate, Reset   *)
(* and idle GC over the agent's table of sessions (client/agent.go) and the *)
(* sessions the agent itself remembers for the conversation's cwd.          *)
(*                                                                          *)
(* Conversations share the Manager's lock and nothing else.  The agent      *)
(* lists the session created or prompted last first.  A turn is shorter     *)
(* than the idle timeout, or its relay calls Touch.                         *)
EXTENDS Naturals, FiniteSets

CONSTANTS
    Creators,    \* goroutines that call GetOrCreate and run a turn
    MaxSessions, \* bound: how many sessions the agent creates
    MaxRestarts  \* bound: how often the relay restarts

ASSUME MaxSessionsAssumption == MaxSessions \in Nat \ {0}
ASSUME MaxRestartsAssumption == MaxRestarts \in Nat

Sids == 1..MaxSessions   \* session ids, in the order the agent made them
None == 0

VARIABLES
    canResume, \* Caps: the agent lists and resumes its sessions
    byKey,     \* Manager.byKey: the live session
    fresh,     \* Manager.fresh
    idle,      \* Session.lastUsed is older than the idle timeout
    drops,     \* sessions a Reset or a GC has taken from byKey and not yet dropped
    tracked,   \* AgentProc.sess: recorded for recovery after a respawn
    sinks,     \* AgentProc.sinks: sessions with a sink for their updates
    minted,    \* sessions the agent has made
    recent,    \* the session the agent lists first
    creator,   \* the callers of GetOrCreate
    prompted,  \* history: sessions that had a turn
    discarded, \* history: sessions a Reset was to discard
    retired,   \* history: sessions taken from byKey and not put back
    forgotten, \* history: a Reset was crossed by a call that had begun before it and went on to
               \* insert its session or to run its turn, or a restart came before the next call
    restarts   \* restarts so far, for the bound

vars == <<canResume, byKey, fresh, idle, drops, tracked, sinks, minted, recent, creator, prompted,
          discarded, retired, forgotten, restarts>>
managerVars == <<canResume, byKey, fresh, idle, drops>>
tableVars == <<tracked, sinks>>
agentVars == <<minted, recent>>
historyVars == <<prompted, discarded, retired, forgotten, restarts>>

Idler == [pc |-> "idle", sid |-> None, barred |-> {}, crossed |-> FALSE]

TypeOK ==
    /\ byKey \in Sids \cup {None} /\ recent \in Sids \cup {None}
    /\ fresh \in BOOLEAN /\ idle \in BOOLEAN /\ canResume \in BOOLEAN /\ forgotten \in BOOLEAN
    /\ drops \subseteq Sids /\ tracked \subseteq Sids /\ sinks \subseteq Sids
    /\ prompted \subseteq Sids /\ discarded \subseteq Sids /\ retired \subseteq Sids
    /\ minted \in 0..MaxSessions /\ restarts \in 0..MaxRestarts
    /\ creator \in [Creators -> [pc: {"idle", "rebind", "list", "resume", "new", "track", "sink",
                                      "insert", "have"},
                                 sid: Sids \cup {None}, barred: SUBSET Sids, crossed: BOOLEAN]]

Init ==
    /\ canResume \in BOOLEAN
    /\ byKey = None /\ fresh = FALSE /\ idle = FALSE /\ drops = {}
    /\ tracked = {} /\ sinks = {}
    /\ minted = 0 /\ recent = None
    /\ creator = [c \in Creators |-> Idler]
    /\ prompted = {} /\ discarded = {} /\ retired = {} /\ forgotten = FALSE /\ restarts = 0

Goto(c, pc) == creator' = [creator EXCEPT ![c].pc = pc]
GotoWith(c, pc, s) == creator' = [creator EXCEPT ![c].pc = pc, ![c].sid = s]

-----------------------------------------------------------------------------
(* GetOrCreate.                                                             *)

\* The first critical section: a live session, or the way to get one.
Lookup(c) ==
    /\ creator[c].pc = "idle"
    /\ creator' = [creator EXCEPT ![c] =
           [pc |-> IF byKey # None THEN "rebind"
                   ELSE IF canResume /\ ~fresh THEN "list" ELSE "new",
            sid |-> byKey,
            barred |-> discarded,
            crossed |-> FALSE]]
    /\ idle' = (idle /\ byKey = None)
    /\ UNCHANGED <<canResume, byKey, fresh, drops, tableVars, agentVars, historyVars>>

\* RebindSink for the live session found.
Rebind(c) ==
    /\ creator[c].pc = "rebind"
    /\ sinks' = sinks \cup {creator[c].sid}
    /\ Goto(c, "have")
    /\ UNCHANGED <<managerVars, tracked, agentVars, historyVars>>

\* session/list: the first session of the cwd, none, or an error.
List(c) ==
    /\ creator[c].pc = "list"
    /\ \/ recent # None /\ GotoWith(c, "resume", recent)
       \/ Goto(c, "new")
    /\ UNCHANGED <<managerVars, tableVars, agentVars, historyVars>>

\* session/resume.
Resume(c) ==
    /\ creator[c].pc = "resume"
    /\ \/ Goto(c, "track")
       \/ GotoWith(c, "new", None)
    /\ UNCHANGED <<managerVars, tableVars, agentVars, historyVars>>

\* session/new; an error is GetOrCreate's.
New(c) ==
    /\ creator[c].pc = "new"
    /\ \/ /\ minted < MaxSessions
          /\ minted' = minted + 1
          /\ recent' = minted'
          /\ GotoWith(c, "track", minted')
       \/ /\ creator' = [creator EXCEPT ![c] = Idler]
          /\ UNCHANGED agentVars
    /\ UNCHANGED <<managerVars, tableVars, historyVars>>

\* Mutant: a session is not recorded for recovery.
Track_Missing(c) ==
    /\ creator[c].pc = "track"
    /\ Goto(c, "sink")
    /\ UNCHANGED <<managerVars, tracked, sinks, agentVars, historyVars>>

\* The ends of NewSession and ResumeSession: recorded for recovery, and then
\* given its sink, in two critical sections.
Track(c) ==
    /\ creator[c].pc = "track"
    /\ tracked' = tracked \cup {creator[c].sid}
    /\ Goto(c, "sink")
    /\ UNCHANGED <<managerVars, sinks, agentVars, historyVars>>

Sink(c) ==
    /\ creator[c].pc = "sink"
    /\ sinks' = sinks \cup {creator[c].sid}
    /\ Goto(c, "insert")
    /\ UNCHANGED <<managerVars, tracked, agentVars, historyVars>>

\* Mutant: the map is not looked at again.
Insert_Overwrites(c) ==
    LET s == creator[c].sid IN
    /\ creator[c].pc = "insert"
    /\ byKey' = s
    /\ retired' = retired \ {s}
    /\ Goto(c, "have")
    /\ fresh' = FALSE
    /\ forgotten' = (forgotten \/ creator[c].crossed)
    /\ idle' = FALSE
    /\ UNCHANGED <<canResume, drops, tableVars, agentVars, prompted, discarded, restarts>>

\* The last critical section: whoever comes second drops what it made and
\* returns the winner's session.
Insert(c) ==
    LET s == creator[c].sid IN
    /\ creator[c].pc = "insert"
    /\ IF byKey # None
       THEN /\ tracked' = tracked \ {s}
            /\ sinks' = (sinks \ {s}) \cup {byKey}
            /\ GotoWith(c, "have", byKey)
            /\ UNCHANGED <<byKey, retired>>
       ELSE /\ byKey' = s
            /\ retired' = retired \ {s}
            /\ Goto(c, "have")
            /\ UNCHANGED tableVars
    /\ fresh' = FALSE
    /\ forgotten' = (forgotten \/ creator[c].crossed)
    /\ idle' = FALSE
    /\ UNCHANGED <<canResume, drops, agentVars, prompted, discarded, restarts>>

\* The caller's turn: the session becomes the agent's latest.
Turn(c) ==
    /\ creator[c].pc = "have"
    /\ recent' = creator[c].sid
    /\ prompted' = prompted \cup {creator[c].sid}
    /\ creator' = [creator EXCEPT ![c] = Idler]
    /\ forgotten' = (forgotten \/ creator[c].crossed)
    /\ UNCHANGED <<managerVars, tableVars, minted, discarded, retired, restarts>>

-----------------------------------------------------------------------------
(* Reset, GC and restarts.                                                  *)

\* The calls in flight when a Reset comes.
Crossed == [c \in Creators |-> [creator[c] EXCEPT !.crossed = creator[c].pc # "idle"]]

\* Mutant: nothing tells the next call to skip the resume.
Reset_Forgets ==
    /\ drops' = drops \cup ({byKey} \ {None})
    /\ discarded' = discarded \cup prompted \cup ({byKey} \ {None})
    /\ retired' = retired \cup ({byKey} \ {None})
    /\ byKey' = None
    /\ creator' = Crossed
    /\ UNCHANGED <<canResume, fresh, idle, tableVars, agentVars, prompted, forgotten, restarts>>

\* Reset's critical section; DropSession comes after it.
Reset ==
    /\ drops' = drops \cup ({byKey} \ {None})
    /\ discarded' = discarded \cup prompted \cup ({byKey} \ {None})
    /\ retired' = retired \cup ({byKey} \ {None})
    /\ byKey' = None
    /\ fresh' = TRUE
    /\ creator' = Crossed
    /\ UNCHANGED <<canResume, idle, tableVars, agentVars, prompted, forgotten, restarts>>

\* The idle timeout passes with no use of the session.
GoesIdle ==
    /\ byKey # None
    /\ \A c \in Creators : creator[c].pc \notin {"rebind", "have"}
    /\ idle' = TRUE
    /\ UNCHANGED <<canResume, byKey, fresh, drops, tableVars, agentVars, creator, historyVars>>

\* GCOnce's critical section; DropSession comes after it.
GCOnce ==
    /\ byKey # None
    /\ idle
    /\ drops' = drops \cup {byKey}
    /\ retired' = retired \cup {byKey}
    /\ byKey' = None
    /\ idle' = FALSE
    /\ UNCHANGED <<canResume, fresh, tableVars, agentVars, creator, prompted, discarded, forgotten,
                   restarts>>

\* The DropSession of a Reset or a GC.
DropSession(s) ==
    /\ s \in drops
    /\ drops' = drops \ {s}
    /\ tracked' = tracked \ {s}
    /\ sinks' = sinks \ {s}
    /\ UNCHANGED <<canResume, byKey, fresh, idle, agentVars, creator, historyVars>>

\* The relay restarts, its agent with it: what is in memory is gone, the
\* agent's stored sessions are not.
Restart ==
    /\ restarts < MaxRestarts
    /\ restarts' = restarts + 1
    /\ forgotten' = (forgotten \/ fresh)
    /\ byKey' = None /\ fresh' = FALSE /\ idle' = FALSE /\ drops' = {}
    /\ tracked' = {} /\ sinks' = {}
    /\ creator' = [c \in Creators |-> Idler]
    /\ UNCHANGED <<canResume, agentVars, prompted, discarded, retired>>

-----------------------------------------------------------------------------
GetOrCreate(c) ==
    \/ Lookup(c) \/ Rebind(c) \/ List(c) \/ Resume(c) \/ New(c)
    \/ Track(c) \/ Sink(c) \/ Insert(c)

Next ==
    \/ \E c \in Creators : GetOrCreate(c) \/ Turn(c)
    \/ Reset
    \/ GoesIdle
    \/ GCOnce
    \/ \E s \in Sids : DropSession(s)
    \/ Restart

Spec == Init /\ [][Next]_vars

-----------------------------------------------------------------------------
(* Properties.                                                              *)

\* Goroutines that met in GetOrCreate hold the same session: the live one,
\* unless a Reset or a GC took it away since.
OneSession ==
    \A c \in Creators :
        creator[c].pc = "have" /\ creator[c].sid \notin retired => byKey = creator[c].sid

\* "Reset drops key's live session so the next GetOrCreate starts a NEW one"
\* (state.go:233): no call made after a Reset returns the session that was
\* live, or one that had a turn, before it.
ResetAlwaysSticks ==
    \A c \in Creators :
        creator[c].pc \in {"rebind", "have"} => creator[c].sid \notin creator[c].barred

\* A Reset sticks unless it was crossed in one of the ways that forgotten
\* records, of which an agent that cannot resume knows none.
ResetSticks == (forgotten /\ canResume) \/ ResetAlwaysSticks

\* The live session is recorded for recovery and has a sink: "Every session
\* opened through this AgentProc is recorded (sessRec)" (supervise.go:15), and
\* DropSession forgets only sessions that nobody holds.
LiveIsAlwaysWired == byKey # None => byKey \in tracked /\ byKey \in sinks

\* It is when every session has one opener: no two calls resume the same one,
\* and no call resumes one that is about to be dropped.
LiveSessionIsWired == canResume \/ LiveIsAlwaysWired

\* The callers and the agent agree on what the live session is.
SessionIsShared == OneSession /\ LiveSessionIsWired
=============================================================================
