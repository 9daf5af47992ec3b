---------------------------- MODULE ConvoControl -----------------------------
(***************************************************************************)
(* What a chat conversation can be told besides a prompt, and when it takes   *)
(* effect: the model chosen with !model (src/convo/overrides.go and its file), *)
(* the login of !login and !mcp login (src/command/command.go, mcplogin.go),   *)
(* !new (src/command/actions.go) and the agent's own new_session, deferred to   *)
(* the end of its turn (src/relaytool/relaytool.go).  Manager.Dispatch routes   *)
(* each message (src/convo/convo.go).                                       *)
(*                                                                         *)
(* The broker knows a conversation by its token, the Manager by an id that a  *)
(* relay may replace at !new (Hooks.Reset, Overrides.Carry); the token may be *)
(* renamed (Rekey).  Any number of messages are handled at once; the turns of *)
(* one conversation follow one another (ConvoLanes), and SessionState models   *)
(* how a turn gets its session and how an idle one is reaped.                *)
(***************************************************************************)
EXTENDS Integers, FiniteSets

CONSTANTS
    None,
    Tokens,      \* names of conversations
    Models,
    Handlers,    \* goroutines that dispatch messages
    MaxConvs, MaxSessions, MaxLogins,   \* bounds on ids
    MaxMessages, \* bound on messages
    MaxUpsets    \* bound on what else may come between: renamings, failed saves and
                 \* pushes, restarts and reaped sessions

Conversations == 1 .. MaxConvs
Sessions == 1 .. MaxSessions
Logins == 1 .. MaxLogins

ASSUME ControlAssumption ==
    /\ {MaxConvs, MaxSessions, MaxLogins, MaxMessages, MaxUpsets} \subseteq Nat
    /\ Handlers \cap Conversations = {} /\ None \notin Tokens \cup Models

VARIABLES
    mem,        \* Overrides.m: conv -> the model chosen and the session it was pushed to
    file,       \* the FileStore's file: conv -> model
    name,       \* the relay: conv -> its token, None if not in use
    called,     \* the relay: conv -> the token it has or had last
    rekeys,     \* the relay replaces the conversation at !new
    live,       \* Sessions.Live: conv -> session, 0 if none
    gone,       \* conv -> session reaped, which its next turn may resume, 0 if none
    model,      \* the agent: session -> the model it was told to use
    minted,     \* sessions, conversations and logins made so far
    pending,    \* Broker.pending: token -> login, 0 if none
    logins,     \* the agent: login -> whether it waits, and the session it is for
    deferred,   \* Tools.pending: tokens
    queued,     \* conv -> prompts handed to the turn runner
    at,         \* goroutines: the handlers, and of each conversation its turn
    tool,       \* conv -> token under which its agent asks for a new session
    budget,     \* messages and upsets left
    unsaved,    \* history: convs whose saves overlapped or failed
    torn,       \* history: two calls that start or finish a login of one token
                \* overlapped, or the token was renamed under a call about it
    lost,       \* history: sessions whose login nobody drops: they were reaped,
                \* or reset before the login that was being asked for them came
    asked,      \* history: convs whose agent asked for a new session
    mixed       \* history: tokens under which more than one conversation defers

choices == <<mem, file, unsaved>>
loginVars == <<pending, logins>>
resets == <<deferred, tool, asked, mixed>>
sessions == <<live, gone, lost>>
names == <<name, called, rekeys>>
world == <<names, sessions, model, minted, queued, budget>>
controlVars == <<choices, loginVars, resets, world, at, torn>>

Kinds == {"text", "model", "login", "mcp", "cancel", "new"}
Resting == [pc |-> "idle", kind |-> "text", tok |-> None, conv |-> 0, to |-> 0,
         id |-> None, sess |-> 0, login |-> 0, changed |-> FALSE]

Unchosen == [id |-> None, applied |-> 0]

ControlTypeOK ==
    /\ mem \in [Conversations -> [id : Models \cup {None}, applied : Sessions \cup {0}]]
    /\ file \in [Conversations -> Models \cup {None}]
    /\ {name, called, tool} \subseteq [Conversations -> Tokens \cup {None}]
    /\ {live, gone} \subseteq [Conversations -> Sessions \cup {0}] /\ model \in [Sessions -> Models \cup {None}]
    /\ pending \in [Tokens -> Logins \cup {0}] /\ deferred \cup mixed \subseteq Tokens
    /\ logins \in [Logins -> [st : {"none", "open", "alone", "ended", "left"}, sess : Sessions \cup {0}]]
    /\ queued \in [Conversations -> Nat] /\ asked \cup unsaved \subseteq Conversations
    /\ lost \subseteq Sessions /\ {rekeys, torn} \subseteq BOOLEAN
    /\ \A k \in Handlers \cup Conversations : at[k].kind \in Kinds /\ at[k].login \in Logins \cup {0}

ControlInit ==
    /\ mem = [c \in Conversations |-> Unchosen] /\ file = [c \in Conversations |-> None]
    /\ name = [c \in Conversations |-> None] /\ called = name /\ rekeys \in BOOLEAN
    /\ live = [c \in Conversations |-> 0] /\ gone = live /\ lost = {} /\ model = [s \in Sessions |-> None]
    /\ minted = [sess |-> 0, conv |-> 0, login |-> 0]
    /\ pending = [t \in Tokens |-> 0]
    /\ logins = [l \in Logins |-> [st |-> "none", sess |-> 0]]
    /\ deferred = {} /\ queued = [c \in Conversations |-> 0]
    /\ at = [k \in Handlers \cup Conversations |-> Resting] /\ tool = [c \in Conversations |-> None]
    /\ budget = [msgs |-> MaxMessages, upsets |-> MaxUpsets]
    /\ unsaved = {} /\ torn = FALSE /\ asked = {} /\ mixed = {}

-----------------------------------------------------------------------------
(* Goroutines *)

\* A call that starts or finishes a login, and one that has reset a conversation
\* and is yet to drop its login.
LoginPcs == {"ask", "note", "complete", "drop"}
DroppingPcs == {"carry", "carried", "dropLogin"}

\* Goroutine k goes on as c, maybe with a login that another one is about.
Overlaps(k, c) ==
    c.pc \in LoginPcs /\ \E j \in DOMAIN at \ {k} : at[j].tok = c.tok /\ at[j].pc \in LoginPcs

Go(k, c) == at' = [at EXCEPT ![k] = c] /\ torn' = (torn \/ Overlaps(k, c))
Return(k) == Go(k, Resting)

\* A call about the login l of token t.
Call(pc, t, l) == [Resting EXCEPT !.pc = pc, !.tok = t, !.login = l]

\* Hooks.Resolve: the conversation of a token, 0 if there is none yet.
Resolve(t) ==
    IF \E c \in Conversations : name[c] = t THEN CHOOSE c \in Conversations : name[c] = t ELSE 0

\* The conversation of token t has session s.
Current(t, s) == Resolve(t) # 0 /\ live[Resolve(t)] = s

Upset == budget.upsets > 0 /\ budget' = [budget EXCEPT !.upsets = @ - 1]

-----------------------------------------------------------------------------
(* Dispatch and Handle *)

\* The prompt of a message that came to conversation c, if there was one: to
\* the turn runner for c, whatever became of c since.  The relay makes a
\* conversation at its first prompt.
Submit(c, t) ==
    LET d == IF c # 0 THEN c ELSE Resolve(t) new == minted.conv + 1 IN
    IF d # 0
    THEN queued' = [queued EXCEPT ![d] = @ + 1] /\ UNCHANGED <<name, called, minted>>
    ELSE /\ new \in Conversations
         /\ name' = [name EXCEPT ![new] = t] /\ called' = [called EXCEPT ![new] = t]
         /\ queued' = [queued EXCEPT ![new] = 1]
         /\ minted' = [minted EXCEPT !.conv = new]

\* A command, or any message while a login is pending, goes to the broker;
\* the rest is a prompt.
Dispatch(k, t, kind, id) ==
    /\ at[k].pc = "idle" /\ budget.msgs > 0
    /\ (kind = "model") = (id # None)
    /\ budget' = [budget EXCEPT !.msgs = @ - 1]
    /\ IF kind # "text" \/ pending[t] # 0
       THEN /\ Go(k, [Resting EXCEPT !.pc = "handle", !.kind = kind, !.tok = t, !.id = id,
                                     !.conv = IF kind \in {"text", "mcp"} THEN Resolve(t) ELSE 0])
            /\ UNCHANGED <<name, called, minted, queued>>
       ELSE Submit(Resolve(t), t) /\ UNCHANGED <<at, torn>>
    /\ UNCHANGED <<choices, loginVars, resets, rekeys, sessions, model>>

\* Broker.Handle: while a login is pending it takes all but a cancel for the
\* paste that finishes it, or for an empty one, which keeps it.
Handles(k, kinds) == at[k].pc = "handle" /\ at[k].kind \in kinds /\ pending[at[k].tok] = 0

Pasted(k) ==
    /\ at[k].pc = "handle" /\ at[k].kind # "cancel" /\ pending[at[k].tok] # 0
    /\ \/ Go(k, Call("complete", at[k].tok, pending[at[k].tok]))
       \/ at[k].kind = "text" /\ Return(k)
    /\ UNCHANGED <<choices, loginVars, resets, world>>

Cancel(k) ==
    /\ at[k].pc = "handle" /\ at[k].kind = "cancel"
    /\ LET e == pending[at[k].tok] IN
       IF e = 0 THEN Return(k) /\ UNCHANGED pending
       ELSE /\ pending' = [pending EXCEPT ![at[k].tok] = 0]
            /\ Go(k, Call("cancelling", at[k].tok, e))
    /\ UNCHANGED <<choices, logins, resets, world>>

\* A login that ended since HasPending: the text is a prompt after all.
Forwarded(k) ==
    /\ Handles(k, {"text"})
    /\ Submit(at[k].conv, at[k].tok) /\ Return(k)
    /\ UNCHANGED <<choices, loginVars, resets, rekeys, sessions, model, budget>>

-----------------------------------------------------------------------------
(* Logins: Broker.start, startMCP, complete, cancel *)

\* start: no second login of the conversation.
Start(k) ==
    /\ Handles(k, {"login"})
    /\ Go(k, [at[k] EXCEPT !.pc = "ask"])
    /\ UNCHANGED <<choices, loginVars, resets, world>>

\* startMCP: for the session the conversation has, if it has one.
StartMCP(k) ==
    /\ Handles(k, {"mcp"})
    /\ LET c == Resolve(at[k].tok) IN
       IF c = 0 THEN Return(k) ELSE IF live[c] = 0 THEN Return(k)
       ELSE Go(k, [at[k] EXCEPT !.pc = "ask", !.sess = live[c]])
    /\ UNCHANGED <<choices, loginVars, resets, world>>

\* The agent opens a login and answers with its url.
Asked(k) ==
    /\ at[k].pc = "ask" /\ minted.login < MaxLogins
    /\ LET l == minted.login + 1 IN
       /\ minted' = [minted EXCEPT !.login = l]
       /\ logins' = [logins EXCEPT ![l] = [st |-> "open", sess |-> at[k].sess]]
       /\ Go(k, [at[k] EXCEPT !.pc = "note", !.login = l])
    /\ UNCHANGED <<choices, pending, resets, names, sessions, model, queued, budget>>

\* It needs none, or fails.
NotAsked(k) ==
    /\ at[k].pc = "ask"
    /\ Return(k)
    /\ UNCHANGED <<choices, loginVars, resets, world>>

\* It does not know the method: the command is passed through as a prompt.
PassedThrough(k) ==
    /\ at[k].pc = "ask" /\ at[k].kind = "mcp"
    /\ Submit(at[k].conv, at[k].tok) /\ Return(k)
    /\ UNCHANGED <<choices, loginVars, resets, rekeys, sessions, model, budget>>

Noted(k) ==
    /\ at[k].pc = "note"
    /\ pending' = [pending EXCEPT ![at[k].tok] = at[k].login]
    /\ Return(k)
    /\ UNCHANGED <<choices, logins, resets, world>>

\* The agent is told to finish or to cancel a login: it does, or the call fails
\* and may leave the login open there.
Concluded(l) ==
    \E st \in {"ended", "left"} : logins' = [logins EXCEPT ![l].st = IF @ = "open" THEN st ELSE @]

Complete(k) ==
    /\ at[k].pc = "complete"
    /\ Concluded(at[k].login)
    /\ Go(k, Call("drop", at[k].tok, at[k].login))
    /\ UNCHANGED <<choices, pending, resets, world>>

\* complete drops the entry afterwards, whichever it is by then and whatever
\* the agent answered.
Drop(k) ==
    /\ at[k].pc = "drop"
    /\ pending' = [pending EXCEPT ![at[k].tok] = 0]
    /\ Return(k)
    /\ UNCHANGED <<choices, logins, resets, world>>

Cancelling(k) ==
    /\ at[k].pc = "cancelling"
    /\ Concluded(at[k].login)
    /\ Return(k)
    /\ UNCHANGED <<choices, pending, resets, world>>

\* The agent's own listener gets the redirect, or the agent dies.
AgentEnds(l) ==
    /\ logins[l].st = "open"
    /\ logins' = [logins EXCEPT ![l].st = "alone"]
    /\ UNCHANGED <<choices, pending, resets, world, at, torn>>

-----------------------------------------------------------------------------
(* The model: Overrides and FileStore *)

\* Somebody saves the choice of c, which is about to change again.
Saving(c) == \E k \in DOMAIN at : at[k].pc \in {"save", "carry", "carried"} /\ c \in {at[k].conv, at[k].to}

\* A turn of c between its look at the choice and its prompt.
Changes(c) ==
    [k \in DOMAIN at |-> IF k = c THEN [at[k] EXCEPT !.changed = TRUE] ELSE at[k]]

\* Overrides.Set, under its lock: the choice, pushed to no session yet.
Chosen(c, id) == [mem EXCEPT ![c] = [id |-> id, applied |-> 0]]

\* SetModelOverride: a model the agent offers, for a conversation that exists.
Set(k) ==
    /\ Handles(k, {"model"})
    /\ LET c == Resolve(at[k].tok) IN
       IF c = 0 THEN Return(k) /\ UNCHANGED <<mem, unsaved>>
       ELSE /\ mem' = Chosen(c, at[k].id)
            /\ unsaved' = IF Saving(c) THEN unsaved \cup {c} ELSE unsaved
            /\ at' = [Changes(c) EXCEPT ![k] = [at[k] EXCEPT !.pc = "save", !.conv = c]]
            /\ UNCHANGED torn
    /\ UNCHANGED <<file, loginVars, resets, world>>

\* FileStore.Save of one entry, which may fail.
Saved(c, id) ==
    \/ file' = [file EXCEPT ![c] = id] /\ UNCHANGED <<unsaved, budget>>
    \/ Upset /\ unsaved' = unsaved \cup {c} /\ UNCHANGED file

\* Mutant: the file is written with the one entry, without being read first.
Save_Alone(k) ==
    /\ at[k].pc = "save"
    /\ file' = [c \in Conversations |-> IF c = at[k].conv THEN at[k].id ELSE None]
    /\ Return(k)
    /\ UNCHANGED <<mem, unsaved, loginVars, resets, world>>

\* FileStore.Save, after the lock: the whole file with one entry changed.
Save(k) ==
    /\ at[k].pc = "save"
    /\ Saved(at[k].conv, at[k].id)
    /\ Return(k)
    /\ UNCHANGED <<mem, loginVars, resets, names, sessions, model, minted, queued>>

\* NewOverrides: the choices of the file, to be pushed again.
Loaded(f) == [c \in Conversations |-> [Unchosen EXCEPT !.id = f[c]]]

\* The relay and its agent restart.
Restart ==
    /\ Upset
    /\ mem' = Loaded(file) /\ unsaved' = {}
    /\ live' = [c \in Conversations |-> 0] /\ lost' = {}
    /\ gone' = [c \in Conversations |-> IF live[c] # 0 THEN live[c] ELSE gone[c]]
    /\ queued' = [c \in Conversations |-> 0]
    /\ pending' = [t \in Tokens |-> 0]
    /\ logins' = [l \in Logins |-> [logins[l] EXCEPT !.st = IF @ = "none" THEN @ ELSE "ended"]]
    /\ at' = [k \in DOMAIN at |-> Resting] /\ tool' = [c \in Conversations |-> None]
    /\ deferred' = {} /\ asked' = {} /\ torn' = FALSE /\ mixed' = {}
    /\ UNCHANGED <<file, names, model, minted>>

-----------------------------------------------------------------------------
(* !new and new_session: Broker.NewSession *)

\* Overrides.Carry: the choice moves, to be pushed to the new session.
Carried(c, d) == [mem EXCEPT ![c] = Unchosen, ![d] = [mem[c] EXCEPT !.applied = 0]]

Resets(k) == at[k].pc = "reset" \/ Handles(k, {"new"})

moved(S, c, d) == IF c \in S THEN (S \ {c}) \cup {d} ELSE S

\* ResetSession: the conversation, if there is one, loses its session for good.
ResetSession(k) ==
    /\ Resets(k) /\ (rekeys => Resolve(at[k].tok) = 0)
    /\ live' = [c \in Conversations |-> IF c = Resolve(at[k].tok) THEN 0 ELSE live[c]]
    /\ gone' = [c \in Conversations |-> IF c = Resolve(at[k].tok) THEN 0 ELSE gone[c]]
    /\ Go(k, Call("dropLogin", at[k].tok, 0))
    /\ UNCHANGED <<choices, loginVars, resets, names, lost, model, minted, queued, budget>>

\* It fails: the login stays, as the session does.
ResetFails(k) ==
    /\ Resets(k)
    /\ Return(k)
    /\ UNCHANGED <<choices, loginVars, resets, world>>

\* What a turn of c does before EndTurn, and after its look at what was deferred.
InTurn(c) == at[c].pc \in {"apply", "push", "mark", "run"}

\* Hooks.Reset: the relay replaces the conversation by a new one, to which it
\* carries the choice of model.  What the old one deferred, and the end of its
\* turn, are under the token of the new one.
ReplaceConv(k) ==
    /\ Resets(k) /\ rekeys
    /\ LET t == at[k].tok c == Resolve(t) d == minted.conv + 1 IN
       /\ c # 0 /\ d \in Conversations
       /\ name' = [name EXCEPT ![c] = None, ![d] = t] /\ called' = [called EXCEPT ![d] = t]
       /\ minted' = [minted EXCEPT !.conv = d]
       /\ mem' = Carried(c, d)
       /\ unsaved' = IF Saving(c) \/ c \in unsaved THEN unsaved \cup {c, d} ELSE unsaved
       /\ mixed' = IF t \in deferred \/ InTurn(c) \/ (at[c].pc = "reset" /\ k # c)
                   THEN mixed \cup {t} ELSE mixed
       /\ Go(k, IF mem[c].id = None THEN Call("dropLogin", t, 0)
                ELSE [Call("carry", t, 0) EXCEPT !.conv = c, !.to = d, !.id = mem[c].id])
    /\ UNCHANGED <<file, loginVars, deferred, tool, asked, rekeys, sessions, model, queued, budget>>

\* Carry saves twice: the old entry goes before the new one comes, and the new
\* one comes even if the old one stayed.
CarrySaves(k) ==
    /\ \/ /\ at[k].pc = "carry" /\ Saved(at[k].conv, None)
          /\ Go(k, [at[k] EXCEPT !.pc = "carried"])
       \/ /\ at[k].pc = "carried" /\ Saved(at[k].to, at[k].id)
          /\ Go(k, Call("dropLogin", at[k].tok, 0))
    /\ UNCHANGED <<mem, loginVars, resets, names, sessions, model, minted, queued>>

\* Mutant: a reset leaves the login of the session it dropped.
DropSessionLogin_Kept(k) ==
    /\ at[k].pc = "dropLogin"
    /\ Return(k)
    /\ UNCHANGED <<choices, loginVars, resets, world>>

\* dropSessionLogin: a login for the session that is gone is abandoned.  One
\* that is still being asked for it is not seen.
DropSessionLogin(k) ==
    /\ at[k].pc = "dropLogin"
    /\ LET e == pending[at[k].tok] IN
       IF e # 0 /\ logins[e].sess # 0
       THEN /\ pending' = [pending EXCEPT ![at[k].tok] = 0]
            /\ Go(k, Call("cancelling", at[k].tok, e))
       ELSE UNCHANGED pending /\ Return(k)
    /\ lost' = lost \cup {s \in Sessions : \E j \in DOMAIN at :
                  /\ at[j].pc \in {"ask", "note"} /\ at[j].tok = at[k].tok /\ at[j].sess = s
                  /\ ~Current(at[k].tok, s)}
    /\ UNCHANGED <<choices, logins, resets, names, live, gone, model, minted, queued, budget>>

-----------------------------------------------------------------------------
(* A turn of a conversation *)

\* The turn runner starts the next prompt's turn, which gets the conversation's
\* session, one it had that the agent resumes, or a new one.  A conversation
\* that was replaced still runs the prompts it was sent.
TurnBegins(c) ==
    /\ at[c].pc = "idle" /\ queued[c] > 0
    /\ queued' = [queued EXCEPT ![c] = @ - 1]
    /\ \E s \in IF live[c] # 0 THEN {live[c]} ELSE {gone[c], minted.sess + 1} \cap Sessions :
          /\ live' = [live EXCEPT ![c] = s] /\ gone' = [gone EXCEPT ![c] = 0]
          /\ minted' = [minted EXCEPT !.sess = IF s > @ THEN s ELSE @]
          /\ Go(c, [Resting EXCEPT !.pc = "apply", !.tok = called[c], !.conv = c, !.sess = s])
    /\ mixed' = IF name[c] = None THEN mixed \cup {called[c]} ELSE mixed
    /\ UNCHANGED <<choices, loginVars, deferred, tool, asked, names, lost, model, budget>>

\* GCOnce: a session long unused is dropped, and nobody looks at its login.
Collect(c) ==
    /\ live[c] # 0 /\ Upset
    /\ live' = [live EXCEPT ![c] = 0] /\ gone' = [gone EXCEPT ![c] = live[c]]
    /\ lost' = lost \cup {live[c]}
    /\ UNCHANGED <<choices, loginVars, resets, names, model, minted, queued, at, torn>>

\* ApplyModel: Overrides.Pending.
Pending(c) ==
    /\ at[c].pc = "apply"
    /\ Go(c, [at[c] EXCEPT !.changed = FALSE, !.id = mem[c].id,
                           !.pc = IF mem[c].id = None \/ mem[c].applied = at[c].sess
                                  THEN "run" ELSE "push"])
    /\ UNCHANGED <<choices, loginVars, resets, world>>

\* SetModel on the session; if it fails the turn goes on without.
Pushes(c) ==
    /\ at[c].pc = "push"
    /\ \/ /\ model' = [model EXCEPT ![at[c].sess] = at[c].id]
          /\ Go(c, [at[c] EXCEPT !.pc = "mark"]) /\ UNCHANGED budget
       \/ /\ Upset /\ UNCHANGED model
          /\ Go(c, [at[c] EXCEPT !.pc = "run", !.changed = TRUE])
    /\ UNCHANGED <<choices, loginVars, resets, names, sessions, minted, queued>>

\* Mutant: the mark does not look which model was pushed.
MarkApplied_Unchecked(c) ==
    /\ at[c].pc = "mark"
    /\ mem' = IF mem[c].id # None THEN [mem EXCEPT ![c].applied = at[c].sess] ELSE mem
    /\ Go(c, [at[c] EXCEPT !.pc = "run"])
    /\ UNCHANGED <<file, unsaved, loginVars, resets, world>>

MarkApplied(c) ==
    /\ at[c].pc = "mark"
    /\ mem' = IF mem[c].id = at[c].id THEN [mem EXCEPT ![c].applied = at[c].sess] ELSE mem
    /\ Go(c, [at[c] EXCEPT !.pc = "run"])
    /\ UNCHANGED <<file, unsaved, loginVars, resets, world>>

\* The agent calls new_session: wrap finds the conversation's token.
ToolCalled(c) ==
    /\ at[c].pc = "run" /\ tool[c] = None /\ name[c] # None
    /\ tool' = [tool EXCEPT ![c] = name[c]]
    /\ UNCHANGED <<choices, loginVars, deferred, asked, mixed, world, at, torn>>

\* The tool's handler, in a goroutine of the MCP host: it may come after the
\* turn was cut short.
NewSessionTool(c) ==
    /\ tool[c] # None
    /\ deferred' = deferred \cup {tool[c]} /\ tool' = [tool EXCEPT ![c] = None]
    /\ asked' = asked \cup {c}
    /\ mixed' = IF name[c] # tool[c] THEN mixed \cup ({name[c], tool[c]} \ {None}) ELSE mixed
    /\ UNCHANGED <<choices, loginVars, world, at, torn>>

\* EndTurn: the turn is over, its answer posted.  What is deferred under its
\* token is taken, whoever asked for it.
EndTurn(c) ==
    /\ at[c].pc = "run"
    /\ deferred' = deferred \ {at[c].tok} /\ asked' = asked \ {c}
    /\ IF at[c].tok \in deferred THEN Go(c, Call("reset", at[c].tok, 0)) ELSE Return(c)
    /\ UNCHANGED <<choices, loginVars, tool, mixed, world>>

\* A turn that was stopped has no EndTurn.
CutShort(c) ==
    /\ InTurn(c)
    /\ Return(c)
    /\ UNCHANGED <<choices, loginVars, resets, world>>

-----------------------------------------------------------------------------
(* The relay renames a conversation: Broker.Rekey and Tools.Rekey *)

\* Broker.Rekey: one login per conversation, the one that is there already.
BrokerRekey(t, u) ==
    /\ pending' = [pending EXCEPT ![t] = 0, ![u] = IF @ = 0 THEN pending[t] ELSE @]
    /\ IF pending[t] # 0 /\ pending[u] # 0 THEN Concluded(pending[t]) ELSE UNCHANGED logins

\* Mutant: what the agent deferred stays under the old token.
ToolsRekey_Not(t, u) == deferred' = deferred

ToolsRekey(t, u) == deferred' = moved(deferred, t, u)

\* A turn under way knows the new token; one that has looked at what it deferred,
\* and a message, go on with the old one.
Rename(c, u) ==
    /\ name[c] # None /\ Resolve(u) = 0 /\ Upset
    /\ name' = [name EXCEPT ![c] = u] /\ called' = [called EXCEPT ![c] = u]
    /\ BrokerRekey(name[c], u) /\ ToolsRekey(name[c], u)
    /\ at' = IF InTurn(c) THEN [at EXCEPT ![c].tok = u] ELSE at
    /\ torn' = (torn \/ \E k \in DOMAIN at : /\ at[k].tok \in {name[c], u}
                                            /\ at[k].pc \in LoginPcs \cup DroppingPcs)
    /\ mixed' = mixed \cup (IF name[c] \in mixed THEN {u} ELSE {})
                     \cup (IF at[c].pc = "reset" THEN {name[c]} ELSE {})
    /\ UNCHANGED <<choices, tool, asked, rekeys, sessions, model, minted, queued>>

-----------------------------------------------------------------------------
Message(k) ==
    \/ \E t \in Tokens, kind \in Kinds, id \in Models \cup {None} : Dispatch(k, t, kind, id)
    \/ Pasted(k) \/ Cancel(k) \/ Forwarded(k) \/ Start(k) \/ StartMCP(k)
    \/ Asked(k) \/ NotAsked(k) \/ PassedThrough(k) \/ Noted(k) \/ Complete(k) \/ Drop(k)
    \/ Set(k) \/ Save(k)

Resetting(k) ==
    \/ ResetSession(k) \/ ResetFails(k) \/ ReplaceConv(k) \/ CarrySaves(k)
    \/ DropSessionLogin(k) \/ Cancelling(k)

TurnOf(c) ==
    \/ TurnBegins(c) \/ Pending(c) \/ Pushes(c) \/ MarkApplied(c)
    \/ ToolCalled(c) \/ NewSessionTool(c) \/ EndTurn(c) \/ CutShort(c)

ControlNext ==
    \/ \E k \in Handlers : Message(k) \/ Resetting(k)
    \/ \E c \in Conversations : TurnOf(c) \/ Resetting(c) \/ Collect(c) \/ \E u \in Tokens : Rename(c, u)
    \/ \E l \in Logins : AgentEnds(l)
    \/ Restart

ControlSpec == ControlInit /\ [][ControlNext]_controlVars

-----------------------------------------------------------------------------
(* Properties *)

\* A session marked as having the chosen model has it, whatever was chosen
\* while the choice before was pushed; and a turn prompts with the choice it
\* found, unless the push failed or the choice changed since (ApplyModel,
\* Pending, MarkApplied).
ChoiceReachesAgent ==
    \A c \in Conversations :
        /\ mem[c].applied # 0 => model[mem[c].applied] = mem[c].id
        /\ at[c].pc = "run" /\ ~at[c].changed /\ mem[c].id # None =>
               model[at[c].sess] = mem[c].id

\* With no save of a conversation under way the file holds its choice, after a
\* restart as well.  Not promised once two saves of one conversation
\* overlapped, which come in any order (src/convo/overrides.go:100), or one
\* failed.
FileIsChoice ==
    \A c \in Conversations : c \notin unsaved /\ ~Saving(c) => file[c] = mem[c].id

\* The model the user chose is the one the agent has and the file remembers.
ChoiceIsKept == ChoiceReachesAgent /\ FileIsChoice

\* The broker's slots and the agent agree: a message is taken for a paste only
\* while the login it would finish was neither finished nor cancelled, and its
\* session, if it is for one, is the conversation's; and every login the agent
\* waits for has a slot, whose cancel or paste ends it, or is left there by a
\* call that failed.  Not promised while a paste or a reset is about to drop the
\* slot; of a session that was reaped (src/state/state.go:268), or reset before a
\* login asked for it came (src/command/mcplogin.go:151); and once two calls that
\* start or finish a login of one token overlapped (src/command/command.go:787), or
\* it was renamed under a call.
LoginSlotIsTrue ==
    torn \/
    /\ \A t \in Tokens :
          /\ pending[t] # 0
          /\ \A k \in DOMAIN at : ~(at[k].tok = t /\ at[k].pc \in {"drop"} \cup DroppingPcs)
          =>
              LET l == logins[pending[t]] IN
              /\ l.st \in {"open", "alone"}
              /\ l.sess \notin lost \cup {0} => Current(t, l.sess)
    /\ \A l \in Logins :
          logins[l].st = "open" =>
              (\E t \in Tokens : pending[t] = l) \/ (\E k \in DOMAIN at : at[k].login = l)

\* Under a token of one conversation only, a new session is deferred exactly if
\* the agent of the conversation that has the token now asked for one.
DeferredByOwner ==
    \A c \in Conversations :
        name[c] \notin mixed \cup {None} => (c \in asked <=> name[c] \in deferred)

\* A turn resets at its end only if its agent asked, and only its own conversation.
ResetsItsOwn ==
    \A c \in Conversations : at[c].tok \notin mixed =>
        /\ at[c].pc = "run" /\ at'[c].pc = "reset" => c \in asked
        /\ at[c].pc = "reset" /\ at'[c].pc \in DroppingPcs =>
            \A d \in Conversations \ {c} :
                name[d] # None => name'[d] = name[d] /\ live'[d] = live[d]

\* A conversation is reset at the end of its turn exactly if its agent asked for
\* it, wherever it was moved since, and no later one of its old name is (Rekey,
\* EndTurn).  Not promised of a token under which two conversations defer: the
\* relay replaced one with a request or a turn in flight, or renamed it under a
\* tool call or a reset.
DeferredIsAsked == [][DeferredByOwner' /\ ResetsItsOwn]_controlVars
=============================================================================
