------------------------------ MODULE McpProxy ------------------------------
(***************************************************************************)
(* The redirector (src/mcphost/redir.go) in front of an MCP host that is     *)
(* replaced while requests are under way.  Two goroutines, fromAgent and     *)
(* fromHost, share the connection under p.mu, which is also held across a    *)
(* reconnect; a line read from the host is delivered in a later step, so a   *)
(* reconnect can come between.                                              *)
(*                                                                         *)
(* The agent of session Key sends initialize, the initialized notification   *)
(* and Calls tools/call requests, in that order, and may close its end at    *)
(* any time.                                                                *)
(***************************************************************************)
EXTENDS McpHost

CONSTANTS
    Key,            \* the session whose agent started the redirector
    Calls           \* number of tools/call requests

ASSUME ProxyAssumption == Key \in Keys /\ Calls \in Nat

VARIABLES
    sent,       \* lines the agent has written
    eof,        \* the agent closed its end
    mu,         \* who holds p.mu: "free", "agent" or "host"
    cs,         \* where connectLocked is: "none", "dial", "await", "note"
    conn, br,   \* p.conn (0: nil) and p.br, as connection numbers; br is also p.gen
    closing, haveInit, initedNote,
    pending,    \* p.pending
    fa,         \* fromAgent: [at, line, attempt]
    fh,         \* fromHost: [at, br, line]
    token,      \* the token in the redirector's environment
    answers,    \* history: request -> the answers the agent got
    runs        \* history: call -> how often it was carried out

proxy == <<mu, cs, conn, br, closing, haveInit, initedNote, pending, fa, fh>>
vars == <<hostVars, sent, eof, proxy, token, answers, runs>>

Lines == Hello .. (Note + Calls)
Requests == {l \in Lines : IsRequest(l)}

TypeOK ==
    /\ HostTypeOK
    /\ sent \in 0 .. Calls + 2 /\ mu \in {"free", "agent", "host"} /\ token \in Tokens
    /\ {eof, closing, haveInit, initedNote} \subseteq BOOLEAN
    /\ cs \in {"none", "dial", "await", "note"}
    /\ {conn, br} \subseteq Conns \cup {0} /\ conn \in {0, br}
    /\ pending \subseteq Requests
    /\ fa \in [at : {"read", "lock", "try", "done"}, line : Lines, attempt : 0 .. 2]
    /\ fh \in [at : {"start", "read", "got", "check", "connect", "done"},
               br : Conns \cup {0}, line : Int]
    /\ answers \in [Requests -> Seq({"result", "error"})] /\ runs \in [Requests -> Nat]

Init ==
    /\ HostInit([k \in Keys |-> IF k = Key THEN 1 ELSE 0])
    /\ sent = 0 /\ eof = FALSE /\ mu = "host" /\ cs = "dial" /\ conn = 0 /\ br = 0
    /\ closing = FALSE /\ haveInit = FALSE /\ initedNote = FALSE /\ pending = {}
    /\ fa = [at |-> "read", line |-> Note, attempt |-> 0]
    /\ fh = [at |-> "connect", br |-> 0, line |-> Note]
    /\ token = 1
    /\ answers = [i \in Requests |-> <<>>] /\ runs = [i \in Requests |-> 0]

-----------------------------------------------------------------------------
(* Shared pieces *)

Says(S, what) == answers' = [i \in Requests |-> IF i \in S THEN Append(answers[i], what)
                                                          ELSE answers[i]]

\* failPendingLocked: every request in flight is answered with an error.
failPendingLocked == Says(pending, "error") /\ pending' = {}

\* p.conn.Close(): the host still reads what was sent, and answers in vain.
Hangup(c) == IF c = 0 THEN conns ELSE [conns EXCEPT ![c].eof = TRUE, ![c].open = FALSE]

\* failLocked: the proxy is torn down.
failLocked ==
    /\ closing' = TRUE /\ failPendingLocked
    /\ conns' = Hangup(conn) /\ conn' = 0 /\ mu' = "free" /\ cs' = "none"
    /\ IF mu = "agent" THEN fa' = [fa EXCEPT !.at = "done"] /\ UNCHANGED fh
                       ELSE fh' = [fh EXCEPT !.at = "done"] /\ UNCHANGED fa

\* A line written to the current connection arrives if its other end is open.
Writable == conn # 0 /\ conns[conn].open

agentVars == <<sent, eof, token>>
hostButConns == <<image, exported, blob, registry, closed, dropping, handOvers, minted, late>>

-----------------------------------------------------------------------------
(* The agent *)

Agent ==
    \/ /\ fa.at = "read" /\ ~eof /\ sent < Calls + 2
       /\ sent' = sent + 1 /\ fa' = [at |-> "lock", line |-> sent, attempt |-> 0]
       /\ UNCHANGED eof
    \/ fa.at = "read" /\ ~eof /\ eof' = TRUE /\ UNCHANGED <<sent, fa>>

\* ... while the redirector lives.
AgentStep ==
    /\ Agent /\ fh.at # "done"
    /\ UNCHANGED <<hostVars, mu, cs, conn, br, closing, haveInit, initedNote, pending, fh,
                   token, answers, runs>>

-----------------------------------------------------------------------------
(* connectLocked, by whoever holds the lock *)

\* The old connection goes, what was in flight on it is failed.
ConnectBegins(who) ==
    /\ mu' = who /\ cs' = "dial"
    /\ conns' = Hangup(conn) /\ conn' = 0
    /\ failPendingLocked

\* connectLocked returns nil.
Connected ==
    /\ cs' = "none"
    /\ IF mu = "agent" THEN UNCHANGED <<mu, fh>>
                       ELSE mu' = "free" /\ fh' = [fh EXCEPT !.at = "start"]

\* dialLocked and, if the agent sent one, the initialize of replayLocked.
Dial ==
    /\ cs = "dial" /\ image = "listening" /\ br < MaxConns
    /\ br' = br + 1 /\ conn' = br'
    /\ conns' = [conns EXCEPT ![br'] = [NoConn EXCEPT !.stage = "queued", !.open = TRUE,
                     !.token = token, !.in = IF haveInit THEN <<Reinit>> ELSE <<>>]]
    /\ IF haveInit THEN cs' = "await" /\ UNCHANGED <<mu, fh>> ELSE Connected
    /\ UNCHANGED <<hostButConns, agentVars, closing, haveInit, initedNote, pending, fa,
                   answers, runs>>

\* Nobody listens until redirGiveUp (or the bound on connections is reached),
\* or the connection ends, or times out, before the replayed initialize is
\* answered.
ConnectFails ==
    /\ \/ cs = "dial" /\ (image # "listening" \/ br = MaxConns) 
       \/ cs = "await" /\ conns[conn].out = <<>>
       \/ cs = "note" /\ ~Writable
    /\ failLocked
    /\ UNCHANGED <<hostButConns, agentVars, br, haveInit, initedNote, runs>>

\* The answer to the replayed initialize is consumed, never forwarded.
ReplayAnswered ==
    /\ cs = "await" /\ conns[conn].out # <<>> /\ Head(conns[conn].out) = Reinit
    /\ conns' = [conns EXCEPT ![conn].out = Tail(@)]
    /\ IF initedNote THEN cs' = "note" /\ UNCHANGED <<mu, fh>> ELSE Connected
    /\ UNCHANGED <<hostButConns, agentVars, conn, br, closing, haveInit, initedNote, pending, fa,
                   answers, runs>>

\* Mutant: the notification is not replayed.
ReplayNote_Skipped ==
    /\ cs = "note" /\ Writable
    /\ Connected
    /\ UNCHANGED <<hostVars, agentVars, conn, br, closing, haveInit, initedNote, pending, fa,
                   answers, runs>>

\* The initialized notification follows.
ReplayNote ==
    /\ cs = "note" /\ Writable
    /\ conns' = [conns EXCEPT ![conn].in = Append(@, Note)]
    /\ Connected
    /\ UNCHANGED <<hostButConns, agentVars, conn, br, closing, haveInit, initedNote, pending, fa,
                   answers, runs>>

Connect == Dial \/ ConnectFails \/ ReplayAnswered \/ ReplayNote

-----------------------------------------------------------------------------
(* forward *)

\* forward takes the lock and remembers the handshake; a proxy that is
\* closing drops the line.
ForwardLocks ==
    /\ fa.at = "lock" /\ mu = "free"
    /\ IF closing
       THEN fa' = [fa EXCEPT !.at = "done"] /\ UNCHANGED <<mu, haveInit, initedNote>>
       ELSE /\ mu' = "agent" /\ fa' = [fa EXCEPT !.at = "try"]
            /\ haveInit' = (haveInit \/ fa.line = Hello)
            /\ initedNote' = (initedNote \/ fa.line = Note)
    /\ UNCHANGED <<hostVars, agentVars, cs, conn, br, closing, pending, fh, answers, runs>>

ForwardConnects ==
    /\ fa.at = "try" /\ mu = "agent" /\ cs = "none" /\ conn = 0 /\ fa.attempt < 2
    /\ ConnectBegins("agent")
    /\ UNCHANGED <<hostButConns, agentVars, br, closing, haveInit, initedNote, fa, fh, runs>>

\* Written: the id is in flight, recorded under the same lock hold.
ForwardWrites ==
    /\ fa.at = "try" /\ mu = "agent" /\ cs = "none" /\ Writable
    /\ conns' = [conns EXCEPT ![conn].in = Append(@, fa.line)]
    /\ pending' = IF IsRequest(fa.line) THEN pending \cup {fa.line} ELSE pending
    /\ mu' = "free" /\ fa' = [fa EXCEPT !.at = "read"]
    /\ UNCHANGED <<hostButConns, agentVars, cs, conn, br, closing, haveInit, initedNote, fh,
                   answers, runs>>

\* The write fails: once more over a new connection.
ForwardRetries ==
    /\ fa.at = "try" /\ mu = "agent" /\ cs = "none" /\ conn # 0 /\ ~Writable
    /\ conns' = Hangup(conn) /\ conn' = 0
    /\ fa' = [fa EXCEPT !.attempt = @ + 1]
    /\ UNCHANGED <<hostButConns, agentVars, mu, cs, br, closing, haveInit, initedNote, pending,
                   fh, answers, runs>>

ForwardFails ==
    /\ fa.at = "try" /\ mu = "agent" /\ cs = "none" /\ fa.attempt = 2
    /\ failLocked
    /\ UNCHANGED <<hostButConns, agentVars, br, haveInit, initedNote, runs>>

\* closeInput: half-close towards the host, no more reconnects.
closeInput ==
    /\ fa.at = "read" /\ eof /\ mu = "free"
    /\ closing' = TRUE
    /\ conns' = IF conn = 0 THEN conns ELSE [conns EXCEPT ![conn].eof = TRUE]
    /\ fa' = [fa EXCEPT !.at = "done"]
    /\ UNCHANGED <<hostButConns, agentVars, mu, cs, conn, br, haveInit, initedNote, pending, fh,
                   answers, runs>>

forward == ForwardLocks \/ ForwardConnects \/ ForwardWrites \/ ForwardRetries \/ ForwardFails
fromAgent == forward \/ closeInput

-----------------------------------------------------------------------------
(* fromHost *)

FromHostStarts ==
    /\ fh.at = "start" /\ mu = "free"
    /\ fh' = [fh EXCEPT !.at = "read", !.br = br]
    /\ UNCHANGED <<hostVars, agentVars, mu, cs, conn, br, closing, haveInit, initedNote, pending,
                   fa, answers, runs>>

\* A line, or the end: the host's, or this end's after a hang-up (what was
\* buffered before it may still come).
FromHostReads ==
    /\ fh.at = "read"
    /\ \/ /\ conns[fh.br].out # <<>>
          /\ fh' = [fh EXCEPT !.at = "got", !.line = Head(conns[fh.br].out)]
          /\ conns' = [conns EXCEPT ![fh.br].out = Tail(@)]
       \/ /\ (~conns[fh.br].open /\ conns[fh.br].out = <<>>) \/ conn # fh.br
          /\ fh' = [fh EXCEPT !.at = "check"] /\ UNCHANGED conns
    /\ UNCHANGED <<hostButConns, agentVars, mu, cs, conn, br, closing, haveInit, initedNote,
                   pending, fa, answers, runs>>

\* Mutant: every answer is passed on.
expected_Any(l) == TRUE

\* A response nobody waits for any more is dropped.
expected(l) == l \in pending

deliver ==
    /\ fh.at = "got" /\ mu = "free"
    /\ pending' = pending \ {fh.line}
    /\ IF expected(fh.line) THEN Says({fh.line}, "result") ELSE UNCHANGED answers
    /\ fh' = [fh EXCEPT !.at = "read"]
    /\ UNCHANGED <<hostVars, agentVars, mu, cs, conn, br, closing, haveInit, initedNote, fa, runs>>

\* The connection broke: the proxy is closing, or forward has already rebuilt
\* it, or it is rebuilt here.
FromHostChecks ==
    /\ fh.at = "check" /\ mu = "free"
    /\ IF closing \/ br # fh.br
       THEN /\ fh' = [fh EXCEPT !.at = IF closing THEN "done" ELSE "start"]
            /\ UNCHANGED <<mu, cs, conn, conns, pending, answers>>
       ELSE ConnectBegins("host") /\ fh' = [fh EXCEPT !.at = "connect"]
    /\ UNCHANGED <<hostButConns, agentVars, br, closing, haveInit, initedNote, fa, runs>>

fromHost == FromHostStarts \/ FromHostReads \/ deliver \/ FromHostChecks

-----------------------------------------------------------------------------
proxyRest == <<sent, eof, proxy, token, answers>>

HostStep ==
    \/ (Image \/ \E k \in Keys : Register(k)) /\ UNCHANGED <<proxyRest, runs>>
    \/ \E c \in Conns :
        /\ Handler(c)
        /\ runs' = [i \in Requests |-> IF conns[c].stage = "mcp" /\ conns'[c].stage = "running"
                                          /\ conns'[c].line = i
                                       THEN runs[i] + 1 ELSE runs[i]]
        /\ UNCHANGED proxyRest

Next == AgentStep \/ Connect \/ fromAgent \/ fromHost \/ HostStep

Spec == Init /\ [][Next]_vars

\* Goroutines of the redirector and of the host run, tool handlers return, and a
\* relay that closes or died comes back; it need not be reloaded.
FairSpec ==
    /\ Spec /\ WF_vars(Connect) /\ WF_vars(fromAgent) /\ WF_vars(fromHost)
    /\ \A c \in Conns : WF_vars(Handler(c) /\ HostStep)
    /\ WF_vars((ShutdownDrops \/ ShutdownWaits \/ Exec \/ Listen) /\ HostStep)

-----------------------------------------------------------------------------
(* What is promised *)

Promise == INSTANCE RequestReply WITH
    Ids     <- Requests,
    asked   <- {i \in Requests : i < sent},
    answers <- [i \in Requests |->
                    IF answers[i] = <<>> THEN "none"
                    ELSE IF Len(answers[i]) = 1 THEN answers[i][1] ELSE "twice"],
    stopped <- fh.at = "done"

\* Across any number of broken connections a request is carried out at most
\* once, answered exactly once, by the host or by the proxy (redir.go:271,
\* redir.go:416), and nobody waits for ever.
AnsweredOnce == Promise!Spec

\* No connection carries a call before it carried the handshake of the session,
\* although only the first one saw it from the agent (redir.go:134).
HandshakeFirst ==
    \A c \in Conns : conns[c].stage = "running" /\ IsCall(conns[c].line) =>
        conns[c].seen = {Hello, Note}

\* A host that listens resolves exactly the tokens its sessions were given
\* last, whichever image minted them, unless they were minted between the
\* export and the exec, or died with the relay.
TokensSurvive ==
    image = "listening" =>
        /\ \A k \in Keys \ late : byKey[k] = minted[k]
        /\ \A k \in Keys, t \in Tokens : byToken[t] = k <=> byKey[k] = t

\* A session outlives its connections and its relay's image.
SessionSurvives == HandshakeFirst /\ TokensSurvive

\* The hand-over is not held up by connections that arrive during it.
HandOverEnds == image = "closing" ~> image \in {"new", "dead"}
=============================================================================
