------------------------------ MODULE McpHost -------------------------------
(***************************************************************************)
(* The MCP host of a relay (src/mcphost/mcphost.go, mcp.go): tokens that     *)
(* bind a connection to a session, the listener, one handler per connection, *)
(* and the hand-over to the next image: ExportTokens, CloseForExec, exec,    *)
(* SeedTokens, Listen.                                                      *)
(*                                                                         *)
(* Connections are numbers in the order they are dialled.  The lines on them *)
(* are numbers too: Reinit and Hello are the two initialize requests (the     *)
(* proxy's and the agent's), Note the initialized notification, and larger   *)
(* numbers tools/call requests.                                             *)
(***************************************************************************)
EXTENDS Integers, Sequences, FiniteSets

CONSTANTS
    Keys,           \* sessions
    MaxTokens,      \* bound on tokens minted
    MaxConns,       \* bound on connections dialled
    MaxHandOvers,   \* bound on reloads and deaths of the relay
    None

ASSUME HostAssumption ==
    /\ None \notin Keys
    /\ MaxTokens \in Nat \ {0} /\ MaxConns \in Nat

Tokens == 1 .. MaxTokens
Conns == 1 .. MaxConns

VARIABLES
    image,      \* the relay: "new", "listening", "closing", "draining", "closed", "dead"
    exported,   \* ExportTokens was called by this image
    blob,       \* what the next image will find: session -> token (0: none)
    byKey,      \* h.byKey: session -> token, 0 if none
    byToken,    \* h.byToken: token -> session or None
    closed,     \* h.closed
    dropping,   \* the connections shutdown found in h.conns
    conns,      \* connection -> its host end
    handOvers,
    minted,     \* history: session -> the token its agent was last given
    late        \* history: sessions whose token changed after the export

registry == <<byKey, byToken>>
hostVars == <<image, exported, blob, registry, closed, dropping, conns, handOvers, minted, late>>

Reinit == -1
Hello == 0
Note == 1
IsRequest(l) == l # Note
IsCall(l) == l > Note

Conn == [stage : {"none", "queued", "preamble", "mcp", "running", "over"}, open : BOOLEAN,
         eof : BOOLEAN, token : Tokens \cup {0}, in : Seq(Int), out : Seq(Int), line : Int,
         seen : SUBSET {Hello, Note}]    \* history: the handshake so far

HostTypeOK ==
    /\ image \in {"new", "listening", "closing", "draining", "closed", "dead"}
    /\ {exported, closed} \subseteq BOOLEAN /\ dropping \subseteq Conns
    /\ blob \in [Keys -> Tokens \cup {0}] /\ byKey \in [Keys -> Tokens \cup {0}]
    /\ byToken \in [Tokens -> Keys \cup {None}]
    /\ conns \in [Conns -> Conn] /\ minted \in [Keys -> Tokens \cup {0}] /\ late \subseteq Keys

NoConn == [stage |-> "none", open |-> FALSE, eof |-> FALSE, token |-> 0,
           in |-> <<>>, out |-> <<>>, line |-> Note, seen |-> {}]

HostInit(tokens) ==
    /\ image = "listening" /\ exported = FALSE /\ closed = FALSE /\ dropping = {}
    /\ blob = [k \in Keys |-> 0] /\ byKey = tokens /\ minted = tokens
    /\ byToken = [t \in Tokens |-> IF \E k \in Keys : tokens[k] = t
                                    THEN CHOOSE k \in Keys : tokens[k] = t ELSE None]
    /\ conns = [c \in Conns |-> NoConn] /\ handOvers = 0 /\ late = {}

-----------------------------------------------------------------------------
(* The token registry *)

\* register: tok is bound to key; the key's previous token is invalid.
Bound(tok, key) ==
    /\ byToken' = [t \in Tokens |-> IF t = tok THEN key
                                    ELSE IF t = byKey[key] THEN None ELSE byToken[t]]
    /\ byKey' = [byKey EXCEPT ![key] = tok]

\* ServerConfigForSession: the session's agent gets a fresh token.
Register(key) ==
    /\ image \in {"listening", "closing", "draining", "closed"}
    /\ LET tok == 1 + Cardinality({t \in Tokens : \E k \in Keys : t <= minted[k]}) IN
        /\ tok \in Tokens /\ Bound(tok, key)
        /\ minted' = [minted EXCEPT ![key] = tok]
    /\ late' = IF exported THEN late \cup {key} ELSE late \ {key}
    /\ UNCHANGED <<image, exported, blob, closed, dropping, conns, handOvers>>

ExportTokens ==
    /\ image = "listening" /\ ~exported
    /\ exported' = TRUE /\ blob' = byKey
    /\ UNCHANGED <<image, registry, closed, dropping, conns, handOvers, minted, late>>

\* Mutant: the sessions are restored for resolve only.
SeedTokens_NoKeys ==
    /\ byToken' = [t \in Tokens |-> IF \E k \in Keys : blob[k] = t
                                    THEN CHOOSE k \in Keys : blob[k] = t ELSE None]
    /\ UNCHANGED byKey

\* SeedTokens into the empty registry of a new image.
SeedTokens ==
    /\ byKey' = blob
    /\ byToken' = [t \in Tokens |-> IF \E k \in Keys : blob[k] = t
                                    THEN CHOOSE k \in Keys : blob[k] = t ELSE None]

-----------------------------------------------------------------------------
(* The image *)

Handling(c) == conns[c].stage \in {"preamble", "mcp", "running"}

\* CloseForExec: no more handlers are started; those that run are noted, ...
shutdown ==
    /\ image = "listening" /\ exported /\ handOvers < MaxHandOvers
    /\ image' = "closing" /\ closed' = TRUE /\ dropping' = {c \in Conns : Handling(c)}
    /\ UNCHANGED <<exported, blob, registry, conns, handOvers, minted, late>>

\* ... the listener is closed, and then their connections, ...
ShutdownDrops ==
    /\ image = "closing" /\ image' = "draining"
    /\ conns' = [c \in Conns |->
                    IF conns[c].stage = "queued" THEN [conns[c] EXCEPT !.stage = "over", !.open = FALSE]
                    ELSE IF c \in dropping THEN [conns[c] EXCEPT !.open = FALSE] ELSE conns[c]]
    /\ UNCHANGED <<exported, blob, registry, closed, dropping, handOvers, minted, late>>

\* ... and h.wg.Wait.
ShutdownWaits ==
    /\ image = "draining" /\ \A c \in Conns : ~Handling(c)
    /\ image' = "closed"
    /\ UNCHANGED <<exported, blob, registry, closed, dropping, conns, handOvers, minted, late>>

NewImage ==
    /\ exported' = FALSE /\ closed' = FALSE /\ dropping' = {} /\ handOvers' = handOvers + 1
    /\ byKey' = [k \in Keys |-> 0] /\ byToken' = [t \in Tokens |-> None]
    /\ conns' = [c \in Conns |-> IF conns[c].stage = "none" THEN conns[c]
                                 ELSE [conns[c] EXCEPT !.stage = "over", !.open = FALSE]]

Exec ==
    /\ image = "closed" /\ image' = "new" /\ NewImage
    /\ UNCHANGED <<blob, minted, late>>

\* The relay dies.  Its tokens die with it: the next image starts cold.
HostDies ==
    /\ image \in {"listening", "closing", "draining"} /\ handOvers < MaxHandOvers
    /\ image' = "dead" /\ NewImage
    /\ blob' = [k \in Keys |-> 0] /\ late' = {k \in Keys : minted[k] # 0}
    /\ UNCHANGED minted

\* Listen: the socket a predecessor left is stale, and bound anew.
Listen ==
    /\ image \in {"new", "dead"} /\ image' = "listening"
    /\ SeedTokens
    /\ UNCHANGED <<exported, blob, closed, dropping, conns, handOvers, minted, late>>

-----------------------------------------------------------------------------
(* Connections *)

Put(c, r) == conns' = [conns EXCEPT ![c] = r]
hostRest == <<image, exported, blob, registry, closed, dropping, handOvers, minted, late>>

\* Mutant: a connection is accepted while the host shuts down.
Accept_Untracked(c) ==
    /\ conns[c].stage = "queued" /\ image \in {"listening", "closing"}
    /\ Put(c, [conns[c] EXCEPT !.stage = "preamble"])
    /\ UNCHANGED hostRest

\* serve: the connection is tracked, or closed if the host is shutting down.
Accept(c) ==
    /\ conns[c].stage = "queued" /\ image \in {"listening", "closing"}
    /\ IF closed THEN Put(c, [conns[c] EXCEPT !.stage = "over", !.open = FALSE])
                 ELSE Put(c, [conns[c] EXCEPT !.stage = "preamble"])
    /\ UNCHANGED hostRest

resolve(t) == IF t = 0 THEN None ELSE byToken[t]

\* handle: an unknown token ends the connection.
Preamble(c) ==
    /\ conns[c].stage = "preamble"
    /\ Put(c, IF resolve(conns[c].token) # None
              THEN [conns[c] EXCEPT !.stage = "mcp"]
              ELSE [conns[c] EXCEPT !.stage = "over", !.open = FALSE])
    /\ UNCHANGED hostRest

\* runMCP reads a line; an initialize is answered, a call is carried out.
TakeLine(c) ==
    LET r == conns[c] l == Head(conns[c].in) IN
    /\ r.stage = "mcp" /\ r.in # <<>>
    /\ Put(c, [r EXCEPT !.in = Tail(@), !.line = l,
                        !.seen = IF IsCall(l) THEN @ ELSE @ \cup {IF l = Note THEN Note ELSE Hello},
                        !.stage = IF IsRequest(l) THEN "running" ELSE "mcp"])
    /\ UNCHANGED hostRest

\* handleLine's answer.  On a closed connection it fails, and ends the handler.
Reply(c) ==
    LET r == conns[c] IN
    /\ r.stage = "running"
    /\ Put(c, IF r.open THEN [r EXCEPT !.out = Append(@, r.line), !.stage = "mcp"]
                        ELSE [r EXCEPT !.stage = "over"])
    /\ UNCHANGED hostRest

\* The loop ends: the host closed the connection (lines already buffered may
\* have been handled first), or the other end did and nothing is left.
HandlerEnds(c) ==
    LET r == conns[c] IN
    /\ r.stage = "mcp" /\ (~r.open \/ (r.eof /\ r.in = <<>>))
    /\ Put(c, [r EXCEPT !.stage = "over", !.open = FALSE])
    /\ UNCHANGED hostRest

Handler(c) == Accept(c) \/ Preamble(c) \/ TakeLine(c) \/ Reply(c) \/ HandlerEnds(c)
Image == ExportTokens \/ shutdown \/ ShutdownDrops \/ ShutdownWaits \/ Exec \/ HostDies \/ Listen
=============================================================================
