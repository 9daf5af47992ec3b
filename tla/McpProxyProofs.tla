--------------------------- MODULE McpProxyProofs ---------------------------
(* Theorems about the redirector and its host, for every number of calls,   *)
(* connections, tokens and hand-overs: the promise of RequestReply, step by *)
(* step, and what of a session outlives its connections and its relay.      *)
EXTENDS McpProxy, SequenceTheorems, FiniteSetTheorems, TLAPS

Elements(s) == {s[n] : n \in DOMAIN s}

-----------------------------------------------------------------------------
(* The lock                                                                 *)

\* connectLocked runs under p.mu, forward's loop too, and a proxy that closes
\* gives the lock up for good.
Locking ==
    /\ closing => mu = "free"
    /\ cs # "none" => mu # "free"
    /\ cs \in {"await", "note"} => conn # 0
    /\ mu = "agent" <=> fa.at = "try"
    /\ fa.at = "lock" => fa.attempt = 0
    /\ fa.at = "try" /\ fa.attempt = 2 => conn = 0 /\ cs = "none"
    /\ fh.at = "connect" <=> mu = "host"
    /\ mu = "host" => cs # "none"
    /\ fh.at = "done" => closing
    /\ fh.at \in {"start", "read", "got", "check"} => br # 0
    /\ fh.at \in {"read", "got", "check"} => fh.br # 0

-----------------------------------------------------------------------------
(* The requests                                                             *)

\* A request that was not written to any connection.
Fresh(i) ==
    /\ runs[i] = 0 /\ answers[i] = <<>> /\ i \notin pending
    /\ \A c \in Conns : i \notin Elements(conns[c].in)

\* The line forward holds is the last the agent wrote, and no connection ever
\* had it, nor what was not written yet.
Unsent ==
    /\ fa.at \in {"lock", "try"} => fa.line = sent - 1
    /\ \A i \in Requests : i >= sent \/ (fa.at \in {"lock", "try"} /\ i = fa.line) => Fresh(i)

\* A request is on one connection, in one place of it, until it is carried out.
OnePlace ==
    \A c, d \in Conns : \A n \in DOMAIN conns[c].in, m \in DOMAIN conns[d].in :
        conns[c].in[n] \in Requests =>
            /\ runs[conns[c].in[n]] = 0
            /\ conns[c].in[n] = conns[d].in[m] => c = d /\ n = m

\* What the host answers it has carried out.
Earned ==
    /\ \A c \in Conns : /\ \A i \in Elements(conns[c].out) \cap Requests : runs[i] = 1
                        /\ conns[c].stage = "running" /\ conns[c].line \in Requests =>
                               runs[conns[c].line] = 1
    /\ fh.at = "got" /\ fh.line \in Requests => runs[fh.line] = 1
    /\ \A i \in Requests : runs[i] \in {0, 1}

\* Only what is pending is unanswered and may be answered.
Replies ==
    \A i \in Requests : /\ i \in pending => answers[i] = <<>>
                        /\ answers[i] \in {<<>>, <<"result">>, <<"error">>}

Books == Unsent /\ OnePlace /\ Earned /\ Replies

-----------------------------------------------------------------------------
(* The handshake                                                            *)

Opening == {Hello, Reinit}

\* Whether the host of a connection has read the handshake when it comes to
\* the end of the lines on it.
Greeted(r) == Hello \in r.seen \/ \E l \in Opening : l \in Elements(r.in)
Noted(r) == Note \in r.seen \/ Note \in Elements(r.in)

\* ... or to its n-th line.
GreetedBy(r, n) == Hello \in r.seen \/ \E m \in 1..(n - 1) : r.in[m] \in Opening
NotedBy(r, n) == Note \in r.seen \/ \E m \in 1..(n - 1) : r.in[m] = Note

\* Calls come after the handshake on a connection.
Orderly(r) ==
    /\ \A n \in DOMAIN r.in : IsCall(r.in[n]) => GreetedBy(r, n) /\ NotedBy(r, n)
    /\ r.stage = "running" /\ IsCall(r.line) => r.seen = {Hello, Note}

\* What the redirector remembers of the agent's handshake.
Remembers ==
    /\ ~closing /\ (sent > 1 \/ (sent = 1 /\ fa.at # "lock")) => haveInit
    /\ ~closing /\ (sent > 2 \/ (sent = 2 /\ fa.at # "lock")) => initedNote
    /\ initedNote => haveInit

\* It was replayed on the current connection, unless forward is about to write
\* it.
Replayed ==
    /\ cs \in {"await", "note"} => Greeted(conns[conn])
    /\ cs = "none" /\ conn # 0 =>
          /\ haveInit /\ ~(fa.at = "try" /\ fa.line = Hello) => Greeted(conns[conn])
          /\ initedNote /\ ~(fa.at = "try" /\ fa.line = Note) => Noted(conns[conn])

Handshaken == Remembers /\ Replayed /\ \A c \in Conns : Orderly(conns[c])

-----------------------------------------------------------------------------
(* The tokens                                                               *)

\* byKey and byToken are inverse to each other.
Paired(keys, toks) == \A k \in Keys, t \in Tokens : toks[t] = k <=> keys[k] = t

\* Tokens are minted in order; the blob is the export's, and what changed since
\* is late.
Minted ==
    /\ \A k \in Keys : byKey[k] <= minted[k] /\ blob[k] <= minted[k]
    /\ \A j, k \in Keys : blob[j] = blob[k] /\ blob[k] # 0 => j = k
    /\ image \in {"listening", "closing", "draining", "closed"} =>
           /\ Paired(byKey, byToken)
           /\ \A k \in Keys \ late : byKey[k] = minted[k]
    /\ exported \/ image \in {"new", "dead"} => \A k \in Keys \ late : blob[k] = minted[k]
    /\ image \in {"closing", "draining", "closed"} => exported
    /\ image \in {"new", "dead"} => ~exported

IInv == TypeOK /\ Locking /\ Books /\ Handshaken /\ Minted
-----------------------------------------------------------------------------
(* Sequences of lines                                                       *)

LEMMA AppendLine ==
  ASSUME NEW s \in Seq(Int), NEW l \in Int
  PROVE  /\ Append(s, l) \in Seq(Int) /\ DOMAIN s = 1..Len(s) /\ Len(s) \in Nat
         /\ DOMAIN Append(s, l) = 1..(Len(s) + 1)
         /\ \A n \in 1..Len(s) : Append(s, l)[n] = s[n]
         /\ Append(s, l)[Len(s) + 1] = l
         /\ Elements(Append(s, l)) = Elements(s) \cup {l}
<1>1. /\ Append(s, l) \in Seq(Int) /\ Len(Append(s, l)) = Len(s) + 1
      /\ \A n \in 1..Len(s) : Append(s, l)[n] = s[n]
      /\ Append(s, l)[Len(s) + 1] = l
  BY AppendProperties
<1>2. DOMAIN s = 1..Len(s) /\ Len(s) \in Nat /\ DOMAIN Append(s, l) = 1..(Len(s) + 1)
  BY <1>1, LenProperties
<1>3. ASSUME NEW x \in Elements(s) \cup {l} PROVE x \in Elements(Append(s, l))
  BY <1>1, <1>2, <1>3 DEF Elements
<1>4. ASSUME NEW x \in Elements(Append(s, l)) PROVE x \in Elements(s) \cup {l}
  BY <1>1, <1>2, <1>4 DEF Elements
<1> QED BY <1>1, <1>2, <1>3, <1>4

LEMMA TailLine ==
  ASSUME NEW s \in Seq(Int), s # <<>>
  PROVE  /\ Head(s) \in Int /\ Tail(s) \in Seq(Int) /\ Head(s) = s[1]
         /\ DOMAIN s = 1..Len(s) /\ Len(s) \in Nat \ {0}
         /\ DOMAIN Tail(s) = 1..(Len(s) - 1)
         /\ \A n \in 1..(Len(s) - 1) : Tail(s)[n] = s[n + 1]
         /\ Elements(Tail(s)) \subseteq Elements(s)
         /\ Elements(s) = Elements(Tail(s)) \cup {Head(s)}
<1>1. /\ Head(s) \in Int /\ Tail(s) \in Seq(Int) /\ Len(Tail(s)) = Len(s) - 1
      /\ \A n \in 1..Len(Tail(s)) : Tail(s)[n] = s[n + 1]
  BY HeadTailProperties
<1>2. DOMAIN s = 1..Len(s) /\ Len(s) \in Nat \ {0} /\ DOMAIN Tail(s) = 1..(Len(s) - 1)
  BY <1>1, LenProperties, EmptySeq
<1>3. Head(s) = s[1]
  OBVIOUS
<1>4. ASSUME NEW x \in Elements(Tail(s)) PROVE x \in Elements(s)
  <2>1. PICK n \in 1..(Len(s) - 1) : x = Tail(s)[n]
    BY <1>2 DEF Elements
  <2>2. x = s[n + 1] /\ n + 1 \in DOMAIN s
    BY <1>1, <1>2, <2>1
  <2> QED BY <2>2 DEF Elements
<1>5. ASSUME NEW x \in Elements(s) PROVE x \in Elements(Tail(s)) \cup {Head(s)}
  <2>1. PICK n \in 1..Len(s) : x = s[n]
    BY <1>2 DEF Elements
  <2>2. CASE n = 1
    BY <1>3, <2>1, <2>2
  <2>3. CASE n # 1
    <3>1. n - 1 \in DOMAIN Tail(s) /\ Tail(s)[n - 1] = s[n - 1 + 1] /\ n - 1 + 1 = n
      BY <1>1, <1>2, <2>1, <2>3
    <3> QED BY <2>1, <3>1 DEF Elements
  <2> QED BY <2>2, <2>3
<1>6. Head(s) \in Elements(s)
  BY <1>2, <1>3 DEF Elements
<1> QED BY <1>1, <1>2, <1>3, <1>4, <1>5, <1>6

-----------------------------------------------------------------------------
(* What an action does to the connections                                   *)

\* The lines of a connection stay, and no call starts on it.
Same(r, q) ==
    /\ q.in = r.in /\ q.out = r.out /\ q.seen = r.seen /\ q.line = r.line
    /\ q.stage = "running" => r.stage = "running"

Quiet == conns' \in [Conns -> Conn] /\ \A c \in Conns : Same(conns[c], conns'[c])

\* One connection changes.
Changes(c) == conns' \in [Conns -> Conn] /\ \A d \in Conns \ {c} : conns'[d] = conns[d]

\* A line goes to the host on c.
Writes(c, l) ==
    /\ Changes(c) /\ conns'[c].in = Append(conns[c].in, l)
    /\ conns'[c].out = conns[c].out /\ conns'[c].seen = conns[c].seen
    /\ conns'[c].line = conns[c].line /\ conns'[c].stage = conns[c].stage

\* A line from the host is taken off c.
Reads(c) ==
    /\ Changes(c) /\ conns[c].out # <<>> /\ conns'[c].out = Tail(conns[c].out)
    /\ conns'[c].in = conns[c].in /\ conns'[c].seen = conns[c].seen
    /\ conns'[c].line = conns[c].line /\ conns'[c].stage = conns[c].stage

LEMMA ConnFields ==
  ASSUME NEW r \in Conn
  PROVE  /\ r.stage \in {"none", "queued", "preamble", "mcp", "running", "over"}
         /\ r.open \in BOOLEAN /\ r.eof \in BOOLEAN /\ r.token \in Tokens \cup {0}
         /\ r.in \in Seq(Int) /\ r.out \in Seq(Int) /\ r.line \in Int
         /\ r.seen \in SUBSET {Hello, Note}
  BY DEF Conn

LEMMA ClosedConn ==
  ASSUME NEW r \in Conn
  PROVE  /\ [r EXCEPT !.open = FALSE] \in Conn /\ Same(r, [r EXCEPT !.open = FALSE])
         /\ [r EXCEPT !.eof = TRUE] \in Conn /\ Same(r, [r EXCEPT !.eof = TRUE])
         /\ [r EXCEPT !.eof = TRUE, !.open = FALSE] \in Conn
         /\ Same(r, [r EXCEPT !.eof = TRUE, !.open = FALSE])
         /\ [r EXCEPT !.stage = "over", !.open = FALSE] \in Conn
         /\ Same(r, [r EXCEPT !.stage = "over", !.open = FALSE])
         /\ [r EXCEPT !.stage = "over"] \in Conn /\ Same(r, [r EXCEPT !.stage = "over"])
  BY DEF Conn, Same

LEMMA HangupQuiet ==
  ASSUME TypeOK, conns' = Hangup(conn)
  PROVE  Quiet
<1> conns \in [Conns -> Conn] /\ \A c \in Conns : Same(conns[c], conns[c])
  BY DEF TypeOK, HostTypeOK, Same
<1>1. CASE conn = 0
  BY <1>1 DEF Hangup, Quiet
<1>2. CASE conn # 0
  <2>1. conn \in Conns /\ conns[conn] \in Conn
    BY <1>2 DEF TypeOK
  <2>2. conns' = [conns EXCEPT ![conn] = [conns[conn] EXCEPT !.eof = TRUE, !.open = FALSE]]
    BY <1>2, <2>1 DEF Hangup
  <2> QED BY <2>1, <2>2, ClosedConn DEF Quiet
<1> QED BY <1>1, <1>2

LEMMA HostQuiet ==
  ASSUME TypeOK, Image \/ (\E k \in Keys : Register(k))
  PROVE  Quiet
<1> conns \in [Conns -> Conn] /\ \A c \in Conns : Same(conns[c], conns[c])
  BY DEF TypeOK, HostTypeOK, Same
<1>1. CASE ShutdownDrops
  BY <1>1, ClosedConn DEF ShutdownDrops, Quiet
<1>2. CASE NewImage
  BY <1>2, ClosedConn DEF NewImage, Quiet
<1>3. CASE conns' = conns
  BY <1>3 DEF Quiet
<1> QED BY <1>1, <1>2, <1>3 DEF Image, Register, ExportTokens, shutdown, ShutdownWaits, Exec,
                               HostDies, Listen

\* The handlers of the host: nothing of interest, a line taken, an answer.
LEMMA HandlerEffect ==
  ASSUME TypeOK, NEW c \in Conns, Handler(c)
  PROVE  \/ Quiet
         \/ /\ Changes(c) /\ conns[c].stage = "mcp" /\ conns[c].in # <<>>
            /\ conns'[c].in = Tail(conns[c].in) /\ conns'[c].out = conns[c].out
            /\ conns'[c].line = Head(conns[c].in)
            /\ conns'[c].stage = IF IsRequest(Head(conns[c].in)) THEN "running" ELSE "mcp"
            /\ conns'[c].seen = IF IsCall(Head(conns[c].in)) THEN conns[c].seen
                                ELSE conns[c].seen \cup
                                     {IF Head(conns[c].in) = Note THEN Note ELSE Hello}
         \/ /\ Changes(c) /\ conns[c].stage = "running" /\ conns'[c].stage = "mcp"
            /\ conns'[c].out = Append(conns[c].out, conns[c].line)
            /\ conns'[c].in = conns[c].in /\ conns'[c].seen = conns[c].seen
            /\ conns'[c].line = conns[c].line
<1> conns \in [Conns -> Conn] /\ conns[c] \in Conn /\ \A d \in Conns : Same(conns[d], conns[d])
  BY DEF TypeOK, HostTypeOK, Same
<1>0. ASSUME NEW q \in Conn, conns' = [conns EXCEPT ![c] = q]
      PROVE  Changes(c) /\ conns'[c] = q /\ (Same(conns[c], q) => Quiet)
  BY <1>0 DEF Changes, Quiet
<1>1. CASE Accept(c) \/ Preamble(c) \/ HandlerEnds(c)
  <2>1. /\ [conns[c] EXCEPT !.stage = "preamble"] \in Conn
        /\ Same(conns[c], [conns[c] EXCEPT !.stage = "preamble"])
        /\ [conns[c] EXCEPT !.stage = "mcp"] \in Conn
        /\ Same(conns[c], [conns[c] EXCEPT !.stage = "mcp"])
    BY DEF Conn, Same
  <2> QED BY <1>0, <1>1, <2>1, ClosedConn DEF Accept, Preamble, HandlerEnds, Put
<1>2. CASE Reply(c)
  <2>1. CASE ~conns[c].open
    BY <1>0, <1>2, <2>1, ClosedConn DEF Reply, Put
  <2>2. CASE conns[c].open
    <3> DEFINE q == [conns[c] EXCEPT !.out = Append(conns[c].out, conns[c].line), !.stage = "mcp"]
    <3>1. Append(conns[c].out, conns[c].line) \in Seq(Int)
      BY ConnFields, AppendProperties
    <3>2. q \in Conn /\ conns' = [conns EXCEPT ![c] = q]
      BY <1>2, <2>2, <3>1 DEF Reply, Put, Conn
    <3>3. /\ q.stage = "mcp" /\ q.out = Append(conns[c].out, conns[c].line)
          /\ q.in = conns[c].in /\ q.seen = conns[c].seen /\ q.line = conns[c].line
      BY DEF Conn
    <3> HIDE DEF q
    <3> QED BY <1>0, <1>2, <3>2, <3>3 DEF Reply
  <2> QED BY <2>1, <2>2
<1>3. CASE TakeLine(c)
  <2> DEFINE l == Head(conns[c].in)
             seen == IF IsCall(l) THEN conns[c].seen
                     ELSE conns[c].seen \cup {IF l = Note THEN Note ELSE Hello}
             stage == IF IsRequest(l) THEN "running" ELSE "mcp"
             q == [conns[c] EXCEPT !.in = Tail(conns[c].in), !.line = l, !.seen = seen,
                                   !.stage = stage]
  <2>1. Tail(conns[c].in) \in Seq(Int) /\ l \in Int
    BY <1>3, ConnFields, HeadTailProperties DEF TakeLine
  <2>2. seen \in SUBSET {Hello, Note} /\ stage \in {"running", "mcp"}
    BY ConnFields
  <2>3. conns' = [conns EXCEPT ![c] = q]
    BY <1>3 DEF TakeLine, Put
  <2> HIDE DEF l, seen, stage
  <2>4. q \in Conn
    BY <2>1, <2>2 DEF Conn
  <2>5. /\ q.in = Tail(conns[c].in) /\ q.line = l /\ q.seen = seen /\ q.stage = stage
        /\ q.out = conns[c].out
    BY DEF Conn
  <2> HIDE DEF q
  <2>6. /\ Changes(c) /\ conns'[c].in = Tail(conns[c].in) /\ conns'[c].out = conns[c].out
        /\ conns'[c].line = l /\ conns'[c].stage = stage /\ conns'[c].seen = seen
    BY <1>0, <2>3, <2>4, <2>5
  <2> QED BY <1>3, <2>6 DEF TakeLine, l, seen, stage
<1> QED BY <1>1, <1>2, <1>3 DEF Handler

LEMMA LineWritten ==
  ASSUME TypeOK, NEW c \in Conns, NEW l \in Int, conns' = [conns EXCEPT ![c].in = Append(@, l)]
  PROVE  Writes(c, l)
<1> DEFINE q == [conns[c] EXCEPT !.in = Append(conns[c].in, l)]
<1>1. conns \in [Conns -> Conn] /\ conns[c] \in Conn
  BY DEF TypeOK, HostTypeOK
<1>2. Append(conns[c].in, l) \in Seq(Int)
  BY <1>1, ConnFields, AppendProperties
<1>3. q \in Conn
  BY <1>1, <1>2 DEF Conn
<1>4. /\ q.in = Append(conns[c].in, l) /\ q.out = conns[c].out /\ q.seen = conns[c].seen
      /\ q.line = conns[c].line /\ q.stage = conns[c].stage
  BY <1>1 DEF Conn
<1>5. conns' = [conns EXCEPT ![c] = q]
  OBVIOUS
<1> HIDE DEF q
<1> QED BY <1>1, <1>3, <1>4, <1>5 DEF Writes, Changes

LEMMA LineRead ==
  ASSUME TypeOK, NEW c \in Conns, conns[c].out # <<>>, conns' = [conns EXCEPT ![c].out = Tail(@)]
  PROVE  Reads(c)
<1> DEFINE q == [conns[c] EXCEPT !.out = Tail(conns[c].out)]
<1>1. conns \in [Conns -> Conn] /\ conns[c] \in Conn
  BY DEF TypeOK, HostTypeOK
<1>2. Tail(conns[c].out) \in Seq(Int)
  BY <1>1, ConnFields, HeadTailProperties
<1>3. q \in Conn
  BY <1>1, <1>2 DEF Conn
<1>4. /\ q.out = Tail(conns[c].out) /\ q.in = conns[c].in /\ q.seen = conns[c].seen
      /\ q.line = conns[c].line /\ q.stage = conns[c].stage
  BY <1>1 DEF Conn
<1>5. conns' = [conns EXCEPT ![c] = q]
  OBVIOUS
<1> HIDE DEF q
<1> QED BY <1>1, <1>3, <1>4, <1>5 DEF Reads, Changes

LEMMA Dialled ==
  ASSUME TypeOK, Dial
  PROVE  /\ br' \in Conns /\ conn' = br' /\ Changes(br')
         /\ conns'[br'].in = (IF haveInit THEN <<Reinit>> ELSE <<>>) /\ conns'[br'].out = <<>>
         /\ conns'[br'].seen = {} /\ conns'[br'].stage = "queued"
<1> DEFINE lines == IF haveInit THEN <<Reinit>> ELSE <<>>
           q == [NoConn EXCEPT !.stage = "queued", !.open = TRUE, !.token = token, !.in = lines]
<1>1. conns \in [Conns -> Conn] /\ token \in Tokens /\ br \in Conns \cup {0}
  BY DEF TypeOK, HostTypeOK
<1>2. br' \in Conns /\ conn' = br' /\ conns' = [conns EXCEPT ![br'] = q]
  BY <1>1, HostAssumption DEF Dial, Conns
<1>3. lines \in Seq(Int)
  BY DEF Reinit
<1> HIDE DEF lines
<1>4. q \in Conn
  <2>1. <<>> \in Seq(Int) /\ Note \in Int /\ {} \in SUBSET {Hello, Note}
    BY DEF Note
  <2>2. NoConn \in Conn
    BY <2>1 DEF NoConn, Conn
  <2> QED BY <1>1, <1>3, <2>2 DEF Conn
<1>5. q.in = lines /\ q.out = <<>> /\ q.seen = {} /\ q.stage = "queued"
  BY DEF NoConn
<1> HIDE DEF q
<1> QED BY <1>1, <1>2, <1>4, <1>5 DEF Changes, lines

\* closeInput's half-close.
LEMMA HalfClosed ==
  ASSUME TypeOK, closeInput
  PROVE  Quiet
<1> conns \in [Conns -> Conn] /\ \A c \in Conns : Same(conns[c], conns[c])
  BY DEF TypeOK, HostTypeOK, Same
<1>1. CASE conn = 0
  BY <1>1 DEF closeInput, Quiet
<1>2. CASE conn # 0
  <2>1. conn \in Conns /\ conns[conn] \in Conn
    BY <1>2 DEF TypeOK
  <2>2. conns' = [conns EXCEPT ![conn] = [conns[conn] EXCEPT !.eof = TRUE]]
    BY <1>2, <2>1 DEF closeInput
  <2> QED BY <2>1, <2>2, ClosedConn DEF Quiet
<1> QED BY <1>1, <1>2

-----------------------------------------------------------------------------
(* Types and the lock                                                       *)

\* The verdict on each request in a set, added to the others' answers.
LEMMA Said ==
  ASSUME TypeOK, NEW S \in SUBSET Requests, NEW what \in {"result", "error"}, Says(S, what)
  PROVE  /\ answers' \in [Requests -> Seq({"result", "error"})]
         /\ \A i \in S : answers'[i] = Append(answers[i], what)
         /\ \A i \in Requests \ S : answers'[i] = answers[i]
<1>1. \A i \in Requests : Append(answers[i], what) \in Seq({"result", "error"})
  BY AppendProperties DEF TypeOK
<1> QED BY <1>1 DEF TypeOK, Says

\* The requests in flight are answered with an error.
LEMMA Failed ==
  ASSUME TypeOK, failPendingLocked
  PROVE  /\ pending' = {}
         /\ answers' \in [Requests -> Seq({"result", "error"})]
         /\ \A i \in pending : answers'[i] = Append(answers[i], "error")
         /\ \A i \in Requests \ pending : answers'[i] = answers[i]
  BY Said DEF failPendingLocked, TypeOK

\* The registry's part of the types, which the redirector leaves alone.
RegistryTypes ==
    /\ image \in {"new", "listening", "closing", "draining", "closed", "dead"}
    /\ {exported, closed} \subseteq BOOLEAN /\ dropping \subseteq Conns
    /\ blob \in [Keys -> Tokens \cup {0}] /\ byKey \in [Keys -> Tokens \cup {0}]
    /\ byToken \in [Tokens -> Keys \cup {None}]
    /\ minted \in [Keys -> Tokens \cup {0}] /\ late \subseteq Keys

ProxyTypes ==
    /\ sent \in 0 .. Calls + 2 /\ mu \in {"free", "agent", "host"} /\ token \in Tokens
    /\ {eof, closing, haveInit, initedNote} \subseteq BOOLEAN
    /\ cs \in {"none", "dial", "await", "note"}
    /\ {conn, br} \subseteq Conns \cup {0} /\ conn \in {0, br}
    /\ pending \subseteq Requests
    /\ fa \in [at : {"read", "lock", "try", "done"}, line : Lines, attempt : 0 .. 2]
    /\ fh \in [at : {"start", "read", "got", "check", "connect", "done"},
               br : Conns \cup {0}, line : Int]
    /\ answers \in [Requests -> Seq({"result", "error"})]

LEMMA TypesSplit ==
  TypeOK <=> RegistryTypes /\ conns \in [Conns -> Conn] /\ ProxyTypes /\ runs \in [Requests -> Nat]
  BY DEF TypeOK, HostTypeOK, RegistryTypes, ProxyTypes

LEMMA RegistryStep ==
  ASSUME RegistryTypes, Image \/ (\E k \in Keys : Register(k))
  PROVE  RegistryTypes'
<1>1. ASSUME NEW k \in Keys, Register(k) PROVE RegistryTypes'
  BY <1>1 DEF Register, Bound, RegistryTypes
<1>2. CASE NewImage /\ (Exec \/ HostDies)
  BY <1>2 DEF NewImage, Exec, HostDies, RegistryTypes
<1>3. CASE Listen
  <2>1. \A t \in Tokens : (\E k \in Keys : blob[k] = t) =>
                              (CHOOSE k \in Keys : blob[k] = t) \in Keys
    OBVIOUS
  <2>2. byToken' \in [Tokens -> Keys \cup {None}]
    BY <1>3, <2>1 DEF Listen, SeedTokens
  <2> QED BY <1>3, <2>2 DEF Listen, SeedTokens, RegistryTypes, registry
<1>4. CASE ExportTokens \/ shutdown \/ ShutdownDrops \/ ShutdownWaits
  BY <1>4 DEF ExportTokens, shutdown, ShutdownDrops, ShutdownWaits, RegistryTypes, registry
<1> QED BY <1>1, <1>2, <1>3, <1>4 DEF Image, Exec, HostDies

LEMMA AgentStepTypes ==
  ASSUME TypeOK, Locking, AgentStep
  PROVE  ProxyTypes' /\ Locking'
<1>1. ProxyTypes
  BY TypesSplit
<1>2. ProxyTypes'
  <2>1. sent' \in 0..(Calls + 2)
    BY <1>1, ProxyAssumption DEF AgentStep, Agent, ProxyTypes
  <2>2. fa' \in [at : {"read", "lock", "try", "done"}, line : Lines, attempt : 0 .. 2]
    BY <1>1, ProxyAssumption DEF AgentStep, Agent, ProxyTypes, Lines, Hello, Note
  <2>3. {eof, closing, haveInit, initedNote}' \subseteq BOOLEAN
    BY <1>1 DEF AgentStep, Agent, ProxyTypes
  <2> QED BY <1>1, <2>1, <2>2, <2>3 DEF AgentStep, ProxyTypes
<1>3. Locking'
  BY <1>1 DEF AgentStep, Agent, ProxyTypes, Locking, hostVars, hostButConns, agentVars
<1> QED BY <1>2, <1>3

LEMMA DialTypes ==
  ASSUME TypeOK, Locking, Dial
  PROVE  ProxyTypes' /\ Locking'
<1>1. ProxyTypes
  BY TypesSplit
<1>2. ProxyTypes'
  <2>1. br' \in Conns /\ conn' = br'
    BY Dialled
  <2>2. /\ cs' \in {"none", "await"} /\ mu' \in {mu, "free"}
        /\ fh' \in [at : {"start", "read", "got", "check", "connect", "done"},
                    br : Conns \cup {0}, line : Int]
    BY <1>1 DEF Dial, Connected, ProxyTypes
  <2> QED BY <1>1, <2>1, <2>2 DEF Dial, ProxyTypes, agentVars
<1>3. Locking'
  BY <1>1 DEF Dial, Connected, Conns, ProxyTypes, Locking, hostVars, hostButConns, agentVars
<1> QED BY <1>2, <1>3

LEMMA ConnectFailsTypes ==
  ASSUME TypeOK, Locking, ConnectFails
  PROVE  ProxyTypes' /\ Locking'
<1>1. ProxyTypes
  BY TypesSplit
<1>2. ProxyTypes'
  <2>1. pending' = {} /\ answers' \in [Requests -> Seq({"result", "error"})]
    BY Failed DEF ConnectFails, failLocked
  <2>2. /\ fa' \in [at : {"read", "lock", "try", "done"}, line : Lines, attempt : 0 .. 2]
        /\ fh' \in [at : {"start", "read", "got", "check", "connect", "done"},
                    br : Conns \cup {0}, line : Int]
    BY <1>1 DEF ConnectFails, failLocked, ProxyTypes
  <2> QED BY <1>1, <2>1, <2>2 DEF ConnectFails, failLocked, ProxyTypes, hostButConns, agentVars
<1>3. Locking'
  BY <1>1 DEF ConnectFails, failLocked, failPendingLocked, ProxyTypes, Locking, hostVars, hostButConns, agentVars
<1> QED BY <1>2, <1>3

LEMMA ReplayAnsweredTypes ==
  ASSUME TypeOK, Locking, ReplayAnswered
  PROVE  ProxyTypes' /\ Locking'
<1>1. ProxyTypes
  BY TypesSplit
<1>2. ProxyTypes'
  BY <1>1 DEF ReplayAnswered, Connected, ProxyTypes, hostVars, hostButConns, agentVars
<1>3. Locking'
  BY <1>1 DEF ReplayAnswered, Connected, ProxyTypes, Locking, hostVars, hostButConns, agentVars
<1> QED BY <1>2, <1>3

LEMMA ReplayNoteTypes ==
  ASSUME TypeOK, Locking, ReplayNote
  PROVE  ProxyTypes' /\ Locking'
<1>1. ProxyTypes
  BY TypesSplit
<1>2. ProxyTypes'
  BY <1>1 DEF ReplayNote, Connected, ProxyTypes, hostVars, hostButConns, agentVars
<1>3. Locking'
  BY <1>1 DEF ReplayNote, Connected, ProxyTypes, Locking, hostVars, hostButConns, agentVars
<1> QED BY <1>2, <1>3

LEMMA ForwardLocksTypes ==
  ASSUME TypeOK, Locking, ForwardLocks
  PROVE  ProxyTypes' /\ Locking'
<1>1. ProxyTypes
  BY TypesSplit
<1>2. ProxyTypes'
  BY <1>1 DEF ForwardLocks, ProxyTypes, hostVars, hostButConns, agentVars
<1>3. Locking'
  BY <1>1 DEF ForwardLocks, ProxyTypes, Locking, hostVars, hostButConns, agentVars
<1> QED BY <1>2, <1>3

LEMMA ForwardConnectsTypes ==
  ASSUME TypeOK, Locking, ForwardConnects
  PROVE  ProxyTypes' /\ Locking'
<1>1. ProxyTypes
  BY TypesSplit
<1>2. ProxyTypes'
  <2>1. pending' = {} /\ answers' \in [Requests -> Seq({"result", "error"})]
    BY Failed DEF ForwardConnects, ConnectBegins
  <2> QED BY <1>1, <2>1 DEF ForwardConnects, ConnectBegins, ProxyTypes, agentVars
<1>3. Locking'
  BY <1>1 DEF ForwardConnects, ConnectBegins, failPendingLocked, ProxyTypes, Locking, hostVars, hostButConns, agentVars
<1> QED BY <1>2, <1>3

LEMMA ForwardWritesTypes ==
  ASSUME TypeOK, Locking, ForwardWrites
  PROVE  ProxyTypes' /\ Locking'
<1>1. ProxyTypes
  BY TypesSplit
<1>2. ProxyTypes'
  <2>1. pending' \subseteq Requests
    BY <1>1 DEF ForwardWrites, ProxyTypes, Requests
  <2> QED BY <1>1, <2>1 DEF ForwardWrites, ProxyTypes, agentVars
<1>3. Locking'
  BY <1>1 DEF ForwardWrites, ProxyTypes, Locking, hostVars, hostButConns, agentVars
<1> QED BY <1>2, <1>3

LEMMA ForwardRetriesTypes ==
  ASSUME TypeOK, Locking, ForwardRetries
  PROVE  ProxyTypes' /\ Locking'
<1>1. ProxyTypes
  BY TypesSplit
<1>2. ProxyTypes'
  <2>1. fa.attempt \in 0..1
    BY <1>1 DEF ForwardRetries, Locking, ProxyTypes
  <2>2. fa' \in [at : {"read", "lock", "try", "done"}, line : Lines, attempt : 0 .. 2]
    BY <1>1, <2>1 DEF ForwardRetries, ProxyTypes
  <2> QED BY <1>1, <2>2 DEF ForwardRetries, ProxyTypes, agentVars
<1>3. Locking'
  BY <1>1 DEF ForwardRetries, ProxyTypes, Locking, hostVars, hostButConns, agentVars
<1> QED BY <1>2, <1>3

LEMMA ForwardFailsTypes ==
  ASSUME TypeOK, Locking, ForwardFails
  PROVE  ProxyTypes' /\ Locking'
<1>1. ProxyTypes
  BY TypesSplit
<1>2. ProxyTypes'
  <2>1. pending' = {} /\ answers' \in [Requests -> Seq({"result", "error"})]
    BY Failed DEF ForwardFails, failLocked
  <2>2. /\ fa' \in [at : {"read", "lock", "try", "done"}, line : Lines, attempt : 0 .. 2]
        /\ fh' \in [at : {"start", "read", "got", "check", "connect", "done"},
                    br : Conns \cup {0}, line : Int]
    BY <1>1 DEF ForwardFails, failLocked, ProxyTypes
  <2> QED BY <1>1, <2>1, <2>2 DEF ForwardFails, failLocked, ProxyTypes, hostButConns, agentVars
<1>3. Locking'
  BY <1>1 DEF ForwardFails, failLocked, failPendingLocked, ProxyTypes, Locking, hostVars, hostButConns, agentVars
<1> QED BY <1>2, <1>3

LEMMA closeInputTypes ==
  ASSUME TypeOK, Locking, closeInput
  PROVE  ProxyTypes' /\ Locking'
<1>1. ProxyTypes
  BY TypesSplit
<1>2. ProxyTypes'
  BY <1>1 DEF closeInput, ProxyTypes, hostVars, hostButConns, agentVars
<1>3. Locking'
  BY <1>1 DEF closeInput, ProxyTypes, Locking, hostVars, hostButConns, agentVars
<1> QED BY <1>2, <1>3

LEMMA FromHostStartsTypes ==
  ASSUME TypeOK, Locking, FromHostStarts
  PROVE  ProxyTypes' /\ Locking'
<1>1. ProxyTypes
  BY TypesSplit
<1>2. ProxyTypes'
  BY <1>1 DEF FromHostStarts, ProxyTypes, hostVars, hostButConns, agentVars
<1>3. Locking'
  BY <1>1 DEF FromHostStarts, ProxyTypes, Locking, hostVars, hostButConns, agentVars
<1> QED BY <1>2, <1>3

LEMMA FromHostReadsTypes ==
  ASSUME TypeOK, Locking, FromHostReads
  PROVE  ProxyTypes' /\ Locking'
<1>1. ProxyTypes
  BY TypesSplit
<1>2. ProxyTypes'
  <2>1. fh.at = "read" => fh.br \in Conns
    BY <1>1 DEF Locking, ProxyTypes
  <2>2. fh.at = "read" /\ conns[fh.br].out # <<>> => Head(conns[fh.br].out) \in Int
    BY <2>1, TypesSplit, ConnFields, HeadTailProperties
  <2> QED BY <1>1, <2>2 DEF FromHostReads, ProxyTypes, agentVars
<1>3. Locking'
  BY <1>1 DEF FromHostReads, ProxyTypes, Locking, hostVars, hostButConns, agentVars
<1> QED BY <1>2, <1>3

LEMMA deliverTypes ==
  ASSUME TypeOK, Locking, deliver
  PROVE  ProxyTypes' /\ Locking'
<1>1. ProxyTypes
  BY TypesSplit
<1>2. ProxyTypes'
  <2>1. answers' \in [Requests -> Seq({"result", "error"})]
    <3>1. CASE fh.line \in pending
      <4>1. {fh.line} \in SUBSET Requests /\ Says({fh.line}, "result")
        BY <1>1, <3>1 DEF deliver, expected, ProxyTypes
      <4> QED BY <4>1, Said
    <3>2. CASE fh.line \notin pending
      BY <1>1, <3>2 DEF deliver, expected, ProxyTypes
    <3> QED BY <3>1, <3>2
  <2>2. pending' \subseteq Requests
    BY <1>1 DEF deliver, ProxyTypes
  <2> QED BY <1>1, <2>1, <2>2 DEF deliver, ProxyTypes, agentVars
<1>3. Locking'
  BY <1>1 DEF deliver, ProxyTypes, Locking, hostVars, hostButConns, agentVars
<1> QED BY <1>2, <1>3

LEMMA FromHostChecksTypes ==
  ASSUME TypeOK, Locking, FromHostChecks
  PROVE  ProxyTypes' /\ Locking'
<1>1. ProxyTypes
  BY TypesSplit
<1>2. ProxyTypes'
  <2>1. pending' \subseteq Requests /\ answers' \in [Requests -> Seq({"result", "error"})]
    BY <1>1, Failed DEF FromHostChecks, ConnectBegins, ProxyTypes
  <2>2. fh' \in [at : {"start", "read", "got", "check", "connect", "done"},
                br : Conns \cup {0}, line : Int]
    BY <1>1 DEF FromHostChecks, ProxyTypes
  <2>3. conn' \in {0, conn} /\ mu' \in {mu, "host"} /\ cs' \in {cs, "dial"}
    BY DEF FromHostChecks, ConnectBegins
  <2> QED BY <1>1, <2>1, <2>2, <2>3 DEF FromHostChecks, ProxyTypes, agentVars
<1>3. Locking'
  BY <1>1 DEF FromHostChecks, ConnectBegins, failPendingLocked, ProxyTypes, Locking, hostVars, hostButConns, agentVars
<1> QED BY <1>2, <1>3

-----------------------------------------------------------------------------
(* The books of the requests                                                *)

\* No line is written and none carried out.
Fewer ==
    /\ conns' \in [Conns -> Conn] /\ runs' = runs
    /\ \A c \in Conns :
          /\ conns'[c].in = conns[c].in /\ Elements(conns'[c].out) \subseteq Elements(conns[c].out)
          /\ conns'[c].line = conns[c].line
          /\ conns'[c].stage = "running" => conns[c].stage = "running"

\* What is answered was pending and is no more.
Settles ==
    /\ pending' \subseteq pending
    /\ \A i \in Requests :
          \/ answers'[i] = answers[i]
          \/ i \in pending \ pending' /\ answers'[i] \in {<<"result">>, <<"error">>}

\* The agent writes nothing, and what forward holds it held before.
Holds ==
    /\ sent' = sent
    /\ fa'.at \in {"lock", "try"} => fa.at \in {"lock", "try"} /\ fa'.line = fa.line

\* What fromHost read the host had written.
Got ==
    fh'.at = "got" => \/ fh.at = "got" /\ fh'.line = fh.line
                      \/ \E c \in Conns : fh'.line \in Elements(conns[c].out)

LEMMA QuietFewer ==
  ASSUME Quiet, runs' = runs
  PROVE  Fewer
  BY DEF Quiet, Same, Fewer

LEMMA ReadsFewer ==
  ASSUME TypeOK, NEW c \in Conns, Reads(c), runs' = runs
  PROVE  Fewer
<1>1. Elements(conns'[c].out) \subseteq Elements(conns[c].out)
  BY TypesSplit, ConnFields, TailLine DEF Reads
<1> QED BY <1>1 DEF Reads, Changes, Fewer

\* Whoever answers, reads or breaks a connection keeps the books.
LEMMA KeptBooks ==
  ASSUME TypeOK, Books, Fewer, Settles, Holds, Got
  PROVE  Books'
<1>1. \A i \in Requests : Fresh(i) => Fresh(i)'
  BY DEF Fresh, Fewer, Settles
<1>2. Unsent'
  <2>1. ASSUME NEW i \in Requests, i >= sent \/ (fa'.at \in {"lock", "try"} /\ i = fa'.line)
        PROVE  Fresh(i)'
    BY <1>1, <2>1 DEF Books, Unsent, Holds
  <2> QED BY <2>1 DEF Books, Unsent, Holds
<1>3. OnePlace'
  BY DEF Books, OnePlace, Fewer
<1>4. Earned'
  BY DEF Books, Earned, Fewer, Got
<1>5. Replies'
  BY DEF Books, Replies, Settles
<1> QED BY <1>2, <1>3, <1>4, <1>5 DEF Books

\* An answer is the first.
LEMMA FailedSettles ==
  ASSUME TypeOK, Books, failPendingLocked
  PROVE  Settles
<1>1. ASSUME NEW i \in pending PROVE answers'[i] = <<"error">>
  <2>1. i \in Requests /\ answers[i] = <<>>
    BY DEF TypeOK, Books, Replies
  <2> QED BY <2>1, Failed
<1> QED BY <1>1, Failed DEF Settles, TypeOK

LEMMA ProxyBooks ==
  ASSUME TypeOK, Locking, Books,
         \/ ConnectFails \/ ReplayAnswered \/ ForwardLocks \/ ForwardConnects \/ ForwardRetries
         \/ ForwardFails \/ closeInput \/ fromHost
  PROVE  Books'
<1>1. CASE ConnectFails \/ ForwardFails
  <2>1. failPendingLocked /\ conns' = Hangup(conn) /\ runs' = runs
    BY <1>1 DEF ConnectFails, ForwardFails, failLocked
  <2>2. Holds /\ Got
    BY <1>1 DEF ConnectFails, ForwardFails, failLocked, Holds, Got, TypeOK, agentVars
  <2> QED BY <2>1, <2>2, HangupQuiet, QuietFewer, FailedSettles, KeptBooks
<1>2. CASE ForwardConnects
  <2>1. failPendingLocked /\ conns' = Hangup(conn) /\ runs' = runs /\ Holds /\ Got
    BY <1>2 DEF ForwardConnects, ConnectBegins, Holds, Got, agentVars
  <2> QED BY <2>1, HangupQuiet, QuietFewer, FailedSettles, KeptBooks
<1>3. CASE FromHostChecks
  <2>1. runs' = runs /\ Holds /\ Got
    BY <1>3 DEF FromHostChecks, Holds, Got, TypeOK, agentVars
  <2>2. Quiet /\ Settles
    <3>1. CASE closing \/ br # fh.br
      BY <1>3, <3>1 DEF FromHostChecks, Quiet, Same, Settles, TypeOK, HostTypeOK
    <3>2. CASE ~(closing \/ br # fh.br)
      <4>1. failPendingLocked /\ conns' = Hangup(conn)
        BY <1>3, <3>2 DEF FromHostChecks, ConnectBegins
      <4> QED BY <4>1, HangupQuiet, FailedSettles
    <3> QED BY <3>1, <3>2
  <2> QED BY <2>1, <2>2, QuietFewer, KeptBooks
<1>4. CASE ForwardLocks \/ ForwardRetries \/ closeInput \/ FromHostStarts
  <2>1. runs' = runs /\ Settles /\ Holds /\ Got
    BY <1>4 DEF ForwardLocks, ForwardRetries, closeInput, FromHostStarts, Settles, Holds, Got,
                TypeOK, agentVars
  <2>2. Quiet
    <3>1. CASE ForwardRetries
      BY <3>1, HangupQuiet DEF ForwardRetries
    <3>2. CASE closeInput
      BY <3>2, HalfClosed
    <3>3. CASE ForwardLocks \/ FromHostStarts
      BY <3>3 DEF ForwardLocks, FromHostStarts, hostVars, Quiet, Same, TypeOK, HostTypeOK
    <3> QED BY <1>4, <3>1, <3>2, <3>3
  <2> QED BY <2>1, <2>2, QuietFewer, KeptBooks
<1>5. CASE ReplayAnswered
  <2>1. conn \in Conns
    BY <1>5 DEF ReplayAnswered, Locking, TypeOK
  <2>2. runs' = runs /\ Settles /\ Holds /\ Got
    BY <1>5 DEF ReplayAnswered, Connected, Settles, Holds, Got, TypeOK, agentVars
  <2>3. Reads(conn)
    BY <1>5, <2>1, LineRead DEF ReplayAnswered
  <2> QED BY <2>1, <2>2, <2>3, ReadsFewer, KeptBooks
<1>6. CASE FromHostReads
  <2>1. fh.br \in Conns
    BY <1>6 DEF FromHostReads, Locking, TypeOK
  <2>2. runs' = runs /\ Settles /\ Holds
    BY <1>6 DEF FromHostReads, Settles, Holds, agentVars
  <2>3. CASE conns' = conns /\ fh'.at = "check"
    <3>1. Fewer /\ Got
      BY <2>2, <2>3 DEF Fewer, Got, TypeOK, HostTypeOK
    <3> QED BY <2>2, <3>1, KeptBooks
  <2>4. CASE conns[fh.br].out # <<>> /\ conns' = [conns EXCEPT ![fh.br].out = Tail(@)]
             /\ fh'.line = Head(conns[fh.br].out)
    <3>1. Reads(fh.br)
      BY <2>1, <2>4, LineRead
    <3>2. Head(conns[fh.br].out) \in Elements(conns[fh.br].out)
      BY <2>1, <2>4, TypesSplit, ConnFields, TailLine
    <3>3. Got
      BY <2>1, <2>4, <3>2 DEF Got
    <3> QED BY <2>1, <2>2, <3>1, <3>3, ReadsFewer, KeptBooks
  <2> QED BY <1>6, <2>3, <2>4 DEF FromHostReads, TypeOK
<1>7. CASE deliver
  <2>1. Quiet /\ runs' = runs /\ Holds /\ Got
    BY <1>7 DEF deliver, hostVars, Quiet, Same, TypeOK, HostTypeOK, Holds, Got, agentVars
  <2>2. Settles
    <3>1. CASE fh.line \in pending
      <4>1. {fh.line} \in SUBSET Requests /\ Says({fh.line}, "result") /\ answers[fh.line] = <<>>
        BY <1>7, <3>1 DEF deliver, expected, TypeOK, Books, Replies
      <4>2. answers'[fh.line] = <<"result">> /\ \A i \in Requests \ {fh.line} :
                answers'[i] = answers[i]
        BY <4>1, Said
      <4> QED BY <1>7, <3>1, <4>2 DEF deliver, Settles
    <3>2. CASE fh.line \notin pending
      BY <1>7, <3>2 DEF deliver, expected, Settles
    <3> QED BY <3>1, <3>2
  <2> QED BY <2>1, <2>2, QuietFewer, KeptBooks
<1> QED BY <1>1, <1>2, <1>3, <1>4, <1>5, <1>6, <1>7 DEF fromHost

\* The line the agent writes was on no connection.
LEMMA AgentBooks ==
  ASSUME TypeOK, Locking, Books, AgentStep
  PROVE  Books'
<1>1. UNCHANGED <<conns, runs, answers, pending, fh>>
  BY DEF AgentStep, hostVars
<1>2. \A i \in Requests : Fresh(i)' <=> Fresh(i)
  BY <1>1 DEF Fresh
<1>3. Unsent'
  <2>1. sent \in Int
    BY DEF TypeOK
  <2>2. fa'.at \in {"lock", "try"} => fa'.line = sent' - 1
    BY <2>1 DEF AgentStep, Agent, Books, Unsent, TypeOK
  <2>3. ASSUME NEW i \in Requests, i >= sent' \/ (fa'.at \in {"lock", "try"} /\ i = fa'.line)
        PROVE  Fresh(i)
    <3>1. i >= sent \/ (fa.at \in {"lock", "try"} /\ i = fa.line)
      BY <2>1, <2>2, <2>3 DEF AgentStep, Agent, Books, Unsent, TypeOK, Requests, Lines
    <3> QED BY <3>1 DEF Books, Unsent
  <2> QED BY <1>2, <2>2, <2>3 DEF Unsent
<1> QED BY <1>1, <1>3 DEF Books, OnePlace, Earned, Replies

LEMMA ReinitNoRequest == Reinit \notin Requests /\ Note \notin Requests
  BY DEF Reinit, Note, Hello, Requests, Lines, IsRequest

\* On a new connection only the replayed initialize is written.
LEMMA DialBooks ==
  ASSUME TypeOK, Locking, Books, Dial
  PROVE  Books'
<1>1. /\ br' \in Conns /\ Changes(br') /\ conns'[br'].out = <<>> /\ conns'[br'].stage = "queued"
      /\ conns'[br'].in = IF haveInit THEN <<Reinit>> ELSE <<>>
  BY Dialled
<1>2. UNCHANGED <<runs, answers, pending, sent, fa>> /\ fh' \in {fh, [fh EXCEPT !.at = "start"]}
  BY DEF Dial, Connected, agentVars
<1>3. \A n \in DOMAIN conns'[br'].in : conns'[br'].in[n] = Reinit
  BY <1>1
<1>4. Elements(conns'[br'].in) \cap Requests = {} /\ Elements(conns'[br'].out) = {}
  BY <1>1, <1>3, ReinitNoRequest DEF Elements
<1>5. \A i \in Requests : Fresh(i) => Fresh(i)'
  BY <1>1, <1>2, <1>4 DEF Fresh, Changes
<1>6. Unsent'
  BY <1>2, <1>5 DEF Books, Unsent
<1>7. OnePlace'
  <2>1. \A n \in DOMAIN conns'[br'].in : conns'[br'].in[n] \notin Requests
    BY <1>3, ReinitNoRequest
  <2> QED BY <1>1, <1>2, <2>1 DEF Books, OnePlace, Changes
<1>8. Earned'
  BY <1>1, <1>2, <1>4 DEF Books, Earned, Changes, TypeOK
<1>9. Replies'
  BY <1>2 DEF Books, Replies
<1> QED BY <1>6, <1>7, <1>8, <1>9 DEF Books

\* A line that is no request, or one that is fresh.
LEMMA WriteBooks ==
  ASSUME TypeOK, Locking, Books, ReplayNote \/ ForwardWrites
  PROVE  Books'
<1> DEFINE l == IF ReplayNote THEN Note ELSE fa.line
<1>1. conn \in Conns
  BY DEF ReplayNote, ForwardWrites, Writable, TypeOK
<1>2. l \in Int /\ (l \in Requests => ForwardWrites /\ l = fa.line /\ fa.at = "try")
  BY ReinitNoRequest DEF TypeOK, Lines, Hello, Note, ForwardWrites
<1>3. Writes(conn, l)
  <2>1. CASE ReplayNote
    BY <1>1, <1>2, <2>1, LineWritten DEF ReplayNote
  <2>2. CASE ~ReplayNote
    BY <1>1, <1>2, <2>2, LineWritten DEF ForwardWrites
  <2> QED BY <2>1, <2>2
<1>4. UNCHANGED <<runs, answers, sent>> /\ fa'.line = fa.line /\ (ForwardWrites => fa'.at = "read")
      /\ (~ForwardWrites => fa' = fa /\ pending' = pending)
  BY DEF ReplayNote, ForwardWrites, agentVars, TypeOK
<1>5. fh' \in {fh, [fh EXCEPT !.at = "start"]} /\ pending' \subseteq pending \cup {l}
      /\ pending' \subseteq Requests /\ pending \subseteq pending'
  BY DEF ReplayNote, ForwardWrites, Connected, TypeOK, Requests
<1>6. l \in Requests => Fresh(l)
  BY <1>2 DEF Books, Unsent
<1> HIDE DEF l
<1>7. conns[conn].in \in Seq(Int) /\ Elements(conns'[conn].in) = Elements(conns[conn].in) \cup {l}
  BY <1>1, <1>2, <1>3, TypesSplit, ConnFields, AppendLine DEF Writes
<1>8. \A i \in Requests : Fresh(i) /\ i # l => Fresh(i)'
  <2>1. \A c \in Conns : Elements(conns'[c].in) \subseteq Elements(conns[c].in) \cup {l}
    BY <1>3, <1>7 DEF Writes, Changes
  <2> QED BY <1>4, <1>5, <2>1 DEF Fresh
<1>9. Unsent'
  <2>1. ASSUME NEW i \in Requests, i >= sent \/ (fa'.at \in {"lock", "try"} /\ i = fa'.line)
        PROVE  Fresh(i) /\ i # l
    <3>1. Fresh(i)
      BY <1>4, <2>1 DEF Books, Unsent
    <3>2. i = l => l \in Requests /\ fa'.at = "read" /\ l = sent - 1 /\ sent \in Int
      BY <1>2, <1>4, <2>1 DEF Books, Unsent, TypeOK
    <3> QED BY <2>1, <3>1, <3>2
  <2> QED BY <1>4, <1>8, <2>1 DEF Books, Unsent
<1>10. OnePlace'
  <2> DEFINE s == conns[conn].in
             t == conns'[conn].in
  <2>1. /\ DOMAIN s = 1..Len(s) /\ Len(s) \in Nat /\ DOMAIN t = 1..(Len(s) + 1)
        /\ (\A n \in 1..Len(s) : t[n] = s[n]) /\ t[Len(s) + 1] = l
    BY <1>2, <1>3, <1>7, AppendLine DEF Writes
  <2>2. \A c \in Conns : c # conn => conns'[c] = conns[c]
    BY <1>3 DEF Writes, Changes
  <2>3. ASSUME l \in Requests, NEW c \in Conns, NEW n \in DOMAIN conns[c].in
        PROVE  conns[c].in[n] # l
    BY <1>6, <2>3 DEF Fresh, Elements
  <2> HIDE DEF s, t
  <2>4. ASSUME NEW c \in Conns, NEW n \in DOMAIN conns'[c].in
        PROVE  \/ n \in DOMAIN conns[c].in /\ conns'[c].in[n] = conns[c].in[n]
               \/ c = conn /\ n = Len(s) + 1 /\ conns'[c].in[n] = l
    <3>1. CASE c # conn
      BY <2>2, <2>4, <3>1
    <3>2. CASE c = conn
      <4>1. n \in 1..(Len(s) + 1) /\ conns'[c].in = t /\ conns[c].in = s
        BY <2>1, <2>4, <3>2 DEF s, t
      <4>2. (n \in 1..Len(s) /\ t[n] = s[n]) \/ n = Len(s) + 1
        BY <2>1, <4>1
      <4> QED BY <2>1, <3>2, <4>1, <4>2
    <3> QED BY <3>1, <3>2
  <2> SUFFICES ASSUME NEW c \in Conns, NEW d \in Conns, NEW n \in DOMAIN conns'[c].in,
                      NEW m \in DOMAIN conns'[d].in, conns'[c].in[n] \in Requests
               PROVE  /\ runs'[conns'[c].in[n]] = 0
                      /\ conns'[c].in[n] = conns'[d].in[m] => c = d /\ n = m
    BY DEF OnePlace
  <2>5. runs'[conns'[c].in[n]] = 0
    BY <1>4, <1>6, <2>4 DEF Books, OnePlace, Fresh
  <2>6. ASSUME conns'[c].in[n] = conns'[d].in[m] PROVE c = d /\ n = m
    <3>1. CASE conns'[c].in[n] = l
      <4>1. l \in Requests /\ conns'[d].in[m] = l
        BY <2>6, <3>1
      <4>2. c = conn /\ n = Len(s) + 1
        BY <2>3, <2>4, <3>1, <4>1
      <4>3. d = conn /\ m = Len(s) + 1
        BY <2>3, <2>4, <4>1
      <4> QED BY <4>2, <4>3
    <3>2. CASE conns'[c].in[n] # l
      BY <2>4, <2>6, <3>2 DEF Books, OnePlace
    <3> QED BY <3>1, <3>2
  <2> QED BY <2>5, <2>6
<1>11. Earned'
  <2>1. \A c \in Conns : conns'[c].out = conns[c].out /\ conns'[c].line = conns[c].line
                         /\ conns'[c].stage = conns[c].stage
    BY <1>3 DEF Writes, Changes
  <2> QED BY <1>4, <1>5, <2>1, ZenonT(30) DEF Books, Earned, TypeOK
<1>12. Replies'
  BY <1>4, <1>5, <1>6 DEF Books, Replies, Fresh
<1> QED BY <1>9, <1>10, <1>11, <1>12 DEF Books

\* The host carries a line out that is on this connection only.
LEMMA HandlerBooks ==
  ASSUME TypeOK, Locking, Books, NEW c \in Conns, Handler(c), UNCHANGED proxyRest,
         runs' = [i \in Requests |-> IF conns[c].stage = "mcp" /\ conns'[c].stage = "running"
                                        /\ conns'[c].line = i
                                     THEN runs[i] + 1 ELSE runs[i]]
  PROVE  Books' /\ runs' \in [Requests -> Nat]
<1>1. runs' \in [Requests -> Nat]
  BY DEF TypeOK
<1>2. UNCHANGED <<sent, answers, pending, fa, fh>>
  BY DEF proxyRest, proxy
<1> DEFINE l == Head(conns[c].in)
<1>3. CASE Quiet
  <2>1. runs' = runs
    BY <1>3 DEF Quiet, Same, TypeOK
  <2>2. Settles /\ Holds /\ Got
    BY <1>2 DEF Settles, Holds, Got
  <2> QED BY <1>1, <1>3, <2>1, <2>2, QuietFewer, KeptBooks
<1>4. CASE /\ Changes(c) /\ conns[c].stage = "mcp" /\ conns[c].in # <<>>
           /\ conns'[c].in = Tail(conns[c].in) /\ conns'[c].out = conns[c].out
           /\ conns'[c].line = l
           /\ conns'[c].stage = IF IsRequest(l) THEN "running" ELSE "mcp"
  <2> DEFINE s == conns[c].in
             t == conns'[c].in
  <2>1. /\ DOMAIN s = 1..Len(s) /\ Len(s) \in Nat \ {0} /\ DOMAIN t = 1..(Len(s) - 1)
        /\ (\A n \in 1..(Len(s) - 1) : t[n] = s[n + 1]) /\ l = s[1]
        /\ Elements(t) \subseteq Elements(s) /\ l \in Elements(s)
    BY <1>4, TypesSplit, ConnFields, TailLine
  <2>2. \A d \in Conns : d # c => conns'[d] = conns[d]
    BY <1>4 DEF Changes
  <2>3. l \in Requests => runs[l] = 0
    BY <2>1 DEF Books, OnePlace
  <2>4. \A i \in Requests : runs'[i] = IF i = l THEN 1 ELSE runs[i]
    <3>1. ASSUME NEW i \in Requests PROVE IsRequest(i)
      BY <3>1 DEF Requests
    <3> HIDE DEF l
    <3> QED BY <1>4, <2>3, <3>1
  <2>5. \A i \in Requests : Fresh(i) => Fresh(i)'
    <3>1. \A i \in Requests : Fresh(i) => i # l
      BY <2>1 DEF Fresh
    <3>2. \A d \in Conns : Elements(conns'[d].in) \subseteq Elements(conns[d].in)
      BY <2>1, <2>2
    <3> HIDE DEF l
    <3> QED BY <1>2, <2>4, <3>1, <3>2 DEF Fresh
  <2>6. Unsent'
    BY <1>2, <2>5 DEF Books, Unsent
  <2> HIDE DEF s, t
  <2>7. ASSUME NEW d \in Conns, NEW n \in DOMAIN conns'[d].in
        PROVE  \E m \in DOMAIN conns[d].in : /\ conns'[d].in[n] = conns[d].in[m]
                                             /\ m = IF d = c THEN n + 1 ELSE n
                                             /\ d = c => n \in Nat /\ m # 1
    <3>1. CASE d # c
      BY <2>2, <2>7, <3>1
    <3>2. CASE d = c
      <4>1. n \in 1..(Len(s) - 1) /\ conns'[d].in[n] = t[n] /\ conns[d].in = s
        BY <2>1, <2>7, <3>2 DEF s, t
      <4>2. n \in Nat /\ n + 1 # 1 /\ n + 1 \in DOMAIN s /\ t[n] = s[n + 1]
        BY <2>1, <4>1
      <4> QED BY <3>2, <4>1, <4>2
    <3> QED BY <3>1, <3>2
  <2>8. 1 \in DOMAIN conns[c].in /\ l = conns[c].in[1]
    BY <2>1 DEF s
  <2> HIDE DEF l
  <2>9. ASSUME NEW d \in Conns, NEW n \in DOMAIN conns'[d].in, conns'[d].in[n] \in Requests
        PROVE  conns'[d].in[n] # l
    <3>1. PICK m \in DOMAIN conns[d].in : /\ conns'[d].in[n] = conns[d].in[m]
                                          /\ d = c => m # 1
      BY <2>7
    <3> QED BY <2>8, <2>9, <3>1 DEF Books, OnePlace
  <2>10. OnePlace'
    <3> SUFFICES ASSUME NEW a \in Conns, NEW b \in Conns, NEW n \in DOMAIN conns'[a].in,
                        NEW m \in DOMAIN conns'[b].in, conns'[a].in[n] \in Requests
                 PROVE  /\ runs'[conns'[a].in[n]] = 0
                        /\ conns'[a].in[n] = conns'[b].in[m] => a = b /\ n = m
      BY DEF OnePlace
    <3>1. PICK k \in DOMAIN conns[a].in : /\ conns'[a].in[n] = conns[a].in[k]
                                          /\ k = IF a = c THEN n + 1 ELSE n
                                          /\ a = c => n \in Nat
      BY <2>7
    <3>2. PICK j \in DOMAIN conns[b].in : /\ conns'[b].in[m] = conns[b].in[j]
                                          /\ j = IF b = c THEN m + 1 ELSE m
                                          /\ b = c => m \in Nat
      BY <2>7
    <3>3. runs'[conns'[a].in[n]] = 0
      BY <2>4, <2>9, <3>1 DEF Books, OnePlace
    <3>4. ASSUME conns'[a].in[n] = conns'[b].in[m] PROVE a = b /\ n = m
      <4>1. a = b /\ k = j
        BY <3>1, <3>2, <3>4 DEF Books, OnePlace
      <4> QED BY <3>1, <3>2, <4>1
    <3> QED BY <3>3, <3>4
  <2>11. Earned'
    <3>1. \A d \in Conns : conns'[d].out = conns[d].out
      BY <1>4, <2>2
    <3>2. \A i \in Requests : runs[i] = 1 => runs'[i] = 1
      BY <2>3, <2>4
    <3>3. ASSUME NEW d \in Conns, conns'[d].stage = "running", conns'[d].line \in Requests
          PROVE  runs'[conns'[d].line] = 1
      BY <1>4, <2>2, <2>4, <3>2, <3>3 DEF Books, Earned
    <3>4. \A i \in Requests : runs'[i] \in {0, 1}
      BY <2>4 DEF Books, Earned
    <3> QED BY <1>2, <3>1, <3>2, <3>3, <3>4 DEF Books, Earned
  <2>12. Replies'
    BY <1>2 DEF Books, Replies
  <2> QED BY <1>1, <2>6, <2>10, <2>11, <2>12 DEF Books
<1>5. CASE /\ Changes(c) /\ conns[c].stage = "running" /\ conns'[c].stage = "mcp"
           /\ conns'[c].out = Append(conns[c].out, conns[c].line)
           /\ conns'[c].in = conns[c].in /\ conns'[c].line = conns[c].line
  <2>1. runs' = runs
    BY <1>5 DEF TypeOK
  <2>2. \A d \in Conns : conns'[d].in = conns[d].in
    BY <1>5 DEF Changes
  <2>3. \A i \in Requests : Fresh(i)' <=> Fresh(i)
    BY <1>2, <2>1, <2>2 DEF Fresh
  <2>4. Unsent'
    BY <1>2, <2>3 DEF Books, Unsent
  <2>5. OnePlace'
    BY <2>1, <2>2 DEF Books, OnePlace
  <2>6. Earned'
    <3>1. Elements(conns'[c].out) = Elements(conns[c].out) \cup {conns[c].line}
      BY <1>5, TypesSplit, ConnFields, AppendLine
    <3>2. conns[c].line \in Requests => runs[conns[c].line] = 1
      BY <1>5 DEF Books, Earned
    <3>3. \A d \in Conns : \A i \in Elements(conns'[d].out) \cap Requests : runs[i] = 1
      BY <1>5, <3>1, <3>2 DEF Books, Earned, Changes
    <3>4. \A d \in Conns : conns'[d].stage = "running" => conns'[d] = conns[d]
      BY <1>5 DEF Changes
    <3> QED BY <1>2, <2>1, <3>3, <3>4 DEF Books, Earned
  <2>7. Replies'
    BY <1>2 DEF Books, Replies
  <2> QED BY <1>1, <2>4, <2>5, <2>6, <2>7 DEF Books
<1> QED BY <1>3, <1>4, <1>5, HandlerEffect

-----------------------------------------------------------------------------
(* The handshake                                                            *)

\* What was said on a connection stays said.
Follows(r, q) ==
    /\ Orderly(r) => Orderly(q)
    /\ Greeted(r) => Greeted(q)
    /\ Noted(r) => Noted(q)

Progress == \A c \in Conns : Follows(conns[c], conns'[c])

LEMMA SameFollows ==
  ASSUME NEW r, NEW q, q.in = r.in, q.seen = r.seen, q.line = r.line,
         q.stage = "running" => r.stage = "running"
  PROVE  Follows(r, q)
  BY DEF Follows, Orderly, Greeted, Noted, GreetedBy, NotedBy

\* A line more on a connection.
LEMMA AppendFollows ==
  ASSUME NEW r \in Conn, NEW q \in Conn, NEW l \in Int, q.in = Append(r.in, l), q.seen = r.seen,
         q.line = r.line, q.stage = r.stage, IsCall(l) => Greeted(r) /\ Noted(r)
  PROVE  /\ Follows(r, q) /\ (l \in Opening => Greeted(q)) /\ (l = Note => Noted(q))
<1>1. /\ DOMAIN r.in = 1..Len(r.in) /\ Len(r.in) \in Nat /\ DOMAIN q.in = 1..(Len(r.in) + 1)
      /\ (\A n \in 1..Len(r.in) : q.in[n] = r.in[n]) /\ q.in[Len(r.in) + 1] = l
      /\ Elements(q.in) = Elements(r.in) \cup {l}
  BY ConnFields, AppendLine
<1>2. (Greeted(r) => Greeted(q)) /\ (Noted(r) => Noted(q))
  BY <1>1 DEF Greeted, Noted
<1>3. (l \in Opening => Greeted(q)) /\ (l = Note => Noted(q))
  BY <1>1 DEF Greeted, Noted
<1>4. ASSUME Orderly(r), NEW n \in DOMAIN q.in, IsCall(q.in[n])
      PROVE  GreetedBy(q, n) /\ NotedBy(q, n)
  <2>1. CASE n \in 1..Len(r.in)
    <3>1. GreetedBy(r, n) /\ NotedBy(r, n)
      BY <1>1, <1>4, <2>1 DEF Orderly
    <3>2. \A m \in 1..(n - 1) : q.in[m] = r.in[m]
      BY <1>1, <2>1
    <3> QED BY <3>1, <3>2 DEF GreetedBy, NotedBy
  <2>2. CASE n = Len(r.in) + 1
    <3>1. Greeted(r) /\ Noted(r)
      BY <1>1, <1>4, <2>2
    <3>2. n - 1 = Len(r.in)
      BY <1>1, <2>2
    <3>3. GreetedBy(q, n)
      BY <1>1, <3>1, <3>2 DEF Greeted, GreetedBy, Elements
    <3>4. NotedBy(q, n)
      BY <1>1, <3>1, <3>2 DEF Noted, NotedBy, Elements
    <3> QED BY <3>3, <3>4
  <2> QED BY <1>1, <2>1, <2>2
<1>5. Orderly(r) => Orderly(q)
  BY <1>4 DEF Orderly
<1> QED BY <1>2, <1>3, <1>5 DEF Follows

\* The host reads a line; it has seen the handshake when it comes to a call.
LEMMA TakeFollows ==
  ASSUME NEW r \in Conn, NEW q \in Conn, r.in # <<>>, q.in = Tail(r.in), q.line = Head(r.in),
         q.seen = (IF IsCall(Head(r.in)) THEN r.seen
                   ELSE r.seen \cup {IF Head(r.in) = Note THEN Note ELSE Hello})
  PROVE  Follows(r, q)
<1> DEFINE l == Head(r.in)
<1>1. /\ DOMAIN r.in = 1..Len(r.in) /\ Len(r.in) \in Nat \ {0} /\ l = r.in[1] /\ l \in Int
      /\ DOMAIN q.in = 1..(Len(r.in) - 1)
      /\ \A n \in 1..(Len(r.in) - 1) : q.in[n] = r.in[n + 1]
      /\ Elements(r.in) = Elements(q.in) \cup {l}
  BY ConnFields, TailLine
<1>2. r.seen \subseteq q.seen /\ (l \in Opening => Hello \in q.seen) /\ (l = Note => Note \in q.seen)
  BY DEF IsCall, Opening, Hello, Reinit, Note
<1> HIDE DEF l
<1>3. (Greeted(r) => Greeted(q)) /\ (Noted(r) => Noted(q))
  BY <1>1, <1>2 DEF Greeted, Noted
<1>4. ASSUME Orderly(r), NEW n \in DOMAIN q.in, IsCall(q.in[n])
      PROVE  GreetedBy(q, n) /\ NotedBy(q, n)
  <2>1. /\ n + 1 \in DOMAIN r.in /\ r.in[n + 1] = q.in[n] /\ n \in Int
    BY <1>1
  <2>2. GreetedBy(r, n + 1) /\ NotedBy(r, n + 1)
    BY <1>4, <2>1 DEF Orderly
  <2>3. ASSUME NEW m \in 1..(n + 1 - 1), m # 1
        PROVE  m - 1 \in 1..(n - 1) /\ q.in[m - 1] = r.in[m]
    <3>1. m - 1 \in 1..(Len(r.in) - 1) /\ m - 1 + 1 = m /\ m - 1 \in 1..(n - 1)
      BY <1>1, <2>1, <2>3
    <3> QED BY <1>1, <3>1
  <2>4. GreetedBy(q, n)
    <3>1. CASE Hello \in r.seen
      BY <1>2, <3>1 DEF GreetedBy
    <3>2. CASE \E m \in 1..(n + 1 - 1) : m # 1 /\ r.in[m] \in Opening
      <4>1. PICK m \in 1..(n + 1 - 1) : m # 1 /\ r.in[m] \in Opening
        BY <3>2
      <4> QED BY <2>3, <4>1 DEF GreetedBy
    <3>3. CASE r.in[1] \in Opening
      BY <1>1, <1>2, <3>3 DEF GreetedBy
    <3> QED BY <2>2, <3>1, <3>2, <3>3 DEF GreetedBy
  <2>5. NotedBy(q, n)
    BY <1>1, <1>2, <2>2, <2>3 DEF NotedBy
  <2> QED BY <2>4, <2>5
<1>5. ASSUME Orderly(r), IsCall(l) PROVE q.seen = {Hello, Note}
  <2>1. GreetedBy(r, 1) /\ NotedBy(r, 1)
    BY <1>1, <1>5 DEF Orderly
  <2>2. Hello \in r.seen /\ Note \in r.seen
    BY <2>1 DEF GreetedBy, NotedBy
  <2> QED BY <1>5, <2>2, ConnFields DEF l
<1>6. Orderly(r) => Orderly(q)
  BY <1>4, <1>5 DEF Orderly, l
<1> QED BY <1>3, <1>6 DEF Follows

LEMMA QuietProgress ==
  ASSUME TypeOK, Quiet \/ \E c \in Conns : Reads(c)
  PROVE  Progress
<1>1. CASE Quiet
  BY <1>1, SameFollows DEF Quiet, Same, Progress
<1>2. ASSUME NEW c \in Conns, Reads(c) PROVE Progress
  <2>1. \A d \in Conns : /\ conns'[d].in = conns[d].in /\ conns'[d].seen = conns[d].seen
                         /\ conns'[d].line = conns[d].line /\ conns'[d].stage = conns[d].stage
    BY <1>2 DEF Reads, Changes
  <2> QED BY <2>1, SameFollows DEF Progress
<1> QED BY <1>1, <1>2

LEMMA HandlerProgress ==
  ASSUME TypeOK, NEW c \in Conns, Handler(c)
  PROVE  Progress
<1>1. CASE Quiet
  BY <1>1, QuietProgress
<1>2. CASE Changes(c)
  <2>1. \A d \in Conns : d # c => Follows(conns[d], conns'[d])
    BY <1>2, SameFollows DEF Changes
  <2>2. ~Quiet => Follows(conns[c], conns'[c])
    <3>1. conns[c] \in Conn /\ conns'[c] \in Conn
      BY <1>2, TypesSplit DEF Changes
    <3> QED BY <3>1, HandlerEffect, TakeFollows, SameFollows
  <2> QED BY <1>1, <2>1, <2>2 DEF Progress
<1> QED BY <1>1, <1>2, HandlerEffect

\* A broken or a kept connection changes nothing that was said on it.
LEMMA KeptHandshake ==
  ASSUME TypeOK, Locking, Handshaken, Progress,
         UNCHANGED <<sent, closing, haveInit, initedNote, fa>>,
         \/ UNCHANGED <<cs, conn>>
         \/ conn' = 0 /\ cs' \in {"dial", "none"}
  PROVE  Handshaken'
<1>1. Remembers'
  BY DEF Handshaken, Remembers
<1>2. \A c \in Conns : Orderly(conns'[c]) /\ (Greeted(conns[c]) => Greeted(conns'[c]))
                       /\ (Noted(conns[c]) => Noted(conns'[c]))
  BY DEF Handshaken, Progress, Follows
<1>3. Replayed'
  <2>1. CASE conn' = 0 /\ cs' \in {"dial", "none"}
    BY <2>1 DEF Replayed
  <2>2. CASE UNCHANGED <<cs, conn>>
    <3>1. conn # 0 => conn \in Conns
      BY DEF TypeOK
    <3>2. cs \in {"await", "note"} => conn \in Conns
      BY <3>1 DEF Locking
    <3> QED BY <1>2, <2>2, <3>1, <3>2 DEF Handshaken, Replayed
  <2> QED BY <2>1, <2>2
<1> QED BY <1>1, <1>2, <1>3 DEF Handshaken

LEMMA AgentHandshake ==
  ASSUME TypeOK, Handshaken, AgentStep
  PROVE  Handshaken'
<1>1. UNCHANGED <<conns, cs, conn, closing, haveInit, initedNote>> /\ sent \in Nat
  BY DEF AgentStep, hostVars, TypeOK
<1>2. Remembers'
  BY <1>1 DEF AgentStep, Agent, Handshaken, Remembers, TypeOK
<1>3. Replayed'
  <2>1. fa.at # "try" /\ fa'.at # "try"
    BY DEF AgentStep, Agent, TypeOK
  <2> QED BY <1>1, <2>1 DEF Handshaken, Replayed
<1> QED BY <1>1, <1>2, <1>3 DEF Handshaken

\* A new connection starts with the handshake, if the agent made one.
LEMMA DialHandshake ==
  ASSUME TypeOK, Handshaken, Dial
  PROVE  Handshaken'
<1>1. /\ br' \in Conns /\ conn' = br' /\ Changes(br') /\ conns'[br'].stage = "queued"
      /\ conns'[br'].in = IF haveInit THEN <<Reinit>> ELSE <<>>
  BY Dialled
<1>2. /\ UNCHANGED <<sent, closing, haveInit, initedNote, fa>>
      /\ cs' = IF haveInit THEN "await" ELSE "none"
  BY DEF Dial, Connected, agentVars
<1>3. haveInit => Greeted(conns'[br'])
  <2>1. haveInit => conns'[br'].in[1] = Reinit /\ 1 \in DOMAIN conns'[br'].in
    BY <1>1
  <2> QED BY <2>1 DEF Greeted, Opening, Elements
<1>4. Orderly(conns'[br'])
  <2>1. \A n \in DOMAIN conns'[br'].in : conns'[br'].in[n] = Reinit
    BY <1>1
  <2> QED BY <1>1, <2>1 DEF Orderly, IsCall, Reinit, Note
<1>5. Remembers' /\ Replayed'
  BY <1>1, <1>2, <1>3 DEF Handshaken, Remembers, Replayed
<1> QED BY <1>1, <1>4, <1>5 DEF Handshaken, Changes

\* Once the lock is given up for good, nothing is promised.
LEMMA FailHandshake ==
  ASSUME TypeOK, Handshaken, failLocked, UNCHANGED <<sent, haveInit, initedNote>>
  PROVE  Handshaken'
<1>1. conns' = Hangup(conn) /\ conn' = 0 /\ cs' = "none" /\ closing' = TRUE
  BY DEF failLocked
<1>2. \A c \in Conns : Orderly(conns'[c])
  BY <1>1, HangupQuiet, QuietProgress DEF Progress, Follows, Handshaken
<1> QED BY <1>1, <1>2 DEF Handshaken, Remembers, Replayed

LEMMA ReplayHandshake ==
  ASSUME TypeOK, Locking, Handshaken, ReplayAnswered \/ ReplayNote
  PROVE  Handshaken'
<1>1. conn \in Conns /\ Greeted(conns[conn])
  BY DEF ReplayAnswered, ReplayNote, Locking, TypeOK, Handshaken, Replayed
<1>2. UNCHANGED <<sent, closing, haveInit, initedNote, fa, conn>>
  BY DEF ReplayAnswered, ReplayNote, agentVars
<1>3. Remembers'
  BY <1>2 DEF Handshaken, Remembers
<1>4. CASE ReplayAnswered
  <2>1. Progress
    BY <1>1, <1>4, LineRead, QuietProgress DEF ReplayAnswered
  <2>2. cs' = IF initedNote THEN "note" ELSE "none"
    BY <1>4 DEF ReplayAnswered, Connected
  <2> QED BY <1>1, <1>2, <1>3, <2>1, <2>2 DEF Handshaken, Replayed, Progress, Follows
<1>5. CASE ReplayNote
  <2>1. Writes(conn, Note) /\ cs' = "none"
    <3>1. Note \in Int
      BY DEF Note
    <3> QED BY <1>1, <1>5, <3>1, LineWritten DEF ReplayNote, Connected
  <2>2. Follows(conns[conn], conns'[conn]) /\ Noted(conns'[conn])
    BY <1>1, <2>1, TypesSplit, AppendFollows DEF Writes, Changes, IsCall, Note
  <2>3. \A c \in Conns : Orderly(conns'[c])
    BY <2>1, <2>2 DEF Writes, Changes, Handshaken, Follows
  <2> QED BY <1>1, <1>2, <1>3, <2>1, <2>2, <2>3 DEF Handshaken, Replayed, Follows
<1> QED BY <1>4, <1>5

\* What forward holds it remembers.
LEMMA LockHandshake ==
  ASSUME TypeOK, Locking, Books, Handshaken, ForwardLocks
  PROVE  Handshaken'
<1>1. UNCHANGED <<conns, sent, closing, conn, cs>> /\ fa'.line = fa.line /\ fa.at = "lock"
      /\ fa.line = sent - 1 /\ sent \in Nat
  BY DEF ForwardLocks, hostVars, agentVars, TypeOK, Books, Unsent
<1>2. CASE closing
  BY <1>1, <1>2 DEF ForwardLocks, Handshaken, Remembers, Replayed, TypeOK
<1>3. CASE ~closing
  <2>1. /\ fa'.at = "try" /\ haveInit' = (haveInit \/ fa.line = Hello)
        /\ initedNote' = (initedNote \/ fa.line = Note)
    BY <1>3 DEF ForwardLocks, TypeOK
  <2>2. Remembers'
    <3>1. /\ sent > 1 => haveInit
          /\ sent > 2 => initedNote
          /\ initedNote => haveInit
      BY <1>1, <1>3 DEF Handshaken, Remembers
    <3>2. /\ sent = 1 => fa.line = Hello
          /\ sent = 2 <=> fa.line = Note
          /\ sent = 2 => sent > 1
      BY <1>1 DEF Hello, Note
    <3>3. /\ sent > 1 \/ sent = 1 => haveInit'
          /\ sent > 2 \/ sent = 2 => initedNote'
          /\ initedNote' => haveInit'
      BY <2>1, <3>1, <3>2
    <3> QED BY <1>1, <3>3 DEF Remembers
  <2>3. Replayed'
    BY <1>1, <2>1 DEF Handshaken, Replayed
  <2> QED BY <1>1, <2>2, <2>3 DEF Handshaken
<1> QED BY <1>2, <1>3

\* A call is written where the handshake was.
LEMMA WriteHandshake ==
  ASSUME TypeOK, Locking, Books, Handshaken, ForwardWrites
  PROVE  Handshaken'
<1>1. /\ UNCHANGED <<sent, closing, conn, cs, haveInit, initedNote>> /\ fa'.at = "read"
      /\ fa.at = "try" /\ cs = "none" /\ conn \in Conns /\ conn # 0 /\ fa.line \in Int
      /\ fa.line = sent - 1 /\ sent \in Nat /\ ~closing
  BY DEF ForwardWrites, Writable, Locking, agentVars, TypeOK, Books, Unsent, Lines, Hello, Note,
         Conns
<1>2. Writes(conn, fa.line)
  BY <1>1, LineWritten DEF ForwardWrites
<1>3. /\ haveInit /\ fa.line # Hello => Greeted(conns[conn])
      /\ initedNote /\ fa.line # Note => Noted(conns[conn])
  BY <1>1 DEF Handshaken, Replayed
<1>4. IsCall(fa.line) => Greeted(conns[conn]) /\ Noted(conns[conn])
  BY <1>1, <1>3 DEF IsCall, Handshaken, Remembers, Hello, Note
<1>5. /\ Follows(conns[conn], conns'[conn])
      /\ fa.line = Hello => Greeted(conns'[conn])
      /\ fa.line = Note => Noted(conns'[conn])
  BY <1>1, <1>2, <1>4, TypesSplit, AppendFollows DEF Writes, Changes, Opening
<1>6. Remembers'
  BY <1>1 DEF Handshaken, Remembers
<1>7. Replayed'
  BY <1>1, <1>3, <1>5 DEF Replayed, Follows
<1>8. \A c \in Conns : Orderly(conns'[c])
  BY <1>2, <1>5 DEF Writes, Changes, Handshaken, Follows
<1> QED BY <1>6, <1>7, <1>8 DEF Handshaken

LEMMA OtherHandshake ==
  ASSUME TypeOK, Locking, Handshaken,
         ForwardConnects \/ ForwardRetries \/ closeInput \/ fromHost
  PROVE  Handshaken'
<1>1. CASE ForwardConnects
  BY <1>1, HangupQuiet, QuietProgress, KeptHandshake
     DEF ForwardConnects, ConnectBegins, agentVars
<1>2. CASE ForwardRetries
  <2>1. conns' = Hangup(conn) /\ conn' = 0 /\ cs' = cs /\ cs = "none"
        /\ UNCHANGED <<sent, closing, haveInit, initedNote>>
    BY <1>2 DEF ForwardRetries, agentVars
  <2>2. fa'.at = fa.at /\ fa'.line = fa.line
    BY <1>2 DEF ForwardRetries, TypeOK
  <2>3. Progress
    BY <2>1, HangupQuiet, QuietProgress
  <2> QED BY <2>1, <2>2, <2>3 DEF Handshaken, Remembers, Replayed, Progress, Follows
<1>3. CASE closeInput
  <2>1. /\ closing' = TRUE /\ UNCHANGED <<sent, conn, cs, haveInit, initedNote>>
        /\ fa.at # "try" /\ fa'.at # "try" /\ cs = "none"
    BY <1>3 DEF closeInput, agentVars, TypeOK, Locking
  <2>2. Progress /\ (conn # 0 => conn \in Conns)
    BY <1>3, HalfClosed, QuietProgress DEF TypeOK
  <2> QED BY <2>1, <2>2 DEF Handshaken, Remembers, Replayed, Progress, Follows
<1>4. CASE FromHostStarts \/ deliver
  <2>1. Quiet /\ UNCHANGED <<sent, closing, haveInit, initedNote, fa, cs, conn>>
    BY <1>4 DEF FromHostStarts, deliver, hostVars, agentVars, Quiet, Same, TypeOK, HostTypeOK
  <2> QED BY <2>1, QuietProgress, KeptHandshake
<1>5. CASE FromHostReads
  <2>1. UNCHANGED <<sent, closing, haveInit, initedNote, fa, cs, conn>> /\ fh.br \in Conns
    BY <1>5 DEF FromHostReads, agentVars, Locking, TypeOK
  <2>2. CASE conns' = conns
    BY <2>1, <2>2, QuietProgress, KeptHandshake DEF Quiet, Same, TypeOK, HostTypeOK
  <2>3. CASE conns' # conns
    BY <1>5, <2>1, <2>3, LineRead, QuietProgress, KeptHandshake DEF FromHostReads
  <2> QED BY <2>2, <2>3
<1>6. CASE FromHostChecks
  <2>1. UNCHANGED <<sent, closing, haveInit, initedNote, fa>>
    BY <1>6 DEF FromHostChecks, agentVars
  <2>2. CASE closing \/ br # fh.br
    <3>1. Quiet /\ UNCHANGED <<cs, conn>>
      BY <1>6, <2>2 DEF FromHostChecks, Quiet, Same, TypeOK, HostTypeOK
    <3> QED BY <2>1, <3>1, QuietProgress, KeptHandshake
  <2>3. CASE ~(closing \/ br # fh.br)
    BY <1>6, <2>1, <2>3, HangupQuiet, QuietProgress, KeptHandshake
       DEF FromHostChecks, ConnectBegins
  <2> QED BY <2>2, <2>3
<1> QED BY <1>1, <1>2, <1>3, <1>4, <1>5, <1>6 DEF fromHost

-----------------------------------------------------------------------------
(* The tokens                                                               *)

\* The next token is larger than every token a session was given.
LEMMA NewToken ==
  ASSUME TypeOK, NEW k \in Keys
  PROVE  minted[k] < 1 + Cardinality({t \in Tokens : \E j \in Keys : t <= minted[j]})
<1> DEFINE S == {t \in Tokens : \E j \in Keys : t <= minted[j]}
           m == minted[k]
<1>1. m \in Nat /\ MaxTokens \in Nat /\ m <= MaxTokens
  BY HostAssumption DEF TypeOK, HostTypeOK, Tokens
<1>2. IsFiniteSet(Tokens)
  BY <1>1, FS_Interval DEF Tokens
<1>3. IsFiniteSet(S) /\ Cardinality(S) \in Nat
  BY <1>2, FS_Subset, FS_CardinalityType
<1>4. 1..m \subseteq S
  BY <1>1 DEF Tokens
<1>5. Cardinality(1..m) = m
  BY <1>1, FS_Interval
<1>6. Cardinality(1..m) <= Cardinality(S)
  BY <1>3, <1>4, FS_Subset
<1> QED BY <1>1, <1>3, <1>5, <1>6

\* What SeedTokens and New make of a table without duplicates.
LEMMA Seeded ==
  ASSUME NEW keys \in [Keys -> Tokens \cup {0}],
         \A j, k \in Keys : keys[j] = keys[k] /\ keys[k] # 0 => j = k
  PROVE  Paired(keys, [t \in Tokens |-> IF \E k \in Keys : keys[k] = t
                                        THEN CHOOSE k \in Keys : keys[k] = t ELSE None])
<1> SUFFICES ASSUME NEW k \in Keys, NEW t \in Tokens
             PROVE  (IF \E j \in Keys : keys[j] = t THEN CHOOSE j \in Keys : keys[j] = t
                     ELSE None) = k <=> keys[k] = t
  BY DEF Paired
<1>1. t # 0
  BY DEF Tokens
<1>2. CASE \E j \in Keys : keys[j] = t
  <2> DEFINE c == CHOOSE j \in Keys : keys[j] = t
  <2>1. c \in Keys /\ keys[c] = t
    BY <1>2
  <2> HIDE DEF c
  <2>2. keys[k] = t => c = k
    BY <1>1, <2>1
  <2> QED BY <1>2, <2>1, <2>2 DEF c
<1>3. CASE ~\E j \in Keys : keys[j] = t
  BY <1>3, HostAssumption
<1> QED BY <1>2, <1>3

LEMMA RegisterMinted ==
  ASSUME TypeOK, Minted, NEW key \in Keys, Register(key)
  PROVE  Minted'
<1> DEFINE tok == 1 + Cardinality({t \in Tokens : \E k \in Keys : t <= minted[k]})
<1>1. /\ tok \in Tokens /\ Bound(tok, key) /\ minted' = [minted EXCEPT ![key] = tok]
      /\ late' = (IF exported THEN late \cup {key} ELSE late \ {key})
      /\ UNCHANGED <<image, exported, blob>>
      /\ image \in {"listening", "closing", "draining", "closed"}
  BY DEF Register
<1>2. \A k \in Keys : minted[k] < tok
  BY NewToken
<1> HIDE DEF tok
<1>3. tok \in Nat /\ \A k \in Keys : minted[k] \in Nat /\ byKey[k] \in Nat /\ blob[k] \in Nat
  BY <1>1 DEF TypeOK, HostTypeOK, Tokens
<1>4. \A k \in Keys : /\ minted'[k] = IF k = key THEN tok ELSE minted[k]
                      /\ byKey'[k] = IF k = key THEN tok ELSE byKey[k]
  BY <1>1 DEF Bound, TypeOK, HostTypeOK
<1>5. \A k \in Keys : byKey'[k] <= minted'[k] /\ blob'[k] <= minted'[k]
  BY <1>1, <1>2, <1>3, <1>4 DEF Minted
<1>6. \A k \in Keys : byKey[k] # tok
  BY <1>2, <1>3 DEF Minted
<1>7. Paired(byKey', byToken')
  <2> SUFFICES ASSUME NEW k \in Keys, NEW t \in Tokens PROVE byToken'[t] = k <=> byKey'[k] = t
    BY DEF Paired
  <2>1. byToken'[t] = IF t = tok THEN key ELSE IF t = byKey[key] THEN None ELSE byToken[t]
    BY <1>1 DEF Bound
  <2>2. \A j \in Keys : byToken[t] = j <=> byKey[j] = t
    BY <1>1 DEF Minted, Paired
  <2>3. k # None
    BY HostAssumption
  <2> QED BY <1>4, <1>6, <2>1, <2>2, <2>3
<1>8. \A k \in Keys \ late' : byKey'[k] = minted'[k]
  BY <1>1, <1>4 DEF Minted
<1>9. exported' \/ image' \in {"new", "dead"} => \A k \in Keys \ late' : blob'[k] = minted'[k]
  BY <1>1, <1>4 DEF Minted
<1> QED BY <1>1, <1>5, <1>7, <1>8, <1>9 DEF Minted

LEMMA ImageMinted ==
  ASSUME TypeOK, Minted, Image
  PROVE  Minted'
<1>1. CASE ExportTokens
  <2>1. \A j, k \in Keys : byKey[j] = byKey[k] /\ byKey[k] # 0 => j = k
    BY <1>1 DEF ExportTokens, Minted, Paired, TypeOK, HostTypeOK
  <2> QED BY <1>1, <2>1 DEF ExportTokens, registry, Minted
<1>2. CASE shutdown \/ ShutdownDrops \/ ShutdownWaits
  BY <1>2 DEF shutdown, ShutdownDrops, ShutdownWaits, registry, Minted
<1>3. CASE Exec
  <2>1. /\ image = "closed" /\ image' = "new" /\ exported' = FALSE
        /\ UNCHANGED <<blob, minted, late>>
        /\ \A k \in Keys : byKey'[k] = 0
    BY <1>3 DEF Exec, NewImage
  <2>2. \A k \in Keys : minted[k] \in Nat
    BY DEF TypeOK, HostTypeOK, Tokens
  <2>3. \A k \in Keys : byKey'[k] <= minted'[k] /\ blob'[k] <= minted'[k]
    BY <2>1, <2>2 DEF Minted
  <2>4. \A k \in Keys \ late' : blob'[k] = minted'[k]
    BY <2>1 DEF Minted
  <2>5. \A j, k \in Keys : blob'[j] = blob'[k] /\ blob'[k] # 0 => j = k
    BY <2>1 DEF Minted
  <2> QED BY <2>1, <2>3, <2>4, <2>5 DEF Minted
<1>4. CASE HostDies
  <2>1. /\ image' = "dead" /\ exported' = FALSE /\ minted' = minted
        /\ late' = {k \in Keys : minted[k] # 0}
        /\ \A k \in Keys : byKey'[k] = 0 /\ blob'[k] = 0
    BY <1>4 DEF HostDies, NewImage
  <2>2. \A k \in Keys : minted[k] \in Nat
    BY DEF TypeOK, HostTypeOK, Tokens
  <2>3. \A k \in Keys : byKey'[k] <= minted'[k] /\ blob'[k] <= minted'[k]
    BY <2>1, <2>2
  <2>4. \A k \in Keys \ late' : blob'[k] = minted'[k]
    BY <2>1
  <2>5. \A j, k \in Keys : blob'[j] = blob'[k] /\ blob'[k] # 0 => j = k
    BY <2>1
  <2> QED BY <2>1, <2>3, <2>4, <2>5 DEF Minted
<1>5. CASE Listen
  <2>1. Paired(byKey', byToken')
    BY <1>5, Seeded DEF Listen, SeedTokens, Minted, TypeOK, HostTypeOK
  <2> QED BY <1>5, <2>1 DEF Listen, SeedTokens, Minted
<1> QED BY <1>1, <1>2, <1>3, <1>4, <1>5 DEF Image

-----------------------------------------------------------------------------
(* The invariant                                                            *)

LEMMA InitIInv == Init => IInv
<1> SUFFICES ASSUME Init PROVE IInv
  OBVIOUS
<1> DEFINE tokens == [k \in Keys |-> IF k = Key THEN 1 ELSE 0]
<1>1. 1 \in Tokens /\ tokens \in [Keys -> Tokens \cup {0}]
  BY HostAssumption DEF Tokens
<1>2. HostInit(tokens)
  BY DEF Init
<1>3. NoConn \in Conn
  BY DEF NoConn, Conn, Note
<1> HIDE DEF tokens
<1>4. RegistryTypes /\ conns \in [Conns -> Conn]
  <2>1. \A t \in Tokens : (\E k \in Keys : tokens[k] = t) =>
                              (CHOOSE k \in Keys : tokens[k] = t) \in Keys
    OBVIOUS
  <2>2. byToken \in [Tokens -> Keys \cup {None}]
    BY <1>2, <2>1 DEF HostInit
  <2> QED BY <1>1, <1>2, <1>3, <2>2 DEF HostInit, RegistryTypes
<1>5. ProxyTypes /\ runs \in [Requests -> Nat]
  <2>1. Note \in Lines /\ Note \in Int /\ 0 \in 0..(Calls + 2)
    BY ProxyAssumption DEF Note, Lines, Hello
  <2>2. answers \in [Requests -> Seq({"result", "error"})]
    BY DEF Init
  <2>3. fa \in [at : {"read", "lock", "try", "done"}, line : Lines, attempt : 0 .. 2]
    BY <2>1 DEF Init
  <2>4. fh \in [at : {"start", "read", "got", "check", "connect", "done"},
                br : Conns \cup {0}, line : Int]
    BY <2>1 DEF Init
  <2>5. /\ {eof, closing, haveInit, initedNote} \subseteq BOOLEAN
        /\ {conn, br} \subseteq Conns \cup {0} /\ conn \in {0, br}
        /\ mu \in {"free", "agent", "host"} /\ cs \in {"none", "dial", "await", "note"}
        /\ pending \subseteq Requests /\ token \in Tokens /\ sent \in 0 .. Calls + 2
    BY <1>1, <2>1 DEF Init
  <2>6. runs \in [Requests -> Nat]
    BY DEF Init
  <2> QED BY <2>2, <2>3, <2>4, <2>5, <2>6 DEF ProxyTypes
<1>6. TypeOK
  BY <1>4, <1>5, TypesSplit
<1>7. Locking
  BY DEF Init, Locking
<1>8. \A c \in Conns : /\ conns[c].in = <<>> /\ conns[c].out = <<>> /\ conns[c].stage = "none"
                       /\ Elements(conns[c].in) = {} /\ Elements(conns[c].out) = {}
  <2>1. Elements(<<>>) = {}
    BY DEF Elements
  <2> QED BY <1>2, <2>1 DEF HostInit, NoConn
<1>9. Books
  <2>1. /\ fa.at = "read" /\ fh.at = "connect" /\ pending = {}
        /\ \A i \in Requests : runs[i] = 0 /\ answers[i] = <<>>
    BY DEF Init
  <2>2. Unsent
    BY <1>8, <2>1 DEF Unsent, Fresh
  <2>3. OnePlace
    BY <1>8 DEF OnePlace
  <2>4. Earned
    BY <1>8, <2>1 DEF Earned
  <2>5. Replies
    BY <2>1 DEF Replies
  <2> QED BY <2>2, <2>3, <2>4, <2>5 DEF Books
<1>10. Handshaken
  BY <1>8 DEF Init, Handshaken, Remembers, Replayed, Orderly
<1>11. Minted
  <2>1. Paired(byKey, byToken)
    BY <1>1, <1>2, Seeded DEF HostInit, tokens
  <2> QED BY <1>1, <1>2, <2>1 DEF HostInit, Minted, tokens
<1> QED BY <1>6, <1>7, <1>9, <1>10, <1>11 DEF IInv

\* The redirector and its agent.
LEMMA ProxyStep ==
  ASSUME IInv, AgentStep \/ Connect \/ fromAgent \/ fromHost
  PROVE  IInv'
<1> USE DEF IInv
<1>1. ProxyTypes' /\ Locking'
  BY AgentStepTypes, DialTypes, ConnectFailsTypes, ReplayAnsweredTypes, ReplayNoteTypes,
     ForwardLocksTypes, ForwardConnectsTypes, ForwardWritesTypes, ForwardRetriesTypes,
     ForwardFailsTypes, closeInputTypes, FromHostStartsTypes, FromHostReadsTypes, deliverTypes,
     FromHostChecksTypes DEF Connect, fromAgent, forward, fromHost
<1>2. Books'
  BY ProxyBooks, AgentBooks, DialBooks, WriteBooks DEF Connect, fromAgent, forward
<1>3. Handshaken'
  <2>1. CASE ConnectFails \/ ForwardFails
    BY <2>1, FailHandshake DEF ConnectFails, ForwardFails, agentVars
  <2> QED BY <2>1, AgentHandshake, DialHandshake, ReplayHandshake, LockHandshake, WriteHandshake,
             OtherHandshake DEF Connect, fromAgent, forward
<1>4. UNCHANGED hostButConns /\ runs' = runs
  BY DEF AgentStep, Connect, fromAgent, forward, fromHost, Dial, ConnectFails, ReplayAnswered,
         ReplayNote, ForwardLocks, ForwardConnects, ForwardWrites, ForwardRetries, ForwardFails,
         closeInput, FromHostStarts, FromHostReads, deliver, FromHostChecks, hostVars, hostButConns
<1>5. Minted'
  BY <1>4 DEF Minted, hostButConns, registry
<1>6. conns' \in [Conns -> Conn]
  <2>1. CASE conns' = conns
    BY <2>1, TypesSplit
  <2>2. CASE Quiet
    BY <2>2 DEF Quiet
  <2>3. ASSUME NEW c \in Conns, Changes(c) PROVE conns' \in [Conns -> Conn]
    BY <2>3 DEF Changes
  <2>4. CASE AgentStep \/ ForwardLocks \/ FromHostStarts \/ deliver
    BY <2>1, <2>4 DEF AgentStep, ForwardLocks, FromHostStarts, deliver, hostVars
  <2>5. CASE ConnectFails \/ ForwardFails \/ ForwardConnects \/ ForwardRetries \/ FromHostChecks
    BY <2>1, <2>2, <2>5, HangupQuiet DEF ConnectFails, ForwardFails, failLocked,
       ForwardConnects, ConnectBegins, ForwardRetries, FromHostChecks
  <2>6. CASE Dial \/ closeInput
    BY <2>2, <2>3, <2>6, Dialled, HalfClosed
  <2>7. CASE ReplayAnswered
    <3>1. conn \in Conns /\ Reads(conn)
      BY <2>7, LineRead DEF ReplayAnswered, Locking, TypeOK
    <3> QED BY <2>3, <3>1 DEF Reads
  <2>8. CASE FromHostReads
    <3>1. fh.br \in Conns
      BY <2>8 DEF FromHostReads, Locking, TypeOK
    <3> QED BY <2>1, <2>3, <2>8, <3>1, LineRead DEF Reads, FromHostReads
  <2>9. CASE ReplayNote \/ ForwardWrites
    <3>1. conn \in Conns /\ Note \in Int /\ fa.line \in Int
      BY <2>9 DEF ReplayNote, ForwardWrites, Writable, TypeOK, Lines, Hello, Note
    <3>2. Writes(conn, Note) \/ Writes(conn, fa.line)
      BY <2>9, <3>1, LineWritten DEF ReplayNote, ForwardWrites
    <3> QED BY <2>3, <3>1, <3>2 DEF Writes
  <2> QED BY <2>4, <2>5, <2>6, <2>7, <2>8, <2>9 DEF Connect, fromAgent, forward, fromHost
<1>7. TypeOK'
  <2>1. RegistryTypes'
    <3>1. RegistryTypes
      BY TypesSplit
    <3> QED BY <1>4, <3>1 DEF RegistryTypes, hostButConns, registry
  <2>2. runs' \in [Requests -> Nat]
    BY <1>4, TypesSplit
  <2> QED BY <1>1, <1>6, <2>1, <2>2 DEF TypeOK, HostTypeOK, RegistryTypes, ProxyTypes
<1> QED BY <1>1, <1>2, <1>3, <1>5, <1>7

\* The host, between the redirector's steps.
LEMMA HostPart ==
  ASSUME IInv, HostStep
  PROVE  IInv'
<1> USE DEF IInv
<1>1. UNCHANGED proxyRest
  BY DEF HostStep
<1>2. ProxyTypes' /\ Locking'
  <2>1. ProxyTypes
    BY TypesSplit
  <2>2. ProxyTypes'
    BY <1>1, <2>1 DEF proxyRest, proxy, ProxyTypes
  <2> QED BY <1>1, <2>2 DEF proxyRest, proxy, Locking
<1>3. /\ UNCHANGED <<sent, closing, haveInit, initedNote, fa, cs, conn>>
      /\ Holds /\ Settles /\ Got
  BY <1>1 DEF proxyRest, proxy, Holds, Settles, Got, TypeOK
<1>4. ASSUME Image \/ (\E k \in Keys : Register(k)), runs' = runs
      PROVE  IInv'
  <2>1. Quiet
    BY <1>4, HostQuiet
  <2>2. Books' /\ Handshaken'
    BY <1>3, <1>4, <2>1, QuietFewer, KeptBooks, QuietProgress, KeptHandshake
  <2>3. Minted'
    BY <1>4, RegisterMinted, ImageMinted
  <2>4. RegistryTypes'
    BY <1>4, RegistryStep, TypesSplit
  <2>5. conns' \in [Conns -> Conn] /\ runs' \in [Requests -> Nat]
    BY <1>4, <2>1, TypesSplit DEF Quiet
  <2>6. TypeOK'
    BY <1>2, <2>4, <2>5 DEF TypeOK, HostTypeOK, RegistryTypes, ProxyTypes
  <2> QED BY <1>2, <2>2, <2>3, <2>6
<1>5. ASSUME NEW c \in Conns, Handler(c),
             runs' = [i \in Requests |-> IF conns[c].stage = "mcp" /\ conns'[c].stage = "running"
                                            /\ conns'[c].line = i
                                         THEN runs[i] + 1 ELSE runs[i]]
      PROVE  IInv'
  <2>1. Books' /\ runs' \in [Requests -> Nat]
    BY <1>1, <1>5, HandlerBooks
  <2>2. Handshaken'
    BY <1>3, <1>5, HandlerProgress, KeptHandshake
  <2>3. UNCHANGED hostRest
    BY <1>5 DEF Handler, Accept, Preamble, TakeLine, Reply, HandlerEnds
  <2>4. Minted'
    BY <2>3 DEF Minted, hostRest, registry
  <2>5. RegistryTypes'
    <3>1. RegistryTypes
      BY TypesSplit
    <3> QED BY <2>3, <3>1 DEF RegistryTypes, hostRest, registry
  <2>6. conns' \in [Conns -> Conn]
    BY <1>5, HandlerEffect DEF Quiet, Changes
  <2>7. TypeOK'
    BY <1>2, <2>1, <2>5, <2>6 DEF TypeOK, HostTypeOK, RegistryTypes, ProxyTypes
  <2> QED BY <1>2, <2>1, <2>2, <2>4, <2>7
<1> QED BY <1>4, <1>5 DEF HostStep

LEMMA Step == IInv /\ [Next]_vars => IInv'
<1> SUFFICES ASSUME IInv, [Next]_vars PROVE IInv'
  OBVIOUS
<1>1. CASE HostStep
  BY <1>1, HostPart
<1>2. CASE AgentStep \/ Connect \/ fromAgent \/ fromHost
  BY <1>2, ProxyStep
<1>3. CASE UNCHANGED vars
  <2> USE <1>3 DEF vars, hostVars, registry, proxy
  <2>1. TypeOK'
    BY DEF IInv, TypeOK, HostTypeOK
  <2>2. Locking'
    BY DEF IInv, Locking
  <2>3. Books'
    BY DEF IInv, Books, Unsent, OnePlace, Earned, Replies, Fresh
  <2>4. Handshaken'
    BY DEF IInv, Handshaken, Remembers, Replayed, Orderly
  <2>5. Minted'
    BY DEF IInv, Minted
  <2> QED BY <2>1, <2>2, <2>3, <2>4, <2>5 DEF IInv
<1> QED BY <1>1, <1>2, <1>3 DEF Next

\* The lock, the requests, the handshake and the tokens are as IInv says in
\* every state (redir.go, mcphost.go).
THEOREM Invariance == Spec => []IInv
<1>1. Init => IInv
  BY InitIInv
<1>2. IInv /\ [Next]_vars => IInv'
  BY Step
<1> QED BY <1>1, <1>2, PTL DEF Spec

\* A call is carried only by a connection that carried the handshake, and a
\* listening host resolves exactly the tokens its sessions were given last,
\* for any number of connections, images and deaths (redir.go:134,
\* mcphost.go SeedTokens).
THEOREM SessionOutlives == Spec => []SessionSurvives
<1>1. IInv => SessionSurvives
  <2> SUFFICES ASSUME IInv PROVE SessionSurvives
    OBVIOUS
  <2>1. HandshakeFirst
    BY DEF IInv, Handshaken, Orderly, HandshakeFirst
  <2>2. TokensSurvive
    BY DEF IInv, Minted, Paired, TokensSurvive
  <2> QED BY <2>1, <2>2 DEF SessionSurvives
<1> QED BY <1>1, Invariance, PTL

-----------------------------------------------------------------------------
(* The promise of RequestReply                                              *)

Asked == {i \in Requests : i < sent}
Given == [i \in Requests |-> IF answers[i] = <<>> THEN "none"
                             ELSE IF Len(answers[i]) = 1 THEN answers[i][1] ELSE "twice"]
Stopped == fh.at = "done"

\* Nothing the agent can tell changes.
Unseen == UNCHANGED <<sent, answers, runs, Stopped>>

LEMMA UnseenStutters == Unseen => UNCHANGED Promise!vars
  BY DEF Unseen, Stopped, Promise!vars

\* How an answer is seen through the mapping.
LEMMA GivenTo ==
  ASSUME NEW i \in Requests
  PROVE  /\ answers[i] = <<>> => Given[i] = "none"
         /\ answers[i] = <<"result">> => Given[i] = "result"
         /\ answers[i] = <<"error">> => Given[i] = "error"
         /\ answers'[i] = <<>> => Given'[i] = "none"
         /\ answers'[i] = <<"result">> => Given'[i] = "result"
         /\ answers'[i] = <<"error">> => Given'[i] = "error"
         /\ answers'[i] = answers[i] => Given'[i] = Given[i]
<1>1. \A a \in {"result", "error"} :
         <<a>> # <<>> /\ Len(<<a>>) = 1 /\ <<a>>[1] = a
  OBVIOUS
<1>2. Given[i] = IF answers[i] = <<>> THEN "none"
                 ELSE IF Len(answers[i]) = 1 THEN answers[i][1] ELSE "twice"
  BY DEF Given
<1>3. Given'[i] = IF answers'[i] = <<>> THEN "none"
                  ELSE IF Len(answers'[i]) = 1 THEN answers'[i][1] ELSE "twice"
  BY DEF Given
<1>4. answers[i] = <<>> => Given[i] = "none"
  BY <1>2
<1>5. answers'[i] = <<>> => Given'[i] = "none"
  BY <1>3
<1>6. \A a \in {"result", "error"} : answers[i] = <<a>> => Given[i] = a
  BY <1>1, <1>2
<1>7. \A a \in {"result", "error"} : answers'[i] = <<a>> => Given'[i] = a
  BY <1>1, <1>3
<1>8. answers'[i] = answers[i] => Given'[i] = Given[i]
  BY <1>2, <1>3
<1> QED BY <1>4, <1>5, <1>6, <1>7, <1>8

\* What is in flight was asked and has no answer.
LEMMA InFlight ==
  ASSUME IInv, NEW i \in pending
  PROVE  i \in Asked /\ Given[i] = "none" /\ i \in Requests
<1>1. i \in Requests /\ answers[i] = <<>>
  BY DEF IInv, TypeOK, Books, Replies
<1>2. ~(i >= sent)
  BY <1>1 DEF IInv, Books, Unsent, Fresh
<1>3. i \in Int /\ sent \in Int
  BY <1>1 DEF IInv, TypeOK, Requests, Lines, Hello, Note
<1> QED BY <1>1, <1>2, <1>3, GivenTo DEF Asked

\* A connection that is given up fails what is in flight.
LEMMA FailedBreaks ==
  ASSUME IInv, failPendingLocked, UNCHANGED <<sent, runs>>, ~Stopped
  PROVE  Promise!Break
<1>1. \A i \in pending : answers'[i] = <<"error">> /\ i \in Requests
  <2>1. \A i \in pending : i \in Requests /\ answers[i] = <<>>
    BY DEF IInv, TypeOK, Books, Replies
  <2> QED BY <2>1, Failed DEF IInv
<1>2. \A i \in Requests \ pending : answers'[i] = answers[i]
  BY Failed DEF IInv
<1>3. Given' = [i \in Requests |-> IF i \in pending THEN "error" ELSE Given[i]]
  <2>1. \A i \in Requests : Given'[i] = IF i \in pending THEN "error" ELSE Given[i]
    BY <1>1, <1>2, GivenTo
  <2>2. Given' = [i \in Requests |-> Given'[i]]
    BY DEF Given
  <2> QED BY <2>1, <2>2
<1>4. pending \in SUBSET {i \in Asked : Given[i] = "none"}
  BY InFlight
<1>5. Asked' = Asked /\ Stopped' \in BOOLEAN
  BY DEF Asked, Stopped
<1> QED BY <1>3, <1>4, <1>5 DEF Promise!Break, Promise!Waiting, Asked, Given, Stopped

\* The agent writes a request, or the notification, or closes its end.
LEMMA AgentAsks ==
  ASSUME IInv, AgentStep
  PROVE  [Promise!Next]_(Promise!vars)
<1>1. UNCHANGED <<answers, runs, fh>> /\ ~Stopped
  BY DEF AgentStep, Stopped
<1>2. sent \in Nat /\ sent' \in {sent, sent + 1} /\ (sent' = sent + 1 => sent < Calls + 2)
  BY ProxyAssumption DEF IInv, TypeOK, AgentStep, Agent
<1>3. CASE sent' = sent
  BY <1>1, <1>3, UnseenStutters DEF Unseen, Stopped
<1>4. CASE sent' = sent + 1
  <2>1. sent \in Lines /\ \A i \in Requests : i \in Int
    BY <1>2, <1>4, ProxyAssumption DEF Lines, Hello, Note, Requests
  <2>2. CASE sent = Note
    <3>1. Asked' = Asked
      BY <1>2, <1>4, <2>1, <2>2, ReinitNoRequest DEF Asked
    <3> QED BY <1>1, <3>1 DEF Promise!vars, Asked
  <2>3. CASE sent # Note
    <3>1. PICK i \in Requests : i = sent
      BY <2>1, <2>3 DEF Requests, IsRequest
    <3>2. i \notin Asked /\ Asked' = Asked \cup {i}
      <4>1. \A j \in Requests : j < sent + 1 <=> j < sent \/ j = i
        BY <1>2, <2>1, <3>1
      <4>2. ~(i < sent)
        BY <1>2, <3>1
      <4> QED BY <1>4, <3>1, <4>1, <4>2 DEF Asked
    <3>3. Promise!Ask(i)
      BY <1>1, <3>2 DEF Promise!Ask, Asked, Stopped
    <3> QED BY <3>1, <3>3 DEF Promise!Next
  <2> QED BY <2>2, <2>3
<1> QED BY <1>2, <1>3, <1>4

\* The answer of the host is passed on, or dropped.
LEMMA DeliverAnswers ==
  ASSUME IInv, deliver
  PROVE  [Promise!Next]_(Promise!vars)
<1>1. /\ fh.at = "got" /\ fh'.at = "read" /\ UNCHANGED <<sent, runs>>
  BY DEF deliver, agentVars, IInv, TypeOK
<1>2. CASE fh.line \notin pending
  BY <1>1, <1>2, UnseenStutters DEF deliver, expected, Unseen, Stopped
<1>3. CASE fh.line \in pending
  <2>1. PICK l \in pending : l = fh.line
    BY <1>3
  <2>2. l \in Requests /\ l \in Asked /\ Given[l] = "none"
    BY InFlight
  <2>3. runs[l] = 1
    BY <1>1, <2>1, <2>2 DEF IInv, Books, Earned
  <2>4. Says({l}, "result") /\ answers[l] = <<>>
    BY <2>1, <2>2 DEF deliver, expected, IInv, Books, Replies
  <2>5. /\ answers'[l] = <<"result">>
        /\ \A i \in Requests \ {l} : answers'[i] = answers[i]
    <3>1. /\ answers'[l] = Append(answers[l], "result")
          /\ \A i \in Requests \ {l} : answers'[i] = answers[i]
      BY <2>2, <2>4, Said DEF IInv
    <3> QED BY <2>4, <3>1
  <2>6. Given' = [Given EXCEPT ![l] = "result"]
    <3>1. Given'[l] = "result"
      BY <2>2, <2>5, GivenTo
    <3>2. \A i \in Requests \ {l} : Given'[i] = Given[i]
      BY <2>5, GivenTo
    <3>3. /\ Given = [i \in Requests |-> Given[i]]
          /\ Given' = [i \in Requests |-> Given'[i]]
      BY DEF Given
    <3> QED BY <2>2, <3>1, <3>2, <3>3
  <2>7. Promise!Result(l)
    BY <1>1, <2>2, <2>3, <2>6 DEF Promise!Result, Promise!Waiting, Asked, Given, Stopped
  <2> QED BY <2>2, <2>7 DEF Promise!Next
<1> QED BY <1>2, <1>3

\* The host carries out what was asked and not carried out before.
LEMMA HandlerCarriesOut ==
  ASSUME IInv, NEW c \in Conns, Handler(c), UNCHANGED proxyRest,
         runs' = [i \in Requests |-> IF conns[c].stage = "mcp" /\ conns'[c].stage = "running"
                                        /\ conns'[c].line = i
                                     THEN runs[i] + 1 ELSE runs[i]]
  PROVE  [Promise!Next]_(Promise!vars)
<1> DEFINE l == conns'[c].line
           taken == conns[c].stage = "mcp" /\ conns'[c].stage = "running"
<1>1. UNCHANGED <<sent, answers, fh>>
  BY DEF proxyRest, proxy
<1>2. CASE ~(taken /\ l \in Requests)
  <2>1. runs' = [i \in Requests |-> runs[i]]
    BY <1>2
  <2>2. runs' = runs
    BY <2>1 DEF IInv, TypeOK
  <2> QED BY <1>1, <2>2, UnseenStutters DEF Unseen, Stopped
<1>3. CASE taken /\ l \in Requests
  <2>1. conns[c].in # <<>> /\ l = Head(conns[c].in)
    BY <1>3, HandlerEffect DEF IInv, Quiet, Same
  <2>2. l = conns[c].in[1] /\ 1 \in DOMAIN conns[c].in
    BY <2>1, TypesSplit, ConnFields, TailLine DEF IInv
  <2>3. runs[l] = 0
    BY <1>3, <2>2 DEF IInv, Books, OnePlace
  <2>4. l \in Elements(conns[c].in)
    BY <2>2 DEF Elements
  <2>5. ~(l >= sent)
    BY <1>3, <2>4 DEF IInv, Books, Unsent, Fresh
  <2>6. l \in Asked
    <3>1. l \in Int /\ sent \in Int
      BY <1>3 DEF IInv, TypeOK, Requests, Lines, Hello, Note
    <3> QED BY <1>3, <2>5, <3>1 DEF Asked
  <2>7. runs' = [runs EXCEPT ![l] = 1]
    <3>1. runs = [i \in Requests |-> runs[i]]
      BY DEF IInv, TypeOK
    <3>2. \A i \in Requests : runs'[i] = IF i = l THEN 1 ELSE runs[i]
      BY <1>3, <2>3
    <3> HIDE DEF l, taken
    <3> QED BY <3>1, <3>2
  <2> HIDE DEF l
  <2>8. Promise!CarryOut(l)
    BY <1>1, <2>3, <2>6, <2>7 DEF Promise!CarryOut, Asked, Stopped
  <2> QED BY <1>3, <2>8 DEF Promise!Next
<1> QED BY <1>2, <1>3

LEMMA PromisedStep == IInv /\ [Next]_vars => [Promise!Next]_(Promise!vars)
<1> SUFFICES ASSUME IInv, [Next]_vars PROVE [Promise!Next]_(Promise!vars)
  OBVIOUS
<1>1. CASE AgentStep
  BY <1>1, AgentAsks
<1>2. CASE ConnectFails \/ ForwardFails \/ ForwardConnects
  <2>1. failPendingLocked /\ UNCHANGED <<sent, runs>>
    BY <1>2 DEF ConnectFails, ForwardFails, failLocked, ForwardConnects, ConnectBegins, agentVars
  <2>2. ~Stopped
    BY <1>2 DEF ConnectFails, ForwardFails, ForwardConnects, IInv, Locking, Stopped
  <2> QED BY <2>1, <2>2, FailedBreaks DEF Promise!Next
<1>3. CASE FromHostChecks
  <2>1. UNCHANGED <<sent, runs>> /\ ~Stopped
    BY <1>3 DEF FromHostChecks, agentVars, Stopped
  <2>2. CASE closing \/ br # fh.br
    <3>1. answers' = answers
      BY <1>3, <2>2 DEF FromHostChecks
    <3>2. Asked' = Asked /\ Given' = Given /\ Stopped' \in BOOLEAN
      BY <2>1, <3>1 DEF Asked, Given, Stopped
    <3> DEFINE S == {}
    <3>3. S \in SUBSET {i \in Asked : Given[i] = "none"}
      OBVIOUS
    <3>4. Given' = [i \in Requests |-> IF i \in S THEN "error" ELSE Given[i]]
      BY <3>2 DEF Given
    <3> HIDE DEF S
    <3>5. Promise!Break
      BY <2>1, <3>2, <3>3, <3>4 DEF Promise!Break, Promise!Waiting, Asked, Given, Stopped
    <3> QED BY <3>5 DEF Promise!Next
  <2>3. CASE ~(closing \/ br # fh.br)
    BY <1>3, <2>1, <2>3, FailedBreaks DEF FromHostChecks, ConnectBegins, Promise!Next
  <2> QED BY <2>2, <2>3
<1>4. CASE deliver
  BY <1>4, DeliverAnswers
<1>5. CASE Dial \/ ReplayAnswered \/ ReplayNote
  <2>1. UNCHANGED <<sent, answers, runs>>
    BY <1>5 DEF Dial, ReplayAnswered, ReplayNote, agentVars
  <2>2. UNCHANGED Stopped
    BY <1>5 DEF Dial, ReplayAnswered, ReplayNote, Connected, Stopped, IInv, Locking, TypeOK
  <2> QED BY <2>1, <2>2, UnseenStutters DEF Unseen
<1>6. CASE ForwardLocks \/ ForwardWrites \/ ForwardRetries \/ closeInput
  BY <1>6, UnseenStutters DEF ForwardLocks, ForwardWrites, ForwardRetries, closeInput, agentVars,
     Unseen, Stopped
<1>7. CASE FromHostStarts \/ FromHostReads
  <2>1. UNCHANGED <<sent, answers, runs>>
    BY <1>7 DEF FromHostStarts, FromHostReads, agentVars
  <2>2. UNCHANGED Stopped
    BY <1>7 DEF FromHostStarts, FromHostReads, Stopped, IInv, TypeOK
  <2> QED BY <2>1, <2>2, UnseenStutters DEF Unseen
<1>8. CASE HostStep
  <2>1. CASE UNCHANGED <<proxyRest, runs>>
    BY <2>1, UnseenStutters DEF proxyRest, proxy, Unseen, Stopped
  <2> QED BY <1>8, <2>1, HandlerCarriesOut DEF HostStep
<1>9. CASE UNCHANGED vars
  BY <1>9, UnseenStutters DEF vars, proxy, Unseen, Stopped
<1> QED BY <1>1, <1>2, <1>3, <1>4, <1>5, <1>6, <1>7, <1>8, <1>9
        DEF Next, Connect, fromAgent, forward, fromHost

\* A request is carried out at most once, and gets one answer, a result only if
\* it was carried out, however often connections break and images are replaced
\* (redir.go:271, redir.go:416).
THEOREM Promised == Spec => Promise!Safe
<1>1. Init => Promise!Init
  BY DEF Init, Promise!Init
<1>2. IInv /\ [Next]_vars => [Promise!Next]_(Promise!vars)
  BY PromisedStep
<1> QED BY <1>1, <1>2, Invariance, PTL DEF Spec, Promise!Safe

=============================================================================
