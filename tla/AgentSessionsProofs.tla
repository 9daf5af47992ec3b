------------------------ MODULE AgentSessionsProofs -------------------------
(* Theorems about the sessions of an agent over its respawns, for any       *)
(* number of callers, calls, children and sessions and whatever the         *)
(* children advertise: a session moves forward only, is heard by its own    *)
(* sink and keeps its system prompt, and a cancel hits no live run.         *)
EXTENDS AgentSessions, SequenceTheorems, TLAPS

-----------------------------------------------------------------------------
(* The invariant                                                            *)

Index == 1 .. Len(recs)                       \* the records that were made

Establishing(k) == at[k].pc \in {"resume", "load", "new", "adopt"}   \* rec.mu is held
Opening(k) == at[k].pc \in {"track", "wire"} /\ at[k].op # "resume"
Prompts(k) == at[k].op = "prompt"

\* Nothing is known of a session or a child that does not exist yet.
Bounded ==
    /\ \A w \in Wires : /\ home[w] <= minted
                        /\ home[w] # NoWire \/ sess[w] # 0 => w <= minted
    /\ \A q \in Index : recs[q].wire <= minted /\ recs[q].gen <= cur
    /\ \A k \in Callers : at[k].sid <= minted /\ at[k].wire <= minted /\ at[k].gen <= cur
    /\ \A s \in sinks : s <= minted

\* What a call has in its hands at each stage.
Handled ==
    \A k \in Callers :
        /\ at[k].pc \notin {"idle", "live"} => at[k].gen # 0
        /\ at[k].op \notin {"new", "probe"} => at[k].sid # NoWire
        /\ Recovering(k) => at[k].rec \in Index /\ at[k].op \notin {"new", "probe", "resume"}
        /\ at[k].pc \in {"resume", "load", "new"} => at[k].wire = recs[at[k].rec].wire
        /\ at[k].pc \in {"adopt", "track", "wire", "giveUp", "unwinding"} => at[k].wire # NoWire
        /\ at[k].pc = "call" /\ at[k].op \notin {"new", "probe"} => at[k].wire # NoWire
        /\ at[k].pc \in {"call", "track", "wire"} /\ at[k].op = "resume" => at[k].wire = at[k].sid
        /\ at[k].pc \in {"giveUp", "unwinding"} => Prompts(k)
        /\ Prompts(k) => at[k].pc # "idle"

\* A session's wire ids are of its own directory, where one prompt runs.
Homes ==
    /\ \A s \in Wires : sess[s] # 0 => home[recs[sess[s]].wire] = home[s]
    /\ \A k \in Callers : Recovering(k) => home[recs[at[k].rec].wire] = home[at[k].sid]
    /\ \A k \in Callers :
           at[k].pc \in {"adopt", "call", "giveUp", "unwinding"} /\ at[k].op \notin {"new", "probe"} =>
               home[at[k].wire] = home[at[k].sid]
    /\ \A j, k \in Callers :
           Prompts(j) /\ Prompts(k) /\ home[at[j].sid] = home[at[k].sid] => j = k

\* A session that a call has opened is in nobody else's hands.
Fresh ==
    \A k \in Callers : Opening(k) =>
        /\ \A x \in Wires : home[x] = at[k].wire <=> x = at[k].wire
        /\ at[k].wire \notin sinks
        /\ \A j \in Callers : at[j].sid # at[k].wire
        /\ \A j \in Callers : at[j].pc \in {"track", "wire"} /\ at[j].wire = at[k].wire => j = k
        /\ at[k].pc = "track" => \A q \in Index : recs[q].wire # at[k].wire

\* A record is established by one call, on a newer child than it was on.
Locking ==
    /\ \A k \in Callers : Establishing(k) =>
           recs[at[k].rec].locked /\ recs[at[k].rec].gen # at[k].gen
    /\ \A k \in Callers : at[k].pc = "adopt" => recs[at[k].rec].gen < at[k].gen
    /\ \A j, k \in Callers : Establishing(j) /\ Establishing(k) /\ at[j].rec = at[k].rec => j = k

\* A record belongs to one session, and unless that was dropped or opened
\* anew it is the one a recovering call holds.
Owned ==
    /\ \A k \in Callers : Recovering(k) => at[k].sid \in raced \/ at[k].rec = sess[at[k].sid]
    /\ \A s, t \in Wires : sess[s] # 0 /\ sess[s] = sess[t] => s = t
    /\ \A k \in Callers, s \in Wires : Recovering(k) /\ at[k].rec = sess[s] => at[k].sid = s

\* Session s has, or is being moved to, the wire id w that session/new made.
Claims(s, w) ==
    /\ s \notin raced /\ s # w
    /\ \/ sess[s] # 0 /\ recs[sess[s]].wire = w
       \/ \E k \in Callers : at[k].pc = "adopt" /\ at[k].sid = s /\ at[k].wire = w

\* Such a wire id is no other record's, and nobody opens it as a session.
Claimed ==
    \A s, w \in Wires : Claims(s, w) =>
        /\ \A j \in Callers : at[j].op = "resume" => at[j].sid # w
        /\ \A q \in Index : recs[q].wire = w => q = sess[s]
        /\ \A j \in Callers : at[j].pc = "adopt" /\ at[j].wire = w => at[j].rec = sess[s]

\* The aliases are the claimed wire ids, but for what a race leaves behind.
Aliases ==
    /\ \A x \in Wires :
           \/ alias[x] = NoWire \/ alias[x] \in raced
           \/ sess[alias[x]] # 0 /\ recs[sess[alias[x]]].wire = x /\ x # alias[x]
    /\ \A s \in Wires : sess[s] # 0 /\ s \notin raced =>
           /\ recs[sess[s]].wire = s => alias[s] \in raced \cup {NoWire}
           /\ recs[sess[s]].wire # s => alias[recs[sess[s]].wire] = s

\* A muted wire id is being loaded.
Mutes ==
    \A x \in muted : \E k \in Callers : at[k].pc \in {"load", "adopt"} /\ at[k].wire = x

\* A live run is that of a prompt whose caller still waits for it.
Runs ==
    \A w \in Wires : run[w] = "live" =>
        up /\ \E k \in Callers : /\ at[k].pc = "call" /\ Prompts(k) /\ at[k].sent
                                 /\ at[k].wire = w /\ at[k].gen = cur

IInv ==
    /\ TypeOK /\ Bounded /\ Handled /\ Homes /\ Fresh /\ Locking
    /\ Owned /\ Claimed /\ Aliases /\ Mutes /\ Runs

-----------------------------------------------------------------------------
(* What a step does to the calls and the tables                             *)

Others(k) == \A j \in Callers : j # k => at'[j] = at[j]

\* Call k goes to stage p with wire id w.
Goes(k, p, w) ==
    /\ Others(k)
    /\ at'[k].pc = p /\ at'[k].wire = w
    /\ at'[k].op = at[k].op /\ at'[k].sid = at[k].sid
    /\ at'[k].gen = at[k].gen /\ at'[k].rec = at[k].rec

Leaves(k) == Others(k) /\ at'[k] = Idle

TablesKept ==
    recs' = recs /\ sess' = sess /\ alias' = alias /\ raced' = raced /\ sinks' = sinks
IdsKept == minted' = minted /\ home' = home /\ cur' = cur
Kept == TablesKept /\ IdsKept /\ muted' = muted

\* The records keep their places; only the lock of r changes.
SetsLock(r, b) ==
    /\ Len(recs') = Len(recs)
    /\ \A q \in Index : /\ recs'[q].wire = recs[q].wire /\ recs'[q].gen = recs[q].gen
                        /\ recs'[q].sys = recs[q].sys
                        /\ q # r => recs'[q].locked = recs[q].locked
    /\ recs'[r].locked = b
    /\ sess' = sess /\ alias' = alias /\ raced' = raced /\ sinks' = sinks

\* The alias of s goes; a call that is recovering s is noted.
Forgets(s) ==
    /\ \A x \in Wires : alias'[x] = IF alias[x] = s THEN NoWire ELSE alias[x]
    /\ raced \subseteq raced' /\ raced' \subseteq raced \cup {s}
    /\ \A k \in Callers : Recovering(k) /\ at[k].sid = s => s \in raced'

\* A session id is minted, of directory d.
Mints(d) ==
    /\ minted < MaxWires /\ minted' = minted + 1 /\ cur' = cur
    /\ \A x \in Wires : home'[x] = IF x = minted + 1 THEN d ELSE home[x]
    /\ TablesKept /\ muted' = muted

Rests == /\ at' = at /\ TablesKept /\ muted' = muted /\ minted' = minted /\ home' = home
         /\ cur <= cur'

Starts(k) ==
    /\ at[k].pc = "idle" /\ Others(k) /\ Kept
    /\ at'[k].pc = "live" /\ at'[k].wire = NoWire /\ at'[k].gen = 0
    /\ LET op == at'[k].op s == at'[k].sid IN
       \/ op \in {"new", "probe"} /\ s = NoWire
       \/ op = "resume" /\ s # NoWire /\ Resumable(s)
       \/ op = "prompt" /\ s \in sinks /\ ~Prompting(s)
       \/ op \in {"fork", "setModel", "release"} /\ s \in sinks

Looks(k) ==
    /\ at[k].pc = "live" /\ Others(k) /\ Kept
    /\ at'[k].op = at[k].op /\ at'[k].sid = at[k].sid /\ at'[k].gen = cur
    /\ \/ at'[k].pc = "call" /\ at'[k].wire = at[k].sid
       \/ /\ at'[k].pc = "lock" /\ at'[k].wire = at[k].wire
          /\ at[k].op \notin {"new", "probe", "resume"}
          /\ at'[k].rec = sess[at[k].sid] /\ sess[at[k].sid] # 0

Finds(k) ==
    at[k].pc = "lock" /\ Goes(k, "call", recs[at[k].rec].wire) /\ Kept

Locks(k) ==
    /\ at[k].pc = "lock" /\ ~recs[at[k].rec].locked /\ recs[at[k].rec].gen # at[k].gen
    /\ SetsLock(at[k].rec, TRUE) /\ IdsKept
    /\ \E p \in {"resume", "load", "new"} :
           /\ Goes(k, p, recs[at[k].rec].wire)
           /\ muted' \subseteq muted \cup (IF p = "load" THEN {recs[at[k].rec].wire} ELSE {})

Restores(k) ==
    /\ at[k].pc \in {"resume", "load"} /\ at[k].gen = cur
    /\ Goes(k, "adopt", at[k].wire) /\ Kept

Replaces(k) ==
    /\ at[k].pc = "new" /\ at[k].gen = cur
    /\ Mints(home[at[k].sid]) /\ Goes(k, "adopt", minted + 1)

Refuses(k) ==
    /\ TablesKept /\ IdsKept
    /\ \/ /\ at[k].pc = "resume" /\ Goes(k, "load", at[k].wire)
          /\ muted' \subseteq muted \cup {at[k].wire}
       \/ /\ at[k].pc = "resume" /\ Goes(k, "new", at[k].wire) /\ muted' = muted
       \/ /\ at[k].pc = "load" /\ Goes(k, "new", at[k].wire)
          /\ muted' = muted \ {at[k].wire}

Fails(k) ==
    /\ at[k].pc \in {"resume", "load", "new"} /\ Leaves(k)
    /\ SetsLock(at[k].rec, FALSE) /\ IdsKept
    /\ muted' = IF at[k].pc = "load" THEN muted \ {at[k].wire} ELSE muted

Adopts(k) ==
    /\ at[k].pc = "adopt" /\ Goes(k, "call", at[k].wire)
    /\ Len(recs') = Len(recs)
    /\ \A q \in Index : q # at[k].rec => recs'[q] = recs[q]
    /\ LET r == recs'[at[k].rec] IN
       r.wire = at[k].wire /\ r.gen = at[k].gen /\ ~r.locked /\ r.sys = recs[at[k].rec].sys
    /\ \A x \in Wires : alias'[x] = IF x = at[k].wire /\ x # at[k].sid THEN at[k].sid
                                    ELSE IF x = recs[at[k].rec].wire THEN NoWire ELSE alias[x]
    /\ muted' = muted \ {at[k].wire}
    /\ sess' = sess /\ raced' = raced /\ sinks' = sinks /\ IdsKept

Opens(k) ==
    /\ at[k].pc = "call" /\ at[k].op \in {"new", "probe", "fork"}
    /\ Mints(minted + 1) /\ Goes(k, "track", minted + 1)

Resumes(k) ==
    /\ at[k].pc = "call" /\ at[k].op = "resume"
    /\ Goes(k, "track", at[k].wire) /\ Kept

Tracks(k) ==
    /\ at[k].pc = "track" /\ Goes(k, "wire", at[k].wire)
    /\ Len(recs') = Len(recs) + 1
    /\ \A q \in Index : recs'[q] = recs[q]
    /\ recs'[Len(recs) + 1] = [gen |-> at[k].gen, wire |-> at[k].wire, sys |-> at[k].sp,
                               locked |-> FALSE]
    /\ \A x \in Wires : sess'[x] = IF x = at[k].wire THEN Len(recs) + 1 ELSE sess[x]
    /\ Forgets(at[k].wire)
    /\ sinks' = sinks /\ muted' = muted /\ IdsKept

Hears(k) ==
    /\ at[k].pc = "wire" /\ Leaves(k)
    /\ sinks' = sinks \cup {at[k].wire}
    /\ recs' = recs /\ sess' = sess /\ alias' = alias /\ raced' = raced /\ muted' = muted /\ IdsKept

Discards(k) ==
    /\ at[k].pc = "wire" /\ at[k].op = "probe" /\ Leaves(k)
    /\ \A x \in Wires : /\ sess'[x] = IF x = at[k].wire THEN 0 ELSE sess[x]
                        /\ alias'[x] = IF alias[x] = at[k].wire THEN NoWire ELSE alias[x]
                        /\ home'[x] = IF x = at[k].wire THEN NoWire ELSE home[x]
    /\ recs' = recs /\ raced' = raced /\ sinks' = sinks /\ muted' = muted
    /\ minted' = minted /\ cur' = cur

Drops(s) ==
    /\ at' = at /\ s \in Wires
    /\ \A x \in Wires : sess'[x] = IF x = s THEN 0 ELSE sess[x]
    /\ Forgets(s) /\ sinks' \subseteq sinks
    /\ recs' = recs /\ muted' = muted /\ IdsKept

\* The stages of a call that has its wire id and no record in its hands.
Underway == {"call", "note", "giveUp", "unwinding"}

GoesOn(k) ==
    /\ at[k].pc \in Underway /\ at'[k].pc \in Underway
    /\ at'[k].pc \in {"giveUp", "unwinding"} => Prompts(k)
    /\ at'[k].pc = "call" => at[k].pc = "call"
    /\ at'[k].pc \in {"giveUp", "unwinding"} => at[k].pc # "note"
    /\ Goes(k, at'[k].pc, at[k].wire) /\ Kept

Quits(k) == at[k].pc \in Underway /\ Leaves(k) /\ Kept

-----------------------------------------------------------------------------
(* Every step is one of these                                               *)

LEMMA Records ==
  ASSUME TypeOK
  PROVE  /\ recs \in Seq(Rec) /\ Len(recs) \in Nat /\ DOMAIN recs = Index
         /\ \A q \in Index : recs[q] \in Rec
         /\ \A k \in Callers : at[k] \in CallT
BY DEF TypeOK, Index

LEMMA Numbers ==
  /\ MaxWires \in Nat /\ MaxGens \in Nat \ {0}
  /\ NoWire = 0 /\ NoWire \notin Wires /\ \A w \in Wires : w \in Nat
  /\ Idle \in CallT
BY SessionsAssumption DEF NoWire, Wires, Idle, CallT, Stages, Ops

LEMMA Fields ==
  ASSUME TypeOK, NEW k \in Callers
  PROVE  /\ at[k].pc \in Stages /\ at[k].op \in Ops
         /\ at[k].sid \in Wires \cup {NoWire} /\ at[k].wire \in Wires \cup {NoWire}
         /\ at[k].gen \in Nat /\ at[k].rec \in Nat
         /\ at[k].gen # 0 => at[k].gen \in 1 .. MaxGens
<1>1. at[k] \in CallT
  BY Records
<1> QED BY <1>1, Numbers DEF CallT, Wires, NoWire

\* What Go does to the calls.
LEMMA Going ==
  ASSUME TypeOK, NEW k \in Callers, NEW c, Go(k, c)
  PROVE  at'[k] = c /\ Others(k) /\ DOMAIN at' = Callers
BY DEF TypeOK, Go, Others

\* A call that keeps its operation, session, child and record.
LEMMA Keeping ==
  ASSUME TypeOK, NEW k \in Callers, NEW p
  PROVE  /\ Go(k, [at[k] EXCEPT !.pc = p]) => Goes(k, p, at[k].wire)
         /\ \A w : Go(k, [at[k] EXCEPT !.pc = p, !.wire = w]) => Goes(k, p, w)
         /\ \A w, cs : Go(k, [at[k] EXCEPT !.pc = p, !.wire = w, !.caps = cs]) => Goes(k, p, w)
         /\ \A w, b : Go(k, [at[k] EXCEPT !.pc = p, !.wire = w, !.sp = b]) => Goes(k, p, w)
         /\ \A b : Go(k, [at[k] EXCEPT !.pc = p, !.sp = b]) => Goes(k, p, at[k].wire)
<1>0. at[k] \in CallT
  BY Records
<1>1. ASSUME Go(k, [at[k] EXCEPT !.pc = p]) PROVE Goes(k, p, at[k].wire)
  <2>1. at'[k] = [at[k] EXCEPT !.pc = p] /\ Others(k)
    BY <1>1, Going
  <2> QED BY <1>0, <2>1 DEF Goes, CallT
<1>2. ASSUME NEW w, Go(k, [at[k] EXCEPT !.pc = p, !.wire = w]) PROVE Goes(k, p, w)
  <2>1. at'[k] = [at[k] EXCEPT !.pc = p, !.wire = w] /\ Others(k)
    BY <1>2, Going
  <2> QED BY <1>0, <2>1 DEF Goes, CallT
<1>3. ASSUME NEW w, NEW cs, Go(k, [at[k] EXCEPT !.pc = p, !.wire = w, !.caps = cs])
      PROVE  Goes(k, p, w)
  <2>1. at'[k] = [at[k] EXCEPT !.pc = p, !.wire = w, !.caps = cs] /\ Others(k)
    BY <1>3, Going
  <2> QED BY <1>0, <2>1 DEF Goes, CallT
<1>4. ASSUME NEW w, NEW b, Go(k, [at[k] EXCEPT !.pc = p, !.wire = w, !.sp = b])
      PROVE  Goes(k, p, w)
  <2>1. at'[k] = [at[k] EXCEPT !.pc = p, !.wire = w, !.sp = b] /\ Others(k)
    BY <1>4, Going
  <2> QED BY <1>0, <2>1 DEF Goes, CallT
<1>5. ASSUME NEW b, Go(k, [at[k] EXCEPT !.pc = p, !.sp = b]) PROVE Goes(k, p, at[k].wire)
  <2>1. at'[k] = [at[k] EXCEPT !.pc = p, !.sp = b] /\ Others(k)
    BY <1>5, Going
  <2> QED BY <1>0, <2>1 DEF Goes, CallT
<1> QED BY <1>1, <1>2, <1>3, <1>4, <1>5

\* A record that changes in its place.
LEMMA Replacing ==
  ASSUME TypeOK, NEW r \in Index, NEW e \in Rec, recs' = [recs EXCEPT ![r] = e]
  PROVE  Len(recs') = Len(recs) /\ recs'[r] = e /\ \A q \in Index : q # r => recs'[q] = recs[q]
BY Records, ExceptSeq DEF Index

LEMMA GoingOn ==
  ASSUME TypeOK, Handled, NEW k \in Callers,
         ChildSetsModel(k) \/ PromptReaches(k) \/ PromptGivesUp(k) \/ Cancel(k)
  PROVE  GoesOn(k)
<1>0. at[k] \in CallT
  BY Records
<1>1. CASE ChildSetsModel(k)
  <2>1. Goes(k, "note", at[k].wire)
    BY <1>1, Keeping DEF ChildSetsModel
  <2> QED BY <1>1, <2>1 DEF ChildSetsModel, GoesOn, Goes, Underway, Kept, TablesKept, IdsKept,
                            child, tables
<1>2. CASE PromptReaches(k)
  <2>1. Go(k, [at[k] EXCEPT !.sent = TRUE])
    BY <1>2 DEF PromptReaches
  <2>2. Goes(k, at[k].pc, at[k].wire)
    BY <1>0, <2>1, Going DEF Goes, CallT
  <2> QED BY <1>2, <2>2 DEF PromptReaches, GoesOn, Goes, Underway, Kept, TablesKept, IdsKept, tables,
                            Prompts
<1>3. CASE PromptGivesUp(k)
  <2>1. Goes(k, "giveUp", at[k].wire)
    BY <1>3, Keeping DEF PromptGivesUp
  <2> QED BY <1>3, <2>1 DEF PromptGivesUp, GoesOn, Goes, Underway, Kept, TablesKept, IdsKept,
                            tables, Prompts
<1>4. CASE Cancel(k)
  <2>1. Goes(k, "unwinding", at[k].wire)
    BY <1>4, Keeping DEF Cancel
  <2> QED BY <1>4, <2>1 DEF Cancel, GoesOn, Goes, Underway, Kept, TablesKept, IdsKept, tables,
                            Handled
<1> QED BY <1>1, <1>2, <1>3, <1>4

LEMMA Quitting ==
  ASSUME TypeOK, NEW k \in Callers,
         NoteModel(k) \/ ChildReleases(k) \/ CallFails(k) \/ PromptEnds(k) \/ Unanswered(k)
  PROVE  Quits(k)
<1>1. Go(k, Idle)
  BY DEF NoteModel, ChildReleases, CallFails, PromptEnds, Unanswered, Return
<1>2. Leaves(k)
  BY <1>1, Going DEF Leaves
<1> QED BY <1>2 DEF NoteModel, ChildReleases, CallFails, PromptEnds, Unanswered, Quits, Underway, Kept,
                    TablesKept, IdsKept, child, tables

LEMMA Looking ==
  ASSUME TypeOK, NEW k \in Callers, Live(k)
  PROVE  Looks(k)
<1> DEFINE c == [at[k] EXCEPT !.gen = cur]
<1>1. at[k] \in CallT
  BY Records
<1>2. Kept /\ at[k].pc = "live"
  BY DEF Live, Kept, TablesKept, IdsKept, child, tables
<1>3. c.op = at[k].op /\ c.sid = at[k].sid /\ c.wire = at[k].wire /\ c.gen = cur
  BY <1>1 DEF CallT
<1>4. CASE at[k].op \in {"new", "probe", "resume"}
  <2>1. Go(k, [c EXCEPT !.pc = "call", !.sp = "stable" \in caps, !.wire = at[k].sid])
    BY <1>3, <1>4 DEF Live
  <2>2. at'[k] = [c EXCEPT !.pc = "call", !.sp = "stable" \in caps, !.wire = at[k].sid] /\ Others(k)
    BY <2>1, Going
  <2>3. /\ at'[k].pc = "call" /\ at'[k].wire = at[k].sid /\ at'[k].op = at[k].op
        /\ at'[k].sid = at[k].sid /\ at'[k].gen = cur
    BY <1>1, <2>2 DEF CallT
  <2> QED BY <1>2, <2>2, <2>3 DEF Looks
<1>5. CASE at[k].op \notin {"new", "probe", "resume"} /\ sess[at[k].sid] = 0
  <2>1. Go(k, [c EXCEPT !.pc = "call", !.wire = at[k].sid])
    BY <1>3, <1>5 DEF Live
  <2>2. at'[k] = [c EXCEPT !.pc = "call", !.wire = at[k].sid] /\ Others(k)
    BY <2>1, Going
  <2>3. /\ at'[k].pc = "call" /\ at'[k].wire = at[k].sid /\ at'[k].op = at[k].op
        /\ at'[k].sid = at[k].sid /\ at'[k].gen = cur
    BY <1>1, <2>2 DEF CallT
  <2> QED BY <1>2, <2>2, <2>3 DEF Looks
<1>6. CASE at[k].op \notin {"new", "probe", "resume"} /\ sess[at[k].sid] # 0
  <2>1. Go(k, [c EXCEPT !.pc = "lock", !.rec = sess[at[k].sid]])
    BY <1>3, <1>6 DEF Live
  <2>2. at'[k] = [c EXCEPT !.pc = "lock", !.rec = sess[at[k].sid]] /\ Others(k)
    BY <2>1, Going
  <2>3. /\ at'[k].pc = "lock" /\ at'[k].wire = at[k].wire /\ at'[k].op = at[k].op
        /\ at'[k].sid = at[k].sid /\ at'[k].gen = cur /\ at'[k].rec = sess[at[k].sid]
    BY <1>1, <2>2 DEF CallT
  <2> QED BY <1>2, <1>6, <2>2, <2>3 DEF Looks
<1> QED BY <1>4, <1>5, <1>6

LEMMA Routing ==
  ASSUME TypeOK, Handled, NEW k \in Callers, Peek(k) \/ Route(k)
  PROVE  Finds(k) \/ Locks(k)
<1>0. at[k] \in CallT /\ at[k].pc = "lock"
  BY Records DEF Peek, Route
<1>1. CASE Peek(k)
  BY <1>1, Keeping DEF Peek, Finds, Kept, TablesKept, IdsKept, child, tables
<1>2. CASE Route(k) /\ onChild(recs[at[k].rec], at[k].gen)
  BY <1>2, Keeping DEF Route, Finds, Kept, TablesKept, IdsKept, child
<1>3. CASE Route(k) /\ ~onChild(recs[at[k].rec], at[k].gen)
  <2> DEFINE r == at[k].rec
             way == Way(caps)
  <2>1. /\ ~recs[r].locked /\ recs[r].gen # at[k].gen
        /\ recs' = [recs EXCEPT ![r].locked = TRUE]
        /\ muted' = IF way = "load" THEN muted \cup {recs[r].wire} ELSE muted
        /\ Go(k, [at[k] EXCEPT !.pc = way, !.wire = recs[r].wire, !.caps = caps])
        /\ sess' = sess /\ alias' = alias /\ raced' = raced /\ sinks' = sinks /\ IdsKept
    BY <1>3 DEF Route, onChild, child, IdsKept
  <2>2. way \in {"resume", "load", "new"}
    BY DEF Way
  <2>3. Goes(k, way, recs[r].wire)
    BY <2>1, Keeping
  <2>4. r \in Index
    BY <1>0 DEF Handled, Recovering
  <2>5. SetsLock(r, TRUE)
    <3> DEFINE e == [recs[r] EXCEPT !.locked = TRUE]
    <3>1. recs[r] \in Rec
      BY <2>4, Records
    <3>2. /\ e \in Rec /\ e.wire = recs[r].wire /\ e.gen = recs[r].gen /\ e.sys = recs[r].sys
          /\ e.locked = TRUE
      BY <3>1 DEF Rec
    <3>3. recs' = [recs EXCEPT ![r] = e]
      BY <2>1
    <3> HIDE DEF e
    <3>4. Len(recs') = Len(recs) /\ recs'[r] = e /\ \A q \in Index : q # r => recs'[q] = recs[q]
      BY <2>4, <3>2, <3>3, Replacing
    <3> QED BY <2>1, <3>2, <3>4 DEF SetsLock
  <2> QED BY <1>0, <2>1, <2>2, <2>3, <2>5 DEF Locks
<1> QED BY <1>1, <1>2, <1>3

LEMMA Establishes ==
  ASSUME TypeOK, Handled, NEW k \in Callers
  PROVE  /\ ChildRestores(k) => Restores(k)
         /\ ChildReplaces(k) => Replaces(k)
         /\ ChildRefuses(k) => Refuses(k)
         /\ RecoveryFails(k) => Fails(k)
         /\ Adopt(k) => Adopts(k)
<1>0. at[k] \in CallT
  BY Records
<1>1. ASSUME ChildRestores(k) PROVE Restores(k)
  BY <1>1, Keeping DEF ChildRestores, Restores, Lives, Kept, TablesKept, IdsKept, tables
<1>2. ASSUME ChildReplaces(k) PROVE Replaces(k)
  <2>1. minted' = minted + 1 /\ Go(k, [at[k] EXCEPT !.pc = "adopt", !.wire = minted + 1])
    BY <1>2 DEF ChildReplaces
  <2>2. \A x \in Wires : home'[x] = IF x = minted + 1 THEN home[at[k].sid] ELSE home[x]
    BY <1>2, <2>1 DEF ChildReplaces, TypeOK
  <2> QED BY <1>2, <2>1, <2>2, Keeping
          DEF ChildReplaces, Replaces, Mints, Lives, TablesKept, tables
<1>3. ASSUME ChildRefuses(k) PROVE Refuses(k)
  <2> DEFINE tried == IF at[k].pc = "load" THEN {"resume", "load"} ELSE {"resume"}
             way == Way(at[k].caps \ tried)
  <2>1. /\ at[k].pc \in {"resume", "load"} /\ Go(k, [at[k] EXCEPT !.pc = way])
        /\ muted' = IF way = "load" THEN muted \cup {at[k].wire} ELSE unmuted(k)
        /\ TablesKept /\ IdsKept
    BY <1>3 DEF ChildRefuses, TablesKept, IdsKept, child
  <2>2. way \in {"load", "new"} /\ (at[k].pc = "load" => way = "new")
    BY DEF Way
  <2>3. Goes(k, way, at[k].wire)
    BY <2>1, Keeping
  <2> HIDE DEF way
  <2> QED BY <2>1, <2>2, <2>3 DEF Refuses, unmuted
<1>4. ASSUME RecoveryFails(k) PROVE Fails(k)
  <2>1. at[k].rec \in Index
    BY <1>4 DEF RecoveryFails, Handled, Recovering
  <2>2. SetsLock(at[k].rec, FALSE)
    <3> DEFINE r == at[k].rec
               e == [recs[r] EXCEPT !.locked = FALSE]
    <3>1. recs[r] \in Rec
      BY <2>1, Records
    <3>2. /\ e \in Rec /\ e.wire = recs[r].wire /\ e.gen = recs[r].gen /\ e.sys = recs[r].sys
          /\ e.locked = FALSE
      BY <3>1 DEF Rec
    <3>3. recs' = [recs EXCEPT ![r] = e]
      BY <1>4 DEF RecoveryFails
    <3> HIDE DEF e
    <3>4. Len(recs') = Len(recs) /\ recs'[r] = e /\ \A q \in Index : q # r => recs'[q] = recs[q]
      BY <2>1, <3>2, <3>3, Replacing
    <3> QED BY <1>4, <3>2, <3>4 DEF RecoveryFails, SetsLock
  <2>3. Leaves(k)
    BY <1>4, Going DEF RecoveryFails, Return, Leaves
  <2> QED BY <1>4, <2>2, <2>3 DEF RecoveryFails, Fails, unmuted, IdsKept, child
<1>5. ASSUME Adopt(k) PROVE Adopts(k)
  <2> DEFINE r == at[k].rec
  <2>1. r \in Index
    BY <1>5 DEF Adopt, Handled, Recovering
  <2> DEFINE e == [recs[r] EXCEPT !.gen = at[k].gen, !.wire = at[k].wire, !.locked = FALSE]
  <2>2. recs' = [recs EXCEPT ![r] = e]
    BY <1>5 DEF Adopt
  <2>3. recs[r] \in Rec /\ at[k].gen \in 1 .. MaxGens /\ at[k].wire \in Wires
    BY <1>5, <2>1, Records, Fields DEF Adopt, Handled
  <2>4. /\ e \in Rec /\ e.wire = at[k].wire /\ e.gen = at[k].gen /\ ~e.locked
        /\ e.sys = recs[r].sys
    BY <2>3 DEF Rec
  <2> HIDE DEF e
  <2>7. Len(recs') = Len(recs) /\ recs'[r] = e /\ \A q \in Index : q # r => recs'[q] = recs[q]
    BY <2>1, <2>2, <2>4, Replacing
  <2>5. Goes(k, "call", at[k].wire)
    BY <1>5, Keeping DEF Adopt
  <2>6. \A x \in Wires : alias'[x] = IF x = at[k].wire /\ x # at[k].sid THEN at[k].sid
                                      ELSE IF x = recs[r].wire THEN NoWire ELSE alias[x]
    BY <1>5 DEF Adopt
  <2> QED BY <1>5, <2>4, <2>5, <2>6, <2>7 DEF Adopt, Adopts, IdsKept, child
<1> QED BY <1>1, <1>2, <1>3, <1>4, <1>5

\* races notes a call that is recovering s.
LEMMA Races ==
  ASSUME NEW s
  PROVE  /\ raced \subseteq races(s) /\ races(s) \subseteq raced \cup {s}
         /\ \A k \in Callers : Recovering(k) /\ at[k].sid = s => s \in races(s)
BY DEF races

LEMMA Forgetting ==
  ASSUME NEW s, alias' = untracked(s), raced' = races(s)
  PROVE  Forgets(s)
BY Races DEF Forgets, untracked

LEMMA Minting ==
  ASSUME TypeOK, NEW k \in Callers, NEW prompt, NEW sys, Makes(k, prompt, sys)
  PROVE  Mints(minted + 1) /\ Goes(k, "track", minted + 1)
<1>1. minted' = minted + 1 /\ Go(k, [at[k] EXCEPT !.pc = "track", !.wire = minted + 1, !.sp = sys])
  BY DEF Makes
<1>2. \A x \in Wires : home'[x] = IF x = minted + 1 THEN minted + 1 ELSE home[x]
  BY <1>1 DEF Makes, TypeOK
<1> QED BY <1>1, <1>2, Keeping DEF Makes, Mints, TablesKept, tables

LEMMA Calling ==
  ASSUME TypeOK, Handled, NEW k \in Callers
  PROVE  /\ ChildOpens(k) \/ ChildForks(k) => Opens(k)
         /\ ChildResumes(k) => Resumes(k)
         /\ Track(k) => Tracks(k)
         /\ Wire(k) => Hears(k)
         /\ Discard(k) => Discards(k)
<1>0. at[k] \in CallT
  BY Records
<1>1. ASSUME ChildOpens(k) \/ ChildForks(k) PROVE Opens(k)
  BY <1>1, Minting DEF ChildOpens, ChildForks, Opens
<1>2. ASSUME ChildResumes(k) PROVE Resumes(k)
  BY <1>2, Keeping DEF ChildResumes, Resumes, Kept, TablesKept, IdsKept, tables
<1>3. ASSUME Track(k) PROVE Tracks(k)
  <2>1. /\ recs' = Append(recs, [gen |-> at[k].gen, wire |-> at[k].wire, sys |-> at[k].sp,
                                 locked |-> FALSE])
        /\ sess' = [sess EXCEPT ![at[k].wire] = Len(recs) + 1]
        /\ alias' = untracked(at[k].wire) /\ raced' = races(at[k].wire)
    BY <1>3 DEF Track, track
  <2>2. /\ Len(recs') = Len(recs) + 1 /\ \A q \in Index : recs'[q] = recs[q]
        /\ recs'[Len(recs) + 1] = [gen |-> at[k].gen, wire |-> at[k].wire, sys |-> at[k].sp,
                                   locked |-> FALSE]
    BY <2>1, Records DEF Index
  <2>3. \A x \in Wires : sess'[x] = IF x = at[k].wire THEN Len(recs) + 1 ELSE sess[x]
    BY <2>1 DEF TypeOK
  <2>4. Forgets(at[k].wire)
    BY <2>1, Forgetting
  <2>5. Goes(k, "wire", at[k].wire)
    BY <1>3, Keeping DEF Track
  <2> QED BY <1>3, <2>2, <2>3, <2>4, <2>5 DEF Track, Tracks, IdsKept, child
<1>4. ASSUME Wire(k) PROVE Hears(k)
  BY <1>4, Going DEF Wire, Return, Leaves, Hears, IdsKept, child
<1>5. ASSUME Discard(k) PROVE Discards(k)
  BY <1>5, Going DEF Discard, Return, Leaves, Discards, untracked, TypeOK
<1> QED BY <1>1, <1>2, <1>3, <1>4, <1>5

LEMMA Beginning ==
  ASSUME TypeOK, NEW k \in Callers, NEW op \in Ops, NEW s \in Wires \cup {NoWire}, Begin(k, op, s)
  PROVE  Starts(k)
<1>1. Go(k, [Idle EXCEPT !.pc = "live", !.op = op, !.sid = s,
                         !.sp = op = "fork" /\ "stable" \in caps])
  BY DEF Begin
<1>2. /\ Others(k) /\ at'[k].pc = "live" /\ at'[k].op = op /\ at'[k].sid = s
      /\ at'[k].wire = NoWire /\ at'[k].gen = 0
  <2>1. Others(k) /\ at'[k] = [Idle EXCEPT !.pc = "live", !.op = op, !.sid = s,
                                           !.sp = op = "fork" /\ "stable" \in caps]
    BY <1>1, Going
  <2> QED BY <2>1 DEF Idle
<1>3. Kept /\ at[k].pc = "idle"
  BY DEF Begin, Kept, TablesKept, IdsKept, child, tables
<1> QED BY <1>2, <1>3 DEF Begin, Starts

Shape(k) ==
    \/ Starts(k) \/ Looks(k) \/ Finds(k) \/ Locks(k)
    \/ Restores(k) \/ Replaces(k) \/ Refuses(k) \/ Fails(k) \/ Adopts(k)
    \/ Opens(k) \/ Resumes(k) \/ Tracks(k) \/ Hears(k) \/ Discards(k)
    \/ GoesOn(k) \/ Quits(k)

Shapes == Rests \/ (\E s \in Wires : Drops(s)) \/ \E k \in Callers : Shape(k)

LEMMA OthersRest ==
  ASSUME NEW k \in Callers, Shape(k)
  PROVE  Others(k)
<1>1. CASE \/ Starts(k) \/ Looks(k) \/ Fails(k) \/ Hears(k) \/ Discards(k) \/ Quits(k)
  BY <1>1 DEF Starts, Looks, Fails, Hears, Discards, Quits, Leaves
<1>2. CASE \/ Finds(k) \/ Locks(k) \/ Restores(k) \/ Replaces(k) \/ Refuses(k)
  BY <1>2 DEF Finds, Locks, Restores, Replaces, Refuses, Goes
<1>3. CASE \/ Adopts(k) \/ Opens(k) \/ Resumes(k) \/ Tracks(k) \/ GoesOn(k)
  BY <1>3 DEF Adopts, Opens, Resumes, Tracks, GoesOn, Goes
<1> QED BY <1>1, <1>2, <1>3 DEF Shape

\* Every step has one of the shapes.
LEMMA StepShapes ==
  ASSUME TypeOK, Handled, [Next]_vars
  PROVE  Shapes
<1>1. ASSUME Dies \/ Respawns \/ (\E w \in Wires : SessionUpdate(w)) \/ UNCHANGED vars
      PROVE  Rests
  <2>1. cur \in Int
    BY Numbers DEF TypeOK
  <2> QED BY <1>1, <2>1 DEF Dies, Respawns, SessionUpdate, Rests, TablesKept, vars, child, tables
<1>2. ASSUME NEW s \in Wires, DropSession(s)
      PROVE  Drops(s)
  BY <1>2, Forgetting DEF DropSession, Drops, IdsKept, child, TypeOK
<1>3. ASSUME NEW k \in Callers, NEW op \in Ops, NEW s \in Wires \cup {NoWire}, Begin(k, op, s)
      PROVE  Shape(k)
  BY <1>3, Beginning DEF Shape
<1>4. ASSUME NEW k \in Callers, Call(k)
      PROVE  Shape(k)
  BY <1>4, GoingOn, Quitting, Looking, Routing, Establishes, Calling DEF Call, Shape
<1> QED BY <1>1, <1>2, <1>3, <1>4 DEF Next, Shapes

-----------------------------------------------------------------------------
(* Types                                                                    *)

CallsTyped == at \in [Callers -> CallT] /\ \A k \in Callers : at[k].rec <= Len(recs)

ChildTyped ==
    /\ cur \in 1 .. MaxGens /\ up \in BOOLEAN /\ caps \in Agents
    /\ prompted \subseteq held /\ held \subseteq Wires
    /\ run \in [Wires -> {"none", "live", "stopped", "cancelled"}]
    /\ minted \in 0 .. MaxWires /\ home \in [Wires -> Wires \cup {NoWire}]

TablesTyped ==
    /\ recs \in Seq(Rec) /\ sess \in [Wires -> 0 .. Len(recs)]
    /\ alias \in [Wires -> Wires \cup {NoWire}]
    /\ {muted, sinks, notes, raced} \subseteq SUBSET Wires

LEMMA TypeParts == TypeOK <=> ChildTyped /\ TablesTyped /\ CallsTyped
BY DEF TypeOK, ChildTyped, TablesTyped, CallsTyped

LEMMA GoTyped ==
  ASSUME TypeOK, NEW k \in Callers, NEW c \in CallT, Go(k, c), c.rec <= Len(recs),
         Len(recs') \in Nat, Len(recs) <= Len(recs')
  PROVE  CallsTyped'
<1>1. at' \in [Callers -> CallT]
  BY DEF TypeOK, Go
<1>2. ASSUME NEW j \in Callers PROVE at'[j].rec <= Len(recs')
  <2>1. at'[j] = c \/ at'[j] = at[j]
    BY Going DEF Others
  <2>2. at'[j].rec <= Len(recs) /\ at'[j].rec \in Nat
    BY <1>1, <2>1 DEF TypeOK, CallT
  <2>3. Len(recs) \in Nat
    BY Records
  <2> QED BY <2>2, <2>3
<1> QED BY <1>1, <1>2 DEF CallsTyped

\* A child that takes up session w.
LEMMA HoldsTyped ==
  ASSUME TypeOK, NEW w \in Wires, NEW sp, Holds(w, sp)
  PROVE  prompted' \subseteq held' /\ held' \subseteq Wires
BY DEF TypeOK, Holds

LEMMA Childhood ==
  ASSUME TypeOK, Handled, Next
  PROVE  ChildTyped'
<1>0. ChildTyped
  BY TypeParts
<1>1. ASSUME Dies PROVE ChildTyped'
  BY <1>0, <1>1 DEF Dies, ChildTyped
<1>2. ASSUME Respawns PROVE ChildTyped'
  BY <1>0, <1>2, Numbers DEF Respawns, ChildTyped
<1>3. ASSUME UNCHANGED child PROVE ChildTyped'
  BY <1>0, <1>3 DEF child, ChildTyped
<1>4. ASSUME NEW k \in Callers,
             PromptReaches(k) \/ PromptEnds(k) \/ PromptGivesUp(k) \/ Cancel(k)
      PROVE  ChildTyped'
  <2>1. run' \in [Wires -> {"none", "live", "stopped", "cancelled"}]
    BY <1>0, <1>4 DEF PromptReaches, PromptEnds, PromptGivesUp, Cancel, cancelled, ChildTyped
  <2> QED BY <1>0, <1>4, <2>1 DEF PromptReaches, PromptEnds, PromptGivesUp, Cancel, ChildTyped
<1>5. ASSUME NEW k \in Callers, ChildReleases(k) PROVE ChildTyped'
  BY <1>0, <1>5 DEF ChildReleases, ChildTyped
<1>6. ASSUME NEW k \in Callers, ChildRestores(k) \/ ChildResumes(k) PROVE ChildTyped'
  <2>1. at[k].wire \in Wires
    <3>1. ASSUME ChildRestores(k) PROVE at[k].wire \in Wires
      <4>1. at[k].rec \in Index /\ at[k].wire = recs[at[k].rec].wire
        BY <3>1 DEF ChildRestores, Handled, Recovering
      <4>2. recs[at[k].rec] \in Rec
        BY <4>1, Records
      <4> QED BY <4>1, <4>2 DEF Rec
    <3>2. ASSUME ChildResumes(k) PROVE at[k].wire \in Wires
      BY <3>2, Fields DEF ChildResumes, Handled
    <3> QED BY <1>6, <3>1, <3>2
  <2>2. prompted' \subseteq held' /\ held' \subseteq Wires
    <3>1. ASSUME ChildRestores(k) PROVE Holds(at[k].wire, resent(k))
      BY <3>1 DEF ChildRestores
    <3>2. ASSUME ChildResumes(k) PROVE Holds(at[k].wire, at[k].sp)
      BY <3>2 DEF ChildResumes
    <3> QED BY <1>6, <2>1, <3>1, <3>2, HoldsTyped
  <2> QED BY <1>0, <1>6, <2>2 DEF ChildRestores, ChildResumes, ChildTyped
<1>7. ASSUME NEW k \in Callers, ChildReplaces(k) PROVE ChildTyped'
  <2>1. minted' \in Wires /\ minted' \in 0 .. MaxWires /\ minted' = minted + 1
    BY <1>0, <1>7, Numbers DEF ChildReplaces, ChildTyped, Wires
  <2>2. at[k].sid \in Wires
    BY <1>7, Fields DEF ChildReplaces, Handled, Recovering
  <2>3. prompted' \subseteq held' /\ held' \subseteq Wires
    BY <1>7, <2>1, HoldsTyped DEF ChildReplaces
  <2>4. home' \in [Wires -> Wires \cup {NoWire}]
    BY <1>0, <1>7, <2>2 DEF ChildReplaces, ChildTyped
  <2> QED BY <1>0, <1>7, <2>1, <2>3, <2>4 DEF ChildReplaces, ChildTyped
<1>8. ASSUME NEW k \in Callers, NEW prompt, NEW sys, Makes(k, prompt, sys) PROVE ChildTyped'
  <2>1. minted' \in Wires /\ minted' \in 0 .. MaxWires
    BY <1>0, <1>8, Numbers DEF Makes, ChildTyped, Wires
  <2>2. prompted' \subseteq held' /\ held' \subseteq Wires
    BY <1>8, <2>1, HoldsTyped DEF Makes
  <2>3. home' \in [Wires -> Wires \cup {NoWire}]
    BY <1>0, <1>8, <2>1 DEF Makes, ChildTyped
  <2> QED BY <1>0, <1>8, <2>1, <2>2, <2>3 DEF Makes, ChildTyped
<1>9. ASSUME NEW k \in Callers, Discard(k) PROVE ChildTyped'
  BY <1>0, <1>9 DEF Discard, ChildTyped
<1>10. ASSUME NEW k \in Callers, Call(k) PROVE ChildTyped'
  <2>1. CASE ChildOpens(k) \/ ChildForks(k)
    BY <1>8, <2>1 DEF ChildOpens, ChildForks
  <2>2. CASE \/ Live(k) \/ Peek(k) \/ Route(k) \/ ChildRefuses(k) \/ RecoveryFails(k) \/ Adopt(k)
             \/ Track(k) \/ Wire(k) \/ ChildSetsModel(k) \/ NoteModel(k) \/ CallFails(k)
             \/ Unanswered(k)
    BY <1>3, <2>2 DEF Live, Peek, Route, ChildRefuses, RecoveryFails, Adopt, Track, Wire,
                      ChildSetsModel, NoteModel, CallFails, Unanswered
  <2> QED BY <1>4, <1>5, <1>6, <1>7, <1>9, <1>10, <2>1, <2>2 DEF Call
<1>11. ASSUME NEW k \in Callers, NEW op \in Ops, NEW s \in Wires \cup {NoWire}, Begin(k, op, s)
       PROVE  ChildTyped'
  BY <1>3, <1>11 DEF Begin
<1>12. ASSUME NEW w \in Wires, SessionUpdate(w) \/ DropSession(w) PROVE ChildTyped'
  BY <1>3, <1>12 DEF SessionUpdate, DropSession
<1> QED BY <1>1, <1>2, <1>10, <1>11, <1>12 DEF Next

LEMMA Tabulation ==
  ASSUME TypeOK, Handled, Next
  PROVE  TablesTyped' /\ Len(recs') \in Nat /\ Len(recs) <= Len(recs')
<1> DEFINE Q == TablesTyped' /\ Len(recs') \in Nat /\ Len(recs) <= Len(recs')
<1>0. TablesTyped
  BY TypeParts
<1>1. ASSUME UNCHANGED tables PROVE Q
  BY <1>0, <1>1, Records DEF tables, TablesTyped
<1>2. ASSUME UNCHANGED <<recs, sess, alias, raced, sinks>>, muted' \subseteq Wires,
             notes' \subseteq Wires
      PROVE  Q
  BY <1>0, <1>2, Records DEF TablesTyped
<1>3. ASSUME NEW w \in Wires, SessionUpdate(w) PROVE Q
  BY <1>0, <1>2, <1>3 DEF SessionUpdate, TablesTyped, CallerFor
<1>4. ASSUME NEW s \in Wires PROVE untracked(s) \in [Wires -> Wires \cup {NoWire}]
  BY <1>0 DEF untracked, TablesTyped
<1>5. ASSUME NEW s \in Wires PROVE races(s) \subseteq Wires
  BY <1>0 DEF races, TablesTyped
<1>6. ASSUME NEW s \in Wires, DropSession(s) PROVE Q
  BY <1>0, <1>4, <1>5, <1>6, Records DEF DropSession, TablesTyped
<1>7. ASSUME NEW k \in Callers, NEW r \in Index, NEW e \in Rec, recs' = [recs EXCEPT ![r] = e],
             sess' = sess, raced' = raced, sinks' = sinks, muted' \subseteq Wires,
             notes' \subseteq Wires, alias' \in [Wires -> Wires \cup {NoWire}]
      PROVE  Q
  BY <1>0, <1>7, Records, ExceptSeq DEF TablesTyped, Index
<1>8. ASSUME NEW k \in Callers, Recovering(k)
      PROVE  /\ at[k].rec \in Index /\ recs[at[k].rec] \in Rec
             /\ \A b \in BOOLEAN : [recs[at[k].rec] EXCEPT !.locked = b] \in Rec
             /\ recs[at[k].rec].wire \in Wires /\ at[k].sid \in Wires
  <2>1. at[k].rec \in Index /\ at[k].sid \in Wires
    BY <1>8, Fields DEF Handled
  <2>2. recs[at[k].rec] \in Rec
    BY <2>1, Records
  <2> QED BY <2>1, <2>2 DEF Rec
<1>9. ASSUME NEW k \in Callers, Route(k) PROVE Q
  <2>1. CASE onChild(recs[at[k].rec], at[k].gen)
    BY <1>0, <1>2, <1>9, <2>1 DEF Route, TablesTyped
  <2>2. CASE ~onChild(recs[at[k].rec], at[k].gen)
    <3>1. Recovering(k)
      BY <1>9 DEF Route, Recovering
    <3>2. recs' = [recs EXCEPT ![at[k].rec] = [recs[at[k].rec] EXCEPT !.locked = TRUE]]
      BY <1>9, <2>2 DEF Route
    <3>3. /\ muted' \subseteq Wires /\ notes' \subseteq Wires
          /\ sess' = sess /\ raced' = raced /\ sinks' = sinks
          /\ alias' \in [Wires -> Wires \cup {NoWire}]
      BY <1>0, <1>8, <1>9, <2>2, <3>1 DEF Route, TablesTyped
    <3> QED BY <1>7, <1>8, <3>1, <3>2, <3>3
  <2> QED BY <2>1, <2>2
<1>10. ASSUME NEW k \in Callers, ChildRefuses(k) PROVE Q
  <2>1. at[k].wire \in Wires
    BY <1>8, <1>10 DEF ChildRefuses, Handled, Recovering
  <2>2. muted' \subseteq Wires
    BY <1>0, <1>10, <2>1 DEF ChildRefuses, unmuted, TablesTyped
  <2> QED BY <1>0, <1>2, <1>10, <2>2 DEF ChildRefuses, TablesTyped
<1>11. ASSUME NEW k \in Callers, RecoveryFails(k) PROVE Q
  <2>1. Recovering(k)
    BY <1>11 DEF RecoveryFails, Recovering
  <2>2. recs' = [recs EXCEPT ![at[k].rec] = [recs[at[k].rec] EXCEPT !.locked = FALSE]]
    BY <1>11 DEF RecoveryFails
  <2>3. /\ muted' \subseteq Wires /\ notes' \subseteq Wires
        /\ sess' = sess /\ raced' = raced /\ sinks' = sinks
        /\ alias' \in [Wires -> Wires \cup {NoWire}]
    BY <1>0, <1>11 DEF RecoveryFails, unmuted, TablesTyped
  <2> QED BY <1>7, <1>8, <2>1, <2>2, <2>3
<1>12. ASSUME NEW k \in Callers, Adopt(k) PROVE Q
  <2> DEFINE r == at[k].rec
             e == [recs[r] EXCEPT !.gen = at[k].gen, !.wire = at[k].wire, !.locked = FALSE]
  <2>1. Recovering(k)
    BY <1>12 DEF Adopt, Recovering
  <2>2. recs' = [recs EXCEPT ![r] = e]
    BY <1>12 DEF Adopt
  <2>3. at[k].gen \in 1 .. MaxGens /\ at[k].wire \in Wires /\ recs[r] \in Rec
    BY <1>8, <1>12, <2>1, Fields DEF Adopt, Handled
  <2>4. e \in Rec
    BY <2>3 DEF Rec
  <2>5. /\ muted' \subseteq Wires /\ notes' \subseteq Wires
        /\ sess' = sess /\ raced' = raced /\ sinks' = sinks
        /\ alias' \in [Wires -> Wires \cup {NoWire}]
    BY <1>0, <1>8, <1>12, <2>1 DEF Adopt, TablesTyped
  <2> HIDE DEF e
  <2> QED BY <1>7, <1>8, <2>1, <2>2, <2>4, <2>5
<1>13. ASSUME NEW k \in Callers, Track(k) PROVE Q
  <2> DEFINE w == at[k].wire
             e == [gen |-> at[k].gen, wire |-> w, sys |-> at[k].sp, locked |-> FALSE]
  <2>1. w \in Wires /\ at[k].gen \in 1 .. MaxGens /\ at[k].sp \in BOOLEAN
    BY <1>13, Fields, Records DEF Track, Handled, CallT
  <2>2. e \in Rec
    BY <2>1 DEF Rec
  <2>3. recs' = Append(recs, e) /\ sess' = [sess EXCEPT ![w] = Len(recs) + 1]
    BY <1>13 DEF Track, track
  <2> HIDE DEF e
  <2>4. recs' \in Seq(Rec) /\ Len(recs') = Len(recs) + 1
    BY <2>2, <2>3, Records
  <2>5. sess' \in [Wires -> 0 .. Len(recs')]
    <3>1. ASSUME NEW x \in Wires PROVE sess'[x] \in 0 .. (Len(recs) + 1)
      BY <1>0, <2>3, Records DEF TablesTyped
    <3>2. sess' = [x \in Wires |-> sess'[x]]
      BY <1>0, <2>3 DEF TablesTyped
    <3> QED BY <2>4, <3>1, <3>2
  <2>6. alias' \in [Wires -> Wires \cup {NoWire}] /\ raced' \subseteq Wires
    BY <1>4, <1>5, <1>13, <2>1 DEF Track, track
  <2> QED BY <1>0, <1>13, <2>4, <2>5, <2>6, Records DEF Track, TablesTyped
<1>14. ASSUME NEW k \in Callers, Wire(k) PROVE Q
  <2>1. at[k].wire \in Wires
    BY <1>14, Fields DEF Wire, Handled
  <2> QED BY <1>0, <1>14, <2>1, Records DEF Wire, TablesTyped
<1>15. ASSUME NEW k \in Callers, Discard(k) PROVE Q
  <2>1. at[k].wire \in Wires
    BY <1>15, Fields DEF Discard, Handled
  <2> QED BY <1>0, <1>4, <1>15, <2>1, Records DEF Discard, TablesTyped
<1>16. ASSUME NEW k \in Callers, NoteModel(k) PROVE Q
  BY <1>0, <1>2, <1>16 DEF NoteModel, TablesTyped
<1>17. ASSUME NEW k \in Callers, Call(k) PROVE Q
  <2>1. CASE \/ Live(k) \/ Peek(k) \/ ChildRestores(k) \/ ChildReplaces(k) \/ ChildOpens(k)
             \/ ChildForks(k) \/ ChildResumes(k) \/ ChildSetsModel(k) \/ ChildReleases(k)
             \/ CallFails(k) \/ PromptReaches(k) \/ PromptEnds(k) \/ PromptGivesUp(k)
             \/ Cancel(k) \/ Unanswered(k)
    BY <1>1, <2>1 DEF Live, Peek, ChildRestores, ChildReplaces, ChildOpens, ChildForks, Makes,
                      ChildResumes, ChildSetsModel, ChildReleases, CallFails, PromptReaches,
                      PromptEnds, PromptGivesUp, Cancel, Unanswered
  <2> QED BY <1>9, <1>10, <1>11, <1>12, <1>13, <1>14, <1>15, <1>16, <1>17, <2>1 DEF Call
<1>18. ASSUME NEW k \in Callers, NEW op \in Ops, NEW s \in Wires \cup {NoWire}, Begin(k, op, s)
       PROVE  Q
  BY <1>1, <1>18 DEF Begin
<1>19. ASSUME Dies \/ Respawns PROVE Q
  BY <1>1, <1>19 DEF Dies, Respawns
<1> QED BY <1>3, <1>6, <1>17, <1>18, <1>19 DEF Next

LEMMA CallsTypedStep ==
  ASSUME TypeOK, Handled, Next
  PROVE  CallsTyped'
<1>0. Len(recs') \in Nat /\ Len(recs) <= Len(recs') /\ Len(recs) \in Nat
  BY Tabulation, Records
<1>1. ASSUME NEW k \in Callers, NEW c \in CallT, Go(k, c), c.rec <= Len(recs) PROVE CallsTyped'
  BY <1>0, <1>1, GoTyped
<1>2. /\ Idle \in CallT /\ Idle.rec = 0
      /\ {"idle", "live", "lock", "resume", "load", "new", "adopt", "call", "track", "wire",
          "note", "giveUp", "unwinding"} \subseteq Stages
  BY Numbers DEF Stages, Idle
<1>3. ASSUME UNCHANGED at PROVE CallsTyped'
  <2>1. CallsTyped
    BY TypeParts
  <2>2. \A k \in Callers : at[k].rec \in Nat
    BY Fields
  <2> QED BY <1>0, <1>3, <2>1, <2>2 DEF CallsTyped
<1>4. \A k \in Callers : at[k] \in CallT /\ at[k].rec <= Len(recs)
  BY Records DEF TypeOK
<1>5. ASSUME NEW k \in Callers, NEW op \in Ops, NEW s \in Wires \cup {NoWire}, Begin(k, op, s)
      PROVE  CallsTyped'
  <2> DEFINE c == [Idle EXCEPT !.pc = "live", !.op = op, !.sid = s,
                               !.sp = op = "fork" /\ "stable" \in caps]
  <2>1. Go(k, c)
    BY <1>5 DEF Begin
  <2>2. s \in 0 .. MaxWires
    BY Numbers DEF Wires
  <2>3. c \in CallT /\ c.rec = 0
    BY <1>2, <2>2 DEF Idle, CallT
  <2> HIDE DEF c
  <2> QED BY <1>0, <1>1, <2>1, <2>3
<1>6. ASSUME NEW k \in Callers, Go(k, Idle) PROVE CallsTyped'
  BY <1>0, <1>1, <1>2, <1>6
<1>7. ASSUME NEW k \in Callers, Live(k) PROVE CallsTyped'
  <2> DEFINE c == [at[k] EXCEPT !.gen = cur]
  <2>1. cur \in 0 .. MaxGens /\ at[k].sid \in Wires \cup {NoWire} /\ at[k].sid \in 0 .. MaxWires
    <3>1. cur \in 0 .. MaxGens
      BY Numbers DEF TypeOK
    <3>2. at[k].sid \in Wires \cup {NoWire}
      BY Fields
    <3>3. at[k].sid \in 0 .. MaxWires
      BY <3>2, Numbers DEF Wires
    <3> QED BY <3>1, <3>2, <3>3
  <2>2. c \in CallT /\ c.rec <= Len(recs)
    BY <1>4, <2>1 DEF CallT
  <2>3. c.op = at[k].op /\ c.sid = at[k].sid
    BY <1>4 DEF CallT
  <2>4. CASE at[k].op \in {"new", "probe", "resume"}
    <3> DEFINE d == [c EXCEPT !.pc = "call", !.sp = "stable" \in caps, !.wire = at[k].sid]
    <3>1. Go(k, d)
      BY <1>7, <2>3, <2>4 DEF Live
    <3>2. d \in CallT /\ d.rec <= Len(recs)
      <4> HIDE DEF c
      <4>1. \A b \in BOOLEAN :
                LET e == [c EXCEPT !.pc = "call", !.sp = b, !.wire = at[k].sid] IN
                e \in CallT /\ e.rec <= Len(recs)
        BY <1>2, <2>1, <2>2 DEF CallT
      <4>2. ("stable" \in caps) \in BOOLEAN
        OBVIOUS
      <4> QED BY <4>1, <4>2
    <3> HIDE DEF d
    <3> QED BY <1>1, <3>1, <3>2
  <2>5. CASE at[k].op \notin {"new", "probe", "resume"} /\ sess[at[k].sid] = 0
    <3> DEFINE d == [c EXCEPT !.pc = "call", !.wire = at[k].sid]
    <3>1. Go(k, d)
      BY <1>7, <2>3, <2>5 DEF Live
    <3>2. d \in CallT /\ d.rec <= Len(recs)
      <4> HIDE DEF c
      <4> QED BY <1>2, <2>1, <2>2 DEF CallT
    <3> HIDE DEF d
    <3> QED BY <1>1, <3>1, <3>2
  <2>6. CASE at[k].op \notin {"new", "probe", "resume"} /\ sess[at[k].sid] # 0
    <3> DEFINE d == [c EXCEPT !.pc = "lock", !.rec = sess[at[k].sid]]
    <3>1. Go(k, d)
      BY <1>7, <2>3, <2>6 DEF Live
    <3>2. sess[at[k].sid] \in 0 .. Len(recs)
      BY <1>7, <2>6, Fields DEF TypeOK, Handled
    <3>3. sess[at[k].sid] \in Nat /\ sess[at[k].sid] <= Len(recs)
      BY <1>0, <3>2
    <3>4. d \in CallT /\ d.rec <= Len(recs)
      <4> HIDE DEF c
      <4> QED BY <1>2, <2>2, <3>3 DEF CallT
    <3> HIDE DEF d
    <3> QED BY <1>1, <3>1, <3>4
  <2> QED BY <2>4, <2>5, <2>6
<1>8. ASSUME NEW k \in Callers, Recovering(k)
      PROVE  recs[at[k].rec].wire \in Wires \cup {NoWire}
  BY <1>8, Records DEF Handled, Rec
<1>9. ASSUME NEW k \in Callers, NEW p \in Stages, NEW w \in Wires \cup {NoWire},
             NEW b \in BOOLEAN, NEW cs \in SUBSET Features,
             \/ Go(k, [at[k] EXCEPT !.pc = p])
             \/ Go(k, [at[k] EXCEPT !.pc = p, !.wire = w])
             \/ Go(k, [at[k] EXCEPT !.pc = p, !.wire = w, !.caps = cs])
             \/ Go(k, [at[k] EXCEPT !.pc = p, !.wire = w, !.sp = b])
             \/ Go(k, [at[k] EXCEPT !.pc = p, !.sp = b])
             \/ Go(k, [at[k] EXCEPT !.sent = TRUE])
      PROVE  CallsTyped'
  <2>1. w \in 0 .. MaxWires
    BY Numbers DEF Wires
  <2>2. /\ [at[k] EXCEPT !.pc = p] \in CallT /\ [at[k] EXCEPT !.pc = p].rec = at[k].rec
        /\ [at[k] EXCEPT !.pc = p, !.wire = w] \in CallT
        /\ [at[k] EXCEPT !.pc = p, !.wire = w].rec = at[k].rec
        /\ [at[k] EXCEPT !.pc = p, !.wire = w, !.caps = cs] \in CallT
        /\ [at[k] EXCEPT !.pc = p, !.wire = w, !.caps = cs].rec = at[k].rec
        /\ [at[k] EXCEPT !.pc = p, !.wire = w, !.sp = b] \in CallT
        /\ [at[k] EXCEPT !.pc = p, !.wire = w, !.sp = b].rec = at[k].rec
        /\ [at[k] EXCEPT !.pc = p, !.sp = b] \in CallT
        /\ [at[k] EXCEPT !.pc = p, !.sp = b].rec = at[k].rec
        /\ [at[k] EXCEPT !.sent = TRUE] \in CallT /\ [at[k] EXCEPT !.sent = TRUE].rec = at[k].rec
    BY <1>4, <2>1 DEF CallT
  <2> QED BY <1>1, <1>4, <1>9, <2>2
<1>10. caps \in SUBSET Features /\ TRUE \in BOOLEAN /\ NoWire \in Wires \cup {NoWire}
  BY SessionsAssumption DEF TypeOK
<1>11. \A cs : Way(cs) \in Stages
  BY <1>2 DEF Way
<1>12. ASSUME NEW k \in Callers, Peek(k) \/ Route(k) PROVE CallsTyped'
  <2>1. Recovering(k)
    BY <1>12 DEF Peek, Route, Recovering
  <2>2. CASE \E p \in Stages : Go(k, [at[k] EXCEPT !.pc = p, !.wire = recs[at[k].rec].wire])
    BY <1>8, <1>9, <1>10, <2>1, <2>2
  <2>3. CASE \E p \in Stages :
                 Go(k, [at[k] EXCEPT !.pc = p, !.wire = recs[at[k].rec].wire, !.caps = caps])
    BY <1>8, <1>9, <1>10, <2>1, <2>3
  <2> QED BY <1>2, <1>11, <1>12, <2>2, <2>3 DEF Peek, Route
<1>13. ASSUME NEW k \in Callers,
              \/ ChildRestores(k) \/ ChildRefuses(k) \/ Adopt(k) \/ Track(k) \/ ChildSetsModel(k)
              \/ PromptGivesUp(k) \/ Cancel(k)
       PROVE  CallsTyped'
  <2>1. \E p \in Stages : Go(k, [at[k] EXCEPT !.pc = p])
    BY <1>2, <1>11, <1>13 DEF ChildRestores, ChildRefuses, Adopt, Track, ChildSetsModel,
                              PromptGivesUp, Cancel
  <2> QED BY <1>9, <1>10, <2>1
<1>14. ASSUME NEW k \in Callers, ChildReplaces(k) PROVE CallsTyped'
  <2>1. minted' \in Wires
    BY <1>14, Numbers DEF ChildReplaces, TypeOK, Wires
  <2> QED BY <1>2, <1>9, <1>10, <1>14, <2>1 DEF ChildReplaces
<1>15. ASSUME NEW k \in Callers, NEW prompt, NEW sys \in BOOLEAN, Makes(k, prompt, sys)
       PROVE  CallsTyped'
  <2>1. minted' \in Wires
    BY <1>15, Numbers DEF Makes, TypeOK, Wires
  <2> QED BY <1>2, <1>9, <1>10, <1>15, <2>1 DEF Makes
<1>16. ASSUME NEW k \in Callers, ChildForks(k) PROVE CallsTyped'
  <2> DEFINE sys == sess[at[k].sid] # 0 /\ recs[sess[at[k].sid]].sys
  <2>1. sys \in BOOLEAN
    OBVIOUS
  <2>2. Makes(k, (at[k].sp /\ sys) \/ at[k].wire \in prompted, sys)
    BY <1>16 DEF ChildForks
  <2> HIDE DEF sys
  <2> QED BY <1>15, <2>1, <2>2
<1>17. ASSUME NEW k \in Callers, ChildOpens(k) PROVE CallsTyped'
  BY <1>10, <1>15, <1>17 DEF ChildOpens
<1>18. ASSUME NEW k \in Callers, ChildResumes(k) PROVE CallsTyped'
  BY <1>2, <1>9, <1>10, <1>18 DEF ChildResumes
<1>19. ASSUME NEW k \in Callers, PromptReaches(k) PROVE CallsTyped'
  BY <1>2, <1>9, <1>10, <1>19 DEF PromptReaches
<1>20. ASSUME NEW k \in Callers,
              \/ RecoveryFails(k) \/ Wire(k) \/ Discard(k) \/ NoteModel(k) \/ ChildReleases(k)
              \/ CallFails(k) \/ PromptEnds(k) \/ Unanswered(k)
       PROVE  CallsTyped'
  BY <1>6, <1>20 DEF RecoveryFails, Wire, Discard, NoteModel, ChildReleases, CallFails, PromptEnds,
                     Unanswered, Return
<1>21. ASSUME NEW k \in Callers, Call(k) PROVE CallsTyped'
  BY <1>7, <1>12, <1>13, <1>14, <1>16, <1>17, <1>18, <1>19, <1>20, <1>21 DEF Call
<1>22. ASSUME Dies \/ Respawns \/ (\E w \in Wires : SessionUpdate(w) \/ DropSession(w))
       PROVE  CallsTyped'
  BY <1>3, <1>22 DEF Dies, Respawns, SessionUpdate, DropSession
<1> QED BY <1>5, <1>21, <1>22 DEF Next

LEMMA TypeStep ==
  ASSUME TypeOK, Handled, [Next]_vars
  PROVE  TypeOK'
<1>1. CASE Next
  BY <1>1, Childhood, Tabulation, CallsTypedStep, TypeParts DEF TypeOK, ChildTyped, TablesTyped,
     CallsTyped
<1>2. CASE UNCHANGED vars
  BY <1>2 DEF vars, child, tables, TypeOK
<1> QED BY <1>1, <1>2

-----------------------------------------------------------------------------
(* The parts of the invariant                                               *)

LEMMA Ints ==
  ASSUME TypeOK
  PROVE  /\ cur \in Nat /\ minted \in Nat /\ Len(recs) \in Nat
         /\ \A w \in Wires : w \in Nat /\ w # NoWire /\ home[w] \in Nat /\ alias[w] \in Nat
         /\ \A q \in Index : q \in Nat /\ q # 0 /\ recs[q].wire \in Wires /\ recs[q].gen \in Nat
         /\ \A w \in Wires : sess[w] # 0 => sess[w] \in Index
         /\ sinks \subseteq Wires /\ NoWire = 0
<1>1. cur \in Nat /\ minted \in Nat /\ Len(recs) \in Nat /\ sinks \subseteq Wires /\ NoWire = 0
  BY Numbers, Records DEF TypeOK
<1>2. \A w \in Wires : w \in Nat /\ w # NoWire /\ home[w] \in Nat /\ alias[w] \in Nat
  BY Numbers DEF TypeOK
<1>3. \A q \in Index : q \in Nat /\ q # 0 /\ recs[q].wire \in Wires /\ recs[q].gen \in Nat
  BY Numbers, Records DEF Index, Rec
<1>4. \A w \in Wires : sess[w] # 0 => sess[w] \in Index
  BY <1>1 DEF TypeOK, Index
<1> QED BY <1>1, <1>2, <1>3, <1>4

\* What becomes of the records.
LEMMA NewIndex ==
  ASSUME TypeOK, Shapes
  PROVE  \/ Len(recs') = Len(recs) /\ Index' = Index
         \/ \E k \in Callers : /\ Tracks(k) /\ Index' = Index \cup {Len(recs) + 1}
                                /\ Len(recs) + 1 \notin Index /\ Index \subseteq Index'
<1>1. ASSUME NEW k \in Callers, Tracks(k)
      PROVE  /\ Index' = Index \cup {Len(recs) + 1} /\ Len(recs) + 1 \notin Index
             /\ Index \subseteq Index'
  BY <1>1, Records DEF Tracks, Index
<1>2. Len(recs') = Len(recs) \/ \E k \in Callers : Tracks(k)
  BY DEF Shapes, Shape, Rests, Drops, Starts, Looks, Finds, Locks, Restores, Replaces, Refuses, Fails,
         Adopts, Opens, Resumes, Hears, Discards, GoesOn, Quits, Kept, TablesKept, SetsLock, Mints
<1> QED BY <1>1, <1>2 DEF Index

\* A call begins in the hands of the relay.
LEMMA StartFacts ==
  ASSUME IInv, NEW k \in Callers, Starts(k)
  PROVE  /\ at'[k].sid <= minted
         /\ at'[k].op \notin {"new", "probe"} => at'[k].sid \in Wires
         /\ at'[k].op = "resume" => Resumable(at'[k].sid)
         /\ at'[k].op = "prompt" => at'[k].sid \in sinks /\ ~Prompting(at'[k].sid)
         /\ at'[k].op \notin {"new", "probe", "resume"} => at'[k].sid \in sinks
         /\ at'[k].op \in {"new", "probe"} => at'[k].sid = NoWire
<1>1. /\ at'[k].op = "resume" => Resumable(at'[k].sid)
      /\ at'[k].op = "prompt" => at'[k].sid \in sinks /\ ~Prompting(at'[k].sid)
      /\ at'[k].op \notin {"new", "probe", "resume"} => at'[k].sid \in sinks
      /\ at'[k].op \in {"new", "probe"} => at'[k].sid = NoWire
  BY DEF Starts
<1>2. /\ minted \in Nat /\ MaxWires \in Nat /\ minted <= MaxWires /\ sinks \subseteq Wires
      /\ NoWire = 0
  BY Numbers, Ints DEF IInv, TypeOK
<1>3. \A s : Resumable(s) => s \in Wires /\ s <= minted
  BY <1>2 DEF Resumable, Wires
<1>4. \A s \in sinks : s \in Wires /\ s <= minted
  BY <1>2 DEF IInv, Bounded
<1> QED BY <1>1, <1>2, <1>3, <1>4

LEMMA BoundedStep ==
  ASSUME IInv, TypeOK', Shapes
  PROVE  Bounded'
<1>0. TypeOK /\ Bounded /\ Handled
  BY DEF IInv
<1>1. /\ minted' \in Nat /\ minted <= minted' /\ cur <= cur' /\ cur' \in Nat
      /\ minted' = minted \/ \E d : Mints(d)
  <2>1. /\ minted' = minted \/ \E d : Mints(d)
        /\ cur' = cur \/ Rests
    BY DEF Shapes, Shape, Drops, Starts, Looks, Finds, Locks, Restores, Replaces, Refuses,
           Fails, Adopts, Opens, Resumes, Tracks, Hears, Discards, GoesOn, Quits, Kept, IdsKept, Mints,
           Rests
  <2>2. minted \in Nat /\ cur \in Nat
    BY <1>0, Ints
  <2> QED BY <2>1, <2>2, Numbers DEF Mints, Rests, TypeOK
<1>2. ASSUME NEW w \in Wires PROVE home'[w] <= minted' /\ (home'[w] # NoWire => w <= minted')
  <2>1. /\ home[w] <= minted /\ (home[w] # NoWire => w <= minted)
        /\ home[w] \in Nat /\ w \in Nat /\ minted \in Nat
    BY <1>0, Ints DEF Bounded
  <2>2. CASE home'[w] = home[w]
    BY <1>1, <2>1, <2>2
  <2>3. CASE \E k \in Callers : Replaces(k)
    <3> PICK k \in Callers : Replaces(k)
      BY <2>3
    <3>1. home[at[k].sid] <= minted /\ home[at[k].sid] \in Nat
      <4>1. at[k].sid \in Wires
        BY <1>0, Fields DEF Replaces, Handled, Recovering
      <4> QED BY <1>0, <4>1, Ints DEF Bounded
    <3> QED BY <2>1, <3>1 DEF Replaces, Mints
  <2>4. CASE \E k \in Callers : Opens(k)
    BY <2>1, <2>4 DEF Opens, Mints
  <2>5. CASE \E k \in Callers : Discards(k)
    BY <1>1, <2>1, <2>5, Numbers DEF Discards
  <2> QED BY <2>2, <2>3, <2>4, <2>5
          DEF Shapes, Shape, Rests, Drops, Starts, Looks, Finds, Locks, Restores, Refuses, Fails,
              Adopts, Resumes, Tracks, Hears, GoesOn, Quits, Kept, IdsKept
<1>3. ASSUME NEW k \in Callers
      PROVE  at'[k].sid <= minted' /\ at'[k].wire <= minted' /\ at'[k].gen <= cur'
  <2>1. /\ at[k].sid <= minted /\ at[k].wire <= minted /\ at[k].gen <= cur
        /\ at[k].sid \in Nat /\ at[k].wire \in Nat /\ at[k].gen \in Nat /\ 0 = NoWire
        /\ minted \in Nat /\ cur \in Nat
    BY <1>0, Fields, Numbers, Ints DEF Bounded
  <2>2. Recovering(k) => recs[at[k].rec].wire \in Nat /\ recs[at[k].rec].wire <= minted
    BY <1>0, Ints DEF Handled, Bounded
  <2>3. CASE at'[k] = at[k]
    BY <1>1, <2>1, <2>3
  <2>4. CASE at'[k] = Idle
    BY <1>1, <2>1, <2>4 DEF Idle
  <2>5. CASE Starts(k)
    <3>1. at'[k].sid <= minted
      BY <2>5, StartFacts
    <3>2. at'[k].wire = 0 /\ at'[k].gen = 0
      BY <2>1, <2>5 DEF Starts
    <3>3. at'[k].sid \in Nat
      BY Fields, Numbers DEF TypeOK, CallT
    <3> QED BY <1>1, <2>1, <3>1, <3>2, <3>3
  <2>6. CASE Looks(k)
    <3>1. at'[k].sid = at[k].sid /\ at'[k].gen = cur /\ at'[k].wire \in {at[k].sid, at[k].wire}
      BY <2>6 DEF Looks
    <3> QED BY <1>1, <2>1, <3>1
  <2>7. CASE Finds(k) \/ Locks(k)
    <3>1. /\ at'[k].sid = at[k].sid /\ at'[k].gen = at[k].gen
          /\ at'[k].wire = recs[at[k].rec].wire /\ Recovering(k)
      BY <2>7 DEF Finds, Locks, Goes, Recovering
    <3> QED BY <1>1, <2>1, <2>2, <3>1
  <2>8. CASE \/ Restores(k) \/ Refuses(k) \/ Adopts(k) \/ Resumes(k) \/ Tracks(k) \/ GoesOn(k)
    <3>1. at'[k].sid = at[k].sid /\ at'[k].gen = at[k].gen /\ at'[k].wire = at[k].wire
      BY <2>8 DEF Restores, Refuses, Adopts, Resumes, Tracks, GoesOn, Goes
    <3> QED BY <1>1, <2>1, <3>1
  <2>9. CASE Replaces(k) \/ Opens(k)
    <3>1. /\ at'[k].sid = at[k].sid /\ at'[k].gen = at[k].gen /\ at'[k].wire = minted + 1
          /\ minted' = minted + 1
      BY <2>9 DEF Replaces, Opens, Goes, Mints
    <3> QED BY <1>1, <2>1, <3>1
  <2>10. CASE Fails(k) \/ Hears(k) \/ Discards(k) \/ Quits(k)
    BY <2>4, <2>10 DEF Fails, Hears, Discards, Quits, Leaves
  <2>11. CASE \E j \in Callers : j # k /\ Shape(j)
    <3>1. \E j \in Callers : j # k /\ Others(j)
      BY <2>11, OthersRest
    <3> QED BY <2>3, <3>1 DEF Others
  <2> QED BY <2>3, <2>5, <2>6, <2>7, <2>8, <2>9, <2>10, <2>11 DEF Shapes, Shape, Rests, Drops
<1>4. ASSUME NEW q \in Index' PROVE recs'[q].wire <= minted' /\ recs'[q].gen <= cur'
  <2>1. q \in Index =>
            /\ recs[q].wire <= minted /\ recs[q].gen <= cur /\ recs[q].wire \in Nat
            /\ recs[q].gen \in Nat
    BY <1>0, Ints DEF Bounded
  <2>2. minted \in Nat /\ cur \in Nat
    BY <1>0, Ints
  <2>3. CASE q \in Index /\ recs'[q].wire = recs[q].wire /\ recs'[q].gen = recs[q].gen
    BY <1>1, <2>1, <2>2, <2>3
  <2>4. ASSUME NEW k \in Callers, recs'[q].wire = at[k].wire, recs'[q].gen = at[k].gen
        PROVE  recs'[q].wire <= minted' /\ recs'[q].gen <= cur'
    <3>1. at[k].wire <= minted /\ at[k].gen <= cur /\ at[k].wire \in Nat /\ at[k].gen \in Nat
      BY <1>0, Fields, Numbers DEF Bounded
    <3> QED BY <1>1, <2>2, <2>4, <3>1
  <2>5. CASE \E k \in Callers : Tracks(k)
    <3> PICK k \in Callers : Tracks(k)
      BY <2>5
    <3>1. q \in Index \/ q = Len(recs) + 1
      BY <1>0, Records DEF Tracks, Index
    <3> QED BY <2>3, <2>4, <3>1 DEF Tracks
  <2>6. CASE \E k \in Callers : Adopts(k)
    <3> PICK k \in Callers : Adopts(k)
      BY <2>6
    <3>1. q \in Index
      BY DEF Adopts, Index
    <3> QED BY <2>3, <2>4, <3>1 DEF Adopts
  <2>7. CASE \E k \in Callers : Locks(k) \/ Fails(k)
    BY <2>3, <2>7 DEF Locks, Fails, SetsLock, Index
  <2>8. CASE recs' = recs
    BY <2>3, <2>8 DEF Index
  <2> QED BY <2>5, <2>6, <2>7, <2>8
          DEF Shapes, Shape, Rests, Drops, Starts, Looks, Finds, Restores, Replaces, Refuses,
              Opens, Resumes, Hears, Discards, GoesOn, Quits, Kept, TablesKept, Mints
<1>5. ASSUME NEW x \in sinks' PROVE x <= minted'
  <2>1. x \in Nat /\ minted \in Nat
    BY Numbers, Ints, <1>0 DEF TypeOK
  <2>2. CASE x \in sinks
    BY <1>0, <1>1, <2>1, <2>2 DEF Bounded
  <2>3. CASE \E k \in Callers : Hears(k) /\ x = at[k].wire
    BY <1>0, <1>1, <2>1, <2>3 DEF Bounded
  <2> QED BY <2>2, <2>3
          DEF Shapes, Shape, Rests, Drops, Starts, Looks, Finds, Locks, Restores, Replaces, Refuses,
              Fails, Adopts, Opens, Resumes, Tracks, Hears, Discards, GoesOn, Quits, Kept, TablesKept,
              SetsLock, Mints
<1>6. ASSUME NEW w \in Wires, sess'[w] # 0 PROVE w <= minted'
  <2>1. w \in Nat /\ minted \in Nat
    BY <1>0, Ints
  <2>2. CASE sess[w] # 0
    BY <1>0, <1>1, <2>1, <2>2 DEF Bounded
  <2>3. CASE \E k \in Callers : Tracks(k) /\ w = at[k].wire
    BY <1>0, <1>1, <2>1, <2>3 DEF Bounded
  <2>4. CASE \E x \in Wires : Drops(x)
    BY <1>6, <2>2, <2>4 DEF Drops
  <2>5. CASE \E k \in Callers : Tracks(k) \/ Discards(k)
    BY <1>6, <2>2, <2>3, <2>5 DEF Tracks, Discards
  <2>6. CASE sess' = sess
    BY <1>6, <2>2, <2>6
  <2> QED BY <2>4, <2>5, <2>6
          DEF Shapes, Shape, Rests, Starts, Looks, Finds, Locks, Restores, Replaces, Refuses,
              Fails, Adopts, Opens, Resumes, Hears, GoesOn, Quits, Kept, TablesKept, SetsLock, Mints
<1> QED BY <1>2, <1>3, <1>4, <1>5, <1>6 DEF Bounded

\* One call moves, if any.
LEMMA OneMoves ==
  ASSUME Shapes, NEW j \in Callers
  PROVE  /\ at'[j] = at[j] \/ Shape(j)
         /\ \A k \in Callers : Shape(k) /\ k # j => at'[j] = at[j]
  BY OthersRest DEF Shapes, Rests, Drops, Others

\* A record changes its child and wire id when a call adopts it, and its lock
\* in the hands of the call that recovers it.
LEMMA RecordSteps ==
  ASSUME TypeOK, Handled, Shapes, NEW q \in Index
  PROVE  /\ q \in Index'
         /\ \/ recs'[q].wire = recs[q].wire /\ recs'[q].gen = recs[q].gen
            \/ \E k \in Callers : Adopts(k) /\ at[k].rec = q
         /\ \/ recs'[q].locked = recs[q].locked
            \/ \E k \in Callers : (Locks(k) \/ Fails(k) \/ Adopts(k)) /\ at[k].rec = q
         /\ recs'[q].sys = recs[q].sys
<1>1. q \in Index'
  BY NewIndex
<1>2. CASE \E k \in Callers : Locks(k) \/ Fails(k)
  BY <1>1, <1>2 DEF Locks, Fails, SetsLock
<1>3. CASE \E k \in Callers : Adopts(k)
  BY <1>1, <1>3 DEF Adopts
<1>4. CASE \E k \in Callers : Tracks(k)
  BY <1>1, <1>4 DEF Tracks
<1>5. CASE recs' = recs
  BY <1>1, <1>5
<1> QED BY <1>2, <1>3, <1>4, <1>5
        DEF Shapes, Shape, Rests, Drops, Starts, Looks, Finds, Restores, Replaces, Refuses,
            Opens, Resumes, Hears, Discards, GoesOn, Quits, Kept, TablesKept, Mints

LEMMA HandledStep ==
  ASSUME IInv, TypeOK', Shapes
  PROVE  Handled'
<1>0. TypeOK /\ Handled /\ Bounded /\ Locking
  BY DEF IInv
<1> DEFINE Fine(c) ==
      /\ c.pc \notin {"idle", "live"} => c.gen # 0
      /\ c.op \notin {"new", "probe"} => c.sid # NoWire
      /\ c.pc \in {"lock", "resume", "load", "new", "adopt"} =>
             c.rec \in Index' /\ c.op \notin {"new", "probe", "resume"}
      /\ c.pc \in {"resume", "load", "new"} => c.wire = recs'[c.rec].wire
      /\ c.pc \in {"adopt", "track", "wire", "giveUp", "unwinding"} => c.wire # NoWire
      /\ c.pc = "call" /\ c.op \notin {"new", "probe"} => c.wire # NoWire
      /\ c.pc \in {"call", "track", "wire"} /\ c.op = "resume" => c.wire = c.sid
      /\ c.pc \in {"giveUp", "unwinding"} => c.op = "prompt"
      /\ c.op = "prompt" => c.pc # "idle"
<1>1. SUFFICES ASSUME NEW j \in Callers PROVE Fine(at'[j])
  BY DEF Handled, Recovering, Prompts
<1>2. /\ at[j].pc \notin {"idle", "live"} => at[j].gen # 0
      /\ at[j].op \notin {"new", "probe"} => at[j].sid # NoWire
      /\ at[j].pc \in {"lock", "resume", "load", "new", "adopt"} =>
             at[j].rec \in Index /\ at[j].op \notin {"new", "probe", "resume"}
      /\ at[j].pc \in {"resume", "load", "new"} => at[j].wire = recs[at[j].rec].wire
      /\ at[j].pc \in {"adopt", "track", "wire", "giveUp", "unwinding"} => at[j].wire # NoWire
      /\ at[j].pc = "call" /\ at[j].op \notin {"new", "probe"} => at[j].wire # NoWire
      /\ at[j].pc \in {"call", "track", "wire"} /\ at[j].op = "resume" => at[j].wire = at[j].sid
      /\ at[j].pc \in {"giveUp", "unwinding"} => at[j].op = "prompt"
      /\ at[j].op = "prompt" => at[j].pc # "idle"
  BY <1>0 DEF Handled, Recovering, Prompts
<1>3. at[j].rec \in Index => at[j].rec \in Index'
  BY <1>0, NewIndex
<1>4. ASSUME ~Adopts(j), Establishing(j)
      PROVE  recs'[at[j].rec].wire = recs[at[j].rec].wire
  <2>1. at[j].rec \in Index
    BY <1>2, <1>4 DEF Establishing
  <2>2. ASSUME NEW k \in Callers, Adopts(k), at[k].rec = at[j].rec PROVE FALSE
    <3>1. Establishing(k)
      BY <2>2 DEF Adopts, Establishing
    <3> QED BY <1>0, <1>4, <2>2, <3>1 DEF Locking
  <2> QED BY <1>0, <2>1, <2>2, RecordSteps
<1>5. CASE at'[j] = at[j]
  <2>1. ~Adopts(j)
    BY <1>5 DEF Adopts, Goes
  <2>2. at[j].pc \in {"resume", "load", "new"} => at[j].wire = recs'[at[j].rec].wire
    BY <1>2, <1>4, <2>1 DEF Establishing
  <2> QED BY <1>2, <1>3, <1>5, <2>2
<1>6. CASE at'[j] = Idle
  BY <1>6 DEF Idle
<1>7. CASE Starts(j)
  <2>1. at'[j].op \notin {"new", "probe"} => at'[j].sid # NoWire
    BY <1>7, StartFacts, Numbers
  <2> QED BY <1>7, <2>1 DEF Starts
<1>8. CASE Looks(j)
  <2>1. cur # 0
    BY Numbers, <1>0 DEF TypeOK
  <2>2. at[j].op \notin {"new", "probe"} /\ sess[at[j].sid] # 0 => sess[at[j].sid] \in Index
    BY <1>0, <1>2, Fields, Ints
  <2>3. sess[at[j].sid] \in Index => sess[at[j].sid] \in Index'
    BY <1>0, NewIndex
  <2> QED BY <1>2, <1>8, <2>1, <2>2, <2>3 DEF Looks
<1>9. CASE Finds(j)
  <2>1. recs[at[j].rec].wire # NoWire
    BY <1>0, <1>2, <1>9, Ints DEF Finds
  <2> QED BY <1>2, <1>9, <2>1 DEF Finds, Goes
<1>10. CASE Locks(j)
  <2>1. at[j].rec \in Index /\ at[j].pc = "lock"
    BY <1>2, <1>10 DEF Locks
  <2>2. recs'[at[j].rec].wire = recs[at[j].rec].wire
    BY <1>10, <2>1 DEF Locks, SetsLock
  <2>3. PICK p \in {"resume", "load", "new"} : Goes(j, p, recs[at[j].rec].wire)
    BY <1>10 DEF Locks
  <2> QED BY <1>2, <1>3, <2>1, <2>2, <2>3 DEF Goes
<1>11. CASE Restores(j)
  <2>1. at[j].wire # NoWire
    BY <1>0, <1>2, <1>11, Ints DEF Restores
  <2> QED BY <1>2, <1>3, <1>11, <2>1 DEF Restores, Goes
<1>12. CASE Replaces(j)
  <2>1. minted + 1 # NoWire
    BY <1>0, Ints
  <2> QED BY <1>2, <1>3, <1>12, <2>1 DEF Replaces, Goes
<1>13. CASE Refuses(j)
  <2>1. ~Adopts(j) /\ Establishing(j)
    BY <1>13 DEF Refuses, Adopts, Establishing
  <2>2. at[j].wire = recs'[at[j].rec].wire
    BY <1>2, <1>4, <1>13, <2>1 DEF Refuses
  <2> QED BY <1>2, <1>3, <1>13, <2>2 DEF Refuses, Goes
<1>14. CASE Adopts(j)
  BY <1>2, <1>14 DEF Adopts, Goes
<1>15. CASE Opens(j)
  <2>1. minted + 1 # NoWire
    BY <1>0, Ints
  <2> QED BY <1>2, <1>15, <2>1 DEF Opens, Goes
<1>16. CASE Resumes(j) \/ Tracks(j)
  BY <1>2, <1>16 DEF Resumes, Tracks, Goes
<1>17. CASE GoesOn(j)
  <2>1. /\ at'[j].op = at[j].op /\ at'[j].sid = at[j].sid /\ at'[j].gen = at[j].gen
        /\ at'[j].wire = at[j].wire /\ at[j].pc \in Underway /\ at'[j].pc \in Underway
        /\ at'[j].pc \in {"giveUp", "unwinding"} => at[j].op = "prompt" /\ at[j].pc # "note"
        /\ at'[j].pc = "call" => at[j].pc = "call"
    BY <1>17 DEF GoesOn, Goes, Prompts
  <2> QED BY <1>2, <2>1 DEF Underway
<1>18. CASE Fails(j) \/ Hears(j) \/ Discards(j) \/ Quits(j)
  BY <1>6, <1>18 DEF Fails, Hears, Discards, Quits, Leaves
<1> HIDE DEF Fine
<1> QED BY <1>5, <1>7, <1>8, <1>9, <1>10, <1>11, <1>12, <1>13, <1>14, <1>15, <1>16, <1>17, <1>18,
           OneMoves DEF Shape

\* A call that holds a record keeps the call of that session.
LEMMA StillRecovering ==
  ASSUME Shapes, NEW j \in Callers
  PROVE  /\ Recovering(j)' =>
             /\ at'[j].sid = at[j].sid
             /\ (Recovering(j) /\ at'[j].rec = at[j].rec) \/ Looks(j)
         /\ Establishing(j)' =>
             /\ at'[j].gen = at[j].gen /\ at'[j].rec = at[j].rec
             /\ Establishing(j) \/ Locks(j)
         /\ at'[j].pc = "adopt" => \/ at[j].pc = "adopt" /\ at'[j].wire = at[j].wire
                                   \/ Restores(j) \/ Replaces(j)
<1>1. CASE at'[j] = at[j]
  BY <1>1 DEF Recovering, Establishing
<1>2. CASE \/ Starts(j) \/ Finds(j) \/ Adopts(j) \/ Opens(j) \/ Resumes(j) \/ Tracks(j)
  BY <1>2 DEF Starts, Finds, Adopts, Opens, Resumes, Tracks, Goes, Recovering, Establishing
<1>3. CASE Fails(j) \/ Hears(j) \/ Discards(j) \/ Quits(j)
  <2>1. at'[j] = Idle
    BY <1>3 DEF Fails, Hears, Discards, Quits, Leaves
  <2>2. Idle.pc = "idle"
    BY DEF Idle
  <2> QED BY <2>1, <2>2 DEF Recovering, Establishing
<1>4. CASE GoesOn(j)
  BY <1>4 DEF GoesOn, Underway, Recovering, Establishing
<1>5. CASE Looks(j)
  BY <1>5 DEF Looks, Recovering, Establishing
<1>6. CASE Locks(j)
  <2>1. PICK p \in {"resume", "load", "new"} : Goes(j, p, recs[at[j].rec].wire)
    BY <1>6 DEF Locks
  <2> QED BY <1>6, <2>1 DEF Locks, Goes, Recovering, Establishing
<1>7. CASE Restores(j) \/ Replaces(j) \/ Refuses(j)
  BY <1>7 DEF Restores, Replaces, Refuses, Goes, Recovering, Establishing
<1> QED BY <1>1, <1>2, <1>3, <1>4, <1>5, <1>6, <1>7, OneMoves DEF Shape

LEMMA LockingStep ==
  ASSUME IInv, TypeOK', Shapes
  PROVE  Locking'
<1>0. TypeOK /\ Handled /\ Locking /\ Bounded
  BY DEF IInv
<1>1. ASSUME NEW j \in Callers, NEW k \in Callers, Establishing(j)', Establishing(k)',
             at'[j].rec = at'[k].rec
      PROVE  j = k
  <2>1. /\ at[j].rec = at[k].rec
        /\ Establishing(j) \/ Locks(j)
        /\ Establishing(k) \/ Locks(k)
    BY <1>1, StillRecovering
  <2>2. CASE Establishing(j) /\ Establishing(k)
    BY <1>0, <2>1, <2>2 DEF Locking
  <2>3. CASE Locks(j)
    BY <1>0, <1>1, <2>1, <2>3, OneMoves DEF Locks, Locking, Shape, Establishing
  <2>4. CASE Locks(k)
    BY <1>0, <1>1, <2>1, <2>4, OneMoves DEF Locks, Locking, Shape, Establishing
  <2> QED BY <1>1, <2>2, <2>3, <2>4, StillRecovering
<1>2. ASSUME NEW j \in Callers, Establishing(j)'
      PROVE  /\ recs'[at[j].rec].locked /\ recs'[at[j].rec].gen = recs[at[j].rec].gen
             /\ recs[at[j].rec].gen # at[j].gen
  <2>1. Establishing(j) \/ Locks(j)
    BY <1>2, StillRecovering
  <2>2. at[j].rec \in Index
    BY <1>0, <2>1 DEF Handled, Recovering, Establishing, Locks
  <2>3. CASE Locks(j)
    BY <2>2, <2>3 DEF Locks, SetsLock
  <2>4. CASE Establishing(j) /\ ~Locks(j)
    <3>1. ASSUME NEW k \in Callers, Locks(k) \/ Fails(k) \/ Adopts(k), at[k].rec = at[j].rec
          PROVE  FALSE
      <4>1. CASE Locks(k)
        BY <1>0, <2>4, <3>1, <4>1 DEF Locks, Locking
      <4>2. CASE Fails(k) \/ Adopts(k)
        <5>1. Establishing(k) /\ at'[k].pc \in {"idle", "call"}
          <6>1. CASE Fails(k)
            <7>1. at'[k] = Idle /\ Idle.pc = "idle"
              BY <6>1 DEF Fails, Leaves, Idle
            <7> QED BY <6>1, <7>1 DEF Fails, Establishing
          <6> QED BY <4>2, <6>1 DEF Adopts, Goes, Establishing
        <5>2. j = k
          BY <1>0, <2>4, <3>1, <5>1 DEF Locking
        <5> QED BY <1>2, <5>1, <5>2 DEF Establishing
      <4> QED BY <3>1, <4>1, <4>2
    <3> QED BY <1>0, <2>2, <2>4, <3>1, RecordSteps DEF Locking
  <2> QED BY <2>1, <2>3, <2>4
<1>3. ASSUME NEW j \in Callers, at'[j].pc = "adopt"
      PROVE  recs'[at'[j].rec].gen < at'[j].gen
  <2>1. Establishing(j)'
    BY <1>3 DEF Establishing
  <2>2. /\ at'[j].gen = at[j].gen /\ at'[j].rec = at[j].rec
        /\ recs'[at[j].rec].gen = recs[at[j].rec].gen /\ recs[at[j].rec].gen # at[j].gen
    BY <1>2, <2>1, StillRecovering
  <2>3. CASE at[j].pc = "adopt"
    BY <1>0, <2>2, <2>3 DEF Locking
  <2>4. CASE Restores(j) \/ Replaces(j)
    <3>1. at[j].gen = cur /\ at[j].rec \in Index
      BY <1>0, <2>4 DEF Restores, Replaces, Handled, Recovering
    <3>2. recs[at[j].rec].gen <= cur /\ recs[at[j].rec].gen \in Nat /\ cur \in Nat
      BY <1>0, <3>1, Ints DEF Bounded
    <3> QED BY <2>2, <3>1, <3>2
  <2> QED BY <1>3, <2>3, <2>4, StillRecovering
<1>4. ASSUME NEW j \in Callers, Establishing(j)'
      PROVE  recs'[at'[j].rec].locked /\ recs'[at'[j].rec].gen # at'[j].gen
  BY <1>2, <1>4, StillRecovering
<1> QED BY <1>1, <1>3, <1>4 DEF Locking

\* A call keeps its operation and session until it returns.
LEMMA SameCall ==
  ASSUME Shapes, NEW j \in Callers
  PROVE  \/ at'[j].op = at[j].op /\ at'[j].sid = at[j].sid
         \/ at'[j] = Idle
         \/ Starts(j)
<1>1. CASE \/ Looks(j) \/ Finds(j) \/ Restores(j) \/ Replaces(j) \/ Refuses(j) \/ Adopts(j)
           \/ Opens(j) \/ Resumes(j) \/ Tracks(j) \/ GoesOn(j)
  BY <1>1 DEF Looks, Finds, Restores, Replaces, Refuses, Adopts, Opens, Resumes, Tracks, GoesOn, Goes
<1>2. CASE Locks(j)
  BY <1>2 DEF Locks, Goes
<1>3. CASE Fails(j) \/ Hears(j) \/ Discards(j) \/ Quits(j)
  BY <1>3 DEF Fails, Hears, Discards, Quits, Leaves
<1> QED BY <1>1, <1>2, <1>3, OneMoves DEF Shape

\* What becomes of the directories.
LEMMA HomeSteps ==
  ASSUME IInv, Shapes, NEW x \in Wires
  PROVE  \/ home'[x] = home[x]
         \/ /\ x = minted + 1
            /\ \E k \in Callers : \/ Replaces(k) /\ home'[x] = home[at[k].sid]
                                  \/ Opens(k) /\ home'[x] = x
         \/ \E k \in Callers : Discards(k) /\ x = at[k].wire /\ home'[x] = NoWire
<1>1. ASSUME NEW k \in Callers, Replaces(k)
      PROVE  home'[x] = IF x = minted + 1 THEN home[at[k].sid] ELSE home[x]
  BY <1>1 DEF Replaces, Mints
<1>2. ASSUME NEW k \in Callers, Opens(k)
      PROVE  home'[x] = IF x = minted + 1 THEN x ELSE home[x]
  BY <1>2 DEF Opens, Mints
<1>3. ASSUME NEW k \in Callers, Discards(k)
      PROVE  home'[x] = IF x = at[k].wire THEN NoWire ELSE home[x]
  BY <1>3 DEF Discards
<1>4. \/ home' = home
      \/ \E k \in Callers : Replaces(k) \/ Opens(k) \/ Discards(k)
  BY DEF Shapes, Shape, Rests, Drops, Starts, Looks, Finds, Locks, Restores, Refuses, Fails,
         Adopts, Resumes, Tracks, Hears, GoesOn, Quits, Kept, IdsKept
<1>5. CASE \E k \in Callers : Replaces(k)
  <2> PICK k \in Callers : Replaces(k)
    BY <1>5
  <2>1. home'[x] = IF x = minted + 1 THEN home[at[k].sid] ELSE home[x]
    BY <1>1
  <2> QED BY <2>1
<1>6. CASE \E k \in Callers : Opens(k)
  <2> PICK k \in Callers : Opens(k)
    BY <1>6
  <2>1. home'[x] = IF x = minted + 1 THEN x ELSE home[x]
    BY <1>2
  <2> QED BY <2>1
<1>7. CASE \E k \in Callers : Discards(k)
  <2> PICK k \in Callers : Discards(k)
    BY <1>7
  <2>1. home'[x] = IF x = at[k].wire THEN NoWire ELSE home[x]
    BY <1>3
  <2> QED BY <2>1
<1> QED BY <1>4, <1>5, <1>6, <1>7

\* What a call discards is its own.
LEMMA Discarded ==
  ASSUME IInv, NEW k \in Callers, Discards(k)
  PROVE  /\ Opening(k) /\ at[k].wire \in Wires
         /\ \A j \in Callers : at[j].sid # at[k].wire
         /\ \A x \in Wires : home[x] = home[at[k].wire] <=> x = at[k].wire
<1>1. Opening(k) /\ at[k].wire \in Wires
  BY Fields DEF IInv, Handled, Discards, Opening
<1>2. \A x \in Wires : home[x] = at[k].wire <=> x = at[k].wire
  BY <1>1 DEF IInv, Fresh
<1> QED BY <1>1, <1>2 DEF IInv, Fresh

\* Two ids of one directory stay so.
LEMMA Together ==
  ASSUME IInv, Shapes, NEW x \in Wires, NEW y \in Wires, x <= minted, y <= minted,
         home[x] = home[y]
  PROVE  /\ home'[x] = home'[y]
         /\ (\A k \in Callers : Discards(k) => y # at[k].wire) => home'[y] = home[y]
<1>1. minted \in Nat /\ x \in Nat /\ y \in Nat
  BY Ints DEF IInv
<1>2. \A k \in Callers : Discards(k) => (x = at[k].wire <=> y = at[k].wire)
  BY Discarded
<1> QED BY <1>1, <1>2, HomeSteps

\* A record that moves stays in its directory.
LEMMA RecordHome ==
  ASSUME IInv, Shapes, NEW q \in Index
  PROVE  /\ recs'[q].wire \in Wires /\ recs'[q].wire <= minted
         /\ home[recs'[q].wire] = home[recs[q].wire]
<1>0. TypeOK /\ Bounded /\ Handled /\ Homes
  BY DEF IInv
<1>1. recs[q].wire \in Wires /\ recs[q].wire <= minted
  BY <1>0, Ints DEF Bounded
<1>2. ASSUME NEW k \in Callers, Adopts(k), at[k].rec = q
      PROVE  /\ recs'[q].wire \in Wires /\ recs'[q].wire <= minted
             /\ home[recs'[q].wire] = home[recs[q].wire]
  <2>1. at[k].pc = "adopt" /\ Recovering(k) /\ recs'[q].wire = at[k].wire
    BY <1>2 DEF Adopts, Recovering
  <2>2. at[k].wire \in Wires /\ at[k].wire <= minted /\ at[k].op \notin {"new", "probe"}
    BY <1>0, <2>1, Fields DEF Handled, Bounded
  <2>3. home[at[k].wire] = home[at[k].sid] /\ home[recs[q].wire] = home[at[k].sid]
    BY <1>0, <1>2, <2>1, <2>2 DEF Homes
  <2> QED BY <2>1, <2>2, <2>3
<1> QED BY <1>0, <1>1, <1>2, RecordSteps

LEMMA HomesStep ==
  ASSUME IInv, TypeOK', Shapes
  PROVE  Homes'
<1>0. TypeOK /\ Bounded /\ Handled /\ Homes /\ Fresh /\ Owned
  BY DEF IInv
<1>1. \A q \in Index : recs[q].wire \in Wires /\ recs[q].wire <= minted
  BY <1>0, Ints DEF Bounded
<1>2. \A k \in Callers : /\ at[k].sid <= minted /\ at[k].wire <= minted
                         /\ \A j \in Callers : Discards(j) => at[k].sid # at[j].wire
  BY <1>0, Discarded DEF Bounded
<1>3. ASSUME NEW k \in Callers, Recovering(k)
      PROVE  /\ at[k].rec \in Index /\ at[k].sid \in Wires /\ at[k].op \notin {"new", "probe"}
             /\ home[recs[at[k].rec].wire] = home[at[k].sid]
  BY <1>0, <1>3, Fields DEF Handled, Homes
<1>4. ASSUME NEW k \in Callers, at[k].pc \in {"adopt", "call", "giveUp", "unwinding"},
             at[k].op \notin {"new", "probe"}
      PROVE  at[k].sid \in Wires /\ at[k].wire \in Wires /\ home[at[k].wire] = home[at[k].sid]
  BY <1>0, <1>4, Fields DEF Handled, Homes
\* The record of a session, wherever it lives, is of the session's directory.
<1>5. ASSUME NEW q \in Index, NEW s \in Wires, s <= minted, home[recs[q].wire] = home[s]
      PROVE  home'[recs'[q].wire] = home'[s]
  BY <1>5, RecordHome, Together
<1>6. ASSUME NEW s \in Wires, sess'[s] # 0 PROVE home'[recs'[sess'[s]].wire] = home'[s]
  <2>1. CASE sess'[s] = sess[s]
    <3>1. sess[s] \in Index /\ home[recs[sess[s]].wire] = home[s] /\ s <= minted
      BY <1>0, <1>6, <2>1, Ints DEF Homes, Bounded
    <3> QED BY <1>5, <2>1, <3>1
  <2>2. CASE \E k \in Callers : Tracks(k)
    <3> PICK k \in Callers : Tracks(k)
      BY <2>2
    <3>1. CASE s = at[k].wire
      BY <3>1 DEF Tracks
    <3>2. CASE s # at[k].wire
      BY <2>1, <3>2 DEF Tracks
    <3> QED BY <3>1, <3>2
  <2>3. CASE \E k \in Callers : Discards(k)
    BY <1>6, <2>1, <2>3 DEF Discards
  <2>4. CASE \E x \in Wires : Drops(x)
    BY <1>6, <2>1, <2>4 DEF Drops
  <2>5. CASE sess' = sess
    BY <2>1, <2>5
  <2> QED BY <2>2, <2>3, <2>4, <2>5
          DEF Shapes, Shape, Rests, Starts, Looks, Finds, Locks, Restores, Replaces, Refuses,
              Fails, Adopts, Opens, Resumes, Hears, GoesOn, Quits, Kept, TablesKept, SetsLock, Mints
<1>7. ASSUME NEW k \in Callers, Recovering(k)'
      PROVE  home'[recs'[at'[k].rec].wire] = home'[at'[k].sid]
  <2>1. /\ at'[k].sid = at[k].sid /\ at'[k].rec \in Index /\ at[k].sid \in Wires
        /\ home[recs[at'[k].rec].wire] = home[at[k].sid]
    <3>1. CASE Recovering(k) /\ at'[k].rec = at[k].rec
      BY <1>3, <1>7, <3>1, StillRecovering
    <3>2. CASE Looks(k)
      <4>1. /\ at'[k].sid = at[k].sid /\ at'[k].rec = sess[at[k].sid] /\ sess[at[k].sid] # 0
            /\ at[k].op \notin {"new", "probe"}
        BY <1>7, <3>2 DEF Looks, Recovering
      <4>2. at[k].sid \in Wires
        BY <1>0, <4>1, Fields DEF Handled
      <4> QED BY <1>0, <4>1, <4>2, Ints DEF Homes
    <3> QED BY <1>7, <3>1, <3>2, StillRecovering
  <2> QED BY <1>2, <1>5, <2>1
<1>8. ASSUME NEW k \in Callers, at'[k].pc \in {"adopt", "call", "giveUp", "unwinding"},
              at'[k].op \notin {"new", "probe"}
       PROVE  home'[at'[k].wire] = home'[at'[k].sid]
  <2>1. ASSUME at'[k].sid = at[k].sid, at'[k].wire \in Wires, at'[k].wire <= minted, at[k].sid \in Wires,
               home[at'[k].wire] = home[at[k].sid]
        PROVE  home'[at'[k].wire] = home'[at'[k].sid]
    BY <1>2, <2>1, Together
  <2>2. CASE at'[k] = at[k] \/ Adopts(k) \/ GoesOn(k)
    <3>1. /\ at'[k].sid = at[k].sid /\ at'[k].wire = at[k].wire /\ at'[k].op = at[k].op
          /\ at[k].pc \in {"adopt", "call", "giveUp", "unwinding"}
      BY <1>8, <2>2 DEF Adopts, GoesOn, Goes, Underway
    <3> QED BY <1>2, <1>4, <1>8, <2>1, <3>1
  <2>3. CASE Looks(k)
    <3>1. at'[k].wire = at'[k].sid
      BY <1>8, <2>3 DEF Looks
    <3> QED BY <3>1
  <2>4. CASE Finds(k) \/ Restores(k)
    <3>1. Recovering(k) /\ at'[k].sid = at[k].sid /\ at'[k].wire = recs[at[k].rec].wire
      BY <1>0, <2>4 DEF Finds, Restores, Goes, Recovering, Handled
    <3> QED BY <1>1, <1>3, <2>1, <3>1
  <2>5. CASE Replaces(k)
    <3>1. Recovering(k) /\ at'[k].sid = at[k].sid /\ at'[k].wire = minted + 1
      BY <2>5 DEF Replaces, Goes, Recovering
    <3>2. /\ at[k].sid \in Wires /\ at[k].sid # minted + 1 /\ minted + 1 \in Wires
      BY <1>0, <1>2, <1>3, <2>5, <3>1, Ints, Numbers DEF Replaces, Mints, Wires
    <3> QED BY <2>5, <3>1, <3>2 DEF Replaces, Mints
  <2>6. CASE Starts(k) \/ Refuses(k) \/ Opens(k) \/ Resumes(k) \/ Tracks(k)
    BY <1>8, <2>6 DEF Starts, Refuses, Opens, Resumes, Tracks, Goes
  <2>7. CASE Locks(k)
    BY <1>8, <2>7 DEF Locks, Goes
  <2>8. CASE Fails(k) \/ Hears(k) \/ Discards(k) \/ Quits(k)
    <3>1. at'[k] = Idle /\ Idle.pc = "idle"
      BY <2>8 DEF Fails, Hears, Discards, Quits, Leaves, Idle
    <3> QED BY <1>8, <3>1
  <2> QED BY <2>2, <2>3, <2>4, <2>5, <2>6, <2>7, <2>8, OneMoves DEF Shape
<1>9. ASSUME NEW j \in Callers, NEW k \in Callers, Prompts(j)', Prompts(k)',
              home'[at'[j].sid] = home'[at'[k].sid]
       PROVE  j = k
  <2>1. Idle.op # "prompt"
    BY DEF Idle
  \* A call that prompts already.
  <2>2. ASSUME NEW i \in Callers, Prompts(i)', ~Starts(i)
        PROVE  /\ Prompts(i) /\ at'[i].sid = at[i].sid
               /\ at[i].sid \in Wires /\ home'[at[i].sid] = home[at[i].sid] /\ at[i].pc # "idle"
    <3>1. Prompts(i) /\ at'[i].sid = at[i].sid
      BY <2>1, <2>2, SameCall DEF Prompts
    <3>2. at[i].sid \in Wires /\ at[i].pc # "idle"
      BY <1>0, <3>1, Fields DEF Handled, Prompts
    <3> QED BY <1>2, <3>1, <3>2, Together
  <2>3. ASSUME NEW i \in Callers, NEW n \in Callers, Starts(i), Prompts(i)', Prompts(n)', i # n,
               home'[at'[i].sid] = home'[at'[n].sid]
        PROVE  FALSE
    <3>1. at'[n] = at[n] /\ home' = home /\ ~Starts(n)
      BY <2>3, OneMoves DEF Shape, Starts, Kept, IdsKept
    <3>2. Prompts(n) /\ at[n].pc # "idle"
      BY <2>2, <2>3, <3>1
    <3>3. ~Prompting(at'[i].sid)
      BY <2>3, StartFacts DEF Prompts
    <3> QED BY <2>3, <3>1, <3>2, <3>3 DEF Prompting, Prompts
  <2>4. CASE ~Starts(j) /\ ~Starts(k)
    BY <1>0, <1>9, <2>2, <2>4 DEF Homes
  <2> QED BY <1>9, <2>3, <2>4
<1> QED BY <1>6, <1>7, <1>8, <1>9 DEF Homes

\* Who opens a session, or is about to keep one it opened.
LEMMA StillOpening ==
  ASSUME Shapes, NEW j \in Callers, at'[j].pc \in {"track", "wire"}
  PROVE  \/ /\ at[j].pc \in {"track", "wire"} /\ at'[j].wire = at[j].wire /\ at'[j].op = at[j].op
            /\ at'[j].pc = "track" => at[j].pc = "track"
         \/ Opens(j) /\ at'[j].pc = "track" /\ at'[j].wire = minted + 1
         \/ Resumes(j) /\ at'[j].wire = at[j].wire /\ at'[j].op = "resume"
<1>1. CASE at'[j] = at[j]
  BY <1>1
<1>2. CASE Fails(j) \/ Hears(j) \/ Discards(j) \/ Quits(j)
  <2>1. at'[j] = Idle /\ Idle.pc = "idle"
    BY <1>2 DEF Fails, Hears, Discards, Quits, Leaves, Idle
  <2> QED BY <2>1
<1>3. CASE \/ Starts(j) \/ Looks(j) \/ Finds(j) \/ Restores(j) \/ Replaces(j) \/ Refuses(j)
           \/ Adopts(j)
  BY <1>3 DEF Starts, Looks, Finds, Restores, Replaces, Refuses, Adopts, Goes
<1>4. CASE Locks(j)
  BY <1>4 DEF Locks, Goes
<1>5. CASE GoesOn(j)
  BY <1>5 DEF GoesOn, Underway
<1>6. CASE Opens(j) \/ Resumes(j) \/ Tracks(j)
  BY <1>6 DEF Opens, Resumes, Tracks, Goes
<1> QED BY <1>1, <1>2, <1>3, <1>4, <1>5, <1>6, OneMoves DEF Shape

LEMMA FreshStep ==
  ASSUME IInv, TypeOK', Shapes
  PROVE  Fresh'
<1>0. TypeOK /\ Bounded /\ Handled /\ Homes /\ Fresh
  BY DEF IInv
<1> DEFINE Free(k, w) ==
      /\ \A x \in Wires : home'[x] = w <=> x = w
      /\ w \notin sinks'
      /\ \A j \in Callers : at'[j].sid # w
      /\ \A j \in Callers : at'[j].pc \in {"track", "wire"} /\ at'[j].wire = w => j = k
      /\ at'[k].pc = "track" => \A q \in Index' : recs'[q].wire # w
<1>1. /\ minted \in Nat /\ \A x \in Wires : x \in Nat /\ home[x] \in Nat /\ home[x] <= minted
      /\ \A q \in Index : recs[q].wire \in Nat /\ recs[q].wire <= minted
      /\ \A x \in sinks : x \in Nat /\ x <= minted
      /\ \A j \in Callers : /\ at[j].sid \in Nat /\ at[j].sid <= minted
                            /\ at[j].wire \in Nat /\ at[j].wire <= minted
  BY <1>0, Ints, Fields, Numbers DEF Bounded
<1>2. ASSUME NEW k \in Callers, Opens(k) PROVE Free(k, at'[k].wire)
  <2>1. /\ at'[k].wire = minted + 1 /\ sinks' = sinks /\ recs' = recs /\ Others(k)
        /\ \A x \in Wires : home'[x] = IF x = minted + 1 THEN minted + 1 ELSE home[x]
        /\ at'[k].sid = at[k].sid
    BY <1>2 DEF Opens, Goes, Mints, TablesKept
  <2>2. ASSUME NEW n \in Nat, n <= minted PROVE n # minted + 1
    BY <1>1, <2>2
  <2>3. \A x \in Wires : home'[x] = minted + 1 <=> x = minted + 1
    BY <1>1, <2>1, <2>2
  <2>4. minted + 1 \notin sinks' /\ \A q \in Index' : recs'[q].wire # minted + 1
    BY <1>1, <2>1, <2>2 DEF Index
  <2>5. \A j \in Callers : at'[j].sid # minted + 1 /\ (j # k => at'[j].wire # minted + 1)
    BY <1>1, <2>1, <2>2 DEF Others
  <2> QED BY <2>1, <2>3, <2>4, <2>5
<1>3. ASSUME NEW k \in Callers, Opening(k), Opening(k)', at'[k].wire = at[k].wire,
             at'[k].pc = "track" => at[k].pc = "track"
      PROVE  Free(k, at[k].wire)
  <2> DEFINE w == at[k].wire
  <2>1. /\ \A x \in Wires : home[x] = w <=> x = w
        /\ w \notin sinks
        /\ \A j \in Callers : at[j].sid # w
        /\ \A j \in Callers : at[j].pc \in {"track", "wire"} /\ at[j].wire = w => j = k
        /\ at[k].pc = "track" => \A q \in Index : recs[q].wire # w
        /\ w \in Wires /\ w # minted + 1 /\ w # NoWire
    BY <1>0, <1>1, <1>3, Fields DEF Fresh, Opening, Handled
  <2>2. ASSUME NEW j \in Callers, Hears(j) \/ Discards(j) PROVE at[j].wire # w
    <3>1. at'[j] = Idle /\ Idle.pc = "idle" /\ at[j].pc = "wire"
      BY <2>2 DEF Hears, Discards, Leaves, Idle
    <3> QED BY <1>3, <2>1, <3>1 DEF Opening
  <2>3. ASSUME NEW x \in Wires PROVE home'[x] = w <=> x = w
    <3>1. CASE home'[x] = home[x]
      BY <2>1, <3>1
    <3>2. ASSUME NEW j \in Callers, Replaces(j), x = minted + 1, home'[x] = home[at[j].sid]
          PROVE  home'[x] = w <=> x = w
      <4>1. at[j].sid \in Wires
        BY <1>0, <3>2, Fields DEF Replaces, Handled, Recovering
      <4> QED BY <2>1, <3>2, <4>1
    <3>3. ASSUME NEW j \in Callers, Discards(j), x = at[j].wire, home'[x] = NoWire
          PROVE  home'[x] = w <=> x = w
      BY <2>1, <2>2, <3>3
    <3> HIDE DEF w
    <3> QED BY <3>1, <3>2, <3>3, HomeSteps
  <2>4. w \notin sinks'
    <3> SUFFICES ASSUME w \in sinks' PROVE \E j \in Callers : Hears(j) /\ w = at[j].wire
      BY <2>2
    <3> HIDE DEF w
    <3>1. ~ (Rests \/ \E s \in Wires : Drops(s))
      BY <2>1 DEF Rests, Drops, Kept, TablesKept
    <3>2. PICK j \in Callers : Shape(j)
      BY <3>1 DEF Shapes
    <3>3. ~ (\/ Starts(j) \/ Looks(j) \/ Finds(j) \/ Locks(j) \/ Restores(j) \/ Replaces(j)
             \/ Refuses(j) \/ Fails(j))
      BY <2>1 DEF Starts, Looks, Finds, Locks, Restores, Replaces, Refuses, Fails, SetsLock, Mints,
                  Kept, TablesKept
    <3>4. ~ (Adopts(j) \/ Opens(j) \/ Resumes(j) \/ Tracks(j) \/ Discards(j) \/ GoesOn(j) \/ Quits(j))
      BY <2>1 DEF Adopts, Opens, Resumes, Tracks, Discards, GoesOn, Quits, Mints, Kept, TablesKept
    <3> QED BY <2>1, <3>2, <3>3, <3>4 DEF Shape, Hears
  <2>5. ASSUME NEW j \in Callers PROVE at'[j].sid # w
    <3>1. CASE Starts(j)
      <4>1. \A s : Resumable(s) => s # w
        BY <1>3 DEF Resumable, Opening
      <4> QED BY <2>1, <3>1, <4>1, StartFacts
    <3>2. Idle.sid = NoWire
      BY DEF Idle
    <3> QED BY <2>1, <3>1, <3>2, SameCall
  <2>6. ASSUME NEW j \in Callers, at'[j].pc \in {"track", "wire"}, at'[j].wire = w PROVE j = k
    <3>1. ~Resumes(j)
      BY <1>0, <2>1, <2>6 DEF Resumes, Handled, Goes
    <3> QED BY <2>1, <2>6, <3>1, StillOpening
  <2>7. ASSUME at'[k].pc = "track", NEW q \in Index' PROVE recs'[q].wire # w
    <3>1. at[k].pc = "track" /\ \A i \in Index : recs[i].wire # w
      BY <1>3, <2>1, <2>7
    <3>2. CASE q \in Index
      <4>1. ASSUME NEW j \in Callers, Adopts(j) PROVE at[j].wire # w
        <5>1. at[j].pc = "adopt" /\ at[j].sid \in Wires /\ home[at[j].wire] = home[at[j].sid]
          BY <1>0, <4>1, Fields DEF Adopts, Handled, Homes, Recovering
        <5> QED BY <2>1, <5>1
      <4>2. ASSUME NEW j \in Callers, Adopts(j), at[j].rec = q PROVE recs'[q].wire # w
        BY <4>1, <4>2 DEF Adopts
      <4> QED BY <1>0, <3>1, <3>2, <4>2, RecordSteps
    <3>3. CASE q \notin Index
      <4>1. PICK j \in Callers : Tracks(j) /\ Index' = Index \cup {Len(recs) + 1}
        BY <1>0, <3>3, NewIndex
      <4>2. recs'[q].wire = at[j].wire /\ at[j].pc = "track" /\ at'[j].pc = "wire"
        BY <3>3, <4>1 DEF Tracks, Goes
      <4> QED BY <2>1, <2>7, <4>2
    <3> QED BY <3>2, <3>3
  <2> QED BY <2>3, <2>4, <2>5, <2>6, <2>7
<1>4. ASSUME NEW k \in Callers, Opening(k)' PROVE Free(k, at'[k].wire)
  <2>1. CASE Opens(k)
    BY <1>2, <2>1
  <2>2. CASE ~Opens(k)
    <3>1. /\ at[k].pc \in {"track", "wire"} /\ at'[k].wire = at[k].wire /\ at'[k].op = at[k].op
          /\ at'[k].pc = "track" => at[k].pc = "track"
      BY <1>4, <2>2, StillOpening DEF Opening
    <3>2. Opening(k)
      BY <1>4, <3>1 DEF Opening
    <3> HIDE DEF Free
    <3> QED BY <1>3, <1>4, <3>1, <3>2
  <2> QED BY <2>1, <2>2
<1> QED BY <1>4 DEF Fresh, Opening

\* The record of a session changes when it is opened or forgotten; a call that
\* is recovering it then is noted, but for a session its opener discards.
LEMMA SessionSteps ==
  ASSUME IInv, Shapes, NEW s \in Wires
  PROVE  /\ raced \subseteq raced'
         /\ \/ sess'[s] = sess[s]
            \/ \E k \in Callers : Tracks(k) /\ s = at[k].wire /\ sess'[s] = Len(recs) + 1
            \/ sess'[s] = 0
         /\ \A j \in Callers :
                Recovering(j)' /\ at'[j].sid = s => sess'[s] = sess[s] \/ s \in raced'
<1>1. raced \subseteq raced'
  BY DEF Shapes, Shape, Rests, Drops, Starts, Looks, Finds, Locks, Restores, Replaces, Refuses,
         Fails, Adopts, Opens, Resumes, Tracks, Hears, Discards, GoesOn, Quits, Kept, TablesKept,
         SetsLock, Mints, Forgets
<1>2. CASE \E k \in Callers : Tracks(k)
  <2> PICK k \in Callers : Tracks(k)
    BY <1>2
  <2>1. sess'[s] = IF s = at[k].wire THEN Len(recs) + 1 ELSE sess[s]
    BY DEF Tracks
  <2>2. ASSUME NEW j \in Callers, Recovering(j)', at'[j].sid = s
        PROVE  s = at[k].wire => s \in raced'
    <3>1. at[j] = at'[j]
      BY <2>2 DEF Tracks, Goes, Others, Recovering
    <3> QED BY <2>2, <3>1 DEF Tracks, Forgets, Recovering
  <2> QED BY <1>1, <2>1, <2>2
<1>3. CASE \E x \in Wires : Drops(x)
  <2> PICK x \in Wires : Drops(x)
    BY <1>3
  <2>1. sess'[s] = IF s = x THEN 0 ELSE sess[s]
    BY DEF Drops
  <2>2. ASSUME NEW j \in Callers, Recovering(j)', at'[j].sid = s
        PROVE  s = x => s \in raced'
    BY <2>2 DEF Drops, Forgets, Recovering
  <2> QED BY <1>1, <2>1, <2>2
<1>4. CASE \E k \in Callers : Discards(k)
  <2> PICK k \in Callers : Discards(k)
    BY <1>4
  <2>1. sess'[s] = IF s = at[k].wire THEN 0 ELSE sess[s]
    BY DEF Discards
  <2>2. ASSUME NEW j \in Callers, Recovering(j)', at'[j].sid = s
        PROVE  s # at[k].wire
    <3>1. at'[j].sid = at[j].sid
      BY <2>2, StillRecovering
    <3> QED BY <2>2, <3>1, Discarded
  <2> QED BY <1>1, <2>1, <2>2
<1>5. CASE sess' = sess
  BY <1>1, <1>5
<1> QED BY <1>2, <1>3, <1>4, <1>5
        DEF Shapes, Shape, Rests, Starts, Looks, Finds, Locks, Restores, Replaces, Refuses,
            Fails, Adopts, Opens, Resumes, Hears, GoesOn, Quits, Kept, TablesKept, SetsLock, Mints

LEMMA OwnedStep ==
  ASSUME IInv, TypeOK', Shapes
  PROVE  Owned'
<1>0. TypeOK /\ Handled /\ Owned
  BY DEF IInv
\* A call that holds a record holds one that was the session's a step ago.
<1>1. ASSUME NEW k \in Callers, Recovering(k)'
      PROVE  /\ at'[k].sid = at[k].sid /\ at[k].sid \in Wires /\ at'[k].rec \in Index
             /\ at[k].sid \in raced \/ at'[k].rec = sess[at[k].sid]
             /\ \A s \in Wires : at'[k].rec = sess[s] => at[k].sid = s
  <2>1. CASE Recovering(k) /\ at'[k].rec = at[k].rec
    BY <1>0, <1>1, <2>1, StillRecovering, Fields DEF Owned, Handled
  <2>2. CASE Looks(k)
    <3>1. /\ at'[k].sid = at[k].sid /\ at'[k].rec = sess[at[k].sid] /\ sess[at[k].sid] # 0
          /\ at[k].op \notin {"new", "probe"}
      BY <1>1, <2>2 DEF Looks, Recovering
    <3>2. at[k].sid \in Wires
      BY <1>0, <3>1, Fields DEF Handled
    <3> QED BY <1>0, <3>1, <3>2, Ints DEF Owned
  <2> QED BY <1>1, <2>1, <2>2, StillRecovering
<1>2. Len(recs) + 1 \notin Index /\ 0 \notin Index
  BY <1>0, Records DEF Index
<1>3. \A s \in Wires : sess[s] = 0 \/ sess[s] \in Index
  BY <1>0, Ints
<1>4. ASSUME NEW k \in Callers, Recovering(k)'
      PROVE  at'[k].sid \in raced' \/ at'[k].rec = sess'[at'[k].sid]
  BY <1>1, <1>4, SessionSteps
<1>5. ASSUME NEW k \in Callers, NEW s \in Wires, Recovering(k)', at'[k].rec = sess'[s]
      PROVE  at'[k].sid = s
  <2>1. sess'[s] \in Index
    BY <1>1, <1>5
  <2>2. sess'[s] = sess[s]
    BY <1>2, <2>1, SessionSteps
  <2> QED BY <1>1, <1>5, <2>2
<1>6. ASSUME NEW s \in Wires, NEW t \in Wires, sess'[s] # 0, sess'[s] = sess'[t] PROVE s = t
  <2>1. CASE sess'[s] = sess[s] /\ sess'[t] = sess[t]
    BY <1>0, <1>6, <2>1 DEF Owned
  <2>2. CASE sess'[s] = Len(recs) + 1
    <3>1. PICK j \in Callers : Tracks(j)
      BY <1>2, <1>3, <1>6, <2>2, SessionSteps
    <3>2. \A x \in Wires : sess'[x] = IF x = at[j].wire THEN Len(recs) + 1 ELSE sess[x]
      BY <3>1 DEF Tracks
    <3> QED BY <1>2, <1>3, <1>6, <2>2, <3>2
  <2> QED BY <1>6, <2>1, <2>2, SessionSteps
<1> QED BY <1>4, <1>5, <1>6 DEF Owned

\* The record that a call recovers for a session that nothing raced with.
LEMMA Recovered ==
  ASSUME TypeOK, Handled, Owned, NEW k \in Callers, Recovering(k), at[k].sid \notin raced
  PROVE  at[k].sid \in Wires /\ at[k].rec = sess[at[k].sid] /\ sess[at[k].sid] \in Index
BY Fields DEF Handled, Owned

\* A claim is of the session's directory.
LEMMA ClaimHome ==
  ASSUME IInv, NEW s \in Wires, NEW w \in Wires, Claims(s, w)
  PROVE  sess[s] \in Index /\ home[w] = home[s] /\ w <= minted
<1>0. TypeOK /\ Handled /\ Homes /\ Owned /\ Bounded
  BY DEF IInv
<1>1. CASE sess[s] # 0 /\ recs[sess[s]].wire = w
  BY <1>0, <1>1, Ints DEF Homes, Bounded
<1>2. CASE \E k \in Callers : at[k].pc = "adopt" /\ at[k].sid = s /\ at[k].wire = w
  <2> PICK k \in Callers : at[k].pc = "adopt" /\ at[k].sid = s /\ at[k].wire = w
    BY <1>2
  <2>1. Recovering(k) /\ at[k].op \notin {"new", "probe"}
    BY <1>0 DEF Recovering, Handled
  <2> QED BY <1>0, <2>1, Recovered DEF Claims, Homes, Bounded
<1> QED BY <1>1, <1>2 DEF Claims

\* A claim is made when session/new answers, and then kept.
LEMMA ClaimSteps ==
  ASSUME IInv, TypeOK', Shapes, NEW s \in Wires, NEW w \in Wires, Claims(s, w)'
  PROVE  /\ s \notin raced
         /\ sess'[s] = sess[s] /\ sess[s] \in Index
         /\ \/ Claims(s, w)
            \/ w = minted + 1 /\ \E k \in Callers : Replaces(k) /\ at[k].sid = s
<1>0. TypeOK /\ Handled /\ Homes /\ Owned /\ Bounded
  BY DEF IInv
<1>1. s \notin raced' /\ s \notin raced /\ s # w
  BY SessionSteps DEF Claims
<1>2. CASE sess'[s] # 0 /\ recs'[sess'[s]].wire = w
  <2>1. ASSUME NEW k \in Callers, Tracks(k), s = at[k].wire, sess'[s] = Len(recs) + 1 PROVE FALSE
    BY <1>1, <1>2, <2>1 DEF Tracks
  <2>2. sess'[s] = sess[s] /\ sess[s] \in Index
    BY <1>0, <1>2, <2>1, SessionSteps, Ints
  <2>3. ASSUME NEW k \in Callers, Adopts(k), at[k].rec = sess[s] PROVE Claims(s, w)
    <3>1. Recovering(k) /\ at[k].pc = "adopt" /\ recs'[sess[s]].wire = at[k].wire
      BY <2>3 DEF Adopts, Recovering
    <3>2. at[k].sid = s
      BY <1>0, <2>3, <3>1 DEF Owned
    <3> QED BY <1>1, <1>2, <2>2, <3>1, <3>2 DEF Claims
  <2>4. recs'[sess[s]].wire = recs[sess[s]].wire \/ Claims(s, w)
    BY <1>0, <2>2, <2>3, RecordSteps
  <2> QED BY <1>0, <1>1, <1>2, <2>2, <2>4, Ints DEF Claims
<1>3. CASE \E k \in Callers : at'[k].pc = "adopt" /\ at'[k].sid = s /\ at'[k].wire = w
  <2> PICK k \in Callers : at'[k].pc = "adopt" /\ at'[k].sid = s /\ at'[k].wire = w
    BY <1>3
  <2>1. Recovering(k)' /\ at[k].sid = s /\ sess'[s] = sess[s]
    BY <1>1, SessionSteps, StillRecovering DEF Recovering
  <2>2. \/ at[k].pc = "adopt" /\ at[k].wire = w
        \/ Restores(k) /\ at[k].wire = w
        \/ Replaces(k) /\ w = minted + 1
    BY StillRecovering DEF Restores, Replaces, Goes
  <2>3. Recovering(k)
    BY <2>2 DEF Recovering, Restores, Replaces
  <2>4. at[k].rec = sess[s] /\ sess[s] \in Index
    BY <1>0, <1>1, <2>1, <2>3, Recovered
  <2>5. ASSUME Restores(k) PROVE recs[sess[s]].wire = at[k].wire
    BY <1>0, <2>4, <2>5 DEF Restores, Handled
  <2> QED BY <1>0, <1>1, <2>1, <2>2, <2>4, <2>5, Ints DEF Claims
<1> QED BY <1>2, <1>3 DEF Claims

LEMMA ClaimedStep ==
  ASSUME IInv, TypeOK', Shapes
  PROVE  Claimed'
<1>0. TypeOK /\ Bounded /\ Handled /\ Homes /\ Fresh /\ Owned /\ Claimed
  BY DEF IInv
<1> SUFFICES ASSUME NEW s \in Wires, NEW w \in Wires, Claims(s, w)'
             PROVE  /\ \A j \in Callers : at'[j].op = "resume" => at'[j].sid # w
                    /\ \A q \in Index' : recs'[q].wire = w => q = sess'[s]
                    /\ \A j \in Callers : at'[j].pc = "adopt" /\ at'[j].wire = w =>
                                              at'[j].rec = sess'[s]
  BY DEF Claimed
<1>1. s \notin raced /\ sess'[s] = sess[s] /\ sess[s] \in Index
  BY ClaimSteps
<1>2. s # w
  BY DEF Claims
<1>3. CASE Claims(s, w)
  <2>1. /\ \A j \in Callers : at[j].op = "resume" => at[j].sid # w
        /\ \A q \in Index : recs[q].wire = w => q = sess[s]
        /\ \A j \in Callers : at[j].pc = "adopt" /\ at[j].wire = w => at[j].rec = sess[s]
    BY <1>0, <1>3 DEF Claimed
  <2>2. home[w] = home[s] /\ w <= minted /\ sess[s] # 0
    BY <1>0, <1>1, <1>3, ClaimHome, Ints
  <2>3. w # minted + 1
    BY <1>0, <2>2, Ints
  <2>4. ASSUME NEW j \in Callers, at'[j].op = "resume" PROVE at'[j].sid # w
    <3>1. ~Resumable(w)
      BY <1>2, <2>2 DEF Resumable
    <3>2. Idle.op # "resume"
      BY DEF Idle
    <3> QED BY <2>1, <2>4, <3>1, <3>2, SameCall, StartFacts
  <2>5. ASSUME NEW q \in Index', recs'[q].wire = w PROVE q = sess[s]
    <3>1. CASE q \in Index
      <4>1. ASSUME NEW j \in Callers, Adopts(j), at[j].rec = q PROVE q = sess[s]
        BY <2>1, <2>5, <4>1 DEF Adopts
      <4> QED BY <1>0, <2>1, <2>5, <3>1, <4>1, RecordSteps
    <3>2. CASE q \notin Index
      <4>1. PICK j \in Callers : Tracks(j) /\ Index' = Index \cup {Len(recs) + 1}
        BY <1>0, <3>2, NewIndex
      <4>2. at[j].pc = "track" /\ at[j].wire = w
        BY <2>5, <3>2, <4>1 DEF Tracks
      <4>3. at[j].op # "resume"
        BY <1>0, <2>1, <4>2 DEF Handled
      <4>4. \A x \in Wires : home[x] = w <=> x = w
        BY <1>0, <4>2, <4>3 DEF Fresh, Opening
      <4> QED BY <1>2, <2>2, <4>4
    <3> QED BY <3>1, <3>2
  <2>6. ASSUME NEW j \in Callers, at'[j].pc = "adopt", at'[j].wire = w PROVE at'[j].rec = sess[s]
    <3>1. at'[j].rec = at[j].rec
      BY <2>6, StillRecovering DEF Establishing
    <3>2. ASSUME Restores(j) PROVE at[j].rec = sess[s]
      <4>1. at[j].rec \in Index /\ recs[at[j].rec].wire = w
        BY <1>0, <2>6, <3>2 DEF Restores, Handled, Recovering, Goes
      <4> QED BY <2>1, <4>1
    <3>3. ~Replaces(j)
      BY <2>3, <2>6 DEF Replaces, Goes
    <3> QED BY <2>1, <2>6, <3>1, <3>2, <3>3, StillRecovering
  <2> QED BY <1>1, <2>4, <2>5, <2>6
<1>4. ASSUME NEW k \in Callers, Replaces(k), at[k].sid = s, w = minted + 1
      PROVE  /\ \A j \in Callers : at'[j].op = "resume" => at'[j].sid # w
             /\ \A q \in Index' : recs'[q].wire = w => q = sess'[s]
             /\ \A j \in Callers : at'[j].pc = "adopt" /\ at'[j].wire = w =>
                                       at'[j].rec = sess'[s]
  <2>1. /\ recs' = recs /\ Others(k) /\ Recovering(k)
        /\ at'[k].rec = at[k].rec /\ at'[k].sid = at[k].sid
    BY <1>4 DEF Replaces, Mints, TablesKept, Goes, Recovering
  <2>2. ASSUME NEW n \in Nat, n <= minted PROVE n # w
    BY <1>0, <1>4, <2>2, Ints
  <2>3. \A j \in Callers : /\ at[j].sid \in Nat /\ at[j].sid <= minted
                           /\ at[j].wire \in Nat /\ at[j].wire <= minted
    BY <1>0, Fields, Numbers DEF Bounded
  <2>4. \A q \in Index : recs[q].wire \in Nat /\ recs[q].wire <= minted
    BY <1>0, Ints, Numbers DEF Bounded
  <2>5. \A j \in Callers : at'[j].sid # w
    BY <2>1, <2>2, <2>3 DEF Others
  <2>6. \A q \in Index' : recs'[q].wire # w
    BY <2>1, <2>2, <2>4 DEF Index
  <2>7. ASSUME NEW j \in Callers, at'[j].wire = w PROVE at'[j].rec = sess'[s]
    <3>1. j = k
      BY <2>1, <2>2, <2>3, <2>7 DEF Others
    <3>2. at[k].rec = sess[s]
      BY <1>0, <1>1, <1>4, <2>1, Recovered
    <3> QED BY <1>1, <2>1, <3>1, <3>2
  <2> QED BY <2>5, <2>6, <2>7
<1> QED BY <1>3, <1>4, ClaimSteps

\* An alias that no race left behind is a claim.
LEMMA AliasClaim ==
  ASSUME IInv, NEW x \in Wires, alias[x] # NoWire, alias[x] \notin raced
  PROVE  /\ alias[x] \in Wires /\ alias[x] # x /\ sess[alias[x]] \in Index
         /\ recs[sess[alias[x]]].wire = x /\ Claims(alias[x], x)
<1>1. alias[x] \in Wires
  BY DEF IInv, TypeOK
<1>2. sess[alias[x]] # 0 /\ recs[sess[alias[x]]].wire = x /\ x # alias[x]
  BY DEF IInv, Aliases
<1> QED BY <1>1, <1>2, Ints DEF IInv, Claims

\* What a step that forgets z does to the aliases.
LEMMA Unaliasing ==
  ASSUME IInv, TypeOK', Shapes, NEW z \in Wires, raced \subseteq raced',
         \A x \in Wires : alias'[x] = IF alias[x] = z THEN NoWire ELSE alias[x],
         \A t \in Wires : t # z => sess'[t] = sess[t],
         \A q \in Index : recs'[q].wire = recs[q].wire,
         sess'[z] # 0 => /\ recs'[sess'[z]].wire = z
                         /\ \A t \in Wires : ~Claims(t, z)
  PROVE  Aliases'
<1>0. TypeOK /\ Aliases
  BY DEF IInv
<1>1. ASSUME NEW x \in Wires, alias'[x] # NoWire, alias'[x] \notin raced'
      PROVE  sess'[alias'[x]] # 0 /\ recs'[sess'[alias'[x]]].wire = x /\ x # alias'[x]
  <2>1. alias'[x] = alias[x] /\ alias[x] # z /\ alias[x] \notin raced
    BY <1>1
  <2>2. /\ alias[x] \in Wires /\ alias[x] # x /\ sess[alias[x]] \in Index
        /\ recs[sess[alias[x]]].wire = x
    BY <1>1, <2>1, AliasClaim
  <2> QED BY <1>0, <2>1, <2>2, Ints
<1>2. ASSUME NEW s \in Wires, sess'[s] # 0, s \notin raced'
      PROVE  /\ recs'[sess'[s]].wire = s => alias'[s] \in raced' \cup {NoWire}
             /\ recs'[sess'[s]].wire # s => alias'[recs'[sess'[s]].wire] = s
  <2>1. CASE s = z
    <3>1. recs'[sess'[s]].wire = s
      BY <1>2, <2>1
    <3>2. alias[s] \in raced \cup {NoWire}
      BY <1>2, <2>1, AliasClaim
    <3> QED BY <3>1, <3>2
  <2>2. CASE s # z
    <3>1. sess'[s] = sess[s] /\ sess[s] \in Index /\ recs'[sess[s]].wire = recs[sess[s]].wire
      BY <1>0, <1>2, <2>2, Ints
    <3>2. recs[sess[s]].wire \in Wires /\ sess[s] # 0 /\ s \notin raced
      BY <1>0, <1>2, <3>1, Ints
    <3>3. /\ recs[sess[s]].wire = s => alias[s] \in raced \cup {NoWire}
          /\ recs[sess[s]].wire # s => alias[recs[sess[s]].wire] = s
      BY <1>0, <3>2 DEF Aliases
    <3> QED BY <2>2, <3>1, <3>2, <3>3
  <2> QED BY <2>1, <2>2
<1> QED BY <1>1, <1>2 DEF Aliases

LEMMA AliasesStep ==
  ASSUME IInv, TypeOK', Shapes
  PROVE  Aliases'
<1>0. TypeOK /\ Handled /\ Homes /\ Fresh /\ Owned /\ Claimed /\ Aliases
  BY DEF IInv
<1>1. CASE /\ alias' = alias /\ sess' = sess /\ raced' = raced
           /\ \A q \in Index : recs'[q].wire = recs[q].wire
  <2>1. \A s \in Wires : sess[s] # 0 => recs'[sess[s]].wire = recs[sess[s]].wire
    BY <1>0, <1>1, Ints
  <2>2. \A x \in Wires : alias[x] \in Wires \cup {NoWire}
    BY <1>0 DEF TypeOK
  <2>3. ASSUME NEW x \in Wires, alias[x] # NoWire, alias[x] \notin raced
        PROVE  sess[alias[x]] # 0 /\ recs'[sess[alias[x]]].wire = x /\ x # alias[x]
    BY <1>0, <2>1, <2>2, <2>3 DEF Aliases
  <2>4. ASSUME NEW s \in Wires, sess[s] # 0, s \notin raced
        PROVE  /\ recs'[sess[s]].wire = s => alias[s] \in raced \cup {NoWire}
               /\ recs'[sess[s]].wire # s => alias[recs'[sess[s]].wire] = s
    BY <1>0, <2>1, <2>4 DEF Aliases
  <2> QED BY <1>1, <2>3, <2>4 DEF Aliases
<1>2. ASSUME NEW k \in Callers, Tracks(k) PROVE Aliases'
  <2> DEFINE z == at[k].wire
  <2>1. z \in Wires /\ at[k].pc = "track"
    BY <1>0, <1>2, Fields DEF Tracks, Handled
  <2>2. ASSUME NEW t \in Wires, Claims(t, z) PROVE FALSE
    <3>1. at[k].op # "resume"
      BY <1>0, <2>1, <2>2 DEF Claimed, Handled
    <3>2. \A x \in Wires : home[x] = z <=> x = z
      BY <1>0, <2>1, <3>1 DEF Fresh, Opening
    <3>3. home[z] = home[t] /\ t # z
      BY <2>1, <2>2, ClaimHome DEF Claims
    <3> QED BY <2>1, <2>2, <3>2, <3>3
  <2>3. /\ raced \subseteq raced'
        /\ \A x \in Wires : alias'[x] = IF alias[x] = z THEN NoWire ELSE alias[x]
        /\ \A t \in Wires : t # z => sess'[t] = sess[t]
        /\ \A q \in Index : recs'[q].wire = recs[q].wire
        /\ recs'[sess'[z]].wire = z
    BY <1>2, <2>1 DEF Tracks, Forgets
  <2> HIDE DEF z
  <2> QED BY <2>1, <2>2, <2>3, Unaliasing
<1>3. ASSUME NEW k \in Callers, Discards(k) PROVE Aliases'
  <2>1. at[k].wire \in Wires
    BY <1>3, Discarded
  <2>2. /\ raced \subseteq raced'
        /\ \A x \in Wires : alias'[x] = IF alias[x] = at[k].wire THEN NoWire ELSE alias[x]
        /\ \A t \in Wires : t # at[k].wire => sess'[t] = sess[t]
        /\ \A q \in Index : recs'[q].wire = recs[q].wire
        /\ sess'[at[k].wire] = 0
    BY <1>3, <2>1 DEF Discards
  <2> QED BY <2>1, <2>2, Unaliasing
<1>4. ASSUME NEW z \in Wires, Drops(z) PROVE Aliases'
  <2>1. /\ raced \subseteq raced'
        /\ \A x \in Wires : alias'[x] = IF alias[x] = z THEN NoWire ELSE alias[x]
        /\ \A t \in Wires : t # z => sess'[t] = sess[t]
        /\ \A q \in Index : recs'[q].wire = recs[q].wire
        /\ sess'[z] = 0
    BY <1>4 DEF Drops, Forgets
  <2> QED BY <2>1, Unaliasing
<1>5. ASSUME NEW k \in Callers, Adopts(k) PROVE Aliases'
  <2> DEFINE r == at[k].rec
             w == at[k].wire
             c == at[k].sid
  <2>1. /\ at[k].pc = "adopt" /\ Recovering(k) /\ r \in Index /\ c \in Wires /\ w \in Wires
        /\ home[w] = home[c]
    BY <1>0, <1>5, Fields DEF Adopts, Handled, Recovering, Homes
  <2>2. /\ \A x \in Wires : alias'[x] = IF x = w /\ x # c THEN c
                                        ELSE IF x = recs[r].wire THEN NoWire ELSE alias[x]
        /\ \A q \in Index : q # r => recs'[q] = recs[q]
        /\ recs'[r].wire = w /\ sess' = sess /\ raced' = raced
    BY <1>5 DEF Adopts
  <2>3. c \notin raced => r = sess[c] /\ sess[c] \in Index /\ sess[c] # 0
    BY <1>0, <2>1, Recovered, Ints
  <2>4. \A s \in Wires : r = sess[s] => s = c
    BY <1>0, <2>1 DEF Owned
  \* The wire id of any other session that claims it is another.
  <2>5. ASSUME NEW s \in Wires, s # c, NEW x \in Wires, Claims(s, x) PROVE x # w /\ x # recs[r].wire
    <3>1. sess[s] \in Index /\ (x = w => r = sess[s]) /\ (recs[r].wire = x => r = sess[s])
      BY <1>0, <2>1, <2>5, ClaimHome DEF Claimed
    <3> QED BY <2>4, <2>5, <3>1
  <2>6. c \notin raced /\ w # c => Claims(c, w)
    BY <2>1 DEF Claims
  <2> HIDE DEF r, w, c
  <2>7. ASSUME NEW x \in Wires, alias'[x] # NoWire, alias'[x] \notin raced
        PROVE  sess[alias'[x]] # 0 /\ recs'[sess[alias'[x]]].wire = x /\ x # alias'[x]
    <3>1. CASE x = w /\ x # c
      BY <2>2, <2>3, <2>7, <3>1
    <3>2. CASE ~(x = w /\ x # c) /\ x # recs[r].wire
      <4>1. alias'[x] = alias[x]
        BY <2>2, <3>2
      <4>2. /\ alias[x] \in Wires /\ alias[x] # x /\ sess[alias[x]] \in Index
            /\ recs[sess[alias[x]]].wire = x
        BY <2>7, <4>1, AliasClaim
      <4> QED BY <1>0, <2>2, <3>2, <4>1, <4>2, Ints
    <3> QED BY <2>2, <2>7, <3>1, <3>2
  <2>8. ASSUME NEW s \in Wires, sess[s] # 0, s \notin raced
        PROVE  /\ recs'[sess[s]].wire = s => alias'[s] \in raced \cup {NoWire}
               /\ recs'[sess[s]].wire # s => alias'[recs'[sess[s]].wire] = s
    <3>1. sess[s] \in Index /\ recs[sess[s]].wire \in Wires
      BY <1>0, <2>8, Ints
    <3>2. CASE s = c
      <4>1. recs'[sess[s]].wire = w
        BY <2>2, <2>3, <2>8, <3>2
      <4>2. ASSUME w = c, recs[r].wire # c, alias[c] \notin raced \cup {NoWire} PROVE FALSE
        <5>1. /\ alias[c] \in Wires /\ alias[c] # c /\ sess[alias[c]] \in Index
              /\ recs[sess[alias[c]]].wire = c /\ Claims(alias[c], c)
          BY <2>1, <4>2, AliasClaim
        <5> QED BY <2>1, <2>5, <4>2, <5>1
      <4> QED BY <2>1, <2>2, <3>2, <4>1, <4>2
    <3>3. CASE s # c
      <4>1. sess[s] # r /\ recs'[sess[s]].wire = recs[sess[s]].wire
        BY <2>2, <2>4, <3>1, <3>3
      <4>2. CASE recs[sess[s]].wire = s
        <5>1. alias[s] \in raced \cup {NoWire}
          BY <1>0, <2>8, <4>2 DEF Aliases
        <5>2. ASSUME s = w PROVE c \in raced
          BY <1>0, <2>1, <2>3, <2>6, <3>1, <3>3, <4>1, <4>2, <5>2 DEF Claimed
        <5> QED BY <2>2, <4>1, <4>2, <5>1, <5>2
      <4>3. CASE recs[sess[s]].wire # s
        <5> DEFINE x == recs[sess[s]].wire
        <5>1. Claims(s, x) /\ alias[x] = s
          BY <1>0, <2>8, <4>3 DEF Aliases, Claims
        <5>2. x # w /\ x # recs[r].wire
          BY <2>5, <3>1, <3>3, <5>1
        <5> QED BY <2>2, <3>1, <4>1, <4>3, <5>1, <5>2
      <4> QED BY <4>2, <4>3
    <3> QED BY <3>2, <3>3
  <2> QED BY <2>2, <2>7, <2>8 DEF Aliases
<1>6. CASE \E k \in Callers : Locks(k) \/ Fails(k)
  BY <1>1, <1>6 DEF Locks, Fails, SetsLock
<1>7. CASE TablesKept
  BY <1>1, <1>7 DEF TablesKept
<1>8. CASE \E k \in Callers : Hears(k)
  BY <1>1, <1>8 DEF Hears
<1> QED BY <1>2, <1>3, <1>4, <1>5, <1>6, <1>7, <1>8
        DEF Shapes, Shape, Rests, Starts, Looks, Finds, Restores, Replaces, Refuses,
            Opens, Resumes, GoesOn, Quits, Kept, Mints

LEMMA MutesStep ==
  ASSUME IInv, TypeOK', Shapes
  PROVE  Mutes'
<1>0. TypeOK /\ Mutes
  BY DEF IInv
<1> SUFFICES ASSUME NEW x \in muted'
             PROVE  \E k \in Callers : at'[k].pc \in {"load", "adopt"} /\ at'[k].wire = x
  BY DEF Mutes
<1>1. ASSUME NEW k \in Callers, Locks(k), x \notin muted
      PROVE  at'[k].pc \in {"load", "adopt"} /\ at'[k].wire = x
  <2>1. PICK p \in {"resume", "load", "new"} :
            /\ Goes(k, p, recs[at[k].rec].wire)
            /\ muted' \subseteq muted \cup (IF p = "load" THEN {recs[at[k].rec].wire} ELSE {})
    BY <1>1 DEF Locks
  <2>2. p = "load" /\ x = recs[at[k].rec].wire
    BY <1>1, <2>1
  <2> QED BY <2>1, <2>2 DEF Goes
<1>2. ASSUME NEW k \in Callers, Refuses(k), x \notin muted
      PROVE  at'[k].pc \in {"load", "adopt"} /\ at'[k].wire = x
  BY <1>2 DEF Refuses, Goes
<1>3. x \in muted \/ \E k \in Callers : Locks(k) \/ Refuses(k)
  BY DEF Shapes, Shape, Rests, Drops, Starts, Looks, Finds, Restores, Replaces, Fails, Adopts,
         Opens, Resumes, Tracks, Hears, Discards, GoesOn, Quits, Kept, Mints
<1>4. ASSUME x \in muted PROVE \E k \in Callers : at'[k].pc \in {"load", "adopt"} /\ at'[k].wire = x
  <2> PICK k \in Callers : at[k].pc \in {"load", "adopt"} /\ at[k].wire = x
    BY <1>0, <1>4 DEF Mutes
  <2>1. CASE at'[k] = at[k]
    BY <2>1
  <2>2. CASE Restores(k)
    BY <2>2 DEF Restores, Goes
  <2>3. CASE Refuses(k) \/ Fails(k) \/ Adopts(k)
    BY <2>3 DEF Refuses, Fails, Adopts
  <2>4. ~ (\/ Starts(k) \/ Looks(k) \/ Finds(k) \/ Locks(k) \/ Replaces(k) \/ Opens(k) \/ Resumes(k)
           \/ Tracks(k) \/ Hears(k) \/ Discards(k) \/ GoesOn(k) \/ Quits(k))
    BY DEF Starts, Looks, Finds, Locks, Replaces, Opens, Resumes, Tracks, Hears, Discards, GoesOn,
           Quits, Underway
  <2> QED BY <2>1, <2>2, <2>3, <2>4, OneMoves DEF Shape
<1> QED BY <1>1, <1>2, <1>3, <1>4

\* The calls that may touch a run are prompts; what the others do is no prompt's.
LEMMA RunSteps ==
  ASSUME IInv, Next, NEW w \in Wires, run'[w] = "live"
  PROVE  \/ /\ run[w] = "live" /\ up' = up /\ cur' = cur
            /\ \A k \in Callers :
                   at[k].pc = "call" /\ Prompts(k) /\ at[k].sent /\ at[k].wire = w /\ at[k].gen = cur
                   => at'[k] = at[k]
         \/ /\ up' /\ cur' = cur
            /\ \E k \in Callers : /\ at'[k].pc = "call" /\ Prompts(k)' /\ at'[k].sent
                                  /\ at'[k].wire = w /\ at'[k].gen = cur
<1>0. TypeOK /\ Runs
  BY DEF IInv
<1> DEFINE Holder(k) == /\ at[k].pc = "call" /\ Prompts(k) /\ at[k].sent
                        /\ at[k].wire = w /\ at[k].gen = cur
           Same == /\ run[w] = "live" /\ up' = up /\ cur' = cur
                   /\ \A k \in Callers : Holder(k) => at'[k] = at[k]
<1>1. ASSUME run[w] = "live" PROVE up
  BY <1>0, <1>1 DEF Runs
<1>2. ~Dies
  BY DEF Dies
<1>3. ~Respawns
  BY <1>1 DEF Respawns
<1>4. ASSUME NEW x \in Wires, SessionUpdate(x) \/ DropSession(x) PROVE Same
  BY <1>4 DEF SessionUpdate, DropSession, child
<1>5. ASSUME NEW k \in Callers, NEW c, Go(k, c), run[w] = "live", up' = up, cur' = cur, ~Holder(k)
      PROVE  Same
  BY <1>0, <1>5, Going DEF Others
<1> HIDE DEF Same
<1>6. ASSUME NEW k \in Callers, NEW op \in Ops, NEW s \in Wires \cup {NoWire}, Begin(k, op, s)
      PROVE  Same
  <2>1. /\ run[w] = "live" /\ up' = up /\ cur' = cur /\ ~Holder(k)
        /\ Go(k, [Idle EXCEPT !.pc = "live", !.op = op, !.sid = s,
                              !.sp = op = "fork" /\ "stable" \in caps])
    BY <1>6 DEF Begin, child
  <2> HIDE DEF Holder
  <2> QED BY <1>5, <2>1
<1>7. ASSUME NEW k \in Callers, Live(k) \/ Peek(k) \/ Route(k) \/ Adopt(k) \/ ChildRefuses(k)
      PROVE  Same
  <2>1. run[w] = "live" /\ up' = up /\ cur' = cur /\ ~Holder(k)
    BY <1>7 DEF Live, Peek, Route, Adopt, ChildRefuses, child
  <2>2. \E c : Go(k, c)
    BY <1>7 DEF Live, Peek, Route, Adopt, ChildRefuses
  <2> HIDE DEF Holder
  <2> QED BY <1>5, <2>1, <2>2
<1>8. ASSUME NEW k \in Callers, ChildRestores(k) \/ ChildReplaces(k) \/ ChildResumes(k)
      PROVE  Same
  <2>1. run[w] = "live" /\ up' = up /\ cur' = cur /\ ~Holder(k)
    BY <1>8 DEF ChildRestores, ChildReplaces, ChildResumes, Prompts
  <2>2. \E c : Go(k, c)
    BY <1>8 DEF ChildRestores, ChildReplaces, ChildResumes
  <2> HIDE DEF Holder
  <2> QED BY <1>5, <2>1, <2>2
<1>9. ASSUME NEW k \in Callers, ChildOpens(k) \/ ChildForks(k) PROVE Same
  <2>1. ~Holder(k)
    BY <1>9 DEF ChildOpens, ChildForks, Prompts
  <2>2. \E b, c : Makes(k, b, c)
    BY <1>9 DEF ChildOpens, ChildForks
  <2>3. run[w] = "live" /\ up' = up /\ cur' = cur /\ \E c : Go(k, c)
    BY <2>2 DEF Makes
  <2> HIDE DEF Holder
  <2> QED BY <1>5, <2>1, <2>3
<1>10. ASSUME NEW k \in Callers,
              \/ RecoveryFails(k) \/ Track(k) \/ Wire(k) \/ Discard(k) \/ NoteModel(k)
              \/ CallFails(k) \/ Unanswered(k) \/ ChildSetsModel(k) \/ ChildReleases(k)
       PROVE  Same
  <2>1. run[w] = "live" /\ up' = up /\ cur' = cur /\ ~Holder(k)
    BY <1>10 DEF RecoveryFails, Track, Wire, Discard, NoteModel, CallFails, Unanswered,
                 ChildSetsModel, ChildReleases, child, Prompts
  <2>2. \E c : Go(k, c)
    BY <1>10 DEF RecoveryFails, Track, Wire, Discard, NoteModel, CallFails, Unanswered,
                 ChildSetsModel, ChildReleases, Return
  <2> HIDE DEF Holder
  <2> QED BY <1>5, <2>1, <2>2
<1>11. ASSUME NEW k \in Callers, PromptEnds(k) \/ PromptGivesUp(k) \/ Cancel(k) PROVE Same
  <2>1. \E c : Go(k, c)
    BY <1>11 DEF PromptEnds, PromptGivesUp, Cancel, Return
  <2>2. up' = up /\ cur' = cur
    BY <1>11 DEF PromptEnds, PromptGivesUp, Cancel
  <2>3. run[w] = "live" /\ ~Holder(k)
    <3>1. CASE PromptEnds(k) \/ PromptGivesUp(k)
      <4>1. ASSUME at[k].sent, Lives(at[k].gen) PROVE at[k].wire # w /\ run[w] = "live"
        <5>1. PICK v \in {"none", "stopped"} : run' = [run EXCEPT ![at[k].wire] = v]
          BY <3>1, <4>1 DEF PromptEnds, PromptGivesUp
        <5> QED BY <1>0, <5>1 DEF TypeOK
      <4>2. ASSUME ~(at[k].sent /\ Lives(at[k].gen)) PROVE run[w] = "live"
        BY <3>1, <4>2 DEF PromptEnds, PromptGivesUp
      <4>3. run[w] = "live"
        BY <4>1, <4>2
      <4> QED BY <1>1, <4>1, <4>3 DEF Lives
    <3>2. CASE Cancel(k)
      <4>1. run' = cancelled(at[k].sid) /\ at[k].pc = "giveUp"
        BY <3>2 DEF Cancel
      <4>2. run[w] = "live"
        BY <1>0, <4>1 DEF cancelled, TypeOK
      <4> QED BY <4>1, <4>2
    <3> QED BY <1>11, <3>1, <3>2
  <2> HIDE DEF Holder
  <2> QED BY <1>5, <2>1, <2>2, <2>3
<1>12. ASSUME NEW k \in Callers, PromptReaches(k)
       PROVE  Same \/ /\ up' /\ cur' = cur
                      /\ at'[k].pc = "call" /\ Prompts(k)' /\ at'[k].sent
                      /\ at'[k].wire = w /\ at'[k].gen = cur
  <2>1. /\ Go(k, [at[k] EXCEPT !.sent = TRUE]) /\ ~at[k].sent /\ Prompts(k)
        /\ Lives(at[k].gen) /\ up' = up /\ cur' = cur
        /\ run' = [run EXCEPT ![at[k].wire] = IF at[k].pc = "call" THEN "live" ELSE "stopped"]
    BY <1>12 DEF PromptReaches, Prompts
  <2>2. CASE run[w] = "live"
    <3>1. ~Holder(k)
      BY <2>1
    <3> HIDE DEF Holder
    <3> QED BY <1>5, <2>1, <2>2, <3>1
  <2>3. CASE run[w] # "live"
    <3>1. at[k].wire = w /\ at[k].pc = "call"
      BY <1>0, <2>1, <2>3 DEF TypeOK
    <3>2. at'[k] = [at[k] EXCEPT !.sent = TRUE]
      BY <1>0, <2>1, Going
    <3>3. /\ at'[k].pc = "call" /\ at'[k].wire = w /\ at'[k].sent = TRUE /\ at'[k].op = at[k].op
          /\ at'[k].gen = at[k].gen
      BY <1>0, <3>1, <3>2, Records DEF CallT
    <3> QED BY <2>1, <3>3 DEF Lives, Prompts
  <2> QED BY <2>2, <2>3
<1>13. ASSUME NEW k \in Callers, Call(k)
       PROVE  Same \/ /\ up' /\ cur' = cur
                      /\ at'[k].pc = "call" /\ Prompts(k)' /\ at'[k].sent
                      /\ at'[k].wire = w /\ at'[k].gen = cur
  BY <1>7, <1>8, <1>9, <1>10, <1>11, <1>12, <1>13 DEF Call
<1> HIDE DEF Holder
<1>14. Same \/ \E k \in Callers : /\ up' /\ cur' = cur
                                  /\ at'[k].pc = "call" /\ Prompts(k)' /\ at'[k].sent
                                  /\ at'[k].wire = w /\ at'[k].gen = cur
  BY <1>2, <1>3, <1>4, <1>6, <1>13 DEF Next
<1> QED BY <1>14 DEF Same, Holder

LEMMA RunsStep ==
  ASSUME IInv, [Next]_vars
  PROVE  Runs'
<1>1. CASE UNCHANGED vars
  BY <1>1 DEF IInv, Runs, Prompts, vars, child
<1>2. CASE Next
  <2> SUFFICES ASSUME NEW w \in Wires, run'[w] = "live"
               PROVE  up' /\ \E k \in Callers : /\ at'[k].pc = "call" /\ Prompts(k)' /\ at'[k].sent
                                                /\ at'[k].wire = w /\ at'[k].gen = cur'
    BY DEF Runs
  <2>1. CASE /\ run[w] = "live" /\ up' = up /\ cur' = cur
             /\ \A k \in Callers :
                    at[k].pc = "call" /\ Prompts(k) /\ at[k].sent /\ at[k].wire = w /\ at[k].gen = cur
                    => at'[k] = at[k]
    BY <2>1 DEF IInv, Runs, Prompts
  <2>2. CASE /\ up' /\ cur' = cur
             /\ \E k \in Callers : /\ at'[k].pc = "call" /\ Prompts(k)' /\ at'[k].sent
                                   /\ at'[k].wire = w /\ at'[k].gen = cur
    BY <2>2
  <2> QED BY <1>2, <2>1, <2>2, RunSteps
<1> QED BY <1>1, <1>2

-----------------------------------------------------------------------------
(* The theorems                                                             *)

LEMMA InitIInv ==
  ASSUME Init
  PROVE  IInv
<1>1. /\ \A k \in Callers : at[k] = Idle
      /\ Idle.pc = "idle" /\ Idle.op = "new" /\ Idle.sid = NoWire /\ Idle.wire = NoWire
      /\ Idle.gen = 0 /\ Idle.rec = 0
  BY DEF Init, Idle
<1>2. /\ recs = <<>> /\ Len(recs) = 0 /\ Index = {} /\ NoWire = 0 /\ cur = 1 /\ minted = 0
      /\ muted = {} /\ sinks = {} /\ raced = {}
      /\ \A w \in Wires : home[w] = 0 /\ sess[w] = 0 /\ alias[w] = 0 /\ run[w] = "none" /\ w # 0
  BY Numbers DEF Init, Index, Wires, NoWire
<1>3. TypeOK
  <2>1. cur \in 1 .. MaxGens
    BY Numbers DEF Init
  <2> QED BY <1>1, <1>2, <2>1, Numbers DEF Init, TypeOK
<1>4. Bounded
  BY <1>1, <1>2 DEF Bounded
<1>5. \A k \in Callers : ~Recovering(k) /\ ~Establishing(k) /\ ~Opening(k) /\ ~Prompts(k)
  BY <1>1 DEF Recovering, Establishing, Opening, Prompts
<1>6. Handled /\ Homes
  BY <1>1, <1>2, <1>5 DEF Handled, Homes
<1>7. Fresh /\ Locking /\ Owned
  BY <1>1, <1>2, <1>5 DEF Fresh, Locking, Owned
<1>8. Claimed /\ Aliases /\ Mutes /\ Runs
  BY <1>1, <1>2 DEF Claimed, Claims, Aliases, Mutes, Runs
<1> QED BY <1>3, <1>4, <1>6, <1>7, <1>8 DEF IInv

LEMMA Step ==
  ASSUME IInv, [Next]_vars
  PROVE  IInv' /\ Shapes
<1>1. TypeOK' /\ Shapes
  BY TypeStep, StepShapes DEF IInv
<1> QED BY <1>1, BoundedStep, HandledStep, HomesStep, FreshStep, LockingStep, OwnedStep, ClaimedStep,
           AliasesStep, MutesStep, RunsStep DEF IInv

\* The inductive invariant holds in every state: with it, every variable has
\* its type, whatever the agent and its callers do.
THEOREM Invariance == Spec => []IInv
<1>1. Init => IInv
  BY InitIInv
<1>2. IInv /\ [Next]_vars => IInv'
  BY Step
<1> QED BY <1>1, <1>2, PTL DEF Spec

\* A session changes its wire id only by moving to a newer child, and never
\* moves back: a record is written by the call that holds its lock, which
\* looked at a child newer than the record's (route, recoverSession, adopt).
THEOREM SessionsMoveForward == Spec => WireFollowsChild
<1>1. ASSUME IInv, [Next]_vars
      PROVE  [\A r \in DOMAIN recs :
                  /\ recs'[r].gen >= recs[r].gen
                  /\ recs'[r].wire # recs[r].wire => recs'[r].gen > recs[r].gen]_vars
  <2>0. TypeOK /\ Handled /\ Locking /\ Shapes
    BY <1>1, Step DEF IInv
  <2> SUFFICES ASSUME NEW r \in Index
               PROVE  /\ recs'[r].gen >= recs[r].gen
                      /\ recs'[r].wire # recs[r].wire => recs'[r].gen > recs[r].gen
    BY <2>0, Records
  <2>1. recs[r].gen \in Nat
    BY <2>0, Ints
  <2>2. ASSUME NEW k \in Callers, Adopts(k), at[k].rec = r PROVE recs'[r].gen > recs[r].gen
    <3>1. recs'[r].gen = at[k].gen /\ recs[r].gen < at[k].gen
      BY <2>0, <2>2 DEF Adopts, Locking
    <3> QED BY <2>0, <2>1, <3>1, Fields
  <2>3. CASE \E k \in Callers : Adopts(k) /\ at[k].rec = r
    <3>1. recs'[r].gen > recs[r].gen /\ recs'[r].gen \in Nat
      BY <2>0, <2>2, <2>3, Fields DEF Adopts
    <3> QED BY <2>1, <3>1
  <2> QED BY <2>0, <2>1, <2>3, RecordSteps
<1> QED BY <1>1, Invariance, PTL DEF Spec, WireFollowsChild

\* A prompt that gives up cancels no live run: the session it looks up is of
\* its own conversation, in which no other prompt runs until it returns
\* (PromptTurn, Cancel).
THEOREM CancelsItsOwn == Spec => StopsOnlyTheStopped
<1>1. ASSUME IInv, [Next]_vars, NEW w \in Wires, run[w] = "live", run'[w] = "cancelled"
      PROVE  FALSE
  <2>0. TypeOK /\ Handled /\ Homes /\ Runs
    BY <1>1 DEF IInv
  <2>1. PICK k \in Callers : Cancel(k)
    <3>1. run' # run
      BY <1>1
    <3>2. ~ (Dies \/ Respawns \/ \E x \in Wires : SessionUpdate(x) \/ DropSession(x))
      BY <1>1, <3>1 DEF Dies, Respawns, SessionUpdate, DropSession, child
    <3>3. \A k \in Callers : \A op, s : ~Begin(k, op, s)
      BY <3>1 DEF Begin, child
    <3>4. \A k \in Callers : \A p, y : ~Makes(k, p, y)
      BY <3>1 DEF Makes
    <3>5. ASSUME NEW k \in Callers, Call(k) PROVE Cancel(k)
      <4>1. ~ (\/ Live(k) \/ Peek(k) \/ Route(k) \/ ChildRestores(k) \/ ChildReplaces(k)
               \/ ChildRefuses(k) \/ RecoveryFails(k) \/ Adopt(k) \/ ChildResumes(k) \/ Track(k)
               \/ Wire(k) \/ Discard(k) \/ ChildSetsModel(k) \/ NoteModel(k) \/ ChildReleases(k)
               \/ CallFails(k) \/ Unanswered(k))
        BY <3>1 DEF Live, Peek, Route, ChildRestores, ChildReplaces, ChildRefuses, RecoveryFails,
           Adopt, ChildResumes, Track, Wire, Discard, ChildSetsModel, NoteModel, ChildReleases,
           CallFails, Unanswered, child
      <4>2. ~ChildOpens(k) /\ ~ChildForks(k)
        BY <3>4 DEF ChildOpens, ChildForks
      <4>3. ~ (PromptReaches(k) \/ PromptEnds(k) \/ PromptGivesUp(k))
        <5>1. ASSUME NEW v \in {"none", "live", "stopped"}, run' = [run EXCEPT ![at[k].wire] = v]
              PROVE  FALSE
          BY <1>1, <2>0, <5>1 DEF TypeOK
        <5> QED BY <3>1, <5>1 DEF PromptReaches, PromptEnds, PromptGivesUp
      <4> QED BY <3>5, <4>1, <4>2, <4>3 DEF Call
    <3>6. Next
      BY <1>1, <3>1 DEF vars, child
    <3> QED BY <3>2, <3>3, <3>5, <3>6 DEF Next
  <2> DEFINE s == at[k].sid
  <2>2. at[k].pc = "giveUp" /\ Prompts(k) /\ s \in Wires
    BY <2>0, <2>1, Fields DEF Cancel, Handled, Prompts
  <2>3. home[w] = home[s]
    <3>1. w = IF sess[s] = 0 THEN s ELSE recs[sess[s]].wire
      BY <1>1, <2>0, <2>1 DEF Cancel, cancelled, TypeOK
    <3> QED BY <2>0, <2>2, <3>1 DEF Homes
  <2>4. PICK j \in Callers : at[j].pc = "call" /\ Prompts(j) /\ at[j].wire = w
    BY <1>1, <2>0 DEF Runs
  <2>5. home[w] = home[at[j].sid]
    BY <2>0, <2>4 DEF Homes, Prompts
  <2> QED BY <2>0, <2>2, <2>3, <2>4, <2>5 DEF Homes
<1>2. ASSUME IInv, [Next]_vars
      PROVE  [\A w \in Wires : run[w] = "live" => run'[w] # "cancelled"]_vars
  BY <1>1, <1>2
<1> QED BY <1>2, Invariance, PTL DEF Spec, StopsOnlyTheStopped

LEMMA Heard ==
  ASSUME IInv
  PROVE  HeardByItsSession
<1>0. TypeOK /\ Handled /\ Locking /\ Owned /\ Claimed /\ Aliases /\ Mutes
  BY DEF IInv
<1> SUFFICES ASSUME NEW s \in sinks, sess[s] # 0, ~recs[sess[s]].locked, ~Haunted(recs[sess[s]].wire),
                    {s, CallerFor(recs[sess[s]].wire)} \cap raced = {}
             PROVE  CallerFor(recs[sess[s]].wire) = s /\ recs[sess[s]].wire \notin muted
  BY DEF HeardByItsSession
<1> DEFINE q == sess[s]
           w == recs[q].wire
<1>1. s \in Wires /\ q \in Index /\ w \in Wires /\ s \notin raced /\ CallerFor(w) \notin raced
  BY <1>0, Ints
<1>2. CallerFor(w) = s
  <2>1. CASE w = s
    <3>1. alias[w] \in raced \cup {NoWire}
      BY <1>0, <1>1, <2>1 DEF Aliases
    <3> QED BY <1>1, <2>1, <3>1 DEF CallerFor
  <2>2. CASE w # s
    <3>1. alias[w] = s
      BY <1>0, <1>1, <2>2 DEF Aliases
    <3> QED BY <1>0, <1>1, <3>1, Ints DEF CallerFor
  <2> QED BY <2>1, <2>2
<1>3. w # s => Claims(s, w)
  BY <1>1 DEF Claims
<1>4. ASSUME NEW k \in Callers, at[k].pc \in {"load", "adopt"}, at[k].wire = w PROVE FALSE
  <2>1. Recovering(k) /\ Establishing(k)
    BY <1>4 DEF Recovering, Establishing
  <2>2. at[k].sid \notin raced
    BY <1>4, <2>1 DEF Haunted
  <2>3. at[k].sid \in Wires /\ at[k].rec = sess[at[k].sid] /\ at[k].rec \in Index
    BY <1>0, <2>1, <2>2, Recovered
  <2>4. at[k].rec # q /\ at[k].sid # s
    BY <1>0, <2>1, <2>3 DEF Locking
  <2>5. at[k].pc = "load" => recs[at[k].rec].wire = w
    BY <1>0, <1>4 DEF Handled
  <2>6. w = s
    BY <1>0, <1>1, <1>3, <1>4, <2>3, <2>4, <2>5 DEF Claimed
  <2>7. Claims(at[k].sid, w)
    BY <1>0, <1>1, <1>4, <2>2, <2>3, <2>4, <2>5, <2>6, Ints DEF Claims
  <2> QED BY <1>0, <1>1, <2>3, <2>4, <2>7 DEF Claimed
<1> QED BY <1>0, <1>2, <1>4 DEF Mutes

\* What the child says in a session reaches that session, for any agent: an
\* alias is a claim, which no other session has, and a mute is a call that
\* loads the session, which holds its record (callerFor, adopt, setMuted).
THEOREM UpdatesAreHeard == Spec => []HeardByItsSession
<1>1. IInv => HeardByItsSession
  BY Heard
<1> QED BY <1>1, Invariance, PTL

-----------------------------------------------------------------------------
(* The system prompt                                                        *)

\* A session that a child holds without a system prompt was recorded so, or is
\* about to be.
Unprompted(w) ==
    \/ \E q \in Index : ~recs[q].sys /\ home[recs[q].wire] = home[w]
    \/ \E k \in Callers : at[k].pc = "track" /\ Opening(k) /\ at[k].wire = w /\ ~at[k].sp

Known == (~up => held = {}) /\ \A w \in held : w <= minted
Bare == \A w \in held \ prompted : "stable" \in caps => Unprompted(w)

\* The stages of a fork before the child answers it.
Begun == {"live", "lock", "resume", "load", "new", "adopt", "call"}

\* A call asks for the system prompt when its child takes one; a fork asked
\* the child that lived when it began.
Ready(c) ==
    /\ c.op \in {"new", "probe", "resume"} =>
           /\ c.pc = "call" /\ c.gen = cur => (c.sp <=> "stable" \in caps)
           /\ c.pc = "track" => c.sp
    /\ c.op = "fork" /\ c.pc \in Begun => c.sp \/ \A a \in Agents : "stable" \notin a
    /\ c.pc \in {"resume", "load", "new", "adopt"} /\ c.gen = cur =>
           ("stable" \in c.caps <=> "stable" \in caps)

PInv == Known /\ Bare /\ \A k \in Callers : Ready(at[k])

LEMMA StillUnprompted ==
  ASSUME IInv, TypeOK', Shapes, NEW w \in Wires, w <= minted, Unprompted(w)
  PROVE  Unprompted(w)'
<1>0. TypeOK /\ Handled /\ Bounded
  BY DEF IInv
<1>1. ASSUME NEW q \in Index, ~recs[q].sys, home[recs[q].wire] = home[w] PROVE Unprompted(w)'
  <2>1. q \in Index' /\ recs'[q].sys = recs[q].sys
    BY <1>0, RecordSteps
  <2>2. home'[recs'[q].wire] = home'[w]
    BY <1>1, RecordHome, Together
  <2> QED BY <1>1, <2>1, <2>2 DEF Unprompted
<1>2. ASSUME NEW k \in Callers, at[k].pc = "track", Opening(k), at[k].wire = w, ~at[k].sp
      PROVE  Unprompted(w)'
  <2>1. CASE at'[k] = at[k]
    BY <1>2, <2>1 DEF Unprompted, Opening
  <2>2. CASE Tracks(k)
    <3>1. Len(recs) + 1 \in Index'
      BY <1>0, <2>2, Records DEF Tracks, Index
    <3>2. recs'[Len(recs) + 1].sys = at[k].sp /\ recs'[Len(recs) + 1].wire = w
      BY <1>2, <2>2 DEF Tracks
    <3> QED BY <1>2, <3>1, <3>2 DEF Unprompted
  <2>3. ~ (\/ Starts(k) \/ Looks(k) \/ Finds(k) \/ Locks(k) \/ Restores(k) \/ Replaces(k)
           \/ Refuses(k) \/ Fails(k) \/ Adopts(k) \/ Opens(k) \/ Resumes(k) \/ Hears(k)
           \/ Discards(k) \/ GoesOn(k) \/ Quits(k))
    BY <1>2 DEF Starts, Looks, Finds, Locks, Restores, Replaces, Refuses, Fails, Adopts, Opens,
                Resumes, Hears, Discards, GoesOn, Quits, Underway
  <2> QED BY <2>1, <2>2, <2>3, OneMoves DEF Shape
<1> QED BY <1>1, <1>2 DEF Unprompted

\* A session that a child takes up without a system prompt.
LEMMA TakesUp ==
  ASSUME NEW x, NEW sp, Holds(x, sp), NEW w \in held', w \notin prompted'
  PROVE  w \in held \ prompted \/ (w = x /\ ~sp)
<1>1. w \in held \cup {x} /\ prompted' = IF sp THEN prompted \cup {x} ELSE prompted
  BY DEF Holds
<1>2. CASE sp
  BY <1>1, <1>2
<1>3. CASE ~sp
  BY <1>1, <1>3
<1> QED BY <1>2, <1>3

LEMMA BareStep ==
  ASSUME IInv, TypeOK', Shapes, PInv, Next
  PROVE  Known' /\ Bare'
<1>0. TypeOK /\ Bounded /\ Handled /\ Homes /\ Known /\ Bare
  BY DEF IInv, PInv
<1>1. minted \in Nat /\ minted' \in Nat /\ minted <= minted' /\ held \subseteq Wires
  <2>1. minted' = minted \/ minted' = minted + 1
    BY DEF Shapes, Shape, Rests, Drops, Starts, Looks, Finds, Locks, Restores, Replaces, Refuses,
           Fails, Adopts, Opens, Resumes, Tracks, Hears, Discards, GoesOn, Quits, Kept, IdsKept, Mints
  <2> QED BY <1>0, <2>1, Ints DEF TypeOK
<1>2. \A w \in held : w \in Nat /\ w <= minted /\ w <= minted'
  BY <1>0, <1>1, Ints DEF Known
\* It suffices to look at the session a child takes up.
<1> DEFINE Q == Known' /\ Bare'
<1>3. ASSUME caps' = caps, held' \subseteq held, held' \ prompted' \subseteq held \ prompted,
             up' = up \/ held' = {}
      PROVE  Q
  <2>1. Known'
    BY <1>0, <1>2, <1>3 DEF Known
  <2>2. Bare'
    BY <1>0, <1>1, <1>2, <1>3, StillUnprompted DEF Bare
  <2> QED BY <2>1, <2>2
<1>4. ASSUME NEW x \in Wires, NEW sp, Holds(x, sp), x <= minted', up, up' = up, caps' = caps,
             ~sp /\ "stable" \in caps => Unprompted(x)'
      PROVE  Q
  <2>1. Known'
    BY <1>2, <1>4 DEF Known, Holds
  <2>2. ASSUME NEW w \in held', w \notin prompted', "stable" \in caps PROVE Unprompted(w)'
    <3>1. CASE w \in held \ prompted
      BY <1>0, <1>1, <1>2, <2>2, <3>1, StillUnprompted DEF Bare
    <3>2. CASE w = x /\ ~sp
      BY <1>4, <2>2, <3>2
    <3> QED BY <1>4, <2>2, <3>1, <3>2, TakesUp
  <2>3. Bare'
    BY <1>4, <2>2 DEF Bare
  <2> QED BY <2>1, <2>3
<1> HIDE DEF Q
<1>5. ASSUME UNCHANGED <<caps, held, prompted, up>> PROVE Q
  BY <1>3, <1>5
<1>6. ASSUME Dies PROVE Q
  BY <1>3, <1>6 DEF Dies
<1>7. ASSUME Respawns PROVE Q
  <2>1. held' = {}
    BY <1>0, <1>7 DEF Respawns, Known
  <2> QED BY <2>1 DEF Q, Known, Bare
<1>8. ASSUME (\E w \in Wires : SessionUpdate(w) \/ DropSession(w))
             \/ (\E k \in Callers : \E op, s : Begin(k, op, s))
      PROVE  Q
  BY <1>5, <1>8 DEF SessionUpdate, DropSession, Begin, child
<1>9. ASSUME NEW k \in Callers, ChildReleases(k) PROVE Q
  <2>1. held' \subseteq held /\ held' \ prompted' \subseteq held \ prompted /\ caps' = caps /\ up' = up
    BY <1>9 DEF ChildReleases
  <2> QED BY <1>3, <2>1
<1>10. ASSUME NEW k \in Callers, Establishing(k)
       PROVE  /\ at[k].rec \in Index /\ at[k].sid \in Wires
              /\ home[recs[at[k].rec].wire] = home[at[k].sid] /\ at[k].sid <= minted
  BY <1>0, <1>10, Fields DEF Establishing, Recovering, Handled, Homes, Bounded
<1>11. ASSUME NEW k \in Callers, at[k].pc \in {"resume", "load", "new"}, Lives(at[k].gen),
              ~resent(k), "stable" \in caps
       PROVE  at[k].rec \in Index' /\ ~recs[at[k].rec].sys
  <2>1. "stable" \in at[k].caps
    BY <1>11 DEF PInv, Ready, Lives
  <2> QED BY <1>0, <1>10, <1>11, <2>1, RecordSteps DEF resent, Establishing
<1>12. ASSUME NEW k \in Callers, ChildRestores(k) PROVE Q
  <2>1. /\ at[k].rec \in Index /\ at[k].wire = recs[at[k].rec].wire
        /\ at[k].wire \in Wires /\ at[k].wire <= minted
    BY <1>0, <1>10, <1>12, Ints DEF ChildRestores, Handled, Establishing, Bounded
  <2>2. PICK x \in Wires : x = at[k].wire
    BY <2>1
  <2>3. ASSUME ~resent(k), "stable" \in caps PROVE Unprompted(x)
    <3>1. ~recs[at[k].rec].sys
      BY <1>11, <1>12, <2>3 DEF ChildRestores
    <3> QED BY <2>1, <2>2, <3>1 DEF Unprompted
  <2>4. ~resent(k) /\ "stable" \in caps => Unprompted(x)'
    BY <2>1, <2>2, <2>3, StillUnprompted
  <2>5. /\ Holds(x, resent(k)) /\ up /\ up' = up /\ caps' = caps /\ minted' = minted
        /\ x <= minted
    BY <1>12, <2>1, <2>2 DEF ChildRestores, Lives
  <2> QED BY <1>4, <2>4, <2>5
<1>13. ASSUME NEW k \in Callers, ChildReplaces(k) PROVE Q
  <2>1. minted' \in Wires /\ minted' = minted + 1
    BY <1>1, <1>13, Numbers DEF ChildReplaces, Wires
  <2>2. PICK x \in Wires : x = minted'
    BY <2>1
  <2>3. ASSUME ~resent(k), "stable" \in caps PROVE Unprompted(x)'
    <3> DEFINE q == at[k].rec
    <3>1. q \in Index /\ q \in Index' /\ ~recs[q].sys /\ recs' = recs
      BY <1>10, <1>11, <1>13, <2>3 DEF ChildReplaces, Establishing, tables
    <3>2. home[recs[q].wire] = home[at[k].sid] /\ recs[q].wire \in Wires /\ recs[q].wire <= minted
      BY <1>0, <1>10, <1>13, <3>1, Ints DEF ChildReplaces, Establishing, Bounded
    <3>3. recs[q].wire # x
      BY <1>0, <1>1, <2>1, <2>2, <3>1, <3>2, Ints
    <3>4. home'[x] = home[at[k].sid] /\ home'[recs[q].wire] = home[recs[q].wire]
      BY <1>0, <1>13, <2>2, <3>2, <3>3 DEF ChildReplaces, TypeOK
    <3> HIDE DEF q
    <3>5. \E i \in Index' : ~recs'[i].sys /\ home'[recs'[i].wire] = home'[x]
      BY <3>1, <3>2, <3>4
    <3> QED BY <3>5 DEF Unprompted
  <2>4. Holds(x, resent(k)) /\ up /\ up' = up /\ caps' = caps /\ x <= minted'
    BY <1>1, <1>13, <2>2 DEF ChildReplaces, Lives
  <2> QED BY <1>4, <2>3, <2>4
<1>14. ASSUME NEW k \in Callers, NEW prompt, NEW sys, Makes(k, prompt, sys), Lives(at[k].gen),
              at[k].op # "resume", ~prompt /\ "stable" \in caps => ~sys
       PROVE  Q
  <2>1. PICK x \in Wires : x = minted'
    BY <1>1, <1>14, Numbers DEF Makes, Wires
  <2>2. at'[k] = [at[k] EXCEPT !.pc = "track", !.wire = minted', !.sp = sys] /\ at[k] \in CallT
    BY <1>0, <1>14, Going, Records DEF Makes
  <2>3. /\ at'[k].pc = "track" /\ at'[k].wire = x /\ at'[k].op = at[k].op
        /\ at'[k].sp = sys
    BY <2>1, <2>2 DEF CallT
  <2>4. ~sys => Unprompted(x)'
    BY <1>14, <2>3 DEF Unprompted, Opening
  <2>5. Holds(x, prompt) /\ up /\ up' = up /\ caps' = caps /\ x <= minted'
    BY <1>1, <1>14, <2>1 DEF Makes, Lives
  <2> QED BY <1>4, <1>14, <2>4, <2>5
<1>15. ASSUME NEW k \in Callers, ChildOpens(k) PROVE Q
  <2>1. /\ Makes(k, at[k].sp, TRUE) /\ Lives(at[k].gen) /\ at[k].op \in {"new", "probe"}
        /\ at[k].pc = "call"
    BY <1>15 DEF ChildOpens
  <2>2. "stable" \in caps => at[k].sp
    BY <2>1 DEF PInv, Ready, Lives
  <2> QED BY <1>14, <2>1, <2>2
<1>16. ASSUME NEW k \in Callers, ChildForks(k) PROVE Q
  <2> DEFINE sys == sess[at[k].sid] # 0 /\ recs[sess[at[k].sid]].sys
             prompt == (at[k].sp /\ sys) \/ at[k].wire \in prompted
  <2>1. Makes(k, prompt, sys) /\ Lives(at[k].gen) /\ at[k].op = "fork" /\ at[k].pc = "call"
    BY <1>16 DEF ChildForks
  <2>2. "stable" \in caps => at[k].sp
    BY <1>0, <2>1 DEF PInv, Ready, Begun, TypeOK
  <2>3. ~prompt /\ "stable" \in caps => ~sys
    BY <2>2
  <2> HIDE DEF sys, prompt
  <2> QED BY <1>14, <2>1, <2>3
<1>17. ASSUME NEW k \in Callers, ChildResumes(k) PROVE Q
  <2>1. /\ Holds(at[k].wire, at[k].sp) /\ Lives(at[k].gen) /\ at[k].op = "resume"
        /\ at[k].pc = "call" /\ up' = up /\ caps' = caps /\ minted' = minted
    BY <1>17 DEF ChildResumes
  <2>2. "stable" \in caps => at[k].sp
    BY <2>1 DEF PInv, Ready, Lives
  <2>3. at[k].wire \in Wires /\ at[k].wire <= minted
    BY <1>0, <2>1, Fields DEF Handled, Bounded
  <2>4. PICK x \in Wires : x = at[k].wire
    BY <2>3
  <2>5. Holds(x, at[k].sp) /\ up /\ x <= minted'
    BY <2>1, <2>3, <2>4 DEF Lives
  <2> QED BY <1>4, <2>1, <2>2, <2>5
<1>18. ASSUME NEW k \in Callers, Call(k) PROVE Q
  <2>1. CASE \/ Live(k) \/ Peek(k) \/ Route(k) \/ ChildRefuses(k) \/ RecoveryFails(k) \/ Adopt(k)
             \/ Track(k) \/ Wire(k) \/ ChildSetsModel(k) \/ NoteModel(k) \/ CallFails(k)
             \/ Unanswered(k)
    BY <1>5, <2>1 DEF Live, Peek, Route, ChildRefuses, RecoveryFails, Adopt, Track, Wire,
                      ChildSetsModel, NoteModel, CallFails, Unanswered, child
  <2>2. CASE Discard(k) \/ PromptReaches(k) \/ PromptEnds(k) \/ PromptGivesUp(k) \/ Cancel(k)
    BY <1>5, <2>2 DEF Discard, PromptReaches, PromptEnds, PromptGivesUp, Cancel
  <2> QED BY <1>9, <1>12, <1>13, <1>15, <1>16, <1>17, <1>18, <2>1, <2>2 DEF Call
<1>19. Q
  BY <1>6, <1>7, <1>8, <1>18 DEF Next
<1> QED BY <1>19 DEF Q

LEMMA ReadyStep ==
  ASSUME IInv, PInv, Next,
         \A a, b \in Agents : "fork" \in a /\ "stable" \in b => "stable" \in a
  PROVE  \A k \in Callers : Ready(at[k])'
<1> DEFINE Q == \A k \in Callers : Ready(at[k])'
           R(c) ==
             /\ c.op \in {"new", "probe", "resume"} =>
                    /\ c.pc = "call" /\ c.gen = cur => (c.sp <=> "stable" \in caps)
                    /\ c.pc = "track" => c.sp
             /\ c.op = "fork" /\ c.pc \in Begun => c.sp \/ \A a \in Agents : "stable" \notin a
             /\ c.pc \in {"resume", "load", "new", "adopt"} /\ c.gen = cur =>
                    ("stable" \in c.caps <=> "stable" \in caps)
<1>0. TypeOK /\ Handled /\ Bounded /\ \A k \in Callers : R(at[k]) /\ at[k] \in CallT
  BY Records DEF IInv, PInv, Ready
<1>1. ASSUME UNCHANGED <<at, caps, cur>> PROVE Q
  BY <1>0, <1>1 DEF Ready
<1>2. ASSUME NEW k \in Callers, NEW c, Go(k, c), R(c), caps' = caps, cur' = cur PROVE Q
  <2>1. at'[k] = c /\ Others(k)
    BY <1>0, <1>2, Going
  <2>2. \A j \in Callers : R(at'[j])
    BY <1>0, <1>2, <2>1 DEF Others
  <2> QED BY <1>2, <2>2 DEF Ready
<1>3. \A k \in Callers : Recovering(k) => at[k].op \notin {"new", "probe", "resume"}
  BY <1>0 DEF Handled
<1> HIDE DEF Q
<1>4. ASSUME NEW k \in Callers, Go(k, Idle), caps' = caps, cur' = cur PROVE Q
  <2>1. R(Idle)
    BY DEF Idle, Begun
  <2> HIDE DEF R
  <2> QED BY <1>2, <1>4, <2>1
<1>5. ASSUME Dies PROVE Q
  BY <1>1, <1>5 DEF Dies
<1>6. ASSUME Respawns PROVE Q
  <2>1. at' = at /\ cur' = cur + 1
    BY <1>6 DEF Respawns
  <2>2. \A k \in Callers : at[k].gen # cur'
    BY <1>0, <2>1, Fields, Ints DEF Bounded
  <2> QED BY <1>0, <2>1, <2>2 DEF Q, Ready
<1>7. ASSUME NEW w \in Wires, SessionUpdate(w) \/ DropSession(w) PROVE Q
  BY <1>1, <1>7 DEF SessionUpdate, DropSession, child
<1>8. ASSUME NEW k \in Callers, NEW op \in Ops, NEW s \in Wires \cup {NoWire}, Begin(k, op, s)
      PROVE  Q
  <2> DEFINE c == [Idle EXCEPT !.pc = "live", !.op = op, !.sid = s,
                               !.sp = op = "fork" /\ "stable" \in caps]
  <2>1. c.pc = "live" /\ c.op = op /\ c.sp = (op = "fork" /\ "stable" \in caps)
    BY DEF Idle
  <2>2. Go(k, c) /\ caps' = caps /\ cur' = cur /\ (op = "fork" => "fork" \in caps)
    BY <1>8 DEF Begin, child
  <2>3. caps \in Agents
    BY <1>0 DEF TypeOK
  <2> HIDE DEF c
  <2>4. R(c)
    BY <2>1, <2>2, <2>3
  <2> HIDE DEF R
  <2> QED BY <1>2, <2>2, <2>4
<1>9. ASSUME NEW k \in Callers, Live(k) PROVE Q
  <2> DEFINE c == [at[k] EXCEPT !.gen = cur]
  <2>0. caps' = caps /\ cur' = cur /\ at[k].pc = "live"
    BY <1>9 DEF Live, child
  <2>1. c.op = at[k].op /\ c.sid = at[k].sid /\ c.sp = at[k].sp
    BY <1>0 DEF CallT
  <2>2. CASE at[k].op \in {"new", "probe", "resume"}
    <3> DEFINE d == [c EXCEPT !.pc = "call", !.sp = "stable" \in caps, !.wire = at[k].sid]
    <3>1. Go(k, d)
      BY <1>9, <2>1, <2>2 DEF Live
    <3>2. d.pc = "call" /\ d.op = at[k].op /\ d.sp = ("stable" \in caps)
      BY <1>0 DEF CallT
    <3>3. R(d)
      BY <2>2, <3>2
    <3> HIDE DEF d, R
    <3> QED BY <1>2, <2>0, <3>1, <3>3
  <2>3. CASE at[k].op \notin {"new", "probe", "resume"} /\ sess[at[k].sid] = 0
    <3> DEFINE d == [c EXCEPT !.pc = "call", !.wire = at[k].sid]
    <3>1. Go(k, d)
      BY <1>9, <2>1, <2>3 DEF Live
    <3>2. d.pc = "call" /\ d.op = at[k].op /\ d.sp = at[k].sp
      BY <1>0 DEF CallT
    <3>3. R(d)
      BY <1>0, <2>0, <2>3, <3>2 DEF Begun
    <3> HIDE DEF d, R
    <3> QED BY <1>2, <2>0, <3>1, <3>3
  <2>4. CASE at[k].op \notin {"new", "probe", "resume"} /\ sess[at[k].sid] # 0
    <3> DEFINE d == [c EXCEPT !.pc = "lock", !.rec = sess[at[k].sid]]
    <3>1. Go(k, d)
      BY <1>9, <2>1, <2>4 DEF Live
    <3>2. d.pc = "lock" /\ d.op = at[k].op /\ d.sp = at[k].sp
      BY <1>0 DEF CallT
    <3>3. R(d)
      BY <1>0, <2>0, <2>4, <3>2 DEF Begun
    <3> HIDE DEF d, R
    <3> QED BY <1>2, <2>0, <3>1, <3>3
  <2> QED BY <2>2, <2>3, <2>4
<1>10. ASSUME NEW k \in Callers, Peek(k) \/ (Route(k) /\ onChild(recs[at[k].rec], at[k].gen))
       PROVE  Q
  <2> DEFINE d == [at[k] EXCEPT !.pc = "call", !.wire = recs[at[k].rec].wire]
  <2>1. Go(k, d) /\ caps' = caps /\ cur' = cur /\ at[k].pc = "lock"
    BY <1>10 DEF Peek, Route, child
  <2>2. d.pc = "call" /\ d.op = at[k].op /\ d.sp = at[k].sp
    BY <1>0 DEF CallT
  <2>3. at[k].op \notin {"new", "probe", "resume"}
    BY <1>3, <2>1 DEF Recovering
  <2>4. R(d)
    BY <1>0, <2>1, <2>2, <2>3 DEF Begun
  <2> HIDE DEF d, R
  <2> QED BY <1>2, <2>1, <2>4
<1>11. ASSUME NEW k \in Callers, Route(k), ~onChild(recs[at[k].rec], at[k].gen)
       PROVE  Q
  <2> DEFINE way == Way(caps)
             d == [at[k] EXCEPT !.pc = way, !.wire = recs[at[k].rec].wire, !.caps = caps]
  <2>1. Go(k, d) /\ caps' = caps /\ cur' = cur /\ at[k].pc = "lock"
    BY <1>11 DEF Route, child
  <2>2. d.pc = way /\ d.op = at[k].op /\ d.sp = at[k].sp /\ d.caps = caps
    BY <1>0 DEF CallT
  <2>3. way \in {"resume", "load", "new"}
    BY DEF Way
  <2>4. at[k].op \notin {"new", "probe", "resume"}
    BY <1>3, <2>1 DEF Recovering
  <2>5. R(d)
    BY <1>0, <2>1, <2>2, <2>3, <2>4 DEF Begun
  <2> HIDE DEF d, R
  <2> QED BY <1>2, <2>1, <2>5
<1>12. ASSUME NEW k \in Callers, NEW d, Go(k, d), caps' = caps, cur' = cur,
              at[k].pc \in {"resume", "load", "new", "adopt"},
              d.pc \in {"load", "new", "adopt", "call"}, d.op = at[k].op, d.sp = at[k].sp,
              d.caps = at[k].caps, d.gen = at[k].gen
       PROVE  Q
  <2>1. at[k].op \notin {"new", "probe", "resume"}
    BY <1>3, <1>12 DEF Recovering
  <2>2. R(at[k])
    BY <1>0
  <2>3. R(d)
    BY <1>12, <2>1, <2>2 DEF Begun
  <2> HIDE DEF R
  <2> QED BY <1>2, <1>12, <2>3
<1>13. ASSUME NEW k \in Callers,
              ChildRestores(k) \/ ChildReplaces(k) \/ ChildRefuses(k) \/ Adopt(k)
       PROVE  Q
  <2>1. caps' = caps /\ cur' = cur /\ at[k].pc \in {"resume", "load", "new", "adopt"}
    BY <1>13 DEF ChildRestores, ChildReplaces, ChildRefuses, Adopt, child
  <2>2. CASE ChildReplaces(k)
    <3> DEFINE d == [at[k] EXCEPT !.pc = "adopt", !.wire = minted']
    <3>1. Go(k, d)
      BY <2>2 DEF ChildReplaces
    <3>2. /\ d.pc = "adopt" /\ d.op = at[k].op /\ d.sp = at[k].sp /\ d.caps = at[k].caps
          /\ d.gen = at[k].gen
      BY <1>0 DEF CallT
    <3> HIDE DEF d
    <3> QED BY <1>12, <2>1, <3>1, <3>2
  <2>3. CASE ChildRestores(k) \/ ChildRefuses(k) \/ Adopt(k)
    <3>1. PICK p \in {"load", "new", "adopt", "call"} : Go(k, [at[k] EXCEPT !.pc = p])
      BY <2>3 DEF ChildRestores, ChildRefuses, Adopt, Way
    <3> DEFINE d == [at[k] EXCEPT !.pc = p]
    <3>2. /\ d.pc = p /\ d.op = at[k].op /\ d.sp = at[k].sp /\ d.caps = at[k].caps
          /\ d.gen = at[k].gen
      BY <1>0 DEF CallT
    <3> HIDE DEF d
    <3>3. Go(k, d)
      BY <3>1 DEF d
    <3> QED BY <1>12, <2>1, <3>1, <3>2, <3>3
  <2> QED BY <1>13, <2>2, <2>3
<1>14. ASSUME NEW k \in Callers, ChildOpens(k) \/ ChildForks(k) PROVE Q
  <2>1. PICK sys : /\ Go(k, [at[k] EXCEPT !.pc = "track", !.wire = minted', !.sp = sys])
                   /\ at[k].op = "fork" \/ sys = TRUE
    BY <1>14 DEF ChildOpens, ChildForks, Makes
  <2> DEFINE d == [at[k] EXCEPT !.pc = "track", !.wire = minted', !.sp = sys]
  <2>2. d.pc = "track" /\ d.op = at[k].op /\ d.sp = sys
    BY <1>0 DEF CallT
  <2>3. caps' = caps /\ cur' = cur
    BY <1>14 DEF ChildOpens, ChildForks, Makes
  <2>4. R(d)
    BY <2>1, <2>2 DEF Begun
  <2> HIDE DEF R
  <2> QED BY <1>2, <2>1, <2>3, <2>4
<1>15. ASSUME NEW k \in Callers, ChildResumes(k) PROVE Q
  <2> DEFINE d == [at[k] EXCEPT !.pc = "track", !.sp = TRUE]
  <2>1. Go(k, d) /\ caps' = caps /\ cur' = cur /\ at[k].op = "resume"
    BY <1>15 DEF ChildResumes
  <2>2. d.pc = "track" /\ d.op = at[k].op /\ d.sp = TRUE
    BY <1>0 DEF CallT
  <2>3. R(d)
    BY <2>1, <2>2 DEF Begun
  <2> HIDE DEF d, R
  <2> QED BY <1>2, <2>1, <2>3
\* The rest of the calls, which no prompt of a system depends on.
<1>16. ASSUME NEW k \in Callers,
              \/ Track(k) \/ ChildSetsModel(k) \/ PromptReaches(k) \/ PromptGivesUp(k) \/ Cancel(k)
       PROVE  Q
  <2>1. caps' = caps /\ cur' = cur
    BY <1>16 DEF Track, ChildSetsModel, PromptReaches, PromptGivesUp, Cancel, child
  <2>2. PICK d : /\ Go(k, d)
                 /\ \/ /\ d \in {[at[k] EXCEPT !.pc = "wire"], [at[k] EXCEPT !.pc = "note"]}
                       /\ d.pc \in {"wire", "note"}
                    \/ /\ at[k].op = "prompt" /\ at[k].pc \in {"call", "giveUp", "unwinding"}
                       /\ d \in {[at[k] EXCEPT !.sent = TRUE], [at[k] EXCEPT !.pc = "giveUp"],
                                 [at[k] EXCEPT !.pc = "unwinding"]}
    <3>1. CASE Track(k) \/ ChildSetsModel(k)
      <4>1. PICK p \in {"wire", "note"} : Go(k, [at[k] EXCEPT !.pc = p])
        BY <3>1 DEF Track, ChildSetsModel
      <4>2. [at[k] EXCEPT !.pc = p].pc = p
        BY <1>0 DEF CallT
      <4> QED BY <4>1, <4>2
    <3>2. CASE PromptReaches(k) \/ PromptGivesUp(k)
      BY <3>2 DEF PromptReaches, PromptGivesUp
    <3>3. CASE Cancel(k)
      BY <1>0, <3>3 DEF Cancel, Handled, Prompts
    <3> QED BY <1>16, <3>1, <3>2, <3>3
  <2>3. R(d)
    <3>1. CASE d.pc \in {"wire", "note"}
      BY <3>1 DEF Begun
    <3>2. CASE /\ at[k].op = "prompt" /\ at[k].pc \in {"call", "giveUp", "unwinding"}
               /\ d \in {[at[k] EXCEPT !.sent = TRUE], [at[k] EXCEPT !.pc = "giveUp"],
                         [at[k] EXCEPT !.pc = "unwinding"]}
      <4>1. d.op = "prompt" /\ d.pc \in {"call", "giveUp", "unwinding"}
        BY <1>0, <3>2 DEF CallT
      <4> QED BY <4>1
    <3> QED BY <2>2, <3>1, <3>2
  <2> HIDE DEF R
  <2> QED BY <1>2, <2>1, <2>2, <2>3
<1>17. ASSUME NEW k \in Callers,
              \/ RecoveryFails(k) \/ Wire(k) \/ Discard(k) \/ NoteModel(k) \/ ChildReleases(k)
              \/ CallFails(k) \/ PromptEnds(k) \/ Unanswered(k)
       PROVE  Q
  BY <1>4, <1>17 DEF RecoveryFails, Wire, Discard, NoteModel, ChildReleases, CallFails, PromptEnds,
                     Unanswered, Return, child
<1>18. ASSUME NEW k \in Callers, Call(k) PROVE Q
  BY <1>9, <1>10, <1>11, <1>13, <1>14, <1>15, <1>16, <1>17, <1>18 DEF Call
<1>19. Q
  BY <1>5, <1>6, <1>7, <1>8, <1>18 DEF Next
<1> QED BY <1>19 DEF Q

\* A session that moves to another child is heard there and keeps its prompt
\* (recoverSession, stableSystemPrompt, ForkSession).  Assumed: a child that
\* can fork takes the system prompt when any child does, because ForkSession
\* reads what the child takes before it knows which child the fork goes to.
THEOREM RestoredHolds ==
  ASSUME \A a, b \in Agents : "fork" \in a /\ "stable" \in b => "stable" \in a
  PROVE  Spec => []RestoredOnItsChild
<1>1. Init => PInv
  BY DEF Init, PInv, Known, Bare, Ready, Idle, Begun
<1>2. ASSUME IInv, PInv, [Next]_vars PROVE PInv'
  <2>1. CASE Next
    <3>1. TypeOK' /\ Shapes
      BY <1>2, Step DEF IInv
    <3>2. Known' /\ Bare'
      BY <1>2, <2>1, <3>1, BareStep
    <3>3. \A k \in Callers : Ready(at[k])'
      BY <1>2, <2>1, ReadyStep
    <3> QED BY <3>2, <3>3 DEF PInv
  <2>2. CASE UNCHANGED vars
    BY <1>2, <2>2 DEF vars, child, tables, PInv, Known, Bare, Unprompted, Ready, Opening, Index
  <2> QED BY <1>2, <2>1, <2>2
<1>3. ASSUME IInv, PInv PROVE PromptRestored
  <2>0. TypeOK /\ Fresh /\ Bare
    BY <1>3 DEF IInv, PInv
  <2> SUFFICES ASSUME NEW s \in Wires, sess[s] # 0, recs[sess[s]].wire \in held, "stable" \in caps,
                      \A r \in Index : home[recs[r].wire] = home[recs[sess[s]].wire] => recs[r].sys,
                      recs[sess[s]].wire \notin prompted
               PROVE  FALSE
    BY <2>0, Records DEF PromptRestored
  <2>1. sess[s] \in Index
    BY <2>0, Ints
  <2>2. Unprompted(recs[sess[s]].wire)
    BY <2>0 DEF Bare
  <2>3. PICK k \in Callers : /\ at[k].pc = "track" /\ Opening(k)
                             /\ at[k].wire = recs[sess[s]].wire
    BY <2>2 DEF Unprompted
  <2> QED BY <2>0, <2>1, <2>3 DEF Fresh
<1>4. IInv /\ PInv => RestoredOnItsChild
  BY <1>3, Heard DEF RestoredOnItsChild
<1>5. IInv /\ PInv /\ [Next]_vars => PInv'
  BY <1>2
<1> QED BY <1>1, <1>4, <1>5, Invariance, PTL DEF Spec

=============================================================================
