----------------------------- MODULE AutoUpdate -----------------------------
(***************************************************************************)
(* Automatic updates of a relay (src/autoupdate): the poll posts an offer,  *)
(* an owner or the mode approves it, the tick swaps the binaries and        *)
(* reloads, and the new image passes a health gate or puts the old binaries *)
(* back.  The swap, the state file and the reload are separate steps, and   *)
(* the process may die between any two of them.                             *)
(*                                                                         *)
(* Versions are numbers (0 is the image the behaviour starts with); time is *)
(* abstracted to what it decides: whether a snoozed offer is due and        *)
(* whether the cooldown after an automatic apply is still running.          *)
(***************************************************************************)
EXTENDS Integers, FiniteSets

CONSTANTS
    MaxVersion,     \* releases are 1 .. MaxVersion
    Unhealthy,      \* releases whose image never answers the health probe
    NeedsAgent,     \* releases whose notes require the new agent
    Modes, Fleet,   \* the configured values of Mode and of Fleet
    GateBoots,      \* starts of a new image before it is rolled back unprobed (3)
    MaxCrashes,     \* bound on process deaths
    MaxFaults,      \* bound on failing file, network and reload operations
    None

Version == 0 .. MaxVersion

Offer == [version : Version, agent : BOOLEAN, staged : BOOLEAN, posted : BOOLEAN,
          who : {None, "auto", "owner"}, due : BOOLEAN]
Applying == [version : Version, from : Version, agent : BOOLEAN, boots : Nat,
             rolledBack : BOOLEAN]
persisted == [offer : Offer \cup {None}, applying : Applying \cup {None},
              blocked : SUBSET Version, cooling : BOOLEAN, halted : BOOLEAN]

\* The image the behaviour starts with answers the probe.
ASSUME ConstantsAssumption ==
    /\ MaxVersion \in Nat /\ MaxCrashes \in Nat /\ MaxFaults \in Nat /\ GateBoots \in Nat
    /\ Unhealthy \subseteq 1 .. MaxVersion /\ NeedsAgent \subseteq Version
    /\ Modes \subseteq {"notify", "stage", "auto"} /\ Fleet \subseteq BOOLEAN
    /\ None \notin Version \cup Offer \cup Applying

VARIABLES
    cfg,        \* [mode, fleet]: the Config, fixed
    latest,     \* the newest release, or what dist.lock wants on a fleet host
    relay, relayPrev,  \* versions of the files RelayBin and RelayBin.prev
    agent, agentPrev,  \* versions (0 old, 1 new) of AgentBin and AgentBin.prev
    staged,     \* versions whose verified download is in a staging directory
    disk,       \* the state file
    mem,        \* m.st, the state in memory
    img,        \* version of the running image
    runningAgent,   \* version of the running agent
    pc,         \* where the process is
    a,          \* the applying record of an apply that is not yet in m.st
    crashes, faults,
    failed,     \* history: versions whose last gate failed
    torn,       \* history: versions left in RelayBin without an applying record
    rolled,     \* history: the last gate failed and no owner acted since
    stray       \* history: what a failure or a death left out of step: "agent",
                \* replaced by an apply that did not get to its record, or not
                \* restored; "relay", not restored, or its .prev replaced under an
                \* older record; "image", not reloaded once the relay was restored

files == <<relay, relayPrev, agent, agentPrev, staged>>
history == <<failed, torn, rolled, stray>>
vars == <<cfg, latest, files, disk, mem, img, runningAgent, pc, a, crashes, faults, history>>

TypeOK ==
    /\ cfg \in [mode : {"notify", "stage", "auto"}, fleet : BOOLEAN]
    /\ {latest, relay, relayPrev, img} \subseteq Version
    /\ {agent, agentPrev, runningAgent} \subseteq 0 .. 1
    /\ staged \subseteq Version
    /\ disk \in persisted /\ mem \in persisted
    /\ pc \in {"boot", "health", "restored", "run", "copy", "swapped", "reloading", "down"}
    /\ a \in Applying \cup {None} /\ stray \subseteq {"relay", "agent", "image"}

-----------------------------------------------------------------------------
(* The state file, the offer and faults *)

\* errs of the operations of one step fail.
Spend(errs) ==
    LET n == Cardinality({i \in DOMAIN errs : errs[i]})
    IN  faults + n <= MaxFaults /\ faults' = faults + n

Strays(what) == stray' = stray \cup what

\* An apply put a new agent in place and has no record in the file yet; one that
\* ends here leaves it behind.
Replaced == (pc = "copy" /\ a.agent) \/ (pc = "swapped" /\ mem.applying.agent)
AgentLeft == IF Replaced THEN {"agent"} ELSE {}

\* An apply writes RelayBin.prev while the file has an older record, the save
\* that was to remove it having failed.
RecordIsOld == IF disk.applying # None THEN {"relay"} ELSE {}

\* Mutant: only the memory learns of it.
save_MemoryOnly(st, err) == mem' = st /\ disk' = IF st.halted THEN disk ELSE st

\* m.save(): the state stays in memory when the file cannot be written.
save(st, err) == mem' = st /\ disk' = IF err THEN disk ELSE st

Approved(o) == o.who # None

\* drop(): the offer and its staged download go.
drop(st) == [st EXCEPT !.offer = None]
StagedWithout(st) ==
    IF st.offer # None /\ st.offer.staged THEN staged \ {st.offer.version} ELSE staged

block(st, v) == [st EXCEPT !.blocked = @ \cup {v}]

\* New: a fleet host never updates by itself.
New(mode, fleet) == [mode |-> IF fleet /\ mode = "auto" THEN "stage" ELSE mode, fleet |-> fleet]

Init ==
    /\ cfg \in {New(m, f) : m \in Modes, f \in Fleet}
    /\ latest = 0 /\ relay = 0 /\ relayPrev = 0 /\ agent = 0 /\ agentPrev = 0 /\ staged = {}
    /\ mem = [offer |-> None, applying |-> None, blocked |-> {}, cooling |-> FALSE,
              halted |-> FALSE]
    /\ disk = mem /\ img = 0 /\ runningAgent = 0 /\ pc = "run" /\ a = None
    /\ crashes = 0 /\ faults = 0
    /\ failed = {} /\ torn = {} /\ rolled = FALSE /\ stray = {}

-----------------------------------------------------------------------------
(* The world *)

\* A release is published, or dist.lock is edited.
Publish ==
    /\ \E v \in Version : (v > latest \/ cfg.fleet) /\ latest' = v
    /\ UNCHANGED <<cfg, files, disk, mem, img, runningAgent, pc, a, crashes, faults, history>>

SnoozeEnds(st) == IF st.offer = None THEN st ELSE [st EXCEPT !.offer.due = TRUE]
CooldownEnds(st) == [st EXCEPT !.cooling = FALSE]

\* Time passes: Snooze or Cooldown runs out, for the file as for the memory.
Elapse ==
    /\ \/ mem' = SnoozeEnds(mem) /\ disk' = SnoozeEnds(disk)
       \/ mem' = CooldownEnds(mem) /\ disk' = CooldownEnds(disk)
    /\ UNCHANGED <<cfg, latest, files, img, runningAgent, pc, a, crashes, faults, history>>

\* The process dies; what it had in memory is gone.  An apply may have copied
\* RelayBin to .prev by then.
Crash ==
    /\ pc # "down" /\ crashes < MaxCrashes
    /\ pc' = "down" /\ crashes' = crashes + 1
    /\ mem' = disk /\ a' = None
    /\ torn' = IF pc = "swapped" THEN torn \cup {relay} ELSE torn
    /\ relayPrev' \in (IF pc = "copy" THEN {relayPrev, relay} ELSE {relayPrev})
    /\ Strays(AgentLeft \cup (IF relayPrev' # relayPrev THEN RecordIsOld ELSE {}))
    /\ UNCHANGED <<cfg, latest, relay, agent, agentPrev, staged, disk, img, runningAgent, faults,
                   failed, rolled>>

\* The reload, or whoever starts the relay, runs what is in RelayBin; New
\* reads the state file.
Boot ==
    /\ pc \in {"reloading", "down"}
    /\ img' = relay /\ runningAgent' = agent /\ mem' = disk /\ pc' = "boot"
    /\ UNCHANGED <<cfg, latest, files, disk, a, crashes, faults, history>>

-----------------------------------------------------------------------------
(* Poll *)

\* replace(): the old offer is superseded, o is posted (a failed post leaves
\* it without a message) and becomes the offer.
replace(o, postErr) == [mem EXCEPT !.offer = [o EXCEPT !.posted = ~postErr]]

NewOffer(v) ==
    [version |-> v,
     agent   |-> ~cfg.fleet /\ v \in NeedsAgent /\ runningAgent = 0,
     staged  |-> ~cfg.fleet /\ cfg.mode # "notify",
     posted  |-> TRUE, due |-> TRUE,
     who     |-> IF cfg.mode = "auto" /\ ~mem.halted /\ ~mem.cooling THEN "auto" ELSE None]

\* pollRelease wants a newer release, pollLock any other one.
wanted == IF cfg.fleet THEN latest # img ELSE latest > img

offered(v) == v \in mem.blocked \/ (mem.offer # None /\ mem.offer.version = v)

\* Poll that finds something new.  A failed check, download or fetch of the
\* notes changes nothing and is retried: such a Poll only saves.
PollOffers ==
    /\ pc = "run" /\ mem.applying = None /\ wanted /\ ~offered(latest)
    /\ \E postErr, saveErr \in BOOLEAN :
        /\ Spend(<<postErr, saveErr>>)
        /\ save(replace(NewOffer(latest), postErr), saveErr)
    /\ staged' = StagedWithout(mem) \cup (IF NewOffer(latest).staged THEN {latest} ELSE {})
    /\ UNCHANGED <<cfg, latest, relay, relayPrev, agent, agentPrev, img, runningAgent, pc, a,
                   crashes, history>>

\* Poll that finds the offer installed by other means.
PollDrops ==
    /\ pc = "run" /\ mem.applying = None /\ ~wanted
    /\ mem.offer # None /\ (cfg.fleet \/ mem.offer.version <= img)
    /\ \E saveErr \in BOOLEAN : Spend(<<saveErr>>) /\ save(drop(mem), saveErr)
    /\ staged' = StagedWithout(mem)
    /\ UNCHANGED <<cfg, latest, relay, relayPrev, agent, agentPrev, img, runningAgent, pc, a,
                   crashes, history>>

\* Poll saves whatever it found, and with it what an earlier save lost.
PollSaves ==
    /\ pc = "run" /\ mem.applying = None /\ disk # mem
    /\ disk' = mem
    /\ UNCHANGED <<cfg, latest, files, mem, img, runningAgent, pc, a, crashes, faults, history>>

-----------------------------------------------------------------------------
(* Decide: an owner answers the offer's message.  Anyone else, and an answer  *)
(* to another message, is refused and changes nothing.                       *)

DecideApply ==
    /\ \E due, saveErr \in BOOLEAN :     \* ApplyNow or Tomorrow
        /\ Spend(<<saveErr>>)
        /\ save([mem EXCEPT !.halted = FALSE, !.offer.who = "owner", !.offer.due = due], saveErr)
    /\ UNCHANGED staged

DecideSkip ==
    /\ \E saveErr \in BOOLEAN :
        /\ Spend(<<saveErr>>)
        /\ save([block(drop(mem), mem.offer.version) EXCEPT !.halted = FALSE], saveErr)
    /\ staged' = StagedWithout(mem)

Decide ==
    /\ pc = "run" /\ mem.offer # None /\ mem.offer.posted
    /\ DecideApply \/ DecideSkip
    /\ rolled' = FALSE
    /\ UNCHANGED <<cfg, latest, relay, relayPrev, agent, agentPrev, img, runningAgent, pc, a,
                   crashes, failed, torn, stray>>

-----------------------------------------------------------------------------
(* Tick and apply.  The lock is held from here to the end of the reload.      *)

\* The offer is approved and due; quiet hours and a busy relay only delay it.
Ready == pc = "run" /\ mem.offer # None /\ Approved(mem.offer) /\ mem.offer.due

\* Tick withdraws an approval of the mode's own once the manager is halted or in
\* its cooldown (flow.go:262-267).  It never has to: the apply that starts the
\* cooldown, and with it the rollback that halts, took the offer away.
Withdrawn == mem.offer.who = "auto" /\ (mem.halted \/ mem.cooling)

\* converge(): the fleet's own tool installs what the lock wants, or fails.
Converge ==
    /\ Ready /\ cfg.fleet
    /\ \E saveErr \in BOOLEAN : Spend(<<saveErr>>) /\ save(drop(mem), saveErr)
    /\ \/ relay' = latest /\ pc' = "reloading"
       \/ UNCHANGED <<relay, pc>>
    /\ UNCHANGED <<cfg, latest, relayPrev, agent, agentPrev, staged, img, runningAgent, a, crashes,
                   history>>

\* fail(): the offer is dropped, not blocked, and Tick saves.
fail(saveErr) ==
    /\ save(drop(mem), saveErr) /\ staged' = StagedWithout(mem)
    /\ pc' = "run" /\ a' = None

\* apply up to the agent: the download of notify mode (for which the release
\* must still be the newest), the copy of the agent and its update.
Downloadable(o) == o.staged \/ o.version = latest

ApplyStarts ==
    LET o == mem.offer IN
    /\ Ready /\ ~Withdrawn /\ ~cfg.fleet /\ Downloadable(o)
    /\ staged' = IF o.staged THEN staged ELSE staged \cup {o.version}
    /\ mem' = [mem EXCEPT !.offer.staged = TRUE]
    /\ agentPrev' = IF o.agent THEN agent ELSE agentPrev
    /\ agent' = IF o.agent THEN 1 ELSE agent
    /\ a' = [version |-> o.version, from |-> img, agent |-> o.agent, boots |-> 0,
             rolledBack |-> FALSE]
    /\ pc' = "copy"
    /\ UNCHANGED <<cfg, latest, relay, relayPrev, disk, img, runningAgent, crashes, faults, history>>

\* One of these fails; the copy of the agent may have been made, and the updater
\* that failed may have replaced the agent all the same.
ApplyFails ==
    /\ Ready /\ ~Withdrawn /\ ~cfg.fleet
    /\ \E opErr, saveErr \in BOOLEAN :
        /\ opErr \/ ~Downloadable(mem.offer)
        /\ Spend(<<opErr, saveErr>>) /\ fail(saveErr)
        /\ \/ UNCHANGED <<agent, agentPrev, stray>>
           \/ /\ opErr /\ mem.offer.agent /\ agentPrev' = agent
              /\ \/ UNCHANGED <<agent, stray>>
                 \/ agent' = 1 /\ Strays({"agent"})
    /\ UNCHANGED <<cfg, latest, relay, relayPrev, img, runningAgent, crashes, failed, torn, rolled>>

\* apply: RelayBin to .prev, then the staged file to RelayBin.
ApplySwaps ==
    /\ pc = "copy"
    /\ \E copyErr, renameErr, saveErr \in BOOLEAN :
        /\ Spend(<<copyErr, renameErr, saveErr>>)
        /\ relayPrev' = IF copyErr THEN relayPrev ELSE relay
        /\ IF copyErr \/ renameErr \/ mem.offer.version \notin staged
           THEN fail(saveErr) /\ UNCHANGED relay
           ELSE /\ ~saveErr
                /\ relay' = a.version /\ staged' = StagedWithout(mem)
                /\ mem' = [mem EXCEPT !.offer = None, !.applying = a,
                                      !.cooling = @ \/ mem.offer.who = "auto"]
                /\ pc' = "swapped" /\ a' = None /\ UNCHANGED disk
        /\ Strays((IF copyErr THEN {} ELSE RecordIsOld) \cup (IF pc' = "run" THEN AgentLeft ELSE {}))
    /\ UNCHANGED <<cfg, latest, agent, agentPrev, img, runningAgent, crashes, failed, torn, rolled>>

\* Mutant: the agent stays.
restore_RelayOnly(ap, err, agentErr) ==
    relay' = (IF err THEN relay ELSE relayPrev) /\ UNCHANGED <<agent, stray>>

\* restore(): each copy that fails is only logged.
restore(ap, err, agentErr) ==
    /\ relay' = IF err THEN relay ELSE relayPrev
    /\ agent' = IF ap.agent /\ ~agentErr THEN agentPrev ELSE agent
    /\ agentErr => ap.agent
    /\ Strays((IF err THEN {"relay"} ELSE {}) \cup (IF agentErr THEN {"agent"} ELSE {}))

\* apply: the state file, then the reload; if either fails the old binaries
\* come back, the version is blocked, and Tick saves.
ApplyReloads ==
    /\ pc = "swapped"
    /\ \E writeErr, reloadErr, restoreErr, agentErr, saveErr \in BOOLEAN :
        /\ Spend(<<writeErr, reloadErr, restoreErr, agentErr, saveErr>>)
        /\ IF writeErr \/ reloadErr
           THEN /\ restore(mem.applying, restoreErr, agentErr)
                /\ mem' = block([mem EXCEPT !.applying = None], mem.applying.version)
                /\ disk' = IF ~saveErr THEN mem' ELSE IF writeErr THEN disk ELSE mem
                /\ pc' = "run"
                /\ torn' = IF restoreErr THEN torn \cup {mem.applying.version} ELSE torn
           ELSE /\ ~restoreErr /\ ~agentErr /\ ~saveErr
                /\ disk' = mem /\ pc' = "reloading" /\ UNCHANGED <<mem, relay, agent, torn, stray>>
    /\ UNCHANGED <<cfg, latest, relayPrev, agentPrev, staged, img, runningAgent, a, crashes,
                   failed, rolled>>

-----------------------------------------------------------------------------
(* resume: the first thing Run does in a new image *)

ResumeIdle ==
    /\ pc = "boot" /\ mem.applying = None /\ pc' = "run"
    /\ UNCHANGED <<cfg, latest, files, disk, mem, img, runningAgent, a, crashes, faults, history>>

\* The old image, after a rollback, reports it.
ResumeReports ==
    /\ pc = "boot" /\ mem.applying # None /\ mem.applying.rolledBack
    /\ \E saveErr \in BOOLEAN :
        Spend(<<saveErr>>) /\ save([mem EXCEPT !.applying = None], saveErr)
    /\ pc' = "run"
    /\ UNCHANGED <<cfg, latest, files, img, runningAgent, a, crashes, history>>

\* The count stops one past the limit: only the comparison is looked at.
ResumeGates ==
    /\ pc = "boot" /\ mem.applying # None /\ ~mem.applying.rolledBack
    /\ \E saveErr \in BOOLEAN :
        /\ Spend(<<saveErr>>)
        /\ save([mem EXCEPT !.applying.boots = IF @ > GateBoots THEN @ ELSE @ + 1], saveErr)
    /\ pc' = "health"
    /\ UNCHANGED <<cfg, latest, files, img, runningAgent, a, crashes, history>>

\* Mutant: every image passes.
health_Passes(ap) == TRUE

\* health(): the image is the new one, has not restarted too often, and
\* answers the probe before the deadline.  An image whose gate failed passes a
\* second one when the old image could not be put back and the process died
\* before the verdict was saved: nothing was rolled back then.
health(ap) == img = ap.version /\ ap.boots <= GateBoots /\ img \notin Unhealthy

GatePasses ==
    /\ pc = "health" /\ health(mem.applying)
    /\ \E saveErr \in BOOLEAN :
        Spend(<<saveErr>>) /\ save([mem EXCEPT !.applying = None], saveErr)
    /\ pc' = "run"
    /\ failed' = failed \ {mem.applying.version} /\ rolled' = FALSE
    /\ UNCHANGED <<cfg, latest, files, img, runningAgent, a, crashes, torn, stray>>

\* The gate fails (a healthy image may miss its deadline): the old binaries
\* are put back.
GateFails ==
    /\ pc = "health"
    /\ \E probeErr, restoreErr, agentErr \in BOOLEAN :
        /\ Spend(<<probeErr, restoreErr, agentErr>>)
        /\ ~health(mem.applying) \/ probeErr
        /\ restore(mem.applying, restoreErr, agentErr)
    /\ pc' = "restored"
    /\ failed' = failed \cup {mem.applying.version} /\ rolled' = TRUE
    /\ UNCHANGED <<cfg, latest, relayPrev, agentPrev, staged, disk, mem, img, runningAgent, a, crashes,
                   torn>>

\* Mutant: the version is not blocked.
RolledBack_Unblocked(st) == [st EXCEPT !.applying.rolledBack = TRUE, !.halted = TRUE]

\* Mutant: automatic updates go on after a rollback.
RolledBack_NotHalted(st) == [block(st, st.applying.version) EXCEPT !.applying.rolledBack = TRUE]

\* resume: the verdict.
RolledBack(st) ==
    [block(st, st.applying.version) EXCEPT !.applying.rolledBack = TRUE, !.halted = TRUE]

\* The verdict is saved, and the old image reloaded; a reload that fails is
\* only logged and leaves this image in service.
ResumeRollsBack ==
    /\ pc = "restored"
    /\ \E saveErr, reloadErr \in BOOLEAN :
        /\ Spend(<<saveErr, reloadErr>>)
        /\ save(RolledBack(mem), saveErr)
        /\ IF reloadErr THEN pc' = "run" /\ Strays({"image"})
           ELSE pc' = "reloading" /\ UNCHANGED stray
    /\ UNCHANGED <<cfg, latest, files, img, runningAgent, a, crashes, failed, torn, rolled>>

-----------------------------------------------------------------------------
resume == ResumeIdle \/ ResumeReports \/ ResumeGates \/ GatePasses \/ GateFails \/ ResumeRollsBack
Apply == ApplyStarts \/ ApplyFails \/ ApplySwaps \/ ApplyReloads
Tick == Converge \/ Apply
Poll == PollOffers \/ PollDrops \/ PollSaves

Next == Publish \/ Elapse \/ Crash \/ Boot \/ Poll \/ Decide \/ Tick \/ resume

Spec == Init /\ [][Next]_vars

\* Run is one goroutine that never stops between two steps of an apply or of
\* a resume, and the relay is always started again.
FairSpec == Spec /\ WF_vars(Boot) /\ WF_vars(resume) /\ WF_vars(ApplySwaps \/ ApplyReloads)

-----------------------------------------------------------------------------
(* What is promised *)

\* An unhealthy image does not stay in service, except after a failure outside
\* the program: the process died between the rename of the binary and the save
\* of the record the gate reads (flow.go:342-353), or, the gate having failed, the
\* old image could not be put back or not be reloaded.  A fleet host leaves
\* health to its own tool.
UnhealthyIsRolledBack ==
    pc = "run" /\ img \in Unhealthy /\ ~cfg.fleet =>
        img \in torn \/ (img \in failed /\ stray \cap {"relay", "image"} # {})

\* A release that was rolled back is not installed again by a later poll,
\* whatever was lost in crashes and failed saves (resume, block).
FailedStaysOut == [][pc = "copy" /\ relay' # relay => relay' \notin failed]_vars

\* After a rollback no apply starts on the mode's own approval until an owner
\* has acted, across restarts and lost saves (Halted).
AutoWaitsForOwner ==
    [][pc = "run" /\ pc' = "copy" /\ mem.offer.who = "auto" => ~rolled]_vars

\* When a rollback is reported, relay and agent are put back together: the relay
\* is the one the apply started from and the agent the one it ran with.  A relay
\* may be another only if its restoring copy failed, or an apply replaced its
\* .prev while the file still had the record of the one before, a save having
\* failed; an agent only if its copy failed, or if an apply replaced it and
\* failed or died before its record was saved (flow.go:328-353), which makes the
\* next apply keep the new agent as .prev.
RestoredTogether ==
    pc = "boot" /\ mem.applying # None /\ mem.applying.rolledBack =>
        /\ "relay" \notin stray => img = mem.applying.from
        /\ mem.applying.agent /\ "agent" \notin stray => runningAgent = 0

\* An unhealthy release goes out, and what comes back fits together.
RollbackIsWhole == UnhealthyIsRolledBack /\ RestoredTogether

\* What was rolled back stays away until an owner says otherwise.
RolledBackStaysOut == FailedStaysOut /\ AutoWaitsForOwner

\* An apply, its gate and its rollback end: the relay does not stay in a loop
\* of reloads.
BackInService == []<>(pc = "run")
=============================================================================
