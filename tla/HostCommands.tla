----------------------------- MODULE HostCommands -----------------------------
(***************************************************************************)
(* One host that has opted in to remote updates and remote reboots: the    *)
(* client process (muc-client) with its update runner and its reboot       *)
(* listener, the goroutine each accepted command runs on, the package      *)
(* transactions those start, and the machine underneath, which may restart *)
(* the client or go down.  A transaction is not part of the client: it     *)
(* runs in a transient systemd unit or as a forked child that the unit     *)
(* file's KillMode=process spares, and outlives the client that started it.*)
(*                                                                         *)
(* NATS delivers a command at most once and the two command subjects are   *)
(* two subscriptions, so receiving a command is one action per subject and *)
(* the two interleave freely.                                              *)
(***************************************************************************)
EXTENDS Naturals, FiniteSets

CONSTANTS
  Runs,         \* update commands that may arrive, one run ID each
  Reboots,      \* reboot commands that may arrive
  MaxCommands,  \* bound: commands that arrive, of either kind
  MaxRestarts,  \* bound: how often the client process may die on its own
  MaxBoots      \* bound: how often the machine may go down

ASSUME BoundsAssumption ==
  MaxCommands \in Nat /\ MaxRestarts \in Nat /\ MaxBoots \in Nat

VARIABLES
  host,         \* the machine: "up", "stopping" (reboot accepted) or "off"
  client,       \* is the muc-client process alive?
  slot,         \* updateRunner.running
  runPc,        \* where each run's goroutine stands
  mode,         \* how a run was launched: transient unit or direct fork
  late,         \* has the run's 30 minute context expired?
  tx,           \* the package transaction of each run
  record,       \* the last run record published for each run
  recheck,      \* is a request waiting in the recheckNow channel (capacity 1)?
  inProgress,   \* rebootListener.inProgress
  rebootPc,     \* where each reboot command stands
  rebootRecord, \* the last reboot record published for each command
  seen,         \* runs that had already arrived when a reboot asked about them
  needsReboot,  \* what hostinfo.RebootRequired would answer
  restarts,     \* deaths of the client so far
  boots         \* times the machine went down so far

updateVars == <<slot, runPc, mode, late, record, recheck>>
rebootVars == <<inProgress, rebootPc, rebootRecord, seen>>
hostVars == <<host, needsReboot, restarts, boots>>
vars == <<client, tx, updateVars, rebootVars, hostVars>>

(***************************************************************************)
(* A run holds the slot from its acceptance until its goroutine's deferred *)
(* release, the last thing run() does.                                     *)
(***************************************************************************)
RunHolding ==
  {"accepted", "announced", "executing", "exited", "reported", "rechecked"}
RebootHolding == {"accepted", "announced", "commanded", "failing", "clearing"}

Active(r) == runPc[r] \in RunHolding
RebootActive(q) == rebootPc[q] \in RebootHolding

TypeOK ==
  /\ host \in {"up", "stopping", "off"}
  /\ client \in BOOLEAN
  /\ slot \in BOOLEAN
  /\ runPc \in [Runs -> RunHolding \cup {"idle", "refused", "done", "lost"}]
  /\ mode \in [Runs -> {"none", "unit", "direct"}]
  /\ late \in [Runs -> BOOLEAN]
  /\ tx \in [Runs -> {"none", "running", "ok", "failed", "cut"}]
  /\ record \in [Runs -> {"none", "running", "succeeded", "failed"}]
  /\ recheck \in BOOLEAN
  /\ inProgress \in BOOLEAN
  /\ rebootPc \in [Reboots -> RebootHolding
                       \cup {"idle", "deciding", "refused", "unanswered", "failed", "lost"}]
  /\ rebootRecord \in [Reboots -> {"none", "rebooting", "failed"}]
  /\ seen \in [Reboots -> SUBSET Runs]
  /\ needsReboot \in BOOLEAN
  /\ restarts \in 0 .. MaxRestarts
  /\ boots \in 0 .. MaxBoots

Init ==
  /\ host = "up"
  /\ client = TRUE
  /\ slot = FALSE
  /\ runPc = [r \in Runs |-> "idle"]
  /\ mode = [r \in Runs |-> "none"]
  /\ late = [r \in Runs |-> FALSE]
  /\ tx = [r \in Runs |-> "none"]
  /\ record = [r \in Runs |-> "none"]
  /\ recheck = FALSE
  /\ inProgress = FALSE
  /\ rebootPc = [q \in Reboots |-> "idle"]
  /\ rebootRecord = [q \in Reboots |-> "none"]
  /\ seen = [q \in Reboots |-> {}]
  /\ needsReboot \in BOOLEAN
  /\ restarts = 0
  /\ boots = 0

(***************************************************************************)
(* The update runner (client/remoteupdate.go).                             *)
(***************************************************************************)

\* The bound on the commands that arrive.
MoreCommands ==
  Cardinality({r \in Runs : runPc[r] # "idle"})
    + Cardinality({q \in Reboots : rebootPc[q] # "idle"}) < MaxCommands

\* Slip: claim without looking.
SlotIsFree_Unchecked == TRUE

\* claim: free or taken, asked and answered under the runner's mutex.  The
\* reboot listener is not consulted.
SlotIsFree == ~slot

\* handle: the run takes the slot, or the command is refused.
HandleUpdate(r) ==
  /\ client /\ MoreCommands
  /\ runPc[r] = "idle"
  /\ \/ /\ SlotIsFree
        /\ slot' = TRUE
        /\ runPc' = [runPc EXCEPT ![r] = "accepted"]
     \/ /\ ~SlotIsFree
        /\ runPc' = [runPc EXCEPT ![r] = "refused"]
        /\ UNCHANGED slot
  /\ UNCHANGED <<client, tx, mode, late, record, recheck, rebootVars, hostVars>>

\* The running record goes out before anything is started.
AnnounceRun(r) ==
  /\ runPc[r] = "accepted"
  /\ runPc' = [runPc EXCEPT ![r] = "announced"]
  /\ record' = [record EXCEPT ![r] = "running"]
  /\ UNCHANGED <<client, tx, slot, mode, late, recheck, rebootVars, hostVars>>

\* A transient unit where the probe could start one, a direct fork otherwise;
\* either may fail to start, and cmd.Run then returns an error at once.
LaunchRun(r) ==
  /\ runPc[r] = "announced"
  /\ runPc' = [runPc EXCEPT ![r] = "executing"]
  /\ \E m \in {"unit", "direct"} : mode' = [mode EXCEPT ![r] = m]
  /\ \E t \in {"running", "failed"} : tx' = [tx EXCEPT ![r] = t]
  /\ UNCHANGED <<client, slot, late, record, recheck, rebootVars, hostVars>>

\* updateRunTimeout passes.  The status is decided from the context after
\* the command has returned, so a run that has already exited can still
\* be caught by it.
RunTimesOut(r) ==
  /\ runPc[r] \in {"executing", "exited"}
  /\ ~late[r]
  /\ late' = [late EXCEPT ![r] = TRUE]
  /\ UNCHANGED <<client, tx, slot, runPc, mode, record, recheck,
                 rebootVars, hostVars>>

\* Slip: a direct run, too, returns as soon as its script is killed.
CommandReturns_OnTimeout(r) == tx[r] # "running" \/ late[r]

\* Slip: the run has no timeout.
CommandReturns_Untimed(r) == tx[r] # "running"

\* When cmd.Run returns: the transaction has ended, or the timeout killed
\* systemd-run, which is only the unit's waiter.  A direct run's timeout kills
\* the script alone: its package manager holds the output pipe, and cmd.Run
\* waits for that pipe to close.
CommandReturns(r) ==
  \/ tx[r] # "running"
  \/ mode[r] = "unit" /\ late[r]

RunExits(r) ==
  /\ runPc[r] = "executing"
  /\ CommandReturns(r)
  /\ runPc' = [runPc EXCEPT ![r] = "exited"]
  /\ UNCHANGED <<client, tx, slot, mode, late, record, recheck,
                 rebootVars, hostVars>>

\* Slip: the exit status is not looked at.
FinalStatus_IgnoresExit(r) == IF late[r] THEN "failed" ELSE "succeeded"

\* The context is asked before the command's own result is.
FinalStatus(r) ==
  IF ~late[r] /\ tx[r] = "ok" THEN "succeeded" ELSE "failed"

ReportRun(r) ==
  /\ runPc[r] = "exited"
  /\ runPc' = [runPc EXCEPT ![r] = "reported"]
  /\ record' = [record EXCEPT ![r] = FinalStatus(r)]
  /\ UNCHANGED <<client, tx, slot, mode, late, recheck, rebootVars, hostVars>>

\* A send that never blocks: a request already waiting stands for both.
RequestRecheck(r) ==
  /\ runPc[r] = "reported"
  /\ runPc' = [runPc EXCEPT ![r] = "rechecked"]
  /\ recheck' = TRUE
  /\ UNCHANGED <<client, tx, slot, mode, late, record, rebootVars, hostVars>>

\* Slip: a return path without the release.
ReleaseRun_Forgotten(r) ==
  /\ runPc[r] = "rechecked"
  /\ runPc' = [runPc EXCEPT ![r] = "done"]
  /\ UNCHANGED <<client, tx, slot, mode, late, record, recheck,
                 rebootVars, hostVars>>

ReleaseRun(r) ==
  /\ runPc[r] = "rechecked"
  /\ runPc' = [runPc EXCEPT ![r] = "done"]
  /\ slot' = FALSE
  /\ UNCHANGED <<client, tx, mode, late, record, recheck, rebootVars, hostVars>>

\* The main loop takes the request and checks in.
TakeRecheck ==
  /\ client
  /\ recheck
  /\ recheck' = FALSE
  /\ UNCHANGED <<client, tx, slot, runPc, mode, late, record,
                 rebootVars, hostVars>>

(***************************************************************************)
(* The reboot listener (client/remotereboot.go).  decide holds l.mu from   *)
(* its first question to its answer, so one command is decided at a time;  *)
(* the runner's slot is another mutex, free to change between the two.     *)
(***************************************************************************)
\* Slip: the question about runs is left out.
MayReboot_IgnoresRuns == ~inProgress

NoneDeciding == \A q \in Reboots : rebootPc[q] # "deciding"

MayReboot == ~inProgress /\ ~slot

AskAboutRuns(q) ==
  /\ client /\ MoreCommands
  /\ rebootPc[q] = "idle"
  /\ NoneDeciding
  /\ rebootPc' = [rebootPc EXCEPT ![q] =
                    IF MayReboot THEN "deciding" ELSE "refused"]
  /\ seen' = [seen EXCEPT ![q] = {r \in Runs : runPc[r] # "idle"}]
  /\ UNCHANGED <<client, tx, updateVars, inProgress, rebootRecord, hostVars>>

DecideReboot(q) ==
  /\ rebootPc[q] = "deciding"
  /\ \/ /\ needsReboot
        /\ inProgress' = TRUE
        /\ rebootPc' = [rebootPc EXCEPT ![q] = "accepted"]
     \/ /\ ~needsReboot
        /\ rebootPc' = [rebootPc EXCEPT ![q] = "refused"]
        /\ UNCHANGED inProgress
  /\ UNCHANGED <<client, tx, updateVars, rebootRecord, seen, hostVars>>

\* The record is flushed before the reboot command runs.
AnnounceReboot(q) ==
  /\ rebootPc[q] = "accepted"
  /\ rebootPc' = [rebootPc EXCEPT ![q] = "announced"]
  /\ rebootRecord' = [rebootRecord EXCEPT ![q] = "rebooting"]
  /\ UNCHANGED <<client, tx, updateVars, inProgress, seen, hostVars>>

\* reboot() either hands the machine to the init system or fails.
RunReboot(q) ==
  /\ rebootPc[q] = "announced"
  /\ \/ /\ boots < MaxBoots
        /\ host' = "stopping"
        /\ rebootPc' = [rebootPc EXCEPT ![q] = "commanded"]
     \/ rebootPc' = [rebootPc EXCEPT ![q] = "failing"] /\ UNCHANGED host
  /\ UNCHANGED <<client, tx, updateVars, inProgress, rebootRecord, seen,
                 needsReboot, restarts, boots>>

ReportRebootFailure(q) ==
  /\ rebootPc[q] = "failing"
  /\ rebootPc' = [rebootPc EXCEPT ![q] = "clearing"]
  /\ rebootRecord' = [rebootRecord EXCEPT ![q] = "failed"]
  /\ UNCHANGED <<client, tx, updateVars, inProgress, seen, hostVars>>

\* Slip: the failure path leaves inProgress set.
ClearReboot_Forgotten(q) ==
  /\ rebootPc[q] = "clearing"
  /\ rebootPc' = [rebootPc EXCEPT ![q] = "failed"]
  /\ UNCHANGED <<client, tx, updateVars, inProgress, rebootRecord, seen,
                 hostVars>>

ClearReboot(q) ==
  /\ rebootPc[q] = "clearing"
  /\ rebootPc' = [rebootPc EXCEPT ![q] = "failed"]
  /\ inProgress' = FALSE
  /\ UNCHANGED <<client, tx, updateVars, rebootRecord, seen, hostVars>>

(***************************************************************************)
(* The machine and the package manager.                                    *)
(***************************************************************************)

\* A transaction ends by itself, well or badly, or is ended by its unit's
\* RuntimeMaxSec, if ever.
TransactionEnds(r) ==
  /\ tx[r] = "running"
  /\ \E t \in {"ok", "failed"} : tx' = [tx EXCEPT ![r] = t]
  /\ UNCHANGED <<client, updateVars, rebootVars, hostVars>>

RebootBecomesNeeded ==
  /\ host = "up"
  /\ ~needsReboot
  /\ needsReboot' = TRUE
  /\ UNCHANGED <<client, tx, updateVars, rebootVars,
                 host, restarts, boots>>

\* Everything the process held in memory goes with it: goroutines, slots,
\* the queued request.
ForgetClient ==
  /\ client' = FALSE
  /\ slot' = FALSE
  /\ inProgress' = FALSE
  /\ recheck' = FALSE
  /\ runPc' = [r \in Runs |-> IF Active(r) THEN "lost" ELSE runPc[r]]
  /\ rebootPc' = [q \in Reboots |->
                    CASE RebootActive(q) -> "lost"
                      [] rebootPc[q] = "deciding" -> "unanswered"
                      [] OTHER -> rebootPc[q]]
  /\ UNCHANGED <<mode, late, record, rebootRecord, seen>>

\* The client dies without the machine: a crash, or the restart a transaction
\* causes when it upgrades muc-client itself.
ClientDies ==
  /\ client
  /\ restarts < MaxRestarts
  /\ restarts' = restarts + 1
  /\ ForgetClient
  /\ UNCHANGED <<tx, host, needsReboot, boots>>

\* Restart=always, and the unit is enabled at boot.
ClientStarts ==
  /\ ~client
  /\ host = "up"
  /\ client' = TRUE
  /\ UNCHANGED <<tx, updateVars, rebootVars, hostVars>>

\* The machine goes down: after a reboot command, or because somebody else
\* rebooted it or its power failed.
HostGoesDown ==
  /\ host # "off"
  /\ boots < MaxBoots
  /\ boots' = boots + 1
  /\ host' = "off"
  /\ tx' = [r \in Runs |-> IF tx[r] = "running" THEN "cut" ELSE tx[r]]
  /\ ForgetClient
  /\ UNCHANGED <<needsReboot, restarts>>

HostBoots ==
  /\ host = "off"
  /\ host' = "up"
  /\ needsReboot' = FALSE
  /\ UNCHANGED <<client, tx, updateVars, rebootVars, restarts, boots>>

RunSteps(r) ==
  \/ AnnounceRun(r) \/ LaunchRun(r) \/ RunExits(r)
  \/ ReportRun(r) \/ RequestRecheck(r) \/ ReleaseRun(r)

RebootSteps(q) ==
  \/ DecideReboot(q) \/ AnnounceReboot(q) \/ RunReboot(q)
  \/ ReportRebootFailure(q) \/ ClearReboot(q)

Next ==
  \/ \E r \in Runs :
       HandleUpdate(r) \/ RunSteps(r) \/ RunTimesOut(r) \/ TransactionEnds(r)
  \/ \E q \in Reboots : AskAboutRuns(q) \/ RebootSteps(q)
  \/ TakeRecheck
  \/ RebootBecomesNeeded
  \/ ClientDies \/ ClientStarts
  \/ HostGoesDown \/ HostBoots

Spec == Init /\ [][Next]_vars

-----------------------------------------------------------------------------
(***************************************************************************)
(* Safety.                                                                 *)
(***************************************************************************)

\* updateRunner.running is true exactly while one goroutine is between claim
\* and its deferred release, and there is never a second: "One run at a time
\* per host" within one client process.
SlotHeldByOneRun ==
  /\ slot <=> \E r \in Runs : Active(r)
  /\ \A r1, r2 \in Runs : Active(r1) /\ Active(r2) => r1 = r2

\* rebootListener.inProgress likewise: set from acceptance until a failed
\* command has been reported, for one reboot at a time.
RebootSlotHeldByOne ==
  /\ inProgress <=> \E q \in Reboots : RebootActive(q)
  /\ \A q1, q2 \in Reboots :
       RebootActive(q1) /\ RebootActive(q2) => q1 = q2

\* Two package transactions run on the host together only when the client
\* that started one of them died under it, or gave up on its unit at the
\* 30 minute mark.  The slot alone does not rule it out; see OneRunAtATime.
OverlapHasACause ==
  \A r1, r2 \in Runs :
    r1 # r2 /\ tx[r1] = "running" /\ tx[r2] = "running"
      => \E r \in {r1, r2} :
           runPc[r] = "lost" \/ (mode[r] = "unit" /\ late[r])

\* A run record never claims more than happened: "succeeded" only over a
\* transaction that ended well, "failed" only over one that did not or that
\* ran into the timeout.
RecordsAreHonest ==
  \A r \in Runs :
    /\ record[r] = "succeeded" => tx[r] = "ok"
    /\ record[r] = "failed" => tx[r] = "failed" \/ late[r]

\* A reboot that goes ahead does so under no run the listener could have seen
\* when it asked: every run still holding the slot arrived after the question.
RebootSparesRunsItSaw ==
  \A q \in Reboots :
    RebootActive(q) => \A r \in seen[q] : ~Active(r)

\* The machine never starts down for a reboot whose record has not been
\* published: nothing after the command can report anything.
RebootAnnouncedFirst ==
  host = "stopping" =>
    \E q \in Reboots : /\ rebootPc[q] \in {"commanded", "lost"}
                       /\ rebootRecord[q] = "rebooting"

\* Run records go from nothing to running to one final status, reboot records
\* from nothing to rebooting to failed; neither is ever taken back.
RecordsOnlyAdvance ==
  [][/\ \A r \in Runs : record'[r] # record[r] =>
          \/ record[r] = "none" /\ record'[r] = "running"
          \/ record[r] = "running" /\ record'[r] \in {"succeeded", "failed"}
     /\ \A q \in Reboots : rebootRecord'[q] # rebootRecord[q] =>
          \/ rebootRecord[q] = "none" /\ rebootRecord'[q] = "rebooting"
          \/ rebootRecord[q] = "rebooting" /\ rebootRecord'[q] = "failed"]_vars

\* The runner and the listener are each a RunSlot: a command takes the slot
\* once, alone, and is never run a second time, restarts included.
UpdateSlot == INSTANCE RunSlot WITH
  Jobs <- Runs,
  holder <- {r \in Runs : Active(r)},
  served <- {r \in Runs : runPc[r] \notin {"idle", "refused"}}
RebootSlot == INSTANCE RunSlot WITH
  Jobs <- Reboots,
  holder <- {q \in Reboots : RebootActive(q)},
  served <- {q \in Reboots :
               rebootPc[q] \notin {"idle", "deciding", "refused", "unanswered"}}
UpdatesAreServedOnce == UpdateSlot!Spec
RebootsAreServedOnce == RebootSlot!Spec

-----------------------------------------------------------------------------
(***************************************************************************)
(* What the comments and the README say, and the code does not do.         *)
(***************************************************************************)

\* "One run at a time per host" across restarts of the client, too.
OneRunAtATime ==
  \A r1, r2 \in Runs : tx[r1] = "running" /\ tx[r2] = "running" => r1 = r2

\* "Rebooting under one would kill a package transaction mid-write."
NoRebootUnderAnUpdate ==
  host = "stopping" => \A r \in Runs : runPc[r] # "executing"

\* The timeout stops "a run that is wedged", however it was launched.
NoRunKeepsTheSlot == slot ~> ~slot

-----------------------------------------------------------------------------
(***************************************************************************)
(* Liveness.  Goroutines that can step do; the timeout's clock runs; a     *)
(* machine told to reboot goes down and comes back; systemd restarts the   *)
(* client.  Nothing is assumed of commands arriving, nor of package        *)
(* managers: a transaction may hang for ever.                              *)
(***************************************************************************)
Scheduling ==
  /\ \A r \in Runs : WF_vars(RunSteps(r)) /\ WF_vars(RunTimesOut(r))
  /\ \A q \in Reboots : WF_vars(RebootSteps(q))
  /\ WF_vars(TakeRecheck)
  /\ WF_vars(ClientStarts)
  /\ WF_vars(HostBoots)
  /\ WF_vars(host = "stopping" /\ HostGoesDown)

FairSpec == Spec /\ Scheduling

\* A direct command past its timeout, whose package manager goes on.
Wedged(r) ==
  runPc[r] = "executing" /\ mode[r] = "direct" /\ late[r] /\ tx[r] = "running"

\* A run gives the slot back, also when its package manager never ends: the
\* timeout "exists to stop a run that is wedged on a lock or a prompt from
\* occupying the host forever".  It does so for a run in a unit; the slot is
\* kept for ever only by a direct command whose package manager never ends,
\* and by the same one all the time.
RunsFreeTheSlot == <>[]slot => \E r \in Runs : <>[]Wedged(r)

\* An accepted reboot ends in a machine that went down or a failure that was
\* reported with the slot free again: the listener never refuses for ever.
RebootsFreeTheSlot ==
  \A q \in Reboots : RebootActive(q) ~>
    ~inProgress /\ (rebootPc[q] = "lost" \/ rebootRecord[q] = "failed")
=============================================================================
