------------------------------ MODULE RecheckLoop ------------------------------
(***************************************************************************)
(* The client's main loop (client/main.go) and what asks it to check in:   *)
(* the poll ticker, the recheckNow channel of capacity one that a finished *)
(* run and the check-in listener send on, and SIGUSR1 from the path unit   *)
(* that watches the package database, coalesced behind a settle timer.     *)
(* The path unit fires on the client's own reads of the database, too, so  *)
(* the loop compares a fingerprint before it acts on the signal.           *)
(***************************************************************************)
EXTENDS Naturals

CONSTANTS
  MaxWrites,    \* bound: writes to the package database
  MaxCommands,  \* bound: check-in commands, finished runs and reloads by hand
  MaxDrops,     \* bound: times the NATS connection is lost
  MaxFailures   \* bound: times the facts of the host cannot be collected

ASSUME LoopAssumption ==
  /\ MaxWrites \in Nat /\ MaxCommands \in Nat
  /\ MaxDrops \in Nat /\ MaxFailures \in Nat

VARIABLES
  hasDB,       \* does this host have one of packageDBFiles?
  db,          \* the package database, as a count of the writes to it
  connected,   \* nc.IsConnected()
  pathPending, \* has the path unit been triggered and not yet reloaded us?
  notified,    \* has signal.Notify been called?
  sig,         \* is a signal in the channel of capacity 1?
  timer,       \* is the settle timer running?
  tick,        \* is a tick in its channel?
  tickerC,     \* is a tick in the poll ticker's channel?
  recheckNow,  \* the requests in recheckNow, a channel of capacity 1
  recent,      \* was a check-in command accepted in the last 10 seconds?
  pc,          \* where the main goroutine stands
  lastDB,      \* the fingerprint at the start of the last check
  haveDB,
  collected,   \* the database the check in progress has read
  report,      \* the database the last published check-in described
  failed,      \* did the last check end before it had looked at anything?
  owed,        \* history: a check-in that was promised: "asked" of the loop, or
               \* "begun" and not yet published
  missed,      \* history: was the signal of a change dropped since the last check?
  commands, drops, failures

loopVars == <<pc, lastDB, haveDB, collected, report, failed>>
channels == <<sig, timer, tick, tickerC, recheckNow>>
hostVars == <<hasDB, db, connected, pathPending>>
recheckVars == <<hostVars, notified, channels, recent, loopVars, owed, missed,
          commands, drops, failures>>

Never == MaxWrites + 1   \* a version no database has: nothing looked at yet

FlagsOK ==
  /\ hasDB \in BOOLEAN /\ connected \in BOOLEAN /\ pathPending \in BOOLEAN
  /\ notified \in BOOLEAN /\ recent \in BOOLEAN /\ haveDB \in BOOLEAN
  /\ sig \in BOOLEAN /\ timer \in BOOLEAN /\ tick \in BOOLEAN
  /\ tickerC \in BOOLEAN /\ failed \in BOOLEAN /\ missed \in BOOLEAN

CountsOK ==
  /\ db \in 0 .. MaxWrites
  /\ recheckNow \in 0 .. 1
  /\ pc \in {"start", "collect", "publish", "notify", "select"}
  /\ lastDB \in 0 .. Never
  /\ collected \in 0 .. Never
  /\ report \in 0 .. Never
  /\ commands \in 0 .. MaxCommands
  /\ drops \in 0 .. MaxDrops /\ failures \in 0 .. MaxFailures
  /\ owed \in {"no", "asked", "begun"}

RecheckTypeOK == FlagsOK /\ CountsOK

RecheckInit ==
  /\ hasDB \in BOOLEAN
  /\ db = 0
  /\ connected = TRUE
  /\ pathPending = FALSE
  /\ notified = FALSE
  /\ sig = FALSE /\ timer = FALSE /\ tick = FALSE
  /\ tickerC = FALSE /\ recheckNow = 0
  /\ recent = FALSE
  /\ pc = "start"
  /\ lastDB = Never
  /\ haveDB = FALSE
  /\ collected = Never
  /\ report = Never
  /\ failed = FALSE /\ owed = "no" /\ missed = FALSE
  /\ commands = 0 /\ drops = 0 /\ failures = 0

(***************************************************************************)
(* The settle timer (client/recheck.go).                                   *)
(***************************************************************************)

Disarm == timer' = FALSE /\ tick' = FALSE
Arm == timer' = TRUE /\ tick' = FALSE

TimerFires ==
  /\ timer
  /\ timer' = FALSE
  /\ tick' = TRUE
  /\ UNCHANGED <<hostVars, notified, sig, tickerC, recheckNow, recent,
                 loopVars, owed, missed, commands, drops, failures>>

(***************************************************************************)
(* check(): without a connection it does nothing at all.                   *)
(***************************************************************************)

\* packageDBFingerprint, before anything is read.
Fingerprint ==
  /\ lastDB' = IF hasDB THEN db ELSE Never
  /\ haveDB' = hasDB

\* next: where the goroutine goes when there is no check to make.
Check(next) ==
  \/ /\ connected
     /\ Fingerprint
     /\ pc' = "collect"
     /\ owed' = IF owed = "asked" THEN "begun" ELSE owed
     /\ missed' = FALSE
     /\ UNCHANGED <<collected, report, failed>>
  \/ /\ ~connected
     /\ pc' = next
     /\ UNCHANGED <<lastDB, haveDB, collected, report, failed, owed, missed>>

FirstCheck ==
  /\ pc = "start"
  /\ Check("notify")
  /\ UNCHANGED <<hostVars, notified, channels, recent, commands, drops, failures>>

\* The package manager reads the database, which may trigger the path unit.
Collect ==
  /\ pc = "collect"
  /\ pc' = "publish"
  /\ collected' = db
  /\ failed' = FALSE
  /\ \E touched \in BOOLEAN : pathPending' = (pathPending \/ (hasDB /\ touched))
  /\ UNCHANGED <<hasDB, db, connected, notified, channels, recent,
                 lastDB, haveDB, report, owed, missed, commands, drops, failures>>

Listens == pc' = IF notified THEN "select" ELSE "notify"

\* "Failed to collect system data": no hostname, or no process for uname, before
\* any package manager was asked.  Nothing is published, and the fingerprint has
\* been recorded all the same.
CollectFails ==
  /\ pc = "collect"
  /\ failures < MaxFailures
  /\ failures' = failures + 1
  /\ failed' = TRUE
  /\ Listens
  /\ UNCHANGED <<hostVars, notified, channels, recent, lastDB, haveDB, collected,
                 report, owed, missed, commands, drops>>

Kept == owed' = IF owed = "begun" THEN "no" ELSE owed

\* Slip: the fingerprint is taken once the check is over.
PublishCheckIn_Fingerprints ==
  /\ pc = "publish"
  /\ Listens
  /\ report' = collected
  /\ Fingerprint /\ Kept
  /\ UNCHANGED <<hostVars, notified, channels, recent, collected, failed, missed,
                 commands, drops, failures>>

\* What is published on a lost connection may or may not reach the server.
PublishCheckIn ==
  /\ pc = "publish"
  /\ Listens
  /\ \/ report' = collected
     \/ ~connected /\ UNCHANGED report
  /\ Kept
  /\ UNCHANGED <<hostVars, notified, channels, recent, lastDB, haveDB,
                 collected, failed, missed, commands, drops, failures>>

\* signal.Notify, after the first check; the runtime ignores SIGUSR1 till then.
Notify ==
  /\ pc = "notify"
  /\ pc' = "select"
  /\ notified' = TRUE
  /\ UNCHANGED <<hostVars, channels, recent, lastDB, haveDB, collected, report,
                 failed, owed, missed, commands, drops, failures>>

(***************************************************************************)
(* The select, one action per case.                                        *)
(***************************************************************************)
\* Slip: the poll, too, skips a database that has not changed.
TakeTicker_SkipsUnchanged ==
  /\ pc = "select" /\ tickerC
  /\ tickerC' = FALSE
  /\ \/ ~(hasDB /\ haveDB /\ db = lastDB) /\ Check("select")
     \/ (hasDB /\ haveDB /\ db = lastDB) /\ UNCHANGED <<loopVars, owed, missed>>
  /\ UNCHANGED <<hostVars, notified, sig, timer, tick, recheckNow, recent,
                 commands, drops, failures>>

TakeTicker ==
  /\ pc = "select" /\ tickerC
  /\ tickerC' = FALSE
  /\ Check("select")
  /\ UNCHANGED <<hostVars, notified, sig, timer, tick, recheckNow, recent,
                 commands, drops, failures>>

TakeSignal ==
  /\ pc = "select" /\ sig
  /\ sig' = FALSE
  /\ Arm
  /\ UNCHANGED <<hostVars, notified, tickerC, recheckNow, recent, loopVars,
                 owed, missed, commands, drops, failures>>

TakeRecheckNow ==
  /\ pc = "select" /\ recheckNow > 0
  /\ recheckNow' = recheckNow - 1
  /\ Disarm
  /\ Check("select")
  /\ UNCHANGED <<hostVars, notified, sig, tickerC, recent, commands, drops, failures>>

\* Slip: every signal is taken for a transaction.
DatabaseUnchanged_Never == FALSE

\* Slip: a database that is there on both occasions is taken for unchanged.
DatabaseUnchanged_Coarse == hasDB /\ haveDB

DatabaseUnchanged == hasDB /\ haveDB /\ db = lastDB

TakeSettleTick ==
  /\ pc = "select" /\ tick
  /\ tick' = FALSE
  /\ \/ ~DatabaseUnchanged /\ Check("select")
     \/ DatabaseUnchanged /\ UNCHANGED <<loopVars, owed, missed>>
  /\ UNCHANGED <<hostVars, notified, sig, timer, tickerC, recheckNow, recent,
                 commands, drops, failures>>

(***************************************************************************)
(* The listeners that send on recheckNow.                                  *)
(***************************************************************************)

\* Slip: a channel without room, on which a request to a busy loop is dropped.
AskForCheck_Unbuffered == recheckNow' = IF pc = "select" THEN 1 ELSE recheckNow

\* The send that falls through when a request is already waiting.
AskForCheck == recheckNow' = 1

\* checkInListener.decide accepts.  A refusal changes nothing.
AcceptCheckIn ==
  /\ connected /\ ~recent
  /\ commands < MaxCommands
  /\ commands' = commands + 1
  /\ recent' = TRUE
  /\ owed' = "asked"
  /\ AskForCheck
  /\ UNCHANGED <<hostVars, notified, sig, timer, tick, tickerC, loopVars,
                 missed, drops, failures>>

IntervalPasses ==
  /\ recent
  /\ recent' = FALSE
  /\ UNCHANGED <<hostVars, notified, channels, loopVars, owed, missed,
                 commands, drops, failures>>

\* updateRunner.run has published its final record.
RunFinishes ==
  /\ commands < MaxCommands
  /\ commands' = commands + 1
  /\ owed' = "asked"
  /\ AskForCheck
  /\ UNCHANGED <<hostVars, notified, sig, timer, tick, tickerC, recent,
                 loopVars, missed, drops, failures>>

(***************************************************************************)
(* The host.                                                               *)
(***************************************************************************)

\* One write of a package transaction, of the client's or of somebody else's.
TransactionWrites ==
  /\ db < MaxWrites
  /\ db' = db + 1
  /\ pathPending' = (pathPending \/ hasDB)
  /\ UNCHANGED <<hasDB, connected, notified, channels, recent, loopVars,
                 owed, missed, commands, drops, failures>>

Signalled ==
  /\ sig' = (sig \/ notified)
  /\ missed' = (missed \/ (~notified /\ db # lastDB))

\* The path unit's oneshot reloads the client.
PathUnitFires ==
  /\ pathPending
  /\ pathPending' = FALSE
  /\ Signalled
  /\ UNCHANGED <<hasDB, db, connected, notified, timer, tick, tickerC,
                 recheckNow, recent, loopVars, owed, commands, drops, failures>>

\* systemctl reload muc-client, by hand.
ReloadByHand ==
  /\ commands < MaxCommands
  /\ commands' = commands + 1
  /\ Signalled
  /\ UNCHANGED <<hostVars, notified, timer, tick, tickerC, recheckNow, recent,
                 loopVars, owed, drops, failures>>

TickerFires ==
  /\ notified
  /\ ~tickerC
  /\ tickerC' = TRUE
  /\ UNCHANGED <<hostVars, notified, sig, timer, tick, recheckNow, recent,
                 loopVars, owed, missed, commands, drops, failures>>

ConnectionDrops ==
  /\ connected
  /\ drops < MaxDrops
  /\ drops' = drops + 1
  /\ connected' = FALSE
  /\ UNCHANGED <<hasDB, db, pathPending, notified, channels, recent, loopVars,
                 owed, missed, commands, failures>>

Reconnects ==
  /\ ~connected
  /\ connected' = TRUE
  /\ UNCHANGED <<hasDB, db, pathPending, notified, channels, recent, loopVars,
                 owed, missed, commands, drops, failures>>

Select == TakeTicker \/ TakeSignal \/ TakeRecheckNow \/ TakeSettleTick
MainLoop ==
  FirstCheck \/ Collect \/ CollectFails \/ PublishCheckIn \/ Notify \/ Select

RecheckNext ==
  \/ MainLoop
  \/ TimerFires \/ TickerFires
  \/ AcceptCheckIn \/ IntervalPasses \/ RunFinishes
  \/ TransactionWrites \/ PathUnitFires \/ ReloadByHand
  \/ ConnectionDrops \/ Reconnects

RecheckSpec == RecheckInit /\ [][RecheckNext]_recheckVars

-----------------------------------------------------------------------------
(***************************************************************************)
(* Safety.                                                                 *)
(***************************************************************************)

\* A timer that waits has no tick of an earlier wait in its channel: "re-arming
\* without taking that value would deliver a stale tick straight away".
NoStaleTick == ~(timer /\ tick)

\* "a transaction landing mid-check still differs and gets looked at": where
\* the loop would skip a check, the last check has read this very database,
\* unless it could not collect: its fingerprint is recorded before that is known.
NothingSkippedUnseen ==
  pc \in {"notify", "select"} /\ haveDB /\ lastDB = db => collected = db \/ failed

\* While the loop waits, a change the last check did not begin with is on its
\* way: in the path unit, the signal channel or the settle timer.
ChangesArePending ==
  pc = "select" /\ hasDB /\ db # lastDB /\ drops = 0 =>
    pathPending \/ sig \/ timer \/ tick \/ missed

\* "asking for exactly the check that is about to happen": a check-in that was
\* promised is in the channel until the loop begins it.
PromisesAreQueued == owed = "asked" /\ drops = 0 => recheckNow = 1

-----------------------------------------------------------------------------
(***************************************************************************)
(* Liveness.  select picks among ready cases at random, so none starves;   *)
(* timers and the path unit fire; a lost connection is restored.  Nothing  *)
(* is assumed of the poll: what needs it says so, and what does not must   *)
(* hold when the poll has fired for the last time.                         *)
(***************************************************************************)
RecheckFairness ==
  /\ WF_recheckVars(FirstCheck \/ Collect \/ PublishCheckIn \/ Notify)
  /\ SF_recheckVars(TakeTicker) /\ SF_recheckVars(TakeSignal)
  /\ SF_recheckVars(TakeRecheckNow) /\ SF_recheckVars(TakeSettleTick)
  /\ WF_recheckVars(TimerFires) /\ WF_recheckVars(PathUnitFires)
  /\ WF_recheckVars(Reconnects)

RecheckFairSpec == RecheckSpec /\ RecheckFairness

Polling == []<><<TickerFires>>_recheckVars
PollEnds == <>[][~TickerFires]_recheckVars

\* The client's own reads of the database do not keep it checking: once nobody
\* writes, asks or polls, the loop comes to rest.
Quiesces ==
  PollEnds => <>[](pc = "select" /\ ~sig /\ ~timer /\ ~tick /\ ~pathPending)

\* A transaction shows in a check-in without waiting for the poll, unless its
\* signal came before signal.Notify, the connection was lost or the check that
\* looked for it failed.
Unreported == hasDB /\ report # db
ChangesAreReported ==
  PollEnds => (Unreported ~> ~Unreported \/ missed \/ failed \/ drops > 0)

\* The same, without the exceptions for the signal, and for the check.
ChangesAreReportedPromptly ==
  PollEnds => (Unreported ~> ~Unreported \/ failed \/ drops > 0)
FailedChecksAreMadeUpFor ==
  PollEnds => (Unreported ~> ~Unreported \/ missed \/ drops > 0)

\* Given the poll, every change is reported, whatever the connection does and
\* whichever checks fail.
CatchesUp == Polling => (report # db ~> report = db)

\* "checking in now is what stops the dashboard from listing the packages a run
\* just installed": a promise leads to a check-in that was begun after it was
\* made and is published, with no help of the poll, however busy the loop was.
PromisesAreKept == PollEnds => (owed # "no" ~> owed = "no" \/ failed \/ drops > 0)
=============================================================================
