---------------------------- MODULE SchedulesProofs ----------------------------
(***************************************************************************)
(* What is done by the clock: the checks of the agent, and the benchmarks the *)
(* server asks for.                                                        *)
(***************************************************************************)
EXTENDS RecheckLoop, Benchmarks, FiniteSetTheorems, TLAPS

-----------------------------------------------------------------------------
(***************************************************************************)
(* The main loop of the agent, for any number of writes, commands and      *)
(* lost connections, and however many checks fail.                         *)
(***************************************************************************)

\* A loop that has lost no connection is connected.
ConnectedUntilDropped == drops = 0 => connected

\* A fingerprint is of a database this host had, never of a later one; what
\* the check collects, if it collects anything, is read after that.
FingerprintFirst ==
  /\ haveDB => hasDB /\ lastDB <= db
  /\ pc = "start" => ~haveDB
  /\ haveDB /\ pc # "collect" /\ ~failed => lastDB <= collected /\ collected <= db

\* ChangesArePending from the first check on, and not only in the select.
PendingSinceFirstCheck ==
  pc # "start" /\ hasDB /\ db # lastDB /\ drops = 0 =>
    pathPending \/ sig \/ timer \/ tick \/ missed

RecheckInv ==
  /\ RecheckTypeOK
  /\ NoStaleTick
  /\ ConnectedUntilDropped
  /\ PromisesAreQueued
  /\ FingerprintFirst
  /\ PendingSinceFirstCheck

\* The initial state satisfies the inductive invariant.
LEMMA RecheckStarts == RecheckInit => RecheckInv
<1> SUFFICES ASSUME RecheckInit PROVE RecheckInv
  OBVIOUS
<1> USE LoopAssumption DEF LoopAssumption, RecheckInit
<1>1. FlagsOK
  BY Zenon DEF FlagsOK
<1>2. CountsOK
  BY DEF CountsOK, Never
<1>3. NoStaleTick /\ ConnectedUntilDropped /\ PromisesAreQueued
  BY DEF NoStaleTick, ConnectedUntilDropped, PromisesAreQueued
<1>4. FingerprintFirst /\ PendingSinceFirstCheck
  BY DEF FingerprintFirst, PendingSinceFirstCheck
<1>5. QED
  BY <1>1, <1>2, <1>3, <1>4 DEF RecheckInv, RecheckTypeOK

\* Every step keeps the flags Boolean.
LEMMA FlagsStep == FlagsOK /\ [RecheckNext]_recheckVars => FlagsOK'
<1> SUFFICES ASSUME FlagsOK, [RecheckNext]_recheckVars PROVE FlagsOK'
  OBVIOUS
<1> USE DEF FlagsOK, hostVars, channels, loopVars
<1>1. CASE FirstCheck
  <2>1. Check("notify") /\ UNCHANGED <<hostVars, notified, channels, recent>>
    BY <1>1 DEF FirstCheck
  <2>2. haveDB' \in BOOLEAN /\ failed' \in BOOLEAN /\ missed' \in BOOLEAN
    <3>1. CASE connected /\ Fingerprint /\ missed' = FALSE /\ UNCHANGED failed
      BY <3>1 DEF Fingerprint
    <3>2. CASE UNCHANGED <<haveDB, failed, missed>>
      BY <3>2
    <3>3. QED
      BY <2>1, <3>1, <3>2 DEF Check
  <2>3. QED
    BY <2>1, <2>2
<1>2. CASE Collect
  BY <1>2 DEF Collect
<1>f. CASE CollectFails
  BY <1>f DEF CollectFails, Listens
<1>3. CASE PublishCheckIn
  BY <1>3 DEF PublishCheckIn, Listens, Kept
<1>4. CASE Notify
  BY <1>4 DEF Notify
<1>5. CASE TakeTicker
  BY <1>5 DEF TakeTicker, Check, Fingerprint
<1>6. CASE TakeSignal
  BY <1>6 DEF TakeSignal, Arm
<1>7. CASE TakeRecheckNow
  BY <1>7 DEF TakeRecheckNow, Disarm, Check, Fingerprint
<1>8. CASE TakeSettleTick
  BY <1>8 DEF TakeSettleTick, Check, Fingerprint
<1>9. CASE TimerFires
  BY <1>9 DEF TimerFires
<1>10. CASE TickerFires
  BY <1>10 DEF TickerFires
<1>11. CASE AcceptCheckIn
  BY <1>11 DEF AcceptCheckIn, AskForCheck
<1>12. CASE IntervalPasses
  BY <1>12 DEF IntervalPasses
<1>13. CASE RunFinishes
  BY <1>13 DEF RunFinishes, AskForCheck
<1>14. CASE TransactionWrites
  BY <1>14 DEF TransactionWrites
<1>15. CASE PathUnitFires
  BY <1>15 DEF PathUnitFires, Signalled
<1>16. CASE ReloadByHand
  BY <1>16 DEF ReloadByHand, Signalled
<1>17. CASE ConnectionDrops
  BY <1>17 DEF ConnectionDrops
<1>18. CASE Reconnects
  BY <1>18 DEF Reconnects
<1>19. CASE UNCHANGED recheckVars
  BY <1>19 DEF recheckVars
<1>20. QED
  BY <1>1, <1>2, <1>3, <1>4, <1>5, <1>6, <1>7, <1>8, <1>9, <1>10, <1>11,
     <1>12, <1>13, <1>14, <1>15, <1>16, <1>17, <1>18, <1>19, <1>f DEF RecheckNext,
     MainLoop, Select

\* Every step keeps the counts in their ranges.
LEMMA CountsStep == RecheckTypeOK /\ [RecheckNext]_recheckVars => CountsOK'
<1> SUFFICES ASSUME RecheckTypeOK, [RecheckNext]_recheckVars PROVE CountsOK'
  OBVIOUS
<1> USE LoopAssumption DEF LoopAssumption, RecheckTypeOK, FlagsOK, CountsOK, Never,
           hostVars, channels, loopVars
<1>1. CASE FirstCheck
  BY <1>1 DEF FirstCheck, Check, Fingerprint
<1>2. CASE Collect
  BY <1>2 DEF Collect
<1>f. CASE CollectFails
  BY <1>f DEF CollectFails, Listens
<1>3. CASE PublishCheckIn
  BY <1>3 DEF PublishCheckIn, Listens, Kept
<1>4. CASE Notify
  BY <1>4 DEF Notify
<1>5. CASE TakeTicker
  BY <1>5 DEF TakeTicker, Check, Fingerprint
<1>6. CASE TakeSignal
  BY <1>6 DEF TakeSignal, Arm
<1>7. CASE TakeRecheckNow
  BY <1>7 DEF TakeRecheckNow, Disarm, Check, Fingerprint
<1>8. CASE TakeSettleTick
  BY <1>8 DEF TakeSettleTick, Check, Fingerprint
<1>9. CASE TimerFires
  BY <1>9 DEF TimerFires
<1>10. CASE TickerFires
  BY <1>10 DEF TickerFires
<1>11. CASE AcceptCheckIn
  BY <1>11 DEF AcceptCheckIn, AskForCheck
<1>12. CASE IntervalPasses
  BY <1>12 DEF IntervalPasses
<1>13. CASE RunFinishes
  BY <1>13 DEF RunFinishes, AskForCheck
<1>14. CASE TransactionWrites
  BY <1>14 DEF TransactionWrites
<1>15. CASE PathUnitFires
  BY <1>15 DEF PathUnitFires, Signalled
<1>16. CASE ReloadByHand
  BY <1>16 DEF ReloadByHand, Signalled
<1>17. CASE ConnectionDrops
  BY <1>17 DEF ConnectionDrops
<1>18. CASE Reconnects
  BY <1>18 DEF Reconnects
<1>19. CASE UNCHANGED recheckVars
  BY <1>19 DEF recheckVars
<1>20. QED
  BY <1>1, <1>2, <1>3, <1>4, <1>5, <1>6, <1>7, <1>8, <1>9, <1>10, <1>11,
     <1>12, <1>13, <1>14, <1>15, <1>16, <1>17, <1>18, <1>19, <1>f DEF RecheckNext,
     MainLoop, Select

\* Every step keeps what is said of the settle timer and of promised check-ins.
LEMMA ChannelsStep ==
  RecheckInv /\ [RecheckNext]_recheckVars =>
    (NoStaleTick /\ ConnectedUntilDropped /\ PromisesAreQueued)'
<1> SUFFICES ASSUME RecheckInv, [RecheckNext]_recheckVars
             PROVE  (NoStaleTick /\ ConnectedUntilDropped /\ PromisesAreQueued)'
  OBVIOUS
<1> USE DEF RecheckInv, RecheckTypeOK, FlagsOK, CountsOK, NoStaleTick, ConnectedUntilDropped,
           PromisesAreQueued, hostVars, channels, loopVars
<1>1. CASE FirstCheck
  BY <1>1 DEF FirstCheck, Check, Fingerprint
<1>2. CASE Collect
  BY <1>2 DEF Collect
<1>f. CASE CollectFails
  BY <1>f DEF CollectFails, Listens
<1>3. CASE PublishCheckIn
  BY <1>3 DEF PublishCheckIn, Listens, Kept
<1>4. CASE Notify
  BY <1>4 DEF Notify
<1>5. CASE TakeTicker
  BY <1>5 DEF TakeTicker, Check, Fingerprint
<1>6. CASE TakeSignal
  BY <1>6 DEF TakeSignal, Arm
<1>7. CASE TakeRecheckNow
  BY <1>7 DEF TakeRecheckNow, Disarm, Check, Fingerprint
<1>8. CASE TakeSettleTick
  BY <1>8 DEF TakeSettleTick, Check, Fingerprint
<1>9. CASE TimerFires
  BY <1>9 DEF TimerFires
<1>10. CASE TickerFires
  BY <1>10 DEF TickerFires
<1>11. CASE AcceptCheckIn
  BY <1>11 DEF AcceptCheckIn, AskForCheck
<1>12. CASE IntervalPasses
  BY <1>12 DEF IntervalPasses
<1>13. CASE RunFinishes
  BY <1>13 DEF RunFinishes, AskForCheck
<1>14. CASE TransactionWrites
  BY <1>14 DEF TransactionWrites
<1>15. CASE PathUnitFires
  BY <1>15 DEF PathUnitFires, Signalled
<1>16. CASE ReloadByHand
  BY <1>16 DEF ReloadByHand, Signalled
<1>17. CASE ConnectionDrops
  BY <1>17 DEF ConnectionDrops
<1>18. CASE Reconnects
  BY <1>18 DEF Reconnects
<1>19. CASE UNCHANGED recheckVars
  BY <1>19 DEF recheckVars
<1>20. QED
  BY <1>1, <1>2, <1>3, <1>4, <1>5, <1>6, <1>7, <1>8, <1>9, <1>10, <1>11,
     <1>12, <1>13, <1>14, <1>15, <1>16, <1>17, <1>18, <1>19, <1>f DEF RecheckNext,
     MainLoop, Select

\* Every step keeps the order of fingerprint, reading and writes.
LEMMA FingerprintStep == RecheckInv /\ [RecheckNext]_recheckVars => FingerprintFirst'
<1> SUFFICES ASSUME RecheckInv, [RecheckNext]_recheckVars PROVE FingerprintFirst'
  OBVIOUS
<1> USE LoopAssumption DEF LoopAssumption, RecheckInv, RecheckTypeOK, FlagsOK, CountsOK, Never,
           FingerprintFirst, hostVars, channels, loopVars
<1>1. CASE FirstCheck
  BY <1>1 DEF FirstCheck, Check, Fingerprint
<1>2. CASE Collect
  BY <1>2 DEF Collect
<1>f. CASE CollectFails
  BY <1>f DEF CollectFails, Listens
<1>3. CASE PublishCheckIn
  BY <1>3 DEF PublishCheckIn, Listens, Kept
<1>4. CASE Notify
  BY <1>4 DEF Notify
<1>5. CASE TakeTicker
  BY <1>5 DEF TakeTicker, Check, Fingerprint
<1>6. CASE TakeSignal
  BY <1>6 DEF TakeSignal, Arm
<1>7. CASE TakeRecheckNow
  BY <1>7 DEF TakeRecheckNow, Disarm, Check, Fingerprint
<1>8. CASE TakeSettleTick
  BY <1>8 DEF TakeSettleTick, Check, Fingerprint
<1>9. CASE TimerFires
  BY <1>9 DEF TimerFires
<1>10. CASE TickerFires
  BY <1>10 DEF TickerFires
<1>11. CASE AcceptCheckIn
  BY <1>11 DEF AcceptCheckIn, AskForCheck
<1>12. CASE IntervalPasses
  BY <1>12 DEF IntervalPasses
<1>13. CASE RunFinishes
  BY <1>13 DEF RunFinishes, AskForCheck
<1>14. CASE TransactionWrites
  BY <1>14 DEF TransactionWrites
<1>15. CASE PathUnitFires
  BY <1>15 DEF PathUnitFires, Signalled
<1>16. CASE ReloadByHand
  BY <1>16 DEF ReloadByHand, Signalled
<1>17. CASE ConnectionDrops
  BY <1>17 DEF ConnectionDrops
<1>18. CASE Reconnects
  BY <1>18 DEF Reconnects
<1>19. CASE UNCHANGED recheckVars
  BY <1>19 DEF recheckVars
<1>20. QED
  BY <1>1, <1>2, <1>3, <1>4, <1>5, <1>6, <1>7, <1>8, <1>9, <1>10, <1>11,
     <1>12, <1>13, <1>14, <1>15, <1>16, <1>17, <1>18, <1>19, <1>f DEF RecheckNext,
     MainLoop, Select

\* Every step keeps an unseen change on its way.
LEMMA PendingStep == RecheckInv /\ [RecheckNext]_recheckVars => PendingSinceFirstCheck'
<1> SUFFICES ASSUME RecheckInv, [RecheckNext]_recheckVars PROVE PendingSinceFirstCheck'
  OBVIOUS
<1> USE DEF RecheckInv, RecheckTypeOK, FlagsOK, CountsOK, ConnectedUntilDropped,
           PendingSinceFirstCheck, hostVars, channels, loopVars
<1>1. CASE FirstCheck
  BY <1>1 DEF FirstCheck, Check, Fingerprint
<1>2. CASE Collect
  BY <1>2 DEF Collect
<1>f. CASE CollectFails
  BY <1>f DEF CollectFails, Listens
<1>3. CASE PublishCheckIn
  BY <1>3 DEF PublishCheckIn, Listens, Kept
<1>4. CASE Notify
  BY <1>4 DEF Notify
<1>5. CASE TakeTicker
  BY <1>5 DEF TakeTicker, Check, Fingerprint
<1>6. CASE TakeSignal
  BY <1>6 DEF TakeSignal, Arm
<1>7. CASE TakeRecheckNow
  BY <1>7 DEF TakeRecheckNow, Disarm, Check, Fingerprint
<1>8. CASE TakeSettleTick
  BY <1>8 DEF TakeSettleTick, DatabaseUnchanged, Check, Fingerprint
<1>9. CASE TimerFires
  BY <1>9 DEF TimerFires
<1>10. CASE TickerFires
  BY <1>10 DEF TickerFires
<1>11. CASE AcceptCheckIn
  BY <1>11 DEF AcceptCheckIn, AskForCheck
<1>12. CASE IntervalPasses
  BY <1>12 DEF IntervalPasses
<1>13. CASE RunFinishes
  BY <1>13 DEF RunFinishes, AskForCheck
<1>14. CASE TransactionWrites
  BY <1>14 DEF TransactionWrites
<1>15. CASE PathUnitFires
  BY <1>15 DEF PathUnitFires, Signalled
<1>16. CASE ReloadByHand
  BY <1>16 DEF ReloadByHand, Signalled
<1>17. CASE ConnectionDrops
  BY <1>17 DEF ConnectionDrops
<1>18. CASE Reconnects
  BY <1>18 DEF Reconnects
<1>19. CASE UNCHANGED recheckVars
  BY <1>19 DEF recheckVars
<1>20. QED
  BY <1>1, <1>2, <1>3, <1>4, <1>5, <1>6, <1>7, <1>8, <1>9, <1>10, <1>11,
     <1>12, <1>13, <1>14, <1>15, <1>16, <1>17, <1>18, <1>19, <1>f DEF RecheckNext,
     MainLoop, Select

\* Every step keeps the inductive invariant.
LEMMA RecheckStep == RecheckInv /\ [RecheckNext]_recheckVars => RecheckInv'
<1>1. RecheckInv => FlagsOK /\ RecheckTypeOK
  BY DEF RecheckInv, RecheckTypeOK
<1>2. QED
  BY <1>1, FlagsStep, CountsStep, ChannelsStep, FingerprintStep, PendingStep
  DEF RecheckInv, RecheckTypeOK

\* The inductive invariant holds in every reachable state.
LEMMA RecheckInvariant == RecheckSpec => []RecheckInv
  BY RecheckStarts, RecheckStep, PTL DEF RecheckSpec

\* Every variable of the client's main loop keeps its type; in particular the
\* recheckNow channel never holds more than the one request it has room for.
THEOREM LoopTypeCorrect == RecheckSpec => []RecheckTypeOK
<1>1. RecheckInv => RecheckTypeOK
  BY DEF RecheckInv
<1>2. QED
  BY <1>1, RecheckInvariant, PTL

\* A settle timer that waits never has the tick of an earlier wait in its
\* channel (settleTimer.arm drains it).
THEOREM NoStaleTickSafety == RecheckSpec => []NoStaleTick
<1>1. RecheckInv => NoStaleTick
  BY DEF RecheckInv
<1>2. QED
  BY <1>1, RecheckInvariant, PTL

\* Where the loop would skip a check because the fingerprint is the one it
\* remembers, the last check has read this very database, or it ended before it
\* had read anything: the one way in which a skip is not safe.
THEOREM SkippingIsSafe == RecheckSpec => []NothingSkippedUnseen
<1>1. RecheckInv => NothingSkippedUnseen
  BY LoopAssumption DEF LoopAssumption, RecheckInv, RecheckTypeOK, FlagsOK,
     CountsOK, Never, FingerprintFirst,
     NothingSkippedUnseen
<1>2. QED
  BY <1>1, RecheckInvariant, PTL

\* While the loop waits and the connection has held, a change it has not looked
\* at is in the path unit, the signal channel or the settle timer.
THEOREM ChangesStayPending == RecheckSpec => []ChangesArePending
<1>1. RecheckInv => ChangesArePending
  BY DEF RecheckInv, PendingSinceFirstCheck, ChangesArePending
<1>2. QED
  BY <1>1, RecheckInvariant, PTL

\* A check-in the loop has promised stays in recheckNow until a check begins.
THEOREM PromisesStayQueued == RecheckSpec => []PromisesAreQueued
<1>1. RecheckInv => PromisesAreQueued
  BY DEF RecheckInv
<1>2. QED
  BY <1>1, RecheckInvariant, PTL

-----------------------------------------------------------------------------
(***************************************************************************)
(* The benchmarks the server asks for, for any hosts and however they      *)
(* answer.                                                                 *)
(***************************************************************************)

\* The scheduler has the host in hand: a request of its is under way, or a run.
InHand(h, running, sent) ==
  running[h].runs = "scheduler" \/ [host |-> h, by |-> "scheduler"] \in sent

OneInHand ==
  /\ \A g, h \in Hosts :
       InHand(g, host, calls) /\ InHand(h, host, calls) => g = h
  /\ ~ticked => \A h \in Hosts : ~InHand(h, host, calls)

ApartInv == BenchTypeOK /\ OneInHand

USE DEF InHand

HostStates ==
  [up : BOOLEAN, runs : {"nothing"} \cup Askers, since : 0 .. MinInterval]
RecordStates ==
  [known : BOOLEAN, seen : 0 .. SeenWithin + 1, bench : 0 .. None]

\* The bounds are numbers, and None is none of the ages.
LEMMA Bounds ==
  /\ RetryAfter \in Nat /\ MinInterval \in Nat /\ SeenWithin \in Nat
  /\ OldestAge \in Nat /\ None \in Nat /\ None = OldestAge + 1
  /\ MaxPresses \in Nat /\ MaxChanges \in Nat
<1>1. \A n \in {MaxAge, RetryAfter, SeenWithin, MinInterval} : n \in Nat
  BY BenchmarksAssumption
<1>2. RetryAfter \in Nat /\ MinInterval \in Nat /\ SeenWithin \in Nat
  BY <1>1
<1> QED
  BY <1>2, BenchmarksAssumption DEF None

\* One or two fields of an entry change.
LEMMA RunsChange ==
  ASSUME NEW f \in [Hosts -> HostStates], NEW h \in Hosts,
         NEW v \in {"nothing"} \cup Askers
  PROVE  [f EXCEPT ![h].runs = v] =
           [f EXCEPT ![h] = [up |-> f[h].up, runs |-> v, since |-> f[h].since]]
<1>1. [f EXCEPT ![h].runs = v] = [f EXCEPT ![h] = [f[h] EXCEPT !.runs = v]]
  OBVIOUS
<1>2. [f[h] EXCEPT !.runs = v] =
        [up |-> f[h].up, runs |-> v, since |-> f[h].since]
  BY DEF HostStates
<1> QED
  BY <1>1, <1>2

\* Two fields of a host set at once; of its record, likewise below.
LEMMA RunsAndSinceChange ==
  ASSUME NEW f \in [Hosts -> HostStates], NEW h \in Hosts,
         NEW v \in {"nothing"} \cup Askers
  PROVE  [f EXCEPT ![h].runs = v, ![h].since = 0] =
           [f EXCEPT ![h] = [up |-> f[h].up, runs |-> v, since |-> 0]]
<1> DEFINE e == [up |-> f[h].up, runs |-> v, since |-> f[h].since]
           k == [f EXCEPT ![h].runs = v]
<1>1. k = [f EXCEPT ![h] = e]
  <2>1. k = [f EXCEPT ![h] = [f[h] EXCEPT !.runs = v]]
    OBVIOUS
  <2>2. [f[h] EXCEPT !.runs = v] = e
    BY DEF HostStates
  <2> HIDE DEF e, k
  <2> QED
    BY <2>1, <2>2
<1>2. [f EXCEPT ![h].runs = v, ![h].since = 0] = [k EXCEPT ![h].since = 0]
  BY Zenon
<1> HIDE DEF k
<1>3. [k EXCEPT ![h].since = 0] = [k EXCEPT ![h] = [k[h] EXCEPT !.since = 0]]
  BY Zenon
<1>4. k[h] = e
  BY <1>1 DEF HostStates
<1>5. [e EXCEPT !.since = 0] = [up |-> f[h].up, runs |-> v, since |-> 0]
  OBVIOUS
<1> HIDE DEF e
<1> QED
  BY <1>1, <1>2, <1>3, <1>4, <1>5

\* A result dates the benchmark and the host.
LEMMA BenchAndSeenChange ==
  ASSUME NEW f \in [Hosts -> RecordStates], NEW h \in Hosts
  PROVE  [f EXCEPT ![h].bench = 0, ![h].seen = 0] =
           [f EXCEPT ![h] = [known |-> f[h].known, seen |-> 0, bench |-> 0]]
<1> DEFINE e == [known |-> f[h].known, seen |-> f[h].seen, bench |-> 0]
           k == [f EXCEPT ![h].bench = 0]
<1>1. k = [f EXCEPT ![h] = e]
  <2>1. k = [f EXCEPT ![h] = [f[h] EXCEPT !.bench = 0]]
    OBVIOUS
  <2>2. [f[h] EXCEPT !.bench = 0] = e
    BY DEF RecordStates
  <2> HIDE DEF e, k
  <2> QED
    BY <2>1, <2>2
<1>2. [f EXCEPT ![h].bench = 0, ![h].seen = 0] = [k EXCEPT ![h].seen = 0]
  OBVIOUS
<1> HIDE DEF k
<1>3. [k EXCEPT ![h].seen = 0] = [k EXCEPT ![h] = [k[h] EXCEPT !.seen = 0]]
  OBVIOUS
<1>4. k[h] = e
  BY <1>1 DEF RecordStates
<1>5. [e EXCEPT !.seen = 0] = [known |-> f[h].known, seen |-> 0, bench |-> 0]
  OBVIOUS
<1> HIDE DEF e
<1> QED
  BY <1>1, <1>2, <1>3, <1>4, <1>5

\* A check-in makes the host known and dates it.
LEMMA KnownAndSeenChange ==
  ASSUME NEW f \in [Hosts -> RecordStates], NEW h \in Hosts, NEW b \in BOOLEAN
  PROVE  [f EXCEPT ![h].known = b, ![h].seen = 0] =
           [f EXCEPT ![h] = [known |-> b, seen |-> 0, bench |-> f[h].bench]]
<1> DEFINE e == [known |-> b, seen |-> f[h].seen, bench |-> f[h].bench]
           k == [f EXCEPT ![h].known = b]
<1>1. k = [f EXCEPT ![h] = e]
  <2>1. k = [f EXCEPT ![h] = [f[h] EXCEPT !.known = b]]
    OBVIOUS
  <2>2. [f[h] EXCEPT !.known = b] = e
    BY DEF RecordStates
  <2> HIDE DEF e, k
  <2> QED
    BY <2>1, <2>2
<1>2. [f EXCEPT ![h].known = b, ![h].seen = 0] = [k EXCEPT ![h].seen = 0]
  OBVIOUS
<1> HIDE DEF k
<1>3. [k EXCEPT ![h].seen = 0] = [k EXCEPT ![h] = [k[h] EXCEPT !.seen = 0]]
  OBVIOUS
<1>4. k[h] = e
  BY <1>1 DEF RecordStates
<1>5. [e EXCEPT !.seen = 0] = [known |-> b, seen |-> 0, bench |-> f[h].bench]
  OBVIOUS
<1> HIDE DEF e
<1> QED
  BY <1>1, <1>2, <1>3, <1>4, <1>5

\* Ages stop at the oldest told apart.
LEMMA OlderIsBounded ==
  ASSUME NEW most \in Nat, NEW age \in 0 .. most
  PROVE  Older(age, most) \in 0 .. most
BY DEF Older

\* Every step keeps every variable to its type.
LEMMA BenchTypes == ASSUME BenchTypeOK, [BenchNext]_benchVars PROVE BenchTypeOK'
<1> USE DEF HostStates, RecordStates
<1>0. /\ record \in [Hosts -> RecordStates] /\ host \in [Hosts -> HostStates]
      /\ asked \in [Hosts -> 0 .. RetryAfter]
      /\ calls \subseteq [host : Hosts, by : Askers]
      /\ "scheduler" \in Askers /\ "button" \in Askers
  BY DEF BenchTypeOK, Askers
<1>1. ASSUME Tick PROVE BenchTypeOK'
  <2> DEFINE due == {h \in Hosts : IsDue(h)}
             next == {g \in due : \A h \in due : ComesBefore(g, h)}
  <2>1. next \subseteq Hosts
    OBVIOUS
  <2>2. /\ calls' = calls \cup {[host |-> h, by |-> "scheduler"] : h \in next}
        /\ asked' = [h \in Hosts |-> IF h \in next THEN 0 ELSE asked[h]]
        /\ ticked' = TRUE /\ UNCHANGED <<record, host, presses, changes>>
    BY <1>1 DEF Tick
  <2> HIDE DEF next
  <2>3. calls' \subseteq [host : Hosts, by : Askers]
    BY <1>0, <2>1, <2>2
  <2>4. asked' \in [Hosts -> 0 .. RetryAfter]
    BY <1>0, <2>2, Bounds
  <2> QED
    BY <2>2, <2>3, <2>4 DEF BenchTypeOK
<1>2. ASSUME TimePasses PROVE BenchTypeOK'
  <2>1. asked' \in [Hosts -> 0 .. RetryAfter]
    BY <1>0, <1>2, OlderIsBounded, Bounds DEF TimePasses
  <2>2. host' \in [Hosts -> HostStates]
    <3>1. \A h \in Hosts :
            [host[h] EXCEPT !.since = Older(host[h].since, MinInterval)]
              \in HostStates
      BY <1>0, OlderIsBounded, Bounds
    <3> QED
      BY <1>2, <3>1 DEF TimePasses
  <2>3. record' \in [Hosts -> RecordStates]
    <3> DEFINE S(h) == IF record[h].known
                       THEN Older(record[h].seen, SeenWithin + 1)
                       ELSE record[h].seen
               B(h) == IF record[h].bench = None THEN record[h].bench
                       ELSE Older(record[h].bench, OldestAge)
    <3>1. record' = [h \in Hosts |->
                       [record[h] EXCEPT !.seen = S(h), !.bench = B(h)]]
      BY <1>2 DEF TimePasses
    <3>2. \A h \in Hosts : S(h) \in 0 .. SeenWithin + 1
      <4>1. SeenWithin + 1 \in Nat
        BY Bounds
      <4> QED
        BY <1>0, <4>1, OlderIsBounded
    <3>3. \A h \in Hosts : B(h) \in 0 .. None
      BY <1>0, Bounds DEF Older
    <3> HIDE DEF S, B
    <3>4. \A h \in Hosts :
            [record[h] EXCEPT !.seen = S(h), !.bench = B(h)] \in RecordStates
      BY <1>0, <3>2, <3>3
    <3> QED
      BY <3>1, <3>4
  <2> QED
    BY <1>2, <2>1, <2>2, <2>3 DEF TimePasses, BenchTypeOK
<1>3. ASSUME ServerRestarts PROVE BenchTypeOK'
  BY <1>3, Bounds DEF ServerRestarts, Change, BenchTypeOK
<1>4. ASSUME NEW call \in calls, Accept(call) PROVE BenchTypeOK'
  <2>1. call.host \in Hosts /\ call.by \in Askers
    BY <1>0
  <2> DEFINE g == call.host
             v == call.by
  <2>2. [host EXCEPT ![g].runs = v, ![g].since = 0] =
          [host EXCEPT ![g] = [up |-> host[g].up, runs |-> v, since |-> 0]]
    <3>1. g \in Hosts /\ v \in {"nothing"} \cup Askers
      BY <2>1
    <3> HIDE DEF g, v, HostStates
    <3> QED
      BY <1>0, <3>1, RunsAndSinceChange
  <2>3. host' = [host EXCEPT ![call.host] =
                   [up |-> host[call.host].up, runs |-> call.by, since |-> 0]]
    BY <1>4, <2>2 DEF Accept
  <2>4. host' \in [Hosts -> HostStates]
    BY <1>0, <2>1, <2>3, Bounds
  <2> QED
    BY <1>4, <2>4 DEF Accept, BenchTypeOK
<1>5. ASSUME NEW call \in calls, Refuse(call) PROVE BenchTypeOK'
  BY <1>5 DEF Refuse, BenchTypeOK
<1>12. ASSUME NEW call \in calls, TimesOut(call) PROVE BenchTypeOK'
  <2>1. call.host \in Hosts /\ "late" \in Askers
    BY <1>0 DEF Askers
  <2>2. calls' \subseteq [host : Hosts, by : Askers]
    BY <1>0, <1>12, <2>1 DEF TimesOut
  <2> QED
    BY <1>12, <2>2, Bounds DEF TimesOut, Change, BenchTypeOK
<1>6. ASSUME NEW h \in Hosts, Press(h) PROVE BenchTypeOK'
  BY <1>0, <1>6, Bounds DEF Press, BenchTypeOK
<1>7. ASSUME NEW h \in Hosts, RunEnds(h) PROVE BenchTypeOK'
  <2>1. host' = [host EXCEPT ![h] =
                   [up |-> host[h].up, runs |-> "nothing", since |-> host[h].since]]
    BY <1>0, <1>7, RunsChange DEF RunEnds
  <2>2. host' \in [Hosts -> HostStates]
    BY <1>0, <2>1
  <2>3. record' \in [Hosts -> RecordStates]
    <3>1. CASE record[h].known
      <4>1. record' = [record EXCEPT ![h] =
                         [known |-> record[h].known, seen |-> 0, bench |-> 0]]
        BY <1>0, <1>7, <3>1, BenchAndSeenChange DEF RunEnds
      <4> QED
        BY <1>0, <4>1, Bounds
    <3> QED
      BY <1>0, <1>7, <3>1 DEF RunEnds
  <2> QED
    BY <1>7, <2>2, <2>3 DEF RunEnds, BenchTypeOK
<1>8. ASSUME NEW h \in Hosts, CheckIn(h) PROVE BenchTypeOK'
  <2>1. record' = [record EXCEPT ![h] =
                     [known |-> TRUE, seen |-> 0, bench |-> record[h].bench]]
    BY <1>0, <1>8, KnownAndSeenChange DEF CheckIn
  <2>2. record' \in [Hosts -> RecordStates]
    BY <1>0, <2>1, Bounds
  <2> QED
    BY <1>8, <2>2 DEF CheckIn, BenchTypeOK
<1>9. ASSUME NEW h \in Hosts, ClientChanges(h) PROVE BenchTypeOK'
  <2>1. host' \in [Hosts -> HostStates]
    BY <1>0, <1>9, Bounds DEF ClientChanges
  <2> QED
    BY <1>9, <2>1, Bounds DEF ClientChanges, Change, BenchTypeOK
<1>10. ASSUME NEW h \in Hosts, DeleteSystem(h) PROVE BenchTypeOK'
  BY <1>0, <1>10, Bounds DEF DeleteSystem, Change, BenchTypeOK, Unknown
<1>11. ASSUME NEW h \in Hosts, ResultLost(h) PROVE BenchTypeOK'
  <2>1. host' = [host EXCEPT ![h] =
                   [up |-> host[h].up, runs |-> "nothing", since |-> host[h].since]]
    BY <1>0, <1>11, RunsChange DEF ResultLost
  <2>2. host' \in [Hosts -> HostStates]
    BY <1>0, <2>1
  <2> QED
    BY <1>11, <2>2, Bounds DEF ResultLost, Change, BenchTypeOK
<1> QED
  BY <1>1, <1>2, <1>3, <1>4, <1>5, <1>6, <1>7, <1>8, <1>9, <1>10, <1>11, <1>12
  DEF BenchNext, benchVars, BenchTypeOK

\* At most one host comes before all others that are due.
LEMMA OneComesFirst ==
  ASSUME BenchTypeOK, NEW due \in SUBSET Hosts, NEW g \in due, NEW h \in due,
         ComesBefore(g, h), ComesBefore(h, g)
  PROVE  g = h
<1>1. g \in Int /\ h \in Int
  BY DEF Hosts
<1>2. record[g].bench \in Int /\ record[h].bench \in Int
  BY BenchmarksAssumption DEF BenchTypeOK, None
<1> QED
  BY <1>1, <1>2 DEF ComesBefore

\* Every step keeps the scheduler's requests apart: it asks no host while one that
\* it asked is in hand.
LEMMA ApartStep == ASSUME BenchTypeOK, OneInHand, [BenchNext]_benchVars PROVE OneInHand'
<1>1. ASSUME Tick PROVE OneInHand'
  <2> DEFINE due == {h \in Hosts : IsDue(h)}
             next == {g \in due : \A h \in due : ComesBefore(g, h)}
  <2>1. /\ ~ticked /\ ticked' = TRUE /\ UNCHANGED host
        /\ calls' = calls \cup {[host |-> h, by |-> "scheduler"] : h \in next}
    BY <1>1 DEF Tick
  <2>2. \A g, h \in next : g = h
    BY OneComesFirst
  <2>3. \A h \in Hosts : InHand(h, host, calls)' => h \in next
    <3> HIDE DEF next
    <3> QED
      BY <2>1 DEF OneInHand
  <2> HIDE DEF next
  <2> QED
    BY <2>1, <2>2, <2>3 DEF OneInHand
<1>2. ASSUME TimePasses PROVE OneInHand'
  <2>1. /\ \A h \in Hosts : host'[h].runs = "nothing"
        /\ \A h \in Hosts : [host |-> h, by |-> "scheduler"] \notin calls'
    BY <1>2 DEF TimePasses, BenchTypeOK
  <2> QED
    BY <1>2, <2>1 DEF TimePasses, OneInHand
<1>3. ASSUME ServerRestarts PROVE OneInHand'
  BY <1>3 DEF ServerRestarts, OneInHand
<1>4. ASSUME NEW call \in calls, Accept(call) PROVE OneInHand'
  <2>1. call.host \in Hosts /\ call = [host |-> call.host, by |-> call.by]
    BY DEF BenchTypeOK
  <2>2. \A h \in Hosts : InHand(h, host, calls)' => InHand(h, host, calls)
    BY <1>4, <2>1 DEF Accept, BenchTypeOK
  <2> QED
    BY <1>4, <2>2 DEF Accept, OneInHand
<1>5. ASSUME NEW call \in calls, Refuse(call) PROVE OneInHand'
  BY <1>5 DEF Refuse, OneInHand
<1>12. ASSUME NEW call \in calls, TimesOut(call) PROVE OneInHand'
  <2>1. \A h \in Hosts : InHand(h, host, calls)' => InHand(h, host, calls)
    BY <1>12 DEF TimesOut
  <2> QED
    BY <1>12, <2>1 DEF TimesOut, OneInHand
<1>6. ASSUME NEW h \in Hosts, Press(h) PROVE OneInHand'
  BY <1>6 DEF Press, OneInHand
<1>7. ASSUME NEW h \in Hosts, RunEnds(h) PROVE OneInHand'
  <2>1. \A g \in Hosts : InHand(g, host, calls)' => InHand(g, host, calls)
    BY <1>7 DEF RunEnds, BenchTypeOK
  <2> QED
    BY <1>7, <2>1 DEF RunEnds, OneInHand
<1>8. ASSUME NEW h \in Hosts, CheckIn(h) PROVE OneInHand'
  BY <1>8 DEF CheckIn, OneInHand
<1>9. ASSUME NEW h \in Hosts, ClientChanges(h) PROVE OneInHand'
  <2>1. \A g \in Hosts : InHand(g, host, calls)' => InHand(g, host, calls)
    BY <1>9 DEF ClientChanges, BenchTypeOK
  <2> QED
    BY <1>9, <2>1 DEF ClientChanges, OneInHand
<1>10. ASSUME NEW h \in Hosts, DeleteSystem(h) PROVE OneInHand'
  BY <1>10 DEF DeleteSystem, OneInHand
<1>11. ASSUME NEW h \in Hosts, ResultLost(h) PROVE OneInHand'
  <2>1. \A g \in Hosts : InHand(g, host, calls)' => InHand(g, host, calls)
    BY <1>11 DEF ResultLost, BenchTypeOK
  <2> QED
    BY <1>11, <2>1 DEF ResultLost, OneInHand
<1> QED
  BY <1>1, <1>2, <1>3, <1>4, <1>5, <1>6, <1>7, <1>8, <1>9, <1>10, <1>11, <1>12
  DEF BenchNext, benchVars, OneInHand

\* Requests kept apart are at most one benchmark at a time.
LEMMA AtMostOne == ASSUME ApartInv PROVE ScheduledApart
<1> DEFINE R == Running({"scheduler"})
<1>1. \A g, h \in R : g = h
  BY DEF ApartInv, OneInHand, Running
<1>2. CASE R = {}
  BY <1>2, FS_EmptySet DEF ScheduledApart
<1>3. CASE R # {}
  <2>1. PICK h \in R : TRUE
    BY <1>3
  <2>2. R = {h}
    BY <1>1, <2>1
  <2>3. Cardinality({h}) = 1
    BY FS_Singleton
  <2> QED
    BY <2>2, <2>3 DEF ScheduledApart
<1> QED
  BY <1>2, <1>3

\* The inductive invariant of the benchmarks, for any hosts, intervals and
\* presses.
THEOREM BenchmarksInvariant == BenchSpec => []ApartInv
<1>1. BenchInit => ApartInv
  BY Bounds
  DEF BenchInit, ApartInv, BenchTypeOK, OneInHand, Unknown, None, Askers
<1>2. ApartInv /\ [BenchNext]_benchVars => ApartInv'
  BY BenchTypes, ApartStep DEF ApartInv
<1> QED
  BY <1>1, <1>2, PTL DEF BenchSpec

\* "one host at a time": of the benchmarks the scheduler asked for, no two run at
\* the same time.
THEOREM OneRunOfTheScheduler == BenchSpec => []ScheduledApart
<1>1. ApartInv => ScheduledApart
  BY AtMostOne
<1> QED
  BY BenchmarksInvariant, <1>1, PTL

-----------------------------------------------------------------------------
(***************************************************************************)
(* What the scheduler read, and what has become of it when it is answered. *)
(***************************************************************************)
Spared(h) ==
  record[h].bench >= MaxAge \/ host[h].since < MinInterval \/ ~host[h].up

\* A host runs what it accepted just now; one that is down went down; and one
\* that was asked has no result yet, or will refuse, unless it lost its memory.
FreshInv ==
  \A h \in Hosts :
    /\ host[h].runs # "nothing" => host[h].since = 0
    /\ ~host[h].up => changes >= 1
    /\ changes <= 1 /\ Asks(h) \in calls => Spared(h)

\* The fields of what is kept of a host.
LEMMA BenchFields ==
  ASSUME BenchTypeOK, NEW h \in Hosts
  PROVE  /\ host[h] \in HostStates /\ record[h] \in RecordStates
         /\ host[h].since \in Nat /\ record[h].bench \in Nat /\ changes \in Nat
         /\ MinInterval \in Nat \ {0} /\ MaxAge \in Nat /\ None >= MaxAge
<1>1. host[h] \in HostStates /\ record[h] \in RecordStates
  BY DEF BenchTypeOK, HostStates, RecordStates
<1>2. /\ MinInterval \in Nat \ {0} /\ MaxAge \in Nat \ {0}
      /\ OldestAge \in Nat /\ OldestAge >= MaxAge
  BY BenchmarksAssumption
<1>3. None >= MaxAge
  BY <1>2 DEF None
<1>4. host[h].since \in 0 .. MinInterval /\ record[h].bench \in 0 .. None
      /\ changes \in 0 .. MaxChanges
  BY <1>1 DEF HostStates, RecordStates, BenchTypeOK
<1> QED
  BY <1>1, <1>2, <1>3, <1>4

\* Every step keeps to it.
LEMMA FreshStep ==
  ASSUME BenchTypeOK, FreshInv, [BenchNext]_benchVars PROVE FreshInv'
<1>0. /\ record \in [Hosts -> RecordStates] /\ host \in [Hosts -> HostStates]
      /\ calls \subseteq [host : Hosts, by : Askers] /\ changes \in Nat
  BY DEF BenchTypeOK, HostStates, RecordStates
<1>1. ASSUME Tick PROVE FreshInv'
  <2> DEFINE due == {h \in Hosts : IsDue(h)}
             next == {g \in due : \A h \in due : ComesBefore(g, h)}
  <2>1. /\ UNCHANGED <<record, host, changes>>
        /\ calls' = calls \cup {[host |-> h, by |-> "scheduler"] : h \in next}
    BY <1>1 DEF Tick
  <2>2. \A h \in next : record[h].bench >= MaxAge
    BY DEF IsDue
  <2> HIDE DEF next
  <2>3. ASSUME NEW h \in Hosts, Asks(h) \in calls' PROVE Asks(h) \in calls \/ h \in next
    BY <2>1, <2>3 DEF Asks
  <2>4. QED
    BY <2>1, <2>2, <2>3 DEF FreshInv, Spared, Asks
<1>2. ASSUME TimePasses PROVE FreshInv'
  <2>1. /\ \A h \in Hosts : host'[h].runs = "nothing" /\ host'[h].up = host[h].up
        /\ \A h \in Hosts : Asks(h) \notin calls'
        /\ changes' = changes
    BY <1>0, <1>2 DEF TimePasses, HostStates, Asks
  <2>2. QED
    BY <2>1 DEF FreshInv
<1>3. ASSUME UNCHANGED host, \A h \in Hosts : Asks(h) \in calls' => Asks(h) \in calls,
             changes' = changes \/ changes' = changes + 1,
             \A h \in Hosts : \/ record'[h].bench = record[h].bench
                              \/ record'[h].bench >= MaxAge
      PROVE  FreshInv'
  <2>1. \A h \in Hosts : Asks(h) \in calls' => Asks(h) \in calls
    BY <1>3
  <2>2. ASSUME NEW h \in Hosts
        PROVE  /\ host'[h].runs # "nothing" => host'[h].since = 0
               /\ ~host'[h].up => changes' >= 1
               /\ changes' <= 1 /\ Asks(h) \in calls' => Spared(h)'
    <3>1. /\ host[h].runs # "nothing" => host[h].since = 0
          /\ ~host[h].up => changes >= 1
          /\ changes <= 1 /\ Asks(h) \in calls => Spared(h)
      BY DEF FreshInv
    <3>2. Spared(h) => Spared(h)'
      BY <1>3 DEF Spared
    <3>3. changes' <= 1 => changes <= 1
      BY <1>0, <1>3
    <3>4. ~host'[h].up => changes' >= 1
      BY <1>0, <1>3, <3>1
    <3>5. QED
      BY <1>3, <2>1, <3>1, <3>2, <3>3, <3>4
  <2>3. QED
    BY <2>2 DEF FreshInv, Asks
<1>4. ASSUME NEW call \in calls, Accept(call) PROVE FreshInv'
  <2> DEFINE g == call.host
             v == call.by
             e == [up |-> host[g].up, runs |-> v, since |-> 0]
  <2>1. g \in Hosts /\ v \in {"nothing"} \cup Askers
    BY <1>0
  <2>2. [host EXCEPT ![g].runs = v, ![g].since = 0] = [host EXCEPT ![g] = e]
    <3> HIDE DEF g, v
    <3> QED
      BY <1>0, <2>1, RunsAndSinceChange
  <2>3. host' = [host EXCEPT ![g] = e]
    BY <1>4, <2>2 DEF Accept
  <2>4. calls' \subseteq calls /\ UNCHANGED <<record, changes>>
    BY <1>4 DEF Accept
  <2> DEFINE up == host[g].up
  <2>5. e.up = up /\ e.since = 0
    OBVIOUS
  <2> HIDE DEF g, v, e
  <2>6. \A h \in Hosts : host'[h] = IF h = g THEN e ELSE host[h]
    BY <1>0, <2>1, <2>3
  <2>7. ASSUME NEW h \in Hosts
        PROVE  /\ host'[h].runs # "nothing" => host'[h].since = 0
               /\ ~host'[h].up => changes' >= 1
               /\ changes' <= 1 /\ Asks(h) \in calls' => Spared(h)'
    <3>1. CASE h = g
      BY <2>4, <2>5, <2>6, <3>1, BenchFields DEF FreshInv, Spared
    <3>2. CASE h # g
      BY <2>4, <2>6, <3>2 DEF FreshInv, Spared
    <3>3. QED
      BY <3>1, <3>2
  <2>8. QED
    BY <2>7 DEF FreshInv, Asks
<1>5. ASSUME NEW call \in calls, Refuse(call) PROVE FreshInv'
  BY <1>3, <1>5 DEF Refuse
<1>17. ASSUME NEW call \in calls, TimesOut(call) PROVE FreshInv'
  <2>1. \A h \in Hosts : Asks(h) \in calls' => Asks(h) \in calls
    BY <1>17 DEF TimesOut, Asks
  <2> QED
    BY <1>3, <1>17, <2>1 DEF TimesOut, Change
<1>6. ASSUME NEW g \in Hosts, Press(g) PROVE FreshInv'
  <2>1. UNCHANGED <<record, host, changes>>
    BY <1>6 DEF Press
  <2>2. ASSUME NEW h \in Hosts, Asks(h) \in calls' PROVE Asks(h) \in calls
    BY <1>6, <2>2 DEF Press, Asks
  <2>3. QED
    BY <2>1, <2>2 DEF FreshInv, Spared, Asks
<1>7. ASSUME NEW g \in Hosts, UNCHANGED calls, changes' = changes \/ changes' = changes + 1,
             host' = [host EXCEPT ![g].runs = "nothing"], host[g].runs # "nothing",
             \A h \in Hosts : h # g => record'[h] = record[h]
      PROVE  FreshInv'
  <2> DEFINE e == [up |-> host[g].up, runs |-> "nothing", since |-> host[g].since]
  <2>1. host' = [host EXCEPT ![g] = e]
    <3>1. "nothing" \in {"nothing"} \cup Askers
      OBVIOUS
    <3>2. [host EXCEPT ![g].runs = "nothing"] = [host EXCEPT ![g] = e]
      BY <1>0, <3>1, RunsChange
    <3>3. QED
      BY <1>7, <3>2
  <2>2. e.up = host[g].up /\ e.runs = "nothing" /\ e.since = host[g].since
    OBVIOUS
  <2> HIDE DEF e
  <2>3. \A h \in Hosts : host'[h] = IF h = g THEN e ELSE host[h]
    BY <1>0, <2>1
  <2>4. host[g].since < MinInterval
    BY <1>7, BenchFields DEF FreshInv
  <2>5. ASSUME NEW h \in Hosts
        PROVE  /\ host'[h].runs # "nothing" => host'[h].since = 0
               /\ ~host'[h].up => changes' >= 1
               /\ changes' <= 1 /\ Asks(h) \in calls' => Spared(h)'
    <3>1. CASE h = g
      BY <1>0, <1>7, <2>2, <2>3, <2>4, <3>1 DEF FreshInv, Spared
    <3>2. CASE h # g
      BY <1>0, <1>7, <2>3, <3>2 DEF FreshInv, Spared
    <3>3. QED
      BY <3>1, <3>2
  <2>6. QED
    BY <2>5 DEF FreshInv, Asks
<1>8. ASSUME NEW g \in Hosts, RunEnds(g) PROVE FreshInv'
  <2>1. \A h \in Hosts : h # g => record'[h] = record[h]
    BY <1>0, <1>8 DEF RunEnds
  <2>2. QED
    BY <1>7, <1>8, <2>1 DEF RunEnds
<1>9. ASSUME NEW g \in Hosts, ResultLost(g) PROVE FreshInv'
  BY <1>7, <1>9 DEF ResultLost, Change
<1>11. ASSUME NEW g \in Hosts, CheckIn(g) PROVE FreshInv'
  <2>1. record' = [record EXCEPT ![g] =
                     [known |-> TRUE, seen |-> 0, bench |-> record[g].bench]]
    BY <1>0, <1>11, KnownAndSeenChange DEF CheckIn
  <2>2. \A h \in Hosts : record'[h].bench = record[h].bench
    BY <1>0, <2>1
  <2>3. QED
    BY <1>3, <1>11, <2>2 DEF CheckIn
<1>12. ASSUME NEW g \in Hosts, DeleteSystem(g) PROVE FreshInv'
  <2>1. Unknown.bench >= MaxAge
    BY BenchFields DEF Unknown
  <2>2. \A h \in Hosts : record'[h] = IF h = g THEN Unknown ELSE record[h]
    BY <1>0, <1>12 DEF DeleteSystem
  <2>3. QED
    BY <1>3, <1>12, <2>1, <2>2 DEF DeleteSystem, Change
<1>13. ASSUME NEW g \in Hosts, ClientChanges(g) PROVE FreshInv'
  <2> DEFINE e == [up |-> ~host[g].up, runs |-> "nothing", since |-> MinInterval]
  <2>1. \A h \in Hosts : host'[h] = IF h = g THEN e ELSE host[h]
    BY <1>0, <1>13 DEF ClientChanges
  <2>2. e.up = (~host[g].up) /\ e.runs = "nothing"
    OBVIOUS
  <2> HIDE DEF e
  <2>3. UNCHANGED <<record, calls>> /\ changes' = changes + 1
    BY <1>13 DEF ClientChanges, Change
  <2>4. ASSUME NEW h \in Hosts
        PROVE  /\ host'[h].runs # "nothing" => host'[h].since = 0
               /\ ~host'[h].up => changes' >= 1
               /\ changes' <= 1 /\ Asks(h) \in calls' => Spared(h)'
    <3>1. CASE h = g
      <4>1. host'[h].runs = "nothing" /\ changes' >= 1
        BY <1>0, <2>1, <2>2, <2>3, <3>1
      <4>2. host[g].up => ~host'[h].up
        BY <2>1, <2>2, <3>1
      <4>3. ~host[g].up => ~(changes' <= 1)
        BY <1>0, <2>3 DEF FreshInv
      <4>4. QED
        BY <4>1, <4>2, <4>3 DEF Spared
    <3>2. CASE h # g
      BY <1>0, <2>1, <2>3, <3>2 DEF FreshInv, Spared
    <3>3. QED
      BY <3>1, <3>2
  <2>5. QED
    BY <2>4 DEF FreshInv, Asks
<1>14. ASSUME ServerRestarts PROVE FreshInv'
  BY <1>3, <1>14 DEF ServerRestarts, Change
<1>16. CASE UNCHANGED benchVars
  BY <1>3, <1>16 DEF benchVars
<1>15. QED
  BY <1>1, <1>2, <1>4, <1>5, <1>6, <1>8, <1>9, <1>11, <1>12, <1>13, <1>14, <1>16, <1>17
  DEF BenchNext

\* The "shortest gap between two accepted runs": the scheduler picks a host by a
\* record it read, and the host answers later.  Whatever button, result or restart
\* of the server comes in between, no host is measured over a result that is
\* fresh; two changes at least, a client that goes down and comes up again, are
\* needed for that.
THEOREM FreshResultsAreKept == BenchSpec => FreshAreLeftAlone
<1>1. BenchInit => FreshInv
  <2> SUFFICES ASSUME BenchInit, NEW h \in Hosts
               PROVE  host[h].runs = "nothing" /\ host[h].up /\ calls = {}
    BY DEF FreshInv
  <2>1. QED
    BY DEF BenchInit
<1>2. ApartInv => BenchTypeOK
  BY DEF ApartInv
<1>3. BenchTypeOK /\ FreshInv /\ [BenchNext]_benchVars => FreshInv'
  BY FreshStep
<1>4. BenchTypeOK /\ FreshInv /\ [BenchNext]_benchVars =>
        [changes <= 1 =>
           \A h \in Hosts :
             host[h].runs = "nothing" /\ host'[h].runs = "scheduler"
             => record[h].bench >= MaxAge]_benchVars
  <2> SUFFICES ASSUME BenchTypeOK, FreshInv, [BenchNext]_benchVars, changes <= 1,
                      NEW h \in Hosts, host[h].runs = "nothing",
                      host'[h].runs = "scheduler"
               PROVE  record[h].bench >= MaxAge
    OBVIOUS
  <2>0. host \in [Hosts -> HostStates] /\ calls \subseteq [host : Hosts, by : Askers]
    BY DEF BenchTypeOK, HostStates
  <2>1. ASSUME NEW call \in calls, Accept(call) PROVE record[h].bench >= MaxAge
    <3>1. call.host \in Hosts /\ call = [host |-> call.host, by |-> call.by]
      BY <2>0
    <3>2. host' = [host EXCEPT ![call.host] =
                     [up |-> host[call.host].up, runs |-> call.by, since |-> 0]]
      <4>1. call.by \in {"nothing"} \cup Askers
        BY <2>0
      <4>2. QED
        BY <2>0, <2>1, <3>1, <4>1, RunsAndSinceChange DEF Accept
    <3>3. call.host = h /\ call.by = "scheduler"
      BY <2>0, <3>1, <3>2
    <3>4. Asks(h) \in calls
      BY <3>1, <3>3 DEF Asks
    <3>5. host[h].up /\ ~(host[h].since < MinInterval)
      BY <2>1, <3>3, BenchFields DEF Accept, MayAccept
    <3>6. QED
      BY <3>4, <3>5 DEF FreshInv, Spared
  <2>2. ASSUME host'[h].runs \in {host[h].runs, "nothing"} PROVE FALSE
    BY <2>2
  <2>3. Tick \/ ServerRestarts => UNCHANGED host
    BY DEF Tick, ServerRestarts
  <2>4. TimePasses => host'[h].runs = host[h].runs
    <3>1. TimePasses =>
            host'[h] = [host[h] EXCEPT !.since = Older(@, MinInterval)]
      BY DEF TimePasses
    <3>2. \A age : [host[h] EXCEPT !.since = age].runs = host[h].runs
      BY <2>0 DEF HostStates
    <3> QED
      BY <3>1, <3>2
  <2>5. ASSUME NEW g \in Hosts, Press(g) \/ CheckIn(g) \/ DeleteSystem(g)
        PROVE  UNCHANGED host
    BY <2>5 DEF Press, CheckIn, DeleteSystem
  <2>6. ASSUME NEW call \in calls, Refuse(call) \/ TimesOut(call) PROVE UNCHANGED host
    BY <2>6 DEF Refuse, TimesOut
  <2>7. ASSUME NEW g \in Hosts, RunEnds(g) \/ ResultLost(g) \/ ClientChanges(g)
        PROVE  host'[h].runs \in {host[h].runs, "nothing"}
    <3>1. CASE RunEnds(g) \/ ResultLost(g)
      <4>1. host' = [host EXCEPT ![g] =
               [up |-> host[g].up, runs |-> "nothing", since |-> host[g].since]]
        BY <2>0, <3>1, RunsChange DEF RunEnds, ResultLost
      <4> DEFINE e == [up |-> host[g].up, runs |-> "nothing", since |-> host[g].since]
      <4>2. e.runs = "nothing"
        OBVIOUS
      <4> HIDE DEF e
      <4>3. host'[h] = IF h = g THEN e ELSE host[h]
        BY <2>0, <4>1
      <4>4. QED
        BY <4>2, <4>3
    <3>2. CASE ClientChanges(g)
      BY <2>0, <3>2 DEF ClientChanges
    <3>3. QED
      BY <2>7, <3>1, <3>2
  <2>8. UNCHANGED benchVars => UNCHANGED host
    BY DEF benchVars
  <2>9. QED
    BY <2>1, <2>2, <2>3, <2>4, <2>5, <2>6, <2>7, <2>8 DEF BenchNext
<1>5. QED
  BY <1>1, <1>2, <1>3, <1>4, BenchmarksInvariant, PTL DEF BenchSpec, FreshAreLeftAlone
==============================================================================
