-------------------------- MODULE HostCommandsProofs --------------------------
(***************************************************************************)
(* Proofs about HostCommands, for any sets of commands and any bounds.     *)
(***************************************************************************)
EXTENDS HostCommands, TLAPS

\* Every variable has its type, whatever the commands and the crashes.
LEMMA TypeCorrect == Spec => []TypeOK
<1>1. Init => TypeOK
  <2> SUFFICES ASSUME Init PROVE TypeOK
    OBVIOUS
  <2>1. restarts \in 0 .. MaxRestarts /\ boots \in 0 .. MaxBoots
    BY BoundsAssumption DEF BoundsAssumption, Init
  <2>. QED
    BY <2>1 DEF Init, TypeOK
<1>2. TypeOK /\ [Next]_vars => TypeOK'
  <2> SUFFICES ASSUME TypeOK, [Next]_vars PROVE TypeOK'
    OBVIOUS
  <2> USE BoundsAssumption DEF BoundsAssumption, TypeOK, RunHolding, RebootHolding, updateVars, rebootVars, hostVars, vars
  <2>1. ASSUME NEW r \in Runs, HandleUpdate(r) PROVE TypeOK'
    BY <2>1 DEF HandleUpdate
  <2>2. ASSUME NEW r \in Runs, AnnounceRun(r) PROVE TypeOK'
    BY <2>2 DEF AnnounceRun
  <2>3. ASSUME NEW r \in Runs, LaunchRun(r) PROVE TypeOK'
    BY <2>3 DEF LaunchRun
  <2>4. ASSUME NEW r \in Runs, RunTimesOut(r) PROVE TypeOK'
    BY <2>4 DEF RunTimesOut
  <2>5. ASSUME NEW r \in Runs, RunExits(r) PROVE TypeOK'
    BY <2>5 DEF RunExits
  <2>6. ASSUME NEW r \in Runs, ReportRun(r) PROVE TypeOK'
    BY <2>6 DEF ReportRun, FinalStatus
  <2>7. ASSUME NEW r \in Runs, RequestRecheck(r) PROVE TypeOK'
    BY <2>7 DEF RequestRecheck
  <2>8. ASSUME NEW r \in Runs, ReleaseRun(r) PROVE TypeOK'
    BY <2>8 DEF ReleaseRun
  <2>9. ASSUME NEW r \in Runs, TransactionEnds(r) PROVE TypeOK'
    BY <2>9 DEF TransactionEnds
  <2>10. ASSUME NEW q \in Reboots, AskAboutRuns(q) PROVE TypeOK'
    BY <2>10 DEF AskAboutRuns
  <2>11. ASSUME NEW q \in Reboots, DecideReboot(q) PROVE TypeOK'
    BY <2>11 DEF DecideReboot
  <2>12. ASSUME NEW q \in Reboots, AnnounceReboot(q) PROVE TypeOK'
    BY <2>12 DEF AnnounceReboot
  <2>13. ASSUME NEW q \in Reboots, RunReboot(q) PROVE TypeOK'
    BY <2>13 DEF RunReboot
  <2>14. ASSUME NEW q \in Reboots, ReportRebootFailure(q) PROVE TypeOK'
    BY <2>14 DEF ReportRebootFailure
  <2>15. ASSUME NEW q \in Reboots, ClearReboot(q) PROVE TypeOK'
    BY <2>15 DEF ClearReboot
  <2>16. CASE TakeRecheck
    BY <2>16 DEF TakeRecheck
  <2>17. CASE RebootBecomesNeeded
    BY <2>17 DEF RebootBecomesNeeded
  <2>18. CASE ClientDies
    <3>1. runPc' \in [Runs -> RunHolding
                           \cup {"idle", "refused", "done", "lost"}]
      BY <2>18 DEF ClientDies, ForgetClient, Active
    <3>2. rebootPc' \in [Reboots -> RebootHolding
            \cup {"idle", "deciding", "refused", "unanswered", "failed", "lost"}]
      BY <2>18 DEF ClientDies, ForgetClient, RebootActive
    <3>3. restarts' \in 0 .. MaxRestarts
      BY <2>18 DEF ClientDies
    <3>4. tx' \in [Runs -> {"none", "running", "ok", "failed", "cut"}]
      BY <2>18 DEF ClientDies
    <3>5. /\ client' \in BOOLEAN /\ slot' \in BOOLEAN
          /\ inProgress' \in BOOLEAN /\ recheck' \in BOOLEAN
          /\ host' \in {"up", "stopping", "off"}
          /\ UNCHANGED <<mode, late, record, rebootRecord, seen, needsReboot>>
      BY <2>18 DEF ClientDies, ForgetClient
    <3>. QED
      BY <2>18, <3>1, <3>2, <3>3, <3>4, <3>5 DEF ClientDies
  <2>19. CASE ClientStarts
    BY <2>19 DEF ClientStarts
  <2>20. CASE HostGoesDown
    <3>1. runPc' \in [Runs -> RunHolding
                           \cup {"idle", "refused", "done", "lost"}]
      BY <2>20 DEF HostGoesDown, ForgetClient, Active
    <3>2. rebootPc' \in [Reboots -> RebootHolding
            \cup {"idle", "deciding", "refused", "unanswered", "failed", "lost"}]
      BY <2>20 DEF HostGoesDown, ForgetClient, RebootActive
    <3>3. boots' \in 0 .. MaxBoots
      BY <2>20 DEF HostGoesDown
    <3>4. tx' \in [Runs -> {"none", "running", "ok", "failed", "cut"}]
      BY <2>20 DEF HostGoesDown
    <3>5. /\ client' \in BOOLEAN /\ slot' \in BOOLEAN
          /\ inProgress' \in BOOLEAN /\ recheck' \in BOOLEAN
          /\ host' \in {"up", "stopping", "off"}
          /\ UNCHANGED <<mode, late, record, rebootRecord, seen, needsReboot>>
      BY <2>20 DEF HostGoesDown, ForgetClient
    <3>. QED
      BY <2>20, <3>1, <3>2, <3>3, <3>4, <3>5 DEF HostGoesDown
  <2>21. CASE HostBoots
    BY <2>21 DEF HostBoots
  <2>22. CASE UNCHANGED vars
    BY <2>22
  <2>. QED
        BY <2>1, <2>2, <2>3, <2>4, <2>5, <2>6, <2>7, <2>8, <2>9, <2>10,
       <2>11, <2>12, <2>13, <2>14, <2>15, <2>16, <2>17, <2>18, <2>19, <2>20,
       <2>21, <2>22 DEF Next, RunSteps, RebootSteps
<1>. QED  BY <1>1, <1>2, PTL DEF Spec

-----------------------------------------------------------------------------
(***************************************************************************)
(* The runner's slot.                                                      *)
(***************************************************************************)

\* A run holds the slot exactly while it is set, and holds it alone: claim and
\* release keep it so through every interleaving and every crash.
THEOREM SlotSafety == Spec => []SlotHeldByOneRun
<1>1. Init => SlotHeldByOneRun
  BY DEF Init, SlotHeldByOneRun, Active, RunHolding
<1>2. TypeOK /\ SlotHeldByOneRun /\ [Next]_vars => SlotHeldByOneRun'
  <2> SUFFICES ASSUME TypeOK, SlotHeldByOneRun, [Next]_vars
               PROVE  SlotHeldByOneRun'
    OBVIOUS
  <2> USE DEF TypeOK, SlotHeldByOneRun, Active, RunHolding,
              updateVars, rebootVars, hostVars, vars
  <2>1. ASSUME NEW r \in Runs, HandleUpdate(r) PROVE SlotHeldByOneRun'
    BY <2>1 DEF HandleUpdate, SlotIsFree
  <2>2. ASSUME NEW r \in Runs, AnnounceRun(r) PROVE SlotHeldByOneRun'
    BY <2>2 DEF AnnounceRun
  <2>3. ASSUME NEW r \in Runs, LaunchRun(r) PROVE SlotHeldByOneRun'
    BY <2>3 DEF LaunchRun
  <2>4. ASSUME NEW r \in Runs, RunTimesOut(r) \/ TransactionEnds(r) PROVE
              SlotHeldByOneRun'
    BY <2>4 DEF RunTimesOut, TransactionEnds
  <2>5. ASSUME NEW r \in Runs, RunExits(r) PROVE SlotHeldByOneRun'
    BY <2>5 DEF RunExits
  <2>6. ASSUME NEW r \in Runs, ReportRun(r) PROVE SlotHeldByOneRun'
    BY <2>6 DEF ReportRun
  <2>7. ASSUME NEW r \in Runs, RequestRecheck(r) PROVE SlotHeldByOneRun'
    BY <2>7 DEF RequestRecheck
  <2>8. ASSUME NEW r \in Runs, ReleaseRun(r) PROVE SlotHeldByOneRun'
    BY <2>8 DEF ReleaseRun
  <2>9. ASSUME NEW q \in Reboots, AskAboutRuns(q) \/ DecideReboot(q) \/
              AnnounceReboot(q) \/ RunReboot(q) \/ ReportRebootFailure(q) \/
              ClearReboot(q) PROVE SlotHeldByOneRun'
    BY <2>9 DEF AskAboutRuns, DecideReboot, AnnounceReboot, RunReboot,
       ReportRebootFailure, ClearReboot
  <2>10. CASE TakeRecheck \/ RebootBecomesNeeded \/ ClientStarts \/
           HostBoots
    BY <2>10 DEF TakeRecheck, RebootBecomesNeeded, ClientStarts, HostBoots
  <2>11. CASE ClientDies
    BY <2>11 DEF ClientDies, ForgetClient
  <2>12. CASE HostGoesDown
    BY <2>12 DEF HostGoesDown, ForgetClient
  <2>13. CASE UNCHANGED vars
    BY <2>13
  <2>. QED
    BY <2>1, <2>2, <2>3, <2>4, <2>5, <2>6, <2>7, <2>8, <2>9, <2>10, <2>11,
       <2>12, <2>13 DEF Next, RunSteps, RebootSteps
<1>. QED  BY <1>1, <1>2, TypeCorrect, PTL DEF Spec

-----------------------------------------------------------------------------
(***************************************************************************)
(* The listener's slot.                                                    *)
(***************************************************************************)

\* inProgress is set exactly while one accepted reboot is under way.  One
\* command is decided at a time, and only while no reboot is accepted, so
\* nothing can be accepted between the question and the answer.
RebootInv ==
  /\ RebootSlotHeldByOne
  /\ \A q1, q2 \in Reboots :
       rebootPc[q1] = "deciding" /\ rebootPc[q2] = "deciding" => q1 = q2
  /\ \A q \in Reboots : rebootPc[q] = "deciding" => ~inProgress

\* rebootListener.inProgress is held by the reboot that is under way, and by no
\* other.
LEMMA RebootSlotInvariant == Spec => []RebootInv
<1>1. Init => RebootInv
  BY DEF Init, RebootInv, RebootSlotHeldByOne, RebootActive, RebootHolding
<1>2. TypeOK /\ RebootInv /\ [Next]_vars => RebootInv'
  <2> SUFFICES ASSUME TypeOK, RebootInv, [Next]_vars PROVE RebootInv'
    OBVIOUS
  <2> USE DEF TypeOK, RebootInv, RebootSlotHeldByOne, RebootActive,
              RebootHolding,
              updateVars, rebootVars, hostVars, vars
  <2>1. ASSUME NEW r \in Runs, HandleUpdate(r) \/ AnnounceRun(r) \/
              LaunchRun(r) \/ RunTimesOut(r) \/ RunExits(r) \/ ReportRun(r)
              \/ RequestRecheck(r) \/ ReleaseRun(r) \/ TransactionEnds(r)
              PROVE RebootInv'
    BY <2>1 DEF HandleUpdate, AnnounceRun, LaunchRun, RunTimesOut, RunExits,
       ReportRun, RequestRecheck, ReleaseRun, TransactionEnds
  <2>2. ASSUME NEW q \in Reboots, AskAboutRuns(q) PROVE RebootInv'
    BY <2>2 DEF AskAboutRuns, MayReboot, NoneDeciding
  <2>3. ASSUME NEW q \in Reboots, DecideReboot(q) PROVE RebootInv'
    BY <2>3 DEF DecideReboot
  <2>4. ASSUME NEW q \in Reboots, AnnounceReboot(q) PROVE RebootInv'
    BY <2>4 DEF AnnounceReboot
  <2>5. ASSUME NEW q \in Reboots, RunReboot(q) PROVE RebootInv'
    BY <2>5 DEF RunReboot
  <2>6. ASSUME NEW q \in Reboots, ReportRebootFailure(q) PROVE RebootInv'
    BY <2>6 DEF ReportRebootFailure
  <2>7. ASSUME NEW q \in Reboots, ClearReboot(q) PROVE RebootInv'
    BY <2>7 DEF ClearReboot
  <2>8. CASE TakeRecheck \/ RebootBecomesNeeded \/ ClientStarts \/ HostBoots
    BY <2>8 DEF TakeRecheck, RebootBecomesNeeded, ClientStarts, HostBoots
  <2>9. CASE ClientDies
    BY <2>9 DEF ClientDies, ForgetClient
  <2>10. CASE HostGoesDown
    BY <2>10 DEF HostGoesDown, ForgetClient
  <2>11. CASE UNCHANGED vars
    BY <2>11
  <2>. QED
    BY <2>1, <2>2, <2>3, <2>4, <2>5, <2>6, <2>7, <2>8, <2>9, <2>10, <2>11
       DEF Next, RunSteps, RebootSteps
<1>. QED  BY <1>1, <1>2, TypeCorrect, PTL DEF Spec

\* The listener's slot is held by one accepted reboot, or by none.
THEOREM RebootSlotSafety == Spec => []RebootSlotHeldByOne
<1>1. RebootInv => RebootSlotHeldByOne
  BY DEF RebootInv
<1>. QED  BY <1>1, RebootSlotInvariant, PTL

-----------------------------------------------------------------------------
(***************************************************************************)
(* Transactions, and the records about them.                               *)
(***************************************************************************)

\* A running transaction is one its goroutine is waiting for, one whose client
\* died, or a unit given up on; and what a goroutine has passed fixes what its
\* transaction and its record can be.
TransactionInv ==
  \A r \in Runs :
    /\ tx[r] = "running" =>
         \/ runPc[r] \in {"executing", "lost"}
         \/ mode[r] = "unit" /\ late[r]
    /\ runPc[r] = "executing" => tx[r] \in {"running", "ok", "failed"}
    /\ runPc[r] = "exited" => tx[r] \in {"ok", "failed"} \/ late[r]
    /\ runPc[r] \in {"idle", "refused", "accepted"} => record[r] = "none"
    /\ runPc[r] \in {"announced", "executing", "exited"} => record[r] = "running"
    /\ record[r] = "succeeded" => tx[r] = "ok"
    /\ record[r] = "failed" => tx[r] = "failed" \/ late[r]

\* Proved with the type invariant alone: the transaction and the record follow
\* their goroutine step for step.
LEMMA Transactions == Spec => []TransactionInv
<1>1. Init => TransactionInv
  BY DEF Init, TransactionInv
<1>2. TypeOK /\ TransactionInv /\ [Next]_vars => TransactionInv'
  <2> SUFFICES ASSUME TypeOK, TransactionInv, [Next]_vars
               PROVE  TransactionInv'
    OBVIOUS
  <2> USE DEF TypeOK, TransactionInv, Active, RunHolding,
              updateVars, rebootVars, hostVars, vars
  <2>1. ASSUME NEW r \in Runs, HandleUpdate(r) PROVE TransactionInv'
    BY <2>1 DEF HandleUpdate, SlotIsFree
  <2>2. ASSUME NEW r \in Runs, AnnounceRun(r) PROVE TransactionInv'
    BY <2>2 DEF AnnounceRun
  <2>3. ASSUME NEW r \in Runs, LaunchRun(r) PROVE TransactionInv'
    BY <2>3 DEF LaunchRun
  <2>4. ASSUME NEW r \in Runs, RunTimesOut(r) PROVE TransactionInv'
    BY <2>4 DEF RunTimesOut
  <2>5. ASSUME NEW r \in Runs, RunExits(r) PROVE TransactionInv'
    BY <2>5 DEF RunExits, CommandReturns
  <2>6. ASSUME NEW r \in Runs, ReportRun(r) PROVE TransactionInv'
    BY <2>6 DEF ReportRun, FinalStatus
  <2>7. ASSUME NEW r \in Runs, RequestRecheck(r) PROVE TransactionInv'
    BY <2>7 DEF RequestRecheck
  <2>8. ASSUME NEW r \in Runs, ReleaseRun(r) PROVE TransactionInv'
    BY <2>8 DEF ReleaseRun
  <2>9. ASSUME NEW r \in Runs, TransactionEnds(r) PROVE TransactionInv'
    BY <2>9 DEF TransactionEnds
  <2>10. ASSUME NEW q \in Reboots, AskAboutRuns(q) \/ DecideReboot(q) \/
              AnnounceReboot(q) \/ RunReboot(q) \/ ReportRebootFailure(q) \/
              ClearReboot(q) PROVE TransactionInv'
    BY <2>10 DEF AskAboutRuns, DecideReboot, AnnounceReboot, RunReboot,
       ReportRebootFailure, ClearReboot
  <2>11. CASE TakeRecheck \/ RebootBecomesNeeded \/ ClientStarts \/
           HostBoots
    BY <2>11 DEF TakeRecheck, RebootBecomesNeeded, ClientStarts, HostBoots
  <2>12. CASE ClientDies
    BY <2>12 DEF ClientDies, ForgetClient
  <2>13. CASE HostGoesDown
    BY <2>13 DEF HostGoesDown, ForgetClient
  <2>14. CASE UNCHANGED vars
    BY <2>14
  <2>. QED
    BY <2>1, <2>2, <2>3, <2>4, <2>5, <2>6, <2>7, <2>8, <2>9, <2>10, <2>11,
       <2>12, <2>13, <2>14 DEF Next, RunSteps, RebootSteps
<1>. QED  BY <1>1, <1>2, TypeCorrect, PTL DEF Spec

\* Two transactions overlap only where a client died or a unit was given up
\* on: with the slot held by one run, two runs cannot both be executing.
THEOREM OverlapSafety == Spec => []OverlapHasACause
<1>1. SlotHeldByOneRun /\ TransactionInv => OverlapHasACause
  BY DEF SlotHeldByOneRun, TransactionInv, OverlapHasACause, Active, RunHolding
<1>. QED  BY <1>1, SlotSafety, Transactions, PTL

\* A published status is never more than what happened on the host.
THEOREM HonestRecords == Spec => []RecordsAreHonest
<1>1. TransactionInv => RecordsAreHonest
  BY DEF TransactionInv, RecordsAreHonest
<1>. QED  BY <1>1, Transactions, PTL

-----------------------------------------------------------------------------
(***************************************************************************)
(* Reboots against runs.                                                   *)
(***************************************************************************)

\* From the listener's question on, the runs it saw have arrived and none of
\* them holds the slot: a run never comes back to it.
SeenInv ==
  \A q \in Reboots : rebootPc[q] = "deciding" \/ RebootActive(q) =>
    \A r \in seen[q] : runPc[r] # "idle" /\ ~Active(r)

\* No run the listener could see is in the slot while its reboot goes ahead.
THEOREM RebootSparesSeenRuns == Spec => []RebootSparesRunsItSaw
<1>1. Init => SeenInv
  BY DEF Init, SeenInv
<1>2. TypeOK /\ SlotHeldByOneRun /\ SeenInv /\ [Next]_vars => SeenInv'
  <2> SUFFICES ASSUME TypeOK, SlotHeldByOneRun, SeenInv, [Next]_vars
               PROVE  SeenInv'
    OBVIOUS
  <2> USE DEF TypeOK, SlotHeldByOneRun, SeenInv, Active, RunHolding,
              RebootActive, RebootHolding,
              updateVars, rebootVars, hostVars, vars
  <2>1. ASSUME NEW r \in Runs, HandleUpdate(r) PROVE SeenInv'
    BY <2>1 DEF HandleUpdate, SlotIsFree
  <2>2. ASSUME NEW r \in Runs, AnnounceRun(r) PROVE SeenInv'
    BY <2>2 DEF AnnounceRun
  <2>3. ASSUME NEW r \in Runs, LaunchRun(r) PROVE SeenInv'
    BY <2>3 DEF LaunchRun
  <2>4. ASSUME NEW r \in Runs, RunTimesOut(r) PROVE SeenInv'
    BY <2>4 DEF RunTimesOut
  <2>5. ASSUME NEW r \in Runs, RunExits(r) PROVE SeenInv'
    BY <2>5 DEF RunExits
  <2>6. ASSUME NEW r \in Runs, ReportRun(r) PROVE SeenInv'
    BY <2>6 DEF ReportRun
  <2>7. ASSUME NEW r \in Runs, RequestRecheck(r) PROVE SeenInv'
    BY <2>7 DEF RequestRecheck
  <2>8. ASSUME NEW r \in Runs, ReleaseRun(r) PROVE SeenInv'
    BY <2>8 DEF ReleaseRun
  <2>9. ASSUME NEW r \in Runs, TransactionEnds(r) PROVE SeenInv'
    BY <2>9 DEF TransactionEnds
  <2>10. ASSUME NEW q \in Reboots, AskAboutRuns(q) PROVE SeenInv'
    BY <2>10 DEF AskAboutRuns, MayReboot
  <2>11. ASSUME NEW q \in Reboots, DecideReboot(q) PROVE SeenInv'
    BY <2>11 DEF DecideReboot
  <2>12. ASSUME NEW q \in Reboots, AnnounceReboot(q) PROVE SeenInv'
    BY <2>12 DEF AnnounceReboot
  <2>13. ASSUME NEW q \in Reboots, RunReboot(q) PROVE SeenInv'
    BY <2>13 DEF RunReboot
  <2>14. ASSUME NEW q \in Reboots, ReportRebootFailure(q) PROVE SeenInv'
    BY <2>14 DEF ReportRebootFailure
  <2>15. ASSUME NEW q \in Reboots, ClearReboot(q) PROVE SeenInv'
    BY <2>15 DEF ClearReboot
  <2>16. CASE TakeRecheck \/ RebootBecomesNeeded \/ ClientStarts \/
           HostBoots
    BY <2>16 DEF TakeRecheck, RebootBecomesNeeded, ClientStarts, HostBoots
  <2>17. CASE ClientDies
    BY <2>17 DEF ClientDies, ForgetClient
  <2>18. CASE HostGoesDown
    BY <2>18 DEF HostGoesDown, ForgetClient
  <2>19. CASE UNCHANGED vars
    BY <2>19
  <2>. QED
    BY <2>1, <2>2, <2>3, <2>4, <2>5, <2>6, <2>7, <2>8, <2>9, <2>10, <2>11,
       <2>12, <2>13, <2>14, <2>15, <2>16, <2>17, <2>18, <2>19 DEF Next,
       RunSteps, RebootSteps
<1>3. SeenInv => RebootSparesRunsItSaw
  BY DEF SeenInv, RebootSparesRunsItSaw
<1>. QED  BY <1>1, <1>2, <1>3, TypeCorrect, SlotSafety, PTL DEF Spec

\* What has been published about a reboot, by how far its goroutine is.
RebootRecordInv ==
  /\ \A q \in Reboots :
       /\ rebootPc[q] \in {"idle", "deciding", "refused", "accepted"}
            => rebootRecord[q] = "none"
       /\ rebootPc[q] \in {"announced", "commanded", "failing"}
            => rebootRecord[q] = "rebooting"
  /\ RebootAnnouncedFirst

\* The record of a reboot command is as far as the command is.
LEMMA RebootRecords == Spec => []RebootRecordInv
<1>1. Init => RebootRecordInv
  BY DEF Init, RebootRecordInv, RebootAnnouncedFirst
<1>2. TypeOK /\ RebootRecordInv /\ [Next]_vars => RebootRecordInv'
  <2> SUFFICES ASSUME TypeOK, RebootRecordInv, [Next]_vars
               PROVE  RebootRecordInv'
    OBVIOUS
  <2> USE DEF TypeOK, RebootRecordInv, RebootAnnouncedFirst, RebootActive,
              RebootHolding,
              updateVars, rebootVars, hostVars, vars
  <2>1. ASSUME NEW r \in Runs, HandleUpdate(r) \/ AnnounceRun(r) \/
              LaunchRun(r) \/ RunTimesOut(r) \/ RunExits(r) \/ ReportRun(r)
              \/ RequestRecheck(r) \/ ReleaseRun(r) \/ TransactionEnds(r)
              PROVE RebootRecordInv'
    BY <2>1 DEF HandleUpdate, AnnounceRun, LaunchRun, RunTimesOut, RunExits,
       ReportRun, RequestRecheck, ReleaseRun, TransactionEnds
  <2>2. ASSUME NEW q \in Reboots, AskAboutRuns(q) PROVE RebootRecordInv'
    BY <2>2 DEF AskAboutRuns, MayReboot
  <2>3. ASSUME NEW q \in Reboots, DecideReboot(q) PROVE RebootRecordInv'
    BY <2>3 DEF DecideReboot
  <2>4. ASSUME NEW q \in Reboots, AnnounceReboot(q) PROVE RebootRecordInv'
    BY <2>4 DEF AnnounceReboot
  <2>5. ASSUME NEW q \in Reboots, RunReboot(q) PROVE RebootRecordInv'
    BY <2>5 DEF RunReboot
  <2>6. ASSUME NEW q \in Reboots, ReportRebootFailure(q) PROVE
              RebootRecordInv'
    BY <2>6 DEF ReportRebootFailure
  <2>7. ASSUME NEW q \in Reboots, ClearReboot(q) PROVE RebootRecordInv'
    BY <2>7 DEF ClearReboot
  <2>8. CASE TakeRecheck \/ RebootBecomesNeeded \/ ClientStarts \/ HostBoots
    BY <2>8 DEF TakeRecheck, RebootBecomesNeeded, ClientStarts, HostBoots
  <2>9. CASE ClientDies
    BY <2>9 DEF ClientDies, ForgetClient
  <2>10. CASE HostGoesDown
    BY <2>10 DEF HostGoesDown, ForgetClient
  <2>11. CASE UNCHANGED vars
    BY <2>11
  <2>. QED
    BY <2>1, <2>2, <2>3, <2>4, <2>5, <2>6, <2>7, <2>8, <2>9, <2>10, <2>11
       DEF Next, RunSteps, RebootSteps
<1>. QED  BY <1>1, <1>2, TypeCorrect, PTL DEF Spec

\* The record of a reboot is out before the machine starts down.
THEOREM RebootAnnounced == Spec => []RebootAnnouncedFirst
<1>1. RebootRecordInv => RebootAnnouncedFirst
  BY DEF RebootRecordInv
<1>. QED  BY <1>1, RebootRecords, PTL

\* Records only ever advance, for runs and for reboots.
THEOREM RecordsAdvance == Spec => RecordsOnlyAdvance
<1> DEFINE RunsAdvance ==
             \A r \in Runs : record'[r] # record[r] =>
               \/ record[r] = "none" /\ record'[r] = "running"
               \/ record[r] = "running"
                  /\ record'[r] \in {"succeeded", "failed"}
           RebootsAdvance ==
             \A q \in Reboots : rebootRecord'[q] # rebootRecord[q] =>
               \/ rebootRecord[q] = "none" /\ rebootRecord'[q] = "rebooting"
               \/ rebootRecord[q] = "rebooting" /\ rebootRecord'[q] = "failed"
           Advance == RunsAdvance /\ RebootsAdvance
<1>1. TypeOK /\ TransactionInv /\ RebootRecordInv /\ [Next]_vars
        => [Advance]_vars
  <2> SUFFICES ASSUME TypeOK, TransactionInv, RebootRecordInv, Next
               PROVE  Advance
    OBVIOUS
  <2> USE DEF TypeOK, TransactionInv, RebootRecordInv,
              updateVars, rebootVars, hostVars, vars
  <2>1. ASSUME NEW r \in Runs, AnnounceRun(r) PROVE Advance
    BY <2>1 DEF AnnounceRun
  <2>2. ASSUME NEW r \in Runs, ReportRun(r) PROVE Advance
    BY <2>2 DEF ReportRun, FinalStatus
  <2>3. ASSUME NEW r \in Runs, HandleUpdate(r) \/ LaunchRun(r) \/
              RunTimesOut(r) \/ RunExits(r) \/ RequestRecheck(r) \/
              ReleaseRun(r) \/ TransactionEnds(r) PROVE Advance
    BY <2>3 DEF HandleUpdate, LaunchRun, RunTimesOut, RunExits,
       RequestRecheck, ReleaseRun, TransactionEnds
  <2>4. ASSUME NEW q \in Reboots, AnnounceReboot(q) PROVE Advance
    BY <2>4 DEF AnnounceReboot
  <2>5. ASSUME NEW q \in Reboots, ReportRebootFailure(q) PROVE Advance
    BY <2>5 DEF ReportRebootFailure
  <2>6. ASSUME NEW q \in Reboots, AskAboutRuns(q) \/ DecideReboot(q) \/
              RunReboot(q) \/ ClearReboot(q) PROVE Advance
    BY <2>6 DEF AskAboutRuns, DecideReboot, RunReboot, ClearReboot
  <2>7. CASE TakeRecheck \/ RebootBecomesNeeded \/ ClientStarts \/ HostBoots
           \/ ClientDies \/ HostGoesDown
    BY <2>7 DEF TakeRecheck, RebootBecomesNeeded, ClientStarts, HostBoots,
       ClientDies, ForgetClient, HostGoesDown
  <2>. QED
    BY <2>1, <2>2, <2>3, <2>4, <2>5, <2>6, <2>7 DEF Next, RunSteps,
       RebootSteps
<1>. QED
  BY <1>1, TypeCorrect, Transactions, RebootRecords, PTL
  DEF Spec, RecordsOnlyAdvance

-----------------------------------------------------------------------------
(***************************************************************************)
(* Refinement: each slot is a RunSlot.                                     *)
(***************************************************************************)

\* The update runner implements RunSlot: every step of the host is a command
\* taking the empty slot for the first time, the slot emptying, or nothing.
THEOREM UpdatesRefineRunSlot == Spec => UpdatesAreServedOnce
<1>1. Init => UpdateSlot!Init
  BY DEF Init, UpdateSlot!Init, Active, RunHolding
<1>2. TypeOK /\ SlotHeldByOneRun /\ [Next]_vars
        => [UpdateSlot!Next]_(UpdateSlot!vars)
  <2> SUFFICES ASSUME TypeOK, SlotHeldByOneRun, [Next]_vars
               PROVE  [UpdateSlot!Next]_(UpdateSlot!vars)
    OBVIOUS
  <2> USE DEF TypeOK, SlotHeldByOneRun, Active, RunHolding,
              UpdateSlot!Next, UpdateSlot!vars, UpdateSlot!Take,
              UpdateSlot!Leave,
              updateVars, rebootVars, hostVars, vars
  <2>1. ASSUME NEW r \in Runs, HandleUpdate(r) PROVE
              [UpdateSlot!Next]_(UpdateSlot!vars)
    BY <2>1 DEF HandleUpdate, SlotIsFree
  <2>2. ASSUME NEW r \in Runs, AnnounceRun(r) PROVE
              [UpdateSlot!Next]_(UpdateSlot!vars)
    BY <2>2 DEF AnnounceRun
  <2>3. ASSUME NEW r \in Runs, LaunchRun(r) PROVE
              [UpdateSlot!Next]_(UpdateSlot!vars)
    BY <2>3 DEF LaunchRun
  <2>4. ASSUME NEW r \in Runs, RunTimesOut(r) PROVE
              [UpdateSlot!Next]_(UpdateSlot!vars)
    BY <2>4 DEF RunTimesOut
  <2>5. ASSUME NEW r \in Runs, RunExits(r) PROVE
              [UpdateSlot!Next]_(UpdateSlot!vars)
    BY <2>5 DEF RunExits
  <2>6. ASSUME NEW r \in Runs, ReportRun(r) PROVE
              [UpdateSlot!Next]_(UpdateSlot!vars)
    BY <2>6 DEF ReportRun
  <2>7. ASSUME NEW r \in Runs, RequestRecheck(r) PROVE
              [UpdateSlot!Next]_(UpdateSlot!vars)
    BY <2>7 DEF RequestRecheck
  <2>8. ASSUME NEW r \in Runs, ReleaseRun(r) PROVE
              [UpdateSlot!Next]_(UpdateSlot!vars)
    BY <2>8 DEF ReleaseRun
  <2>9. ASSUME NEW r \in Runs, TransactionEnds(r) PROVE
              [UpdateSlot!Next]_(UpdateSlot!vars)
    BY <2>9 DEF TransactionEnds
  <2>10. ASSUME NEW q \in Reboots, AskAboutRuns(q) \/ DecideReboot(q) \/
              AnnounceReboot(q) \/ RunReboot(q) \/ ReportRebootFailure(q) \/
              ClearReboot(q) PROVE [UpdateSlot!Next]_(UpdateSlot!vars)
    BY <2>10 DEF AskAboutRuns, DecideReboot, AnnounceReboot, RunReboot,
       ReportRebootFailure, ClearReboot
  <2>11. CASE TakeRecheck \/ RebootBecomesNeeded \/ ClientStarts \/
           HostBoots
    BY <2>11 DEF TakeRecheck, RebootBecomesNeeded, ClientStarts, HostBoots
  <2>12. CASE ClientDies
    BY <2>12 DEF ClientDies, ForgetClient
  <2>13. CASE HostGoesDown
    BY <2>13 DEF HostGoesDown, ForgetClient
  <2>14. CASE UNCHANGED vars
    BY <2>14
  <2>. QED
    BY <2>1, <2>2, <2>3, <2>4, <2>5, <2>6, <2>7, <2>8, <2>9, <2>10, <2>11,
       <2>12, <2>13, <2>14 DEF Next, RunSteps, RebootSteps
<1>. QED
  BY <1>1, <1>2, TypeCorrect, SlotSafety, PTL
  DEF Spec, UpdatesAreServedOnce, UpdateSlot!Spec


\* The reboot listener implements it too.  The invariant about the command
\* being decided is what shows that accepting finds the slot empty.
THEOREM RebootsRefineRunSlot == Spec => RebootsAreServedOnce
<1>1. Init => RebootSlot!Init
  BY DEF Init, RebootSlot!Init, RebootActive, RebootHolding
<1>2. TypeOK /\ RebootInv /\ [Next]_vars
        => [RebootSlot!Next]_(RebootSlot!vars)
  <2> SUFFICES ASSUME TypeOK, RebootInv, [Next]_vars
               PROVE  [RebootSlot!Next]_(RebootSlot!vars)
    OBVIOUS
  <2> USE DEF TypeOK, RebootInv, RebootSlotHeldByOne, RebootActive,
              RebootHolding, RebootSlot!Next, RebootSlot!vars,
              RebootSlot!Take, RebootSlot!Leave,
              updateVars, rebootVars, hostVars, vars
  <2>1. ASSUME NEW r \in Runs, HandleUpdate(r) \/ AnnounceRun(r) \/
              LaunchRun(r) \/ RunTimesOut(r) \/ RunExits(r) \/ ReportRun(r)
              \/ RequestRecheck(r) \/ ReleaseRun(r) \/ TransactionEnds(r)
              PROVE [RebootSlot!Next]_(RebootSlot!vars)
    BY <2>1 DEF HandleUpdate, AnnounceRun, LaunchRun, RunTimesOut, RunExits,
       ReportRun, RequestRecheck, ReleaseRun, TransactionEnds
  <2>2. ASSUME NEW q \in Reboots, AskAboutRuns(q) PROVE
              [RebootSlot!Next]_(RebootSlot!vars)
    BY <2>2 DEF AskAboutRuns, MayReboot, NoneDeciding
  <2>3. ASSUME NEW q \in Reboots, DecideReboot(q) PROVE
              [RebootSlot!Next]_(RebootSlot!vars)
    BY <2>3 DEF DecideReboot
  <2>4. ASSUME NEW q \in Reboots, AnnounceReboot(q) PROVE
              [RebootSlot!Next]_(RebootSlot!vars)
    BY <2>4 DEF AnnounceReboot
  <2>5. ASSUME NEW q \in Reboots, RunReboot(q) PROVE
              [RebootSlot!Next]_(RebootSlot!vars)
    BY <2>5 DEF RunReboot
  <2>6. ASSUME NEW q \in Reboots, ReportRebootFailure(q) PROVE
              [RebootSlot!Next]_(RebootSlot!vars)
    BY <2>6 DEF ReportRebootFailure
  <2>7. ASSUME NEW q \in Reboots, ClearReboot(q) PROVE
              [RebootSlot!Next]_(RebootSlot!vars)
    BY <2>7 DEF ClearReboot
  <2>8. CASE TakeRecheck \/ RebootBecomesNeeded \/ ClientStarts \/ HostBoots
    BY <2>8 DEF TakeRecheck, RebootBecomesNeeded, ClientStarts, HostBoots
  <2>9. CASE ClientDies
    BY <2>9 DEF ClientDies, ForgetClient
  <2>10. CASE HostGoesDown
    BY <2>10 DEF HostGoesDown, ForgetClient
  <2>11. CASE UNCHANGED vars
    BY <2>11
  <2>. QED
    BY <2>1, <2>2, <2>3, <2>4, <2>5, <2>6, <2>7, <2>8, <2>9, <2>10, <2>11
       DEF Next, RunSteps, RebootSteps
<1>. QED
  BY <1>1, <1>2, TypeCorrect, RebootSlotInvariant, PTL
  DEF Spec, RebootsAreServedOnce, RebootSlot!Spec
=============================================================================
