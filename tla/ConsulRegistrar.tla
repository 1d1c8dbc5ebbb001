---------------------------- MODULE ConsulRegistrar ----------------------------
(***************************************************************************)
(* The server keeps its services in Consul (server/consul/consul.go): the  *)
(* loop that registers what the agent lacks and sleeps, and Stop.  The     *)
(* agent is external: it may be unreachable, fail a call, or restart with  *)
(* a cleared data directory, and it checks the health of what it has.      *)
(* Time is counted in steps of the first retry interval and passes only    *)
(* while the loop sleeps: a call takes none.                               *)
(***************************************************************************)
EXTENDS Integers

CONSTANTS
  Services,       \* the registrar's services
  Reassert,       \* reassertInterval
  MaxRetry,       \* maxRetryInterval
  MaxFaults       \* bound: calls that fail, losses and restarts of the agent

ASSUME RegistrarAssumption ==
  Reassert \in Nat \ {0} /\ MaxRetry \in Nat \ {0} /\ MaxFaults \in Nat

VARIABLES
  up,          \* can the agent be reached?
  has,         \* what the agent has of each service
  pc,          \* where the loop stands
  known,       \* what the agent listed in this sweep
  listed,      \* did it answer?
  left,        \* services this sweep has yet to look at
  failed,      \* did a registration fail in this sweep?
  wait, retry,
  registered,  \* the services believed registered
  stop,        \* where Stop stands
  toLeave,     \* services yet to deregister
  kept,        \* services whose deregistration failed
  overdue,     \* history: how long the agent has lacked a service, reachable
               \* and with no fault
  faults

loopVars == <<pc, known, listed, left, failed, wait, retry, registered>>
stopVars == <<stop, toLeave, kept>>
registrarVars == <<up, has, loopVars, stopVars, overdue, faults>>

Longest == IF MaxRetry > Reassert THEN MaxRetry ELSE Reassert

FlagsOK == up \in BOOLEAN /\ listed \in BOOLEAN /\ failed \in BOOLEAN

StateOK ==
  /\ has \in [Services -> {"no", "critical", "passing"}]
  /\ pc \in {"list", "sweep", "sleep", "exited"}
  /\ known \subseteq Services /\ left \subseteq Services
  /\ registered \subseteq Services
  /\ toLeave \subseteq Services /\ kept \subseteq Services
  /\ wait \in Nat /\ retry \in Nat \ {0}
  /\ stop \in {"no", "waiting", "deregistering"}
  /\ overdue \in Nat
  /\ faults \in 0 .. MaxFaults

RegistrarTypeOK == FlagsOK /\ StateOK

\* The agent may know the services from a server that was killed.
RegistrarInit ==
  /\ up \in BOOLEAN
  /\ has \in [Services -> {"no", "critical", "passing"}]
  /\ pc = "list"
  /\ known = {} /\ listed = FALSE /\ left = {} /\ failed = FALSE
  /\ wait = 0 /\ retry = 1
  /\ registered = {}
  /\ stop = "no" /\ toLeave = Services /\ kept = {}
  /\ overdue = 0
  /\ faults = 0

\* A call to the agent fails if the agent is down, and may fail otherwise.
CallOK == up /\ UNCHANGED <<overdue, faults>>

CallFails ==
  /\ overdue' = 0
  /\ IF up THEN faults < MaxFaults /\ faults' = faults + 1
           ELSE UNCHANGED faults

(***************************************************************************)
(* The loop.  ensure takes the services one by one, in an order that does  *)
(* not matter.                                                             *)
(***************************************************************************)
\* Slip: what was registered once is not asked about again.
List_Remembers ==
  /\ pc = "list"
  /\ known' = registered /\ listed' = TRUE
  /\ pc' = "sweep" /\ left' = Services /\ failed' = FALSE
  /\ UNCHANGED <<up, has, wait, retry, registered, stopVars, overdue, faults>>

List ==
  /\ pc = "list"
  /\ \/ /\ CallOK
        /\ known' = {s \in Services : has[s] # "no"} /\ listed' = TRUE
     \/ /\ CallFails
        /\ known' = {} /\ listed' = FALSE
  /\ pc' = "sweep" /\ left' = Services /\ failed' = FALSE
  /\ UNCHANGED <<up, has, wait, retry, registered, stopVars>>

\* Slip: what is present is registered all the same.
Present_Reset(s) ==
  /\ pc = "sweep" /\ s \in left /\ s \in known
  /\ CallOK
  /\ left' = left \ {s}
  /\ has' = [has EXCEPT ![s] = "critical"]
  /\ registered' = registered \cup {s}
  /\ UNCHANGED <<up, pc, known, listed, failed, wait, retry, stopVars>>

Present(s) ==
  /\ pc = "sweep" /\ s \in left /\ s \in known
  /\ left' = left \ {s}
  /\ registered' = registered \cup {s}
  /\ UNCHANGED <<up, has, pc, known, listed, failed, wait, retry, stopVars,
                 overdue, faults>>

\* A registration that fails may have been made.
Register(s) ==
  /\ pc = "sweep" /\ s \in left \ known
  /\ left' = left \ {s}
  /\ \/ /\ CallOK
        /\ has' = [has EXCEPT ![s] = "critical"]
        /\ registered' = registered \cup {s}
        /\ UNCHANGED failed
     \/ /\ CallFails
        /\ has' \in {has, IF up THEN [has EXCEPT ![s] = "critical"] ELSE has}
        /\ registered' = registered \ {s}
        /\ failed' = TRUE
  /\ UNCHANGED <<up, pc, known, listed, wait, retry, stopVars>>

\* The sweep is over, and retry doubles if something failed.
Slowed == IF 2 * retry > MaxRetry THEN MaxRetry ELSE 2 * retry

\* Slip: retry grows without end.
SweepEnds_Uncapped ==
  /\ pc = "sweep" /\ left = {}
  /\ pc' = "sleep"
  /\ IF failed THEN wait' = retry /\ retry' = 2 * retry
               ELSE wait' = Reassert /\ retry' = 1
  /\ UNCHANGED <<up, has, known, listed, left, failed, registered, stopVars,
                 overdue, faults>>

SweepEnds ==
  /\ pc = "sweep" /\ left = {}
  /\ pc' = "sleep"
  /\ IF failed THEN wait' = retry /\ retry' = Slowed
               ELSE wait' = Reassert /\ retry' = 1
  /\ UNCHANGED <<up, has, known, listed, left, failed, registered, stopVars,
                 overdue, faults>>

\* The select: with both cases ready either may be taken.
Wake ==
  /\ pc = "sleep" /\ wait = 0
  /\ pc' = "list"
  /\ UNCHANGED <<up, has, known, listed, left, failed, wait, retry, registered,
                 stopVars, overdue, faults>>

Exit ==
  /\ pc = "sleep" /\ stop # "no"
  /\ pc' = "exited"
  /\ UNCHANGED <<up, has, known, listed, left, failed, wait, retry, registered,
                 stopVars, overdue, faults>>

(***************************************************************************)
(* Stop: cancel, wait for the loop, deregister one service after another.  *)
(***************************************************************************)
Cancel ==
  /\ stop = "no"
  /\ stop' = "waiting"
  /\ UNCHANGED <<up, has, loopVars, toLeave, kept, overdue, faults>>

\* Slip: the loop is cancelled but not waited for.
LoopIsGone_AtOnce ==
  /\ stop = "waiting"
  /\ stop' = "deregistering"
  /\ UNCHANGED <<up, has, loopVars, toLeave, kept, overdue, faults>>

LoopIsGone ==
  /\ stop = "waiting" /\ pc = "exited"
  /\ stop' = "deregistering"
  /\ UNCHANGED <<up, has, loopVars, toLeave, kept, overdue, faults>>

\* A failure is logged and the next service tried.
Deregister(s) ==
  /\ stop = "deregistering" /\ s \in toLeave
  /\ toLeave' = toLeave \ {s}
  /\ \/ /\ CallOK
        /\ has' = [has EXCEPT ![s] = "no"]
        /\ UNCHANGED kept
     \/ /\ CallFails
        /\ has' \in {has, IF up THEN [has EXCEPT ![s] = "no"] ELSE has}
        /\ kept' = kept \cup {s}
  /\ UNCHANGED <<up, loopVars, stop>>

(***************************************************************************)
(* The agent, and time.                                                    *)
(***************************************************************************)
CheckPasses(s) ==
  /\ up /\ has[s] = "critical"
  /\ has' = [has EXCEPT ![s] = "passing"]
  /\ UNCHANGED <<up, loopVars, stopVars, overdue, faults>>

Fault == faults < MaxFaults /\ faults' = faults + 1

CheckFails(s) ==
  /\ Fault
  /\ up /\ has[s] = "passing"
  /\ has' = [has EXCEPT ![s] = "critical"]
  /\ UNCHANGED <<up, loopVars, stopVars, overdue>>

\* "DeregisterCriticalServiceAfter".
DropsCritical(s) ==
  /\ Fault
  /\ up /\ has[s] = "critical"
  /\ has' = [has EXCEPT ![s] = "no"]
  /\ overdue' = 0
  /\ UNCHANGED <<up, loopVars, stopVars>>

\* It keeps what it has, or has lost it when it is back.
AgentGoesDown ==
  /\ Fault
  /\ up /\ up' = FALSE
  /\ has' \in {has, [s \in Services |-> "no"]}
  /\ overdue' = 0
  /\ UNCHANGED <<loopVars, stopVars>>

AgentComesUp ==
  /\ ~up /\ up' = TRUE
  /\ UNCHANGED <<has, loopVars, stopVars, overdue, faults>>

Missing == {s \in Services : has[s] = "no"}

\* A cancelled loop does not sleep on.
TimePasses ==
  /\ pc = "sleep" /\ wait > 0 /\ stop = "no"
  /\ wait' = wait - 1
  /\ overdue' = IF ~up \/ Missing = {} THEN 0
                ELSE IF overdue > Longest THEN overdue ELSE overdue + 1
  /\ UNCHANGED <<up, has, pc, known, listed, left, failed, retry, registered,
                 stopVars, faults>>

RegistrarNext ==
  \/ List \/ SweepEnds \/ Wake \/ Exit
  \/ Cancel \/ LoopIsGone
  \/ AgentGoesDown \/ AgentComesUp \/ TimePasses
  \/ \E s \in Services :
       \/ Present(s) \/ Register(s) \/ Deregister(s)
       \/ CheckPasses(s) \/ CheckFails(s) \/ DropsCritical(s)

RegistrarSpec == RegistrarInit /\ [][RegistrarNext]_registrarVars

-----------------------------------------------------------------------------
(***************************************************************************)
(* Safety.                                                                 *)
(***************************************************************************)

\* Stop waits for the loop and tries every service: what it deregistered stays
\* deregistered, and only what the agent refused to drop can be left.
StoppedStaysOut ==
  stop = "deregistering" =>
    \A s \in Services : has[s] # "no" => s \in toLeave \cup kept

\* "Registering a service the agent already has resets its health check to
\* critical, which would drop us out of discovery": the loop does that to a
\* service in good health only when the agent would not say what it has.
HealthyIsLeftAlone ==
  [][\A s \in Services :
       has[s] = "passing" /\ has'[s] = "critical" /\ left' # left
       => ~listed]_registrarVars

\* However long Consul was absent, and whatever it forgot meanwhile, an agent
\* that answers is asked, and knows the services, within the longest wait.
DelayIsBounded == overdue <= Longest

-----------------------------------------------------------------------------
(***************************************************************************)
(* Liveness.  The goroutines are scheduled, time passes, a call returns,   *)
(* and the agent makes its checks.  An agent need not come up again.       *)
(***************************************************************************)
RegistrarFairness ==
  /\ WF_registrarVars(List) /\ WF_registrarVars(SweepEnds)
  /\ WF_registrarVars(Wake) /\ WF_registrarVars(Exit)
  /\ WF_registrarVars(TimePasses) /\ WF_registrarVars(LoopIsGone)
  /\ \A s \in Services :
       /\ WF_registrarVars(Present(s)) /\ WF_registrarVars(Register(s))
       /\ WF_registrarVars(Deregister(s)) /\ WF_registrarVars(CheckPasses(s))

RegistrarFairSpec == RegistrarSpec /\ RegistrarFairness

\* "Consul being down at startup delays discovery, it does not disable it", nor
\* does an agent that forgets: once an agent is up for good, a server that was
\* not stopped is in discovery for good.
StaysDiscoverable ==
  [](stop = "no") /\ <>[]up => <>[](\A s \in Services : has[s] = "passing")
=============================================================================
