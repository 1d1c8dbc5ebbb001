----------------------------- MODULE SystemRecords -----------------------------
(***************************************************************************)
(* The server's record of one host: what the host publishes, the four      *)
(* subscriptions that feed the record, and the store it is kept in.        *)
(*                                                                         *)
(* A check-in carries the whole system except its last update run, reboot  *)
(* and benchmark, which arrive on subjects of their own and are carried    *)
(* over from the stored record.  Each subscription has a goroutine, so     *)
(* messages of one subject are handled in order and one at a time, while   *)
(* handlers of different subjects interleave.  A handler reads the record  *)
(* (GetSystem) and writes it back whole (SaveSystem); only each of the two *)
(* is atomic.  SaveSystem's notice to the dashboards is not modelled here. *)
(*                                                                         *)
(* Time goes in ticks.  The server dates a host's boot as its own clock    *)
(* less the uptime in the check-in, which the host read when it set out to *)
(* publish: the longer a check-in is under way, the later the boot it      *)
(* shows.  Seconds that are rounded off count as time under way.           *)
(***************************************************************************)
EXTENDS Naturals, Sequences

CONSTANTS
  MaxCommands,  \* bound: runs, reboots and benchmarks of the host together
  MaxTime,      \* bound: ticks of the clock
  MaxTroubles,  \* bound: failed writes, server restarts and deletions together
  QueueCap      \* bound: check-ins waiting at the server

ASSUME RecordBounds ==
  /\ MaxCommands \in Nat /\ MaxTime \in Nat /\ MaxTroubles \in Nat
  /\ QueueCap \in Nat \ {0}

VARIABLES
  clock,        \* the time, in ticks
  bootedAt,     \* when the host booted last
  hostRun,      \* the last run record the host published
  hostReboot,   \* the last reboot record the host published
  hostBench,    \* the last benchmark the host published
  queue,        \* messages waiting at the server, per subject
  handler,      \* the goroutine of each subscription
  store,        \* the host's entry in the "systems" bucket
  log,          \* lines in the operations log, by content, counted
  unwritten,    \* history: the lines the log could not be given
  slowest,      \* history: the longest a check-in with an uptime was under way
  saved,        \* history: the last run and benchmark saved by their handlers
  raced,        \* history: did a save overwrite a record newer than it read?
  faults, restarts, deletes  \* failed writes, server restarts, deletions

time == <<clock, bootedAt>>
hostState == <<time, hostRun, hostReboot, hostBench>>
written == <<log, unwritten>>
history == <<slowest, saved, raced>>
budget == <<faults, restarts, deletes>>
vars == <<hostState, queue, handler, store, written, history, budget>>

Subjects == {"checkin", "update", "reboot", "benchmark"}

\* The server looks at no difference between succeeded and failed runs.
RunRecords == [id : 0 .. MaxCommands, status : {"none", "running", "ended"}]
RebootRecords == [id : 0 .. MaxCommands, requestedAt : 0 .. MaxTime,
                  status : {"none", "rebooting", "rebooted", "failed"}]
\* A host that cannot read its uptime reports zero.
CheckIns == [readAt : 0 .. MaxTime, uptime : 0 .. MaxTime]
Messages(s) ==
  CASE s = "checkin" -> CheckIns
    [] s = "update" -> RunRecords
    [] s = "reboot" -> RebootRecords
    [] s = "benchmark" -> 1 .. MaxCommands

NoRun == [id |-> 0, status |-> "none"]
NoReboot == [id |-> 0, requestedAt |-> 0, status |-> "none"]
Systems == [known : BOOLEAN, run : RunRecords, reboot : RebootRecords,
            bench : 0 .. MaxCommands]

\* GetSystem of a host that is not stored: an error and the zero value.
Unknown == [known |-> FALSE, run |-> NoRun, reboot |-> NoReboot, bench |-> 0]

Lines ==
  [action : {"update"}, id : 1 .. MaxCommands, event : {"running", "ended"}]
    \cup [action : {"reboot"}, id : 1 .. MaxCommands,
          event : {"rebooting", "rebooted", "failed"}]
    \cup [action : {"benchmark"}, id : 1 .. MaxCommands, event : {"ended"}]

Line(action, id, event) == [action |-> action, id |-> id, event |-> event]

\* What the handler makes of a message: of a check-in, the boot it shows.
Shown(s) == IF s = "checkin" THEN [dated : BOOLEAN, bootedAt : 0 .. MaxTime]
            ELSE Messages(s)

Idle == [pc |-> "idle"]
Reading(s) == [pc : {"save"}, msg : Shown(s), previous : Systems]
Logging == [pc : {"log"}, line : Lines]

TypeOK ==
  /\ clock \in 0 .. MaxTime
  /\ bootedAt \in 0 .. MaxTime
  /\ hostRun \in RunRecords
  /\ hostReboot \in RebootRecords
  /\ hostBench \in 0 .. MaxCommands
  /\ \A s \in Subjects : queue[s] \in Seq(Messages(s))
  /\ \A s \in Subjects : handler[s] \in {Idle} \cup Reading(s) \cup Logging
  /\ store \in Systems
  /\ \A l \in Lines : log[l] \in Nat
  /\ unwritten \subseteq Lines
  /\ slowest \in 0 .. MaxTime
  /\ saved \in [run : RunRecords, bench : 0 .. MaxCommands]
  /\ raced \in BOOLEAN
  /\ faults \in 0 .. MaxTroubles
  /\ restarts \in 0 .. MaxTroubles
  /\ deletes \in 0 .. MaxTroubles

Init ==
  /\ clock = 0 /\ bootedAt = 0
  /\ hostRun = NoRun
  /\ hostReboot = NoReboot
  /\ hostBench = 0
  /\ queue = [s \in Subjects |-> <<>>]
  /\ handler = [s \in Subjects |-> Idle]
  /\ store = Unknown
  /\ log = [l \in Lines |-> 0]
  /\ unwritten = {}
  /\ slowest = 0
  /\ saved = [run |-> NoRun, bench |-> 0]
  /\ raced = FALSE
  /\ faults = 0 /\ restarts = 0 /\ deletes = 0

(***************************************************************************)
(* The host publishes.                                                     *)
(***************************************************************************)
Publish(subject, msg) == queue' = [queue EXCEPT ![subject] = Append(@, msg)]

serverState == <<handler, store, written, history, budget>>

\* Commands number their results from one.
MoreCommands == hostRun.id + hostReboot.id + hostBench < MaxCommands

\* A run starts; the one before it has ended or was lost with its client.
StartRun ==
  /\ MoreCommands
  /\ hostRun' = [id |-> hostRun.id + 1, status |-> "running"]
  /\ Publish("update", hostRun')
  /\ UNCHANGED <<time, hostReboot, hostBench, serverState>>

EndRun ==
  /\ hostRun.status = "running"
  /\ hostRun' = [hostRun EXCEPT !.status = "ended"]
  /\ Publish("update", hostRun')
  /\ UNCHANGED <<time, hostReboot, hostBench, serverState>>

StartReboot ==
  /\ MoreCommands
  /\ hostReboot.status = "rebooting" => bootedAt > hostReboot.requestedAt
  /\ hostReboot' =
       [id |-> hostReboot.id + 1, requestedAt |-> clock, status |-> "rebooting"]
  /\ Publish("reboot", hostReboot')
  /\ UNCHANGED <<time, hostRun, hostBench, serverState>>

RebootFails ==
  /\ hostReboot.status = "rebooting"
  /\ bootedAt <= hostReboot.requestedAt
  /\ hostReboot' = [hostReboot EXCEPT !.status = "failed"]
  /\ Publish("reboot", hostReboot')
  /\ UNCHANGED <<time, hostRun, hostBench, serverState>>

Tick ==
  /\ clock < MaxTime
  /\ clock' = clock + 1
  /\ UNCHANGED <<bootedAt, hostRun, hostReboot, hostBench, queue, serverState>>

\* Because of a reboot command, or of something else.  It takes a while.
HostBoots ==
  /\ clock + 1 < MaxTime
  /\ clock' = clock + 1
  /\ bootedAt' = clock'
  /\ UNCHANGED <<hostRun, hostReboot, hostBench, queue, serverState>>

EndBenchmark ==
  /\ MoreCommands
  /\ hostBench' = hostBench + 1
  /\ Publish("benchmark", hostBench')
  /\ UNCHANGED <<time, hostRun, hostReboot, serverState>>

CheckIn(uptimeKnown) ==
  /\ Len(queue["checkin"]) < QueueCap
  /\ Publish("checkin",
       [readAt |-> clock, uptime |-> IF uptimeKnown THEN clock - bootedAt ELSE 0])
  /\ UNCHANGED <<hostState, serverState>>

(***************************************************************************)
(* The subscriptions (server/nats).                                        *)
(***************************************************************************)

TroubleLeft == faults + restarts + deletes < MaxTroubles

\* Slip: a result for a host the store does not have is saved anyway.
MayHandle_Anyone(s) == TRUE

\* The server's clock less the uptime, if the check-in has one.
Dated(s, msg) ==
  IF s = "checkin"
  THEN [dated |-> msg.uptime # 0, bootedAt |-> clock - msg.uptime]
  ELSE msg

Underway(s, msg) ==
  IF s = "checkin" /\ msg.uptime # 0 THEN clock - msg.readAt ELSE 0

\* A result for an unknown host has nowhere to go; a check-in makes it known.
MayHandle(s) == s = "checkin" \/ store.known

Receive(s) ==
  /\ handler[s] = Idle
  /\ queue[s] # <<>>
  /\ queue' = [queue EXCEPT ![s] = Tail(@)]
  /\ handler' = [handler EXCEPT ![s] =
       IF MayHandle(s)
       THEN [pc |-> "save", msg |-> Dated(s, Head(queue[s])), previous |-> store]
       ELSE Idle]
  /\ slowest' = LET d == Underway(s, Head(queue[s]))
                IN IF d > slowest THEN d ELSE slowest
  /\ UNCHANGED <<hostState, store, written, saved, raced, budget>>

\* Slips: the uptime of a host that has none is subtracted all the same; request
\* and boot are compared the wrong way.
ResolveReboot_ZeroUptime(reboot, msg) ==
  IF /\ reboot.status = "rebooting"
     /\ msg.bootedAt > reboot.requestedAt
  THEN [reboot EXCEPT !.status = "rebooted"]
  ELSE reboot
ResolveReboot_Swapped(reboot, msg) ==
  IF /\ reboot.status = "rebooting"
     /\ msg.dated
     /\ msg.bootedAt < reboot.requestedAt
  THEN [reboot EXCEPT !.status = "rebooted"]
  ELSE reboot

\* resolveReboot: a check-in that shows a boot after the request.
ResolveReboot(reboot, msg) ==
  IF /\ reboot.status = "rebooting"
     /\ msg.dated
     /\ msg.bootedAt > reboot.requestedAt
  THEN [reboot EXCEPT !.status = "rebooted"]
  ELSE reboot

\* Slip: the benchmark is not carried over.
CarryForward_DropsBench(h) ==
  [known |-> TRUE,
   run |-> h.previous.run,
   reboot |-> ResolveReboot(h.previous.reboot, h.msg),
   bench |-> 0]

\* What a check-in keeps of the stored record.  For a first check-in that
\* record is the zero value, which ResolveReboot leaves alone.
CarryForward(h) ==
  [known |-> TRUE,
   run |-> h.previous.run,
   reboot |-> ResolveReboot(h.previous.reboot, h.msg),
   bench |-> h.previous.bench]

Merged(s, h) ==
  CASE s = "checkin" -> CarryForward(h)
    [] s = "update" -> [h.previous EXCEPT !.run = h.msg, !.known = TRUE]
    [] s = "reboot" -> [h.previous EXCEPT !.reboot = h.msg, !.known = TRUE]
    [] s = "benchmark" -> [h.previous EXCEPT !.bench = h.msg, !.known = TRUE]

\* The line that says the host is back is written by the check-in that
\* changed the record.
LogsReboot(h) ==
  /\ h.previous.known
  /\ CarryForward(h).reboot # h.previous.reboot
  /\ CarryForward(h).reboot.status = "rebooted"

\* Slip: only the end of a run goes in the log.
LineToLog_EndsOnly(s, h) ==
  CASE s = "checkin" /\ LogsReboot(h) ->
         {Line("reboot", h.previous.reboot.id, "rebooted")}
    [] s = "update" /\ h.msg.status = "ended" ->
         {Line("update", h.msg.id, h.msg.status)}
    [] s = "reboot" -> {Line("reboot", h.msg.id, h.msg.status)}
    [] s = "benchmark" -> {Line("benchmark", h.msg, "ended")}
    [] OTHER -> {}

\* The operations a handler logs once it has saved: none or one.
LineToLog(s, h) ==
  CASE s = "checkin" -> IF LogsReboot(h)
                        THEN {Line("reboot", h.previous.reboot.id, "rebooted")}
                        ELSE {}
    [] s = "update" -> {Line("update", h.msg.id, h.msg.status)}
    [] s = "reboot" -> {Line("reboot", h.msg.id, h.msg.status)}
    [] s = "benchmark" -> {Line("benchmark", h.msg, "ended")}

Proceed(s, lines) ==
  \/ \E l \in lines :
       handler' = [handler EXCEPT ![s] = [pc |-> "log", line |-> l]]
  \/ lines = {} /\ handler' = [handler EXCEPT ![s] = Idle]

Save(s) ==
  LET h == handler[s] IN
  /\ h.pc = "save"
  /\ store' = Merged(s, h)
  /\ raced' = (raced \/ store # h.previous)
  /\ saved' = CASE s = "update" -> [saved EXCEPT !.run = h.msg]
                [] s = "benchmark" -> [saved EXCEPT !.bench = h.msg]
                [] OTHER -> saved
  /\ Proceed(s, LineToLog(s, h))
  /\ UNCHANGED <<hostState, queue, written, slowest, budget>>

\* A result handler returns on an error; the check-in handler goes on, and
\* logs the reboot it did not manage to save.
SaveFails(s) ==
  LET h == handler[s] IN
  /\ h.pc = "save"
  /\ TroubleLeft
  /\ faults' = faults + 1
  /\ Proceed(s, IF s = "checkin" THEN LineToLog(s, h) ELSE {})
  /\ UNCHANGED <<hostState, queue, store, written, history, restarts, deletes>>

\* logOperation: a line that cannot be written is reported and dropped.
LogOperation(s) ==
  /\ handler[s].pc = "log"
  /\ handler' = [handler EXCEPT ![s] = Idle]
  /\ \/ /\ log' = [log EXCEPT ![handler[s].line] = @ + 1]
        /\ UNCHANGED <<unwritten, faults>>
     \/ /\ TroubleLeft
        /\ faults' = faults + 1
        /\ unwritten' = unwritten \cup {handler[s].line}
        /\ UNCHANGED log
  /\ UNCHANGED <<hostState, queue, store, history, restarts, deletes>>

(***************************************************************************)
(* The rest of the server.                                                 *)
(***************************************************************************)

\* storage.DeleteSystem, for the dashboard.
DeleteSystem ==
  /\ store.known
  /\ TroubleLeft
  /\ deletes' = deletes + 1
  /\ store' = Unknown
  /\ saved' = [run |-> NoRun, bench |-> 0]
  /\ UNCHANGED <<hostState, queue, handler, written, slowest, raced, faults, restarts>>

\* The store is on disk; the handlers and the embedded NATS server, with the
\* messages in it, are not.
ServerRestarts ==
  /\ TroubleLeft
  /\ restarts' = restarts + 1
  /\ queue' = [s \in Subjects |-> <<>>]
  /\ handler' = [s \in Subjects |-> Idle]
  /\ UNCHANGED <<hostState, store, written, history, faults, deletes>>

Handle(s) == Receive(s) \/ Save(s) \/ LogOperation(s)

Next ==
  \/ StartRun \/ EndRun
  \/ StartReboot \/ RebootFails
  \/ Tick \/ HostBoots
  \/ EndBenchmark
  \/ \E u \in BOOLEAN : CheckIn(u)
  \/ \E s \in Subjects : Handle(s) \/ SaveFails(s)
  \/ DeleteSystem
  \/ ServerRestarts

Spec == Init /\ [][Next]_vars

-----------------------------------------------------------------------------
(***************************************************************************)
(* Safety.                                                                 *)
(***************************************************************************)

\* The server marks a reboot done only where the machine really booted after
\* the request, whichever check-in it concludes that from, unless the request
\* came so soon after a boot that a check-in was longer under way than the
\* machine had been up (resolveReboot subtracts an uptime read some time ago).
RebootedMeansBooted ==
  store.reboot.status = "rebooted" =>
    \/ bootedAt > store.reboot.requestedAt
    \/ slowest > store.reboot.requestedAt - bootedAt

\* The record shows what each result subject delivered last: no save puts an
\* older one back, unless two handlers of the host overlapped.
CurrentUnlessRaced ==
  store.known /\ ~raced => /\ store.run = saved.run
                           /\ store.bench = saved.bench

\* A line is in the log, a handler of one of the subjects is about to write it,
\* or it could not be written.
Accounted(l, subjects) ==
  \/ log[l] > 0
  \/ \E s \in subjects : handler[s] = [pc |-> "log", line |-> l]
  \/ l \in unwritten

RunTold(r) == r # NoRun => Accounted(Line("update", r.id, r.status), {"update"})
RebootTold(r) ==
  r # NoReboot => Accounted(Line("reboot", r.id, r.status), {"reboot", "checkin"})

\* Every state of a run or a reboot that the record shows is accounted for, as
\* long as the server is not restarted.
ShownMeansTold == restarts = 0 => RunTold(store.run) /\ RebootTold(store.reboot)

\* No line is in the log twice, but that a host is back where a write failed or
\* handlers overlapped: the record still says "rebooting" to the next check-in.
ToldOnce ==
  \A l \in Lines :
    log[l] > 1 => l.event = "rebooted" /\ (raced \/ faults > 0)

\* What the record shows is in the log, once, or about to be, or the line was
\* reported as one that cannot be written (logOperation after SaveSystem).
ShownMeansLogged == ShownMeansTold /\ ToldOnce

\* A host the server does not know, deleted or never seen, becomes known by
\* checking in.  A result that arrives for it does not bring it back; only one
\* whose handler had read the record before it was deleted does.
OnlyCheckInsAdd ==
  [][~store.known /\ store'.known =>
       \E s \in Subjects :
         /\ handler[s].pc = "save" /\ handler'[s].pc # "save"
         /\ s = "checkin" \/ handler[s].previous.known]_vars

-----------------------------------------------------------------------------
(***************************************************************************)
(* What a comment says, and the interleaving of the handlers breaks.       *)
(***************************************************************************)

\* "carry the last one forward": the record of a run that has ended is not
\* replaced by the record that says it is running.
EndedRunsStayEnded ==
  [][store.run.status = "ended" /\ store'.run.status = "running" =>
       store'.run.id # store.run.id]_vars

-----------------------------------------------------------------------------
(***************************************************************************)
(* Liveness.  Handlers run, and the host keeps checking in, again and      *)
(* again with an uptime.                                                   *)
(***************************************************************************)
FairSpec ==
  /\ Spec
  /\ \A s \in Subjects : WF_vars(Handle(s))
  /\ SF_vars(CheckIn(TRUE))
  /\ WF_vars(Tick)

\* A reboot that happened does not stay "rebooting": not even a lost update
\* of the record keeps a later check-in from noticing.
Overdue ==
  store.reboot.status = "rebooting" /\ bootedAt > store.reboot.requestedAt
RebootsAreNoticed == Overdue ~> ~Overdue

\* A result that reaches a server that knows the host gets its line in the
\* log, overlapping handlers or not, where nothing fails.
RunsAreLogged ==
  \A n \in 1 .. MaxCommands : \A e \in {"running", "ended"} :
    /\ store.known
    /\ \E i \in 1 .. Len(queue["update"]) :
         queue["update"][i] = [id |-> n, status |-> e]
    ~>
      \/ log[Line("update", n, e)] > 0
      \/ deletes > 0 \/ faults > 0 \/ restarts > 0
=============================================================================
