-------------------------- MODULE SystemRecordsProofs --------------------------
(***************************************************************************)
(* The safety of a host's record, for any number of commands and troubles, *)
(* any length of time and any length of the queue of check-ins.            *)
(*                                                                         *)
(* What the store shows is put there by a handler that read it earlier, so *)
(* each part of the invariant says of the records the handlers hold what   *)
(* it says of the one that is stored.                                      *)
(***************************************************************************)
EXTENDS SystemRecords, TLAPS

\* The records a host publishes have a number and a state; only the server makes
\* a reboot "rebooted".
PublishedRuns == [id : 1 .. MaxCommands, status : {"running", "ended"}]
PublishedReboots == [id : 1 .. MaxCommands, requestedAt : 0 .. MaxTime,
                     status : {"rebooting", "failed"}]
KeptReboots == [id : 1 .. MaxCommands, requestedAt : 0 .. MaxTime,
                status : {"rebooting", "rebooted", "failed"}]
KeptSystems == [known : BOOLEAN, run : {NoRun} \cup PublishedRuns,
                reboot : {NoReboot} \cup KeptReboots, bench : 0 .. MaxCommands]

\* The latest boot a check-in can have shown: the last one, dated later by the
\* time the slowest check-in was under way.
Reach == bootedAt + slowest

\* A message of each subject, by now; the uptime of a check-in goes back to no
\* later a boot than the last.
Sent(s, m, now, last) ==
  \/ /\ s = "checkin" /\ m \in CheckIns
     /\ m.uptime <= m.readAt /\ m.readAt <= now
     /\ m.uptime # 0 => m.readAt - m.uptime <= last
  \/ s = "update" /\ m \in PublishedRuns
  \/ s = "reboot" /\ m \in PublishedReboots
  \/ s = "benchmark" /\ m \in 1 .. MaxCommands

\* What a handler holds of it.
Held(s, m, reach) ==
  \/ s = "checkin" /\ m \in Shown("checkin") /\ (m.dated => m.bootedAt <= reach)
  \/ s = "update" /\ m \in PublishedRuns
  \/ s = "reboot" /\ m \in PublishedReboots
  \/ s = "benchmark" /\ m \in 1 .. MaxCommands

\* A reboot called done was asked for before a boot that a check-in can show.
Honest(reboot, reach) == reboot.status = "rebooted" => reach > reboot.requestedAt

\* A handler between its two halves holds a message and a record; the handlers
\* of results hold the record of a host that is known.
Holding(s, h, reach) ==
  /\ h = [pc |-> "save", msg |-> h.msg, previous |-> h.previous]
  /\ Held(s, h.msg, reach)
  /\ h.previous \in KeptSystems
  /\ ~h.previous.known => h.previous = Unknown
  /\ Honest(h.previous.reboot, reach)
  /\ s # "checkin" => h.previous.known

HostInv ==
  /\ clock \in 0 .. MaxTime
  /\ bootedAt \in 0 .. clock
  /\ hostRun \in {NoRun} \cup PublishedRuns
  /\ hostReboot \in {NoReboot} \cup PublishedReboots
  /\ hostBench \in 0 .. MaxCommands

QueueInv ==
  /\ DOMAIN queue = Subjects
  /\ \A s \in Subjects : queue[s] \in Seq(Messages(s))
  /\ \A s \in Subjects : \A i \in 1 .. Len(queue[s]) :
       Sent(s, queue[s][i], clock, bootedAt)

HandlerInv ==
  /\ DOMAIN handler = Subjects
  /\ \A s \in Subjects :
       handler[s] = Idle \/ handler[s] \in Logging \/ Holding(s, handler[s], Reach)

StoreInv ==
  /\ store \in KeptSystems
  /\ Honest(store.reboot, Reach)
  /\ ~store.known => store = Unknown

\* Unless handlers overlapped the store shows what was saved last.
SavedInv ==
  /\ saved \in [run : {NoRun} \cup PublishedRuns, bench : 0 .. MaxCommands]
  /\ raced \in BOOLEAN
  /\ ~raced => store.run = saved.run /\ store.bench = saved.bench

CountsInv ==
  /\ DOMAIN log = Lines
  /\ \A l \in Lines : log[l] \in Nat
  /\ unwritten \subseteq Lines
  /\ slowest \in 0 .. MaxTime
  /\ faults \in 0 .. MaxTroubles
  /\ restarts \in 0 .. MaxTroubles
  /\ deletes \in 0 .. MaxTroubles

RecordInv ==
  HostInv /\ QueueInv /\ HandlerInv /\ StoreInv /\ SavedInv /\ CountsInv

-----------------------------------------------------------------------------

\* The initial state satisfies the invariant.
LEMMA RecordsStart == Init => RecordInv
<1> SUFFICES ASSUME Init PROVE RecordInv
  OBVIOUS
<1> USE RecordBounds DEF RecordBounds, Init
<1>1. HostInv
  BY DEF HostInv
<1>2. QueueInv
  BY DEF QueueInv
<1>3. HandlerInv
  BY DEF HandlerInv
<1>4. StoreInv
  BY DEF StoreInv, KeptSystems, Unknown, Honest, NoReboot
<1>5. SavedInv
  <2>1. raced = FALSE /\ saved = [run |-> NoRun, bench |-> 0]
    OBVIOUS
  <2>2. store.run = NoRun /\ store.bench = 0
    BY DEF Unknown
  <2>3. saved \in [run : {NoRun} \cup PublishedRuns, bench : 0 .. MaxCommands]
    BY <2>1
  <2>4. raced \in BOOLEAN
    BY <2>1
  <2>5. store.run = saved.run /\ store.bench = saved.bench
    BY <2>1, <2>2
  <2>6. QED
    BY <2>3, <2>4, <2>5 DEF SavedInv
<1>6. CountsInv
  BY DEF CountsInv
<1>7. QED
  BY <1>1, <1>2, <1>3, <1>4, <1>5, <1>6 DEF RecordInv

\* A message is one of its subject's, and stays one as the host boots.
LEMMA SentIsTyped ==
  ASSUME NEW s \in Subjects, NEW m, NEW now, NEW last, Sent(s, m, now, last)
  PROVE  m \in Messages(s)
<1>1. CASE s = "checkin"
  BY <1>1 DEF Sent, Messages
<1>2. CASE s = "update"
  BY <1>2 DEF Sent, Messages, PublishedRuns, RunRecords
<1>3. CASE s = "reboot"
  BY <1>3 DEF Sent, Messages, PublishedReboots, RebootRecords
<1>4. CASE s = "benchmark"
  BY <1>4 DEF Sent, Messages
<1>5. QED
  BY <1>1, <1>2, <1>3, <1>4 DEF Subjects

\* So is what a handler holds of it.
LEMMA HeldIsTyped ==
  ASSUME NEW s \in Subjects, NEW m, NEW reach, Held(s, m, reach)
  PROVE  m \in Shown(s)
<1>1. CASE s = "checkin"
  BY <1>1 DEF Held
<1>2. CASE s = "update"
  BY <1>2 DEF Held, Shown, Messages, PublishedRuns, RunRecords
<1>3. CASE s = "reboot"
  BY <1>3 DEF Held, Shown, Messages, PublishedReboots, RebootRecords
<1>4. CASE s = "benchmark"
  BY <1>4 DEF Held, Shown, Messages
<1>5. QED
  BY <1>1, <1>2, <1>3, <1>4 DEF Subjects

\* What was sent stays so as time goes by.
LEMMA SentStays ==
  ASSUME NEW s \in Subjects, NEW m, NEW now \in Nat, NEW later \in Nat,
         NEW last \in Nat, NEW next \in Nat,
         now <= later, last <= next, Sent(s, m, now, last)
  PROVE  Sent(s, m, later, next)
<1>1. CASE s = "checkin"
  BY <1>1 DEF Sent, CheckIns
<1>2. CASE s # "checkin"
  BY <1>2 DEF Sent
<1>3. QED
  BY <1>1, <1>2

\* A reboot told honestly stays so.
LEMMA HonestStays ==
  ASSUME NEW reboot \in {NoReboot} \cup KeptReboots, NEW now \in Nat,
         NEW later \in Nat, now <= later, Honest(reboot, now)
  PROVE  Honest(reboot, later)
BY DEF Honest, KeptReboots, NoReboot

\* So does what a handler holds.
LEMMA HoldingStays ==
  ASSUME NEW s \in Subjects, NEW h, NEW now \in Nat, NEW later \in Nat,
         now <= later, Holding(s, h, now)
  PROVE  Holding(s, h, later)
<1>1. Held(s, h.msg, later)
  <2>1. CASE s = "checkin"
    BY <2>1 DEF Holding, Held, Shown
  <2>2. CASE s # "checkin"
    BY <2>2 DEF Holding, Held
  <2>3. QED
    BY <2>1, <2>2
<1>2. h.previous.reboot \in {NoReboot} \cup KeptReboots
  BY DEF Holding, KeptSystems
<1>3. Honest(h.previous.reboot, later)
  BY <1>2, HonestStays DEF Holding
<1>4. QED
  BY <1>1, <1>3 DEF Holding

\* A check-in shows no later a boot than the last, but for its time under way:
\* the server's clock is ahead of the host's uptime by just that.
LEMMA DatedIsHeld ==
  ASSUME NEW s \in Subjects, NEW m, Sent(s, m, clock, bootedAt),
         clock \in 0 .. MaxTime, bootedAt \in Nat, NEW reach \in Nat,
         reach >= bootedAt + Underway(s, m)
  PROVE  Held(s, Dated(s, m), reach) /\ Underway(s, m) \in 0 .. MaxTime
<1> USE RecordBounds DEF RecordBounds
<1>1. CASE s = "checkin"
  <2>1. /\ m.uptime \in Nat /\ m.readAt \in Nat
        /\ m.uptime <= m.readAt /\ m.readAt <= clock
        /\ m.uptime # 0 => m.readAt - m.uptime <= bootedAt
    BY <1>1 DEF Sent, CheckIns
  <2>2. Dated(s, m) = [dated |-> m.uptime # 0, bootedAt |-> clock - m.uptime]
    BY <1>1 DEF Dated
  <2>3. clock - m.uptime \in 0 .. MaxTime
    BY <2>1
  <2>4. m.uptime # 0 => Underway(s, m) = clock - m.readAt
    BY <1>1 DEF Underway
  <2>5. m.uptime = 0 => Underway(s, m) = 0
    BY DEF Underway
  <2>6. m.uptime # 0 => clock - m.uptime <= reach
    BY <2>1, <2>4
  <2>7. Dated(s, m) \in Shown(s)
    <3>1. Shown(s) = [dated : BOOLEAN, bootedAt : 0 .. MaxTime]
      BY <1>1 DEF Shown
    <3>2. [dated |-> m.uptime # 0, bootedAt |-> clock - m.uptime]
            \in [dated : BOOLEAN, bootedAt : 0 .. MaxTime]
      BY <2>3, Zenon
    <3>3. QED
      BY <2>2, <3>1, <3>2
  <2>8. Held(s, Dated(s, m), reach)
    <3>1. ASSUME NEW p \in BOOLEAN, NEW b
          PROVE  /\ [dated |-> p, bootedAt |-> b].dated <=> p
                 /\ [dated |-> p, bootedAt |-> b].bootedAt = b
      OBVIOUS
    <3>2. Dated(s, m).dated => Dated(s, m).bootedAt <= reach
      <4>1. (m.uptime # 0) \in BOOLEAN
        OBVIOUS
      <4>2. /\ Dated(s, m).dated <=> m.uptime # 0
            /\ Dated(s, m).bootedAt = clock - m.uptime
        BY <2>2, <3>1, <4>1, Zenon
      <4>3. QED
        BY <2>6, <4>2
    <3>3. QED
      BY <1>1, <2>7, <3>2 DEF Held
  <2>9. QED
    BY <2>1, <2>4, <2>5, <2>8
<1>2. CASE s # "checkin"
  BY <1>2 DEF Sent, Held, Dated, Underway
<1>3. QED
  BY <1>1, <1>2

\* What the host publishes is a message of the subject.
LEMMA HostPublishes ==
  ASSUME HostInv,
         StartRun \/ EndRun \/ StartReboot \/ RebootFails \/ EndBenchmark
           \/ \E u \in BOOLEAN : CheckIn(u)
  PROVE  /\ HostInv'
         /\ UNCHANGED <<time, serverState>>
         /\ \E s \in Subjects : \E m :
              Publish(s, m) /\ Sent(s, m, clock, bootedAt)
<1> USE RecordBounds DEF RecordBounds, HostInv, Subjects
<1>1. CASE StartRun
  <2>1. hostRun.id \in Nat /\ hostReboot.id \in Nat
    BY DEF NoRun, NoReboot, PublishedRuns, PublishedReboots
  <2>2. hostRun' \in PublishedRuns
    BY <1>1, <2>1 DEF StartRun, MoreCommands, PublishedRuns
  <2>3. Publish("update", hostRun') /\ Sent("update", hostRun', clock, bootedAt)
    BY <1>1, <2>2 DEF StartRun, Sent
  <2>4. QED
    BY <1>1, <2>2, <2>3 DEF StartRun, time
<1>2. CASE EndRun
  <2>1. hostRun' \in PublishedRuns
    BY <1>2 DEF EndRun, PublishedRuns, NoRun
  <2>2. Publish("update", hostRun') /\ Sent("update", hostRun', clock, bootedAt)
    BY <1>2, <2>1 DEF EndRun, Sent
  <2>3. QED
    BY <1>2, <2>1, <2>2 DEF EndRun, time
<1>3. CASE StartReboot
  <2>1. hostRun.id \in Nat /\ hostReboot.id \in Nat
    BY DEF NoRun, NoReboot, PublishedRuns, PublishedReboots
  <2>2. hostReboot' \in PublishedReboots
    BY <1>3, <2>1 DEF StartReboot, MoreCommands, PublishedReboots
  <2>3. Publish("reboot", hostReboot') /\ Sent("reboot", hostReboot', clock, bootedAt)
    BY <1>3, <2>2 DEF StartReboot, Sent
  <2>4. QED
    BY <1>3, <2>2, <2>3 DEF StartReboot, time
<1>4. CASE RebootFails
  <2>1. hostReboot' \in PublishedReboots
    BY <1>4 DEF RebootFails, PublishedReboots, NoReboot
  <2>2. Publish("reboot", hostReboot') /\ Sent("reboot", hostReboot', clock, bootedAt)
    BY <1>4, <2>1 DEF RebootFails, Sent
  <2>3. QED
    BY <1>4, <2>1, <2>2 DEF RebootFails, time
<1>5. CASE EndBenchmark
  <2>1. hostRun.id \in Nat /\ hostReboot.id \in Nat
    BY DEF NoRun, NoReboot, PublishedRuns, PublishedReboots
  <2>2. hostBench' \in 1 .. MaxCommands
    BY <1>5, <2>1 DEF EndBenchmark, MoreCommands
  <2>3. Publish("benchmark", hostBench') /\ Sent("benchmark", hostBench', clock, bootedAt)
    BY <1>5, <2>2 DEF EndBenchmark, Sent
  <2>4. QED
    BY <1>5, <2>2, <2>3 DEF EndBenchmark, time
<1>6. CASE \E u \in BOOLEAN : CheckIn(u)
  <2>1. PICK u \in BOOLEAN : CheckIn(u)
    BY <1>6
  <2> DEFINE up == IF u THEN clock - bootedAt ELSE 0
             m == [readAt |-> clock, uptime |-> up]
  <2>2. up \in 0 .. MaxTime /\ up <= clock /\ (up # 0 => clock - up <= bootedAt)
    OBVIOUS
  <2> HIDE DEF up
  <2>3. m \in CheckIns
    BY <2>2 DEF CheckIns
  <2>4. Sent("checkin", m, clock, bootedAt)
    BY <2>2, <2>3 DEF Sent
  <2>5. Publish("checkin", m) /\ UNCHANGED <<hostState, serverState>>
    BY <2>1 DEF CheckIn, up
  <2> HIDE DEF m
  <2>6. QED
    BY <2>4, <2>5 DEF hostState, time
<1>7. QED
  BY <1>1, <1>2, <1>3, <1>4, <1>5, <1>6

\* A message published is one that was sent.
LEMMA QueueGrows ==
  ASSUME QueueInv, NEW s \in Subjects, NEW m, Publish(s, m),
         Sent(s, m, clock, bootedAt), UNCHANGED time
  PROVE  QueueInv'
<1>1. m \in Messages(s)
  BY SentIsTyped
<1>2. queue' = [queue EXCEPT ![s] = Append(queue[s], m)]
  BY DEF Publish
<1>3. ASSUME NEW t \in Subjects
      PROVE  /\ queue'[t] \in Seq(Messages(t))
             /\ \A i \in 1 .. Len(queue'[t]) :
                  Sent(t, queue'[t][i], clock', bootedAt')
  <2>1. CASE t = s
    BY <1>1, <1>2, <2>1 DEF QueueInv, time
  <2>2. CASE t # s
    BY <1>2, <2>2 DEF QueueInv, time
  <2>3. QED
    BY <2>1, <2>2
<1>4. QED
  BY <1>2, <1>3 DEF QueueInv, time

\* A message taken off a queue is one that was sent.
LEMMA QueueShrinks ==
  ASSUME QueueInv, NEW s \in Subjects, queue[s] # <<>>, UNCHANGED time,
         queue' = [queue EXCEPT ![s] = Tail(@)]
  PROVE  QueueInv' /\ Sent(s, Head(queue[s]), clock, bootedAt)
<1>1. ASSUME NEW t \in Subjects
      PROVE  /\ queue'[t] \in Seq(Messages(t))
             /\ \A i \in 1 .. Len(queue'[t]) :
                  Sent(t, queue'[t][i], clock', bootedAt')
  <2>1. CASE t = s
    <3>1. queue'[s] = Tail(queue[s])
      BY DEF QueueInv, time
    <3>2. \A i \in 1 .. Len(Tail(queue[s])) : /\ i + 1 \in 1 .. Len(queue[s])
                                              /\ Tail(queue[s])[i] = queue[s][i + 1]
      BY DEF QueueInv, time
    <3>3. QED
      BY <2>1, <3>1, <3>2 DEF QueueInv, time
  <2>2. CASE t # s
    BY <2>2 DEF QueueInv, time
  <2>3. QED
    BY <2>1, <2>2
<1>2. 1 \in 1 .. Len(queue[s]) /\ Head(queue[s]) = queue[s][1]
  BY DEF QueueInv, time
<1>3. QED
  BY <1>1, <1>2 DEF QueueInv, time

\* resolveReboot is honest: it calls a reboot done only on a check-in that shows
\* a boot after the request.
LEMMA ResolveIsHonest ==
  ASSUME NEW reboot \in {NoReboot} \cup KeptReboots, NEW m, NEW now \in Nat,
         Held("checkin", m, now), Honest(reboot, now)
  PROVE  /\ ResolveReboot(reboot, m) \in {NoReboot} \cup KeptReboots
         /\ Honest(ResolveReboot(reboot, m), now)
         /\ reboot = NoReboot => ResolveReboot(reboot, m) = NoReboot
<1>1. m.bootedAt \in Nat /\ (m.dated => m.bootedAt <= now)
  BY DEF Held, Shown
<1>2. CASE reboot = NoReboot
  BY <1>2 DEF ResolveReboot, NoReboot
<1>3. CASE reboot \in KeptReboots
  BY <1>1, <1>3 DEF ResolveReboot, Honest, KeptReboots, NoReboot
<1>4. QED
  BY <1>2, <1>3

\* What a handler saves is a record of the host, as honest as the one it read.
LEMMA MergedIsKept ==
  ASSUME NEW s \in Subjects, NEW h, NEW now \in Nat, Holding(s, h, now)
  PROVE  /\ Merged(s, h) \in KeptSystems
         /\ Merged(s, h).known
         /\ Honest(Merged(s, h).reboot, now)
         /\ Merged(s, h).run = IF s = "update" THEN h.msg ELSE h.previous.run
         /\ Merged(s, h).bench = IF s = "benchmark" THEN h.msg ELSE h.previous.bench
         /\ s = "reboot" => Merged(s, h).reboot = h.msg
         /\ s = "checkin" => Merged(s, h) = CarryForward(h)
         /\ s \notin {"reboot", "checkin"} => Merged(s, h).reboot = h.previous.reboot
<1> USE DEF Holding
<1>1. CASE s = "checkin"
  <2>1. h.previous.reboot \in {NoReboot} \cup KeptReboots
    BY DEF KeptSystems
  <2>2. Merged(s, h) = CarryForward(h)
    BY <1>1 DEF Merged
  <2>3. /\ ResolveReboot(h.previous.reboot, h.msg) \in {NoReboot} \cup KeptReboots
        /\ Honest(ResolveReboot(h.previous.reboot, h.msg), now)
    BY <1>1, <2>1, ResolveIsHonest
  <2>4. h.previous.run \in {NoRun} \cup PublishedRuns
        /\ h.previous.bench \in 0 .. MaxCommands
    BY DEF KeptSystems
  <2>5. CarryForward(h) \in KeptSystems
    BY <2>3, <2>4 DEF CarryForward, KeptSystems
  <2>6. /\ CarryForward(h).known
        /\ CarryForward(h).run = h.previous.run
        /\ CarryForward(h).bench = h.previous.bench
        /\ CarryForward(h).reboot = ResolveReboot(h.previous.reboot, h.msg)
    BY DEF CarryForward
  <2>7. QED
    BY <1>1, <2>2, <2>3, <2>5, <2>6
<1>2. CASE s = "update"
  <2>1. Merged(s, h) = [h.previous EXCEPT !.run = h.msg, !.known = TRUE]
    BY <1>2 DEF Merged
  <2>2. QED
    BY <1>2, <2>1 DEF KeptSystems, Held
<1>3. CASE s = "reboot"
  <2>1. Merged(s, h) = [h.previous EXCEPT !.reboot = h.msg, !.known = TRUE]
    BY <1>3 DEF Merged
  <2>2. h.msg \in PublishedReboots
    BY <1>3 DEF Held
  <2>3. h.msg \in KeptReboots /\ Honest(h.msg, now)
    BY <2>2 DEF PublishedReboots, KeptReboots, Honest
  <2>4. QED
    BY <1>3, <2>1, <2>3 DEF KeptSystems
<1>4. CASE s = "benchmark"
  <2>1. Merged(s, h) = [h.previous EXCEPT !.bench = h.msg, !.known = TRUE]
    BY <1>4 DEF Merged
  <2>2. h.msg \in 0 .. MaxCommands
    BY <1>4 DEF Held
  <2>3. QED
    BY <1>4, <2>1, <2>2 DEF KeptSystems
<1>5. QED
  BY <1>1, <1>2, <1>3, <1>4 DEF Subjects

\* The lines of a handler are lines of the log.
LEMMA LinesAreLines ==
  ASSUME NEW s \in Subjects, NEW h, NEW now \in Nat, Holding(s, h, now)
  PROVE  LineToLog(s, h) \subseteq Lines
<1> USE DEF Holding
<1>1. CASE s = "checkin"
  <2>1. h.previous.reboot \in {NoReboot} \cup KeptReboots
    BY DEF KeptSystems
  <2>2. LogsReboot(h) => h.previous.reboot # NoReboot
    BY <1>1, <2>1, ResolveIsHonest DEF LogsReboot, CarryForward
  <2>3. LogsReboot(h) => Line("reboot", h.previous.reboot.id, "rebooted") \in Lines
    BY <2>1, <2>2 DEF KeptReboots, Line, Lines
  <2>4. QED
    BY <1>1, <2>3 DEF LineToLog
<1>2. CASE s = "update"
  BY <1>2 DEF LineToLog, Held, PublishedRuns, Line, Lines
<1>3. CASE s = "reboot"
  BY <1>3 DEF LineToLog, Held, PublishedReboots, Line, Lines
<1>4. CASE s = "benchmark"
  BY <1>4 DEF LineToLog, Held, Line, Lines
<1>5. QED
  BY <1>1, <1>2, <1>3, <1>4 DEF Subjects

\* What the invariant says of a handler that goes on to its log line, or is done.
LEMMA HandlerProceeds ==
  ASSUME HandlerInv, UNCHANGED Reach, NEW s \in Subjects,
         NEW lines \in SUBSET Lines, Proceed(s, lines)
  PROVE  HandlerInv'
<1>1. /\ DOMAIN handler' = Subjects
      /\ \A t \in Subjects : t # s => handler'[t] = handler[t]
      /\ handler'[s] = Idle \/ handler'[s] \in Logging
  BY DEF Proceed, HandlerInv, Logging
<1>2. QED
  BY <1>1 DEF HandlerInv

\* Every step keeps the invariant.
LEMMA RecordsStay == RecordInv /\ [Next]_vars => RecordInv'
<1> SUFFICES ASSUME RecordInv, [Next]_vars PROVE RecordInv'
  OBVIOUS
<1> USE RecordBounds DEF RecordBounds, RecordInv
<1>0. clock \in Nat /\ bootedAt \in Nat /\ slowest \in Nat /\ Reach \in Nat
  BY DEF HostInv, CountsInv, Reach
<1>1. CASE UNCHANGED vars
  BY <1>1 DEF vars, hostState, time, written, history, budget, Reach, HostInv,
              QueueInv, HandlerInv, StoreInv, SavedInv, CountsInv
<1>2. CASE StartRun \/ EndRun \/ StartReboot \/ RebootFails \/ EndBenchmark
             \/ \E u \in BOOLEAN : CheckIn(u)
  <2>1. HostInv' /\ UNCHANGED <<time, serverState>>
    BY <1>2, HostPublishes
  <2>2. QueueInv'
    BY <1>2, HostPublishes, QueueGrows
  <2>3. QED
    BY <2>1, <2>2 DEF serverState, time, written, history, budget, Reach, HandlerInv,
                      StoreInv, SavedInv, CountsInv
<1>3. CASE Tick \/ HostBoots
  <2>1. /\ clock' = clock + 1 /\ clock' \in 0 .. MaxTime /\ bootedAt' \in 0 .. clock'
        /\ bootedAt <= bootedAt' /\ UNCHANGED <<queue, serverState>>
        /\ UNCHANGED <<hostRun, hostReboot, hostBench>>
    BY <1>0, <1>3 DEF Tick, HostBoots, HostInv
  <2>2. HostInv'
    BY <2>1 DEF HostInv
  <2>3. QueueInv'
    BY <1>0, <2>1, SentStays DEF QueueInv
  <2>4. slowest' = slowest /\ handler' = handler /\ store' = store
    BY <2>1 DEF serverState, history
  <2>5. Reach' \in Nat /\ Reach <= Reach'
    <3>1. bootedAt' \in Nat /\ bootedAt <= bootedAt'
      BY <1>0, <2>1
    <3>2. Reach = bootedAt + slowest /\ Reach' = bootedAt' + slowest
      BY <2>4 DEF Reach
    <3>3. ASSUME NEW x \in Nat, NEW y \in Nat, NEW z \in Nat, x <= y
          PROVE  y + z \in Nat /\ x + z <= y + z
      BY <3>3
    <3>4. bootedAt' + slowest \in Nat /\ bootedAt + slowest <= bootedAt' + slowest
      BY <1>0, <3>1, <3>3
    <3>5. QED
      BY <3>2, <3>4
  <2>6. HandlerInv'
    BY <1>0, <2>4, <2>5, HoldingStays DEF HandlerInv
  <2>7. StoreInv'
    <3>1. store.reboot \in {NoReboot} \cup KeptReboots
      BY DEF StoreInv, KeptSystems
    <3>2. QED
      BY <1>0, <2>4, <2>5, <3>1, HonestStays DEF StoreInv
  <2>8. QED
    BY <2>1, <2>2, <2>3, <2>6, <2>7
       DEF serverState, written, history, budget, SavedInv, CountsInv
<1>4. ASSUME NEW s \in Subjects, Receive(s)
      PROVE  RecordInv'
  <2> DEFINE m == Head(queue[s])
  <2>1. QueueInv' /\ Sent(s, m, clock, bootedAt)
    BY <1>4, QueueShrinks DEF Receive, hostState
  <2>2. bootedAt' = bootedAt /\ store' = store
        /\ slowest' = IF Underway(s, m) > slowest THEN Underway(s, m) ELSE slowest
    BY <1>4 DEF Receive, hostState, time
  <2> HIDE DEF m
  <2>3. clock \in 0 .. MaxTime
    BY DEF HostInv
  <2>4. Underway(s, m) \in 0 .. MaxTime
    <3>1. Underway(s, m) \in Nat
      BY <1>0, <2>1 DEF Underway, Sent, CheckIns
    <3>2. bootedAt + Underway(s, m) \in Nat
      BY <1>0, <3>1
    <3>3. QED
      BY <1>0, <2>1, <2>3, <3>1, <3>2, DatedIsHeld
  <2>5. slowest' \in 0 .. MaxTime /\ slowest <= slowest' /\ Underway(s, m) <= slowest'
    BY <1>0, <2>2, <2>4 DEF CountsInv
  <2>6. /\ Reach' \in Nat /\ Reach <= Reach'
        /\ Reach' >= bootedAt + Underway(s, m)
    BY <1>0, <2>2, <2>4, <2>5 DEF Reach
  <2>7. Held(s, Dated(s, m), Reach')
    BY <1>0, <2>1, <2>3, <2>6, DatedIsHeld
  <2>8. StoreInv'
    <3>1. store.reboot \in {NoReboot} \cup KeptReboots
      BY DEF StoreInv, KeptSystems
    <3>2. QED
      BY <1>0, <2>2, <2>6, <3>1, HonestStays DEF StoreInv
  <2>9. HandlerInv'
    <3>1. ASSUME NEW t \in Subjects
          PROVE  \/ handler[t] = Idle \/ handler[t] \in Logging
                 \/ Holding(t, handler[t], Reach')
      BY <1>0, <2>6, HoldingStays DEF HandlerInv
    <3>2. CASE MayHandle(s)
      <4> DEFINE h == [pc |-> "save", msg |-> Dated(s, m), previous |-> store]
      <4>1. Holding(s, h, Reach')
        BY <2>2, <2>7, <2>8, <3>2 DEF Holding, StoreInv, MayHandle
      <4>2. handler' = [handler EXCEPT ![s] = h]
        BY <1>4, <3>2 DEF Receive, m
      <4> HIDE DEF h
      <4>3. QED
        BY <3>1, <4>1, <4>2 DEF HandlerInv
    <3>3. CASE ~MayHandle(s)
      <4>1. handler' = [handler EXCEPT ![s] = Idle]
        BY <1>4, <3>3 DEF Receive
      <4>2. QED
        BY <3>1, <4>1 DEF HandlerInv
    <3>4. QED
      BY <3>2, <3>3
  <2>10. QED
    BY <1>4, <2>1, <2>5, <2>8, <2>9
       DEF Receive, hostState, time, written, budget, HostInv, SavedInv, CountsInv
<1>5. ASSUME NEW s \in Subjects, Save(s)
      PROVE  RecordInv'
  <2> DEFINE h == handler[s]
  <2>1. Holding(s, h, Reach)
    BY <1>5 DEF Save, HandlerInv, Idle, Logging
  <2>2. HandlerInv'
    BY <1>0, <1>5, <2>1, LinesAreLines, HandlerProceeds DEF Save, hostState, time,
       written, history, Reach
  <2>3. /\ store' = Merged(s, h)
        /\ UNCHANGED <<hostState, queue, written, slowest, budget>>
        /\ UNCHANGED Reach
    BY <1>5 DEF Save, hostState, time, Reach
  <2>4. StoreInv'
    BY <1>0, <2>1, <2>3, MergedIsKept DEF StoreInv, hostState, time, written,
       history, Reach
  <2>5. SavedInv'
    <3> HIDE DEF h
    <3>1. /\ h.previous.run \in {NoRun} \cup PublishedRuns
          /\ h.previous.bench \in 0 .. MaxCommands
      BY <2>1 DEF Holding, KeptSystems
    <3>2. raced' \in BOOLEAN /\ (~raced' => ~raced /\ store = h.previous)
      BY <1>5 DEF Save, SavedInv, h
    <3>3. CASE s = "update"
      <4>1. h.msg \in PublishedRuns
        BY <2>1, <3>3 DEF Holding, Held
      <4>2. saved' = [saved EXCEPT !.run = h.msg]
        BY <1>5, <3>3 DEF Save, h
      <4>3. store'.run = h.msg /\ store'.bench = h.previous.bench
        BY <1>0, <2>1, <2>3, <3>3, MergedIsKept
      <4>4. QED
        BY <3>2, <4>1, <4>2, <4>3 DEF SavedInv
    <3>4. CASE s = "benchmark"
      <4>1. h.msg \in 0 .. MaxCommands
        BY <2>1, <3>4 DEF Holding, Held
      <4>2. saved' = [saved EXCEPT !.bench = h.msg]
        BY <1>5, <3>4 DEF Save, h
      <4>3. store'.bench = h.msg /\ store'.run = h.previous.run
        BY <1>0, <2>1, <2>3, <3>4, MergedIsKept
      <4>4. QED
        BY <3>2, <4>1, <4>2, <4>3 DEF SavedInv
    <3>5. CASE s \notin {"update", "benchmark"}
      <4>1. saved' = saved
        BY <1>5, <3>5 DEF Save
      <4>2. store'.run = h.previous.run /\ store'.bench = h.previous.bench
        BY <1>0, <2>1, <2>3, <3>5, MergedIsKept
      <4>3. QED
        BY <3>2, <4>1, <4>2 DEF SavedInv
    <3>6. QED
      BY <3>3, <3>4, <3>5
  <2>6. QED
    BY <2>2, <2>3, <2>4, <2>5 DEF hostState, time, written, history, Reach, budget,
       HostInv, QueueInv, CountsInv
<1>6. ASSUME NEW s \in Subjects, SaveFails(s)
      PROVE  RecordInv'
  <2>1. Holding(s, handler[s], Reach)
    BY <1>6 DEF SaveFails, HandlerInv, Idle, Logging
  <2>2. HandlerInv'
    BY <1>0, <1>6, <2>1, LinesAreLines, HandlerProceeds DEF SaveFails, hostState,
       time, written, history, Reach
  <2>3. faults' \in 0 .. MaxTroubles
    BY <1>6 DEF SaveFails, TroubleLeft, CountsInv
  <2>4. QED
    BY <1>6, <2>2, <2>3 DEF SaveFails, hostState, time, written, history, Reach,
       HostInv, QueueInv, StoreInv,
                            SavedInv, CountsInv
<1>7. ASSUME NEW s \in Subjects, LogOperation(s)
      PROVE  RecordInv'
  <2>1. HandlerInv'
    BY <1>7 DEF LogOperation, HandlerInv, hostState, time, written, history, Reach
  <2>2. CountsInv'
    <3>1. faults' \in 0 .. MaxTroubles
      BY <1>7 DEF LogOperation, TroubleLeft, CountsInv
    <3>2. handler[s].line \in Lines
      BY <1>7 DEF LogOperation, HandlerInv, Holding, Idle, Logging
    <3>3. unwritten' \subseteq Lines
      BY <1>7, <3>2 DEF LogOperation, CountsInv
    <3>4. DOMAIN log' = Lines /\ \A l \in Lines : log'[l] \in Nat
      BY <1>7, <3>2 DEF LogOperation, CountsInv
    <3>5. QED
      BY <1>7, <3>1, <3>3, <3>4 DEF LogOperation, history, CountsInv
  <2>3. QED
    BY <1>7, <2>1, <2>2 DEF LogOperation, hostState, time, written, history, Reach,
       HostInv, QueueInv, StoreInv,
                            SavedInv
<1>8. CASE DeleteSystem
  <2>1. deletes' \in 0 .. MaxTroubles
    BY <1>8 DEF DeleteSystem, TroubleLeft, CountsInv
  <2>2. StoreInv'
    BY <1>8 DEF DeleteSystem, StoreInv, KeptSystems, Unknown, Honest, NoReboot
  <2>3. SavedInv'
    BY <1>8 DEF DeleteSystem, SavedInv, Unknown
  <2>4. QED
    BY <1>8, <2>1, <2>2, <2>3 DEF DeleteSystem, hostState, time, written, history,
       Reach, HostInv, QueueInv,
                                  HandlerInv, CountsInv
<1>9. CASE ServerRestarts
  <2>1. restarts' \in 0 .. MaxTroubles
    BY <1>9 DEF ServerRestarts, TroubleLeft, CountsInv
  <2>2. QueueInv' /\ HandlerInv'
    BY <1>9 DEF ServerRestarts, QueueInv, HandlerInv
  <2>3. QED
    BY <1>9, <2>1, <2>2 DEF ServerRestarts, hostState, time, written, history, Reach,
       HostInv, StoreInv, SavedInv,
                            CountsInv
<1>10. QED
  BY <1>1, <1>2, <1>3, <1>4, <1>5, <1>6, <1>7, <1>8, <1>9 DEF Next, Handle

\* The inductive invariant of the records, the handlers and the messages between
\* them, for any number of faults, commands and boots.
THEOREM RecordsInvariant == Spec => []RecordInv
BY RecordsStart, RecordsStay, PTL DEF Spec

\* The types of every variable, which the parts of the invariant refine.
THEOREM RecordsTypeCorrect == Spec => []TypeOK
<1>1. RecordInv => TypeOK
  <2> SUFFICES ASSUME RecordInv PROVE TypeOK
    OBVIOUS
  <2> USE DEF RecordInv
  <2>1. hostRun \in RunRecords /\ hostReboot \in RebootRecords
    BY RecordBounds DEF RecordBounds, HostInv, NoRun, NoReboot, RunRecords,
                        RebootRecords, PublishedRuns, PublishedReboots
  <2>2. ASSUME NEW x \in KeptSystems
        PROVE  x \in Systems
    BY <2>2, RecordBounds DEF RecordBounds, KeptSystems, Systems, NoRun, NoReboot,
             RunRecords, RebootRecords, PublishedRuns, KeptReboots
  <2>3. \A s \in Subjects : handler[s] \in {Idle} \cup Reading(s) \cup Logging
    <3>1. ASSUME NEW s \in Subjects, Holding(s, handler[s], Reach)
          PROVE  handler[s] \in Reading(s)
      BY <2>2, <3>1, HeldIsTyped DEF Holding, Reading
    <3>2. QED
      BY <3>1 DEF HandlerInv
  <2>4. saved \in [run : RunRecords, bench : 0 .. MaxCommands]
    BY RecordBounds DEF RecordBounds, SavedInv, NoRun, RunRecords, PublishedRuns
  <2>5. bootedAt \in 0 .. MaxTime
    BY RecordBounds DEF RecordBounds, HostInv
  <2>6. QED
    BY <2>1, <2>2, <2>3, <2>4, <2>5 DEF TypeOK, HostInv, QueueInv, StoreInv, SavedInv,
                                  CountsInv
<1>2. QED
  BY <1>1, RecordsInvariant, PTL

\* The server calls a reboot done only where the machine really booted after the
\* request, whichever check-in it concludes that from and however many others
\* were under way or lost, unless the request came so soon after a boot that a
\* check-in was longer under way than the machine had been up (resolveReboot).
THEOREM RebootsReallyHappened == Spec => []RebootedMeansBooted
<1>1. RecordInv => RebootedMeansBooted
  <2>1. ASSUME RecordInv, store.reboot.status = "rebooted"
        PROVE  slowest > store.reboot.requestedAt - bootedAt
    <3>1. store.reboot.requestedAt \in Nat
      BY <2>1, RecordBounds
         DEF RecordBounds, RecordInv, StoreInv, KeptSystems, KeptReboots, NoReboot
    <3>2. bootedAt \in Nat /\ slowest \in Nat
      BY <2>1 DEF RecordInv, HostInv, CountsInv
    <3>3. bootedAt + slowest > store.reboot.requestedAt
      BY <2>1 DEF RecordInv, StoreInv, Honest, Reach
    <3>4. QED
      BY <3>1, <3>2, <3>3
  <2>2. QED
    BY <2>1 DEF RebootedMeansBooted
<1>2. QED
  BY <1>1, RecordsInvariant, PTL

\* No save puts back an older result than the one that was saved last, unless
\* two handlers of the host overlapped (SaveSystem writes the record whole).
THEOREM RecordsAreCurrent == Spec => []CurrentUnlessRaced
<1>1. RecordInv => CurrentUnlessRaced
  BY DEF RecordInv, SavedInv, CurrentUnlessRaced
<1>2. QED
  BY <1>1, RecordsInvariant, PTL

\* A result that arrives for a host the server does not know, deleted or never
\* seen, does not bring it in: the step that makes a host known is a check-in's,
\* or that of a result whose handler had read the record before it was deleted.
THEOREM ResultsAddNoHost == Spec => OnlyCheckInsAdd
<1> DEFINE Step ==
      ~store.known /\ store'.known =>
        \E s \in Subjects :
          /\ handler[s].pc = "save" /\ handler'[s].pc # "save"
          /\ s = "checkin" \/ handler[s].previous.known
<1>1. ASSUME RecordInv, [Next]_vars
      PROVE  [Step]_vars
  <2> SUFFICES ASSUME ~store.known, store'.known, store' # store
               PROVE  \E s \in Subjects :
                        /\ handler[s].pc = "save" /\ handler'[s].pc # "save"
                        /\ s = "checkin" \/ handler[s].previous.known
    BY DEF vars
  <2>1. PICK s \in Subjects : Save(s)
    BY <1>1 DEF Next, Handle, StartRun, EndRun, StartReboot, RebootFails, Tick,
       HostBoots,
       EndBenchmark, CheckIn, Receive, SaveFails, LogOperation, DeleteSystem,
       ServerRestarts, serverState, vars, Unknown
  <2>2. Holding(s, handler[s], Reach) /\ handler[s].pc = "save"
    BY <1>1, <2>1 DEF Save, RecordInv, HandlerInv, Idle, Logging
  <2>3. s = "checkin" \/ handler[s].previous.known
    BY <2>2 DEF Holding
  <2>4. handler'[s].pc # "save"
    BY <1>1, <2>1 DEF Save, Proceed, RecordInv, HandlerInv, Idle
  <2>5. QED
    BY <2>2, <2>3, <2>4
<1>2. QED
  BY <1>1, RecordsInvariant, PTL DEF Spec, OnlyCheckInsAdd

-----------------------------------------------------------------------------
(***************************************************************************)
(* What the record shows is in the log, or about to be.                    *)
(***************************************************************************)

\* Where the server was not restarted, every record that is stored or held was
\* stored once, and is told of.
LogInv ==
  restarts = 0 =>
    /\ RunTold(store.run) /\ RebootTold(store.reboot)
    /\ \A s \in Subjects : handler[s].pc = "save" =>
         RunTold(handler[s].previous.run) /\ RebootTold(handler[s].previous.reboot)

\* No step but a restart of the server loses a line that is accounted for.
LEMMA AccountedStays ==
  ASSUME RecordInv, [Next]_vars, ~ServerRestarts, NEW l \in Lines,
         NEW subjects \in SUBSET Subjects, Accounted(l, subjects)
  PROVE  Accounted(l, subjects)'
<1> USE DEF Accounted
<1>1. CASE UNCHANGED <<log, unwritten, handler>>
  BY <1>1
<1>2. ASSUME NEW s \in Subjects, LogOperation(s)
      PROVE  Accounted(l, subjects)'
  <2>1. /\ handler[s].line \in Lines
        /\ handler' = [handler EXCEPT ![s] = Idle]
        /\ \/ log' = [log EXCEPT ![handler[s].line] = @ + 1] /\ unwritten' = unwritten
           \/ log' = log /\ unwritten' = unwritten \cup {handler[s].line}
    BY <1>2 DEF LogOperation, RecordInv, HandlerInv, Holding, Idle, Logging
  <2>2. (log[l] > 0 => log'[l] > 0) /\ unwritten \subseteq unwritten'
    BY <2>1 DEF RecordInv, CountsInv
  <2>3. CASE handler[s] = [pc |-> "log", line |-> l]
    BY <2>1, <2>3 DEF RecordInv, CountsInv
  <2>4. CASE handler[s] # [pc |-> "log", line |-> l]
    BY <2>1, <2>2, <2>4 DEF RecordInv, HandlerInv
  <2>5. QED
    BY <2>3, <2>4
<1>3. ASSUME NEW s \in Subjects, Receive(s) \/ Save(s) \/ SaveFails(s)
      PROVE  Accounted(l, subjects)'
  <2>1. log' = log /\ unwritten' = unwritten
        /\ \A t \in Subjects : t # s => handler'[t] = handler[t]
    BY <1>3 DEF Receive, Save, SaveFails, Proceed, RecordInv, HandlerInv, written
  <2>2. handler[s].pc # "log"
    BY <1>3 DEF Receive, Save, SaveFails, Idle
  <2>3. QED
    BY <2>1, <2>2
<1>4. QED
  BY <1>1, <1>2, <1>3 DEF Next, Handle, StartRun, EndRun, StartReboot, RebootFails,
     Tick, HostBoots, EndBenchmark, CheckIn, DeleteSystem, serverState, hostState, time, written, history, vars

\* The log forgets nothing but by a restart of the server.
LEMMA ToldStays ==
  ASSUME RecordInv, [Next]_vars, ~ServerRestarts, NEW system \in KeptSystems
  PROVE  /\ RunTold(system.run) => RunTold(system.run)'
         /\ RebootTold(system.reboot) => RebootTold(system.reboot)'
<1>1. system.run # NoRun => Line("update", system.run.id, system.run.status) \in Lines
  BY DEF KeptSystems, PublishedRuns, Line, Lines
<1>2. system.reboot # NoReboot =>
        Line("reboot", system.reboot.id, system.reboot.status) \in Lines
  BY DEF KeptSystems, KeptReboots, Line, Lines
<1>3. {"update"} \in SUBSET Subjects /\ {"reboot", "checkin"} \in SUBSET Subjects
  BY DEF Subjects
<1>4. RunTold(system.run) => RunTold(system.run)'
  BY <1>1, <1>3, AccountedStays DEF RunTold
<1>5. RebootTold(system.reboot) => RebootTold(system.reboot)'
  BY <1>2, <1>3, AccountedStays DEF RebootTold
<1>6. QED
  BY <1>4, <1>5

\* A handler that saves a record also accounts for what it has put there.
LEMMA SaveTells ==
  ASSUME RecordInv, LogInv, restarts = 0, [Next]_vars, ~ServerRestarts,
         NEW s \in Subjects, Save(s)
  PROVE  RunTold(store.run)' /\ RebootTold(store.reboot)'
<1>1. Holding(s, handler[s], Reach) /\ handler[s].pc = "save" /\ Reach \in Nat
  BY DEF Save, RecordInv, HandlerInv, HostInv, CountsInv, Reach, Idle, Logging
<1>2. PICK h : h = handler[s]
  OBVIOUS
<1>3. store' = Merged(s, h) /\ Proceed(s, LineToLog(s, h))
  BY <1>2 DEF Save
<1>4. /\ h.previous \in KeptSystems
      /\ RunTold(h.previous.run) /\ RebootTold(h.previous.reboot)
  BY <1>1, <1>2 DEF LogInv, Holding
<1>5. RunTold(h.previous.run)' /\ RebootTold(h.previous.reboot)'
  BY <1>4, ToldStays
<1>6. ASSUME NEW l, LineToLog(s, h) = {l}
      PROVE  handler'[s] = [pc |-> "log", line |-> l]
  BY <1>3, <1>6 DEF Proceed, RecordInv, HandlerInv
<1>7. RunTold(store.run)'
  <2>1. CASE s = "update"
    <3>1. store'.run = h.msg
      BY <1>1, <1>2, <1>3, <2>1, MergedIsKept
    <3>2. LineToLog(s, h) = {Line("update", h.msg.id, h.msg.status)}
      BY <2>1 DEF LineToLog
    <3>3. handler'["update"] =
            [pc |-> "log", line |-> Line("update", h.msg.id, h.msg.status)]
      BY <1>6, <2>1, <3>2
    <3>4. QED
      BY <3>1, <3>3 DEF RunTold, Accounted
  <2>2. CASE s # "update"
    <3>1. store'.run = h.previous.run
      BY <1>1, <1>2, <1>3, <2>2, MergedIsKept
    <3>2. QED
      BY <1>5, <3>1 DEF RunTold
  <2>3. QED
    BY <2>1, <2>2
<1>8. RebootTold(store.reboot)'
  <2>1. CASE s = "reboot"
    <3>1. store'.reboot = h.msg
      BY <1>1, <1>2, <1>3, <2>1, MergedIsKept
    <3>2. LineToLog(s, h) = {Line("reboot", h.msg.id, h.msg.status)}
      BY <2>1 DEF LineToLog
    <3>3. handler'["reboot"] =
            [pc |-> "log", line |-> Line("reboot", h.msg.id, h.msg.status)]
      BY <1>6, <2>1, <3>2
    <3>4. QED
      BY <3>1, <3>3 DEF RebootTold, Accounted
  <2>2. CASE s = "checkin" /\ LogsReboot(h)
    <3>1. store' = CarryForward(h)
      BY <1>1, <1>2, <1>3, <2>2, MergedIsKept
    <3>2. /\ store'.reboot.status = "rebooted"
          /\ store'.reboot.id = h.previous.reboot.id
      BY <2>2, <3>1, <1>4
         DEF LogsReboot, CarryForward, ResolveReboot, KeptSystems, KeptReboots, NoReboot
    <3>3. LineToLog(s, h) = {Line("reboot", h.previous.reboot.id, "rebooted")}
      BY <2>2 DEF LineToLog
    <3>4. handler'["checkin"] =
            [pc |-> "log", line |-> Line("reboot", h.previous.reboot.id, "rebooted")]
      BY <1>6, <2>2, <3>3
    <3>5. QED
      BY <3>2, <3>4 DEF RebootTold, Accounted
  <2>3. CASE s # "reboot" /\ ~(s = "checkin" /\ LogsReboot(h))
    <3>1. store'.reboot = h.previous.reboot
      <4>1. CASE s = "checkin"
        <5>1. store'.reboot = ResolveReboot(h.previous.reboot, h.msg)
          BY <1>1, <1>2, <1>3, <4>1, MergedIsKept DEF CarryForward
        <5>2. CASE h.previous.known
          BY <2>3, <4>1, <5>1, <5>2
             DEF LogsReboot, CarryForward, ResolveReboot
        <5>3. CASE ~h.previous.known
          BY <1>1, <1>2, <5>1, <5>3 DEF Holding, Unknown, ResolveReboot, NoReboot
        <5>4. QED
          BY <5>2, <5>3
      <4>2. CASE s # "checkin"
        BY <1>1, <1>2, <1>3, <2>3, <4>2, MergedIsKept
      <4>3. QED
        BY <4>1, <4>2
    <3>2. QED
      BY <1>5, <3>1 DEF RebootTold
  <2>4. QED
    BY <2>1, <2>2, <2>3
<1>9. QED
  BY <1>7, <1>8

\* Every step keeps what is shown told.
LEMMA LogStays == RecordInv /\ LogInv /\ [Next]_vars => LogInv'
<1> SUFFICES ASSUME RecordInv, LogInv, [Next]_vars, restarts' = 0
             PROVE  /\ RunTold(store.run)' /\ RebootTold(store.reboot)'
                    /\ \A s \in Subjects : handler'[s].pc = "save" =>
                         /\ RunTold(handler[s].previous.run)'
                         /\ RebootTold(handler[s].previous.reboot)'
  BY DEF LogInv
<1>1. ~ServerRestarts /\ restarts = 0
  <2>1. restarts \in Nat
    BY DEF RecordInv, CountsInv
  <2>2. ~ServerRestarts
    BY <2>1 DEF ServerRestarts
  <2>3. restarts' = restarts
    BY <2>2 DEF Next, Handle, StartRun, EndRun, StartReboot, RebootFails, Tick,
       HostBoots,
       EndBenchmark, CheckIn, Receive, Save, SaveFails, LogOperation, DeleteSystem,
       serverState, hostState, time, written, history, budget, vars
  <2>4. QED
    BY <2>2, <2>3
<1>2. ASSUME NEW x \in KeptSystems, RunTold(x.run), RebootTold(x.reboot)
      PROVE  RunTold(x.run)' /\ RebootTold(x.reboot)'
  BY <1>1, <1>2, ToldStays
<1>3. RunTold(store.run) /\ RebootTold(store.reboot) /\ store \in KeptSystems
  BY <1>1 DEF LogInv, RecordInv, StoreInv
<1>4. PICK x \in KeptSystems : x = store
  BY <1>3
<1>5. RunTold(x.run)' /\ RebootTold(x.reboot)'
  BY <1>2, <1>3, <1>4
<1>6. RunTold(store.run)' /\ RebootTold(store.reboot)'
  <2>1. CASE store' = store
    BY <1>4, <1>5, <2>1 DEF RunTold, RebootTold
  <2>2. CASE store' = Unknown
    BY <2>2 DEF Unknown, RunTold, RebootTold
  <2>3. CASE \E s \in Subjects : Save(s)
    BY <1>1, <2>3, SaveTells
  <2>4. QED
    BY <2>1, <2>2, <2>3 DEF Next, Handle, StartRun, EndRun, StartReboot, RebootFails,
       Tick, HostBoots, EndBenchmark, CheckIn, Receive, SaveFails, LogOperation,
       DeleteSystem, ServerRestarts, serverState, hostState, time, written, history, vars
<1>7. ASSUME NEW s \in Subjects, handler'[s].pc = "save"
      PROVE  RunTold(handler[s].previous.run)' /\ RebootTold(handler[s].previous.reboot)'
  <2>1. CASE handler'[s] = handler[s]
    <3>1. /\ handler[s].previous \in KeptSystems
          /\ RunTold(handler[s].previous.run) /\ RebootTold(handler[s].previous.reboot)
      BY <1>1, <1>7, <2>1 DEF LogInv, RecordInv, HandlerInv, Holding, Idle, Logging
    <3>2. PICK y \in KeptSystems : y = handler[s].previous
      BY <3>1
    <3>3. RunTold(y.run)' /\ RebootTold(y.reboot)'
      BY <1>2, <3>1, <3>2
    <3>4. QED
      BY <2>1, <3>2, <3>3 DEF RunTold, RebootTold
  <2>2. CASE handler'[s] # handler[s]
    <3>1. PICK t \in Subjects : Receive(t) \/ Save(t) \/ SaveFails(t) \/ LogOperation(t)
      BY <1>1, <2>2 DEF Next, Handle, StartRun, EndRun, StartReboot, RebootFails,
         Tick, HostBoots, EndBenchmark, CheckIn, DeleteSystem, serverState, hostState, time, written, history, vars
    <3>2. t = s
      BY <2>2, <3>1 DEF Receive, Save, SaveFails, LogOperation, Proceed, RecordInv,
                        HandlerInv
    <3>3. ~LogOperation(s)
      BY <1>7 DEF LogOperation, RecordInv, HandlerInv, Idle
    <3>4. ~Save(s) /\ ~SaveFails(s)
      BY <1>7 DEF Save, SaveFails, Proceed, RecordInv, HandlerInv, Idle
    <3>5. Receive(s)
      BY <3>1, <3>2, <3>3, <3>4
    <3>6. handler'[s].previous = x
      BY <1>4, <1>7, <3>5 DEF Receive, RecordInv, HandlerInv, Idle
    <3>7. QED
      BY <1>5, <3>6 DEF RunTold, RebootTold
  <2>3. QED
    BY <2>1, <2>2
<1>8. QED
  BY <1>6, <1>7

\* Every state of a run or of a reboot that the dashboard can see has its line in
\* the operations log, or a handler is about to write it, or it could not be
\* written and was reported (logOperation after SaveSystem), as long as the server
\* runs on.
THEOREM RecordsAreTold == Spec => []ShownMeansTold
<1>1. Init => LogInv
  BY DEF Init, LogInv, RunTold, RebootTold, Unknown, Idle
<1>2. LogInv => ShownMeansTold
  BY DEF LogInv, ShownMeansTold
<1>3. QED
  BY <1>1, <1>2, LogStays, RecordsInvariant, PTL DEF Spec
=============================================================================
