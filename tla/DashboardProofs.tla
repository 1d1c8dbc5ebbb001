--------------------------- MODULE DashboardProofs ----------------------------
(***************************************************************************)
(* What the dashboard shows and offers, for any number of records saved,   *)
(* presses, troubles and messages the channel holds.                       *)
(***************************************************************************)
EXTENDS Dashboard, SequenceTheorems, FiniteSetTheorems, TLAPS

\* The records saved so far, the newest last.
Newest == Len(saves)

-----------------------------------------------------------------------------
(***************************************************************************)
(* The parts of a record.                                                  *)
(***************************************************************************)

\* The bounds are numbers.
LEMMA Bounds ==
  /\ MaxSaves \in Nat \ {0} /\ MaxPresses \in Nat /\ MaxTroubles \in Nat
  /\ ChannelCap \in Nat \ {0}
BY DashboardBounds

\* What a record is made of.
LEMMA Parts ==
  ASSUME NEW r \in Records
  PROVE  /\ r.checked \in Numbers /\ r.need \in BOOLEAN
         /\ r.run \in RunRecords /\ r.reboot \in RebootRecords
         /\ r.run.id \in Numbers /\ r.reboot.id \in Numbers
BY DEF Records, RunRecords, RebootRecords

\* Every number of the store is that of a record, 0 that of none.
LEMMA RecordTyped ==
  ASSUME TypeOK, NEW n \in 0 .. Newest
  PROVE  Record(n) \in Records
<1>1. Blank \in Records
  BY Bounds DEF Blank, Records, RunRecords, RebootRecords, Numbers
<1>2. n # 0 => saves[n] \in Records
  BY DEF TypeOK, Newest
<1> QED
  BY <1>1, <1>2 DEF Record

\* A record with new parts.
LEMMA NewRun ==
  ASSUME NEW r \in Records, NEW run \in RunRecords
  PROVE  /\ [r EXCEPT !.run = run] \in Records
         /\ [r EXCEPT !.run = run].checked = r.checked
         /\ [r EXCEPT !.run = run].reboot = r.reboot
BY DEF Records

\* A record given another reboot is a record.
LEMMA NewReboot ==
  ASSUME NEW r \in Records, NEW reboot \in RebootRecords
  PROVE  /\ [r EXCEPT !.reboot = reboot] \in Records
         /\ [r EXCEPT !.reboot = reboot].checked = r.checked
         /\ [r EXCEPT !.reboot = reboot].reboot = reboot
BY DEF Records

\* A record whose run is settled is a record.
LEMMA NewRunStatus ==
  ASSUME NEW r \in Records, NEW s \in {"none", "running", "ended"}
  PROVE  /\ [r EXCEPT !.run.status = s] \in Records
         /\ [r EXCEPT !.run.status = s].checked = r.checked
         /\ [r EXCEPT !.run.status = s].reboot = r.reboot
<1> DEFINE run == [r.run EXCEPT !.status = s]
<1>1. run \in RunRecords
  BY Parts DEF RunRecords
<1>2. [r EXCEPT !.run.status = s] = [r EXCEPT !.run = run]
  OBVIOUS
<1> HIDE DEF run
<1> QED
  BY <1>1, <1>2, NewRun

\* A record whose reboot is settled is a record of the same reboot.
LEMMA NewRebootStatus ==
  ASSUME NEW r \in Records, NEW s \in {"none", "rebooting", "rebooted", "failed"}
  PROVE  /\ [r EXCEPT !.reboot.status = s] \in Records
         /\ [r EXCEPT !.reboot.status = s].checked = r.checked
         /\ [r EXCEPT !.reboot.status = s].reboot.id = r.reboot.id
         /\ [r EXCEPT !.reboot.status = s].reboot.status = s
<1> DEFINE reboot == [r.reboot EXCEPT !.status = s]
<1>1. reboot \in RebootRecords /\ reboot.id = r.reboot.id /\ reboot.status = s
  BY Parts DEF RebootRecords
<1>2. [r EXCEPT !.reboot.status = s] = [r EXCEPT !.reboot = reboot]
  OBVIOUS
<1> DEFINE new == [r EXCEPT !.reboot = reboot]
<1> HIDE DEF reboot
<1>3. new \in Records /\ new.checked = r.checked /\ new.reboot = reboot
  BY <1>1, NewReboot
<1>4. new.reboot.id = r.reboot.id /\ new.reboot.status = s
  BY <1>1, <1>3
<1>5. [r EXCEPT !.reboot.status = s] = new
  BY <1>2
<1> HIDE DEF new
<1> QED
  BY <1>3, <1>4, <1>5

-----------------------------------------------------------------------------
(***************************************************************************)
(* What each message of the host makes of the stored record.               *)
(***************************************************************************)
Busy(h) == handling[h] # Idle
Made(h) == handling[h].record

\* A handler that takes a message is not busy, and there is room for a record.
LEMMA ReadyMeans ==
  ASSUME TypeOK, NEW h \in Handlers, Ready(h)
  PROVE  ~Busy(h) /\ Newest \in 1 .. MaxSaves - 1
<1> DEFINE S == {g \in Handlers : handling[g] # Idle}
<1>1. IsFiniteSet(Handlers)
  <2>1. /\ IsFiniteSet({"checkin"}) /\ IsFiniteSet({"run"})
        /\ IsFiniteSet({"reboot"})
    BY FS_Singleton
  <2>2. IsFiniteSet({"checkin"} \cup {"run"})
    BY <2>1, FS_Union
  <2>3. IsFiniteSet(({"checkin"} \cup {"run"}) \cup {"reboot"})
    BY <2>1, <2>2, FS_Union
  <2>4. Handlers = ({"checkin"} \cup {"run"}) \cup {"reboot"}
    BY DEF Handlers
  <2>5. QED
    BY <2>3, <2>4
<1>2. S \subseteq Handlers
  OBVIOUS
<1>3. IsFiniteSet(S)
  BY <1>1, <1>2, FS_Subset
<1>4. Cardinality(S) \in Nat
  BY <1>3, FS_CardinalityType
<1>5. Len(saves) + Cardinality(S) < MaxSaves /\ ~Busy(h)
  BY DEF Ready, Busy
<1> HIDE DEF S
<1>6. Len(saves) \in 1 .. MaxSaves
  BY DEF TypeOK
<1>7. Len(saves) \in 1 .. MaxSaves - 1
  BY <1>4, <1>5, <1>6, Bounds
<1>8. QED
  BY <1>5, <1>7 DEF Newest

\* What a handler that takes a message has in hand.
LEMMA Merges ==
  ASSUME TypeOK, NEW h \in Handlers, NEW r \in Records, Merge(h, r),
         Newest \in 1 .. MaxSaves - 1
  PROVE  /\ handling' \in [Handlers ->
                            [read : Numbers, next : Numbers, record : Records]]
         /\ \A g \in Handlers : g # h => handling'[g] = handling[g]
         /\ handling'[h] = [read |-> store, next |-> Newest + 1, record |-> r]
         /\ handling'[h] # Idle
<1> DEFINE new == [read |-> store, next |-> Newest + 1, record |-> r]
<1>1. /\ handling \in [Handlers ->
                        [read : Numbers, next : Numbers, record : Records]]
      /\ store \in 0 .. Newest
  BY DEF TypeOK, Newest
<1>2. handling' = [handling EXCEPT ![h] = new]
  BY DEF Merge, NextNumber, Newest
<1>3. store \in Numbers /\ Newest + 1 \in Numbers /\ Newest + 1 # 0
  BY <1>1, Bounds DEF Numbers
<1>4. new \in [read : Numbers, next : Numbers, record : Records]
  BY <1>3
<1>5. new # Idle
  <2>1. new.next # 0 /\ Idle.next = 0
    BY <1>3 DEF Idle
  <2>2. QED
    BY <2>1
<1> HIDE DEF new
<1>6. QED
  BY <1>1, <1>2, <1>4, <1>5 DEF new

\* A check-in has its own number and may settle the reboot of a host that seems
\* to be back, but begins none.
LEMMA CheckInMerges ==
  ASSUME TypeOK, NEW asked \in BOOLEAN, NEW back \in BOOLEAN,
         CheckIn(asked, back)
  PROVE  \E r \in Records :
           /\ Merge("checkin", r)
           /\ r.checked = Newest + 1
           /\ r.reboot.id = Record(store).reboot.id
           /\ ~back => r.reboot.status = Record(store).reboot.status
<1> DEFINE old == Record(store)
           status == IF back THEN "rebooted" ELSE old.reboot.status
           r == [old EXCEPT !.checked = NextNumber, !.need = needy,
                            !.reboot.status = status]
<1>1. Merge("checkin", r)
  BY DEF CheckIn
<1>2. old \in Records
  BY RecordTyped DEF TypeOK, Newest
<1>3. NextNumber \in Numbers /\ needy \in BOOLEAN
  <2>1. "checkin" \in Handlers /\ Ready("checkin")
    BY DEF CheckIn, Handlers
  <2>2. Newest \in 1 .. MaxSaves - 1
    BY <2>1, ReadyMeans
  <2>3. QED
    BY <2>2, Bounds DEF TypeOK, Numbers, NextNumber, Newest
<1>4. status \in {"none", "rebooting", "rebooted", "failed"}
  BY <1>2, Parts DEF RebootRecords
<1>5. ~back => status = old.reboot.status
  OBVIOUS
<1> HIDE DEF old, status
<1>6. /\ r \in Records
      /\ r.checked = NextNumber /\ r.reboot.id = old.reboot.id
      /\ r.reboot.status = status
  <2> DEFINE q == [old EXCEPT !.checked = NextNumber, !.need = needy]
             z == [q EXCEPT !.reboot.status = status]
  <2>1. q \in Records /\ q.checked = NextNumber /\ q.reboot = old.reboot
    BY <1>2, <1>3 DEF Records
  <2>2. r = z
    OBVIOUS
  <2> HIDE DEF q, r
  <2>3. z \in Records /\ z.checked = q.checked
    BY <1>4, <2>1, NewRebootStatus
  <2>4. z.reboot.id = q.reboot.id /\ z.reboot.status = status
    BY <1>4, <2>1, NewRebootStatus
  <2> HIDE DEF z
  <2>5. QED
    BY <2>1, <2>2, <2>3, <2>4
<1>7. QED
  BY <1>1, <1>5, <1>6 DEF NextNumber, Newest, old

\* A message of a run leaves the other parts as they are, or is dropped for want
\* of a host.
LEMMA RunMerges ==
  ASSUME TypeOK, RunStarts \/ RunEnds
  PROVE  \/ \E r \in Records : /\ Merge("run", r) /\ store # 0
                               /\ r.checked = Record(store).checked
                               /\ r.reboot = Record(store).reboot
         \/ UNCHANGED handling
<1> DEFINE old == Record(store)
<1>1. old \in Records
  BY RecordTyped DEF TypeOK, Newest
<1>2. Newest \in 1 .. MaxSaves - 1
  BY ReadyMeans DEF RunStarts, RunEnds, Result, Handlers
<1>3. CASE RunStarts
  <2> DEFINE run == [id |-> NextNumber, status |-> "running"]
             r == [old EXCEPT !.run = run]
  <2>1. run \in RunRecords
    BY <1>2, Bounds DEF RunRecords, Numbers, NextNumber, Newest
  <2>2. (Merge("run", r) /\ store # 0) \/ UNCHANGED handling
    BY <1>3 DEF RunStarts, Result
  <2> HIDE DEF old, run
  <2>3. /\ r \in Records /\ r.checked = old.checked /\ r.reboot = old.reboot
    BY <1>1, <2>1, NewRun
  <2>4. QED
    BY <2>2, <2>3 DEF old
<1>4. CASE RunEnds
  <2> DEFINE run == [id |-> begun.run, status |-> "ended"]
             r == [old EXCEPT !.run = run]
  <2>1. run \in RunRecords
    BY DEF TypeOK, RunRecords
  <2>2. (Merge("run", r) /\ store # 0) \/ UNCHANGED handling
    BY <1>4 DEF RunEnds, Result
  <2> HIDE DEF old, run
  <2>3. /\ r \in Records /\ r.checked = old.checked /\ r.reboot = old.reboot
    BY <1>1, <2>1, NewRun
  <2>4. QED
    BY <2>2, <2>3 DEF old
<1>5. QED
  BY <1>3, <1>4

\* A message of a reboot leaves the check-in as it is and has the reboot the
\* host began last, or is dropped for want of a host.
LEMMA RebootMerges ==
  ASSUME TypeOK, RebootStarts \/ RebootFails
  PROVE  \/ \E r \in Records :
              /\ Merge("reboot", r) /\ store # 0
              /\ r.checked = Record(store).checked
              /\ r.reboot.id = begun'.reboot
              /\ RebootStarts => r.reboot.status = "rebooting"
              /\ RebootFails => r.reboot.status = "failed"
         \/ store = 0 /\ UNCHANGED handling
<1> DEFINE old == Record(store)
<1>1. old \in Records
  BY RecordTyped DEF TypeOK, Newest
<1>2. Newest \in 1 .. MaxSaves - 1
  BY ReadyMeans DEF RebootStarts, RebootFails, Result, Handlers
<1>3. ~(RebootStarts /\ RebootFails)
  <2>1. RebootStarts => "down" \in host'
    BY DEF RebootStarts
  <2>2. RebootFails => ~("down" \in host')
    BY DEF RebootFails
  <2>3. QED
    BY <2>1, <2>2
<1>4. CASE RebootStarts
  <2> DEFINE reboot == [id |-> NextNumber, status |-> "rebooting"]
             r == [old EXCEPT !.reboot = reboot]
  <2>1. reboot \in RebootRecords
    BY <1>2, Bounds DEF RebootRecords, Numbers, NextNumber, Newest
  <2>2. \/ Merge("reboot", r) /\ store # 0
        \/ store = 0 /\ UNCHANGED handling
    BY <1>4 DEF RebootStarts, Result
  <2>3. begun'.reboot = NextNumber
    BY <1>4 DEF RebootStarts, TypeOK
  <2>4. reboot.id = begun'.reboot /\ reboot.status = "rebooting"
    BY <2>3
  <2> HIDE DEF old, reboot
  <2>5. r \in Records /\ r.checked = old.checked /\ r.reboot = reboot
    BY <1>1, <2>1, NewReboot
  <2>6. QED
    BY <1>3, <1>4, <2>2, <2>4, <2>5 DEF old
<1>5. CASE RebootFails
  <2> DEFINE reboot == [id |-> begun.reboot, status |-> "failed"]
             r == [old EXCEPT !.reboot = reboot]
  <2>1. reboot \in RebootRecords
    BY DEF TypeOK, RebootRecords
  <2>2. \/ Merge("reboot", r) /\ store # 0
        \/ store = 0 /\ UNCHANGED handling
    BY <1>5 DEF RebootFails, Result
  <2>3. begun' = begun
    BY <1>5 DEF RebootFails
  <2>4. reboot.id = begun'.reboot /\ reboot.status = "failed"
    BY <2>3
  <2> HIDE DEF old, reboot
  <2>5. r \in Records /\ r.checked = old.checked /\ r.reboot = reboot
    BY <1>1, <2>1, NewReboot
  <2>6. QED
    BY <1>3, <1>5, <2>2, <2>4, <2>5 DEF old
<1>6. QED
  BY <1>4, <1>5

\* Whatever the host sends, one handler takes it, with a record or without.
LEMMA HostMerges ==
  ASSUME TypeOK, HostStep
  PROVE  /\ UNCHANGED <<server, behind, raced, page>>
         /\ \/ UNCHANGED handling
            \/ /\ Newest \in 1 .. MaxSaves - 1
               /\ \E h \in Handlers : \E r \in Records : Merge(h, r)
<1>1. "checkin" \in Handlers /\ "run" \in Handlers /\ "reboot" \in Handlers
  BY DEF Handlers
<1>2. UNCHANGED <<server, behind, raced, page>>
  BY DEF HostStep, CheckIn, RunStarts, RunEnds, RebootStarts, RebootFails,
         HostBoots, Result, handlers
<1>3. ASSUME NEW asked \in BOOLEAN, NEW back \in BOOLEAN, CheckIn(asked, back)
      PROVE  /\ Newest \in 1 .. MaxSaves - 1
             /\ \E r \in Records : Merge("checkin", r)
  <2>1. Ready("checkin")
    BY <1>3 DEF CheckIn
  <2>2. QED
    BY <1>1, <1>3, <2>1, ReadyMeans, CheckInMerges
<1>4. CASE RunStarts \/ RunEnds
  <2>1. Ready("run")
    BY <1>4 DEF RunStarts, RunEnds, Result
  <2>2. QED
    BY <1>1, <1>2, <1>4, <2>1, ReadyMeans, RunMerges
<1>5. CASE RebootStarts \/ RebootFails
  <2>1. Ready("reboot")
    BY <1>5 DEF RebootStarts, RebootFails, Result
  <2>2. QED
    BY <1>1, <1>2, <1>5, <2>1, ReadyMeans, RebootMerges
<1>6. CASE HostBoots
  BY <1>2, <1>6 DEF HostBoots, handlers
<1>7. QED
  BY <1>1, <1>2, <1>3, <1>4, <1>5, <1>6 DEF HostStep

-----------------------------------------------------------------------------
(***************************************************************************)
(* Types.                                                                  *)
(***************************************************************************)

\* The newest record is on its way to the page.
InChannel == \E i \in 1 .. Len(channel) : channel[i] = store
OnItsWay == InChannel \/ store \in writing

\* What SaveSystem leaves behind: a newest record, which is in the channel or
\* missed.
LEMMA SaveGrows ==
  ASSUME TypeOK, NEW r \in Records, SaveSystem(r)
  PROVE  /\ Newest' = Newest + 1 /\ store' = Newest + 1
         /\ Newest \in 1 .. MaxSaves - 1
         /\ saves' \in Seq(Records)
         /\ \A n \in 1 .. Newest : saves'[n] = saves[n]
         /\ saves'[Newest + 1] = r
         /\ channel' \in Seq(1 .. Newest + 1) /\ Len(channel') <= ChannelCap
         /\ behind' \in BOOLEAN
         /\ ~behind' => ~behind /\ InChannel'
<1>1. /\ saves \in Seq(Records) /\ Len(saves) \in 1 .. MaxSaves
      /\ channel \in Seq(1 .. Newest) /\ Len(channel) <= ChannelCap
      /\ behind \in BOOLEAN
  BY DEF TypeOK, Newest
<1>2. /\ Len(saves) < MaxSaves /\ saves' = Append(saves, r)
      /\ store' = Len(saves')
  BY DEF SaveSystem
<1>3. /\ Newest' = Newest + 1 /\ store' = Newest + 1
      /\ Newest \in 1 .. MaxSaves - 1 /\ saves' \in Seq(Records)
      /\ \A n \in 1 .. Newest : saves'[n] = saves[n]
      /\ saves'[Newest + 1] = r
  BY <1>1, <1>2, Bounds DEF Newest
<1>4. channel \in Seq(1 .. Newest + 1)
  <2>1. 1 .. Newest \subseteq 1 .. Newest + 1
    BY <1>3
  <2>2. QED
    BY <1>1, <2>1, SeqMonotonic
<1>5. CASE Len(channel) < ChannelCap
  <2>1. channel' = Append(channel, store') /\ behind' = behind
    BY <1>5 DEF SaveSystem
  <2>2. /\ channel' \in Seq(1 .. Newest + 1) /\ Len(channel') = Len(channel) + 1
        /\ channel'[Len(channel) + 1] = store'
    BY <1>3, <1>4, <2>1
  <2>3. InChannel'
    BY <1>1, <2>2 DEF InChannel
  <2>4. QED
    BY <1>1, <1>3, <1>5, <2>1, <2>2, <2>3, Bounds
<1>6. CASE ~(Len(channel) < ChannelCap)
  BY <1>1, <1>3, <1>4, <1>6 DEF SaveSystem
<1>7. QED
  BY <1>5, <1>6

HostWork == {"checkin", "update", "running", "reboot", "down"}

\* The record that a handler saves, and what becomes of the rest.
LEMMA Saves ==
  ASSUME TypeOK, NEW h \in Handlers, Save(h)
  PROVE  /\ Made(h) \in Records /\ SaveSystem(Made(h))
         /\ handling' \in [Handlers ->
                            [read : Numbers, next : Numbers, record : Records]]
         /\ handling'[h] = Idle /\ Busy(h)
         /\ \A g \in Handlers : g # h => handling'[g] = handling[g]
         /\ raced' \in BOOLEAN
         /\ ~raced' => /\ ~raced /\ handling[h].read = store
                       /\ handling[h].next = Newest + 1
         /\ UNCHANGED <<hostVars, page, unsure>>
<1>1. handling \in [Handlers ->
                     [read : Numbers, next : Numbers, record : Records]]
  BY DEF TypeOK
<1>2. Idle \in [read : Numbers, next : Numbers, record : Records]
  <2>1. Blank \in Records /\ 0 \in Numbers
    BY Bounds DEF Blank, Records, RunRecords, RebootRecords, Numbers
  <2>2. QED
    BY <2>1 DEF Idle
<1>3. handling' = [handling EXCEPT ![h] = Idle] /\ handling[h] # Idle
  BY DEF Save
<1>4. raced' = (\/ raced \/ handling[h].read # store
                \/ handling[h].next # Newest + 1)
  BY DEF Save, NextNumber, Newest
<1>5. raced' \in BOOLEAN
  BY <1>4 DEF TypeOK
<1>6. SaveSystem(Made(h)) /\ UNCHANGED <<hostVars, page, unsure>>
  BY DEF Save, Made
<1>7. QED
  BY <1>1, <1>2, <1>3, <1>4, <1>5, <1>6 DEF Made, Busy

\* A save keeps the types of what the page and the server have.
LEMMA SavedTypes ==
  ASSUME TypeOK, NEW h \in Handlers, Save(h)
  PROVE  TypeOK'
<1>1. /\ writing \subseteq 1 .. Newest /\ row \in 0 .. Newest
      /\ list \in [pc : {"asked", "read", "shown"}, answer : 0 .. Newest]
  BY DEF TypeOK, Newest
<1>2. /\ Newest' = Newest + 1 /\ store' = Newest + 1
      /\ Newest \in 1 .. MaxSaves - 1
      /\ saves' \in Seq(Records)
      /\ channel' \in Seq(1 .. Newest + 1) /\ Len(channel') <= ChannelCap
      /\ behind' \in BOOLEAN
  BY Saves, SaveGrows
<1>3. /\ handling' \in [Handlers ->
                         [read : Numbers, next : Numbers, record : Records]]
      /\ raced' \in BOOLEAN /\ UNCHANGED <<hostVars, page, unsure>>
  BY Saves
<1>4. /\ writing' \subseteq 1 .. Newest' /\ row' \in 0 .. Newest'
      /\ list' \in [pc : {"asked", "read", "shown"}, answer : 0 .. Newest']
  BY <1>1, <1>2, <1>3 DEF page, feed
<1>5. QED
  BY <1>2, <1>3, <1>4, Bounds DEF TypeOK, page, feed, controls, hostVars, Newest

\* What the host does keeps the types.
LEMMA HostTypes ==
  ASSUME TypeOK, HostStep
  PROVE  TypeOK'
<1>1. UNCHANGED <<server, behind, raced, page>>
  BY HostMerges
<1>2. handling' \in [Handlers ->
                      [read : Numbers, next : Numbers, record : Records]]
  <2>1. CASE UNCHANGED handling
    BY <2>1 DEF TypeOK
  <2>2. ASSUME NEW h \in Handlers, NEW r \in Records, Merge(h, r),
               Newest \in 1 .. MaxSaves - 1
        PROVE  handling' \in [Handlers ->
                              [read : Numbers, next : Numbers, record : Records]]
    BY <2>2, Merges
  <2>3. QED
    BY <2>1, <2>2, HostMerges
<1>3. host' \subseteq HostWork /\ needy' \in BOOLEAN /\ unsure' \in BOOLEAN
  BY DEF HostStep, CheckIn, RunStarts, RunEnds, RebootStarts, RebootFails,
         HostBoots, Result, TypeOK, HostWork
<1>4. begun' \in [run : Numbers, reboot : Numbers]
  <2>1. CASE RunStarts \/ RebootStarts
    <3>1. Newest \in 1 .. MaxSaves - 1
      BY <2>1, ReadyMeans DEF RunStarts, RebootStarts, Result, Handlers
    <3>2. NextNumber \in Numbers
      BY <3>1, Bounds DEF Numbers, NextNumber, Newest
    <3>3. QED
      BY <2>1, <3>2 DEF RunStarts, RebootStarts, TypeOK
  <2>2. CASE ~(RunStarts \/ RebootStarts)
    <3>1. begun' = begun
      BY <2>2
      DEF HostStep, CheckIn, RunEnds, RebootFails, HostBoots
    <3>2. QED
      BY <3>1 DEF TypeOK
  <2>3. QED
    BY <2>1, <2>2
<1>5. QED
  BY <1>1, <1>2, <1>3, <1>4
  DEF TypeOK, server, page, feed, controls, HostWork

\* The marks of the page: free, or held since some record.
LEMMA MarksTyped ==
  /\ Free \in Marks /\ ~Free.held
  /\ \A t \in Numbers : Held(t) \in Marks /\ Held(t).held /\ Held(t).told = t
BY DEF Free, Held, Marks

\* What the page goes by is the number of a record, or 0.
LEMMA ToldTyped ==
  ASSUME TypeOK, NEW k \in Kinds
  PROVE  Told(k) \in Numbers
<1>1. Record(row) \in Records
  BY RecordTyped DEF TypeOK, Newest
<1>2. Record(row).checked \in Numbers /\ Record(row).reboot.id \in Numbers
  BY <1>1, Parts
<1>3. 0 \in Numbers
  BY Bounds DEF Numbers
<1>4. QED
  BY <1>2, <1>3, DashboardBounds DEF Told

\* A button that is held has been told of a record.
LEMMA HeldKnows ==
  ASSUME NEW m \in Marks, m.held
  PROVE  m.told \in Numbers
<1>1. m # Free
  BY DEF Free
<1>2. QED
  BY <1>1 DEF Marks

\* One button changes.
LEMMA MarkMoves ==
  ASSUME marks \in [Kinds -> Marks], NEW k \in Kinds, NEW m \in Marks, Mark(k, m)
  PROVE  /\ marks' \in [Kinds -> Marks]
         /\ \A l \in Kinds : marks'[l] = IF l = k THEN m ELSE marks[l]
BY DEF Mark

\* One request goes on.
LEMMA PressMoves ==
  ASSUME TypeOK, NEW i \in Requested,
         NEW pc \in {"sent", "accepted", "refused", "answered"},
         presses' = [presses EXCEPT ![i].pc = pc]
  PROVE  /\ presses' \in Seq(Requests) /\ Len(presses') = Len(presses)
         /\ \A j \in Requested :
              /\ presses'[j].kind = presses[j].kind
              /\ presses'[j].group = presses[j].group
              /\ presses'[j].pc = IF j = i THEN pc ELSE presses[j].pc
<1> DEFINE p == [presses[i] EXCEPT !.pc = pc]
<1>1. presses' = [presses EXCEPT ![i] = p]
  OBVIOUS
<1>2. presses \in Seq(Requests) /\ presses[i] \in Requests
  BY DEF TypeOK, Requested
<1>3. /\ p \in Requests /\ p.kind = presses[i].kind
      /\ p.group = presses[i].group /\ p.pc = pc
  BY <1>2 DEF Requests
<1> HIDE DEF p
<1>4. presses' \in Seq(Requests) /\ Len(presses') = Len(presses)
  BY <1>1, <1>2, <1>3 DEF Requested
<1>5. \A j \in Requested : presses'[j] = IF j = i THEN p ELSE presses[j]
  BY <1>1, <1>2 DEF Requested
<1>6. QED
  BY <1>3, <1>4, <1>5

\* One more request is made.
LEMMA AskAppends ==
  ASSUME TypeOK, NEW k \in Kinds, NEW g \in BOOLEAN, Ask(k, g)
  PROVE  /\ presses' \in Seq(Requests) /\ Len(presses') = Len(presses) + 1
         /\ Len(presses') <= MaxPresses
         /\ \A j \in Requested : presses'[j] = presses[j]
         /\ presses'[Len(presses) + 1] = [kind |-> k, group |-> g, pc |-> "sent"]
<1> DEFINE p == [kind |-> k, group |-> g, pc |-> "sent"]
<1>1. p \in Requests
  BY DEF Requests
<1>2. /\ presses \in Seq(Requests) /\ Len(presses) < MaxPresses
      /\ presses' = Append(presses, p)
  BY DEF TypeOK, Ask
<1> HIDE DEF p
<1>3. QED
  BY <1>1, <1>2, Bounds DEF Requested, p

\* Every step keeps every variable to its type.
LEMMA DashboardTypes == ASSUME TypeOK, [Next]_vars PROVE TypeOK'
<1>1. ASSUME HostStep PROVE TypeOK'
  BY <1>1, HostTypes
<1>2. ASSUME NEW h \in Handlers, Save(h) PROVE TypeOK'
  BY <1>2, SavedTypes
<1>3. ASSUME Relay PROVE TypeOK'
  <2>1. /\ channel \in Seq(1 .. Len(saves)) /\ channel # <<>>
        /\ channel' = Tail(channel)
    BY <1>3 DEF Relay, TypeOK
  <2>2. /\ channel' \in Seq(1 .. Len(saves)) /\ Len(channel') = Len(channel) - 1
        /\ Head(channel) \in 1 .. Len(saves)
    BY <2>1, HeadTailProperties
  <2>3. Len(channel') <= ChannelCap
    BY <2>1, <2>2, Bounds, LenProperties DEF TypeOK
  <2>4. writing' \subseteq 1 .. Len(saves) /\ behind' \in BOOLEAN
    BY <1>3, <2>2 DEF Relay, TypeOK
  <2>5. QED
    BY <1>3, <2>2, <2>3, <2>4 DEF Relay, TypeOK, handlers, hostVars, controls
<1>4. ASSUME Connect PROVE TypeOK'
  BY <1>4 DEF Connect, TypeOK, elsewhere, server, handlers, hostVars, controls
<1>5. ASSUME Disconnect PROVE TypeOK'
  <2>1. troubles' \in 0 .. MaxTroubles /\ behind' \in BOOLEAN
    BY <1>5, Bounds DEF Disconnect, TypeOK
  <2>2. QED
    BY <1>5, <2>1
    DEF Disconnect, TypeOK, elsewhere, server, handlers, hostVars, controls
<1>6. ASSUME GetSystems PROVE TypeOK'
  BY <1>6
  DEF GetSystems, TypeOK, elsewhere, server, handlers, hostVars, controls
<1>7. ASSUME ShowList PROVE TypeOK'
  BY <1>7 DEF ShowList, TypeOK, elsewhere, server, handlers, hostVars, controls
<1>8. ASSUME ListFails PROVE TypeOK'
  <2>1. troubles' \in 0 .. MaxTroubles /\ behind' \in BOOLEAN
    BY <1>8, Bounds DEF ListFails, TypeOK
  <2>2. list' \in [pc : {"asked", "read", "shown"}, answer : 0 .. Len(saves)]
    BY <1>8 DEF ListFails, TypeOK
  <2>3. QED
    BY <1>8, <2>1, <2>2
    DEF ListFails, TypeOK, elsewhere, server, handlers, hostVars, controls
<1>9. ASSUME DeleteSystem PROVE TypeOK'
  <2>1. deletion' \in [pc : {"none", "sent", "done", "failed"}, gone : Numbers]
    <3>1. store \in Numbers
      BY Bounds DEF TypeOK, Numbers
    <3>2. \/ deletion' = [pc |-> "done", gone |-> store]
          \/ deletion' = [deletion EXCEPT !.pc = "failed"]
      BY <1>9 DEF DeleteSystem
    <3>3. CASE deletion' = [pc |-> "done", gone |-> store]
      BY <3>1, <3>3
    <3>4. CASE deletion' = [deletion EXCEPT !.pc = "failed"]
      <4>1. deletion \in [pc : {"none", "sent", "done", "failed"},
                          gone : Numbers]
        BY DEF TypeOK
      <4>2. QED
        BY <3>4, <4>1
    <3>5. QED
      BY <3>2, <3>3, <3>4
  <2>2. store' \in 0 .. Len(saves) /\ unsure' \in BOOLEAN
    <3>1. CASE Forget
      BY <3>1 DEF Forget, TypeOK
    <3>2. CASE UNCHANGED <<elsewhere, unsure>>
      BY <3>2 DEF elsewhere, server, TypeOK
    <3>3. QED
      BY <1>9, <3>1, <3>2 DEF DeleteSystem
  <2>3. /\ UNCHANGED <<saves, channel, handlers, hostVars, feed, controls, late>>
        /\ UNCHANGED <<behind, troubles>>
    BY <1>9 DEF DeleteSystem, Forget, elsewhere, server
  <2>4. QED
    BY <2>1, <2>2, <2>3 DEF TypeOK, handlers, hostVars, feed, controls
<1>10. ASSUME DeletedElsewhere PROVE TypeOK'
  <2>1. deletion' \in [pc : {"none", "sent", "done", "failed"}, gone : Numbers]
    <3>1. store \in Numbers
      BY Bounds DEF TypeOK, Numbers
    <3>2. deletion' = [deletion EXCEPT !.gone = store]
      BY <1>10 DEF DeletedElsewhere
    <3>3. QED
      BY <3>1, <3>2 DEF TypeOK
  <2>2. store' \in 0 .. Len(saves) /\ unsure' \in BOOLEAN
    BY <1>10 DEF DeletedElsewhere, Forget, TypeOK
  <2>3. UNCHANGED <<saves, channel, handlers, hostVars, feed, controls, late>>
    BY <1>10 DEF DeletedElsewhere, Forget
  <2>4. behind' \in BOOLEAN /\ troubles' \in 0 .. MaxTroubles
    BY <1>10, Bounds DEF DeletedElsewhere, TypeOK
  <2>5. QED
    BY <2>1, <2>2, <2>3, <2>4 DEF TypeOK, handlers, hostVars, feed, controls
<1>11. ASSUME Remove PROVE TypeOK'
  <2>1. /\ deletion' \in [pc : {"none", "sent", "done", "failed"}, gone : Numbers]
        /\ troubles' \in 0 .. MaxTroubles
    <3>1. deletion' = [deletion EXCEPT !.pc = "sent"]
      BY <1>11 DEF Remove
    <3>2. troubles' \in 0 .. MaxTroubles
      BY <1>11, Bounds DEF Remove, TypeOK
    <3>3. QED
      BY <3>1, <3>2 DEF TypeOK
  <2>2. QED
    BY <1>11, <2>1
    DEF Remove, TypeOK, elsewhere, server, handlers, hostVars, feed, controls
<1>12. ASSUME Removed PROVE TypeOK'
  <2>1. /\ deletion' \in [pc : {"none", "sent", "done", "failed"}, gone : Numbers]
        /\ row' \in 0 .. Len(saves)
    <3>1. deletion' = [deletion EXCEPT !.pc = "none"] /\ row' \in {0, row}
      BY <1>12 DEF Removed
    <3>2. /\ deletion \in [pc : {"none", "sent", "done", "failed"}, gone : Numbers]
          /\ row \in 0 .. Len(saves) /\ Len(saves) \in Nat
      BY DEF TypeOK
    <3>3. row' \in 0 .. Len(saves)
      BY <3>1, <3>2
    <3>4. QED
      BY <3>1, <3>2, <3>3
  <2>2. behind' \in BOOLEAN
    BY <1>12 DEF Removed, TypeOK
  <2>3. QED
    BY <1>12, <2>1, <2>2
    DEF Removed, TypeOK, elsewhere, server, handlers, hostVars, controls
<1>13. ASSUME NEW i \in Requested, RequestAction(i) PROVE TypeOK'
  <2>1. presses[i].kind \in HostWork
    <3>1. presses[i] \in Requests
      <4>1. presses \in Seq(Requests) /\ i \in 1 .. Len(presses)
        BY DEF TypeOK, Requested
      <4>2. QED
        BY <4>1, ElementOfSeq
    <3>2. QED
      BY <3>1, DashboardBounds DEF Requests, HostWork
  <2>2. host' \subseteq HostWork
    BY <1>13, <2>1 DEF RequestAction, TypeOK, HostWork
  <2>3. presses' \in Seq(Requests) /\ Len(presses') = Len(presses)
    BY <1>13, PressMoves DEF RequestAction
  <2>4. QED
    BY <1>13, <2>2, <2>3
    DEF RequestAction, TypeOK, server, handlers, feed, HostWork
<1>14. ASSUME NEW i \in Requested, Answered(i) PROVE TypeOK'
  <2>1. presses' \in Seq(Requests) /\ Len(presses') = Len(presses)
    BY <1>14, PressMoves DEF Answered
  <2>2. marks' \in [Kinds -> Marks]
    <3>1. marks' = marks \/ marks' = [marks EXCEPT ![presses[i].kind] = Free]
      BY <1>14 DEF Answered, Release, Mark
    <3>2. marks \in [Kinds -> Marks]
      BY DEF TypeOK
    <3>3. QED
      BY <3>1, <3>2, MarksTyped
  <2>3. timers' \in Nat /\ unsure' \in BOOLEAN
    BY <1>14 DEF Answered, TypeOK
  <2>4. QED
    BY <1>14, <2>1, <2>2, <2>3
    DEF Answered, TypeOK, elsewhere, server, handlers, hostVars, feed
<1>15. ASSUME NEW i \in Requested, GroupAnswered(i) PROVE TypeOK'
  <2>1. presses' \in Seq(Requests) /\ Len(presses') = Len(presses)
    BY <1>15, PressMoves DEF GroupAnswered
  <2>2. presses[i].kind \in Kinds
    <3>1. presses[i] \in Requests
      <4>1. presses \in Seq(Requests) /\ i \in 1 .. Len(presses)
        BY DEF TypeOK, Requested
      <4>2. QED
        BY <4>1, ElementOfSeq
    <3>2. QED
      BY <3>1 DEF Requests
  <2>3. marks' \in [Kinds -> Marks]
    <3>1. Held(Told(presses[i].kind)) \in Marks
      BY <2>2, MarksTyped, ToldTyped
    <3>2. QED
      BY <1>15, <2>2, <3>1 DEF GroupAnswered, Mark, TypeOK
  <2>4. QED
    BY <1>15, <2>1, <2>3
    DEF GroupAnswered, TypeOK, elsewhere, server, handlers, hostVars, feed
<1>16. ASSUME NEW n \in writing, OnMessage(n) PROVE TypeOK'
  <2>1. marks' \in [Kinds -> Marks]
    BY <1>16, MarksTyped DEF OnMessage, TypeOK
  <2>2. behind' \in BOOLEAN /\ unsure' \in BOOLEAN
    BY <1>16 DEF OnMessage, TypeOK
  <2>3. writing' \subseteq 1 .. Len(saves) /\ row' \in 0 .. Len(saves)
    BY <1>16 DEF OnMessage, Shown, TypeOK
  <2>4. QED
    BY <1>16, <2>1, <2>2, <2>3
    DEF OnMessage, TypeOK, elsewhere, server, handlers, hostVars
<1>17. ASSUME NEW k \in Kinds, Press(k) PROVE TypeOK'
  <2>1. /\ presses' \in Seq(Requests) /\ Len(presses') <= MaxPresses
    BY <1>17, AskAppends DEF Press
  <2>2. marks' \in [Kinds -> Marks]
    BY <1>17, MarksTyped, ToldTyped DEF Press, Mark, TypeOK
  <2>3. unsure' \in BOOLEAN
    BY <1>17 DEF Press, TypeOK
  <2>4. QED
    BY <1>17, <2>1, <2>2, <2>3
    DEF Press, TypeOK, elsewhere, server, handlers, hostVars, feed
<1>18. ASSUME NEW k \in Kinds, PressGroup(k) PROVE TypeOK'
  <2>1. /\ presses' \in Seq(Requests) /\ Len(presses') <= MaxPresses
    BY <1>18, AskAppends DEF PressGroup
  <2>2. QED
    BY <1>18, <2>1
    DEF PressGroup, TypeOK, elsewhere, server, handlers, hostVars, feed
<1>19. ASSUME NEW k \in Kinds, GiveUp(k) PROVE TypeOK'
  <2>1. marks' \in [Kinds -> Marks] /\ unsure' \in BOOLEAN
    BY <1>19, MarksTyped DEF GiveUp, Mark, TypeOK
  <2>2. QED
    BY <1>19, <2>1
    DEF GiveUp, TypeOK, elsewhere, server, handlers, hostVars, feed
<1>20. ASSUME UpdateTimer PROVE TypeOK'
  <2>1. timers' \in Nat /\ marks' = [marks EXCEPT !["update"] = Free]
    BY <1>20 DEF UpdateTimer, Mark, TypeOK
  <2>2. marks' \in [Kinds -> Marks]
    BY <2>1, MarksTyped DEF TypeOK
  <2>3. QED
    BY <1>20, <2>1, <2>2
    DEF UpdateTimer, TypeOK, elsewhere, server, handlers, hostVars, feed
<1>21. ASSUME GoesTooLate PROVE TypeOK'
  <2>1. Record(row).run.id \in Numbers /\ Record(row).reboot.id \in Numbers
    BY RecordTyped, Parts DEF TypeOK, Newest
  <2>2. late' \in [run : Numbers, reboot : Numbers] /\ unsure' \in BOOLEAN
    BY <1>21, <2>1 DEF GoesTooLate, TooLate, TypeOK
  <2>3. QED
    BY <1>21, <2>2
    DEF GoesTooLate, TooLate, TypeOK, elsewhere, server, handlers, hostVars,
        feed, controls
<1>22. QED
  BY <1>1, <1>2, <1>3, <1>4, <1>5, <1>6, <1>7, <1>8, <1>9,
     <1>10, <1>11, <1>12, <1>13, <1>14, <1>15, <1>16, <1>17, <1>18, <1>19,
     <1>20, <1>21
  DEF Next, vars, elsewhere, TypeOK, server, handlers, hostVars, feed, controls

-----------------------------------------------------------------------------
(***************************************************************************)
(* The history of the records.                                             *)
(***************************************************************************)
Id(n) == saves[n].reboot.id

\* A check-in or a reboot of a record came with it or before it.
NumbersInv ==
  \A n \in 1 .. Newest : saves[n].checked \in 0 .. n /\ Id(n) \in 0 .. n

\* The newest record is the stored one, or was deleted.
StoreInv == IF store = 0 THEN deletion.gone = Newest
            ELSE store = Newest /\ deletion.gone < Newest

\* The stored record has the last reboot of this host, unless a handler put
\* back an older one.
LastInv ==
  store # 0 /\ ~raced
  => \A n \in 1 .. Newest : Id(n) <= Id(store) \/ Id(n) <= deletion.gone

\* No record has a later reboot than the one the host began last.
BegunInv ==
  /\ begun.reboot \in 0 .. Newest + 1
  /\ \A n \in 1 .. Newest : Id(n) <= begun.reboot

\* What a handler has in hand is the record it read, but for its own part.
Source(h) == Record(handling[h].read)
InHand(h) ==
  /\ handling[h].read \in 0 .. Newest
  /\ handling[h].next \in 1 .. Newest + 1
  /\ h = "checkin" => /\ Made(h).checked = handling[h].next
                      /\ Made(h).reboot.id = Source(h).reboot.id
  /\ h # "checkin" => /\ handling[h].read # 0
                      /\ Made(h).checked = Source(h).checked
  /\ h = "run" => Made(h).reboot = Source(h).reboot
  /\ h = "reboot" => Made(h).reboot.id = begun.reboot
HandInv == \A h \in Handlers : Busy(h) => InHand(h)

HistoryInv == NumbersInv /\ StoreInv /\ LastInv /\ BegunInv /\ HandInv

\* The parts of every record, read or not, are no later than it.
LEMMA PartsNumbered ==
  ASSUME TypeOK, NumbersInv, BegunInv, NEW n \in 0 .. Newest
  PROVE  /\ Record(n).checked \in 0 .. n /\ Record(n).reboot.id \in 0 .. n
         /\ Record(n).reboot.id <= begun.reboot
<1>1. Newest \in Nat /\ begun.reboot \in Nat
  BY DEF TypeOK, Newest, BegunInv
<1>2. CASE n = 0
  BY <1>1, <1>2 DEF Record, Blank
<1>3. CASE n # 0
  <2>1. n \in 1 .. Newest
    BY <1>1, <1>3
  <2>2. QED
    BY <1>3, <2>1 DEF Record, NumbersInv, BegunInv, Id
<1>4. QED
  BY <1>2, <1>3

\* Steps that touch neither the records nor the handlers.
LEMMA HistoryStays ==
  ASSUME HistoryInv, UNCHANGED <<saves, store, handling, raced, begun>>,
         deletion'.gone = deletion.gone
  PROVE  HistoryInv'
<1>1. NumbersInv' /\ StoreInv' /\ LastInv' /\ BegunInv'
  BY DEF HistoryInv, NumbersInv, StoreInv, LastInv, BegunInv, Id, Newest
<1>2. HandInv'
  BY DEF HistoryInv, HandInv, InHand, Busy, Made, Source, Record, Newest
<1>3. QED
  BY <1>1, <1>2 DEF HistoryInv

\* A message that is taken is in hand.
LEMMA HistoryTakes ==
  ASSUME TypeOK, HistoryInv, HostStep
  PROVE  HistoryInv'
<1>1. UNCHANGED <<server, behind, raced, page>>
  BY HostMerges
<1>2. UNCHANGED <<saves, store, raced, deletion>> /\ Newest' = Newest
  BY <1>1 DEF server, page, Newest
<1>3. \A n : Record(n)' = Record(n)
  BY <1>2 DEF Record
<1>4. store \in 0 .. Newest /\ Newest \in Nat
  BY DEF TypeOK, Newest
<1>5. NumbersInv' /\ StoreInv' /\ LastInv'
  BY <1>2 DEF HistoryInv, NumbersInv, StoreInv, LastInv, Id
<1>6. BegunInv' /\ (RebootStarts \/ begun'.reboot = begun.reboot)
  <2>1. CASE RebootStarts
    <3>1. begun'.reboot = Newest + 1
      BY <2>1 DEF RebootStarts, TypeOK, NextNumber, Newest
    <3>2. \A n \in 1 .. Newest : Id(n)' = Id(n) /\ Id(n) \in 0 .. n
      BY <1>2 DEF HistoryInv, NumbersInv, Id
    <3>3. \A n \in 1 .. Newest : Id(n)' <= Newest + 1
      BY <1>4, <3>2
    <3>4. QED
      BY <1>2, <1>4, <2>1, <3>1, <3>3 DEF BegunInv
  <2>2. CASE ~RebootStarts
    <3>1. begun'.reboot = begun.reboot
      BY <2>2
      DEF HostStep, CheckIn, RunStarts, RunEnds, RebootFails, HostBoots, TypeOK
    <3>2. QED
      BY <1>2, <3>1 DEF BegunInv, HistoryInv, Id
  <2>3. QED
    BY <2>1, <2>2
<1>7. ASSUME NEW h \in Handlers, Busy(h), handling'[h] = handling[h],
             h = "reboot" => begun'.reboot = begun.reboot
      PROVE  InHand(h)'
  <2>1. InHand(h)
    BY <1>7 DEF HistoryInv, HandInv
  <2>2. Made(h)' = Made(h) /\ Source(h)' = Source(h)
    BY <1>3, <1>7 DEF Made, Source
  <2>3. QED
    BY <1>2, <1>7, <2>1, <2>2 DEF InHand
<1>8. ASSUME NEW h \in Handlers, NEW r \in Records, Merge(h, r),
             Newest \in 1 .. MaxSaves - 1
      PROVE  /\ \A g \in Handlers : g # h => handling'[g] = handling[g]
             /\ handling'[h].read = store /\ handling'[h].next = Newest + 1
             /\ Made(h)' = r /\ Source(h)' = Record(store)
  <2>1. /\ \A g \in Handlers : g # h => handling'[g] = handling[g]
        /\ handling'[h] = [read |-> store, next |-> Newest + 1, record |-> r]
    BY <1>8, Merges
  <2>2. QED
    BY <1>3, <2>1 DEF Made, Source
<1>9. ASSUME NEW h \in Handlers, NEW r \in Records, Merge(h, r),
             Newest \in 1 .. MaxSaves - 1,
             h = "checkin" => /\ r.checked = Newest + 1
                              /\ r.reboot.id = Record(store).reboot.id,
             h # "checkin" => store # 0 /\ r.checked = Record(store).checked,
             h = "run" => r.reboot = Record(store).reboot,
             h = "reboot" => r.reboot.id = begun'.reboot,
             h = "reboot" \/ begun'.reboot = begun.reboot
      PROVE  HandInv'
  <2>1. /\ \A g \in Handlers : g # h => handling'[g] = handling[g]
        /\ handling'[h].read = store /\ handling'[h].next = Newest + 1
        /\ Made(h)' = r /\ Source(h)' = Record(store)
    BY <1>8, <1>9
  <2>2. InHand(h)'
    BY <1>2, <1>4, <1>9, <2>1 DEF InHand
  <2>3. ASSUME NEW g \in Handlers, g # h, Busy(g)' PROVE InHand(g)'
    <3>1. handling'[g] = handling[g] /\ Busy(g)
      BY <2>1, <2>3 DEF Busy
    <3>2. g = "reboot" => begun'.reboot = begun.reboot
      BY <1>9, <2>3
    <3>3. QED
      BY <1>7, <3>1, <3>2
  <2>4. QED
    BY <2>2, <2>3 DEF HandInv
<1>10. ASSUME UNCHANGED handling, Busy("reboot") => begun'.reboot = begun.reboot
       PROVE  HandInv'
  <2>1. SUFFICES ASSUME NEW h \in Handlers, Busy(h)' PROVE InHand(h)'
    BY DEF HandInv
  <2>2. handling'[h] = handling[h] /\ Busy(h)
    BY <1>10, <2>1 DEF Busy
  <2>3. QED
    BY <1>7, <1>10, <2>2
<1>11. "checkin" \in Handlers /\ "run" \in Handlers /\ "reboot" \in Handlers
  BY DEF Handlers
<1>12. ASSUME NEW asked \in BOOLEAN, NEW back \in BOOLEAN, CheckIn(asked, back)
       PROVE  HandInv'
  <2>1. Newest \in 1 .. MaxSaves - 1 /\ begun' = begun
    BY <1>11, <1>12, ReadyMeans DEF CheckIn
  <2>2. PICK r \in Records : /\ Merge("checkin", r) /\ r.checked = Newest + 1
                             /\ r.reboot.id = Record(store).reboot.id
    BY <1>12, CheckInMerges
  <2>3. QED
    BY <1>9, <1>11, <2>1, <2>2
<1>13. ASSUME RunStarts \/ RunEnds PROVE HandInv'
  <2>1. Newest \in 1 .. MaxSaves - 1 /\ begun'.reboot = begun.reboot
    <3>1. Ready("run")
      BY <1>13 DEF RunStarts, RunEnds, Result
    <3>2. begun'.reboot = begun.reboot
      BY <1>13 DEF RunStarts, RunEnds, TypeOK
    <3>3. QED
      BY <1>11, <3>1, <3>2, ReadyMeans
  <2>2. CASE UNCHANGED handling
    BY <1>10, <2>1, <2>2
  <2>3. ASSUME NEW r \in Records, Merge("run", r), store # 0,
               r.checked = Record(store).checked,
               r.reboot = Record(store).reboot
        PROVE  HandInv'
    BY <1>9, <1>11, <2>1, <2>3
  <2>4. QED
    BY <1>13, <2>2, <2>3, RunMerges
<1>14. ASSUME RebootStarts \/ RebootFails PROVE HandInv'
  <2>1. Newest \in 1 .. MaxSaves - 1 /\ ~Busy("reboot")
    <3>1. Ready("reboot")
      BY <1>14 DEF RebootStarts, RebootFails, Result
    <3>2. QED
      BY <1>11, <3>1, ReadyMeans
  <2>2. CASE UNCHANGED handling
    BY <1>10, <2>1, <2>2
  <2>3. ASSUME NEW r \in Records, Merge("reboot", r), store # 0,
               r.checked = Record(store).checked,
               r.reboot.id = begun'.reboot
        PROVE  HandInv'
    BY <1>9, <1>11, <2>1, <2>3
  <2>4. QED
    BY <1>14, <2>2, <2>3, RebootMerges
<1>15. ASSUME HostBoots PROVE HandInv'
  <2>1. UNCHANGED <<handling, begun>>
    BY <1>15 DEF HostBoots, handlers
  <2>2. QED
    BY <1>10, <2>1
<1>16. HandInv'
  BY <1>12, <1>13, <1>14, <1>15 DEF HostStep
<1>17. QED
  BY <1>5, <1>6, <1>16 DEF HistoryInv

\* A save follows the history of saves.
LEMMA HistorySaves ==
  ASSUME TypeOK, HistoryInv, NEW h \in Handlers, Save(h)
  PROVE  HistoryInv'
<1> DEFINE r == Made(h)
<1>1. /\ Newest' = Newest + 1 /\ store' = Newest + 1
      /\ Newest \in 1 .. MaxSaves - 1
      /\ \A n \in 1 .. Newest : saves'[n] = saves[n]
      /\ saves'[Newest + 1] = r
  BY Saves, SaveGrows
<1>2. /\ Busy(h) /\ handling'[h] = Idle
      /\ \A g \in Handlers : g # h => handling'[g] = handling[g]
      /\ ~raced' => ~raced /\ handling[h].read = store
      /\ UNCHANGED <<deletion, begun>>
  BY Saves DEF page, hostVars
<1>3. deletion.gone \in 0 .. Newest /\ store \in 0 .. Newest
  <2>1. deletion.gone \in Nat /\ Newest \in Nat /\ store \in 0 .. Newest
    BY Bounds DEF TypeOK, Numbers, Newest
  <2>2. deletion.gone <= Newest
    BY <2>1 DEF HistoryInv, StoreInv
  <2>3. QED
    BY <2>1, <2>2
<1>4. InHand(h) /\ NumbersInv /\ BegunInv
  BY <1>2 DEF HistoryInv, HandInv
<1>5. PICK k \in 0 .. Newest : k = handling[h].read
  BY <1>4 DEF InHand
<1>6. /\ Record(k).checked \in 0 .. k /\ Record(k).reboot.id \in 0 .. k
      /\ Record(k).reboot.id <= begun.reboot
  BY <1>4, PartsNumbered
<1>7. begun.reboot \in 0 .. Newest + 1
  BY <1>4 DEF BegunInv
<1>8. /\ r.checked \in 0 .. Newest + 1 /\ r.reboot.id \in 0 .. Newest + 1
      /\ r.reboot.id <= begun.reboot
      /\ r.reboot.id >= Record(k).reboot.id
  <2>1. r.checked = handling[h].next \/ r.checked = Record(k).checked
    BY <1>4, <1>5 DEF InHand, Source
  <2>2. r.reboot.id = Record(k).reboot.id \/ r.reboot.id = begun.reboot
    BY <1>4, <1>5 DEF InHand, Source, Handlers
  <2>3. handling[h].next \in 1 .. Newest + 1
    BY <1>4 DEF InHand
  <2>4. r.checked \in 0 .. Newest + 1
    BY <1>1, <1>5, <1>6, <2>1, <2>3
  <2>5. QED
    BY <1>1, <1>5, <1>6, <1>7, <2>2, <2>4
<1> HIDE DEF r
<1>9. NumbersInv'
  <2>1. \A n \in 1 .. Newest' : n \in 1 .. Newest \/ n = Newest + 1
    BY <1>1
  <2>2. QED
    BY <1>1, <1>4, <1>8, <2>1 DEF NumbersInv, Id
<1>10. StoreInv'
  BY <1>1, <1>2, <1>3 DEF StoreInv
<1>11. PICK m \in Nat : m = Newest + 1
  BY <1>1
<1>12. /\ \A n \in 1 .. Newest : Id(n)' = Id(n) /\ Id(n) \in Int
       /\ Id(m)' = r.reboot.id /\ store' = m
       /\ \A n \in 1 .. Newest' : n \in 1 .. Newest \/ n = m
  BY <1>1, <1>4, <1>11 DEF Id, NumbersInv
<1>13. LastInv'
  <2>1. SUFFICES ASSUME ~raced'
                 PROVE  \A n \in 1 .. Newest' : \/ Id(n)' <= r.reboot.id
                                                \/ Id(n)' <= deletion.gone
    BY <1>2, <1>12 DEF LastInv
  <2>2. \A n \in 1 .. Newest : \/ Id(n) <= Record(k).reboot.id
                               \/ Id(n) <= deletion.gone
    <3>1. ~raced /\ k = store
      BY <1>2, <1>5, <2>1
    <3>2. CASE store = 0
      BY <1>1, <3>2 DEF HistoryInv, StoreInv, NumbersInv
    <3>3. CASE store # 0
      BY <3>1, <3>3 DEF HistoryInv, LastInv, Record, Id
    <3>4. QED
      BY <3>2, <3>3
  <2>3. \A n \in 1 .. Newest : Id(n)' <= r.reboot.id \/ Id(n)' <= deletion.gone
    BY <1>3, <1>6, <1>8, <1>12, <2>2
  <2>4. QED
    BY <1>8, <1>12, <2>3
<1>14. BegunInv'
  <2>1. begun'.reboot \in 0 .. Newest' + 1
    BY <1>1, <1>2, <1>7
  <2>2. \A n \in 1 .. Newest' : Id(n)' <= begun.reboot
    BY <1>4, <1>8, <1>12 DEF BegunInv
  <2>3. QED
    BY <1>2, <2>1, <2>2 DEF BegunInv
<1>15. HandInv'
  <2>1. SUFFICES ASSUME NEW g \in Handlers, Busy(g)' PROVE InHand(g)'
    BY DEF HandInv
  <2>2. g # h /\ handling'[g] = handling[g] /\ Busy(g)
    BY <1>2, <2>1 DEF Busy
  <2>3. InHand(g)
    BY <2>2 DEF HistoryInv, HandInv
  <2>4. handling[g].read \in 0 .. Newest
    BY <2>3 DEF InHand
  <2>5. Record(handling[g].read)' = Record(handling[g].read)
    <3>1. handling'[g].read = handling[g].read
      BY <2>2
    <3>2. CASE handling[g].read = 0
      BY <3>1, <3>2 DEF Record
    <3>3. CASE handling[g].read # 0
      <4>1. handling[g].read \in 1 .. Newest
        BY <1>1, <2>4, <3>3
      <4>2. QED
        BY <1>1, <3>1, <3>3, <4>1 DEF Record
    <3>4. QED
      BY <3>2, <3>3
  <2>6. Made(g)' = Made(g) /\ Source(g)' = Source(g)
    BY <2>2, <2>5 DEF Made, Source
  <2>7. /\ handling'[g].read \in 0 .. Newest'
        /\ handling'[g].next \in 1 .. Newest' + 1
    <3>1. handling[g].next \in 1 .. Newest + 1
      BY <2>3 DEF InHand
    <3>2. QED
      BY <1>1, <2>2, <2>4, <3>1
  <2>8. QED
    BY <1>2, <2>2, <2>3, <2>6, <2>7 DEF InHand
<1>16. QED
  BY <1>9, <1>10, <1>13, <1>14, <1>15 DEF HistoryInv

\* A deletion takes the newest record.
LEMMA HistoryForgets ==
  ASSUME TypeOK, HistoryInv, Forget, deletion'.gone = store
  PROVE  HistoryInv' /\ deletion'.gone = Newest /\ store' = 0
<1>1. /\ store # 0 /\ store' = 0
      /\ UNCHANGED <<saves, handling, raced, begun>>
  BY DEF Forget, handlers, hostVars
<1>2. deletion'.gone = Newest
  BY <1>1 DEF HistoryInv, StoreInv
<1>3. NumbersInv' /\ StoreInv' /\ LastInv' /\ BegunInv'
  BY <1>1, <1>2
  DEF HistoryInv, StoreInv, NumbersInv, LastInv, BegunInv, Id, Newest
<1>4. HandInv'
  BY <1>1 DEF HistoryInv, HandInv, InHand, Busy, Made, Source, Record, Newest
<1>5. QED
  BY <1>1, <1>2, <1>3, <1>4 DEF HistoryInv

\* A deletion forgets the record, or is of a record that is gone already.
LEMMA Forgets ==
  ASSUME TypeOK, DeleteSystem \/ DeletedElsewhere
  PROVE  \/ Forget /\ deletion'.gone = store
         \/ UNCHANGED <<elsewhere, feed, controls, late, unsure>>
            /\ deletion'.gone = deletion.gone
BY DEF DeleteSystem, DeletedElsewhere, TypeOK

\* Every step keeps the order of records: saved, sent, known to the page.
LEMMA HistoryStep == ASSUME TypeOK, HistoryInv, [Next]_vars PROVE HistoryInv'
<1>1. ASSUME HostStep \/ \E h \in Handlers : Save(h) PROVE HistoryInv'
  BY <1>1, HistoryTakes, HistorySaves
<1>2. CASE DeleteSystem \/ DeletedElsewhere
  <2>1. CASE Forget /\ deletion'.gone = store
    BY <2>1, HistoryForgets
  <2>2. CASE /\ UNCHANGED <<elsewhere, feed, controls, late, unsure>>
             /\ deletion'.gone = deletion.gone
    BY <2>2, HistoryStays DEF elsewhere, server, handlers, hostVars
  <2>3. QED
    BY <1>2, <2>1, <2>2, Forgets
<1>3. CASE Remove \/ Removed
  BY <1>3, HistoryStays
  DEF Remove, Removed, TypeOK, elsewhere, server, handlers, hostVars
<1>4. CASE \/ Relay \/ Connect \/ Disconnect
           \/ GetSystems \/ ShowList \/ ListFails
           \/ UpdateTimer \/ GoesTooLate \/ UNCHANGED vars
  BY <1>4, HistoryStays
  DEF Relay, Connect, Disconnect, GetSystems, ShowList, ListFails, UpdateTimer,
      GoesTooLate, vars, elsewhere, server, handlers, hostVars
<1>5. ASSUME NEW i \in Requested,
             RequestAction(i) \/ Answered(i) \/ GroupAnswered(i)
      PROVE  HistoryInv'
  BY <1>5, HistoryStays
  DEF RequestAction, Answered, GroupAnswered, elsewhere, server, handlers,
      hostVars
<1>6. ASSUME NEW n \in writing, OnMessage(n) PROVE HistoryInv'
  BY <1>6, HistoryStays DEF OnMessage, elsewhere, server, handlers, hostVars
<1>7. ASSUME NEW k \in Kinds, Press(k) \/ PressGroup(k) \/ GiveUp(k)
      PROVE  HistoryInv'
  BY <1>7, HistoryStays
  DEF Press, PressGroup, GiveUp, elsewhere, server, handlers, hostVars
<1>8. QED
  BY <1>1, <1>2, <1>3, <1>4, <1>5, <1>6, <1>7 DEF Next

-----------------------------------------------------------------------------
(***************************************************************************)
(* The row.                                                                *)
(***************************************************************************)

\* The row shows the stored record, or something is under way that will see to
\* it: the record itself, the list, or the answer to a deletion.
RowInv ==
  ~behind => \/ row = store
             \/ store # 0 /\ OnItsWay
             \/ list.pc = "asked"
             \/ list.pc = "read" /\ list.answer = store
             \/ store = 0 /\ deletion.pc = "done"

\* Whatever takes the place of the stored record overruns it, and so does every
\* record of a host that is not stored.
LEMMA OthersOverrun ==
  ASSUME TypeOK, HistoryInv, NEW n \in 0 .. Newest, n # store,
         row = store \/ (store = 0 /\ n # 0)
  PROVE  Overruns(n)
<1>1. row \in 0 .. Newest /\ Newest \in Nat /\ deletion.gone \in Nat
  BY Bounds DEF TypeOK, Newest, Numbers
<1>2. CASE store = 0
  BY <1>1, <1>2 DEF HistoryInv, StoreInv, Overruns
<1>3. CASE store # 0
  BY <1>1, <1>3 DEF HistoryInv, StoreInv, Overruns
<1>4. QED
  BY <1>2, <1>3

\* A copy that is taken out of the channel is written to the page, or missed.
LEMMA RelayKeeps ==
  ASSUME TypeOK, Relay
  PROVE  ~behind' => ~behind /\ (OnItsWay => OnItsWay')
<1>1. /\ channel \in Seq(1 .. Newest)
      /\ channel # <<>> /\ channel' = Tail(channel) /\ store' = store
  BY DEF Relay, TypeOK, Newest
<1>2. /\ Len(channel') = Len(channel) - 1 /\ Len(channel) \in Nat
      /\ \A i \in 1 .. Len(channel) - 1 : channel'[i] = channel[i + 1]
      /\ Head(channel) = channel[1]
  BY <1>1
<1>3. InChannel => InChannel' \/ store = Head(channel)
  <2>1. SUFFICES ASSUME NEW i \in 1 .. Len(channel), channel[i] = store, i # 1
                 PROVE  InChannel'
    BY <1>2 DEF InChannel
  <2>2. i - 1 \in 1 .. Len(channel') /\ channel'[i - 1] = store
    BY <1>2, <2>1
  <2>3. QED
    BY <1>1, <2>2 DEF InChannel
<1>4. CASE connected
  <2>1. writing' = writing \cup {Head(channel)} /\ behind' = behind
    BY <1>4 DEF Relay
  <2>2. QED
    BY <1>1, <1>3, <2>1 DEF OnItsWay
<1>5. CASE ~connected
  <2>1. writing' = writing /\ behind' = (behind \/ Head(channel) = store)
    BY <1>5 DEF Relay
  <2>2. QED
    BY <1>1, <1>3, <2>1 DEF OnItsWay
<1>6. QED
  BY <1>4, <1>5

\* Every step keeps the row to a record that was sent, and the store ahead of it
\* by no more than what is under way or missed.
LEMMA RowStep ==
  ASSUME TypeOK, HistoryInv, RowInv, [Next]_vars PROVE RowInv'
<1>0. /\ behind \in BOOLEAN /\ row \in 0 .. Newest /\ store \in 0 .. Newest
      /\ list.answer \in 0 .. Newest /\ writing \subseteq 1 .. Newest
      /\ channel \in Seq(1 .. Newest)
  BY DEF TypeOK, Newest
<1>1. ASSUME HostStep \/ \E h \in Handlers : Save(h) PROVE RowInv'
  <2>1. ASSUME NEW h \in Handlers, Save(h) PROVE RowInv'
    <3>1. store' # 0 /\ (~behind' => InChannel')
      BY <2>1, Saves, SaveGrows, <1>0 DEF TypeOK, Newest
    <3>2. QED
      BY <3>1 DEF RowInv, OnItsWay
  <2>2. CASE HostStep
    <3>1. UNCHANGED <<server, behind, page>>
      BY <2>2, HostMerges
    <3>2. QED
      BY <3>1 DEF RowInv, OnItsWay, InChannel, server, page, feed
  <2>3. QED
    BY <1>1, <2>1, <2>2
<1>2. ASSUME Relay PROVE RowInv'
  BY <1>2, RelayKeeps DEF Relay, RowInv
<1>3. ASSUME Connect PROVE RowInv'
  BY <1>3
  DEF Connect, RowInv, OnItsWay, InChannel, elsewhere, server, handlers,
      hostVars
<1>4. ASSUME Disconnect PROVE RowInv'
  BY <1>4, <1>0
  DEF Disconnect, RowInv, OnItsWay, InChannel, elsewhere, server, handlers,
      hostVars
<1>5. ASSUME GetSystems PROVE RowInv'
  BY <1>5
  DEF GetSystems, RowInv, OnItsWay, InChannel, elsewhere, server, handlers,
      hostVars
<1>6. ASSUME ShowList PROVE RowInv'
  <2>1. /\ row' = list.answer /\ behind' = (behind \/ Overruns(list.answer))
        /\ list.pc = "read"
        /\ UNCHANGED <<store, channel, writing, deletion>>
    BY <1>6 DEF ShowList, elsewhere, server, handlers, hostVars
  <2>2. OnItsWay' = OnItsWay
    BY <2>1 DEF OnItsWay, InChannel
  <2>3. CASE list.answer = store
    BY <2>1, <2>3 DEF RowInv
  <2>4. CASE list.answer # store
    <3>1. ASSUME row = store \/ store = 0 PROVE Overruns(list.answer)
      <4>1. PICK n \in 0 .. Newest : n = list.answer
        BY <1>0
      <4>2. n # store /\ (row = store \/ (store = 0 /\ n # 0))
        BY <2>4, <3>1, <4>1
      <4>4. Overruns(n)
        BY <4>2, OthersOverrun
      <4>3. QED
        BY <4>1, <4>4
    <3>2. QED
      BY <2>1, <2>2, <2>4, <3>1 DEF RowInv
  <2>5. QED
    BY <2>3, <2>4
<1>7. ASSUME ListFails PROVE RowInv'
  BY <1>7, <1>0 DEF ListFails, RowInv, elsewhere, server, handlers, hostVars
<1>8. ASSUME DeleteSystem PROVE RowInv'
  <2>1. CASE Forget /\ deletion' = [pc |-> "done", gone |-> store]
    BY <2>1 DEF Forget, RowInv
  <2>2. CASE /\ store = 0 /\ deletion' = [deletion EXCEPT !.pc = "failed"]
             /\ UNCHANGED <<server, feed>>
    <3>1. deletion.pc = "sent" /\ behind' = behind
      BY <1>8 DEF DeleteSystem
    <3>2. QED
      BY <2>2, <3>1 DEF RowInv, server, feed
  <2>3. UNCHANGED elsewhere => UNCHANGED server
    BY DEF elsewhere
  <2>4. QED
    BY <1>8, <2>1, <2>2, <2>3 DEF DeleteSystem
<1>9. ASSUME DeletedElsewhere PROVE RowInv'
  BY <1>9, <1>0 DEF DeletedElsewhere, Forget, RowInv, feed
<1>10. ASSUME Remove PROVE RowInv'
  <2>1. /\ deletion.pc = "none"
        /\ UNCHANGED <<store, channel, writing, list, row, behind>>
    BY <1>10 DEF Remove, feed, elsewhere, server, handlers, hostVars
  <2>2. QED
    BY <2>1 DEF RowInv, OnItsWay, InChannel
<1>11. ASSUME Removed PROVE RowInv'
  <2>1. UNCHANGED <<store, channel, writing, list>>
    BY <1>11 DEF Removed, elsewhere, server, handlers, hostVars
  <2>2. OnItsWay' = OnItsWay
    BY <2>1 DEF OnItsWay, InChannel
  <2>3. CASE deletion.pc = "done"
    <3>1. row' = 0 /\ behind' = (behind \/ Overruns(0))
      BY <1>11, <2>3 DEF Removed
    <3>2. CASE store = 0
      BY <2>1, <3>1, <3>2 DEF RowInv
    <3>3. CASE store # 0
      <4>1. ASSUME row = store PROVE Overruns(0)
        <5>1. 0 \in 0 .. Newest
          BY <1>0 DEF TypeOK, Newest
        <5>2. QED
          BY <3>3, <4>1, <5>1, OthersOverrun DEF Overruns
      <4>2. QED
        BY <2>1, <2>2, <3>1, <3>3, <4>1 DEF RowInv
    <3>4. QED
      BY <3>2, <3>3
  <2>4. CASE deletion.pc # "done"
    BY <1>11, <2>1, <2>2, <2>4 DEF Removed, RowInv
  <2>5. QED
    BY <2>3, <2>4
<1>12. ASSUME NEW i \in Requested,
             RequestAction(i) \/ Answered(i) \/ GroupAnswered(i)
       PROVE  RowInv'
  BY <1>12
  DEF RequestAction, Answered, GroupAnswered, feed, RowInv, OnItsWay,
      InChannel, elsewhere, server, handlers, hostVars
<1>13. ASSUME NEW n \in writing, OnMessage(n) PROVE RowInv'
  <2>1. /\ row' = n /\ writing' = writing \ {n}
        /\ behind' = (n # store /\ (behind \/ Overruns(n)))
        /\ UNCHANGED <<store, channel, list, deletion>>
    BY <1>13 DEF OnMessage, Shown, elsewhere, server, handlers, hostVars
  <2>2. CASE n = store
    BY <2>1, <2>2 DEF RowInv
  <2>3. CASE n # store
    <3>1. OnItsWay' = OnItsWay
      BY <2>1, <2>3 DEF OnItsWay, InChannel
    <3>2. n \in 0 .. Newest /\ n # 0
      BY <1>0
    <3>3. QED
      BY <2>1, <2>3, <3>1, <3>2, OthersOverrun DEF RowInv
  <2>4. QED
    BY <2>2, <2>3
<1>14. ASSUME NEW k \in Kinds, Press(k) \/ PressGroup(k) \/ GiveUp(k)
       PROVE  RowInv'
  <2>1. UNCHANGED <<store, channel, writing, list, row, deletion, behind>>
    BY <1>14
    DEF Press, PressGroup, GiveUp, feed, elsewhere, server, handlers, hostVars
  <2>2. QED
    BY <2>1 DEF RowInv, OnItsWay, InChannel
<1>15. CASE UpdateTimer \/ GoesTooLate \/ UNCHANGED vars
  BY <1>15
  DEF UpdateTimer, GoesTooLate, vars, feed, RowInv, OnItsWay, InChannel,
      elsewhere, server, handlers, hostVars
<1>16. QED
  BY <1>1, <1>2, <1>3, <1>4, <1>5, <1>6, <1>7, <1>8, <1>9, <1>10, <1>11, <1>12,
     <1>13, <1>14, <1>15
  DEF Next

-----------------------------------------------------------------------------
(***************************************************************************)
(* The button of a check-in.                                               *)
(***************************************************************************)

\* The check-in has not been taken, has yet to be made or saved, or was refused
\* and the page is about to hear of it.
CheckUnderway ==
  \/ "checkin" \in host \/ Busy("checkin")
  \/ \E i \in Requested : /\ presses[i].kind = "checkin"
                          /\ presses[i].pc \in {"sent", "refused"}

\* A button that is held when nothing of the kind is the case waits for a record
\* that lets it go, and that record is on its way or was missed.
Awaited ==
  ~GroupsAsked /\ ~CheckUnderway /\ store # 0
  => /\ Record(store).checked > marks["checkin"].told
     /\ ~behind => OnItsWay

CheckInv ==
  ~raced /\ "checkin" \in Kinds /\ marks["checkin"].held
  => marks["checkin"].told \in 0 .. Newest /\ Awaited

\* Steps that leave the record where it is and the question open.
LEMMA CheckStays ==
  ASSUME TypeOK, CheckInv, UNCHANGED <<saves, store>>, ~raced' => ~raced,
         GroupsAsked => GroupsAsked', CheckUnderway => CheckUnderway',
         ~behind' => ~behind /\ (OnItsWay => OnItsWay'),
         "checkin" \in Kinds => \/ ~marks'["checkin"].held
                                \/ marks'["checkin"] = marks["checkin"]
  PROVE  CheckInv'
<1>1. Newest' = Newest
  BY DEF Newest
<1>2. Record(store)' = Record(store)
  BY DEF Record
<1>3. QED
  BY <1>1, <1>2 DEF CheckInv, Awaited

\* What the requests say of groups and check-ins depends on them alone.
LEMMA RequestsStay ==
  ASSUME UNCHANGED presses,
         "checkin" \in host => "checkin" \in host' \/ Busy("checkin")',
         Busy("checkin") => Busy("checkin")'
  PROVE  /\ GroupsAsked => GroupsAsked'
         /\ CheckUnderway => CheckUnderway'
BY DEF GroupsAsked, CheckUnderway, Requested

\* One request goes on, none of a check-in from being refused.
LEMMA RequestsGoOn ==
  ASSUME TypeOK, NEW i \in Requested,
         NEW pc \in {"accepted", "refused", "answered"},
         presses' = [presses EXCEPT ![i].pc = pc], UNCHANGED handling,
         "checkin" \in host => "checkin" \in host',
         presses[i].kind = "checkin" /\ presses[i].pc \in {"sent", "refused"}
         => pc = "refused" \/ "checkin" \in host'
  PROVE  /\ GroupsAsked => GroupsAsked'
         /\ CheckUnderway => CheckUnderway'
<1>1. Requested' = Requested
  BY PressMoves DEF Requested
<1>2. \A j \in Requested :
        /\ presses'[j].kind = presses[j].kind
        /\ presses'[j].group = presses[j].group
        /\ presses'[j].pc = IF j = i THEN pc ELSE presses[j].pc
  <2>1. pc \in {"sent", "accepted", "refused", "answered"}
    OBVIOUS
  <2>2. QED
    BY <2>1, PressMoves
<1>3. GroupsAsked => GroupsAsked'
  BY <1>1, <1>2 DEF GroupsAsked
<1>4. CheckUnderway => CheckUnderway'
  BY <1>1, <1>2 DEF CheckUnderway, Busy
<1>5. QED
  BY <1>3, <1>4

\* One more request changes nothing of the others.
LEMMA RequestsGrow ==
  ASSUME TypeOK, NEW k \in Kinds, NEW g \in BOOLEAN, Ask(k, g),
         UNCHANGED <<host, handling>>
  PROVE  /\ GroupsAsked => GroupsAsked'
         /\ g => GroupsAsked'
         /\ CheckUnderway => CheckUnderway'
         /\ k = "checkin" => CheckUnderway'
<1>1. /\ Len(presses) \in Nat /\ Len(presses') = Len(presses) + 1
      /\ \A j \in Requested : presses'[j] = presses[j]
      /\ presses'[Len(presses) + 1] = [kind |-> k, group |-> g, pc |-> "sent"]
  BY AskAppends DEF TypeOK
<1>2. \A j \in Requested : j \in Requested'
  BY <1>1 DEF Requested
<1>3. PICK m \in Requested' : presses'[m] = [kind |-> k, group |-> g, pc |-> "sent"]
  BY <1>1 DEF Requested
<1>4. QED
  BY <1>1, <1>2, <1>3 DEF GroupsAsked, CheckUnderway, Busy

\* A save is the check-in a held button waits for, or leaves it owed.
LEMMA CheckSaves ==
  ASSUME TypeOK, HistoryInv, CheckInv, NEW h \in Handlers, Save(h)
  PROVE  CheckInv'
<1>1. /\ Newest' = Newest + 1 /\ store' = Newest + 1 /\ Newest \in Nat
      /\ saves'[Newest + 1] = Made(h)
      /\ ~behind' => InChannel'
  BY Saves, SaveGrows DEF TypeOK
<1>2. Record(store)' = Made(h)
  BY <1>1 DEF Record
<1>3. ~behind' => OnItsWay'
  BY <1>1 DEF OnItsWay
<1>4. /\ UNCHANGED <<marks, presses, host>>
      /\ \A g \in Handlers : g # h => handling'[g] = handling[g]
      /\ ~raced' => /\ ~raced /\ handling[h].read = store
                    /\ handling[h].next = Newest + 1
  BY Saves DEF page, controls, hostVars
<1>5. InHand(h)
  BY Saves DEF HistoryInv, HandInv
<1>6. SUFFICES ASSUME ~raced', "checkin" \in Kinds, marks["checkin"].held
               PROVE  marks["checkin"].told \in 0 .. Newest' /\ Awaited'
  BY <1>4 DEF CheckInv
<1>7. marks["checkin"].told \in 0 .. Newest /\ Awaited
  BY <1>4, <1>6 DEF CheckInv
<1>8. CASE h = "checkin"
  <2>1. Made(h).checked = Newest + 1
    BY <1>4, <1>5, <1>6, <1>8 DEF InHand
  <2>2. QED
    BY <1>1, <1>2, <1>3, <1>4, <1>7, <2>1 DEF Awaited
<1>9. CASE h # "checkin"
  <2>1. store # 0 /\ Made(h).checked = Record(store).checked
    BY <1>4, <1>5, <1>6, <1>9 DEF InHand, Source
  <2>2. Busy("checkin") => Busy("checkin")'
    BY <1>4, <1>9 DEF Busy, Handlers
  <2>3. (GroupsAsked => GroupsAsked') /\ (CheckUnderway => CheckUnderway')
    BY <1>4, <2>2, RequestsStay
  <2>4. QED
    BY <1>1, <1>2, <1>3, <1>4, <1>7, <2>1, <2>3 DEF Awaited
<1>10. QED
  BY <1>8, <1>9

\* A message that is taken leaves a check-in owed that was.
LEMMA CheckTakes ==
  ASSUME TypeOK, CheckInv, HostStep
  PROVE  CheckInv'
<1>1. UNCHANGED <<server, behind, raced, page>>
  BY HostMerges
<1>2. /\ UNCHANGED <<saves, store, raced, behind, marks, presses>>
      /\ OnItsWay' = OnItsWay
  BY <1>1 DEF server, page, feed, controls, OnItsWay, InChannel
<1>3. ASSUME NEW h \in Handlers, NEW r \in Records, Merge(h, r),
             Newest \in 1 .. MaxSaves - 1
      PROVE  Busy("checkin") \/ h = "checkin" => Busy("checkin")'
  BY <1>3, Merges DEF Busy, Handlers
<1>4. Busy("checkin") => Busy("checkin")'
  <2>1. CASE UNCHANGED handling
    BY <2>1 DEF Busy
  <2>2. QED
    BY <1>3, <2>1, HostMerges
<1>5. "checkin" \in host => "checkin" \in host' \/ Busy("checkin")'
  <2>1. ASSUME NEW asked \in BOOLEAN, NEW back \in BOOLEAN, CheckIn(asked, back)
        PROVE  Busy("checkin")'
    <3>1. "checkin" \in Handlers /\ Newest \in 1 .. MaxSaves - 1
      BY <2>1, ReadyMeans DEF CheckIn, Handlers
    <3>2. PICK r \in Records : Merge("checkin", r)
      BY <2>1, CheckInMerges
    <3>3. QED
      BY <1>3, <3>1, <3>2
  <2>2. CASE RunStarts \/ RunEnds \/ RebootStarts \/ RebootFails \/ HostBoots
    BY <2>2 DEF RunStarts, RunEnds, RebootStarts, RebootFails, HostBoots
  <2>3. QED
    BY <2>1, <2>2 DEF HostStep
<1>6. (GroupsAsked => GroupsAsked') /\ (CheckUnderway => CheckUnderway')
  BY <1>2, <1>4, <1>5, RequestsStay
<1>7. QED
  BY <1>2, <1>6, CheckStays

\* Told takes no check-in from a record that is not there.
LEMMA ToldSoFar ==
  ASSUME TypeOK, HistoryInv
  PROVE  Told("checkin") \in 0 .. Newest
<1>1. Told("checkin") = Record(row).checked
  BY DEF Told
<1>2. row \in 0 .. Newest /\ Newest \in Nat
  BY DEF TypeOK, Newest
<1>3. Record(row).checked \in 0 .. Newest
  <2>1. CASE row = 0
    BY <1>2, <2>1 DEF Record, Blank
  <2>2. CASE row # 0
    BY <1>2, <2>2 DEF Record, HistoryInv, NumbersInv
  <2>3. QED
    BY <2>1, <2>2
<1>4. QED
  BY <1>1, <1>3

\* Every step keeps a check-in coming for a button that waits for one.
LEMMA CheckStep ==
  ASSUME TypeOK, HistoryInv, CheckInv, [Next]_vars PROVE CheckInv'
<1>0. behind \in BOOLEAN /\ marks \in [Kinds -> Marks]
  BY DEF TypeOK
<1>1. ASSUME HostStep PROVE CheckInv'
  BY <1>1, CheckTakes
<1>2. ASSUME NEW h \in Handlers, Save(h) PROVE CheckInv'
  BY <1>2, CheckSaves
<1>3. CASE Connect \/ GetSystems \/ ShowList \/ ListFails
           \/ Remove \/ Removed \/ GoesTooLate \/ UNCHANGED vars
  <2>1. /\ UNCHANGED <<saves, store, handling, raced, channel, writing, marks, presses>>
        /\ UNCHANGED host
    BY <1>3
    DEF Connect, GetSystems, ShowList, ListFails, Remove, Removed, GoesTooLate,
        vars, page, feed, controls, elsewhere, server, handlers, hostVars
  <2>2. ~behind' => ~behind
    BY <1>3, <1>0
    DEF Connect, GetSystems, ShowList, ListFails, Remove, Removed,
        GoesTooLate, vars
  <2>3. OnItsWay' = OnItsWay
    BY <2>1 DEF OnItsWay, InChannel
  <2>4. (GroupsAsked => GroupsAsked') /\ (CheckUnderway => CheckUnderway')
    BY <2>1, RequestsStay DEF Busy
  <2>5. QED
    BY <2>1, <2>2, <2>3, <2>4, CheckStays
<1>4. ASSUME Relay PROVE CheckInv'
  <2>1. UNCHANGED <<saves, store, handling, raced, host, marks, presses>>
    BY <1>4 DEF Relay, controls, elsewhere, server, handlers, hostVars
  <2>2. (GroupsAsked => GroupsAsked') /\ (CheckUnderway => CheckUnderway')
    BY <2>1, RequestsStay DEF Busy
  <2>3. QED
    BY <1>4, <2>1, <2>2, RelayKeeps, CheckStays
<1>5. ASSUME Disconnect PROVE CheckInv'
  <2>1. UNCHANGED <<saves, store, handling, raced, channel, host, marks, presses>>
    BY <1>5 DEF Disconnect, controls, elsewhere, server, handlers, hostVars
  <2>2. (GroupsAsked => GroupsAsked') /\ (CheckUnderway => CheckUnderway')
    BY <2>1, RequestsStay DEF Busy
  <2>3. ~behind' => ~behind /\ (OnItsWay => OnItsWay')
    BY <1>5, <2>1, <1>0 DEF Disconnect, OnItsWay, InChannel
  <2>4. QED
    BY <2>1, <2>2, <2>3, CheckStays
<1>6. ASSUME DeleteSystem \/ DeletedElsewhere PROVE CheckInv'
  <2>1. CASE Forget
    <3>1. store' = 0 /\ UNCHANGED <<saves, marks, raced>>
      BY <2>1 DEF Forget, controls, handlers
    <3>2. QED
      BY <3>1 DEF CheckInv, Awaited, Newest
  <2>2. CASE UNCHANGED <<elsewhere, feed, controls, late, unsure>>
             /\ DeleteSystem
    <3>1. /\ UNCHANGED <<saves, store, channel, writing, host, marks, presses,
                     handling, raced>>
          /\ behind' = behind
      BY <2>2
      DEF DeleteSystem, feed, controls, elsewhere, server, handlers, hostVars
    <3>2. (GroupsAsked => GroupsAsked') /\ (CheckUnderway => CheckUnderway')
      BY <3>1, RequestsStay DEF Busy
    <3>3. OnItsWay' = OnItsWay
      BY <3>1 DEF OnItsWay, InChannel
    <3>4. QED
      BY <3>1, <3>2, <3>3, CheckStays
  <2>3. QED
    BY <1>6, <2>1, <2>2 DEF DeleteSystem, DeletedElsewhere
<1>7. ASSUME NEW i \in Requested, RequestAction(i) PROVE CheckInv'
  <2>1. /\ UNCHANGED <<saves, store, handling, raced, channel, writing, marks, behind>>
        /\ "checkin" \in host => "checkin" \in host'
    BY <1>7 DEF RequestAction, feed, elsewhere, server, handlers, hostVars
  <2>2. PICK pc \in {"accepted", "refused"} :
          /\ presses' = [presses EXCEPT ![i].pc = pc]
          /\ pc = "refused" \/ host' = host \cup {presses[i].kind}
    BY <1>7 DEF RequestAction
  <2>3. (GroupsAsked => GroupsAsked') /\ (CheckUnderway => CheckUnderway')
    <3>1. presses[i].kind = "checkin" => pc = "refused" \/ "checkin" \in host'
      BY <2>2
    <3>2. QED
      BY <2>1, <2>2, <3>1, RequestsGoOn
  <2>4. OnItsWay' = OnItsWay
    BY <2>1 DEF OnItsWay, InChannel
  <2>5. QED
    BY <2>1, <2>3, <2>4, CheckStays
<1>8. ASSUME NEW i \in Requested, Answered(i) PROVE CheckInv'
  <2>1. /\ UNCHANGED <<saves, store, handling, raced, channel, writing, host, behind>>
        /\ presses' = [presses EXCEPT ![i].pc = "answered"]
        /\ presses[i].pc \in {"accepted", "refused"}
    BY <1>8 DEF Answered, feed, elsewhere, server, handlers, hostVars
  <2>2. OnItsWay' = OnItsWay
    BY <2>1 DEF OnItsWay, InChannel
  <2>3. CASE presses[i].kind = "checkin" /\ presses[i].pc = "refused"
    <3>1. Mark("checkin", Free)
      BY <1>8, <2>3 DEF Answered, Release
    <3>2. "checkin" \in Kinds => ~marks'["checkin"].held
      BY <1>0, <3>1, MarkMoves, MarksTyped
    <3>3. QED
      BY <3>2 DEF CheckInv
  <2>4. CASE ~(presses[i].kind = "checkin" /\ presses[i].pc = "refused")
    <3>1. (GroupsAsked => GroupsAsked') /\ (CheckUnderway => CheckUnderway')
      BY <2>1, <2>4, RequestsGoOn
    <3>2. "checkin" \in Kinds => \/ ~marks'["checkin"].held
                                 \/ marks'["checkin"] = marks["checkin"]
      BY <1>0, <1>8, <2>1, <2>4 DEF Answered, Release, Mark
    <3>3. QED
      BY <2>1, <2>2, <3>1, <3>2, CheckStays
  <2>5. QED
    BY <2>3, <2>4
<1>9. ASSUME NEW i \in Requested, GroupAnswered(i) PROVE CheckInv'
  <2>1. /\ UNCHANGED <<saves, store, handling, raced>> /\ presses[i].group
        /\ presses' = [presses EXCEPT ![i].pc = "answered"]
    BY <1>9 DEF GroupAnswered, elsewhere, server, handlers, hostVars
  <2>2. Requested' = Requested /\ presses'[i].group = presses[i].group
    BY <2>1, PressMoves DEF Requested
  <2>3. GroupsAsked'
    BY <2>1, <2>2 DEF GroupsAsked
  <2>4. "checkin" \in Kinds => \/ marks'["checkin"] = marks["checkin"]
                               \/ marks'["checkin"] = Held(Told("checkin"))
    BY <1>0, <1>9 DEF GroupAnswered, Mark
  <2>5. Told("checkin") \in 0 .. Newest
    BY ToldSoFar
  <2>6. \A t : Held(t).told = t
    BY DEF Held
  <2>7. QED
    BY <2>1, <2>3, <2>4, <2>5, <2>6 DEF CheckInv, Awaited, Newest
<1>10. ASSUME NEW n \in writing, OnMessage(n) PROVE CheckInv'
  <2>1. /\ UNCHANGED <<saves, store, handling, raced, channel, host, presses>>
        /\ writing' = writing \ {n}
        /\ behind' = (n # store /\ (behind \/ Overruns(n)))
    BY <1>10 DEF OnMessage, elsewhere, server, handlers, hostVars
  <2>2. "checkin" \in Kinds =>
          marks'["checkin"] =
            IF /\ marks["checkin"].held
               /\ \/ marks["checkin"].told = 0
                  \/ Record(n).checked > marks["checkin"].told
            THEN Free ELSE marks["checkin"]
    BY <1>10 DEF OnMessage, Resolves
  <2>3. (GroupsAsked => GroupsAsked') /\ (CheckUnderway => CheckUnderway')
    BY <2>1, RequestsStay DEF Busy
  <2>4. CASE n # store
    <3>1. ~behind' => ~behind /\ (OnItsWay => OnItsWay')
      BY <2>1, <2>4 DEF OnItsWay, InChannel
    <3>2. QED
      BY <2>1, <2>2, <2>3, <3>1, MarksTyped, CheckStays
  <2>5. CASE n = store
    <3>1. Newest' = Newest /\ Record(store)' = Record(store)
      BY <2>1 DEF Newest, Record
    <3>2. SUFFICES ASSUME ~raced', "checkin" \in Kinds,
                          marks'["checkin"].held
                   PROVE  marks'["checkin"].told \in 0 .. Newest' /\ Awaited'
      BY DEF CheckInv
    <3>3. /\ ~raced /\ marks'["checkin"] = marks["checkin"]
          /\ ~(Record(store).checked > marks["checkin"].told)
      BY <2>1, <2>2, <2>5, <3>2, MarksTyped
    <3>4. marks["checkin"].told \in 0 .. Newest /\ Awaited
      BY <3>2, <3>3 DEF CheckInv
    <3>5. QED
      BY <2>1, <2>3, <3>1, <3>3, <3>4 DEF Awaited
  <2>6. QED
    BY <2>4, <2>5
<1>11. ASSUME NEW k \in Kinds, Press(k) PROVE CheckInv'
  <2>1. /\ UNCHANGED <<saves, store, handling, raced, channel, writing, host, behind>>
        /\ Ask(k, FALSE) /\ Mark(k, Held(Told(k)))
    BY <1>11 DEF Press, feed, elsewhere, server, handlers, hostVars
  <2>2. /\ GroupsAsked => GroupsAsked'
        /\ CheckUnderway => CheckUnderway'
        /\ k = "checkin" => CheckUnderway'
    BY <2>1, RequestsGrow
  <2>3. CASE k = "checkin"
    <3>1. marks'["checkin"] = Held(Told("checkin"))
      BY <1>0, <2>1, <2>3 DEF Mark
    <3>2. marks'["checkin"].told \in 0 .. Newest'
      BY <2>1, <3>1, ToldSoFar DEF Held, Newest
    <3>3. QED
      BY <2>2, <2>3, <3>2 DEF CheckInv, Awaited
  <2>4. CASE k # "checkin"
    <3>1. OnItsWay' = OnItsWay
      BY <2>1 DEF OnItsWay, InChannel
    <3>2. "checkin" \in Kinds => marks'["checkin"] = marks["checkin"]
      BY <1>0, <2>1, <2>4 DEF Mark
    <3>3. QED
      BY <2>1, <2>2, <3>1, <3>2, CheckStays
  <2>5. QED
    BY <2>3, <2>4
<1>12. ASSUME NEW k \in Kinds, PressGroup(k) PROVE CheckInv'
  <2>1. /\ UNCHANGED <<saves, store, handling, raced, channel, writing, host, marks, behind>>
        /\ Ask(k, TRUE)
    BY <1>12 DEF PressGroup, feed, elsewhere, server, handlers, hostVars
  <2>2. /\ GroupsAsked => GroupsAsked'
        /\ CheckUnderway => CheckUnderway'
    BY <2>1, RequestsGrow
  <2>3. OnItsWay' = OnItsWay
    BY <2>1 DEF OnItsWay, InChannel
  <2>4. QED
    BY <2>1, <2>2, <2>3, CheckStays
<1>13. ASSUME NEW k \in Kinds, GiveUp(k) PROVE CheckInv'
  <2>1. /\ UNCHANGED <<saves, store, handling, raced, channel, writing, host, presses, behind>>
        /\ Mark(k, Free)
    BY <1>13 DEF GiveUp, feed, elsewhere, server, handlers, hostVars
  <2>2. (GroupsAsked => GroupsAsked') /\ (CheckUnderway => CheckUnderway')
    BY <2>1, RequestsStay DEF Busy
  <2>3. OnItsWay' = OnItsWay
    BY <2>1 DEF OnItsWay, InChannel
  <2>4. "checkin" \in Kinds => \/ ~marks'["checkin"].held
                               \/ marks'["checkin"] = marks["checkin"]
    BY <1>0, <2>1, MarkMoves, MarksTyped
  <2>5. QED
    BY <2>1, <2>2, <2>3, <2>4, CheckStays
<1>14. ASSUME UpdateTimer PROVE CheckInv'
  <2>1. /\ UNCHANGED <<saves, store, handling, raced, channel, writing, host, presses, behind>>
        /\ Mark("update", Free)
    BY <1>14 DEF UpdateTimer, feed, elsewhere, server, handlers, hostVars
  <2>2. (GroupsAsked => GroupsAsked') /\ (CheckUnderway => CheckUnderway')
    BY <2>1, RequestsStay DEF Busy
  <2>3. OnItsWay' = OnItsWay
    BY <2>1 DEF OnItsWay, InChannel
  <2>4. "checkin" \in Kinds => marks'["checkin"] = marks["checkin"]
    BY <1>0, <2>1 DEF Mark
  <2>5. QED
    BY <2>1, <2>2, <2>3, <2>4, CheckStays
<1>15. QED
  BY <1>1, <1>2, <1>3, <1>4, <1>5, <1>6, <1>7, <1>8, <1>9, <1>10, <1>11, <1>12,
     <1>13, <1>14
  DEF Next

-----------------------------------------------------------------------------
(***************************************************************************)
(* The button of a reboot.                                                 *)
(***************************************************************************)

\* Nothing has happened that the button may be wrong for.
Sure == "reboot" \in Kinds /\ ~unsure /\ ~raced /\ ~GroupsAsked

SentReboot(i) == presses[i].kind = "reboot" /\ presses[i].pc = "sent"

\* A reboot has begun, and no record says so yet.
Beginning == Busy("reboot") /\ Made("reboot").reboot.status = "rebooting"

\* A reboot has been asked for and no record says that it has begun.
Pending == \/ "reboot" \in host \/ Beginning
           \/ \E i \in Requested : SentReboot(i)

\* Record n is no news to a button that was told of reboot t.
Known(n, t) == Id(n) <= t \/ Id(n) <= deletion.gone

\* A reboot that no record knows of holds the button, and none lets go of it;
\* there is one at a time.
PendingInv ==
  /\ late.reboot = 0
  /\ \A i, j \in Requested : SentReboot(i) /\ SentReboot(j) => i = j
  /\ Pending => /\ marks["reboot"].held
                /\ \A n \in 1 .. Newest : Known(n, marks["reboot"].told)
  /\ "reboot" \in host \/ "down" \in host => store # 0
  /\ "reboot" \in host \/ Beginning \/ "down" \in host
     => \A i \in Requested : ~SentReboot(i)
  /\ ~("reboot" \in host /\ ("down" \in host \/ Beginning))

\* The host is on its way down since record m, which every later one repeats:
\* the button is held until one of them arrives, and then the row shows one.
DownSince(m) ==
  /\ m \in 1 .. Newest
  /\ m > deletion.gone
  /\ \A n \in m .. Newest :
       Id(n) = m /\ saves[n].reboot.status = "rebooting"
  /\ marks["reboot"].held
     => \A n \in 1 .. m - 1 : Known(n, marks["reboot"].told)
  /\ ~marks["reboot"].held /\ ~behind => row >= m
Down == "down" \in host /\ ~Beginning
DownInv == Down => DownSince(begun.reboot)

\* What the handlers have in hand leaves the reboot of the stored record as it
\* is, if they have read that one: a failure too, since the host is up again.
MadeInv ==
  /\ Down /\ Busy("checkin") /\ handling["checkin"].read = store
     => Made("checkin").reboot.status = Record(store).reboot.status
  /\ Busy("reboot") /\ ~Beginning
     => /\ ~("down" \in host)
        /\ handling["reboot"].read = store
           => Made("reboot").reboot.id = Record(store).reboot.id
  /\ Beginning => handling["reboot"].next = begun.reboot

RebootInv == Sure => PendingInv /\ DownInv /\ MadeInv

\* Steps that save nothing, ask for nothing and leave the button alone.
LEMMA RebootKeeps ==
  ASSUME TypeOK, TypeOK', HistoryInv, RebootInv,
         UNCHANGED <<saves, store>>, deletion'.gone = deletion.gone,
         Sure' => /\ Sure /\ late'.reboot = late.reboot
                  /\ marks'["reboot"] = marks["reboot"],
         Sure' /\ PendingInv /\ DownInv /\ MadeInv => MadeInv',
         begun'.reboot = begun.reboot, Beginning' => Beginning,
         "reboot" \in host' => "reboot" \in host,
         Down' => Down, "down" \in host' => "down" \in host,
         \A i \in Requested' : SentReboot(i)' => i \in Requested /\ SentReboot(i),
         ~behind' => \/ row' = store
                     \/ ~behind /\ (row' = row \/ ~Overruns(row'))
  PROVE  RebootInv'
<1>1. SUFFICES ASSUME Sure' PROVE PendingInv' /\ DownInv' /\ MadeInv'
  BY DEF RebootInv
<1>2. /\ Sure /\ PendingInv /\ DownInv /\ late'.reboot = late.reboot
      /\ marks'["reboot"] = marks["reboot"]
  BY <1>1 DEF RebootInv
<1>3. Newest' = Newest /\ \A n, t : Known(n, t)' = Known(n, t)
  BY DEF Newest, Known, Id
<1>4. Pending' => Pending
  BY DEF Pending
<1>5. PendingInv'
  BY <1>2, <1>3, <1>4 DEF PendingInv
<1>6. ASSUME Down' PROVE DownSince(begun.reboot)'
  <2> DEFINE m == begun.reboot
  <2>1. Down /\ DownSince(m)
    BY <1>2, <1>6 DEF DownInv
  <2>2. /\ row \in 0 .. Newest /\ store \in 0 .. Newest /\ Newest \in Nat
        /\ deletion.gone \in Nat /\ m \in 1 .. Newest
    BY <2>1, Bounds DEF TypeOK, Newest, Numbers, DownSince
  <2>3. store = Newest
    BY <1>2, <2>1, <2>2 DEF Down, PendingInv, HistoryInv, StoreInv
  <2>4. ASSUME ~marks'["reboot"].held, ~behind' PROVE row' >= m
    <3>1. CASE row' = store
      BY <2>2, <2>3, <3>1
    <3>2. CASE ~behind /\ (row' = row \/ ~Overruns(row'))
      <4>1. row >= m
        BY <1>2, <2>1, <2>4, <3>2 DEF DownSince
      <4>2. row > deletion.gone
        BY <2>1, <2>2, <4>1 DEF DownSince
      <4>3. row' \in Nat
        BY DEF TypeOK
      <4>4. QED
        BY <2>2, <3>2, <4>1, <4>2, <4>3 DEF Overruns
    <3>3. QED
      BY <2>4, <3>1, <3>2
  <2>5. begun'.reboot = m
    OBVIOUS
  <2> HIDE DEF m
  <2>6. QED
    BY <1>2, <1>3, <2>1, <2>4, <2>5 DEF DownSince, Id
<1>7. MadeInv'
  BY <1>1, <1>2 DEF RebootInv
<1>8. QED
  BY <1>5, <1>6, <1>7 DEF DownInv

\* Steps that leave the handlers alone as well.
LEMMA RebootStays ==
  ASSUME TypeOK, TypeOK', HistoryInv, RebootInv,
         UNCHANGED <<saves, store, handling, begun>>,
         deletion'.gone = deletion.gone,
         Sure' => /\ Sure /\ late'.reboot = late.reboot
                  /\ marks'["reboot"] = marks["reboot"],
         "reboot" \in host' => "reboot" \in host,
         "down" \in host' => "down" \in host,
         \A i \in Requested' : SentReboot(i)' => i \in Requested /\ SentReboot(i),
         ~behind' => \/ row' = store
                     \/ ~behind /\ (row' = row \/ ~Overruns(row'))
  PROVE  RebootInv'
<1>1. /\ Beginning' = Beginning /\ (Down' => Down)
      /\ \A h : Busy(h)' = Busy(h) /\ Made(h)' = Made(h)
      /\ Record(store)' = Record(store)
  BY DEF Beginning, Down, Busy, Made, Record
<1>2. MadeInv => MadeInv'
  BY <1>1 DEF MadeInv
<1>3. QED
  BY <1>1, <1>2, RebootKeeps

\* The handler that begins the next record read the stored one, on a page that
\* remains sure.
LEMMA SureSaves ==
  ASSUME TypeOK, RebootInv, NEW h \in Handlers, Save(h), Sure'
  PROVE  /\ Sure /\ PendingInv /\ DownInv /\ MadeInv
         /\ handling[h].read = store /\ handling[h].next = Newest + 1
<1>1. UNCHANGED <<page, unsure>>
  BY Saves
<1>2. UNCHANGED <<presses, unsure>>
  BY <1>1 DEF page, controls
<1>3. ~raced'
  BY DEF Sure
<1>4. ~raced /\ handling[h].read = store /\ handling[h].next = Newest + 1
  BY <1>3, Saves
<1>5. Sure
  BY <1>2, <1>4 DEF Sure, GroupsAsked, Requested
<1>6. QED
  BY <1>4, <1>5 DEF RebootInv

\* A save makes what the other handlers have in hand out of date.
LEMMA MadeSaves ==
  ASSUME TypeOK, HistoryInv, MadeInv, NEW h \in Handlers, Save(h)
  PROVE  MadeInv'
<1>1. store' = Newest + 1 /\ Newest \in Nat
  BY Saves, SaveGrows DEF TypeOK, Newest
<1>2. /\ handling'[h] = Idle /\ UNCHANGED <<host, begun>>
      /\ \A g \in Handlers : g # h => handling'[g] = handling[g]
  BY Saves DEF hostVars
<1>3. ASSUME NEW g \in Handlers, Busy(g)'
      PROVE  /\ Busy(g) /\ handling'[g] = handling[g] /\ Made(g)' = Made(g)
             /\ handling'[g].read # store'
  <2>1. Busy(g) /\ handling'[g] = handling[g]
    BY <1>2, <1>3 DEF Busy
  <2>2. handling[g].read \in 0 .. Newest
    BY <2>1 DEF HistoryInv, HandInv, InHand
  <2>3. QED
    BY <1>1, <2>1, <2>2 DEF Made
<1>4. "checkin" \in Handlers /\ "reboot" \in Handlers
  BY DEF Handlers
<1>5. Busy("checkin")' => handling'["checkin"].read # store'
  BY <1>3, <1>4
<1>6. Busy("reboot")' => /\ Busy("reboot") /\ Made("reboot")' = Made("reboot")
                        /\ handling'["reboot"] = handling["reboot"]
                        /\ handling'["reboot"].read # store'
  BY <1>3, <1>4
<1>7. Busy("reboot")' /\ ~Beginning' => ~Beginning
  BY <1>6 DEF Beginning
<1>8. Beginning' => Beginning
  BY <1>6 DEF Beginning
<1>9. QED
  BY <1>2, <1>5, <1>6, <1>7, <1>8 DEF MadeInv, Beginning

\* A save that leaves the last reboot as it is.
LEMMA RebootRepeats ==
  ASSUME TypeOK, HistoryInv, RebootInv, NEW h \in Handlers, Save(h), Sure',
         Made(h).reboot.id = Record(store).reboot.id,
         Beginning' <=> Beginning,
         Down => Made(h).reboot.status = Record(store).reboot.status
  PROVE  PendingInv' /\ DownInv'
<1> DEFINE r == Made(h)
<1>1. UNCHANGED <<host, begun, row, marks, presses, late, deletion, unsure>>
  BY Saves DEF page, feed, controls, hostVars
<1>2. Sure /\ PendingInv /\ DownInv
  BY SureSaves
<1>3. /\ Newest' = Newest + 1 /\ store' = Newest + 1 /\ Newest \in Nat
      /\ \A n \in 1 .. Newest : saves'[n] = saves[n]
      /\ saves'[Newest + 1] = r
      /\ ~behind' => ~behind
  BY Saves, SaveGrows DEF TypeOK
<1>4. r.reboot.id = Record(store).reboot.id
  OBVIOUS
<1>5. Down => r.reboot.status = Record(store).reboot.status
  OBVIOUS
<1> HIDE DEF r
<1>6. /\ row \in 0 .. Newest /\ store \in 0 .. Newest
      /\ deletion.gone \in Nat
  BY Bounds DEF TypeOK, Newest, Numbers
<1>7. PICK k \in Nat : k = Newest + 1
  BY <1>3
<1>8. /\ \A n \in 1 .. Newest : Id(n)' = Id(n)
      /\ Id(k)' = r.reboot.id
      /\ \A n \in 1 .. Newest' : n \in 1 .. Newest \/ n = k
  BY <1>3, <1>7 DEF Id
<1>9. store # 0 => store = Newest /\ Id(Newest) = r.reboot.id
  BY <1>4, <1>6 DEF HistoryInv, StoreInv, Record, Id
<1>10. ASSUME Pending'
       PROVE  /\ marks["reboot"].held
              /\ \A n \in 1 .. Newest' : Known(n, marks["reboot"].told)'
  <2>1. Pending
    BY <1>1, <1>10 DEF Pending, SentReboot, Requested
  <2>2. /\ marks["reboot"].held
        /\ \A n \in 1 .. Newest : Known(n, marks["reboot"].told)
    BY <1>2, <2>1 DEF PendingInv
  <2>3. \A n \in 1 .. Newest : Known(n, marks["reboot"].told)'
    BY <1>1, <1>8, <2>2 DEF Known
  <2>4. marks["reboot"].told \in Nat
    <3>1. marks["reboot"] \in Marks
      BY <1>2 DEF TypeOK, Sure
    <3>2. QED
      BY <2>2, <3>1, HeldKnows DEF Numbers
  <2>5. Known(k, marks["reboot"].told)'
    <3>1. CASE store = 0
      BY <1>1, <1>4, <1>8, <2>4, <3>1 DEF Known, Record, Blank
    <3>2. CASE store # 0
      <4>1. Newest \in 1 .. Newest
        BY <1>3, <1>6, <1>9, <3>2
      <4>2. Known(Newest, marks["reboot"].told)
        BY <2>2, <4>1
      <4>3. QED
        BY <1>1, <1>8, <1>9, <3>2, <4>2 DEF Known
    <3>3. QED
      BY <3>1, <3>2
  <2>6. QED
    BY <1>8, <2>2, <2>3, <2>5
<1>11. PendingInv'
  <2>1. store' # 0
    BY <1>3
  <2>2. QED
    BY <1>1, <1>2, <1>10, <2>1 DEF PendingInv, SentReboot, Requested
<1>12. ASSUME Down' PROVE DownSince(begun.reboot)'
  <2> DEFINE m == begun.reboot
  <2>1. Down /\ DownSince(m)
    BY <1>1, <1>2, <1>12 DEF Down, DownInv
  <2>2. store # 0
    BY <1>2, <2>1 DEF PendingInv, Down
  <2>3. begun'.reboot = m
    BY <1>1
  <2> HIDE DEF m
  <2>4. m \in 1 .. Newest
    BY <2>1 DEF DownSince
  <2>5. store = Newest /\ Id(Newest) = m /\ Record(store) = saves[Newest]
    BY <1>3, <1>9, <2>1, <2>2, <2>4 DEF DownSince, Record
  <2>6. r.reboot.id = m /\ r.reboot.status = "rebooting"
    BY <1>3, <1>5, <1>9, <2>1, <2>2, <2>4, <2>5 DEF DownSince, Id
  <2>7. \A n \in m .. Newest' : /\ Id(n)' = m
                                /\ saves'[n].reboot.status = "rebooting"
    <3>1. \A n \in m .. Newest' : n \in m .. Newest \/ n = k
      BY <1>3, <1>7, <2>4
    <3>2. \A n \in m .. Newest : /\ Id(n)' = m
                                 /\ saves'[n].reboot.status = "rebooting"
      BY <1>3, <1>8, <2>1, <2>4 DEF DownSince
    <3>3. Id(k)' = m /\ saves'[k].reboot.status = "rebooting"
      BY <1>3, <1>7, <1>8, <2>6
    <3>4. QED
      BY <3>1, <3>2, <3>3
  <2>8. \A n \in 1 .. m - 1 : Known(n, marks["reboot"].told)' =
                              Known(n, marks["reboot"].told)
    BY <1>1, <1>8, <1>3, <2>4 DEF Known
  <2>9. m \in 1 .. Newest'
    BY <1>3, <2>4
  <2>10. QED
    BY <1>1, <1>3, <2>1, <2>3, <2>7, <2>8, <2>9 DEF DownSince
<1>13. QED
  BY <1>11, <1>12 DEF DownInv

\* The record of a reboot that has begun: none before knew of it, and the button
\* is held.
LEMMA RebootBegun ==
  ASSUME TypeOK, HistoryInv, RebootInv, Save("reboot"), Sure', Beginning
  PROVE  PendingInv' /\ DownInv'
<1> DEFINE r == Made("reboot")
<1>1. "reboot" \in Handlers
  BY DEF Handlers
<1>2. /\ UNCHANGED <<host, begun, row, marks, presses, late, deletion, unsure>>
      /\ handling'["reboot"] = Idle
  BY <1>1, Saves DEF page, feed, controls, hostVars
<1>3. /\ Sure /\ PendingInv /\ MadeInv
      /\ handling["reboot"].next = Newest + 1
  BY <1>1, SureSaves
<1>4. PICK m \in Nat : m = Newest + 1
  BY DEF TypeOK, Newest
<1>5. /\ Newest' = m /\ store' = m /\ Newest \in Nat
      /\ \A n \in 1 .. Newest : saves'[n] = saves[n]
      /\ saves'[m] = r
  BY <1>1, <1>4, Saves, SaveGrows DEF TypeOK
<1>6. begun.reboot = m
  BY <1>3, <1>4 DEF MadeInv
<1>7. r.reboot.id = m /\ r.reboot.status = "rebooting"
  <2>1. InHand("reboot")
    BY <1>1 DEF HistoryInv, HandInv, Beginning
  <2>2. QED
    BY <1>6, <2>1 DEF InHand, Beginning
<1> HIDE DEF r
<1>8. /\ marks["reboot"].held /\ ~("reboot" \in host)
      /\ \A n \in 1 .. Newest : Known(n, marks["reboot"].told)
  BY <1>3 DEF PendingInv, Pending
<1>9. ~Beginning'
  BY <1>2 DEF Beginning, Busy
<1>10. PendingInv'
  <2>1. \A i \in Requested' : ~SentReboot(i)'
    BY <1>2, <1>3 DEF PendingInv, SentReboot, Requested
  <2>2. ~Pending'
    BY <1>2, <1>8, <1>9, <2>1 DEF Pending
  <2>3. QED
    BY <1>2, <1>3, <1>4, <1>5, <1>8, <1>9, <2>1, <2>2 DEF PendingInv
<1>11. DownSince(m)'
  <2>1. deletion.gone < m
    <3>1. /\ deletion.gone \in Nat /\ Newest \in Nat
      BY <1>5, Bounds DEF TypeOK, Numbers
    <3>2. deletion.gone <= Newest
      BY <3>1 DEF HistoryInv, StoreInv
    <3>3. QED
      BY <1>4, <3>1, <3>2
  <2>2. \A n \in m .. Newest' : /\ Id(n)' = m
                                /\ saves'[n].reboot.status = "rebooting"
    BY <1>4, <1>5, <1>7 DEF Id
  <2>3. \A n \in 1 .. m - 1 : Known(n, marks["reboot"].told)'
    BY <1>2, <1>4, <1>5, <1>8 DEF Known, Id
  <2>4. m \in 1 .. Newest'
    BY <1>4, <1>5
  <2>5. QED
    BY <1>2, <1>8, <2>1, <2>2, <2>3, <2>4 DEF DownSince
<1>12. QED
  BY <1>2, <1>6, <1>10, <1>11 DEF DownInv

\* Every save keeps the button, or the page unsure.
LEMMA SaveStep ==
  ASSUME TypeOK, HistoryInv, RebootInv, NEW h \in Handlers, Save(h)
  PROVE  RebootInv'
<1>1. SUFFICES ASSUME Sure' PROVE PendingInv' /\ DownInv' /\ MadeInv'
  BY DEF RebootInv
<1>2. MadeInv /\ handling[h].read = store
  BY <1>1, SureSaves
<1>3. MadeInv'
  BY <1>2, MadeSaves
<1>4. /\ handling'[h] = Idle /\ Busy(h)
      /\ \A g \in Handlers : g # h => handling'[g] = handling[g]
  BY Saves
<1>5. InHand(h)
  BY <1>4 DEF HistoryInv, HandInv
<1>6. CASE h = "reboot" /\ Beginning
  BY <1>1, <1>3, <1>6, RebootBegun
<1>7. CASE h = "reboot" /\ ~Beginning
  <2>1. ~Beginning'
    BY <1>4, <1>7 DEF Beginning, Busy
  <2>2. /\ ~("down" \in host)
        /\ Made(h).reboot.id = Record(store).reboot.id
    BY <1>2, <1>4, <1>7 DEF MadeInv
  <2>3. ~Down
    BY <2>2 DEF Down
  <2>4. Beginning' <=> Beginning
    BY <1>7, <2>1
  <2>5. QED
    BY <1>1, <1>3, <2>2, <2>3, <2>4, RebootRepeats
<1>8. CASE h # "reboot"
  <2>1. Beginning' <=> Beginning
    <3>1. handling'["reboot"] = handling["reboot"]
      BY <1>4, <1>8 DEF Handlers
    <3>2. QED
      BY <3>1 DEF Beginning, Busy, Made
  <2>2. Source(h) = Record(store)
    BY <1>2 DEF Source
  <2>3. CASE h = "checkin"
    <3>1. Made(h).reboot.id = Record(store).reboot.id
      BY <1>5, <2>2, <2>3 DEF InHand
    <3>2. Down => Made(h).reboot.status = Record(store).reboot.status
      BY <1>2, <1>4, <2>3 DEF MadeInv
    <3>3. QED
      BY <1>1, <1>3, <2>1, <3>1, <3>2, RebootRepeats
  <2>4. CASE h = "run"
    <3>1. Made(h).reboot = Record(store).reboot
      BY <1>5, <2>2, <2>4 DEF InHand
    <3>2. QED
      BY <1>1, <1>3, <2>1, <3>1, RebootRepeats
  <2>5. QED
    BY <1>8, <2>3, <2>4 DEF Handlers
<1>9. QED
  BY <1>6, <1>7, <1>8

\* A reboot that begins is in hand before it is on record.
LEMMA RebootStartStep ==
  ASSUME TypeOK, HistoryInv, RebootInv, RebootStarts
  PROVE  RebootInv'
<1>1. SUFFICES ASSUME Sure' PROVE PendingInv' /\ DownInv' /\ MadeInv'
  BY DEF RebootInv
<1>2. /\ UNCHANGED <<saves, store, row, marks, presses, late, deletion>>
      /\ UNCHANGED <<unsure, raced>>
      /\ "reboot" \in host /\ host' = (host \ {"reboot"}) \cup {"down"}
      /\ begun'.reboot = Newest + 1
  BY DEF RebootStarts, Result, page, feed, controls, server, TypeOK, NextNumber,
         Newest
<1>3. Sure /\ PendingInv
  BY <1>1, <1>2 DEF RebootInv, Sure, GroupsAsked, Requested
<1>4. store # 0 /\ \A i \in Requested : ~SentReboot(i)
  BY <1>2, <1>3 DEF PendingInv
<1>5. "reboot" \in Handlers /\ Ready("reboot")
  BY DEF RebootStarts, Result, Handlers
<1>6. Newest \in 1 .. MaxSaves - 1
  BY <1>5, ReadyMeans
<1>7. ~RebootFails
  BY DEF RebootFails, RebootStarts
<1>8. PICK r \in Records : Merge("reboot", r) /\ r.reboot.status = "rebooting"
  BY <1>4, RebootMerges
<1>9. /\ handling'["reboot"] = [read |-> store, next |-> Newest + 1, record |-> r]
      /\ handling'["reboot"] # Idle
  BY <1>5, <1>6, <1>8, Merges
<1>10. Beginning' /\ handling'["reboot"].next = begun'.reboot
  BY <1>2, <1>8, <1>9 DEF Beginning, Busy, Made
<1>11. /\ marks["reboot"].held
       /\ \A n \in 1 .. Newest : Known(n, marks["reboot"].told)
  BY <1>2, <1>3 DEF PendingInv, Pending
<1>12. PendingInv'
  <2>1. \A n \in 1 .. Newest' : Known(n, marks["reboot"].told)'
    BY <1>2, <1>11 DEF Known, Id, Newest
  <2>2. \A i \in Requested' : ~SentReboot(i)'
    BY <1>2, <1>4 DEF SentReboot, Requested
  <2>3. QED
    BY <1>2, <1>3, <1>4, <1>11, <2>1, <2>2 DEF PendingInv
<1>13. QED
  BY <1>10, <1>12 DEF DownInv, Down, MadeInv

\* A reboot that fails is the last one begun, and the host is up again.
LEMMA RebootFailStep ==
  ASSUME TypeOK, TypeOK', HistoryInv, RebootInv, RebootFails
  PROVE  RebootInv'
<1>1. /\ UNCHANGED <<saves, store, row, marks, presses, late, deletion, begun>>
      /\ UNCHANGED <<unsure, raced, behind>>
      /\ "down" \in host /\ host' = host \ {"down"}
  BY DEF RebootFails, Result, page, feed, controls, server
<1>2. "reboot" \in Handlers /\ Ready("reboot")
  BY DEF RebootFails, Result, Handlers
<1>3. ~Busy("reboot") /\ Newest \in 1 .. MaxSaves - 1
  BY <1>2, ReadyMeans
<1>4. Down /\ ~Beginning
  BY <1>1, <1>3 DEF Down, Beginning
<1>5. \/ /\ Made("reboot")'.reboot.id = begun.reboot
         /\ Made("reboot")'.reboot.status = "failed"
      \/ store = 0 /\ UNCHANGED handling
  <2>1. ASSUME NEW r \in Records, Merge("reboot", r),
               r.reboot.id = begun'.reboot, r.reboot.status = "failed"
        PROVE  /\ Made("reboot")'.reboot.id = begun.reboot
               /\ Made("reboot")'.reboot.status = "failed"
    <3>1. handling'["reboot"] =
            [read |-> store, next |-> Newest + 1, record |-> r]
      BY <1>2, <1>3, <2>1, Merges
    <3>2. QED
      BY <1>1, <2>1, <3>1 DEF Made
  <2>2. QED
    BY <2>1, RebootMerges
<1>6. ~Beginning'
  BY <1>3, <1>5 DEF Beginning, Busy
<1>7. ~Down' /\ ~("down" \in host')
  BY <1>1 DEF Down
<1>8. ASSUME Sure', PendingInv, DownInv, MadeInv PROVE MadeInv'
  <2>1. store # 0 /\ DownSince(begun.reboot)
    BY <1>1, <1>4, <1>8 DEF PendingInv, DownInv
  <2>2. Record(store)'.reboot.id = begun.reboot
    <3>1. /\ store \in 1 .. Newest /\ store = Newest
          /\ begun.reboot \in 1 .. Newest
      BY <2>1 DEF TypeOK, Newest, HistoryInv, StoreInv, DownSince
    <3>2. Id(store) = begun.reboot
      BY <2>1, <3>1 DEF DownSince
    <3>3. QED
      BY <1>1, <2>1, <3>2 DEF Record, Id
  <2>3. Made("reboot")'.reboot.id = begun.reboot
    BY <1>5, <2>1
  <2>4. QED
    BY <1>6, <1>7, <2>2, <2>3 DEF MadeInv
<1>9. Sure' => Sure
  BY <1>1 DEF Sure, GroupsAsked, Requested
<1>10. \A i \in Requested' : SentReboot(i)' => i \in Requested /\ SentReboot(i)
  BY <1>1 DEF SentReboot, Requested
<1>11. QED
  BY <1>1, <1>6, <1>7, <1>8, <1>9, <1>10, RebootKeeps

\* A check-in closes a reboot under way only for a page that becomes unsure.
LEMMA CheckInStep ==
  ASSUME TypeOK, TypeOK', HistoryInv, RebootInv,
         NEW asked \in BOOLEAN, NEW back \in BOOLEAN, CheckIn(asked, back)
  PROVE  RebootInv'
<1>1. /\ UNCHANGED <<saves, store, row, marks, presses, late, deletion, begun>>
      /\ UNCHANGED <<raced, behind>>
      /\ unsure' = (unsure \/ (back /\ host \cap {"reboot", "down"} # {}))
  BY DEF CheckIn, page, feed, controls, server
<1>2. ("reboot" \in host' => "reboot" \in host) /\ ("down" \in host' => "down" \in host)
  BY DEF CheckIn
<1>3. "checkin" \in Handlers /\ "reboot" \in Handlers /\ Ready("checkin")
  BY DEF CheckIn, Handlers
<1>4. Newest \in 1 .. MaxSaves - 1
  BY <1>3, ReadyMeans
<1>5. PICK r \in Records :
        /\ Merge("checkin", r)
        /\ ~back => r.reboot.status = Record(store).reboot.status
  BY CheckInMerges
<1>6. /\ handling'["reboot"] = handling["reboot"]
      /\ Made("checkin")' = r
  <2>1. /\ \A g \in Handlers : g # "checkin" => handling'[g] = handling[g]
        /\ handling'["checkin"] =
             [read |-> store, next |-> Newest + 1, record |-> r]
    BY <1>3, <1>4, <1>5, Merges
  <2>2. QED
    BY <1>3, <2>1 DEF Made
<1>7. /\ Beginning' = Beginning /\ Busy("reboot")' = Busy("reboot")
      /\ Made("reboot")' = Made("reboot") /\ Record(store)' = Record(store)
  BY <1>1, <1>6 DEF Beginning, Busy, Made, Record
<1>8. Down' => Down
  BY <1>2, <1>7 DEF Down
<1>9. ASSUME Sure', MadeInv PROVE MadeInv'
  <2>1. Down' => ~back
    BY <1>1, <1>8, <1>9 DEF Sure, Down
  <2>2. Down' => Made("checkin")'.reboot.status = Record(store)'.reboot.status
    BY <1>5, <1>6, <1>7, <2>1
  <2>3. QED
    BY <1>1, <1>2, <1>6, <1>7, <1>9, <2>2 DEF MadeInv
<1>10. Sure' => Sure
  BY <1>1 DEF Sure, GroupsAsked, Requested
<1>11. \A i \in Requested' : SentReboot(i)' => i \in Requested /\ SentReboot(i)
  BY <1>1 DEF SentReboot, Requested
<1>12. QED
  BY <1>1, <1>2, <1>7, <1>8, <1>9, <1>10, <1>11, RebootKeeps

\* A run is nothing to a reboot.
LEMMA RunStep ==
  ASSUME TypeOK, TypeOK', HistoryInv, RebootInv, RunStarts \/ RunEnds
  PROVE  RebootInv'
<1>1. /\ UNCHANGED <<saves, store, row, marks, presses, late, deletion>>
      /\ UNCHANGED <<unsure, raced, behind>>
      /\ "reboot" \in host' => "reboot" \in host
      /\ "down" \in host' => "down" \in host
  BY DEF RunStarts, RunEnds, Result, page, feed, controls, server
<1>2. begun'.reboot = begun.reboot
  BY DEF RunStarts, RunEnds, TypeOK
<1>3. Newest \in 1 .. MaxSaves - 1
  BY ReadyMeans DEF RunStarts, RunEnds, Result, Handlers
<1>4. /\ handling'["checkin"] = handling["checkin"]
      /\ handling'["reboot"] = handling["reboot"]
  <2>1. ASSUME NEW r \in Records, Merge("run", r)
        PROVE  /\ handling'["checkin"] = handling["checkin"]
               /\ handling'["reboot"] = handling["reboot"]
    <3>1. /\ "run" \in Handlers /\ "checkin" \in Handlers
          /\ "reboot" \in Handlers
      BY DEF Handlers
    <3>2. \A g \in Handlers : g # "run" => handling'[g] = handling[g]
      BY <1>3, <2>1, <3>1, Merges
    <3>3. QED
      BY <3>1, <3>2
  <2>2. QED
    BY <2>1, RunMerges
<1>5. /\ Beginning' = Beginning /\ (Down' => Down)
      /\ Busy("reboot")' = Busy("reboot") /\ Made("reboot")' = Made("reboot")
      /\ Busy("checkin")' = Busy("checkin") /\ Made("checkin")' = Made("checkin")
      /\ Record(store)' = Record(store)
  BY <1>1, <1>4 DEF Beginning, Down, Busy, Made, Record
<1>6. MadeInv => MadeInv'
  BY <1>1, <1>2, <1>4, <1>5 DEF MadeInv
<1>7. Sure' => Sure
  BY <1>1 DEF Sure, GroupsAsked, Requested
<1>8. \A i \in Requested' : SentReboot(i)' => i \in Requested /\ SentReboot(i)
  BY <1>1 DEF SentReboot, Requested
<1>9. QED
  BY <1>1, <1>2, <1>5, <1>6, <1>7, <1>8, RebootKeeps

\* Steps with the same requests.
LEMMA SameRequests ==
  ASSUME UNCHANGED presses, ~unsure' => ~unsure, ~raced' => ~raced
  PROVE  /\ Sure' => Sure
         /\ \A i \in Requested' : SentReboot(i)' => i \in Requested /\ SentReboot(i)
BY DEF Sure, GroupsAsked, SentReboot, Requested

\* Steps in which a request goes on.
LEMMA FurtherRequest ==
  ASSUME TypeOK, NEW i \in Requested,
         NEW pc \in {"accepted", "refused", "answered"},
         presses' = [presses EXCEPT ![i].pc = pc],
         ~unsure' => ~unsure, ~raced' => ~raced
  PROVE  /\ Sure' => Sure
         /\ \A j \in Requested' : SentReboot(j)' => /\ j \in Requested
                                                    /\ SentReboot(j) /\ j # i
         /\ GroupsAsked => GroupsAsked'
<1>1. Requested' = Requested
  BY PressMoves DEF Requested
<1>2. \A j \in Requested :
        /\ presses'[j].kind = presses[j].kind
        /\ presses'[j].group = presses[j].group
        /\ presses'[j].pc = IF j = i THEN pc ELSE presses[j].pc
  <2>1. pc \in {"sent", "accepted", "refused", "answered"}
    OBVIOUS
  <2>2. QED
    BY <2>1, PressMoves
<1>3. GroupsAsked => GroupsAsked'
  BY <1>1, <1>2 DEF GroupsAsked
<1>4. \A j \in Requested : SentReboot(j)' => SentReboot(j) /\ j # i
  BY <1>2 DEF SentReboot
<1>5. QED
  BY <1>1, <1>3, <1>4 DEF Sure

\* A deletion takes a reboot under way with it only from a page that is unsure.
LEMMA DeletionStep ==
  ASSUME TypeOK, TypeOK', HistoryInv, RebootInv, DeleteSystem \/ DeletedElsewhere
  PROVE  RebootInv'
<1>1. CASE Forget /\ deletion'.gone = store
  <2>1. SUFFICES ASSUME Sure' PROVE PendingInv' /\ DownInv' /\ MadeInv'
    BY DEF RebootInv
  <2>2. /\ UNCHANGED <<saves, host, row, marks, presses, late>>
        /\ UNCHANGED <<handling, raced, begun>> /\ store' = 0
        /\ unsure' = (unsure \/ host \cap {"reboot", "down"} # {})
    BY <1>1 DEF Forget, feed, controls, elsewhere, server, handlers, hostVars
  <2>3. /\ Sure /\ PendingInv /\ MadeInv
        /\ ~("down" \in host) /\ ~("reboot" \in host)
    BY <2>1, <2>2, SameRequests DEF RebootInv, Sure
  <2>4. deletion'.gone = Newest /\ Newest' = Newest
    BY <1>1, <2>2, HistoryForgets DEF Newest
  <2>5. deletion.gone \in Nat /\ Newest \in Nat /\ deletion.gone <= Newest
    <3>1. deletion.gone \in Nat /\ Newest \in Nat
      BY Bounds DEF TypeOK, Newest, Numbers
    <3>2. QED
      BY <3>1 DEF HistoryInv, StoreInv
  <2>6. \A n \in 1 .. Newest : \A t : Known(n, t)'
    <3>1. \A n \in 1 .. Newest : Id(n)' \in 0 .. n
      BY <2>2 DEF HistoryInv, NumbersInv, Id
    <3>2. QED
      BY <2>4, <2>5, <3>1 DEF Known
  <2>7. /\ Beginning' = Beginning /\ Busy("reboot")' = Busy("reboot")
        /\ ~Down'
    BY <2>2, <2>3 DEF Beginning, Busy, Made, Down
  <2>8. PendingInv'
    BY <2>2, <2>3, <2>4, <2>6, <2>7
    DEF PendingInv, Pending, SentReboot, Requested
  <2>9. MadeInv'
    <3>1. Busy("reboot") => handling["reboot"].read # 0
      BY DEF HistoryInv, HandInv, InHand, Handlers
    <3>2. QED
      BY <2>2, <2>3, <2>7, <3>1 DEF MadeInv
  <2>10. QED
    BY <2>7, <2>8, <2>9 DEF DownInv
<1>2. CASE /\ UNCHANGED <<elsewhere, feed, controls, late, unsure>>
           /\ deletion'.gone = deletion.gone
  <2>1. /\ UNCHANGED <<saves, store, host, row, marks, presses, late, unsure>>
        /\ UNCHANGED <<handling, raced, begun>>
    BY <1>2 DEF elsewhere, server, handlers, hostVars, feed, controls
  <2>2. DeleteSystem => behind' = behind
    BY DEF DeleteSystem
  <2>3. DeletedElsewhere => behind' = (behind \/ row # 0)
    BY DEF DeletedElsewhere
  <2>4. ~behind' => ~behind
    BY <2>2, <2>3 DEF TypeOK
  <2>5. QED
    BY <1>2, <2>1, <2>4, SameRequests, RebootStays
<1>3. QED
  BY <1>1, <1>2, Forgets

\* A press holds the button before its request is made.
LEMMA PressStep ==
  ASSUME TypeOK, TypeOK', HistoryInv, RebootInv, NEW k \in Kinds, Press(k)
  PROVE  RebootInv'
<1>1. /\ UNCHANGED <<saves, store, host, row, late, deletion, behind>>
      /\ UNCHANGED <<handling, raced, begun>>
      /\ Ask(k, FALSE) /\ Mark(k, Held(Told(k))) /\ Offered(k)
      /\ unsure' = (unsure \/ (k = "reboot" /\ Told(k) # Record(store).reboot.id))
  BY DEF Press, feed, elsewhere, server, handlers, hostVars
<1>2. /\ Len(presses) \in Nat /\ Len(presses') = Len(presses) + 1
      /\ \A j \in Requested : presses'[j] = presses[j]
  <2>1. Len(presses) \in Nat
    BY DEF TypeOK
  <2>2. QED
    BY <1>1, <2>1, AskAppends
<1>3. PICK p \in Nat : p = Len(presses) + 1
  BY <1>2
<1>4. presses'[p] = [kind |-> k, group |-> FALSE, pc |-> "sent"]
  BY <1>1, <1>3, AskAppends
<1>5. /\ p \in Requested' /\ \A j \in Requested' : j \in Requested \/ j = p
      /\ \A j \in Requested : j \in Requested' /\ j # p
  BY <1>2, <1>3 DEF Requested
<1>6. Sure' => Sure
  <2>1. GroupsAsked => GroupsAsked'
    BY <1>2, <1>5 DEF GroupsAsked
  <2>2. QED
    BY <1>1, <2>1 DEF Sure
<1>7. \A j \in Requested : SentReboot(j)' = SentReboot(j)
  BY <1>2 DEF SentReboot
<1>8. CASE k # "reboot"
  <2>1. "reboot" \in Kinds => marks'["reboot"] = marks["reboot"]
    BY <1>1, <1>8 DEF Mark, TypeOK
  <2>2. ~SentReboot(p)'
    BY <1>4, <1>8 DEF SentReboot
  <2>3. \A j \in Requested' : SentReboot(j)' => j \in Requested /\ SentReboot(j)
    BY <1>5, <1>7, <2>2
  <2>4. QED
    BY <1>1, <1>6, <2>1, <2>3, RebootStays DEF Sure
<1>9. CASE k = "reboot"
  <2>1. SUFFICES ASSUME Sure' PROVE PendingInv' /\ DownInv' /\ MadeInv'
    BY DEF RebootInv
  <2>2. /\ Sure /\ PendingInv /\ DownInv /\ MadeInv /\ ~marks["reboot"].held
        /\ Told("reboot") = Record(store).reboot.id
        /\ Told("reboot") = Record(row).reboot.id
    BY <1>1, <1>6, <1>9, <2>1 DEF RebootInv, Sure, Offered, Told
  <2>3. ~Pending
    BY <2>2 DEF PendingInv
  <2>4. /\ row \in 1 .. Newest /\ store \in 0 .. Newest /\ Newest \in Nat
        /\ deletion.gone \in Nat
    BY <1>1, Bounds DEF Offered, TypeOK, Newest, Numbers
  <2>5. ~("down" \in host)
    <3>1. SUFFICES ASSUME "down" \in host PROVE FALSE
      OBVIOUS
    <3>2. PICK m \in 1 .. Newest : DownSince(m)
      <4>1. DownSince(begun.reboot)
        BY <2>2, <2>3, <3>1 DEF Pending, Down, DownInv
      <4>2. QED
        BY <4>1 DEF DownSince
    <3>3. store = Newest /\ Id(Newest) = m
      BY <2>2, <2>4, <3>1, <3>2 DEF PendingInv, HistoryInv, StoreInv, DownSince
    <3>4. Record(store).reboot.id = m
      BY <3>2, <3>3 DEF Record, Id
    <3>5. Record(row).reboot.id = Id(row) /\ Id(row) \in 0 .. row
      BY <2>4 DEF Record, Id, HistoryInv, NumbersInv
    <3>6. row \in m .. Newest
      BY <2>2, <2>4, <3>2, <3>4, <3>5
    <3>7. Record(row).reboot.status = "rebooting" /\ Record(row).reboot.id = m
      BY <2>4, <3>2, <3>6 DEF DownSince, Record, Id
    <3>8. Rebooting(Record(row))
      BY <2>2, <2>4, <3>2, <3>7 DEF Rebooting, PendingInv
    <3>9. QED
      BY <1>1, <1>9, <3>8 DEF Offered
  <2>6. marks'["reboot"].held /\ marks'["reboot"].told = Record(store).reboot.id
    BY <1>1, <1>9, <2>2 DEF Mark, TypeOK, Held
  <2>7. \A n \in 1 .. Newest : Known(n, Record(store).reboot.id)
    <3>1. CASE store = 0
      BY <2>4, <3>1 DEF Known, HistoryInv, NumbersInv, StoreInv
    <3>2. CASE store # 0
      BY <2>2, <3>2 DEF Known, HistoryInv, LastInv, Record, Id, Sure
    <3>3. QED
      BY <3>1, <3>2
  <2>8. \A n \in 1 .. Newest' : Known(n, marks["reboot"].told)'
    BY <1>1, <2>6, <2>7 DEF Known, Id, Newest
  <2>9. \A j \in Requested' : SentReboot(j)' => j = p
    BY <1>5, <1>7, <2>3 DEF Pending
  <2>10. ~Beginning /\ ~Beginning'
    BY <1>1, <2>3 DEF Pending, Beginning, Busy, Made
  <2>11. PendingInv'
    BY <1>1, <2>2, <2>3, <2>5, <2>6, <2>8, <2>9, <2>10 DEF PendingInv, Pending
  <2>12. ~Down' /\ MadeInv'
    <3>1. ~Down'
      BY <1>1, <2>5 DEF Down
    <3>2. /\ Busy("reboot")' = Busy("reboot") /\ Made("reboot")' = Made("reboot")
          /\ Record(store)' = Record(store)
      BY <1>1 DEF Busy, Made, Record
    <3>3. QED
      BY <1>1, <2>2, <2>10, <3>1, <3>2 DEF MadeInv
  <2>13. QED
    BY <2>11, <2>12 DEF DownInv
<1>10. QED
  BY <1>8, <1>9

\* A request that is made or lost leaves a reboot under way under its mark.
LEMMA RequestStep ==
  ASSUME TypeOK, TypeOK', HistoryInv, RebootInv,
         NEW i \in Requested, RequestAction(i)
  PROVE  RebootInv'
<1>1. /\ UNCHANGED <<saves, store, row, marks, late, deletion, behind, unsure>>
      /\ UNCHANGED <<handling, raced, begun>>
      /\ presses[i].pc = "sent"
  BY DEF RequestAction, feed, elsewhere, server, handlers, hostVars
<1>2. PICK pc \in {"accepted", "refused"} :
        /\ presses' = [presses EXCEPT ![i].pc = pc]
        /\ \/ MayTake(presses[i].kind) /\ host' = host \cup {presses[i].kind}
           \/ host' = host
  BY DEF RequestAction
<1>3. /\ Sure' => Sure
      /\ \A j \in Requested' : SentReboot(j)' => /\ j \in Requested
                                                 /\ SentReboot(j) /\ j # i
  BY <1>1, <1>2, FurtherRequest
<1>4. CASE presses[i].kind = "reboot" /\ host' # host
  <2>1. MayTake("reboot") /\ host' = host \cup {"reboot"}
    BY <1>2, <1>4
  <2>2. store # 0 /\ ~("reboot" \in host) /\ ~("down" \in host)
    BY <2>1 DEF MayTake
  <2>3. SUFFICES ASSUME Sure' PROVE PendingInv' /\ DownInv' /\ MadeInv'
    BY DEF RebootInv
  <2>4. Sure /\ PendingInv /\ MadeInv
    BY <1>3, <2>3 DEF RebootInv
  <2>5. SentReboot(i) /\ Pending
    BY <1>1, <1>4 DEF SentReboot, Pending
  <2>6. \A j \in Requested' : ~SentReboot(j)'
    BY <1>3, <2>4, <2>5 DEF PendingInv
  <2>7. ~("down" \in host') /\ store' # 0
    BY <1>1, <2>1, <2>2
  <2>8. late'.reboot = 0 /\ marks'["reboot"].held
    BY <1>1, <2>4, <2>5 DEF PendingInv
  <2>9. \A n \in 1 .. Newest' : Known(n, marks["reboot"].told)'
    <3>1. \A n \in 1 .. Newest : Known(n, marks["reboot"].told)
      BY <2>4, <2>5 DEF PendingInv
    <3>2. Newest' = Newest
      BY <1>1 DEF Newest
    <3>3. ASSUME NEW n \in 1 .. Newest PROVE Known(n, marks["reboot"].told)'
      <4>1. Known(n, marks["reboot"].told)
        BY <3>1
      <4>2. saves' = saves /\ marks' = marks /\ deletion' = deletion
        BY <1>1
      <4>3. QED
        BY <4>1, <4>2 DEF Known, Id
    <3>4. QED
      BY <3>2, <3>3
  <2>10. \A j, k \in Requested' : SentReboot(j)' /\ SentReboot(k)' => j = k
    BY <2>6
  <2>11. ~Beginning /\ ~Beginning'
    BY <1>1, <2>4, <2>5 DEF PendingInv, Beginning, Busy, Made
  <2>12. PendingInv'
    BY <2>6, <2>7, <2>8, <2>9, <2>10, <2>11 DEF PendingInv
  <2>13. ~Down' /\ MadeInv'
    <3>1. ~Down'
      BY <2>7 DEF Down
    <3>2. /\ Busy("reboot")' = Busy("reboot") /\ Made("reboot")' = Made("reboot")
          /\ Record(store)' = Record(store)
      BY <1>1 DEF Busy, Made, Record
    <3>3. QED
      BY <1>1, <2>4, <2>7, <2>11, <3>1, <3>2 DEF MadeInv
  <2>14. QED
    BY <2>12, <2>13 DEF DownInv
<1>5. CASE ~(presses[i].kind = "reboot" /\ host' # host)
  <2>1. presses[i].kind # "down"
    <3>1. presses[i] \in Requests
      <4>1. presses \in Seq(Requests)
        BY DEF TypeOK
      <4>2. QED
        BY <4>1, ElementOfSeq DEF Requested
    <3>2. presses[i].kind \in Kinds
      BY <3>1 DEF Requests
    <3>3. QED
      BY <3>2, DashboardBounds
  <2>2. ("reboot" \in host' => "reboot" \in host) /\ ("down" \in host' => "down" \in host)
    BY <1>2, <1>5, <2>1
  <2>3. QED
    BY <1>1, <1>3, <2>2, RebootStays
<1>6. QED
  BY <1>4, <1>5

\* An answer lets go only of a reboot that never began.
LEMMA AnswerStep ==
  ASSUME TypeOK, TypeOK', HistoryInv, RebootInv,
         NEW i \in Requested, Answered(i) \/ GroupAnswered(i)
  PROVE  RebootInv'
<1>1. /\ UNCHANGED <<saves, store, host, row, late, deletion, behind>>
      /\ UNCHANGED <<handling, raced, begun>>
      /\ presses' = [presses EXCEPT ![i].pc = "answered"]
  BY DEF Answered, GroupAnswered, feed, elsewhere, server, handlers, hostVars
<1>2. ~unsure' => ~unsure
  BY DEF Answered, GroupAnswered, TypeOK
<1>3. /\ Sure' => Sure
      /\ \A j \in Requested' : SentReboot(j)' => /\ j \in Requested
                                                 /\ SentReboot(j) /\ j # i
      /\ GroupsAsked => GroupsAsked'
  BY <1>1, <1>2, FurtherRequest
<1>4. ASSUME Sure' PROVE marks'["reboot"] = marks["reboot"]
  <2>1. CASE Answered(i)
    <3>1. unsure' = (unsure \/ (/\ presses[i].kind = "reboot"
                                /\ ~(presses[i].pc = "accepted")))
      BY <2>1 DEF Answered
    <3>2. \/ presses[i].pc = "accepted"
          \/ presses[i].kind # "reboot" /\ Mark(presses[i].kind, Free)
      BY <1>4, <2>1, <3>1 DEF Answered, Release, Sure
    <3>3. CASE presses[i].pc = "accepted"
      BY <2>1, <3>3 DEF Answered, Release
    <3>4. CASE presses[i].kind # "reboot" /\ Mark(presses[i].kind, Free)
      BY <1>4, <3>4 DEF Mark, Sure, TypeOK
    <3>5. QED
      BY <3>2, <3>3, <3>4
  <2>2. CASE GroupAnswered(i)
    <3>1. GroupsAsked
      BY <2>2 DEF GroupAnswered, GroupsAsked
    <3>2. QED
      BY <1>3, <1>4, <3>1 DEF Sure
  <2>3. QED
    BY <2>1, <2>2
<1>5. QED
  BY <1>1, <1>3, <1>4, RebootStays

\* A record that arrives lets go only of a reboot that is over.
LEMMA MessageStep ==
  ASSUME TypeOK, TypeOK', HistoryInv, RebootInv, NEW n \in writing, OnMessage(n)
  PROVE  RebootInv'
<1>1. /\ UNCHANGED <<saves, store, host, presses, late, deletion>>
      /\ UNCHANGED <<handling, raced, begun>>
      /\ row' = n /\ behind' = (n # store /\ (behind \/ Overruns(n)))
      /\ unsure' = (unsure \/ \E k \in Kinds \cap {"reboot"} :
                      marks'[k] # marks[k] /\ Outdated(n, marks[k].told))
  BY DEF OnMessage, Shown, elsewhere, server, handlers, hostVars
<1>2. ~unsure' => ~unsure
  BY <1>1
<1>3. /\ Sure' => Sure
      /\ \A i \in Requested' : SentReboot(i)' => i \in Requested /\ SentReboot(i)
  BY <1>1, <1>2, SameRequests
<1>4. behind \in BOOLEAN /\ behind' \in BOOLEAN
  BY DEF TypeOK
<1>5. ~behind' => \/ row' = store
                  \/ ~behind /\ (row' = row \/ ~Overruns(row'))
  BY <1>1, <1>4
<1>6. CASE "reboot" \in Kinds => marks'["reboot"] = marks["reboot"]
  BY <1>1, <1>3, <1>5, <1>6, RebootStays DEF Sure
<1>7. CASE ~("reboot" \in Kinds => marks'["reboot"] = marks["reboot"])
  <2>1. SUFFICES ASSUME Sure' PROVE PendingInv' /\ DownInv' /\ MadeInv'
    BY DEF RebootInv
  <2>2. Sure /\ PendingInv /\ DownInv /\ MadeInv
    BY <1>3, <2>1 DEF RebootInv
  <2>3. marks["reboot"].held /\ marks'["reboot"] = Free
    BY <1>7 DEF OnMessage
  <2>4. ~Outdated(n, marks["reboot"].told)
    BY <1>1, <1>7, <2>1 DEF Sure
  <2>5. Record(n).reboot.id # marks["reboot"].told
    BY <1>7 DEF OnMessage, Resolves
  <2>6. n \in 1 .. Newest /\ Newest \in Nat /\ deletion.gone \in Nat
    <3>1. saves \in Seq(Records) /\ writing \subseteq 1 .. Len(saves)
      BY DEF TypeOK
    <3>2. deletion.gone \in Numbers
      BY DEF TypeOK
    <3>3. deletion.gone \in Nat
      BY <3>2, Bounds DEF Numbers
    <3>4. Newest \in Nat
      BY <3>1, LenProperties DEF Newest
    <3>5. QED
      BY <3>1, <3>3, <3>4 DEF Newest
  <2>7. Record(n).reboot.id = Id(n) /\ Id(n) \in Nat
    BY <2>6 DEF Record, Id, HistoryInv, NumbersInv
  <2>8. marks["reboot"].told \in Nat
    <3>1. marks["reboot"] \in Marks
      BY <2>2 DEF Sure, TypeOK
    <3>2. QED
      BY <2>3, <3>1, HeldKnows DEF Numbers
  <2>9. ~Known(n, marks["reboot"].told)
    BY <2>4, <2>5, <2>6, <2>7, <2>8 DEF Outdated, Known
  <2>10. ~Pending
    BY <2>2, <2>6, <2>9 DEF PendingInv
  <2>11. /\ Beginning' = Beginning /\ Down' = Down
         /\ \A h : Busy(h)' = Busy(h) /\ Made(h)' = Made(h)
         /\ Record(store)' = Record(store)
    BY <1>1 DEF Beginning, Down, Busy, Made, Record
  <2>12. PendingInv'
    <3>1. ~Pending'
      BY <1>1, <1>3, <2>10, <2>11 DEF Pending
    <3>2. QED
      BY <1>1, <1>3, <2>2, <2>11, <3>1 DEF PendingInv
  <2>13. ASSUME Down' PROVE DownSince(begun.reboot)'
    <3>1. PICK m \in 1 .. Newest : m = begun.reboot /\ DownSince(m)
      BY <2>2, <2>11, <2>13 DEF DownInv, DownSince
    <3>2. n >= m
      BY <2>3, <2>6, <2>9, <3>1 DEF DownSince
    <3>3. ~marks'["reboot"].held
      BY <2>3, MarksTyped
    <3>4. DownSince(m)'
      BY <1>1, <3>1, <3>2, <3>3 DEF DownSince, Id, Newest
    <3>5. QED
      BY <1>1, <3>1, <3>4
  <2>14. MadeInv'
    BY <1>1, <2>2, <2>11 DEF MadeInv
  <2>15. QED
    BY <2>12, <2>13, <2>14 DEF DownInv
<1>8. QED
  BY <1>6, <1>7

\* Every step keeps a reboot that is under way under a mark, or the page unsure.
LEMMA RebootStep ==
  ASSUME TypeOK, TypeOK', HistoryInv, RebootInv, [Next]_vars PROVE RebootInv'
<1>1. ASSUME NEW asked \in BOOLEAN, NEW back \in BOOLEAN, CheckIn(asked, back)
      PROVE  RebootInv'
  BY <1>1, CheckInStep
<1>2. CASE RunStarts \/ RunEnds
  BY <1>2, RunStep
<1>3. CASE RebootStarts \/ RebootFails \/ \E h \in Handlers : Save(h)
  BY <1>3, RebootStartStep, RebootFailStep, SaveStep
<1>4. CASE HostBoots \/ Connect \/ GetSystems \/ ListFails \/ Remove \/ Relay
           \/ Disconnect \/ UNCHANGED vars
  <2>1. /\ UNCHANGED <<saves, store, row, marks, presses, late, unsure>>
        /\ UNCHANGED <<handling, raced, begun>>
        /\ "reboot" \in host' => "reboot" \in host
        /\ "down" \in host' => "down" \in host
    BY <1>4
    DEF HostBoots, Connect, GetSystems, ListFails, Remove, Relay, Disconnect,
        vars, page, feed, controls, elsewhere, server, handlers, hostVars
  <2>2. ~behind' => ~behind
    BY <1>4
    DEF HostBoots, Connect, GetSystems, ListFails, Remove, Relay, Disconnect,
        vars, TypeOK
  <2>3. deletion'.gone = deletion.gone
    BY <1>4
    DEF HostBoots, Connect, GetSystems, ListFails, Remove, Relay, Disconnect,
        vars, page, TypeOK
  <2>4. QED
    BY <2>1, <2>2, <2>3, SameRequests, RebootStays
<1>5. CASE ShowList \/ Removed
  <2>1. /\ UNCHANGED <<saves, store, host, marks, presses, late, unsure>>
        /\ UNCHANGED <<handling, raced, begun>>
    BY <1>5
    DEF ShowList, Removed, controls, elsewhere, server, handlers, hostVars
  <2>2. deletion'.gone = deletion.gone
    BY <1>5 DEF ShowList, Removed, TypeOK
  <2>3. ~behind' => ~behind /\ (row' = row \/ ~Overruns(row'))
    BY <1>5 DEF ShowList, Removed, TypeOK
  <2>4. QED
    BY <2>1, <2>2, <2>3, SameRequests, RebootStays
<1>6. CASE DeleteSystem \/ DeletedElsewhere
  BY <1>6, DeletionStep
<1>7. ASSUME NEW i \in Requested,
             RequestAction(i) \/ Answered(i) \/ GroupAnswered(i)
      PROVE  RebootInv'
  BY <1>7, RequestStep, AnswerStep
<1>8. ASSUME NEW n \in writing, OnMessage(n) PROVE RebootInv'
  BY <1>8, MessageStep
<1>9. ASSUME NEW k \in Kinds, Press(k) PROVE RebootInv'
  BY <1>9, PressStep
<1>10. ASSUME NEW k \in Kinds, PressGroup(k) PROVE RebootInv'
  <2>1. GroupsAsked'
    BY <1>10, RequestsGrow DEF PressGroup, elsewhere, server, handlers, hostVars
  <2>2. QED
    BY <2>1 DEF RebootInv, Sure
<1>11. ASSUME NEW k \in Kinds, GiveUp(k) PROVE RebootInv'
  <2>1. /\ UNCHANGED <<saves, store, host, row, presses, late, deletion, behind>>
        /\ UNCHANGED <<handling, raced, begun>>
        /\ Mark(k, Free) /\ unsure' = (unsure \/ k = "reboot")
    BY <1>11 DEF GiveUp, feed, elsewhere, server, handlers, hostVars
  <2>2. CASE k = "reboot"
    BY <2>1, <2>2 DEF RebootInv, Sure
  <2>3. CASE k # "reboot"
    <3>1. "reboot" \in Kinds => marks'["reboot"] = marks["reboot"]
      BY <2>1, <2>3 DEF Mark, TypeOK
    <3>2. ~unsure' => ~unsure
      BY <2>1
    <3>3. QED
      BY <2>1, <3>1, <3>2, SameRequests, RebootStays DEF Sure
  <2>4. QED
    BY <2>2, <2>3
<1>12. ASSUME UpdateTimer PROVE RebootInv'
  <2>1. /\ UNCHANGED <<saves, store, host, row, presses, late, deletion, behind>>
        /\ UNCHANGED <<handling, raced, begun>>
        /\ Mark("update", Free) /\ unsure' = unsure
    BY <1>12 DEF UpdateTimer, feed, elsewhere, server, handlers, hostVars
  <2>2. "reboot" \in Kinds => marks'["reboot"] = marks["reboot"]
    BY <2>1 DEF Mark, TypeOK
  <2>3. QED
    BY <2>1, <2>2, SameRequests, RebootStays DEF Sure
<1>13. ASSUME GoesTooLate PROVE RebootInv'
  <2>1. /\ UNCHANGED <<saves, store, host, row, marks, presses, deletion, behind>>
        /\ UNCHANGED <<handling, raced, begun>>
        /\ unsure' \/ (late'.reboot = late.reboot /\ unsure' = unsure)
    BY <1>13
    DEF GoesTooLate, TooLate, TypeOK, feed, controls, elsewhere, server,
        handlers, hostVars
  <2>2. CASE unsure'
    BY <2>2 DEF RebootInv, Sure
  <2>3. CASE late'.reboot = late.reboot /\ unsure' = unsure
    BY <2>1, <2>3, SameRequests, RebootStays
  <2>4. QED
    BY <2>1, <2>2, <2>3
<1>14. QED
  BY <1>1, <1>2, <1>3, <1>4, <1>5, <1>6, <1>7, <1>8, <1>9, <1>10, <1>11, <1>12,
     <1>13
  DEF Next, HostStep

-----------------------------------------------------------------------------
(***************************************************************************)
(* The theorems.                                                           *)
(***************************************************************************)
DashboardInv == TypeOK /\ HistoryInv /\ RowInv /\ CheckInv /\ RebootInv

\* A page that opens is right.
LEMMA DashboardInit == Init => DashboardInv
<1> SUFFICES ASSUME Init PROVE DashboardInv
  OBVIOUS
<1> DEFINE r == [Blank EXCEPT !.checked = 1, !.need = TRUE,
                              !.reboot = [id |-> 1, status |-> "rebooted"]]
<1>1. saves = <<r>> /\ store = 1 /\ deletion = [pc |-> "none", gone |-> 0]
  BY DEF Init
<1>2. 0 \in Numbers /\ 1 \in Numbers
  BY Bounds DEF Numbers
<1>3. r \in Records /\ r.checked = 1 /\ r.reboot.id = 1
  BY <1>2 DEF Blank, Records, RunRecords, RebootRecords
<1> HIDE DEF r
<1>4. saves \in Seq(Records) /\ Len(saves) = 1 /\ saves[1] = r
  BY <1>1, <1>3
<1>5. TypeOK
  <2>1. Len(saves) \in 1 .. MaxSaves /\ store \in 0 .. Len(saves)
    BY <1>1, <1>4, Bounds
  <2>2. channel \in Seq(1 .. Len(saves)) /\ Len(channel) <= ChannelCap
    BY EmptySeq, Bounds DEF Init
  <2>3. presses \in Seq(Requests) /\ Len(presses) <= MaxPresses
    BY EmptySeq, Bounds DEF Init
  <2>4. marks \in [Kinds -> Marks]
    BY DEF Init, Marks
  <2>5. deletion \in [pc : {"none", "sent", "done", "failed"}, gone : Numbers]
    BY <1>1, <1>2
  <2>6. late \in [run : Numbers, reboot : Numbers]
    BY <1>2 DEF Init
  <2>7. /\ list \in [pc : {"asked", "read", "shown"}, answer : 0 .. Len(saves)]
        /\ row \in 0 .. Len(saves)
        /\ troubles \in 0 .. MaxTroubles
    BY <2>1, Bounds DEF Init
  <2>8. /\ host \subseteq {"checkin", "update", "running", "reboot", "down"}
        /\ needy \in BOOLEAN /\ connected \in BOOLEAN
        /\ writing \subseteq 1 .. Len(saves)
        /\ timers \in Nat /\ behind \in BOOLEAN /\ unsure \in BOOLEAN
        /\ raced \in BOOLEAN
    BY DEF Init
  <2>9. begun \in [run : Numbers, reboot : Numbers]
    BY <1>2 DEF Init
  <2>10. handling \in [Handlers ->
                         [read : Numbers, next : Numbers, record : Records]]
    <3>1. Idle \in [read : Numbers, next : Numbers, record : Records]
      BY <1>2 DEF Idle, Blank, Records, RunRecords, RebootRecords
    <3>2. QED
      BY <3>1 DEF Init
  <2>11. QED
    BY <1>4, <2>1, <2>2, <2>3, <2>4, <2>5, <2>6, <2>7, <2>8, <2>9, <2>10
    DEF TypeOK
<1>6. HistoryInv
  <2>1. \A h \in Handlers : ~Busy(h)
    BY DEF Init, Busy
  <2>2. begun.reboot = 1
    BY DEF Init
  <2>3. QED
    BY <1>1, <1>3, <1>4, <2>1, <2>2
    DEF HistoryInv, NumbersInv, StoreInv, LastInv, BegunInv, HandInv, Id, Newest
<1>7. RowInv
  BY DEF Init, RowInv
<1>8. CheckInv
  BY MarksTyped DEF Init, CheckInv
<1>9. RebootInv
  <2>1. host = {} /\ late.reboot = 0 /\ ~Beginning /\ ~Busy("reboot")
    BY DEF Init, Beginning, Busy, Handlers
  <2>2. Requested = {}
    BY DEF Init, Requested
  <2>3. QED
    BY <2>1, <2>2
    DEF RebootInv, PendingInv, Pending, DownInv, Down, MadeInv
<1>10. QED
  BY <1>5, <1>6, <1>7, <1>8, <1>9 DEF DashboardInv

\* Everything above holds in every state that can be reached.
THEOREM DashboardInvariant == Spec => []DashboardInv
<1>1. Init => DashboardInv
  BY DashboardInit
<1>2. DashboardInv /\ [Next]_vars => DashboardInv'
  BY DashboardTypes, HistoryStep, RowStep, CheckStep, RebootStep
  DEF DashboardInv
<1>3. QED
  BY <1>1, <1>2, PTL DEF Spec

\* Every variable of the dashboard keeps its type, for any number of records,
\* presses and troubles.
THEOREM DashboardTypeCorrect == Spec => []TypeOK
<1>1. DashboardInv => TypeOK
  BY DEF DashboardInv
<1>2. QED
  BY <1>1, DashboardInvariant, PTL

\* The page shows what the server has stored, once nothing is on its way any
\* more and unless the page missed the newest record.
THEOREM RowsFollowTheStore == Spec => []RowsAgree
<1>1. DashboardInv => RowsAgree
  BY DEF DashboardInv, RowInv, RowsAgree, Quiet, OnItsWay, InChannel
<1>2. QED
  BY <1>1, DashboardInvariant, PTL

\* A button is held for a check-in only while one is owed, unless a handler
\* saved over another's record.
THEOREM ChecksLetGo == Spec => []ChecksAreReleased
<1>1. DashboardInv => ChecksAreReleased
  <2>1. SUFFICES ASSUME DashboardInv, Quiet, ~behind, ~GroupsAsked, ~raced,
                        row # 0, "checkin" \in Kinds, marks["checkin"].held
                 PROVE  CheckInOwed
    BY DEF ChecksAreReleased
  <2>2. row = store
    BY <2>1 DEF DashboardInv, RowInv, Quiet, OnItsWay, InChannel
  <2>3. ~OnItsWay
    BY <2>1 DEF Quiet, OnItsWay, InChannel
  <2>4. CheckUnderway
    BY <2>1, <2>2, <2>3 DEF DashboardInv, CheckInv, Awaited
  <2>5. QED
    BY <2>4 DEF CheckUnderway, CheckInOwed, Busy
<1>2. QED
  BY <1>1, DashboardInvariant, PTL

\* A host on its way down is not offered to be rebooted again, unless a handler
\* saved over another's record or the page had reason to be unsure.
THEOREM RebootsOneAtATime == Spec => []OneRebootAtATime
<1>1. DashboardInv => OneRebootAtATime
  <2>1. SUFFICES ASSUME DashboardInv, "reboot" \in Kinds, Going,
                        ~behind, ~unsure, ~raced, ~GroupsAsked,
                        Offered("reboot")
                 PROVE  FALSE
    BY DEF OneRebootAtATime
  <2>2. Sure /\ PendingInv /\ DownInv
    BY <2>1 DEF DashboardInv, RebootInv, Sure
  <2>3. ~marks["reboot"].held
    BY <2>1 DEF Offered
  <2>4. Down
    BY <2>1, <2>2, <2>3 DEF PendingInv, Pending, Going, SentReboot, Down
  <2>5. PICK m \in 1 .. Newest : DownSince(m)
    BY <2>2, <2>4 DEF DownInv, DownSince
  <2>6. row \in m .. Newest
    <3>1. row \in 0 .. Newest
      BY <2>1 DEF DashboardInv, TypeOK, Newest
    <3>2. QED
      BY <2>1, <2>3, <2>5, <3>1 DEF DownSince
  <2>7. Record(row).reboot.id = m /\ Record(row).reboot.status = "rebooting"
    BY <2>5, <2>6 DEF DownSince, Record, Id
  <2>8. Rebooting(Record(row))
    BY <2>2, <2>5, <2>7 DEF Rebooting, PendingInv
  <2>9. QED
    BY <2>1, <2>8 DEF Offered
<1>2. QED
  BY <1>1, DashboardInvariant, PTL
=============================================================================
