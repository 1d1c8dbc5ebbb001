----------------------------- MODULE ReportsProofs -----------------------------
(***************************************************************************)
(* What an agent reports: the output of a run, followed to the page that   *)
(* shows it, and the facts of its host.                                    *)
(***************************************************************************)
EXTENDS OutputPane, HostFacts, SequenceTheorems, WellFoundedInduction, TLAPS

-----------------------------------------------------------------------------
(***************************************************************************)
(* What a host sends of a run, for any number of runs, pieces and limits.  *)
(***************************************************************************)

Newest == outputs[Len(outputs)]
HasSent == outputs # <<>> /\ Newest.id = run.id

\* The streamer goes on from the last chunk of its run, and sends nothing more
\* after the note.
GoesOn ==
  /\ run.pc # "idle" => run.id # 0
  /\ outputs # <<>> => Newest.id <= run.id
  /\ IF HasSent
     THEN /\ streamer.seq = Newest.seq /\ streamer.streamed = Newest.to
          /\ streamer.capped = Newest.stopped
     ELSE streamer.seq = 0 /\ streamer.streamed = 0 /\ streamer.capped = FALSE
  /\ streamer.capped => streamer.pending = 0

\* Until then what was written is on its way or pending, and nothing is pending
\* once the run is closed.
AllIsCounted ==
  /\ ~streamer.capped => streamer.streamed + streamer.pending = streamer.written
  /\ run.pc = "closed" => streamer.pending = 0

\* Runs come one after the other.
InOrder ==
  \A i, j \in DOMAIN outputs : i <= j => outputs[i].id <= outputs[j].id

\* The last of the chunks with a report's number is there to be seen, and went
\* as far as the report or said that it stops.
Settled(result, chunks) ==
  \/ /\ result.to = 0
     /\ \A j \in DOMAIN chunks : chunks[j].id # result.id
  \/ \E j \in DOMAIN chunks :
       /\ chunks[j].id = result.id
       /\ \A k \in DOMAIN chunks : chunks[k].id = result.id => k <= j
       /\ chunks[j].stopped \/ chunks[j].to = result.to

\* The end of a run is reported after its last chunk.
EndsAreSettled ==
  \A i \in DOMAIN results :
    results[i].status = "ended" =>
      /\ results[i].id <= run.id
      /\ run.pc # "idle" => results[i].id < run.id
      /\ Settled(results[i], outputs)

\* A run that has written nothing but white space has sent nothing else.
BlankSoFar ==
  run.pc # "idle" /\ streamer.blank =>
    \A j \in DOMAIN outputs : outputs[j].id = run.id => outputs[j].blank

\* The journal stands in for a run that has sent nothing else.
JournalIsAllThereIs ==
  \A i \in DOMAIN results :
    results[i].status = "ended" /\ results[i].journal =>
      \A j \in DOMAIN outputs : outputs[j].id = results[i].id => outputs[j].blank

StreamInv ==
  /\ StreamTypeOK
  /\ GoesOn
  /\ AllIsCounted
  /\ InOrder
  /\ ChunksAbut
  /\ EndsAreSettled

WordsInv == BlankSoFar /\ JournalIsAllThereIs

\* Appending adds one element at the end.
LEMMA AppendIs ==
  ASSUME NEW S, NEW s \in Seq(S), NEW e \in S
  PROVE  /\ Append(s, e) \in Seq(S)
         /\ Len(Append(s, e)) = Len(s) + 1 /\ Len(s) \in Nat
         /\ DOMAIN Append(s, e) = 1 .. Len(s) + 1 /\ DOMAIN s = 1 .. Len(s)
         /\ \A i \in DOMAIN s : Append(s, e)[i] = s[i]
         /\ Append(s, e)[Len(s) + 1] = e
         /\ Append(s, e) # <<>>
OBVIOUS

\* The initial state satisfies the inductive invariant.
LEMMA StreamStarts == StreamInit => StreamInv
BY StreamAssumption
   DEF StreamAssumption, StreamInit, StreamInv, StreamTypeOK, Streamers, Fresh, GoesOn, HasSent,
       AllIsCounted, InOrder, ChunksAbut, EndsAreSettled

\* The newest chunk is one.
LEMMA NewestIs ==
  ASSUME outputs \in Seq(Chunks), outputs # <<>>
  PROVE  Len(outputs) \in DOMAIN outputs /\ Newest \in Chunks
BY DEF Newest

\* What writing and publishing make of a streamer.
LEMMA StreamerIs ==
  ASSUME NEW s \in Streamers, NEW w \in Nat, NEW p \in Nat, NEW n \in Nat,
         NEW c \in BOOLEAN
  PROVE  /\ [s EXCEPT !.written = w, !.blank = c, !.pending = p] \in Streamers
         /\ [s EXCEPT !.pending = p, !.streamed = w, !.seq = n, !.capped = c]
              \in Streamers
BY DEF Streamers

\* Records have the numbers of runs.
LEMMA ReportIs ==
  ASSUME results \in Seq(Results)
  PROVE  \A i \in DOMAIN results : results[i].id \in Nat
<1>1. \A i \in DOMAIN results : results[i] \in Results
  OBVIOUS
<1>2. QED
  BY <1>1, StreamAssumption DEF StreamAssumption, Results, Runs

\* A chunk of another run does not touch what was settled.
LEMMA SettledStays ==
  ASSUME NEW chunks \in Seq(Chunks), NEW chunk \in Chunks, NEW result,
         chunk.id # result.id, Settled(result, chunks)
  PROVE  Settled(result, Append(chunks, chunk))
<1> DEFINE longer == Append(chunks, chunk)
<1>1. /\ DOMAIN longer = 1 .. Len(chunks) + 1 /\ DOMAIN chunks = 1 .. Len(chunks)
      /\ Len(chunks) \in Nat
      /\ \A i \in DOMAIN chunks : longer[i] = chunks[i]
      /\ longer[Len(chunks) + 1] = chunk
  BY AppendIs
<1> HIDE DEF longer
<1>2. CASE /\ result.to = 0
           /\ \A j \in DOMAIN chunks : chunks[j].id # result.id
  BY <1>1, <1>2 DEF Settled
<1>3. ASSUME NEW j \in DOMAIN chunks, chunks[j].id = result.id,
             \A k \in DOMAIN chunks : chunks[k].id = result.id => k <= j,
             chunks[j].stopped \/ chunks[j].to = result.to
      PROVE  Settled(result, longer)
  <2>1. j \in DOMAIN longer /\ longer[j] = chunks[j]
    BY <1>1
  <2>2. \A k \in DOMAIN longer : longer[k].id = result.id => k <= j
    BY <1>1, <1>3
  <2>3. QED
    BY <1>3, <2>1, <2>2 DEF Settled
<1>4. QED
  BY <1>2, <1>3 DEF Settled, longer

\* A run that starts has sent nothing.
LEMMA StartStep == StreamInv /\ StartRun => StreamInv'
<1> SUFFICES ASSUME StreamInv, StartRun PROVE StreamInv'
  OBVIOUS
<1> USE StreamAssumption
    DEF StreamAssumption, StreamInv, StartRun, Report, Fresh, Runs
<1>1. StreamTypeOK'
  BY DEF StreamTypeOK, Streamers, Results
<1>2. run.id \in Nat /\ run'.id = run.id + 1 /\ outputs' = outputs
  BY DEF StreamTypeOK, Streamers
<1>3. GoesOn'
  <2>1. outputs # <<>> => Newest.id <= run.id /\ Newest.id \in Nat
    BY NewestIs DEF StreamTypeOK, GoesOn, Chunks, Runs
  <2>2. Newest' = Newest
    BY <1>2 DEF Newest
  <2>3. ~HasSent'
    BY <1>2, <2>1, <2>2 DEF HasSent
  <2>4. QED
    BY <1>2, <2>1, <2>2, <2>3 DEF GoesOn
<1>4. AllIsCounted'
  BY DEF AllIsCounted
<1>5. InOrder' /\ ChunksAbut'
  BY DEF InOrder, ChunksAbut
<1>6. EndsAreSettled'
  <2> DEFINE result == [id |-> run.id + 1, status |-> "running", from |-> 1, to |-> 0,
                        journal |-> FALSE]
  <2>1. result \in Results /\ result.status = "running" /\ results' = Append(results, result)
    BY DEF StreamTypeOK, Results
  <2> HIDE DEF result
  <2>2. results \in Seq(Results) /\ \A i \in DOMAIN results : results[i] \in Results
    BY DEF StreamTypeOK, Streamers
  <2>3. \A i \in DOMAIN results' :
          results'[i].status = "ended" => i \in DOMAIN results /\ results'[i] = results[i]
    BY <2>1, <2>2, AppendIs
  <2>4. \A i \in DOMAIN results : results[i].id \in Nat
    BY <2>2 DEF Results, Runs
  <2>5. QED
    BY <1>2, <2>3, <2>4 DEF EndsAreSettled
<1>7. QED
  BY <1>1, <1>3, <1>4, <1>5, <1>6

\* Writing sends nothing.
LEMMA WriteStep == StreamInv /\ Write => StreamInv'
<1> SUFFICES ASSUME StreamInv, Write PROVE StreamInv'
  OBVIOUS
<1> USE DEF StreamInv, Write
<1>1. /\ run' = run /\ outputs' = outputs /\ results' = results
      /\ streamer'.seq = streamer.seq /\ streamer'.streamed = streamer.streamed
      /\ streamer'.written = streamer.written + 1
  BY DEF StreamTypeOK, Streamers
<1>2. streamer'.capped = streamer.capped
  BY Zenon DEF StreamTypeOK, Streamers
<1>3. streamer'.pending =
        IF streamer.capped THEN streamer.pending ELSE streamer.pending + 1
  BY Zenon DEF StreamTypeOK, Streamers
<1>4. streamer.capped => streamer'.pending = streamer.pending
  BY <1>3, Zenon
<1>5. StreamTypeOK'
  <2> DEFINE p == IF streamer.capped THEN streamer.pending ELSE streamer.pending + 1
  <2>1. p \in Nat
    BY DEF StreamTypeOK, Streamers
  <2>2. PICK white \in BOOLEAN :
          streamer' = [streamer EXCEPT !.written = @ + 1, !.blank = @ /\ white,
                                       !.pending = p]
    BY Zenon
  <2>b. (streamer.blank /\ white) \in BOOLEAN
    BY Zenon
  <2>3. streamer.written + 1 \in Nat
    BY DEF StreamTypeOK, Streamers
  <2>4. streamer \in Streamers
    BY DEF StreamTypeOK
  <2> HIDE DEF p, Write
  <2>5. streamer' \in Streamers
    BY <2>1, <2>2, <2>b, <2>3, <2>4, StreamerIs
  <2>6. QED
    BY <1>1, <2>5, Zenon DEF StreamTypeOK
<1>6. GoesOn'
  BY <1>1, <1>2, <1>4 DEF GoesOn, HasSent, Newest
<1>7. AllIsCounted'
  BY <1>1, <1>2, <1>3 DEF AllIsCounted, StreamTypeOK, Streamers
<1>8. InOrder' /\ ChunksAbut' /\ EndsAreSettled'
  BY <1>1 DEF InOrder, ChunksAbut, EndsAreSettled
<1>9. QED
  BY <1>5, <1>6, <1>7, <1>8

\* Publishing what is pending, as the ticker, a full buffer and close do.
LEMMA PublishStep ==
  ASSUME StreamInv, run.pc = "running", Publish, results' = results,
         run' \in {run, [run EXCEPT !.pc = "closed"]}
  PROVE  StreamInv' /\ streamer'.pending = 0
<1> USE StreamAssumption DEF StreamAssumption, StreamInv
<1>1. CASE streamer.pending = 0
  BY <1>1 DEF Publish, StreamTypeOK, GoesOn, HasSent, Newest, AllIsCounted,
     InOrder, ChunksAbut, EndsAreSettled
<1>2. CASE streamer.pending # 0
  <2> DEFINE sent == streamer.streamed + streamer.pending
             stops == sent >= StreamLimit /\ ~streamer.capped
             chunk == [id |-> run.id, seq |-> streamer.seq + 1,
                       from |-> streamer.streamed + 1, to |-> sent,
                       stopped |-> stops, blank |-> streamer.blank]
  <2>1. /\ ~streamer.capped
        /\ streamer' = [streamer EXCEPT !.pending = 0, !.streamed = sent,
                          !.seq = @ + 1, !.capped = @ \/ stops]
        /\ outputs' = Append(outputs, chunk)
    BY <1>2 DEF Publish, GoesOn
  <2>2. /\ streamer'.pending = 0 /\ streamer'.streamed = sent
        /\ streamer'.seq = streamer.seq + 1 /\ streamer'.written = streamer.written
    BY <2>1 DEF StreamTypeOK, Streamers
  <2>3. streamer'.capped = stops
    BY <2>1, Zenon DEF StreamTypeOK, Streamers
  <2>4. /\ run.id \in Runs /\ run.id \in Nat
        /\ sent \in Nat /\ streamer.seq + 1 \in Nat /\ streamer.streamed + 1 \in Nat
    <3>1. run.id \in 0 .. MaxRuns /\ run.id # 0 /\ MaxRuns \in Nat
      BY DEF StreamTypeOK, GoesOn
    <3>2. /\ streamer.streamed \in Nat /\ streamer.pending \in Nat
          /\ streamer.seq \in Nat
      BY DEF StreamTypeOK, Streamers
    <3>. HIDE DEF StreamInv
    <3>. QED  BY <3>1, <3>2 DEF Runs
  <2>5. stops \in BOOLEAN /\ streamer.blank \in BOOLEAN
    BY Zenon DEF StreamTypeOK, Streamers
  <2>6. chunk \in Chunks
    BY <2>4, <2>5 DEF Chunks
  <2>7. /\ chunk.id = run.id /\ chunk.seq = streamer.seq + 1
        /\ chunk.from = streamer.streamed + 1 /\ chunk.to = sent
    OBVIOUS
  <2>8. chunk.stopped = stops
    BY Zenon
  <2> HIDE DEF chunk, stops
  <2>9. outputs \in Seq(Chunks)
    BY DEF StreamTypeOK
  <2>10. /\ outputs' \in Seq(Chunks) /\ outputs' # <<>>
         /\ Len(outputs') = Len(outputs) + 1 /\ Len(outputs) \in Nat
         /\ DOMAIN outputs' = 1 .. Len(outputs) + 1
         /\ DOMAIN outputs = 1 .. Len(outputs)
         /\ \A i \in DOMAIN outputs : outputs'[i] = outputs[i]
         /\ outputs'[Len(outputs) + 1] = chunk
    BY <2>1, <2>6, <2>9, AppendIs
  <2>11. Newest' = chunk
    BY <2>10 DEF Newest
  <2>12. run'.id = run.id
    BY DEF StreamTypeOK
  <2>13. StreamTypeOK'
    <3>1. streamer' \in Streamers
      BY <2>1, <2>4, <2>5, StreamerIs DEF StreamTypeOK
    <3>2. run' \in [id : 0 .. MaxRuns, pc : {"idle", "running", "closed"}]
      BY DEF StreamTypeOK
    <3>3. QED
      BY <2>10, <3>1, <3>2, Zenon DEF StreamTypeOK
  <2>14. GoesOn'
    BY <2>2, <2>3, <2>4, <2>7, <2>8, <2>10, <2>11, <2>12 DEF GoesOn, HasSent
  <2>15. AllIsCounted'
    BY <2>1, <2>2 DEF AllIsCounted, StreamTypeOK, Streamers
  <2>16. \A i \in DOMAIN outputs : outputs[i].id \in Nat /\ outputs[i].id <= run.id
    <3> SUFFICES ASSUME NEW i \in DOMAIN outputs
                 PROVE  outputs[i].id \in Nat /\ outputs[i].id <= run.id
      OBVIOUS
    <3>1. outputs # <<>> /\ i <= Len(outputs) /\ Len(outputs) \in DOMAIN outputs
      BY <2>10
    <3>2. outputs[i] \in Chunks /\ Newest \in Chunks
      BY <2>9, <3>1 DEF Newest
    <3>3. outputs[i].id \in Nat /\ Newest.id \in Nat
      BY <3>2 DEF Chunks, Runs
    <3>4. outputs[i].id <= Newest.id
      BY <3>1 DEF InOrder, Newest
    <3>5. QED
      BY <2>4, <3>1, <3>3, <3>4 DEF GoesOn
  <2>17. InOrder'
    <3> SUFFICES ASSUME NEW i \in DOMAIN outputs', NEW j \in DOMAIN outputs', i <= j
                 PROVE  outputs'[i].id <= outputs'[j].id
      BY DEF InOrder
    <3>1. CASE j \in DOMAIN outputs
      BY <2>10, <3>1 DEF InOrder
    <3>2. CASE j \notin DOMAIN outputs /\ i \in DOMAIN outputs
      BY <2>4, <2>7, <2>10, <2>16, <3>2
    <3>3. CASE i \notin DOMAIN outputs
      BY <2>4, <2>7, <2>10, <3>3
    <3>4. QED
      BY <3>1, <3>2, <3>3
  <2>18. ChunksAbut'
    <3> DEFINE Follows(before, next) ==
          IF before.id = next.id
          THEN /\ next.seq = before.seq + 1 /\ next.from = before.to + 1
               /\ ~before.stopped
          ELSE next.seq = 1 /\ next.from = 1 /\ before.id < next.id
    <3>1. outputs # <<>> => Follows(Newest, chunk)
      <4> SUFFICES ASSUME outputs # <<>> PROVE Follows(Newest, chunk)
        OBVIOUS
      <4>1. Newest.id \in Nat /\ Newest.id <= run.id
        BY <2>10, <2>16 DEF Newest
      <4>2. CASE Newest.id = run.id
        BY <2>1, <2>7, <4>2 DEF GoesOn, HasSent
      <4>3. CASE Newest.id # run.id
        BY <2>4, <2>7, <4>1, <4>3 DEF GoesOn, HasSent
      <4>4. QED
        BY <4>2, <4>3
    <3>2. outputs = <<>> => chunk.seq = 1 /\ chunk.from = 1
      BY <2>7 DEF GoesOn, HasSent
    <3> SUFFICES ASSUME NEW i \in DOMAIN outputs'
                 PROVE  IF i > 1 /\ outputs'[i - 1].id = outputs'[i].id
                        THEN /\ outputs'[i].seq = outputs'[i - 1].seq + 1
                             /\ outputs'[i].from = outputs'[i - 1].to + 1
                             /\ ~outputs'[i - 1].stopped
                        ELSE /\ outputs'[i].seq = 1 /\ outputs'[i].from = 1
                             /\ i > 1 => outputs'[i - 1].id < outputs'[i].id
      BY DEF ChunksAbut
    <3>3. CASE i \in DOMAIN outputs
      <4>1. outputs'[i] = outputs[i] /\ (i > 1 => outputs'[i - 1] = outputs[i - 1])
        BY <2>10, <3>3
      <4>2. QED
        BY <3>3, <4>1 DEF ChunksAbut
    <3>4. CASE i = Len(outputs) + 1
      <4>1. outputs'[i] = chunk /\ (i > 1 => outputs # <<>> /\ outputs'[i - 1] = Newest)
        BY <2>10, <3>4 DEF Newest
      <4>2. i = 1 => outputs = <<>>
        BY <2>9, <3>4
      <4>3. i = 1 \/ i > 1
        BY <2>10
      <4>4. QED
        BY <3>1, <3>2, <4>1, <4>2, <4>3
    <3>5. QED
      BY <2>10, <3>3, <3>4
  <2>19. EndsAreSettled'
    <3> SUFFICES ASSUME NEW i \in DOMAIN results, results[i].status = "ended"
                 PROVE  results[i].id < run.id /\ Settled(results[i], outputs')
      BY <2>4, <2>12, ReportIs DEF EndsAreSettled, StreamTypeOK
    <3>1. results[i].id < run.id /\ Settled(results[i], outputs)
      BY DEF EndsAreSettled
    <3>2. results[i].id \in Nat
      BY ReportIs DEF StreamTypeOK
    <3>3. chunk.id # results[i].id
      BY <2>4, <2>7, <3>1, <3>2
    <3>4. QED
      BY <2>1, <2>6, <2>9, <3>1, <3>3, SettledStays
  <2>20. QED
    BY <2>2, <2>13, <2>14, <2>15, <2>17, <2>18, <2>19
<1>3. QED
  BY <1>1, <1>2

\* The ticker, or a full buffer.
LEMMA FlushStep == StreamInv /\ Flush => StreamInv'
BY PublishStep DEF Flush

\* The end of the command.
LEMMA CloseStep == StreamInv /\ CloseRun => StreamInv'
BY PublishStep DEF CloseRun

\* A client that stops leaves its run as it is.
LEMMA StopStep == StreamInv /\ ClientStops => StreamInv'
<1> SUFFICES ASSUME StreamInv, ClientStops PROVE StreamInv'
  OBVIOUS
<1> USE DEF StreamInv, ClientStops
<1>1. run'.id = run.id /\ run'.pc = "idle"
  BY DEF StreamTypeOK
<1>2. StreamTypeOK'
  BY DEF StreamTypeOK
<1>3. GoesOn'
  BY <1>1 DEF GoesOn, HasSent, Newest
<1>4. AllIsCounted'
  BY <1>1 DEF AllIsCounted
<1>5. InOrder' /\ ChunksAbut' /\ EndsAreSettled'
  BY <1>1 DEF InOrder, ChunksAbut, EndsAreSettled
<1>6. QED
  BY <1>2, <1>3, <1>4, <1>5

\* The record of the end goes as far as what was sent, or the note was sent.
LEMMA EndStep == StreamInv /\ ReportEnd => StreamInv'
<1> SUFFICES ASSUME StreamInv, ReportEnd PROVE StreamInv'
  OBVIOUS
<1> USE StreamAssumption DEF StreamAssumption, StreamInv, ReportEnd, Report
<1> PICK journal \in BOOLEAN :
      Report(run.id, "ended", TailFrom(streamer.written), streamer.written, journal)
  OBVIOUS
<1> DEFINE result == [id |-> run.id, status |-> "ended",
                      from |-> TailFrom(streamer.written), to |-> streamer.written,
                      journal |-> journal]
<1>1. run'.id = run.id /\ run'.pc = "idle"
  BY DEF StreamTypeOK
<1>2. run.id \in Runs /\ run.id \in Nat
  BY DEF StreamTypeOK, GoesOn, Runs
<1>3. result \in Results /\ result.id = run.id /\ result.to = streamer.written
  BY <1>2 DEF Results, StreamTypeOK, Streamers, TailFrom
<1>4. results' = Append(results, result)
  OBVIOUS
<1> HIDE DEF result
<1>5. /\ results' \in Seq(Results) /\ Len(results) \in Nat
      /\ DOMAIN results' = 1 .. Len(results) + 1
      /\ DOMAIN results = 1 .. Len(results)
      /\ \A i \in DOMAIN results : results'[i] = results[i]
      /\ results'[Len(results) + 1] = result
  BY <1>3, <1>4, AppendIs DEF StreamTypeOK
<1>6. StreamTypeOK'
  BY <1>5 DEF StreamTypeOK
<1>7. GoesOn'
  BY <1>1 DEF GoesOn, HasSent, Newest
<1>8. AllIsCounted'
  BY <1>1 DEF AllIsCounted
<1>9. InOrder' /\ ChunksAbut'
  BY DEF InOrder, ChunksAbut
<1>10. Settled(result, outputs)
  <2>1. outputs \in Seq(Chunks) /\ DOMAIN outputs = 1 .. Len(outputs)
    BY DEF StreamTypeOK
  <2>2. CASE HasSent
    <3>1. Len(outputs) \in DOMAIN outputs /\ Newest.id = result.id
      BY <1>3, <2>1, <2>2, NewestIs DEF HasSent
    <3>2. ~streamer.capped => streamer.streamed = streamer.written
      BY DEF AllIsCounted, StreamTypeOK, Streamers
    <3>3. Newest.stopped \/ Newest.to = result.to
      BY <1>3, <2>2, <3>2 DEF GoesOn
    <3>4. QED
      BY <2>1, <3>1, <3>3 DEF Settled, Newest
  <2>3. CASE ~HasSent
    <3>1. result.to = 0
      BY <1>3, <2>3 DEF GoesOn, AllIsCounted, StreamTypeOK, Streamers
    <3>2. ASSUME NEW j \in DOMAIN outputs PROVE outputs[j].id # result.id
      <4>1. outputs # <<>> /\ j <= Len(outputs) /\ Len(outputs) \in DOMAIN outputs
        BY <2>1
      <4>2. outputs[j] \in Chunks /\ Newest \in Chunks
        BY <2>1, <4>1 DEF Newest
      <4>3. outputs[j].id \in Nat /\ Newest.id \in Nat
        BY <4>2 DEF Chunks, Runs
      <4>4. outputs[j].id <= Newest.id
        BY <4>1 DEF InOrder, Newest
      <4>5. QED
        BY <1>2, <1>3, <2>3, <4>1, <4>3, <4>4 DEF GoesOn, HasSent
    <3>3. QED
      BY <3>1, <3>2 DEF Settled
  <2>4. QED
    BY <2>2, <2>3
<1>11. EndsAreSettled'
  <2> SUFFICES ASSUME NEW i \in DOMAIN results', results'[i].status = "ended"
               PROVE  results'[i].id <= run.id /\ Settled(results'[i], outputs)
    BY <1>1 DEF EndsAreSettled
  <2>1. CASE i \in DOMAIN results
    BY <1>5, <2>1 DEF EndsAreSettled
  <2>2. CASE i = Len(results) + 1
    BY <1>2, <1>3, <1>5, <1>10, <2>2
  <2>3. QED
    BY <1>5, <2>1, <2>2
<1>12. QED
  BY <1>6, <1>7, <1>8, <1>9, <1>11

\* Every step of the host keeps the inductive invariant.
LEMMA StreamStep == StreamInv /\ [StreamNext]_streamVars => StreamInv'
<1>1. StreamInv /\ UNCHANGED streamVars => StreamInv'
  BY DEF streamVars, StreamInv, StreamTypeOK, GoesOn, HasSent, Newest, AllIsCounted,
     InOrder, ChunksAbut, EndsAreSettled
<1>2. QED
  BY <1>1, StartStep, WriteStep, FlushStep, CloseStep, EndStep, StopStep
     DEF StreamNext

\* What is written and sent of white space.
LEMMA WordsStart == StreamInit => WordsInv
BY DEF StreamInit, WordsInv, BlankSoFar, JournalIsAllThereIs

\* No chunk is of a run to come.
LEMMA ChunksAreOfRuns ==
  ASSUME StreamInv
  PROVE  /\ run.id \in Nat
         /\ \A j \in DOMAIN outputs : outputs[j].id \in Nat /\ outputs[j].id <= run.id
<1>1. run.id \in Nat /\ outputs \in Seq(Chunks)
  BY StreamAssumption DEF StreamAssumption, StreamInv, StreamTypeOK
<1>2. ASSUME NEW j \in DOMAIN outputs
      PROVE  outputs[j].id \in Nat /\ outputs[j].id <= run.id
  <2>1. outputs # <<>> /\ j <= Len(outputs) /\ Len(outputs) \in DOMAIN outputs
    BY <1>1
  <2>2. outputs[j] \in Chunks /\ Newest \in Chunks
    BY <1>1, <2>1 DEF Newest
  <2>3. outputs[j].id \in Nat /\ Newest.id \in Nat
    BY <2>2, StreamAssumption DEF StreamAssumption, Chunks, Runs
  <2>4. outputs[j].id <= Newest.id /\ Newest.id <= run.id
    BY <2>1 DEF StreamInv, InOrder, GoesOn, Newest
  <2>5. QED
    BY <1>1, <2>3, <2>4
<1>3. QED
  BY <1>1, <1>2

\* A record that is added is the last.
LEMMA ReportAdded ==
  ASSUME results \in Seq(Results), NEW told \in Results,
         results' = Append(results, told), NEW i \in DOMAIN results'
  PROVE  \/ i \in DOMAIN results /\ results'[i] = results[i]
         \/ results'[i] = told
BY AppendIs

LEMMA WordsStep == StreamInv /\ WordsInv /\ [StreamNext]_streamVars => WordsInv'
<1> SUFFICES ASSUME StreamInv, WordsInv, [StreamNext]_streamVars PROVE WordsInv'
  OBVIOUS
<1>1. CASE UNCHANGED streamVars
  BY <1>1 DEF streamVars, WordsInv, BlankSoFar, JournalIsAllThereIs
<1>2. CASE StartRun
  <2>1. run'.id = run.id + 1 /\ outputs' = outputs
    BY <1>2 DEF StartRun
  <2>2. BlankSoFar'
    BY <2>1, ChunksAreOfRuns DEF BlankSoFar
  <2> DEFINE told == [id |-> run.id + 1, status |-> "running", from |-> 1, to |-> 0,
                        journal |-> FALSE]
  <2>3. told \in Results /\ told.status = "running" /\ results' = Append(results, told)
    BY <1>2, ChunksAreOfRuns, StreamAssumption
       DEF StreamAssumption, StartRun, Report, Results, Runs, StreamInv, StreamTypeOK
  <2> HIDE DEF told
  <2>4. JournalIsAllThereIs'
    BY <2>1, <2>3, ReportAdded DEF StreamInv, StreamTypeOK, WordsInv, JournalIsAllThereIs
  <2>5. QED
    BY <2>2, <2>4 DEF WordsInv
<1>3. CASE Write
  <2>1. run' = run /\ outputs' = outputs /\ results' = results
    BY <1>3 DEF Write
  <2>2. streamer'.blank => streamer.blank
    BY <1>3, Zenon DEF Write, StreamInv, StreamTypeOK, Streamers
  <2>3. QED
    BY <2>1, <2>2 DEF WordsInv, BlankSoFar, JournalIsAllThereIs
<1>4. CASE Flush \/ CloseRun
  <2>1. run.pc = "running" /\ run'.id = run.id /\ results' = results /\ Publish
    BY <1>4 DEF Flush, CloseRun, StreamInv, StreamTypeOK
  <2>2. CASE streamer.pending = 0
    BY <2>1, <2>2 DEF Publish, WordsInv, BlankSoFar, JournalIsAllThereIs
  <2>3. CASE streamer.pending # 0
    <3> DEFINE sent == streamer.streamed + streamer.pending
               chunk == [id |-> run.id, seq |-> streamer.seq + 1,
                         from |-> streamer.streamed + 1, to |-> sent,
                         stopped |-> sent >= StreamLimit /\ ~streamer.capped,
                         blank |-> streamer.blank]
    <3>1. /\ outputs' = Append(outputs, chunk)
          /\ chunk.id = run.id /\ chunk.blank = streamer.blank
      BY <2>1, <2>3, Zenon DEF Publish
    <3> HIDE DEF chunk
    <3>2. streamer'.blank = streamer.blank
      BY <2>1, <2>3, Zenon DEF Publish, StreamInv, StreamTypeOK, Streamers
    <3>3. \A j \in DOMAIN outputs' :
            \/ j \in DOMAIN outputs /\ outputs'[j] = outputs[j]
            \/ outputs'[j] = chunk
      BY <3>1 DEF StreamInv, StreamTypeOK
    <3>4. BlankSoFar'
      BY <2>1, <3>1, <3>2, <3>3 DEF WordsInv, BlankSoFar
    <3>5. \A i \in DOMAIN results : results[i].status = "ended" => results[i].id # run.id
      BY <2>1, ReportIs, ChunksAreOfRuns DEF StreamInv, StreamTypeOK, EndsAreSettled
    <3>6. JournalIsAllThereIs'
      BY <2>1, <3>1, <3>3, <3>5 DEF WordsInv, JournalIsAllThereIs
    <3>7. QED
      BY <3>4, <3>6 DEF WordsInv
  <2>4. QED
    BY <2>2, <2>3
<1>5. CASE ReportEnd
  <2>1. PICK journal \in BOOLEAN :
          /\ journal => TailIsBlank
          /\ Report(run.id, "ended", TailFrom(streamer.written), streamer.written, journal)
    BY <1>5 DEF ReportEnd
  <2>2. /\ run.pc = "closed" /\ run'.pc = "idle" /\ outputs' = outputs
        /\ run.id \in Runs
    BY <1>5, StreamAssumption
       DEF StreamAssumption, ReportEnd, StreamInv, StreamTypeOK, GoesOn, Runs
  <2>3. BlankSoFar'
    BY <2>2 DEF BlankSoFar
  <2> DEFINE told == [id |-> run.id, status |-> "ended", from |-> TailFrom(streamer.written),
                        to |-> streamer.written, journal |-> journal]
  <2>4. /\ told \in Results /\ told.id = run.id /\ results' = Append(results, told)
    BY <2>1, <2>2, StreamAssumption
       DEF StreamAssumption, Report, Results, StreamInv, StreamTypeOK, Streamers, TailFrom
  <2>5. told.journal => streamer.blank
    BY <2>1, Zenon DEF TailIsBlank
  <2> HIDE DEF told
  <2>6. JournalIsAllThereIs'
    <3>1. told.journal => \A j \in DOMAIN outputs : outputs[j].id = run.id => outputs[j].blank
      BY <2>2, <2>5 DEF WordsInv, BlankSoFar
    <3>2. QED
      BY <2>2, <2>4, <3>1, ReportAdded DEF StreamInv, StreamTypeOK, WordsInv, JournalIsAllThereIs
  <2>7. QED
    BY <2>3, <2>6 DEF WordsInv
<1>6. CASE ClientStops
  <2>1. run'.pc = "idle" /\ outputs' = outputs /\ results' = results
    BY <1>6 DEF ClientStops, StreamInv, StreamTypeOK
  <2>2. QED
    BY <2>1 DEF WordsInv, BlankSoFar, JournalIsAllThereIs
<1>7. QED
  BY <1>1, <1>2, <1>3, <1>4, <1>5, <1>6 DEF StreamNext

\* What is settled is complete.
LEMMA SettledIsComplete == StreamInv /\ WordsInv => ReportsAreComplete
<1> SUFFICES ASSUME StreamInv, NEW i \in DOMAIN results,
                    results[i].status = "ended"
             PROVE  \/ LastChunk(results[i].id).stopped
                    \/ LastChunk(results[i].id).to = results[i].to
  BY DEF ReportsAreComplete, WordsInv, JournalIsAllThereIs
<1> DEFINE sent == {j \in DOMAIN outputs : outputs[j].id = results[i].id}
<1>1. Settled(results[i], outputs) /\ sent \subseteq Nat
  BY DEF StreamInv, EndsAreSettled, StreamTypeOK
<1>2. CASE sent = {}
  BY <1>1, <1>2 DEF Settled, LastChunk
<1>3. CASE sent # {}
  <2>1. PICK j \in sent : /\ \A k \in sent : k <= j
                          /\ outputs[j].stopped \/ outputs[j].to = results[i].to
    BY <1>1, <1>3 DEF Settled
  <2> DEFINE last == CHOOSE k \in sent : \A l \in sent : l <= k
  <2>2. LastChunk(results[i].id) = outputs[last]
    BY <1>3 DEF LastChunk
  <2>3. last \in sent /\ \A l \in sent : l <= last
    BY <2>1, Zenon
  <2>4. last = j
    <3> HIDE DEF last
    <3>1. last <= j /\ j <= last /\ last \in Nat /\ j \in Nat
      BY <1>1, <2>1, <2>3, Zenon
    <3>2. QED
      BY <3>1
  <2> HIDE DEF last
  <2>5. QED
    BY <2>1, <2>2, <2>4
<1>4. QED
  BY <1>2, <1>3

\* The inductive invariant holds in every state the host can reach.
THEOREM StreamSafety == StreamSpec => []StreamInv
BY StreamStarts, StreamStep, PTL DEF StreamSpec

\* So does what it says of white space and the journal.
THEOREM StreamWords == StreamSpec => []WordsInv
BY StreamStarts, StreamStep, WordsStart, WordsStep, PTL DEF StreamSpec

\* The server and the pages do nothing to the streams: what the host does among
\* them is what it does alone.
THEOREM PaneStreams == PaneSpec => StreamSpec
<1>1. PaneInit => StreamInit
  BY DEF PaneInit
<1>2. [PaneNext]_paneVars => [StreamNext]_streamVars
  BY DEF PaneNext, paneVars, serverVars, pageVars, streamVars, HearOutput, HearResult,
     LoseMessage, RelayChunk, RelayRecord, LoadPage, Connect, Disconnect,
     AnswerVisit, VisitAnswered, Deliver, Seed, AnswerSeed, SeedAnswered,
     serverStays
<1>3. QED
  BY <1>1, <1>2, PTL DEF PaneSpec, StreamSpec

\* The chunks of a run are numbered in order and abut, whatever flushed them.
THEOREM StreamsAbut == PaneSpec => []ChunksAbut
<1>1. StreamInv => ChunksAbut
  BY DEF StreamInv
<1>2. QED
  BY PaneStreams, StreamSafety, <1>1, PTL

\* When a run is reported to have ended, all of its output has been sent, or the
\* note that it stops; the record has text of the journal, which was not sent,
\* only when nothing but white space was.
THEOREM ReportsComplete == PaneSpec => []ReportsAreComplete
BY PaneStreams, StreamSafety, StreamWords, SettledIsComplete, PTL

-----------------------------------------------------------------------------
(***************************************************************************)
(* What a page hears of it.                                                *)
(***************************************************************************)

(***************************************************************************)
(* What the server and the page make of it: output that did not follow on  *)
(* in the run never does so in the pane without a mark.                    *)
(***************************************************************************)
Unspliced(text) ==
  \A i \in 1 .. Len(text) - 1 :
    IsPiece(text[i]) /\ IsPiece(text[i + 1]) => text[i + 1] = text[i] + 1

\* A text that ends with a chunk: with its last piece, or with a mark.
Ends(text, chunk) ==
  text # <<>> /\ (IsPiece(text[Len(text)]) => text[Len(text)] = chunk.to)

\* Chunks hold at least a piece and, within a run, have consecutive numbers.
Full(chunk) == chunk.seq >= 1 /\ 1 <= chunk.from /\ chunk.from <= chunk.to
Numbered ==
  /\ \A i \in DOMAIN outputs : Full(outputs[i])
  /\ \A i, j \in DOMAIN outputs :
       i <= j /\ outputs[i].id = outputs[j].id =>
         outputs[j].seq - outputs[i].seq = j - i

\* Two texts of which the second goes on where the first ends, or between which
\* there is a mark, make one.
LEMMA JoinedTexts ==
  ASSUME NEW s \in Seq(Int), NEW t \in Seq(Int), Unspliced(s), Unspliced(t),
         s # <<>> /\ t # <<>> /\ IsPiece(s[Len(s)]) /\ IsPiece(t[1])
           => t[1] = s[Len(s)] + 1
  PROVE  /\ s \o t \in Seq(Int) /\ Unspliced(s \o t)
         /\ \A chunk : Ends(t, chunk) => Ends(s \o t, chunk)
<1> DEFINE u == s \o t
<1>1. /\ u \in Seq(Int) /\ Len(u) = Len(s) + Len(t)
      /\ Len(s) \in Nat /\ Len(t) \in Nat
      /\ \A i \in 1 .. Len(s) + Len(t) :
           u[i] = IF i <= Len(s) THEN s[i] ELSE t[i - Len(s)]
  BY ConcatProperties, LenProperties
<1>2. (s = <<>> <=> Len(s) = 0) /\ (t = <<>> <=> Len(t) = 0)
  BY EmptySeq
<1>3. /\ \A i \in Nat : i >= 1 /\ i <= Len(s) => u[i] = s[i]
      /\ \A i \in Nat : i >= 1 /\ i <= Len(t) => u[Len(s) + i] = t[i]
  <2>1. ASSUME NEW i \in Nat, i >= 1, i <= Len(s) PROVE u[i] = s[i]
    BY <1>1, <2>1
  <2>2. ASSUME NEW i \in Nat, i >= 1, i <= Len(t) PROVE u[Len(s) + i] = t[i]
    <3>1. Len(s) + i \in 1 .. Len(s) + Len(t) /\ ~(Len(s) + i <= Len(s))
          /\ Len(s) + i - Len(s) = i
      BY <1>1, <2>2
    <3>2. QED
      BY <1>1, <3>1
  <2>3. QED
    BY <2>1, <2>2
<1> HIDE DEF u
<1>4. ASSUME NEW i \in 1 .. Len(u) - 1, IsPiece(u[i]), IsPiece(u[i + 1])
      PROVE  u[i + 1] = u[i] + 1
  <2>1. CASE i + 1 <= Len(s)
    <3>1. u[i] = s[i] /\ u[i + 1] = s[i + 1] /\ i \in 1 .. Len(s) - 1
      BY <1>1, <1>3, <2>1
    <3>2. QED
      BY <1>4, <3>1 DEF Unspliced
  <2>2. CASE i = Len(s)
    <3>1. Len(s) >= 1 /\ Len(t) >= 1
      BY <1>1, <2>2
    <3>2. u[i] = s[Len(s)] /\ u[i + 1] = t[1] /\ s # <<>> /\ t # <<>>
      BY <1>1, <1>2, <1>3, <2>2, <3>1
    <3>3. QED
      BY <1>4, <3>2
  <2>3. CASE i > Len(s)
    <3> DEFINE k == i - Len(s)
    <3>1. i \in Int /\ i <= Len(s) + Len(t) - 1 /\ Len(s) \in Nat /\ Len(t) \in Nat
      BY <1>1
    <3>2. /\ k \in Nat /\ k >= 1 /\ k <= Len(t) - 1 /\ k \in 1 .. Len(t) - 1
          /\ i = Len(s) + k /\ i + 1 = Len(s) + (k + 1)
      BY <2>3, <3>1
    <3> HIDE DEF k
    <3>3. u[Len(s) + k] = t[k] /\ u[Len(s) + (k + 1)] = t[k + 1]
      <4>1. k >= 1 /\ k <= Len(t) /\ k + 1 \in Nat /\ k + 1 >= 1 /\ k + 1 <= Len(t)
        BY <3>1, <3>2
      <4>2. u[Len(s) + k] = t[k]
        BY <1>3, <3>2, <4>1
      <4>3. u[Len(s) + (k + 1)] = t[k + 1]
        BY <1>3, <4>1, Zenon
      <4>4. QED
        BY <4>2, <4>3
    <3>4. QED
      BY <1>4, <3>2, <3>3 DEF Unspliced
  <2>4. QED
    BY <1>1, <2>1, <2>2, <2>3
<1>5. ASSUME NEW chunk, Ends(t, chunk) PROVE Ends(u, chunk)
  <2>1. Len(t) >= 1
    BY <1>1, <1>2, <1>5 DEF Ends
  <2>2. u[Len(s) + Len(t)] = t[Len(t)]
    BY <1>1, <1>3, <2>1
  <2>3. u # <<>>
    BY <1>1, <2>1, EmptySeq
  <2>4. QED
    BY <1>1, <1>5, <2>2, <2>3 DEF Ends
<1>6. QED
  BY <1>1, <1>4, <1>5 DEF Unspliced, u

\* A text of one mark.
LEMMA MarkedText ==
  ASSUME NEW mark \in Int, ~IsPiece(mark)
  PROVE  /\ <<mark>> \in Seq(Int) /\ Unspliced(<<mark>>)
         /\ <<mark>> # <<>> /\ <<mark>>[1] = mark /\ Len(<<mark>>) = 1
  BY DEF Unspliced

\* The empty text.
LEMMA EmptyText == <<>> \in Seq(Int) /\ Unspliced(<<>>)
  BY EmptySeq DEF Unspliced

\* What is kept of a text ends as the text did.
LEMMA KeptText ==
  ASSUME NEW s \in Seq(Int), Unspliced(s), NEW n \in Nat \ {0}
  PROVE  /\ Kept(s, n) \in Seq(Int) /\ Unspliced(Kept(s, n))
         /\ \A chunk : Ends(s, chunk) => Ends(Kept(s, n), chunk)
<1>1. Len(s) \in Nat
  BY LenProperties
<1>2. CASE Len(s) <= n
  BY <1>1, <1>2 DEF Kept
<1>3. CASE Len(s) > n
  <2> DEFINE m == Len(s) - n + 1
             k == SubSeq(s, m, Len(s))
  <2>1. \A i \in m .. Len(s) : s[i] \in Int
    BY <1>1, <1>3, ElementOfSeq
  <2>2. /\ k \in Seq(Int) /\ Len(k) = n
        /\ \A i \in 1 .. n : k[i] = s[m + i - 1]
    <3>1. /\ m \in Int /\ Len(s) \in Int /\ m <= Len(s)
          /\ Len(s) - m + 1 = n
      BY <1>1, <1>3
    <3> HIDE DEF m
    <3>2. QED
      BY <2>1, <3>1, SubSeqProperties
  <2>3. Kept(s, n) = k
    BY <1>3 DEF Kept
  <2> HIDE DEF k
  <2>4. Unspliced(k)
    <3> SUFFICES ASSUME NEW i \in 1 .. n - 1, IsPiece(k[i]), IsPiece(k[i + 1])
                 PROVE  k[i + 1] = k[i] + 1
      BY <2>2 DEF Unspliced
    <3> DEFINE j == m + i - 1
    <3>1. k[i] = s[j] /\ k[i + 1] = s[j + 1] /\ j \in 1 .. Len(s) - 1
      <4>1. /\ i \in 1 .. n /\ i + 1 \in 1 .. n
            /\ m + (i + 1) - 1 = j + 1 /\ j \in 1 .. Len(s) - 1
        BY <1>1, <1>3
      <4>2. k[i] = s[m + i - 1]
        BY <2>2, <4>1
      <4>3. k[i + 1] = s[m + (i + 1) - 1]
        BY <2>2, <4>1
      <4> QED
        BY <4>1, <4>2, <4>3
    <3>2. QED
      BY <3>1 DEF Unspliced
  <2>5. k # <<>> /\ k[Len(k)] = s[Len(s)]
    BY <1>1, <1>3, <2>2, EmptySeq
  <2>6. QED
    BY <2>2, <2>3, <2>4, <2>5 DEF Ends
<1>4. QED
  BY <1>1, <1>2, <1>3

\* The pieces of a chunk, as they are written into a text.
LEMMA PiecesOfChunk ==
  ASSUME NEW chunk \in Chunks, Full(chunk)
  PROVE  /\ Pieces(chunk) \in Seq(Int) /\ Unspliced(Pieces(chunk))
         /\ Pieces(chunk)[1] = chunk.from /\ Pieces(chunk) # <<>>
         /\ Ends(Pieces(chunk), chunk)
<1> DEFINE n == chunk.to - chunk.from + 1
           s == [i \in 1 .. n |-> chunk.from + i - 1]
           t == IF chunk.stopped THEN <<StoppedHere>> ELSE <<>>
<1>1. chunk.from \in Nat /\ chunk.to \in Nat /\ n \in Nat /\ n >= 1
  BY DEF Chunks, Full
<1>2. s \in [1 .. n -> Int]
  BY <1>1
<1>3. s \in Seq(Int)
  <2> HIDE DEF s, n
  <2>1. QED
    BY <1>1, <1>2, SeqDef
<1>4. DOMAIN s = 1 .. n /\ Len(s) = n
  BY <1>1, <1>3, LenProperties
<1>5. /\ \A i \in 1 .. n : s[i] = chunk.from + i - 1
      /\ Pieces(chunk) = s \o t
  BY DEF Pieces
<1> HIDE DEF s
<1>6. Unspliced(s)
  BY <1>1, <1>4, <1>5 DEF Unspliced
<1>7. s # <<>> /\ s[Len(s)] = chunk.to /\ s[1] = chunk.from
  BY <1>1, <1>3, <1>4, <1>5, EmptySeq
<1>8. CASE chunk.stopped
  <2>1. t = <<StoppedHere>>
    BY <1>8
  <2> HIDE DEF t
  <2>2. StoppedHere \in Int /\ ~IsPiece(StoppedHere)
    BY DEF StoppedHere, IsPiece
  <2>3. t \in Seq(Int) /\ Unspliced(t) /\ t # <<>> /\ ~IsPiece(t[1]) /\ Len(t) = 1
    BY <2>1, <2>2, MarkedText
  <2>4. Ends(t, chunk)
    BY <2>3 DEF Ends
  <2>5. /\ s \o t \in Seq(Int) /\ Unspliced(s \o t)
        /\ Ends(s \o t, chunk)
    BY <1>3, <1>6, <2>3, <2>4, JoinedTexts
  <2>6. (s \o t)[1] = s[1]
    BY <1>1, <1>3, <1>4, <2>3, ConcatProperties
  <2>7. QED
    BY <1>5, <1>7, <2>5, <2>6 DEF Ends
<1>9. CASE ~chunk.stopped
  <2>1. s \o t = s
    BY <1>3, <1>9, ConcatEmptySeq
  <2>2. QED
    BY <1>3, <1>5, <1>6, <1>7, <2>1 DEF Ends
<1>10. QED
  BY <1>8, <1>9 DEF Chunks

\* The chunks of a run are full and numbered one after the other.
LEMMA NumberedStep ==
  ASSUME StreamInv, Numbered, [StreamNext]_streamVars
  PROVE  Numbered'
<1>1. CASE outputs' = outputs
  BY <1>1 DEF Numbered
<1>2. CASE outputs' # outputs
  <2> DEFINE sent == streamer.streamed + streamer.pending
             chunk == [id |-> run.id, seq |-> streamer.seq + 1,
                       from |-> streamer.streamed + 1, to |-> sent,
                       stopped |-> sent >= StreamLimit /\ ~streamer.capped,
                       blank |-> streamer.blank]
  <2>1. /\ outputs' = Append(outputs, chunk) /\ streamer.pending # 0
        /\ run.pc = "running"
    BY <1>2 DEF StreamNext, streamVars, StartRun, Write, Flush, CloseRun,
       ReportEnd, ClientStops, Publish
  <2>2. /\ streamer.seq \in Nat /\ streamer.streamed \in Nat
        /\ streamer.pending \in Nat /\ run.id \in Nat
    BY StreamAssumption DEF StreamAssumption, StreamInv, StreamTypeOK, Streamers
  <2>3. /\ chunk.id = run.id /\ chunk.seq = streamer.seq + 1 /\ Full(chunk)
    BY <2>1, <2>2 DEF Full
  <2> HIDE DEF chunk
  <2>4. outputs \in Seq(Chunks) /\ outputs' \in Seq(Chunks)
    BY StreamInv, StreamStep DEF StreamInv, StreamTypeOK
  <2>5. /\ Len(outputs) \in Nat /\ DOMAIN outputs = 1 .. Len(outputs)
        /\ DOMAIN outputs' = 1 .. Len(outputs) + 1
        /\ \A i \in DOMAIN outputs : outputs'[i] = outputs[i]
        /\ outputs'[Len(outputs) + 1] = chunk
    BY <2>1, <2>4
  <2>6. ASSUME NEW i \in DOMAIN outputs, outputs[i].id = run.id
        PROVE  chunk.seq - outputs[i].seq = Len(outputs) + 1 - i
    <3>1. outputs # <<>> /\ Len(outputs) \in DOMAIN outputs /\ i <= Len(outputs)
      BY <2>4, <2>5
    <3>2. outputs[i] \in Chunks /\ Newest \in Chunks
      BY <2>4, <3>1, NewestIs
    <3>3. outputs[i].seq \in Nat /\ Newest.seq \in Nat /\ Newest.id \in Nat
      BY <3>2 DEF Chunks, Runs
    <3>4. outputs[i].id <= Newest.id /\ Newest.id <= run.id
      BY <3>1 DEF StreamInv, InOrder, GoesOn, Newest
    <3>5. Newest.id = run.id
      BY <2>2, <2>6, <3>3, <3>4
    <3>6. streamer.seq = Newest.seq
      BY <3>1, <3>5 DEF StreamInv, GoesOn, HasSent
    <3>7. Newest.seq - outputs[i].seq = Len(outputs) - i
      BY <2>6, <3>1, <3>5 DEF Numbered, Newest
    <3>8. QED
      BY <2>3, <2>5, <3>3, <3>6, <3>7
  <2>7. \A i \in DOMAIN outputs' : Full(outputs'[i])
    BY <2>3, <2>5 DEF Numbered
  <2>8. ASSUME NEW i \in DOMAIN outputs', NEW j \in DOMAIN outputs', i <= j,
               outputs'[i].id = outputs'[j].id
        PROVE  outputs'[j].seq - outputs'[i].seq = j - i
    <3>1. CASE j \in DOMAIN outputs
      <4>1. i \in DOMAIN outputs
        BY <2>5, <2>8, <3>1
      <4>2. QED
        BY <2>5, <2>8, <3>1, <4>1 DEF Numbered
    <3>2. CASE j = Len(outputs) + 1 /\ i \in DOMAIN outputs
      BY <2>3, <2>5, <2>6, <2>8, <3>2
    <3>3. CASE j = Len(outputs) + 1 /\ i = j
      BY <2>2, <2>3, <2>5, <3>3
    <3>4. QED
      BY <2>5, <2>8, <3>1, <3>2, <3>3
  <2>9. QED
    BY <2>7, <2>8 DEF Numbered
<1>3. QED
  BY <1>1, <1>2

Sent == {outputs[i] : i \in DOMAIN outputs}

\* A text that holds a run up to a chunk.
Holds(held, chunk) ==
  /\ held.id = chunk.id /\ held.seq = chunk.seq
  /\ held.text \in Seq(Int) /\ Unspliced(held.text) /\ Ends(held.text, chunk)
HoldsSome(held) ==
  \/ held.id = 0 /\ held.text = <<>>
  \/ \E chunk \in Sent : Holds(held, chunk)

\* The server and the page have only what was sent.
OnlyWhatWasSent ==
  /\ events \in Seq(Sent) /\ updates \in Seq(Results)
  /\ \A message \in deliveries : message \in Chunks => message \in Sent

\* As long as nothing is lost, the buffer holds the run of the last chunk that
\* was heard, up to it.
BufferFollows ==
  losses = 0 =>
    \/ heard.outputs = 0 /\ buffer = NoBuffer
    \/ heard.outputs # 0 /\ Holds(buffer, outputs[heard.outputs])

\* The page, and what it is about to be given, hold a run up to some chunk.
PaneHolds ==
  losses = 0 => /\ HoldsSome(page.live)
                /\ page.seed.pc = "answered" => HoldsSome(page.seed.live)

PageFields ==
  page = [open |-> page.open, live |-> page.live, known |-> page.known,
          visit |-> page.visit, seed |-> page.seed]
Counts ==
  /\ losses \in Nat
  /\ heard \in [outputs : Nat, results : Nat]
  /\ heard.outputs <= Len(outputs) /\ heard.results <= Len(results)

PaneInv ==
  /\ StreamInv /\ Numbered /\ Counts /\ PageFields
  /\ OnlyWhatWasSent /\ BufferFollows /\ PaneHolds

\* Records are no chunks.
LEMMA RecordsAreNoChunks == Results \cap Chunks = {}
<1> SUFFICES ASSUME NEW m \in Results, m \in Chunks PROVE FALSE
  OBVIOUS
<1>1. DOMAIN m = {"id", "status", "from", "to", "journal"}
  BY DEF Results
<1>2. DOMAIN m = {"id", "seq", "from", "to", "stopped", "blank"}
  BY DEF Chunks
<1>3. QED
  BY <1>1, <1>2

\* What was sent is among the chunks, full, and of a run.
LEMMA SentAreChunks ==
  ASSUME StreamInv, Numbered
  PROVE  \A chunk \in Sent :
           /\ chunk \in Chunks /\ Full(chunk)
           /\ chunk.id \in Nat /\ chunk.id # 0 /\ chunk.seq \in Nat
<1> SUFFICES ASSUME NEW i \in DOMAIN outputs
             PROVE  /\ outputs[i] \in Chunks /\ Full(outputs[i])
                    /\ outputs[i].id \in Nat /\ outputs[i].id # 0
                    /\ outputs[i].seq \in Nat
  BY DEF Sent
<1>1. outputs[i] \in Chunks
  BY DEF StreamInv, StreamTypeOK
<1>2. QED
  BY <1>1, StreamAssumption DEF StreamAssumption, Chunks, Runs, Numbered

\* The chunk with the next number goes on where the one before it ended.
LEMMA NextGoesOn ==
  ASSUME StreamInv, Numbered, NEW chunk \in Sent, NEW next \in Sent,
         next.id = chunk.id, next.seq = chunk.seq + 1
  PROVE  next.from = chunk.to + 1
<1>1. PICK i \in DOMAIN outputs, j \in DOMAIN outputs :
        chunk = outputs[i] /\ next = outputs[j]
  BY DEF Sent
<1>2. chunk.seq \in Nat /\ next.seq \in Nat
  BY SentAreChunks
<1>3. DOMAIN outputs = 1 .. Len(outputs) /\ Len(outputs) \in Nat
  BY LenProperties DEF StreamInv, StreamTypeOK
<1>4. j = i + 1
  <2>1. CASE i <= j
    <3>1. next.seq - chunk.seq = j - i
      BY <1>1, <2>1 DEF Numbered
    <3>2. QED
      BY <1>2, <1>3, <3>1
  <2>2. CASE j <= i
    <3>1. chunk.seq - next.seq = i - j
      BY <1>1, <2>2 DEF Numbered
    <3>2. QED
      BY <1>2, <1>3, <2>2, <3>1
  <2>3. QED
    BY <1>3, <2>1, <2>2
<1>5. j > 1 /\ outputs[j - 1].id = outputs[j].id /\ outputs[j - 1] = chunk
  BY <1>1, <1>3, <1>4
<1>6. QED
  BY <1>1, <1>5 DEF StreamInv, ChunksAbut

\* A text that holds a run up to a chunk holds it up to the next one, when that
\* is added.
LEMMA GrownText ==
  ASSUME StreamInv, Numbered, NEW held, NEW chunk \in Sent, NEW next \in Sent,
         Holds(held, chunk), next.id = chunk.id, next.seq = chunk.seq + 1
  PROVE  LET text == held.text \o Pieces(next)
         IN  text \in Seq(Int) /\ Unspliced(text) /\ Ends(text, next)
<1>1. next \in Chunks /\ Full(next) /\ next.from = chunk.to + 1
  BY SentAreChunks, NextGoesOn
<1>2. /\ Pieces(next) \in Seq(Int) /\ Unspliced(Pieces(next))
      /\ Pieces(next)[1] = next.from /\ Ends(Pieces(next), next)
  BY <1>1, PiecesOfChunk
<1>3. QED
  BY <1>1, <1>2, JoinedTexts DEF Holds, Ends

\* A text of nothing but a chunk.
LEMMA NewText ==
  ASSUME StreamInv, Numbered, NEW next \in Sent
  PROVE  LET text == <<>> \o Pieces(next)
         IN  text \in Seq(Int) /\ Unspliced(text) /\ Ends(text, next)
  BY SentAreChunks, PiecesOfChunk, ConcatEmptySeq

\* What was sent stays so.
LEMMA SentStaysSent ==
  ASSUME StreamInv, [StreamNext]_streamVars
  PROVE  /\ Sent \subseteq Sent' /\ Len(outputs) <= Len(outputs')
         /\ Len(results) <= Len(results')
         /\ \A i \in DOMAIN outputs : outputs'[i] = outputs[i]
<1>1. outputs \in Seq(Chunks) /\ results \in Seq(Results)
  BY DEF StreamInv, StreamTypeOK
<1>2. Len(outputs) \in Nat /\ Len(results) \in Nat
  BY <1>1
<1>3. outputs' = outputs \/ \E chunk : outputs' = Append(outputs, chunk)
  BY DEF StreamNext, streamVars, StartRun, Write, Flush, CloseRun, ReportEnd,
     ClientStops, Publish
<1>4. results' = results \/ \E result : results' = Append(results, result)
  BY DEF StreamNext, streamVars, StartRun, Write, Flush, CloseRun, ReportEnd,
     ClientStops, Report
<1>5. outputs' \in Seq(Chunks) /\ results' \in Seq(Results)
  BY StreamStep DEF StreamInv, StreamTypeOK
<1>6. Len(outputs) <= Len(outputs') /\ \A i \in DOMAIN outputs :
        i \in DOMAIN outputs' /\ outputs'[i] = outputs[i]
  BY <1>1, <1>2, <1>3, <1>5
<1>7. Len(results) <= Len(results')
  BY <1>1, <1>2, <1>4, <1>5
<1>8. QED
  BY <1>6, <1>7 DEF Sent

\* The stream goes on, or stays as it is, beside the server and the page.
LEMMA StreamBeside ==
  ASSUME PaneInv, [StreamNext]_streamVars
  PROVE  /\ StreamInv' /\ Numbered' /\ Sent \subseteq Sent'
         /\ \A chunk \in Sent : chunk \in Chunks /\ chunk.id # 0
         /\ \A held : HoldsSome(held) => HoldsSome(held)'
<1>1. StreamInv' /\ Numbered' /\ Sent \subseteq Sent'
  BY StreamStep, NumberedStep, SentStaysSent DEF PaneInv
<1>2. ASSUME NEW held, HoldsSome(held) PROVE HoldsSome(held)'
  BY <1>1, <1>2 DEF HoldsSome
<1>3. QED
  BY <1>1, <1>2, SentAreChunks DEF PaneInv

\* What the host does beside them changes nothing of the server and the page.
LEMMA StreamKeepsPane ==
  ASSUME PaneInv, [StreamNext]_streamVars,
         UNCHANGED <<heard, buffer, events, updates, deliveries, page, losses>>
  PROVE  PaneInv'
<1>1. StreamInv' /\ Numbered'
  BY StreamBeside
<1>2. /\ Len(outputs) <= Len(outputs') /\ Len(results) <= Len(results')
      /\ Sent \subseteq Sent' /\ \A i \in DOMAIN outputs : outputs'[i] = outputs[i]
  BY SentStaysSent DEF PaneInv
<1>3. /\ Len(outputs) \in Nat /\ Len(results) \in Nat
      /\ Len(outputs') \in Nat /\ Len(results') \in Nat
      /\ DOMAIN outputs = 1 .. Len(outputs)
  BY <1>1, LenProperties DEF PaneInv, StreamInv, StreamTypeOK
<1>4. Counts'
  BY <1>2, <1>3 DEF PaneInv, Counts
<1>5. PageFields'
  BY DEF PaneInv, PageFields
<1>6. OnlyWhatWasSent'
  BY <1>2, SeqMonotonic DEF PaneInv, OnlyWhatWasSent
<1>7. BufferFollows'
  <2>1. heard.outputs # 0 => heard.outputs \in DOMAIN outputs
    BY <1>3 DEF PaneInv, Counts
  <2>2. QED
    BY <1>2, <2>1 DEF PaneInv, BufferFollows, Holds
<1>8. PaneHolds'
  BY StreamBeside DEF PaneInv, PaneHolds
<1>9. QED
  BY <1>1, <1>4, <1>5, <1>6, <1>7, <1>8 DEF PaneInv

\* The server hears the next chunk.
LEMMA HearOutputKeeps == ASSUME PaneInv, HearOutput PROVE PaneInv'
<1> DEFINE n == heard.outputs + 1
           next == outputs[n]
           held == IF buffer.id = next.id THEN buffer ELSE NoBuffer
           text == held.text \o Pieces(next)
<1>1. /\ StreamInv' /\ Numbered' /\ outputs' = outputs /\ results' = results
      /\ losses' = losses /\ page' = page /\ deliveries' = deliveries
      /\ updates' = updates
  BY StreamBeside DEF HearOutput, streamVars, pageVars
<1>2. /\ heard \in [outputs : Nat, results : Nat]
      /\ heard.outputs < Len(outputs) /\ heard.results <= Len(results)
      /\ Len(outputs) \in Nat /\ DOMAIN outputs = 1 .. Len(outputs)
  BY LenProperties DEF PaneInv, StreamInv, StreamTypeOK, Counts, HearOutput
<1>3. heard' = [heard EXCEPT !.outputs = n] /\ heard'.outputs = n
  BY <1>2 DEF HearOutput
<1>4. n \in DOMAIN outputs /\ next \in Sent
  BY <1>2 DEF Sent
<1>5. /\ buffer' = [id |-> next.id, seq |-> next.seq,
                    text |-> Kept(text, BufferLimit),
                    truncated |-> held.truncated \/ Len(text) > BufferLimit]
      /\ events' = events \/ events' = Append(events, next)
  BY <1>3 DEF HearOutput, AppendOutput, Offer
<1>6. Sent' = Sent
  BY <1>1 DEF Sent
<1>7. Counts'
  BY <1>1, <1>2, <1>3 DEF PaneInv, Counts
<1>8. OnlyWhatWasSent'
  BY <1>1, <1>4, <1>5, <1>6, AppendProperties DEF PaneInv, OnlyWhatWasSent
<1>9. PageFields' /\ PaneHolds'
  BY <1>1, <1>6 DEF PaneInv, PageFields, PaneHolds, HoldsSome
<1>10. BufferFollows'
  <2> SUFFICES ASSUME losses = 0 PROVE Holds(buffer', next)
    BY <1>1, <1>2, <1>3 DEF BufferFollows, Holds
  <2>1. text \in Seq(Int) /\ Unspliced(text) /\ Ends(text, next)
    <3>1. CASE held = NoBuffer
      <4> HIDE DEF held, next
      <4>1. held.text = <<>>
        BY <3>1 DEF NoBuffer
      <4>2. QED
        BY <1>4, <4>1, NewText DEF PaneInv
    <3>2. CASE held # NoBuffer
      <4>1. held = buffer /\ buffer.id = next.id /\ buffer # NoBuffer
        BY <3>2
      <4>2. heard.outputs # 0 /\ Holds(buffer, outputs[heard.outputs])
        BY <4>1 DEF PaneInv, BufferFollows
      <4>3. heard.outputs \in DOMAIN outputs /\ outputs[heard.outputs] \in Sent
        BY <1>2, <4>2 DEF Sent
      <4>4. outputs[n - 1] = outputs[heard.outputs] /\ n > 1
        BY <1>2, <4>2
      <4>5. /\ next.id = outputs[heard.outputs].id
            /\ next.seq = outputs[heard.outputs].seq + 1
        BY <1>4, <4>1, <4>2, <4>4 DEF PaneInv, StreamInv, ChunksAbut, Holds
      <4>6. held.text = buffer.text
        BY <4>1
      <4> HIDE DEF held, next
      <4>7. QED
        BY <1>4, <4>2, <4>3, <4>5, <4>6, GrownText DEF PaneInv
    <3>3. QED
      BY <3>1, <3>2
  <2> HIDE DEF text
  <2>2. /\ Kept(text, BufferLimit) \in Seq(Int)
        /\ Unspliced(Kept(text, BufferLimit))
        /\ Ends(Kept(text, BufferLimit), next)
    BY <2>1, KeptText, PaneAssumption DEF PaneAssumption
  <2>3. QED
    BY <1>5, <2>2 DEF Holds
<1>11. QED
  BY <1>1, <1>7, <1>8, <1>9, <1>10 DEF PaneInv

\* It hears a record, or loses something.
LEMMA OtherwiseHears ==
  ASSUME PaneInv, HearResult \/ LoseMessage PROVE PaneInv'
<1>1. /\ StreamInv' /\ Numbered' /\ outputs' = outputs /\ results' = results
      /\ page' = page /\ deliveries' = deliveries
      /\ events' = events /\ buffer' = buffer
  BY StreamBeside DEF HearResult, LoseMessage, streamVars, pageVars
<1>2. Sent' = Sent
  BY <1>1 DEF Sent
<1>3. /\ heard \in [outputs : Nat, results : Nat]
      /\ heard.outputs <= Len(outputs) /\ heard.results <= Len(results)
      /\ Len(outputs) \in Nat /\ Len(results) \in Nat /\ losses \in Nat
      /\ results \in Seq(Results) /\ DOMAIN results = 1 .. Len(results)
  BY LenProperties DEF PaneInv, StreamInv, StreamTypeOK, Counts
<1>4. PageFields'
  BY <1>1 DEF PaneInv, PageFields
<1>5. CASE HearResult
  <2>1. /\ heard' = [heard EXCEPT !.results = heard.results + 1]
        /\ heard.results < Len(results) /\ losses' = losses
    BY <1>5 DEF HearResult
  <2>2. heard'.results = heard.results + 1 /\ heard'.outputs = heard.outputs
    BY <1>3, <2>1
  <2>3. results[heard'.results] \in Results
    BY <1>3, <2>1, <2>2
  <2>4. updates' = updates \/ updates' = Append(updates, results[heard'.results])
    BY <1>5 DEF HearResult, Offer
  <2>5. OnlyWhatWasSent'
    BY <1>1, <1>2, <2>3, <2>4, AppendProperties DEF PaneInv, OnlyWhatWasSent
  <2>6. Counts'
    BY <1>1, <1>3, <2>1, <2>2 DEF Counts
  <2>7. BufferFollows' /\ PaneHolds'
    BY <1>1, <1>2, <2>1, <2>2
       DEF PaneInv, BufferFollows, PaneHolds, HoldsSome, Holds
  <2>8. QED
    BY <1>1, <1>4, <2>5, <2>6, <2>7 DEF PaneInv
<1>6. CASE LoseMessage
  <2>1. losses' = losses + 1 /\ losses' # 0 /\ updates' = updates
    BY <1>3, <1>6 DEF LoseMessage
  <2>2. Counts'
    BY <1>1, <1>3, <1>6, <2>1 DEF Counts, LoseMessage
  <2>3. OnlyWhatWasSent'
    BY <1>1, <1>2, <2>1 DEF PaneInv, OnlyWhatWasSent
  <2>4. BufferFollows' /\ PaneHolds'
    BY <2>1 DEF BufferFollows, PaneHolds
  <2>5. QED
    BY <1>1, <1>4, <2>2, <2>3, <2>4 DEF PaneInv
<1>7. QED
  BY <1>5, <1>6

\* Chunks and records are handed on.
LEMMA RelayKeepsPane ==
  ASSUME PaneInv, RelayChunk \/ RelayRecord PROVE PaneInv'
<1>1. /\ StreamInv' /\ Numbered' /\ outputs' = outputs /\ results' = results
      /\ page' = page /\ heard' = heard /\ buffer' = buffer /\ losses' = losses
  BY StreamBeside DEF RelayChunk, RelayRecord, streamVars
<1>2. Sent' = Sent
  BY <1>1 DEF Sent
<1>3. Counts' /\ PageFields' /\ BufferFollows' /\ PaneHolds'
  BY <1>1, <1>2
     DEF PaneInv, Counts, PageFields, BufferFollows, PaneHolds, HoldsSome, Holds
<1>4. CASE RelayChunk
  <2>1. /\ events' = Tail(events) /\ updates' = updates /\ events # <<>>
        /\ deliveries' \subseteq deliveries \cup {Head(events)}
    BY <1>4 DEF RelayChunk, Broadcast
  <2>2. Tail(events) \in Seq(Sent) /\ Head(events) \in Sent
    BY <2>1, HeadTailProperties DEF PaneInv, OnlyWhatWasSent
  <2>3. OnlyWhatWasSent'
    BY <1>2, <2>1, <2>2 DEF PaneInv, OnlyWhatWasSent
  <2>4. QED
    BY <1>1, <1>3, <2>3 DEF PaneInv
<1>5. CASE RelayRecord
  <2>1. /\ updates' = Tail(updates) /\ events' = events /\ updates # <<>>
        /\ deliveries' \subseteq deliveries \cup {Head(updates)}
    BY <1>5 DEF RelayRecord, Broadcast
  <2>2. Tail(updates) \in Seq(Results) /\ Head(updates) \notin Chunks
    BY <2>1, HeadTailProperties, RecordsAreNoChunks DEF PaneInv, OnlyWhatWasSent
  <2>3. OnlyWhatWasSent'
    BY <1>2, <2>1, <2>2 DEF PaneInv, OnlyWhatWasSent
  <2>4. QED
    BY <1>1, <1>3, <2>3 DEF PaneInv
<1>6. QED
  BY <1>4, <1>5

\* A chunk that follows on is added to the pane, one that does not after a mark.
LEMMA ReceivedText ==
  ASSUME StreamInv, Numbered, NEW live, HoldsSome(live), NEW next \in Sent
  PROVE  HoldsSome(Received(live, next))
<1> DEFINE held == IF live.id = next.id THEN live ELSE NoText
           gap == held.seq # 0 /\ next.seq # held.seq + 1
           kept == held.text \o (IF gap THEN <<DroppedHere>> ELSE <<>>)
           text == kept \o Pieces(next)
<1>1. /\ next \in Chunks /\ Full(next) /\ next.id # 0
      /\ Pieces(next) \in Seq(Int) /\ Unspliced(Pieces(next))
      /\ Ends(Pieces(next), next)
  BY SentAreChunks, PiecesOfChunk
<1>2. /\ Received(live, next).id = next.id /\ Received(live, next).seq = next.seq
      /\ Received(live, next).text = text
  BY DEF Received
<1>3. text \in Seq(Int) /\ Unspliced(text) /\ Ends(text, next)
  <2> HIDE DEF text
  <2>1. CASE live.id # next.id
    <3>1. held.seq = 0 /\ held.text = <<>>
      BY <2>1 DEF NoText
    <3> HIDE DEF held
    <3>2. ~gap
      BY <3>1
    <3>3. kept = <<>> \o <<>>
      BY <3>1, <3>2
    <3>4. kept = <<>>
      BY <3>3, EmptyText, ConcatEmptySeq
    <3>5. text = <<>> \o Pieces(next)
      BY <3>4 DEF text
    <3>6. QED
      BY <3>5, NewText
  <2>2. CASE live.id = next.id
    <3>1. held = live
      BY <2>2
    <3>2. PICK chunk \in Sent : Holds(live, chunk)
      BY <1>1, <2>2 DEF HoldsSome
    <3>3. live.text \in Seq(Int) /\ Unspliced(live.text)
      BY <3>2 DEF Holds
    <3> HIDE DEF held
    <3>4. CASE gap
      <4>1. DroppedHere \in Int /\ ~IsPiece(DroppedHere)
        BY DEF DroppedHere, IsPiece
      <4>2. /\ <<DroppedHere>> \in Seq(Int) /\ Unspliced(<<DroppedHere>>)
            /\ <<DroppedHere>> # <<>> /\ <<DroppedHere>>[1] = DroppedHere
            /\ Len(<<DroppedHere>>) = 1
        BY <4>1, MarkedText
      <4> DEFINE mark == <<DroppedHere>>
      <4>3. kept = live.text \o mark
        BY <3>1, <3>4
      <4>4. Ends(mark, next)
        BY <4>1, <4>2 DEF Ends
      <4> HIDE DEF mark, kept
      <4>5. kept \in Seq(Int) /\ Unspliced(kept) /\ Len(kept) = Len(live.text) + 1
            /\ kept[Len(kept)] = DroppedHere
        <5>1. kept \in Seq(Int) /\ Unspliced(kept)
          BY <3>3, <4>1, <4>2, <4>3, JoinedTexts DEF mark
        <5>2. Len(kept) = Len(live.text) + 1 /\ Len(live.text) \in Nat
          BY <3>3, <4>2, <4>3, ConcatProperties, LenProperties DEF mark
        <5>3. kept[Len(live.text) + 1] = mark[1]
          BY <3>3, <4>2, <4>3, <5>2, ConcatProperties DEF mark
        <5>4. QED
          BY <4>2, <5>1, <5>2, <5>3 DEF mark
      <4>6. QED
        BY <1>1, <4>1, <4>5, JoinedTexts DEF text
    <3>5. CASE ~gap
      <4>1. kept = live.text
        BY <3>1, <3>3, <3>5, ConcatEmptySeq
      <4>2. live.seq = chunk.seq /\ chunk.seq \in Nat /\ chunk.seq >= 1
        BY <3>2, SentAreChunks DEF Holds, Full
      <4>3. next.seq = chunk.seq + 1 /\ next.id = chunk.id
        BY <2>2, <3>1, <3>2, <3>5, <4>2 DEF Holds
      <4> HIDE DEF kept
      <4>4. text = live.text \o Pieces(next)
        BY <4>1 DEF text
      <4>5. QED
        BY <3>2, <4>3, <4>4, GrownText
    <3>6. QED
      BY <3>4, <3>5
  <2>3. QED
    BY <2>1, <2>2
<1>4. Holds(Received(live, next), next)
  BY <1>2, <1>3 DEF Holds
<1>5. QED
  BY <1>4 DEF HoldsSome

\* What a page is given of the buffer holds what the buffer does.
LEMMA SeedHolds ==
  ASSUME PaneInv, losses = 0
  PROVE  HoldsSome([id |-> buffer.id, seq |-> buffer.seq,
           text |-> (IF buffer.truncated THEN <<CutBefore>> ELSE <<>>) \o buffer.text])
<1> DEFINE cut == IF buffer.truncated THEN <<CutBefore>> ELSE <<>>
           seed == [id |-> buffer.id, seq |-> buffer.seq, text |-> cut \o buffer.text]
<1>1. CASE heard.outputs = 0
  <2>1. buffer.id = 0 /\ buffer.text = <<>> /\ cut = <<>>
    BY <1>1 DEF PaneInv, BufferFollows, NoBuffer, Holds
  <2> HIDE DEF cut
  <2>2. cut \o buffer.text = <<>> \o <<>>
    BY <2>1
  <2>3. seed.id = 0 /\ seed.text = <<>>
    BY <2>1, <2>2, EmptyText, ConcatEmptySeq
  <2>4. QED
    BY <2>3 DEF HoldsSome, cut
<1>2. CASE heard.outputs # 0
  <2> DEFINE chunk == outputs[heard.outputs]
  <2>1. Holds(buffer, chunk)
    BY <1>2 DEF PaneInv, BufferFollows
  <2>2. chunk \in Sent
    BY <1>2, LenProperties DEF PaneInv, Counts, Sent, StreamInv, StreamTypeOK
  <2>3. /\ cut \in Seq(Int) /\ Unspliced(cut)
        /\ cut # <<>> => ~IsPiece(cut[Len(cut)])
    <3>1. CutBefore \in Int /\ ~IsPiece(CutBefore)
      BY DEF CutBefore, IsPiece
    <3>2. CASE buffer.truncated
      BY <3>1, <3>2, MarkedText
    <3>3. CASE ~buffer.truncated
      BY <3>3, EmptyText
    <3>4. QED
      BY <3>2, <3>3
  <2> HIDE DEF cut, chunk
  <2>4. /\ cut \o buffer.text \in Seq(Int) /\ Unspliced(cut \o buffer.text)
        /\ Ends(cut \o buffer.text, chunk)
    BY <2>1, <2>3, JoinedTexts DEF Holds
  <2>5. Holds(seed, chunk)
    BY <2>1, <2>4 DEF Holds
  <2>6. QED
    BY <2>2, <2>5 DEF HoldsSome, cut
<1>3. QED
  BY <1>1, <1>2

\* A page that changes keeps all of it, if what it holds and is given does.
LEMMA PageKeeps ==
  ASSUME PaneInv, serverStays, PageFields',
         \A message \in deliveries' : message \in deliveries,
         losses = 0 => /\ HoldsSome(page'.live)
                       /\ page'.seed.pc = "answered" => HoldsSome(page'.seed.live)
  PROVE  PaneInv'
<1>1. /\ StreamInv' /\ Numbered' /\ outputs' = outputs /\ results' = results
      /\ heard' = heard /\ buffer' = buffer /\ losses' = losses
      /\ events' = events /\ updates' = updates
  BY StreamBeside DEF serverStays, serverVars, streamVars
<1>2. Sent' = Sent
  BY <1>1 DEF Sent
<1>3. QED
  BY <1>1, <1>2
     DEF PaneInv, Counts, OnlyWhatWasSent, BufferFollows, PaneHolds, HoldsSome, Holds

\* Every step of the page keeps it.
LEMMA PageStep ==
  ASSUME PaneInv,
         \/ LoadPage \/ Connect \/ Disconnect
         \/ AnswerVisit \/ VisitAnswered
         \/ \E message \in deliveries : Deliver(message)
         \/ Seed \/ AnswerSeed \/ SeedAnswered
  PROVE  PaneInv'
<1>f. PageFields
  BY DEF PaneInv
<1>h. losses = 0 => /\ HoldsSome(page.live)
                    /\ page.seed.pc = "answered" => HoldsSome(page.seed.live)
  BY DEF PaneInv, PaneHolds
<1>1. CASE LoadPage
  <2>1. /\ page' = [NewPage EXCEPT !.visit = [pc |-> "asked"]]
        /\ deliveries' = {} /\ serverStays
    BY <1>1 DEF LoadPage
  <2>2. page' = [open |-> FALSE, live |-> NoText, known |-> NoRun,
                 visit |-> [pc |-> "asked"], seed |-> NoFetch]
    BY <2>1 DEF NewPage
  <2>3. PageFields' /\ page'.live = NoText /\ page'.seed.pc = "none"
    BY <2>2 DEF PageFields, NoFetch
  <2>4. HoldsSome(NoText)
    BY DEF HoldsSome, NoText
  <2>5. QED
    BY <2>1, <2>3, <2>4, PageKeeps
<1>2. ASSUME serverStays, deliveries' \subseteq deliveries, PageFields',
             page'.live = page.live, page'.seed = page.seed
      PROVE  PaneInv'
  BY <1>2, <1>h, PageKeeps
<1>3. CASE Connect \/ Disconnect
  <2>1. /\ serverStays /\ deliveries' \subseteq deliveries
        /\ \E b \in BOOLEAN : page' = [page EXCEPT !.open = b]
    BY <1>3 DEF Connect, Disconnect
  <2>2. PageFields' /\ page'.live = page.live /\ page'.seed = page.seed
    BY <1>f, <2>1 DEF PageFields
  <2>3. QED
    BY <1>2, <2>1, <2>2
<1>4. CASE AnswerVisit
  <2>1. /\ serverStays /\ deliveries' = deliveries
        /\ page' = [page EXCEPT !.visit = [pc |-> "answered", known |-> record]]
    BY <1>4 DEF AnswerVisit
  <2>2. PageFields' /\ page'.live = page.live /\ page'.seed = page.seed
    BY <1>f, <2>1 DEF PageFields
  <2>3. QED
    BY <1>2, <2>1, <2>2
<1>5. CASE VisitAnswered
  <2>1. /\ serverStays /\ deliveries' = deliveries
        /\ page' = [page EXCEPT !.visit = NoFetch, !.known = page.visit.known]
    BY <1>5 DEF VisitAnswered
  <2>2. PageFields' /\ page'.live = page.live /\ page'.seed = page.seed
    BY <1>f, <2>1 DEF PageFields
  <2>3. QED
    BY <1>2, <2>1, <2>2
<1>6. ASSUME NEW message \in deliveries, Deliver(message) PROVE PaneInv'
  <2>1. serverStays /\ deliveries' \subseteq deliveries
    BY <1>6 DEF Deliver
  <2>2. CASE /\ message \in Chunks
             /\ page' = [page EXCEPT !.live = Received(page.live, message)]
    <3>1. message \in Sent
      BY <2>2 DEF PaneInv, OnlyWhatWasSent
    <3>2. losses = 0 => HoldsSome(Received(page.live, message))
      BY <1>h, <3>1, ReceivedText DEF PaneInv
    <3>3. /\ PageFields' /\ page'.live = Received(page.live, message)
          /\ page'.seed = page.seed
      BY <1>f, <2>2 DEF PageFields
    <3>4. QED
      BY <1>h, <2>1, <3>2, <3>3, PageKeeps
  <2>3. CASE page' = [page EXCEPT !.known = message]
    <3>1. PageFields' /\ page'.live = page.live /\ page'.seed = page.seed
      BY <1>f, <2>3 DEF PageFields
    <3>2. QED
      BY <1>2, <2>1, <3>1
  <2>4. QED
    BY <1>6, <2>2, <2>3 DEF Deliver
<1>7. CASE Seed
  <2>1. /\ serverStays /\ deliveries' = deliveries
        /\ page' = [page EXCEPT !.seed = [pc |-> "asked", run |-> page.known.id]]
    BY <1>7 DEF Seed
  <2>2. PageFields' /\ page'.live = page.live /\ page'.seed.pc # "answered"
    BY <1>f, <2>1 DEF PageFields
  <2>3. QED
    BY <1>h, <2>1, <2>2, PageKeeps
<1>8. CASE AnswerSeed
  <2> DEFINE live == [id |-> buffer.id, seq |-> buffer.seq,
                      text |-> (IF buffer.truncated THEN <<CutBefore>> ELSE <<>>)
                                 \o buffer.text]
  <2>1. losses = 0 => HoldsSome(live)
    BY SeedHolds
  <2>2. /\ serverStays /\ deliveries' = deliveries
        /\ page' = [page EXCEPT !.seed =
             [pc |-> "answered", run |-> page.seed.run, live |-> live]]
    BY <1>8 DEF AnswerSeed
  <2> HIDE DEF live
  <2>3. PageFields' /\ page'.live = page.live /\ page'.seed.live = live
    BY <1>f, <2>2 DEF PageFields
  <2>4. QED
    BY <1>h, <2>1, <2>2, <2>3, PageKeeps
<1>9. CASE SeedAnswered
  <2>1. PICK live \in {page.live, page.seed.live} :
             page' = [page EXCEPT !.seed = NoFetch, !.live = live]
    BY <1>9 DEF SeedAnswered
  <2>2. /\ serverStays /\ deliveries' = deliveries /\ page.seed.pc = "answered"
    BY <1>9 DEF SeedAnswered
  <2>3. PageFields' /\ page'.live = live /\ page'.seed.pc = "none"
    BY <1>f, <2>1 DEF PageFields, NoFetch
  <2>4. QED
    BY <1>h, <2>1, <2>2, <2>3, PageKeeps
<1>10. QED
  BY <1>1, <1>3, <1>4, <1>5, <1>6, <1>7, <1>8, <1>9

\* A server and pages that have heard nothing.
LEMMA PaneStarts == PaneInit => PaneInv
<1> SUFFICES ASSUME PaneInit PROVE PaneInv
  OBVIOUS
<1>1. StreamInv /\ outputs = <<>> /\ results = <<>>
  BY StreamStarts DEF PaneInit, StreamInit
<1>2. Numbered
  BY <1>1 DEF Numbered
<1>3. Counts
  BY <1>1 DEF PaneInit, Counts
<1>4. PageFields /\ page.live = NoText /\ page.seed.pc = "none"
  BY DEF PaneInit, PageFields, NewPage, NoFetch
<1>5. OnlyWhatWasSent
  BY EmptySeq DEF PaneInit, OnlyWhatWasSent
<1>6. BufferFollows /\ PaneHolds
  BY <1>4 DEF PaneInit, BufferFollows, PaneHolds, HoldsSome, NoText
<1>7. QED
  BY <1>1, <1>2, <1>3, <1>4, <1>5, <1>6 DEF PaneInv

\* The inductive invariant of the host, the server and the page together.
THEOREM PaneInvariant == PaneSpec => []PaneInv
<1>1. PaneInv /\ [PaneNext]_paneVars => PaneInv'
  <2> SUFFICES ASSUME PaneInv, [PaneNext]_paneVars PROVE PaneInv'
    OBVIOUS
  <2>1. CASE \/ StreamNext /\ UNCHANGED <<serverVars, pageVars, losses, shed>>
             \/ UNCHANGED paneVars
    BY <2>1, StreamKeepsPane DEF serverVars, pageVars, paneVars
  <2>2. QED
    BY <2>1, HearOutputKeeps, OtherwiseHears, RelayKeepsPane, PageStep DEF PaneNext
<1>2. QED
  BY <1>1, PaneStarts, PTL DEF PaneSpec

\* As long as the server hears all the host sends, the pane never shows, without
\* a mark between them, two pieces of output that did not follow on in the run:
\* whatever channels drop, goroutines overtake and reloads and seeds bring.
THEOREM HeardIsUnspliced == PaneSpec => []HeardMeansUnspliced
<1>1. PaneInv => HeardMeansUnspliced
  <2> SUFFICES ASSUME PaneInv, losses = 0 PROVE PaneNeverSplices
    BY DEF HeardMeansUnspliced
  <2>1. Unspliced(page.live.text)
    BY EmptyText DEF PaneInv, PaneHolds, HoldsSome, Holds
  <2>2. QED
    BY <2>1 DEF PaneNeverSplices, Unspliced
<1>2. QED
  BY <1>1, PaneInvariant, PTL

-----------------------------------------------------------------------------
(***************************************************************************)
(* The number a text goes by, whatever was lost on the way.                *)
(***************************************************************************)
LastOf(text) == text[Len(text)]

\* A text that goes by the number of the chunk whose end it ends with.
GoesBy(held, chunk) ==
  /\ held.id = chunk.id /\ held.seq = chunk.seq
  /\ held.text \in Seq(Int) /\ held.text # <<>>
  /\ LastOf(held.text) = LastOf(Pieces(chunk))
GoesBySome(held) == \E chunk \in Sent : GoesBy(held, chunk)

\* The buffer, the pane and the seed on its way do, or are empty.
NumbersInv ==
  /\ buffer = NoBuffer \/ GoesBySome(buffer)
  /\ page.live = NoText \/ GoesBySome(page.live)
  /\ page.seed.pc = "answered" =>
       page.seed.live = NoText \/ GoesBySome(page.seed.live)

\* A text ends as what was added to it last.
LEMMA JoinedEnds ==
  ASSUME NEW s \in Seq(Int), NEW t \in Seq(Int), t # <<>>
  PROVE  s \o t \in Seq(Int) /\ s \o t # <<>> /\ LastOf(s \o t) = LastOf(t)
<1> DEFINE u == s \o t
<1>1. /\ u \in Seq(Int) /\ Len(u) = Len(s) + Len(t)
      /\ Len(s) \in Nat /\ Len(t) \in Nat
      /\ \A i \in 1 .. Len(s) + Len(t) :
           u[i] = IF i <= Len(s) THEN s[i] ELSE t[i - Len(s)]
  BY ConcatProperties, LenProperties
<1> HIDE DEF u
<1>2. Len(t) >= 1
  BY <1>1, EmptySeq
<1>3. Len(u) \in 1 .. Len(s) + Len(t) /\ ~(Len(u) <= Len(s)) /\ Len(u) - Len(s) = Len(t)
  BY <1>1, <1>2
<1>4. u[Len(u)] = t[Len(t)]
  BY <1>1, <1>3
<1>5. u # <<>>
  BY <1>1, <1>3, EmptySeq
<1>6. QED
  BY <1>1, <1>4, <1>5 DEF LastOf, u

\* What is kept of a text ends as the text did.
LEMMA KeptEnds ==
  ASSUME NEW s \in Seq(Int), s # <<>>, NEW n \in Nat \ {0}
  PROVE  Kept(s, n) \in Seq(Int) /\ Kept(s, n) # <<>> /\ LastOf(Kept(s, n)) = LastOf(s)
<1>1. Len(s) \in Nat
  BY LenProperties
<1>2. CASE Len(s) <= n
  BY <1>1, <1>2 DEF Kept
<1>3. CASE Len(s) > n
  <2> DEFINE m == Len(s) - n + 1
             k == SubSeq(s, m, Len(s))
  <2>1. \A i \in m .. Len(s) : s[i] \in Int
    BY <1>1, <1>3, ElementOfSeq
  <2>2. /\ m \in Int /\ Len(s) \in Int /\ m <= Len(s)
        /\ Len(s) - m + 1 = n /\ m + n - 1 = Len(s) /\ n \in 1 .. n
    BY <1>1, <1>3
  <2> HIDE DEF m
  <2>3. /\ k \in Seq(Int) /\ Len(k) = n
        /\ \A i \in 1 .. n : k[i] = s[m + i - 1]
    BY <2>1, <2>2, SubSeqProperties
  <2>4. Kept(s, n) = k
    BY <1>3 DEF Kept, m
  <2> HIDE DEF k
  <2>5. k[Len(k)] = s[Len(s)]
    BY <2>2, <2>3
  <2>6. k # <<>>
    BY <2>3, EmptySeq
  <2>7. QED
    BY <2>3, <2>4, <2>5, <2>6 DEF LastOf
<1>4. QED
  BY <1>1, <1>2, <1>3

\* The pieces of a chunk that was sent.
LEMMA SentPieces ==
  ASSUME PaneInv, NEW chunk \in Sent
  PROVE  Pieces(chunk) \in Seq(Int) /\ Pieces(chunk) # <<>>
<1>1. chunk \in Chunks /\ Full(chunk)
  BY SentAreChunks DEF PaneInv
<1>2. QED
  BY <1>1, PiecesOfChunk

\* A chunk that is received is what the pane ends with.
LEMMA ReceivedGoesBy ==
  ASSUME PaneInv, NEW live, live = NoText \/ GoesBySome(live), NEW next \in Sent
  PROVE  GoesBy(Received(live, next), next)
<1> DEFINE held == IF live.id = next.id THEN live ELSE NoText
           gap == held.seq # 0 /\ next.seq # held.seq + 1
           mark == IF gap THEN <<DroppedHere>> ELSE <<>>
<1>1. /\ Received(live, next).id = next.id /\ Received(live, next).seq = next.seq
      /\ Received(live, next).text = held.text \o mark \o Pieces(next)
  BY DEF Received
<1>2. held.text \in Seq(Int)
  <2>1. held = NoText \/ GoesBySome(held)
    OBVIOUS
  <2> HIDE DEF held
  <2>2. CASE held = NoText
    <3>1. held.text = <<>>
      BY <2>2 DEF NoText
    <3>2. QED
      BY <3>1, EmptyText
  <2>3. CASE GoesBySome(held)
    BY <2>3 DEF GoesBySome, GoesBy
  <2>4. QED
    BY <2>1, <2>2, <2>3
<1>3. mark \in Seq(Int)
  <2>1. DroppedHere \in Int /\ ~IsPiece(DroppedHere)
    BY DEF DroppedHere, IsPiece
  <2>2. mark = <<DroppedHere>> \/ mark = <<>>
    OBVIOUS
  <2> HIDE DEF mark
  <2>3. QED
    BY <2>1, <2>2, EmptyText, MarkedText
<1> HIDE DEF held, mark
<1>4. held.text \o mark \in Seq(Int)
  BY <1>2, <1>3, ConcatProperties
<1>5. Pieces(next) \in Seq(Int) /\ Pieces(next) # <<>>
  BY SentPieces
<1>6. QED
  BY <1>1, <1>4, <1>5, JoinedEnds DEF GoesBy

\* What happens to the stream takes nothing back.
LEMMA StillGoesBy ==
  ASSUME PaneInv, [StreamNext]_streamVars, NEW held, GoesBySome(held)
  PROVE  GoesBySome(held)'
<1>1. Sent \subseteq Sent'
  BY StreamBeside
<1>2. QED
  BY <1>1 DEF GoesBySome, GoesBy, LastOf

\* The server hears the next chunk, which its buffer then ends with.
LEMMA HeardGoesBy == ASSUME PaneInv, NumbersInv, HearOutput PROVE NumbersInv'
<1> DEFINE next == outputs[heard.outputs + 1]
           held == IF buffer.id = next.id THEN buffer ELSE NoBuffer
           text == held.text \o Pieces(next)
<1>1. outputs' = outputs /\ page' = page /\ [StreamNext]_streamVars
  BY DEF HearOutput, streamVars, pageVars
<1>2. /\ heard.outputs \in Nat /\ heard.outputs < Len(outputs)
      /\ heard \in [outputs : Nat, results : Nat]
      /\ Len(outputs) \in Nat /\ DOMAIN outputs = 1 .. Len(outputs)
  BY LenProperties DEF PaneInv, StreamInv, StreamTypeOK, Counts, HearOutput
<1>3. heard'.outputs = heard.outputs + 1
  BY <1>2 DEF HearOutput
<1>4. next \in Sent
  BY <1>2 DEF Sent
<1>5. /\ buffer'.id = next.id /\ buffer'.seq = next.seq
      /\ buffer'.text = Kept(text, BufferLimit)
  BY <1>3 DEF HearOutput, AppendOutput
<1>6. held.text \in Seq(Int)
  <2>1. held = NoBuffer \/ GoesBySome(held)
    BY DEF NumbersInv
  <2> HIDE DEF held
  <2>2. CASE held = NoBuffer
    <3>1. held.text = <<>>
      BY <2>2 DEF NoBuffer
    <3>2. QED
      BY <3>1, EmptyText
  <2>3. CASE GoesBySome(held)
    BY <2>3 DEF GoesBySome, GoesBy
  <2>4. QED
    BY <2>1, <2>2, <2>3
<1> HIDE DEF held, next
<1>7. Pieces(next) \in Seq(Int) /\ Pieces(next) # <<>>
  BY <1>4, SentPieces
<1>8. text \in Seq(Int) /\ text # <<>> /\ LastOf(text) = LastOf(Pieces(next))
  BY <1>6, <1>7, JoinedEnds
<1> HIDE DEF text
<1>9. /\ buffer'.text \in Seq(Int) /\ buffer'.text # <<>>
      /\ LastOf(buffer'.text) = LastOf(Pieces(next))
  BY <1>5, <1>8, KeptEnds, PaneAssumption DEF PaneAssumption
<1>10. GoesBy(buffer', next) /\ Sent' = Sent
  BY <1>1, <1>5, <1>9 DEF GoesBy, Sent
<1>11. GoesBySome(buffer)'
  BY <1>4, <1>10 DEF GoesBySome, GoesBy, LastOf
<1>12. QED
  BY <1>1, <1>11, StillGoesBy DEF NumbersInv

\* What a page is given of the buffer goes by the number the buffer does.
LEMMA SeedGoesBy ==
  ASSUME PaneInv, NumbersInv, NEW seed,
         seed = [id |-> buffer.id, seq |-> buffer.seq,
           text |-> (IF buffer.truncated THEN <<CutBefore>> ELSE <<>>) \o buffer.text]
  PROVE  seed = NoText \/ GoesBySome(seed)
<1> DEFINE cut == IF buffer.truncated THEN <<CutBefore>> ELSE <<>>
<1>1. CASE buffer = NoBuffer
  <2>1. buffer.id = 0 /\ buffer.seq = 0 /\ buffer.text = <<>> /\ cut = <<>>
    BY <1>1 DEF NoBuffer
  <2>2. seed = [id |-> 0, seq |-> 0, text |-> <<>> \o <<>>]
    BY <2>1
  <2>3. <<>> \o <<>> = <<>>
    BY EmptyText, ConcatEmptySeq
  <2>4. QED
    BY <2>2, <2>3 DEF NoText
<1>2. ASSUME NEW chunk \in Sent, GoesBy(buffer, chunk) PROVE GoesBySome(seed)
  <2>1. cut \in Seq(Int)
    BY EmptyText DEF CutBefore
  <2>2. seed.id = buffer.id /\ seed.seq = buffer.seq /\ seed.text = cut \o buffer.text
    OBVIOUS
  <2> HIDE DEF cut
  <2>3. /\ seed.text \in Seq(Int) /\ seed.text # <<>>
        /\ LastOf(seed.text) = LastOf(buffer.text)
    BY <1>2, <2>1, <2>2, JoinedEnds DEF GoesBy
  <2>4. QED
    BY <1>2, <2>2, <2>3 DEF GoesBySome, GoesBy
<1>3. buffer = NoBuffer \/ \E chunk \in Sent : GoesBy(buffer, chunk)
  BY DEF NumbersInv, GoesBySome
<1>4. QED
  BY <1>1, <1>2, <1>3

\* Every step of the page keeps its numbers and its text together.
LEMMA PageGoesBy ==
  ASSUME PaneInv, NumbersInv,
         \/ LoadPage \/ Connect \/ Disconnect
         \/ AnswerVisit \/ VisitAnswered
         \/ \E message \in deliveries : Deliver(message)
         \/ Seed \/ AnswerSeed \/ SeedAnswered
  PROVE  NumbersInv'
<1>f. page = [open |-> page.open, live |-> page.live, known |-> page.known,
              visit |-> page.visit, seed |-> page.seed]
  BY DEF PaneInv, PageFields
<1>h. /\ page.live = NoText \/ GoesBySome(page.live)
      /\ page.seed.pc = "answered" =>
           page.seed.live = NoText \/ GoesBySome(page.seed.live)
  BY DEF NumbersInv
<1>0. ASSUME serverStays,
             page'.live = NoText \/ GoesBySome(page'.live),
             page'.seed.pc = "answered" =>
               page'.seed.live = NoText \/ GoesBySome(page'.seed.live)
      PROVE  NumbersInv'
  <2>1. outputs' = outputs /\ buffer' = buffer
    BY <1>0 DEF serverStays, serverVars, streamVars
  <2>2. Sent' = Sent
    BY <2>1 DEF Sent
  <2>3. QED
    BY <1>0, <2>1, <2>2 DEF NumbersInv, GoesBySome, GoesBy, LastOf
<1>1. CASE LoadPage
  <2>1. page' = [open |-> FALSE, live |-> NoText, known |-> NoRun,
                 visit |-> [pc |-> "asked"], seed |-> NoFetch]
    BY <1>1 DEF LoadPage, NewPage
  <2>2. page'.live = NoText /\ page'.seed.pc = "none" /\ serverStays
    BY <1>1, <2>1 DEF LoadPage, NoFetch
  <2>3. QED
    BY <1>0, <2>2
<1>2. ASSUME serverStays, page'.live = page.live, page'.seed = page.seed
      PROVE  NumbersInv'
  BY <1>0, <1>2, <1>h
<1>3. CASE Connect \/ Disconnect \/ AnswerVisit \/ VisitAnswered
  <2>1. serverStays
    BY <1>3 DEF Connect, Disconnect, AnswerVisit, VisitAnswered
  <2>2. page'.live = page.live /\ page'.seed = page.seed
    BY <1>f, <1>3 DEF Connect, Disconnect, AnswerVisit, VisitAnswered
  <2>3. QED
    BY <1>2, <2>1, <2>2
<1>4. ASSUME NEW message \in deliveries, Deliver(message) PROVE NumbersInv'
  <2>1. serverStays
    BY <1>4 DEF Deliver
  <2>2. CASE /\ message \in Chunks
             /\ page' = [page EXCEPT !.live = Received(page.live, message)]
    <3>1. message \in Sent
      BY <2>2 DEF PaneInv, OnlyWhatWasSent
    <3>2. GoesBySome(Received(page.live, message))
      BY <1>h, <3>1, ReceivedGoesBy DEF GoesBySome
    <3>3. page'.live = Received(page.live, message) /\ page'.seed = page.seed
      BY <1>f, <2>2
    <3>4. QED
      BY <1>0, <1>h, <2>1, <3>2, <3>3
  <2>3. CASE page' = [page EXCEPT !.known = message]
    <3>1. page'.live = page.live /\ page'.seed = page.seed
      BY <1>f, <2>3
    <3>2. QED
      BY <1>2, <2>1, <3>1
  <2>4. QED
    BY <1>4, <2>2, <2>3 DEF Deliver
<1>5. CASE Seed
  <2>1. /\ serverStays
        /\ page' = [page EXCEPT !.seed = [pc |-> "asked", run |-> page.known.id]]
    BY <1>5 DEF Seed
  <2>2. page'.live = page.live /\ page'.seed.pc # "answered"
    BY <1>f, <2>1
  <2>3. QED
    BY <1>0, <1>h, <2>1, <2>2
<1>6. CASE AnswerSeed
  <2> DEFINE live == [id |-> buffer.id, seq |-> buffer.seq,
                      text |-> (IF buffer.truncated THEN <<CutBefore>> ELSE <<>>)
                                 \o buffer.text]
  <2>1. live = NoText \/ GoesBySome(live)
    BY SeedGoesBy
  <2>2. /\ serverStays
        /\ page' = [page EXCEPT !.seed =
             [pc |-> "answered", run |-> page.seed.run, live |-> live]]
    BY <1>6 DEF AnswerSeed
  <2> HIDE DEF live
  <2>3. page'.live = page.live /\ page'.seed.live = live
    BY <1>f, <2>2
  <2>4. QED
    BY <1>0, <1>h, <2>1, <2>2, <2>3
<1>7. CASE SeedAnswered
  <2>1. PICK live \in {page.live, page.seed.live} :
             page' = [page EXCEPT !.seed = NoFetch, !.live = live]
    BY <1>7 DEF SeedAnswered
  <2>2. serverStays /\ page.seed.pc = "answered"
    BY <1>7 DEF SeedAnswered
  <2>3. page'.live = live /\ page'.seed.pc = "none"
    BY <1>f, <2>1 DEF NoFetch
  <2>4. QED
    BY <1>0, <1>h, <2>1, <2>2, <2>3
<1>8. QED
  BY <1>1, <1>3, <1>4, <1>5, <1>6, <1>7

\* The number a text goes by is that of the chunk it ends with, in the buffer and
\* in the pane, whatever is lost, dropped or reordered on the way: the next chunk
\* is compared with what is really there.
THEOREM NumbersAreRight == PaneSpec => []NumbersMatchTexts
<1>1. PaneInit => NumbersInv
  BY DEF PaneInit, NumbersInv, NewPage, NoFetch
<1>2. PaneInv /\ NumbersInv /\ [PaneNext]_paneVars => NumbersInv'
  <2> SUFFICES ASSUME PaneInv, NumbersInv, [PaneNext]_paneVars PROVE NumbersInv'
    OBVIOUS
  <2>1. ASSUME [StreamNext]_streamVars, UNCHANGED <<buffer, page>> PROVE NumbersInv'
    BY <2>1, StillGoesBy DEF NumbersInv
  <2>2. CASE \/ StreamNext /\ UNCHANGED <<serverVars, pageVars, losses, shed>>
             \/ HearResult \/ LoseMessage \/ RelayChunk \/ RelayRecord
             \/ UNCHANGED paneVars
    <3>1. [StreamNext]_streamVars /\ UNCHANGED <<buffer, page>>
      BY <2>2 DEF HearResult, LoseMessage, RelayChunk, RelayRecord, serverVars,
         pageVars, paneVars
    <3>2. QED
      BY <2>1, <3>1
  <2>3. QED
    BY <2>2, HeardGoesBy, PageGoesBy DEF PaneNext
<1>3. NumbersInv => NumbersMatchTexts
  <2> SUFFICES ASSUME NumbersInv, NEW held \in {buffer, page.live},
                      held # NoText, held # NoBuffer
               PROVE  \E i \in DOMAIN outputs :
                        /\ outputs[i].id = held.id /\ outputs[i].seq = held.seq
                        /\ LET end == Pieces(outputs[i])
                           IN  held.text[Len(held.text)] = end[Len(end)]
    BY DEF NumbersMatchTexts
  <2>1. GoesBySome(held)
    BY DEF NumbersInv
  <2>2. QED
    BY <2>1 DEF GoesBySome, GoesBy, Sent, LastOf
<1>4. QED
  BY <1>1, <1>2, <1>3, PaneInvariant, PTL DEF PaneSpec

-----------------------------------------------------------------------------
(***************************************************************************)
(* The facts of a host, for any machines, kernels, tailnets and bounds.    *)
(***************************************************************************)

\* What the server keeps and what reaches it has its type, and nothing is
\* remembered of a host that is not stored.
RecordsTyped ==
  /\ tailnet \in TailscaleInfos
  /\ report \in Reports
  /\ store \in Systems
  /\ seenOn \in Names
  /\ handling \in [Handlers -> Handlings]
ForgottenIsUnseen == ~store.known => seenOn = NoName

\* A check-in's handler has a report, and a result's a record that was stored.
HandlersHold ==
  /\ handling["checkin"] # Idle => handling["checkin"].report # None
  /\ handling["result"] # Idle => handling["result"].read.known

MemoryInv ==
  RecordsTyped /\ ForgottenIsUnseen /\ HandlersHold /\ TailnetIsRemembered

-----------------------------------------------------------------------------

\* parseTailscaleStatus and the ladder around it return a report or nothing.
LEMMA SightsAreInfos == Sights \subseteq TailscaleInfos
<1> SUFFICES ASSUME NEW s \in Statuses, NEW c \in Statuses, NEW a \in BOOLEAN
             PROVE  TailscaleStatus(s, c, a) \in TailscaleInfos
  BY DEF Sights
<1>1. ASSUME NEW status \in Statuses
      PROVE  ParseTailscaleStatus(status) \in TailscaleInfos
  <2>1. CASE status = Unanswered
    BY <2>1 DEF Unanswered, ParseTailscaleStatus, TailscaleInfos
  <2>2. CASE status # Unanswered
    <3>1. status.running \in BOOLEAN /\ status.name \in Names
      BY <2>2 DEF Statuses
    <3>2. QED
      BY <3>1 DEF ParseTailscaleStatus, TailscaleInfos
  <2>3. QED
    BY <2>1, <2>2
<1>2. [said |-> TRUE, connected |-> TRUE, name |-> NoName] \in TailscaleInfos
  BY DEF TailscaleInfos, Names
<1>3. Silent \in TailscaleInfos
  BY DEF TailscaleInfos
<1>4. QED
  BY <1>1, <1>2, <1>3 DEF TailscaleStatus

\* What an entry, or a report, is made of.
LEMMA EntryFields ==
  ASSUME NEW e \in Entries
  PROVE  /\ e.said \in BOOLEAN
         /\ e.said => e.connected \in BOOLEAN /\ e.name \in Names /\ e.last \in Names
<1>1. CASE e = Silent
  BY <1>1 DEF Silent
<1>2. CASE e # Silent
  BY <1>2 DEF Entries
<1>3. QED
  BY <1>1, <1>2

\* What a tailscale report is made of.
LEMMA InfoFields ==
  ASSUME NEW i \in TailscaleInfos
  PROVE  /\ i.said \in BOOLEAN
         /\ i.said => i.connected \in BOOLEAN /\ i.name \in Names
<1>1. CASE i = Silent
  BY <1>1 DEF Silent
<1>2. CASE i # Silent
  BY <1>2 DEF TailscaleInfos
<1>3. QED
  BY <1>1, <1>2

\* MergeTailscale returns an entry, which remembers the tailnet of the report, or
\* failing that the one that was remembered.
LEMMA MergeRemembers ==
  ASSUME NEW previous \in Entries, NEW incoming \in TailscaleInfos,
         NEW merged, merged = MergeTailscale(previous, incoming)
  PROVE  /\ merged \in Entries
         /\ Named(incoming) => merged.said /\ merged.last = incoming.name
         /\ ~Named(incoming) /\ previous.said /\ previous.last # NoName
              => merged.said /\ merged.last = previous.last
<1>1. KnownTailnet(previous) \in Names
  BY EntryFields DEF KnownTailnet, Names
<1>2. CASE ~incoming.said /\ ~previous.said
  BY <1>2 DEF MergeTailscale, Named, Entries
<1>3. CASE incoming.said \/ previous.said
  <2>1. merged = [said |-> TRUE,
                  connected |-> incoming.said /\ incoming.connected,
                  name |-> IF incoming.said THEN incoming.name ELSE NoName,
                  last |-> IF Named(incoming) THEN incoming.name
                           ELSE KnownTailnet(previous)]
    BY <1>3 DEF MergeTailscale
  <2>2. (incoming.said /\ incoming.connected) \in BOOLEAN
    OBVIOUS
  <2>3. (IF incoming.said THEN incoming.name ELSE NoName) \in Names
    BY InfoFields DEF Names
  <2>4. (IF Named(incoming) THEN incoming.name ELSE KnownTailnet(previous)) \in Names
    BY <1>1, InfoFields DEF Named
  <2>5. merged \in Entries
    BY <2>1, <2>2, <2>3, <2>4 DEF Entries
  <2>6. merged.said
    BY <2>1
  <2>7. merged.last = IF Named(incoming) THEN incoming.name ELSE KnownTailnet(previous)
    BY <2>1
  <2>8. QED
    BY <2>5, <2>6, <2>7 DEF KnownTailnet
<1>4. QED
  BY <1>2, <1>3

\* Nothing is remembered before the first check-in.
LEMMA MemoryStarts == FactsInit => MemoryInv
<1> SUFFICES ASSUME FactsInit PROVE MemoryInv
  OBVIOUS
<1>1. handling["checkin"] = Idle /\ handling["result"] = Idle
  BY DEF FactsInit, Handlers
<1>2. HandlersHold
  BY <1>1 DEF HandlersHold
<1>3. handling \in [Handlers -> Handlings]
  BY DEF FactsInit, Handlings
<1>4. QED
  BY <1>2, <1>3 DEF FactsInit, MemoryInv, RecordsTyped, ForgottenIsUnseen,
     TailnetIsRemembered, TailscaleInfos, Reports, Systems, Names, Unknown, None,
     Silent

\* An entry remembers what it should whatever becomes of the rest.
LEMMA StoredEntry ==
  ASSUME NEW system \in Systems
  PROVE  system.tailscale \in Entries
<1>1. CASE system = Unknown
  BY <1>1 DEF Unknown, Entries
<1>2. CASE system # Unknown
  BY <1>2 DEF Systems
<1>3. QED
  BY <1>1, <1>2

\* What a handler that is at work holds.
LEMMA HandlingFields ==
  ASSUME RecordsTyped, NEW h \in Handlers, handling[h] # Idle
  PROVE  handling[h].read \in Systems /\ handling[h].report \in Reports
<1>1. handling[h] \in [busy : {TRUE}, read : Systems, report : Reports]
  BY DEF RecordsTyped, Handlings
<1>2. QED
  BY <1>1

\* A handler that begins holds the record and what it was sent.
LEMMA ReadHolds ==
  ASSUME RecordsTyped, NEW h \in Handlers, NEW facts \in Reports, Read(h, facts)
  PROVE  /\ handling' \in [Handlers -> Handlings]
         /\ handling'[h].read = store /\ handling'[h].report = facts
         /\ \A g \in Handlers \ {h} : handling'[g] = handling[g]
<1>1. [busy |-> TRUE, read |-> store, report |-> facts] \in Handlings
  BY DEF RecordsTyped, Handlings
<1>2. QED
  BY <1>1 DEF RecordsTyped, Read

\* Only the server's handlers, a deletion and the host's own reports touch what
\* is remembered.
LEMMA MemoryStays == MemoryInv /\ [FactsNext]_factsVars => MemoryInv'
<1> SUFFICES ASSUME MemoryInv, [FactsNext]_factsVars PROVE MemoryInv'
  OBVIOUS
<1> USE DEF MemoryInv
<1>0. "checkin" \in Handlers /\ "result" \in Handlers
  BY DEF Handlers
<1>1. CASE UNCHANGED <<server, report>> /\ tailnet' \in TailscaleInfos
  BY <1>1 DEF server, RecordsTyped, ForgottenIsUnseen, HandlersHold,
              TailnetIsRemembered
<1>2. CASE UNCHANGED <<server, tailnet>> /\ report' \in Reports
  BY <1>2 DEF server, RecordsTyped, ForgottenIsUnseen, HandlersHold,
              TailnetIsRemembered
<1>3. CASE SaveCheckIn
  <2> DEFINE h == handling["checkin"]
             facts == h.report
  <2>0. h # Idle /\ h.read \in Systems /\ facts \in Reports /\ facts # None
    BY <1>0, <1>3, HandlingFields DEF SaveCheckIn, HandlersHold
  <2>1. facts.tailscale \in TailscaleInfos /\ facts.need \in BOOLEAN
    BY <2>0 DEF Reports
  <2>2. h.read.tailscale \in Entries
    BY <2>0, StoredEntry
  <2>3. /\ store'.tailscale = MergeTailscale(h.read.tailscale, facts.tailscale)
        /\ store'.known
        /\ store' \in Systems
    <3>1. store' = [known |-> TRUE, need |-> facts.need, tailscale |->
                     MergeTailscale(h.read.tailscale, facts.tailscale)]
      BY <1>3 DEF SaveCheckIn, CheckedIn
    <3>2. MergeTailscale(h.read.tailscale, facts.tailscale) \in Entries
      BY <2>1, <2>2, MergeRemembers
    <3> HIDE DEF facts, h
    <3>3. QED
      BY <2>1, <3>1, <3>2 DEF Systems
  <2>4. Named(facts.tailscale) => facts.tailscale.name \in Names
    BY <2>1, InfoFields DEF Named
  <2>5. /\ seenOn' = IF Named(facts.tailscale) THEN facts.tailscale.name
                     ELSE seenOn
        /\ raced' = (~Named(facts.tailscale) /\ (raced \/ h.read # store))
        /\ handling' = [handling EXCEPT !["checkin"] = Idle]
        /\ UNCHANGED <<tailnet, report>>
    BY <1>3 DEF SaveCheckIn, host
  <2>6. RecordsTyped' /\ HandlersHold'
    <3>1. Idle \in Handlings
      BY DEF Handlings
    <3>2. handling' \in [Handlers -> Handlings]
      BY <2>5, <3>1 DEF RecordsTyped
    <3>3. seenOn' \in Names
      BY <2>4, <2>5 DEF RecordsTyped
    <3>4. handling'["checkin"] = Idle /\ handling'["result"] = handling["result"]
      BY <1>0, <2>5 DEF RecordsTyped
    <3>5. HandlersHold'
      BY <3>4 DEF HandlersHold
    <3>6. QED
      BY <2>3, <2>5, <3>2, <3>3, <3>5 DEF RecordsTyped
  <2>7. TailnetIsRemembered'
    <3>1. CASE Named(facts.tailscale)
      <4>1. seenOn' = facts.tailscale.name
        BY <2>5, <3>1
      <4> HIDE DEF facts, h
      <4>2. QED
        BY <2>1, <2>2, <2>3, <3>1, <4>1, MergeRemembers DEF TailnetIsRemembered
    <3>2. CASE ~Named(facts.tailscale)
      <4>1. seenOn' = seenOn /\ (~raced' => ~raced /\ h.read = store)
        BY <2>5, <3>2
      <4>2. ~raced /\ seenOn # NoName =>
              store.tailscale.said /\ store.tailscale.last = seenOn
        BY DEF ForgottenIsUnseen, TailnetIsRemembered
      <4> HIDE DEF facts, h
      <4>3. QED
        BY <2>1, <2>2, <2>3, <3>2, <4>1, <4>2, MergeRemembers
           DEF TailnetIsRemembered
    <3>3. QED
      BY <3>1, <3>2
  <2>8. QED
    BY <2>3, <2>6, <2>7 DEF ForgottenIsUnseen
<1>4. CASE DeleteSystem
  BY <1>4 DEF DeleteSystem, host, RecordsTyped, ForgottenIsUnseen, HandlersHold,
              TailnetIsRemembered, Systems, Unknown, Names
<1>16. CASE SaveResult
  <2> DEFINE h == handling["result"]
  <2>1. /\ h # Idle /\ store' = h.read /\ raced' = (raced \/ h.read # store)
        /\ handling' = [handling EXCEPT !["result"] = Idle]
        /\ UNCHANGED <<tailnet, report, seenOn>>
    BY <1>16 DEF SaveResult, host
  <2>2. h.read \in Systems /\ h.read.known
    BY <1>0, <2>1, HandlingFields DEF HandlersHold
  <2>3. RecordsTyped' /\ HandlersHold'
    <3>1. Idle \in Handlings
      BY DEF Handlings
    <3>2. handling' \in [Handlers -> Handlings]
      BY <2>1, <3>1 DEF RecordsTyped
    <3>3. handling'["result"] = Idle /\ handling'["checkin"] = handling["checkin"]
      BY <1>0, <2>1 DEF RecordsTyped
    <3>4. HandlersHold'
      BY <3>3 DEF HandlersHold
    <3>5. QED
      BY <2>1, <2>2, <3>2, <3>4 DEF RecordsTyped
  <2>4. ForgottenIsUnseen'
    BY <2>1, <2>2 DEF ForgottenIsUnseen
  <2>5. ~raced' => ~raced /\ store' = store
    BY <2>1
  <2>6. TailnetIsRemembered'
    BY <2>1, <2>5 DEF TailnetIsRemembered
  <2>7. QED
    BY <2>3, <2>4, <2>6
<1>17. CASE ReadForCheckIn
  <2>1. /\ report \in Reports /\ report # None /\ Read("checkin", report)
        /\ report' = None /\ UNCHANGED <<tailnet, store, raced, seenOn>>
    BY <1>17 DEF ReadForCheckIn, RecordsTyped, None, host
  <2>2. /\ handling' \in [Handlers -> Handlings]
        /\ handling'["checkin"].report = report
        /\ handling'["result"] = handling["result"]
    BY <1>0, <2>1, ReadHolds
  <2>3. HandlersHold'
    BY <2>1, <2>2 DEF HandlersHold
  <2>4. RecordsTyped'
    BY <2>1, <2>2 DEF RecordsTyped, Reports
  <2>5. QED
    BY <2>1, <2>3, <2>4 DEF ForgottenIsUnseen, TailnetIsRemembered
<1>18. CASE ReadForResult
  <2>1. /\ store.known /\ None \in Reports /\ Read("result", None)
        /\ UNCHANGED <<tailnet, report, store, raced, seenOn>>
    BY <1>18 DEF ReadForResult, Reports, host
  <2>2. /\ handling' \in [Handlers -> Handlings]
        /\ handling'["result"].read = store
        /\ handling'["checkin"] = handling["checkin"]
    BY <1>0, <2>1, ReadHolds
  <2>3. HandlersHold'
    BY <2>1, <2>2 DEF HandlersHold
  <2>4. RecordsTyped'
    BY <2>1, <2>2 DEF RecordsTyped
  <2>5. QED
    BY <2>1, <2>3, <2>4 DEF ForgottenIsUnseen, TailnetIsRemembered
<1>19. CASE \E h \in Handlers : FailSave(h)
  <2>1. PICK h \in Handlers : FailSave(h)
    BY <1>19
  <2>2. /\ handling' = [handling EXCEPT ![h] = Idle]
        /\ UNCHANGED <<tailnet, report, store, raced, seenOn>>
    BY <2>1 DEF FailSave, host
  <2>3. Idle \in Handlings
    BY DEF Handlings
  <2>4. /\ handling' \in [Handlers -> Handlings]
        /\ \A g \in Handlers : handling'[g] \in {handling[g], Idle}
    BY <2>2, <2>3 DEF RecordsTyped
  <2>5. HandlersHold'
    BY <1>0, <2>4 DEF HandlersHold
  <2>6. QED
    BY <2>2, <2>4, <2>5 DEF RecordsTyped, ForgottenIsUnseen, TailnetIsRemembered
<1>5. CASE \/ \E k \in DOMAIN Kernels : InstallKernel(k)
           \/ \E i \in DOMAIN installed : RemoveKernel(i)
  BY <1>1, <1>5 DEF InstallKernel, RemoveKernel, RecordsTyped
<1>6. CASE \E k \in DOMAIN Kernels : Boot(k)
  BY <1>2, <1>6 DEF Boot, RecordsTyped, Reports, None
<1>7. CASE InstallLibraries
  BY <1>1, <1>7 DEF InstallLibraries, RecordsTyped
<1>8. CASE \E seen \in Sights : TailscaleChanges(seen)
  BY <1>1, <1>8, SightsAreInfos DEF TailscaleChanges
<1>9. CASE \E exit \in Outcomes : Decide(exit)
  BY <1>1, <1>9 DEF Decide, host, RecordsTyped
<1>10. CASE \E exit \in Outcomes : Collect(exit)
  <2>1. PICK exit \in Outcomes : Collect(exit)
    BY <1>10
  <2>2. LinuxRebootRequired(exit) \in BOOLEAN
    BY DEF LinuxRebootRequired, KernelRebootNeeded
  <2>3. report' \in Reports
    BY <2>1, <2>2 DEF Collect, RecordsTyped, Reports
  <2>4. QED
    BY <1>2, <2>1, <2>3 DEF Collect, host
<1>11. CASE PublishCheckIn \/ Lose
  BY <1>2, <1>11 DEF PublishCheckIn, Lose, host, RecordsTyped, Reports, None
<1>12. CASE \E group \in Groups : ResolveGroup(group)
  BY <1>1, <1>12 DEF ResolveGroup, host, RecordsTyped
<1>13. CASE Attempt
  BY <1>1, <1>13 DEF Attempt, host, RecordsTyped
<1>14. CASE UNCHANGED factsVars
  BY <1>1, <1>14 DEF factsVars, host, RecordsTyped
<1>15. QED
  BY <1>3, <1>4, <1>5, <1>6, <1>7, <1>8, <1>9, <1>10, <1>11, <1>12, <1>13,
     <1>14, <1>16, <1>17, <1>18, <1>19 DEF FactsNext

\* A host seen on a tailnet is shown with the last one it was seen on for as long
\* as its record is kept (MergeTailscale, called from the check-in handler), and
\* no handler saves over a record that it did not read; after one that does, from
\* the next time it is seen on a tailnet.
THEOREM TailnetRemembered == FactsSpec => []TailnetIsRemembered
<1>1. MemoryInv => TailnetIsRemembered
  BY DEF MemoryInv
<1>2. QED
  BY MemoryStarts, MemoryStays, <1>1, PTL DEF FactsSpec

-----------------------------------------------------------------------------
(***************************************************************************)
(* The kernel ladder.                                                      *)
(***************************************************************************)

\* The numbers are well founded, as a set of pairs.
LEMMA LessIsWellFounded ==
  \E R : IsWellFoundedOn(R, Nat) /\ \A x, y \in Nat : x < y => <<x, y>> \in R
<1>1. \A x, y \in Nat : x < y => <<x, y>> \in OpToRel(<, Nat)
  BY Zenon DEF OpToRel
<1> QED
  BY <1>1, NatLessThanWellFounded, Zenon

\* Every set of numbers has a least one: the induction the loops below need.
LEMMA LeastNumber ==
  ASSUME NEW T \in SUBSET Nat, T # {}
  PROVE  \E n \in T : \A m \in T : n <= m
<1>1. PICK R : /\ IsWellFoundedOn(R, Nat)
               /\ \A x, y \in Nat : x < y => <<x, y>> \in R
  BY LessIsWellFounded, Zenon
<1>2. T \subseteq Nat
  OBVIOUS
<1>3. IsWellFoundedOn(R, Nat)
  BY <1>1, Zenon
<1>4. \E x \in T : \A y \in T : ~ (<<y, x>> \in R)
  BY <1>3, <1>2, WFMin, Zenon
<1>5. PICK x \in T : \A y \in T : ~ (<<y, x>> \in R)
  BY <1>4, Zenon
<1>6. \A y \in T : ~ (y < x)
  BY <1>1, <1>2, <1>5, Zenon
<1>7. \A y \in T : y \in Nat /\ x \in Nat
  BY <1>2
<1> QED
  BY <1>6, <1>7

\* One step of NewestVersion's loop over the kernels.
NewerOf(newest, kernel) ==
  IF newest = NoKernel \/ Compared[kernel, newest] > 0 THEN kernel ELSE newest

\* The loop can be run over any number of the kernels.
LEMMA LoopRuns ==
  ASSUME NEW kernels
  PROVE  \A n \in Nat :
           \E newest : newest =
             [i \in 0 .. n |-> IF i = 0 THEN NoKernel
                               ELSE NewerOf(newest[i - 1], kernels[i])]
<1> DEFINE runs(n) == \E newest : newest =
             [i \in 0 .. n |-> IF i = 0 THEN NoKernel
                               ELSE NewerOf(newest[i - 1], kernels[i])]
           stuck == {n \in Nat : ~runs(n)}
<1>1. SUFFICES ASSUME stuck # {} PROVE FALSE
  OBVIOUS
<1>2. PICK n \in stuck : \A m \in stuck : n <= m
  <2>1. stuck \in SUBSET Nat
    OBVIOUS
  <2> HIDE DEF stuck
  <2> QED
    BY <1>1, <2>1, LeastNumber
<1>3. n \in Nat /\ ~runs(n)
  OBVIOUS
<1>4. n # 0
  <2>1. SUFFICES ASSUME n = 0 PROVE runs(0)
    BY <1>3
  <2> DEFINE f == [i \in 0 .. 0 |-> NoKernel]
  <2>2. f = [i \in 0 .. 0 |-> IF i = 0 THEN NoKernel
                              ELSE NewerOf(f[i - 1], kernels[i])]
    OBVIOUS
  <2> QED
    BY <2>2
<1>5. runs(n - 1)
  <2>1. n - 1 \in Nat /\ ~ (n <= n - 1)
    BY <1>3, <1>4
  <2>2. n - 1 \notin stuck
    BY <1>2, <2>1, Zenon
  <2> QED
    BY <2>1, <2>2, Zenon
<1>6. PICK g : g = [i \in 0 .. (n - 1) |-> IF i = 0 THEN NoKernel
                                       ELSE NewerOf(g[i - 1], kernels[i])]
  BY <1>5
<1> DEFINE f == [i \in 0 .. n |-> IF i = n THEN NewerOf(g[n - 1], kernels[n])
                                 ELSE g[i]]
<1>7. f = [i \in 0 .. n |-> IF i = 0 THEN NoKernel
                            ELSE NewerOf(f[i - 1], kernels[i])]
  <2>1. ASSUME NEW i \in 0 .. n
        PROVE  f[i] = IF i = 0 THEN NoKernel ELSE NewerOf(f[i - 1], kernels[i])
    <3>1. CASE i = 0
      BY <1>3, <1>4, <1>6, <3>1
    <3>2. CASE i = n
      <4>1. f[n - 1] = g[n - 1] /\ f[n] = NewerOf(g[n - 1], kernels[n])
        BY <1>3, <1>4
      <4> HIDE DEF f
      <4> QED
        BY <1>4, <3>2, <4>1
    <3>3. CASE i # 0 /\ i # n
      <4>1. i \in 0 .. (n - 1) /\ i - 1 \in 0 .. n /\ i - 1 # n
        BY <1>3, <3>3
      <4>2. f[i] = g[i] /\ f[i - 1] = g[i - 1]
        BY <3>3, <4>1
      <4> HIDE DEF f
      <4>3. g[i] = NewerOf(g[i - 1], kernels[i])
        BY <1>6, <3>3, <4>1
      <4> QED
        BY <3>3, <4>2, <4>3
    <3> QED
      BY <3>1, <3>2, <3>3
  <2>2. DOMAIN f = 0 .. n /\ f = [i \in DOMAIN f |-> f[i]]
    OBVIOUS
  <2> HIDE DEF f
  <2> QED
    BY <2>1, <2>2
<1>8. runs(n)
  <2> HIDE DEF f
  <2> QED
    BY <1>7
<1> QED
  BY <1>3, <1>8

\* NewestVersion is the value of the loop after the last kernel.
LEMMA NewestIsLast ==
  ASSUME NEW kernels, Len(kernels) \in Nat
  PROVE  \E newest :
           /\ newest = [i \in 0 .. Len(kernels) |->
                          IF i = 0 THEN NoKernel
                          ELSE NewerOf(newest[i - 1], kernels[i])]
           /\ NewestVersion(kernels) = newest[Len(kernels)]
<1> DEFINE n == Len(kernels)
           newest == CHOOSE newest : newest =
             [i \in 0 .. n |->
                IF i = 0 THEN NoKernel
                ELSE IF \/ newest[i - 1] = NoKernel
                        \/ Compared[kernels[i], newest[i - 1]] > 0
                THEN kernels[i] ELSE newest[i - 1]]
<1>1. NewestVersion(kernels) = newest[n]
  BY DEF NewestVersion
<1>2. newest = [i \in 0 .. n |->
                  IF i = 0 THEN NoKernel
                  ELSE NewerOf(newest[i - 1], kernels[i])]
  <2>1. \E f : f = [i \in 0 .. n |->
                     IF i = 0 THEN NoKernel ELSE NewerOf(f[i - 1], kernels[i])]
    BY LoopRuns
  <2> HIDE DEF n
  <2> QED
    BY <2>1 DEF NewerOf
<1> HIDE DEF newest
<1> QED
  BY <1>1, <1>2

\* NewestVersion returns one of the kernels.
LEMMA NewestIsInstalled ==
  ASSUME NEW kernels \in Seq(DOMAIN Kernels), kernels # <<>>
  PROVE  NewestVersion(kernels) \in Range(kernels)
<1> DEFINE n == Len(kernels)
<1>1. n \in Nat \ {0} /\ DOMAIN kernels = 1 .. n
  BY EmptySeq, LenProperties
<1>2. PICK newest :
        /\ newest = [i \in 0 .. n |->
                       IF i = 0 THEN NoKernel
                       ELSE NewerOf(newest[i - 1], kernels[i])]
        /\ NewestVersion(kernels) = newest[n]
  BY <1>1, NewestIsLast
<1> HIDE DEF n
<1>3. newest = [i \in 0 .. n |->
                  IF i = 0 THEN NoKernel ELSE NewerOf(newest[i - 1], kernels[i])]
  BY <1>2
<1> DEFINE astray == {i \in Nat : i \in 1 .. n /\ newest[i] \notin Range(kernels)}
<1>4. astray = {}
  <2>1. SUFFICES ASSUME astray # {} PROVE FALSE
    OBVIOUS
  <2>2. PICK i \in astray : \A j \in astray : i <= j
    <3>1. astray \in SUBSET Nat
      OBVIOUS
    <3> HIDE DEF astray
    <3> QED
      BY <2>1, <3>1, LeastNumber
  <2>3. i \in 1 .. n /\ newest[i] \notin Range(kernels)
    OBVIOUS
  <2>4. newest[i] = NewerOf(newest[i - 1], kernels[i])
    BY <1>1, <1>3, <2>3
  <2>5. kernels[i] \in Range(kernels)
    BY <1>1, <2>3 DEF Range
  <2>6. newest[i - 1] = NoKernel \/ newest[i - 1] \in Range(kernels)
    <3>1. CASE i = 1
      BY <1>1, <1>3, <3>1
    <3>2. CASE i # 1
      <4>1. i - 1 \in 1 .. n /\ i - 1 \in Nat /\ ~ (i <= i - 1)
        BY <1>1, <2>3, <3>2
      <4>2. i - 1 \notin astray
        BY <2>2, <4>1, Zenon
      <4> QED
        BY <4>1, <4>2
    <3> QED
      BY <3>1, <3>2
  <2> QED
    BY <2>3, <2>4, <2>5, <2>6 DEF NewerOf
<1>5. NewestVersion(kernels) = newest[n]
  BY <1>2
<1>6. n \in Nat /\ n \in 1 .. n
  BY <1>1
<1> QED
  BY <1>4, <1>5, <1>6

\* The kernel that runs is one of those installed.
KernelsInv ==
  /\ installed \in Seq(DOMAIN Kernels)
  /\ running \in Range(installed)

\* An installed kernel comes last, and none is lost.
LEMMA AppendedKernel ==
  ASSUME NEW kernels \in Seq(DOMAIN Kernels), NEW k \in DOMAIN Kernels
  PROVE  /\ Append(kernels, k) \in Seq(DOMAIN Kernels)
         /\ Range(kernels) \subseteq Range(Append(kernels, k))
<1>1. /\ Append(kernels, k) \in Seq(DOMAIN Kernels)
      /\ DOMAIN Append(kernels, k) = 1 .. Len(kernels) + 1
      /\ \A i \in 1 .. Len(kernels) : Append(kernels, k)[i] = kernels[i]
  BY AppendProperties
<1>2. DOMAIN kernels = 1 .. Len(kernels) /\ Len(kernels) \in Nat
  BY LenProperties
<1> QED
  BY <1>1, <1>2 DEF Range

\* Removing a kernel removes no other.
LEMMA RemovedKernel ==
  ASSUME NEW kernels \in Seq(DOMAIN Kernels), NEW i \in DOMAIN kernels
  PROVE  /\ RemoveAt(kernels, i) \in Seq(DOMAIN Kernels)
         /\ \A k \in Range(kernels) :
              k # kernels[i] => k \in Range(RemoveAt(kernels, i))
<1> DEFINE n == Len(kernels)
           before == SubSeq(kernels, 1, i - 1)
           after == SubSeq(kernels, i + 1, n)
<1>1. n \in Nat /\ DOMAIN kernels = 1 .. n /\ i \in 1 .. n
  BY LenProperties
<1>2. /\ before \in Seq(DOMAIN Kernels) /\ Len(before) = i - 1
      /\ \A j \in 1 .. (i - 1) : before[j] = kernels[j]
  <2>1. \A j \in 1 .. (i - 1) : j \in DOMAIN kernels
    BY <1>1
  <2> QED
    BY <1>1, <2>1, SubSeqProperties
<1>3. /\ after \in Seq(DOMAIN Kernels) /\ Len(after) = n - i
      /\ \A j \in 1 .. (n - i) : after[j] = kernels[i + j]
  <2>1. \A j \in (i + 1) .. n : j \in DOMAIN kernels
    BY <1>1
  <2> QED
    BY <1>1, <2>1, SubSeqProperties
<1>4. RemoveAt(kernels, i) = before \o after
  BY DEF RemoveAt
<1> HIDE DEF before, after, n
<1>5. before \o after \in Seq(DOMAIN Kernels)
  BY <1>2, <1>3, ConcatProperties
<1>6. /\ Len(before \o after) = n - 1
      /\ DOMAIN (before \o after) = 1 .. (n - 1)
      /\ \A j \in 1 .. (i - 1) : (before \o after)[j] = before[j]
      /\ \A j \in i .. (n - 1) : (before \o after)[j] = after[j - (i - 1)]
  <2>1. /\ Len(before \o after) = Len(before) + Len(after)
        /\ DOMAIN (before \o after) = 1 .. Len(before) + Len(after)
        /\ \A j \in 1 .. Len(before) + Len(after) :
             (before \o after)[j] = IF j <= Len(before) THEN before[j]
                                    ELSE after[j - Len(before)]
    <3>1. /\ Len(before \o after) = Len(before) + Len(after)
          /\ \A j \in 1 .. Len(before) + Len(after) :
               (before \o after)[j] = IF j <= Len(before) THEN before[j]
                                      ELSE after[j - Len(before)]
      BY <1>2, <1>3, ConcatProperties
    <3>2. DOMAIN (before \o after) = 1 .. Len(before \o after)
      BY <1>5, LenProperties
    <3> QED
      BY <3>1, <3>2
  <2>2. i \in Nat /\ Len(before) = i - 1 /\ Len(before) + Len(after) = n - 1
    BY <1>1, <1>2, <1>3
  <2> QED
    BY <1>1, <2>1, <2>2
<1>7. ASSUME NEW j \in 1 .. n, kernels[j] # kernels[i]
      PROVE  kernels[j] \in Range(before \o after)
  <2>1. CASE j < i
    <3>1. j \in 1 .. (i - 1) /\ j \in 1 .. (n - 1)
      BY <1>1, <2>1
    <3>2. (before \o after)[j] = kernels[j]
      BY <1>2, <1>6, <3>1
    <3> QED
      BY <1>6, <3>1, <3>2 DEF Range
  <2>2. CASE j > i
    <3>1. /\ j - 1 \in i .. (n - 1) /\ j - 1 \in 1 .. (n - 1)
          /\ j - i \in 1 .. (n - i) /\ (j - 1) - (i - 1) = j - i /\ i + (j - i) = j
      BY <1>1, <2>2
    <3>2. (before \o after)[j - 1] = after[(j - 1) - (i - 1)]
      BY <1>6, <3>1
    <3>3. after[j - i] = kernels[i + (j - i)]
      BY <1>3, <3>1
    <3>4. (before \o after)[j - 1] = kernels[j]
      BY <3>1, <3>2, <3>3
    <3> QED
      BY <1>6, <3>1, <3>4 DEF Range
  <2> QED
    BY <1>1, <1>7, <2>1, <2>2
<1> QED
  BY <1>1, <1>4, <1>5, <1>7 DEF Range, n

\* The running kernel is installed at first.
LEMMA KernelsStart == FactsInit => KernelsInv
<1> SUFFICES ASSUME FactsInit PROVE KernelsInv
  OBVIOUS
<1>1. PICK k \in DOMAIN Kernels : running = k /\ installed = <<k>>
  BY DEF FactsInit
<1>2. installed \in Seq(DOMAIN Kernels)
  BY <1>1
<1>3. running = installed[1] /\ 1 \in DOMAIN installed
  BY <1>1
<1> QED
  BY <1>2, <1>3 DEF KernelsInv, Range

\* The running kernel stays installed, whatever is installed or removed.
LEMMA KernelsStay == KernelsInv /\ [FactsNext]_factsVars => KernelsInv'
<1> SUFFICES ASSUME KernelsInv, [FactsNext]_factsVars PROVE KernelsInv'
  OBVIOUS
<1> USE DEF KernelsInv
<1>1. CASE UNCHANGED <<installed, running>>
  BY <1>1
<1>2. ASSUME NEW k \in DOMAIN Kernels, InstallKernel(k)
      PROVE  KernelsInv'
  BY <1>2, AppendedKernel DEF InstallKernel
<1>3. ASSUME NEW k \in DOMAIN Kernels, Boot(k)
      PROVE  KernelsInv'
  BY <1>3 DEF Boot
<1>4. ASSUME NEW i \in DOMAIN installed, RemoveKernel(i)
      PROVE  KernelsInv'
  BY <1>4, RemovedKernel DEF RemoveKernel
<1>5. CASE InstallLibraries \/ \E seen \in Sights : TailscaleChanges(seen)
  BY <1>1, <1>5 DEF InstallLibraries, TailscaleChanges
<1>6. CASE \E exit \in Outcomes : Decide(exit) \/ Collect(exit)
  BY <1>1, <1>6 DEF Decide, Collect, host
<1>7. CASE PublishCheckIn \/ Lose \/ SaveCheckIn \/ DeleteSystem
  BY <1>1, <1>7 DEF PublishCheckIn, Lose, SaveCheckIn, DeleteSystem, host
<1>10. CASE \/ ReadForCheckIn \/ ReadForResult \/ SaveResult
            \/ \E h \in Handlers : FailSave(h)
  BY <1>1, <1>10 DEF ReadForCheckIn, ReadForResult, SaveResult, FailSave, host
<1>8. CASE Attempt \/ \E group \in Groups : ResolveGroup(group)
  BY <1>1, <1>8 DEF Attempt, ResolveGroup, host
<1>9. CASE UNCHANGED factsVars
  BY <1>1, <1>9 DEF factsVars, host
<1> QED
  BY <1>2, <1>3, <1>4, <1>5, <1>6, <1>7, <1>8, <1>9, <1>10 DEF FactsNext

\* The kernels are named in the order of their release: what compares as a newer
\* version was released later.
KernelsInOrder ==
  \A k, l \in DOMAIN Kernels : Compared[k, l] > 0 => k > l

\* The ladder says yes only where something was installed that the system that
\* runs lacks, or by one of the two answers that are none.
LEMMA LadderIsRight ==
  ASSUME KernelsInv, KernelsInOrder, NEW exit \in Outcomes,
         LinuxRebootRequired(exit)
  PROVE  Due \/ Doubtful(exit)
<1>1. CASE stale
  BY <1>1 DEF Due
<1>2. CASE ~stale /\ ~Doubtful(exit)
  <2>1. exit["zypper"] # 102
    <3>1. "zypper" \in DOMAIN Works /\ Works["zypper"] = 0
      BY <1>2 DEF Works
    <3>2. exit["zypper"] \in Exits("zypper") \/ exit = Works
      BY <3>1 DEF Outcomes
    <3> QED
      BY <3>1, <3>2 DEF Exits, Killed
  <2>2. KernelRebootNeeded /\ ~Answers("zypper", exit)
    BY <1>2, <2>1 DEF LinuxRebootRequired, Doubtful
  <2>3. installed # <<>>
    BY DEF KernelsInv, Range
  <2>4. NewestVersion(installed) \in Range(installed)
    BY <2>3, NewestIsInstalled DEF KernelsInv
  <2>5. Range(installed) \subseteq DOMAIN Kernels
    BY ElementOfSeq DEF KernelsInv, Range
  <2>6. Compared[NewestVersion(installed), running] > 0
    <3>1. ~Suse
      BY <1>2, <2>2 DEF Doubtful
    <3> QED
      BY <2>2, <3>1, Zenon DEF KernelRebootNeeded, ComparedToRunning
  <2>7. running \in DOMAIN Kernels /\ NewestVersion(installed) \in DOMAIN Kernels
    BY <2>4, <2>5 DEF KernelsInv
  <2>8. NewestVersion(installed) > running
    BY <2>6, <2>7, Zenon DEF KernelsInOrder
  <2> QED
    BY <2>4, <2>8 DEF Due, NewerKernel
<1> QED
  BY <1>1, <1>2

\* "any uncertainty ... yields false": a host only goes down for a reboot that is
\* due to it, whatever the record said that put it in the group, provided that
\* the versions of its kernels compare as they were released; the two answers
\* apart that say yes when they should not.
THEOREM SettledAreSpared == KernelsInOrder => (FactsSpec => SparesTheSettled)
<1> SUFFICES ASSUME KernelsInOrder PROVE FactsSpec => SparesTheSettled
  OBVIOUS
<1> DEFINE Spares == request = "sent" /\ request' = "accepted" => Due \/ excused'
<1>1. ASSUME KernelsInv, [FactsNext]_factsVars
      PROVE  [Spares]_factsVars
  <2>1. SUFFICES ASSUME FactsNext, request = "sent", request' = "accepted"
                 PROVE  Due \/ excused'
    BY <1>1
  <2>2. PICK exit \in Outcomes : Decide(exit)
    BY <2>1 DEF FactsNext, InstallKernel, Boot, RemoveKernel, InstallLibraries,
                TailscaleChanges, Collect, PublishCheckIn, Lose,
                ReadForCheckIn, ReadForResult, SaveCheckIn, SaveResult, FailSave,
                DeleteSystem, ResolveGroup, Attempt, grant
  <2>3. /\ LinuxRebootRequired(exit)
        /\ excused' = Doubtful(exit)
    BY <2>1, <2>2 DEF Decide, MayReboot
  <2> QED
    BY <1>1, <2>3, LadderIsRight
<1> QED
  BY KernelsStart, KernelsStay, <1>1, PTL DEF FactsSpec, SparesTheSettled

\* The kernels are numbered in the order of their release, and the later of two
\* compares as newer: none is renamed on the way, and no two count as the same.
KernelsRanked ==
  /\ DOMAIN Kernels \subseteq Nat \ {0}
  /\ \A k, l \in DOMAIN Kernels : Compared[k, l] > 0 <=> k > l

\* NewestVersion then returns none that has a later one beside it.
LEMMA NewestIsLatest ==
  ASSUME KernelsRanked, NEW kernels \in Seq(DOMAIN Kernels),
         NEW k \in Range(kernels)
  PROVE  k <= NewestVersion(kernels)
<1> DEFINE n == Len(kernels)
<1>1. n \in Nat /\ DOMAIN kernels = 1 .. n
  BY LenProperties
<1>2. PICK newest :
        /\ newest = [i \in 0 .. n |->
                       IF i = 0 THEN NoKernel
                       ELSE NewerOf(newest[i - 1], kernels[i])]
        /\ NewestVersion(kernels) = newest[n]
  BY <1>1, NewestIsLast
<1>3. \A i \in 1 .. n : kernels[i] \in DOMAIN Kernels
  BY ElementOfSeq
<1> HIDE DEF n
<1>4. newest = [i \in 0 .. n |->
                  IF i = 0 THEN NoKernel ELSE NewerOf(newest[i - 1], kernels[i])]
  BY <1>2
<1>5. DOMAIN Kernels \subseteq Nat \ {0}
  BY DEF KernelsRanked
<1> DEFINE latest(m, i) ==
             m \in DOMAIN Kernels /\ \A j \in 1 .. i : kernels[j] <= m
           astray == {i \in Nat : i \in 1 .. n /\ ~latest(newest[i], i)}
<1>6. astray = {}
  <2>1. SUFFICES ASSUME astray # {} PROVE FALSE
    OBVIOUS
  <2>2. PICK i \in astray : \A j \in astray : i <= j
    <3>1. astray \in SUBSET Nat
      OBVIOUS
    <3> HIDE DEF astray
    <3> QED
      BY <2>1, <3>1, LeastNumber
  <2>3. i \in 1 .. n /\ ~latest(newest[i], i)
    OBVIOUS
  <2>4. newest[i] = NewerOf(newest[i - 1], kernels[i])
    BY <1>1, <1>4, <2>3
  <2>5. kernels[i] \in DOMAIN Kernels
    BY <1>3, <2>3
  <2>6. CASE i = 1
    <3>1. newest[0] = NoKernel
      BY <1>1, <1>4
    <3>2. newest[i] = kernels[i]
      BY <2>4, <2>6, <3>1 DEF NewerOf
    <3>3. kernels[i] \in Nat /\ \A j \in 1 .. i : j = i
      BY <1>5, <2>5, <2>6
    <3>4. \A j \in 1 .. i : kernels[j] <= kernels[i]
      BY <3>3
    <3> QED
      BY <2>3, <2>5, <3>2, <3>4
  <2>7. CASE i # 1
    <3> DEFINE m == newest[i - 1]
               k0 == kernels[i]
    <3>1. i - 1 \in 1 .. n /\ i - 1 \in Nat /\ ~ (i <= i - 1)
      BY <1>1, <2>3, <2>7
    <3>2. latest(m, i - 1)
      <4>1. i - 1 \notin astray
        BY <2>2, <3>1, Zenon
      <4> QED
        BY <3>1, <4>1
    <3>3. m \in Nat \ {0} /\ k0 \in Nat \ {0} /\ m # NoKernel
      BY <1>5, <2>5, <3>2 DEF NoKernel
    <3>4. Compared[k0, m] > 0 <=> k0 > m
      BY <2>5, <3>2 DEF KernelsRanked
    <3>5. \A j \in 1 .. i : kernels[j] \in Nat /\ (j = i \/ j \in 1 .. (i - 1))
      BY <1>1, <1>3, <1>5, <2>3
    <3>6. newest[i] = IF Compared[k0, m] > 0 THEN k0 ELSE m
      BY <2>4, <3>3, Zenon DEF NewerOf
    <3>7. newest[i] = IF k0 > m THEN k0 ELSE m
      BY <3>4, <3>6, Zenon
    <3>8. newest[i] \in DOMAIN Kernels
      BY <2>5, <3>2, <3>7
    <3>9. ASSUME NEW j \in 1 .. i PROVE kernels[j] <= newest[i]
      <4>1. kernels[j] = k0 \/ kernels[j] <= m
        BY <3>2, <3>5
      <4> HIDE DEF m, k0
      <4> QED
        BY <3>3, <3>5, <3>7, <4>1
    <3> QED
      BY <2>3, <3>8, <3>9
  <2> QED
    BY <2>6, <2>7
<1>7. PICK i \in 1 .. n : k = kernels[i]
  BY <1>1 DEF Range
<1>8. n \in 1 .. n /\ n \in Nat
  BY <1>1, <1>7
<1>9. latest(newest[n], n)
  BY <1>6, <1>8
<1> QED
  BY <1>2, <1>7, <1>9

\* When its tools work, the host says that it needs a reboot if one is due to it
\* that they can tell, and says so of no other host: between the two lies only
\* what a host without the tool for it cannot see.
LEMMA LadderIsComplete ==
  ASSUME KernelsInv, KernelsRanked
  PROVE  /\ Noticeable => LinuxRebootRequired(Works)
         /\ LinuxRebootRequired(Works) => Due
<1>1. /\ DOMAIN Works = {"needs-restarting", "zypper"}
      /\ Works["needs-restarting"] = (IF stale THEN 1 ELSE 0)
      /\ Works["zypper"] = (IF stale THEN 102 ELSE 0)
  BY DEF Works
<1>2. ASSUME stale, machine.tools \cap {"flag", "needs-restarting", "zypper"} # {}
      PROVE  LinuxRebootRequired(Works)
  BY <1>1, <1>2 DEF LinuxRebootRequired, Answers, Killed
<1>3. ASSUME machine.tools = {"rpm"}, NewerKernel
      PROVE  LinuxRebootRequired(Works)
  <2>1. PICK k \in Range(installed) : k > running
    BY <1>3 DEF NewerKernel
  <2>2. k <= NewestVersion(installed)
    BY NewestIsLatest DEF KernelsInv
  <2>3. NewestVersion(installed) \in DOMAIN Kernels
    <3>1. installed # <<>>
      BY DEF KernelsInv, Range
    <3>2. NewestVersion(installed) \in Range(installed)
      BY <3>1, NewestIsInstalled DEF KernelsInv
    <3> QED
      BY <3>2, ElementOfSeq DEF KernelsInv, Range
  <2>4. k \in DOMAIN Kernels /\ running \in DOMAIN Kernels
    BY ElementOfSeq DEF KernelsInv, Range
  <2>5. NewestVersion(installed) > running
    <3>1. /\ NewestVersion(installed) \in Nat
          /\ k \in Nat /\ running \in Nat
      BY <2>3, <2>4 DEF KernelsRanked
    <3> QED
      BY <2>1, <2>2, <3>1
  <2>6. Compared[NewestVersion(installed), running] > 0
    BY <2>3, <2>4, <2>5, Zenon DEF KernelsRanked
  <2>7. KernelRebootNeeded
    <3>1. ~Suse /\ "rpm" \in machine.tools
      BY <1>3 DEF Suse
    <3>2. ComparedToRunning(NewestVersion(installed)) > 0
      BY <2>6, <3>1, Zenon DEF ComparedToRunning
    <3> QED
      BY <3>1, <3>2, Zenon DEF KernelRebootNeeded
  <2> QED
    BY <1>3, <2>7 DEF LinuxRebootRequired, Answers
<1>4. ASSUME LinuxRebootRequired(Works) PROVE Due
  <2>1. Works \in Outcomes
    <3>1. \A tool \in DOMAIN Works : Works[tool] \in {0, 1, 102, Killed}
      BY <1>1 DEF Killed
    <3>2. Works = [tool \in DOMAIN Works |-> Works[tool]]
      BY DEF Works
    <3>3. Works \in [DOMAIN Works -> {0, 1, 102, Killed}]
      BY <3>1, <3>2
    <3>4. \A tool \in DOMAIN Works : Works[tool] \in Exits(tool)
      BY DEF Exits
    <3> QED
      BY <3>3, <3>4 DEF Outcomes
  <2>2. KernelsInOrder
    BY DEF KernelsInOrder, KernelsRanked
  <2>3. ~Doubtful(Works)
    BY <1>1 DEF Doubtful, Suse, Answers, Killed
  <2> QED
    BY <1>4, <2>1, <2>2, <2>3, LadderIsRight
<1> QED
  BY <1>2, <1>3, <1>4 DEF Noticeable

\* "needs-reboot" in both directions: a host whose tools work and can tell that a
\* reboot is due says so in its next check-in, however its kernels were installed,
\* removed and booted before, and a host to which none is due never does.
THEOREM LadderIsExact ==
  KernelsRanked =>
    (FactsSpec => [](/\ Noticeable => LinuxRebootRequired(Works)
                     /\ LinuxRebootRequired(Works) => Due))
<1> SUFFICES ASSUME KernelsRanked
             PROVE  FactsSpec => [](/\ Noticeable => LinuxRebootRequired(Works)
                                    /\ LinuxRebootRequired(Works) => Due)
  OBVIOUS
<1>1. KernelsInv => /\ Noticeable => LinuxRebootRequired(Works)
                    /\ LinuxRebootRequired(Works) => Due
  BY LadderIsComplete
<1> QED
  BY KernelsStart, KernelsStay, <1>1, PTL DEF FactsSpec
==============================================================================
