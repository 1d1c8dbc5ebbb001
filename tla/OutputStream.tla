----------------------------- MODULE OutputStream ------------------------------
(***************************************************************************)
(* The output of an update run on its way out of the host                  *)
(* (client/remoteupdate.go: outputStreamer, tailWriter, run).  What the    *)
(* command writes is counted in pieces, numbered from 1 in each run.  A    *)
(* ticker, a full buffer and the end of the run flush what is pending as   *)
(* numbered chunks, up to a limit for one run; the record that ends a run  *)
(* carries its last pieces, or the text of the journal when those are all  *)
(* white space.  Chunks and records go out on two subjects, which the      *)
(* server reads with a goroutine each.                                     *)
(***************************************************************************)
EXTENDS Integers, Sequences

CONSTANTS
  MaxRuns,      \* bound: runs on this host
  MaxPieces,    \* bound: pieces written in one run
  StreamLimit,  \* outputStreamLimit, in pieces
  TailLimit     \* updateOutputLimit, in pieces

ASSUME StreamAssumption ==
  /\ MaxRuns \in Nat /\ MaxPieces \in Nat
  /\ StreamLimit \in Nat \ {0} /\ TailLimit \in Nat \ {0}

VARIABLES
  run,        \* the number of the last run, and where it is
  streamer,   \* its outputStreamer
  outputs,    \* the chunks published so far, of all runs
  results     \* the records published so far

streamVars == <<run, streamer, outputs, results>>

Runs == 1 .. MaxRuns
Fresh == [written |-> 0, pending |-> 0, streamed |-> 0, seq |-> 0,
          capped |-> FALSE, blank |-> TRUE]

\* blank: is all that was written white space?
Streamers == [written : Nat, pending : Nat, streamed : Nat, seq : Nat,
              capped : BOOLEAN, blank : BOOLEAN]

\* A chunk holds the pieces from .. to; stopped: and the note that no more
\* will come; blank: they and all before them are white space.  An output is the
\* tail of a run, from .. to; journal: with the text of the journal in its place.
Chunks == [id : Runs, seq : Nat, from : Nat, to : Nat, stopped : BOOLEAN,
           blank : BOOLEAN]
Results == [id : Runs, status : {"running", "ended"}, from : Nat, to : Nat,
            journal : BOOLEAN]

StreamTypeOK ==
  /\ run \in [id : 0 .. MaxRuns, pc : {"idle", "running", "closed"}]
  /\ streamer \in Streamers
  /\ outputs \in Seq(Chunks)
  /\ results \in Seq(Results)

StreamInit ==
  /\ run = [id |-> 0, pc |-> "idle"]
  /\ streamer = Fresh
  /\ outputs = <<>>
  /\ results = <<>>

Report(id, status, from, to, journal) ==
  results' = Append(results,
    [id |-> id, status |-> status, from |-> from, to |-> to, journal |-> journal])

StartRun ==
  /\ run.pc = "idle"
  /\ run.id < MaxRuns
  /\ run' = [id |-> run.id + 1, pc |-> "running"]
  /\ streamer' = Fresh
  /\ Report(run.id + 1, "running", 1, 0, FALSE)
  /\ UNCHANGED outputs

\* Write: the tail takes everything, the stream nothing once it is capped.
Write ==
  /\ run.pc = "running"
  /\ streamer.written < MaxPieces
  /\ \E white \in BOOLEAN :
       streamer' = [streamer EXCEPT !.written = @ + 1, !.blank = @ /\ white,
                      !.pending = IF streamer.capped THEN @ ELSE @ + 1]
  /\ UNCHANGED <<run, outputs, results>>

\* flush, which holds the lock while it publishes.
Publish ==
  LET sent == streamer.streamed + streamer.pending
      stops == sent >= StreamLimit /\ ~streamer.capped
  IN  IF streamer.pending = 0
      THEN UNCHANGED <<streamer, outputs>>
      ELSE /\ streamer' = [streamer EXCEPT !.pending = 0, !.streamed = sent,
                             !.seq = @ + 1, !.capped = @ \/ stops]
           /\ outputs' = Append(outputs,
                [id |-> run.id, seq |-> streamer.seq + 1,
                 from |-> streamer.streamed + 1, to |-> sent,
                 stopped |-> stops, blank |-> streamer.blank])

\* The ticker fires, or a Write has filled the buffer.
Flush ==
  /\ run.pc = "running"
  /\ streamer.pending > 0
  /\ Publish
  /\ UNCHANGED <<run, results>>

\* Slip: the flusher is stopped, and what it had left with it.
CloseRun_Abrupt ==
  /\ run.pc = "running"
  /\ run' = [run EXCEPT !.pc = "closed"]
  /\ UNCHANGED <<streamer, outputs, results>>

\* The command has ended: close flushes the rest.
CloseRun ==
  /\ run.pc = "running"
  /\ run' = [run EXCEPT !.pc = "closed"]
  /\ Publish
  /\ UNCHANGED results

\* The first piece that the tail of a run of n pieces keeps.
TailFrom(n) == IF n > TailLimit THEN n - TailLimit + 1 ELSE 1

\* Is there nothing in the tail?  A tail that is cut says so.
TailIsBlank == streamer.blank /\ streamer.written <= TailLimit

\* The record of the end is published with the tail, or with what the journal
\* has of a run in a unit, if anything, when there is nothing in the tail.
ReportEnd ==
  /\ run.pc = "closed"
  /\ run' = [run EXCEPT !.pc = "idle"]
  /\ \E journal \in BOOLEAN :
       /\ journal => TailIsBlank
       /\ Report(run.id, "ended", TailFrom(streamer.written), streamer.written, journal)
  /\ UNCHANGED <<streamer, outputs>>

\* The client stops, and its goroutines with it: the run has no end.
ClientStops ==
  /\ run.pc # "idle"
  /\ run' = [run EXCEPT !.pc = "idle"]
  /\ UNCHANGED <<streamer, outputs, results>>

StreamNext ==
  StartRun \/ Write \/ Flush \/ CloseRun \/ ReportEnd \/ ClientStops

StreamSpec == StreamInit /\ [][StreamNext]_streamVars

-----------------------------------------------------------------------------
(***************************************************************************)
(* Safety.                                                                 *)
(***************************************************************************)

\* The chunks of a run are numbered from 1 in the order they are sent, and
\* each begins where the one before it ended, whichever of the ticker, the
\* writer and close sent them; none follows the note that output stops here.
ChunksAbut ==
  \A i \in DOMAIN outputs :
    LET next == outputs[i]
    IN  IF i > 1 /\ outputs[i - 1].id = next.id
        THEN /\ next.seq = outputs[i - 1].seq + 1
             /\ next.from = outputs[i - 1].to + 1
             /\ ~outputs[i - 1].stopped
        ELSE /\ next.seq = 1 /\ next.from = 1
             /\ i > 1 => outputs[i - 1].id < next.id

\* The last chunk of a run, or one that holds nothing.
LastChunk(id) ==
  LET sent == {i \in DOMAIN outputs : outputs[i].id = id}
  IN  IF sent = {} THEN [to |-> 0, stopped |-> FALSE]
      ELSE outputs[CHOOSE i \in sent : \A j \in sent : j <= i]

\* "Stops the flusher and sends whatever is left": when a run is reported to
\* have ended, its chunks have gone as far as the tail in the record, unless
\* they said that they stop.  Text of the journal, which no chunk carried, is
\* only in the record of a run of which no chunk has a word.
ReportsAreComplete ==
  \A i \in DOMAIN results :
    LET report == results[i]
        last == LastChunk(report.id)
    IN  report.status = "ended" =>
          /\ last.stopped \/ last.to = report.to
          /\ report.journal =>
               \A j \in DOMAIN outputs : outputs[j].id = report.id => outputs[j].blank
=============================================================================
