------------------------------ MODULE OutputPane -------------------------------
(***************************************************************************)
(* The output of a run on its way from the host to a reader: the server's  *)
(* two subscriptions (nats/subscriber.go), its live buffer (runlog), its   *)
(* relays to the WebSocket (web/server.go), which send every message from  *)
(* a goroutine of its own, and one page of the dashboard (static/app.js),  *)
(* which appends chunks as they come and, on a run it has nothing of,      *)
(* seeds its pane from the buffer.                                         *)
(***************************************************************************)
EXTENDS OutputStream, FiniteSets

CONSTANTS
  BufferLimit,   \* runlog's bufferLimit, in pieces
  EventBuffer,   \* runlog's eventBuffer
  UpdateBuffer,  \* the depth of the channel of system updates
  MaxLosses,     \* bound: messages lost between the host and the server
  MaxVisits      \* bound: times the page is loaded or its socket reconnects

ASSUME PaneAssumption ==
  /\ BufferLimit \in Nat \ {0}
  /\ EventBuffer \in Nat /\ UpdateBuffer \in Nat
  /\ MaxLosses \in Nat /\ MaxVisits \in Nat

VARIABLES
  heard,       \* how far the server's subscriptions have read
  buffer,      \* the live output of the host's last run
  record,      \* last_update_run of the host's record
  events,      \* the channel of chunks to relay
  updates,     \* the channel of records to relay
  deliveries,  \* messages to the page in goroutines of their own
  page,        \* what the page holds
  losses,
  shed,        \* has a message to the page been dropped, or found no page?
  visits

serverVars == <<heard, buffer, record, events, updates>>
pageVars == <<deliveries, page, visits>>
paneVars == <<streamVars, serverVars, pageVars, losses, shed>>

\* A text is a sequence of pieces and of these marks.
DroppedHere == -1     \* "some live output was dropped"
StoppedHere == -2     \* "live output stopped here"
CutBefore == -3       \* "earlier output truncated"

NoRun == [id |-> 0, status |-> "none", from |-> 1, to |-> 0, journal |-> FALSE]
NoText == [id |-> 0, seq |-> 0, text |-> <<>>]
NoBuffer == [id |-> 0, seq |-> 0, text |-> <<>>, truncated |-> FALSE]

Pieces(chunk) ==
  [i \in 1 .. chunk.to - chunk.from + 1 |-> chunk.from + i - 1]
     \o (IF chunk.stopped THEN <<StoppedHere>> ELSE <<>>)

\* live: the text of the pane; known: the run on record as the page has it;
\* visit: the fetch of the list of systems; seed: the fetch of the buffer for
\* a run.
NoFetch == [pc |-> "none"]
NewPage == [open |-> FALSE, live |-> NoText, known |-> NoRun,
            visit |-> NoFetch, seed |-> NoFetch]

Texts == Seq((1 .. MaxPieces) \cup {DroppedHere, StoppedHere, CutBefore})
IsText(t) == t.id \in 0 .. MaxRuns /\ t.seq \in Nat /\ t.text \in Texts

PaneTypeOK ==
  /\ StreamTypeOK
  /\ heard \in [outputs : 0 .. Len(outputs), results : 0 .. Len(results)]
  /\ IsText(buffer) /\ buffer.truncated \in BOOLEAN
  /\ record \in Results \cup {NoRun}
  /\ \A c \in {events[i] : i \in DOMAIN events} : c \in Chunks
  /\ Len(events) <= EventBuffer /\ Len(updates) <= UpdateBuffer
  /\ \A r \in {updates[i] : i \in DOMAIN updates} : r \in Results
  /\ deliveries \subseteq Chunks \cup Results
  /\ page.open \in BOOLEAN /\ IsText(page.live)
  /\ page.known \in Results \cup {NoRun}
  /\ page.visit.pc \in {"none", "asked", "answered"}
  /\ page.visit.pc = "answered" => page.visit.known \in Results \cup {NoRun}
  /\ page.seed.pc \in {"none", "asked", "answered"}
  /\ page.seed.pc # "none" => page.seed.run \in Runs
  /\ page.seed.pc = "answered" => IsText(page.seed.live)
  /\ losses \in 0 .. MaxLosses /\ shed \in BOOLEAN /\ visits \in 0 .. MaxVisits

PaneInit ==
  /\ StreamInit
  /\ heard = [outputs |-> 0, results |-> 0]
  /\ buffer = NoBuffer
  /\ record = NoRun
  /\ events = <<>> /\ updates = <<>>
  /\ deliveries = {}
  /\ page = NewPage
  /\ losses = 0 /\ shed = FALSE /\ visits = 0

(***************************************************************************)
(* The server.                                                             *)
(***************************************************************************)

\* What is kept of a text that may not be longer than n.
Kept(text, n) ==
  IF Len(text) > n THEN SubSeq(text, Len(text) - n + 1, Len(text)) ELSE text

\* A send to a channel of n that drops what does not fit.
Offer(channel, n, message, sent) ==
  IF Len(channel) < n
  THEN sent = Append(channel, message) /\ UNCHANGED shed
  ELSE sent = channel /\ shed' = TRUE

\* Slip: the buffer of a run keeps the number it began with.
AppendOutput_FirstSeq(chunk) ==
  LET held == IF buffer.id = chunk.id THEN buffer ELSE NoBuffer
      text == held.text \o Pieces(chunk)
  IN  buffer' = [id |-> chunk.id,
                 seq |-> IF held.seq = 0 THEN chunk.seq ELSE held.seq,
                 text |-> Kept(text, BufferLimit),
                 truncated |-> held.truncated \/ Len(text) > BufferLimit]

\* Append: a chunk of another run starts the buffer over.
AppendOutput(chunk) ==
  LET held == IF buffer.id = chunk.id THEN buffer ELSE NoBuffer
      text == held.text \o Pieces(chunk)
  IN  buffer' = [id |-> chunk.id, seq |-> chunk.seq,
                 text |-> Kept(text, BufferLimit),
                 truncated |-> held.truncated \/ Len(text) > BufferLimit]

HearOutput ==
  /\ heard.outputs < Len(outputs)
  /\ heard' = [heard EXCEPT !.outputs = @ + 1]
  /\ AppendOutput(outputs[heard'.outputs])
  /\ Offer(events, EventBuffer, outputs[heard'.outputs], events')
  /\ UNCHANGED <<streamVars, record, updates, pageVars, losses>>

\* updateResultHandler and SaveSystem; that the two transactions race with
\* other handlers is in SystemRecords.
HearResult ==
  /\ heard.results < Len(results)
  /\ heard' = [heard EXCEPT !.results = @ + 1]
  /\ record' = results[heard'.results]
  /\ Offer(updates, UpdateBuffer, record', updates')
  /\ UNCHANGED <<streamVars, buffer, events, pageVars, losses>>

\* A message from the host is lost with a connection.
LoseMessage ==
  /\ losses < MaxLosses
  /\ losses' = losses + 1
  /\ \/ heard.outputs < Len(outputs) /\ heard' = [heard EXCEPT !.outputs = @ + 1]
     \/ heard.results < Len(results) /\ heard' = [heard EXCEPT !.results = @ + 1]
  /\ UNCHANGED <<streamVars, buffer, record, events, updates, pageVars, shed>>

\* broadcast hands the message to a goroutine for each connection there is.
Broadcast(message) ==
  IF page.open
  THEN deliveries' = deliveries \cup {message} /\ UNCHANGED shed
  ELSE shed' = TRUE /\ UNCHANGED deliveries

RelayChunk ==
  /\ events # <<>>
  /\ events' = Tail(events)
  /\ Broadcast(Head(events))
  /\ UNCHANGED <<streamVars, heard, buffer, record, updates, page, visits,
                 losses>>

RelayRecord ==
  /\ updates # <<>>
  /\ updates' = Tail(updates)
  /\ Broadcast(Head(updates))
  /\ UNCHANGED <<streamVars, heard, buffer, record, events, page, visits,
                 losses>>

(***************************************************************************)
(* The page.                                                               *)
(***************************************************************************)
serverStays == UNCHANGED <<streamVars, serverVars, losses, shed>>

\* A browser loads the page, which asks for the systems and opens its socket.
LoadPage ==
  /\ visits < MaxVisits
  /\ visits' = visits + 1
  /\ page' = [NewPage EXCEPT !.visit = [pc |-> "asked"]]
  /\ deliveries' = {}
  /\ serverStays

Connect ==
  /\ visits > 0
  /\ ~page.open
  /\ page' = [page EXCEPT !.open = TRUE]
  /\ UNCHANGED <<deliveries, visits>> /\ serverStays

\* The socket closes; the page keeps what it has and will reconnect.
Disconnect ==
  /\ page.open
  /\ visits < MaxVisits
  /\ visits' = visits + 1
  /\ page' = [page EXCEPT !.open = FALSE]
  /\ deliveries' = {}
  /\ serverStays

AnswerVisit ==
  /\ page.visit.pc = "asked"
  /\ page' = [page EXCEPT !.visit = [pc |-> "answered", known |-> record]]
  /\ UNCHANGED <<deliveries, visits>> /\ serverStays

\* fetchSystems: the list replaces whatever the socket has brought meanwhile.
VisitAnswered ==
  /\ page.visit.pc = "answered"
  /\ page' = [page EXCEPT !.visit = NoFetch, !.known = page.visit.known]
  /\ UNCHANGED <<deliveries, visits>> /\ serverStays

\* Slip: the mark is only for what comes twice or too early.
Received_LateOnly(live, chunk) ==
  LET held == IF live.id = chunk.id THEN live ELSE NoText
      gap == held.seq # 0 /\ chunk.seq <= held.seq
  IN  [id |-> chunk.id, seq |-> chunk.seq,
       text |-> held.text \o (IF gap THEN <<DroppedHere>> ELSE <<>>)
                  \o Pieces(chunk)]

\* handleOutputChunk.
Received(live, chunk) ==
  LET held == IF live.id = chunk.id THEN live ELSE NoText
      gap == held.seq # 0 /\ chunk.seq # held.seq + 1
  IN  [id |-> chunk.id, seq |-> chunk.seq,
       text |-> held.text \o (IF gap THEN <<DroppedHere>> ELSE <<>>)
                  \o Pieces(chunk)]

\* A goroutine of broadcast gets to write, before or after the others.
Deliver(message) ==
  /\ page.open
  /\ deliveries' = deliveries \ {message}
  /\ \/ message \in Chunks
        /\ page' = [page EXCEPT !.live = Received(page.live, message)]
     \/ message \in Results
        /\ page' = [page EXCEPT !.known = message]
  /\ UNCHANGED visits /\ serverStays

\* seedLiveOutput, when the page draws a running host it has no output of.
\* The drawing follows loads, messages and clicks.
Seed ==
  /\ page.seed.pc = "none"
  /\ page.known.status = "running"
  /\ page.live.id # page.known.id
  /\ page' = [page EXCEPT !.seed = [pc |-> "asked", run |-> page.known.id]]
  /\ UNCHANGED <<deliveries, visits>> /\ serverStays

\* UpdateOutputHandler: 404 when nothing is held.
AnswerSeed ==
  /\ page.seed.pc = "asked"
  /\ page' = [page EXCEPT !.seed =
       [pc |-> "answered", run |-> page.seed.run,
        live |-> [id |-> buffer.id, seq |-> buffer.seq,
          text |-> (IF buffer.truncated THEN <<CutBefore>> ELSE <<>>) \o buffer.text]]]
  /\ UNCHANGED <<deliveries, visits>> /\ serverStays

\* The buffer of another run is not used, nor one for a run of which a chunk
\* has come meanwhile.
SeedAnswered ==
  /\ page.seed.pc = "answered"
  /\ LET seeded == page.seed.live
         wanted == seeded.id = page.seed.run /\ page.live.id # page.seed.run
     IN  page' = [page EXCEPT !.seed = NoFetch,
                    !.live = IF wanted THEN seeded ELSE @]
  /\ UNCHANGED <<deliveries, visits>> /\ serverStays

PaneNext ==
  \/ StreamNext /\ UNCHANGED <<serverVars, pageVars, losses, shed>>
  \/ HearOutput \/ HearResult \/ LoseMessage
  \/ RelayChunk \/ RelayRecord
  \/ LoadPage \/ Connect \/ Disconnect
  \/ AnswerVisit \/ VisitAnswered
  \/ \E message \in deliveries : Deliver(message)
  \/ Seed \/ AnswerSeed \/ SeedAnswered

PaneSpec == PaneInit /\ [][PaneNext]_paneVars

-----------------------------------------------------------------------------
(***************************************************************************)
(* Safety.                                                                 *)
(***************************************************************************)
IsPiece(x) == x > 0

\* The number a text goes by is that of the chunk it ends with, in the buffer
\* and in the pane: the next chunk is compared with what is really there.
NumbersMatchTexts ==
  \A held \in {buffer, page.live} : held # NoText /\ held # NoBuffer =>
    \E i \in DOMAIN outputs :
      /\ outputs[i].id = held.id /\ outputs[i].seq = held.seq
      /\ LET end == Pieces(outputs[i])
         IN  held.text[Len(held.text)] = end[Len(end)]

\* "Rather than splicing two unrelated moments together": in the pane, output
\* that did not follow on in the run does not without a mark, however chunks
\* were dropped, reordered, or met a seed.
PaneNeverSplices ==
  LET text == page.live.text
  IN  \A i \in 1 .. Len(text) - 1 :
        IsPiece(text[i]) /\ IsPiece(text[i + 1]) => text[i + 1] = text[i] + 1

\* So it is as long as the server hears all the host sends: channels that are
\* full, goroutines that overtake each other, reloads and seeds never splice.
HeardMeansUnspliced == losses = 0 => PaneNeverSplices

\* "The pane says [some live output was dropped] where that happened".
MarksAreEarned ==
  LET text == page.live.text
  IN  \A i \in 2 .. Len(text) - 1 :
        /\ text[i] = DroppedHere /\ IsPiece(text[i - 1]) /\ IsPiece(text[i + 1])
        => text[i - 1] + 1 < text[i + 1]

\* "So the last lines of a run reach the dashboard before the record that says
\* it ended".
LastLinesComeFirst ==
  record.status = "ended" =>
    \A i \in DOMAIN outputs :
      outputs[i].id = record.id => i <= heard.outputs

\* Nothing is under way and nothing went missing.
Quiet ==
  /\ run.pc = "idle"
  /\ heard.outputs = Len(outputs) /\ heard.results = Len(results)
  /\ events = <<>> /\ updates = <<>> /\ deliveries = {}
  /\ page.open /\ page.visit.pc = "none" /\ page.seed.pc = "none"
  /\ losses = 0 /\ ~shed /\ visits = 1

\* "The end of the run is shown when it finishes": in what runOutputText shows
\* of an ended run is the last it wrote.
EndIsShown ==
  Quiet /\ page.known.status = "ended" =>
    LET shown == IF page.live.id = page.known.id
                 THEN {page.live.text[i] : i \in DOMAIN page.live.text}
                 ELSE page.known.from .. page.known.to
    IN  page.known.to > 0 /\ ~page.known.journal => page.known.to \in shown
=============================================================================
