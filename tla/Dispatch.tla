------------------------------- MODULE Dispatch --------------------------------
(***************************************************************************)
(* What becomes of a request from the dashboard (server/api/actions.go):   *)
(* it is fanned out to its members, each attempt climbs the same ladder,   *)
(* goes to the host as a NATS request that has ten seconds to be answered, *)
(* is written to the operations log, and the request is answered when all  *)
(* attempts are done.  What the host then does it publishes on another     *)
(* subject, which other goroutines of the server write to the same log.    *)
(* A request for a single host is the case of one member.                  *)
(***************************************************************************)
EXTENDS Naturals, Sequences

CONSTANTS
  Hosts,
  Requests,     \* requests to the API; also the id of the command to a host
  Actions,      \* the actions asked for, of those below
  MaxChanges,   \* bound: restarts of clients, check-ins that change a record,
                \* deletions of records
  MaxLosses     \* bound: messages lost, lines that cannot be written

AllActions == {"update", "reboot", "checkin", "benchmark"}

ASSUME DispatchAssumption ==
  /\ Actions \subseteq AllActions
  /\ MaxChanges \in Nat /\ MaxLosses \in Nat

VARIABLES
  record,   \* what the server has stored of each host
  client,   \* what each host's client is ready to do
  request,  \* the requests that were made
  job,      \* the attempt of a request on a host
  wire,     \* the command to the host and the answer to it
  run,      \* what the host made of the command
  heard,    \* how many of the host's results the server has handled
  log,      \* the operations log
  unwritten, \* the attempts whose line could not be written
  changes, losses

serverVars == <<request, job>>
vars == <<record, client, serverVars, wire, run, heard, log, unwritten,
          changes, losses>>

\* offers: the actions a host serves, none when it is down (check-ins are
\* always served); pending: does it need a reboot?
Offer == {c \in [offers : SUBSET (Actions \cup {"checkin"}), pending : BOOLEAN] :
            c.offers = {} \/ "checkin" \in c.offers}
NoRecord == [known |-> FALSE]
Records == {NoRecord} \cup [known : {TRUE}, offers : SUBSET AllActions,
                            pending : BOOLEAN]

Outcomes == {"accepted", "skipped", "refused", "unreachable", "failed"}
NoRequest == [pc |-> "none"]
NoJob == [pc |-> "none"]

\* named: does the line carry the id of the request?
Lines == [id : Requests, host : Hosts, named : BOOLEAN,
          event : {"requested", "running", "ended"}]

\* The results a host publishes for a command it accepts, in order.  A reboot
\* that works takes the client with it: its only end is that it failed.  (The
\* line that says the host came back is written by a check-in: SystemRecords.)
Story(act) ==
  CASE act \in {"update", "reboot"} -> <<"running", "ended">>
    [] act = "benchmark" -> <<"ended">>
    [] act = "checkin" -> <<>>

Act(r) == request[r].act
Published(r, h) ==
  CASE run[r][h] \in {"none", "refused", "accepted", "dropped"} -> 0
    [] run[r][h] \in {"running", "cut"} -> Len(Story(Act(r))) - 1
    [] run[r][h] = "ended" -> Len(Story(Act(r)))

\* What the host may have made of a command: dropped and cut are runs whose
\* client died before and after they started.
Stages == {"none", "refused", "accepted", "running", "ended", "dropped", "cut"}

TypeOK ==
  /\ record \in [Hosts -> Records]
  /\ client \in [Hosts -> Offer]
  /\ request \in [Requests -> {NoRequest} \cup
       [pc : {"asked", "answered"}, act : Actions, members : SUBSET Hosts]]
  /\ job \in [Requests -> [Hosts -> {NoJob}
       \cup [pc : {"ladder", "asked"}]
       \cup [pc : {"log", "done"}, outcome : Outcomes, named : BOOLEAN]]]
  /\ wire \in [Requests -> [Hosts -> {"none", "command", "accepted", "refused"}]]
  /\ run \in [Requests -> [Hosts -> Stages]]
  /\ heard \in [Requests -> [Hosts -> 0 .. 2]]
  /\ \A i \in DOMAIN log : log[i] \in Lines
  /\ unwritten \subseteq Requests \X Hosts
  /\ changes \in 0 .. MaxChanges
  /\ losses \in 0 .. MaxLosses

Each(x) == [r \in Requests |-> [h \in Hosts |-> x]]

Init ==
  /\ client \in [Hosts -> {c \in Offer : c.offers # {}}]
  /\ record = [h \in Hosts |-> [known |-> TRUE, offers |-> client[h].offers,
                                pending |-> client[h].pending]]
  /\ request = [r \in Requests |-> NoRequest]
  /\ job = Each(NoJob)
  /\ wire = Each("none")
  /\ run = Each("none")
  /\ heard = Each(0)
  /\ log = <<>> /\ unwritten = {}
  /\ changes = 0 /\ losses = 0

(***************************************************************************)
(* The server's side of a request.                                         *)
(***************************************************************************)

\* groupActionHandler has resolved the group; dispatchGroup starts a goroutine
\* for each member.  Benchmarks are asked of one host at a time.
Press(r, act, members) ==
  /\ request[r] = NoRequest
  /\ act = "benchmark" => \E h \in Hosts : members = {h}
  /\ request' = [request EXCEPT ![r] =
       [pc |-> "asked", act |-> act, members |-> members]]
  /\ job' = [job EXCEPT ![r] =
       [h \in Hosts |-> IF h \in members THEN [pc |-> "ladder"] ELSE NoJob]]
  /\ UNCHANGED <<record, client, wire, run, heard, log, unwritten, changes, losses>>

\* An attempt with its outcome; only an answer names the command.
Outcome(outcome, named) == [pc |-> "log", outcome |-> outcome, named |-> named]

\* What the record is asked before anything is sent.
MayAsk(act, h) ==
  /\ record[h].known
  /\ act # "checkin" => act \in record[h].offers
  /\ act = "reboot" => record[h].pending

\* Slip: a skipped member's goroutine returns without a word.
Ladder_SkipsQuietly(r, h) ==
  /\ job[r][h].pc = "ladder"
  /\ MayAsk(Act(r), h)
  /\ IF Act(r) \in client[h].offers
     THEN /\ job' = [job EXCEPT ![r][h] = [pc |-> "asked"]]
          /\ wire' = [wire EXCEPT ![r][h] = "command"]
     ELSE /\ job' = [job EXCEPT ![r][h] = Outcome("unreachable", FALSE)]
          /\ UNCHANGED wire
  /\ UNCHANGED <<record, client, request, run, heard, log, unwritten, changes, losses>>

\* attempt, up to the request: a command nobody subscribes to is answered at
\* once with "no responders".
Ladder(r, h) ==
  /\ job[r][h].pc = "ladder"
  /\ \/ /\ ~MayAsk(Act(r), h)
        /\ job' = [job EXCEPT ![r][h] = Outcome("skipped", FALSE)]
        /\ UNCHANGED wire
     \/ /\ MayAsk(Act(r), h)
        /\ Act(r) \notin client[h].offers
        /\ job' = [job EXCEPT ![r][h] = Outcome("unreachable", FALSE)]
        /\ UNCHANGED wire
     \/ /\ MayAsk(Act(r), h)
        /\ Act(r) \in client[h].offers
        /\ job' = [job EXCEPT ![r][h] = [pc |-> "asked"]]
        /\ wire' = [wire EXCEPT ![r][h] = "command"]
  /\ UNCHANGED <<record, client, request, run, heard, log, unwritten, changes, losses>>

\* The host's answer arrives in time.
Answer(r, h) ==
  /\ job[r][h].pc = "asked"
  /\ wire[r][h] \in {"accepted", "refused"}
  /\ job' = [job EXCEPT ![r][h] = Outcome(wire[r][h], TRUE)]
  /\ wire' = [wire EXCEPT ![r][h] = "none"]
  /\ UNCHANGED <<record, client, request, run, heard, log, unwritten, changes, losses>>

\* Slip: a timeout is taken for a host that is not listening.
TimesOut_Unreachable(r, h) ==
  /\ job[r][h].pc = "asked"
  /\ job' = [job EXCEPT ![r][h] = Outcome("unreachable", FALSE)]
  /\ UNCHANGED <<record, client, request, wire, run, heard, log, unwritten, changes, losses>>

\* requestTimeout passes first.  The command may still be on its way.
TimesOut(r, h) ==
  /\ job[r][h].pc = "asked"
  /\ job' = [job EXCEPT ![r][h] = Outcome("failed", FALSE)]
  /\ UNCHANGED <<record, client, request, wire, run, heard, log, unwritten, changes, losses>>

\* AppendOperation: the line is written, or it is not and only the error is
\* reported.
AddLine(r, h, event, named) ==
  /\ log' = Append(log, [id |-> r, host |-> h, event |-> event, named |-> named])
  /\ UNCHANGED losses

LoseLine ==
  /\ losses < MaxLosses
  /\ losses' = losses + 1
  /\ UNCHANGED log

\* recordRequest: a log that cannot be written is otherwise ignored.
RecordRequest(r, h) ==
  /\ job[r][h].pc = "log"
  /\ job' = [job EXCEPT ![r][h].pc = "done"]
  /\ \/ AddLine(r, h, "requested", job[r][h].named) /\ UNCHANGED unwritten
     \/ LoseLine /\ unwritten' = unwritten \cup {<<r, h>>}
  /\ UNCHANGED <<record, client, request, wire, run, heard, changes>>

\* Slip: the request is answered once the last attempt is under way.
AllDone_Started(r) ==
  \A h \in request[r].members : job[r][h].pc \in {"asked", "log", "done"}

\* wg.Wait.
AllDone(r) == \A h \in request[r].members : job[r][h].pc = "done"

\* The request is answered with a result for every member.
Respond(r) ==
  /\ request[r].pc = "asked"
  /\ AllDone(r)
  /\ request' = [request EXCEPT ![r].pc = "answered"]
  /\ UNCHANGED <<record, client, job, wire, run, heard, log, unwritten, changes, losses>>

(***************************************************************************)
(* The host's side: its listeners, and the goroutines they start.          *)
(***************************************************************************)
Busy(h, acts) == \E q \in Requests :
  /\ request[q] # NoRequest
  /\ Act(q) \in acts
  /\ run[q][h] \in {"accepted", "running"}

\* Is there room for the command at the host?
MayAccept(act, h) ==
  CASE act = "update" -> ~Busy(h, {"update"})
    [] act = "reboot" -> client[h].pending /\ ~Busy(h, {"update", "reboot"})
    [] act = "benchmark" -> ~Busy(h, {"benchmark"})
    [] act = "checkin" -> TRUE

\* A host may refuse for reasons of its own: load, rate, configuration.
Receive(r, h) ==
  /\ wire[r][h] = "command"
  /\ Act(r) \in client[h].offers
  /\ \/ /\ MayAccept(Act(r), h)
        /\ run' = [run EXCEPT ![r][h] = "accepted"]
        /\ wire' = [wire EXCEPT ![r][h] = "accepted"]
     \/ /\ run' = [run EXCEPT ![r][h] = "refused"]
        /\ wire' = [wire EXCEPT ![r][h] = "refused"]
  /\ UNCHANGED <<record, client, serverVars, heard, log, unwritten, changes, losses>>

RunStarts(r, h) ==
  /\ run[r][h] = "accepted"
  /\ Story(Act(r)) # <<>>
  /\ run' = [run EXCEPT ![r][h] = "running"]
  /\ UNCHANGED <<record, client, serverVars, wire, heard, log, unwritten, changes, losses>>

RunEnds(r, h) ==
  /\ run[r][h] = "running"
  /\ run' = [run EXCEPT ![r][h] = "ended"]
  /\ UNCHANGED <<record, client, serverVars, wire, heard, log, unwritten, changes, losses>>

\* Slip: each result logs the run as it stands by then.
Hear_Latest(r, h) ==
  /\ heard[r][h] < Published(r, h)
  /\ heard' = [heard EXCEPT ![r][h] = @ + 1]
  /\ \/ record[h].known /\ AddLine(r, h, Story(Act(r))[Published(r, h)], TRUE)
     \/ record[h].known /\ LoseLine
     \/ ~record[h].known /\ UNCHANGED <<log, losses>>
  /\ UNCHANGED <<record, client, serverVars, wire, run, unwritten, changes>>

\* A result handler logs what it hears of a host it has a record of.
Hear(r, h) ==
  /\ heard[r][h] < Published(r, h)
  /\ heard' = [heard EXCEPT ![r][h] = @ + 1]
  /\ \/ record[h].known /\ AddLine(r, h, Story(Act(r))[heard'[r][h]], TRUE)
     \/ record[h].known /\ LoseLine
     \/ ~record[h].known /\ UNCHANGED <<log, losses>>
  /\ UNCHANGED <<record, client, serverVars, wire, run, unwritten, changes>>

(***************************************************************************)
(* What goes on besides.                                                   *)
(***************************************************************************)
Change == changes < MaxChanges /\ changes' = changes + 1

\* The client is restarted, with another configuration, or goes down; its
\* goroutines are gone.
ClientChanges(h) ==
  /\ Change
  /\ \E c \in Offer : client' = [client EXCEPT ![h] = c]
  /\ run' = [r \in Requests |-> [run[r] EXCEPT ![h] =
       CASE @ = "accepted" -> "dropped" [] @ = "running" -> "cut" [] OTHER -> @]]
  /\ UNCHANGED <<record, serverVars, wire, heard, log, unwritten, losses>>

CheckIn(h) ==
  /\ client[h].offers # {}
  /\ record' = [record EXCEPT ![h] = [known |-> TRUE,
       offers |-> client[h].offers, pending |-> client[h].pending]]
  /\ UNCHANGED <<client, serverVars, wire, run, heard, log, unwritten, changes, losses>>

DeleteSystem(h) ==
  /\ record[h].known
  /\ Change
  /\ record' = [record EXCEPT ![h] = NoRecord]
  /\ UNCHANGED <<client, serverVars, wire, run, heard, log, unwritten, losses>>

\* A command or its answer is lost with a connection.
MessageLost(r, h) ==
  /\ losses < MaxLosses
  /\ wire[r][h] # "none"
  /\ losses' = losses + 1
  /\ wire' = [wire EXCEPT ![r][h] = "none"]
  /\ UNCHANGED <<record, client, serverVars, run, heard, log, unwritten, changes>>

Attempt(r, h) == Ladder(r, h) \/ Answer(r, h) \/ TimesOut(r, h)
                   \/ RecordRequest(r, h)

Next ==
  \/ \E r \in Requests :
       \/ \E act \in Actions, members \in SUBSET Hosts : Press(r, act, members)
       \/ Respond(r)
       \/ \E h \in Hosts :
            \/ Attempt(r, h)
            \/ Receive(r, h) \/ RunStarts(r, h) \/ RunEnds(r, h) \/ Hear(r, h)
            \/ MessageLost(r, h)
  \/ \E h \in Hosts : ClientChanges(h) \/ CheckIn(h) \/ DeleteSystem(h)

Spec == Init /\ [][Next]_vars

-----------------------------------------------------------------------------
(***************************************************************************)
(* Safety.                                                                 *)
(***************************************************************************)
\* Where the log speaks of a request at a host, by what it says.
LinesOf(r, h, events) ==
  {i \in DOMAIN log : log[i].id = r /\ log[i].host = h /\ log[i].event \in events}

Requested(r, h) == LinesOf(r, h, {"requested"})
Told(r, h) == LinesOf(r, h, {"running", "ended"})

\* "Every member of a group gets exactly one" result and every attempt one log
\* line (dispatch), whatever became of it, by the time the request is answered.
\* The only line that is missing is one that could not be written.
AnsweredMeansLogged ==
  \A r \in Requests : request[r].pc = "answered" =>
    /\ \A h \in request[r].members :
         \/ \E i \in DOMAIN log : Requested(r, h) = {i}
         \/ Requested(r, h) = {} /\ <<r, h>> \in unwritten
    /\ \A h \in Hosts \ request[r].members : Requested(r, h) = {}

\* A command the host took is reported accepted, or failed when the answer did
\* not come: never skipped, refused or unreachable, which say it was not taken.
NotDoneMeansNotDone ==
  \A r \in Requests, h \in Hosts :
    /\ job[r][h].pc \in {"log", "done"}
    /\ job[r][h].outcome \in {"skipped", "refused", "unreachable"}
    => run[r][h] \in {"none", "refused"} /\ wire[r][h] = "none"

\* The lines the result handlers write of a run are in the order it went, with
\* none told twice, whatever else writes to the log, restarts or deletes.
StoriesAreInOrder ==
  \A r \in Requests, h \in Hosts : \A i, j \in Told(r, h) :
    i < j => log[i].event = "running" /\ log[j].event = "ended"

\* "one update can be read as a story - requested, running, succeeded".
RequestedComesFirst ==
  \A r \in Requests, h \in Hosts : \A i \in Told(r, h) :
    \E j \in Requested(r, h) : j < i

\* "A request and the results that follow it share an id".
ResultsShareTheId ==
  \A i, j \in DOMAIN log :
    log[i].id = log[j].id /\ log[i].host = log[j].host => log[i].named = log[j].named

-----------------------------------------------------------------------------
(***************************************************************************)
(* Liveness: the goroutines of a request go on, and its timeout fires.     *)
(* Nothing is assumed of the hosts or of the network.                      *)
(***************************************************************************)
Fairness ==
  \A r \in Requests :
    /\ WF_vars(Respond(r))
    /\ \A h \in Hosts : WF_vars(Attempt(r, h))

FairSpec == Spec /\ Fairness

\* "The whole call is bounded by one host's request timeout": every request is
\* answered, hosts that never answer included.
RequestsAreAnswered ==
  \A r \in Requests : request[r].pc = "asked" ~> request[r].pc = "answered"
=============================================================================
