----------------------------- MODULE DispatchProofs -----------------------------
(***************************************************************************)
(* The safety of the dispatch of requests, for any hosts, requests and     *)
(* actions, and any number of changes and losses.                          *)
(***************************************************************************)
EXTENDS Dispatch, TLAPS

-----------------------------------------------------------------------------
(***************************************************************************)
(* The inductive invariant.                                                *)
(***************************************************************************)
Jobs == {NoJob} \cup [pc : {"ladder", "asked"}]
          \cup [pc : {"log", "done"}, outcome : Outcomes, named : BOOLEAN]
MadeRequests == [pc : {"asked", "answered"}, act : Actions, members : SUBSET Hosts]

ServerTyped ==
  /\ record \in [Hosts -> Records]
  /\ request \in [Requests -> {NoRequest} \cup MadeRequests]
  /\ job \in [Requests -> [Hosts -> Jobs]]
  /\ log \in Seq(Lines)
HostsTyped ==
  /\ client \in [Hosts -> Offer]
  /\ wire \in [Requests -> [Hosts -> {"none", "command", "accepted", "refused"}]]
  /\ run \in [Requests -> [Hosts -> Stages]]
  /\ heard \in [Requests -> [Hosts -> 0 .. 2]]
BudgetTyped == changes \in 0 .. MaxChanges /\ losses \in 0 .. MaxLosses

\* An attempt is made for each member of a request, and only for those; the
\* request is answered once all are done.
MembersInv ==
  \A r \in Requests :
    /\ request[r] = NoRequest => \A h \in Hosts : job[r][h] = NoJob
    /\ request[r] # NoRequest =>
         \A h \in Hosts : job[r][h] = NoJob <=> h \notin request[r].members
    /\ request[r].pc = "answered" =>
         \A h \in Hosts : job[r][h].pc \in {"none", "done"}

\* The line of a request is written with the last step of its attempt, or is one
\* that could not be written.
Recorded(r, h) == \/ \E i \in DOMAIN log : Requested(r, h) = {i}
                  \/ Requested(r, h) = {} /\ <<r, h>> \in unwritten
LinesInv ==
  \A r \in Requests, h \in Hosts :
    /\ job[r][h].pc = "done" => Recorded(r, h)
    /\ job[r][h].pc # "done" => Requested(r, h) = {}

\* Nothing is at the host before it was asked; a command on its way has not been
\* taken, and one whose refusal is on its way will not be.
Commanded(j, w, made, told) ==
  /\ j.pc \in {"none", "ladder"} => made = "none" /\ w = "none"
  /\ w = "command" => made = "none"
  /\ w = "refused" => made = "refused"
  /\ made = "none" => told = 0
  /\ j.pc \in {"log", "done"} /\ j.outcome \in {"skipped", "refused", "unreachable"} =>
       made \in {"none", "refused"} /\ w = "none"
CommandInv ==
  \A r \in Requests, h \in Hosts :
    Commanded(job[r][h], wire[r][h], run[r][h], heard[r][h])

\* The first result of a story is told at most once before the second is heard.
StoryInv ==
  \A r \in Requests, h \in Hosts :
    /\ heard[r][h] = 0 => Told(r, h) = {}
    /\ heard[r][h] = 1 => \A i \in Told(r, h) :
         /\ log[i].event = Story(Act(r))[1]
         /\ \A j \in Told(r, h) : i = j

DispatchInv ==
  /\ ServerTyped /\ HostsTyped /\ BudgetTyped
  /\ MembersInv /\ LinesInv /\ CommandInv /\ StoryInv
  /\ StoriesAreInOrder

-----------------------------------------------------------------------------
(***************************************************************************)
(* Lemmas about the operators.                                             *)
(***************************************************************************)

\* What a job is made of.
LEMMA JobFields ==
  ASSUME NEW j \in Jobs
  PROVE  /\ j.pc \in {"none", "ladder", "asked", "log", "done"}
         /\ j.pc = "none" <=> j = NoJob
         /\ j.pc \in {"log", "done"} => j \in [pc : {"log", "done"}, outcome : Outcomes,
                                               named : BOOLEAN]
<1>1. CASE j = NoJob
  BY <1>1 DEF NoJob
<1>2. CASE j \in [pc : {"ladder", "asked"}]
  BY <1>2 DEF NoJob
<1>3. CASE j \in [pc : {"log", "done"}, outcome : Outcomes, named : BOOLEAN]
  BY <1>3 DEF NoJob
<1>4. QED
  BY <1>1, <1>2, <1>3 DEF Jobs

\* What a request is made of.
LEMMA RequestFields ==
  ASSUME NEW q \in {NoRequest} \cup MadeRequests
  PROVE  /\ q = NoRequest <=> q.pc = "none"
         /\ q # NoRequest => q \in MadeRequests
BY DEF NoRequest, MadeRequests

\* A story has at most two parts, and only the last of them is its end.
LEMMA Stories ==
  ASSUME DispatchAssumption, NEW act \in Actions
  PROVE  /\ Story(act) \in Seq({"running", "ended"})
         /\ Len(Story(act)) \in 0 .. 2
         /\ Len(Story(act)) = 2 => Story(act)[1] = "running" /\ Story(act)[2] = "ended"
<1>1. act \in {"update", "reboot", "checkin", "benchmark"}
  BY DEF DispatchAssumption, AllActions
<1>2. CASE act \in {"update", "reboot"}
  <2>1. Story(act) = <<"running", "ended">>
    BY <1>2 DEF Story
  <2>2. QED
    BY <2>1
<1>3. CASE act = "benchmark"
  BY <1>3 DEF Story
<1>4. CASE act = "checkin"
  BY <1>4 DEF Story
<1>5. QED
  BY <1>1, <1>2, <1>3, <1>4

\* A line that is added comes last, and speaks of one request at one host.
LEMMA LineAdded ==
  ASSUME log \in Seq(Lines), NEW r \in Requests, NEW h \in Hosts,
         NEW event \in {"requested", "running", "ended"}, NEW named \in BOOLEAN,
         AddLine(r, h, event, named)
  PROVE  /\ log' \in Seq(Lines)
         /\ DOMAIN log = 1 .. Len(log) /\ DOMAIN log' = 1 .. Len(log) + 1
         /\ \A i \in DOMAIN log : log'[i] = log[i]
         /\ log'[Len(log) + 1] = [id |-> r, host |-> h, event |-> event, named |-> named]
         /\ log'[Len(log) + 1].event = event
         /\ Len(log) \in Nat
<1> DEFINE line == [id |-> r, host |-> h, event |-> event, named |-> named]
<1>1. line \in Lines /\ log' = Append(log, line) /\ line.event = event
  BY DEF Lines, AddLine
<1> HIDE DEF line
<1>2. /\ log' \in Seq(Lines)
      /\ DOMAIN log = 1 .. Len(log) /\ DOMAIN log' = 1 .. Len(log) + 1
      /\ \A i \in DOMAIN log : log'[i] = log[i]
      /\ log'[Len(log) + 1] = line
      /\ Len(log) \in Nat
  BY <1>1
<1>3. QED
  BY <1>1, <1>2 DEF line

\* A line counts among those of its request, host and event, and no others.
LEMMA LinesOfAdded ==
  ASSUME log \in Seq(Lines), NEW r \in Requests, NEW h \in Hosts,
         NEW event \in {"requested", "running", "ended"}, NEW named \in BOOLEAN,
         AddLine(r, h, event, named),
         NEW q, NEW k, NEW events
  PROVE  /\ q = r /\ k = h /\ event \in events =>
              LinesOf(q, k, events)' = LinesOf(q, k, events) \cup {Len(log) + 1}
         /\ ~(q = r /\ k = h /\ event \in events) =>
              LinesOf(q, k, events)' = LinesOf(q, k, events)
<1> DEFINE line == [id |-> r, host |-> h, event |-> event, named |-> named]
<1>1. /\ DOMAIN log = 1 .. Len(log) /\ DOMAIN log' = 1 .. Len(log) + 1
      /\ \A i \in DOMAIN log : log'[i] = log[i]
      /\ log'[Len(log) + 1] = line
      /\ Len(log) \in Nat
  BY LineAdded
<1>2. /\ line.id = r /\ line.host = h /\ line.event = event
  OBVIOUS
<1> HIDE DEF line
<1>3. QED
  BY <1>1, <1>2 DEF LinesOf

\* The line of a request: nobody is told anything by it.
LEMMA RequestAdded ==
  ASSUME log \in Seq(Lines), NEW r \in Requests, NEW h \in Hosts, NEW named \in BOOLEAN,
         AddLine(r, h, "requested", named), NEW q \in Requests, NEW k \in Hosts
  PROVE  /\ Requested(q, k)' = Requested(q, k)
                                 \cup IF q = r /\ k = h THEN {Len(log) + 1} ELSE {}
         /\ Told(q, k)' = Told(q, k)
<1>1. /\ q = r /\ k = h =>
           LinesOf(q, k, {"requested"})' = LinesOf(q, k, {"requested"}) \cup {Len(log) + 1}
      /\ ~(q = r /\ k = h) => LinesOf(q, k, {"requested"})' = LinesOf(q, k, {"requested"})
  BY LinesOfAdded
<1>2. LinesOf(q, k, {"running", "ended"})' = LinesOf(q, k, {"running", "ended"})
  BY LinesOfAdded
<1>3. QED
  BY <1>1, <1>2 DEF Requested, Told

\* The line of an answer: nothing more is requested of anybody.
LEMMA AnswerAdded ==
  ASSUME log \in Seq(Lines), NEW r \in Requests, NEW h \in Hosts,
         NEW event \in {"running", "ended"}, NEW named \in BOOLEAN,
         AddLine(r, h, event, named), NEW q \in Requests, NEW k \in Hosts
  PROVE  /\ Requested(q, k)' = Requested(q, k)
         /\ q = r /\ k = h => Told(q, k)' = Told(q, k) \cup {Len(log) + 1}
         /\ ~(q = r /\ k = h) => Told(q, k)' = Told(q, k)
<1> DEFINE told == {"running", "ended"}
<1>1. event \in {"requested", "running", "ended"} /\ event \in told /\ event \notin {"requested"}
  OBVIOUS
<1> HIDE DEF told
<1>2. /\ q = r /\ k = h => LinesOf(q, k, told)' = LinesOf(q, k, told) \cup {Len(log) + 1}
      /\ ~(q = r /\ k = h) => LinesOf(q, k, told)' = LinesOf(q, k, told)
  BY <1>1, LinesOfAdded
<1>3. LinesOf(q, k, {"requested"})' = LinesOf(q, k, {"requested"})
  BY <1>1, LinesOfAdded
<1>4. QED
  BY <1>2, <1>3 DEF Requested, Told, told

-----------------------------------------------------------------------------
(***************************************************************************)
(* The invariant holds.                                                    *)
(***************************************************************************)

\* The initial state satisfies the invariant.
LEMMA DispatchStarts == Init => DispatchInv
<1> SUFFICES ASSUME Init PROVE DispatchInv
  OBVIOUS
<1> USE DispatchAssumption DEF DispatchAssumption, Init, Each
<1>1. log = <<>> /\ \A r \in Requests, h \in Hosts : Requested(r, h) = {} /\ Told(r, h) = {}
  BY DEF Requested, Told, LinesOf
<1>2. ServerTyped
  <2>1. \A h \in Hosts : client[h] \in Offer
    OBVIOUS
  <2>2. ASSUME NEW c \in Offer
        PROVE  [known |-> TRUE, offers |-> c.offers, pending |-> c.pending] \in Records
    BY DEF Offer, Records, AllActions
  <2>3. record \in [Hosts -> Records]
    BY <2>1, <2>2
  <2>4. QED
    BY <2>3 DEF ServerTyped, Jobs
<1>3. HostsTyped
  BY DEF HostsTyped, Stages
<1>4. BudgetTyped
  BY DEF BudgetTyped
<1>5. MembersInv /\ CommandInv
  BY DEF MembersInv, CommandInv, Commanded, NoJob, NoRequest
<1>6. LinesInv /\ StoryInv /\ StoriesAreInOrder
  BY <1>1 DEF LinesInv, StoryInv, StoriesAreInOrder, NoJob
<1>7. QED
  BY <1>2, <1>3, <1>4, <1>5, <1>6 DEF DispatchInv

\* One entry of a table by request and host changes.
LEMMA EntryChanges ==
  ASSUME NEW S, NEW f \in [Requests -> [Hosts -> S]], NEW r \in Requests,
         NEW h \in Hosts, NEW v \in S, NEW g, g = [f EXCEPT ![r][h] = v]
  PROVE  /\ g \in [Requests -> [Hosts -> S]]
         /\ \A q \in Requests, k \in Hosts :
              g[q][k] = IF q = r /\ k = h THEN v ELSE f[q][k]
OBVIOUS

\* An attempt under way goes on, short of being done.
LEMMA JobGoesOn ==
  ASSUME DispatchInv, NEW r \in Requests, NEW h \in Hosts, NEW j \in Jobs,
         j.pc \notin {"none", "done"}, job[r][h].pc \notin {"none", "done"},
         job' = [job EXCEPT ![r][h] = j],
         UNCHANGED <<record, request, heard, log, unwritten>>
  PROVE  /\ ServerTyped' /\ MembersInv' /\ LinesInv' /\ StoryInv' /\ StoriesAreInOrder'
         /\ \A q \in Requests, k \in Hosts :
              job'[q][k] = IF q = r /\ k = h THEN j ELSE job[q][k]
<1> USE DEF DispatchInv, ServerTyped
<1>1. /\ job' \in [Requests -> [Hosts -> Jobs]]
      /\ \A q \in Requests, k \in Hosts :
           job'[q][k] = IF q = r /\ k = h THEN j ELSE job[q][k]
  BY EntryChanges
<1>2. MembersInv'
  <2>1. j # NoJob /\ job[r][h] # NoJob
    BY DEF NoJob
  <2>2. request[r] # NoRequest /\ h \in request[r].members
    BY <2>1 DEF MembersInv
  <2>3. request[r].pc # "answered"
    BY <2>2 DEF MembersInv
  <2>4. QED
    BY <1>1, <2>1, <2>2, <2>3 DEF MembersInv
<1>3. \A q \in Requests, k \in Hosts : /\ Requested(q, k)' = Requested(q, k)
                                       /\ Told(q, k)' = Told(q, k)
  BY DEF Requested, Told, LinesOf
<1>4. LinesInv'
  <2>1. \A q \in Requests, k \in Hosts : /\ Recorded(q, k) => Recorded(q, k)'
                                         /\ job'[q][k].pc = "done" <=> job[q][k].pc = "done"
    BY <1>1, <1>3 DEF Recorded
  <2>2. QED
    BY <1>3, <2>1 DEF LinesInv
<1>5. StoryInv' /\ StoriesAreInOrder'
  BY <1>3 DEF StoryInv, StoriesAreInOrder, Act
<1>6. QED
  BY <1>1, <1>2, <1>4, <1>5

\* What happens between the server and the host leaves requests, attempts and
\* lines alone.
LEMMA ServerSame ==
  ASSUME DispatchInv, UNCHANGED <<serverVars, heard, log, unwritten>>,
         record' \in [Hosts -> Records]
  PROVE  ServerTyped' /\ MembersInv' /\ LinesInv' /\ StoryInv' /\ StoriesAreInOrder'
<1> USE DEF DispatchInv, serverVars
<1>1. \A q \in Requests, k \in Hosts : /\ Requested(q, k)' = Requested(q, k)
                                       /\ Told(q, k)' = Told(q, k)
  BY DEF Requested, Told, LinesOf
<1>2. ServerTyped' /\ MembersInv' /\ LinesInv'
  BY <1>1 DEF ServerTyped, MembersInv, LinesInv, Recorded
<1>3. StoryInv' /\ StoriesAreInOrder'
  BY <1>1 DEF StoryInv, StoriesAreInOrder, Act
<1>4. QED
  BY <1>2, <1>3

\* A step about one command.
LEMMA CommandMoves ==
  ASSUME CommandInv, NEW r \in Requests, NEW h \in Hosts,
         Commanded(job'[r][h], wire'[r][h], run'[r][h], heard'[r][h]),
         \A q \in Requests, k \in Hosts : ~(q = r /\ k = h) =>
           /\ job'[q][k] = job[q][k] /\ wire'[q][k] = wire[q][k]
           /\ run'[q][k] = run[q][k] /\ heard'[q][k] = heard[q][k]
  PROVE  CommandInv'
<1>1. ASSUME NEW q \in Requests, NEW k \in Hosts
      PROVE  Commanded(job'[q][k], wire'[q][k], run'[q][k], heard'[q][k])
  <2>1. CASE q = r /\ k = h
    BY <2>1
  <2>2. CASE ~(q = r /\ k = h)
    BY <2>2 DEF CommandInv
  <2>3. QED
    BY <2>1, <2>2
<1>2. QED
  BY <1>1 DEF CommandInv

\* Every step keeps it.
LEMMA DispatchStays == DispatchInv /\ [Next]_vars => DispatchInv'
<1> SUFFICES ASSUME DispatchInv, [Next]_vars PROVE DispatchInv'
  OBVIOUS
<1> USE DispatchAssumption DEF DispatchAssumption
<1>1. ServerTyped /\ HostsTyped /\ BudgetTyped /\ MembersInv /\ CommandInv
      /\ LinesInv /\ StoryInv /\ StoriesAreInOrder
  BY DEF DispatchInv
<1>2. CASE UNCHANGED vars
  <2>1. ServerTyped' /\ MembersInv' /\ LinesInv' /\ StoryInv' /\ StoriesAreInOrder'
    BY <1>1, <1>2, ServerSame DEF vars, ServerTyped
  <2>2. QED
    BY <1>1, <1>2, <2>1 DEF DispatchInv, vars, serverVars, HostsTyped, BudgetTyped,
                            CommandInv
<1>3. ASSUME NEW r \in Requests, NEW act \in Actions, NEW members \in SUBSET Hosts,
             Press(r, act, members)
      PROVE  DispatchInv'
  <2> DEFINE jobs == [h \in Hosts |-> IF h \in members THEN [pc |-> "ladder"] ELSE NoJob]
             q == [pc |-> "asked", act |-> act, members |-> members]
  <2>1. /\ request[r] = NoRequest
        /\ request' = [request EXCEPT ![r] = q] /\ job' = [job EXCEPT ![r] = jobs]
        /\ UNCHANGED <<record, client, wire, run, heard, log, unwritten, changes, losses>>
    BY <1>3 DEF Press
  <2>2. q \in MadeRequests /\ jobs \in [Hosts -> Jobs] /\ q # NoRequest
    BY DEF MadeRequests, Jobs, NoRequest
  <2>3. ServerTyped' /\ HostsTyped' /\ BudgetTyped'
    BY <1>1, <2>1, <2>2 DEF ServerTyped, HostsTyped, BudgetTyped
  <2>4. \A h \in Hosts : job[r][h] = NoJob
    BY <1>1, <2>1 DEF MembersInv
  <2>5. \A h \in Hosts : /\ job'[r][h].pc \in {"none", "ladder"}
                         /\ job'[r][h] = NoJob <=> h \notin members
    BY <1>1, <2>1 DEF ServerTyped, NoJob
  <2>6. /\ \A s \in Requests : s # r => job'[s] = job[s] /\ request'[s] = request[s]
        /\ request'[r] = q
    BY <1>1, <2>1 DEF ServerTyped
  <2>7. MembersInv'
    <3>1. q.pc = "asked" /\ q.members = members
      OBVIOUS
    <3> HIDE DEF q
    <3>2. QED
      <4>1. ASSUME NEW s \in Requests
            PROVE  /\ request'[s] = NoRequest => \A h \in Hosts : job'[s][h] = NoJob
                   /\ request'[s] # NoRequest =>
                        \A h \in Hosts : job'[s][h] = NoJob <=> h \notin request'[s].members
                   /\ request'[s].pc = "answered" =>
                        \A h \in Hosts : job'[s][h].pc \in {"none", "done"}
        <5>1. CASE s = r
          BY <2>2, <2>5, <2>6, <3>1, <5>1
        <5>2. CASE s # r
          BY <1>1, <2>6, <5>2 DEF MembersInv
        <5>3. QED
          BY <5>1, <5>2
      <4>2. QED
        BY <4>1 DEF MembersInv
  <2>8. \A s \in Requests, h \in Hosts : /\ Requested(s, h)' = Requested(s, h)
                                         /\ Told(s, h)' = Told(s, h)
    BY <2>1 DEF Requested, Told, LinesOf
  <2>9. LinesInv'
    <3>1. ASSUME NEW s \in Requests, NEW h \in Hosts
          PROVE  job'[s][h].pc = "done" <=> job[s][h].pc = "done"
      <4>1. CASE s = r
        <5>1. job[r][h].pc # "done"
          BY <2>4 DEF NoJob
        <5>2. job'[r][h].pc # "done"
          BY <2>5
        <5>3. QED
          BY <4>1, <5>1, <5>2
      <4>2. CASE s # r
        BY <2>6, <4>2
      <4>3. QED
        BY <4>1, <4>2
    <3>2. QED
      BY <1>1, <2>1, <2>8, <3>1 DEF LinesInv, Recorded
  <2>10. \A h \in Hosts : run[r][h] = "none" /\ wire[r][h] = "none" /\ heard[r][h] = 0
    BY <1>1, <2>4 DEF CommandInv, Commanded, NoJob
  <2>11. CommandInv'
    BY <1>1, <2>1, <2>5, <2>6, <2>10 DEF CommandInv, Commanded
  <2>12. StoryInv' /\ StoriesAreInOrder'
    BY <1>1, <2>1, <2>6, <2>8, <2>10 DEF StoryInv, StoriesAreInOrder, Act
  <2>13. QED
    BY <2>3, <2>7, <2>9, <2>11, <2>12 DEF DispatchInv
<1>4. ASSUME NEW r \in Requests, NEW h \in Hosts, Ladder(r, h)
      PROVE  DispatchInv'
  <2> DEFINE j == job'[r][h]
  <2>1. job[r][h].pc = "ladder" /\ wire[r][h] = "none" /\ run[r][h] = "none"
    BY <1>1, <1>4 DEF Ladder, CommandInv, Commanded
  <2>2. UNCHANGED <<record, client, request, run, heard, log, unwritten, changes, losses>>
    BY <1>4 DEF Ladder
  <2>3. \/ \E o \in {"skipped", "unreachable"} :
             job' = [job EXCEPT ![r][h] = Outcome(o, FALSE)] /\ wire' = wire
        \/ /\ job' = [job EXCEPT ![r][h] = [pc |-> "asked"]]
           /\ wire' = [wire EXCEPT ![r][h] = "command"]
    BY <1>4 DEF Ladder
  <2>4. CASE \E o \in {"skipped", "unreachable"} :
               job' = [job EXCEPT ![r][h] = Outcome(o, FALSE)] /\ wire' = wire
    <3>1. PICK o \in {Outcome("skipped", FALSE), Outcome("unreachable", FALSE)} :
            job' = [job EXCEPT ![r][h] = o] /\ wire' = wire
      BY <2>4
    <3>2. o \in Jobs /\ o.pc = "log"
      <4>1. CASE o = Outcome("skipped", FALSE)
        BY <4>1 DEF Jobs, Outcome, Outcomes
      <4>2. CASE o = Outcome("unreachable", FALSE)
        BY <4>2 DEF Jobs, Outcome, Outcomes
      <4>3. QED
        BY <4>1, <4>2
    <3>3. /\ ServerTyped' /\ MembersInv' /\ LinesInv' /\ StoryInv' /\ StoriesAreInOrder'
          /\ \A q \in Requests, k \in Hosts :
               job'[q][k] = IF q = r /\ k = h THEN o ELSE job[q][k]
      BY <2>1, <2>2, <3>1, <3>2, JobGoesOn
    <3>4. CommandInv'
      <4>1. Commanded(o, wire[r][h], run[r][h], heard[r][h])
        BY <1>1, <2>1, <3>2 DEF CommandInv, Commanded
      <4>2. QED
        BY <1>1, <2>2, <3>1, <3>3, <4>1, CommandMoves
    <3>5. QED
      BY <1>1, <2>2, <3>1, <3>3, <3>4 DEF DispatchInv, HostsTyped, BudgetTyped
  <2>5. CASE /\ job' = [job EXCEPT ![r][h] = [pc |-> "asked"]]
             /\ wire' = [wire EXCEPT ![r][h] = "command"]
    <3>1. [pc |-> "asked"] \in Jobs
      BY DEF Jobs
    <3>2. /\ ServerTyped' /\ MembersInv' /\ LinesInv' /\ StoryInv' /\ StoriesAreInOrder'
          /\ \A q \in Requests, k \in Hosts :
               job'[q][k] = IF q = r /\ k = h THEN [pc |-> "asked"] ELSE job[q][k]
      BY <2>1, <2>2, <2>5, <3>1, JobGoesOn
    <3>3. /\ wire' \in [Requests -> [Hosts -> {"none", "command", "accepted", "refused"}]]
          /\ \A q \in Requests, k \in Hosts :
               wire'[q][k] = IF q = r /\ k = h THEN "command" ELSE wire[q][k]
      BY <1>1, <2>5, EntryChanges DEF HostsTyped
    <3>4. CommandInv'
      <4>1. Commanded([pc |-> "asked"], "command", run[r][h], heard[r][h])
        BY <1>1, <2>1 DEF CommandInv, Commanded
      <4>2. QED
        BY <1>1, <2>2, <3>2, <3>3, <4>1, CommandMoves
    <3>5. QED
      BY <1>1, <2>2, <3>2, <3>3, <3>4 DEF DispatchInv, HostsTyped, BudgetTyped
  <2>6. QED
    BY <2>3, <2>4, <2>5
<1>5. ASSUME NEW r \in Requests, NEW h \in Hosts, Answer(r, h)
      PROVE  DispatchInv'
  <2> DEFINE o == Outcome(wire[r][h], TRUE)
  <2>1. /\ job[r][h].pc = "asked" /\ wire[r][h] \in {"accepted", "refused"}
        /\ job' = [job EXCEPT ![r][h] = o] /\ wire' = [wire EXCEPT ![r][h] = "none"]
        /\ UNCHANGED <<record, client, request, run, heard, log, unwritten, changes, losses>>
    BY <1>5 DEF Answer
  <2>2. /\ o \in Jobs /\ o.pc = "log"
        /\ o.outcome \in {"skipped", "refused", "unreachable"} => run[r][h] = "refused"
    BY <1>1, <2>1 DEF Jobs, Outcome, Outcomes, CommandInv, Commanded
  <2> HIDE DEF o
  <2>3. /\ ServerTyped' /\ MembersInv' /\ LinesInv' /\ StoryInv' /\ StoriesAreInOrder'
        /\ \A q \in Requests, k \in Hosts :
             job'[q][k] = IF q = r /\ k = h THEN o ELSE job[q][k]
    BY <2>1, <2>2, JobGoesOn
  <2>4. /\ wire' \in [Requests -> [Hosts -> {"none", "command", "accepted", "refused"}]]
        /\ \A q \in Requests, k \in Hosts :
             wire'[q][k] = IF q = r /\ k = h THEN "none" ELSE wire[q][k]
    BY <1>1, <2>1, EntryChanges DEF HostsTyped
  <2>5. CommandInv'
    <3>1. Commanded(o, "none", run[r][h], heard[r][h])
      BY <1>1, <2>1, <2>2 DEF CommandInv, Commanded
    <3>2. QED
      BY <1>1, <2>1, <2>3, <2>4, <3>1, CommandMoves
  <2>6. QED
    BY <1>1, <2>1, <2>3, <2>4, <2>5 DEF DispatchInv, HostsTyped, BudgetTyped
<1>6. ASSUME NEW r \in Requests, NEW h \in Hosts, TimesOut(r, h)
      PROVE  DispatchInv'
  <2> DEFINE o == Outcome("failed", FALSE)
  <2>1. /\ job[r][h].pc = "asked" /\ job' = [job EXCEPT ![r][h] = o]
        /\ UNCHANGED <<record, client, request, wire, run, heard, log, unwritten, changes, losses>>
    BY <1>6 DEF TimesOut
  <2>2. o \in Jobs /\ o.pc = "log" /\ o.outcome = "failed"
    BY DEF Jobs, Outcome, Outcomes
  <2> HIDE DEF o
  <2>3. /\ ServerTyped' /\ MembersInv' /\ LinesInv' /\ StoryInv' /\ StoriesAreInOrder'
        /\ \A q \in Requests, k \in Hosts :
             job'[q][k] = IF q = r /\ k = h THEN o ELSE job[q][k]
    BY <2>1, <2>2, JobGoesOn
  <2>4. CommandInv'
    <3>1. Commanded(o, wire[r][h], run[r][h], heard[r][h])
      BY <1>1, <2>1, <2>2 DEF CommandInv, Commanded
    <3>2. QED
      BY <1>1, <2>1, <2>3, <3>1, CommandMoves
  <2>5. QED
    BY <1>1, <2>1, <2>3, <2>4 DEF DispatchInv, HostsTyped, BudgetTyped
<1>7. ASSUME NEW r \in Requests, NEW h \in Hosts, RecordRequest(r, h)
      PROVE  DispatchInv'
  <2> DEFINE j == [job[r][h] EXCEPT !.pc = "done"]
  <2>1. /\ job[r][h].pc = "log"
        /\ UNCHANGED <<record, client, request, wire, run, heard, changes>>
    BY <1>7 DEF RecordRequest
  <2>2. job' = [job EXCEPT ![r][h] = j]
    BY <1>7 DEF RecordRequest
  <2>3. job[r][h] \in [pc : {"log", "done"}, outcome : Outcomes, named : BOOLEAN]
    BY <1>1, <2>1, JobFields DEF ServerTyped
  <2>4. /\ j \in Jobs /\ j.pc = "done" /\ j.outcome = job[r][h].outcome
        /\ job[r][h].named \in BOOLEAN /\ j # NoJob /\ job[r][h] # NoJob
    BY <2>3 DEF Jobs, NoJob
  <2> HIDE DEF j
  <2>5. /\ job' \in [Requests -> [Hosts -> Jobs]]
        /\ \A q \in Requests, k \in Hosts :
             job'[q][k] = IF q = r /\ k = h THEN j ELSE job[q][k]
    BY <1>1, <2>2, <2>4, EntryChanges DEF ServerTyped
  <2>6. /\ log' \in Seq(Lines) /\ losses' \in 0 .. MaxLosses
        /\ DOMAIN log \subseteq DOMAIN log'
        /\ unwritten \subseteq unwritten'
        /\ \A i \in DOMAIN log : log'[i] = log[i]
        /\ \A q \in Requests, k \in Hosts :
             /\ ~(q = r /\ k = h) => Requested(q, k)' = Requested(q, k)
             /\ Told(q, k)' = Told(q, k)
        /\ Recorded(r, h)'
    <3>1. log \in Seq(Lines) /\ losses \in 0 .. MaxLosses /\ Requested(r, h) = {}
      BY <1>1, <2>1 DEF ServerTyped, BudgetTyped, LinesInv
    <3>2. CASE AddLine(r, h, "requested", job[r][h].named) /\ UNCHANGED unwritten
      <4>1. ASSUME NEW q \in Requests, NEW k \in Hosts
            PROVE  /\ Requested(q, k)' = Requested(q, k)
                                           \cup IF q = r /\ k = h THEN {Len(log) + 1} ELSE {}
                   /\ Told(q, k)' = Told(q, k)
        BY <2>4, <3>1, <3>2, RequestAdded
      <4>2. /\ log' \in Seq(Lines) /\ DOMAIN log = 1 .. Len(log)
            /\ DOMAIN log' = 1 .. Len(log) + 1 /\ Len(log) \in Nat
            /\ \A i \in DOMAIN log : log'[i] = log[i]
        BY <2>4, <3>1, <3>2, LineAdded
      <4>3. Requested(r, h)' = {Len(log) + 1}
        BY <3>1, <4>1
      <4>4. Recorded(r, h)'
        BY <4>2, <4>3 DEF Recorded
      <4>5. UNCHANGED losses
        BY <3>2 DEF AddLine
      <4>6. /\ DOMAIN log \subseteq DOMAIN log' /\ unwritten \subseteq unwritten'
            /\ losses' \in 0 .. MaxLosses
        BY <3>1, <3>2, <4>2, <4>5
      <4>7. \A q \in Requests, k \in Hosts :
              /\ ~(q = r /\ k = h) => Requested(q, k)' = Requested(q, k)
              /\ Told(q, k)' = Told(q, k)
        BY <4>1
      <4>8. QED
        BY <4>2, <4>4, <4>6, <4>7
    <3>3. CASE LoseLine /\ unwritten' = unwritten \cup {<<r, h>>}
      <4>1. UNCHANGED log /\ losses' \in 0 .. MaxLosses
        BY <3>1, <3>3 DEF LoseLine
      <4>2. \A q \in Requests, k \in Hosts : /\ Requested(q, k)' = Requested(q, k)
                                             /\ Told(q, k)' = Told(q, k)
        BY <4>1 DEF Requested, Told, LinesOf
      <4>3. Recorded(r, h)'
        BY <3>1, <3>3, <4>2 DEF Recorded
      <4>4. QED
        BY <3>1, <3>3, <4>1, <4>2, <4>3
    <3>4. QED
      BY <1>7, <3>2, <3>3 DEF RecordRequest
  <2>7. ServerTyped' /\ HostsTyped' /\ BudgetTyped'
    BY <1>1, <2>1, <2>5, <2>6 DEF ServerTyped, HostsTyped, BudgetTyped
  <2>8. MembersInv'
    <3>1. request[r] # NoRequest
      BY <1>1, <2>4 DEF MembersInv
    <3>2. request[r].pc # "answered"
      BY <1>1, <2>1, <2>4, <3>1 DEF MembersInv
    <3>3. ASSUME NEW q \in Requests
          PROVE  \A k \in Hosts : (job'[q][k] = NoJob <=> job[q][k] = NoJob)
                                  /\ (job[q][k].pc = "done" => job'[q][k].pc = "done")
      BY <2>1, <2>4, <2>5
    <3>4. ASSUME NEW q \in Requests
          PROVE  /\ request[q] = NoRequest => \A k \in Hosts : job'[q][k] = NoJob
                 /\ request[q] # NoRequest =>
                      \A k \in Hosts : job'[q][k] = NoJob <=> k \notin request[q].members
                 /\ request[q].pc = "answered" =>
                      \A k \in Hosts : job'[q][k].pc \in {"none", "done"}
      <4>1. CASE q = r
        BY <1>1, <3>1, <3>2, <3>3, <4>1 DEF MembersInv
      <4>2. CASE q # r
        BY <1>1, <2>5, <4>2 DEF MembersInv
      <4>3. QED
        BY <4>1, <4>2
    <3>5. QED
      BY <2>1, <3>4 DEF MembersInv
  <2>9. LinesInv'
    <3>1. ASSUME NEW q \in Requests, NEW k \in Hosts
          PROVE  /\ job'[q][k].pc = "done" => Recorded(q, k)'
                 /\ job'[q][k].pc # "done" => Requested(q, k)' = {}
      <4>1. CASE q = r /\ k = h
        BY <2>4, <2>5, <2>6, <4>1
      <4>2. CASE ~(q = r /\ k = h)
        <5>1. job'[q][k] = job[q][k] /\ Requested(q, k)' = Requested(q, k)
          BY <2>5, <2>6, <4>2
        <5>2. Recorded(q, k) => Recorded(q, k)'
          BY <2>6, <5>1 DEF Recorded
        <5>3. QED
          BY <1>1, <5>1, <5>2 DEF LinesInv
      <4>3. QED
        BY <4>1, <4>2
    <3>2. QED
      BY <3>1 DEF LinesInv
  <2>10. CommandInv'
    <3>1. Commanded(j, wire[r][h], run[r][h], heard[r][h])
      BY <1>1, <2>1, <2>4 DEF CommandInv, Commanded
    <3>2. QED
      BY <1>1, <2>1, <2>5, <3>1, CommandMoves
  <2>11. \A q \in Requests, k \in Hosts : \A i \in Told(q, k) : log'[i] = log[i]
    BY <2>6 DEF Told, LinesOf
  <2>12. StoryInv' /\ StoriesAreInOrder'
    BY <1>1, <2>1, <2>6, <2>11 DEF StoryInv, StoriesAreInOrder, Act
  <2>13. QED
    BY <2>7, <2>8, <2>9, <2>10, <2>12 DEF DispatchInv
<1>8. ASSUME NEW r \in Requests, Respond(r)
      PROVE  DispatchInv'
  <2>1. /\ request[r].pc = "asked" /\ AllDone(r)
        /\ request' = [request EXCEPT ![r].pc = "answered"]
        /\ UNCHANGED <<record, client, job, wire, run, heard, log, unwritten, changes, losses>>
    BY <1>8 DEF Respond
  <2>2. request[r] \in MadeRequests
    BY <1>1, <2>1, RequestFields DEF ServerTyped
  <2>3. /\ request'[r] \in MadeRequests /\ request'[r] # NoRequest
        /\ request'[r].act = request[r].act /\ request'[r].members = request[r].members
        /\ \A q \in Requests : q # r => request'[q] = request[q]
        /\ request' \in [Requests -> {NoRequest} \cup MadeRequests]
    BY <1>1, <2>1, <2>2 DEF ServerTyped, MadeRequests, NoRequest
  <2>4. ServerTyped' /\ HostsTyped' /\ BudgetTyped'
    BY <1>1, <2>1, <2>3 DEF ServerTyped, HostsTyped, BudgetTyped
  <2>5. MembersInv'
    <3>1. request[r] # NoRequest
      BY <2>1, <2>2 DEF MadeRequests, NoRequest
    <3>2. QED
      BY <1>1, <2>1, <2>3, <3>1 DEF MembersInv, AllDone, NoJob
  <2>6. \A q \in Requests, k \in Hosts : /\ Requested(q, k)' = Requested(q, k)
                                         /\ Told(q, k)' = Told(q, k)
                                         /\ Act(q)' = Act(q)
    BY <2>1, <2>3 DEF Requested, Told, LinesOf, Act
  <2>7. LinesInv' /\ CommandInv'
    BY <1>1, <2>1, <2>6 DEF LinesInv, Recorded, CommandInv
  <2>8. StoryInv' /\ StoriesAreInOrder'
    BY <1>1, <2>1, <2>6 DEF StoryInv, StoriesAreInOrder
  <2>9. QED
    BY <2>4, <2>5, <2>7, <2>8 DEF DispatchInv
<1>9. ASSUME NEW r \in Requests, NEW h \in Hosts, Receive(r, h)
      PROVE  DispatchInv'
  <2>1. /\ wire[r][h] = "command"
        /\ UNCHANGED <<record, client, serverVars, heard, log, unwritten, changes, losses>>
    BY <1>9 DEF Receive
  <2>2. PICK a \in {"accepted", "refused"} :
          run' = [run EXCEPT ![r][h] = a] /\ wire' = [wire EXCEPT ![r][h] = a]
    BY <1>9 DEF Receive
  <2>3. /\ run' \in [Requests -> [Hosts -> Stages]]
        /\ \A q \in Requests, k \in Hosts :
             run'[q][k] = IF q = r /\ k = h THEN a ELSE run[q][k]
    BY <1>1, <2>2, EntryChanges DEF HostsTyped, Stages
  <2>4. /\ wire' \in [Requests -> [Hosts -> {"none", "command", "accepted", "refused"}]]
        /\ \A q \in Requests, k \in Hosts :
             wire'[q][k] = IF q = r /\ k = h THEN a ELSE wire[q][k]
    BY <1>1, <2>2, EntryChanges DEF HostsTyped
  <2>5. CommandInv'
    <3>1. Commanded(job[r][h], a, a, heard[r][h])
      BY <1>1, <2>1, <2>2 DEF CommandInv, Commanded
    <3>2. QED
      BY <1>1, <2>1, <2>3, <2>4, <3>1, CommandMoves DEF serverVars
  <2>6. ServerTyped' /\ MembersInv' /\ LinesInv' /\ StoryInv' /\ StoriesAreInOrder'
    BY <1>1, <2>1, ServerSame DEF ServerTyped
  <2>7. QED
    BY <1>1, <2>1, <2>3, <2>4, <2>5, <2>6 DEF DispatchInv, HostsTyped, BudgetTyped
<1>10. ASSUME NEW r \in Requests, NEW h \in Hosts, RunStarts(r, h) \/ RunEnds(r, h)
       PROVE  DispatchInv'
  <2>1. /\ run[r][h] \in {"accepted", "running"}
        /\ UNCHANGED <<record, client, serverVars, wire, heard, log, unwritten, changes, losses>>
    BY <1>10 DEF RunStarts, RunEnds
  <2>2. PICK a \in {"running", "ended"} : run' = [run EXCEPT ![r][h] = a]
    BY <1>10 DEF RunStarts, RunEnds
  <2>3. /\ run' \in [Requests -> [Hosts -> Stages]]
        /\ \A q \in Requests, k \in Hosts :
             run'[q][k] = IF q = r /\ k = h THEN a ELSE run[q][k]
    BY <1>1, <2>2, EntryChanges DEF HostsTyped, Stages
  <2>4. CommandInv'
    <3>1. Commanded(job[r][h], wire[r][h], a, heard[r][h])
      BY <1>1, <2>1, <2>2 DEF CommandInv, Commanded
    <3>2. QED
      BY <1>1, <2>1, <2>3, <3>1, CommandMoves DEF serverVars
  <2>5. ServerTyped' /\ MembersInv' /\ LinesInv' /\ StoryInv' /\ StoriesAreInOrder'
    BY <1>1, <2>1, ServerSame DEF ServerTyped
  <2>6. QED
    BY <1>1, <2>1, <2>3, <2>4, <2>5 DEF DispatchInv, HostsTyped, BudgetTyped
<1>11. ASSUME NEW r \in Requests, NEW h \in Hosts, Hear(r, h)
       PROVE  DispatchInv'
  <2> DEFINE n == heard[r][h] + 1
             e == Story(Act(r))[n]
  <2>1. /\ heard[r][h] < Published(r, h) /\ heard' = [heard EXCEPT ![r][h] = n]
        /\ UNCHANGED <<record, client, serverVars, wire, run, unwritten, changes>>
    BY <1>11 DEF Hear
  <2>2. heard[r][h] \in 0 .. 2 /\ run[r][h] \in Stages
    BY <1>1 DEF HostsTyped
  <2>3. request[r] # NoRequest
    <3>1. run[r][h] # "none"
      BY <2>1, <2>2 DEF Published
    <3>2. job[r][h] # NoJob
      BY <1>1, <3>1 DEF CommandInv, Commanded, NoJob
    <3>3. QED
      BY <1>1, <3>2 DEF MembersInv
  <2>4. Act(r) \in Actions
    BY <1>1, <2>3, RequestFields DEF ServerTyped, Act, MadeRequests
  <2>5. n \in 1 .. Len(Story(Act(r)))
    <3>1. Len(Story(Act(r))) \in 0 .. 2
      BY <2>4, Stories
    <3>2. CASE run[r][h] \in {"running", "cut"}
      BY <2>1, <2>2, <3>1, <3>2 DEF Published
    <3>3. CASE run[r][h] = "ended"
      BY <2>1, <2>2, <3>1, <3>3 DEF Published
    <3>4. CASE run[r][h] \in {"none", "refused", "accepted", "dropped"}
      BY <2>1, <2>2, <3>4 DEF Published
    <3>5. QED
      BY <2>2, <3>2, <3>3, <3>4 DEF Stages
  <2>6. n \in 1 .. 2 /\ e \in {"running", "ended"}
    <3>1. /\ Story(Act(r)) \in Seq({"running", "ended"})
          /\ Len(Story(Act(r))) \in 0 .. 2
      BY <2>4, Stories
    <3> HIDE DEF n
    <3>2. QED
      BY <2>5, <3>1
  <2>7. n = 2 => Story(Act(r))[1] = "running" /\ e = "ended"
    BY <2>4, <2>5, Stories
  <2>8. /\ heard' \in [Requests -> [Hosts -> 0 .. 2]]
        /\ \A q \in Requests, k \in Hosts :
             heard'[q][k] = IF q = r /\ k = h THEN n ELSE heard[q][k]
    <3>1. n \in 0 .. 2
      BY <2>6
    <3> HIDE DEF n
    <3>2. QED
      BY <1>1, <2>1, <3>1, EntryChanges DEF HostsTyped
  <2>9. /\ log' \in Seq(Lines) /\ losses' \in 0 .. MaxLosses
        /\ DOMAIN log \subseteq DOMAIN log'
        /\ \A i \in DOMAIN log : log'[i] = log[i] /\ i < Len(log) + 1
        /\ \A q \in Requests, k \in Hosts : Requested(q, k)' = Requested(q, k)
        /\ \A q \in Requests, k \in Hosts : ~(q = r /\ k = h) => Told(q, k)' = Told(q, k)
        /\ \/ Told(r, h)' = Told(r, h)
           \/ /\ Told(r, h)' = Told(r, h) \cup {Len(log) + 1}
              /\ log'[Len(log) + 1].event = e
    <3>1. /\ DOMAIN log = 1 .. Len(log) /\ Len(log) \in Nat
          /\ losses \in 0 .. MaxLosses
      BY <1>1 DEF ServerTyped, BudgetTyped
    <3>2. CASE AddLine(r, h, e, TRUE)
      <4>1. PICK event \in {"running", "ended"} : event = e
        BY <2>6
      <4>2. /\ log \in Seq(Lines) /\ AddLine(r, h, event, TRUE)
            /\ event \in {"requested", "running", "ended"} /\ event # "requested"
        BY <1>1, <3>2, <4>1 DEF ServerTyped
      <4>3. /\ log' \in Seq(Lines)
            /\ DOMAIN log' = 1 .. Len(log) + 1
            /\ \A i \in DOMAIN log : log'[i] = log[i]
            /\ log'[Len(log) + 1].event = event
        BY <4>2, LineAdded
      <4>4. \A q \in Requests, k \in Hosts :
              /\ Requested(q, k)' = Requested(q, k)
              /\ q = r /\ k = h => Told(q, k)' = Told(q, k) \cup {Len(log) + 1}
              /\ ~(q = r /\ k = h) => Told(q, k)' = Told(q, k)
        <5>1. ASSUME NEW q \in Requests, NEW k \in Hosts
              PROVE  /\ Requested(q, k)' = Requested(q, k)
                     /\ q = r /\ k = h => Told(q, k)' = Told(q, k) \cup {Len(log) + 1}
                     /\ ~(q = r /\ k = h) => Told(q, k)' = Told(q, k)
          <6>1. PICK named \in BOOLEAN : AddLine(r, h, event, named)
            BY <4>2
          <6>2. log \in Seq(Lines)
            BY <4>2
          <6>3. QED
            BY <6>1, <6>2, AnswerAdded
        <5>2. QED
          BY <5>1
      <4>5. /\ \A q \in Requests, k \in Hosts : ~(q = r /\ k = h) => Told(q, k)' = Told(q, k)
            /\ Told(r, h)' = Told(r, h) \cup {Len(log) + 1}
        BY <4>4
      <4>6. UNCHANGED losses
        BY <3>2 DEF AddLine
      <4>7. QED
        BY <3>1, <4>1, <4>3, <4>4, <4>5, <4>6
    <3>3. CASE UNCHANGED log /\ losses' \in 0 .. MaxLosses
      BY <1>1, <3>1, <3>3 DEF ServerTyped, Requested, Told, LinesOf
    <3>4. AddLine(r, h, e, TRUE) \/ (UNCHANGED log /\ losses' \in 0 .. MaxLosses)
      <4>1. heard'[r][h] = n
        BY <2>8
      <4>2. AddLine(r, h, e, TRUE) \/ LoseLine \/ UNCHANGED <<log, losses>>
        BY <1>11, <4>1 DEF Hear
      <4>3. ASSUME LoseLine \/ UNCHANGED <<log, losses>>
            PROVE  UNCHANGED log /\ losses' \in 0 .. MaxLosses
        BY <3>1, <4>3 DEF LoseLine
      <4>4. QED
        BY <4>2, <4>3
    <3>5. QED
      BY <3>2, <3>3, <3>4
  <2> HIDE DEF n, e
  <2>10. ServerTyped' /\ HostsTyped' /\ BudgetTyped' /\ MembersInv' /\ LinesInv'
    <3>1. ServerTyped' /\ HostsTyped' /\ BudgetTyped'
      BY <1>1, <2>1, <2>8, <2>9 DEF ServerTyped, HostsTyped, BudgetTyped, serverVars
    <3>2. MembersInv'
      BY <1>1, <2>1 DEF MembersInv, serverVars
    <3>3. LinesInv'
      <4>1. ASSUME NEW q \in Requests, NEW k \in Hosts, Recorded(q, k)
            PROVE  Recorded(q, k)'
        BY <2>1, <2>9, <4>1 DEF Recorded
      <4>2. QED
        BY <1>1, <2>1, <2>9, <4>1 DEF LinesInv, serverVars
    <3>4. QED
      BY <3>1, <3>2, <3>3
  <2>11. CommandInv'
    <3>1. Commanded(job[r][h], wire[r][h], run[r][h], n)
      <4>1. run[r][h] # "none"
        BY <2>1, <2>2 DEF Published
      <4>2. QED
        BY <1>1, <4>1 DEF CommandInv, Commanded
    <3>2. QED
      BY <1>1, <2>1, <2>8, <3>1, CommandMoves DEF serverVars
  <2>12. \A q \in Requests, k \in Hosts : /\ Told(q, k) \subseteq DOMAIN log
                                          /\ Act(q)' = Act(q)
    BY <2>1 DEF Told, LinesOf, Act, serverVars
  <2>13. \A q \in Requests, k \in Hosts : ~(q = r /\ k = h) =>
           /\ Told(q, k)' = Told(q, k) /\ heard'[q][k] = heard[q][k]
           /\ \A i \in Told(q, k) : log'[i] = log[i]
    BY <2>8, <2>9, <2>12
  <2>14. StoryInv'
    <3>1. n = 1 => \A i \in Told(r, h)' : /\ log'[i].event = Story(Act(r))[1]
                                          /\ \A j \in Told(r, h)' : i = j
      <4>1. n = 1 => Told(r, h) = {}
        BY <1>1, <2>2 DEF StoryInv, n
      <4>2. QED
        BY <2>9, <4>1 DEF e
    <3>2. n # 0 /\ heard'[r][h] = n
      BY <2>6, <2>8
    <3>3. QED
      BY <1>1, <2>12, <2>13, <3>1, <3>2 DEF StoryInv
  <2>15. StoriesAreInOrder'
    <3>1. \A i, j \in Told(r, h)' : i < j =>
            log'[i].event = "running" /\ log'[j].event = "ended"
      <4>1. CASE heard[r][h] = 0
        <5>1. Told(r, h) = {}
          BY <1>1, <4>1 DEF StoryInv
        <5>2. Told(r, h)' \subseteq {Len(log) + 1} /\ Len(log) \in Nat
          BY <1>1, <2>9, <5>1 DEF ServerTyped
        <5>3. QED
          BY <5>2
      <4>2. CASE heard[r][h] = 1
        <5>1. n = 2
          BY <4>2 DEF n
        <5>2. \A i \in Told(r, h) : /\ log'[i].event = "running" /\ i < Len(log) + 1
                                    /\ i \in Nat
                                    /\ \A j \in Told(r, h) : i = j
          BY <1>1, <2>7, <2>9, <2>12, <4>2, <5>1 DEF StoryInv, ServerTyped
        <5>3. e = "ended" /\ Len(log) \in Nat
          BY <1>1, <2>7, <5>1 DEF ServerTyped
        <5>4. QED
          BY <2>9, <5>2, <5>3
      <4>3. QED
        BY <2>2, <2>6, <4>1, <4>2 DEF n
    <3>2. QED
      BY <1>1, <2>13, <3>1 DEF StoriesAreInOrder
  <2>16. QED
    BY <2>10, <2>11, <2>14, <2>15 DEF DispatchInv
<1>12. ASSUME NEW h \in Hosts, ClientChanges(h)
       PROVE  DispatchInv'
  <2>1. /\ changes' \in 0 .. MaxChanges /\ client' \in [Hosts -> Offer]
        /\ UNCHANGED <<record, serverVars, wire, heard, log, unwritten, losses>>
    BY <1>1, <1>12 DEF ClientChanges, Change, HostsTyped, BudgetTyped
  <2>2. /\ run' \in [Requests -> [Hosts -> Stages]]
        /\ \A q \in Requests, k \in Hosts : run'[q][k] # run[q][k] =>
             run[q][k] \in {"accepted", "running"} /\ run'[q][k] \in {"dropped", "cut"}
    BY <1>1, <1>12 DEF ClientChanges, HostsTyped, Stages
  <2>3. CommandInv'
    BY <1>1, <2>1, <2>2 DEF CommandInv, Commanded, serverVars
  <2>4. ServerTyped' /\ MembersInv' /\ LinesInv' /\ StoryInv' /\ StoriesAreInOrder'
    BY <1>1, <2>1, ServerSame DEF ServerTyped
  <2>5. QED
    BY <1>1, <2>1, <2>2, <2>3, <2>4 DEF DispatchInv, HostsTyped, BudgetTyped
<1>13. ASSUME NEW h \in Hosts, CheckIn(h) \/ DeleteSystem(h)
       PROVE  DispatchInv'
  <2>1. /\ changes' \in 0 .. MaxChanges
        /\ UNCHANGED <<client, serverVars, wire, run, heard, log, unwritten, losses>>
    BY <1>1, <1>13 DEF CheckIn, DeleteSystem, Change, BudgetTyped
  <2>2. record' \in [Hosts -> Records]
    <3>1. client[h] \in Offer
      BY <1>1 DEF HostsTyped
    <3>2. [known |-> TRUE, offers |-> client[h].offers, pending |-> client[h].pending]
            \in Records
      BY <3>1 DEF Offer, Records, AllActions
    <3>3. QED
      BY <1>1, <1>13, <3>2 DEF CheckIn, DeleteSystem, ServerTyped, Records
  <2>3. ServerTyped' /\ MembersInv' /\ LinesInv' /\ StoryInv' /\ StoriesAreInOrder'
    BY <1>1, <2>1, <2>2, ServerSame
  <2>4. QED
    BY <1>1, <2>1, <2>3 DEF DispatchInv, HostsTyped, BudgetTyped, CommandInv, serverVars
<1>14. ASSUME NEW r \in Requests, NEW h \in Hosts, MessageLost(r, h)
       PROVE  DispatchInv'
  <2>1. /\ wire[r][h] # "none" /\ wire' = [wire EXCEPT ![r][h] = "none"]
        /\ losses' \in 0 .. MaxLosses
        /\ UNCHANGED <<record, client, serverVars, run, heard, log, unwritten, changes>>
    BY <1>1, <1>14 DEF MessageLost, BudgetTyped
  <2>2. /\ wire' \in [Requests -> [Hosts -> {"none", "command", "accepted", "refused"}]]
        /\ \A q \in Requests, k \in Hosts :
             wire'[q][k] = IF q = r /\ k = h THEN "none" ELSE wire[q][k]
    BY <1>1, <2>1, EntryChanges DEF HostsTyped
  <2>3. CommandInv'
    <3>1. Commanded(job[r][h], "none", run[r][h], heard[r][h])
      BY <1>1 DEF CommandInv, Commanded
    <3>2. QED
      BY <1>1, <2>1, <2>2, <3>1, CommandMoves DEF serverVars
  <2>4. ServerTyped' /\ MembersInv' /\ LinesInv' /\ StoryInv' /\ StoriesAreInOrder'
    BY <1>1, <2>1, ServerSame DEF ServerTyped
  <2>5. QED
    BY <1>1, <2>1, <2>2, <2>3, <2>4 DEF DispatchInv, HostsTyped, BudgetTyped
<1>15. QED
  BY <1>2, <1>3, <1>4, <1>5, <1>6, <1>7, <1>8, <1>9, <1>10, <1>11, <1>12, <1>13, <1>14
     DEF Next, Attempt

-----------------------------------------------------------------------------
(***************************************************************************)
(* The results.                                                            *)
(***************************************************************************)

\* The inductive invariant of requests, jobs, messages and the lines they leave in
\* the log, for any hosts, requests and losses.
THEOREM DispatchInvariant == Spec => []DispatchInv
BY DispatchStarts, DispatchStays, PTL DEF Spec

\* "Every member of a group gets exactly one" result, and every attempt exactly
\* one line in the log, by the time the request is answered (dispatchGroup waits
\* for its goroutines): however many members, and whatever became of each.  The
\* only line that is missing is one that could not be written (recordRequest).
THEOREM EveryAttemptIsLogged == Spec => []AnsweredMeansLogged
<1>1. DispatchInv => AnsweredMeansLogged
  <2> SUFFICES ASSUME DispatchInv, NEW r \in Requests, request[r].pc = "answered"
               PROVE  /\ \A h \in request[r].members :
                           \/ \E i \in DOMAIN log : Requested(r, h) = {i}
                           \/ Requested(r, h) = {} /\ <<r, h>> \in unwritten
                      /\ \A h \in Hosts \ request[r].members : Requested(r, h) = {}
    BY DEF AnsweredMeansLogged
  <2>1. request[r] # NoRequest
    BY DEF NoRequest
  <2>2. request[r].members \subseteq Hosts
    BY <2>1, RequestFields DEF DispatchInv, ServerTyped, MadeRequests
  <2>3. ASSUME NEW h \in request[r].members
        PROVE  job[r][h].pc = "done"
    <3>1. job[r][h] # NoJob /\ job[r][h] \in Jobs
      BY <2>1, <2>2 DEF DispatchInv, MembersInv, ServerTyped
    <3>2. QED
      BY <2>2, <3>1, JobFields DEF DispatchInv, MembersInv
  <2>4. ASSUME NEW h \in Hosts \ request[r].members
        PROVE  job[r][h].pc # "done"
    BY <2>1 DEF DispatchInv, MembersInv, NoJob
  <2>5. QED
    BY <2>2, <2>3, <2>4 DEF DispatchInv, LinesInv, Recorded
<1>2. QED
  BY <1>1, DispatchInvariant, PTL

\* A command the host took is never reported skipped, refused or unreachable:
\* where that is reported nothing is done, or on its way to be (attempt), through
\* lost messages, timeouts and restarts of the client.
THEOREM ReportedUndoneIsUndone == Spec => []NotDoneMeansNotDone
<1>1. DispatchInv => NotDoneMeansNotDone
  BY DEF DispatchInv, CommandInv, Commanded, NotDoneMeansNotDone
<1>2. QED
  BY <1>1, DispatchInvariant, PTL

\* The lines of a run's results are in the order it went and none is told twice,
\* whatever else writes to the log, restarts or is deleted meanwhile.
THEOREM StoriesAreTold == Spec => []StoriesAreInOrder
<1>1. DispatchInv => StoriesAreInOrder
  BY DEF DispatchInv
<1>2. QED
  BY <1>1, DispatchInvariant, PTL
=============================================================================
