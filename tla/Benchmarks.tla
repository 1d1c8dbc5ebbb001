------------------------------ MODULE Benchmarks -------------------------------
(***************************************************************************)
(* Who is benchmarked when: the server's scheduler (api/hardware.go), the  *)
(* button of the hardware page, and the listeners of the hosts, which      *)
(* refuse what comes too soon or at a bad time (client/remotebenchmark.go).*)
(* Time is counted in ticks of the scheduler and kept as ages, which stop  *)
(* growing once nothing depends on them any more.  A call that is answered *)
(* in time and a run take seconds, a tick minutes: both are over before    *)
(* the next.  A request that was given up on can reach its host any time.  *)
(***************************************************************************)
EXTENDS Integers, FiniteSets

CONSTANTS
  HostCount,    \* hosts are numbered in the order of their names
  Loaded,       \* hosts that are always too busy to be measured
  MaxAge,       \* BenchmarkMaxAge
  RetryAfter,   \* benchmarkRetryAfter
  SeenWithin,   \* benchmarkSeenWithin
  MinInterval,  \* minBenchmarkInterval
  OldestAge,    \* bound: results this old or older are told apart by name only
  MaxPresses,   \* bound: uses of the button
  MaxChanges    \* bound: hosts that go down or come up, deletions, restarts
                \* of the server, calls late or lost, results lost

Hosts == 1 .. HostCount

ASSUME BenchmarksAssumption ==
  /\ HostCount \in Nat /\ Loaded \subseteq Hosts
  /\ \A n \in {MaxAge, RetryAfter, SeenWithin, MinInterval} : n \in Nat \ {0}
  /\ OldestAge \in Nat /\ OldestAge >= MaxAge
  /\ MaxPresses \in Nat /\ MaxChanges \in Nat

VARIABLES
  record,   \* what the server has of each host: when it was saved last, and
            \* the age of its benchmark
  asked,    \* how long ago the scheduler asked each host
  ticked,   \* has the scheduler had its turn in this tick?
  calls,    \* requests on their way
  host,     \* each host: is it up, what does it run, how long ago did it accept?
  presses, changes

benchVars == <<record, asked, ticked, calls, host, presses, changes>>

None == OldestAge + 1
Unknown == [known |-> FALSE, seen |-> 0, bench |-> None]
\* Who asked; "late": a request that its sender has given up on.
Askers == {"scheduler", "button", "late"}

BenchTypeOK ==
  /\ record \in [Hosts -> [known : BOOLEAN, seen : 0 .. SeenWithin + 1,
                           bench : 0 .. None]]
  /\ asked \in [Hosts -> 0 .. RetryAfter]
  /\ ticked \in BOOLEAN
  /\ calls \subseteq [host : Hosts, by : Askers]
  /\ host \in [Hosts -> [up : BOOLEAN, runs : {"nothing"} \cup Askers,
                         since : 0 .. MinInterval]]
  /\ presses \in 0 .. MaxPresses /\ changes \in 0 .. MaxChanges

BenchInit ==
  /\ record = [h \in Hosts |-> Unknown]
  /\ asked = [h \in Hosts |-> RetryAfter]
  /\ ticked = TRUE
  /\ calls = {}
  /\ host = [h \in Hosts |->
       [up |-> TRUE, runs |-> "nothing", since |-> MinInterval]]
  /\ presses = 0 /\ changes = 0

(***************************************************************************)
(* The scheduler.                                                          *)
(***************************************************************************)
IsDue(h) ==
  /\ record[h].known
  /\ record[h].seen <= SeenWithin
  /\ asked[h] >= RetryAfter
  /\ record[h].bench >= MaxAge

\* Hosts without a benchmark come first, then the oldest; ties go by name.
ComesBefore(g, h) ==
  \/ record[g].bench > record[h].bench
  \/ record[g].bench = record[h].bench /\ g <= h

\* Slip: a host that was asked is left alone only if it said yes.
Tick_Insists ==
  LET due == {h \in Hosts : IsDue(h)}
  IN  /\ ~ticked
      /\ ticked' = TRUE
      /\ calls' = calls \cup {[host |-> h, by |-> "scheduler"] :
                    h \in {g \in due : \A o \in due : ComesBefore(g, o)}}
      /\ UNCHANGED <<record, asked, host, presses, changes>>

\* Slip: every host that is due is asked.
Tick_AsksAll ==
  LET due == {h \in Hosts : IsDue(h)}
  IN  /\ ~ticked
      /\ ticked' = TRUE
      /\ asked' = [h \in Hosts |-> IF h \in due THEN 0 ELSE asked[h]]
      /\ calls' = calls \cup {[host |-> h, by |-> "scheduler"] : h \in due}
      /\ UNCHANGED <<record, host, presses, changes>>

\* Tick: the first of the hosts that are due is asked, and counts as asked
\* whatever it answers.
Tick ==
  LET due == {h \in Hosts : IsDue(h)}
      next == {g \in due : \A h \in due : ComesBefore(g, h)}
  IN  /\ ~ticked
      /\ ticked' = TRUE
      /\ asked' = [h \in Hosts |-> IF h \in next THEN 0 ELSE asked[h]]
      /\ calls' = calls \cup {[host |-> h, by |-> "scheduler"] : h \in next}
      /\ UNCHANGED <<record, host, presses, changes>>

\* BenchmarkHandler.
Press(h) ==
  /\ presses < MaxPresses
  /\ presses' = presses + 1
  /\ record[h].known
  /\ calls' = calls \cup {[host |-> h, by |-> "button"]}
  /\ UNCHANGED <<record, asked, ticked, host, changes>>

(***************************************************************************)
(* The hosts.                                                              *)
(***************************************************************************)

\* Slip: only a run under way is in the way.
MayAccept_Soon(h) ==
  /\ host[h].up
  /\ host[h].runs = "nothing"
  /\ h \notin Loaded

MayAccept(h) ==
  /\ host[h].up
  /\ host[h].runs = "nothing"
  /\ host[h].since >= MinInterval
  /\ h \notin Loaded

\* decide, which claims the run.
Accept(call) ==
  /\ MayAccept(call.host)
  /\ calls' = calls \ {call}
  /\ host' = [host EXCEPT ![call.host].runs = call.by, ![call.host].since = 0]
  /\ UNCHANGED <<record, asked, ticked, presses, changes>>

\* Nobody listens, it is too soon, or the load is too high just now.  The host
\* says so, or nothing is heard of the request again.
Refuse(call) ==
  /\ calls' = calls \ {call}
  /\ UNCHANGED <<record, asked, ticked, host, presses, changes>>

\* execute, and benchmarkResultHandler.  Saving a record makes it seen.
RunEnds(h) ==
  /\ host[h].runs # "nothing"
  /\ host' = [host EXCEPT ![h].runs = "nothing"]
  /\ record' = IF record[h].known
               THEN [record EXCEPT ![h].bench = 0, ![h].seen = 0]
               ELSE record
  /\ UNCHANGED <<asked, ticked, calls, presses, changes>>

CheckIn(h) ==
  /\ host[h].up
  /\ record[h].seen > 0 \/ ~record[h].known
  /\ record' = [record EXCEPT ![h].known = TRUE, ![h].seen = 0]
  /\ UNCHANGED <<asked, ticked, calls, host, presses, changes>>

(***************************************************************************)
(* Time, and what else happens.                                            *)
(***************************************************************************)
Older(age, most) == IF age < most THEN age + 1 ELSE age

\* A host that is up checks in more often than SeenWithin.
TimePasses ==
  /\ ticked
  /\ \A call \in calls : call.by = "late"
  /\ \A h \in Hosts : host[h].runs = "nothing"
  /\ \A h \in Hosts : host[h].up => record[h].known /\ record[h].seen < SeenWithin
  /\ ticked' = FALSE
  /\ record' = [h \in Hosts |-> [record[h] EXCEPT
       !.seen = IF record[h].known THEN Older(@, SeenWithin + 1) ELSE @,
       !.bench = IF @ = None THEN @ ELSE Older(@, OldestAge)]]
  /\ asked' = [h \in Hosts |-> Older(asked[h], RetryAfter)]
  /\ host' = [h \in Hosts |-> [host[h] EXCEPT !.since = Older(@, MinInterval)]]
  /\ UNCHANGED <<calls, presses, changes>>

Change == changes < MaxChanges /\ changes' = changes + 1

\* "did not answer within" requestTimeout: the host has yet to get the request.
TimesOut(call) ==
  /\ Change
  /\ calls' = (calls \ {call}) \cup {[host |-> call.host, by |-> "late"]}
  /\ UNCHANGED <<record, asked, ticked, host, presses>>

\* The client stops, or starts anew with no memory of its last run.
ClientChanges(h) ==
  /\ Change
  /\ host' = [host EXCEPT ![h] =
       [up |-> ~host[h].up, runs |-> "nothing", since |-> MinInterval]]
  /\ UNCHANGED <<record, asked, ticked, calls, presses>>

DeleteSystem(h) ==
  /\ Change
  /\ record[h].known
  /\ record' = [record EXCEPT ![h] = Unknown]
  /\ UNCHANGED <<asked, ticked, calls, host, presses>>

\* asked is in memory only; the first tick comes a whole period later.
ServerRestarts ==
  /\ Change
  /\ asked' = [h \in Hosts |-> RetryAfter]
  /\ ticked' = TRUE
  /\ UNCHANGED <<record, calls, host, presses>>

\* The result of a run, or with a lost call the run itself, never arrives.
ResultLost(h) ==
  /\ Change
  /\ host[h].runs # "nothing"
  /\ host' = [host EXCEPT ![h].runs = "nothing"]
  /\ UNCHANGED <<record, asked, ticked, calls, presses>>

BenchNext ==
  \/ Tick \/ TimePasses \/ ServerRestarts
  \/ \E call \in calls : Accept(call) \/ Refuse(call) \/ TimesOut(call)
  \/ \E h \in Hosts :
       \/ Press(h) \/ RunEnds(h) \/ CheckIn(h)
       \/ ClientChanges(h) \/ DeleteSystem(h) \/ ResultLost(h)

BenchSpec == BenchInit /\ [][BenchNext]_benchVars

-----------------------------------------------------------------------------
(***************************************************************************)
(* Safety.                                                                 *)
(***************************************************************************)
Running(askers) == {h \in Hosts : host[h].runs \in askers}

\* "It asks at most one per tick, so no two hosts are ever timed at the same
\* moment", as far as the scheduler goes: no two hosts run what it asked for and
\* had an answer to, restarts of the server included.
ScheduledApart == Cardinality(Running({"scheduler"})) <= 1

\* The same, whoever asked and however late the host got it.
NeverTwoAtOnce == Cardinality(Running(Askers)) <= 1

\* The scheduler reads the records and asks later: a button that got in between
\* is not measured over, by a request that is answered in time.  The host's own
\* interval sees to it; it takes a client that goes down and comes up meanwhile,
\* two changes, to forget it.
FreshAreLeftAlone ==
  [][changes <= 1 =>
       \A h \in Hosts :
         host[h].runs = "nothing" /\ host'[h].runs = "scheduler"
         => record[h].bench >= MaxAge]_benchVars

-----------------------------------------------------------------------------
(***************************************************************************)
(* Liveness.  The ticker goes on, calls are answered and runs end; a host  *)
(* that is not Loaded may be busy when it is asked, but not whenever it is.*)
(***************************************************************************)
Asks(h) == [host |-> h, by |-> "scheduler"]
Answer(h) == Asks(h) \in calls /\ (Accept(Asks(h)) \/ Refuse(Asks(h)))
Agree(h) == Asks(h) \in calls /\ Accept(Asks(h))
AnswerButton(h) ==
  LET call == [host |-> h, by |-> "button"]
  IN  call \in calls /\ (Accept(call) \/ Refuse(call))

BenchFairness ==
  /\ WF_benchVars(TimePasses) /\ WF_benchVars(Tick)
  /\ \A h \in Hosts :
       /\ WF_benchVars(CheckIn(h)) /\ WF_benchVars(RunEnds(h))
       /\ WF_benchVars(Answer(h)) /\ WF_benchVars(AnswerButton(h))
       /\ SF_benchVars(Agree(h))

BenchFairSpec == BenchSpec /\ BenchFairness

\* Can the scheduler ask every host before it may ask the first one again?
RoomForAll == HostCount <= RetryAfter

\* "A new host is benchmarked ... and every host weekly after that": a host
\* that stays up and is not Loaded gets a fresh benchmark again and again, with
\* hosts that always refuse ahead of it in every queue.
EveryHostIsMeasured ==
  RoomForAll => \A h \in Hosts \ Loaded :
    <>[]host[h].up => []<>(record[h].bench < MaxAge)
=============================================================================
