------------------------------- MODULE Dashboard -------------------------------
(***************************************************************************)
(* One host's row on one dashboard page: how the row follows the store, and*)
(* what the buttons on it wait for.                                        *)
(*                                                                         *)
(* SaveSystem stores a record and drops a copy in a channel.  The web      *)
(* server takes the copies out one by one and writes each to every         *)
(* connection from a goroutine of its own, so that one may overtake        *)
(* another.  The page reads the list once, when it opens, and from then on *)
(* replaces the row by whatever the socket brings.  A request is answered  *)
(* when the host has taken it, and its button is held until the record of  *)
(* what was asked for arrives, before or after the answer.                 *)
(*                                                                         *)
(* Records are numbered as they are saved and travel as their numbers.     *)
(* What the host does is cut down to the records that come of it: a        *)
(* message of its is handled by the subscription to its kind, which reads  *)
(* the stored record and saves what it made of it in another transaction.  *)
(***************************************************************************)
EXTENDS Naturals, Sequences, FiniteSets

CONSTANTS
  ChannelCap,   \* copies the channel holds
  Kinds,        \* the buttons of the row that are pressed
  MaxSaves,     \* bound: records saved, the first one included
  MaxPresses,   \* bound: buttons pressed, deletions apart
  MaxTroubles   \* bound: lost connections, failed lists and deletions

ASSUME DashboardBounds ==
  /\ ChannelCap \in Nat \ {0}
  /\ Kinds \subseteq {"checkin", "update", "reboot"}
  /\ MaxSaves \in Nat \ {0} /\ MaxPresses \in Nat /\ MaxTroubles \in Nat

\* The subscriptions: each handles its messages one at a time.
Handlers == {"checkin", "run", "reboot"}

VARIABLES
  saves,      \* every record saved so far, in order
  store,      \* the number of the stored record, or 0
  channel,    \* copies waiting for the web server
  handling,   \* what each handler has read, and made of it to be saved
  host,       \* what the host has accepted and not finished
  needy,      \* does the host need a reboot?
  begun,      \* the run and the reboot it began last
  writing,    \* copies on their way to the page
  connected,  \* has the page a socket?
  list,       \* the page's one request for the list of systems
  row,        \* the number of the record the row shows, or 0
  marks,      \* the buttons held, by kind
  timers,     \* timers of accepted updates that have not run out
  presses,    \* the requests of the page, in order
  late,       \* the run and the reboot too old to be believed in progress
  deletion,   \* the page's request to remove the host, and what was removed
  behind,     \* history: has the page missed or mistaken the newest record?
  unsure,     \* history: was a reboot asked for from a row that did not show
              \* the last one, or let go of by a timer, an error or the record
              \* of an earlier one, or closed by a check-in before it was over?
  raced,      \* history: was a record saved that was not made of the stored
              \* one, which another handler had saved or a deletion removed?
  troubles

hostVars == <<host, needy, begun>>
server == <<saves, store, channel>>
handlers == <<handling, raced>>
feed == <<writing, connected, list, row>>
controls == <<marks, timers, presses>>
\* What a step of the page leaves alone.
elsewhere == <<server, handlers, hostVars>>
vars == <<elsewhere, feed, controls, late, deletion, behind, unsure, troubles>>

Numbers == 0 .. MaxSaves
\* A run, a reboot and a check-in are known by the number that the next record
\* had when their message was handled.
RunRecords == [id : Numbers, status : {"none", "running", "ended"}]
RebootRecords ==
  [id : Numbers, status : {"none", "rebooting", "rebooted", "failed"}]
Records == [checked : Numbers, run : RunRecords, reboot : RebootRecords,
            need : BOOLEAN]

Blank == [checked |-> 0, run |-> [id |-> 0, status |-> "none"],
          reboot |-> [id |-> 0, status |-> "none"], need |-> FALSE]
Record(n) == IF n = 0 THEN Blank ELSE saves[n]

Idle == [read |-> 0, next |-> 0, record |-> Blank]

Free == [held |-> FALSE]
\* told: what the page knew when the button was marked.
Held(told) == [held |-> TRUE, told |-> told]
Marks == {Free} \cup [held : {TRUE}, told : Numbers]
Requests == [kind : Kinds, group : BOOLEAN,
             pc : {"sent", "accepted", "refused", "answered"}]

TypeOK ==
  /\ saves \in Seq(Records) /\ Len(saves) \in 1 .. MaxSaves
  /\ store \in 0 .. Len(saves)
  /\ channel \in Seq(1 .. Len(saves)) /\ Len(channel) <= ChannelCap
  /\ handling \in [Handlers ->
                     [read : Numbers, next : Numbers, record : Records]]
  /\ host \subseteq {"checkin", "update", "running", "reboot", "down"}
  /\ needy \in BOOLEAN
  /\ begun \in [run : Numbers, reboot : Numbers]
  /\ writing \subseteq 1 .. Len(saves)
  /\ connected \in BOOLEAN
  /\ list \in [pc : {"asked", "read", "shown"}, answer : 0 .. Len(saves)]
  /\ row \in 0 .. Len(saves)
  /\ marks \in [Kinds -> Marks]
  /\ timers \in Nat
  /\ presses \in Seq(Requests) /\ Len(presses) <= MaxPresses
  /\ late \in [run : Numbers, reboot : Numbers]
  /\ deletion \in [pc : {"none", "sent", "done", "failed"}, gone : Numbers]
  /\ behind \in BOOLEAN
  /\ unsure \in BOOLEAN
  /\ raced \in BOOLEAN
  /\ troubles \in 0 .. MaxTroubles

\* A host that has been rebooted from here before and needs it again has
\* checked in, and a page is opened.
Init ==
  /\ saves = <<[Blank EXCEPT !.checked = 1, !.need = TRUE,
                            !.reboot = [id |-> 1, status |-> "rebooted"]]>>
  /\ store = 1
  /\ channel = <<>>
  /\ handling = [h \in Handlers |-> Idle]
  /\ host = {}
  /\ needy = TRUE
  /\ begun = [run |-> 0, reboot |-> 1]
  /\ writing = {}
  /\ connected = FALSE
  /\ list = [pc |-> "asked", answer |-> 0]
  /\ row = 0
  /\ marks = [k \in Kinds |-> Free]
  /\ timers = 0
  /\ presses = <<>>
  /\ late = [run |-> 0, reboot |-> 0]
  /\ deletion = [pc |-> "none", gone |-> 0]
  /\ behind = FALSE
  /\ unsure = FALSE
  /\ raced = FALSE
  /\ troubles = 0

(***************************************************************************)
(* The records of the host, as its messages arrive at the server.          *)
(***************************************************************************)

\* SaveSystem: the copy that finds the channel full is dropped.
SaveSystem(record) ==
  /\ Len(saves) < MaxSaves
  /\ saves' = Append(saves, record)
  /\ store' = Len(saves')
  /\ IF Len(channel) < ChannelCap
     THEN channel' = Append(channel, store') /\ UNCHANGED behind
     ELSE behind' = TRUE /\ UNCHANGED channel

page == <<feed, controls, late, deletion, troubles>>
NextNumber == Len(saves) + 1

\* A handler takes a message when it is done with the last.  No more are taken
\* than records may be saved.
Ready(h) ==
  /\ handling[h] = Idle
  /\ Len(saves) + Cardinality({g \in Handlers : handling[g] # Idle}) < MaxSaves

\* GetSystem: handler h has read the stored record and made this one of it.
Merge(h, record) ==
  handling' = [handling EXCEPT
    ![h] = [read |-> store, next |-> NextNumber, record |-> record]]

\* The other transaction.  What was saved since the first is lost, and a host
\* deleted since is stored again.
Save(h) ==
  /\ handling[h] # Idle
  /\ SaveSystem(handling[h].record)
  /\ handling' = [handling EXCEPT ![h] = Idle]
  /\ raced' = (\/ raced
               \/ handling[h].read # store
               \/ handling[h].next # NextNumber)
  /\ UNCHANGED <<hostVars, page, unsure>>

\* A check-in, asked for or not.  One that seems to come from a later boot than
\* the reboot on record closes it: the server dates the boot by an uptime read
\* some time before, so that a check-in may do so too early, or not yet.
CheckIn(asked, back) ==
  LET stored == Record(store) IN
  /\ asked => "checkin" \in host
  /\ back => stored.reboot.status = "rebooting"
  /\ Ready("checkin")
  /\ host' = IF asked THEN host \ {"checkin"} ELSE host
  /\ unsure' = (unsure \/ (back /\ host \cap {"reboot", "down"} # {}))
  /\ Merge("checkin",
           [stored EXCEPT !.checked = NextNumber,
                          !.need = needy,
                          !.reboot.status = IF back THEN "rebooted" ELSE @])
  /\ UNCHANGED <<needy, begun, server, behind, raced, page>>

\* The record of a run, a reboot or its failure; one for a host that is not
\* stored is dropped.
Result(h, record) ==
  /\ Ready(h)
  /\ \/ store # 0 /\ Merge(h, record)
     \/ store = 0 /\ UNCHANGED handling
  /\ UNCHANGED <<server, behind, raced, unsure, page>>

RunStarts ==
  /\ "update" \in host
  /\ host' = (host \ {"update"}) \cup {"running"}
  /\ begun' = [begun EXCEPT !.run = NextNumber]
  /\ Result("run", [Record(store) EXCEPT
       !.run = [id |-> NextNumber, status |-> "running"]])
  /\ UNCHANGED needy

\* What it installs may ask for a reboot.
RunEnds ==
  /\ "running" \in host
  /\ host' = host \ {"running"}
  /\ needy' = TRUE
  /\ Result("run", [Record(store) EXCEPT
       !.run = [id |-> begun.run, status |-> "ended"]])
  /\ UNCHANGED begun

RebootStarts ==
  /\ "reboot" \in host
  /\ host' = (host \ {"reboot"}) \cup {"down"}
  /\ begun' = [begun EXCEPT !.reboot = NextNumber]
  /\ Result("reboot", [Record(store) EXCEPT
       !.reboot = [id |-> NextNumber, status |-> "rebooting"]])
  /\ UNCHANGED needy

RebootFails ==
  /\ "down" \in host
  /\ host' = host \ {"down"}
  /\ Result("reboot", [Record(store) EXCEPT
       !.reboot = [id |-> begun.reboot, status |-> "failed"]])
  /\ UNCHANGED <<needy, begun>>

\* A client that starts checks in, asked or not.
HostBoots ==
  /\ "down" \in host
  /\ host' = host \cap {"checkin"}
  /\ needy' = FALSE
  /\ UNCHANGED <<begun, server, handlers, page, behind, unsure>>

(***************************************************************************)
(* The web server.                                                         *)
(***************************************************************************)

\* The loop over SubscribeToUpdates: a copy nobody is connected for is lost.
Relay ==
  /\ channel # <<>>
  /\ channel' = Tail(channel)
  /\ IF connected
     THEN writing' = writing \cup {Head(channel)} /\ UNCHANGED behind
     ELSE behind' = (behind \/ Head(channel) = store) /\ UNCHANGED writing
  /\ UNCHANGED <<saves, store, handlers, hostVars, connected, list, row,
                 controls, late, deletion, unsure, troubles>>

Connect ==
  /\ ~connected
  /\ connected' = TRUE
  /\ UNCHANGED <<elsewhere, writing, list, row, controls, late, deletion,
                 behind, unsure, troubles>>

\* A failed write, or a connection that breaks: what is on its way is lost.
Disconnect ==
  /\ connected
  /\ troubles < MaxTroubles
  /\ troubles' = troubles + 1
  /\ connected' = FALSE
  /\ writing' = {}
  /\ behind' = (behind \/ store \in writing)
  /\ UNCHANGED <<elsewhere, list, row, controls, late, deletion, unsure>>

\* GetSystemsHandler.
GetSystems ==
  /\ list.pc = "asked"
  /\ list' = [pc |-> "read", answer |-> store]
  /\ UNCHANGED <<elsewhere, writing, connected, row, controls, late, deletion,
                 behind, unsure, troubles>>

\* DeleteSystemHandler, asked by this page or by another.
Forget ==
  /\ store # 0
  /\ store' = 0
  /\ unsure' = (unsure \/ host \cap {"reboot", "down"} # {})
  /\ UNCHANGED <<saves, channel, handlers, hostVars, feed, controls, late>>

DeleteSystem ==
  /\ deletion.pc = "sent"
  /\ \/ /\ Forget
        /\ deletion' = [pc |-> "done", gone |-> store]
     \/ /\ store = 0
        /\ deletion' = [deletion EXCEPT !.pc = "failed"]
        /\ UNCHANGED <<elsewhere, feed, controls, late, unsure>>
  /\ UNCHANGED <<behind, troubles>>

\* Pages are not told of a deletion.
DeletedElsewhere ==
  /\ troubles < MaxTroubles
  /\ troubles' = troubles + 1
  /\ Forget
  /\ deletion' = [deletion EXCEPT !.gone = store]
  /\ behind' = (behind \/ row # 0)

\* The single-host and the group routes, down to the host and back.  The host
\* takes a command once, and no reboot in the middle of a run; the answer may be
\* lost when it did.
MayTake(kind) ==
  /\ store # 0
  /\ CASE kind = "checkin" -> "checkin" \notin host
       [] kind = "update" -> host \cap {"update", "running"} = {}
       [] kind = "reboot" ->
            /\ Record(store).need /\ needy
            /\ host \cap {"update", "running", "reboot", "down"} = {}

RequestAction(i) ==
  /\ presses[i].pc = "sent"
  /\ \/ /\ MayTake(presses[i].kind)
        /\ host' = host \cup {presses[i].kind}
        /\ \E answer \in {"accepted", "refused"} :
             presses' = [presses EXCEPT ![i].pc = answer]
     \/ /\ presses' = [presses EXCEPT ![i].pc = "refused"]
        /\ UNCHANGED host
  /\ UNCHANGED <<server, handlers, needy, begun, feed, marks, timers, late,
                 deletion, behind, unsure, troubles>>

(***************************************************************************)
(* The page (app.js): what arrives.                                        *)
(***************************************************************************)
RunActive(record) ==
  record.run.status = "running" /\ record.run.id > late.run
Rebooting(record) ==
  record.reboot.status = "rebooting" /\ record.reboot.id > late.reboot

\* Does the row, changed to show record n, lose a newer one or bring back one
\* that was deleted?
Overruns(n) == \/ n < row /\ row > deletion.gone
               \/ n # 0 /\ n <= deletion.gone

\* Is the last reboot in record n an earlier one than was known, or one of a
\* deleted host?
Outdated(n, told) == \/ Record(n).reboot.id < told
                     \/ Record(n).reboot.id <= deletion.gone

\* Slip: any record of a reboot is taken for the one asked for.
Resolves_AnyReboot(kind, told, record) ==
  CASE kind = "checkin" -> told = 0 \/ record.checked > told
    [] kind = "reboot" -> record.reboot.id # 0
    [] kind = "update" -> RunActive(record)

\* resolveCheckIn, resolvePendingReboot and startingUpdates: does the record
\* answer what the button is held for?
Resolves(kind, told, record) ==
  CASE kind = "checkin" -> told = 0 \/ record.checked > told
    [] kind = "reboot" -> record.reboot.id \notin {0, told}
    [] kind = "update" -> RunActive(record)

\* Slip: a message about a host the page has no row for is dropped.
Shown_KnownRows(n) == IF row = 0 THEN 0 ELSE n

\* The row takes the message's place whatever it showed; where there is none it
\* is added.
Shown(n) == n

\* ws.onmessage.
OnMessage(n) ==
  /\ n \in writing
  /\ writing' = writing \ {n}
  /\ row' = Shown(n)
  /\ behind' = (n # store /\ (behind \/ Overruns(n)))
  /\ marks' = [k \in Kinds |->
       IF marks[k].held /\ Resolves(k, marks[k].told, Record(n))
       THEN Free ELSE marks[k]]
  /\ unsure' = (unsure \/ \E k \in Kinds \cap {"reboot"} :
                            marks'[k] # marks[k] /\ Outdated(n, marks[k].told))
  /\ UNCHANGED <<elsewhere, connected, list, timers, presses, late, deletion,
                 troubles>>

\* fetchSystems: the answer replaces all rows, the ones the socket brought
\* meanwhile included.
ShowList ==
  /\ list.pc = "read"
  /\ list' = [list EXCEPT !.pc = "shown"]
  /\ row' = list.answer
  /\ behind' = (behind \/ Overruns(list.answer))
  /\ UNCHANGED <<elsewhere, writing, connected, controls, late, deletion,
                 unsure, troubles>>

\* A request that fails leaves the rows as they are, and is not repeated.
ListFails ==
  /\ list.pc # "shown"
  /\ troubles < MaxTroubles
  /\ troubles' = troubles + 1
  /\ list' = [list EXCEPT !.pc = "shown"]
  /\ behind' = (behind \/ row # store)
  /\ UNCHANGED <<elsewhere, writing, connected, row, controls, late, deletion,
                 unsure>>

(***************************************************************************)
(* The page: the buttons.                                                  *)
(***************************************************************************)
Mark(kind, mark) == marks' = [marks EXCEPT ![kind] = mark]

\* What the page knows at the moment, for the record that answers to differ.
Told(kind) == CASE kind = "checkin" -> Record(row).checked
                [] kind = "reboot" -> Record(row).reboot.id
                [] kind = "update" -> 0

\* rowActionsHTML, rebootControlsHTML: a host that has opted in to both, with
\* updates to install, and its checkbox ticked.
Offered(kind) ==
  /\ row # 0
  /\ ~marks[kind].held
  /\ kind = "update" => ~RunActive(Record(row))
  /\ kind = "reboot" => /\ ~Rebooting(Record(row))
                        /\ ~RunActive(Record(row))
                        /\ Record(row).need

Ask(kind, group) ==
  /\ Len(presses) < MaxPresses
  /\ presses' = Append(presses, [kind |-> kind, group |-> group, pc |-> "sent"])

\* handleCheckIn, handleReboot, handleRunUpdate: the button is held at once.
Press(kind) ==
  /\ Offered(kind)
  /\ Ask(kind, FALSE)
  /\ Mark(kind, Held(Told(kind)))
  /\ unsure' = (unsure \/ /\ kind = "reboot"
                          /\ Told(kind) # Record(store).reboot.id)
  /\ UNCHANGED <<elsewhere, feed, timers, late, deletion, behind, troubles>>

\* handleGroupAction, for a group the host is in.
PressGroup(kind) ==
  /\ Ask(kind, TRUE)
  /\ UNCHANGED <<elsewhere, feed, marks, timers, late, deletion, behind,
                 unsure, troubles>>

\* Slip: the button is marked again by the answer, as a group's are.
Release_MarksAgain(kind, ok) == Mark(kind, IF ok THEN Held(Told(kind)) ELSE Free)
\* Slip: an update that was refused holds its button.
Release_ButUpdates(kind, ok) ==
  IF ok \/ kind = "update" THEN UNCHANGED marks ELSE Mark(kind, Free)
\* An error lets the button go; an answer does not.
Release(kind, ok) == IF ok THEN UNCHANGED marks ELSE Mark(kind, Free)

\* The answer to a request for this host; only an update's timer starts with it.
Answered(i) ==
  LET kind == presses[i].kind
      ok == presses[i].pc = "accepted"
  IN
  /\ presses[i].pc \in {"accepted", "refused"}
  /\ ~presses[i].group
  /\ presses' = [presses EXCEPT ![i].pc = "answered"]
  /\ Release(kind, ok)
  /\ timers' = IF ok /\ kind = "update" THEN timers + 1 ELSE timers
  /\ unsure' = (unsure \/ (kind = "reboot" /\ ~ok))
  /\ UNCHANGED <<elsewhere, feed, late, deletion, behind, troubles>>

\* The answer to a group's: the buttons of the hosts that accepted are marked
\* now, by what the rows show now.  Updates are not.
GroupAnswered(i) ==
  /\ presses[i].pc \in {"accepted", "refused"}
  /\ presses[i].group
  /\ presses' = [presses EXCEPT ![i].pc = "answered"]
  /\ IF presses[i].pc = "accepted" /\ presses[i].kind # "update"
     THEN Mark(presses[i].kind, Held(Told(presses[i].kind)))
     ELSE UNCHANGED marks
  /\ UNCHANGED <<elsewhere, feed, timers, late, deletion, behind, unsure,
                 troubles>>

\* CHECK_IN_TIMEOUT_MS, REBOOT_PENDING_TIMEOUT_MS.
GiveUp(kind) ==
  /\ kind # "update"
  /\ marks[kind].held
  /\ Mark(kind, Free)
  /\ unsure' = (unsure \/ kind = "reboot")
  /\ UNCHANGED <<elsewhere, feed, timers, presses, late, deletion, behind,
                 troubles>>

\* The timer of an accepted update lets go whatever press holds the button: it
\* is not cancelled when the run's record arrives.
UpdateTimer ==
  /\ timers > 0
  /\ timers' = timers - 1
  /\ Mark("update", Free)
  /\ UNCHANGED <<elsewhere, feed, presses, late, deletion, behind, unsure,
                 troubles>>

\* RUN_ABANDONED_MS, REBOOT_OVERDUE_MS.
TooLate ==
  \/ /\ RunActive(Record(row))
     /\ late' = [late EXCEPT !.run = Record(row).run.id]
     /\ UNCHANGED unsure
  \/ /\ Rebooting(Record(row))
     /\ late' = [late EXCEPT !.reboot = Record(row).reboot.id]
     /\ unsure' = TRUE

GoesTooLate ==
  /\ TooLate
  /\ UNCHANGED <<elsewhere, feed, controls, deletion, behind, troubles>>

\* handleDeleteSystem, and the answer to it: the row goes, whatever it shows.
Remove ==
  /\ row # 0
  /\ deletion.pc = "none"
  /\ troubles < MaxTroubles
  /\ troubles' = troubles + 1
  /\ deletion' = [deletion EXCEPT !.pc = "sent"]
  /\ UNCHANGED <<elsewhere, feed, controls, late, behind, unsure>>

Removed ==
  /\ deletion.pc \in {"done", "failed"}
  /\ deletion' = [deletion EXCEPT !.pc = "none"]
  /\ IF deletion.pc = "done"
     THEN row' = 0 /\ behind' = (behind \/ Overruns(0))
     ELSE UNCHANGED <<row, behind>>
  /\ UNCHANGED <<elsewhere, writing, connected, list, controls, late, unsure,
                 troubles>>

Requested == 1 .. Len(presses)
HostStep == \/ \E asked, back \in BOOLEAN : CheckIn(asked, back)
            \/ RunStarts \/ RunEnds \/ RebootStarts \/ RebootFails \/ HostBoots

Next ==
  \/ HostStep \/ \E h \in Handlers : Save(h)
  \/ Relay \/ Connect \/ Disconnect
  \/ GetSystems \/ ShowList \/ ListFails
  \/ DeleteSystem \/ DeletedElsewhere \/ Remove \/ Removed
  \/ \E i \in Requested : RequestAction(i) \/ Answered(i) \/ GroupAnswered(i)
  \/ \E n \in writing : OnMessage(n)
  \/ \E k \in Kinds : Press(k) \/ PressGroup(k) \/ GiveUp(k)
  \/ UpdateTimer \/ GoesTooLate

Spec == Init /\ [][Next]_vars

-----------------------------------------------------------------------------
(***************************************************************************)
(* Safety.                                                                 *)
(***************************************************************************)
Quiet == /\ channel = <<>> /\ writing = {}
         /\ list.pc = "shown"
         /\ deletion.pc = "none"

\* Once nothing is on its way, the row shows the stored record, or none is
\* stored and there is no row: except on a page that missed the newest record
\* or put an older one over it, until the next record reaches it.
RowsAgree == Quiet /\ ~behind => row = store

\* "anything newer is the check we asked for": once what was sent has arrived, a
\* button is held for a check-in only while one is owed, whether the record came
\* before the answer or after.  A group's buttons are marked by its answer, and
\* when the record came first only their timer lets them go.
GroupsAsked == \E i \in Requested : presses[i].group
CheckInOwed == \/ "checkin" \in host \/ handling["checkin"] # Idle
               \/ \E i \in Requested :
                    presses[i].kind = "checkin" /\ presses[i].pc # "answered"
ChecksAreReleased ==
  /\ Quiet /\ ~behind /\ ~GroupsAsked /\ ~raced
  /\ row # 0
  /\ "checkin" \in Kinds
  /\ marks["checkin"].held
  => CheckInOwed

\* "a record with a different id is the one we asked for": a host on its way
\* down is not offered to be rebooted again.
Going == \/ host \cap {"reboot", "down"} # {}
         \/ \E i \in Requested :
              presses[i].kind = "reboot" /\ presses[i].pc = "sent"
OneRebootAtATime ==
  /\ "reboot" \in Kinds
  /\ Going /\ ~behind /\ ~unsure /\ ~raced /\ ~GroupsAsked
  => ~Offered("reboot")

-----------------------------------------------------------------------------
(***************************************************************************)
(* Liveness: requests are answered and timers fire.                        *)
(***************************************************************************)
FairSpec ==
  /\ Spec
  /\ WF_vars(UpdateTimer)
  /\ \A k \in Kinds : WF_vars(GiveUp(k))
  /\ \A i \in 1 .. MaxPresses :
       WF_vars(i \in Requested /\ (RequestAction(i) \/ Answered(i) \/ GroupAnswered(i)))

\* "a control stuck ... is worse than one that lets the operator try again":
\* no button is held for good.
ControlsComeBack == \A k \in Kinds : marks[k].held ~> ~marks[k].held
=============================================================================
