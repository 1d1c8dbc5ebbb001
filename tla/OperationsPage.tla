---------------------------- MODULE OperationsPage -----------------------------
(***************************************************************************)
(* The operations log page in a browser (server/web/static/operations.js)  *)
(* over the log it shows.  The page fetches the newest page to load,       *)
(* another every 30 seconds to refresh, and one older page per press of    *)
(* "Show older".  A fetch is asynchronous: the request is evaluated by the *)
(* server some time after it is sent, its response is handled some time    *)
(* after that, and two fetches overtake each other freely.                 *)
(***************************************************************************)
EXTENDS OperationsLog, SequencesExt

CONSTANTS
  PageSize,     \* PAGE_SIZE
  MaxInFlight,  \* bound: fetches under way at a time
  MaxSwitches,  \* bound: times another host is chosen
  MaxFailures   \* bound: fetches that fail

ASSUME PageAssumption ==
  /\ PageSize \in Nat \ {0} /\ MaxInFlight \in Nat \ {0}
  /\ MaxSwitches \in Nat /\ MaxFailures \in Nat

VARIABLES
  host,        \* whose lines the page is showing
  rows,        \* the rows of the table, top to bottom
  newestSeq,   \* page's idea of its newest and oldest line
  oldestSeq,
  more,        \* is "Show older" displayed?
  busy,        \* is "Show older" disabled?
  fetches,     \* fetches under way
  overlapped,  \* history: was a fetch sent while another was under way?
  switches, failures

tableVars == <<rows, newestSeq, oldestSeq, more>>
pageVars == <<host, tableVars, busy, fetches, overlapped, switches, failures>>
logAndPageVars == <<logVars, pageVars>>

Kinds == {"load", "older", "refresh"}
Rows == [seq : 1 .. MaxAppends, host : Hosts]
Fetches == [kind : Kinds, host : Hosts \cup {AllHosts},
            before : 0 .. MaxAppends, served : BOOLEAN, ops : Seq(Rows)]

PageTypeOK ==
  /\ LogTypeOK
  /\ host \in Hosts \cup {AllHosts}
  /\ rows \in Seq(Rows)
  /\ newestSeq \in 0 .. MaxAppends
  /\ oldestSeq \in 0 .. MaxAppends
  /\ more \in BOOLEAN
  /\ busy \in BOOLEAN
  /\ fetches \in Seq(Fetches)
  /\ Len(fetches) <= MaxInFlight
  /\ overlapped \in BOOLEAN
  /\ switches \in 0 .. MaxSwitches
  /\ failures \in 0 .. MaxFailures

Fetch(kind, h, before) == [kind |-> kind, host |-> h, before |-> before,
                           served |-> FALSE, ops |-> <<>>]

\* The page calls load as it opens.
PageInit ==
  /\ LogInit
  /\ host = AllHosts
  /\ rows = <<>>
  /\ newestSeq = 0
  /\ oldestSeq = 0
  /\ more = FALSE
  /\ busy = FALSE
  /\ fetches = <<Fetch("load", AllHosts, 0)>>
  /\ overlapped = FALSE
  /\ switches = 0 /\ failures = 0

CanFetch == Len(fetches) < MaxInFlight

Send(fetch) ==
  /\ fetches' = Append(fetches, fetch)
  /\ overlapped' = (overlapped \/ fetches # <<>>)

\* setInterval(refresh); a hidden page skips its turn.
Refresh ==
  /\ CanFetch
  /\ Send(Fetch("refresh", host, 0))
  /\ UNCHANGED <<logVars, host, tableVars, busy, switches, failures>>

LoadOlder ==
  /\ CanFetch
  /\ more /\ ~busy
  /\ busy' = TRUE
  /\ Send(Fetch("older", host, oldestSeq))
  /\ UNCHANGED <<logVars, host, tableVars, switches, failures>>

\* showHost, and going back in the browser's history.
ShowHost(h) ==
  /\ CanFetch
  /\ switches < MaxSwitches
  /\ switches' = switches + 1
  /\ host' = h
  /\ Send(Fetch("load", h, 0))
  /\ UNCHANGED <<logVars, tableVars, busy, failures>>

\* The one way to list lines newest first.
NewestFirst(lines) ==
  {page \in SetToSeqs(lines) :
     \A m, n \in DOMAIN page : m < n => page[m] > page[n]}

\* The server answers a request with a page of lines.
Serve(i) ==
  LET f == fetches[i] IN
  /\ ~f.served
  /\ \E page \in NewestFirst(GetOperations(f.host, f.before, PageSize)) :
       fetches' = [fetches EXCEPT
         ![i].served = TRUE,
         ![i].ops = [n \in DOMAIN page |->
                       [seq |-> page[n], host |-> log[page[n]]]]]
  /\ UNCHANGED <<logVars, host, tableVars, busy, overlapped, switches, failures>>

FirstSeq(ops) == IF ops = <<>> THEN 0 ELSE ops[1].seq
LastSeq(ops) == IF ops = <<>> THEN 0 ELSE Last(ops).seq

\* Responses, each handled in one turn of the browser's event loop.
LoadArrives(i) ==
  LET ops == fetches[i].ops IN
  /\ fetches[i].kind = "load" /\ fetches[i].served
  /\ newestSeq' = FirstSeq(ops)
  /\ oldestSeq' = LastSeq(ops)
  /\ rows' = ops
  /\ more' = (Len(ops) = PageSize)
  /\ fetches' = RemoveAt(fetches, i)
  /\ UNCHANGED <<logVars, host, busy, overlapped, switches, failures>>

OlderArrives(i) ==
  LET ops == fetches[i].ops IN
  /\ fetches[i].kind = "older" /\ fetches[i].served
  /\ rows' = rows \o ops
  /\ oldestSeq' = IF ops = <<>> THEN oldestSeq ELSE LastSeq(ops)
  /\ more' = (Len(ops) = PageSize)
  /\ busy' = FALSE
  /\ fetches' = RemoveAt(fetches, i)
  /\ UNCHANGED <<logVars, host, newestSeq, overlapped, switches, failures>>

\* What is newer than the newest row: of a page, which is newest first, its top.
Fresh(ops) ==
  SubSeq(ops, 1, Max({0} \cup {n \in DOMAIN ops : ops[n].seq > newestSeq}))

\* Slip: a burst of a page or more is put on top like any other.
Burst_Ignored(ops) == FALSE

\* Nothing of the page that was fetched is on the page that is shown.
Burst(ops) == newestSeq # 0 /\ Fresh(ops) = ops

\* Fresh lines go on top, or, after a burst, everything is loaded anew.
RefreshArrives(i) ==
  LET ops == fetches[i].ops
      fresh == Fresh(ops)
  IN
  /\ fetches[i].kind = "refresh" /\ fetches[i].served
  /\ \/ /\ fresh = <<>>
        /\ fetches' = RemoveAt(fetches, i)
        /\ UNCHANGED <<rows, newestSeq, oldestSeq>>
     \/ /\ fresh # <<>> /\ Burst(ops)
        /\ fetches' = Append(RemoveAt(fetches, i), Fetch("load", host, 0))
        /\ UNCHANGED <<rows, newestSeq, oldestSeq>>
     \/ /\ fresh # <<>> /\ ~Burst(ops)
        /\ rows' = fresh \o (IF newestSeq = 0 THEN <<>> ELSE rows)
        /\ newestSeq' = FirstSeq(fresh)
        /\ oldestSeq' = IF oldestSeq = 0 THEN LastSeq(fresh) ELSE oldestSeq
        /\ fetches' = RemoveAt(fetches, i)
  /\ UNCHANGED <<logVars, host, more, busy, overlapped, switches, failures>>

\* Slip: without finally, a failed press leaves the button disabled.
FetchFails_StaysBusy(i) ==
  /\ failures < MaxFailures
  /\ failures' = failures + 1
  /\ fetches' = RemoveAt(fetches, i)
  /\ UNCHANGED <<logVars, host, tableVars, busy, overlapped, switches>>

\* A fetch that fails changes nothing but the status line; the next may work.
FetchFails(i) ==
  /\ failures < MaxFailures
  /\ failures' = failures + 1
  /\ fetches' = RemoveAt(fetches, i)
  /\ busy' = (busy /\ fetches[i].kind # "older")
  /\ UNCHANGED <<logVars, host, tableVars, overlapped, switches>>

Arrives(i) == LoadArrives(i) \/ OlderArrives(i) \/ RefreshArrives(i)

PageNext ==
  \/ LogNext /\ UNCHANGED pageVars
  \/ Refresh
  \/ LoadOlder
  \/ \E h \in Hosts \cup {AllHosts} : ShowHost(h)
  \/ \E i \in DOMAIN fetches : Serve(i) \/ Arrives(i) \/ FetchFails(i)

PageSpec == PageInit /\ [][PageNext]_logAndPageVars

-----------------------------------------------------------------------------

Shown == {rows[i].seq : i \in DOMAIN rows}

\* Newest first, and no line twice.
RowsDescend ==
  \A i, j \in DOMAIN rows : i < j => rows[i].seq > rows[j].seq

\* The rows are, or are about to be, those of the chosen host.
Settled == \A i \in DOMAIN fetches : fetches[i].kind # "load"

\* "redrawn from scratch rather than leaving a gap": between the newest and the
\* oldest row, every line of the host that is still in the log is shown.
NoGaps ==
  Settled /\ rows # <<>> =>
    \A k \in Keys :
      /\ Concerns(k, host)
      /\ Last(rows).seq <= k /\ k <= rows[1].seq
      => k \in Shown

\* The cursors are the ends of the table, so refreshing and paging continue
\* where the rows stop.
CursorsMatchRows ==
  newestSeq = FirstSeq(rows) /\ oldestSeq = LastSeq(rows)

\* A press of "Show older" that is under way is never forgotten.
BusyMeansFetching ==
  busy <=> \E i \in DOMAIN fetches : fetches[i].kind = "older"

\* "newest first, for every host or for the one named in ?host=".
RowsAreOfTheHost ==
  Settled => \A i \in DOMAIN rows : host = AllHosts \/ rows[i].host = host

\* Where fetches succeed and each is over before the next is sent, the page is
\* right: lines of the chosen host, none twice, out of order or left out, and
\* paging continues where they stop, whatever was appended, trimmed or chosen
\* in between.
Orderly == ~overlapped /\ failures = 0
OrderlyTable ==
  Orderly => RowsDescend /\ NoGaps /\ CursorsMatchRows /\ RowsAreOfTheHost
=============================================================================
