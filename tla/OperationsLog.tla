----------------------------- MODULE OperationsLog -----------------------------
(***************************************************************************)
(* The operations log the server keeps (server/storage/operations.go): an  *)
(* append-only list of lines about hosts, numbered without reuse, of which *)
(* the newest Kept survive, and the pages the API reads from it.  An       *)
(* append is one read-write transaction of the database and a page one     *)
(* read transaction, so each is a single step; an append that fails leaves *)
(* nothing behind, its sequence number included.                           *)
(***************************************************************************)
EXTENDS Naturals, FiniteSetsExt

CONSTANTS
  Hosts,       \* hosts a line may be about
  AllHosts,    \* the empty ?host=: lines about anyone
  Kept,        \* operationsKept
  MaxAppends   \* bound: lines ever appended

ASSUME LogAssumption ==
  /\ Kept \in Nat \ {0}
  /\ MaxAppends \in Nat
  /\ AllHosts \notin Hosts

VARIABLES
  seq,   \* the bucket's sequence: the number of the last line appended
  log    \* the bucket: from sequence number to the host the line is about

logVars == <<seq, log>>

Keys == DOMAIN log

LogTypeOK ==
  /\ seq \in 0 .. MaxAppends
  /\ Keys \subseteq 1 .. seq
  /\ \A k \in Keys : log[k] \in Hosts

LogInit ==
  /\ seq = 0
  /\ log = [k \in {} |-> AllHosts]

\* Slip: the line at the cutoff stays.
Surplus_Short(n) == {k \in 1 .. n : k + Kept < n}

\* With line n appended, every key up to n - Kept is surplus.
Surplus(n) == {k \in 1 .. n : k + Kept <= n}

AppendOperation(h) ==
  /\ seq < MaxAppends
  /\ seq' = seq + 1
  /\ log' = [k \in (Keys \cup {seq'}) \ Surplus(seq') |->
               IF k = seq' THEN h ELSE log[k]]

LogNext == \E h \in Hosts : AppendOperation(h)

LogSpec == LogInit /\ [][LogNext]_logVars

(***************************************************************************)
(* GetOperations: a cursor walks the keys downwards from where it starts   *)
(* and collects up to limit lines of the host.  Key 0 is no key.           *)
(***************************************************************************)
PrevKey(k) == LET below == {j \in Keys : j < k}
              IN IF below = {} THEN 0 ELSE Max(below)
LastKey == PrevKey(seq + 1)
SeekKey(k) == LET above == {j \in Keys : j >= k}
              IN IF above = {} THEN 0 ELSE Min(above)

\* Slip: the walk starts where Seek landed.
StartKey_NoStepBack(before) ==
  IF before = 0 \/ SeekKey(before) = 0 THEN LastKey ELSE SeekKey(before)

\* Seek lands on the first key at or after before; one back is strictly below.
StartKey(before) ==
  IF before = 0 \/ SeekKey(before) = 0 THEN LastKey ELSE PrevKey(SeekKey(before))

Concerns(k, h) == h = AllHosts \/ log[k] = h

GetOperations(h, before, limit) ==
  LET collect[k \in Keys \cup {0}] ==
        [room \in 0 .. limit |->
           IF k = 0 \/ room = 0 THEN {}
           ELSE IF Concerns(k, h) THEN {k} \cup collect[PrevKey(k)][room - 1]
           ELSE collect[PrevKey(k)][room]]
  IN  collect[StartKey(before)][limit]

-----------------------------------------------------------------------------

\* "The log keeps the newest 10,000 entries": those, and no gap among them.
KeepsTheNewest == Keys = {k \in 1 .. seq : seq < k + Kept}

\* "append-only; nothing here is ever rewritten": a line stays what it was
\* until it is dropped, and no number is ever given out again.
AppendOnly ==
  [][/\ \A k \in Keys \cap DOMAIN log' : log'[k] = log[k]
     /\ \A k \in DOMAIN log' \ Keys : k > seq]_logVars

\* What a page should be, without a cursor: the newest lines of the host below
\* before, up to limit of them.
Eligible(h, before) ==
  {k \in Keys : Concerns(k, h) /\ (before = 0 \/ k < before)}
NewestOf(S, n) == {k \in S : Cardinality({j \in S : j > k}) < n}

\* Every page the cursor reads is that one, also when the line it starts from
\* has been dropped or was never there.
PagesAreExact ==
  \A h \in Hosts \cup {AllHosts} :
    \A before \in 0 .. MaxAppends + 1, limit \in 1 .. Kept :
      GetOperations(h, before, limit) = NewestOf(Eligible(h, before), limit)
=============================================================================
