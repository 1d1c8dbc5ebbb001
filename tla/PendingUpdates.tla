---------------------------- MODULE PendingUpdates -----------------------------
(***************************************************************************)
(* How a host finds out what updates it lacks (client/updates).  A check   *)
(* asks every package manager in turn, merges what they say and reports    *)
(* that updates are available, that the host is current, or that nobody    *)
(* knows.  A manager answers from metadata it keeps on the host, which the *)
(* client may or may not be able to refresh first; refreshing, listing or  *)
(* both may fail, and some managers keep a failure to themselves.          *)
(* Meanwhile updates are published, and installed by the administrator.    *)
(*                                                                         *)
(* The managers, their mirrors and the administrator are external.  An     *)
(* update is known by the line that its manager prints of it, for the      *)
(* client reads what is printed for people, and passes over lines that do  *)
(* not look like an update.  Of the updates with a line of one kind, the   *)
(* model keeps whether the metadata lists one that is not installed, and   *)
(* how long ago the oldest one was published that it does not list.        *)
(* Expire ticks of the clock are dnfMetadataExpire.  A query is one step.  *)
(***************************************************************************)
EXTENDS Naturals

CONSTANTS
  Hosts,        \* the sets of package managers a host may have
  Lines,        \* the kinds of lines in which an update may be printed,
  Prints,       \* and those in which a manager prints the updates there are
  Expire,       \* dnfMetadataExpire
  RepoExpire,   \* the metadata_expire that repositories set themselves
  MaxFailures,  \* bound: queries in which something goes wrong
  None          \* no such update

Managers == {"apt", "dnf", "yum", "zypper", "nixos", "brew"}

\* What may be the matter with a line: it has "rpm", "metadata", a bar or a
\* size in it; its name, version or repository is not of the usual form; it
\* is not under the heading "paths will be fetched" of nixos-rebuild.
Oddities == {"status", "name", "version", "repository", "section"}

ASSUME UpdatesAssumption ==
  /\ Hosts \subseteq SUBSET Managers
  /\ Lines \subseteq SUBSET Oddities /\ Prints \in [Managers -> SUBSET Lines]
  /\ \A h \in Hosts : "brew" \in h => h = {"brew"}
  /\ Expire \in Nat \ {0} /\ RepoExpire \in Nat /\ Expire <= RepoExpire
  /\ MaxFailures \in Nat /\ None \notin Nat

VARIABLES
  installed,  \* the host's package managers: brew on macOS, others on Linux
  root, sudo, \* does the client run as root, may it use sudo?
  known,      \* the lines of the updates listed that are not installed
  unseen,     \* age of the oldest update of each line that is not listed
  age,        \* how long ago dnf and yum downloaded all of the metadata
  turn,       \* the manager a check asks next; "report"; or "idle"
  answers,    \* what the managers have said in this check
  status,     \* what was reported last
  missed,     \* history: asked, they did not tell of an update that was due
  trouble,    \* history: what went wrong as they were asked
  failures    \* how often something did

host == <<installed, root, sudo>>
metadata == <<known, unseen, age>>
vars == <<host, metadata, turn, answers, status, missed, trouble, failures>>

Answers == [detected : BOOLEAN, found : BOOLEAN, failed : BOOLEAN,
            skipped : BOOLEAN]

Answer(d, f, x, s) ==
  [detected |-> d, found |-> f, failed |-> x, skipped |-> s]
Undetected == Answer(FALSE, FALSE, FALSE, FALSE)
CheckFailed == Answer(TRUE, FALSE, TRUE, FALSE)

(***************************************************************************)
(* What the collectors make of what is printed.  dnf's has its validators  *)
(* (isRepoStatusLine and those of the three fields), which reject a        *)
(* package line rather than take something else for one; nixos's reads one *)
(* section; apt's, zypper's and brew's take every update, and yum's every  *)
(* line of three words, be it an update or not.                            *)
(***************************************************************************)
Accepts(m, line) ==
  CASE m = "dnf" -> line \subseteq {"section"}
    [] m = "nixos" -> "section" \notin line
    [] OTHER -> TRUE

Parsed(m, lines) == {line \in lines : Accepts(m, line)}

Listing(m, lines) == Answer(TRUE, Parsed(m, lines) # {}, FALSE, FALSE)
LowerBound(m, lines) == [Listing(m, lines) EXCEPT !.skipped = TRUE]
Chatter == Answer(TRUE, TRUE, FALSE, FALSE)

\* What may go wrong with a query: a command fails, or it leaves something
\* out and succeeds.
Troubles == {"none", "failed", "omitted"}

\* Every variable keeps to its type.
TypeOK ==
  /\ installed \in Hosts /\ root \in BOOLEAN /\ sudo \in BOOLEAN
  /\ known \in [Managers -> SUBSET Lines]
  /\ unseen \in [Managers -> [Lines -> 0 .. Expire \cup {None}]]
  /\ age \in [Managers -> 0 .. RepoExpire]
  /\ turn \in Managers \cup {"report", "idle"}
  /\ answers \in [Managers -> Answers]
  /\ status \in {"none", "available", "current", "unknown"}
  /\ missed \subseteq Managers /\ trouble \in [Managers -> Troubles]
  /\ failures \in 0 .. MaxFailures

Init ==
  /\ installed \in Hosts /\ root \in BOOLEAN /\ sudo \in BOOLEAN
  /\ known = [m \in Managers |-> {}]
  /\ unseen = [m \in Managers |-> [line \in Lines |-> None]]
  /\ age = [m \in Managers |-> 0]
  /\ turn = "idle" /\ answers = [m \in Managers |-> Undetected]
  /\ status = "none" /\ missed = {} /\ failures = 0
  /\ trouble = [m \in Managers |-> "none"]

(***************************************************************************)
(* The world.  Where dnf is installed, yum is another name for it.  As     *)
(* another user than root, dnf and yum keep metadata of their own that     *)
(* the administrator's does not refresh.                                   *)
(***************************************************************************)
Offers(m) == m \in installed /\ (m = "yum" => "dnf" \notin installed)

Expiring == {"dnf", "yum"}

Shared(m) == root \/ m \notin Expiring

\* What is published after an unseen update is unseen as well.
Publish(m) ==
  /\ Offers(m)
  /\ \E line \in Prints[m] :
       /\ unseen[m][line] = None
       /\ unseen' = [unseen EXCEPT ![m][line] = 0]
  /\ UNCHANGED <<host, known, age, turn, answers, status, missed, trouble,
                 failures>>

\* Metadata gets to list what has been published, all of it or some.
Fetch(m, lines) ==
  /\ known' = [known EXCEPT
                 ![m] = @ \cup {line \in lines : unseen[m][line] # None}]
  /\ unseen' = [unseen EXCEPT ![m] = [line \in Lines |->
                  IF line \in lines THEN None ELSE unseen[m][line]]]

Download(m) == Fetch(m, Lines) /\ age' = [age EXCEPT ![m] = 0]

DownloadSome(m) == \E lines \in SUBSET Lines : Fetch(m, lines) /\ UNCHANGED age

Install(m) ==
  /\ Offers(m)
  /\ \/ /\ Shared(m)                 \* what the metadata on the host lists,
        /\ known' = [known EXCEPT ![m] = {}] /\ UNCHANGED <<unseen, age>>
     \/ /\ Shared(m)                 \* everything, having refreshed it,
        /\ known' = [known EXCEPT ![m] = {}]
        /\ unseen' = [unseen EXCEPT ![m] = [line \in Lines |-> None]]
        /\ age' = [age EXCEPT ![m] = 0]
     \/ /\ ~Shared(m)                \* or what other metadata lists
        /\ \E old, new \in SUBSET Lines :
             /\ known' = [known EXCEPT ![m] = @ \ old]
             /\ unseen' = [unseen EXCEPT ![m] = [line \in Lines |->
                  IF line \in new THEN None ELSE unseen[m][line]]]
        /\ UNCHANGED age
  /\ UNCHANGED <<host, turn, answers, status, missed, trouble, failures>>

\* Beyond Expire and RepoExpire ages are all the same.
Tick ==
  /\ age' = [m \in Managers |->
               IF Offers(m) /\ m \in Expiring /\ age[m] < RepoExpire
               THEN age[m] + 1 ELSE age[m]]
  /\ unseen' = [m \in Managers |-> [line \in Lines |->
                  IF unseen[m][line] # None /\ unseen[m][line] < Expire
                  THEN unseen[m][line] + 1 ELSE unseen[m][line]]]
  /\ UNCHANGED <<host, known, turn, answers, status, missed, trouble,
                 failures>>

World == Tick \/ \E m \in Managers : Publish(m) \/ Install(m)

(***************************************************************************)
(* Asking a manager.                                                       *)
(***************************************************************************)
\* Slip: metadata_expire set without the "*." glob.
SyncIfOlder_NoGlob(m, expire) ==
  \/ age[m] >= RepoExpire /\ Download(m)
  \/ age[m] < RepoExpire /\ UNCHANGED metadata

SyncIfOlder(m, expire) ==
  \/ age[m] >= expire /\ Download(m)
  \/ age[m] < expire /\ UNCHANGED metadata

Detected(m) ==
  Offers(m) /\ (m = "nixos" => root \/ sudo)

\* apt and zypper: unrefreshed, an empty list is not believed.
Believed(m, refreshed) ==
  IF Parsed(m, known'[m]) # {} \/ refreshed THEN Listing(m, known'[m])
  ELSE CheckFailed

\* Slip: refreshed by everybody but root.
AskRefreshing_Inverted(m, a, t) ==
  \/ /\ ~root /\ Download(m)
     /\ \/ t = "none" /\ a = Believed(m, TRUE)
        \/ t = "failed" /\ a = CheckFailed
  \/ /\ UNCHANGED metadata
     /\ \/ t = (IF root THEN "none" ELSE "failed") /\ a = Believed(m, FALSE)
        \/ t = "failed" /\ a = CheckFailed

\* apt-get update succeeds although it got no more than some of the indexes.
AskRefreshing(m, a, t) ==
  \/ /\ root /\ Download(m)
     /\ \/ t = "none" /\ a = Believed(m, TRUE)
        \/ t = "failed" /\ a = CheckFailed
  \/ /\ root /\ m = "apt" /\ t = "omitted" /\ DownloadSome(m)
     /\ a = Believed(m, TRUE)
  \/ /\ UNCHANGED metadata
     /\ \/ t = (IF root THEN "failed" ELSE "none") /\ a = Believed(m, FALSE)
        \/ t = "failed" /\ a = CheckFailed

\* dnf: three rungs, the last of which leaves the expiry to the repositories,
\* while the second is as good as the first; it tells of repositories that it
\* leaves out.
SkipRepos(m, a) ==
  /\ DownloadSome(m)
  /\ \E lines \in SUBSET known'[m] : a = LowerBound(m, lines)

AskDnf(a, t) ==
  \/ /\ t = "none" /\ SyncIfOlder("dnf", Expire)
     /\ a = Listing("dnf", known'["dnf"])
  \/ t = "omitted" /\ SkipRepos("dnf", a)
  \/ /\ t = "failed" /\ SyncIfOlder("dnf", RepoExpire)
     /\ a = LowerBound("dnf", known'["dnf"])
  \/ t = "failed" /\ a = CheckFailed /\ UNCHANGED metadata

\* yum: says nothing of a repository it may go without, and its chatter may
\* be taken for an update.
AskYum(a, t) ==
  \/ /\ t = "none" /\ SyncIfOlder("yum", Expire)
     /\ a \in {Listing("yum", known'["yum"]), Chatter}
  \/ /\ t = "omitted" /\ DownloadSome("yum")
     /\ \/ \E lines \in SUBSET known'["yum"] : a = Listing("yum", lines)
        \/ a = Chatter
  \/ t = "failed" /\ a = CheckFailed /\ UNCHANGED metadata

\* nixos: a channel that does not update, or a dry run that fails with some
\* output, passes for a success.
AskNixos(a, t) ==
  \/ t = "none" /\ Download("nixos") /\ a = Listing("nixos", known'["nixos"])
  \/ /\ t = "failed" /\ (Download("nixos") \/ DownloadSome("nixos"))
     /\ \/ a = CheckFailed
        \/ \E lines \in SUBSET known'["nixos"] : a = Listing("nixos", lines)

\* brew: refreshes when it thinks fit.
AskBrew(a, t) ==
  \/ /\ t = "none" /\ (Download("brew") \/ UNCHANGED metadata)
     /\ a = Listing("brew", known'["brew"])
  \/ t = "failed" /\ a = CheckFailed /\ UNCHANGED metadata

Collect(m, a, t) ==
  IF ~Detected(m) THEN a = Undetected /\ t = "none" /\ UNCHANGED metadata
  ELSE \/ m \in {"apt", "zypper"} /\ AskRefreshing(m, a, t)
       \/ m = "dnf" /\ AskDnf(a, t)
       \/ m = "yum" /\ AskYum(a, t)
       \/ m = "nixos" /\ AskNixos(a, t)
       \/ m = "brew" /\ AskBrew(a, t)

\* An update whose line the client reads, which the metadata lists or does
\* not list yet, and one which it lists or should list by now.
Pending(m) ==
  \/ Parsed(m, known[m]) # {}
  \/ \E line \in Lines : Accepts(m, line) /\ unseen[m][line] # None

Due(m) ==
  \/ Parsed(m, known[m]) # {}
  \/ \E line \in Lines : Accepts(m, line) /\ unseen[m][line] = Expire

Mark(s, m, b) == IF b THEN s \cup {m} ELSE s \ {m}

After == [m \in Managers |->
            CASE m = "apt" -> "dnf" [] m = "dnf" -> "yum"
              [] m = "yum" -> "zypper" [] m = "zypper" -> "nixos"
              [] OTHER -> "report"]

Begin ==
  /\ turn = "idle"
  /\ turn' = IF installed = {"brew"} THEN "brew" ELSE "apt"
  /\ missed' = {} /\ trouble' = [m \in Managers |-> "none"]
  /\ UNCHANGED <<host, metadata, answers, status, failures>>

Ask(m) ==
  /\ turn = m
  /\ \E a \in Answers, t \in Troubles :
       /\ t = "none" \/ failures < MaxFailures
       /\ Collect(m, a, t)
       /\ answers' = [answers EXCEPT ![m] = a]
       /\ missed' = Mark(missed, m, Detected(m) /\ ~a.found /\ Due(m)')
       /\ trouble' = [trouble EXCEPT ![m] = t]
       /\ failures' = IF t # "none" THEN failures + 1 ELSE failures
  /\ turn' = After[m]
  /\ UNCHANGED <<host, status>>

(***************************************************************************)
(* The report: what the managers found, together, and what it amounts to.  *)
(***************************************************************************)
Merged ==
  LET told == {m \in Managers : answers[m].detected}
  IN [detected |-> told # {},
      found |-> \E m \in told : answers[m].found,
      failed |-> \E m \in told : answers[m].failed,
      skipped |-> \E m \in told : answers[m].skipped]

Status(r) ==
  IF ~r.detected THEN "unknown"
  ELSE IF r.found THEN "available"
  ELSE IF r.failed \/ r.skipped THEN "unknown" ELSE "current"

Report ==
  /\ turn = "report" /\ turn' = "idle"
  /\ status' = Status(Merged)
  /\ answers' = [m \in Managers |-> Undetected]
  /\ UNCHANGED <<host, metadata, missed, trouble, failures>>

Client == Begin \/ Report \/ \E m \in Managers : Ask(m)

Next == World \/ Client

Spec == Init /\ [][Next]_vars

\* The client checks again and again, no query hangs, and time passes.
FairSpec == Spec /\ WF_vars(Client) /\ WF_vars(Tick)

(***************************************************************************)
(* Properties.                                                             *)
(***************************************************************************)
\* Managers whose failures do not show: brew is not asked to refresh; apt
\* and yum succeed with less than everything; nixos is believed regardless.
Silent(m) ==
  \/ m = "brew"
  \/ m \in {"apt", "yum"} /\ trouble[m] = "omitted"
  \/ m = "nixos" /\ trouble[m] = "failed"

\* A host reported as current had no update due that was not told of, unless
\* its line is one that the parser passes over (parseDnfUpdates would rather
\* under-report; nixos-rebuild's other sections) or its manager keeps its
\* failures to itself: stale metadata, a repository that dnf skips or a ladder
\* descended to the last rung never pass for "nothing pending" (Status,
\* collectDnfUpdates, refreshAptMetadata).
CurrentMeansFresh ==
  turn = "idle" /\ status = "current" => \A m \in missed : Silent(m)

\* With a client that is root, an update whose line is read, of any manager it
\* asks, is reported or gone in the end, however old the metadata was and
\* whatever went wrong on the way (dnfMetadataExpire, the refreshes,
\* mergeUpdateResults).
NoticedInTheEnd ==
  \A m \in Managers \ {"brew"} :
    root /\ Detected(m) /\ Pending(m) ~> status = "available" \/ ~Pending(m)

\* "The command to query updates failed to run (e.g. exited non-zero ...)": an
\* empty list then means "we don't know" (CheckFailed).  False of nixos.
FailuresAreReported ==
  turn = "idle" /\ status = "current" =>
    \A m \in Managers : trouble[m] # "failed"
=============================================================================
