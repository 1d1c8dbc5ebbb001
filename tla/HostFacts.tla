------------------------------- MODULE HostFacts -------------------------------
(***************************************************************************)
(* What a host says of itself that the server acts on: whether it needs a   *)
(* reboot, which puts it in the group state:needs-reboot that a reboot can  *)
(* be asked of, and the tailnet it is on, which the server goes on showing   *)
(* when the host no longer can.                                             *)
(*                                                                         *)
(* The host finds out by asking a ladder of tools, any of which may be       *)
(* missing or fail; without one, it compares the versions of kernels.  What  *)
(* it found travels in a check-in, during which packages are installed and   *)
(* the host boots.  The server reads the record and saves it in two          *)
(* transactions, and so do its handlers of results.                         *)
(***************************************************************************)
EXTENDS Integers, Sequences, SequencesExt, FiniteSetsExt

CONSTANTS
  Machines,    \* what the host may be: its tools, its OS, has it updates?
  Kernels,     \* the versions of its kernel as rpm has them, in the order of
               \* their release
  Flavours,    \* and as uname has them on SUSE
  Tailnets,    \* the tailnets it may join
  NoName,      \* a tailnet's name left out
  MaxKernels,  \* bound: kernels installed at a time
  MaxEvents    \* bound: packages changed, boots, failures, losses, deletions

\* The tools that say whether a reboot is due; "flag": a host whose package
\* manager leaves a flag file; "rpm": one whose kernels rpm can list.
Tools == {"flag", "needs-restarting", "zypper", "rpm"}

ASSUME FactBounds ==
  /\ \A m \in Machines : m.tools \subseteq Tools
  /\ NoName \notin Tailnets
  /\ MaxKernels \in Nat \ {0} /\ MaxEvents \in Nat

VARIABLES
  machine,    \* the host
  running,    \* the kernel that runs
  installed,  \* the kernels installed, in the order rpm lists them
  stale,      \* were packages that want a reboot installed since the boot?
  tailnet,    \* what the host can tell of its tailnet at the moment
  report,     \* the facts read for a check-in, before and after it is published
  store,      \* the host's record
  handling,   \* what the handlers of the server are about to save
  raced,      \* history: was a record saved that was not made of the stored
              \* one, and no tailnet seen since?
  request,    \* a reboot asked of the group
  excused,    \* history: was the reboot last decided on by an answer that need
              \* not be one?
  seenOn,     \* history: the tailnet last seen of the stored record's host
  happened

host == <<machine, running, installed, stale, tailnet>>
grant == <<request, excused>>
server == <<store, handling, raced, seenOn>>
factsVars == <<host, report, server, grant, happened>>

Names == Tailnets \cup {NoName}
Silent == [said |-> FALSE]
\* TailscaleInfo, and Tailscale with the server's memory of it; a name is the
\* tailnet's, or the suffix of its DNS names.
TailscaleInfos == {Silent} \cup [said : {TRUE}, connected : BOOLEAN, name : Names]
Entries == {Silent} \cup
  [said : {TRUE}, connected : BOOLEAN, name : Names, last : Names]

None == [pc |-> "none"]
Reports == {None} \cup
  [pc : {"read", "sent"}, need : BOOLEAN, tailscale : TailscaleInfos]
Unknown == [known |-> FALSE, need |-> FALSE, tailscale |-> Silent]
Systems == {Unknown} \cup [known : {TRUE}, need : BOOLEAN, tailscale : Entries]

\* The results' handlers are three; here, any of them.
Handlers == {"checkin", "result"}
Idle == [busy |-> FALSE]
Handlings == {Idle} \cup [busy : {TRUE}, read : Systems, report : Reports]

FactsTypeOK ==
  /\ machine \in Machines
  /\ running \in DOMAIN Kernels
  /\ installed \in Seq(DOMAIN Kernels)
  /\ stale \in BOOLEAN
  /\ tailnet \in TailscaleInfos
  /\ report \in Reports
  /\ store \in Systems
  /\ handling \in [Handlers -> Handlings] /\ raced \in BOOLEAN
  /\ request \in {"none", "resolved", "sent", "accepted"}
  /\ excused \in BOOLEAN
  /\ seenOn \in Names
  /\ happened \in 0 .. MaxEvents

\* The host runs the one kernel it has and was never heard of.
FactsInit ==
  /\ machine \in Machines
  /\ \E k \in DOMAIN Kernels : running = k /\ installed = <<k>>
  /\ stale = FALSE
  /\ tailnet = Silent
  /\ report = None
  /\ store = Unknown
  /\ handling = [h \in Handlers |-> Idle] /\ raced = FALSE
  /\ request = "none"
  /\ excused = FALSE
  /\ seenOn = NoName
  /\ happened = 0

Happens == happened < MaxEvents /\ happened' = happened + 1

(***************************************************************************)
(* Versions (hostinfo/version.go): a version is the sequence of its runs of  *)
(* digits and of letters, which are numbered; separators do not count.      *)
(***************************************************************************)
Smaller(m, n) == IF m < n THEN m ELSE n
Sign(n) == CASE n > 0 -> 1 [] n = 0 -> 0 [] n < 0 -> -1

\* Go's comparison of strings.
CompareText(s, t) ==
  LET apart == {i \in 1 .. Smaller(Len(s), Len(t)) : s[i] # t[i]}
  IN  IF apart = {} THEN Sign(Len(s) - Len(t))
      ELSE Sign(s[Min(apart)] - t[Min(apart)])

TrimZeros(digits) ==
  LET rest == {i \in DOMAIN digits : digits[i] # 0}
  IN  IF rest = {} THEN <<>> ELSE SubSeq(digits, Min(rest), Len(digits))

\* Slip: numbers are compared as texts.
CompareRuns_AsText(a, b) ==
  IF a.numeric # b.numeric THEN (IF a.numeric THEN 1 ELSE -1)
  ELSE CompareText(a.chars, b.chars)

\* A number is newer than a word, the longer number than the shorter.
CompareRuns(a, b) ==
  LET x == TrimZeros(a.chars)
      y == TrimZeros(b.chars)
  IN
  IF a.numeric # b.numeric THEN (IF a.numeric THEN 1 ELSE -1)
  ELSE IF ~a.numeric THEN CompareText(a.chars, b.chars)
  ELSE IF Len(x) # Len(y) THEN Sign(Len(x) - Len(y))
  ELSE CompareText(x, y)

\* The first runs that differ decide; failing that, having more of them.
CompareVersions(v, w) ==
  LET apart == {i \in 1 .. Smaller(Len(v), Len(w)) : CompareRuns(v[i], w[i]) # 0}
  IN  IF apart = {} THEN Sign(Len(v) - Len(w))
      ELSE CompareRuns(v[Min(apart)], w[Min(apart)])

\* How the kernels compare, by their numbers.
Compared == [k, l \in DOMAIN Kernels |-> CompareVersions(Kernels[k], Kernels[l])]

NoKernel == 0
NewestVersion(kernels) ==
  LET newest[i \in 0 .. Len(kernels)] ==
        IF i = 0 THEN NoKernel
        ELSE IF \/ newest[i - 1] = NoKernel
                \/ Compared[kernels[i], newest[i - 1]] > 0
        THEN kernels[i] ELSE newest[i - 1]
  IN  newest[Len(kernels)]

(***************************************************************************)
(* Does the host need a reboot? (hostinfo/reboot.go)                        *)
(***************************************************************************)
\* SUSE names the running kernel by its flavour, as in 6.9.1-1-default, where
\* rpm has a build and an architecture; everywhere else the two agree.
Suse == "zypper" \in machine.tools
ComparedToFlavour ==
  [k, l \in DOMAIN Kernels |-> CompareVersions(Kernels[k], Flavours[l])]
ComparedToRunning(k) ==
  IF Suse THEN ComparedToFlavour[k, running] ELSE Compared[k, running]

KernelRebootNeeded ==
  /\ "rpm" \in machine.tools
  /\ ComparedToRunning(NewestVersion(installed)) > 0

\* runExitCode: a tool killed by a signal has not answered.
Killed == -1

\* The rungs of the ladder: a tool that answers is believed, whatever made it
\* exit so.
Answers(tool, exit) == tool \in machine.tools /\ exit[tool] # Killed

LinuxRebootRequired(exit) ==
  IF "flag" \in machine.tools /\ stale THEN TRUE
  ELSE IF Answers("needs-restarting", exit) THEN exit["needs-restarting"] = 1
  ELSE IF Answers("zypper", exit) THEN exit["zypper"] = 102
  ELSE KernelRebootNeeded

\* How a tool exits when it does its work, and how when it does not.
Works == [tool \in {"needs-restarting", "zypper"} |->
            CASE ~stale -> 0
              [] stale /\ tool = "zypper" -> 102
              [] stale /\ tool = "needs-restarting" -> 1]
Exits(tool) == {Works[tool], Killed, 1}
Outcomes ==
  IF happened < MaxEvents
  THEN {e \in [DOMAIN Works -> {0, 1, 102, Killed}] :
          \A tool \in DOMAIN Works : e[tool] \in Exits(tool)}
  ELSE {Works}

\* A failure is one of the bounded events.
Tried(exit) == happened' = IF exit = Works THEN happened ELSE happened + 1

(***************************************************************************)
(* The tailnet, as the host sees it (hostinfo/tailscale.go).                *)
(***************************************************************************)

\* What the daemon's socket, or else its CLI, says: running, with a node key,
\* and on which tailnet.
Unanswered == [answered |-> FALSE]
Statuses == {Unanswered} \cup
  [answered : {TRUE}, running : BOOLEAN, key : BOOLEAN, name : Names]

\* parseTailscaleStatus: "only speak up for a host that has actually joined a
\* tailnet at some point".
ParseTailscaleStatus(status) ==
  IF status.answered /\ (status.running \/ status.key \/ status.name # NoName)
  THEN [said |-> TRUE, connected |-> status.running, name |-> status.name]
  ELSE Silent

\* TailscaleStatus: failing that, an address on one of its interfaces shows that
\* the host is connected, and not to which tailnet.
TailscaleStatus(socket, cli, address) ==
  IF ParseTailscaleStatus(socket).said THEN ParseTailscaleStatus(socket)
  ELSE IF ParseTailscaleStatus(cli).said THEN ParseTailscaleStatus(cli)
  ELSE IF address THEN [said |-> TRUE, connected |-> TRUE, name |-> NoName]
  ELSE Silent

Sights ==
  {TailscaleStatus(s, c, a) : s \in Statuses, c \in Statuses, a \in BOOLEAN}

(***************************************************************************)
(* The host.                                                               *)
(***************************************************************************)
InstallKernel(k) ==
  /\ Happens
  /\ Len(installed) < MaxKernels
  /\ k \notin Range(installed)
  /\ installed' = Append(installed, k)
  /\ stale' = TRUE
  /\ UNCHANGED <<machine, running, tailnet, report, server, grant>>

\* The package manager never removes the kernel that runs.
RemoveKernel(i) ==
  /\ Happens
  /\ installed[i] # running
  /\ installed' = RemoveAt(installed, i)
  /\ UNCHANGED <<machine, running, stale, tailnet, report, server, grant>>

InstallLibraries ==
  /\ Happens
  /\ stale' = TRUE
  /\ UNCHANGED <<machine, running, installed, tailnet, report, server,
                 grant>>

\* The daemon is started or stopped, joins or leaves, is upgraded or hidden.
TailscaleChanges(seen) ==
  /\ Happens
  /\ tailnet' = seen
  /\ UNCHANGED <<machine, running, installed, stale, report, server,
                 grant>>

\* Collect, for the next check-in.
Collect(exit) ==
  /\ report = None
  /\ Tried(exit)
  /\ report' = [pc |-> "read", need |-> LinuxRebootRequired(exit),
                tailscale |-> tailnet]
  /\ UNCHANGED <<host, server, grant>>

PublishCheckIn ==
  /\ report.pc = "read"
  /\ report' = [report EXCEPT !.pc = "sent"]
  /\ UNCHANGED <<host, server, grant, happened>>

Lose ==
  /\ report.pc = "sent"
  /\ Happens
  /\ report' = None
  /\ UNCHANGED <<host, server, grant>>

\* decide: the host asks its own tools before it believes the server.
\* Slip: it does not.
MayReboot_Trusting(exit) == TRUE
MayReboot(exit) == LinuxRebootRequired(exit)

\* needs-restarting exits with 1 when it says yes and when it fails.  Where
\* zypper does not answer, SUSE's two names for a kernel are compared.
Doubtful(exit) ==
  \/ /\ ~stale
     /\ Answers("needs-restarting", exit) /\ exit["needs-restarting"] = 1
  \/ Suse /\ ~Answers("zypper", exit)

Decide(exit) ==
  /\ request = "sent"
  /\ Tried(exit)
  /\ request' = IF MayReboot(exit) THEN "accepted" ELSE "none"
  /\ excused' = Doubtful(exit)
  /\ UNCHANGED <<host, report, server>>

\* The host goes down, asked or not, and boots a kernel it has.  What the client
\* had not published is lost.
Boot(k) ==
  /\ Happens
  /\ k \in Range(installed)
  /\ running' = k
  /\ stale' = FALSE
  /\ report' = IF report.pc = "read" THEN None ELSE report
  /\ request' = IF request = "accepted" THEN "none" ELSE request
  /\ UNCHANGED <<machine, installed, tailnet, server, excused>>

(***************************************************************************)
(* The server's record (server/models/tailscale.go).                       *)
(***************************************************************************)
KnownTailnet(entry) ==
  IF ~entry.said THEN NoName
  ELSE IF entry.last # NoName THEN entry.last ELSE entry.name

Named(info) == info.said /\ info.connected /\ info.name # NoName

\* Slip: a host that says nothing loses its entry.
MergeTailscale_Forgets(previous, incoming) ==
  IF ~incoming.said THEN Silent
  ELSE [said |-> TRUE, connected |-> incoming.connected, name |-> incoming.name,
        last |-> IF Named(incoming) THEN incoming.name
                 ELSE KnownTailnet(previous)]

\* "once a host has been seen on a tailnet, it keeps an entry".
MergeTailscale(previous, incoming) ==
  IF ~incoming.said /\ ~previous.said THEN Silent
  ELSE [said |-> TRUE,
        connected |-> incoming.said /\ incoming.connected,
        name |-> IF incoming.said THEN incoming.name ELSE NoName,
        last |-> IF Named(incoming) THEN incoming.name
                 ELSE KnownTailnet(previous)]

\* A handler reads the record.  There is one goroutine per subscription.
Read(h, facts) ==
  handling[h] = Idle /\
  handling' = [handling EXCEPT
                 ![h] = [busy |-> TRUE, read |-> store, report |-> facts]]

ReadForCheckIn ==
  /\ report.pc = "sent"
  /\ Read("checkin", report)
  /\ report' = None
  /\ UNCHANGED <<host, store, raced, seenOn, grant, happened>>

\* A run, a reboot or a benchmark has something to say; of a host that is not
\* stored it is dropped.
ReadForResult ==
  /\ Happens
  /\ store.known
  /\ Read("result", None)
  /\ UNCHANGED <<host, report, store, raced, seenOn, grant>>

\* What a check-in makes of the record it read.
CheckedIn(read, facts) ==
  [known |-> TRUE, need |-> facts.need,
   tailscale |-> MergeTailscale(read.tailscale, facts.tailscale)]

\* It saves what it made of it, over whatever was saved since.
SaveCheckIn ==
  LET h == handling["checkin"]
      named == Named(h.report.tailscale)
  IN  /\ h # Idle
      /\ store' = CheckedIn(h.read, h.report)
      /\ seenOn' = IF named THEN h.report.tailscale.name ELSE seenOn
      /\ raced' = (~named /\ (raced \/ h.read # store))
      /\ handling' = [handling EXCEPT !["checkin"] = Idle]
      /\ UNCHANGED <<host, report, grant, happened>>

SaveResult ==
  LET h == handling["result"]
  IN  /\ h # Idle
      /\ store' = h.read
      /\ raced' = (raced \/ h.read # store)
      /\ handling' = [handling EXCEPT !["result"] = Idle]
      /\ UNCHANGED <<host, report, seenOn, grant, happened>>

\* The write fails, and that is logged, or the server dies before it.
FailSave(h) ==
  /\ Happens
  /\ handling[h] # Idle
  /\ handling' = [handling EXCEPT ![h] = Idle]
  /\ UNCHANGED <<host, report, store, raced, seenOn, grant>>

DeleteSystem ==
  /\ Happens
  /\ store.known
  /\ store' = Unknown
  /\ seenOn' = NoName
  /\ UNCHANGED <<host, report, handling, raced, grant>>

(***************************************************************************)
(* Derived groups (server/models/derived.go, api/groups.go).               *)
(***************************************************************************)
Rule(needles, family, pkg) == [match |-> needles, family |-> family, pkg |-> pkg]
OSFamilyRules == <<
  Rule({"darwin", "macos", "mac os"}, "macos", "brew"),
  Rule({"pop!_os", "pop_os", "pop-os", "pop os"}, "pop-os", "deb"),
  Rule({"linux mint", "linuxmint"}, "mint", "deb"),
  Rule({"raspbian", "raspberry pi os"}, "raspbian", "deb"),
  Rule({"kali"}, "kali", "deb"), Rule({"devuan"}, "devuan", "deb"),
  Rule({"ubuntu"}, "ubuntu", "deb"), Rule({"debian"}, "debian", "deb"),
  Rule({"rocky"}, "rocky", "rpm"),
  Rule({"almalinux", "alma linux"}, "alma", "rpm"),
  Rule({"centos"}, "centos", "rpm"), Rule({"oracle linux"}, "oracle", "rpm"),
  Rule({"amazon linux"}, "amazon", "rpm"),
  Rule({"scientific linux"}, "scientific", "rpm"),
  Rule({"red hat", "redhat", "rhel"}, "rhel", "rpm"),
  Rule({"fedora"}, "fedora", "rpm"),
  Rule({"opensuse", "suse"}, "suse", "rpm"), Rule({"nixos"}, "nixos", "nix"),
  Rule({"manjaro"}, "manjaro", "pacman"),
  Rule({"endeavouros"}, "endeavouros", "pacman"),
  Rule({"arch linux", "archlinux"}, "arch", "pacman"),
  Rule({"gentoo"}, "gentoo", "portage"), Rule({"alpine"}, "alpine", "apk"),
  Rule({"void linux"}, "void", "xbps") >>

\* OSFamily, PackageFamily: by the first rule with a needle in the OS's name,
\* which is given by the needles it holds.
OSRule(os) == {i \in DOMAIN OSFamilyRules : OSFamilyRules[i].match \cap os # {}}

\* DeriveGroups, for one host: the groups it is in.
DeriveGroups(system) ==
  IF ~system.known THEN {}
  ELSE LET rules == OSRule(machine.os)
           first == OSFamilyRules[Min(rules)]
       IN  (IF rules = {} THEN {}
            ELSE {<<"os", first.family>>, <<"pkg", first.pkg>>})
           \cup {<<"arch", machine.arch>>}
           \cup (IF system.need THEN {<<"state", "needs-reboot">>} ELSE {})
           \cup (IF machine.updates THEN {<<"state", "has-updates">>} ELSE {})

\* FindDerivedGroup: a group without members does not exist.
InGroup(group) == group \in DeriveGroups(store)

\* resolveGroup: the members are those of the moment.
ResolveGroup(group) ==
  /\ request = "none"
  /\ InGroup(group)
  /\ request' = "resolved"
  /\ UNCHANGED <<host, report, server, excused, happened>>

\* The ladder before a host is asked: it must be stored, and need a reboot.
Attempt ==
  /\ request = "resolved"
  /\ request' = IF store.known /\ store.need THEN "sent" ELSE "none"
  /\ UNCHANGED <<host, report, server, excused, happened>>

Groups == {<<"state", "needs-reboot">>, <<"pkg", "rpm">>}

FactsNext ==
  \/ \E k \in DOMAIN Kernels : InstallKernel(k) \/ Boot(k)
  \/ \E i \in DOMAIN installed : RemoveKernel(i)
  \/ InstallLibraries
  \/ \E seen \in Sights : TailscaleChanges(seen)
  \/ \E exit \in Outcomes : Decide(exit) \/ Collect(exit)
  \/ PublishCheckIn \/ Lose
  \/ ReadForCheckIn \/ ReadForResult \/ SaveCheckIn \/ SaveResult
  \/ \E h \in Handlers : FailSave(h)
  \/ DeleteSystem
  \/ \E group \in Groups : ResolveGroup(group)
  \/ Attempt

FactsSpec == FactsInit /\ [][FactsNext]_factsVars

-----------------------------------------------------------------------------
(***************************************************************************)
(* Safety.                                                                 *)
(***************************************************************************)

\* The reference: something was installed that the running system lacks.
NewerKernel == \E k \in Range(installed) : k > running
Due == stale \/ NewerKernel

\* "any uncertainty ... yields false": however old the record is that puts it in
\* the group, no host goes down for a reboot of the group unless one is due to
\* it.  Apart from the two answers that say yes when they should not: that of a
\* needs-restarting that fails, and that of kernels with names of two kinds.
SparesTheSettled ==
  [][request = "sent" /\ request' = "accepted" => Due \/ excused']_factsVars

\* "a host that has left its tailnet ... keeps the tailnet it was last seen on",
\* whatever the host and its tools can or cannot tell from one check-in to the
\* next; unless a handler saved over a record that it had not read, and then
\* until the host is seen on a tailnet again.
TailnetIsRemembered ==
  ~raced /\ store.known /\ seenOn # NoName =>
    store.tailscale.said /\ store.tailscale.last = seenOn

-----------------------------------------------------------------------------
(***************************************************************************)
(* Liveness: clients check in again and again, and the handlers finish.     *)
(***************************************************************************)
FactsFairSpec ==
  /\ FactsSpec
  /\ WF_factsVars(Collect(Works))
  /\ WF_factsVars(PublishCheckIn)
  /\ WF_factsVars(ReadForCheckIn)
  /\ WF_factsVars(SaveCheckIn)
  /\ WF_factsVars(SaveResult)

\* What the tools that the host has can tell.
Noticeable ==
  \/ machine.tools \cap {"flag", "needs-restarting", "zypper"} # {} /\ stale
  \/ machine.tools = {"rpm"} /\ NewerKernel

\* The group follows the host: one that needs a reboot and can tell gets into
\* it, and one that needs none gets out of it.
NeedsReboot == InGroup(<<"state", "needs-reboot">>)
GroupFollows ==
  /\ Noticeable ~> NeedsReboot \/ ~Noticeable
  /\ ~Due ~> ~NeedsReboot \/ Due
=============================================================================
