------------------------- MODULE PendingUpdatesProofs --------------------------
(***************************************************************************)
(* That a host reported as current is current, as far as its managers      *)
(* would tell: for any host, expiries and number of failures.              *)
(***************************************************************************)
EXTENDS PendingUpdates, TLAPS

\* What the metadata of dnf or yum does not list was published after all of it
\* was downloaded.
UnseenIsRecent ==
  \A m \in Expiring, line \in Lines :
    unseen[m][line] # None => Offers(m) /\ unseen[m][line] <= age[m]

\* While a check is under way, a manager that did not tell of an update that
\* was due admits as much in its answer.
MissesShow ==
  \A m \in missed :
    \/ Silent(m)
    \/ IF turn = "idle" THEN status # "current"
       ELSE answers[m].detected /\ (answers[m].failed \/ answers[m].skipped)

IInv == TypeOK /\ UnseenIsRecent /\ MissesShow

MetadataOK ==
  /\ known \in [Managers -> SUBSET Lines]
  /\ unseen \in [Managers -> [Lines -> 0 .. Expire \cup {None}]]
  /\ age \in [Managers -> 0 .. RepoExpire]
  /\ UnseenIsRecent

USE UpdatesAssumption DEF UpdatesAssumption

\* Fetching some of a manager's metadata keeps it well formed, and what was
\* fetched is seen.
LEMMA Fetched ==
  ASSUME MetadataOK, NEW m \in Managers, NEW lines \in SUBSET Lines,
         Fetch(m, lines), UNCHANGED host,
         age' \in [Managers -> 0 .. RepoExpire],
         \A n \in Managers : age'[n] = age[n] \/ (n = m /\ lines = Lines)
  PROVE  /\ MetadataOK'
         /\ \A line \in lines : unseen'[m][line] = None
<1>1. known' \in [Managers -> SUBSET Lines]
  BY DEF MetadataOK, Fetch
<1>2. unseen' \in [Managers -> [Lines -> 0 .. Expire \cup {None}]]
  BY DEF MetadataOK, Fetch
<1>3. \A n \in Managers, line \in Lines :
        \/ unseen'[n][line] = None
        \/ ~(n = m /\ line \in lines) /\ unseen'[n][line] = unseen[n][line]
  BY DEF MetadataOK, Fetch
<1>4. \A line \in lines : unseen'[m][line] = None
  BY DEF MetadataOK, Fetch
<1>5. UnseenIsRecent'
  <2> SUFFICES ASSUME NEW n \in Expiring, NEW line \in Lines,
                      unseen'[n][line] # None
               PROVE  Offers(n)' /\ unseen'[n][line] <= age'[n]
    BY DEF UnseenIsRecent
  <2>1. n \in Managers
    BY DEF Expiring, Managers
  <2>2. unseen'[n][line] = unseen[n][line] /\ age'[n] = age[n]
    BY <2>1, <1>3
  <2>3. Offers(n) /\ unseen[n][line] <= age[n]
    BY <2>2 DEF MetadataOK, UnseenIsRecent
  <2>4. QED
    BY <2>2, <2>3 DEF Offers, host
<1>6. QED
  BY <1>1, <1>2, <1>4, <1>5 DEF MetadataOK

\* Downloading all of it leaves nothing that it does not list.
LEMMA Downloaded ==
  ASSUME MetadataOK, NEW m \in Managers, Download(m), UNCHANGED host
  PROVE  MetadataOK' /\ \A line \in Lines : unseen'[m][line] = None
<1>1. /\ age' \in [Managers -> 0 .. RepoExpire]
      /\ \A n \in Managers : age'[n] = age[n] \/ (n = m /\ Lines = Lines)
  BY DEF MetadataOK, Download
<1>2. Lines \in SUBSET Lines /\ Fetch(m, Lines)
  BY DEF Download
<1>3. QED
  BY <1>1, <1>2, Fetched

\* Downloading some of it keeps it well formed.
LEMMA PartlyDownloaded ==
  ASSUME MetadataOK, NEW m \in Managers, DownloadSome(m), UNCHANGED host
  PROVE  MetadataOK'
<1>1. PICK lines \in SUBSET Lines : Fetch(m, lines) /\ UNCHANGED age
  BY DEF DownloadSome
<1>2. /\ age' \in [Managers -> 0 .. RepoExpire]
      /\ \A n \in Managers : age'[n] = age[n] \/ (n = m /\ lines = Lines)
  BY <1>1 DEF MetadataOK
<1>3. QED
  BY <1>1, <1>2, Fetched

\* Metadata nobody touches stays well formed.
LEMMA Untouched ==
  ASSUME MetadataOK, UNCHANGED metadata, UNCHANGED host
  PROVE  MetadataOK'
  BY DEF MetadataOK, UnseenIsRecent, Offers, metadata, host

\* Whatever a collector does, the metadata stays well formed.
LEMMA CollectKeeps ==
  ASSUME MetadataOK, NEW m \in Managers, NEW a \in Answers,
         NEW t \in Troubles, Collect(m, a, t), UNCHANGED host
  PROVE  MetadataOK'
<1>1. CASE UNCHANGED metadata
  BY <1>1, Untouched
<1>2. CASE \E n \in Managers : Download(n)
  BY <1>2, Downloaded
<1>3. CASE \E n \in Managers : DownloadSome(n)
  BY <1>3, PartlyDownloaded
<1>4. \/ UNCHANGED metadata
      \/ \E n \in Managers : Download(n) \/ DownloadSome(n)
  <2>0. ASSUME NEW n \in Managers, NEW expire, SyncIfOlder(n, expire)
        PROVE  UNCHANGED metadata \/ Download(n)
    BY <2>0 DEF SyncIfOlder
  <2>1. AskRefreshing(m, a, t) =>
          UNCHANGED metadata \/ Download(m) \/ DownloadSome(m)
    BY DEF AskRefreshing
  <2>2. AskDnf(a, t) =>
          UNCHANGED metadata \/ Download("dnf") \/ DownloadSome("dnf")
    BY <2>0 DEF AskDnf, SkipRepos, Managers
  <2>3. AskYum(a, t) =>
          UNCHANGED metadata \/ Download("yum") \/ DownloadSome("yum")
    BY <2>0 DEF AskYum, Managers
  <2>4. /\ AskNixos(a, t) => Download("nixos") \/ DownloadSome("nixos")
        /\ AskBrew(a, t) => UNCHANGED metadata \/ Download("brew")
    BY DEF AskNixos, AskBrew
  <2>5. QED
    BY <2>1, <2>2, <2>3, <2>4 DEF Collect, Managers
<1>5. QED
  BY <1>1, <1>2, <1>3, <1>4

\* After all of it was downloaded, what is due is what its list shows.
LEMMA DownloadShowsAll ==
  ASSUME MetadataOK, NEW m \in Managers, Download(m), UNCHANGED host, Due(m)'
  PROVE  Parsed(m, known'[m]) # {}
<1>1. \A line \in Lines : unseen'[m][line] = None
  BY Downloaded
<1>2. \A line \in Lines : unseen'[m][line] # Expire
  BY <1>1
<1>3. QED
  BY <1>2 DEF Due

\* Metadata synced at dnfMetadataExpire lists everything that is due.
LEMMA SyncedIsFresh ==
  ASSUME MetadataOK, NEW m \in Expiring, SyncIfOlder(m, Expire),
         UNCHANGED host, Due(m)'
  PROVE  Parsed(m, known'[m]) # {}
<1>0. m \in Managers
  BY DEF Expiring, Managers
<1>1. CASE Download(m)
  BY <1>0, <1>1, DownloadShowsAll
<1>2. CASE age[m] < Expire /\ UNCHANGED metadata
  <2>1. \A line \in Lines : unseen[m][line] # Expire
    BY <1>0, <1>2 DEF MetadataOK, UnseenIsRecent
  <2>2. \A line \in Lines : unseen'[m][line] # Expire
    BY <1>2, <2>1 DEF metadata
  <2>3. QED
    BY <2>2 DEF Due
<1>3. QED
  BY <1>1, <1>2 DEF SyncIfOlder

\* A collector that does not tell of an update that is due says that it does
\* not know, or is one of those that never say so.
LEMMA CollectShows ==
  ASSUME MetadataOK, NEW m \in Managers, NEW a \in Answers,
         NEW t \in Troubles, Collect(m, a, t), UNCHANGED host,
         Detected(m), ~a.found, Due(m)'
  PROVE  \/ m = "brew"
         \/ m \in {"apt", "yum"} /\ t = "omitted"
         \/ m = "nixos" /\ t = "failed"
         \/ a.detected /\ (a.failed \/ a.skipped)
<1>0. /\ CheckFailed.detected /\ CheckFailed.failed /\ Chatter.found
      /\ \A n, lines : Listing(n, lines).found <=> Parsed(n, lines) # {}
      /\ \A n, lines :
           LowerBound(n, lines).detected /\ LowerBound(n, lines).skipped
  BY DEF CheckFailed, Chatter, LowerBound, Listing, Answer
<1>1. CASE m \in {"apt", "zypper"} /\ AskRefreshing(m, a, t)
  <2>1. CASE Download(m) /\ a = Believed(m, TRUE)
    <3>1. Parsed(m, known'[m]) # {}
      BY <2>1, DownloadShowsAll
    <3>2. QED
      BY <1>0, <2>1, <3>1 DEF Believed
  <2>2. CASE a = Believed(m, FALSE)
    BY <1>0, <2>2 DEF Believed
  <2>3. CASE a = CheckFailed
    BY <1>0, <2>3
  <2>4. \/ Download(m) /\ a = Believed(m, TRUE)
        \/ m = "apt" /\ t = "omitted"
        \/ a = Believed(m, FALSE) \/ a = CheckFailed
    BY <1>1, Zenon DEF AskRefreshing
  <2>5. QED
    BY <2>1, <2>2, <2>3, <2>4
<1>2. CASE m = "dnf" /\ AskDnf(a, t)
  <2>1. ~(SyncIfOlder("dnf", Expire) /\ a = Listing("dnf", known'["dnf"]))
    BY <1>0, <1>2, SyncedIsFresh DEF Expiring
  <2>2. QED
    BY <1>0, <1>2, <2>1 DEF AskDnf, SkipRepos
<1>3. CASE m = "yum" /\ AskYum(a, t)
  <2>1. ~(SyncIfOlder("yum", Expire) /\ a = Listing("yum", known'["yum"]))
    BY <1>0, <1>3, SyncedIsFresh DEF Expiring
  <2>2. QED
    BY <1>0, <1>3, <2>1 DEF AskYum
<1>4. CASE m = "nixos" /\ AskNixos(a, t)
  <2>1. ~(Download("nixos") /\ a = Listing("nixos", known'["nixos"]))
    BY <1>0, <1>4, DownloadShowsAll
  <2>2. QED
    BY <1>4, <2>1 DEF AskNixos
<1>5. QED
  BY <1>1, <1>2, <1>3, <1>4 DEF Collect

\* The initial state satisfies the inductive invariant.
LEMMA InitIInv == Init => IInv
  BY DEF Init, IInv, TypeOK, UnseenIsRecent, MissesShow, Answers, Undetected,
         Answer, Troubles, Expiring, Managers

\* The world does not touch a check, and keeps the metadata well formed.
LEMMA WorldKeeps ==
  ASSUME IInv, World
  PROVE  IInv'
<1>1. /\ UNCHANGED <<host, turn, answers, status, missed, trouble, failures>>
      /\ MetadataOK'
  <2>0. MetadataOK
    BY DEF IInv, TypeOK, MetadataOK
  <2>1. CASE Tick
    <3>1. UNCHANGED <<host, turn, answers, status, missed, trouble, failures>>
      BY <2>1 DEF Tick
    <3>2. known' \in [Managers -> SUBSET Lines]
      BY <2>0, <2>1 DEF Tick, MetadataOK
    <3>3. \A m \in Managers, line \in Lines :
            /\ unseen'[m][line] \in 0 .. Expire \cup {None}
            /\ unseen'[m][line] # None =>
                 /\ unseen[m][line] # None
                 /\ unseen'[m][line] <= unseen[m][line] + 1
                 /\ unseen'[m][line] <= Expire
      BY <2>0, <2>1 DEF Tick, MetadataOK
    <3>4. \A m \in Managers :
            /\ age'[m] \in 0 .. RepoExpire
            /\ Offers(m) /\ m \in Expiring =>
                 age'[m] = age[m] + 1 \/ age'[m] = RepoExpire
      <4> SUFFICES ASSUME NEW m \in Managers
                   PROVE  /\ age'[m] \in 0 .. RepoExpire
                          /\ Offers(m) /\ m \in Expiring =>
                               age'[m] = age[m] + 1 \/ age'[m] = RepoExpire
        OBVIOUS
      <4>1. age[m] \in 0 .. RepoExpire
        BY <2>0 DEF MetadataOK
      <4>2. CASE Offers(m) /\ m \in Expiring /\ age[m] < RepoExpire
        <5>1. age'[m] = age[m] + 1
          BY <2>1, <4>2 DEF Tick
        <5>2. QED
          BY <4>1, <4>2, <5>1
      <4>3. CASE ~(Offers(m) /\ m \in Expiring /\ age[m] < RepoExpire)
        <5>1. age'[m] = age[m]
          BY <2>1, <4>3 DEF Tick
        <5>2. Offers(m) /\ m \in Expiring => age[m] = RepoExpire
          BY <4>1, <4>3
        <5>3. QED
          BY <4>1, <5>1, <5>2
      <4>4. QED
        BY <4>2, <4>3
    <3>5. /\ unseen' \in [Managers -> [Lines -> 0 .. Expire \cup {None}]]
          /\ age' \in [Managers -> 0 .. RepoExpire]
      <4>1. age' \in [Managers -> 0 .. RepoExpire]
        BY <2>1, <3>4 DEF Tick
      <4>2. unseen' \in [Managers -> [Lines -> 0 .. Expire \cup {None}]]
        <5>1. ASSUME NEW m \in Managers
              PROVE  unseen'[m] \in [Lines -> 0 .. Expire \cup {None}]
          BY <2>1, <3>3 DEF Tick
        <5>2. QED
          BY <2>1, <5>1 DEF Tick
      <4>3. QED
        BY <4>1, <4>2
    <3>6. UnseenIsRecent'
      <4> SUFFICES ASSUME NEW m \in Expiring, NEW line \in Lines,
                          unseen'[m][line] # None
                   PROVE  Offers(m)' /\ unseen'[m][line] <= age'[m]
        BY DEF UnseenIsRecent
      <4>1. m \in Managers
        BY DEF Expiring, Managers
      <4>2. /\ unseen[m][line] # None
            /\ unseen'[m][line] <= unseen[m][line] + 1
            /\ unseen'[m][line] <= Expire
        BY <4>1, <3>3
      <4>3. Offers(m) /\ unseen[m][line] <= age[m]
        BY <2>0, <4>2 DEF MetadataOK, UnseenIsRecent
      <4>4. age'[m] = age[m] + 1 \/ age'[m] = RepoExpire
        BY <4>1, <4>3, <3>4
      <4>5. /\ unseen[m][line] \in 0 .. Expire \cup {None}
            /\ unseen'[m][line] \in 0 .. Expire \cup {None}
            /\ age[m] \in 0 .. RepoExpire
        BY <2>0, <4>1, <3>3 DEF MetadataOK
      <4>6. unseen'[m][line] <= age'[m]
        BY <4>2, <4>3, <4>4, <4>5
      <4>7. QED
        BY <4>3, <4>6, <3>1 DEF Offers, host
    <3>7. QED
      BY <3>1, <3>2, <3>5, <3>6 DEF MetadataOK
  <2>2. ASSUME NEW m \in Managers, Publish(m)
        PROVE  /\ UNCHANGED <<host, turn, answers, status, missed, trouble,
                              failures>>
               /\ MetadataOK'
    <3>1. PICK line \in Lines : unseen' = [unseen EXCEPT ![m][line] = 0]
      <4>1. Prints[m] \subseteq Lines
        OBVIOUS
      <4>2. QED
        BY <2>2, <4>1 DEF Publish
    <3>2. UNCHANGED <<host, known, age>> /\ Offers(m)
      BY <2>2 DEF Publish
    <3>3. unseen' \in [Managers -> [Lines -> 0 .. Expire \cup {None}]]
      BY <2>0, <3>1 DEF MetadataOK
    <3>4. \A n \in Managers, l \in Lines :
            \/ unseen'[n][l] = unseen[n][l]
            \/ n = m /\ unseen'[n][l] = 0
      BY <2>0, <3>1 DEF MetadataOK
    <3>5. UnseenIsRecent'
      <4>1. \A n \in Expiring : n \in Managers
        BY DEF Expiring, Managers
      <4>2. \A n \in Managers : age[n] >= 0
        BY <2>0 DEF MetadataOK
      <4>3. QED
        BY <2>0, <3>2, <3>4, <4>1, <4>2
           DEF MetadataOK, UnseenIsRecent, Offers, host
    <3>6. QED
      BY <2>0, <2>2, <3>2, <3>3, <3>5 DEF Publish, MetadataOK
  <2>3. ASSUME NEW m \in Managers, Install(m)
        PROVE  /\ UNCHANGED <<host, turn, answers, status, missed, trouble,
                              failures>>
               /\ MetadataOK'
    <3>1. UNCHANGED <<host, turn, answers, status, missed, trouble, failures>>
      BY <2>3 DEF Install
    <3>2. known' \in [Managers -> SUBSET Lines]
      <4>1. \E k \in SUBSET Lines : known' = [known EXCEPT ![m] = k]
        BY <2>0, <2>3 DEF Install, MetadataOK
      <4>2. QED
        BY <2>0, <4>1 DEF MetadataOK
    <3>3. /\ unseen' \in [Managers -> [Lines -> 0 .. Expire \cup {None}]]
          /\ age' \in [Managers -> 0 .. RepoExpire]
          /\ \A n \in Managers, line \in Lines :
               unseen'[n][line] # None =>
                 unseen'[n][line] = unseen[n][line] /\ age'[n] = age[n]
      <4>1. CASE UNCHANGED <<unseen, age>>
        BY <2>0, <4>1 DEF MetadataOK
      <4>2. CASE /\ unseen' = [unseen EXCEPT ![m] = [line \in Lines |-> None]]
                 /\ age' = [age EXCEPT ![m] = 0]
        BY <2>0, <4>2 DEF MetadataOK
      <4>3. ASSUME NEW new \in SUBSET Lines,
                   unseen' = [unseen EXCEPT ![m] = [line \in Lines |->
                     IF line \in new THEN None ELSE unseen[m][line]]],
                   UNCHANGED age
            PROVE  <3>3!1 /\ <3>3!2 /\ <3>3!3
        BY <2>0, <4>3 DEF MetadataOK
      <4>4. QED
        BY <2>3, <4>1, <4>2, <4>3 DEF Install
    <3>4. UnseenIsRecent'
      <4>1. \A n \in Expiring : n \in Managers
        BY DEF Expiring, Managers
      <4>2. QED
        BY <2>0, <3>1, <3>3, <4>1 DEF MetadataOK, UnseenIsRecent, Offers, host
    <3>5. QED
      BY <3>1, <3>2, <3>3, <3>4 DEF MetadataOK
  <2>4. QED
    BY <2>1, <2>2, <2>3 DEF World
<1>2. TypeOK'
  BY <1>1 DEF IInv, TypeOK, MetadataOK, host
<1>3. MissesShow'
  BY <1>1 DEF IInv, MissesShow, Silent
<1>4. QED
  BY <1>1, <1>2, <1>3 DEF IInv, MetadataOK

\* Whatever a manager answers keeps it.
LEMMA AskKeeps ==
  ASSUME IInv, NEW m \in Managers, Ask(m)
  PROVE  IInv'
<1>1. PICK a \in Answers, t \in Troubles :
        /\ t = "none" \/ failures < MaxFailures
        /\ Collect(m, a, t)
        /\ answers' = [answers EXCEPT ![m] = a]
        /\ missed' = Mark(missed, m, Detected(m) /\ ~a.found /\ Due(m)')
        /\ trouble' = [trouble EXCEPT ![m] = t]
        /\ failures' = IF t # "none" THEN failures + 1 ELSE failures
  BY DEF Ask
<1>2. MetadataOK /\ UNCHANGED host
  BY DEF IInv, TypeOK, MetadataOK, Ask
<1>3. MetadataOK'
  BY <1>1, <1>2, CollectKeeps
<1>4. turn = m /\ turn' \in (Managers \cup {"report"}) /\ turn' # "idle"
  BY DEF Ask, After, Managers
<1>5. TypeOK'
  <2>1. missed' \subseteq Managers /\ trouble' \in [Managers -> Troubles]
    BY <1>1 DEF IInv, TypeOK, Mark
  <2>2. failures' \in 0 .. MaxFailures
    BY <1>1 DEF IInv, TypeOK
  <2>3. answers' \in [Managers -> Answers]
    BY <1>1 DEF IInv, TypeOK
  <2>4. installed' \in Hosts /\ root' \in BOOLEAN /\ sudo' \in BOOLEAN
    BY <1>2 DEF IInv, TypeOK, host
  <2>5. status' = status
    BY DEF Ask
  <2>6. QED
    BY <1>3, <1>4, <2>1, <2>2, <2>3, <2>4, <2>5 DEF IInv, TypeOK, MetadataOK
<1>6. MissesShow'
  <2> SUFFICES ASSUME NEW n \in missed', ~Silent(n)'
               PROVE  /\ answers'[n].detected
                      /\ answers'[n].failed \/ answers'[n].skipped
    BY <1>4 DEF MissesShow
  <2>1. CASE n = m
    <3>1. Detected(m) /\ ~a.found /\ Due(m)'
      BY <1>1, <2>1 DEF Mark
    <3>2. /\ m # "brew" /\ ~(m \in {"apt", "yum"} /\ t = "omitted")
          /\ ~(m = "nixos" /\ t = "failed")
      <4>1. trouble'[m] = t
        BY <1>1 DEF IInv, TypeOK
      <4>2. QED
        BY <2>1, <4>1 DEF Silent
    <3>3. a.detected /\ (a.failed \/ a.skipped)
      BY <1>1, <1>2, <3>1, <3>2, CollectShows
    <3>4. QED
      BY <1>1, <2>1, <3>3 DEF IInv, TypeOK
  <2>2. CASE n # m
    <3>1. n \in missed /\ ~Silent(n)
      <4>1. n \in missed /\ trouble'[n] = trouble[n]
        BY <1>1, <2>2 DEF Mark, IInv, TypeOK
      <4>2. QED
        BY <4>1 DEF Silent
    <3>2. answers[n].detected /\ (answers[n].failed \/ answers[n].skipped)
      BY <1>4, <3>1 DEF IInv, MissesShow, Managers
    <3>3. QED
      BY <1>1, <2>2, <3>1, <3>2 DEF IInv, TypeOK
  <2>3. QED
    BY <2>1, <2>2
<1>7. QED
  BY <1>3, <1>5, <1>6 DEF IInv, MetadataOK

\* So does a report.
LEMMA ReportKeeps ==
  ASSUME IInv, Report
  PROVE  IInv'
<1>1. Status(Merged) \in {"available", "current", "unknown"}
  BY DEF Status
<1>2. TypeOK' /\ UnseenIsRecent'
  BY <1>1 DEF IInv, TypeOK, UnseenIsRecent, Offers, Report, host, metadata,
              Answers, Undetected, Answer
<1>3. ASSUME NEW m \in missed, ~Silent(m)
      PROVE  Status(Merged) # "current"
  BY <1>3 DEF IInv, TypeOK, MissesShow, Report, Status, Merged
<1>4. MissesShow'
  BY <1>3 DEF MissesShow, Report, Silent
<1>5. QED
  BY <1>2, <1>4 DEF IInv

\* So does the beginning of another check.
LEMMA BeginKeeps ==
  ASSUME IInv, Begin
  PROVE  IInv'
  BY DEF IInv, TypeOK, UnseenIsRecent, MissesShow, Offers, Begin, host,
         metadata, Managers, Troubles

\* Every step keeps it.
LEMMA StepKeeps == IInv /\ [Next]_vars => IInv'
<1> SUFFICES ASSUME IInv, [Next]_vars PROVE IInv'
  OBVIOUS
<1>1. CASE UNCHANGED vars
  BY <1>1 DEF IInv, TypeOK, UnseenIsRecent, MissesShow, Offers, Silent, vars,
              host, metadata
<1>2. QED
  BY <1>1, WorldKeeps, AskKeeps, ReportKeeps, BeginKeeps DEF Next, Client

\* Every variable of the update check keeps to its type.
THEOREM TypeCorrect == Spec => []TypeOK
<1>1. IInv => TypeOK
  BY DEF IInv
<1>2. QED
  BY InitIInv, StepKeeps, <1>1, PTL DEF Spec

\* A host reported as current had no update due that one of its managers
\* would have told of, for any managers, expiries and number of failures.
THEOREM CurrentIsFresh == Spec => []CurrentMeansFresh
<1>1. IInv => CurrentMeansFresh
  BY DEF IInv, MissesShow, CurrentMeansFresh
<1>2. QED
  BY InitIInv, StepKeeps, <1>1, PTL DEF Spec
=============================================================================
