-------------------------------- MODULE Groups ---------------------------------
(***************************************************************************)
(* The server's groups of hosts (server/api/groups.go over                 *)
(* server/storage/groups.go).  The store makes each of its operations one  *)
(* transaction; a handler makes several, one after another, and handlers   *)
(* run at the same time.  Hosts check in, are deleted from the dashboard,  *)
(* and the server may stop between two transactions of a handler.          *)
(***************************************************************************)
EXTENDS Functions, FiniteSets

CONSTANTS
  Systems,
  Names,      \* names a request may give for a group, trimmed
  Derived,    \* those of them with a prefix of the derived namespace
  Lower,      \* strings.ToLower, on Names
  Folded,     \* a representative of the names strings.EqualFold calls equal
  NoName,     \* a name left out of a request
  Clients,    \* handlers that may run at the same time
  MaxRequests \* bound: requests made

ASSUME GroupsAssumption ==
  /\ Derived \subseteq Names
  /\ Lower \in [Names -> Names]
  /\ \A n \in Names : Lower[Lower[n]] = Lower[n]
  /\ \A n \in Names : n \in Derived <=> Lower[n] \in Derived
  /\ NoName \notin Names \cup Systems
  /\ MaxRequests \in Nat

VARIABLES
  groups,    \* the groups bucket: from the key of a name to the group
  systems,   \* the hosts that have a record
  req,       \* what each handler is doing
  requests,
  raced,     \* history: the handlers that run since somebody else's write
  evicted    \* history: hosts deleted and not named by a write since

groupsVars == <<groups, systems, req, requests, raced, evicted>>

NoMembers == {NoName}  \* members left out of a request

Group == [name : Names, members : SUBSET Systems]
Idle == [op |-> "idle"]
Running ==
  [op : {"create", "remove"}, group : Group]
    \cup [op : {"save", "rename"}, group : Group, to : Names \cup {NoName}]

GroupsTypeOK ==
  /\ groups \in [DOMAIN groups -> Group] /\ DOMAIN groups \subseteq Names
  /\ systems \subseteq Systems
  /\ req \in [Clients -> {Idle} \cup Running]
  /\ requests \in 0 .. MaxRequests
  /\ raced \subseteq Clients
  /\ evicted \subseteq Systems

GroupsInit ==
  /\ groups = [k \in {} |-> {}]
  /\ systems = {}
  /\ req = [c \in Clients |-> Idle]
  /\ requests = 0
  /\ raced = {}
  /\ evicted = {}

(***************************************************************************)
(* The store.                                                              *)
(***************************************************************************)

\* Slip: a group is kept under its name as it was typed.
GroupKey_AsTyped(n) == n

GroupKey(n) == Lower[n]

\* SameGroupName.
SameGroup(a, b) == Folded[a] = Folded[b]

Exists(n) == GroupKey(n) \in DOMAIN groups
Stored(n) == groups[GroupKey(n)]

\* writeGroup.
Write(gs, g) ==
  [k \in DOMAIN gs \cup {GroupKey(g.name)} |->
     IF k = GroupKey(g.name) THEN g ELSE gs[k]]

\* Slip: the new name is not looked up first.
MayRename_Unchecked(from, to) == Exists(from)

MayRename(from, to) == Exists(from) /\ (SameGroup(from, to) \/ ~Exists(to))

Renamed(from, to) ==
  LET gs == Write(groups, [Stored(from) EXCEPT !.name = to])
  IN  IF SameGroup(from, to) THEN gs
      ELSE Restrict(gs, DOMAIN gs \ {GroupKey(from)})

\* Slip: memberships outlive the host's record.
WithoutHost_Kept(h) == groups

\* removeHostFromGroups.
WithoutHost(h) == [k \in DOMAIN groups |->
                     [groups[k] EXCEPT !.members = @ \ {h}]]

\* SetHostGroups.
InExactly(h, wanted) == [k \in DOMAIN groups |->
  [groups[k] EXCEPT !.members =
     IF k \in wanted THEN @ \cup {h} ELSE @ \ {h}]]

(***************************************************************************)
(* The handlers.  One that refuses changes nothing, and is left out.       *)
(***************************************************************************)

\* ValidateGroupName: ":" is reserved for derived groups.
ValidName(n) == n \notin Derived

Begin(c, r) ==
  /\ req[c] = Idle
  /\ requests < MaxRequests
  /\ requests' = requests + 1
  /\ req' = [req EXCEPT ![c] = r]
  /\ raced' = raced \ {c}
  /\ UNCHANGED <<groups, systems, evicted>>

\* A transaction that writes gs, on behalf of c or of nobody, naming hosts.
Commit(by, gs, hosts) ==
  /\ groups' = gs
  /\ raced' = raced \cup {c \in Clients \ by : req[c] # Idle /\ gs # groups}
  /\ evicted' = evicted \ hosts

\* A handler that makes a single transaction.
AtOnce(gs, hosts) ==
  /\ requests < MaxRequests
  /\ requests' = requests + 1
  /\ Commit({}, gs, hosts)
  /\ UNCHANGED <<systems, req>>

CreateGroup(c, n, members) ==
  /\ ValidName(n)
  /\ ~Exists(n)
  /\ Begin(c, [op |-> "create", group |-> [name |-> n, members |-> members]])

FinishCreate(c) ==
  LET g == req[c].group IN
  /\ req[c].op = "create"
  /\ Commit({c}, Write(groups, g), g.members)
  /\ req' = [req EXCEPT ![c] = Idle]
  /\ UNCHANGED <<systems, requests>>

\* Is there a rename to make, once the members are saved?
ToRename(g, to) == to # NoName /\ ValidName(to) /\ to # g.name

UpdateGroup(c, n, to, members) ==
  /\ n \notin Derived
  /\ Exists(n)
  /\ \/ /\ members # NoMembers
        /\ Begin(c, [op |-> "save", to |-> to,
                     group |-> [Stored(n) EXCEPT !.members = members]])
     \/ /\ members = NoMembers
        /\ ToRename(Stored(n), to)
        /\ Begin(c, [op |-> "rename", to |-> to, group |-> Stored(n)])

\* The new members are stored before the new name is even looked at.
SaveMembers(c) ==
  LET r == req[c] IN
  /\ r.op = "save"
  /\ Commit({c}, Write(groups, r.group), r.group.members)
  /\ req' = [req EXCEPT ![c] = IF ToRename(r.group, r.to)
                               THEN [r EXCEPT !.op = "rename"] ELSE Idle]
  /\ UNCHANGED <<systems, requests>>

RenameGroup(c) ==
  LET r == req[c] IN
  /\ r.op = "rename"
  /\ \/ /\ MayRename(r.group.name, r.to)
        /\ Commit({c}, Renamed(r.group.name, r.to), {})
     \/ /\ ~MayRename(r.group.name, r.to)
        /\ UNCHANGED <<groups, raced, evicted>>
  /\ req' = [req EXCEPT ![c] = Idle]
  /\ UNCHANGED <<systems, requests>>

RemoveMember(c, n, h) ==
  /\ n \notin Derived
  /\ Exists(n)
  /\ h \in Stored(n).members
  /\ Begin(c, [op |-> "remove",
               group |-> [Stored(n) EXCEPT !.members = @ \ {h}]])

FinishRemove(c) ==
  /\ req[c].op = "remove"
  /\ Commit({c}, Write(groups, req[c].group), {})
  /\ req' = [req EXCEPT ![c] = Idle]
  /\ UNCHANGED <<systems, requests>>

DeleteGroup(n) ==
  /\ n \notin Derived
  /\ Exists(n)
  /\ AtOnce(Restrict(groups, DOMAIN groups \ {GroupKey(n)}), {})

SetSystemGroups(h, names) ==
  /\ names \cap Derived = {}
  /\ \A n \in names : Exists(n)
  /\ AtOnce(InExactly(h, {GroupKey(n) : n \in names}),
            IF names = {} THEN {} ELSE {h})

(***************************************************************************)
(* Hosts and the server.                                                   *)
(***************************************************************************)
CheckIn(h) ==
  /\ h \notin systems
  /\ systems' = systems \cup {h}
  /\ UNCHANGED <<groups, req, requests, raced, evicted>>

DeleteSystem(h) ==
  /\ h \in systems
  /\ systems' = systems \ {h}
  /\ groups' = WithoutHost(h)
  /\ raced' = raced \cup {c \in Clients : req[c] # Idle /\ groups' # groups}
  /\ evicted' = evicted \cup {h}
  /\ UNCHANGED <<req, requests>>

ServerRestarts ==
  /\ req' = [c \in Clients |-> Idle]
  /\ raced' = {}
  /\ UNCHANGED <<groups, systems, requests, evicted>>

Handle(c) ==
  FinishCreate(c) \/ SaveMembers(c) \/ RenameGroup(c) \/ FinishRemove(c)

GroupsNext ==
  \/ \E c \in Clients :
       \/ Handle(c)
       \/ \E n \in Names :
            \/ \E members \in SUBSET Systems : CreateGroup(c, n, members)
            \/ \E to \in Names \cup {NoName},
                  members \in (SUBSET Systems) \cup {NoMembers} :
                 UpdateGroup(c, n, to, members)
            \/ \E h \in Systems : RemoveMember(c, n, h)
  \/ \E n \in Names : DeleteGroup(n)
  \/ \E h \in Systems :
       \/ \E names \in SUBSET Names : SetSystemGroups(h, names)
       \/ CheckIn(h)
       \/ DeleteSystem(h)
  \/ ServerRestarts

GroupsSpec == GroupsInit /\ [][GroupsNext]_groupsVars

-----------------------------------------------------------------------------
(***************************************************************************)
(* Safety.                                                                 *)
(***************************************************************************)

\* "the uniqueness check is the key itself": a group is found, in whatever
\* case, under the name it carries.
NamedByTheirKey == \A k \in DOMAIN groups : GroupKey(groups[k].name) = k

\* "prod and Prod are one group, and cannot both exist".
NoLookalikes ==
  \A j, k \in DOMAIN groups :
    SameGroup(groups[j].name, groups[k].name) => j = k

\* "a hand-made group can never shadow os:fedora or be shadowed by it".
NothingShadowsDerived ==
  \A k \in DOMAIN groups : k \notin Derived /\ groups[k].name \notin Derived

\* A group goes away when somebody deletes it; a rename, and a server that
\* stops in the middle of one, loses neither a group nor its members.
OnlyDeletesLoseGroups ==
  [][\A k \in DOMAIN groups \ DOMAIN groups' :
       \/ DeleteGroup(k)
       \/ \E j \in DOMAIN groups' \ DOMAIN groups :
            groups'[j].members = groups[k].members]_groupsVars

\* A host deleted from the dashboard is in no group until somebody puts it in
\* one, or a handler that had read the group before writes it back.
EvictedUnlessRaced ==
  [][\A h \in evicted' :
       (h \in evicted => \A k \in DOMAIN groups : h \notin groups[k].members)
         => \/ \A k \in DOMAIN groups' : h \notin groups'[k].members
            \/ \E c \in raced : req[c].op = "remove" /\ req'[c] = Idle]_groupsVars

\* The same, without the exception for handlers that race.
EvictedHostsStayOut ==
  \A h \in evicted, k \in DOMAIN groups : h \notin groups[k].members

\* "CreateGroupHandler makes a new, usually empty, group": it replaces none.
CreatesAreNew ==
  [][\A c \in Clients : FinishCreate(c) => ~Exists(req[c].group.name)]_groupsVars

\* "it keeps naming a host whose row you delete".
DeletedRowsKeepTheirGroups ==
  [][\A h \in systems \ systems' : \A k \in DOMAIN groups :
       h \in groups[k].members => h \in groups'[k].members]_groupsVars
=============================================================================
