-------------------------------- MODULE Accounts --------------------------------
(***************************************************************************)
(* Who may use the console.  The account service (pkg/account/api) keeps   *)
(* the accounts: of a user either an admin account, or accounts of single  *)
(* environments.  The environment service (pkg/environment/api) keeps the  *)
(* projects and environments, and makes trial projects, for which it calls *)
(* the account service.  GetMe tells a user the role in each environment.  *)
(*                                                                         *)
(* Abstracted: a row is keyed by its kind and its ids and keeps the flags  *)
(* and the role; a command on names and descriptions is an "edit" that     *)
(* writes the row back as it was read.  Whether the caller may ask is left *)
(* out.  A listing is one read, which it is up to a page of rows.  No two  *)
(* environments share a namespace, though "a-b" and "ab" would.            *)
(***************************************************************************)
EXTENDS Naturals, SequencesExt

CONSTANTS
    Users,               \* e-mail addresses
    Projects, Environments,
    ProjectOf,           \* of an environment
    TrialEnvironments,   \* those of a trial project, in the order they are made
    Requests,
    AccountCasts,        \* rows that exist and requests that are made
    AccountFailures      \* bound: how many calls fail, and processes stop

Admin(u) == <<"admin", u>>
Account(u, e) == <<"account", u, e>>
Project(p) == <<"project", p>>
Environment(e) == <<"environment", e>>
Kind(k) == Head(k)

Roles == {"viewer", "editor", "owner"}

RowKeys ==
    {Admin(u) : u \in Users} \cup {Account(u, e) : u \in Users, e \in Environments}
        \cup {Project(p) : p \in Projects} \cup {Environment(e) : e \in Environments}

\* The commands on a row of each kind.
Commands ==
    [admin |-> {"create", "enable", "disable", "convert", "getMe"},
     account |-> {"create", "enable", "disable", "role"},
     project |-> {"create", "trial", "enable", "disable", "convertTrial", "edit"},
     environment |-> {"create", "edit", "delete"}]

\* The rows of each kind.
Rows ==
    [admin |-> [off : BOOLEAN],
     account |-> [role : Roles, off : BOOLEAN, deleted : BOOLEAN],
     project |-> [off : BOOLEAN, trial : BOOLEAN, creator : Users],
     environment |-> [deleted : BOOLEAN]]

\* What is asked on an account is asked for its user; a trial project has
\* environments.
WellAsked(ask) ==
    /\ ask.key \in RowKeys
    /\ ask.command \in Commands[Kind(ask.key)]
    /\ ask.user \in Users /\ ask.role \in Roles
    /\ Kind(ask.key) \in {"admin", "account"} => ask.key[2] = ask.user
    /\ ask.command = "trial" => TrialEnvironments[ask.key[2]] # <<>>

\* Rows that the services leave: a user has accounts of one kind, in environments
\* that exist, and one enabled trial project.
WellKept(rows) ==
    /\ DOMAIN rows \subseteq RowKeys
    /\ \A k \in DOMAIN rows : rows[k] \in Rows[Kind(k)]
    /\ \A u \in Users, e \in Environments : Account(u, e) \in DOMAIN rows =>
        /\ Environment(e) \in DOMAIN rows
        /\ Admin(u) \in DOMAIN rows => rows[Account(u, e)].deleted
    /\ \A p, q \in Projects : {Project(p), Project(q)} \subseteq DOMAIN rows =>
        LET a == rows[Project(p)]
            b == rows[Project(q)]
        IN  a.trial /\ b.trial /\ a.creator = b.creator => p = q \/ a.off \/ b.off

ASSUME AccountsAssumption ==
    /\ ProjectOf \in [Environments -> Projects]
    /\ TrialEnvironments \in [Projects -> Seq(Environments)]
    /\ \A cast \in AccountCasts :
        /\ WellKept(cast.rows)
        /\ DOMAIN cast.asks \subseteq Requests
        /\ \A r \in DOMAIN cast.asks : WellAsked(cast.asks[r])
    /\ AccountFailures \in Nat

\* Functions: on one key, and one put over another.
Only(k, x) == [j \in {k} |-> x]
Over(f, g) ==
    [k \in DOMAIN f \cup DOMAIN g |-> IF k \in DOMAIN f THEN f[k] ELSE g[k]]

VARIABLES
    db,        \* the tables: key -> row
    request,   \* what is asked for and what has been done about it
    seen,      \* per GetMe: what the user was allowed since it began
    torn,      \* the GetMe during which the user was converted
    raced,     \* a commit rested on rows that had changed
    stray,     \* accounts made before their environment
    accountFailures

accountVars == <<db, request, seen, torn, raced, stray, accountFailures>>

-----------------------------------------------------------------------------
(* What the tables say *)

Found(k) == IF k \in DOMAIN db THEN {db[k]} ELSE {}

Listed(store) ==
    {e \in Environments : Environment(e) \in DOMAIN store /\ ~store[Environment(e)].deleted}
Enabled(store) ==
    {p \in Projects : Project(p) \in DOMAIN store /\ ~store[Project(p)].off}

\* An enabled trial project of user u.
IsTrial(store, u, p) ==
    p \in Enabled(store) /\ store[Project(p)].trial /\ store[Project(p)].creator = u

IsAdmin(store, u) == Admin(u) \in DOMAIN store /\ ~store[Admin(u)].off

\* Fault: a disabled account still has its role.
AnyAccount(store, u, e) ==
    LET k == Account(u, e)
    IN  IF k \in DOMAIN store /\ ~store[k].deleted THEN store[k].role ELSE "none"

AccountRole(store, u, e) ==
    LET k == Account(u, e)
    IN  IF k \in DOMAIN store /\ ~store[k].off /\ ~store[k].deleted
        THEN store[k].role ELSE "none"

\* What GetMe may say of user u: the role that the account in an environment
\* gives, whether the user is an admin, and what can be used.
Glimpse(store, u) ==
    [role |-> [e \in Environments |->
        LET k == Account(u, e)
        IN  IF k \in DOMAIN store /\ ~(store[k].off \/ store[k].deleted)
            THEN store[k].role ELSE "none"],
     admin |-> IsAdmin(store, u), listed |-> Listed(store), projects |-> Enabled(store)]

-----------------------------------------------------------------------------
(* Requests *)

AccountsInit ==
    /\ \E cast \in AccountCasts :
        /\ db = cast.rows
        /\ request = [r \in DOMAIN cast.asks |-> [ask |-> cast.asks[r], doing |-> [phase |-> "new"]]]
    /\ seen = [r \in DOMAIN request |-> {}]
    /\ torn = {}
    /\ raced = FALSE
    /\ stray = {}
    /\ accountFailures = 0

Ask(r) == request[r].ask
Doing(r) == request[r].doing
At(r, phase) == Doing(r).phase = phase
New(r, command, kind) ==
    At(r, "new") /\ Ask(r).command = command /\ Kind(Ask(r).key) = kind

Become(r, doing) == request' = [request EXCEPT ![r].doing = doing]
Refuse(r) == Become(r, [phase |-> "refused"])

\* A transaction is about to write rows, those with a key in new by INSERT; what
\* it rests on has been read.  after is where its commit leads.
Transact(r, rows, new, read, after, todo) ==
    Become(r, [phase |-> "open", rows |-> rows, new |-> new, read |-> read,
               after |-> after, todo |-> todo])
Reads(keys) == [k \in keys |-> Found(k)]
Insert(r, row, read) == Transact(r, Only(Ask(r).key, row), {Ask(r).key}, read, "done", <<>>)

OnlyRequest == UNCHANGED <<db, seen, torn, raced, stray, accountFailures>>

\* CreateAccount: there must be no admin account, disabled or not.
CreateAccount(r) ==
    LET a == Admin(Ask(r).user)
    IN  /\ New(r, "create", "account")
        /\ IF Found(a) # {}
           THEN Refuse(r)
           ELSE Insert(r, [role |-> Ask(r).role, off |-> FALSE, deleted |-> FALSE], Reads({a}))
        /\ OnlyRequest

\* The environments whose accounts CreateAdminAccount and ConvertAccount look at.
ListEnvironments(r) ==
    /\ New(r, "create", "admin") \/ New(r, "convert", "admin")
    /\ Become(r, [phase |-> "listed", todo |-> Listed(db),
                  read |-> Reads({Environment(e) : e \in Environments})])
    /\ OnlyRequest

\* Fault: accounts that are disabled or deleted are not looked at.
LivesIn(e, u) == \E row \in Found(Account(u, e)) : ~row.deleted /\ ~row.off

\* Deleted accounts count.
HasAccountIn(e, u) == Found(Account(u, e)) # {}

AdminRow == [off |-> FALSE]

\* CreateAdminAccount asks for the account in each environment, one by one.
LookIn(r, e) ==
    LET u == Ask(r).user
    IN  /\ At(r, "listed") /\ Ask(r).command = "create"
        /\ e \in Doing(r).todo
        /\ IF HasAccountIn(e, u)
           THEN Refuse(r)
           ELSE Become(r, [phase |-> "listed", todo |-> Doing(r).todo \ {e},
                           read |-> Over(Reads({Account(u, e)}), Doing(r).read)])
        /\ OnlyRequest

CreateAdminAccount(r) ==
    /\ At(r, "listed") /\ Ask(r).command = "create"
    /\ Doing(r).todo = {}
    /\ Insert(r, AdminRow, Doing(r).read)
    /\ OnlyRequest

\* ConvertAccount: in one transaction every account becomes a deleted one, and
\* the admin account is made.
ConvertAccount(r) ==
    LET u == Ask(r).user
        keys == {Account(u, e) : e \in Doing(r).todo}
        found == keys \cap DOMAIN db
        rows == [k \in found |-> [db[k] EXCEPT !.deleted = TRUE]]
    IN  /\ At(r, "listed") /\ Ask(r).command = "convert"
        /\ IF found = {}
           THEN Refuse(r)
           ELSE Transact(r, Over(Only(Admin(u), AdminRow), rows), {Admin(u)},
                         Over(Reads(keys), Doing(r).read), "done", <<>>)
        /\ OnlyRequest

\* What a command makes of a row.
Handled(ask, row) ==
    CASE ask.command = "enable" -> [row EXCEPT !.off = FALSE]
      [] ask.command = "disable" -> [row EXCEPT !.off = TRUE]
      [] ask.command = "role" -> [row EXCEPT !.role = ask.role]
      [] ask.command = "convertTrial" -> [row EXCEPT !.trial = FALSE]
      [] ask.command = "delete" -> [row EXCEPT !.deleted = TRUE]
      [] ask.command = "edit" -> row

\* updateAccountMySQL, updateAdminAccountMySQL, updateProject, UpdateEnvironment
\* and DeleteEnvironment: the row is read, deleted or not, and handled.
Update(r) ==
    LET k == Ask(r).key
    IN  /\ At(r, "new")
        /\ Ask(r).command \in {"enable", "disable", "role", "convertTrial", "delete", "edit"}
        /\ IF k \in DOMAIN db
           THEN Transact(r, Only(k, Handled(Ask(r), db[k])), {}, Reads({k}), "done", <<>>)
           ELSE Refuse(r)
        /\ OnlyRequest

ProjectRow(r) ==
    [off |-> FALSE, trial |-> Ask(r).command = "trial", creator |-> Ask(r).user]

CreateProject(r) ==
    /\ New(r, "create", "project")
    /\ Insert(r, ProjectRow(r), Reads({}))
    /\ OnlyRequest

\* checkProjectExistence.
CreateEnvironment(r) ==
    LET p == ProjectOf[Ask(r).key[2]]
    IN  /\ New(r, "create", "environment")
        /\ IF p \in Enabled(db)
           THEN Insert(r, [deleted |-> FALSE], Reads({Project(p)}))
           ELSE Refuse(r)
        /\ OnlyRequest

-----------------------------------------------------------------------------
(* CreateTrialProject *)

\* Fault: only a project of the same id is in the way.
SameId(u, p) == Project(p) \in DOMAIN db

\* getTrialProjectByEmail.
HasTrial(u, p) == \E q \in Projects : IsTrial(db, u, q)

CreateTrialProject(r) ==
    LET p == Ask(r).key[2]
    IN  /\ New(r, "trial", "project")
        /\ IF HasTrial(Ask(r).user, p)
           THEN Refuse(r)
           ELSE Transact(r, Only(Project(p), ProjectRow(r)), {Project(p)},
                         Reads({Project(q) : q \in Projects}), "made", <<>>)
        /\ OnlyRequest

\* Fault: the answer about the admin account is taken the other way round.
IsAdminAlready(u) == Found(Admin(u)) # {}

NeedsAccounts(u) == Found(Admin(u)) = {}

\* createTrialEnvironmentsAndAccounts: what is to be made, in this order.
PlanTrial(r) ==
    LET u == Ask(r).user
        environments == TrialEnvironments[Ask(r).key[2]]
    IN  /\ At(r, "made")
        /\ Become(r, [phase |-> "trial",
                      todo |-> IF NeedsAccounts(u)
                               THEN [i \in 1 .. 2 * Len(environments) |->
                                        IF i % 2 = 1 THEN Environment(environments[(i + 1) \div 2])
                                        ELSE Account(u, environments[i \div 2])]
                               ELSE [i \in DOMAIN environments |-> Environment(environments[i])]])
        /\ OnlyRequest

\* createEnvironment, or CreateAccount over gRPC, which asks for the admin
\* account again: when that is there now the trial ends here.
MakeNext(r) ==
    LET k == Head(Doing(r).todo)
        left == Tail(Doing(r).todo)
        a == Admin(Ask(r).user)
        after == IF left = <<>> THEN "done" ELSE "trial"
    IN  /\ At(r, "trial")
        /\ IF Kind(k) = "environment"
           THEN Transact(r, Only(k, [deleted |-> FALSE]), {k}, Reads({}), after, left)
           ELSE IF Found(a) # {}
           THEN Refuse(r)
           ELSE Transact(r, Only(k, [role |-> "owner", off |-> FALSE, deleted |-> FALSE]),
                         {k}, Reads({a}), after, left)
        /\ OnlyRequest

-----------------------------------------------------------------------------
(* GetMe *)

Answer(r, roles) == Become(r, [phase |-> "answered", roles |-> roles])

ListProjects(r) ==
    /\ New(r, "getMe", "admin")
    /\ Become(r, [phase |-> "projects", projects |-> Enabled(db)])
    /\ seen' = [seen EXCEPT ![r] = {Glimpse(db, Ask(r).user)}]
    /\ UNCHANGED <<db, torn, raced, stray, accountFailures>>

\* Those of projects that are enabled.
ListProjectEnvironments(r) ==
    /\ At(r, "projects")
    /\ Become(r, [phase |-> "environments",
                  todo |-> {e \in Listed(db) : ProjectOf[e] \in Doing(r).projects}])
    /\ OnlyRequest

\* Fault: a disabled admin is one.
HasAdminRow(store, u) == Admin(u) \in DOMAIN store

AnswersAsAdmin(store, u) == IsAdmin(store, u)

\* An admin is the owner of every environment; without one there is an error.
GetAdmin(r) ==
    LET todo == Doing(r).todo
    IN  /\ At(r, "environments")
        /\ IF AnswersAsAdmin(db, Ask(r).user)
           THEN IF todo = {} THEN Refuse(r) ELSE Answer(r, [e \in todo |-> "owner"])
           ELSE Become(r, [phase |-> "roles", todo |-> todo, roles |-> <<>>])
        /\ OnlyRequest

\* makeEnvironmentRoles asks for the account in each environment, one by one.
GetRole(r, e) ==
    LET role == AccountRole(db, Ask(r).user, e)
    IN  /\ At(r, "roles")
        /\ e \in Doing(r).todo
        /\ Become(r, [phase |-> "roles", todo |-> Doing(r).todo \ {e},
                      roles |-> IF role = "none" THEN Doing(r).roles
                                ELSE Over(Only(e, role), Doing(r).roles)])
        /\ OnlyRequest

\* Without a role the answer is NotFound.
AnswerRoles(r) ==
    /\ At(r, "roles") /\ Doing(r).todo = {}
    /\ Answer(r, Doing(r).roles)
    /\ OnlyRequest

-----------------------------------------------------------------------------
(* Transactions *)

Asking(q) == seen[q] # {} /\ ~At(q, "answered") /\ ~At(q, "refused")

\* Every column is written.
Commit(r) ==
    LET rows == Doing(r).rows
        read == Doing(r).read
        after == Doing(r).after
    IN  /\ At(r, "open")
        /\ Doing(r).new \cap DOMAIN db = {}
        /\ db' = Over(rows, db)
        /\ Become(r, IF after = "trial" THEN [phase |-> after, todo |-> Doing(r).todo]
                     ELSE [phase |-> after])
        /\ seen' = [q \in DOMAIN seen |->
                        IF Asking(q) THEN seen[q] \cup {Glimpse(db', Ask(q).user)} ELSE seen[q]]
        /\ torn' = torn \cup {q \in DOMAIN seen :
                        Asking(q) /\ Ask(r).command = "convert" /\ Ask(q).user = Ask(r).user}
        /\ raced' = (raced \/ \E k \in DOMAIN read : Found(k) # read[k])
        /\ stray' = stray \cup {k \in Doing(r).new :
                        Kind(k) = "account" /\ Environment(k[3]) \notin DOMAIN db}
        /\ UNCHANGED accountFailures

\* The key is taken.
Duplicate(r) ==
    /\ At(r, "open")
    /\ Doing(r).new \cap DOMAIN db # {}
    /\ Refuse(r)
    /\ OnlyRequest

\* MySQL counts the rows that changed: one that is written as it is, within the
\* second of its last change, is taken for missing.
Unaffected(r) ==
    /\ At(r, "open")
    /\ \E k \in DOMAIN Doing(r).rows \ Doing(r).new : Doing(r).rows[k] = db[k]
    /\ Refuse(r)
    /\ OnlyRequest

\* A call fails or the process stops.
Fail(r) ==
    /\ ~(At(r, "new") \/ At(r, "done") \/ At(r, "refused") \/ At(r, "answered"))
    /\ accountFailures < AccountFailures
    /\ accountFailures' = accountFailures + 1
    /\ Refuse(r)
    /\ UNCHANGED <<db, seen, torn, raced, stray>>

Serve(r) ==
    \/ CreateAccount(r)
    \/ ListEnvironments(r)
    \/ At(r, "listed") /\ \E e \in Doing(r).todo : LookIn(r, e)
    \/ CreateAdminAccount(r)
    \/ ConvertAccount(r)
    \/ Update(r)
    \/ CreateProject(r)
    \/ CreateEnvironment(r)
    \/ CreateTrialProject(r)
    \/ PlanTrial(r)
    \/ MakeNext(r)
    \/ ListProjects(r)
    \/ ListProjectEnvironments(r)
    \/ GetAdmin(r)
    \/ At(r, "roles") /\ \E e \in Doing(r).todo : GetRole(r, e)
    \/ AnswerRoles(r)
    \/ Commit(r)
    \/ Duplicate(r)
    \/ Unaffected(r)
    \/ Fail(r)

AccountsNext == \E r \in DOMAIN request : Serve(r)

AccountsSpec == AccountsInit /\ [][AccountsNext]_accountVars

-----------------------------------------------------------------------------
(* Properties *)

\* A user with an admin account has no account in an environment that is not a
\* deleted one: CreateAccount, CreateAdminAccount and ConvertAccount see to that
\* together, unless what one of them read changes before it commits, or the
\* account was made before its environment, which CreateAdminAccount then does
\* not look in.
AccountsAreOfOneKind ==
    raced \/ \A u \in Users, e \in Listed(db) :
        LET k == Account(u, e)
        IN  {Admin(u), k} \subseteq DOMAIN db => db[k].deleted \/ k \in stray

Did(r, command) == Ask(r).command = command /\ At(r, "done")

\* A user has one enabled trial project, unless two were asked for at once or a
\* disabled one was enabled again; and when CreateTrialProject succeeds the user
\* can be found in each of its environments.
TrialsAreWhole ==
    /\ raced \/ \A u \in Users : \A p, q \in {t \in Projects : IsTrial(db, u, t)} :
            p = q \/ \E r \in DOMAIN request :
                        Did(r, "enable") /\ Ask(r).key \in {Project(p), Project(q)}
    /\ \A r \in DOMAIN request : Did(r, "trial") =>
            \A e \in Range(TrialEnvironments[Ask(r).key[2]]) :
                /\ Environment(e) \in DOMAIN db
                /\ {Admin(Ask(r).user), Account(Ask(r).user, e)} \cap DOMAIN db # {}

\* What GetMe says of an environment was so while it ran.  A role: an account
\* gave it, or the user was an admin; and the environment and its project could
\* be used, each at some time.  No role: there was none, or one of them could not
\* be used.  Not when the user is converted meanwhile: then neither the admin
\* account nor the deleted accounts may be found; and not where an admin was made
\* who has an account in the environment all the same.
MeIsRight ==
    \A r \in DOMAIN request : At(r, "answered") =>
        \A e \in Environments :
            IF e \in DOMAIN Doing(r).roles
            THEN LET role == Doing(r).roles[e]
                 IN  /\ \E g \in seen[r] : g.role[e] = role \/ (g.admin /\ role = "owner")
                     /\ \E g \in seen[r] : e \in g.listed
                     /\ \E g \in seen[r] : ProjectOf[e] \in g.projects
            ELSE \/ raced \/ r \in torn \/ Account(Ask(r).user, e) \in stray
                 \/ \E g \in seen[r] :
                        \/ g.role[e] = "none" /\ ~g.admin
                        \/ e \notin g.listed \/ ProjectOf[e] \notin g.projects

=============================================================================
