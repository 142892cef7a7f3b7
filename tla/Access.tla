------------------------------- MODULE Access -------------------------------
(***************************************************************************)
(* The authorisation of API requests and of background tasks.              *)
(*                                                                         *)
(* A user is known by the groups of their token; a group of a tenant gives *)
(* a role.  Two loaders cache the groups of a tenant, one for the checks   *)
(* of the API and one for the checks AuthzRepo makes on every repository   *)
(* call.  A cache is filled on demand, a tenant at a time, and emptied by  *)
(* a periodic reload; groups come and go in the database meanwhile.  Tasks *)
(* act under an internal role and are checked by the repository layer      *)
(* only.                                                                   *)
(***************************************************************************)
EXTENDS Policies, FiniteSets, Integers, TLC

M == INSTANCE RepoCalls
E == INSTANCE Endpoints

CONSTANTS
    Tenants, Iams, Requests,
    Tokens,         \* the sets of groups users come with
    Handlers,       \* the API handlers that are requested
    Sampled,        \* bound: the handlers and tasks that are also started late
    Tasks,          \* the tasks that run
    FanOut,         \* tenant tasks are split into one task for each tenant
    DefaultGroups,  \* the mandatory groups <<IAM identifier, role>>
    DefaultLimit,   \* the rows a query without a limit returns
    MaxChanges      \* bound: the changes of groups and tenants

VARIABLES
    tenants,        \* the tenants of the public schema
    groups,         \* groups[t]: the groups <<IAM identifier, role>> of a tenant
    loaded,         \* loaded[l]: TenantIDs of the loader l
    keys,           \* keys[l]: AuthzKeys of l, as <<tenant, IAM identifier, role>>
    req,            \* req[r]: the request or task run r
    since,          \* history: since[l], the groups that existed since l was emptied
    changes         \* history: the number of changes

vars == <<tenants, groups, loaded, keys, req, since, changes>>

Loaders == {"api", "repo"}
Rows == Iams \X BusinessRoles

Joint(f, g) == [h \in DOMAIN f \cup DOMAIN g |-> IF h \in DOMAIN f THEN f[h] ELSE g[h]]
API ==
    Joint(E!KeyAPI, Joint(E!KeyConfigurationAPI, Joint(E!SystemAPI,
          Joint(E!WorkflowAPI, Joint(E!GroupAPI, E!TenantAPI)))))
Business == "business"

Phases == {"idle", "apiCheck", "apiLoad", "apiRecheck", "handling", "repoCheck", "denied"}
NoCall == <<"none", "none", "none">>
Restriction(q) == <<API[q.handler].resource, API[q.handler].action>>
CallsOf(q) == IF q.role = Business THEN API[q.handler].calls ELSE E!TaskHandlers[q.handler].calls

\* Tokens name groups, the mandatory groups have different names, and the
\* requests and tasks have handlers.
ASSUME AccessAssumption ==
    /\ DefaultLimit \in Nat /\ MaxChanges \in Nat
    /\ Handlers \subseteq DOMAIN API /\ Tasks \subseteq DOMAIN E!TaskHandlers
    /\ \A iams \in Tokens : iams \subseteq Iams /\ IsFiniteSet(iams)
    /\ DefaultGroups \subseteq Rows /\ IsFiniteSet(DefaultGroups)
    /\ \A x, y \in DefaultGroups : x[1] = y[1] => x = y

\* The tasks whose role has what they ask for.  The refresh of the systems, the
\* expiry of a key's workflow and the creation of pending keys are refused a
\* call.
GrantedTasks ==
    {"CertRotator", "KeystorePoolFiller", "WorkflowProcessor", "ExpirySystem",
     "WorkflowCleaner", "TenantNameRefresher", "HYOKSync"}

Idle == [phase |-> "idle", tenant |-> "none", iams |-> {},
         handler |-> "none", role |-> Business, call |-> NoCall, disturbed |-> FALSE]
InFlight(q) == q.phase \notin {"idle", "denied"}

RolesOf(t, iams) == {row[2] : row \in {x \in groups[t] : x[1] \in iams}}
AllRows == UNION {{t} \X groups[t] : t \in Tenants}
Triples == {<<p[1], p[2][1], p[2][2]>> : p \in AllRows}
Cached(l, t, iams) == {<<k[2], k[3]>> : k \in {x \in keys[l] : x[1] = t /\ x[2] \in iams}}

---------------------------------------------------------------------------
(* AuthzLoader                                                             *)

\* LoadTenantAllowedActions of the loader l for a known tenant: nothing when
\* the tenant is loaded; else its groups are listed, as many as the default
\* limit lets through.
isTenantKnown(t) == t \in tenants

getGroups(t) ==
    {g \in SUBSET groups[t] :
       Cardinality(g) = IF Cardinality(groups[t]) <= DefaultLimit THEN Cardinality(groups[t])
                                                                  ELSE DefaultLimit}

AddUser(t, rows) == {<<t, row[1], row[2]>> : row \in rows}

loadTenantAllowedActions(l, t) ==
    IF t \in loaded[l] THEN UNCHANGED <<loaded, keys>>
    ELSE \E rows \in getGroups(t) :
            /\ loaded' = [loaded EXCEPT ![l] = @ \cup {t}]
            /\ keys' = [keys EXCEPT ![l] = @ \cup AddUser(t, rows)]

MutantReset(l) ==
    /\ loaded' = [loaded EXCEPT ![l] = {}]
    /\ UNCHANGED keys

\* Everything is forgotten.  The tenants that were loaded are to be loaded
\* again, but with a context that names no tenant, so that listing the groups
\* fails at the first of them: each tenant is loaded again on demand.
ReloadTenantAllowedActions(l) ==
    /\ loaded' = [loaded EXCEPT ![l] = {}]
    /\ keys' = [keys EXCEPT ![l] = {}]

\* The tick of StartAuthzDataRefresh; each loader has its own ticker.
StartAuthzDataRefresh(l) ==
    /\ loaded[l] # {}
    /\ ReloadTenantAllowedActions(l)
    /\ since' = [since EXCEPT ![l] = Triples]
    /\ req' = [r \in Requests |->
                 [req[r] EXCEPT !.disturbed =
                    @ \/ req[r].phase = IF l = "api" THEN "apiRecheck" ELSE "repoCheck"]]
    /\ UNCHANGED <<tenants, groups, changes>>

---------------------------------------------------------------------------
(* A request                                                               *)

Stale(l, t, iams) ==
    t \in loaded[l] /\ Cached(l, t, iams) # {row \in groups[t] : row[1] \in iams}

Become(r, phase) == req' = [req EXCEPT ![r].phase = phase]

\* BusinessUserDataMiddleware: a token with groups of different roles is
\* refused, by the roles the database gives them now.  The roles are read
\* through AuthzRepo under the role InternalBusinessAuthzRole.
MutantGroupRoles(t, iams) == iams # {}

validateGroupRoles(t, iams) ==
    /\ iams # {}
    /\ Cardinality(iams) > 1 =>
         isTenantKnown(t) /\ Cardinality(RolesOf(t, iams)) <= 1

\* Bound: most handlers are only requested with empty caches, after at most
\* one change.
Early(h) == h \in Sampled \/ (changes <= 1 /\ \A l \in Loaders : loaded[l] = {})

Arrive(r) ==
    /\ ~InFlight(req[r])
    /\ \E t \in Tenants, iams \in Tokens, h \in Handlers :
         /\ Early(h)
         /\ req' = [req EXCEPT ![r] =
              [phase |-> IF validateGroupRoles(t, iams) THEN "apiCheck" ELSE "denied",
               tenant |-> t, iams |-> iams, handler |-> h, role |-> Business,
               call |-> NoCall,
               disturbed |-> \/ \E l \in Loaders : Stale(l, t, iams)
                             \/ Cardinality(groups[t]) > DefaultLimit
                             \/ t \notin tenants]]
         /\ IF Cardinality(iams) > 1 /\ isTenantKnown(t)
              THEN loadTenantAllowedActions("repo", t)
              ELSE UNCHANGED <<loaded, keys>>
    /\ UNCHANGED <<tenants, groups, since, changes>>

\* IsBusinessUserAllowed on the keys of a loader.
IsBusinessUserAllowed(l, q, policies, valid, pair) ==
    /\ pair \in valid
    /\ \E row \in Cached(l, q.tenant, q.iams) : pair \in policies[row[2]]

ApiAllowed(q) ==
    IsBusinessUserAllowed("api", q, APIPolicies, APIResourceTypeActions, Restriction(q))

\* AuthzMiddleware: a request the cache does not allow has the tenant loaded
\* and is checked once more.
AuthzMiddlewareCheck(r) ==
    /\ req[r].phase = "apiCheck"
    /\ Become(r, IF ApiAllowed(req[r]) THEN "handling" ELSE "apiLoad")
    /\ UNCHANGED <<tenants, groups, loaded, keys, since, changes>>

AuthzMiddlewareLoad(r) ==
    /\ req[r].phase = "apiLoad"
    /\ IF isTenantKnown(req[r].tenant)
         THEN Become(r, "apiRecheck") /\ loadTenantAllowedActions("api", req[r].tenant)
         ELSE Become(r, "denied") /\ UNCHANGED <<loaded, keys>>
    /\ UNCHANGED <<tenants, groups, since, changes>>

AuthzMiddlewareRecheck(r) ==
    /\ req[r].phase = "apiRecheck"
    /\ Become(r, IF ApiAllowed(req[r]) THEN "handling" ELSE "denied")
    /\ UNCHANGED <<tenants, groups, loaded, keys, since, changes>>

\* The wrapper of the worker gives a task the role of its handler.  A task
\* that was fanned out runs under the role of the task processing instead.
ProcessTask(r) ==
    /\ ~InFlight(req[r])
    /\ \E t \in tenants, task \in Tasks :
         /\ Early(task)
         /\ req' = [req EXCEPT ![r] =
            [phase |-> "handling", tenant |-> t, iams |-> {}, handler |-> task,
             role |-> IF FanOut THEN "TaskProcessing" ELSE E!TaskHandlers[task].role,
             call |-> NoCall, disturbed |-> FALSE]]
    /\ UNCHANGED <<tenants, groups, loaded, keys, since, changes>>

---------------------------------------------------------------------------
(* AuthzRepo and the user manager                                          *)

Pair(c) == <<c[2], c[3]>>

\* ensureBusinessUserOpsAllowed, and what the user manager asks for business
\* users; a token whose groups now have several roles is an error.
UserAllowed(q, op) ==
    IF q.role # Business THEN q.role \in M!BypassRoles[op]
    ELSE /\ \A c \in M!UserCalls[op] : Pair(c) \in BusinessAuthz
         /\ Cardinality(RolesOf(q.tenant, q.iams)) <= 1

IsInternalUserAllowed(role, pair) ==
    pair \in RepoResourceTypeActions /\ pair \in RepoInternalPolicies[role]

RepoAllowed(q) ==
    IF q.call[2] = "user" THEN UserAllowed(q, q.call[3])
    ELSE IF q.role # Business THEN IsInternalUserAllowed(q.role, Pair(q.call))
    ELSE IsBusinessUserAllowed("repo", q, RepoBusinessPolicies, RepoResourceTypeActions,
                               Pair(q.call))

Refused(q) == IF q.call[1] = "must" THEN "denied" ELSE "handling"

\* checkResourceAuthZ and checkQueryAuthZ load the tenant and then check the
\* call; the mutex of the loader is released in between.
checkAuthZLoad(r) ==
    /\ req[r].phase = "handling"
    /\ \E c \in CallsOf(req[r]) :
         LET q == [req[r] EXCEPT !.call = c] IN
         IF isTenantKnown(req[r].tenant)
           THEN /\ req' = [req EXCEPT ![r] = [q EXCEPT !.phase = "repoCheck"]]
                /\ loadTenantAllowedActions("repo", req[r].tenant)
           ELSE /\ Become(r, Refused(q))
                /\ UNCHANGED <<loaded, keys>>
    /\ UNCHANGED <<tenants, groups, since, changes>>

checkAuthZ(r) ==
    /\ req[r].phase = "repoCheck"
    /\ req' = [req EXCEPT ![r].call = NoCall,
                          ![r].phase = IF RepoAllowed(req[r]) THEN "handling" ELSE Refused(req[r])]
    /\ UNCHANGED <<tenants, groups, loaded, keys, since, changes>>

Respond(r) ==
    /\ req[r].phase = "handling"
    /\ req' = [req EXCEPT ![r] = Idle]
    /\ UNCHANGED <<tenants, groups, loaded, keys, since, changes>>

---------------------------------------------------------------------------
(* Groups and tenants change                                               *)

\* Requests are disturbed when a group of their token changes, when the tenant
\* has more groups than are loaded, and when it is removed.
Change(t, iams, rows) ==
    /\ changes < MaxChanges
    /\ changes' = changes + 1
    /\ groups' = [groups EXCEPT ![t] = rows]
    /\ since' = [l \in Loaders |-> since[l] \cup AddUser(t, rows)]
    /\ req' = [r \in Requests |->
                 [req[r] EXCEPT !.disturbed =
                    \/ @
                    \/ req[r].tenant = t
                         /\ (tenants' # tenants \/ req[r].iams \cap iams # {} \/ Cardinality(rows) > DefaultLimit)]]
    /\ UNCHANGED <<loaded, keys>>

\* The IAM identifiers of a tenant's groups are unique.
Free(t) == {g \in Iams : \A row \in groups[t] : row[1] # g}

CreateGroup(t, g, role) ==
    /\ t \in tenants /\ g \in Free(t)
    /\ UNCHANGED tenants
    /\ Change(t, {g}, groups[t] \cup {<<g, role>>})

\* The mandatory groups are neither updated nor deleted; the role of a group
\* never changes.
UpdateGroup(t, row, g) ==
    /\ t \in tenants /\ row \in groups[t] \ DefaultGroups /\ g \in Free(t)
    /\ UNCHANGED tenants
    /\ Change(t, {row[1], g}, (groups[t] \ {row}) \cup {<<g, row[2]>>})

DeleteGroupByID(t, row) ==
    /\ t \in tenants /\ row \in groups[t] \ DefaultGroups
    /\ UNCHANGED tenants
    /\ Change(t, {row[1]}, groups[t] \ {row})

\* The operator removes the row of a tenant and leaves its schema; the command
\* line tool drops the schema too.
DeleteTenant(t) ==
    /\ t \in tenants
    /\ tenants' = tenants \ {t}
    /\ \E rows \in {groups[t], {}} : Change(t, Iams, rows)

\* The default groups are created in a tenant that has none.
CreateTenant(t) ==
    /\ t \notin tenants
    /\ tenants' = tenants \cup {t}
    /\ Change(t, Iams, IF groups[t] = {} THEN DefaultGroups ELSE groups[t])

---------------------------------------------------------------------------

Init ==
    /\ tenants = Tenants
    /\ groups = [t \in Tenants |-> DefaultGroups]
    /\ loaded = [l \in Loaders |-> {}]
    /\ keys = [l \in Loaders |-> {}]
    /\ req = [r \in Requests |-> Idle]
    /\ since = [l \in Loaders |-> Triples]
    /\ changes = 0

RequestStep(r) ==
    \/ Arrive(r) \/ AuthzMiddlewareCheck(r) \/ AuthzMiddlewareLoad(r) \/ AuthzMiddlewareRecheck(r)
    \/ ProcessTask(r) \/ checkAuthZLoad(r) \/ checkAuthZ(r) \/ Respond(r)

GroupStep(t) ==
    \/ \E g \in Iams, role \in BusinessRoles : CreateGroup(t, g, role)
    \/ \E row \in groups[t], g \in Iams : UpdateGroup(t, row, g)
    \/ \E row \in groups[t] : DeleteGroupByID(t, row)
    \/ DeleteTenant(t)
    \/ CreateTenant(t)

Next ==
    \/ \E r \in Requests : RequestStep(r)
    \/ \E t \in Tenants : GroupStep(t)
    \/ \E l \in Loaders : StartAuthzDataRefresh(l)

Spec == Init /\ [][Next]_vars

---------------------------------------------------------------------------
(* Properties                                                              *)

IsRequest(q) ==
    q = [phase |-> q.phase, tenant |-> q.tenant, iams |-> q.iams, handler |-> q.handler,
         role |-> q.role, call |-> q.call, disturbed |-> q.disturbed]

TypeOK ==
    /\ tenants \subseteq Tenants
    /\ groups \in [Tenants -> SUBSET Rows]
    /\ \A t \in Tenants : \A x, y \in groups[t] : x[1] = y[1] => x = y
    /\ loaded \in [Loaders -> SUBSET Tenants]
    /\ keys \in [Loaders -> SUBSET (Tenants \X Iams \X BusinessRoles)]
    /\ req = [r \in Requests |-> req[r]]
    /\ \A r \in Requests : /\ IsRequest(req[r]) /\ req[r].phase \in Phases /\ req[r].disturbed \in BOOLEAN
                           /\ req[r].phase = "repoCheck" => req[r].call \in CallsOf(req[r])
    /\ changes \in 0..MaxChanges

\* A cache grants nothing that goes back further than its last reload: every
\* role it gives to a group of a tenant, that group of that tenant had at some
\* time since the loader was last emptied.
CachedExisted == TypeOK /\ \A l \in Loaders : keys[l] \subseteq since[l]

\* A request that the middlewares let through acts for exactly one role of
\* its tenant, and the API policy of this role allows the handler: unless the
\* groups of its token changed under it, or a cache that is behind was used.
OneRole ==
    \A r \in Requests :
      LET q == req[r] IN
      q.role = Business /\ q.phase \in {"handling", "repoCheck"} /\ ~q.disturbed =>
        \E role \in BusinessRoles : RolesOf(q.tenant, q.iams) = {role} /\ Restriction(q) \in APIPolicies[role]

\* The two layers agree.  A user whose groups have one role, and whose role
\* may call the handler, is not turned away afterwards by the repository: the
\* one exception is an auditor, who reads through handlers that may write.
\* Reloads that hit between a load and its check are not counted.
Justified(q) ==
    \A role \in BusinessRoles :
      RolesOf(q.tenant, q.iams) = {role} /\ Restriction(q) \in APIPolicies[role] =>
        role = Auditor /\ \E c \in CallsOf(q) : c[1] = "must" /\ c[2] # "user" /\ c[3] \notin Reads

NotTurnedAway ==
    \A r \in Requests : req[r].role = Business /\ req[r].phase = "denied" /\ ~req[r].disturbed => Justified(req[r])

\* A task of a tenant that stays is never refused a repository call that it
\* cannot do without: the policy of its internal role has all of them.
TasksPermitted ==
    \A r \in Requests : req[r].role # Business /\ req[r].phase = "denied" => req[r].disturbed

---------------------------------------------------------------------------
(* The inductive invariant behind these four: what is in the database, what *)
(* the caches hold, and the requests and tasks that nothing has disturbed.  *)

GroupsInv ==
    /\ \A t \in Tenants : IsFiniteSet(groups[t])
    /\ since = [l \in Loaders |-> since[l]] /\ \A l \in Loaders : Triples \subseteq since[l]

CachesInv ==
    \A l \in Loaders : keys[l] \subseteq since[l] /\ \A k \in keys[l] : k[1] \in loaded[l]

Undisturbed(q) == q.role = Business /\ InFlight(q) /\ ~q.disturbed

Admitted(q) ==
    /\ q.tenant \in tenants /\ q.handler \in DOMAIN API /\ Cardinality(groups[q.tenant]) <= DefaultLimit
    /\ \A l \in Loaders : ~Stale(l, q.tenant, q.iams)
    /\ \A x, y \in RolesOf(q.tenant, q.iams) : x = y
    /\ q.phase = "apiRecheck" => q.tenant \in loaded["api"]
    /\ q.phase = "repoCheck" => q.tenant \in loaded["repo"]
    /\ q.phase \in {"handling", "repoCheck"} =>
         \E role \in RolesOf(q.tenant, q.iams) : Restriction(q) \in APIPolicies[role]

TasksGranted == ~FanOut /\ Tasks \subseteq GrantedTasks

Served(q) ==
    /\ q.tenant \in tenants /\ q.phase \in {"handling", "repoCheck"}
    /\ q.handler \in GrantedTasks /\ q.role = E!TaskHandlers[q.handler].role

RequestOk(q) ==
    /\ Undisturbed(q) => Admitted(q)
    /\ q.role = Business /\ q.phase = "denied" /\ ~q.disturbed => q.tenant \in Tenants /\ Justified(q)
    /\ TasksGranted /\ q.role # Business /\ ~q.disturbed => Served(q)

RequestsInv == \A r \in Requests : RequestOk(req[r])

AccessInv == TypeOK /\ GroupsInv /\ CachesInv /\ RequestsInv

=============================================================================
