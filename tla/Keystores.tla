----------------------------- MODULE Keystores -----------------------------
(***************************************************************************)
(* How a tenant gets a keystore and the certificates to use it: the pool   *)
(* of prepared keystores, the keystore stored for a tenant, the trust the  *)
(* provider is asked to grant, the client certificates with their          *)
(* rotation, and each process's cache of provider configurations.          *)
(*                                                                         *)
(* Each member of Procs is one operating system process.  Inside a process *)
(* GetOrInitProvider keeps the manager's write lock from the miss to the   *)
(* new cache entry, so one initialisation at a time is all a process does. *)
(* Every read, every call of a plugin and every commit is a step.          *)
(***************************************************************************)
EXTENDS Naturals, FiniteSets, Sequences

CONSTANTS
    Tenants,        \* tenants, each with a schema of its own
    Procs,          \* processes: API servers and task workers
    Byok, Hyok,     \* the processes that ask for the default and for the HYOK keystore
    Workers,        \* the processes that are task workers
    Crypto,         \* names of the configured crypto certificates
    PoolSize,       \* the size the pool is filled up to
    Prepared,       \* the plugin hands out keystores that already trust the tenant
    IssuesEmpty,    \* the issuer signs a certificate without a common name
    MaxKeystores,   \* bound on the keystores ever created
    MaxAgeing,      \* bound on how often a certificate gets older
    MaxFaults,      \* bound on the failing calls and restarts
    None

ASSUME KeystoresAssumption ==
    /\ MaxKeystores \in Nat /\ PoolSize \in 0..MaxKeystores /\ MaxAgeing \in Nat
    /\ MaxFaults \in Nat /\ Prepared \in BOOLEAN /\ IssuesEmpty \in BOOLEAN

VARIABLES
    pool,       \* the ids of the rows of keystore_pool, higher ids are newer
    created,    \* number of keystores the provider has created
    stored,     \* per tenant: the DEFAULT_KEYSTORE tenant configuration or None
    certs,      \* per tenant and purpose: the certificate rows in the order of creation
    trusted,    \* what the provider trusts: <<keystore, tenant>> or with a crypto name
    cache,      \* per process, tenant and keystore name: the provider configuration
    proc,       \* per process: the call in progress
    raced,      \* history: keystores popped twice, tenants given a second keystore
    ageing,     \* history: certificates that got older so far
    faults      \* history: failures so far

vars == <<pool, created, stored, certs, trusted, cache, proc, raced, ageing, faults>>

HYOK == "TENANT_DEFAULT"
ROLE == "ROLE_MANAGEMENT"
KEY == "KEY_MANAGEMENT"
SingletonCertificatePurposes == {HYOK, ROLE, KEY}

Idle == [at |-> "idle"]
Ages == {"fresh", "due", "expired"}

\* KeystoreConfig: the keystore, whether the key-management role is set up,
\* and the crypto certificates with access data.
KeystoreConfig == [ks : 1..MaxKeystores, km : BOOLEAN, crypto : SUBSET Crypto]

\* A tenant without a configuration is told apart from one with.
ASSUME NoneAssumption == None \notin KeystoreConfig

\* Certificate rows.  named: the common name is the tenant's and not empty.
Certificate == [age : Ages, auto : BOOLEAN, state : {"ACTIVE"}, named : BOOLEAN]

\* What the provider cache holds: the keystore it leads to (None for HYOK),
\* whether the access data was there, and the certificate row used.
ProviderConfig == [ks : 1..MaxKeystores \cup {None}, km : BOOLEAN, cert : Nat \ {0}]

---------------------------------------------------------------------------
\* The newest row of a purpose, by creation date, and whether there is one.
getCertificateByPurpose(t, purpose) == Len(certs[t][purpose])

isCertWithPurposeExist(t, purpose) == certs[t][purpose] # <<>>

At(p, at) == proc[p].at = at

Goto(p, at) == proc' = [proc EXCEPT ![p].at = at]

Done(p) == proc' = [proc EXCEPT ![p] = Idle]

\* A call fails and its error is returned to the caller of the whole operation.
Fails(p) ==
    /\ faults < MaxFaults
    /\ faults' = faults + 1
    /\ Done(p)
    /\ UNCHANGED <<pool, created, stored, certs, trusted, cache, raced, ageing>>

\* buildCertificateModel leaves AutoRotate to the column's default, which is on.
buildCertificateModel(named) ==
    [age |-> "fresh", auto |-> TRUE, state |-> "ACTIVE", named |-> named]

---------------------------------------------------------------------------
(* The provider cache                                                      *)

PurposeOf(name) == IF name = "hyok" THEN HYOK ELSE KEY

Usable(p, t, name) ==
    /\ cache[p][t][name] # None
    /\ certs[t][PurposeOf(name)][cache[p][t][name].cert].age # "expired"

\* GetOrInitProvider: an unexpired entry is returned as it is; otherwise the
\* configuration of the HYOK or of the default keystore is put together.
GetOrInitProvider(p, t, name) ==
    /\ p \in (IF name = "hyok" THEN Hyok ELSE Byok)
    /\ At(p, "idle")
    /\ ~Usable(p, t, name)
    /\ proc' = [proc EXCEPT ![p] =
                  [at |-> IF name = "hyok" THEN "hyok" ELSE "stored", t |-> t, name |-> name,
                   ks |-> None, changed |-> FALSE, cert |-> 0, from |-> None, due |-> {}]]
    /\ UNCHANGED <<pool, created, stored, certs, trusted, cache, raced, ageing, faults>>

\* The new entry expires with its certificate.
Cached(p, tenants) ==
    LET c == proc[p]
        config == [ks |-> IF c.name = "hyok" THEN None ELSE c.ks.ks,
                   km |-> c.name = "hyok" \/ c.ks.km, cert |-> c.cert]
    IN  /\ At(p, "cache")
        /\ cache' = [cache EXCEPT ![p] = [t \in Tenants |->
                       IF t \in tenants THEN [@[t] EXCEPT ![c.name] = config] ELSE @[t]]]
        /\ Done(p)
        /\ UNCHANGED <<pool, created, stored, certs, trusted, raced, ageing, faults>>

MutantCacheWithoutTenant(p) == Cached(p, Tenants)

NewProviderConfig(p) == Cached(p, {proc[p].t})

---------------------------------------------------------------------------
(* The keystore stored for a tenant                                        *)

\* ensureKeystoreProvisioned: the management role first, then every crypto
\* certificate that has no entry, each with the role-management certificate;
\* what changed is stored.
Provisioned(ks) == ks.km /\ ks.crypto = Crypto

MutantEnsureRoleOnly(ks, changed) ==
    IF ~ks.km THEN "rolecert" ELSE IF changed THEN "save" ELSE "keycert"

ensureKeystoreProvisioned(ks, changed) ==
    IF ~Provisioned(ks) THEN "rolecert" ELSE IF changed THEN "save" ELSE "keycert"

\* getStoredDefaultKeystoreConfig: nothing stored leads to the pool; what is
\* stored is completed by ensureKeystoreProvisioned.
getStoredDefaultKeystoreConfig(p) ==
    LET ks == stored[proc[p].t]
    IN  /\ At(p, "stored")
        /\ IF ks = None
           THEN Goto(p, "pop")
           ELSE proc' = [proc EXCEPT ![p].at = ensureKeystoreProvisioned(ks, FALSE), ![p].ks = ks]
        /\ UNCHANGED <<pool, created, stored, certs, trusted, cache, raced, ageing, faults>>

\* Pop, first half: the newest row is read; a drained pool is an error.
Popped(p, provisioned) ==
    /\ At(p, "pop")
    /\ IF pool = {}
       THEN Done(p)
       ELSE LET newest == CHOOSE k \in pool : \A j \in pool : j <= k
            IN  proc' = [proc EXCEPT ![p].at = "assign",
                           ![p].ks = [ks |-> newest, km |-> provisioned, crypto |-> {}]]
    /\ UNCHANGED <<pool, created, stored, certs, trusted, cache, raced, ageing, faults>>

popRead(p) == Popped(p, Prepared)

\* initDefaultKeystoreFromPool, the commit: the row is deleted, which is no
\* error when it is gone already, and the keystore is stored for the tenant.
\* The configuration is returned as it came from the pool.
Assigned(p, rows, configs) ==
    LET c == proc[p]
    IN  /\ At(p, "assign")
        /\ raced' = raced \cup {k \in {c.ks.ks} : k \notin pool}
                          \cup {t \in {c.t} : stored[t] # None}
        /\ pool' = rows
        /\ stored' = configs
        /\ Goto(p, "keycert")
        /\ UNCHANGED <<created, certs, trusted, cache, ageing, faults>>

MutantKeepRow(p) == Assigned(p, pool, [stored EXCEPT ![proc[p].t] = proc[p].ks])

initDefaultKeystoreFromPool(p) ==
    Assigned(p, pool \ {proc[p].ks.ks}, [stored EXCEPT ![proc[p].t] = proc[p].ks])

\* provisionKeyManagementRole: GrantTrust for the tenant's key-management
\* name, and the access data is added to the copy.
Granted(p, ks, subject) ==
    /\ trusted' = trusted \cup {<<ks.ks, subject>>}
    /\ proc' = [proc EXCEPT ![p].at = ensureKeystoreProvisioned(ks, TRUE), ![p].ks = ks,
                            ![p].changed = TRUE]
    /\ UNCHANGED <<pool, created, stored, certs, cache, raced, ageing, faults>>

provisionKeyManagementRole(p) ==
    /\ At(p, "grant") /\ ~proc[p].ks.km
    /\ Granted(p, [proc[p].ks EXCEPT !.km = TRUE], proc[p].t)

\* syncCert: GrantTrust for one crypto certificate without access data.
syncCert(p, name) ==
    /\ At(p, "grant") /\ proc[p].ks.km /\ name \notin proc[p].ks.crypto
    /\ Granted(p, [proc[p].ks EXCEPT !.crypto = @ \cup {name}], name)

\* setDefaultKeystore stores the completed copy over whatever is stored now.
setDefaultKeystore(p) ==
    LET c == proc[p]
    IN  /\ At(p, "save")
        /\ stored' = [stored EXCEPT ![c.t] = c.ks]
        /\ Goto(p, "keycert")
        /\ UNCHANGED <<pool, created, certs, trusted, cache, raced, ageing, faults>>

---------------------------------------------------------------------------
(* Client certificates                                                     *)

\* The certificate a step asks for, and the step that follows.
Wanted(at) == CASE at = "rolecert" -> ROLE [] at = "keycert" -> KEY [] at = "hyok" -> HYOK
After(at) == IF at = "rolecert" THEN "grant" ELSE "cache"

\* getDefaultKeystoreClientCert and getDefaultHYOKClientCert look for the
\* newest certificate; only the HYOK certificate is replaced when expired.
getDefaultClientCert(p) ==
    LET c == proc[p]
        purpose == Wanted(c.at)
        newest == getCertificateByPurpose(c.t, purpose)
    IN  /\ c.at \in {"rolecert", "keycert", "hyok"}
        /\ proc' = [proc EXCEPT ![p] =
              IF ~isCertWithPurposeExist(c.t, purpose)
              THEN [c EXCEPT !.at = "count", !.from = c.at]
              ELSE IF purpose = HYOK /\ certs[c.t][purpose][newest].age = "expired"
              THEN [c EXCEPT !.at = "rotate", !.due = {<<purpose, newest>>}]
              ELSE [c EXCEPT !.at = After(c.at), !.cert = IF c.at = "rolecert" THEN 0 ELSE newest]]
        /\ UNCHANGED <<pool, created, stored, certs, trusted, cache, raced, ageing, faults>>

\* RequestNewCertificate: a second look, by Count, turns a certificate that
\* appeared meanwhile into an error.
RequestNewCertificate(p) ==
    /\ At(p, "count")
    /\ IF isCertWithPurposeExist(proc[p].t, Wanted(proc[p].from)) THEN Done(p) ELSE Goto(p, "issue")
    /\ UNCHANGED <<pool, created, stored, certs, trusted, cache, raced, ageing, faults>>

\* getNewCertificate: the issuer signs and the row is created.  The name of
\* the key-management certificate is what the keystore configuration says.
Issued(p, cert) ==
    LET c == proc[p]
        named == c.from = "keycert" => c.ks.km
    IN  /\ At(p, "issue")
        /\ named \/ IssuesEmpty
        /\ certs' = [certs EXCEPT ![c.t][Wanted(c.from)] = Append(@, buildCertificateModel(named))]
        /\ proc' = [proc EXCEPT ![p].at = After(c.from), ![p].from = None,
                                ![p].cert = IF c.from = "rolecert" THEN 0 ELSE cert]
        /\ UNCHANGED <<pool, created, stored, trusted, cache, raced, ageing, faults>>

getNewCertificate(p) == Issued(p, Len(certs[proc[p].t][Wanted(proc[p].from)]) + 1)

\* The issuer refuses a request without a common name.
RefusesEmpty(p) ==
    /\ At(p, "issue") /\ proc[p].from = "keycert" /\ ~proc[p].ks.km /\ ~IssuesEmpty
    /\ Done(p)
    /\ UNCHANGED <<pool, created, stored, certs, trusted, cache, raced, ageing, faults>>

\* RotateExpiredCertificates: the certificates with automatic rotation that
\* are due, as one page of the batch.
Rotating(p, t, ages) ==
    LET due == UNION {{<<purpose, i>> : i \in {j \in DOMAIN certs[t][purpose] :
                          certs[t][purpose][j].auto /\ certs[t][purpose][j].age \in ages}} :
                      purpose \in SingletonCertificatePurposes}
    IN  /\ p \in Workers /\ At(p, "idle") /\ due # {}
        /\ proc' = [proc EXCEPT ![p] =
                      [at |-> "rotate", t |-> t, name |-> None, ks |-> None,
                       changed |-> FALSE, cert |-> 0, from |-> None, due |-> due]]
        /\ UNCHANGED <<pool, created, stored, certs, trusted, cache, raced, ageing, faults>>

MutantRotateDueOnly(p, t) == Rotating(p, t, {"due"})

RotateExpiredCertificates(p, t) == Rotating(p, t, {"due", "expired"})

\* RotateCertificate, first half: a new certificate with the name and the
\* purpose of the one it supersedes.
Rotated(p, auto) ==
    LET c == proc[p]
        d == CHOOSE x \in c.due : TRUE
        old == certs[c.t][d[1]][d[2]]
    IN  /\ At(p, "rotate")
        /\ certs' = [certs EXCEPT ![c.t][d[1]] =
                       Append(@, [buildCertificateModel(old.named) EXCEPT !.auto = auto])]
        /\ proc' = [proc EXCEPT ![p].at = "retire", ![p].cert = Len(certs[c.t][d[1]]) + 1]
        /\ UNCHANGED <<pool, created, stored, trusted, cache, raced, ageing, faults>>

RotateCertificate(p) == Rotated(p, TRUE)

\* RotateCertificate, second half: UpdateCertificate switches the automatic
\* rotation of the old one off.  Its state stays ACTIVE.
UpdateCertificate(p) ==
    LET c == proc[p]
        d == CHOOSE x \in c.due : TRUE
    IN  /\ At(p, "retire")
        /\ certs' = [certs EXCEPT ![c.t][d[1]][d[2]].auto = FALSE]
        /\ proc' = [proc EXCEPT ![p] =
              IF c.name = "hyok" THEN [c EXCEPT !.at = "cache", !.due = {}]
              ELSE IF c.due = {d} THEN Idle
              ELSE [c EXCEPT !.at = "rotate", !.due = c.due \ {d}, !.cert = 0]]
        /\ UNCHANGED <<pool, created, stored, trusted, cache, raced, ageing, faults>>

\* Time passes: a certificate enters the rotation threshold, or it has expired
\* by the time anything looks at it again.
GetsOlder(t, purpose, i) ==
    /\ ageing < MaxAgeing
    /\ ageing' = ageing + 1
    /\ \E age \in {"due", "expired"} :
         /\ certs[t][purpose][i].age \notin {age, "expired"}
         /\ certs' = [certs EXCEPT ![t][purpose][i].age = age]
    /\ UNCHANGED <<pool, created, stored, trusted, cache, proc, raced, faults>>

---------------------------------------------------------------------------
(* The pool                                                                *)

\* FillKeystorePool counts once and then creates what is missing.
FillKeystorePool(p) ==
    /\ p \in Workers /\ At(p, "idle")
    /\ Cardinality(pool) < PoolSize
    /\ proc' = [proc EXCEPT ![p] = [at |-> "fill", missing |-> PoolSize - Cardinality(pool)]]
    /\ UNCHANGED <<pool, created, stored, certs, trusted, cache, raced, ageing, faults>>

\* CreateKeystore at the provider and AddKeystoreToPool, two steps.
CreateKeystore(p) ==
    /\ At(p, "fill") /\ created < MaxKeystores
    /\ created' = created + 1
    /\ proc' = [proc EXCEPT ![p] = [at |-> "add", missing |-> proc[p].missing, ks |-> created + 1]]
    /\ trusted' = IF Prepared THEN trusted \cup {<<created + 1, t>> : t \in Tenants} ELSE trusted
    /\ UNCHANGED <<pool, stored, certs, cache, raced, ageing, faults>>

AddKeystoreToPool(p) ==
    /\ At(p, "add")
    /\ pool' = pool \cup {proc[p].ks}
    /\ proc' = [proc EXCEPT ![p] =
          IF proc[p].missing = 1 THEN Idle ELSE [at |-> "fill", missing |-> proc[p].missing - 1]]
    /\ UNCHANGED <<created, stored, certs, trusted, cache, raced, ageing, faults>>

\* The provider refuses to create another keystore.
CreateKeystoreFails(p) ==
    /\ At(p, "fill") /\ created = MaxKeystores
    /\ Done(p)
    /\ UNCHANGED <<pool, created, stored, certs, trusted, cache, raced, ageing, faults>>

\* A call of the operation fails, or the process ends and starts again with
\* an empty cache.
CallFails(p) == ~At(p, "idle") /\ Fails(p)

Restart(p) ==
    /\ faults < MaxFaults
    /\ faults' = faults + 1
    /\ cache' = [cache EXCEPT ![p] = [t \in Tenants |-> [hyok |-> None, byok |-> None]]]
    /\ Done(p)
    /\ UNCHANGED <<pool, created, stored, certs, trusted, raced, ageing>>

---------------------------------------------------------------------------
Init ==
    /\ pool = 1..PoolSize /\ created = PoolSize
    /\ stored = [t \in Tenants |-> None]
    /\ certs = [t \in Tenants |-> [purpose \in SingletonCertificatePurposes |-> <<>>]]
    /\ trusted = IF Prepared THEN (1..PoolSize) \X Tenants ELSE {}
    /\ cache = [p \in Procs |-> [t \in Tenants |-> [hyok |-> None, byok |-> None]]]
    /\ proc = [p \in Procs |-> Idle]
    /\ raced = {} /\ ageing = 0 /\ faults = 0

\* The steps of an operation that has begun.
Continue(p) ==
    \/ getStoredDefaultKeystoreConfig(p)
    \/ popRead(p)
    \/ initDefaultKeystoreFromPool(p)
    \/ provisionKeyManagementRole(p)
    \/ \E name \in Crypto : syncCert(p, name)
    \/ setDefaultKeystore(p)
    \/ getDefaultClientCert(p)
    \/ RequestNewCertificate(p)
    \/ getNewCertificate(p)
    \/ RefusesEmpty(p)
    \/ RotateCertificate(p)
    \/ UpdateCertificate(p)
    \/ NewProviderConfig(p)
    \/ CreateKeystore(p)
    \/ AddKeystoreToPool(p)
    \/ CreateKeystoreFails(p)

Next ==
    \/ \E p \in Procs :
         \/ \E t \in Tenants, name \in {"hyok", "byok"} : GetOrInitProvider(p, t, name)
         \/ \E t \in Tenants : RotateExpiredCertificates(p, t)
         \/ FillKeystorePool(p)
         \/ Continue(p)
         \/ CallFails(p)
         \/ Restart(p)
    \/ \E t \in Tenants, purpose \in SingletonCertificatePurposes :
         \E i \in DOMAIN certs[t][purpose] : GetsOlder(t, purpose, i)

Spec == Init /\ [][Next]_vars

\* An operation that has begun goes on.  The scheduler runs the rotation and
\* the filling of the pool again and again, and users keep asking for their
\* keys, each until it comes through.
FairSpec ==
    /\ Spec
    /\ \A p \in Procs : WF_vars(Continue(p))
    /\ \A p \in Workers : SF_vars(FillKeystorePool(p))
    /\ \A p \in Workers, t \in Tenants : SF_vars(RotateExpiredCertificates(p, t))
    /\ \A p \in Byok, t \in Tenants : SF_vars(GetOrInitProvider(p, t, "byok"))

---------------------------------------------------------------------------
TypeOK ==
    /\ pool \subseteq 1..created /\ created \in 0..MaxKeystores
    /\ stored \in [Tenants -> KeystoreConfig \cup {None}]
    /\ certs \in [Tenants -> [SingletonCertificatePurposes -> Seq(Certificate)]]
    /\ cache \in [Procs -> [Tenants -> [hyok : ProviderConfig \cup {None}, byok : ProviderConfig \cup {None}]]]
    /\ proc = [p \in Procs |-> proc[p]]
    /\ ageing \in 0..MaxAgeing /\ faults \in 0..MaxFaults

\* Pop gives a keystore to one tenant only, and one that is assigned is not
\* handed out again.  The exception is the race the missing row lock allows:
\* two processes read the same newest row before either deletes it.
OwnedOnce ==
    /\ TypeOK
    /\ \A t \in Tenants :
         stored[t] # None =>
           /\ stored[t].ks \notin pool
           /\ \A u \in Tenants \ {t} :
                stored[u] # None /\ stored[u].ks = stored[t].ks => stored[t].ks \in raced

\* Access that is recorded was granted.  The entries of a stored keystore
\* configuration stand for trust the provider has granted to that tenant on
\* that keystore, whichever copies were saved.  A configuration that
\* GetOrInitProvider has cached for a default keystore leads to the keystore
\* stored for the tenant and uses a key-management certificate with the
\* tenant's name, unless the plugin hands out keystores without access data and
\* the issuer signs a certificate without a name; if it has access data the
\* keystore trusts the tenant.  The exception is a tenant two processes
\* initialised at once.
AccessIsGranted ==
    /\ \A t \in Tenants :
         stored[t] # None =>
           /\ stored[t].km => <<stored[t].ks, t>> \in trusted
           /\ \A name \in stored[t].crypto : <<stored[t].ks, name>> \in trusted
    /\ \A p \in Procs, t \in Tenants :
         LET c == cache[p][t].byok
         IN  c # None /\ t \notin raced =>
               /\ stored[t] # None /\ c.ks = stored[t].ks
               /\ c.km => <<c.ks, t>> \in trusted
               /\ c.cert \in DOMAIN certs[t][KEY]
               /\ certs[t][KEY][c.cert].named \/ (IssuesEmpty /\ ~Prepared)

\* The inductive invariant behind these two.  A keystore is in the pool, or on
\* its way into it, or it has owners: the tenants it is stored for and those of
\* the calls that took it.  What a call carries was granted, and is what is
\* stored for its tenant.
Call ==
    [at : {"hyok", "stored", "pop", "assign", "rolecert", "grant", "save", "keycert", "count", "issue",
           "rotate", "retire", "cache"},
     t : Tenants, name : {"hyok", "byok", None}, ks : KeystoreConfig \cup {None}, changed : BOOLEAN,
     cert : Nat, from : {"rolecert", "keycert", "hyok", None},
     due : SUBSET (SingletonCertificatePurposes \X (Nat \ {0}))]

\* A call that carries a keystore configuration, and one whose configuration
\* is stored.
Carries(c) ==
    \/ c.at \in {"assign", "rolecert", "grant", "save", "keycert"}
    \/ c.at \in {"count", "issue"} /\ c.from # "hyok"
    \/ c.at = "cache" /\ c.name # "hyok"

Holds(c) == Carries(c) /\ c.at # "assign"

Trusts(t, ks) ==
    /\ Prepared => ks.km
    /\ ks.km => <<ks.ks, t>> \in trusted
    /\ \A name \in ks.crypto : <<ks.ks, name>> \in trusted

CallOk(c) ==
    /\ c \in Call
    /\ Carries(c) => c.name = "byok" /\ c.ks \in KeystoreConfig /\ c.ks.ks <= created /\ Trusts(c.t, c.ks)
    /\ c.at \in {"stored", "pop"} => c.name = "byok"
    /\ c.at = "hyok" \/ (c.at \in {"count", "issue"} /\ c.from = "hyok") => c.name = "hyok"
    /\ c.at \in {"count", "issue"} => c.from \in {"rolecert", "keycert", "hyok"}
    /\ c.at \in {"rotate", "retire"} =>
         c.due # {} /\ \A d \in c.due : d[2] \in DOMAIN certs[c.t][d[1]]
    /\ c.at \in {"retire", "cache"} => c.cert # 0
    /\ c.at = "cache" /\ c.name = "byok" => c.cert \in DOMAIN certs[c.t][KEY]

Adds(p) == proc[p].at = "add"

ProcOk(p) ==
    \/ proc[p].at \in {"idle", "fill"}
    \/ Adds(p) /\ proc[p].ks \in 1..created
    \/ CallOk(proc[p])

ProcsInv == \A p \in Procs : ProcOk(p)

Leads(t, k) == stored[t] # None /\ stored[t].ks = k

Owns(t, k) ==
    \/ Leads(t, k)
    \/ \E p \in Procs : Holds(proc[p]) /\ proc[p].t = t /\ proc[p].ks.ks = k

PoolInv ==
    /\ \A t \in Tenants, k \in pool : ~Owns(t, k)
    /\ \A p \in Procs : Adds(p) =>
         /\ proc[p].ks \notin pool
         /\ \A t \in Tenants : ~Leads(t, proc[p].ks)
         /\ \A q \in Procs \ {p} :
              /\ Carries(proc[q]) => proc[q].ks.ks # proc[p].ks
              /\ Adds(q) => proc[q].ks # proc[p].ks

OwnersInv ==
    \A t \in Tenants, k \in 1..created :
      Owns(t, k) => \A u \in Tenants \ {t} : Owns(u, k) => k \in raced

GrantedInv ==
    /\ Prepared => \A k \in 1..created, t \in Tenants : <<k, t>> \in trusted
    /\ \A t \in Tenants : stored[t] # None => Trusts(t, stored[t]) /\ stored[t].ks <= created
    /\ \A t \in Tenants : \A i \in DOMAIN certs[t][KEY] :
         certs[t][KEY][i].named \/ (IssuesEmpty /\ ~Prepared)

\* The keystore a tenant uses is the one stored for it.
HeldInv ==
    \A p \in Procs : Holds(proc[p]) /\ proc[p].t \notin raced => Leads(proc[p].t, proc[p].ks.ks)

CachedInv ==
    \A p \in Procs, t \in Tenants :
      LET c == cache[p][t].byok
      IN  c # None =>
            /\ c.km => <<c.ks, t>> \in trusted
            /\ c.cert \in DOMAIN certs[t][KEY]
            /\ t \notin raced => Leads(t, c.ks)

KeystoresInv == TypeOK /\ ProcsInv /\ PoolInv /\ OwnersInv /\ GrantedInv /\ HeldInv /\ CachedInv

NewestIs(t, purpose, ages) ==
    isCertWithPurposeExist(t, purpose) /\ certs[t][purpose][getCertificateByPurpose(t, purpose)].age \in ages

\* The certificates in use get renewed: the newest certificate of a purpose
\* does not stay due or expired.
Renewed ==
    \A t \in Tenants, purpose \in SingletonCertificatePurposes :
      NewestIs(t, purpose, {"due", "expired"}) ~> NewestIs(t, purpose, {"fresh"})

\* A tenant that keeps asking gets a keystore, and its keystore ends up with
\* the management role and all crypto certificates set up, unless the bound
\* on the keystores the provider makes is used up by ones it made and lost.
EventuallyProvisioned ==
    \A t \in Tenants :
      \/ <>(stored[t] # None /\ Provisioned(stored[t]))
      \/ <>[](stored[t] = None /\ pool = {} /\ created = MaxKeystores)

=============================================================================
