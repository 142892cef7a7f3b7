-------------------------- MODULE KeystoresProofs --------------------------
(***************************************************************************)
(* Proofs about Keystores: a keystore has one owner, and access that is    *)
(* recorded was granted, for any number of tenants, processes and crypto   *)
(* certificates, for any size of the pool, with and without the HYOK path, *)
(* a plugin that prepares its keystores and an issuer that signs an empty  *)
(* name.  The two races the missing row locks allow are the exceptions the *)
(* properties state.                                                       *)
(***************************************************************************)
EXTENDS Keystores, WellFoundedInduction, TLAPS

(* The newest row of a pool that is not empty exists. *)
LEMMA NewestExists ==
    ASSUME NEW n \in Nat, NEW S \in SUBSET (1..n), S # {}
    PROVE  (CHOOSE k \in S : \A j \in S : j <= k) \in S
<1> DEFINE T == {n - k : k \in S}
<1>1. T \subseteq Nat /\ T # {}
  <2>1. \A k \in S : n - k \in Nat
    OBVIOUS
  <2>2. PICK k \in S : TRUE
    BY Zenon
  <2>3. n - k \in T
    BY Zenon
  <2> QED BY <2>1, <2>3, Zenon
<1>2. PICK x \in T : \A y \in T : ~(<<y, x>> \in OpToRel(<, Nat))
  BY <1>1, NatLessThanWellFounded, WFMin, Zenon
<1>3. PICK k \in S : x = n - k
  BY Zenon
<1>4. \A j \in S : j <= k
  <2> TAKE j \in S
  <2>1. n - j \in T /\ n - j \in Nat /\ x \in Nat
    BY <1>1, Zenon
  <2>2. ~(<<n - j, x>> \in OpToRel(<, Nat))
    BY <1>2, <2>1, Zenon
  <2>3. ~(n - j < x)
    BY <2>1, <2>2, Zenon DEF OpToRel
  <2> QED BY <1>3, <2>3
<1> QED BY <1>4, Zenon

(* One process moves. *)
Moves(p) ==
    /\ proc' = [q \in Procs |-> proc'[q]]
    /\ \A q \in Procs \ {p} : proc'[q] = proc[q]

(* A step of a process moves this process alone. *)
LEMMA MovesTo ==
    ASSUME TypeOK, NEW p \in Procs, NEW n, proc' = [proc EXCEPT ![p] = n]
    PROVE  Moves(p) /\ proc'[p] = n
BY Zenon DEF Moves, TypeOK

(* Nothing that was granted, created, signed or recorded is taken back. *)
Grows ==
    /\ created \in Nat /\ created' \in Nat /\ created <= created'
    /\ trusted \subseteq trusted'
    /\ \A t \in Tenants, purpose \in SingletonCertificatePurposes :
         DOMAIN certs[t][purpose] \subseteq DOMAIN certs'[t][purpose]

(* What a call carries stays good while other processes go on. *)
LEMMA CallKept ==
    ASSUME Grows, NEW c, CallOk(c)
    PROVE  CallOk(c)'
<1>1. c \in Call
  BY Zenon DEF CallOk
<1>2. Carries(c) => c.ks.ks <= created' /\ Trusts(c.t, c.ks)'
  <2> SUFFICES ASSUME Carries(c) PROVE c.ks.ks <= created' /\ Trusts(c.t, c.ks)'
    BY Zenon
  <2>1. c.ks \in KeystoreConfig /\ c.ks.ks <= created /\ Trusts(c.t, c.ks)
    BY Zenon DEF CallOk
  <2>2. c.ks.ks <= created'
    BY <2>1, KeystoresAssumption DEF KeystoreConfig, Grows
  <2>3. Trusts(c.t, c.ks)'
    BY <2>1, Zenon DEF Trusts, Grows
  <2> QED BY <2>2, <2>3, Zenon
<1>3. c.t \in Tenants /\ \A d \in c.due : d[1] \in SingletonCertificatePurposes
  BY <1>1, Zenon DEF Call
<1>4. /\ c.at \in {"rotate", "retire"} => \A d \in c.due : d[2] \in DOMAIN certs'[c.t][d[1]]
      /\ c.at = "cache" /\ c.name = "byok" => c.cert \in DOMAIN certs'[c.t][KEY]
  BY <1>3, Zenon DEF CallOk, Grows, SingletonCertificatePurposes
<1> QED BY <1>2, <1>4, Zenon DEF CallOk

(* Every process is doing what it may, if the one that moves is. *)
LEMMA ProcsKept ==
    ASSUME ProcsInv, Grows, NEW p \in Procs, Moves(p), ProcOk(p)'
    PROVE  ProcsInv'
<1> SUFFICES ASSUME NEW q \in Procs PROVE ProcOk(q)'
  BY Zenon DEF ProcsInv
<1>1. CASE q = p
  BY <1>1, Zenon
<1>2. CASE q # p
  <2>1. proc'[q] = proc[q] /\ ProcOk(q)
    BY <1>2, Zenon DEF Moves, ProcsInv
  <2>2. CASE proc[q].at \in {"idle", "fill"}
    BY <2>1, <2>2, Zenon DEF ProcOk
  <2>3. CASE Adds(q) /\ proc[q].ks \in 1..created
    BY <2>1, <2>3 DEF ProcOk, Adds, Grows
  <2>4. CASE CallOk(proc[q])
    <3> PICK c : c = proc[q]
      BY Zenon
    <3>1. CallOk(c)'
      BY <2>4, CallKept, Zenon
    <3> QED BY <2>1, <3>1, Zenon DEF ProcOk
  <2> QED BY <2>1, <2>2, <2>3, <2>4, Zenon DEF ProcOk
<1> QED BY <1>1, <1>2, Zenon

(* A process that takes over nothing but what the pool, a tenant's            *)
(* configuration or its own call gives it.                                    *)
Takes(p) ==
    /\ proc'[p].at # "add"
    /\ Carries(proc'[p]) =>
         \/ proc'[p].ks.ks \in pool
         \/ \E t \in Tenants : Leads(t, proc'[p].ks.ks)
         \/ Carries(proc[p]) /\ proc[p].ks.ks = proc'[p].ks.ks
    /\ Holds(proc'[p]) =>
         \/ proc'[p].t \in Tenants /\ Leads(proc'[p].t, proc'[p].ks.ks)
         \/ Holds(proc[p]) /\ proc[p].t = proc'[p].t /\ proc[p].ks.ks = proc'[p].ks.ks

(* Such a step makes no new owner. *)
LEMMA NoNewOwner ==
    ASSUME NEW p \in Procs, Moves(p), Takes(p), UNCHANGED stored, NEW t \in Tenants, NEW k, Owns(t, k)'
    PROVE  Owns(t, k)
<1>1. CASE Leads(t, k)'
  BY <1>1, Zenon DEF Leads, Owns
<1>2. ASSUME NEW q \in Procs, Holds(proc'[q]), proc'[q].t = t, proc'[q].ks.ks = k
      PROVE  Owns(t, k)
  <2>1. CASE q # p
    BY <1>2, <2>1, Zenon DEF Moves, Owns
  <2>2. CASE q = p
    BY <1>2, <2>2, Zenon DEF Takes, Owns
  <2> QED BY <2>1, <2>2, Zenon
<1> QED BY <1>1, <1>2, Zenon DEF Owns

(* A step that takes nothing new leaves pool, owners and what processes
   hold in order. *)
LEMMA PrivateKept ==
    ASSUME KeystoresInv, NEW p \in Procs, Moves(p), Takes(p), UNCHANGED <<pool, created, stored, raced>>
    PROVE  PoolInv' /\ OwnersInv' /\ HeldInv'
<1>1. PoolInv /\ OwnersInv /\ HeldInv
  BY Zenon DEF KeystoresInv
<1>2. \A t \in Tenants : \A k : Owns(t, k)' => Owns(t, k)
  BY NoNewOwner, Zenon
<1>3. \A t \in Tenants, k \in pool' : ~Owns(t, k)'
  BY <1>1, <1>2, Zenon DEF PoolInv
<1>4. ASSUME NEW q \in Procs, Adds(q)'
      PROVE  /\ proc'[q].ks \notin pool'
             /\ \A t \in Tenants : ~Leads(t, proc[q].ks)'
             /\ \A r \in Procs \ {q} :
                  /\ Carries(proc'[r]) => proc'[r].ks.ks # proc'[q].ks
                  /\ Adds(r)' => proc'[r].ks # proc'[q].ks
  <2>1. q # p /\ proc'[q] = proc[q] /\ Adds(q)
    BY <1>4, Zenon DEF Takes, Adds, Moves
  <2>2. /\ proc[q].ks \notin pool
        /\ \A t \in Tenants : ~Leads(t, proc[q].ks)
        /\ \A r \in Procs \ {q} :
             /\ Carries(proc[r]) => proc[r].ks.ks # proc[q].ks
             /\ Adds(r) => proc[r].ks # proc[q].ks
    BY <1>1, <2>1, Zenon DEF PoolInv
  <2>3. \A t \in Tenants : ~Leads(t, proc[q].ks)'
    BY <2>1, <2>2, Zenon DEF Leads
  <2>4. ASSUME NEW r \in Procs \ {q}
        PROVE  /\ Carries(proc'[r]) => proc'[r].ks.ks # proc'[q].ks
               /\ Adds(r)' => proc'[r].ks # proc'[q].ks
    <3>1. CASE r # p
      BY <2>1, <2>2, <3>1, Zenon DEF Moves, Adds
    <3>2. CASE r = p
      BY <2>1, <2>2, <3>2, Zenon DEF Takes, Adds
    <3> QED BY <3>1, <3>2, Zenon
  <2> QED BY <2>1, <2>2, <2>3, <2>4, Zenon
<1>5. PoolInv'
  BY <1>3, <1>4, Zenon DEF PoolInv
<1>6. OwnersInv'
  BY <1>1, <1>2, Zenon DEF OwnersInv
<1>7. HeldInv'
  <2> SUFFICES ASSUME NEW q \in Procs, Holds(proc'[q]), proc'[q].t \notin raced'
               PROVE  Leads(proc[q].t, proc[q].ks.ks)'
    BY Zenon DEF HeldInv
  <2>1. CASE q # p
    BY <1>1, <2>1, Zenon DEF Moves, HeldInv, Leads
  <2>2. CASE q = p
    BY <1>1, <2>2, Zenon DEF Takes, HeldInv, Leads
  <2> QED BY <2>1, <2>2, Zenon
<1> QED BY <1>5, <1>6, <1>7, Zenon

(* A process in the middle of a call. *)
LEMMA InCall ==
    ASSUME KeystoresInv, NEW p \in Procs, proc[p].at \notin {"idle", "fill", "add"}
    PROVE  CallOk(proc[p]) /\ proc[p] \in Call /\ proc[p].t \in Tenants
<1>1. CallOk(proc[p])
  BY Zenon DEF KeystoresInv, ProcsInv, ProcOk, Adds
<1> QED BY <1>1, Zenon DEF CallOk, Call

(* A step that changes only what one process is doing. *)
LEMMA Quiet ==
    ASSUME KeystoresInv, NEW p \in Procs, Moves(p), Takes(p), ProcOk(p)',
           UNCHANGED <<pool, created, stored, certs, trusted, cache, raced, ageing>>, faults' \in 0..MaxFaults
    PROVE  KeystoresInv'
<1>1. TypeOK /\ ProcsInv /\ GrantedInv /\ CachedInv
  BY Zenon DEF KeystoresInv
<1>2. TypeOK'
  BY <1>1, Zenon DEF TypeOK, Moves
<1>3. Grows
  BY <1>1, KeystoresAssumption DEF TypeOK, Grows
<1>4. ProcsInv'
  BY <1>1, <1>3, ProcsKept, Zenon
<1>5. GrantedInv'
  BY <1>1, Zenon DEF GrantedInv, Trusts
<1>6. CachedInv'
  BY <1>1, Zenon DEF CachedInv, Leads
<1>7. PoolInv' /\ OwnersInv' /\ HeldInv'
  BY PrivateKept, Zenon
<1> QED BY <1>2, <1>4, <1>5, <1>6, <1>7, Zenon DEF KeystoresInv

(* The call ends. *)
LEMMA QuietEnd ==
    ASSUME KeystoresInv, NEW p \in Procs, Done(p),
           UNCHANGED <<pool, created, stored, certs, trusted, cache, raced, ageing>>, faults' \in 0..MaxFaults
    PROVE  KeystoresInv'
<1>1. Moves(p) /\ proc'[p] = Idle
  BY MovesTo, Zenon DEF KeystoresInv, Done
<1>2. Takes(p) /\ ProcOk(p)'
  BY <1>1 DEF Takes, ProcOk, Idle, Carries, Holds
<1> QED BY <1>1, <1>2, Quiet, Zenon

(* A call that fails, and those that end without a result. *)
LEMMA EndInv ==
    ASSUME KeystoresInv, NEW p \in Procs, CallFails(p) \/ RefusesEmpty(p) \/ CreateKeystoreFails(p)
    PROVE  KeystoresInv'
<1>1. faults \in 0..MaxFaults
  BY Zenon DEF KeystoresInv, TypeOK
<1>2. faults' \in 0..MaxFaults
  BY <1>1, KeystoresAssumption DEF CallFails, Fails, RefusesEmpty, CreateKeystoreFails
<1> QED BY <1>2, QuietEnd, Zenon DEF CallFails, Fails, RefusesEmpty, CreateKeystoreFails

(* The call goes on with what it carries. *)
LEMMA QuietGo ==
    ASSUME KeystoresInv, NEW p \in Procs, Moves(p), CallOk(proc[p])', Carries(proc'[p]) => Holds(proc[p]),
           proc'[p].t = proc[p].t, proc'[p].ks = proc[p].ks,
           UNCHANGED <<pool, created, stored, certs, trusted, cache, raced, ageing, faults>>
    PROVE  KeystoresInv'
<1>1. proc'[p].at # "add"
  BY Zenon DEF CallOk, Call
<1>2. Takes(p) /\ ProcOk(p)'
  BY <1>1, Zenon DEF Takes, ProcOk, Holds
<1>3. faults' \in 0..MaxFaults
  BY Zenon DEF KeystoresInv, TypeOK
<1> QED BY <1>2, <1>3, Quiet, Zenon

(* The rotation, the filling of the pool and the provider are asked for. *)
LEMMA BeginInv ==
    ASSUME KeystoresInv, NEW p \in Procs,
           \/ \E t \in Tenants, name \in {"hyok", "byok"} : GetOrInitProvider(p, t, name)
           \/ \E t \in Tenants : RotateExpiredCertificates(p, t)
           \/ FillKeystorePool(p)
    PROVE  KeystoresInv'
<1>1. TypeOK /\ faults \in 0..MaxFaults
  BY Zenon DEF KeystoresInv, TypeOK
<1>2. ASSUME NEW t \in Tenants, NEW name \in {"hyok", "byok"}, GetOrInitProvider(p, t, name)
      PROVE  KeystoresInv'
  <2> DEFINE n == [at |-> IF name = "hyok" THEN "hyok" ELSE "stored", t |-> t, name |-> name,
                   ks |-> None, changed |-> FALSE, cert |-> 0, from |-> None, due |-> {}]
  <2>1. Moves(p) /\ proc'[p] = n
    BY <1>1, <1>2, MovesTo, Zenon DEF GetOrInitProvider
  <2>2. n \in Call
    BY Zenon DEF Call
  <2>3. ~Carries(n) /\ CallOk(n)'
    BY <2>2, Zenon DEF CallOk, Carries
  <2>4. Takes(p) /\ ProcOk(p)'
    BY <2>1, <2>2, <2>3, Zenon DEF Takes, ProcOk, Holds, Call
  <2> QED BY <1>1, <1>2, <2>1, <2>4, Quiet, Zenon DEF GetOrInitProvider
<1>3. ASSUME NEW t \in Tenants, RotateExpiredCertificates(p, t)
      PROVE  KeystoresInv'
  <2> DEFINE due == UNION {{<<purpose, i>> : i \in {j \in DOMAIN certs[t][purpose] :
                          certs[t][purpose][j].auto /\ certs[t][purpose][j].age \in {"due", "expired"}}} :
                      purpose \in SingletonCertificatePurposes}
  <2>1. PICK D : D = due
    BY Zenon
  <2> DEFINE n == [at |-> "rotate", t |-> t, name |-> None, ks |-> None,
                   changed |-> FALSE, cert |-> 0, from |-> None, due |-> D]
  <2>2. Moves(p) /\ proc'[p] = n /\ D # {}
    BY <1>1, <1>3, <2>1, MovesTo, Zenon DEF RotateExpiredCertificates, Rotating
  <2>3. \A d \in D : \E purpose \in SingletonCertificatePurposes : \E i \in DOMAIN certs[t][purpose] :
                       d = <<purpose, i>>
    BY <2>1, Zenon
  <2>4. \A purpose \in SingletonCertificatePurposes : DOMAIN certs[t][purpose] \subseteq Nat \ {0}
    BY <1>1 DEF TypeOK
  <2>5. D \subseteq SingletonCertificatePurposes \X (Nat \ {0}) /\ \A d \in D : d[2] \in DOMAIN certs[t][d[1]]
    BY <2>3, <2>4
  <2>6. n \in Call
    BY <2>5, Zenon DEF Call
  <2>7. ~Carries(n) /\ CallOk(n)'
    BY <1>3, <2>2, <2>5, <2>6, Zenon DEF CallOk, Carries, RotateExpiredCertificates, Rotating
  <2>8. Takes(p) /\ ProcOk(p)'
    BY <2>2, <2>6, <2>7, Zenon DEF Takes, ProcOk, Holds, Call
  <2> QED BY <1>1, <1>3, <2>2, <2>8, Quiet, Zenon DEF RotateExpiredCertificates, Rotating
<1>4. CASE FillKeystorePool(p)
  <2>1. Moves(p) /\ proc'[p] = [at |-> "fill", missing |-> PoolSize - Cardinality(pool)]
    BY <1>1, <1>4, MovesTo, Zenon DEF FillKeystorePool
  <2>2. Takes(p) /\ ProcOk(p)'
    BY <2>1 DEF Takes, ProcOk, Carries, Holds
  <2> QED BY <1>1, <1>4, <2>1, <2>2, Quiet, Zenon DEF FillKeystorePool
<1> QED BY <1>2, <1>3, <1>4, Zenon

(* getStoredDefaultKeystoreConfig takes what is stored for the tenant. *)
LEMMA StoredInv ==
    ASSUME KeystoresInv, NEW p \in Procs, getStoredDefaultKeystoreConfig(p)
    PROVE  KeystoresInv'
<1>1. TypeOK /\ GrantedInv /\ faults \in 0..MaxFaults
  BY Zenon DEF KeystoresInv, TypeOK
<1>2. proc[p].at = "stored"
  BY Zenon DEF getStoredDefaultKeystoreConfig, At
<1>3. CallOk(proc[p]) /\ proc[p] \in Call /\ proc[p].t \in Tenants /\ proc[p].name = "byok"
  BY <1>2, InCall, Zenon DEF CallOk
<1> PICK c : c = proc[p]
  BY Zenon
<1>4. UNCHANGED <<pool, created, stored, certs, trusted, cache, raced, ageing, faults>>
  BY Zenon DEF getStoredDefaultKeystoreConfig
<1>5. CASE stored[c.t] = None
  <2> DEFINE n == [c EXCEPT !.at = "pop"]
  <2>1. Moves(p) /\ proc'[p] = n
    BY <1>1, <1>5, Zenon DEF getStoredDefaultKeystoreConfig, Goto, Moves, TypeOK
  <2>2. n \in Call /\ n.at = "pop" /\ n.name = "byok"
    BY <1>3, Zenon DEF Call
  <2>3. ~Carries(n) /\ CallOk(n)'
    BY <2>2, Zenon DEF CallOk, Carries
  <2>4. Takes(p) /\ ProcOk(p)'
    BY <2>1, <2>2, <2>3, Zenon DEF Takes, ProcOk, Holds
  <2> QED BY <1>1, <1>4, <2>1, <2>4, Quiet, Zenon
<1>6. CASE stored[c.t] # None
  <2> PICK ks : ks = stored[c.t]
    BY Zenon
  <2>1. ks \in KeystoreConfig /\ ks.ks <= created /\ Trusts(c.t, ks)
    BY <1>1, <1>3, <1>6, Zenon DEF TypeOK, GrantedInv
  <2>2. PICK at \in {"rolecert", "save", "keycert"} : at = ensureKeystoreProvisioned(ks, FALSE)
    BY Zenon DEF ensureKeystoreProvisioned
  <2> DEFINE n == [c EXCEPT !.at = at, !.ks = ks]
  <2>3. Moves(p) /\ proc'[p] = n
    BY <1>1, <1>6, <2>2, Zenon DEF getStoredDefaultKeystoreConfig, Moves, TypeOK
  <2>4. n \in Call /\ n.at = at /\ n.ks = ks /\ n.name = "byok" /\ n.t = c.t
    BY <1>3, <2>1, ZenonT(40) DEF Call
  <2>5. Trusts(c.t, ks)' /\ ks.ks <= created' /\ Leads(c.t, ks.ks)
    BY <1>4, <1>6, <2>1, Zenon DEF Trusts, Leads
  <2>6. CallOk(n)'
    BY <2>1, <2>4, <2>5, Zenon DEF CallOk, Carries
  <2>7. Takes(p) /\ ProcOk(p)'
    BY <1>3, <2>3, <2>4, <2>5, <2>6, Zenon DEF Takes, ProcOk, Holds, Carries
  <2> QED BY <1>1, <1>4, <2>3, <2>7, Quiet, Zenon
<1> QED BY <1>5, <1>6, Zenon

(* Pop reads the newest row of the pool. *)
LEMMA PopInv ==
    ASSUME KeystoresInv, NEW p \in Procs, popRead(p)
    PROVE  KeystoresInv'
<1>1. TypeOK /\ GrantedInv /\ faults \in 0..MaxFaults
  BY Zenon DEF KeystoresInv, TypeOK
<1>2. proc[p].at = "pop"
  BY Zenon DEF popRead, Popped, At
<1>3. CallOk(proc[p]) /\ proc[p] \in Call /\ proc[p].t \in Tenants /\ proc[p].name = "byok"
  BY <1>2, InCall, Zenon DEF CallOk
<1> PICK c : c = proc[p]
  BY Zenon
<1>4. UNCHANGED <<pool, created, stored, certs, trusted, cache, raced, ageing, faults>>
  BY Zenon DEF popRead, Popped
<1>5. CASE pool = {}
  <2>1. Done(p)
    BY <1>5, Zenon DEF popRead, Popped
  <2> QED BY <1>1, <1>4, <2>1, QuietEnd, Zenon
<1>6. CASE pool # {}
  <2>1. PICK newest : newest = CHOOSE k \in pool : \A j \in pool : j <= k
    BY Zenon
  <2>2. newest \in pool
    <3>1. created \in Nat /\ pool \in SUBSET (1..created)
      BY <1>1, KeystoresAssumption DEF TypeOK
    <3> QED BY <1>6, <2>1, <3>1, NewestExists, Zenon
  <2> DEFINE ks == [ks |-> newest, km |-> Prepared, crypto |-> {}]
             n == [c EXCEPT !.at = "assign", !.ks = ks]
  <2>3. Moves(p) /\ proc'[p] = n
    BY <1>1, <1>6, <2>1, Zenon DEF popRead, Popped, Moves, TypeOK
  <2>4. ks \in KeystoreConfig /\ newest \in 1..created
    BY <1>1, <2>2, KeystoresAssumption DEF TypeOK, KeystoreConfig
  <2>5. n \in Call /\ n.at = "assign" /\ n.ks = ks /\ n.name = "byok" /\ n.t = c.t
    BY <1>3, <2>4, Zenon DEF Call
  <2>6. Trusts(c.t, ks)
    BY <1>1, <1>3, <2>4, Zenon DEF Trusts, GrantedInv
  <2>7. CallOk(n)'
    <3>1. Trusts(c.t, ks)' /\ ks.ks <= created'
      BY <1>1, <1>4, <2>4, <2>6, KeystoresAssumption DEF Trusts, TypeOK
    <3> HIDE DEF ks, n
    <3> QED BY <2>4, <2>5, <3>1, Zenon DEF CallOk
  <2>8. Takes(p) /\ ProcOk(p)'
    BY <2>2, <2>3, <2>5, <2>7 DEF Takes, ProcOk, Holds
  <2> QED BY <1>1, <1>4, <2>3, <2>8, Quiet, Zenon
<1> QED BY <1>5, <1>6, Zenon

(* The certificate a call asks for is looked up. *)
LEMMA LookupInv ==
    ASSUME KeystoresInv, NEW p \in Procs, getDefaultClientCert(p)
    PROVE  KeystoresInv'
<1>1. TypeOK
  BY Zenon DEF KeystoresInv
<1>2. proc[p].at \in {"rolecert", "keycert", "hyok"}
  BY Zenon DEF getDefaultClientCert
<1>3. CallOk(proc[p]) /\ proc[p] \in Call /\ proc[p].t \in Tenants
  BY <1>2, InCall, Zenon
<1> PICK c : c = proc[p]
  BY Zenon
<1>4. UNCHANGED <<pool, created, stored, certs, trusted, cache, raced, ageing, faults>>
  BY Zenon DEF getDefaultClientCert
<1> PICK purpose : purpose = Wanted(c.at)
  BY Zenon
<1>5. /\ purpose \in SingletonCertificatePurposes
      /\ c.at = "keycert" => purpose = KEY
      /\ c.at = "hyok" <=> purpose = HYOK
  BY <1>2, Zenon DEF Wanted, SingletonCertificatePurposes, ROLE, KEY, HYOK
<1> PICK newest : newest = Len(certs[c.t][purpose])
  BY Zenon
<1>6. /\ certs[c.t][purpose] \in Seq(Certificate) /\ newest \in Nat
      /\ certs[c.t][purpose] # <<>> => newest # 0 /\ newest \in DOMAIN certs[c.t][purpose]
  BY <1>1, <1>3, <1>5 DEF TypeOK
<1>7. PICK n : /\ proc' = [proc EXCEPT ![p] = n]
               /\ \/ n = [c EXCEPT !.at = "count", !.from = c.at]
                  \/ /\ n = [c EXCEPT !.at = "rotate", !.due = {<<purpose, newest>>}]
                     /\ certs[c.t][purpose] # <<>> /\ purpose = HYOK
                  \/ /\ n = [c EXCEPT !.at = After(c.at), !.cert = IF c.at = "rolecert" THEN 0 ELSE newest]
                     /\ certs[c.t][purpose] # <<>>
  <2>1. PICK m : m = IF ~(certs[c.t][purpose] # <<>>) THEN [c EXCEPT !.at = "count", !.from = c.at]
                     ELSE IF purpose = HYOK /\ certs[c.t][purpose][newest].age = "expired"
                     THEN [c EXCEPT !.at = "rotate", !.due = {<<purpose, newest>>}]
                     ELSE [c EXCEPT !.at = After(c.at), !.cert = IF c.at = "rolecert" THEN 0 ELSE newest]
    BY Zenon
  <2>2. proc' = [proc EXCEPT ![p] = m]
    BY <2>1, Zenon DEF getDefaultClientCert, isCertWithPurposeExist, getCertificateByPurpose
  <2> QED BY <2>1, <2>2, Zenon
<1>8. Moves(p) /\ proc'[p] = n
  BY <1>1, <1>7, MovesTo, Zenon
<1>9. CallOk(n)' /\ n.t = c.t /\ n.ks = c.ks /\ (Carries(n) => Holds(c))
  <2>1. CASE n = [c EXCEPT !.at = "count", !.from = c.at]
    <3>1. n \in Call /\ n.at = "count" /\ n.from = c.at /\ n.t = c.t /\ n.ks = c.ks /\ n.name = c.name
      BY <1>2, <1>3, <2>1, ZenonT(40) DEF Call
    <3>2. Carries(n) => Carries(c) /\ Holds(c)
      BY <1>2, <3>1, Zenon DEF Carries, Holds
    <3>3. Carries(n) => n.ks.ks <= created' /\ Trusts(n.t, n.ks)'
      BY <1>3, <1>4, <3>1, <3>2, Zenon DEF CallOk, Trusts
    <3> QED BY <1>2, <1>3, <3>1, <3>2, <3>3, Zenon DEF CallOk
  <2>2. CASE /\ n = [c EXCEPT !.at = "rotate", !.due = {<<purpose, newest>>}]
             /\ certs[c.t][purpose] # <<>> /\ purpose = HYOK
    <3>1. n \in Call /\ n.at = "rotate" /\ n.due = {<<purpose, newest>>} /\ n.t = c.t /\ n.ks = c.ks
      <4>1. <<purpose, newest>> \in SingletonCertificatePurposes \X (Nat \ {0})
        BY <1>5, <1>6, <2>2, Zenon
      <4>2. {<<purpose, newest>>} \in SUBSET (SingletonCertificatePurposes \X (Nat \ {0}))
        BY <4>1, ZenonT(40)
      <4> QED BY <1>3, <2>2, <4>2, Zenon DEF Call
    <3>2. ~Carries(n)
      BY <3>1, Zenon DEF Carries
    <3>3. \A d \in n.due : d[2] \in DOMAIN certs'[n.t][d[1]]
      BY <1>4, <1>6, <2>2, <3>1
    <3> QED BY <3>1, <3>2, <3>3, Zenon DEF CallOk
  <2>3. CASE /\ n = [c EXCEPT !.at = After(c.at), !.cert = IF c.at = "rolecert" THEN 0 ELSE newest]
             /\ certs[c.t][purpose] # <<>>
    <3>1. /\ n \in Call /\ n.t = c.t /\ n.ks = c.ks /\ n.name = c.name
          /\ n.at = After(c.at) /\ n.cert = IF c.at = "rolecert" THEN 0 ELSE newest
      BY <1>3, <1>6, <2>3, ZenonT(40) DEF Call, After
    <3>2. Carries(n) => Carries(c) /\ Holds(c)
      BY <1>2, <1>3, <3>1, Zenon DEF Carries, Holds, After, CallOk
    <3>3. Carries(n) => n.ks.ks <= created' /\ Trusts(n.t, n.ks)'
      BY <1>3, <1>4, <3>1, <3>2, Zenon DEF CallOk, Trusts
    <3>4. CASE c.at = "rolecert"
      BY <1>3, <3>1, <3>2, <3>3, <3>4, Zenon DEF CallOk, After
    <3>5. CASE c.at # "rolecert"
      <4>1. n.at = "cache" /\ n.cert = newest /\ n.cert # 0
        BY <1>6, <2>3, <3>1, <3>5, Zenon DEF After
      <4>2. n.name = "byok" => n.cert \in DOMAIN certs'[n.t][KEY]
        BY <1>2, <1>3, <1>4, <1>5, <1>6, <2>3, <3>1, <3>5, <4>1, Zenon DEF CallOk
      <4> QED BY <1>3, <3>1, <3>2, <3>3, <4>1, <4>2, Zenon DEF CallOk
    <3> QED BY <3>4, <3>5, ZenonT(40)
  <2> QED BY <1>7, <2>1, <2>2, <2>3, Zenon
<1> QED BY <1>4, <1>8, <1>9, QuietGo, Zenon

(* The second look of RequestNewCertificate. *)
LEMMA CountInv ==
    ASSUME KeystoresInv, NEW p \in Procs, RequestNewCertificate(p)
    PROVE  KeystoresInv'
<1>1. TypeOK /\ faults \in 0..MaxFaults
  BY Zenon DEF KeystoresInv, TypeOK
<1>2. proc[p].at = "count"
  BY Zenon DEF RequestNewCertificate, At
<1>3. CallOk(proc[p]) /\ proc[p] \in Call
  BY <1>2, InCall, Zenon
<1> PICK c : c = proc[p]
  BY Zenon
<1>4. UNCHANGED <<pool, created, stored, certs, trusted, cache, raced, ageing, faults>>
  BY Zenon DEF RequestNewCertificate
<1>5. CASE Done(p)
  BY <1>1, <1>4, <1>5, QuietEnd, Zenon
<1>6. CASE Goto(p, "issue")
  <2> DEFINE n == [c EXCEPT !.at = "issue"]
  <2>1. Moves(p) /\ proc'[p] = n
    BY <1>1, <1>6, Zenon DEF Goto, Moves, TypeOK
  <2>2. /\ n \in Call /\ n.t = c.t /\ n.ks = c.ks /\ n.name = c.name /\ n.at = "issue" /\ n.from = c.from
    BY <1>3, Zenon DEF Call
  <2>3. Carries(n) => Carries(c) /\ Holds(c)
    BY <1>2, <2>2, Zenon DEF Carries, Holds
  <2>4. Carries(n) => n.ks.ks <= created' /\ Trusts(n.t, n.ks)'
    BY <1>3, <1>4, <2>2, <2>3 DEF CallOk, Trusts
  <2>5. CallOk(n)'
    <3> HIDE DEF n
    <3> QED BY <1>2, <1>3, <2>2, <2>3, <2>4, Zenon DEF CallOk
  <2> QED BY <1>4, <2>1, <2>2, <2>3, <2>5, QuietGo, Zenon
<1> QED BY <1>5, <1>6, Zenon DEF RequestNewCertificate

(* A step that grows what the provider trusts or the certificates, or that   *)
(* changes the cache.                                                        *)
LEMMA Assemble ==
    ASSUME KeystoresInv, NEW p \in Procs, Moves(p), Takes(p), ProcOk(p)', Grows,
           UNCHANGED <<pool, created, stored, raced>>, TypeOK', GrantedInv', CachedInv'
    PROVE  KeystoresInv'
<1>1. ProcsInv
  BY Zenon DEF KeystoresInv
<1>2. ProcsInv'
  BY <1>1, ProcsKept, Zenon
<1>3. PoolInv' /\ OwnersInv' /\ HeldInv'
  BY PrivateKept, Zenon
<1> QED BY <1>2, <1>3, Zenon DEF KeystoresInv

(* What is granted and cached stays good when the provider trusts more. *)
LEMMA TrustKept ==
    ASSUME GrantedInv, CachedInv, trusted \subseteq trusted', UNCHANGED <<created, stored, certs, cache, raced>>
    PROVE  GrantedInv' /\ CachedInv'
<1>1. GrantedInv'
  BY Zenon DEF GrantedInv, Trusts
<1>2. CachedInv'
  BY Zenon DEF CachedInv, Leads
<1> QED BY <1>1, <1>2, Zenon

(* GrantTrust: the keystore trusts the subject before the access data is in *)
(* the copy.                                                                *)
LEMMA GrantInv ==
    ASSUME KeystoresInv, NEW p \in Procs,
           provisionKeyManagementRole(p) \/ \E name \in Crypto : syncCert(p, name)
    PROVE  KeystoresInv'
<1>1. TypeOK /\ GrantedInv /\ CachedInv
  BY Zenon DEF KeystoresInv
<1>2. proc[p].at = "grant"
  BY Zenon DEF provisionKeyManagementRole, syncCert, At
<1>3. CallOk(proc[p]) /\ proc[p] \in Call /\ Carries(proc[p]) /\ Holds(proc[p])
  BY <1>2, InCall, Zenon DEF Carries, Holds
<1> PICK c : c = proc[p]
  BY Zenon
<1>4. c.ks \in KeystoreConfig /\ c.ks.ks <= created /\ Trusts(c.t, c.ks) /\ c.name = "byok" /\ c.t \in Tenants
  BY <1>3, Zenon DEF CallOk, Call
<1>5. PICK ks, subject :
        /\ Granted(p, ks, subject)
        /\ \/ ks = [c.ks EXCEPT !.km = TRUE] /\ subject = c.t
           \/ subject \in Crypto /\ ks = [c.ks EXCEPT !.crypto = @ \cup {subject}]
  BY Zenon DEF provisionKeyManagementRole, syncCert
<1>6. /\ ks \in KeystoreConfig /\ ks.ks = c.ks.ks
      /\ ks.km = c.ks.km \/ subject = c.t
      /\ c.ks.km => ks.km
      /\ ks.crypto \subseteq c.ks.crypto \cup {subject}
  <2>1. CASE ks = [c.ks EXCEPT !.km = TRUE] /\ subject = c.t
    BY <1>4, <2>1, Zenon DEF KeystoreConfig
  <2>2. CASE subject \in Crypto /\ ks = [c.ks EXCEPT !.crypto = @ \cup {subject}]
    <3>1. c.ks.crypto \cup {subject} \in SUBSET Crypto
      BY <1>4, <2>2, Zenon DEF KeystoreConfig
    <3> QED BY <1>4, <2>2, <3>1, Zenon DEF KeystoreConfig
  <2> QED BY <1>5, <2>1, <2>2, Zenon
<1>7. trusted' = trusted \cup {<<ks.ks, subject>>} /\ UNCHANGED <<pool, created, stored, certs, cache, raced, ageing, faults>>
  BY <1>5, Zenon DEF Granted
<1>8. Grows
  BY <1>1, <1>7, KeystoresAssumption DEF Grows, TypeOK
<1>9. GrantedInv' /\ CachedInv'
  BY <1>1, <1>7, TrustKept, Zenon
<1>10. Trusts(c.t, ks)'
  BY <1>4, <1>6, <1>7, Zenon DEF Trusts
<1>11. PICK at \in {"rolecert", "save", "keycert"} : at = ensureKeystoreProvisioned(ks, TRUE)
  BY Zenon DEF ensureKeystoreProvisioned
<1> DEFINE n == [c EXCEPT !.at = at, !.ks = ks, !.changed = TRUE]
<1>12. Moves(p) /\ proc'[p] = n
  BY <1>1, <1>5, <1>11, Zenon DEF Granted, Moves, TypeOK
<1>13. n \in Call /\ n.at = at /\ n.ks = ks /\ n.name = "byok" /\ n.t = c.t
  BY <1>3, <1>4, <1>6, Zenon DEF Call
<1>14. CallOk(n)'
  <2> HIDE DEF n
  <2>1. ks.ks <= created'
    BY <1>4, <1>6, <1>7, Zenon
  <2> QED BY <1>6, <1>10, <1>13, <2>1, Zenon DEF CallOk
<1>15. Takes(p) /\ ProcOk(p)'
  BY <1>3, <1>6, <1>12, <1>13, <1>14, Zenon DEF Takes, ProcOk
<1>16. TypeOK'
  BY <1>1, <1>7, <1>12, Zenon DEF TypeOK, Moves
<1> QED BY <1>7, <1>8, <1>9, <1>12, <1>15, <1>16, Assemble, Zenon

(* The rows of a tenant and purpose with one more. *)
Signs(t, purpose, x) == certs' = [certs EXCEPT ![t][purpose] = Append(@, x)]

(* What a new certificate row does to the rows. *)
LEMMA Signed ==
    ASSUME TypeOK, NEW t \in Tenants, NEW purpose \in SingletonCertificatePurposes, NEW x \in Certificate,
           Signs(t, purpose, x)
    PROVE  /\ certs' \in [Tenants -> [SingletonCertificatePurposes -> Seq(Certificate)]]
           /\ \A u \in Tenants, other \in SingletonCertificatePurposes :
                \/ certs'[u][other] = certs[u][other]
                \/ u = t /\ other = purpose /\ certs'[u][other] = Append(certs[u][other], x)
           /\ certs'[t][purpose] = Append(certs[t][purpose], x)
           /\ \A u \in Tenants, other \in SingletonCertificatePurposes :
                DOMAIN certs[u][other] \subseteq DOMAIN certs'[u][other]
           /\ Len(certs[t][purpose]) + 1 \in DOMAIN certs'[t][purpose]
           /\ \A u \in Tenants : \A i \in DOMAIN certs'[u][KEY] :
                \/ i \in DOMAIN certs[u][KEY] /\ certs'[u][KEY][i] = certs[u][KEY][i]
                \/ u = t /\ purpose = KEY /\ certs'[u][KEY][i] = x
<1>1. certs \in [Tenants -> [SingletonCertificatePurposes -> Seq(Certificate)]]
  BY Zenon DEF TypeOK
<1>2. PICK s : s = Append(certs[t][purpose], x)
  BY Zenon
<1>3. s \in Seq(Certificate) /\ DOMAIN s = 1..(Len(certs[t][purpose]) + 1) /\ certs[t][purpose] \in Seq(Certificate)
  BY <1>1, <1>2
<1>4. PICK row : row = [certs[t] EXCEPT ![purpose] = s]
  BY Zenon
<1>5. row \in [SingletonCertificatePurposes -> Seq(Certificate)]
  BY <1>1, <1>3, <1>4, Zenon
<1>6. certs' = [certs EXCEPT ![t] = row]
  BY <1>2, <1>4, Zenon DEF Signs
<1>7. certs' \in [Tenants -> [SingletonCertificatePurposes -> Seq(Certificate)]]
  BY <1>1, <1>5, <1>6, Zenon
<1>8. \A u \in Tenants, other \in SingletonCertificatePurposes :
        \/ certs'[u][other] = certs[u][other]
        \/ u = t /\ other = purpose /\ certs'[u][other] = s
  BY <1>1, <1>4, <1>6, Zenon
<1>9. certs'[t][purpose] = s
  BY <1>1, <1>4, <1>6, Zenon
<1>10. DOMAIN certs[t][purpose] \subseteq DOMAIN s /\ Len(certs[t][purpose]) + 1 \in DOMAIN s
  BY <1>3, SMTT(30)
<1>11. \A u \in Tenants, other \in SingletonCertificatePurposes :
         DOMAIN certs[u][other] \subseteq DOMAIN certs'[u][other]
  BY <1>8, <1>10, Zenon
<1>12. \A i \in DOMAIN s : (i \in DOMAIN certs[t][purpose] /\ s[i] = certs[t][purpose][i]) \/ s[i] = x
  BY <1>2, <1>3
<1>13. \A u \in Tenants : \A i \in DOMAIN certs'[u][KEY] :
         \/ i \in DOMAIN certs[u][KEY] /\ certs'[u][KEY][i] = certs[u][KEY][i]
         \/ u = t /\ purpose = KEY /\ certs'[u][KEY][i] = x
  <2> SUFFICES ASSUME NEW u \in Tenants, NEW i \in DOMAIN certs'[u][KEY]
               PROVE  \/ i \in DOMAIN certs[u][KEY] /\ certs'[u][KEY][i] = certs[u][KEY][i]
                      \/ u = t /\ purpose = KEY /\ certs'[u][KEY][i] = x
    BY Zenon
  <2>1. KEY \in SingletonCertificatePurposes
    BY Zenon DEF SingletonCertificatePurposes
  <2>2. CASE certs'[u][KEY] = certs[u][KEY]
    BY <2>2, Zenon
  <2>3. CASE u = t /\ KEY = purpose /\ certs'[u][KEY] = s
    BY <1>12, <2>3, Zenon
  <2> QED BY <1>8, <2>1, <2>2, <2>3, Zenon
<1> QED BY <1>2, <1>7, <1>8, <1>9, <1>10, <1>11, <1>13, Zenon

(* The key-management certificates keep their names. *)
LEMMA CertsKept ==
    ASSUME GrantedInv, CachedInv, UNCHANGED <<created, stored, trusted, cache, raced>>,
           \A t \in Tenants : DOMAIN certs[t][KEY] \subseteq DOMAIN certs'[t][KEY],
           \A t \in Tenants : \A i \in DOMAIN certs'[t][KEY] :
             \/ i \in DOMAIN certs[t][KEY] /\ certs'[t][KEY][i].named = certs[t][KEY][i].named
             \/ certs'[t][KEY][i].named \/ (IssuesEmpty /\ ~Prepared)
    PROVE  GrantedInv' /\ CachedInv'
<1>1. \A t \in Tenants : \A i \in DOMAIN certs'[t][KEY] : certs'[t][KEY][i].named \/ (IssuesEmpty /\ ~Prepared)
  BY Zenon DEF GrantedInv
<1>2. /\ Prepared => \A k \in 1..created', t \in Tenants : <<k, t>> \in trusted'
      /\ \A t \in Tenants : stored'[t] # None => Trusts(t, stored[t])' /\ stored'[t].ks <= created'
  BY Zenon DEF GrantedInv, Trusts
<1>3. GrantedInv'
  BY <1>1, <1>2, Zenon DEF GrantedInv
<1>4. CachedInv'
  BY Zenon DEF CachedInv, Leads
<1> QED BY <1>3, <1>4, Zenon

(* A new certificate row: the certificates keep their names and nothing is *)
(* taken back.                                                             *)
LEMMA SignedKept ==
    ASSUME KeystoresInv, NEW t \in Tenants, NEW purpose \in SingletonCertificatePurposes, NEW x \in Certificate,
           Signs(t, purpose, x),
           purpose = KEY => x.named \/ (IssuesEmpty /\ ~Prepared),
           UNCHANGED <<pool, created, stored, trusted, cache, raced, ageing, faults>>, NEW p \in Procs, Moves(p)
    PROVE  TypeOK' /\ Grows /\ GrantedInv' /\ CachedInv' /\ Len(certs[t][purpose]) + 1 \in DOMAIN certs'[t][purpose]
<1>1. TypeOK /\ GrantedInv /\ CachedInv
  BY Zenon DEF KeystoresInv
<1>2. /\ certs' \in [Tenants -> [SingletonCertificatePurposes -> Seq(Certificate)]]
      /\ \A u \in Tenants, other \in SingletonCertificatePurposes :
           \/ certs'[u][other] = certs[u][other]
           \/ u = t /\ other = purpose /\ certs'[u][other] = Append(certs[u][other], x)
      /\ certs'[t][purpose] = Append(certs[t][purpose], x)
      /\ \A u \in Tenants, other \in SingletonCertificatePurposes :
           DOMAIN certs[u][other] \subseteq DOMAIN certs'[u][other]
      /\ Len(certs[t][purpose]) + 1 \in DOMAIN certs'[t][purpose]
      /\ \A u \in Tenants : \A i \in DOMAIN certs'[u][KEY] :
           \/ i \in DOMAIN certs[u][KEY] /\ certs'[u][KEY][i] = certs[u][KEY][i]
           \/ u = t /\ purpose = KEY /\ certs'[u][KEY][i] = x
  BY <1>1, Signed, SMTT(30)
<1>3. TypeOK'
  BY <1>1, <1>2, Zenon DEF TypeOK, Moves
<1>4. Grows
  BY <1>1, <1>2, KeystoresAssumption, SMTT(30) DEF Grows, TypeOK
<1>5. \A u \in Tenants : DOMAIN certs[u][KEY] \subseteq DOMAIN certs'[u][KEY]
  BY <1>2, Zenon DEF SingletonCertificatePurposes
<1>6. \A u \in Tenants : \A i \in DOMAIN certs'[u][KEY] :
        \/ i \in DOMAIN certs[u][KEY] /\ certs'[u][KEY][i].named = certs[u][KEY][i].named
        \/ certs'[u][KEY][i].named \/ (IssuesEmpty /\ ~Prepared)
  <2> TAKE u \in Tenants
  <2> TAKE i \in DOMAIN certs'[u][KEY]
  <2>1. CASE i \in DOMAIN certs[u][KEY] /\ certs'[u][KEY][i] = certs[u][KEY][i]
    BY <2>1, Zenon
  <2>2. CASE u = t /\ purpose = KEY /\ certs'[u][KEY][i] = x
    BY <2>2, Zenon
  <2>3. \/ i \in DOMAIN certs[u][KEY] /\ certs'[u][KEY][i] = certs[u][KEY][i]
        \/ u = t /\ purpose = KEY /\ certs'[u][KEY][i] = x
    BY <1>2, Zenon
  <2> QED BY <2>1, <2>2, <2>3, Zenon
<1>7. GrantedInv' /\ CachedInv'
  BY <1>1, <1>5, <1>6, CertsKept, Zenon
<1> QED BY <1>2, <1>3, <1>4, <1>7, Zenon

(* getNewCertificate: only a keystore without access data asks for a        *)
(* certificate without a name.                                              *)
LEMMA IssueInv ==
    ASSUME KeystoresInv, NEW p \in Procs, getNewCertificate(p)
    PROVE  KeystoresInv'
<1>1. TypeOK
  BY Zenon DEF KeystoresInv
<1>2. proc[p].at = "issue"
  BY Zenon DEF getNewCertificate, Issued, At
<1>3. CallOk(proc[p]) /\ proc[p] \in Call /\ proc[p].t \in Tenants
  BY <1>2, InCall, Zenon
<1> PICK c : c = proc[p]
  BY Zenon
<1>4. c.from \in {"rolecert", "keycert", "hyok"} /\ (c.from = "hyok" => c.name = "hyok")
  BY <1>2, <1>3, Zenon DEF CallOk
<1>5. c.from # "hyok" => Carries(c) /\ Holds(c) /\ c.name = "byok" /\ c.ks \in KeystoreConfig /\ Trusts(c.t, c.ks)
  BY <1>2, <1>3, Zenon DEF CallOk, Carries, Holds
<1> PICK purpose : purpose = Wanted(c.from)
  BY Zenon
<1>6. purpose \in SingletonCertificatePurposes /\ (c.from = "keycert" <=> purpose = KEY)
  BY <1>4, Zenon DEF Wanted, SingletonCertificatePurposes, ROLE, KEY, HYOK
<1> PICK x : x = buildCertificateModel(c.from = "keycert" => c.ks.km)
  BY Zenon
<1>7. x \in Certificate /\ (x.named <=> (c.from = "keycert" => c.ks.km))
  BY Zenon DEF buildCertificateModel, Certificate, Ages
<1>8. /\ Signs(c.t, purpose, x) /\ (x.named \/ IssuesEmpty)
      /\ UNCHANGED <<pool, created, stored, trusted, cache, raced, ageing, faults>>
  BY <1>7, Zenon DEF getNewCertificate, Issued, Signs
<1>9. purpose = KEY => x.named \/ (IssuesEmpty /\ ~Prepared)
  BY <1>5, <1>6, <1>7, <1>8, Zenon DEF Trusts
<1> PICK len : len = Len(certs[c.t][purpose]) + 1
  BY Zenon
<1>10. len \in Nat /\ len # 0
  BY <1>1, <1>3, <1>6 DEF TypeOK
<1> PICK n : n = [c EXCEPT !.at = After(c.from), !.from = None, !.cert = IF c.from = "rolecert" THEN 0 ELSE len]
  BY Zenon
<1>11. Moves(p) /\ proc'[p] = n
  BY <1>1, Zenon DEF getNewCertificate, Issued, Moves, TypeOK
<1>12. /\ n \in Call /\ n.t = c.t /\ n.ks = c.ks /\ n.name = c.name /\ n.from = None
       /\ n.at = After(c.from) /\ n.cert = IF c.from = "rolecert" THEN 0 ELSE len
  <2>1. After(c.from) \in {"grant", "cache"}
    BY Zenon DEF After
  <2>2. PICK cert \in Nat : cert = IF c.from = "rolecert" THEN 0 ELSE len
    BY <1>10
  <2>3. n = [c EXCEPT !.at = After(c.from), !.from = None, !.cert = cert]
    BY <2>2, Zenon
  <2> QED BY <1>3, <2>1, <2>2, <2>3, ZenonT(40) DEF Call
<1>13. TypeOK' /\ Grows /\ GrantedInv' /\ CachedInv' /\ len \in DOMAIN certs'[c.t][purpose]
  BY <1>3, <1>6, <1>7, <1>8, <1>9, <1>11, SignedKept, Zenon
<1>14. Carries(n) => Carries(c) /\ Holds(c)
  BY <1>4, <1>5, <1>12 DEF Carries, After
<1>15. Carries(n) => n.name = "byok" /\ n.ks \in KeystoreConfig /\ n.ks.ks <= created' /\ Trusts(n.t, n.ks)'
  <2>1. Carries(c) => c.name = "byok" /\ c.ks \in KeystoreConfig /\ c.ks.ks <= created /\ Trusts(c.t, c.ks)
    BY <1>3, Zenon DEF CallOk
  <2>2. Trusts(c.t, c.ks) => Trusts(c.t, c.ks)'
    BY <1>8, Zenon DEF Trusts
  <2> QED BY <1>8, <1>12, <1>14, <2>1, <2>2, Zenon
<1>16. CallOk(n)'
  <2>1. CASE c.from = "rolecert"
    <3>1. n.at = "grant"
      BY <1>12, <2>1, Zenon DEF After
    <3> QED BY <1>12, <1>15, <3>1, Zenon DEF CallOk
  <2>2. CASE c.from # "rolecert"
    <3>1. n.at = "cache" /\ n.cert = len
      BY <1>12, <2>2, Zenon DEF After
    <3>2. n.name = "byok" => n.cert \in DOMAIN certs'[n.t][KEY]
      BY <1>4, <1>6, <1>12, <1>13, <2>2, <3>1, Zenon
    <3> QED BY <1>10, <1>12, <1>15, <3>1, <3>2, Zenon DEF CallOk
  <2> QED BY <2>1, <2>2, Zenon
<1>17. Takes(p) /\ ProcOk(p)'
  BY <1>11, <1>12, <1>14, <1>16, Zenon DEF Takes, ProcOk, After, Holds
<1> QED BY <1>8, <1>11, <1>13, <1>17, Assemble, Zenon

(* RotateCertificate: the new certificate has the name of the old one. *)
LEMMA RotateInv ==
    ASSUME KeystoresInv, NEW p \in Procs, RotateCertificate(p)
    PROVE  KeystoresInv'
<1>1. TypeOK /\ GrantedInv
  BY Zenon DEF KeystoresInv
<1>2. proc[p].at = "rotate"
  BY Zenon DEF RotateCertificate, Rotated, At
<1>3. CallOk(proc[p]) /\ proc[p] \in Call /\ proc[p].t \in Tenants
  BY <1>2, InCall, Zenon
<1>c. PICK c : c = proc[p]
  BY Zenon
<1>d. PICK d : d = CHOOSE x \in c.due : TRUE
  BY Zenon
<1>4. d \in c.due /\ d[2] \in DOMAIN certs[c.t][d[1]] /\ d[1] \in SingletonCertificatePurposes
  BY <1>2, <1>3, <1>c, <1>d, Zenon DEF CallOk, Call
<1>at. PICK purpose, i : purpose = d[1] /\ i = d[2]
  BY Zenon
<1>rows. PICK rows : rows = certs[c.t][purpose]
  BY Zenon
<1>5. rows \in Seq(Certificate) /\ i \in DOMAIN rows /\ purpose \in SingletonCertificatePurposes
  BY <1>1, <1>3, <1>4, <1>c, <1>at, <1>rows DEF TypeOK
<1>old. PICK old : old = rows[i]
  BY Zenon
<1>6. old \in Certificate
  BY <1>5, <1>old
<1>7. purpose = KEY => old.named \/ (IssuesEmpty /\ ~Prepared)
  BY <1>1, <1>3, <1>5, <1>c, <1>rows, <1>old, Zenon DEF GrantedInv
<1>x. PICK x : x = [buildCertificateModel(old.named) EXCEPT !.auto = TRUE]
  BY Zenon
<1>8. x \in Certificate /\ x.named = old.named
  BY <1>6, <1>x, Zenon DEF buildCertificateModel, Certificate, Ages
<1>9. Signs(c.t, purpose, x) /\ UNCHANGED <<pool, created, stored, trusted, cache, raced, ageing, faults>>
  BY <1>c, <1>d, <1>at, <1>rows, <1>old, <1>x, Zenon DEF RotateCertificate, Rotated, Signs
<1>len. PICK len : len = Len(rows) + 1
  BY Zenon
<1>10. len \in Nat /\ len # 0
  BY <1>5, <1>len
<1>n. PICK n : n = [c EXCEPT !.at = "retire", !.cert = len]
  BY Zenon
<1>11. Moves(p) /\ proc'[p] = n
  <2>1. proc' = [proc EXCEPT ![p].at = "retire", ![p].cert = len]
    BY <1>c, <1>d, <1>at, <1>rows, <1>len, Zenon DEF RotateCertificate, Rotated
  <2> QED BY <1>1, <1>c, <1>n, <2>1, Zenon DEF Moves, TypeOK
<1>12. TypeOK' /\ Grows /\ GrantedInv' /\ CachedInv'
  <2>1. purpose = KEY => x.named \/ (IssuesEmpty /\ ~Prepared)
    BY <1>7, <1>8, Zenon
  <2>2. c.t \in Tenants
    BY <1>3, <1>c, Zenon
  <2> QED BY <1>5, <1>8, <1>9, <1>11, <2>1, <2>2, SignedKept, Zenon
<1>13. n \in Call /\ n.at = "retire" /\ n.cert = len /\ n.due = c.due /\ n.t = c.t
  BY <1>3, <1>10, <1>c, <1>n, Zenon DEF Call
<1>14. n.due # {} /\ \A e \in n.due : e[2] \in DOMAIN certs'[n.t][e[1]]
  <2>1. c.due # {} /\ \A e \in c.due : e[2] \in DOMAIN certs[c.t][e[1]] /\ e[1] \in SingletonCertificatePurposes
    BY <1>2, <1>3, <1>c, Zenon DEF CallOk, Call
  <2> QED BY <1>3, <1>c, <1>12, <1>13, <2>1, Zenon DEF Grows
<1>15. ~Carries(n) /\ CallOk(n)'
  BY <1>10, <1>13, <1>14, Zenon DEF CallOk, Carries
<1>16. Takes(p) /\ ProcOk(p)'
  BY <1>11, <1>13, <1>15, Zenon DEF Takes, ProcOk, Holds
<1> QED BY <1>9, <1>11, <1>12, <1>16, Assemble, Zenon

(* One certificate row is changed, in its age or its rotation. *)
Marks(t, purpose, i, x) == certs' = [certs EXCEPT ![t][purpose][i] = x]

(* Changing one certificate changes no other and no tenant's number of
   certificates. *)
LEMMA Marked ==
    ASSUME TypeOK, NEW t \in Tenants, NEW purpose \in SingletonCertificatePurposes,
           NEW i \in DOMAIN certs[t][purpose], NEW x \in Certificate, Marks(t, purpose, i, x),
           x.named = certs[t][purpose][i].named
    PROVE  /\ certs' \in [Tenants -> [SingletonCertificatePurposes -> Seq(Certificate)]]
           /\ \A u \in Tenants, other \in SingletonCertificatePurposes :
                DOMAIN certs'[u][other] = DOMAIN certs[u][other]
           /\ \A u \in Tenants : \A j \in DOMAIN certs'[u][KEY] : certs'[u][KEY][j].named = certs[u][KEY][j].named
<1>1. certs \in [Tenants -> [SingletonCertificatePurposes -> Seq(Certificate)]]
  BY Zenon DEF TypeOK
<1>2. PICK s : s = [certs[t][purpose] EXCEPT ![i] = x]
  BY Zenon
<1>3. s \in Seq(Certificate) /\ DOMAIN s = DOMAIN certs[t][purpose]
  BY <1>1, <1>2
<1>4. \A j \in DOMAIN s : s[j].named = certs[t][purpose][j].named
  BY <1>1, <1>2, Zenon
<1>5. PICK row : row = [certs[t] EXCEPT ![purpose] = s]
  BY Zenon
<1>6. row \in [SingletonCertificatePurposes -> Seq(Certificate)]
  BY <1>1, <1>3, <1>5, Zenon
<1>7. certs' = [certs EXCEPT ![t] = row]
  BY <1>2, <1>5, Zenon DEF Marks
<1>8. certs' \in [Tenants -> [SingletonCertificatePurposes -> Seq(Certificate)]]
  BY <1>1, <1>6, <1>7, Zenon
<1>9. \A u \in Tenants, other \in SingletonCertificatePurposes :
        \/ certs'[u][other] = certs[u][other]
        \/ u = t /\ other = purpose /\ certs'[u][other] = s
  BY <1>1, <1>5, <1>7, Zenon
<1>10. \A u \in Tenants, other \in SingletonCertificatePurposes : DOMAIN certs'[u][other] = DOMAIN certs[u][other]
  BY <1>3, <1>9, Zenon
<1>11. KEY \in SingletonCertificatePurposes
  BY Zenon DEF SingletonCertificatePurposes
<1>12. \A u \in Tenants : \A j \in DOMAIN certs'[u][KEY] : certs'[u][KEY][j].named = certs[u][KEY][j].named
  BY <1>4, <1>9, <1>11, Zenon
<1> QED BY <1>8, <1>10, <1>12, Zenon

(* What a change of one row leaves good. *)
LEMMA MarkedKept ==
    ASSUME KeystoresInv, NEW t \in Tenants, NEW purpose \in SingletonCertificatePurposes,
           NEW i \in DOMAIN certs[t][purpose], NEW x \in Certificate, Marks(t, purpose, i, x),
           x.named = certs[t][purpose][i].named,
           UNCHANGED <<pool, created, stored, trusted, cache, raced, faults>>, ageing' \in 0..MaxAgeing,
           proc' = [p \in Procs |-> proc'[p]]
    PROVE  /\ TypeOK' /\ Grows /\ GrantedInv' /\ CachedInv'
           /\ \A u \in Tenants, other \in SingletonCertificatePurposes :
                DOMAIN certs'[u][other] = DOMAIN certs[u][other]
<1>1. TypeOK /\ GrantedInv /\ CachedInv
  BY Zenon DEF KeystoresInv
<1>2. /\ certs' \in [Tenants -> [SingletonCertificatePurposes -> Seq(Certificate)]]
      /\ \A u \in Tenants, other \in SingletonCertificatePurposes :
           DOMAIN certs'[u][other] = DOMAIN certs[u][other]
      /\ \A u \in Tenants : \A j \in DOMAIN certs'[u][KEY] : certs'[u][KEY][j].named = certs[u][KEY][j].named
  BY <1>1, Marked, Zenon
<1>3. TypeOK'
  BY <1>1, <1>2, Zenon DEF TypeOK
<1>4. Grows
  BY <1>1, <1>2, KeystoresAssumption, SMTT(30) DEF Grows, TypeOK
<1>5. \A u \in Tenants : DOMAIN certs[u][KEY] = DOMAIN certs'[u][KEY]
  BY <1>2, Zenon DEF SingletonCertificatePurposes
<1>6. GrantedInv' /\ CachedInv'
  BY <1>1, <1>2, <1>5, CertsKept, Zenon
<1> QED BY <1>2, <1>3, <1>4, <1>6, Zenon

(* UpdateCertificate switches the rotation of the old certificate off. *)
LEMMA UpdateInv ==
    ASSUME KeystoresInv, NEW p \in Procs, UpdateCertificate(p)
    PROVE  KeystoresInv'
<1>1. TypeOK /\ ageing \in 0..MaxAgeing
  BY Zenon DEF KeystoresInv, TypeOK
<1>2. proc[p].at = "retire"
  BY Zenon DEF UpdateCertificate, At
<1>3. CallOk(proc[p]) /\ proc[p] \in Call /\ proc[p].t \in Tenants
  BY <1>2, InCall, Zenon
<1>c. PICK c : c = proc[p]
  BY Zenon
<1>d. PICK d : d = CHOOSE x \in c.due : TRUE
  BY Zenon
<1>4. d \in c.due /\ d[2] \in DOMAIN certs[c.t][d[1]] /\ d[1] \in SingletonCertificatePurposes /\ c.cert # 0
  BY <1>2, <1>3, <1>c, <1>d, Zenon DEF CallOk, Call
<1>at. PICK purpose, i : purpose = d[1] /\ i = d[2]
  BY Zenon
<1>rows. PICK rows : rows = certs[c.t][purpose]
  BY Zenon
<1>5. rows \in Seq(Certificate) /\ i \in DOMAIN rows /\ purpose \in SingletonCertificatePurposes
  BY <1>1, <1>3, <1>4, <1>c, <1>at, <1>rows, SMTT(30) DEF TypeOK
<1>x. PICK x : x = [rows[i] EXCEPT !.auto = FALSE]
  BY Zenon
<1>6. x \in Certificate /\ x.named = rows[i].named
  <2>1. PICK old \in Certificate : old = rows[i]
    BY <1>5
  <2>2. x = [old EXCEPT !.auto = FALSE]
    BY <1>x, <2>1, Zenon
  <2> QED BY <2>1, <2>2, Zenon DEF Certificate
<1>7. Marks(c.t, purpose, i, x) /\ UNCHANGED <<pool, created, stored, trusted, cache, raced, ageing, faults>>
  <2>1. certs' = [certs EXCEPT ![c.t][purpose][i].auto = FALSE]
    BY <1>c, <1>d, <1>at, Zenon DEF UpdateCertificate
  <2>2. certs' = [certs EXCEPT ![c.t][purpose][i] = x]
    BY <1>5, <1>rows, <1>x, <2>1, Zenon
  <2> QED BY <2>2, Zenon DEF UpdateCertificate, Marks
<1>n. PICK n : n = IF c.name = "hyok" THEN [c EXCEPT !.at = "cache", !.due = {}]
                 ELSE IF c.due = {d} THEN Idle
                 ELSE [c EXCEPT !.at = "rotate", !.due = c.due \ {d}, !.cert = 0]
  BY Zenon
<1>8. Moves(p) /\ proc'[p] = n
  <2>1. proc' = [proc EXCEPT ![p] = n]
    BY <1>c, <1>d, <1>n, Zenon DEF UpdateCertificate
  <2> QED BY <1>1, <2>1, MovesTo, Zenon
<1>9. /\ TypeOK' /\ Grows /\ GrantedInv' /\ CachedInv'
       /\ \A u \in Tenants, other \in SingletonCertificatePurposes : DOMAIN certs'[u][other] = DOMAIN certs[u][other]
  <2>1. c.t \in Tenants /\ i \in DOMAIN certs[c.t][purpose] /\ x.named = certs[c.t][purpose][i].named
    BY <1>3, <1>5, <1>6, <1>c, <1>rows, Zenon
  <2>2. proc' = [q \in Procs |-> proc'[q]]
    BY <1>8, Zenon DEF Moves
  <2>3. ageing' \in 0..MaxAgeing
    BY <1>1, <1>7, Zenon
  <2> QED BY <1>5, <1>6, <1>7, <2>1, <2>2, <2>3, MarkedKept, Zenon
<1>10. ~Carries(n) /\ n.at # "add" /\ (n.at = "idle" \/ CallOk(n)')
  <2>1. CASE c.name = "hyok"
    <3>1. n \in Call /\ n.at = "cache" /\ n.name = "hyok" /\ n.cert = c.cert
      BY <1>3, <1>c, <1>n, <2>1, Zenon DEF Call
    <3> QED BY <1>4, <3>1, Zenon DEF CallOk, Carries
  <2>2. CASE c.name # "hyok" /\ c.due = {d}
    <3>1. n = Idle
      BY <1>n, <2>2, Zenon
    <3> QED BY <3>1, Zenon DEF Idle, Carries
  <2>3. CASE c.name # "hyok" /\ c.due # {d}
    <3>1. n = [c EXCEPT !.at = "rotate", !.due = c.due \ {d}, !.cert = 0]
      BY <1>n, <2>3, Zenon
    <3>2. n \in Call /\ n.at = "rotate" /\ n.due = c.due \ {d} /\ n.t = c.t
      BY <1>3, <1>c, <3>1, Zenon DEF Call
    <3>3. n.due # {}
      BY <1>4, <2>3, <3>2, Zenon
    <3>4. \A e \in c.due : e[2] \in DOMAIN certs[c.t][e[1]] /\ e[1] \in SingletonCertificatePurposes
      BY <1>2, <1>3, <1>c, Zenon DEF CallOk, Call
    <3>5. \A e \in n.due : e[2] \in DOMAIN certs'[n.t][e[1]]
      BY <1>3, <1>c, <1>9, <3>2, <3>4, ZenonT(40)
    <3> QED BY <3>2, <3>3, <3>5, Zenon DEF CallOk, Carries
  <2> QED BY <2>1, <2>2, <2>3, Zenon
<1>11. Takes(p) /\ ProcOk(p)'
  BY <1>8, <1>10, Zenon DEF Takes, ProcOk, Holds
<1> QED BY <1>7, <1>8, <1>9, <1>11, Assemble, Zenon

(* Time passes: a certificate gets older. *)
LEMMA OlderInv ==
    ASSUME KeystoresInv, NEW t \in Tenants, NEW purpose \in SingletonCertificatePurposes,
           NEW i \in DOMAIN certs[t][purpose], GetsOlder(t, purpose, i)
    PROVE  KeystoresInv'
<1>1. TypeOK /\ ProcsInv /\ PoolInv /\ OwnersInv /\ HeldInv
  BY Zenon DEF KeystoresInv
<1>2. PICK age \in {"due", "expired"} : certs' = [certs EXCEPT ![t][purpose][i].age = age]
  BY Zenon DEF GetsOlder
<1>3. UNCHANGED <<pool, created, stored, trusted, cache, proc, raced, faults>>
  BY Zenon DEF GetsOlder
<1>4. ageing' \in 0..MaxAgeing
  BY <1>1, KeystoresAssumption, SMTT(30) DEF GetsOlder, TypeOK
<1>5. PICK old \in Certificate : old = certs[t][purpose][i]
  BY <1>1 DEF TypeOK
<1>6. PICK x : x = [old EXCEPT !.age = age]
  BY Zenon
<1>7. x \in Certificate /\ x.named = certs[t][purpose][i].named
  BY <1>5, <1>6, Zenon DEF Certificate, Ages
<1>8. Marks(t, purpose, i, x)
  BY <1>2, <1>5, <1>6, Zenon DEF Marks
<1>9. proc' = [p \in Procs |-> proc'[p]]
  BY <1>1, <1>3, Zenon DEF TypeOK
<1>10. TypeOK' /\ Grows /\ GrantedInv' /\ CachedInv'
  BY <1>3, <1>4, <1>7, <1>8, <1>9, MarkedKept, Zenon
<1>11. ProcsInv'
  <2> SUFFICES ASSUME NEW q \in Procs PROVE ProcOk(q)'
    BY Zenon DEF ProcsInv
  <2>1. Moves(q)
    BY <1>3, <1>9, Zenon DEF Moves
  <2>2. proc'[q] = proc[q] /\ created' = created /\ ProcOk(q)
    BY <1>1, <1>3, Zenon DEF ProcsInv
  <2>3. PICK c : c = proc[q]
    BY Zenon
  <2>4. CallOk(c) => CallOk(c)'
    BY <1>10, CallKept, ZenonT(40)
  <2> QED BY <2>2, <2>3, <2>4, Zenon DEF ProcOk, Adds
<1>12. PoolInv' /\ OwnersInv' /\ HeldInv'
  BY <1>1, <1>3 DEF PoolInv, OwnersInv, HeldInv, Owns, Leads, Adds
<1> QED BY <1>10, <1>11, <1>12, Zenon DEF KeystoresInv

(* The entry NewProviderConfig makes, and an empty cache. *)
LEMMA CacheInv ==
    ASSUME KeystoresInv, NEW p \in Procs, Done(p), faults' \in 0..MaxFaults,
           UNCHANGED <<pool, created, stored, certs, trusted, raced, ageing>>,
           NEW entries \in [Tenants -> [hyok : ProviderConfig \cup {None}, byok : ProviderConfig \cup {None}]],
           cache' = [cache EXCEPT ![p] = entries],
           \A t \in Tenants :
             \/ entries[t].byok = None
             \/ entries[t].byok = cache[p][t].byok
             \/ /\ entries[t].byok.km => <<entries[t].byok.ks, t>> \in trusted
                /\ entries[t].byok.cert \in DOMAIN certs[t][KEY]
                /\ t \notin raced => Leads(t, entries[t].byok.ks)
    PROVE  KeystoresInv'
<1>1. TypeOK /\ GrantedInv /\ CachedInv
  BY Zenon DEF KeystoresInv
<1>2. Moves(p) /\ proc'[p] = Idle
  BY <1>1, MovesTo, ZenonT(40) DEF Done
<1>3. Takes(p) /\ ProcOk(p)'
  BY <1>2 DEF Takes, ProcOk, Idle, Carries, Holds
<1>4. TypeOK'
  <2>1. cache' \in [Procs -> [Tenants -> [hyok : ProviderConfig \cup {None}, byok : ProviderConfig \cup {None}]]]
    BY <1>1, Zenon DEF TypeOK
  <2> QED BY <1>1, <1>2, <2>1, Zenon DEF TypeOK, Moves
<1>5. Grows
  BY <1>1, KeystoresAssumption DEF TypeOK, Grows
<1>6. GrantedInv'
  BY <1>1, Zenon DEF GrantedInv, Trusts
<1>7. CachedInv'
  <2> SUFFICES ASSUME NEW q \in Procs, NEW t \in Tenants, NEW e, e = cache'[q][t].byok, e # None
               PROVE  /\ e.km => <<e.ks, t>> \in trusted
                      /\ e.cert \in DOMAIN certs[t][KEY]
                      /\ t \notin raced => Leads(t, e.ks)
    BY DEF CachedInv, Leads
  <2>1. CASE e = cache[q][t].byok
    BY <1>1, <2>1, Zenon DEF CachedInv
  <2>2. CASE e # cache[q][t].byok
    <3>1. q = p /\ e = entries[t].byok
      BY <1>1, <2>2, Zenon DEF TypeOK
    <3> QED BY <2>2, <3>1, Zenon
  <2> QED BY <2>1, <2>2, Zenon
<1> QED BY <1>2, <1>3, <1>4, <1>5, <1>6, <1>7, Assemble, Zenon

(* Restart empties the cache of the process. *)
LEMMA RestartInv ==
    ASSUME KeystoresInv, NEW p \in Procs, Restart(p)
    PROVE  KeystoresInv'
<1>1. faults' \in 0..MaxFaults
  BY KeystoresAssumption DEF KeystoresInv, TypeOK, Restart
<1>2. PICK entries : entries = [t \in Tenants |-> [hyok |-> None, byok |-> None]]
  BY Zenon
<1>3. entries \in [Tenants -> [hyok : ProviderConfig \cup {None}, byok : ProviderConfig \cup {None}]]
  BY <1>2, Zenon
<1>4. \A t \in Tenants : entries[t].byok = None
  BY <1>2, Zenon
<1>5. Done(p) /\ cache' = [cache EXCEPT ![p] = entries] /\ UNCHANGED <<pool, created, stored, certs, trusted, raced, ageing>>
  BY <1>2, Zenon DEF Restart
<1> QED BY <1>1, <1>3, <1>4, <1>5, CacheInv, ZenonT(40)

(* NewProviderConfig caches what the call carries, for its tenant only. *)
LEMMA ProviderInv ==
    ASSUME KeystoresInv, NEW p \in Procs, NewProviderConfig(p)
    PROVE  KeystoresInv'
<1>1. TypeOK /\ HeldInv /\ faults \in 0..MaxFaults
  BY Zenon DEF KeystoresInv, TypeOK
<1>2. proc[p].at = "cache"
  BY Zenon DEF NewProviderConfig, Cached, At
<1>3. CallOk(proc[p]) /\ proc[p] \in Call /\ proc[p].t \in Tenants
  BY <1>2, InCall, Zenon
<1>4. PICK c : c = proc[p]
  BY Zenon
<1>5. c.cert \in Nat \ {0} /\ c.t \in Tenants
  BY <1>2, <1>3, <1>4, Zenon DEF CallOk, Call
<1>6. c.name # "hyok" => /\ c.name = "byok" /\ c.ks \in KeystoreConfig /\ Trusts(c.t, c.ks)
                         /\ c.cert \in DOMAIN certs[c.t][KEY]
                         /\ c.t \notin raced => Leads(c.t, c.ks.ks)
  BY <1>1, <1>2, <1>3, <1>4, Zenon DEF CallOk, Carries, Holds, HeldInv
<1>7. PICK config : config = [ks |-> IF c.name = "hyok" THEN None ELSE c.ks.ks,
                              km |-> c.name = "hyok" \/ c.ks.km, cert |-> c.cert]
  BY Zenon
<1>8. config \in ProviderConfig
  BY <1>5, <1>6, <1>7, Zenon DEF ProviderConfig, KeystoreConfig
<1>9. PICK entries : entries = [t \in Tenants |-> IF t \in {c.t} THEN [cache[p][t] EXCEPT ![c.name] = config]
                                                  ELSE cache[p][t]]
  BY Zenon
<1>10. Done(p) /\ cache' = [cache EXCEPT ![p] = entries]
       /\ UNCHANGED <<pool, created, stored, certs, trusted, raced, ageing, faults>>
  BY <1>1, <1>4, <1>7, <1>9, Zenon DEF NewProviderConfig, Cached, TypeOK
<1>11. \A t \in Tenants : /\ cache[p][t] \in [hyok : ProviderConfig \cup {None}, byok : ProviderConfig \cup {None}]
                          /\ t # c.t => entries[t] = cache[p][t]
  BY <1>1, <1>9, Zenon DEF TypeOK
<1>12. PICK e : e = entries[c.t]
  BY Zenon
<1>13. /\ e \in [hyok : ProviderConfig \cup {None}, byok : ProviderConfig \cup {None}]
       /\ c.name = "hyok" => e.byok = cache[p][c.t].byok
       /\ c.name = "byok" => e.byok = config
  <2>1. e = [cache[p][c.t] EXCEPT ![c.name] = config]
    BY <1>5, <1>9, <1>12, Zenon
  <2>2. CASE c.name = "hyok"
    BY <1>5, <1>8, <1>11, <2>1, <2>2, Zenon
  <2>3. CASE c.name = "byok"
    BY <1>5, <1>8, <1>11, <2>1, <2>3, Zenon
  <2> QED BY <1>6, <2>2, <2>3, Zenon
<1>14. entries \in [Tenants -> [hyok : ProviderConfig \cup {None}, byok : ProviderConfig \cup {None}]]
  <2>1. \A t \in Tenants : entries[t] \in [hyok : ProviderConfig \cup {None}, byok : ProviderConfig \cup {None}]
    BY <1>11, <1>12, <1>13, Zenon
  <2>2. entries = [t \in Tenants |-> entries[t]]
    BY <1>9, Zenon
  <2> QED BY <2>1, <2>2, Zenon
<1>15. ASSUME NEW t \in Tenants
       PROVE  \/ entries[t].byok = None
              \/ entries[t].byok = cache[p][t].byok
              \/ /\ entries[t].byok.km => <<entries[t].byok.ks, t>> \in trusted
                 /\ entries[t].byok.cert \in DOMAIN certs[t][KEY]
                 /\ t \notin raced => Leads(t, entries[t].byok.ks)
  <2>1. CASE t # c.t \/ c.name = "hyok"
    BY <1>11, <1>12, <1>13, <2>1, Zenon
  <2>2. CASE t = c.t /\ c.name # "hyok"
    <3>1. entries[t].byok = config
      BY <1>6, <1>12, <1>13, <2>2, Zenon
    <3>2. config.ks = c.ks.ks /\ (config.km <=> c.ks.km) /\ config.cert = c.cert
      BY <1>7, <2>2, Zenon
    <3>3. c.ks.km => <<c.ks.ks, c.t>> \in trusted
      BY <1>6, <2>2, Zenon DEF Trusts
    <3> QED BY <1>6, <2>2, <3>1, <3>2, <3>3, Zenon
  <2> QED BY <2>1, <2>2, Zenon
<1> QED BY <1>1, <1>10, <1>14, <1>15, CacheInv, Zenon

(* A process that is adding a keystore to the pool. *)
LEMMA AddedIs ==
    ASSUME KeystoresInv, NEW p \in Procs, Adds(p)
    PROVE  proc[p].ks \in 1..created
BY Zenon DEF KeystoresInv, ProcsInv, ProcOk, Adds, CallOk, Call

(* CreateKeystore makes a keystore nobody has. *)
LEMMA CreateInv ==
    ASSUME KeystoresInv, NEW p \in Procs, CreateKeystore(p)
    PROVE  KeystoresInv'
<1>1. TypeOK /\ ProcsInv /\ PoolInv /\ OwnersInv /\ GrantedInv /\ HeldInv /\ CachedInv
  BY Zenon DEF KeystoresInv
<1>2. created \in Nat /\ created' = created + 1 /\ created' \in 0..MaxKeystores /\ trusted \subseteq trusted'
  BY <1>1, KeystoresAssumption DEF TypeOK, CreateKeystore
<1>3. UNCHANGED <<pool, stored, certs, cache, raced, ageing, faults>>
  BY Zenon DEF CreateKeystore
<1>4. PICK n : n = [at |-> "add", missing |-> proc[p].missing, ks |-> created + 1]
  BY Zenon
<1>5. Moves(p) /\ proc'[p] = n
  BY <1>1, <1>4, MovesTo, Zenon DEF CreateKeystore
<1>6. n.at = "add" /\ n.ks = created + 1 /\ ~Carries(n) /\ ~Holds(n)
  BY <1>4, Zenon DEF Carries, Holds
<1>7. TypeOK'
  BY <1>1, <1>2, <1>3, <1>5, SMTT(30) DEF TypeOK, Moves
<1>8. Grows
  BY <1>2, <1>3 DEF Grows
<1>9. ProcsInv'
  <2>1. ProcOk(p)'
    BY <1>2, <1>5, <1>6, SMTT(30) DEF ProcOk, Adds
  <2> QED BY <1>1, <1>5, <1>8, <2>1, ProcsKept, Zenon
<1>10. \A q \in Procs : Carries(proc[q]) => proc[q].ks.ks \in 1..created
  <2> SUFFICES ASSUME NEW q \in Procs, Carries(proc[q]) PROVE proc[q].ks.ks \in 1..created
    BY Zenon
  <2>1. CallOk(proc[q])
    BY InCall, Zenon DEF Carries
  <2>2. proc[q].ks \in KeystoreConfig /\ proc[q].ks.ks <= created
    BY <2>1, Zenon DEF CallOk
  <2> QED BY <1>2, <2>2, KeystoresAssumption DEF KeystoreConfig
<1>11. \A t \in Tenants : \A k : Leads(t, k) => k \in 1..created
  BY <1>1, <1>2, KeystoresAssumption, SMTT(30) DEF GrantedInv, Leads, TypeOK, KeystoreConfig
<1>12. \A t \in Tenants : \A k : Owns(t, k)' => Owns(t, k) /\ k \in 1..created
  <2> SUFFICES ASSUME NEW t \in Tenants, NEW k, Owns(t, k)' PROVE Owns(t, k) /\ k \in 1..created
    BY Zenon
  <2>1. CASE Leads(t, k)'
    BY <1>3, <1>11, <2>1, Zenon DEF Leads, Owns
  <2>2. CASE \E q \in Procs : Holds(proc'[q]) /\ proc'[q].t = t /\ proc'[q].ks.ks = k
    BY <1>5, <1>6, <1>10, <2>2, Zenon DEF Owns, Moves, Holds
  <2> QED BY <2>1, <2>2, Zenon DEF Owns
<1>13. PoolInv'
  <2>1. \A t \in Tenants, k \in pool' : ~Owns(t, k)'
    BY <1>1, <1>3, <1>12, Zenon DEF PoolInv
  <2>2. ASSUME NEW q \in Procs, Adds(q)'
        PROVE  /\ proc'[q].ks \notin pool'
               /\ \A t \in Tenants : ~Leads(t, proc[q].ks)'
               /\ \A r \in Procs \ {q} :
                    /\ Carries(proc'[r]) => proc'[r].ks.ks # proc'[q].ks
                    /\ Adds(r)' => proc'[r].ks # proc'[q].ks
    <3>1. CASE q = p
      <4>1. \A r \in Procs \ {p} : Adds(r)' => proc'[r].ks \in 1..created
        BY <1>5, AddedIs, Zenon DEF Moves, Adds
      <4>2. \A r \in Procs \ {p} : Carries(proc'[r]) => proc'[r].ks.ks \in 1..created
        BY <1>5, <1>10, Zenon DEF Moves
      <4>3. proc'[q].ks \notin 1..created /\ pool' \subseteq 1..created
        BY <1>1, <1>2, <1>3, <1>5, <1>6, <3>1, SMTT(30) DEF TypeOK
      <4>4. \A t \in Tenants : ~Leads(t, proc[q].ks)'
        BY <1>3, <1>11, <4>3, Zenon DEF Leads
      <4> QED BY <3>1, <4>1, <4>2, <4>3, <4>4, Zenon
    <3>2. CASE q # p
      <4>1. proc'[q] = proc[q] /\ Adds(q)
        BY <1>5, <2>2, <3>2, Zenon DEF Moves, Adds
      <4>2. /\ proc[q].ks \notin pool
            /\ \A t \in Tenants : ~Leads(t, proc[q].ks)
            /\ \A r \in Procs \ {q} :
                 /\ Carries(proc[r]) => proc[r].ks.ks # proc[q].ks
                 /\ Adds(r) => proc[r].ks # proc[q].ks
        BY <1>1, <4>1, Zenon DEF PoolInv
      <4>3. proc[q].ks # created + 1
        BY <1>2, <4>1, AddedIs
      <4>4. \A t \in Tenants : ~Leads(t, proc[q].ks)'
        BY <1>3, <4>1, <4>2, Zenon DEF Leads
      <4>5. ASSUME NEW r \in Procs \ {q}
            PROVE  /\ Carries(proc'[r]) => proc'[r].ks.ks # proc'[q].ks
                   /\ Adds(r)' => proc'[r].ks # proc'[q].ks
        BY <1>5, <1>6, <4>1, <4>2, <4>3, Zenon DEF Moves, Adds
      <4> QED BY <1>3, <4>1, <4>2, <4>4, <4>5, Zenon
    <3> QED BY <3>1, <3>2, Zenon
  <2> QED BY <2>1, <2>2, Zenon DEF PoolInv
<1>14. OwnersInv'
  BY <1>1, <1>3, <1>12, Zenon DEF OwnersInv
<1>15. GrantedInv'
  <2>1. Prepared => \A k \in 1..created', t \in Tenants : <<k, t>> \in trusted'
    <3>1. Prepared => \A k \in 1..created, t \in Tenants : <<k, t>> \in trusted
      BY <1>1, Zenon DEF GrantedInv
    <3>2. Prepared => \A t \in Tenants : <<created + 1, t>> \in trusted'
      BY Zenon DEF CreateKeystore
    <3> SUFFICES ASSUME Prepared, NEW k \in 1..created', NEW t \in Tenants PROVE <<k, t>> \in trusted'
      BY Zenon
    <3>3. k \in 1..created \/ k = created + 1
      BY <1>2
    <3> QED BY <1>2, <3>1, <3>2, <3>3, Zenon
  <2>2. \A t \in Tenants : stored'[t] # None => Trusts(t, stored[t])' /\ stored'[t].ks <= created'
    <3> SUFFICES ASSUME NEW t \in Tenants, stored'[t] # None
                 PROVE  Trusts(t, stored[t])' /\ stored'[t].ks <= created'
      BY Zenon
    <3>1. PICK ks : ks = stored[t]
      BY Zenon
    <3>2. Trusts(t, ks) /\ ks.ks <= created /\ ks \in KeystoreConfig /\ stored'[t] = ks
      BY <1>1, <1>3, <3>1, Zenon DEF GrantedInv, TypeOK
    <3>3. ks.ks <= created'
      BY <1>2, <3>2, KeystoresAssumption DEF KeystoreConfig
    <3>4. Trusts(t, ks)'
      BY <1>2, <3>2, Zenon DEF Trusts
    <3> QED BY <3>1, <3>2, <3>3, <3>4, Zenon DEF Trusts
  <2> QED BY <1>1, <1>3, <2>1, <2>2, Zenon DEF GrantedInv
<1>16. HeldInv'
  BY <1>1, <1>3, <1>5, <1>6, Zenon DEF HeldInv, Moves, Leads
<1>17. CachedInv'
  BY <1>1, <1>2, <1>3, ZenonT(40) DEF CachedInv, Leads
<1> QED BY <1>7, <1>9, <1>13, <1>14, <1>15, <1>16, <1>17, ZenonT(40) DEF KeystoresInv

(* AddKeystoreToPool: the keystore goes into the pool, where nobody owns it. *)
LEMMA AddInv ==
    ASSUME KeystoresInv, NEW p \in Procs, AddKeystoreToPool(p)
    PROVE  KeystoresInv'
<1>1. TypeOK /\ ProcsInv /\ PoolInv /\ OwnersInv /\ GrantedInv /\ HeldInv /\ CachedInv
  BY Zenon DEF KeystoresInv
<1>2. Adds(p) /\ proc[p].ks \in 1..created
  BY AddedIs, Zenon DEF AddKeystoreToPool, At, Adds
<1>3. PICK k0 : k0 = proc[p].ks
  BY Zenon
<1>4. pool' = pool \cup {k0} /\ UNCHANGED <<created, stored, certs, trusted, cache, raced, ageing, faults>>
  BY <1>3, Zenon DEF AddKeystoreToPool
<1>5. PICK n : n = IF proc[p].missing = 1 THEN Idle ELSE [at |-> "fill", missing |-> proc[p].missing - 1]
  BY Zenon
<1>6. Moves(p) /\ proc'[p] = n
  BY <1>1, <1>5, MovesTo, ZenonT(40) DEF AddKeystoreToPool
<1>7. n.at \in {"idle", "fill"} /\ ~Carries(n) /\ ~Holds(n)
  BY <1>5, Zenon DEF Idle, Carries, Holds
<1>8. TypeOK'
  BY <1>1, <1>2, <1>3, <1>4, <1>6, Zenon DEF TypeOK, Moves
<1>9. Grows
  BY <1>1, <1>4, KeystoresAssumption DEF Grows, TypeOK
<1>10. ProcsInv'
  <2>1. ProcOk(p)'
    BY <1>6, <1>7, Zenon DEF ProcOk
  <2> QED BY <1>1, <1>6, <1>9, <2>1, ProcsKept, Zenon
<1>11. Takes(p)
  BY <1>6, <1>7, Zenon DEF Takes
<1>12. \A t \in Tenants : \A k : Owns(t, k)' => Owns(t, k)
  BY <1>4, <1>6, <1>11, NoNewOwner, Zenon
<1>13. \A t \in Tenants : ~Owns(t, k0)
  <2> SUFFICES ASSUME NEW t \in Tenants, Owns(t, k0) PROVE FALSE
    BY Zenon
  <2>1. /\ ~Leads(t, k0)
        /\ \A q \in Procs \ {p} : Carries(proc[q]) => proc[q].ks.ks # k0
    BY <1>1, <1>2, <1>3, Zenon DEF PoolInv
  <2>2. ~Carries(proc[p])
    BY <1>2, Zenon DEF Adds, Carries
  <2> QED BY <2>1, <2>2, Zenon DEF Owns, Holds
<1>14. PoolInv'
  <2>1. \A t \in Tenants, k \in pool' : ~Owns(t, k)'
    BY <1>1, <1>4, <1>12, <1>13, Zenon DEF PoolInv
  <2>2. ASSUME NEW q \in Procs, Adds(q)'
        PROVE  /\ proc'[q].ks \notin pool'
               /\ \A t \in Tenants : ~Leads(t, proc[q].ks)'
               /\ \A r \in Procs \ {q} :
                    /\ Carries(proc'[r]) => proc'[r].ks.ks # proc'[q].ks
                    /\ Adds(r)' => proc'[r].ks # proc'[q].ks
    <3>1. q # p /\ proc'[q] = proc[q] /\ Adds(q)
      BY <1>6, <1>7, <2>2, Zenon DEF Moves, Adds
    <3>2. /\ proc[q].ks \notin pool
          /\ \A t \in Tenants : ~Leads(t, proc[q].ks)
          /\ \A r \in Procs \ {q} :
               /\ Carries(proc[r]) => proc[r].ks.ks # proc[q].ks
               /\ Adds(r) => proc[r].ks # proc[q].ks
      BY <1>1, <3>1, Zenon DEF PoolInv
    <3>3. proc'[q].ks \notin pool'
      BY <1>2, <1>3, <1>4, <3>1, <3>2, Zenon
    <3>4. \A t \in Tenants : ~Leads(t, proc[q].ks)'
      BY <1>4, <3>1, <3>2, Zenon DEF Leads
    <3>5. ASSUME NEW r \in Procs \ {q}
          PROVE  /\ Carries(proc'[r]) => proc'[r].ks.ks # proc'[q].ks
                 /\ Adds(r)' => proc'[r].ks # proc'[q].ks
      BY <1>6, <1>7, <3>1, <3>2, Zenon DEF Moves, Adds
    <3> QED BY <3>3, <3>4, <3>5, Zenon
  <2> QED BY <2>1, <2>2, Zenon DEF PoolInv
<1>15. OwnersInv'
  BY <1>1, <1>4, <1>12, Zenon DEF OwnersInv
<1>16. GrantedInv' /\ CachedInv'
  BY <1>1, <1>4, TrustKept, Zenon
<1>17. HeldInv'
  BY <1>1, <1>4, <1>6, <1>7, Zenon DEF HeldInv, Moves, Leads
<1> QED BY <1>8, <1>10, <1>14, <1>15, <1>16, <1>17, Zenon DEF KeystoresInv

(* A keystore configuration is stored for the tenant of the call: one from   *)
(* the pool, by initDefaultKeystoreFromPool, or the completed copy of the    *)
(* one that is stored, by setDefaultKeystore.                                *)
LEMMA StoreInv ==
    ASSUME KeystoresInv, NEW p \in Procs, NEW c, c = proc[p], CallOk(c), Carries(c), NEW k, k = c.ks.ks,
           stored' = [stored EXCEPT ![c.t] = c.ks], proc' = [proc EXCEPT ![p].at = "keycert"],
           pool' = pool \ {k}, raced \subseteq raced',
           UNCHANGED <<created, certs, trusted, cache, ageing, faults>>,
           k \in pool \/ k \in raced' \/ Owns(c.t, k),
           c.t \in raced' \/ stored[c.t] = None \/ Leads(c.t, k)
    PROVE  KeystoresInv'
<1>1. TypeOK /\ ProcsInv /\ PoolInv /\ OwnersInv /\ GrantedInv /\ HeldInv /\ CachedInv
  BY Zenon DEF KeystoresInv
<1>2. c \in Call /\ c.t \in Tenants /\ c.name = "byok" /\ c.ks \in KeystoreConfig /\ k <= created /\ Trusts(c.t, c.ks)
  BY Zenon DEF CallOk, Call
<1>3. k \in 1..created
  BY <1>1, <1>2, KeystoresAssumption DEF KeystoreConfig, TypeOK
<1>4. PICK n : n = [c EXCEPT !.at = "keycert"]
  BY Zenon
<1>5. Moves(p) /\ proc'[p] = n
  BY <1>1, <1>4, Zenon DEF Moves, TypeOK
<1>6. n \in Call /\ n.at = "keycert" /\ n.t = c.t /\ n.ks = c.ks /\ n.name = c.name /\ Carries(n)
  BY <1>2, <1>4, ZenonT(40) DEF Call, Carries
<1>7. TypeOK'
  BY <1>1, <1>2, <1>5, Zenon DEF TypeOK, Moves
<1>8. Grows
  BY <1>1, KeystoresAssumption DEF Grows, TypeOK
<1>9. ProcsInv'
  <2>1. CallOk(n)'
    BY <1>2, <1>6, Zenon DEF CallOk, Trusts
  <2>2. ProcOk(p)'
    BY <1>5, <2>1, Zenon DEF ProcOk
  <2> QED BY <1>1, <1>5, <1>8, <2>2, ProcsKept, Zenon
<1>10. c.ks # None
  BY <1>2, NoneAssumption, Zenon
<1>11. \A t \in Tenants : \A j : Leads(t, j)' <=> (t = c.t /\ j = k) \/ (t # c.t /\ Leads(t, j))
  BY <1>1, <1>2, <1>10, Zenon DEF Leads, TypeOK
<1>12. \A t \in Tenants : \A j : Owns(t, j)' => Owns(t, j) \/ (t = c.t /\ j = k)
  BY <1>5, <1>6, <1>11, Zenon DEF Owns, Moves
<1>13. PoolInv'
  <2>1. \A t \in Tenants, j \in pool' : ~Owns(t, j)'
    BY <1>1, <1>12, ZenonT(40) DEF PoolInv
  <2>2. ASSUME NEW q \in Procs, Adds(q)'
        PROVE  /\ proc'[q].ks \notin pool'
               /\ \A t \in Tenants : ~Leads(t, proc[q].ks)'
               /\ \A r \in Procs \ {q} :
                    /\ Carries(proc'[r]) => proc'[r].ks.ks # proc'[q].ks
                    /\ Adds(r)' => proc'[r].ks # proc'[q].ks
    <3>1. q # p /\ proc'[q] = proc[q] /\ Adds(q)
      BY <1>5, <1>6, <2>2, Zenon DEF Moves, Adds
    <3>2. /\ proc[q].ks \notin pool
          /\ \A t \in Tenants : ~Leads(t, proc[q].ks)
          /\ \A r \in Procs \ {q} :
               /\ Carries(proc[r]) => proc[r].ks.ks # proc[q].ks
               /\ Adds(r) => proc[r].ks # proc[q].ks
      BY <1>1, <3>1, Zenon DEF PoolInv
    <3>3. proc[q].ks # k
      BY <3>1, <3>2, ZenonT(40)
    <3>4. \A t \in Tenants : ~Leads(t, proc[q].ks)'
      BY <1>11, <3>1, <3>2, <3>3 DEF Leads
    <3>5. ASSUME NEW r \in Procs \ {q}
          PROVE  /\ Carries(proc'[r]) => proc'[r].ks.ks # proc'[q].ks
                 /\ Adds(r)' => proc'[r].ks # proc'[q].ks
      BY <1>5, <1>6, <3>1, <3>2, <3>3, ZenonT(40) DEF Moves, Adds
    <3> QED BY <3>1, <3>2, <3>4, <3>5, SMTT(30)
  <2> QED BY <2>1, <2>2, Zenon DEF PoolInv
<1>14. OwnersInv'
  <2> SUFFICES ASSUME NEW t \in Tenants, NEW j \in 1..created, Owns(t, j)', NEW u \in Tenants \ {t}, Owns(u, j)',
                      j \notin raced'
               PROVE  FALSE
    BY Zenon DEF OwnersInv
  <2>1. \A v, w \in Tenants : Owns(v, j) /\ Owns(w, j) => v = w
    BY <1>1, Zenon DEF OwnersInv
  <2>2. CASE j # k
    BY <1>12, <2>1, <2>2, Zenon
  <2>3. CASE j = k
    <3>1. CASE k \in pool
      BY <1>1, <1>12, <2>3, <3>1, Zenon DEF PoolInv
    <3>2. CASE Owns(c.t, k)
      BY <1>2, <1>12, <2>1, <2>3, <3>2, Zenon
    <3> QED BY <2>3, <3>1, <3>2, Zenon
  <2> QED BY <2>2, <2>3, Zenon
<1>15. GrantedInv'
  <2>1. \A t \in Tenants : stored'[t] # None => Trusts(t, stored[t])' /\ stored'[t].ks <= created'
    BY <1>1, <1>2, ZenonT(40) DEF GrantedInv, Trusts, TypeOK
  <2> QED BY <1>1, <2>1, Zenon DEF GrantedInv
<1>16. \A t \in Tenants : \A j : t \notin raced' /\ Leads(t, j) => Leads(t, j)'
  BY <1>2, <1>11 DEF Leads
<1>17. HeldInv'
  <2> SUFFICES ASSUME NEW q \in Procs, Holds(proc'[q]), proc'[q].t \notin raced'
               PROVE  Leads(proc[q].t, proc[q].ks.ks)'
    BY Zenon DEF HeldInv
  <2>1. CASE q = p
    BY <1>2, <1>5, <1>6, <1>11, <2>1, SMTT(30) DEF Leads
  <2>2. CASE q # p
    <3>1. PICK d : d = proc[q]
      BY Zenon
    <3>2. proc'[q] = d /\ Holds(d) /\ d.t \notin raced /\ d.t \notin raced'
      BY <1>5, <2>2, <3>1, Zenon DEF Moves
    <3>3. d.t \in Tenants
      BY <3>1, <3>2, InCall, Zenon DEF Holds, Carries
    <3>4. Leads(d.t, d.ks.ks)
      BY <1>1, <3>1, <3>2, Zenon DEF HeldInv
    <3>5. Leads(d.t, d.ks.ks)'
      BY <1>16, <3>2, <3>3, <3>4, Zenon
    <3> QED BY <3>2, <3>5, Zenon DEF Leads
  <2> QED BY <2>1, <2>2, Zenon
<1>18. CachedInv'
  <2> SUFFICES ASSUME NEW q \in Procs, NEW t \in Tenants, NEW e, e = cache'[q][t].byok, e # None
               PROVE  /\ e.km => <<e.ks, t>> \in trusted
                      /\ e.cert \in DOMAIN certs[t][KEY]
                      /\ t \notin raced' => Leads(t, e.ks)'
    BY Zenon DEF CachedInv
  <2>1. /\ e.km => <<e.ks, t>> \in trusted
        /\ e.cert \in DOMAIN certs[t][KEY]
        /\ t \notin raced => Leads(t, e.ks)
    BY <1>1, Zenon DEF CachedInv
  <2> QED BY <1>16, <2>1, Zenon
<1> QED BY <1>7, <1>9, <1>13, <1>14, <1>15, <1>17, <1>18, Zenon DEF KeystoresInv

(* initDefaultKeystoreFromPool and setDefaultKeystore. *)
LEMMA AssignInv ==
    ASSUME KeystoresInv, NEW p \in Procs, initDefaultKeystoreFromPool(p) \/ setDefaultKeystore(p)
    PROVE  KeystoresInv'
<1>1. TypeOK /\ PoolInv /\ HeldInv
  BY Zenon DEF KeystoresInv
<1>2. proc[p].at \in {"assign", "save"}
  BY Zenon DEF initDefaultKeystoreFromPool, Assigned, setDefaultKeystore, At
<1>3. PICK c : c = proc[p]
  BY Zenon
<1>4. PICK k : k = c.ks.ks
  BY Zenon
<1>5. CallOk(c) /\ Carries(c) /\ c.t \in Tenants
  BY <1>2, <1>3, InCall, Zenon DEF Carries
<1>6. CASE initDefaultKeystoreFromPool(p)
  <2>1. /\ stored' = [stored EXCEPT ![c.t] = c.ks] /\ proc' = [proc EXCEPT ![p].at = "keycert"]
        /\ pool' = pool \ {k} /\ UNCHANGED <<created, certs, trusted, cache, ageing, faults>>
    BY <1>3, <1>4, <1>6, Zenon DEF initDefaultKeystoreFromPool, Assigned, Goto
  <2>2. raced' = raced \cup {j \in {k} : j \notin pool} \cup {t \in {c.t} : stored[t] # None}
    BY <1>3, <1>4, <1>6, Zenon DEF initDefaultKeystoreFromPool, Assigned
  <2>3. /\ raced \subseteq raced' /\ (k \in pool \/ k \in raced')
        /\ c.t \in raced' \/ stored[c.t] = None
    BY <2>2, Zenon
  <2> QED BY <1>3, <1>4, <1>5, <2>1, <2>3, StoreInv, Zenon
<1>7. CASE setDefaultKeystore(p)
  <2>1. c.at = "save"
    BY <1>3, <1>7, Zenon DEF setDefaultKeystore, At
  <2>2. Holds(c)
    BY <2>1, Zenon DEF Holds, Carries
  <2>3. Owns(c.t, k)
    BY <1>3, <1>4, <2>2, Zenon DEF Owns
  <2>4. k \notin pool
    BY <1>1, <1>5, <2>3, Zenon DEF PoolInv
  <2>5. c.t \in raced \/ Leads(c.t, k)
    BY <1>1, <1>3, <1>4, <2>2, Zenon DEF HeldInv
  <2>6. /\ stored' = [stored EXCEPT ![c.t] = c.ks] /\ proc' = [proc EXCEPT ![p].at = "keycert"]
        /\ pool' = pool /\ raced' = raced /\ UNCHANGED <<created, certs, trusted, cache, ageing, faults>>
    BY <1>3, <1>7, Zenon DEF setDefaultKeystore, Goto
  <2>7. pool' = pool \ {k} /\ raced \subseteq raced' /\ (c.t \in raced' \/ Leads(c.t, k))
    BY <2>4, <2>5, <2>6, Zenon
  <2> QED BY <1>3, <1>4, <1>5, <2>3, <2>6, <2>7, StoreInv, Zenon
<1> QED BY <1>6, <1>7, Zenon

---------------------------------------------------------------------------

(* A filled pool, no tenant with a keystore, nothing cached. *)
LEMMA InitInv == Init => KeystoresInv
<1> SUFFICES ASSUME Init PROVE KeystoresInv
  BY Zenon
<1>1. TypeOK
  <2>1. PoolSize \in 0..MaxKeystores /\ pool \subseteq 1..created /\ created \in 0..MaxKeystores
    BY KeystoresAssumption, Zenon DEF Init
  <2>2. /\ stored \in [Tenants -> KeystoreConfig \cup {None}]
        /\ cache \in [Procs -> [Tenants -> [hyok : ProviderConfig \cup {None}, byok : ProviderConfig \cup {None}]]]
        /\ proc = [p \in Procs |-> proc[p]]
    BY Zenon DEF Init
  <2>3. certs \in [Tenants -> [SingletonCertificatePurposes -> Seq(Certificate)]]
    BY DEF Init
  <2>4. ageing \in 0..MaxAgeing /\ faults \in 0..MaxFaults
    BY KeystoresAssumption DEF Init
  <2> QED BY <2>1, <2>2, <2>3, <2>4, Zenon DEF TypeOK
<1>2. \A p \in Procs : proc[p].at = "idle" /\ ~Adds(p) /\ ~Carries(proc[p]) /\ ~Holds(proc[p])
  BY Zenon DEF Init, Idle, Adds, Carries, Holds
<1>3. ProcsInv /\ HeldInv
  BY <1>2, Zenon DEF ProcsInv, ProcOk, HeldInv
<1>4. \A t \in Tenants : stored[t] = None
  BY Zenon DEF Init
<1>5. \A t \in Tenants : \A k : ~Owns(t, k)
  BY <1>2, <1>4, Zenon DEF Owns, Leads
<1>6. PoolInv /\ OwnersInv
  BY <1>2, <1>5, Zenon DEF PoolInv, OwnersInv
<1>7. \A t \in Tenants : DOMAIN certs[t][KEY] = {}
  BY DEF Init, SingletonCertificatePurposes
<1>8. GrantedInv
  <2>1. Prepared => \A k \in 1..created, t \in Tenants : <<k, t>> \in trusted
    BY Zenon DEF Init
  <2> QED BY <1>4, <1>7, <2>1, Zenon DEF GrantedInv
<1>9. CachedInv
  <2>1. \A p \in Procs, t \in Tenants : cache[p][t].byok = None
    BY Zenon DEF Init
  <2> QED BY <2>1, Zenon DEF CachedInv
<1> QED BY <1>1, <1>3, <1>6, <1>8, <1>9, Zenon DEF KeystoresInv

(* Every step keeps the invariant. *)
LEMMA NextInv == KeystoresInv /\ [Next]_vars => KeystoresInv'
<1> SUFFICES ASSUME KeystoresInv, [Next]_vars PROVE KeystoresInv'
  BY Zenon
<1>1. ASSUME NEW p \in Procs, Continue(p) PROVE KeystoresInv'
  BY <1>1, StoredInv, PopInv, AssignInv, GrantInv, LookupInv, CountInv, IssueInv, EndInv, RotateInv, UpdateInv,
     ProviderInv, CreateInv, AddInv, ZenonT(40) DEF Continue
<1>2. ASSUME NEW t \in Tenants, NEW purpose \in SingletonCertificatePurposes, NEW i \in DOMAIN certs[t][purpose],
             GetsOlder(t, purpose, i)
      PROVE  KeystoresInv'
  BY <1>2, OlderInv, Zenon
<1>3. ASSUME NEW p \in Procs,
             \/ \E t \in Tenants, name \in {"hyok", "byok"} : GetOrInitProvider(p, t, name)
             \/ \E t \in Tenants : RotateExpiredCertificates(p, t)
             \/ FillKeystorePool(p)
      PROVE  KeystoresInv'
  BY <1>3, BeginInv, Zenon
<1>4. ASSUME NEW p \in Procs, CallFails(p) PROVE KeystoresInv'
  BY <1>4, EndInv, Zenon
<1>5. ASSUME NEW p \in Procs, Restart(p) PROVE KeystoresInv'
  BY <1>5, RestartInv, Zenon
<1>6. CASE UNCHANGED vars
  <2>a. \A p : Adds(p)' <=> Adds(p)
    BY <1>6, Zenon DEF vars, Adds
  <2>b. \A t, k : Leads(t, k)' <=> Leads(t, k)
    BY <1>6, Zenon DEF vars, Leads
  <2>c. \A t, k : Owns(t, k)' <=> Owns(t, k)
    BY <1>6, <2>b, Zenon DEF vars, Owns
  <2>1. TypeOK'
    BY <1>6, SMTT(30) DEF vars, KeystoresInv, TypeOK
  <2>2. PoolInv'
    BY <1>6, <2>a, <2>b, <2>c, ZenonT(40) DEF vars, KeystoresInv, PoolInv
  <2>3. OwnersInv'
    BY <1>6, <2>c, ZenonT(40) DEF vars, KeystoresInv, OwnersInv
  <2>4. GrantedInv' /\ HeldInv'
    BY <1>6, SMTT(30) DEF vars, KeystoresInv, GrantedInv, HeldInv, Trusts, Owns, Leads, Adds
  <2>5. CachedInv'
    BY <1>6, SMTT(30) DEF vars, KeystoresInv, CachedInv, Trusts, Owns, Leads, Adds
  <2>6. ProcsInv'
    BY <1>6, <2>a, SMTT(30) DEF vars, KeystoresInv, ProcsInv, ProcOk, CallOk, Trusts
  <2> QED BY <2>1, <2>2, <2>3, <2>4, <2>5, <2>6, Zenon DEF KeystoresInv
<1>7. CASE Next
  BY <1>1, <1>2, <1>3, <1>4, <1>5, <1>7, Zenon DEF Next
<1> QED BY <1>6, <1>7, Zenon

(* The keystores, the calls that carry them, what the provider trusts and    *)
(* what is cached belong together, in every reachable state.                 *)
THEOREM KeystoresInvariance == Spec => []KeystoresInv
BY InitInv, NextInv, PTL DEF Spec

(* Pop gives a keystore to one tenant only, unless two processes read the    *)
(* same row before either deleted it.                                        *)
THEOREM OwnedOnceHolds == Spec => []OwnedOnce
<1>1. ASSUME KeystoresInv PROVE OwnedOnce
  <2>1. TypeOK /\ PoolInv /\ OwnersInv /\ GrantedInv
    BY <1>1, Zenon DEF KeystoresInv
  <2>2. ASSUME NEW t \in Tenants, stored[t] # None
        PROVE  /\ stored[t].ks \notin pool
               /\ \A u \in Tenants \ {t} :
                    stored[u] # None /\ stored[u].ks = stored[t].ks => stored[t].ks \in raced
    <3>1. PICK k : k = stored[t].ks
      BY Zenon
    <3>2. k \in 1..created /\ Owns(t, k)
      BY <2>1, <2>2, <3>1, KeystoresAssumption, SMTT(30) DEF TypeOK, KeystoreConfig, GrantedInv, Owns, Leads
    <3>3. \A u \in Tenants : stored[u] # None /\ stored[u].ks = k => Owns(u, k)
      BY Zenon DEF Owns, Leads
    <3> QED BY <2>1, <3>1, <3>2, <3>3, Zenon DEF PoolInv, OwnersInv
  <2> QED BY <2>1, <2>2, Zenon DEF OwnedOnce
<1> QED BY <1>1, KeystoresInvariance, PTL

(* The access data that is stored stands for trust that was granted, and a   *)
(* cached configuration leads to the keystore stored for the tenant with a   *)
(* certificate in the tenant's name.                                         *)
THEOREM AccessIsGrantedHolds == Spec => []AccessIsGranted
<1>1. ASSUME KeystoresInv PROVE AccessIsGranted
  <2>1. TypeOK /\ GrantedInv /\ CachedInv
    BY <1>1, Zenon DEF KeystoresInv
  <2>2. \A t \in Tenants :
          stored[t] # None =>
            /\ stored[t].km => <<stored[t].ks, t>> \in trusted
            /\ \A name \in stored[t].crypto : <<stored[t].ks, name>> \in trusted
    BY <2>1, Zenon DEF GrantedInv, Trusts
  <2>3. ASSUME NEW p \in Procs, NEW t \in Tenants, NEW c, c = cache[p][t].byok, c # None, t \notin raced
        PROVE  /\ stored[t] # None /\ c.ks = stored[t].ks
               /\ c.km => <<c.ks, t>> \in trusted
               /\ c.cert \in DOMAIN certs[t][KEY]
               /\ certs[t][KEY][c.cert].named \/ (IssuesEmpty /\ ~Prepared)
    <3>1. /\ c.km => <<c.ks, t>> \in trusted
          /\ c.cert \in DOMAIN certs[t][KEY]
          /\ Leads(t, c.ks)
      BY <2>1, <2>3, Zenon DEF CachedInv
    <3> QED BY <2>1, <3>1, Zenon DEF GrantedInv, Leads
  <2> QED BY <2>2, <2>3, Zenon DEF AccessIsGranted
<1> QED BY <1>1, KeystoresInvariance, PTL
=============================================================================
