----------------------------- MODULE MCRequests -----------------------------
(* Small instances of Requests. *)
EXTENDS Requests

MCSlots == {1, 2}

NoDeployment == [MinimumApprovals |-> 0, RetentionPeriodDays |-> 0,
                 DefaultExpiryPeriodDays |-> 0, MaxExpiryPeriodDays |-> 0]

(* Values that are refused and values that are not; each of the two expiry *)
(* periods is accepted alone and refused after the other.                  *)
MCUpdates ==
    {[NoUpdate EXCEPT !.Enabled = {e}] : e \in BOOLEAN}
    \cup {[NoUpdate EXCEPT !.MinimumApprovals = {n}] : n \in {1, 3}}
    \cup {[NoUpdate EXCEPT !.RetentionPeriodDays = {29}]}
    \cup {[NoUpdate EXCEPT !.DefaultExpiryPeriodDays = {20}], [NoUpdate EXCEPT !.MaxExpiryPeriodDays = {10}]}

MCUnderlying == {{}, {"repo.ErrGetResource"}, {"repo.ErrNotFound"}, {"repo.ErrUniqueConstraint"},
                 {"authz_repo.ErrUnauthorized"}, {"repo.ErrTenantNotFound"}}

Eq(field, value) == <<Word(field), Op("eq"), value>>
And == <<Op("and")>>

(* One comparison of every field with every text, quoted or not; two       *)
(* comparisons; and the forms the parser refuses.                          *)
Shapes(schema, texts) ==
    LET fields == {e.FilterName : e \in schema} \cup {"unknown"}
    IN  {<< >>}
        \cup {Eq(f, Quoted(t)) : f \in fields, t \in texts}
        \cup {Eq(f, v) : f \in fields, v \in {Word("n"), Open("n")}}
        \cup {Eq(f, Quoted(t)) \o And \o Eq(g, Quoted(u)) : f, g \in fields, t, u \in {"eu", "n", "u1", "KEY"}}
        \cup {<<Word("region"), Op("ne"), Quoted("eu")>>,
              <<Word("region"), Op("eq"), Quoted("eu"), Op("or"), Word("type"), Op("eq"), Quoted("KEY")>>,
              <<Word("region"), Op("eq"), Word("type"), Op("eq"), Quoted("KEY")>>,
              <<Quoted("region"), Op("eq"), Quoted("eu")>>,
              <<Word("region"), Quoted("eu")>>, <<Op("and")>>, <<Op("eq")>>}

MCSystemFilters   == Shapes(getSystemsSchema, Texts)
MCWorkflowFilters == Shapes(GetWorkflowsSchema, Texts)

MCViewers == [id : Users \cup {"carol"}, groups : {{"g1"}, {"g2"}, {"g3"}}, filtered : {TRUE}]
             \cup {[id |-> "carol", groups |-> {}, filtered |-> FALSE]}

(* Two configurations with an enabled primary key each, administered by    *)
(* the caller and two others; a connected system.  The other landscapes    *)
(* differ from it in one or two respects.                                  *)
MCBaseLand ==
    [primary |-> [c \in Configurations |-> IF c = "c1" THEN "k1" ELSE "k2"],
     allowed |-> Configurations, admins |-> [c \in Configurations |-> {"bob", "carol"}],
     keyConfig |-> [k \in Keys |-> "c1"], keyState |-> [k \in Keys |-> "ENABLED"],
     keyType |-> [k \in Keys |-> "BYOK"], systemConfig |-> "c1", systemStatus |-> "CONNECTED",
     ongoing |-> FALSE, auditor |-> FALSE]

Variants(l) ==
    {[l EXCEPT !.primary[c] = p] : c \in Configurations, p \in {"nil", "gone"}}
    \cup {[l EXCEPT !.keyState[k] = "DISABLED"] : k \in Keys}
    \cup {[l EXCEPT !.keyConfig["k2"] = "c2"], [l EXCEPT !.keyType["k1"] = "HYOK"]}
    \cup {[l EXCEPT !.systemConfig = "nil"], [l EXCEPT !.systemStatus = "PROCESSING"]}
    \cup {[l EXCEPT !.allowed = {"c1"}], [l EXCEPT !.auditor = TRUE], [l EXCEPT !.ongoing = TRUE]}
    \cup {[l EXCEPT !.admins["c1"] = {"bob"}]}

MCLandscapes ==
    {MCBaseLand} \cup Variants(MCBaseLand)
    \cup Variants([MCBaseLand EXCEPT !.keyConfig["k2"] = "c2", !.allowed = {"c1"}])

Artifacts ==
    ({"KEY"} \X {"k1", "gone"}) \cup ({"KEY_CONFIGURATION"} \X {"c1", "gone"})
    \cup ({"SYSTEM"} \X {"s1", "gone"}) \cup {<<"OTHER", "gone">>}

MCSharedBodies ==
    {[ArtifactType |-> "KEY", ActionType |-> a, ArtifactID |-> "k1", Parameters |-> "bad", ExpiresAt |-> e]
     : a \in {"DELETE", "LINK"}, e \in {0, 20}}

MCWorkflowBodies ==
    {[ArtifactType |-> x[1], ActionType |-> a, ArtifactID |-> x[2], Parameters |-> p, ExpiresAt |-> 0]
     : x \in Artifacts, a \in Actions, p \in {"bad", "k1", "k2", "c2", "gone"}}
    \cup {[NoWorkflow EXCEPT !.ExpiresAt = 31]} \cup MCSharedBodies

=============================================================================
