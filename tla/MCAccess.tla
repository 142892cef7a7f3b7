------------------------------ MODULE MCAccess ------------------------------
(* Instances of Access.                                                    *)
EXTENDS Access

Permuted == Permutations(Tenants)
AllHandlers == DOMAIN API
SampleHandlers == {"DeleteGroupByID"}
Provisioned == {<<"adm", TenantAdmin>>, <<"aud", Auditor>>}
OneGroupOrTwo == {{"adm"}, {"g1"}, {"aud", "g1"}}
=============================================================================
