------------------------------ MODULE FourEyes ------------------------------
(***************************************************************************)
(* What the approval workflow promises, with nothing of how it is done: an *)
(* action one user asks for is carried out only with the consent of at     *)
(* least two others, as many as were demanded when it was asked for.       *)
(* Consent that was given is not forgotten, and nobody changes who asked   *)
(* or how much consent it takes.                                           *)
(***************************************************************************)
EXTENDS Naturals, FiniteSets

CONSTANTS
    Users,      \* who asks and consents
    Actions,    \* the actions that can be asked for, each at most once
    Quotas,     \* the numbers of consents that can be demanded
    None        \* nobody

VARIABLES
    asker,      \* who asked for an action
    demanded,   \* how many consents it takes
    consents,   \* who has consented
    carriedOut  \* how often the action was carried out

vars == <<asker, demanded, consents, carriedOut>>

Init ==
    /\ asker = [a \in Actions |-> None]
    /\ demanded = [a \in Actions |-> 0]
    /\ consents = [a \in Actions |-> {}]
    /\ carriedOut = [a \in Actions |-> 0]

Ask(a, u, n) ==
    /\ asker[a] = None /\ n >= 2
    /\ asker' = [asker EXCEPT ![a] = u]
    /\ demanded' = [demanded EXCEPT ![a] = n]
    /\ UNCHANGED <<consents, carriedOut>>

Consent(a, u) ==
    /\ asker[a] \notin {None, u}
    /\ consents' = [consents EXCEPT ![a] = @ \union {u}]
    /\ UNCHANGED <<asker, demanded, carriedOut>>

CarryOut(a) ==
    /\ asker[a] # None
    /\ Cardinality(consents[a]) >= demanded[a]
    /\ carriedOut' = [carriedOut EXCEPT ![a] = @ + 1]
    /\ UNCHANGED <<asker, demanded, consents>>

Next ==
    \E a \in Actions :
        \/ \E u \in Users : Consent(a, u) \/ \E n \in Quotas : Ask(a, u, n)
        \/ CarryOut(a)

Spec == Init /\ [][Next]_vars
=============================================================================
