------------------------------ MODULE Dispatch ------------------------------
(***************************************************************************)
(* DispatchService (tokenfusiongateway, internal/service/dispatch.go):     *)
(* smooth weighted round robin over the AI providers that are available.   *)
(* Every method holds the service's mutex from beginning to end, so each   *)
(* is one step.                                                            *)
(***************************************************************************)
EXTENDS Integers, FiniteSetsExt

CONSTANTS
    Providers,  \* the providers a deployment registers
    Weight      \* what SetWeight gave each; one that is not positive becomes 1

ASSUME WeightAssumption ==
    Weight \in [Providers -> Nat \ {0}] /\ IsFiniteSet(Providers)

VARIABLES
    current,  \* providerState.currentWeight
    down,     \* the providers whose unavailableUntil has not passed
    passed    \* auxiliary: how often each was passed over since it was chosen,
              \* was unavailable, or the gateway started

dispatch == <<current, down, passed>>

WeightOf(S) == SumFunctionOnSet(Weight, S)

Up == Providers \ down

\* What each current weight becomes before the comparison.
Raised(q) == current[q] + (IF q \in Up THEN Weight[q] ELSE 0)

DispatchInit ==
    /\ current = [q \in Providers |-> 0]
    /\ down = {}
    /\ passed = [q \in Providers |-> 0]

PassOver(p) ==
    passed' = [q \in Providers |-> IF q \in Up \ {p} THEN passed[q] + 1 ELSE 0]

\* Mutants of Select: the total counts the providers that are skipped; the
\* configured weights are compared instead of the current ones.
SelectOfAll(p) ==
    /\ p \in Up
    /\ \A q \in Up : Raised(q) <= Raised(p)
    /\ current' = [q \in Providers |->
                      Raised(q) - (IF q = p THEN WeightOf(Providers) ELSE 0)]
    /\ PassOver(p)
    /\ UNCHANGED down

SelectHeaviest(p) ==
    /\ p \in Up
    /\ \A q \in Up : Weight[q] <= Weight[p]
    /\ PassOver(p)
    /\ UNCHANGED <<current, down>>

\* Every available provider gains its weight; one that then has the most is
\* chosen and pays the total.  List ranges over a Go map, so any of several
\* that have the most may come first.
Select(p) ==
    /\ p \in Up
    /\ \A q \in Up : Raised(q) <= Raised(p)
    /\ current' = [q \in Providers |->
                      Raised(q) - (IF q = p THEN WeightOf(Up) ELSE 0)]
    /\ PassOver(p)
    /\ UNCHANGED down

NoProvider == Up = {}

\* A failed call takes its provider out for half a minute.
MarkUnavailable(p) ==
    /\ down' = down \cup {p}
    /\ passed' = [passed EXCEPT ![p] = 0]
    /\ UNCHANGED current

\* The half minute has passed; the health check only clears what is past.
Recover(p) ==
    /\ p \in down
    /\ down' = down \ {p}
    /\ UNCHANGED <<current, passed>>

\* The gateway starts anew: nothing of this is kept.
Restart ==
    /\ current' = [q \in Providers |-> 0]
    /\ down' = {}
    /\ passed' = [q \in Providers |-> 0]

DispatchNext ==
    \/ \E p \in Providers : Select(p) \/ MarkUnavailable(p) \/ Recover(p)
    \/ Restart

DispatchSpec == DispatchInit /\ [][DispatchNext]_dispatch

-----------------------------------------------------------------------------
(* Properties *)

DispatchTypeOK ==
    /\ current \in [Providers -> Int]
    /\ down \subseteq Providers
    /\ passed \in [Providers -> Nat]

\* How much one of n providers can be owed, doubled: n - 1 full turns.
Allowance == (Cardinality(Providers) - 1) * WeightOf(Providers)

\* No credit builds up while providers leave and come back: what one is owed the
\* others have had (dispatch.go:96, :115), and that is no more than half a turn
\* for each of them.  (One turn is not enough: with weights 1, 1, 1, 1 and 5 and
\* the right absences one of the lightest comes to owe ten of nine.)
NoDrift ==
    /\ SumFunctionOnSet(current, Providers) = 0
    /\ \A p \in Providers : 2 * current[p] \in -Allowance .. Allowance

\* An available provider is chosen again in time, whatever its weight and
\* whoever leaves and comes back meanwhile.
NobodyStarves == \A p \in Providers : passed[p] * Weight[p] <= Allowance
=============================================================================
