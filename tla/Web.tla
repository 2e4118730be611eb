-------------------------------- MODULE Web --------------------------------
(***************************************************************************)
(* The web client: a browser whose tabs sign in and out of view, or one     *)
(* visit to one generation panel, or to one page with a list.  None of the  *)
(* three reads anything of another.                                         *)
(***************************************************************************)
EXTENDS Generations, Pages, SignIn

webVars == <<genVars, pageVars, signVars>>

\* What the address, or the tab of the panels, selects; no browser is opened
\* to sign in when there is a panel or a list to follow.
Init ==
    /\ GenInit /\ PagesInit /\ SignInInit
    /\ panel = None \/ screen = "none"

Next ==
    \/ GenNext /\ UNCHANGED <<pageVars, signVars>>
    \/ PagesNext /\ UNCHANGED <<genVars, signVars>>
    \/ /\ panel = None /\ screen = "none"
       /\ SignInNext
       /\ UNCHANGED <<genVars, pageVars>>

Spec == Init /\ [][Next]_webVars /\ GenFairness
=============================================================================
