------------------------------- MODULE Admin -------------------------------
(***************************************************************************)
(* AdminService.adjustTokens (modules/admin/admin.service.ts) beside the   *)
(* billing executor: an administrator's request reads the account, then    *)
(* writes its balance by id, outside the version protocol of Billing and   *)
(* without a record.  Both work on token_accounts at the same time.        *)
(***************************************************************************)
EXTENDS Billing

CONSTANTS
    Admins,          \* administrator requests that can be in flight
    Adjustments,     \* what they may ask for
    MaxAdjustments   \* bound on the adjustments of a behaviour

Adjustment == [user: Users, amount: Int]

ASSUME AdjustmentsAssumption ==
    Adjustments # {} /\ Adjustments \subseteq Adjustment
ASSUME BoundAssumption == MaxAdjustments \in Nat

VARIABLES
    adminPc,        \* where each administrator's request is
    adjustment,     \* what it asks for
    balanceBefore,  \* the balance it read
    adjusted        \* how many were made, for the bound

adminVars == <<adminPc, adjustment, balanceBefore, adjusted>>
allVars == <<vars, adminVars>>

AdminInit ==
    /\ Init
    /\ adminPc = [a \in Admins |-> "idle"]
    /\ adjustment = [a \in Admins |-> CHOOSE t \in Adjustments : TRUE]
    /\ balanceBefore = [a \in Admins |-> 0]
    /\ adjusted = 0

AdminGoTo(a, label) == adminPc' = [adminPc EXCEPT ![a] = label]

\* An administrator asks; zero is refused and leaves nothing behind.
Adjust(a, t) ==
    /\ adminPc[a] = "idle"
    /\ adjusted < MaxAdjustments
    /\ t.amount # 0
    /\ adjustment' = [adjustment EXCEPT ![a] = t]
    /\ adjusted' = adjusted + 1
    /\ AdminGoTo(a, "find")
    /\ UNCHANGED <<vars, balanceBefore>>

\* Read the balance of the account, if there is one.
AdjustFind(a) ==
    /\ adminPc[a] = "find"
    /\ LET u == adjustment[a].user IN
       IF u \in open
       THEN /\ balanceBefore' = [balanceBefore EXCEPT ![a] = accounts[u].balance]
            /\ AdminGoTo(a, "write")
       ELSE AdminGoTo(a, "save") /\ UNCHANGED balanceBefore
    /\ UNCHANGED <<vars, adjustment, adjusted>>

\* Create the missing account.  Unlike createAccount, a request that loses
\* this race fails on the unique user_id.
AdjustSave(a) ==
    /\ adminPc[a] = "save"
    /\ LET u == adjustment[a].user IN
       IF u \in open
       THEN AdminGoTo(a, "idle") /\ UNCHANGED <<open, accounts, balanceBefore>>
       ELSE /\ open' = open \cup {u}
            /\ accounts' = [accounts EXCEPT ![u] = NewAccount]
            /\ balanceBefore' = [balanceBefore EXCEPT ![a] = 0]
            /\ AdminGoTo(a, "write")
    /\ UNCHANGED <<records, requests, adjustment, adjusted>>

\* UPDATE ... SET balance WHERE id: no version is checked and none is counted
\* up, and the balance is computed from the one read, cut off at zero.
AdjustWrite(a) ==
    /\ adminPc[a] = "write"
    /\ LET u == adjustment[a].user IN
       /\ ~RowLocked(u)
       /\ accounts' = [accounts EXCEPT ![u].balance =
                           Max({0, balanceBefore[a] + adjustment[a].amount})]
    /\ AdminGoTo(a, "idle")
    /\ UNCHANGED <<open, records, requests, adjustment, balanceBefore, adjusted>>

\* The administrator's request dies with its server process.
AdjustDrop(a) ==
    /\ adminPc[a] # "idle"
    /\ AdminGoTo(a, "idle")
    /\ UNCHANGED <<vars, adjustment, balanceBefore, adjusted>>

AdminNext ==
    \E a \in Admins :
        \/ \E t \in Adjustments : Adjust(a, t)
        \/ AdjustFind(a) \/ AdjustSave(a) \/ AdjustWrite(a) \/ AdjustDrop(a)

SystemNext ==
    \/ Next /\ UNCHANGED adminVars
    \/ AdminNext

SystemSpec == AdminInit /\ [][SystemNext]_allVars

-----------------------------------------------------------------------------
(* Properties *)

AdminTypeOK ==
    /\ TypeOK
    /\ adminPc \in [Admins -> {"idle", "find", "save", "write"}]
    /\ adjustment \in [Admins -> Adjustments]
    /\ balanceBefore \in [Admins -> Nat]
    /\ adjusted \in 0 .. MaxAdjustments
=============================================================================
