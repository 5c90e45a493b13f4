----------------------------- MODULE FreeCredits -----------------------------
(***************************************************************************)
(* CreditLedger.grant_free_credit of packages/platform/credits.py: three   *)
(* caps, each read in a round trip of its own, then a plain insert.  One   *)
(* user and one project; earlier counts the rows of the same week that     *)
(* belong to other days and projects.  Time is a day count and the day     *)
(* this week began.                                                        *)
(***************************************************************************)
EXTENDS Naturals, FiniteSetsExt

CONSTANTS
    Grantors,           \* the handlers that may ask for a credit
    DailyCap, WeeklyCap, ProjectCap,
    Earlier,            \* how many rows the week may begin with
    MaxDay              \* the last day a behaviour reaches

ASSUME CapsAssumption ==
    /\ DailyCap \in Nat \ {0} /\ WeeklyCap \in Nat \ {0} /\ ProjectCap \in Nat \ {0}
    /\ Earlier \subseteq 0..WeeklyCap
    /\ MaxDay \in Nat
    /\ IsFiniteSet(Grantors)

VARIABLES
    today, monday,      \* the current day, and the one its week began
    earlier,
    grantedOn,          \* the project's GRANT_FREE rows, by day
    asking,             \* what a call of grant_free_credit does next
    crowd               \* the most calls that were ever under way at once

creditVars == <<today, monday, earlier, grantedOn, asking, crowd>>

Days == 0..MaxDay

CreditsTypeOK ==
    /\ today \in Days /\ monday \in 0..today
    /\ earlier \in 0..WeeklyCap
    /\ grantedOn \in [Days -> Nat]
    /\ asking \in [Grantors -> {"no", "daily", "weekly", "project", "insert"}]
    /\ crowd \in 0..Cardinality(Grantors)

CreditsInit ==
    /\ today = 0 /\ monday = 0
    /\ earlier \in Earlier
    /\ grantedOn = [d \in Days |-> 0]
    /\ asking = [u \in Grantors |-> "no"]
    /\ crowd = 0

-----------------------------------------------------------------------------

\* The rows of these days: the n-th of a day is <<day, n>>.
GrantedRows(days) == UNION {{d} \X (1..grantedOn[d]) : d \in days}
GrantedIn(days) == Cardinality(GrantedRows(days))

GetToday == grantedOn[today]
GetThisWeek == GrantedIn(monday..today) + (IF monday = 0 THEN earlier ELSE 0)
GetForProject == GrantedIn(Days)

\* Mutant: one more than the caps allow.
Below_AtMost(stage) ==
    CASE stage = "daily" -> GetToday <= DailyCap
      [] stage = "weekly" -> GetThisWeek <= WeeklyCap
      [] stage = "project" -> GetForProject <= ProjectCap

\* The cap a call reads next, and where it goes while there is room.
Below(stage) ==
    CASE stage = "daily" -> GetToday < DailyCap
      [] stage = "weekly" -> GetThisWeek < WeeklyCap
      [] stage = "project" -> GetForProject < ProjectCap

After(stage) ==
    CASE stage = "daily" -> "weekly" [] stage = "weekly" -> "project" [] OTHER -> "insert"

UnderWay(calls) == {u \in Grantors : calls[u] # "no"}

AskForCredit(u) ==
    /\ asking' = [asking EXCEPT ![u] = "daily"]
    /\ crowd' = Max({crowd, Cardinality(UnderWay(asking'))})
    /\ UNCHANGED <<today, monday, earlier, grantedOn>>

ReadCap(u) ==
    /\ asking[u] \in {"daily", "weekly", "project"}
    /\ asking' = [asking EXCEPT ![u] = IF Below(@) THEN After(@) ELSE "no"]
    /\ UNCHANGED <<today, monday, earlier, grantedOn, crowd>>

InsertGrant(u) ==
    /\ asking[u] = "insert"
    /\ grantedOn' = [grantedOn EXCEPT ![today] = @ + 1]
    /\ asking' = [asking EXCEPT ![u] = "no"]
    /\ UNCHANGED <<today, monday, earlier, crowd>>

\* Midnight UTC; the new day may be a Monday.
Midnight ==
    /\ today < MaxDay
    /\ today' = today + 1
    /\ monday' \in {monday, today + 1}
    /\ UNCHANGED <<earlier, grantedOn, asking, crowd>>

\* The calls of these handlers raise, or their process is gone.
StopAsking(us) ==
    /\ asking' = [u \in Grantors |-> IF u \in us THEN "no" ELSE asking[u]]
    /\ UNCHANGED <<today, monday, earlier, grantedOn, crowd>>
=============================================================================
