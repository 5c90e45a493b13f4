------------------------------ MODULE WebSite ------------------------------
(***************************************************************************)
(* The web: accounts and the project routes call by call, the creation     *)
(* page, a project's workspace.  A page and the tables of the accounts     *)
(* share nothing a property here is about: a behaviour follows one of them. *)
(***************************************************************************)
EXTENDS Accounts, CreationPage, Workspace

CONSTANT Followed

ASSUME FollowedAssumption == Followed \subseteq {"accounts", "creation", "workspace"}

VARIABLE follows

siteVars == <<vars, creationVars, workspaceVars, follows>>

\* Of what is followed; the rest does not change.
SiteTypeOK ==
    /\ follows \in Followed
    /\ follows = "accounts" => TypeOK
    /\ follows = "creation" => CreationTypeOK
    /\ follows = "workspace" => WorkspaceTypeOK

NoCalls == \A c \in Calls : cpc[c] = "absent"

NoVisit ==
    /\ Uploads \cup Orders \cup Shares = asked
    /\ calls = {} /\ kept = {} /\ link = 0 /\ work[1] = "none"

\* What is not followed rests in one of its initial states.
SiteInit ==
    /\ follows \in Followed
    /\ Init /\ (follows = "accounts" \/ NoCalls)
    /\ CreationInit
    /\ WorkspaceInit /\ (follows = "workspace" \/ NoVisit)

OnAccounts == follows = "accounts" /\ Next /\ UNCHANGED <<creationVars, workspaceVars>>

OnCreation == follows = "creation" /\ CreationStep /\ UNCHANGED <<vars, workspaceVars>>

OnWorkspace == follows = "workspace" /\ WorkspaceStep /\ UNCHANGED <<vars, creationVars>>

SiteNext == (OnAccounts \/ OnCreation \/ OnWorkspace) /\ UNCHANGED follows

SiteSpec == SiteInit /\ [][SiteNext]_siteVars
=============================================================================
