--------------------------- MODULE IdentityProvider ---------------------------
(***************************************************************************)
(* What stands behind a connector (connector/connector.go): GitHub, an     *)
(* LDAP directory, a SAML provider, or dex's own password objects.  One    *)
(* user logs in; the provider's accounts that match the login name, and    *)
(* the groups and organizations of that user, change while dex asks for    *)
(* them.  A provider is not code of dex: it is modelled by what the        *)
(* connectors ask of it.                                                   *)
(***************************************************************************)
EXTENDS Naturals, FiniteSets

CONSTANTS
    Groups,     \* groups, or teams of organizations
    Orgs,       \* organizations, or domains
    OrgOf,      \* the organization of each group
    Rank,       \* the order in which a provider lists groups, from 1
    IDs,        \* user IDs
    DNs,        \* distinguished names
    None,       \* no ID, no DN, no organization
    MaxChanges  \* bound on what changes at the provider and among the clients

ASSUME ProviderAssumption ==
    /\ IsFiniteSet(Groups)
    /\ OrgOf \in [Groups -> Orgs]
    /\ Rank \in [Groups -> Nat \ {0}]
    /\ \A g, k \in Groups : Rank[g] = Rank[k] => g = k
    /\ Groups \cap Orgs = {}
    /\ None \notin IDs \cup DNs \cup Orgs
    /\ MaxChanges \in Nat

VARIABLES
    accounts,   \* accounts that the user's login name matches
    held,       \* groups and organizations of the user
    window,     \* history: memberships during the connector call in progress
    changes     \* changes so far

providerVars == <<accounts, held, window, changes>>

Memberships == Groups \cup Orgs

Account == [id : IDs, dn : DNs]

NoAccount == [id |-> None, dn |-> None]

\* What a call could have seen: memberships held at some time during it, those
\* held all the time, whether one ended, and the accounts there were.
Window == [open : BOOLEAN, ever : SUBSET Memberships, always : SUBSET Memberships,
           ended : BOOLEAN, seen : SUBSET Account]

Closed == [open |-> FALSE, ever |-> {}, always |-> {}, ended |-> FALSE, seen |-> {}]

OpenWindow == [open |-> TRUE, ever |-> held, always |-> held, ended |-> FALSE,
               seen |-> accounts]

ProviderTypeOK ==
    /\ accounts \subseteq Account
    /\ held \subseteq Memberships
    /\ window \in Window
    /\ changes \in 0 .. MaxChanges

-----------------------------------------------------------------------------
Count == changes < MaxChanges /\ changes' = changes + 1

Set(newAccounts, newHeld) ==
    /\ accounts' = newAccounts
    /\ held' = newHeld
    /\ window' = IF window.open
                 THEN [open |-> TRUE, ever |-> window.ever \cup newHeld,
                       always |-> window.always \cap newHeld,
                       ended |-> window.ended \/ ~(held \subseteq newHeld),
                       seen |-> window.seen \cup newAccounts]
                 ELSE window

\* A member of a team is a member of its organization.
Join(m) ==
    /\ Count
    /\ accounts # {} /\ m \notin held
    /\ Set(accounts, held \cup {m} \cup {o \in Orgs : m \in Groups /\ o = OrgOf[m]})

Leave(m) ==
    /\ Count
    /\ m \in held
    /\ Set(accounts, held \ ({m} \cup {g \in Groups : OrgOf[g] = m}))

\* Accounts with the same login name differ in their DN and their ID.
AddAccount(a) ==
    /\ Count
    /\ \A b \in accounts : b.dn # a.dn /\ b.id # a.id
    /\ Set(accounts \cup {a}, held)

RemoveAccount(a) ==
    /\ Count
    /\ a \in accounts
    /\ \E new \in {held, {}} :
          (accounts = {a} => new = {}) /\ Set(accounts \ {a}, new)

-----------------------------------------------------------------------------
(* Lists of groups, a page at a time.  A page is one group here.           *)

Listed == held \cap Groups

\* Numbered pages (the Link header of GitHub and GitLab): page n is what is
\* the n-th entry at the time of the request.
NumberedPage(n) ==
    {g \in Listed : Cardinality({k \in Listed : Rank[k] <= Rank[g]}) = n}

\* The first entry of S that is ranked after position n, where a link to the
\* next page points (@odata.nextLink of Microsoft).
After(S, n) == {g \in S : Rank[g] > n /\ \A k \in S : Rank[k] > n => Rank[g] <= Rank[k]}

=============================================================================
