--------------------------- MODULE GitHubConnector ---------------------------
(***************************************************************************)
(* The GitHub connector (connector/github/github.go): the user's profile,  *)
(* their primary email if it is private, and the organizations and teams   *)
(* that decide whether they may log in and become the groups claim.  The   *)
(* names of teams carry their organization ("org:team"), which keeps teams *)
(* of different organizations apart as the elements of Groups are.         *)
(***************************************************************************)
EXTENDS ConnectorCalls

CONSTANT EmailPages     \* pages of /user/emails

ASSUME EmailAssumption == EmailPages \in Nat \ {0}

GitHubGroupsRequired(groupScope) ==
    connector.orgs # <<>> \/ connector.org # None \/ groupScope

GitHubExchange(a) == connector.type = "github" /\ Exchange(a, "user")

\* Where HandleCallback and Refresh go on when they have the user.
AfterUser ==
    CASE connector.orgs # <<>> -> "org"
      [] connector.orgs = <<>> /\ connector.org # None -> "teams"
      [] OTHER -> "done"

\* GET /user.  A private email takes further requests.
GitHubUser(a) ==
    /\ connector.type = "github"
    /\ \E next \in {AfterUser, "email"} :
          ReadProfile(a, next, IF GitHubGroupsRequired(call.groupScope) THEN {}
                               ELSE call.identity.Groups)

\* A page of /user/emails: it has the verified, primary email, or there is
\* another page, or the loop ends with an error.
userEmail ==
    /\ Ask("github", "email")
    /\ \/ Become([call EXCEPT !.pc = AfterUser, !.cursor = 0])
       \/ Become(IF call.cursor + 1 < EmailPages THEN [call EXCEPT !.cursor = @ + 1]
                 ELSE Failed)

-----------------------------------------------------------------------------
\* Mutant: whoever is in one of the organizations is let in.
NextOrgUnchecked(c) ==
    IF c.org < Len(connector.orgs) THEN [c EXCEPT !.org = @ + 1, !.pc = "org"]
    ELSE [c EXCEPT !.pc = "done"]

\* The end of the body of groupsForOrgs' loop, and what follows the loop.
NextOrg(c) ==
    IF c.org < Len(connector.orgs) THEN [c EXCEPT !.org = @ + 1, !.pc = "org"]
    ELSE IF c.inOrgNoTeams \/ c.identity.Groups # {} THEN [c EXCEPT !.pc = "done"]
    ELSE [c EXCEPT !.pc = "failed"]

\* 204 if the user is a member, 302 or 404 if not.
userInOrg ==
    /\ Ask("github", "org")
    /\ Become(IF connector.orgs[call.org].name \in held
              THEN [call EXCEPT !.pc = "teams", !.cursor = 0, !.teams = {}]
              ELSE NextOrg(call))

filterTeams(userTeams, configTeams) ==
    IF configTeams = {} THEN userTeams ELSE userTeams \cap configTeams

\* All pages of /user/teams are in: of the legacy org, whose members and others
\* may all log in, or of an entry of orgs.
EndOfTeams(c) ==
    IF connector.orgs = <<>> THEN [c EXCEPT !.pc = "done", !.identity.Groups = c.teams]
    ELSE LET org == connector.orgs[c.org] IN
         NextOrg([c EXCEPT !.identity.Groups = @ \cup filterTeams(c.teams, org.teams),
                           !.inOrgNoTeams = @ \/ org.teams = {}, !.teams = {}, !.cursor = 0])

\* A page of the user's teams of all organizations.
teamsForOrg ==
    LET name == IF connector.orgs = <<>> THEN connector.org
                ELSE connector.orgs[call.org].name
        page == {g \in NumberedPage(call.cursor + 1) : OrgOf[g] = name}
        c    == [call EXCEPT !.teams = @ \cup page, !.cursor = @ + 1]
    IN  /\ Ask("github", "teams")
        /\ Become(IF c.cursor < Cardinality(Listed) THEN c ELSE EndOfTeams(c))

GitHub ==
    \/ \E a \in accounts : GitHubExchange(a) \/ GitHubUser(a)
    \/ userEmail \/ userInOrg \/ teamsForOrg

=============================================================================
