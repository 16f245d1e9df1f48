--------------------------- MODULE OAuth2Connectors ---------------------------
(***************************************************************************)
(* The other connectors to which the user's browser returns with a GET:    *)
(* connector/gitlab, connector/microsoft, connector/linkedin,              *)
(* connector/oidc and connector/authproxy.                                 *)
(***************************************************************************)
EXTENDS ConnectorCalls

OAuth2Exchange(a) ==
    connector.type \in {"gitlab", "microsoft", "linkedin"} /\ Exchange(a, "user")

-----------------------------------------------------------------------------
GitLabUser(a) ==
    /\ connector.type = "gitlab"
    /\ IF call.groupScope THEN ReadProfile(a, "groups", {})
       ELSE ReadProfile(a, "done", call.identity.Groups)

\* Mutant: the URL of the next page is not taken over.
GitLabGroupsSamePage ==
    /\ Ask("gitlab", "groups")
    /\ Become([call EXCEPT !.identity.Groups = @ \cup NumberedPage(call.cursor + 1),
                           !.pc = IF call.cursor + 1 < Cardinality(Listed) THEN @ ELSE "done"])

\* A page of /api/v4/groups.
GitLabGroups ==
    LET c == [call EXCEPT !.identity.Groups = @ \cup NumberedPage(call.cursor + 1),
                          !.cursor = @ + 1]
    IN  /\ Ask("gitlab", "groups")
        /\ Become([c EXCEPT !.pc = IF c.cursor < Cardinality(Listed) THEN @ ELSE "done"])

-----------------------------------------------------------------------------
MicrosoftGroupsRequired(groupScope) ==
    (connector.groups # {} \/ groupScope) /\ connector.orgTenant

\* The access token of a refresh may have to be renewed first; if that fails
\* the request fails.
MicrosoftUser(a) ==
    /\ connector.type = "microsoft"
    /\ IF MicrosoftGroupsRequired(call.groupScope) THEN ReadProfile(a, "ids", {})
       ELSE ReadProfile(a, "done", call.identity.Groups)

\* getGroups: the user has to be in one of the groups of the configuration.
isInGroups(c) ==
    IF connector.groups = {} \/ connector.groups \cap c.identity.Groups # {}
    THEN [c EXCEPT !.pc = "done"] ELSE [c EXCEPT !.pc = "failed"]

EndOfIDs(c) ==
    IF c.teams = {} THEN isInGroups(c) ELSE [c EXCEPT !.pc = "names", !.cursor = 0]

\* Mutant: only the first page is read.
getGroupIDsOnePage ==
    /\ Ask("microsoft", "ids")
    /\ Become(EndOfIDs([call EXCEPT !.teams = After(Listed, 0)]))

\* A page of /me/getMemberGroups.
getGroupIDs ==
    LET page == After(Listed, call.cursor) IN
    /\ Ask("microsoft", "ids")
    /\ \/ page = {} /\ Become(EndOfIDs(call))
       \/ \E g \in page :
             LET c == [call EXCEPT !.teams = @ \cup {g}, !.cursor = Rank[g]] IN
             Become(IF After(Listed, c.cursor) = {} THEN EndOfIDs(c) ELSE c)

\* A page of /directoryObjects/getByIds.  A group that the user has left may
\* have been deleted, and has no name any more.
getGroupNames ==
    /\ Ask("microsoft", "names")
    /\ \E g \in After(call.teams, call.cursor), named \in BOOLEAN :
          LET c == [call EXCEPT !.cursor = Rank[g],
                                !.identity.Groups = IF named THEN @ \cup {g} ELSE @] IN
          /\ g \in held => named
          /\ Become(IF After(c.teams, c.cursor) = {} THEN isInGroups(c) ELSE c)

-----------------------------------------------------------------------------
LinkedInProfile(a) ==
    connector.type = "linkedin" /\ ReadProfile(a, "done", call.identity.Groups)

\* The answer to the exchange has an ID token, whose hd claim is a domain of the
\* user, or is missing, and is looked at when the token is verified.
OIDCExchange(a) ==
    /\ connector.type = "oidc"
    /\ \E hd \in (held \cap Orgs) \cup {None} :
          Exchange(a, IF connector.hostedDomains = {} \/ hd \in connector.hostedDomains
                      THEN "verify" ELSE "verifyOther")

\* The verifier may have to fetch the provider's keys; then an hd claim that is
\* not one of hostedDomains is an error.
OIDCVerify ==
    \/ /\ At("oidc", "verify")
       /\ Become([call EXCEPT !.pc = "done", !.identity = [NoIdentity EXCEPT
                    !.UserID = call.account.id, !.Username = call.account.id]])
    \/ At("oidc", "verifyOther") /\ Become(Failed)

\* The proxy in front of dex has set X-Remote-User.
AuthProxy(a) ==
    /\ At("authproxy", "header")
    /\ Become([call EXCEPT !.pc = "done", !.account = a,
                           !.identity.UserID = a.id, !.identity.Username = a.id])

OAuth2 ==
    \/ \E a \in accounts :
          \/ OAuth2Exchange(a) \/ GitLabUser(a) \/ MicrosoftUser(a)
          \/ LinkedInProfile(a) \/ OIDCExchange(a) \/ AuthProxy(a)
    \/ GitLabGroups \/ getGroupIDs \/ getGroupNames \/ OIDCVerify

=============================================================================
