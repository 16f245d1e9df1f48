--------------------------- MODULE ConnectorProofs ---------------------------
(***************************************************************************)
(* What the connectors establish about the user of a login, for any        *)
(* provider, configuration and sequence of changes: a token speaks of the  *)
(* account that logged in (OneAccount), of a member where the              *)
(* configuration asks for one (MembershipEnforced), and of the groups that *)
(* the user was in (GroupsAsHeld). LoginProofs has the invariant, CInv,    *)
(* the steps of the handlers, and the connectors that ask for no list;     *)
(* here are those that read lists of groups page by page, and the changes  *)
(* at the provider, which may come between two pages.                      *)
(***************************************************************************)
EXTENDS LoginProofs, FiniteSetTheorems

\* Leaves are for Zenon, unless they cite SMT.
USE Zenon

-----------------------------------------------------------------------------
(* Lists of groups.                                                        *)

\* A nonempty set of natural numbers has a least element.
LEMMA LeastNat ==
  ASSUME NEW T \in SUBSET Nat, T # {}
  PROVE  \E x \in T : \A y \in T : x <= y
  <1>1. PICK R : R = OpToRel(<, Nat)
    OBVIOUS
  <1>2. IsWellFoundedOn(R, Nat)
    BY <1>1, NatLessThanWellFounded
  <1>3. PICK x \in T : \A y \in T : ~(<<y, x>> \in R)
    BY <1>2, WFMin
  <1>4. \A y \in T : ~(y < x)
    BY <1>1, <1>3 DEF OpToRel
  <1> QED
    BY <1>3, <1>4, SMT

\* A list without a next page (@odata.nextLink) has no entry ranked after n.
LEMMA AfterNone ==
  ASSUME NEW S \in SUBSET Groups, NEW n \in Nat, After(S, n) = {}
  PROVE  \A g \in S : Rank[g] <= n
  <1> SUFFICES ASSUME NEW g \in S, ~(Rank[g] <= n) PROVE FALSE
    OBVIOUS
  <1>1. \A k \in S : Rank[k] \in Nat
    BY ProviderAssumption
  <1>2. PICK T : T = {Rank[k] : k \in {j \in S : Rank[j] > n}}
    OBVIOUS
  <1>3. T \in SUBSET Nat /\ T # {}
    BY <1>1, <1>2, SMT
  <1>4. PICK x \in T : \A y \in T : x <= y
    BY <1>3, LeastNat
  <1>5. PICK k \in S : Rank[k] > n /\ x = Rank[k]
    BY <1>2, <1>4
  <1>6. \A j \in S : Rank[j] > n => Rank[k] <= Rank[j]
    BY <1>2, <1>4, <1>5
  <1> QED
    BY <1>5, <1>6 DEF After

\* The groups listed are finitely many, and their positions count from 1.
LEMMA PositionBounds ==
  /\ IsFiniteSet(Listed) /\ Cardinality(Listed) \in Nat
  /\ \A g \in Listed : /\ Position(g) \in Nat \ {0}
                       /\ Position(g) <= Cardinality(Listed)
  <1>1. IsFiniteSet(Listed) /\ Cardinality(Listed) \in Nat
    BY ProviderAssumption, FS_Subset, FS_CardinalityType DEF Listed
  <1>2. ASSUME NEW g \in Listed
        PROVE  Position(g) \in Nat \ {0} /\ Position(g) <= Cardinality(Listed)
    <2>1. PICK T : T = {k \in Listed : Rank[k] <= Rank[g]}
      OBVIOUS
    <2>2. Rank[g] \in Nat
      BY ProviderAssumption DEF Listed
    <2>3. T \in SUBSET Listed /\ g \in T
      BY <2>1, <2>2, SMT
    <2>4. IsFiniteSet(T) /\ Cardinality(T) <= Cardinality(Listed) /\ Cardinality(T) \in Nat
      BY <1>1, <2>3, FS_Subset, FS_CardinalityType
    <2>5. Cardinality(T) # 0
      BY <2>3, <2>4, FS_EmptySet
    <2> QED
      BY <2>1, <2>4, <2>5 DEF Position
  <1> QED
    BY <1>1, <1>2

\* While no membership ends, no group moves to an earlier position.
LEMMA PositionGrows ==
  ASSUME held \subseteq held', NEW g \in Listed
  PROVE  Position(g) <= Position(g)' /\ Position(g)' \in Nat
  <1>1. PICK T : T = {k \in Listed : Rank[k] <= Rank[g]}
    OBVIOUS
  <1>2. PICK U : U = {k \in Listed' : Rank[k] <= Rank[g]}
    OBVIOUS
  <1>3. IsFiniteSet(U) /\ T \in SUBSET U
    BY <1>1, <1>2, ProviderAssumption, FS_Subset DEF Listed
  <1>4. Cardinality(T) <= Cardinality(U) /\ Cardinality(U) \in Nat
    BY <1>3, FS_Subset, FS_CardinalityType
  <1> QED
    BY <1>1, <1>2, <1>4 DEF Position

\* Before the first page, nothing is missing.
LEMMA PagedNone ==
  ASSUME window.always \subseteq held, NEW P \in SUBSET Groups, NEW c, c.cursor = 0
  PROVE  Paged(c, {}, P)
  <1>1. \A g \in window.always \cap P : g \in Listed
    BY DEF Listed
  <1>2. \A g \in window.always \cap P : ~(Position(g) <= c.cursor)
    BY <1>1, PositionBounds, SMT
  <1> QED
    BY <1>2 DEF Paged

\* One more numbered page.
LEMMA PagedNext ==
  ASSUME window.always \subseteq held, held \subseteq window.ever,
         NEW c, NEW n \in Nat, NEW S, NEW P \in SUBSET Groups,
         c.cursor = n, Paged(c, S, P), NEW d, d.cursor = n + 1
  PROVE  Paged(d, S \cup {g \in NumberedPage(n + 1) : g \in P}, P)
  <1>1. ASSUME ~window.ended, NEW g \in window.always \cap P, Position(g) <= n + 1
        PROVE  g \in S \cup {k \in NumberedPage(n + 1) : k \in P}
    <2>1. g \in Listed /\ Position(g) \in Nat
      BY PositionBounds DEF Listed
    <2>2. CASE Position(g) <= n
      BY <1>1, <2>2 DEF Paged
    <2>3. CASE Position(g) = n + 1
      BY <2>1, <2>3 DEF NumberedPage, Position
    <2> QED
      BY <1>1, <2>1, <2>2, <2>3, SMT
  <1>2. NumberedPage(n + 1) \subseteq window.ever
    BY DEF NumberedPage, Listed
  <1> QED
    BY <1>1, <1>2 DEF Paged

\* After the last numbered page, nothing is missing unless a membership ended.
LEMMA PagedAll ==
  ASSUME window.always \subseteq held, NEW c, c.cursor \in Nat,
         NEW S, NEW P \in SUBSET Groups, Paged(c, S, P),
         ~(c.cursor < Cardinality(Listed))
  PROVE  S \subseteq window.ever /\ (window.ended \/ window.always \cap P \subseteq S)
  <1>1. \A g \in window.always \cap P : g \in Listed
    BY DEF Listed
  <1>2. \A g \in window.always \cap P : Position(g) <= c.cursor
    BY <1>1, PositionBounds, SMT
  <1> QED
    BY <1>2 DEF Paged

-----------------------------------------------------------------------------
(* GitHub.                                                                 *)

\* What lets a user in at GitHub does not depend on the use of the token.
LEMMA GitHubAdmitting ==
  ASSUME connector.type = "github"
  PROVE  /\ \A use : Enforced(use) = Enforced("login")
         /\ connector.orgs = <<>> => Enforced("login") = {}
         /\ \A i \in DOMAIN connector.orgs :
               IF connector.orgs[i].teams = {} THEN connector.orgs[i].name \in Enforced("login")
               ELSE connector.orgs[i].teams \subseteq Enforced("login")
  BY SMT DEF Enforced, Admitting, LegacyOrg

\* Without organizations, GitHub's user is known; with them, the loop begins.
LEMMA AfterUserGoes ==
  ASSUME Ready, connector.type = "github", NEW c \in Call, c.pc = AfterUser, Read(c),
         c.cursor = 0, c.org = 1, c.teams = {}, ~c.inOrgNoTeams,
         GitHubGroupsRequired(c.groupScope) => c.identity.Groups = {}
  PROVE  MidInv(c)
  <1>1. connector \in Config /\ connector.org \in Orgs \cup {None}
    BY ConfigOf DEF Ready, Config
  <1>2. connector.type \in OAuthTypes
    BY DEF OAuthTypes
  <1>3. CASE connector.orgs # <<>>
    <2>1. c.pc = "org" /\ c.identity.Groups = {} /\ 1 \in DOMAIN connector.orgs
      BY <1>1, <1>3, SMT DEF AfterUser, GitHubGroupsRequired, Config
    <2>2. OrgsDone(c, c.org - 1)
      BY <2>1, SMT DEF OrgsDone
    <2>3. GitHubInv(c)
      BY <1>3, <2>1, <2>2 DEF GitHubInv
    <2> QED
      BY <1>2, <2>1, <2>3, ReadOAuth DEF MidInv
  <1>4. CASE connector.orgs = <<>> /\ connector.org # None
    <2>1. c.pc = "teams" /\ c.identity.Groups = {}
      BY <1>4 DEF AfterUser, GitHubGroupsRequired
    <2>2. Paged(c, {}, TeamsOf(TeamOrg(c)))
      BY PagedNone, <2>1 DEF Ready, WindowInv, TeamsOf
    <2>3. GitHubInv(c)
      BY <1>4, <2>1, <2>2 DEF GitHubInv
    <2> QED
      BY <1>2, <2>1, <2>3, ReadOAuth DEF MidInv
  <1>5. CASE connector.orgs = <<>> /\ connector.org = None
    <2>1. c.pc = "done"
      BY <1>5 DEF AfterUser
    <2>2. c.groupScope => c.identity.Groups = {}
      BY DEF GitHubGroupsRequired
    <2>3. Offered = {}
      BY <1>5, ProviderAssumption DEF Offered
    <2>4. Admitted(window, c.kind)
      BY <1>5, GitHubAdmitting DEF Admitted
    <2>5. DoneInv(c)
      BY <1>2, <2>2, <2>3, <2>4, ReadOAuth DEF DoneInv, AsHeld
    <2> QED
      BY <2>1, <2>5 DEF MidInv, Steps
  <1> QED
    BY <1>3, <1>4, <1>5

\* The end of the body of groupsForOrgs' loop, when this organization has been
\* dealt with.
LEMMA NextOrgGoes ==
  ASSUME Ready, connector.type = "github", connector.orgs # <<>>, NEW c \in Call, Read(c),
         c.kind = call.kind, c.groupScope = call.groupScope, c.account = call.account,
         c.org \in DOMAIN connector.orgs, OrgsDone(c, c.org)
  PROVE  Goes(NextOrg(c))
  <1>1. connector.orgs \in Seq([name : Orgs, teams : SUBSET Groups])
    BY ConfigOf DEF Ready, Config
  <1>2. /\ Len(connector.orgs) \in Nat /\ DOMAIN connector.orgs = 1 .. Len(connector.orgs)
        /\ c.org \in 1 .. Len(connector.orgs)
    BY <1>1, SMT
  <1>3. connector.type \in OAuthTypes /\ ~WithoutGroups
    BY DEF OAuthTypes, WithoutGroups
  <1>4. CASE c.org < Len(connector.orgs)
    <2>1. PICK d : d = [c EXCEPT !.org = @ + 1, !.pc = "org"]
      OBVIOUS
    <2>2. /\ d \in Call /\ d.pc = "org" /\ d.org = c.org + 1 /\ d.org - 1 = c.org
          /\ d.identity = c.identity /\ d.account = c.account
          /\ d.inOrgNoTeams = c.inOrgNoTeams
          /\ d.kind = call.kind /\ d.groupScope = call.groupScope
      <3>1. PICK n \in Nat : n = c.org + 1 /\ n - 1 = c.org
        BY <1>2, SMT
      <3>2. d = [c EXCEPT !.org = n, !.pc = "org"]
        BY <2>1, <3>1
      <3> QED
        BY <3>1, <3>2 DEF Call, Steps
    <2>3. OrgsDone(d, d.org - 1)
      BY <2>2 DEF OrgsDone
    <2>4. GitHubInv(d)
      BY <1>2, <1>4, <2>2, <2>3, SMT DEF GitHubInv
    <2>5. OAuthInv(d)
      BY <1>3, <2>2, ReadSame, ReadOAuth
    <2>6. Goes(d)
      BY <2>2, <2>4, <2>5 DEF Goes, MidInv
    <2> QED
      BY <1>4, <2>1, <2>6 DEF NextOrg
  <1>5. CASE ~(c.org < Len(connector.orgs)) /\ (c.inOrgNoTeams \/ c.identity.Groups # {})
    <2>1. PICK d : d = [c EXCEPT !.pc = "done"]
      OBVIOUS
    <2>2. /\ d \in Call /\ d.pc = "done" /\ d.identity = c.identity /\ d.account = c.account
          /\ d.kind = call.kind /\ d.groupScope = call.groupScope
      BY <2>1 DEF Call
    <2>3. c.org = Len(connector.orgs)
      BY <1>2, <1>5, SMT
    <2>4. AsHeld(c.identity.Groups, window)
      <3>1. Offered = {g \in Groups : \E i \in DOMAIN connector.orgs : g \in LetThrough(i)}
        BY DEF Offered, LetThrough, TeamsOf
      <3>2. ~window.ended => Offered \cap window.always \subseteq c.identity.Groups
        BY <1>2, <2>3, <3>1 DEF OrgsDone
      <3> QED
        BY <3>2 DEF AsHeld, OrgsDone
    <2>5. Admitted(window, d.kind)
      BY <1>5, GitHubAdmitting DEF OrgsDone, Admitted
    <2>6. Lasting(d.identity, d.account) /\ Vouched(d.identity, d.account, window, d.kind)
      BY <1>3, <2>2, ReadSame, ReadOAuth
    <2>7. DoneInv(d)
      BY <2>2, <2>4, <2>5, <2>6 DEF DoneInv
    <2>8. Goes(d)
      BY <2>2, <2>7 DEF Goes, MidInv, Steps
    <2> QED
      BY <1>5, <2>1, <2>8 DEF NextOrg
  <1>6. CASE ~(c.org < Len(connector.orgs)) /\ ~(c.inOrgNoTeams \/ c.identity.Groups # {})
    <2>1. PICK d : d = [c EXCEPT !.pc = "failed"]
      OBVIOUS
    <2>2. /\ d \in Call /\ d.pc = "failed" /\ d.account = c.account
          /\ d.kind = call.kind /\ d.groupScope = call.groupScope
      BY <2>1 DEF Call
    <2>3. Goes(d)
      BY <2>2 DEF Goes, MidInv, Steps
    <2> QED
      BY <1>6, <2>1, <2>3 DEF NextOrg
  <1> QED
    BY <1>4, <1>5, <1>6

\* GET /user: the profile, and where HandleCallback and Refresh go on.
LEMMA GitHubUserGoes ==
  ASSUME Ready, NEW a \in accounts, GitHubUser(a)
  PROVE  \E c : Become(c) /\ Goes(c)
  <1>1. connector.type = "github" /\ connector.type \in OAuthTypes /\ ~WithoutGroups
    BY DEF GitHubUser, OAuthTypes, WithoutGroups
  <1>2. PICK groups \in SUBSET Groups :
           groups = IF GitHubGroupsRequired(call.groupScope) THEN {} ELSE call.identity.Groups
    BY DEF Ready, CallTypeOK, Call, Identity
  <1>3. PICK next \in {AfterUser, "email"} : ReadProfile(a, next, groups)
    BY <1>2 DEF GitHubUser
  <1>4. next \in Steps \cup {"done"}
    BY DEF AfterUser, Steps
  <1>5. PICK c \in Call :
            /\ Become(c) /\ Read(c)
            /\ c.pc = next /\ c.kind = call.kind /\ c.groupScope = call.groupScope
            /\ c.account = call.account /\ c.identity.Groups = groups
            /\ c.cursor = call.cursor /\ c.org = call.org /\ c.teams = call.teams
            /\ c.inOrgNoTeams = call.inOrgNoTeams
            /\ call.pc = "user"
    BY <1>1, <1>3, <1>4, ProfileRead, SMT
  <1>6. /\ c.cursor = 0 /\ c.org = 1 /\ c.teams = {} /\ ~c.inOrgNoTeams
        /\ GitHubGroupsRequired(c.groupScope) => c.identity.Groups = {}
    BY <1>1, <1>2, <1>5 DEF Ready, MidInv, GitHubInv
  <1>7. CASE next = AfterUser
    <2>1. MidInv(c)
      BY <1>1, <1>5, <1>6, <1>7, AfterUserGoes
    <2> QED
      BY <1>4, <1>5, <2>1 DEF Goes, Steps
  <1>8. CASE next = "email"
    <2>1. GitHubInv(c)
      BY <1>5, <1>6, <1>8 DEF GitHubInv
    <2>2. MidInv(c)
      BY <1>1, <1>5, <1>8, <2>1, ReadOAuth DEF MidInv
    <2> QED
      BY <1>5, <1>8, <2>2 DEF Goes
  <1> QED
    BY <1>3, <1>7, <1>8

\* A page of /user/emails.
LEMMA userEmailGoes ==
  ASSUME Ready, userEmail
  PROVE  \E c : Become(c) /\ Goes(c)
  <1>1. /\ connector.type = "github" /\ connector.type \in OAuthTypes /\ ~WithoutGroups
        /\ call.pc = "email" /\ call \in Call /\ GitHubInv(call)
    BY DEF userEmail, Ask, At, OAuthTypes, WithoutGroups, Ready, MidInv, CallTypeOK
  <1>2. Read(call)
    BY <1>1, OAuthRead
  <1>3. CASE Become([call EXCEPT !.pc = AfterUser, !.cursor = 0])
    <2>1. PICK c : c = [call EXCEPT !.pc = AfterUser, !.cursor = 0]
      OBVIOUS
    <2>2. AfterUser \in Steps \cup {"done"}
      BY DEF AfterUser, Steps
    <2>3. /\ c \in Call /\ c.pc = AfterUser /\ c.kind = call.kind
          /\ c.groupScope = call.groupScope /\ c.identity = call.identity
          /\ c.account = call.account /\ c.cursor = 0 /\ c.org = call.org
          /\ c.teams = call.teams /\ c.inOrgNoTeams = call.inOrgNoTeams
      BY <1>1, <2>1, <2>2 DEF Call
    <2>4. Read(c)
      BY <1>1, <1>2, <2>3, ReadSame
    <2>5. MidInv(c)
      BY <1>1, <2>3, <2>4, AfterUserGoes DEF GitHubInv
    <2> QED
      BY <1>3, <2>1, <2>2, <2>3, <2>5 DEF Goes, Steps
  <1>4. CASE Become([call EXCEPT !.cursor = @ + 1])
    <2>1. PICK c : c = [call EXCEPT !.cursor = @ + 1]
      OBVIOUS
    <2>2. /\ c \in Call /\ c.pc = "email" /\ c.kind = call.kind
          /\ c.groupScope = call.groupScope /\ c.identity = call.identity
          /\ c.account = call.account /\ c.org = call.org
          /\ c.teams = call.teams /\ c.inOrgNoTeams = call.inOrgNoTeams
      BY <1>1, <2>1, SMT DEF Call
    <2>3. GitHubInv(c)
      BY <1>1, <2>2 DEF GitHubInv
    <2>4. MidInv(c)
      BY <1>1, <1>2, <2>2, <2>3, ReadSame, ReadOAuth DEF MidInv
    <2> QED
      BY <1>4, <2>1, <2>2, <2>4 DEF Goes
  <1> QED
    BY <1>3, <1>4, FailedGoes DEF userEmail

\* The user is a member of an organization, whose teams are read next, or is not,
\* and then in none of its teams either.
LEMMA userInOrgGoes ==
  ASSUME Ready, userInOrg
  PROVE  \E c : Become(c) /\ Goes(c)
  <1>1. /\ connector.type = "github" /\ connector.type \in OAuthTypes /\ ~WithoutGroups
        /\ call.pc = "org" /\ call \in Call /\ GitHubInv(call)
    BY DEF userInOrg, Ask, At, OAuthTypes, WithoutGroups, Ready, MidInv, CallTypeOK
  <1>2. Read(call)
    BY <1>1, OAuthRead
  <1>3. /\ connector.orgs # <<>> /\ call.org \in DOMAIN connector.orgs
        /\ OrgsDone(call, call.org - 1)
    BY <1>1 DEF GitHubInv
  <1>4. window.always \subseteq held /\ held \subseteq window.ever
    BY DEF Ready, WindowInv
  <1>5. CASE connector.orgs[call.org].name \in held
    <2>1. PICK c : c = [call EXCEPT !.pc = "teams", !.cursor = 0, !.teams = {}]
      OBVIOUS
    <2>2. /\ c \in Call /\ c.pc = "teams" /\ c.kind = call.kind
          /\ c.groupScope = call.groupScope /\ c.identity = call.identity
          /\ c.account = call.account /\ c.cursor = 0 /\ c.org = call.org
          /\ c.teams = {} /\ c.inOrgNoTeams = call.inOrgNoTeams
      BY <1>1, <2>1 DEF Call, Steps
    <2>3. Paged(c, c.teams, TeamsOf(TeamOrg(c)))
      BY <1>4, <2>2, PagedNone DEF TeamsOf
    <2>4. OrgsDone(c, c.org - 1)
      BY <1>3, <2>2 DEF OrgsDone
    <2>5. GitHubInv(c)
      BY <1>3, <1>4, <1>5, <2>2, <2>3, <2>4 DEF GitHubInv, TeamOrg
    <2>6. MidInv(c)
      BY <1>1, <1>2, <2>2, <2>5, ReadSame, ReadOAuth DEF MidInv
    <2> QED
      BY <1>5, <2>1, <2>2, <2>6 DEF Goes, userInOrg
  <1>6. CASE connector.orgs[call.org].name \notin held
    <2>1. window.always \cap LetThrough(call.org) = {}
      BY <1>4, <1>6 DEF LetThrough, TeamsOf, Ready, WindowInv
    <2>2. call.org \in Nat
      BY <1>1 DEF Call
    <2>3. \A i \in 1 .. call.org : i = call.org \/ i \in 1 .. call.org - 1
      BY <2>2, SMT
    <2>4. OrgsDone(call, call.org)
      BY <1>3, <2>1, <2>3 DEF OrgsDone
    <2> QED
      BY <1>1, <1>2, <1>3, <1>6, <2>4, NextOrgGoes DEF userInOrg
  <1> QED
    BY <1>5, <1>6

\* All pages of the teams of the legacy org or of an entry of orgs are in.
LEMMA EndOfTeamsGoes ==
  ASSUME Ready, connector.type = "github", NEW c \in Call, Read(c),
         c.kind = call.kind, c.groupScope = call.groupScope, c.account = call.account,
         connector.orgs # <<>> =>
            /\ c.org \in DOMAIN connector.orgs /\ OrgsDone(c, c.org - 1)
            /\ TeamOrg(c) \in window.ever,
         c.teams \subseteq window.ever,
         window.ended \/ window.always \cap TeamsOf(TeamOrg(c)) \subseteq c.teams
  PROVE  Goes(EndOfTeams(c))
  <1>1. connector.type \in OAuthTypes /\ ~WithoutGroups
    BY DEF OAuthTypes, WithoutGroups
  <1>2. c.identity \in Identity /\ c.teams \in SUBSET Groups
    BY DEF Call
  <1>3. CASE connector.orgs = <<>>
    <2>1. PICK i : i = [c.identity EXCEPT !.Groups = c.teams]
      OBVIOUS
    <2>2. /\ i \in Identity /\ i.Groups = c.teams /\ i.UserID = c.identity.UserID
          /\ i.Username = c.identity.Username /\ i.ConnectorData = c.identity.ConnectorData
      BY <1>2, <2>1 DEF Identity
    <2>3. PICK d : d = [c EXCEPT !.pc = "done", !.identity = i]
      OBVIOUS
    <2>4. /\ d \in Call /\ d.pc = "done" /\ d.identity = i /\ d.account = c.account
          /\ d.kind = call.kind /\ d.groupScope = call.groupScope
      BY <2>2, <2>3 DEF Call
    <2>5. Offered = TeamsOf(TeamOrg(c))
      BY <1>3 DEF Offered, TeamsOf, TeamOrg
    <2>6. AsHeld(d.identity.Groups, window)
      BY <2>2, <2>4, <2>5 DEF AsHeld
    <2>7. Admitted(window, d.kind)
      BY <1>3, GitHubAdmitting DEF Admitted
    <2>8. Lasting(d.identity, d.account) /\ Vouched(d.identity, d.account, window, d.kind)
      BY <1>1, <2>2, <2>4, ReadSame, ReadOAuth
    <2>9. Goes(d)
      BY <2>4, <2>6, <2>7, <2>8 DEF Goes, MidInv, DoneInv, Steps
    <2>10. EndOfTeams(c) = d
      BY <1>3, <2>1, <2>3 DEF EndOfTeams
    <2> QED
      BY <2>9, <2>10
  <1>4. CASE connector.orgs # <<>>
    <2>1. PICK org : org = connector.orgs[c.org]
      OBVIOUS
    <2>2. TeamOrg(c) = org.name /\ TeamOrg(c) \in window.ever
      BY <1>4, <2>1 DEF TeamOrg
    <2>3. PICK new : new = filterTeams(c.teams, org.teams)
      OBVIOUS
    <2>4. new \in SUBSET Groups /\ new \subseteq window.ever
      BY <1>2, <2>3 DEF filterTeams
    <2>5. PICK i : i = [c.identity EXCEPT !.Groups = @ \cup new]
      OBVIOUS
    <2>6. /\ i \in Identity /\ i.Groups = c.identity.Groups \cup new
          /\ i.UserID = c.identity.UserID
          /\ i.Username = c.identity.Username /\ i.ConnectorData = c.identity.ConnectorData
      BY <1>2, <2>4, <2>5 DEF Identity
    <2>7. PICK d : d = [c EXCEPT !.identity = i, !.inOrgNoTeams = @ \/ org.teams = {},
                                 !.teams = {}, !.cursor = 0]
      OBVIOUS
    <2>8. /\ d \in Call /\ d.identity = i /\ d.account = c.account /\ d.org = c.org
          /\ d.inOrgNoTeams = (c.inOrgNoTeams \/ org.teams = {})
          /\ d.kind = call.kind /\ d.groupScope = call.groupScope
      BY <2>6, <2>7 DEF Call
    <2>9. Read(d)
      BY <1>1, <2>6, <2>8, ReadSame
    <2>10. c.org \in Nat /\ \A j \in 1 .. c.org : j = c.org \/ j \in 1 .. c.org - 1
      BY SMT DEF Call
    <2>11. ~window.ended => window.always \cap LetThrough(c.org) \subseteq new
      BY <2>1, <2>2, <2>3 DEF LetThrough, TeamsOf, filterTeams
    <2>12. d.inOrgNoTeams \/ d.identity.Groups # {} => window.ever \cap Enforced("login") # {}
      <3>1. CASE c.inOrgNoTeams \/ c.identity.Groups # {}
        BY <1>4, <3>1 DEF OrgsDone
      <3>2. CASE org.teams = {}
        BY <1>4, <2>1, <2>2, <3>2, GitHubAdmitting
      <3>3. CASE org.teams # {} /\ new # {}
        <4>1. new \subseteq Enforced("login")
          BY <1>4, <2>1, <2>3, <3>3, GitHubAdmitting DEF filterTeams
        <4> QED
          BY <2>4, <3>3, <4>1
      <3> QED
        BY <2>6, <2>8, <3>1, <3>2, <3>3
    <2>13. OrgsDone(d, d.org)
      BY <1>4, <2>4, <2>6, <2>8, <2>10, <2>11, <2>12 DEF OrgsDone
    <2>14. Goes(NextOrg(d))
      BY <1>4, <2>8, <2>9, <2>13, NextOrgGoes
    <2>15. EndOfTeams(c) = NextOrg(d)
      BY <1>4, <2>1, <2>3, <2>5, <2>7 DEF EndOfTeams
    <2> QED
      BY <2>14, <2>15
  <1> QED
    BY <1>3, <1>4

\* A page of the user's teams.
LEMMA teamsForOrgGoes ==
  ASSUME Ready, teamsForOrg
  PROVE  \E c : Become(c) /\ Goes(c)
  <1>1. /\ connector.type = "github" /\ connector.type \in OAuthTypes /\ ~WithoutGroups
        /\ call.pc = "teams" /\ call \in Call /\ GitHubInv(call)
    BY DEF teamsForOrg, Ask, At, OAuthTypes, WithoutGroups, Ready, MidInv, CallTypeOK
  <1>2. Read(call)
    BY <1>1, OAuthRead
  <1>3. /\ Paged(call, call.teams, TeamsOf(TeamOrg(call)))
        /\ connector.orgs # <<>> =>
              /\ call.org \in DOMAIN connector.orgs /\ OrgsDone(call, call.org - 1)
              /\ TeamOrg(call) \in window.ever
    BY <1>1 DEF GitHubInv
  <1>4. window.always \subseteq held /\ held \subseteq window.ever
    BY DEF Ready, WindowInv
  <1>5. PICK page : page = {g \in NumberedPage(call.cursor + 1) : OrgOf[g] = TeamOrg(call)}
    OBVIOUS
  <1>6. page = {g \in NumberedPage(call.cursor + 1) : g \in TeamsOf(TeamOrg(call))}
    BY <1>5 DEF TeamsOf, NumberedPage, Listed
  <1>7. PICK c : c = [call EXCEPT !.teams = @ \cup page, !.cursor = @ + 1]
    OBVIOUS
  <1>8. call.cursor \in Nat /\ page \in SUBSET Groups
    BY <1>1, <1>6 DEF Call, TeamsOf
  <1>9. /\ c \in Call /\ c.pc = "teams" /\ c.kind = call.kind
        /\ c.groupScope = call.groupScope /\ c.identity = call.identity
        /\ c.account = call.account /\ c.cursor = call.cursor + 1 /\ c.org = call.org
        /\ c.teams = call.teams \cup page /\ c.inOrgNoTeams = call.inOrgNoTeams
    <2>1. PICK n \in Nat : n = call.cursor + 1
      BY <1>8, SMT
    <2>2. PICK teams \in SUBSET Groups : teams = call.teams \cup page
      BY <1>1, <1>8 DEF Call
    <2>3. c = [call EXCEPT !.teams = teams, !.cursor = n]
      BY <1>7, <2>1, <2>2
    <2> QED
      BY <1>1, <2>1, <2>2, <2>3 DEF Call
  <1>10. TeamOrg(c) = TeamOrg(call)
    BY <1>9 DEF TeamOrg
  <1>11. Paged(c, c.teams, TeamsOf(TeamOrg(c)))
    BY <1>3, <1>4, <1>6, <1>8, <1>9, <1>10, PagedNext, SMT DEF TeamsOf
  <1>12. connector.orgs # <<>> => c.org \in DOMAIN connector.orgs /\ OrgsDone(c, c.org - 1)
    BY <1>3, <1>9 DEF OrgsDone
  <1>13. Read(c)
    BY <1>1, <1>2, <1>9, ReadSame
  <1>14. CASE c.cursor < Cardinality(Listed)
    <2>1. GitHubInv(c)
      BY <1>3, <1>9, <1>10, <1>11, <1>12 DEF GitHubInv
    <2>2. MidInv(c)
      BY <1>1, <1>9, <1>13, <2>1, ReadOAuth DEF MidInv
    <2>3. Goes(c)
      BY <1>9, <2>2 DEF Goes
    <2>4. Become(c)
      BY <1>5, <1>7, <1>14 DEF teamsForOrg, TeamOrg
    <2> QED
      BY <2>3, <2>4
  <1>15. CASE ~(c.cursor < Cardinality(Listed))
    <2>1. /\ c.teams \subseteq window.ever
          /\ window.ended \/ window.always \cap TeamsOf(TeamOrg(c)) \subseteq c.teams
      BY <1>4, <1>8, <1>9, <1>11, <1>15, PagedAll, SMT DEF TeamsOf
    <2>2. Goes(EndOfTeams(c))
      BY <1>1, <1>3, <1>9, <1>10, <1>12, <1>13, <2>1, EndOfTeamsGoes
    <2>3. Become(EndOfTeams(c))
      BY <1>5, <1>7, <1>15 DEF teamsForOrg, TeamOrg
    <2> QED
      BY <2>2, <2>3
  <1> QED
    BY <1>14, <1>15

\* The GitHub connector.
LEMMA GitHubGoes ==
  ASSUME Ready, GitHub
  PROVE  \E c : Become(c) /\ Goes(c)
  <1>1. ASSUME NEW a \in accounts, GitHubExchange(a) PROVE \E c : Become(c) /\ Goes(c)
    BY <1>1, ExchangeGoes DEF GitHubExchange, OAuthTypes
  <1> QED
    BY <1>1, GitHubUserGoes, userEmailGoes, userInOrgGoes, teamsForOrgGoes DEF GitHub

-----------------------------------------------------------------------------
(* The other connectors to which the browser returns with a GET.           *)

\* GitLab's profile; its groups are read only if they were asked for.
LEMMA GitLabUserGoes ==
  ASSUME Ready, NEW a \in accounts, GitLabUser(a)
  PROVE  \E c : Become(c) /\ Goes(c)
  <1>1. connector.type = "gitlab" /\ connector.type \in OAuthTypes /\ ~WithoutGroups
    BY DEF GitLabUser, OAuthTypes, WithoutGroups
  <1>2. PICK groups \in SUBSET Groups :
           groups = IF call.groupScope THEN {} ELSE call.identity.Groups
    BY DEF Ready, CallTypeOK, Call, Identity
  <1>3. PICK next \in Steps \cup {"done"} : next = IF call.groupScope THEN "groups" ELSE "done"
    BY DEF Steps
  <1>4. ReadProfile(a, next, groups)
    BY <1>2, <1>3 DEF GitLabUser
  <1>5. PICK c \in Call :
            /\ Become(c) /\ Read(c)
            /\ c.pc = next /\ c.kind = call.kind /\ c.groupScope = call.groupScope
            /\ c.account = call.account /\ c.identity.Groups = groups
            /\ c.cursor = call.cursor /\ c.org = call.org /\ c.teams = call.teams
            /\ c.inOrgNoTeams = call.inOrgNoTeams
            /\ call.pc = "user"
    BY <1>1, <1>4, ProfileRead, SMT
  <1>6. CASE call.groupScope
    <2>1. c.pc = "groups" /\ c.identity.Groups = {}
      BY <1>2, <1>3, <1>5, <1>6
    <2>2. Paged(c, {}, Groups)
      BY <1>1, <1>5, PagedNone DEF Ready, WindowInv, MidInv, GitLabInv
    <2>3. GitLabInv(c)
      BY <2>1, <2>2 DEF GitLabInv
    <2>4. Goes(c)
      BY <1>1, <1>5, <2>1, <2>3, ReadOAuth DEF Goes, MidInv
    <2> QED
      BY <1>5, <2>4
  <1>7. CASE ~call.groupScope
    <2>1. Admitted(window, c.kind)
      BY <1>1 DEF Admitted, Enforced, Admitting, LegacyOrg
    <2> QED
      BY <1>1, <1>3, <1>5, <1>7, <2>1, ReadDone
  <1> QED
    BY <1>6, <1>7

\* A page of GitLab's groups.
LEMMA GitLabGroupsGoes ==
  ASSUME Ready, GitLabGroups
  PROVE  \E c : Become(c) /\ Goes(c)
  <1>1. /\ connector.type = "gitlab" /\ connector.type \in OAuthTypes /\ ~WithoutGroups
        /\ call.pc = "groups" /\ call \in Call /\ GitLabInv(call)
    BY DEF GitLabGroups, Ask, At, OAuthTypes, WithoutGroups, Ready, MidInv, CallTypeOK
  <1>2. Read(call)
    BY <1>1, OAuthRead
  <1>3. Paged(call, call.identity.Groups, Groups)
    BY <1>1 DEF GitLabInv
  <1>4. window.always \subseteq held /\ held \subseteq window.ever
    BY DEF Ready, WindowInv
  <1>5. PICK page : page = NumberedPage(call.cursor + 1)
    OBVIOUS
  <1>6. page = {g \in NumberedPage(call.cursor + 1) : g \in Groups} /\ page \in SUBSET Groups
    BY <1>5 DEF NumberedPage, Listed
  <1>7. PICK n \in Nat : n = call.cursor + 1
    BY <1>1, SMT DEF Call
  <1>8. call.identity \in Identity /\ call.cursor \in Nat
    BY <1>1 DEF Call
  <1>9. PICK i : i = [call.identity EXCEPT !.Groups = @ \cup page]
    OBVIOUS
  <1>10. /\ i \in Identity /\ i.Groups = call.identity.Groups \cup page
         /\ i.UserID = call.identity.UserID
         /\ i.Username = call.identity.Username
         /\ i.ConnectorData = call.identity.ConnectorData
    BY <1>6, <1>8, <1>9 DEF Identity
  <1>11. PICK next \in {"groups", "done"} :
            next = IF n < Cardinality(Listed) THEN "groups" ELSE "done"
    OBVIOUS
  <1>12. PICK c : c = [call EXCEPT !.identity = i, !.cursor = n, !.pc = next]
    OBVIOUS
  <1>13. /\ c \in Call /\ c.pc = next /\ c.kind = call.kind
         /\ c.groupScope = call.groupScope /\ c.identity = i
         /\ c.account = call.account /\ c.cursor = n
    BY <1>1, <1>10, <1>12 DEF Call, Steps
  <1>14. Become(c)
    <2>1. PICK d : d = [call EXCEPT !.identity.Groups = @ \cup NumberedPage(call.cursor + 1),
                                    !.cursor = @ + 1]
      OBVIOUS
    <2>2. d = [call EXCEPT !.identity = i, !.cursor = n]
      BY <1>5, <1>7, <1>9, <2>1
    <2>3. d.cursor = n /\ d.pc = "groups" /\ c = [d EXCEPT !.pc = next]
      BY <1>1, <1>12, <2>2 DEF Call
    <2>4. Become([d EXCEPT !.pc = IF d.cursor < Cardinality(Listed) THEN @ ELSE "done"])
      BY <2>1 DEF GitLabGroups
    <2> QED
      BY <1>11, <2>3, <2>4
  <1>15. Paged(c, c.identity.Groups, Groups)
    BY <1>3, <1>4, <1>6, <1>7, <1>8, <1>10, <1>13, PagedNext, SMT
  <1>16. Read(c)
    BY <1>1, <1>2, <1>10, <1>13, ReadSame
  <1>17. CASE n < Cardinality(Listed)
    <2>1. GitLabInv(c)
      BY <1>11, <1>13, <1>15, <1>17 DEF GitLabInv
    <2>2. Goes(c)
      BY <1>1, <1>11, <1>13, <1>16, <1>17, <2>1, ReadOAuth DEF Goes, MidInv
    <2> QED
      BY <1>14, <2>2
  <1>18. CASE ~(n < Cardinality(Listed))
    <2>1. AsHeld(c.identity.Groups, window)
      <3>1. /\ c.identity.Groups \subseteq window.ever
            /\ window.ended \/ window.always \cap Groups \subseteq c.identity.Groups
        BY <1>4, <1>13, <1>15, <1>18, PagedAll
      <3> QED
        BY <1>1, <3>1 DEF AsHeld, Offered
    <2>2. Admitted(window, c.kind)
      BY <1>1 DEF Admitted, Enforced, Admitting, LegacyOrg
    <2>3. Goes(c)
      BY <1>1, <1>11, <1>13, <1>16, <1>18, <2>1, <2>2, ReadDone
    <2> QED
      BY <1>14, <2>3
  <1> QED
    BY <1>17, <1>18

\* The next entry g of a list S that has at least what was there all along.
LEMMA LinkedNext ==
  ASSUME NEW S \in SUBSET Groups, window.always \cap Groups \subseteq S, NEW n \in Nat,
         NEW c, c.cursor = n, NEW T, Linked(c, T), NEW g \in After(S, n),
         NEW d, d.cursor = Rank[g], NEW U, T \subseteq U, U \subseteq window.ever,
         g \in window.always => g \in U
  PROVE  Linked(d, U)
  <1> SUFFICES ASSUME NEW k \in window.always \cap Groups, Rank[k] <= Rank[g]
               PROVE  k \in U
    BY DEF Linked
  <1>1. k \in S /\ g \in S /\ Rank[k] \in Nat /\ Rank[g] \in Nat
    BY ProviderAssumption DEF After
  <1>2. CASE Rank[k] <= n
    BY <1>2 DEF Linked
  <1>3. CASE Rank[k] > n
    <2>1. Rank[g] <= Rank[k]
      BY <1>1, <1>3 DEF After
    <2>2. g = k
      BY <1>1, <2>1, ProviderAssumption, SMT
    <2> QED
      BY <2>2
  <1> QED
    BY <1>1, <1>2, <1>3, SMT

\* The profile of a Microsoft account.
LEMMA MicrosoftUserGoes ==
  ASSUME Ready, NEW a \in accounts, MicrosoftUser(a)
  PROVE  \E c : Become(c) /\ Goes(c)
  <1>1. connector.type = "microsoft" /\ connector.type \in OAuthTypes
    BY DEF MicrosoftUser, OAuthTypes
  <1>2. call.pc = "user" /\ (WithoutGroups => call.identity.Groups = {})
    BY <1>1 DEF MicrosoftUser, ReadProfile, Ready, MidInv, OAuthInv
  <1>3. PICK groups \in SUBSET Groups :
           groups = IF MicrosoftGroupsRequired(call.groupScope) THEN {}
                    ELSE call.identity.Groups
    BY DEF Ready, CallTypeOK, Call, Identity
  <1>4. PICK next \in Steps \cup {"done"} :
           next = IF MicrosoftGroupsRequired(call.groupScope) THEN "ids" ELSE "done"
    BY DEF Steps
  <1>5. ReadProfile(a, next, groups)
    BY <1>3, <1>4 DEF MicrosoftUser
  <1>6. WithoutGroups => groups = {}
    BY <1>2, <1>3
  <1>7. PICK c \in Call :
            /\ Become(c) /\ Read(c)
            /\ c.pc = next /\ c.kind = call.kind /\ c.groupScope = call.groupScope
            /\ c.account = call.account /\ c.identity.Groups = groups
            /\ c.cursor = call.cursor /\ c.org = call.org /\ c.teams = call.teams
            /\ c.inOrgNoTeams = call.inOrgNoTeams
            /\ call.pc = "user"
    BY <1>1, <1>5, <1>6, ProfileRead, SMT
  <1>8. CASE MicrosoftGroupsRequired(call.groupScope)
    <2>1. c.pc = "ids" /\ c.identity.Groups = {} /\ c.cursor = 0 /\ c.teams = {}
      BY <1>1, <1>3, <1>4, <1>7, <1>8 DEF Ready, MidInv, MicrosoftInv
    <2>2. Linked(c, {})
      BY <2>1, ProviderAssumption, SMT DEF Linked
    <2>3. MicrosoftInv(c)
      BY <1>8, <2>1, <2>2 DEF MicrosoftInv, MicrosoftGroupsRequired
    <2>4. Goes(c)
      BY <1>1, <1>7, <2>1, <2>3, ReadOAuth DEF Goes, MidInv
    <2> QED
      BY <1>7, <2>4
  <1>9. CASE ~MicrosoftGroupsRequired(call.groupScope)
    <2>1. Admitted(window, c.kind)
      BY <1>1, <1>9 DEF Admitted, Enforced, Admitting, LegacyOrg, MicrosoftGroupsRequired
    <2>2. c.groupScope => c.identity.Groups = {} /\ Offered = {}
      BY <1>1, <1>6, <1>7, <1>9 DEF MicrosoftGroupsRequired, WithoutGroups, Offered
    <2>3. c.groupScope => AsHeld(c.identity.Groups, window)
      BY <2>2 DEF AsHeld
    <2> QED
      BY <1>1, <1>4, <1>7, <1>9, <2>1, <2>3, ReadDone
  <1> QED
    BY <1>8, <1>9

\* getGroups returns, with all the groups that were there all along.
LEMMA isInGroupsGoes ==
  ASSUME Ready, connector.type = "microsoft", connector.orgTenant, NEW c \in Call, Read(c),
         c.kind = call.kind, c.groupScope = call.groupScope, c.account = call.account,
         c.identity.Groups \subseteq window.ever,
         window.always \cap Groups \subseteq c.identity.Groups
  PROVE  Goes(isInGroups(c))
  <1>1. connector.type \in OAuthTypes /\ ~WithoutGroups
    BY DEF OAuthTypes, WithoutGroups
  <1>2. CASE connector.groups = {} \/ connector.groups \cap c.identity.Groups # {}
    <2>1. PICK d : d = [c EXCEPT !.pc = "done"]
      OBVIOUS
    <2>2. /\ d \in Call /\ d.pc = "done" /\ d.identity = c.identity /\ d.account = c.account
          /\ d.kind = call.kind /\ d.groupScope = call.groupScope
      BY <2>1 DEF Call
    <2>3. Admitted(window, d.kind)
      BY <1>2 DEF Admitted, Enforced, Admitting, LegacyOrg
    <2>4. AsHeld(d.identity.Groups, window)
      BY <2>2 DEF AsHeld, Offered
    <2>5. Goes(d)
      BY <1>1, <2>2, <2>3, <2>4, ReadSame, ReadDone
    <2> QED
      BY <1>2, <2>1, <2>5 DEF isInGroups
  <1>3. CASE ~(connector.groups = {} \/ connector.groups \cap c.identity.Groups # {})
    <2>1. PICK d : d = [c EXCEPT !.pc = "failed"]
      OBVIOUS
    <2>2. /\ d \in Call /\ d.pc = "failed" /\ d.account = c.account
          /\ d.kind = call.kind /\ d.groupScope = call.groupScope
      BY <2>1 DEF Call
    <2>3. Goes(d)
      BY <2>2 DEF Goes, MidInv, Steps
    <2> QED
      BY <1>3, <2>1, <2>3 DEF isInGroups
  <1> QED
    BY <1>2, <1>3

\* The IDs of all groups are known; their names are asked for next.
LEMMA EndOfIDsGoes ==
  ASSUME Ready, connector.type = "microsoft", connector.orgTenant, NEW c \in Call, Read(c),
         c.kind = call.kind, c.groupScope = call.groupScope, c.account = call.account,
         c.identity.Groups = {}, c.teams \subseteq window.ever,
         window.always \cap Groups \subseteq c.teams
  PROVE  Goes(EndOfIDs(c))
  <1>1. connector.type \in OAuthTypes /\ ~WithoutGroups
    BY DEF OAuthTypes, WithoutGroups
  <1>2. CASE c.teams = {}
    BY <1>2, isInGroupsGoes DEF EndOfIDs
  <1>3. CASE c.teams # {}
    <2>1. PICK d : d = [c EXCEPT !.pc = "names", !.cursor = 0]
      OBVIOUS
    <2>2. /\ d \in Call /\ d.pc = "names" /\ d.identity = c.identity /\ d.account = c.account
          /\ d.kind = call.kind /\ d.groupScope = call.groupScope
          /\ d.cursor = 0 /\ d.teams = c.teams
      BY <2>1 DEF Call, Steps
    <2>3. Linked(d, {})
      BY <2>2, ProviderAssumption, SMT DEF Linked
    <2>4. MicrosoftInv(d)
      BY <2>2, <2>3 DEF MicrosoftInv
    <2>5. Goes(d)
      BY <1>1, <2>2, <2>4, ReadSame, ReadOAuth DEF Goes, MidInv
    <2> QED
      BY <1>3, <2>1, <2>5 DEF EndOfIDs
  <1> QED
    BY <1>2, <1>3

\* A page of group IDs.
LEMMA getGroupIDsGoes ==
  ASSUME Ready, getGroupIDs
  PROVE  \E c : Become(c) /\ Goes(c)
  <1>1. /\ connector.type = "microsoft" /\ connector.type \in OAuthTypes
        /\ call.pc = "ids" /\ call \in Call /\ MicrosoftInv(call)
    BY DEF getGroupIDs, Ask, At, OAuthTypes, Ready, MidInv, CallTypeOK
  <1>2. Read(call)
    BY <1>1, OAuthRead
  <1>3. call.identity.Groups = {} /\ Linked(call, call.teams) /\ connector.orgTenant
    BY <1>1 DEF MicrosoftInv
  <1>4. window.always \subseteq held /\ held \subseteq window.ever /\ Listed \in SUBSET Groups
    BY DEF Ready, WindowInv, Listed
  <1>5. call.cursor \in Nat /\ call.teams \in SUBSET Groups
    BY <1>1 DEF Call
  <1>6. CASE After(Listed, call.cursor) = {} /\ Become(EndOfIDs(call))
    <2>1. \A g \in Listed : Rank[g] <= call.cursor
      BY <1>4, <1>5, <1>6, AfterNone
    <2>2. window.always \cap Groups \subseteq call.teams /\ call.teams \subseteq window.ever
      BY <1>3, <1>4, <2>1 DEF Linked, Listed
    <2> QED
      BY <1>1, <1>2, <1>3, <1>6, <2>2, EndOfIDsGoes
  <1>7. ASSUME NEW g \in After(Listed, call.cursor), NEW c,
               c = [call EXCEPT !.teams = @ \cup {g}, !.cursor = Rank[g]],
               Become(IF After(Listed, c.cursor) = {} THEN EndOfIDs(c) ELSE c)
        PROVE  \E d : Become(d) /\ Goes(d)
    <2>1. g \in Listed /\ g \in Groups /\ Rank[g] \in Nat
      BY <1>4, ProviderAssumption DEF After
    <2>2. /\ c \in Call /\ c.pc = "ids" /\ c.kind = call.kind
          /\ c.groupScope = call.groupScope /\ c.identity = call.identity
          /\ c.account = call.account /\ c.cursor = Rank[g]
          /\ c.teams = call.teams \cup {g}
      <3>1. PICK teams \in SUBSET Groups : teams = call.teams \cup {g}
        BY <1>5, <2>1
      <3>2. c = [call EXCEPT !.teams = teams, !.cursor = Rank[g]]
        BY <1>7, <3>1
      <3> QED
        BY <1>1, <2>1, <3>1, <3>2 DEF Call
    <2>3. c.teams \subseteq window.ever
      BY <1>3, <1>4, <2>1, <2>2 DEF Linked, Listed
    <2>4. Linked(c, c.teams)
      <3>1. window.always \cap Groups \subseteq Listed
        BY <1>4 DEF Listed
      <3> QED
        <4>1. call.teams \subseteq c.teams /\ (g \in window.always => g \in c.teams)
          BY <2>2
        <4>2. PICK n \in Nat : n = call.cursor
          BY <1>5
        <4>3. g \in After(Listed, n)
          BY <1>7, <4>2
        <4> QED
          BY <1>3, <1>4, <2>2, <2>3, <3>1, <4>1, <4>2, <4>3, LinkedNext, SMT
    <2>5. Read(c)
      BY <1>2, <2>2 DEF Read, Seen
    <2>6. CASE After(Listed, c.cursor) = {}
      <3>1. \A k \in Listed : Rank[k] <= c.cursor
        BY <1>4, <2>1, <2>2, <2>6, AfterNone
      <3>2. window.always \cap Groups \subseteq c.teams
        BY <1>4, <2>4, <3>1 DEF Linked, Listed
      <3>3. Goes(EndOfIDs(c))
        BY <1>1, <1>3, <2>2, <2>3, <2>5, <3>2, EndOfIDsGoes
      <3> QED
        BY <1>7, <2>6, <3>3
    <2>7. CASE After(Listed, c.cursor) # {}
      <3>1. MicrosoftInv(c)
        BY <1>3, <2>2, <2>4 DEF MicrosoftInv
      <3>2. Goes(c)
        BY <1>1, <2>2, <2>5, <3>1, ReadOAuth DEF Goes, MidInv
      <3> QED
        BY <1>7, <2>7, <3>2
    <2> QED
      BY <2>6, <2>7
  <1> QED
    BY <1>6, <1>7 DEF getGroupIDs

\* A page of group names.
LEMMA getGroupNamesGoes ==
  ASSUME Ready, getGroupNames
  PROVE  \E c : Become(c) /\ Goes(c)
  <1>1. /\ connector.type = "microsoft" /\ connector.type \in OAuthTypes
        /\ call.pc = "names" /\ call \in Call /\ MicrosoftInv(call)
    BY DEF getGroupNames, Ask, At, OAuthTypes, Ready, MidInv, CallTypeOK
  <1>2. Read(call)
    BY <1>1, OAuthRead
  <1>3. /\ Linked(call, call.identity.Groups) /\ connector.orgTenant
        /\ call.teams \subseteq window.ever /\ window.always \cap Groups \subseteq call.teams
    BY <1>1 DEF MicrosoftInv
  <1>4. ~WithoutGroups /\ window.always \subseteq held
    BY <1>1, <1>3 DEF WithoutGroups, Ready, WindowInv
  <1>5. /\ call.cursor \in Nat /\ call.teams \in SUBSET Groups /\ call.identity \in Identity
        /\ call.identity.Groups \in SUBSET Groups
    BY <1>1 DEF Call, Identity
  <1>6. ASSUME NEW g \in After(call.teams, call.cursor), NEW named \in BOOLEAN, NEW c,
               c = [call EXCEPT !.cursor = Rank[g],
                                !.identity.Groups = IF named THEN @ \cup {g} ELSE @],
               g \in held => named,
               Become(IF After(c.teams, c.cursor) = {} THEN isInGroups(c) ELSE c)
        PROVE  \E d : Become(d) /\ Goes(d)
    <2>1. g \in call.teams /\ g \in Groups /\ Rank[g] \in Nat
      BY <1>5, ProviderAssumption DEF After
    <2>2. PICK groups \in SUBSET Groups :
             groups = IF named THEN call.identity.Groups \cup {g} ELSE call.identity.Groups
      BY <1>5, <2>1
    <2>3. PICK i : i = [call.identity EXCEPT !.Groups = groups]
      OBVIOUS
    <2>4. /\ i \in Identity /\ i.Groups = groups /\ i.UserID = call.identity.UserID
          /\ i.Username = call.identity.Username
          /\ i.ConnectorData = call.identity.ConnectorData
      BY <1>5, <2>2, <2>3 DEF Identity
    <2>5. c = [call EXCEPT !.cursor = Rank[g], !.identity = i]
      BY <1>6, <2>2, <2>3
    <2>6. /\ c \in Call /\ c.pc = "names" /\ c.kind = call.kind
          /\ c.groupScope = call.groupScope /\ c.identity = i
          /\ c.account = call.account /\ c.cursor = Rank[g] /\ c.teams = call.teams
      BY <1>1, <2>1, <2>4, <2>5 DEF Call
    <2>7. /\ groups \subseteq window.ever /\ call.identity.Groups \subseteq groups
          /\ g \in window.always => g \in groups
      BY <1>3, <1>4, <1>6, <2>1, <2>2 DEF Linked
    <2>8. Linked(c, groups)
      <3>1. PICK n \in Nat : n = call.cursor
        BY <1>5
      <3>2. g \in After(call.teams, n)
        BY <1>6, <3>1
      <3> QED
        BY <1>3, <1>5, <2>6, <2>7, <3>1, <3>2, LinkedNext, SMT
    <2>9. Read(c)
      BY <1>2, <1>4, <2>4, <2>6, ReadSame
    <2>10. CASE After(c.teams, c.cursor) = {}
      <3>1. \A k \in c.teams : Rank[k] <= c.cursor
        BY <1>5, <2>1, <2>6, <2>10, AfterNone
      <3>2. window.always \cap Groups \subseteq groups
        BY <1>3, <2>6, <2>8, <3>1 DEF Linked
      <3>3. Goes(isInGroups(c))
        BY <1>1, <1>3, <2>4, <2>6, <2>7, <2>9, <3>2, isInGroupsGoes
      <3> QED
        BY <1>6, <2>10, <3>3
    <2>11. CASE After(c.teams, c.cursor) # {}
      <3>1. MicrosoftInv(c)
        BY <1>3, <2>4, <2>6, <2>8 DEF MicrosoftInv
      <3>2. Goes(c)
        BY <1>1, <2>6, <2>9, <3>1, ReadOAuth DEF Goes, MidInv
      <3> QED
        BY <1>6, <2>11, <3>2
    <2> QED
      BY <2>10, <2>11
  <1> QED
    BY <1>6 DEF getGroupNames

\* GitLab, Microsoft, LinkedIn, oidc and authproxy.
LEMMA OAuth2Goes ==
  ASSUME Ready, OAuth2
  PROVE  \E c : Become(c) /\ Goes(c)
  <1>1. ASSUME NEW a \in accounts, OAuth2Exchange(a) PROVE \E c : Become(c) /\ Goes(c)
    BY <1>1, ExchangeGoes DEF OAuth2Exchange, OAuthTypes
  <1>2. ASSUME NEW a \in accounts, AuthProxy(a) PROVE \E c : Become(c) /\ Goes(c)
    <2>1. /\ connector.type = "authproxy" /\ call.kind = "login" /\ call.identity.Groups = {}
      BY <1>2 DEF AuthProxy, At, Ready, MidInv
    <2> QED
      BY <1>2, <2>1, TakenGoes DEF AuthProxy
  <1> QED
    BY <1>1, <1>2, GitLabUserGoes, MicrosoftUserGoes, LinkedInProfileGoes, OIDCExchangeGoes,
       GitLabGroupsGoes, getGroupIDsGoes, getGroupNamesGoes, OIDCVerifyGoes DEF OAuth2

\* Every step of a connector to which no response is posted.
LEMMA ConnectorGoes ==
  ASSUME Ready, GitHub \/ OAuth2 \/ LDAP \/ PasswordConnector \/ Denied \/ RequestFails
  PROVE  \E c : Become(c) /\ Goes(c)
  <1>1. CASE LDAP
    BY <1>1, FailedGoes, userEntryGoes, LDAPBindGoes, LDAPGroupsGoes
    DEF LDAP, LDAPEmptyPassword
  <1>2. CASE Denied \/ RequestFails
    BY <1>2, FailedGoes DEF Denied, RequestFails
  <1> QED
    BY <1>1, <1>2, GitHubGoes, OAuth2Goes, PasswordGoes

-----------------------------------------------------------------------------
(* Changes at the provider.                                                *)

\* Accounts and memberships that the provider can have.
Possible(newAccounts, newHeld) ==
    /\ newAccounts \in SUBSET Account /\ newHeld \in SUBSET Memberships
    /\ \A g \in newHeld \cap Groups : OrgOf[g] \in newHeld

\* Whatever changes, a member of a team stays a member of its organization.
LEMMA ChangeIsPossible ==
  ASSUME ProviderTypeOK, WindowInv, Change
  PROVE  \E newAccounts, newHeld :
            Possible(newAccounts, newHeld) /\ Set(newAccounts, newHeld) /\ Count
  <1>1. /\ accounts \in SUBSET Account /\ held \in SUBSET Memberships
        /\ \A g \in held \cap Groups : OrgOf[g] \in held
    BY DEF ProviderTypeOK, WindowInv
  <1>2. ASSUME NEW m \in Memberships, Join(m)
        PROVE  \E newAccounts, newHeld :
                  Possible(newAccounts, newHeld) /\ Set(newAccounts, newHeld) /\ Count
    <2>1. PICK new : new = held \cup {m} \cup {o \in Orgs : m \in Groups /\ o = OrgOf[m]}
      OBVIOUS
    <2>2. new \in SUBSET Memberships
      BY <1>1, <1>2, <2>1 DEF Memberships
    <2>3. \A g \in new \cap Groups : OrgOf[g] \in new
      BY <1>1, <2>1, ProviderAssumption
    <2> QED
      BY <1>1, <1>2, <2>1, <2>2, <2>3 DEF Join, Possible
  <1>3. ASSUME NEW m \in Memberships, Leave(m)
        PROVE  \E newAccounts, newHeld :
                  Possible(newAccounts, newHeld) /\ Set(newAccounts, newHeld) /\ Count
    <2>1. PICK new : new = held \ ({m} \cup {g \in Groups : OrgOf[g] = m})
      OBVIOUS
    <2>2. \A g \in new \cap Groups : OrgOf[g] \in new
      BY <1>1, <2>1, ProviderAssumption
    <2> QED
      BY <1>1, <1>3, <2>1, <2>2 DEF Leave, Possible
  <1>4. ASSUME NEW a \in Account, RemoveAccount(a) \/ AddAccount(a)
        PROVE  \E newAccounts, newHeld :
                  Possible(newAccounts, newHeld) /\ Set(newAccounts, newHeld) /\ Count
    BY <1>1, <1>4 DEF RemoveAccount, AddAccount, Possible
  <1> QED
    BY <1>2, <1>3, <1>4 DEF Change, CreatePassword, DeletePassword

\* How the window of a call follows: it has seen more, less was there all along,
\* and pages have not shifted back as long as no membership has ended.
Follows ==
    /\ window' \in Window
    /\ window.ever \subseteq window'.ever
    /\ window'.always \subseteq window.always
    /\ window.seen \subseteq window'.seen
    /\ ~window'.ended => ~window.ended /\ held \subseteq held'

\* A change during a call.
LEMMA WindowFollows ==
  ASSUME ProviderTypeOK, WindowInv, call.pc \in Steps, NEW newAccounts, NEW newHeld,
         Possible(newAccounts, newHeld), Set(newAccounts, newHeld), UNCHANGED call
  PROVE  Follows /\ WindowInv'
  <1>1. /\ window \in Window /\ window.open
        /\ held \subseteq window.ever /\ window.always \subseteq held
        /\ accounts \subseteq window.seen
    BY DEF ProviderTypeOK, WindowInv
  <1>2. /\ accounts' = newAccounts /\ held' = newHeld
        /\ window' = [open |-> TRUE, ever |-> window.ever \cup newHeld,
                      always |-> window.always \cap newHeld,
                      ended |-> window.ended \/ ~(held \subseteq newHeld),
                      seen |-> window.seen \cup newAccounts]
    BY <1>1 DEF Set
  <1>3. Follows
    BY <1>1, <1>2 DEF Follows, Window, Possible
  <1>4. WindowInv'
    BY <1>1, <1>2 DEF WindowInv, Possible
  <1> QED
    BY <1>3, <1>4

\* The invariant of every connector survives it.
LEMMA MidFollows ==
  ASSUME CallTypeOK, WindowInv, MidInv(call), call.pc \in Steps,
         Follows, UNCHANGED <<call, connector>>
  PROVE  MidInv(call)'
  <1> USE SameConnector
  <1>1. window.always \subseteq held /\ call.cursor \in Nat
    BY DEF WindowInv, CallTypeOK, Call
  <1>2. ASSUME NEW S, NEW P \in SUBSET Groups, Paged(call, S, P)
        PROVE  /\ S \subseteq window'.ever
               /\ ~window'.ended => \A g \in window'.always \cap P :
                     Position(g)' <= call.cursor => g \in S
    <2>1. ASSUME ~window'.ended, NEW g \in window'.always \cap P, Position(g)' <= call.cursor
          PROVE  g \in S
      <3>1. g \in Listed /\ held \subseteq held' /\ ~window.ended /\ g \in window.always
        BY <1>1, <2>1 DEF Listed, Follows
      <3>2. Position(g) <= Position(g)' /\ Position(g)' \in Nat
        BY <3>1, PositionGrows
      <3>3. Position(g) \in Nat
        BY <3>1, PositionBounds
      <3>4. Position(g) <= call.cursor
        BY <1>1, <2>1, <3>2, <3>3, SMT
      <3> QED
        BY <1>2, <3>1, <3>4 DEF Paged
    <2> QED
      BY <1>2, <2>1 DEF Paged, Follows
  <1>3. connector.type \in OAuthTypes => OAuthInv(call)'
    BY DEF MidInv, OAuthInv, Seen, Follows
  <1>4. connector.type = "github" => GitHubInv(call)'
    <2> SUFFICES ASSUME GitHubInv(call) PROVE GitHubInv(call)'
      BY DEF MidInv
    <2>1. TeamOrg(call)' = TeamOrg(call)
      BY DEF TeamOrg
    <2>2. ASSUME OrgsDone(call, call.org - 1) PROVE OrgsDone(call, call.org - 1)'
      BY <2>2 DEF OrgsDone, LetThrough, Follows
    <2>3. ASSUME Paged(call, call.teams, TeamsOf(TeamOrg(call)))
          PROVE  Paged(call, call.teams, TeamsOf(TeamOrg(call)))'
      <3>1. TeamsOf(TeamOrg(call)) \in SUBSET Groups
        BY DEF TeamsOf
      <3>2. TeamsOf(TeamOrg(call))' = TeamsOf(TeamOrg(call))
        BY <2>1 DEF TeamsOf
      <3> QED
        BY <1>2, <2>3, <3>1, <3>2 DEF Paged
    <2>4. TeamOrg(call) \in window.ever => TeamOrg(call)' \in window'.ever
      BY <2>1 DEF Follows
    <2> QED
      BY <2>1, <2>2, <2>3, <2>4 DEF GitHubInv, GitHubGroupsRequired
  <1>5. connector.type = "gitlab" => GitLabInv(call)'
    <2>1. ASSUME Paged(call, call.identity.Groups, Groups)
          PROVE  Paged(call, call.identity.Groups, Groups)'
      BY <1>2, <2>1 DEF Paged
    <2> QED
      BY <2>1 DEF MidInv, GitLabInv
  <1>6. connector.type = "microsoft" => MicrosoftInv(call)'
    BY DEF MidInv, MicrosoftInv, Linked, Follows
  <1>7. connector.type = "linkedin" => LinkedInInv(call)'
    BY DEF MidInv, LinkedInInv
  <1>8. connector.type = "oidc" => OIDCInv(call)'
    BY DEF MidInv, OIDCInv, Admitted, Follows
  <1>9. connector.type = "ldap" => LDAPInv(call)'
    BY DEF MidInv, LDAPInv, Lasting, Vouched, Follows
  <1>10. connector.type = "passwordDB" => PasswordInv(call)'
    BY DEF MidInv, PasswordInv
  <1> QED
    BY <1>3, <1>4, <1>5, <1>6, <1>7, <1>8, <1>9, <1>10, SMT DEF MidInv, Steps

-----------------------------------------------------------------------------
(* The steps of a login.                                                   *)

\* Changes at the provider, during a call or between two.
LEMMA StepOfChange ==
  ASSUME AudienceInv', CInv, Change
  PROVE  CInv'
  <1> USE DEF samlVars, authorizationVars, loginVars, callVars
  <1>1. ProviderTypeOK /\ CallTypeOK /\ WindowInv /\ MidInv(call)
    BY DEF CInv, TypeOK
  <1>2. PICK newAccounts, newHeld :
           Possible(newAccounts, newHeld) /\ Set(newAccounts, newHeld) /\ Count
    BY <1>1, ChangeIsPossible
  <1>3. UNCHANGED <<call, connector, claims, stage, requests, token, check, request>>
    BY DEF Change
  <1>4. changes' \in 0 .. MaxChanges
    BY <1>1, <1>2, ProviderAssumption, SMT DEF ProviderTypeOK, Count
  <1>5. ProviderTypeOK' /\ WindowInv' /\ MidInv(call)'
    <2>1. CASE call.pc \in Steps
      <3>1. Follows /\ WindowInv'
        BY <1>1, <1>2, <1>3, <2>1, WindowFollows
      <3>2. MidInv(call)'
        BY <1>1, <1>3, <2>1, <3>1, MidFollows
      <3> QED
        BY <1>2, <1>4, <3>1, <3>2 DEF ProviderTypeOK, Set, Possible, Follows
    <2>2. CASE call.pc = "idle"
      <3>1. MidInv(call)'
        BY <1>3, <2>2 DEF MidInv, Steps
      <3>2. WindowInv'
        BY <1>2, <1>3, <2>2 DEF WindowInv, Set, Possible, Steps
      <3>3. ProviderTypeOK'
        BY <1>1, <1>2, <1>4 DEF ProviderTypeOK, Set, Possible, Window
      <3> QED
        BY <3>1, <3>2, <3>3
    <2> QED
      BY <2>1, <2>2 DEF Change, Idle
  <1>6. CallTypeOK' /\ SAMLTypeOK' /\ AuthorizationTypeOK'
    BY <1>1, <1>3 DEF Change, CInv, TypeOK, SAMLTypeOK, CallTypeOK, AudienceInv
  <1>7. TypeOK'
    BY <1>3, <1>5, <1>6 DEF CInv, TypeOK
  <1>8. FlowInv'
    BY <1>3, SameConnector DEF CInv, FlowInv
  <1>9. ClaimsInv' /\ TokenInv'
    BY <1>3, ClaimsSame, TokenSame DEF CInv
  <1> QED
    BY <1>5, <1>7, <1>8, <1>9 DEF CInv

\* The connectors' actions are steps of a call in progress.
LEMMA ConnectorsAct ==
  ASSUME GitHub \/ OAuth2 \/ LDAP \/ PasswordConnector \/ Denied \/ RequestFails
  PROVE  call.pc \in Steps
  <1> USE DEF Steps, At, Ask
  <1>1. CASE GitHub
    BY <1>1
    DEF GitHub, GitHubExchange, GitHubUser, userEmail, userInOrg, teamsForOrg, Exchange,
                ReadProfile
  <1>2. CASE OAuth2
    BY <1>2
    DEF OAuth2, OAuth2Exchange, GitLabUser, MicrosoftUser, LinkedInProfile, OIDCExchange,
                AuthProxy, GitLabGroups, getGroupIDs, getGroupNames, OIDCVerify, Exchange,
                ReadProfile
  <1>3. CASE LDAP
    BY <1>3 DEF LDAP, LDAPEmptyPassword, userEntry, LDAPBind, LDAPGroups
  <1>4. CASE PasswordConnector
    BY <1>4 DEF PasswordConnector, PasswordLogin, PasswordRefresh
  <1>5. CASE Denied \/ RequestFails
    BY <1>5 DEF Denied, RequestFails
  <1> QED
    BY <1>1, <1>2, <1>3, <1>4, <1>5

\* Every step keeps the invariant.
LEMMA ConnectorsStep ==
  ASSUME AudienceInv, CInv, [Next]_vars
  PROVE  CInv'
  <1>1. AudienceInv'
    BY AudienceStep
  <1>2. ASSUME GitHub \/ OAuth2 \/ LDAP \/ PasswordConnector \/ Denied \/ RequestFails,
               UNCHANGED <<samlVars, authorizationVars, loginVars>>
        PROVE  CInv'
    <2>1. call.pc \in Steps
      BY <1>2, ConnectorsAct
    <2>2. Ready
      BY <2>1 DEF Ready, CInv, TypeOK
    <2>3. PICK c : Become(c) /\ Goes(c)
      BY <1>2, <2>2, ConnectorGoes
    <2> QED
      BY <1>1, <1>2, <2>1, <2>3, StepOfConnector
  <1>3. CASE ConnectorStep
    BY <1>1, <1>2, <1>3, StepOfPOST DEF ConnectorStep
  <1>4. CASE Fault
    BY <1>1, <1>2, <1>4, StepOfEndCheck DEF Fault
  <1>5. CASE Untrusted
    BY <1>1, <1>5, StepOfEndCheck DEF Untrusted
  <1>6. CASE IssueToken \/ RenewToken
    BY <1>1, <1>6, StepOfIssue, StepOfRenew
  <1>7. CASE Leaves \/ CallFailed \/ FinalizeLogin
    BY <1>1, <1>7, StepOfEnd
  <1>8. CASE BeginLogin \/ HandleRefreshToken
    BY <1>1, <1>8, StepOfBegin
  <1>9. CASE Change
    BY <1>1, <1>9, StepOfChange
  <1>10. CASE \/ \E r \in Asked : HandleAuthorization(r)
              \/ CheckScope \/ EndAuthorization \/ SendCodeResponse \/ HandleAuthCode
              \/ Refreshed \/ Provider \/ ChangeClients
              \/ Tick /\ UNCHANGED <<authorizationVars, loginVars>>
              \/ UNCHANGED vars
    BY <1>1, <1>10, StepOfHandler
  <1> QED
    BY <1>3, <1>4, <1>5, <1>6, <1>7, <1>8, <1>9, <1>10 DEF Next, Handle

-----------------------------------------------------------------------------
(* The theorems.                                                           *)

\* The invariant holds throughout.
THEOREM ConnectorsInvariant == Spec => []CInv
  <1>1. Init => AudienceInv /\ CInv
    BY AudienceInit, ConnectorsInit
  <1>2. AudienceInv /\ CInv /\ [Next]_vars => (AudienceInv /\ CInv)'
    BY AudienceStep, ConnectorsStep
  <1> QED
    BY <1>1, <1>2, PTL DEF Spec

\* The provider, the call, the check, the claims and the token have their types:
\* in particular a token always has an account, and no call or response of SAML
\* counts beyond the requests there were.
THEOREM LoginTypeCorrect == Spec => []TypeOK
  <1>1. CInv => TypeOK
    BY DEF CInv
  <1> QED
    BY <1>1, ConnectorsInvariant, PTL

\* A token names groups that the user was in during the connector call that it
\* comes from, and all those on offer that they were in throughout, for any number
\* of pages, organizations and changes (the loops of teamsForOrg, getGroups,
\* getGroupIDs and getGroupNames, and the attributes of LDAP and SAML).
THEOREM GroupsAreAsHeld == Spec => []GroupsAsHeld
  <1>1. CInv => GroupsAsHeld
    BY DEF CInv, TokenInv
  <1> QED
    BY <1>1, ConnectorsInvariant, PTL

\* A configuration that requires a membership, but not by github's legacy org, is
\* enforced for every token, at login and at refresh (getGroups of github and
\* microsoft; hostedDomains of oidc, at login).
THEOREM MembershipIsEnforced == Spec => []MembershipEnforced
  <1>1. CInv => MembershipEnforced
    BY DEF CInv, TokenInv
  <1> QED
    BY <1>1, ConnectorsInvariant, PTL

\* A token speaks of one user, the one who logged in and who existed during the
\* connector call that it comes from, whatever accounts come and go.
THEOREM TokensHaveOneAccount == Spec => []OneAccount
  <1>1. CInv => OneAccount
    BY DEF CInv, TokenInv
  <1> QED
    BY <1>1, ConnectorsInvariant, PTL

=============================================================================
