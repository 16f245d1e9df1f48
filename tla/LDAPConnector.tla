----------------------------- MODULE LDAPConnector -----------------------------
(***************************************************************************)
(* The LDAP connector (connector/ldap/ldap.go): a search for the user's    *)
(* entry, a bind with its DN and the user's password, and one search for   *)
(* groups per value of the entry's userAttr, each on a connection of its   *)
(* own.                                                                    *)
(***************************************************************************)
EXTENDS ConnectorCalls

CONSTANTS
    Values,     \* how many values of userAttr an entry has
    AttrOf      \* the value by which each group refers to the user

ASSUME LDAPAssumption == Values \in Nat /\ AttrOf \in [Groups -> 1 .. Values]

\* identityFromEntry, and whether groups are asked for.
FromEntry(a) ==
    [call EXCEPT
        !.pc = IF call.groupScope /\ connector.groupSearch /\ Values > 0
               THEN "groups" ELSE "done",
        !.identity = [UserID |-> a.id, Username |-> a.id, Groups |-> {},
                      ConnectorData |-> a.dn]]

\* Login with an empty password.
LDAPEmptyPassword == At("ldap", "search") /\ call.kind = "login" /\ Become(Refused)

\* Mutant: a refresh takes whatever entry has the user's name.
userEntryAnyDN ==
    /\ At("ldap", "search")
    /\ \/ accounts = {} /\ Become(IF call.kind = "login" THEN Refused ELSE Failed)
       \/ Cardinality(accounts) > 1 /\ Become(Failed)
       \/ \E a \in accounts :
             /\ accounts = {a}
             /\ Become(IF call.kind = "login" THEN [call EXCEPT !.pc = "bind", !.account = a]
                       ELSE FromEntry(a))

\* userEntry, in Login and in Refresh.
userEntry ==
    /\ At("ldap", "search")
    /\ \/ accounts = {} /\ Become(IF call.kind = "login" THEN Refused ELSE Failed)
       \/ Cardinality(accounts) > 1 /\ Become(Failed)
       \/ \E a \in accounts :
             /\ accounts = {a}
             /\ Become(CASE call.kind = "login" -> [call EXCEPT !.pc = "bind", !.account = a]
                         [] call.kind = "refresh" /\ a.dn = call.identity.ConnectorData ->
                               FromEntry(a)
                         [] OTHER -> Failed)

\* Bind with the DN that was found and the password of the form: the password
\* may be wrong, and the entry may be another one by now, or gone.
LDAPBind ==
    /\ At("ldap", "bind")
    /\ \/ \E a \in accounts : a.dn = call.account.dn /\ Become(FromEntry(call.account))
       \/ Become(Refused)

\* The search for the groups that refer to the next value of userAttr.
LDAPGroups ==
    LET c == [call EXCEPT !.cursor = @ + 1,
                          !.identity.Groups = @ \cup {g \in Listed : AttrOf[g] = call.cursor + 1}]
    IN  /\ At("ldap", "groups")
        /\ Become([c EXCEPT !.pc = IF c.cursor < Values THEN @ ELSE "done"])

LDAP == LDAPEmptyPassword \/ userEntry \/ LDAPBind \/ LDAPGroups

=============================================================================
