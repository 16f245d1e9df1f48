------------------------------- MODULE MCLogin -------------------------------
(* Login for TLC.                                                          *)
EXTENDS Login, TLC

Conf(type) == [type |-> type, orgs |-> <<>>, org |-> None, groups |-> {},
               orgTenant |-> FALSE, hostedDomains |-> {}, groupSearch |-> FALSE]

MCOrgOf == "a1" :> "A" @@ "a2" :> "A" @@ "b1" :> "B"
MCRank == "a1" :> 1 @@ "b1" :> 2 @@ "a2" :> 3
MCAttrOf == "a1" :> 1 @@ "a2" :> 2 @@ "b1" :> 2

\* Each connector with the options that make a difference.
MCConnectors ==
    {[Conf("github") EXCEPT !.orgs = <<[name |-> "A", teams |-> {"a2"}],
                                       [name |-> "B", teams |-> {}]>>],
     [Conf("github") EXCEPT !.org = "A"],
     Conf("gitlab"),
     [Conf("microsoft") EXCEPT !.groups = {"b1"}, !.orgTenant = TRUE],
     Conf("linkedin"),
     [Conf("oidc") EXCEPT !.hostedDomains = {"A"}],
     [Conf("ldap") EXCEPT !.groupSearch = TRUE],
     [Conf("saml") EXCEPT !.groupSearch = TRUE],
     Conf("passwordDB"),
     Conf("authproxy")}

\* Only github's legacy org.
MCLegacyOrg == {[Conf("github") EXCEPT !.org = "A"]}

Ask1 == [client |-> "c1", redirectURI |-> "registered",
         scopes |-> {"openid", "groups", "offline_access"}, peers |-> {"c2"},
         types |-> {"code"}, nonce |-> FALSE]

\* The code flow, the hybrid flow, and an implicit flow of a public client, which is refused
\* for want of a nonce.
MCAsked ==
    {Ask1,
     [Ask1 EXCEPT !.types = {"code", "id_token"}],
     [Ask1 EXCEPT !.client = "c2", !.redirectURI = "oob", !.types = {"id_token"}, !.peers = {}]}

\* The usual response; it may be signed otherwise, or by a clock that is off, or leave out
\* what is optional.
Usual == [signed |-> "response", answers |-> TRUE, success |-> TRUE, skew |-> 0,
          confirmed |-> {[answers |-> TRUE, limits |-> "end"]},
          conditioned |-> {[limits |-> "both", audiences |-> {TRUE}]}]

MCForms ==
    {[Usual EXCEPT !.signed = signed, !.skew = skew] :
        signed \in {"response", "assertion", "none"}, skew \in -1 .. 1} \cup
    {[Usual EXCEPT !.signed = signed, !.answers = answers, !.success = success] :
        signed \in {"response", "assertion"}, answers \in BOOLEAN, success \in BOOLEAN} \cup
    {[Usual EXCEPT !.confirmed = confirmed, !.conditioned = conditioned] :
        confirmed \in {{[answers |-> TRUE, limits |-> "end"]},
                       {[answers |-> FALSE, limits |-> "none"]},
                       {[answers |-> TRUE, limits |-> "none"], [answers |-> FALSE, limits |-> "end"]}},
        conditioned \in {{}} \cup {{c} : c \in
            [limits : {"both", "none"}, audiences : {{}, {TRUE}, {TRUE, FALSE}}]}}

MCAccounts == {[id |-> "u1", dn |-> "d1"]}
MCHeld == {{}, {"A", "a1"}, {"A", "B", "a1", "a2", "b1"}}
MCPeerSets == {{}, {"c1"}}
MCClients == [c \in Clients |-> [exists |-> TRUE, trustedPeers |-> IF c = "c2" THEN {"c1"} ELSE {}]]

=============================================================================
