-------------------------- MODULE MCTokenEndpoint --------------------------
(* Instances of TokenEndpoint: requests are numbered, and each run says by  *)
(* the sets of requests it declares which of them there are.               *)
EXTENDS TokenEndpoint

CONSTANTS a, b, k1, k2, k3

\* Exchange 1 and 2 redeem two logins at client a, 3 presents the second
\* one's code again, 4 is a login at client b.
MCCode == [e \in Exchanges |-> CASE e = 1 -> k1 [] e \in {2, 3} -> k2 [] OTHER -> k3]

\* Request 4 and request 14 are made by client b, all others by client a.
MCClient == [r \in Exchanges \cup Refreshes \cup Revocations |->
                IF r \in {4, 14} THEN b ELSE a]

\* Two clients, retries and a revocation on an optimistic storage; and logins
\* that follow one another at one client, with a retry, a refresh and a
\* revocation, on a serial one.
MCScenarios == {[made |-> {2, 3, 4, 11, 12, 21}, serial |-> FALSE],
                [made |-> {1, 2, 3, 11, 21}, serial |-> TRUE]}

\* Two logins at one client, one at the other, and a revocation.
LoginScenarios == {[made |-> {1, 2, 4, 21}, serial |-> FALSE]}

=============================================================================
