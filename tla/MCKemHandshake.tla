--------------------------- MODULE MCKemHandshake ----------------------------
(* Profiles and model values for TLC.  Runs are interchangeable.            *)
EXTENDS KemHandshake, TLC

Symmetry == Permutations(Servers) \union Permutations(Clients)

ServerDefault ==
    [identity |-> "server", trusted |-> "client", version |-> 1,
     suite |-> "ML-KEM-768/ML-DSA-44", group |-> "GOOSE_GROUP_1",
     authorised |-> {"goose-encryption-endpoint"}, revoked |-> {}, keyVersion |-> 2]

ClientDefault ==
    [identity |-> "client", trusted |-> "server", version |-> 1,
     suite |-> "ML-KEM-768/ML-DSA-44", group |-> "GOOSE_GROUP_1",
     member |-> "goose-encryption-endpoint"]

\* As in the repository, and with the key version raised for a rekey.
RekeyServerProfiles == {ServerDefault, [ServerDefault EXCEPT !.keyVersion = 3]}
RekeyClientProfiles == {ClientDefault}

\* A server with a raised key version that serves the member, one of another group and
\* one that has revoked the member; a client that trusts the server and one that does not.
MixedServerProfiles ==
    {[ServerDefault EXCEPT !.keyVersion = 3],
     [ServerDefault EXCEPT !.group = "other"],
     [ServerDefault EXCEPT !.revoked = {"goose-encryption-endpoint"}]}
MixedClientProfiles == {ClientDefault, [ClientDefault EXCEPT !.trusted = "other"]}
==============================================================================
