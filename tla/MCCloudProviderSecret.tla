----------------------- MODULE MCCloudProviderSecret -----------------------
(***************************************************************************)
(* An instance of module CloudProviderSecret for TLC: complete, incomplete *)
(* and labelled secrets, and profiles in which the region is missing,      *)
(* given twice or given after another one.                                 *)
(***************************************************************************)
EXTENDS CloudProviderSecret

CONSTANTS NilValue, MalformedValue, TokenPath     \* model values

MCRegions == {"home", "away"}
MCServers == {"s1", "s2"}

UserSecret(labelled, token, namespace, username) ==
    [workloadIdentity |-> labelled, token |-> token, namespace |-> namespace, username |-> username]

MCCredentials ==
    {UserSecret(FALSE, "t1", "ns", "u"), UserSecret(FALSE, "t2", "ns", "u"),
     UserSecret(FALSE, "t1", "NS", "u"), UserSecret(FALSE, "t1", "ns", NilValue),
     UserSecret(FALSE, NilValue, "ns", "u"),
     UserSecret(TRUE, "t1", NilValue, "u"), UserSecret(FALSE, "t1", NilValue, "u")}

Entry(name, server) == [name |-> name, server |-> server]
MCProfiles ==
    {<<Entry("home", "s1")>>, <<Entry("away", "s1"), Entry("home", "s2"), Entry("home", "s1")>>,
     <<Entry("away", "s1")>>, NilValue, MalformedValue}

=============================================================================
