--------------------------- MODULE MCClusterViews ---------------------------
(* ClusterViews for TLC.                                                   *)
EXTENDS ClusterViews

Fine(l, kind) == [cp |-> TRUE, infra |-> TRUE, err |-> FALSE, label |-> l, kind |-> kind]
Of(k, b) == [of |-> k, node |-> b, ready |-> b]

\* No filter, one on names and label values, one on labels alone.
MCSearches == {NoSearch, [NoSearch EXCEPT !.in = {"team"}], [NoSearch EXCEPT !.selector = "red"]}

\* The same name in two namespaces, each with a machine; and two clusters of one
\* namespace with the same label value, next to a cluster of that name.
MCStarts ==
    {[clusters |-> [k \in Keys |-> IF k[2] = "red" THEN Fine("none", "AWSCluster") ELSE NoCluster],
      machines |-> [m1 |-> Of(<<"n1", "red">>, TRUE), m2 |-> Of(<<"n2", "red">>, FALSE)]],
     [clusters |-> [k \in Keys |-> IF k[1] = "n1" THEN Fine("team", "AWSManagedCluster")
                                   ELSE Fine("red", "AWSCluster")],
      machines |-> [m1 |-> Of(<<"n1", "red">>, TRUE), m2 |-> NoMachine]]}

\* A cluster of that name, and one other cluster that has the name as a label value.
MCOneMatch ==
    {[clusters |-> [k \in Keys |-> CASE k = <<"n1", "red">> -> Fine("none", "AWSCluster")
                                     [] k = <<"n1", "blue">> -> Fine("red", "AWSCluster")
                                     [] OTHER -> NoCluster],
      machines |-> [m1 |-> NoMachine, m2 |-> NoMachine]]}
=============================================================================
