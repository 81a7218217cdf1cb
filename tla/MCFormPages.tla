---- MODULE MCFormPages ----
(* Instances of FormPages for TLC: two releases of a registry, the settings  *)
(* they are deployed with, and symmetry.                                     *)
EXTENDS FormPages, TLC

CONSTANTS f1, f2, f3

File(ids) == [json |-> "object", forms |-> "list",
              entries |-> [i \in DOMAIN ids |-> [id |-> ids[i], rest_valid |-> TRUE]]]

\* The second release keeps a form, drops one and adds one.
TwoReleases == { << File(<<f1, f2>>), File(<<f3, f1>>) >> }

\* The second release has any file at all.
AnySecondRelease ==
    { << File(<<f1, f2>>), file, File(<<f1>>) >> : file \in RegistryFiles(3) }

InAzure == [v \in 1 .. Versions |-> [storage_mode |-> "azure", connection_string |-> TRUE]]

\* The third release is deployed without its connection string.
ConnectionLost == [InAzure EXCEPT ![3].connection_string = FALSE]

\* The first release was deployed without setting PARTIKKEL_STORAGE_MODE.
FromLocalToAzure == [InAzure EXCEPT ![1].storage_mode = "local"]

Symmetry == Permutations(Processes) \cup Permutations(Threads)
====
