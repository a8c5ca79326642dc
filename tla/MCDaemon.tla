------------------------------ MODULE MCDaemon ------------------------------
(***************************************************************************)
(* The calls a compile, a link and an assembly make, against daemons older *)
(* and newer than the client, with and without its two features.           *)
(***************************************************************************)
EXTENDS DaemonClient

Drv == [op |-> "derivation", name |-> "tu.drv", refs |-> <<"bash", "tree">>, size |-> 3]
Tree == [op |-> "directory", name |-> "tree", refs |-> <<>>, size |-> 8]
Empty == [op |-> "scan", name |-> "captured", refs |-> <<>>, size |-> 0]
Output == [op |-> "submit", name |-> "bin.drv", refs |-> <<>>, size |-> 0]

AllRequests == {Drv, Tree, Empty, Output}
StorePathOf(r) == IF r.op = "submit" THEN "none" ELSE r.name

Versions == {protoMajor * 256 + n : n \in {37, 38, 40}} \cup {2 * 256}
FeatureSets == {{}, {Scanning, "other"}, {Scanning, Submitting}}
=============================================================================
