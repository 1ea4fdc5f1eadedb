---------------------------- MODULE MCRpcObjects ----------------------------
(***************************************************************************)
(* RpcObjects on small instances. The RpcProxy instances of the importer   *)
(* are interchangeable, and so are the objects that share a cluster entry. *)
(***************************************************************************)
EXTENDS RpcObjects, TLC

\* One cluster entry that all clustered objects carry.
OneEntry == [o \in Clustered |-> CHOOSE i \in StableIds : TRUE]

Symmetric == {p @@ q : p \in Permutations(Proxies), q \in Permutations(Clustered)}
=============================================================================
