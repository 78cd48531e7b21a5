----------------------------- MODULE MCMaterializer -----------------------------
(***************************************************************************)
(* Small instances of Materializer: two subjects, a pool of two workers, one   *)
(* or two openings of the store.                                            *)
(***************************************************************************)
EXTENDS Materializer

Pool(kinds) == [workers |-> 2, late |-> FALSE, kinds |-> kinds, served |-> FALSE]

PoolOfAnyWrites == {Pool({"put", "opaque", "delete"})}
PoolOfPuts == {Pool({"put"})}

=============================================================================
