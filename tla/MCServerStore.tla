------------------------------ MODULE MCServerStore ------------------------------
(***************************************************************************)
(* The engine under a program that rebuilds first and uses one thread, under    *)
(* one that rebuilds beside its writes and a pool, and under the server with    *)
(* either, as its --workers flag says at each start.                          *)
(***************************************************************************)
EXTENDS ServerStore

Mode(workers, late, kinds, served) ==
  [workers |-> workers, late |-> late, kinds |-> kinds, served |-> served]

MCModes ==
  {Mode(1, FALSE, {"put", "opaque", "delete"}, FALSE),
   Mode(2, TRUE, {"put"}, FALSE),
   Mode(1, FALSE, {}, TRUE), Mode(2, FALSE, {}, TRUE)}

(* Two loads share a subject and disagree about its value.                    *)
MCBatches ==
  {<<[sid |-> 1, kind |-> "put"]>>,
   <<[sid |-> 1, kind |-> "opaque"], [sid |-> 2, kind |-> "put"]>>}

=============================================================================
