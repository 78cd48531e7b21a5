------------------------------ MODULE MCGovernance ------------------------------
(***************************************************************************)
(* Two callers act for one agent.  It may write public and secret grains but  *)
(* not private ones; it may read public ones, sees private ones masked, and   *)
(* secret ones are closed to it although a broader rule allows reads.  A value  *)
(* without a header may be written as of no category, whatever it begins with.  *)
(***************************************************************************)
EXTENDS Governance

CONSTANTS c1, c2, a1

MCAgentOf == (c1 :> a1) @@ (c2 :> a1)

Rule(act, eff, on) == [agent |-> a1, action |-> act, effect |-> eff, on |-> on]

MCRules ==
  << Rule("read", "allow", "any"),
     Rule("read", "mask", "private"),
     Rule("read", "deny", "secret"),
     Rule("write", "allow", "any"),
     Rule("write", "deny", "private") >>

Value(cat, bytes, headed) == [cat |-> cat, bytes |-> bytes, headed |-> headed]

MCValues ==
  { Value("public", 16, TRUE), Value("private", 40, TRUE), Value("private", 40, FALSE),
    Value("secret", 40, TRUE) }

MCPublicValues == { Value("public", 16, TRUE) }

CallerSymmetry == Permutations(Callers)

=============================================================================
