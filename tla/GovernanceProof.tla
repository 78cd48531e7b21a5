------------------------------ MODULE GovernanceProof ------------------------------
(***************************************************************************)
(* The audit log, the truth and the budgets of GovernedEngine, for any rules, *)
(* agents, callers and grains: nothing is written that the policy forbids by its *)
(* header or that was not logged first, nothing is shown that it hides, and the  *)
(* log accounts for every token queries spend and for every number.            *)
(***************************************************************************)
EXTENDS Governance, Induction, SequenceTheorems

(* The fields of a call that a decision is about. *)
IsCall(r) == {"at", "op", "sid", "joined", "decision"} \subseteq DOMAIN r

(* A write of an agent to subject s is in the audit log. *)
Logged(agent, s) ==
  \E i \in DOMAIN audit :
    audit[i].action = "write" /\ audit[i].sid = s /\ audit[i].agent = agent

(* Once decided, a write carries the decision for the very value it will write;  *)
(* when it is about to commit it was allowed and logged.                       *)
CallIsDecided(c) ==
  LET r == call[c]
  IN  /\ IsCall(r)
      /\ r.at = "join" => r.op = "query"
      /\ r.at # "idle" /\ r.op = "write" =>
           r.decision = Authorize(AgentOf[c], "write", HeaderCategory(Head(r.joined)))
      /\ r.at = "commit" =>
           r.op = "write" /\ r.decision # "deny" /\ Logged(AgentOf[c], r.sid)

DecidedInv ==
  /\ truth = [s \in Sids |-> truth[s]]
  /\ call = [c \in Callers |-> call[c]]
  /\ \E S : audit \in Seq(S)
  /\ \A c \in Callers : CallIsDecided(c)

(* A write is allowed or denied, never masked. *)
LEMMA WriteIsAllowedOrDenied ==
  ASSUME NEW agent, NEW cat
  PROVE  Authorize(agent, "write", cat) \in {"allow", "deny"}
  BY DEF Authorize

(* The audit log only grows, and at its end. *)
LEMMA LogGrows ==
  ASSUME NEW log, NEW e, \E S : log \in Seq(S)
  PROVE  /\ \E S : Append(log, e) \in Seq(S)
         /\ \A i \in DOMAIN log : i \in DOMAIN Append(log, e) /\ Append(log, e)[i] = log[i]
         /\ \E i \in DOMAIN Append(log, e) : Append(log, e)[i] = e
<1>1. PICK S : log \in Seq(S)
  OBVIOUS
<1> DEFINE T == S \union {e}
<1>2. log \in Seq(T) /\ e \in T
  BY <1>1, SeqDef
<1> HIDE DEF T
<1>3. /\ Append(log, e) \in Seq(T) /\ Len(Append(log, e)) = Len(log) + 1
      /\ \A i \in 1 .. Len(log) : Append(log, e)[i] = log[i]
      /\ Append(log, e)[Len(log) + 1] = e
  BY <1>2, AppendProperties
<1>4. /\ DOMAIN log = 1 .. Len(log) /\ DOMAIN Append(log, e) = 1 .. Len(log) + 1
      /\ Len(log) \in Nat
  BY <1>2, <1>3, LenProperties
<1>5. QED
  BY <1>3, <1>4

(* A call that changes one caller keeps the others decided. *)
LEMMA OthersStayDecided ==
  ASSUME DecidedInv, NEW c \in Callers, NEW r, call' = [call EXCEPT ![c] = r],
         truth' = [s \in Sids |-> truth'[s]], \E S : audit' \in Seq(S),
         \A i \in DOMAIN audit : i \in DOMAIN audit' /\ audit'[i] = audit[i],
         IsCall(r), r.at = "join" => r.op = "query",
         r.at # "idle" /\ r.op = "write" =>
           r.decision = Authorize(AgentOf[c], "write", HeaderCategory(Head(r.joined))),
         r.at = "commit" =>
           /\ r.op = "write" /\ r.decision # "deny"
           /\ \E i \in DOMAIN audit' : /\ audit'[i].action = "write"
                                       /\ audit'[i].sid = r.sid
                                       /\ audit'[i].agent = AgentOf[c]
  PROVE  DecidedInv'
<1>1. call' = [d \in Callers |-> call'[d]] /\ call'[c] = r
      /\ \A d \in Callers : d # c => call'[d] = call[d]
  BY DEF DecidedInv
<1>2. CallIsDecided(c)'
  BY <1>1 DEF CallIsDecided, Logged
<1>3. ASSUME NEW d \in Callers, d # c PROVE CallIsDecided(d)'
  <2>1. call'[d] = call[d] /\ CallIsDecided(d)
    BY <1>1, <1>3 DEF DecidedInv
  <2>2. Logged(AgentOf[d], call[d].sid) => Logged(AgentOf[d], call[d].sid)'
    BY <2>1 DEF Logged
  <2>3. QED
    BY <2>1, <2>2 DEF CallIsDecided
<1>4. \A d \in Callers : CallIsDecided(d)'
  BY <1>2, <1>3
<1>5. QED
  BY <1>1, <1>4 DEF DecidedInv

(* A step of a caller that logs nothing and writes nothing. *)
LEMMA CallGoesOn ==
  ASSUME DecidedInv, NEW c \in Callers, NEW r, call' = [call EXCEPT ![c] = r],
         UNCHANGED <<truth, audit>>, IsCall(r), r.at \in {"idle", "join", "seq", "push"},
         r.at = "join" => r.op = "query",
         r.at # "idle" /\ r.op = "write" =>
           r.decision = Authorize(AgentOf[c], "write", HeaderCategory(Head(r.joined)))
  PROVE  DecidedInv'
<1>1. truth' = [s \in Sids |-> truth'[s]] /\ \E S : audit' \in Seq(S)
  BY DEF DecidedInv
<1>2. \A i \in DOMAIN audit : i \in DOMAIN audit' /\ audit'[i] = audit[i]
  OBVIOUS
<1>3. r.at # "commit"
  OBVIOUS
<1>4. QED
  BY <1>1, <1>2, <1>3, OthersStayDecided

(* Every step of a caller leaves all calls decided. *)
LEMMA DecidedStep ==
  ASSUME DecidedInv, [Next]_vars
  PROVE  DecidedInv'
<1>1. CASE UNCHANGED <<truth, audit, call>>
  BY <1>1 DEF DecidedInv, CallIsDecided, Logged
<1>2. IsCall(Idle) /\ Idle.at = "idle"
  BY DEF IsCall, Idle
<1>3. ASSUME NEW c \in Callers, PutVector(c) PROVE DecidedInv'
  <2>1. PICK s \in Sids, v \in Values :
          call' = [call EXCEPT ![c] =
                  [Idle EXCEPT !.at = "seq", !.op = "write", !.sid = s, !.joined = <<v>>,
                               !.decision =
                                 Authorize(AgentOf[c], "write", HeaderCategory(v))]]
    BY <1>3 DEF PutVector
  <2> DEFINE r == [Idle EXCEPT !.at = "seq", !.op = "write", !.sid = s, !.joined = <<v>>,
                               !.decision =
                                 Authorize(AgentOf[c], "write", HeaderCategory(v))]
  <2>2. /\ IsCall(r) /\ r.at = "seq"
        /\ r.decision = Authorize(AgentOf[c], "write", HeaderCategory(v))
        /\ r.joined = <<v>>
    BY DEF IsCall, Idle
  <2>3. Head(<<v>>) = v
    OBVIOUS
  <2>4. UNCHANGED <<truth, audit>> /\ call' = [call EXCEPT ![c] = r]
    BY <1>3, <2>1 DEF PutVector
  <2> HIDE DEF r
  <2>5. QED
    BY <2>2, <2>3, <2>4, CallGoesOn
<1>4. ASSUME NEW c \in Callers, Get(c) PROVE DecidedInv'
  <2>1. PICK s \in Sids :
          IF truth[s] = Absent THEN UNCHANGED call
          ELSE LET out == Disclose(AgentOf[c], <<truth[s]>>)
               IN  call' = [call EXCEPT ![c] =
                  [Idle EXCEPT !.at = "seq", !.op = "get", !.sid = s, !.out = out,
                               !.decision = Authorize(AgentOf[c], "read", truth[s].cat),
                               !.tokens = CostOf(out)]]
    BY <1>4 DEF Get
  <2> DEFINE out == Disclose(AgentOf[c], <<truth[s]>>)
             r == [Idle EXCEPT !.at = "seq", !.op = "get", !.sid = s, !.out = out,
                               !.decision = Authorize(AgentOf[c], "read", truth[s].cat),
                               !.tokens = CostOf(out)]
  <2>2. UNCHANGED <<truth, audit>> /\ (UNCHANGED call \/ call' = [call EXCEPT ![c] = r])
    BY <1>4, <2>1 DEF Get
  <2> HIDE DEF out
  <2>3. IsCall(r) /\ r.at = "seq" /\ r.op = "get"
    BY DEF IsCall, Idle
  <2> HIDE DEF r
  <2>4. QED
    BY <1>1, <2>2, <2>3, CallGoesOn
<1>5. ASSUME NEW c \in Callers, QueryPlanned(c) PROVE DecidedInv'
  <2>1. PICK todo : call' = [call EXCEPT ![c] = [Idle EXCEPT !.at = "join", !.op = "query",
                                                          !.todo = todo]]
    BY <1>5 DEF QueryPlanned
  <2> DEFINE r == [Idle EXCEPT !.at = "join", !.op = "query", !.todo = todo]
  <2>2. IsCall(r) /\ r.at = "join" /\ r.op = "query"
    BY DEF IsCall, Idle
  <2>3. UNCHANGED <<truth, audit>> /\ call' = [call EXCEPT ![c] = r]
    BY <1>5, <2>1 DEF QueryPlanned
  <2> HIDE DEF r
  <2>4. QED
    BY <2>2, <2>3, CallGoesOn
<1>6. ASSUME NEW c \in Callers, Join(c) PROVE DecidedInv'
  <2> DEFINE b == call[c]
  <2>1. PICK j : call' = [call EXCEPT ![c].joined = j, ![c].todo = Tail(@)]
    BY <1>6 DEF Join
  <2> DEFINE r == [b EXCEPT !.joined = j, !.todo = Tail(@)]
  <2>2. IsCall(b) /\ b.at = "join" /\ b.op = "query"
    BY <1>6 DEF Join, DecidedInv, CallIsDecided
  <2>3. UNCHANGED <<truth, audit>> /\ call' = [call EXCEPT ![c] = r]
    BY <1>6, <2>1 DEF Join, DecidedInv
  <2> HIDE DEF b
  <2>4. IsCall(r) /\ r.at = "join" /\ r.op = "query"
    BY <2>2 DEF IsCall
  <2> HIDE DEF r
  <2>5. QED
    BY <2>3, <2>4, CallGoesOn
<1>7. ASSUME NEW c \in Callers, Charge(c) PROVE DecidedInv'
  <2> DEFINE b == call[c]
             out == Disclose(AgentOf[c], call[c].joined)
             cost == CostOf(out)
             r1 == [b EXCEPT !.at = "seq", !.tokens = cost, !.decision = "allow", !.out = out]
             r2 == [b EXCEPT !.at = "seq", !.tokens = cost, !.decision = "deny"]
  <2>1. /\ UNCHANGED <<truth, audit>>
        /\ call' = [call EXCEPT ![c] = r1] \/ call' = [call EXCEPT ![c] = r2]
    BY <1>7 DEF Charge, TrySpend, DecidedInv
  <2>2. IsCall(b) /\ b.op = "query"
    BY <1>7 DEF Charge, DecidedInv, CallIsDecided
  <2> HIDE DEF b, out, cost
  <2>3. IsCall(r1) /\ r1.at = "seq" /\ r1.op = "query"
    BY <2>2 DEF IsCall
  <2>4. IsCall(r2) /\ r2.at = "seq" /\ r2.op = "query"
    BY <2>2 DEF IsCall
  <2> HIDE DEF r1, r2
  <2>5. QED
    BY <2>1, <2>3, <2>4, CallGoesOn
<1>8. ASSUME NEW c \in Callers, TakeSeq(c) PROVE DecidedInv'
  <2> DEFINE b == call[c]
             r == [b EXCEPT !.at = "push", !.seq = auditSeq]
  <2>1. UNCHANGED <<truth, audit>> /\ call' = [call EXCEPT ![c] = r]
    BY <1>8 DEF TakeSeq, DecidedInv
  <2>2. /\ IsCall(b)
        /\ b.op = "write" =>
             b.decision = Authorize(AgentOf[c], "write", HeaderCategory(Head(b.joined)))
    BY <1>8 DEF TakeSeq, DecidedInv, CallIsDecided
  <2> HIDE DEF b
  <2>3. /\ IsCall(r) /\ r.at = "push" /\ r.op = b.op /\ r.decision = b.decision
        /\ r.joined = b.joined
    BY <2>2 DEF IsCall
  <2> HIDE DEF r
  <2>4. QED
    BY <2>1, <2>2, <2>3, CallGoesOn
<1>9. ASSUME NEW c \in Callers, Push(c) PROVE DecidedInv'
  <2> DEFINE b == call[c]
             e == Entry(c)
             r == [b EXCEPT !.at = "commit"]
  <2>1. /\ audit' = Append(audit, e) /\ UNCHANGED truth /\ b.at = "push"
        /\ \/ /\ b.op = "write" /\ b.decision # "deny"
              /\ call' = [call EXCEPT ![c] = r]
           \/ call' = [call EXCEPT ![c] = Idle]
    BY <1>9 DEF Push, DecidedInv
  <2>2. /\ IsCall(b) /\ truth' = [s \in Sids |-> truth'[s]]
        /\ b.op = "write" =>
             b.decision = Authorize(AgentOf[c], "write", HeaderCategory(Head(b.joined)))
    BY <2>1 DEF DecidedInv, CallIsDecided
  <2>3. e.agent = AgentOf[c] /\ e.sid = b.sid /\ (b.op = "write" => e.action = "write")
    BY DEF Entry
  <2> HIDE DEF b, e
  <2>4. /\ \E S : audit' \in Seq(S)
        /\ \A i \in DOMAIN audit : i \in DOMAIN audit' /\ audit'[i] = audit[i]
        /\ \E i \in DOMAIN audit' : audit'[i] = e
    <3>1. \E S : audit \in Seq(S)
      BY DEF DecidedInv
    <3>2. /\ \E S : Append(audit, e) \in Seq(S)
          /\ \A i \in DOMAIN audit :
               i \in DOMAIN Append(audit, e) /\ Append(audit, e)[i] = audit[i]
          /\ \E i \in DOMAIN Append(audit, e) : Append(audit, e)[i] = e
      BY <3>1, LogGrows, Zenon
    <3>3. audit' = Append(audit, e)
      BY <2>1
    <3>4. QED
      BY <3>2, <3>3, Zenon
  <2>5. /\ IsCall(r) /\ r.at = "commit" /\ r.op = b.op /\ r.decision = b.decision
        /\ r.joined = b.joined /\ r.sid = b.sid
    BY <2>2 DEF IsCall
  <2> HIDE DEF r
  <2>6. CASE b.op = "write" /\ b.decision # "deny" /\ call' = [call EXCEPT ![c] = r]
    <3>1. \E i \in DOMAIN audit' : /\ audit'[i].action = "write" /\ audit'[i].sid = r.sid
                                  /\ audit'[i].agent = AgentOf[c]
      BY <2>3, <2>4, <2>5, <2>6
    <3>2. QED
      BY <2>2, <2>4, <2>5, <2>6, <3>1, OthersStayDecided
  <2>7. CASE call' = [call EXCEPT ![c] = Idle]
    BY <1>2, <2>2, <2>4, <2>7, OthersStayDecided
  <2>8. QED
    BY <2>1, <2>6, <2>7
<1>10. ASSUME NEW c \in Callers, Commit(c) PROVE DecidedInv'
  <2>1. /\ call' = [call EXCEPT ![c] = Idle] /\ UNCHANGED audit
        /\ truth' \in {truth, [truth EXCEPT ![call[c].sid] = Head(call[c].joined)]}
    BY <1>10 DEF Commit
  <2>2. truth' = [s \in Sids |-> truth'[s]]
    BY <2>1 DEF DecidedInv
  <2>3. \E S : audit' \in Seq(S)
    BY <2>1 DEF DecidedInv
  <2>4. \A i \in DOMAIN audit : i \in DOMAIN audit' /\ audit'[i] = audit[i]
    BY <2>1
  <2>5. QED
    BY <1>2, <2>1, <2>2, <2>3, <2>4, OthersStayDecided
<1>11. QED
  BY <1>1, <1>3, <1>4, <1>5, <1>6, <1>7, <1>8, <1>9, <1>10 DEF Next, vars

(* All calls are decided in every behaviour. *)
LEMMA DecidedInvariance == Spec => []DecidedInv
<1>1. Init => DecidedInv
  <2> SUFFICES ASSUME Init PROVE DecidedInv
    OBVIOUS
  <2>1. IsCall(Idle) /\ Idle.at = "idle"
    BY DEF IsCall, Idle
  <2>2. \A c \in Callers : CallIsDecided(c)
    BY <2>1 DEF Init, CallIsDecided
  <2>3. audit \in Seq({})
    BY DEF Init
  <2>4. QED
    BY <2>2, <2>3 DEF Init, DecidedInv
<1>2. DecidedInv /\ [Next]_vars => DecidedInv'
  BY DecidedStep
<1>3. QED
  BY <1>1, <1>2, PTL DEF Spec

(* The truth changes only by a write that the policy allows to the agent that     *)
(* made it, judged by the header of what is stored, and that is in the audit log  *)
(* already, for any rules, any values with and without headers, and any           *)
(* interleaving of callers (GovernedEngine::put_vector).                       *)
THEOREM NothingIsWrittenUnlogged == Spec => WritesAreAuthorizedAndLogged
<1>1. ASSUME DecidedInv, [Next]_vars
      PROVE  [\A s \in Sids : truth'[s] # truth[s] =>
                \E i \in DOMAIN audit :
                  /\ audit[i].action = "write" /\ audit[i].sid = s
                  /\ Authorize(audit[i].agent, "write", HeaderCategory(truth'[s])) = "allow"]_vars
  <2> SUFFICES ASSUME NEW s \in Sids, truth'[s] # truth[s]
               PROVE  \E i \in DOMAIN audit :
                        /\ audit[i].action = "write" /\ audit[i].sid = s
                        /\ Authorize(audit[i].agent, "write", HeaderCategory(truth'[s])) = "allow"
    OBVIOUS
  <2>1. PICK c \in Callers : Commit(c)
    BY <1>1 DEF Next, PutVector, Get, QueryPlanned, Join, Charge, TakeSeq, Push, vars
  <2> DEFINE r == call[c]
  <2>2. r.at = "commit" /\ truth' = [truth EXCEPT ![r.sid] = Head(r.joined)]
    BY <2>1 DEF Commit
  <2>3. s = r.sid /\ truth'[s] = Head(r.joined)
    BY <1>1, <2>2 DEF DecidedInv
  <2>4. /\ r.op = "write" /\ r.decision # "deny" /\ Logged(AgentOf[c], r.sid)
        /\ r.decision = Authorize(AgentOf[c], "write", HeaderCategory(Head(r.joined)))
    BY <1>1, <2>2 DEF DecidedInv, CallIsDecided
  <2>5. Authorize(AgentOf[c], "write", HeaderCategory(truth'[s])) = "allow"
    BY <2>3, <2>4, WriteIsAllowedOrDenied
  <2>6. QED
    BY <2>3, <2>4, <2>5 DEF Logged
<1>2. QED
  BY <1>1, DecidedInvariance, PTL DEF Spec, WritesAreAuthorizedAndLogged

-----------------------------------------------------------------------------
(* What an agent is shown, and what it costs *)

(* The policy lets the agent read what is shown, masked if it says so. *)
MaySee(agent, s) ==
  LET may == Authorize(agent, "read", s.val.cat)
  IN  may # "deny" /\ (may = "mask" => s.masked)

(* The answers that may be given to an agent. *)
SafeAnswers(agent) == {out \in Seq(Shown) : \A i \in DOMAIN out : MaySee(agent, out[i])}

LEMMA AuthorizeType ==
  ASSUME NEW agent, NEW action, NEW cat
  PROVE  Authorize(agent, action, cat) \in {"allow", "mask", "deny"}
  BY DEF Authorize

(* An answer costs a number of tokens (grain_tokens).                            *)
LEMMA CostIsNat ==
  ASSUME NEW out \in Seq(Shown)
  PROVE  CostOf(out) \in Nat
<1> DEFINE n == Len(out)
           Body(it) == [U \in SUBSET DOMAIN out |->
                          IF U = {} THEN 0 ELSE it[U \ {Max(U)}] + TokensOf(out[Max(U)])]
           Iter == CHOOSE it : it = Body(it)
           step == [x \in (1 .. n) \X Nat |-> x[2] + TokensOf(out[x[1]])]
<1>1. \A s \in Shown : TokensOf(s) \in Nat
  BY GovernanceAssumption DEF TokensOf, GrainTokens, RedactedBytes, Shown
<1>2. step \in [(1 .. n) \X Nat -> Nat] /\ n \in Nat /\ DOMAIN out = 1 .. n
  BY <1>1
<1>3. PICK f : f \in [SUBSET (1 .. n) -> Nat] /\ FoldsLeft(f, n, 0, step)
  <2> HIDE DEF step, n
  <2>1. 0 \in Nat
    OBVIOUS
  <2>2. QED
    BY <1>2, <2>1, FoldExists, Zenon
<1>4. f = Body(f)
  <2>1. \A U \in SUBSET (1 .. n) :
          U # {} => Max(U) \in 1 .. n /\ U \ {Max(U)} \in SUBSET (1 .. n)
    BY MaxIsGreatest, <1>2
  <2>2. \A U \in SUBSET (1 .. n) :
          f[U] = IF U = {} THEN 0 ELSE f[U \ {Max(U)}] + TokensOf(out[Max(U)])
    BY <1>3, <2>1 DEF FoldsLeft
  <2>3. QED
    BY <1>2, <1>3, <2>2
<1>5. Iter = Body(Iter)
  <2> HIDE DEF Body
  <2>1. QED
    BY <1>4
<1>6. CostOf(out) = Iter[DOMAIN out]
  BY DEF CostOf, FoldLeft, MapThenFoldSet
<1>7. Iter[{}] = 0
  <2> HIDE DEF Iter
  <2>1. Iter[{}] = Body(Iter)[{}]
    BY <1>5
  <2>2. QED
    BY <2>1
<1>8. ASSUME NEW U \in SUBSET (1 .. n), U # {}, Iter[U \ {Max(U)}] \in Nat
      PROVE  Iter[U] \in Nat
  <2> HIDE DEF Iter
  <2>1. Iter[U] = Body(Iter)[U]
    BY <1>5
  <2>2. Iter[U] = Iter[U \ {Max(U)}] + TokensOf(out[Max(U)])
    BY <1>2, <1>8, <2>1
  <2>3. Max(U) \in 1 .. n
    BY <1>2, <1>8, MaxIsGreatest
  <2> HIDE DEF Body
  <2>4. TokensOf(out[Max(U)]) \in Nat
    BY <1>1, <1>2, <2>3
  <2>5. QED
    BY <1>8, <2>2, <2>4
<1>9. Iter[1 .. n] \in Nat
  <2> HIDE DEF Iter, Body, step, n
  <2>1. Iter[{}] \in Nat
    BY <1>7
  <2>2. QED
    BY <1>2, <1>8, <2>1, FoldStays
<1>10. QED
  BY <1>2, <1>6, <1>9
(* An agent is shown what it may see only (query_planned, get).                  *)
LEMMA DiscloseIsSafe ==
  ASSUME NEW agent, NEW found \in Seq(Values)
  PROVE  Disclose(agent, found) \in SafeAnswers(agent)
<1> DEFINE n == Len(found)
           T == SafeAnswers(agent)
           Body(it) == [U \in SUBSET DOMAIN found |->
                          IF U = {} THEN <<>>
                          ELSE it[U \ {Max(U)}] \o Seen(agent, found[Max(U)])]
           Iter == CHOOSE it : it = Body(it)
           step == [x \in (1 .. n) \X T |-> x[2] \o Seen(agent, found[x[1]])]
<1>1. <<>> \in T /\ \A v \in Values : Seen(agent, v) \in T
  <2>1. <<>> \in T
    BY DEF SafeAnswers
  <2>2. ASSUME NEW v \in Values, Authorize(agent, "read", v.cat) # "deny"
        PROVE  Seen(agent, v) \in T
    <3> DEFINE masked == Authorize(agent, "read", v.cat) = "mask"
               s == [val |-> v, masked |-> masked]
    <3>1. masked \in BOOLEAN
      OBVIOUS
    <3>2. Seen(agent, v) = <<s>>
      BY <2>2, Zenon DEF Seen
    <3>3. s.val = v /\ s.masked = masked
      OBVIOUS
    <3>4. s \in Shown
      <4> HIDE DEF masked
      <4>1. QED
        BY <3>1 DEF Shown
    <3>5. MaySee(agent, s)
      <4> HIDE DEF s
      <4>1. QED
        BY <2>2, <3>3, Zenon DEF MaySee
    <3> HIDE DEF s
    <3>6. <<s>> \in Seq(Shown) /\ \A i \in DOMAIN <<s>> : <<s>>[i] = s
      BY <3>4
    <3>7. QED
      BY <3>2, <3>5, <3>6 DEF SafeAnswers
  <2>3. ASSUME NEW v \in Values, Authorize(agent, "read", v.cat) = "deny"
        PROVE  Seen(agent, v) \in T
    BY <2>1, <2>3 DEF Seen
  <2>4. QED
    BY <2>1, <2>2, <2>3
<1>2. \A out \in T, more \in T : out \o more \in T
  <2> SUFFICES ASSUME NEW out \in T, NEW more \in T PROVE out \o more \in T
    OBVIOUS
  <2>1. out \in Seq(Shown) /\ more \in Seq(Shown) /\ out \o more \in Seq(Shown)
    BY DEF SafeAnswers
  <2>2. ASSUME NEW i \in DOMAIN (out \o more) PROVE MaySee(agent, (out \o more)[i])
    <3>1. i \in 1 .. Len(out) + Len(more)
          /\ (out \o more)[i] = IF i <= Len(out) THEN out[i] ELSE more[i - Len(out)]
      BY <2>1
    <3>2. QED
      BY <2>1, <3>1 DEF SafeAnswers
  <2>3. QED
    BY <2>1, <2>2 DEF SafeAnswers
<1> HIDE DEF T
<1>3. step \in [(1 .. n) \X T -> T] /\ n \in Nat /\ DOMAIN found = 1 .. n
  BY <1>1, <1>2
<1>4. PICK f : f \in [SUBSET (1 .. n) -> T] /\ FoldsLeft(f, n, <<>>, step)
  <2> HIDE DEF step, n
  <2>1. QED
    BY <1>1, <1>3, FoldExists, Zenon
<1>5. f = Body(f)
  <2>1. \A U \in SUBSET (1 .. n) :
          U # {} => Max(U) \in 1 .. n /\ U \ {Max(U)} \in SUBSET (1 .. n)
    BY MaxIsGreatest, <1>3
  <2>2. \A U \in SUBSET (1 .. n) :
          f[U] = IF U = {} THEN <<>> ELSE f[U \ {Max(U)}] \o Seen(agent, found[Max(U)])
    BY <1>4, <2>1 DEF FoldsLeft
  <2>3. QED
    BY <1>3, <1>4, <2>2
<1>6. Iter = Body(Iter)
  <2> HIDE DEF Body
  <2>1. QED
    BY <1>5
<1>7. Disclose(agent, found) = Iter[DOMAIN found]
  BY DEF Disclose, FoldLeft, MapThenFoldSet
<1>8. Iter[{}] = <<>>
  <2> HIDE DEF Iter
  <2>1. Iter[{}] = Body(Iter)[{}]
    BY <1>6
  <2>2. QED
    BY <2>1
<1>9. ASSUME NEW U \in SUBSET (1 .. n), U # {}, Iter[U \ {Max(U)}] \in T
      PROVE  Iter[U] \in T
  <2> HIDE DEF Iter
  <2>1. Iter[U] = Body(Iter)[U]
    BY <1>6
  <2>2. Iter[U] = Iter[U \ {Max(U)}] \o Seen(agent, found[Max(U)])
    BY <1>3, <1>9, <2>1
  <2>3. Max(U) \in 1 .. n
    BY <1>3, <1>9, MaxIsGreatest
  <2> HIDE DEF Body
  <2>4. Seen(agent, found[Max(U)]) \in T
    BY <1>1, <1>3, <2>3
  <2>5. QED
    BY <1>2, <1>9, <2>2, <2>4
<1>10. Iter[1 .. n] \in T
  <2> HIDE DEF Iter, Body, step, n
  <2>1. Iter[{}] \in T
    BY <1>1, <1>8
  <2>2. QED
    BY <1>3, <1>9, <2>1, FoldStays
<1>11. QED
  BY <1>3, <1>7, <1>10 DEF T
-----------------------------------------------------------------------------
(* Types and answers *)

(* The answer of a call may be given to its agent; a write carries its value.     *)
CallIsSafe(agent, r) ==
  /\ r.out \in SafeAnswers(agent)
  /\ r.at = "join" => r.op = "query" /\ r.sid = 0
  /\ r.at # "idle" /\ r.op = "write" => r.joined # <<>>
  /\ r.at = "commit" => r.op = "write"

Active == {c \in Callers : call[c].at # "idle"}

ServedInv ==
  /\ TypeOK
  /\ IsFiniteSet(Active)
  /\ NothingLeaks
  /\ \A c \in Callers : CallIsSafe(AgentOf[c], call[c])

LEMMA IdleIsSafe ==
  ASSUME NEW agent
  PROVE  Idle \in Call /\ CallIsSafe(agent, Idle) /\ Idle.at = "idle"
<1>1. <<>> \in SafeAnswers(agent)
  BY DEF SafeAnswers
<1>2. QED
  BY <1>1 DEF Idle, Call, CallIsSafe

(* A step of one caller keeps types and answers when its own call does.          *)
LEMMA CallIsServed ==
  ASSUME ServedInv, NEW c \in Callers, NEW r \in Call, call' = [call EXCEPT ![c] = r],
         CallIsSafe(AgentOf[c], r),
         truth' \in [Sids -> Values \union {Absent}],
         budgets' \in [Agents -> 0 .. DefaultBudget],
         audit' \in Seq(AuditRecord), auditSeq' \in Nat, calls' \in 0 .. MaxCalls,
         given' \subseteq given \union Hand(c)
  PROVE  ServedInv'
<1>1. /\ call' \in [Callers -> Call] /\ call'[c] = r
      /\ \A d \in Callers : d # c => call'[d] = call[d]
  BY DEF ServedInv, TypeOK
<1>2. \A d \in Callers : CallIsSafe(AgentOf[d], call'[d])
  BY <1>1 DEF ServedInv
<1>3. IsFiniteSet(Active')
  <2>1. Active' \subseteq Active \union {c}
    BY <1>1 DEF Active
  <2>2. IsFiniteSet(Active \union {c})
    BY FS_AddElement DEF ServedInv
  <2>3. QED
    BY <2>1, <2>2, FS_Subset
<1>4. ASSUME NEW g \in Hand(c)
      PROVE  g \in [agent : Agents, shown : Shown] /\ MaySee(g.agent, g.shown)
  <2> DEFINE out == call[c].out
  <2>1. out \in SafeAnswers(AgentOf[c]) /\ AgentOf[c] \in Agents
    BY GovernanceAssumption DEF ServedInv, CallIsSafe
  <2>2. g \in [agent : {AgentOf[c]}, shown : ToSet(out)]
    BY DEF Hand
  <2> HIDE DEF out
  <2>3. \A s \in ToSet(out) : s \in Shown /\ MaySee(AgentOf[c], s)
    BY <2>1 DEF SafeAnswers, ToSet
  <2>4. QED
    BY <2>1, <2>2, <2>3
<1>5. given' \subseteq [agent : Agents, shown : Shown]
  BY <1>4 DEF ServedInv, TypeOK
<1>6. NothingLeaks'
  <2>1. \A g \in given : MaySee(g.agent, g.shown)
    BY DEF ServedInv, NothingLeaks, MaySee
  <2>2. \A g \in given' : MaySee(g.agent, g.shown)
    BY <1>4, <2>1
  <2>3. QED
    BY <2>2 DEF NothingLeaks, MaySee
<1>7. TypeOK'
  BY <1>1, <1>5 DEF TypeOK
<1>8. QED
  BY <1>2, <1>3, <1>6, <1>7 DEF ServedInv

LEMMA ServedInit == Init => ServedInv
<1> SUFFICES ASSUME Init PROVE ServedInv
  OBVIOUS
<1>1. TypeOK
  BY IdleIsSafe, GovernanceAssumption DEF Init, TypeOK
<1>2. Active = {}
  BY IdleIsSafe DEF Init, Active
<1>3. QED
  BY <1>1, <1>2, IdleIsSafe, FS_EmptySet DEF Init, ServedInv, NothingLeaks

LEMMA ServedStep ==
  ASSUME ServedInv, [Next]_vars
  PROVE  ServedInv'
<1> USE GovernanceAssumption
<1>1. CASE UNCHANGED vars
  BY <1>1 DEF ServedInv, TypeOK, NothingLeaks, Active, vars
<1>2. /\ truth \in [Sids -> Values \union {Absent}]
      /\ budgets \in [Agents -> 0 .. DefaultBudget]
      /\ audit \in Seq(AuditRecord) /\ auditSeq \in Nat /\ calls \in 0 .. MaxCalls
      /\ given \subseteq given
      /\ \A c \in Callers : call[c] \in Call /\ CallIsSafe(AgentOf[c], call[c])
  BY DEF ServedInv, TypeOK
<1>3. \A c \in Callers : \A op : Begin(c, op) => calls' \in 0 .. MaxCalls /\ call[c] = Idle
  BY <1>2 DEF Begin
<1>4. ASSUME NEW c \in Callers, PutVector(c) PROVE ServedInv'
  <2>1. PICK s \in Sids, v \in Values :
          call' = [call EXCEPT ![c] =
                  [Idle EXCEPT !.at = "seq", !.op = "write", !.sid = s, !.joined = <<v>>,
                               !.decision =
                                 Authorize(AgentOf[c], "write", HeaderCategory(v))]]
    BY <1>4 DEF PutVector
  <2> DEFINE d == Authorize(AgentOf[c], "write", HeaderCategory(v))
             r == [Idle EXCEPT !.at = "seq", !.op = "write", !.sid = s, !.joined = <<v>>,
                               !.decision = d]
  <2>2. d \in {"allow", "mask", "deny"}
    BY AuthorizeType
  <2> HIDE DEF d
  <2>3. <<v>> \in Seq(Values) /\ <<v>> # <<>>
    OBVIOUS
  <2>4. r \in Call
    BY <2>2, <2>3, IdleIsSafe DEF Call
  <2>5. r.at = "seq" /\ r.joined = <<v>> /\ r.out = Idle.out
    BY DEF Idle
  <2>6. CallIsSafe(AgentOf[c], r)
    BY <2>3, <2>5, IdleIsSafe DEF CallIsSafe
  <2>7. call' = [call EXCEPT ![c] = r]
    BY <2>1 DEF d
  <2> HIDE DEF r
  <2>8. calls' \in 0 .. MaxCalls
    BY <1>3, <1>4 DEF PutVector
  <2>9. UNCHANGED <<truth, budgets, audit, auditSeq, given>>
    BY <1>4 DEF PutVector
  <2>10. QED
    BY <1>2, <2>4, <2>6, <2>7, <2>8, <2>9, CallIsServed
<1>5. ASSUME NEW c \in Callers, Get(c) PROVE ServedInv'
  <2>1. PICK s \in Sids :
          IF truth[s] = Absent THEN UNCHANGED call
          ELSE LET out == Disclose(AgentOf[c], <<truth[s]>>)
               IN  call' = [call EXCEPT ![c] =
                  [Idle EXCEPT !.at = "seq", !.op = "get", !.sid = s, !.out = out,
                               !.decision = Authorize(AgentOf[c], "read", truth[s].cat),
                               !.tokens = CostOf(out)]]
    BY <1>5 DEF Get
  <2>2. calls' \in 0 .. MaxCalls /\ UNCHANGED <<truth, budgets, audit, auditSeq, given>>
    BY <1>3, <1>5 DEF Get
  <2>3. CASE truth[s] = Absent
    <3>1. call' = [call EXCEPT ![c] = call[c]]
      BY <2>1, <2>3 DEF ServedInv, TypeOK
    <3>2. QED
      BY <1>2, <2>2, <3>1, CallIsServed
  <2>4. CASE truth[s] # Absent
    <3> DEFINE out == Disclose(AgentOf[c], <<truth[s]>>)
               d == Authorize(AgentOf[c], "read", truth[s].cat)
               cost == CostOf(out)
               r == [Idle EXCEPT !.at = "seq", !.op = "get", !.sid = s, !.out = out,
                                 !.decision = d, !.tokens = cost]
    <3>1. <<truth[s]>> \in Seq(Values)
      BY <1>2, <2>4
    <3>2. out \in SafeAnswers(AgentOf[c])
      BY <3>1, DiscloseIsSafe
    <3>3. out \in Seq(Shown)
      BY <3>2 DEF SafeAnswers
    <3>4. d \in {"allow", "mask", "deny"} /\ cost \in Nat
      BY <3>3, AuthorizeType, CostIsNat
    <3>5. call' = [call EXCEPT ![c] = r]
      BY <2>1, <2>4
    <3> HIDE DEF out, d, cost
    <3>6. r \in Call
      BY <3>3, <3>4, IdleIsSafe DEF Call
    <3>7. r.at = "seq" /\ r.op = "get" /\ r.out = out
      BY DEF Idle
    <3>8. CallIsSafe(AgentOf[c], r)
      BY <3>2, <3>7 DEF CallIsSafe
    <3> HIDE DEF r
    <3>9. QED
      BY <1>2, <2>2, <3>5, <3>6, <3>8, CallIsServed
  <2>5. QED
    BY <2>3, <2>4
<1>6. ASSUME NEW c \in Callers, QueryPlanned(c) PROVE ServedInv'
  <2>1. PICK todo \in UNION {[1 .. n -> Sids] : n \in 0 .. MaxHits} :
          call' = [call EXCEPT ![c] = [Idle EXCEPT !.at = "join", !.op = "query",
                                                    !.todo = todo]]
    BY <1>6 DEF QueryPlanned
  <2> DEFINE r == [Idle EXCEPT !.at = "join", !.op = "query", !.todo = todo]
  <2>2. todo \in Seq(Sids)
    <3>1. PICK n \in 0 .. MaxHits : todo \in [1 .. n -> Sids]
      OBVIOUS
    <3>2. QED
      BY <3>1
  <2>3. r \in Call
    BY <2>2, IdleIsSafe DEF Call
  <2>4. r.at = "join" /\ r.op = "query" /\ r.sid = 0 /\ r.out = Idle.out
    BY DEF Idle
  <2>5. CallIsSafe(AgentOf[c], r)
    BY <2>4, IdleIsSafe DEF CallIsSafe
  <2> HIDE DEF r
  <2>6. calls' \in 0 .. MaxCalls /\ UNCHANGED <<truth, budgets, audit, auditSeq, given>>
    BY <1>3, <1>6 DEF QueryPlanned
  <2>7. call' = [call EXCEPT ![c] = r]
    BY <2>1 DEF r
  <2>8. QED
    BY <1>2, <2>3, <2>5, <2>6, <2>7, CallIsServed
<1>7. ASSUME NEW c \in Callers, Join(c) PROVE ServedInv'
  <2> DEFINE b == call[c]
             found == truth[Head(b.todo)]
  <2>1. b.at = "join" /\ b.todo # <<>> /\ b \in Call /\ CallIsSafe(AgentOf[c], b)
    BY <1>2, <1>7 DEF Join
  <2>2. PICK keep \in BOOLEAN :
          call' = [call EXCEPT
             ![c].joined = IF keep /\ found # Absent THEN Append(@, found) ELSE @,
             ![c].todo = Tail(@)]
    BY <1>7 DEF Join
  <2> DEFINE j == IF keep /\ found # Absent THEN Append(b.joined, found) ELSE b.joined
             t == Tail(b.todo)
             r == [b EXCEPT !.joined = j, !.todo = t]
  <2>3. b.joined \in Seq(Values) /\ b.todo \in Seq(Sids)
    BY <2>1 DEF Call
  <2>4. found \in Values \union {Absent}
    <3> HIDE DEF b
    <3>1. Head(b.todo) \in Sids
      BY <2>1, <2>3
    <3>2. QED
      BY <1>2, <3>1
  <2>5. call' = [call EXCEPT ![c] = r]
    BY <2>2 DEF ServedInv, TypeOK
  <2> HIDE DEF b, found
  <2>6. j \in Seq(Values) /\ t \in Seq(Sids)
    BY <2>1, <2>3, <2>4
  <2> HIDE DEF j, t
  <2>7. r \in Call
    BY <2>1, <2>6 DEF Call
  <2>8. r.at = b.at /\ r.op = b.op /\ r.sid = b.sid /\ r.out = b.out
    BY <2>1 DEF Call
  <2>9. CallIsSafe(AgentOf[c], r)
    BY <2>1, <2>8 DEF CallIsSafe
  <2> HIDE DEF r
  <2>10. UNCHANGED <<truth, budgets, audit, auditSeq, calls, given>>
    BY <1>7 DEF Join
  <2>11. QED
    BY <1>2, <2>5, <2>7, <2>9, <2>10, CallIsServed
<1>8. ASSUME NEW c \in Callers, Charge(c) PROVE ServedInv'
  <2> DEFINE b == call[c]
             a == AgentOf[c]
             out == Disclose(AgentOf[c], call[c].joined)
             cost == CostOf(out)
             r1 == [b EXCEPT !.at = "seq", !.tokens = cost, !.decision = "allow", !.out = out]
             r2 == [b EXCEPT !.at = "seq", !.tokens = cost, !.decision = "deny"]
  <2>1. /\ b.at = "join" /\ UNCHANGED <<truth, audit, auditSeq, calls, given>>
        /\ \/ /\ budgets[a] >= cost /\ budgets' = [budgets EXCEPT ![a] = @ - cost]
              /\ call' = [call EXCEPT ![c] = r1]
           \/ UNCHANGED budgets /\ call' = [call EXCEPT ![c] = r2]
    BY <1>8 DEF Charge, TrySpend, ServedInv, TypeOK
  <2>2. b \in Call /\ CallIsSafe(a, b) /\ a \in Agents
    BY <1>2
  <2>3. out \in SafeAnswers(a)
    BY <2>2, DiscloseIsSafe DEF Call
  <2>4. out \in Seq(Shown)
    BY <2>3 DEF SafeAnswers
  <2>5. cost \in Nat
    BY <2>4, CostIsNat
  <2> HIDE DEF b, out, cost, a
  <2>6. r1 \in Call /\ r1.at = "seq" /\ r1.op = b.op /\ r1.out = out
    BY <2>2, <2>4, <2>5 DEF Call
  <2>7. r2 \in Call /\ r2.at = "seq" /\ r2.op = b.op /\ r2.out = b.out
    BY <2>2, <2>5 DEF Call
  <2>8. b.op = "query"
    BY <2>1, <2>2 DEF CallIsSafe
  <2>9. CallIsSafe(a, r1) /\ CallIsSafe(a, r2)
    BY <2>2, <2>3, <2>6, <2>7, <2>8 DEF CallIsSafe
  <2>10. budgets[a] >= cost => [budgets EXCEPT ![a] = @ - cost] \in [Agents -> 0 .. DefaultBudget]
    BY <1>2, <2>2, <2>5
  <2> HIDE DEF r1, r2
  <2>11. budgets' \in [Agents -> 0 .. DefaultBudget]
    BY <1>2, <2>1, <2>10
  <2>12. CASE call' = [call EXCEPT ![c] = r1]
    BY <1>2, <2>1, <2>6, <2>9, <2>11, <2>12, CallIsServed DEF a
  <2>13. CASE call' = [call EXCEPT ![c] = r2]
    BY <1>2, <2>1, <2>7, <2>9, <2>11, <2>13, CallIsServed DEF a
  <2>14. QED
    BY <2>1, <2>12, <2>13
<1>9. ASSUME NEW c \in Callers, TakeSeq(c) PROVE ServedInv'
  <2> DEFINE b == call[c]
             r == [b EXCEPT !.at = "push", !.seq = auditSeq]
  <2>1. /\ b.at = "seq" /\ UNCHANGED <<truth, budgets, audit, calls, given>>
        /\ call' = [call EXCEPT ![c] = r] /\ auditSeq' = auditSeq + 1
    BY <1>9 DEF TakeSeq, ServedInv, TypeOK
  <2>2. b \in Call /\ CallIsSafe(AgentOf[c], b)
    BY <1>2
  <2> HIDE DEF b
  <2>3. r \in Call /\ r.at = "push" /\ r.op = b.op /\ r.joined = b.joined /\ r.out = b.out
    BY <1>2, <2>2 DEF Call
  <2>4. CallIsSafe(AgentOf[c], r)
    BY <2>1, <2>2, <2>3 DEF CallIsSafe
  <2> HIDE DEF r
  <2>5. auditSeq' \in Nat
    BY <1>2, <2>1
  <2>6. QED
    BY <1>2, <2>1, <2>3, <2>4, <2>5, CallIsServed
<1>10. ASSUME NEW c \in Callers, Push(c) PROVE ServedInv'
  <2> DEFINE b == call[c]
             e == Entry(c)
             r == [b EXCEPT !.at = "commit"]
  <2>1. /\ audit' = Append(audit, e) /\ UNCHANGED <<truth, budgets, auditSeq, calls>>
        /\ b.at = "push" /\ given' \subseteq given \union Hand(c)
        /\ \/ b.op = "write" /\ call' = [call EXCEPT ![c] = r]
           \/ call' = [call EXCEPT ![c] = Idle]
    BY <1>10 DEF Push, ServedInv, TypeOK
  <2>2. b \in Call /\ CallIsSafe(AgentOf[c], b) /\ AgentOf[c] \in Agents
    BY <1>2
  <2>3. e \in AuditRecord
    BY <2>2 DEF Entry, AuditRecord, Call
  <2> HIDE DEF b, e
  <2>4. audit' \in Seq(AuditRecord)
    BY <1>2, <2>1, <2>3
  <2>5. /\ r \in Call /\ r.at = "commit" /\ r.op = b.op /\ r.joined = b.joined
        /\ r.out = b.out
    BY <2>2 DEF Call
  <2>6. b.op = "write" => CallIsSafe(AgentOf[c], r)
    BY <2>1, <2>2, <2>5 DEF CallIsSafe
  <2> HIDE DEF r
  <2>7. CASE b.op = "write" /\ call' = [call EXCEPT ![c] = r]
    BY <1>2, <2>1, <2>4, <2>5, <2>6, <2>7, CallIsServed
  <2>8. CASE call' = [call EXCEPT ![c] = Idle]
    BY <1>2, <2>1, <2>4, <2>8, IdleIsSafe, CallIsServed
  <2>9. QED
    BY <2>1, <2>7, <2>8
<1>11. ASSUME NEW c \in Callers, Commit(c) PROVE ServedInv'
  <2> DEFINE b == call[c]
  <2>1. /\ b.at = "commit" /\ UNCHANGED <<budgets, audit, auditSeq, calls, given>>
        /\ call' = [call EXCEPT ![c] = Idle]
        /\ truth' \in {truth, [truth EXCEPT ![b.sid] = Head(b.joined)]}
    BY <1>11 DEF Commit
  <2>2. b.joined \in Seq(Values) /\ b.joined # <<>>
    BY <1>2, <2>1 DEF Call, CallIsSafe
  <2> HIDE DEF b
  <2>3. Head(b.joined) \in Values
    BY <2>2
  <2>4. truth' \in [Sids -> Values \union {Absent}]
    BY <1>2, <2>1, <2>3
  <2>5. QED
    BY <1>2, <2>1, <2>4, IdleIsSafe, CallIsServed
<1>12. QED
  BY <1>1, <1>4, <1>5, <1>6, <1>7, <1>8, <1>9, <1>10, <1>11 DEF Next
(* Types and answers are right in every behaviour.                             *)
LEMMA ServedInvariance == Spec => []ServedInv
<1>1. Init => ServedInv
  BY ServedInit
<1>2. ServedInv /\ [Next]_vars => ServedInv'
  BY ServedStep
<1>3. QED
  BY <1>1, <1>2, PTL DEF Spec

(* Every variable has its type, the tokens of a disclosure included.              *)
THEOREM GovernanceTypes == Spec => []TypeOK
<1>1. ServedInv => TypeOK
  BY DEF ServedInv
<1>2. QED
  BY <1>1, ServedInvariance, PTL

(* No agent is given what the policy hides from it, and what the policy masks is    *)
(* masked, judged by the content that was given, for any rules and any writers     *)
(* that replace grains between search, join and answer (query_planned, get).       *)
THEOREM AnswersObeyThePolicy == Spec => []NothingLeaks
<1>1. ServedInv => NothingLeaks
  BY DEF ServedInv
<1>2. QED
  BY <1>1, ServedInvariance, PTL

-----------------------------------------------------------------------------
(* The audit log accounts for tokens and numbers *)

PaidLog(a) == {i \in DOMAIN audit : audit[i].agent = a /\ PaidQuery(audit[i])}

Owed(a) == {c \in Callers : /\ AgentOf[c] = a /\ call[c].at \in {"seq", "push"}
                            /\ PaidQuery(call[c])}

Logging == {c \in Callers : call[c].at = "push"}

(* What is owed changes by the caller whose call changes.                       *)
LEMMA OwedStep ==
  ASSUME ServedInv, ServedInv', NEW c \in Callers, NEW r, call' = [call EXCEPT ![c] = r],
         NEW a
  PROVE  \E rest \in Nat :
           /\ SumFunctionOnSet(Tokens(call), Owed(a)) =
                 rest + (IF c \in Owed(a) THEN call[c].tokens ELSE 0)
           /\ SumFunctionOnSet(Tokens(call'), Owed(a)') =
                 rest + (IF c \in Owed(a)' THEN r.tokens ELSE 0)
<1> DEFINE S == Owed(a)
           T == Owed(a)'
           w == Tokens(call)
           v == Tokens(call')
           O == S \ {c}
<1>1. /\ \A d \in Callers : w[d] = call[d].tokens /\ w[d] \in Nat
      /\ \A d \in Callers : v[d] = call'[d].tokens /\ v[d] \in Nat
      /\ v[c] = r.tokens
      /\ \A d \in Callers : d # c => call'[d] = call[d] /\ v[d] = w[d]
  BY DEF ServedInv, TypeOK, Tokens, Call
<1>2. O = T \ {c} /\ S \subseteq Callers /\ T \subseteq Callers
  BY <1>1 DEF Owed
<1>3. IsFiniteSet(S) /\ IsFiniteSet(T) /\ IsFiniteSet(O)
  <2>1. S \subseteq Active /\ T \subseteq Active'
    BY DEF Owed, Active
  <2>2. IsFiniteSet(S) /\ IsFiniteSet(T)
    BY <2>1, FS_Subset DEF ServedInv
  <2>3. QED
    BY <2>2, FS_Subset
<1> HIDE DEF S, T, w, v, O
<1>4. /\ Weighs(w, S) /\ Weighs(w, O) /\ Weighs(v, T) /\ Weighs(v, O)
      /\ \A d \in O : v[d] = w[d]
  BY <1>1, <1>2 DEF Weighs, O
<1>5. SumFunctionOnSet(w, O) \in Nat /\ SumFunctionOnSet(v, O) = SumFunctionOnSet(w, O)
  BY <1>3, <1>4, SumLaws, SumCongruence
<1>6. SumFunctionOnSet(w, S) = SumFunctionOnSet(w, O) + (IF c \in S THEN call[c].tokens ELSE 0)
  <2>1. CASE c \in S
    <3>1. SumFunctionOnSet(w, S) = w[c] + SumFunctionOnSet(w, S \ {c})
      BY <1>3, <1>4, <2>1, SumLaws
    <3>2. QED
      BY <1>1, <1>5, <2>1, <3>1 DEF O
  <2>2. CASE c \notin S
    <3>1. O = S
      BY <2>2 DEF O
    <3>2. QED
      BY <1>5, <2>2, <3>1
  <2>3. QED
    BY <2>1, <2>2
<1>7. SumFunctionOnSet(v, T) = SumFunctionOnSet(w, O) + (IF c \in T THEN r.tokens ELSE 0)
  <2>1. CASE c \in T
    <3>1. SumFunctionOnSet(v, T) = v[c] + SumFunctionOnSet(v, T \ {c})
      BY <1>3, <1>4, <2>1, SumLaws
    <3>2. QED
      BY <1>1, <1>2, <1>5, <2>1, <3>1
  <2>2. CASE c \notin T
    <3>1. O = T
      BY <1>2, <2>2
    <3>2. QED
      BY <1>5, <2>2, <3>1
  <2>3. QED
    BY <2>1, <2>2
<1>8. QED
  BY <1>5, <1>6, <1>7 DEF S, T, w, v

(* A new entry of the log adds what it charges its agent.                       *)
LEMMA PaidLogStep ==
  ASSUME ServedInv, NEW e \in AuditRecord, audit' = Append(audit, e), NEW a
  PROVE  /\ SumFunctionOnSet(Tokens(audit), PaidLog(a)) \in Nat
         /\ SumFunctionOnSet(Tokens(audit'), PaidLog(a)') =
              SumFunctionOnSet(Tokens(audit), PaidLog(a))
                + (IF e.agent = a /\ PaidQuery(e) THEN e.tokens ELSE 0)
<1> DEFINE S == PaidLog(a)
           T == PaidLog(a)'
           w == Tokens(audit)
           v == Tokens(audit')
           n == Len(audit) + 1
<1>1. /\ n \in Nat /\ DOMAIN audit = 1 .. n - 1 /\ DOMAIN audit' = 1 .. n /\ audit'[n] = e
      /\ \A i \in 1 .. n - 1 : audit'[i] = audit[i] /\ audit[i] \in AuditRecord
  BY DEF ServedInv, TypeOK
<1> HIDE DEF n
<1>2. /\ \A i \in 1 .. n - 1 : w[i] \in Nat /\ v[i] = w[i]
      /\ v[n] = e.tokens /\ e.tokens \in Nat
  BY <1>1 DEF Tokens, AuditRecord
<1>3. /\ S \subseteq 1 .. n - 1 /\ n \notin S
      /\ T = IF e.agent = a /\ PaidQuery(e) THEN S \union {n} ELSE S
  <2>1. S \subseteq 1 .. n - 1 /\ n \notin S
    BY <1>1 DEF PaidLog
  <2>2. \A i : i \in T <=> i \in 1 .. n /\ audit'[i].agent = a /\ PaidQuery(audit'[i])
    BY <1>1 DEF PaidLog
  <2>3. \A i : i \in S <=> i \in 1 .. n - 1 /\ audit[i].agent = a /\ PaidQuery(audit[i])
    BY <1>1 DEF PaidLog
  <2>4. \A i : i \in 1 .. n <=> i \in 1 .. n - 1 \/ i = n
    BY <1>1
  <2>5. \A i : i \in T <=> i \in S \/ (i = n /\ e.agent = a /\ PaidQuery(e))
    <3> HIDE DEF S, T
    <3>1. QED
      BY <1>1, <2>2, <2>3, <2>4
  <2>6. QED
    BY <2>1, <2>5
<1>4. IsFiniteSet(S) /\ IsFiniteSet(T)
  <2>1. IsFiniteSet(1 .. n)
    BY <1>1, FS_Interval
  <2>2. S \subseteq 1 .. n /\ T \subseteq 1 .. n
    BY <1>1, <1>3
  <2>3. QED
    BY <2>1, <2>2, FS_Subset
<1> HIDE DEF S, T, w, v
<1>5. Weighs(w, S) /\ Weighs(v, T) /\ Weighs(v, S) /\ \A i \in S : v[i] = w[i]
  BY <1>2, <1>3 DEF Weighs
<1>6. SumFunctionOnSet(w, S) \in Nat /\ SumFunctionOnSet(v, S) = SumFunctionOnSet(w, S)
  BY <1>4, <1>5, SumLaws, SumCongruence
<1>7. SumFunctionOnSet(v, T) =
        SumFunctionOnSet(w, S) + (IF e.agent = a /\ PaidQuery(e) THEN e.tokens ELSE 0)
  <2>1. CASE e.agent = a /\ PaidQuery(e)
    <3>1. n \in T /\ T \ {n} = S
      BY <1>3, <2>1
    <3>2. SumFunctionOnSet(v, T) = v[n] + SumFunctionOnSet(v, T \ {n})
      BY <1>4, <1>5, <3>1, SumLaws
    <3>3. SumFunctionOnSet(v, T) = v[n] + SumFunctionOnSet(v, S)
      BY <3>1, <3>2
    <3>4. SumFunctionOnSet(v, T) = e.tokens + SumFunctionOnSet(w, S) /\ e.tokens \in Nat
      BY <1>2, <1>6, <3>3
    <3> DEFINE sum == SumFunctionOnSet(w, S)
    <3>5. sum \in Nat
      BY <1>6
    <3> HIDE DEF sum
    <3>6. e.tokens + sum = sum + e.tokens
      BY <3>4, <3>5
    <3>7. QED
      BY <2>1, <3>4, <3>6 DEF sum
  <2>2. CASE ~ (e.agent = a /\ PaidQuery(e))
    <3>1. T = S
      BY <1>3, <2>2
    <3>2. QED
      BY <1>6, <2>2, <3>1
  <2>3. QED
    BY <2>1, <2>2
<1>8. QED
  BY <1>6, <1>7 DEF S, T, w, v
(* The ledger of an agent: what it spent is what its paid queries cost.           *)
Ledger(a) ==
  DefaultBudget - budgets[a] = SumFunctionOnSet(Tokens(audit), PaidLog(a))
                                 + SumFunctionOnSet(Tokens(call), Owed(a))

LEMMA LedgerIsOfAgents == LedgerMatchesAudit <=> \A a \in Agents : Ledger(a)
  BY DEF LedgerMatchesAudit, Ledger, PaidLog, Owed

(* A step that logs nothing: what is owed grows by what was paid.                 *)
LEMMA LedgerKept ==
  ASSUME ServedInv, ServedInv', NEW c \in Callers, NEW r, call' = [call EXCEPT ![c] = r],
         UNCHANGED audit, NEW a \in Agents, Ledger(a),
         budgets[a] - budgets'[a] = (IF c \in Owed(a)' THEN r.tokens ELSE 0)
                                      - (IF c \in Owed(a) THEN call[c].tokens ELSE 0)
  PROVE  Ledger(a)'
<1> DEFINE logged == SumFunctionOnSet(Tokens(audit), PaidLog(a))
           before == IF c \in Owed(a) THEN call[c].tokens ELSE 0
           after == IF c \in Owed(a)' THEN r.tokens ELSE 0
<1>1. PICK rest \in Nat :
           /\ SumFunctionOnSet(Tokens(call), Owed(a)) = rest + before
           /\ SumFunctionOnSet(Tokens(call'), Owed(a)') = rest + after
  BY OwedStep
<1>2. SumFunctionOnSet(Tokens(audit'), PaidLog(a)') = logged
  BY DEF PaidLog
<1>3. /\ budgets[a] \in Nat /\ budgets'[a] \in Nat /\ DefaultBudget \in Nat
      /\ call[c].tokens \in Nat /\ r.tokens \in Nat
  BY GovernanceAssumption DEF ServedInv, TypeOK, Call
<1>4. before \in Nat /\ after \in Nat /\ budgets[a] - budgets'[a] = after - before
  BY <1>3
<1>5. logged \in Nat
  <2>1. IsFiniteSet(PaidLog(a)) /\ Weighs(Tokens(audit), PaidLog(a))
    <3>1. /\ Len(audit) \in Nat /\ DOMAIN audit = 1 .. Len(audit)
          /\ \A i \in DOMAIN audit : audit[i] \in AuditRecord
      BY DEF ServedInv, TypeOK
    <3>2. PaidLog(a) \subseteq 1 .. Len(audit)
      BY <3>1 DEF PaidLog
    <3>3. IsFiniteSet(1 .. Len(audit))
      BY <3>1, FS_Interval
    <3>4. QED
      BY <3>1, <3>2, <3>3, FS_Subset DEF Weighs, PaidLog, Tokens, AuditRecord
  <2>2. QED
    BY <2>1, SumLaws
<1>6. DefaultBudget - budgets[a] = logged + (rest + before)
  BY <1>1 DEF Ledger
<1> HIDE DEF logged, before, after
<1>7. DefaultBudget - budgets'[a] = logged + (rest + after)
  BY <1>1, <1>3, <1>4, <1>5, <1>6
<1>8. QED
  BY <1>1, <1>2, <1>7 DEF Ledger, logged, after

(* A query that is logged is owed no more.                                     *)
LEMMA LedgerLogged ==
  ASSUME ServedInv, ServedInv', NEW c \in Callers, NEW r, call' = [call EXCEPT ![c] = r],
         audit' = Append(audit, Entry(c)), UNCHANGED budgets,
         call[c].at = "push", r.at \notin {"seq", "push"},
         NEW a \in Agents, Ledger(a)
  PROVE  Ledger(a)'
<1> DEFINE e == Entry(c)
           logged == SumFunctionOnSet(Tokens(audit), PaidLog(a))
           cost == IF e.agent = a /\ PaidQuery(e) THEN e.tokens ELSE 0
<1>1. PICK rest \in Nat :
           /\ SumFunctionOnSet(Tokens(call), Owed(a)) =
                 rest + (IF c \in Owed(a) THEN call[c].tokens ELSE 0)
           /\ SumFunctionOnSet(Tokens(call'), Owed(a)') =
                 rest + (IF c \in Owed(a)' THEN r.tokens ELSE 0)
  BY OwedStep
<1>2. call[c] \in Call /\ AgentOf[c] \in Agents /\ call'[c] = r
  BY GovernanceAssumption DEF ServedInv, TypeOK
<1>3. /\ e \in AuditRecord
      /\ e.agent = AgentOf[c] /\ e.tokens = call[c].tokens /\ PaidQuery(e) = PaidQuery(call[c])
  BY <1>2 DEF Entry, AuditRecord, Call, PaidQuery
<1>4. c \notin Owed(a)' /\ (c \in Owed(a) <=> e.agent = a /\ PaidQuery(e))
  BY <1>2, <1>3 DEF Owed
<1>5. /\ logged \in Nat
      /\ SumFunctionOnSet(Tokens(audit'), PaidLog(a)') = logged + cost
  <2> HIDE DEF e
  <2>1. audit' = Append(audit, e)
    BY DEF e
  <2>2. QED
    BY <1>3, <2>1, PaidLogStep
<1>6. cost \in Nat
  <2> HIDE DEF e
  <2>1. QED
    BY <1>3 DEF AuditRecord
<1>7. /\ SumFunctionOnSet(Tokens(call), Owed(a)) = rest + cost
      /\ SumFunctionOnSet(Tokens(call'), Owed(a)') = rest
  <2> HIDE DEF e
  <2>1. QED
    BY <1>1, <1>3, <1>4
<1>8. DefaultBudget - budgets[a] = logged + (rest + cost)
  <2> HIDE DEF e, cost, logged
  <2>1. QED
    BY <1>7 DEF Ledger, logged
<1> HIDE DEF logged, cost
<1>9. DefaultBudget - budgets[a] = (logged + cost) + rest
  BY <1>5, <1>6, <1>8
<1>10. QED
  BY <1>5, <1>7, <1>9 DEF Ledger
LEMMA LedgerStep ==
  ASSUME ServedInv, ServedInv', [Next]_vars, NEW a \in Agents, Ledger(a)
  PROVE  Ledger(a)'
<1>1. CASE UNCHANGED <<budgets, audit, call>>
  BY <1>1 DEF Ledger, PaidLog, Owed
<1>2. /\ budgets \in [Agents -> 0 .. DefaultBudget] /\ DefaultBudget \in Nat
      /\ call \in [Callers -> Call] /\ \A c \in Callers : call[c].tokens \in Nat
  BY GovernanceAssumption DEF ServedInv, TypeOK, Call
<1>3. \A c \in Callers : call'[c].tokens \in Nat
  BY DEF ServedInv, TypeOK, Call
<1>4. ASSUME NEW c \in Callers, NEW r, call' = [call EXCEPT ![c] = r],
             UNCHANGED <<budgets, audit>>,
             c \in Owed(a) <=> c \in Owed(a)', c \in Owed(a) => r.tokens = call[c].tokens
      PROVE  Ledger(a)'
  <2>1. budgets[a] - budgets'[a] = 0 /\ r.tokens \in Nat
    BY <1>2, <1>3, <1>4
  <2>2. (IF c \in Owed(a)' THEN r.tokens ELSE 0)
          - (IF c \in Owed(a) THEN call[c].tokens ELSE 0) = 0
    BY <1>2, <1>4, <2>1
  <2>3. QED
    BY <1>4, <2>1, <2>2, LedgerKept
<1>5. ASSUME NEW c \in Callers, NEW r, call' = [call EXCEPT ![c] = r],
             UNCHANGED <<budgets, audit>>,
             call[c].at \notin {"seq", "push"} \/ ~ PaidQuery(call[c]),
             r.at \notin {"seq", "push"} \/ ~ PaidQuery(r)
      PROVE  Ledger(a)'
  <2>1. call'[c] = r
    BY <1>2, <1>5
  <2>2. c \notin Owed(a) /\ c \notin Owed(a)'
    BY <1>5, <2>1 DEF Owed
  <2>3. QED
    BY <1>4, <1>5, <2>2
<1>6. ASSUME NEW c \in Callers, PutVector(c) PROVE Ledger(a)'
  <2>1. PICK s \in Sids, v \in Values :
          call' = [call EXCEPT ![c] =
                  [Idle EXCEPT !.at = "seq", !.op = "write", !.sid = s, !.joined = <<v>>,
                               !.decision =
                                 Authorize(AgentOf[c], "write", HeaderCategory(v))]]
    BY <1>6 DEF PutVector
  <2> DEFINE r == [Idle EXCEPT !.at = "seq", !.op = "write", !.sid = s, !.joined = <<v>>,
                               !.decision =
                                 Authorize(AgentOf[c], "write", HeaderCategory(v))]
  <2>2. r.op = "write"
    BY DEF Idle
  <2>3. call[c].at = "idle" /\ UNCHANGED <<budgets, audit>>
    BY <1>6 DEF PutVector, Begin, Idle
  <2>4. call' = [call EXCEPT ![c] = r]
    BY <2>1
  <2> HIDE DEF r
  <2>5. ~ PaidQuery(r)
    BY <2>2 DEF PaidQuery
  <2>6. QED
    BY <1>5, <2>3, <2>4, <2>5
<1>7. ASSUME NEW c \in Callers, Get(c) PROVE Ledger(a)'
  <2>1. PICK s \in Sids :
          IF truth[s] = Absent THEN UNCHANGED call
          ELSE LET out == Disclose(AgentOf[c], <<truth[s]>>)
               IN  call' = [call EXCEPT ![c] =
                  [Idle EXCEPT !.at = "seq", !.op = "get", !.sid = s, !.out = out,
                               !.decision = Authorize(AgentOf[c], "read", truth[s].cat),
                               !.tokens = CostOf(out)]]
    BY <1>7 DEF Get
  <2> DEFINE out == Disclose(AgentOf[c], <<truth[s]>>)
             cost == CostOf(out)
             r == [Idle EXCEPT !.at = "seq", !.op = "get", !.sid = s, !.out = out,
                               !.decision = Authorize(AgentOf[c], "read", truth[s].cat),
                               !.tokens = cost]
  <2>2. UNCHANGED call \/ call' = [call EXCEPT ![c] = r]
    BY <2>1
  <2>3. call[c].at = "idle" /\ UNCHANGED <<budgets, audit>>
    BY <1>7 DEF Get, Begin, Idle
  <2> HIDE DEF out, cost
  <2>4. r.op = "get"
    BY DEF Idle
  <2> HIDE DEF r
  <2>5. ~ PaidQuery(r)
    BY <2>4 DEF PaidQuery
  <2>6. QED
    BY <1>1, <1>5, <2>2, <2>3, <2>5
<1>8. ASSUME NEW c \in Callers, QueryPlanned(c) PROVE Ledger(a)'
  <2>1. PICK todo : call' = [call EXCEPT ![c] = [Idle EXCEPT !.at = "join", !.op = "query",
                                                          !.todo = todo]]
    BY <1>8 DEF QueryPlanned
  <2> DEFINE r == [Idle EXCEPT !.at = "join", !.op = "query", !.todo = todo]
  <2>2. r.at = "join" /\ call' = [call EXCEPT ![c] = r]
    BY <2>1 DEF Idle
  <2>3. call[c].at = "idle" /\ UNCHANGED <<budgets, audit>>
    BY <1>8 DEF QueryPlanned, Begin, Idle
  <2> HIDE DEF r
  <2>4. QED
    BY <1>5, <2>2, <2>3
<1>9. ASSUME NEW c \in Callers, Join(c) PROVE Ledger(a)'
  <2> DEFINE b == call[c]
  <2>1. PICK j : call' = [call EXCEPT ![c].joined = j, ![c].todo = Tail(@)]
    BY <1>9 DEF Join
  <2> DEFINE r == [b EXCEPT !.joined = j, !.todo = Tail(@)]
  <2>2. call' = [call EXCEPT ![c] = r] /\ b.at = "join" /\ b \in Call
    BY <1>2, <1>9, <2>1 DEF Join
  <2>3. UNCHANGED <<budgets, audit>>
    BY <1>9 DEF Join
  <2> HIDE DEF b
  <2>4. r.at = b.at
    BY <2>2 DEF Call
  <2> HIDE DEF r
  <2>5. QED
    BY <1>5, <2>2, <2>3, <2>4 DEF b
<1>10. ASSUME NEW c \in Callers, Charge(c) PROVE Ledger(a)'
  <2> DEFINE b == call[c]
             out == Disclose(AgentOf[c], call[c].joined)
             cost == CostOf(out)
             r1 == [b EXCEPT !.at = "seq", !.tokens = cost, !.decision = "allow", !.out = out]
             r2 == [b EXCEPT !.at = "seq", !.tokens = cost, !.decision = "deny"]
  <2>1. /\ b.at = "join" /\ UNCHANGED audit
        /\ \/ /\ budgets[AgentOf[c]] >= cost
              /\ budgets' = [budgets EXCEPT ![AgentOf[c]] = @ - cost]
              /\ call' = [call EXCEPT ![c] = r1]
           \/ UNCHANGED budgets /\ call' = [call EXCEPT ![c] = r2]
    BY <1>2, <1>10 DEF Charge, TrySpend
  <2>2. b \in Call /\ b.op = "query" /\ AgentOf[c] \in Agents
    BY <1>2, <2>1, GovernanceAssumption DEF ServedInv, CallIsSafe
  <2> HIDE DEF b, out, cost
  <2>3. r1.at = "seq" /\ r1.tokens = cost /\ r1.decision = "allow" /\ r1.op = "query"
    BY <2>2 DEF Call
  <2>4. r2.at = "seq" /\ r2.decision = "deny"
    BY <2>2 DEF Call
  <2> HIDE DEF r1, r2
  <2>5. CASE UNCHANGED budgets /\ call' = [call EXCEPT ![c] = r2]
    BY <1>5, <2>1, <2>4, <2>5 DEF b, PaidQuery
  <2>6. CASE /\ budgets[AgentOf[c]] >= cost
             /\ budgets' = [budgets EXCEPT ![AgentOf[c]] = @ - cost]
             /\ call' = [call EXCEPT ![c] = r1]
    <3>1. call'[c] = r1
      BY <1>2, <2>6
    <3>2. c \notin Owed(a) /\ (c \in Owed(a)' <=> AgentOf[c] = a)
      BY <2>1, <2>3, <3>1 DEF Owed, PaidQuery, b
    <3>3. cost \in Nat
      BY <1>3, <2>3, <3>1
    <3>4. budgets[a] - budgets'[a] = IF AgentOf[c] = a THEN cost ELSE 0
      <4>1. CASE AgentOf[c] = a
        <5>1. budgets'[a] = budgets[a] - cost /\ budgets[a] \in Nat
          BY <1>2, <2>6, <4>1
        <5>2. QED
          BY <3>3, <4>1, <5>1
      <4>2. CASE AgentOf[c] # a
        <5>1. budgets'[a] = budgets[a] /\ budgets[a] \in Nat
          BY <1>2, <2>6, <4>2
        <5>2. QED
          BY <4>2, <5>1
      <4>3. QED
        BY <4>1, <4>2
    <3>5. budgets[a] - budgets'[a] = (IF c \in Owed(a)' THEN r1.tokens ELSE 0)
                                       - (IF c \in Owed(a) THEN call[c].tokens ELSE 0)
      BY <2>3, <3>2, <3>3, <3>4
    <3>6. QED
      BY <2>1, <2>6, <3>5, LedgerKept
  <2>7. QED
    BY <2>1, <2>5, <2>6
<1>11. ASSUME NEW c \in Callers, TakeSeq(c) PROVE Ledger(a)'
  <2> DEFINE b == call[c]
             r == [b EXCEPT !.at = "push", !.seq = auditSeq]
  <2>1. /\ b.at = "seq" /\ UNCHANGED <<budgets, audit>>
        /\ call' = [call EXCEPT ![c] = r] /\ b \in Call
    BY <1>2, <1>11 DEF TakeSeq
  <2> HIDE DEF b
  <2>2. /\ r.at = "push" /\ r.tokens = b.tokens /\ r.op = b.op
        /\ r.decision = b.decision
    BY <2>1 DEF Call
  <2>3. call'[c] = r
    BY <1>2, <2>1
  <2> HIDE DEF r
  <2>4. c \in Owed(a) <=> c \in Owed(a)'
    BY <2>1, <2>2, <2>3 DEF Owed, PaidQuery, b
  <2>5. QED
    BY <1>4, <2>1, <2>2, <2>4 DEF b
<1>12. ASSUME NEW c \in Callers, Push(c) PROVE Ledger(a)'
  <2> DEFINE b == call[c]
             r == [b EXCEPT !.at = "commit"]
  <2>1. /\ audit' = Append(audit, Entry(c)) /\ UNCHANGED budgets
        /\ b.at = "push" /\ b \in Call
        /\ call' = [call EXCEPT ![c] = r] \/ call' = [call EXCEPT ![c] = Idle]
    BY <1>2, <1>12 DEF Push
  <2> HIDE DEF b
  <2>2. r.at = "commit" /\ Idle.at = "idle"
    BY <2>1 DEF Call, Idle
  <2> HIDE DEF r
  <2>3. call[c].at = "push" /\ "commit" \notin {"seq", "push"} /\ "idle" \notin {"seq", "push"}
    BY <2>1 DEF b
  <2>4. QED
    BY <2>1, <2>2, <2>3, LedgerLogged
<1>13. ASSUME NEW c \in Callers, Commit(c) PROVE Ledger(a)'
  <2>1. /\ call[c].at = "commit" /\ UNCHANGED <<budgets, audit>>
        /\ call' = [call EXCEPT ![c] = Idle]
    BY <1>13 DEF Commit
  <2>2. Idle.at = "idle"
    BY DEF Idle
  <2>3. QED
    BY <1>5, <2>1, <2>2
<1>14. QED
  BY <1>1, <1>6, <1>7, <1>8, <1>9, <1>10, <1>11, <1>12, <1>13 DEF Next, vars
(* The numbers that are in the log or held by a caller.                          *)
Numbers == {audit[i].seq : i \in DOMAIN audit} \union {call[c].seq : c \in Logging}

LEMMA NumbersAreDense ==
  AuditNumbersAreDense <=>
    Numbers = 0 .. auditSeq - 1 /\ Len(audit) + Cardinality(Logging) = auditSeq
  BY DEF AuditNumbersAreDense, Numbers, Logging

LEMMA LoggingIsFinite ==
  ASSUME ServedInv
  PROVE  IsFiniteSet(Logging) /\ Cardinality(Logging) \in Nat /\ Len(audit) \in Nat
<1>1. Logging \subseteq Active
  BY DEF Logging, Active
<1>2. IsFiniteSet(Logging)
  BY <1>1, FS_Subset DEF ServedInv
<1>3. QED
  BY <1>2, FS_CardinalityType DEF ServedInv, TypeOK

LEMMA NumbersStep ==
  ASSUME ServedInv, ServedInv', AuditNumbersAreDense, [Next]_vars
  PROVE  AuditNumbersAreDense'
<1>1. /\ call \in [Callers -> Call] /\ auditSeq \in Nat
      /\ DOMAIN audit = 1 .. Len(audit) /\ Len(audit) \in Nat
  BY DEF ServedInv, TypeOK
<1>2. CASE UNCHANGED <<audit, auditSeq, Numbers, Logging>>
  <2>1. Numbers = 0 .. auditSeq - 1 /\ Len(audit) + Cardinality(Logging) = auditSeq
    BY NumbersAreDense
  <2>2. Numbers' = 0 .. auditSeq' - 1 /\ Len(audit') + Cardinality(Logging') = auditSeq'
    BY <1>2, <2>1
  <2>3. QED
    BY <2>2 DEF AuditNumbersAreDense, Numbers, Logging
<1>3. ASSUME NEW c \in Callers, NEW r, call' = [call EXCEPT ![c] = r],
             UNCHANGED <<audit, auditSeq>>, call[c].at # "push", r.at # "push"
      PROVE  AuditNumbersAreDense'
  <2>1. Logging' = Logging /\ \A d \in Logging : call'[d] = call[d]
    BY <1>1, <1>3 DEF Logging
  <2>2. Numbers' = Numbers
    BY <1>3, <2>1 DEF Numbers
  <2>3. QED
    BY <1>2, <1>3, <2>1, <2>2
<1>4. ASSUME NEW c \in Callers, TakeSeq(c) PROVE AuditNumbersAreDense'
  <2>1. /\ call[c].at = "seq" /\ audit' = audit /\ auditSeq' = auditSeq + 1
        /\ call' = [call EXCEPT ![c].at = "push", ![c].seq = auditSeq]
    BY <1>4 DEF TakeSeq
  <2>2. /\ call'[c].at = "push" /\ call'[c].seq = auditSeq
        /\ \A d \in Callers : d # c => call'[d] = call[d]
    BY <1>1, <2>1 DEF Call
  <2>3. Logging' = Logging \union {c} /\ c \notin Logging
    BY <2>1, <2>2 DEF Logging
  <2>4. Cardinality(Logging') = Cardinality(Logging) + 1
    BY <2>3, LoggingIsFinite, FS_AddElement
  <2>5. Numbers' = Numbers \union {auditSeq}
    <3>1. {call'[d].seq : d \in Logging'} = {call[d].seq : d \in Logging} \union {auditSeq}
      BY <2>2, <2>3 DEF Logging
    <3>2. QED
      BY <2>1, <3>1 DEF Numbers
  <2>6. Numbers = 0 .. auditSeq - 1 /\ Len(audit) + Cardinality(Logging) = auditSeq
    BY NumbersAreDense
  <2>7. Numbers' = 0 .. auditSeq' - 1
    BY <1>1, <2>1, <2>5, <2>6
  <2>8. Len(audit') + Cardinality(Logging') = auditSeq'
    BY <2>1, <2>4, <2>6, LoggingIsFinite
  <2>9. QED
    BY <2>7, <2>8 DEF AuditNumbersAreDense, Numbers, Logging
<1>5. ASSUME NEW c \in Callers, Push(c) PROVE AuditNumbersAreDense'
  <2> DEFINE e == Entry(c)
             n == Len(audit) + 1
  <2>1. /\ call[c].at = "push" /\ audit' = Append(audit, e) /\ auditSeq' = auditSeq
        /\ \/ call' = [call EXCEPT ![c].at = "commit"]
           \/ call' = [call EXCEPT ![c] = Idle]
    BY <1>5 DEF Push
  <2>2. /\ call'[c].at # "push" /\ \A d \in Callers : d # c => call'[d] = call[d]
    BY <1>1, <2>1 DEF Call, Idle
  <2>3. e.seq = call[c].seq
    BY DEF Entry
  <2>4. Logging' = Logging \ {c} /\ c \in Logging
    BY <2>1, <2>2 DEF Logging
  <2>5. Cardinality(Logging') = Cardinality(Logging) - 1
    BY <2>4, LoggingIsFinite, FS_RemoveElement
  <2>6. /\ DOMAIN audit' = 1 .. n /\ audit'[n] = e /\ Len(audit') = n
        /\ \A i \in 1 .. Len(audit) : audit'[i] = audit[i]
    <3> HIDE DEF e
    <3>1. QED
      BY <1>1, <2>1 DEF ServedInv, TypeOK
  <2> HIDE DEF e
  <2>7. \A i : i \in 1 .. n <=> i \in 1 .. Len(audit) \/ i = n
    BY <1>1
  <2>8. {audit'[i].seq : i \in DOMAIN audit'}
          = {audit[i].seq : i \in DOMAIN audit} \union {call[c].seq}
    <3>1. {audit'[i].seq : i \in DOMAIN audit'}
            = {audit'[i].seq : i \in 1 .. Len(audit)} \union {audit'[n].seq}
      BY <2>6, <2>7
    <3>2. {audit'[i].seq : i \in 1 .. Len(audit)} = {audit[i].seq : i \in 1 .. Len(audit)}
      BY <2>6
    <3>3. QED
      BY <1>1, <2>3, <2>6, <3>1, <3>2
  <2>9. {call'[d].seq : d \in Logging'} \union {call[c].seq} = {call[d].seq : d \in Logging}
    BY <2>2, <2>4 DEF Logging
  <2>10. Numbers' = Numbers
    BY <2>8, <2>9 DEF Numbers
  <2>11. Numbers = 0 .. auditSeq - 1 /\ Len(audit) + Cardinality(Logging) = auditSeq
    BY NumbersAreDense
  <2>12. Len(audit') + Cardinality(Logging') = auditSeq'
    BY <1>1, <2>1, <2>5, <2>6, <2>11, LoggingIsFinite
  <2>13. Numbers' = 0 .. auditSeq' - 1
    BY <2>1, <2>10, <2>11
  <2>14. QED
    BY <2>12, <2>13 DEF AuditNumbersAreDense, Numbers, Logging
<1>6. ASSUME UNCHANGED <<audit, auditSeq>>, NEW c \in Callers,
             call[c].at # "push", call'[c].at # "push",
             \A d \in Callers : d # c => call'[d] = call[d]
      PROVE  AuditNumbersAreDense'
  <2>1. Logging' = Logging /\ \A d \in Logging : call'[d] = call[d]
    BY <1>6 DEF Logging
  <2>2. Numbers' = Numbers
    BY <1>6, <2>1 DEF Numbers
  <2>3. QED
    BY <1>2, <1>6, <2>1, <2>2
<1>7. ASSUME NEW c \in Callers,
             \/ PutVector(c) \/ Get(c) \/ QueryPlanned(c) \/ Join(c) \/ Charge(c) \/ Commit(c)
      PROVE  AuditNumbersAreDense'
  <2>1. UNCHANGED <<audit, auditSeq>>
    BY <1>7 DEF PutVector, Get, QueryPlanned, Join, Charge, Commit
  <2>2. call[c].at # "push"
    <3>1. CASE call[c] = Idle
      BY <3>1 DEF Idle
    <3>2. call[c] = Idle \/ call[c].at \in {"join", "commit"}
      BY <1>7 DEF PutVector, Get, QueryPlanned, Join, Charge, Commit, Begin
    <3>3. QED
      BY <3>1, <3>2
  <2>3. \A d \in Callers : d # c => call'[d] = call[d]
    BY <1>1, <1>7 DEF PutVector, Get, QueryPlanned, Join, Charge, TrySpend, Commit
  <2>4. call'[c].at # "push"
    <3>1. CASE PutVector(c)
      BY <1>1, <3>1 DEF PutVector, Idle
    <3>2. CASE Get(c)
      BY <1>1, <2>2, <3>2 DEF Get, Idle
    <3>3. CASE QueryPlanned(c)
      BY <1>1, <3>3 DEF QueryPlanned, Idle
    <3>4. CASE Join(c)
      BY <1>1, <2>2, <3>4 DEF Join, Call
    <3>5. CASE Charge(c)
      BY <1>1, <3>5 DEF Charge, TrySpend, Call
    <3>6. CASE Commit(c)
      BY <1>1, <3>6 DEF Commit, Idle
    <3>7. QED
      BY <1>7, <3>1, <3>2, <3>3, <3>4, <3>5, <3>6
  <2>5. QED
    BY <1>6, <2>1, <2>2, <2>3, <2>4
<1>8. CASE UNCHANGED vars
  BY <1>2, <1>8 DEF Numbers, Logging, vars
<1>9. QED
  BY <1>4, <1>5, <1>7, <1>8 DEF Next

(* The audit log accounts for every token spent and every number given out, for    *)
(* any number of callers that race for the budget, the number and the log          *)
(* (try_spend, record).                                                      *)
THEOREM AuditAccounts == Spec => []AuditAccountsForAll
<1>1. ASSUME Init PROVE AuditAccountsForAll
  <2>1. ServedInv /\ \A a \in Agents : budgets[a] = DefaultBudget
    BY <1>1, ServedInit DEF Init
  <2>2. DOMAIN audit = {} /\ Len(audit) = 0 /\ auditSeq = 0
    BY <1>1 DEF Init
  <2>3. \A c \in Callers : call[c].at = "idle"
    BY <1>1 DEF Init, Idle
  <2>4. \A a \in Agents : PaidLog(a) = {} /\ Owed(a) = {}
    BY <2>2, <2>3 DEF PaidLog, Owed
  <2>5. /\ SumFunctionOnSet(Tokens(audit), {}) = 0
        /\ SumFunctionOnSet(Tokens(call), {}) = 0
    <3>1. IsFiniteSet({}) /\ Weighs(Tokens(audit), {}) /\ Weighs(Tokens(call), {})
      BY FS_EmptySet DEF Weighs
    <3>2. QED
      BY <3>1, SumLaws
  <2>6. \A a \in Agents : Ledger(a)
    <3> SUFFICES ASSUME NEW a \in Agents PROVE Ledger(a)
      OBVIOUS
    <3>1. DefaultBudget - budgets[a] = 0
      BY <2>1, GovernanceAssumption
    <3>2. QED
      BY <2>4, <2>5, <3>1 DEF Ledger
  <2>7. Logging = {} /\ Numbers = {}
    BY <2>2, <2>3 DEF Logging, Numbers
  <2>8. AuditNumbersAreDense
    BY <2>2, <2>7, FS_EmptySet, NumbersAreDense
  <2>9. QED
    BY <2>6, <2>8, LedgerIsOfAgents DEF AuditAccountsForAll
<1>2. ASSUME ServedInv, ServedInv', AuditAccountsForAll, [Next]_vars PROVE AuditAccountsForAll'
  <2>1. \A a \in Agents : Ledger(a)'
    BY <1>2, LedgerStep, LedgerIsOfAgents DEF AuditAccountsForAll
  <2>2. LedgerMatchesAudit'
    BY <2>1 DEF LedgerMatchesAudit, Ledger, PaidLog, Owed
  <2>3. AuditNumbersAreDense'
    BY <1>2, NumbersStep DEF AuditAccountsForAll
  <2>4. QED
    BY <2>2, <2>3 DEF AuditAccountsForAll
<1>3. QED
  BY <1>1, <1>2, ServedInvariance, PTL DEF Spec

====
