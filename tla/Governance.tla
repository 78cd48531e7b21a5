------------------------------- MODULE Governance -------------------------------
(***************************************************************************)
(* GovernedEngine: every call of an agent is checked by the policy, charged  *)
(* to the agent's token budget and written to the audit log (governance.rs). *)
(* Callers are threads, each acting for one agent; several act for the same. *)
(*                                                                         *)
(* A value is its category (its first byte), its length in bytes, and whether  *)
(* it begins with a header: without one its category is the first byte of the  *)
(* vector.  The vector search behind a query may propose any subjects in any   *)
(* order, and its filter may drop any of them.                                *)
(***************************************************************************)
EXTENDS Naturals, SequencesExt

CONSTANTS
  Agents, Callers,
  AgentOf,          \* the agent each caller acts for
  Sids,             \* subjects; 0 may be one, and is what a query is logged under
  Values,           \* the values stored: [cat, bytes, headed] records
  Absent,           \* no grain
  Rules,            \* the RuleSet, a sequence of [agent, action, effect, on]
  DefaultBudget,
  Ops,              \* what callers do: a subset of {"write", "get", "query"}
  MaxHits,          \* bound on the candidates of a query
  MaxCalls          \* bound on the number of calls

(* GrainRef.category is None: what no rule names. *)
NoCategory == "none"

ASSUME GovernanceAssumption ==
  /\ AgentOf \in [Callers -> Agents]
  /\ Sids \subseteq Nat
  /\ Absent \notin Values
  /\ \A v \in Values : v.bytes \in Nat /\ v.headed \in BOOLEAN
  /\ \A r \in ToSet(Rules) : r.on # NoCategory
  /\ DefaultBudget \in Nat /\ MaxHits \in Nat /\ MaxCalls \in Nat

VARIABLES
  truth,     \* subject -> newest value, or Absent
  budgets,   \* what is left of each agent's tokens
  audit,     \* the audit log
  auditSeq,  \* the next audit number
  call,      \* what each caller is doing
  calls,     \* how many calls were made
  given      \* history: what was handed to agents

vars == <<truth, budgets, audit, auditSeq, call, calls, given>>

(* `op` is history: the log itself tells a query from an allowed get of subject  *)
(* 0 by neither subject nor action.                                           *)
AuditRecord == [seq : Nat, agent : Agents, action : {"read", "write"},
                sid : Sids \union {0}, decision : {"allow", "mask", "deny"}, tokens : Nat,
                op : {"write", "get", "query"}]

(* A value as it is returned. *)
Shown == [val : Values, masked : BOOLEAN]

(* One call in progress: `joined` are the grains found, `out` what the caller *)
(* will get.                                                                *)
Call == [at : {"idle", "join", "seq", "push", "commit"}, op : {"write", "get", "query"},
         sid : Sids \union {0}, todo : Seq(Sids), joined : Seq(Values), out : Seq(Shown),
         decision : {"allow", "mask", "deny"}, tokens : Nat, seq : Nat]

Idle == [at |-> "idle", op |-> "get", sid |-> 0, todo |-> <<>>, joined |-> <<>>,
         out |-> <<>>, decision |-> "deny", tokens |-> 0, seq |-> 0]

TypeOK ==
  /\ truth \in [Sids -> Values \union {Absent}]
  /\ budgets \in [Agents -> 0 .. DefaultBudget]
  /\ audit \in Seq(AuditRecord)
  /\ auditSeq \in Nat
  /\ call \in [Callers -> Call]
  /\ calls \in 0 .. MaxCalls
  /\ given \subseteq [agent : Agents, shown : Shown]

(* The engine may hold grains before it is wrapped. *)
Init ==
  /\ truth \in [Sids -> Values \union {Absent}]
  /\ budgets = [a \in Agents |-> DefaultBudget]
  /\ audit = <<>> /\ auditSeq = 0
  /\ call = [c \in Callers |-> Idle] /\ calls = 0
  /\ given = {}

-----------------------------------------------------------------------------
(* Policy and token cost *)

(* Match::Any and Match::Category; all grains are under one predicate. *)
Matches(on, cat) == on = "any" \/ on = cat

(* What a write is judged by, as against the category reads find in what it     *)
(* stored: the first byte of its header.  The length of a header is asserted in  *)
(* debug builds only.                                                       *)
HeaderCategory(v) == IF v.headed THEN v.cat ELSE NoCategory

(* The effects of the rules that match: any deny wins, then mask (for reads), *)
(* then allow; no rule means deny.                                          *)
Authorize(agent, action, cat) ==
  LET effects == {r.effect : r \in {x \in ToSet(Rules) :
                    /\ x.agent = agent
                    /\ x.action = action
                    /\ Matches(x.on, cat)}}
  IN  IF "deny" \in effects THEN "deny"
      ELSE IF "mask" \in effects /\ action = "read" THEN "mask"
      ELSE IF "allow" \in effects THEN "allow"
      ELSE "deny"

GrainTokens(bytes) == bytes \div 4 + 8

RedactedBytes == 10

TokensOf(shown) ==
  GrainTokens(IF shown.masked THEN RedactedBytes ELSE shown.val.bytes)

CostOf(out) == FoldLeft(LAMBDA sum, s : sum + TokensOf(s), 0, out)

(* What is added to the answer for a value that was found: nothing if the      *)
(* policy denies it.                                                        *)
Seen_Unmasked(agent, v) ==
  IF Authorize(agent, "read", v.cat) = "deny" THEN <<>> ELSE << [val |-> v, masked |-> FALSE] >>

Seen(agent, v) ==
  LET may == Authorize(agent, "read", v.cat)
  IN  IF may = "deny" THEN <<>> ELSE << [val |-> v, masked |-> may = "mask"] >>

(* The grains an agent may see, as it may see them. *)
Disclose(agent, found) == FoldLeft(LAMBDA out, v : out \o Seen(agent, v), <<>>, found)

-----------------------------------------------------------------------------
(* Calls *)

Begin(c, op) ==
  /\ op \in Ops
  /\ call[c] = Idle
  /\ calls < MaxCalls
  /\ calls' = calls + 1

(* put_vector: the decision is recorded whatever it is. *)
PutVector(c) ==
  /\ Begin(c, "write")
  /\ \E s \in Sids, v \in Values :
       call' = [call EXCEPT ![c] =
                  [Idle EXCEPT !.at = "seq", !.op = "write", !.sid = s, !.joined = <<v>>,
                               !.decision =
                                 Authorize(AgentOf[c], "write", HeaderCategory(v))]]
  /\ UNCHANGED <<truth, budgets, audit, auditSeq, given>>

(* get: a grain that is not there is answered at once. *)
Get(c) ==
  /\ Begin(c, "get")
  /\ \E s \in Sids :
       IF truth[s] = Absent THEN UNCHANGED call
       ELSE LET out == Disclose(AgentOf[c], <<truth[s]>>)
            IN  call' = [call EXCEPT ![c] =
                  [Idle EXCEPT !.at = "seq", !.op = "get", !.sid = s, !.out = out,
                               !.decision = Authorize(AgentOf[c], "read", truth[s].cat),
                               !.tokens = CostOf(out)]]
  /\ UNCHANGED <<truth, budgets, audit, auditSeq, given>>

QueryPlanned(c) ==
  /\ Begin(c, "query")
  /\ \E todo \in UNION {[1 .. n -> Sids] : n \in 0 .. MaxHits} :
       /\ IsInjective(todo)
       /\ call' = [call EXCEPT ![c] = [Idle EXCEPT !.at = "join", !.op = "query",
                                                    !.todo = todo]]
  /\ UNCHANGED <<truth, budgets, audit, auditSeq, given>>

(* near_join_select reads one candidate from the truth as it is now. *)
Join(c) ==
  /\ call[c].at = "join" /\ call[c].todo # <<>>
  /\ LET found == truth[Head(call[c].todo)]
     IN  \E keep \in BOOLEAN :
           call' = [call EXCEPT
             ![c].joined = IF keep /\ found # Absent THEN Append(@, found) ELSE @,
             ![c].todo = Tail(@)]
  /\ UNCHANGED <<truth, budgets, audit, auditSeq, calls, given>>

(* The balance is not looked at. *)
TrySpend_Unchecked(c, out, cost) ==
  /\ budgets' = [budgets EXCEPT ![AgentOf[c]] = @ - cost]
  /\ call' = [call EXCEPT ![c].at = "seq", ![c].tokens = cost,
                          ![c].decision = "allow", ![c].out = out]

(* The query is charged what it can still pay. *)
TrySpend_Saturating(c, out, cost) ==
  /\ budgets' = [budgets EXCEPT ![AgentOf[c]] = IF @ >= cost THEN @ - cost ELSE 0]
  /\ call' = [call EXCEPT ![c].at = "seq", ![c].tokens = cost,
                          ![c].decision = "allow", ![c].out = out]

(* try_spend, under the budget lock; an unpaid query returns nothing. *)
TrySpend(c, out, cost) ==
  IF budgets[AgentOf[c]] >= cost
  THEN /\ budgets' = [budgets EXCEPT ![AgentOf[c]] = @ - cost]
       /\ call' = [call EXCEPT ![c].at = "seq", ![c].tokens = cost,
                               ![c].decision = "allow", ![c].out = out]
  ELSE /\ call' = [call EXCEPT ![c].at = "seq", ![c].tokens = cost,
                               ![c].decision = "deny"]
       /\ UNCHANGED budgets

Charge(c) ==
  /\ call[c].at = "join" /\ call[c].todo = <<>>
  /\ LET out == Disclose(AgentOf[c], call[c].joined)
     IN  TrySpend(c, out, CostOf(out))
  /\ UNCHANGED <<truth, audit, auditSeq, calls, given>>

-----------------------------------------------------------------------------
(* record *)

(* fetch_add, before the lock of the log is taken. *)
TakeSeq(c) ==
  /\ call[c].at = "seq"
  /\ call' = [call EXCEPT ![c].at = "push", ![c].seq = auditSeq]
  /\ auditSeq' = auditSeq + 1
  /\ UNCHANGED <<truth, budgets, audit, calls, given>>

Hand(c) ==
  [agent : {AgentOf[c]}, shown : ToSet(call[c].out)]

Entry(c) ==
  [seq |-> call[c].seq, agent |-> AgentOf[c],
   action |-> IF call[c].op = "write" THEN "write" ELSE "read",
   sid |-> call[c].sid, decision |-> call[c].decision, tokens |-> call[c].tokens,
   op |-> call[c].op]

(* A write that was masked or denied goes on as well. *)
Push_WriteAnyway(c) ==
  /\ call[c].at = "push"
  /\ audit' = Append(audit, Entry(c))
  /\ IF call[c].op = "write"
     THEN call' = [call EXCEPT ![c].at = "commit"] /\ UNCHANGED given
     ELSE call' = [call EXCEPT ![c] = Idle] /\ given' = given \union Hand(c)
  /\ UNCHANGED <<truth, budgets, auditSeq, calls>>

(* The entry is pushed; a read is then answered, a denied write refused. *)
Push(c) ==
  /\ call[c].at = "push"
  /\ audit' = Append(audit, Entry(c))
  /\ IF call[c].op = "write" /\ call[c].decision # "deny"
     THEN call' = [call EXCEPT ![c].at = "commit"] /\ UNCHANGED given
     ELSE call' = [call EXCEPT ![c] = Idle] /\ given' = given \union Hand(c)
  /\ UNCHANGED <<truth, budgets, auditSeq, calls>>

(* GrainEngine::put_vector; a repeated idempotency key or a failed log leaves *)
(* the truth as it was.                                                     *)
Commit(c) ==
  /\ call[c].at = "commit"
  /\ truth' \in {truth, [truth EXCEPT ![call[c].sid] = Head(call[c].joined)]}
  /\ call' = [call EXCEPT ![c] = Idle]
  /\ UNCHANGED <<budgets, audit, auditSeq, calls, given>>

Next ==
  \E c \in Callers :
    \/ PutVector(c) \/ Get(c) \/ QueryPlanned(c)
    \/ Join(c) \/ Charge(c)
    \/ TakeSeq(c) \/ Push(c) \/ Commit(c)

Spec == Init /\ [][Next]_vars

-----------------------------------------------------------------------------
(* Safety *)

Tokens(records) == [x \in DOMAIN records |-> records[x].tokens]

PaidQuery(r) == r.op = "query" /\ r.decision = "allow"

(* The tokens an agent has spent are those of its queries in the audit log    *)
(* and of its queries that were charged and not logged yet: concurrent        *)
(* queries of one agent neither lose a charge nor are served on credit        *)
(* (try_spend, record).                                                      *)
LedgerMatchesAudit ==
  \A a \in Agents :
    LET logged == {i \in DOMAIN audit : audit[i].agent = a /\ PaidQuery(audit[i])}
        owed   == {c \in Callers : /\ AgentOf[c] = a /\ call[c].at \in {"seq", "push"}
                                   /\ PaidQuery(call[c])}
    IN  DefaultBudget - budgets[a] =
          SumFunctionOnSet(Tokens(audit), logged) + SumFunctionOnSet(Tokens(call), owed)

(* What an agent was given unmasked it may read, judged by the very content   *)
(* it was given, although writers may replace the grain, and so its category,  *)
(* between the search, the join and the answer (query_planned, get).           *)
NothingLeaks ==
  \A g \in given :
    LET may == Authorize(g.agent, "read", g.shown.val.cat)
    IN  may # "deny" /\ (may = "mask" => g.shown.masked)

(* Audit numbers are a gap-free total order of what was logged or is about to  *)
(* be, whichever caller gets to the log first (record).                       *)
AuditNumbersAreDense ==
  LET held == {c \in Callers : call[c].at = "push"}
  IN  /\ {audit[i].seq : i \in DOMAIN audit} \union {call[c].seq : c \in held}
           = 0 .. auditSeq - 1
      /\ Len(audit) + Cardinality(held) = auditSeq

(* The audit log accounts for every token spent and every number given out,     *)
(* whatever callers race for the budget, the number and the log.               *)
AuditAccountsForAll == LedgerMatchesAudit /\ AuditNumbersAreDense

(* The truth changes only by a write that the policy allows, judged by the header *)
(* of what is stored, and that is in the audit log already (put_vector).         *)
WritesAreAuthorizedAndLogged ==
  [][\A s \in Sids : truth'[s] # truth[s] =>
       \E i \in DOMAIN audit :
         /\ audit[i].action = "write" /\ audit[i].sid = s
         /\ Authorize(audit[i].agent, "write", HeaderCategory(truth'[s])) = "allow"]_vars

-----------------------------------------------------------------------------
(* A statement of governance.rs that the code does not keep *)

(* "debited by the tokens actually returned, so an agent cannot exceed it": a   *)
(* get returns tokens and debits nothing.                                     *)
BudgetIsNeverExceeded ==
  \A a \in Agents :
    SumFunctionOnSet(Tokens(audit),
                     {i \in DOMAIN audit : audit[i].agent = a /\ audit[i].decision # "deny"})
      <= DefaultBudget

=============================================================================
