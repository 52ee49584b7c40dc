---------------------------- MODULE NodeExecutor ----------------------------
(***************************************************************************)
(* NodeExecutor.execute_node for the nodes of one workflow that run at the *)
(* same time: validation, the two nested retry loops that share the        *)
(* variable `attempt`, output processing, and the BudgetEnforcer the nodes *)
(* share.  The nodes are of one budgeted kind (llm, tool, agent...).       *)
(*                                                                         *)
(* The node cache is looked up and never written (executor.py:451), so the *)
(* look-up always misses.  Events are best effort and left out.            *)
(***************************************************************************)
EXTENDS Integers, FiniteSets

CONSTANTS
  Nodes,       \* nodes being executed
  MaxRetries,  \* node -> retry_policy.max_attempts - 1, or node.retries
  MaxCalls,    \* the budget of this kind of node (max_llm_calls, ...)
  FailClosed,  \* production mode, or budget_fail_open off
  Halt         \* failure_policy is HALT

ASSUME ExecutorAssumption ==
  /\ IsFiniteSet(Nodes)
  /\ MaxRetries \in [Nodes -> Nat]
  /\ MaxCalls \in Nat
  /\ FailClosed \in BOOLEAN
  /\ Halt \in BOOLEAN

VARIABLES
  stage,       \* "start", "idle" (about to call), "calling", "done"
  outer,       \* iterations of the outer for loop already given up
  attempt,     \* the loop variable both loops assign
  calls,       \* times the node's executor was invoked
  verdict,     \* what execute_node gave its caller
  registered,  \* the BudgetEnforcer's counter for this kind
  overspent    \* its total cost is above org_budget_usd

budget == <<registered, overspent>>
vars == <<stage, outer, attempt, calls, verdict, budget>>

\* "returned" is a reply the executor itself marked failed, or an output that
\* is empty or does not validate; "exhausted" is the retry limit.
Verdicts == {"none", "ok", "returned", "exhausted", "invalid", "raised"}

Init ==
  /\ stage = [n \in Nodes |-> "start"]
  /\ outer = [n \in Nodes |-> 0]
  /\ attempt = [n \in Nodes |-> 0]
  /\ calls = [n \in Nodes |-> 0]
  /\ verdict = [n \in Nodes |-> "none"]
  /\ registered = 0
  /\ overspent = FALSE

End(n, v) ==
  /\ stage' = [stage EXCEPT ![n] = "done"]
  /\ verdict' = [verdict EXCEPT ![n] = v]

\* Under HALT a failure leaves execute_node as an exception.
Fail(n, v) == End(n, IF Halt THEN "raised" ELSE v)

\* Fault: a node that fails validation is validated again.
BeginAgain(n) ==
  /\ stage[n] = "start"
  /\ \/ stage' = [stage EXCEPT ![n] = "idle"] /\ UNCHANGED verdict
     \/ /\ verdict' = [verdict EXCEPT ![n] = IF @ = "none" THEN "invalid" ELSE "none"]
        /\ UNCHANGED stage
  /\ UNCHANGED <<outer, attempt, calls, budget>>

\* runtime_validate; a valid node enters the outer loop and the inner one.
Begin(n) ==
  /\ stage[n] = "start"
  /\ \/ stage' = [stage EXCEPT ![n] = "idle"] /\ UNCHANGED verdict
     \/ Fail(n, "invalid")
  /\ UNCHANGED <<outer, attempt, calls, budget>>

\* The executor is entered inside its sandbox.
Invoke(n) ==
  /\ stage[n] = "idle"
  /\ stage' = [stage EXCEPT ![n] = "calling"]
  /\ calls' = [calls EXCEPT ![n] = @ + 1]
  /\ UNCHANGED <<outer, attempt, verdict, budget>>

\* Fault: max_attempts counts the retries only.
ExecutorRaisesOnceMore(n) ==
  /\ stage[n] = "calling"
  /\ IF attempt[n] > MaxRetries[n]
       THEN Fail(n, "exhausted") /\ UNCHANGED attempt
       ELSE /\ attempt' = [attempt EXCEPT ![n] = @ + 1]
            /\ stage' = [stage EXCEPT ![n] = "idle"]
            /\ UNCHANGED verdict
  /\ UNCHANGED <<outer, calls, budget>>

\* The executor raised or timed out: the inner loop tries again until its
\* last attempt, whose exception the outer loop sees with the same `attempt`
\* and gives up.
ExecutorRaises(n) ==
  /\ stage[n] = "calling"
  /\ IF attempt[n] = MaxRetries[n]
       THEN Fail(n, "exhausted") /\ UNCHANGED attempt
       ELSE /\ attempt' = [attempt EXCEPT ![n] = @ + 1]
            /\ stage' = [stage EXCEPT ![n] = "idle"]
            /\ UNCHANGED verdict
  /\ UNCHANGED <<outer, calls, budget>>

\* An exception after the inner loop succeeded: the outer loop gives up only
\* if that was the last inner attempt or its own last iteration; otherwise
\* the inner loop starts again from attempt 0.
OuterExcept(n) ==
  IF attempt[n] >= MaxRetries[n] \/ outer[n] = MaxRetries[n]
    THEN Fail(n, "exhausted") /\ UNCHANGED <<outer, attempt>>
    ELSE /\ outer' = [outer EXCEPT ![n] = @ + 1]
         /\ attempt' = [attempt EXCEPT ![n] = 0]
         /\ stage' = [stage EXCEPT ![n] = "idle"]
         /\ UNCHANGED verdict

\* _coerce_output or the context store raised, before the budget is charged.
ProcessingRaises(n) ==
  /\ stage[n] = "calling"
  /\ OuterExcept(n)
  /\ UNCHANGED <<calls, budget>>

\* Fault: the counter is compared before it is incremented.
ViolationStale == registered > MaxCalls \/ overspent'

\* register_llm_call and its siblings, after counting.
Violation == registered' > MaxCalls \/ overspent'

\* The reply is charged to the budget (its cost may use up what is left).  A
\* violation raises when the enforcer fails closed; otherwise the result is
\* returned, successful or not.
ReplyCharged(n) ==
  /\ stage[n] = "calling"
  /\ registered' = registered + 1
  /\ overspent' \in {overspent, TRUE}
  /\ \/ Violation /\ FailClosed /\ OuterExcept(n)
     \/ /\ ~(Violation /\ FailClosed)
        /\ \E v \in {"ok", "returned"} : End(n, v)
        /\ UNCHANGED <<outer, attempt>>
  /\ UNCHANGED calls

\* A raw empty output is a failure that is neither charged nor retried.
ReplyEmpty(n) ==
  /\ stage[n] = "calling"
  /\ End(n, "returned")
  /\ UNCHANGED <<outer, attempt, calls, budget>>

\* Every node has its verdict.
AllDone == (\A n \in Nodes : stage[n] = "done") /\ UNCHANGED vars

Step(n) ==
  \/ Begin(n)
  \/ Invoke(n)
  \/ ExecutorRaises(n)
  \/ ProcessingRaises(n)
  \/ ReplyCharged(n)
  \/ ReplyEmpty(n)

Next == (\E n \in Nodes : Step(n)) \/ AllDone

Spec == Init /\ [][Next]_vars

\* The event loop runs every ready task; run_with_timeout ends every call.
FairSpec == Spec /\ \A n \in Nodes : WF_vars(Step(n))

-----------------------------------------------------------------------------
(***************************************************************************)
(* Properties                                                              *)
(***************************************************************************)
\* The loop counters of execute_node are naturals and verdicts are known ones.
TypeOK ==
  /\ stage \in [Nodes -> {"start", "idle", "calling", "done"}]
  /\ outer \in [Nodes -> Nat]
  /\ attempt \in [Nodes -> Nat]
  /\ calls \in [Nodes -> Nat]
  /\ verdict \in [Nodes -> Verdicts]
  /\ registered \in Nat
  /\ overspent \in BOOLEAN

\* RetryPolicy.max_attempts is "Maximum number of attempts (including the
\* first one)": no executor is invoked more often than that.  execute_node
\* breaks it: its outer loop starts the inner one again.
AttemptsWithinPolicy == \A n \in Nodes : calls[n] <= MaxRetries[n] + 1

\* What is left of that promise: as long as nothing that follows the
\* executor's reply has failed (its processing, the store, the budget), an
\* executor that raises or times out is invoked max_attempts times at most.
InnerLoopWithinPolicy ==
  \A n \in Nodes : outer[n] = 0 => calls[n] <= MaxRetries[n] + 1

\* The number of invocations the two loops allow at the worst.
CallsBounded ==
  \A n \in Nodes :
    calls[n] <= MaxRetries[n] * MaxRetries[n] + MaxRetries[n] + 1

Succeeded == {n \in Nodes : verdict[n] = "ok"}

\* However the nodes interleave, an enforcer that fails closed lets at most
\* the budgeted number of them succeed.
BudgetBoundsSuccesses == FailClosed => Cardinality(Succeeded) <= MaxCalls

\* Retrying always comes to an end: execute_node returns or raises.
EveryNodeEnds == \A n \in Nodes : <>(stage[n] = "done")
=============================================================================
