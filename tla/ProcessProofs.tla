---------------------------- MODULE ProcessProofs ---------------------------
(***************************************************************************)
(* What the concurrent nodes and runs of one process share, and what each  *)
(* of them may rely on nevertheless: the resource limits their sandboxes   *)
(* lower (ResourceSandbox), the socket constructor that code nodes block   *)
(* (RecursiveFlow), the current context and the file behind it             *)
(* (ContextManager).  The three specifications share no variables; their   *)
(* proofs are independent.                                                 *)
(***************************************************************************)
EXTENDS ResourceSandbox, RecursiveFlow, ContextManager, FiniteSetTheorems, TLAPS

(***************************************************************************)
(* Limits: for any number of sandboxes and any limits, code in an          *)
(* unprivileged process is confined however sandboxes overlap, and         *)
(* properly nested ones restore the limit of a privileged process.         *)
(***************************************************************************)
\* Soft limits stay below hard ones, in snapshots too, and the hard limit of
\* an unprivileged process is within the limit of every sandbox it is in.
LimitInv ==
  /\ soft <= hard
  /\ \A s \in Sandboxes : original[s][1] <= original[s][2]
  /\ ~privileged => \A s \in Inside : hard <= Limit[s]

Own(s) == <<Limit[s], Limit[s]>>
OriginalLimit == <<OriginalSoft, OriginalHard>>

\* `found` is what a sandbox finds when the sandboxes `open` are open.
Finds(found, open) ==
  \/ open = {} /\ found = OriginalLimit
  \/ \E t \in open : open = under[t] \cup {t} /\ t \notin under[t] /\ found = Own(t)

\* Nested sandboxes form a stack: the process has the limit of the innermost
\* one, and each has original that of the one around it.
StackInv ==
  privileged /\ ~crossed =>
    /\ Finds(<<soft, hard>>, Inside)
    /\ \A s \in Inside : under[s] \subseteq Inside /\ Finds(original[s], under[s])

SandboxInv == SandboxTypeOK /\ LimitInv /\ StackInv

\* A process starts outside every sandbox.
LEMMA SandboxInvInit == SandboxInit => SandboxInv
<1> SUFFICES ASSUME SandboxInit PROVE SandboxInv
    OBVIOUS
<1> USE SandboxAssumption DEF SandboxInit
<1>1. SandboxTypeOK
    BY DEF SandboxTypeOK
<1>2. Inside = {}
    BY DEF Inside
<1>3. LimitInv
    BY <1>2 DEF LimitInv
<1>4. StackInv
    BY <1>2 DEF StackInv, Finds, OriginalLimit
<1> QED
    BY <1>1, <1>3, <1>4 DEF SandboxInv

\* setrlimit keeps a limit that is ordered ordered, and never raises the hard
\* limit of an unprivileged process.
LEMMA SetRlimitFacts ==
  ASSUME SandboxTypeOK, NEW new \in Nat \X Nat, SetRlimit(new), soft <= hard, new[1] <= new[2]
  PROVE  /\ soft' \in Nat /\ hard' \in Nat
         /\ soft' <= hard'
         /\ privileged => <<soft', hard'>> = new
         /\ ~privileged => hard' <= hard
         /\ ~privileged => hard' <= new[2]
BY DEF SetRlimit, SandboxTypeOK

\* Entering one more sandbox.
LEMMA EnterPreserves ==
  ASSUME SandboxInv, NEW s \in Sandboxes, Enter(s)
  PROVE  SandboxInv'
<1> USE DEF SandboxInv
<1>1. /\ Own(s) \in Nat \X Nat /\ Own(s)[1] <= Own(s)[2] /\ Own(s)[2] = Limit[s]
      /\ SetRlimit(Own(s)) /\ soft <= hard
    BY SandboxAssumption DEF Own, Enter, LimitInv
<1>2. /\ soft' \in Nat /\ hard' \in Nat
      /\ soft' <= hard'
      /\ privileged => <<soft', hard'>> = Own(s)
      /\ ~privileged => hard' <= hard
      /\ ~privileged => hard' <= Limit[s]
    BY <1>1, SetRlimitFacts
<1>3. Inside' = Inside \cup {s} /\ s \notin Inside
    BY DEF Inside, Enter, SandboxTypeOK
<1>4. SandboxTypeOK'
  <2>1. original' \in [Sandboxes -> Nat \X Nat]
      BY DEF Enter, SandboxTypeOK
  <2>2. under' \in [Sandboxes -> SUBSET Sandboxes]
      BY DEF Enter, SandboxTypeOK, Inside
  <2> QED
      BY <1>2, <2>1, <2>2 DEF Enter, SandboxTypeOK
<1>5. LimitInv'
  <2>1. \A t \in Sandboxes : original'[t][1] <= original'[t][2]
      BY DEF Enter, SandboxTypeOK, LimitInv
  <2>2. ASSUME ~privileged, NEW t \in Inside' PROVE hard' <= Limit[t]
    <3>1. CASE t = s
        BY <1>2, <2>2, <3>1
    <3>2. CASE t \in Inside
      <4>1. t \in Sandboxes /\ Limit[t] \in Nat /\ hard \in Nat /\ hard <= Limit[t]
          BY <2>2, <3>2, SandboxAssumption DEF Inside, LimitInv, SandboxTypeOK
      <4> QED
          BY <1>2, <2>2, <4>1
    <3> QED
        BY <1>3, <2>2, <3>1, <3>2
  <2>3. privileged' = privileged
      BY DEF Enter
  <2> QED
      BY <1>2, <2>1, <2>2, <2>3 DEF LimitInv
<1>6. StackInv'
  <2> SUFFICES ASSUME privileged, ~crossed
               PROVE  /\ Finds(<<soft, hard>>, Inside)'
                      /\ \A t \in Inside' : under'[t] \subseteq Inside'
                                            /\ Finds(original[t], under[t])'
      BY DEF StackInv, Enter
  <2>1. under'[s] = Inside /\ original'[s] = <<soft, hard>>
      BY DEF Enter, SandboxTypeOK
  <2>2. \A t \in Inside : under'[t] = under[t] /\ original'[t] = original[t]
      BY <1>3 DEF Enter, SandboxTypeOK, Inside
  <2>3. /\ Finds(<<soft, hard>>, Inside)
        /\ \A t \in Inside : under[t] \subseteq Inside /\ Finds(original[t], under[t])
      BY DEF StackInv
  <2>4. Finds(<<soft, hard>>, Inside)'
      BY <1>2, <1>3, <2>1 DEF Finds, Own
  <2>5. Finds(original[s], under[s])'
      BY <2>1, <2>2, <2>3 DEF Finds, Own, OriginalLimit
  <2>6. ASSUME NEW t \in Inside PROVE Finds(original[t], under[t])'
    <3>1. Finds(original[t], under[t]) /\ under[t] \subseteq Inside
        BY <2>3
    <3>2. \A u \in under[t] : under'[u] = under[u]
        BY <2>2, <3>1
    <3> QED
        BY <2>2, <3>1, <3>2 DEF Finds, Own, OriginalLimit
  <2> QED
      BY <1>3, <2>1, <2>2, <2>3, <2>4, <2>5, <2>6
<1> QED
    BY <1>4, <1>5, <1>6

\* Leaving a sandbox, innermost or not.
LEMMA ExitPreserves ==
  ASSUME SandboxInv, NEW s \in Sandboxes, Exit(s)
  PROVE  SandboxInv'
<1> USE DEF SandboxInv
<1>1. /\ original[s] \in Nat \X Nat /\ original[s][1] <= original[s][2]
      /\ SetRlimit(original[s]) /\ soft <= hard
    BY DEF SandboxTypeOK, LimitInv, Exit
<1>2. /\ soft' \in Nat /\ hard' \in Nat
      /\ soft' <= hard'
      /\ privileged => <<soft', hard'>> = original[s]
      /\ ~privileged => hard' <= hard
    BY <1>1, SetRlimitFacts
<1>3. Inside' = Inside \ {s} /\ s \in Inside
    BY DEF Inside, Exit, SandboxTypeOK
<1>4. SandboxTypeOK'
    BY <1>2 DEF Exit, SandboxTypeOK
<1>5. LimitInv'
  <2>1. ASSUME ~privileged, NEW t \in Inside' PROVE hard' <= Limit[t]
    <3>1. t \in Sandboxes /\ Limit[t] \in Nat /\ hard \in Nat /\ hard <= Limit[t]
        BY <1>3, <2>1, SandboxAssumption DEF Inside, LimitInv, SandboxTypeOK
    <3> QED
        BY <1>2, <2>1, <3>1
  <2>2. privileged' = privileged /\ original' = original
      BY DEF Exit
  <2> QED
      BY <1>2, <2>1, <2>2 DEF LimitInv
<1>6. StackInv'
  <2> SUFFICES ASSUME privileged, ~crossed'
               PROVE  /\ Finds(<<soft, hard>>, Inside)'
                      /\ \A t \in Inside' : under'[t] \subseteq Inside'
                                            /\ Finds(original[t], under[t])'
      BY DEF StackInv, Exit
  <2>1. /\ ~crossed
        /\ \A t \in Inside : s \notin under[t]
        /\ under' = under /\ original' = original
      BY DEF Exit
  <2>2. /\ Finds(<<soft, hard>>, Inside)
        /\ \A t \in Inside : under[t] \subseteq Inside /\ Finds(original[t], under[t])
      BY <2>1 DEF StackInv
  <2>3. Inside = under[s] \cup {s} /\ s \notin under[s]
      BY <1>3, <2>1, <2>2 DEF Finds
  <2>4. Inside' = under[s]
      BY <1>3, <2>3
  <2>5. Finds(<<soft, hard>>, Inside)'
      BY <1>2, <1>3, <2>1, <2>2, <2>4 DEF Finds, Own, OriginalLimit
  <2>6. \A t \in Inside' : under'[t] \subseteq Inside' /\ Finds(original[t], under[t])'
      BY <1>3, <2>1, <2>2 DEF Finds, Own, OriginalLimit
  <2> QED
      BY <2>5, <2>6
<1> QED
    BY <1>4, <1>5, <1>6

\* Every step, and stuttering, preserves the inductive invariant.
LEMMA SandboxInvStep == SandboxInv /\ [SandboxNext]_sandboxVars => SandboxInv'
<1> SUFFICES ASSUME SandboxInv, [SandboxNext]_sandboxVars PROVE SandboxInv'
    OBVIOUS
<1>1. CASE UNCHANGED sandboxVars
    BY <1>1 DEF sandboxVars, SandboxInv, SandboxTypeOK, LimitInv, StackInv, Finds, Inside, Own, OriginalLimit
<1>2. CASE AllLeft
    BY <1>1, <1>2 DEF AllLeft
<1>3. ASSUME NEW s \in Sandboxes, Enter(s) PROVE SandboxInv'
    BY <1>3, EnterPreserves
<1>4. ASSUME NEW s \in Sandboxes, Exit(s) PROVE SandboxInv'
    BY <1>4, ExitPreserves
<1> QED
    BY <1>1, <1>2, <1>3, <1>4 DEF SandboxNext

\* The inductive invariant holds throughout.
LEMMA SandboxInvariant == SandboxSpec => []SandboxInv
BY SandboxInvInit, SandboxInvStep, PTL DEF SandboxSpec

\* Type correctness: limits stay numbers and snapshots pairs of them.
THEOREM SandboxTyped == SandboxSpec => []SandboxTypeOK
<1>1. SandboxInv => SandboxTypeOK
    BY DEF SandboxInv
<1> QED
    BY <1>1, SandboxInvariant, PTL

\* Whatever sandboxes are entered and left around it, code inside a sandbox of
\* an unprivileged process never runs with more than that sandbox allows.
THEOREM Confined == SandboxSpec => []ConfinedIfUnprivileged
<1>1. SandboxInv => ConfinedIfUnprivileged
  <2> SUFFICES ASSUME SandboxInv, ~privileged, NEW s \in Inside PROVE soft <= Limit[s]
      BY DEF ConfinedIfUnprivileged
  <2>1. soft <= hard /\ hard <= Limit[s] /\ s \in Sandboxes
      BY DEF SandboxInv, LimitInv, Inside
  <2>2. soft \in Nat /\ hard \in Nat /\ Limit[s] \in Nat
      BY <2>1, SandboxAssumption DEF SandboxInv, SandboxTypeOK
  <2> QED
      BY <2>1, <2>2
<1> QED
    BY <1>1, SandboxInvariant, PTL

\* Nested sandboxes of a privileged process put the original limit back.
THEOREM NestingRestores == SandboxSpec => []NestedRestores
<1>1. SandboxInv => NestedRestores
    BY DEF SandboxInv, StackInv, Finds, NestedRestores, OriginalLimit
<1> QED
    BY <1>1, SandboxInvariant, PTL

(***************************************************************************)
(* Sockets: a code node that runs beside nodes of other kinds only.        *)
(***************************************************************************)
Points == {"idle", "impl", "branch", "body", "done"}

\* What the one code node has saved is the library's constructor; and a code node
\* has no body or branch of its own.
SocketInv ==
  /\ pc \in [Node -> Points] /\ saved \in [Node -> Node \cup {Real}] /\ sock \in Node \cup {Real}
  /\ NetworkPolicyAlone
  /\ \A n \in CodeNodes : pc[n] \in {"idle", "impl", "done"}
  /\ Cardinality(CodeNodes) = 1 => \A n \in CodeNodes : pc[n] = "impl" => saved[n] = Real

LEMMA AloneIsOnly ==
  ASSUME Cardinality(CodeNodes) = 1, NEW m \in CodeNodes, NEW n \in CodeNodes
  PROVE  m = n
<1>1. IsFiniteSet(CodeNodes)
  BY BoundAssumption, FS_Subset DEF CodeNodes
<1>2. PICK x : CodeNodes = {x}
  BY <1>1, FS_Singleton
<1> QED BY <1>2

LEMMA SocketInvInit == FlowInit => SocketInv
<1> SUFFICES ASSUME FlowInit PROVE SocketInv
  OBVIOUS
<1>1. /\ pc = [n \in Node |-> "idle"] /\ saved = [n \in Node |-> Real] /\ sock = Real
  BY DEF FlowInit, ExecInit
<1>2. pc \in [Node -> Points] /\ saved \in [Node -> Node \cup {Real}]
  BY <1>1 DEF Points
<1>3. \A n \in CodeNodes : pc[n] = "idle"
  BY <1>1 DEF CodeNodes
<1> QED BY <1>1, <1>2, <1>3 DEF SocketInv, NetworkPolicyAlone

\* An executor of another kind touches neither the socket nor what was saved.
LEMMA OtherExecutors ==
  ASSUME SocketInv, NEW n \in Node, Kinds(n) # "code", UNCHANGED <<cfg, sock, saved>>,
         \E point \in Points : pc' = [pc EXCEPT ![n] = point]
  PROVE  SocketInv'
<1>1. pc' \in [Node -> Points] /\ \A m \in Node : m # n => pc'[m] = pc[m]
  BY DEF SocketInv
<1>2. CodeNodes' = CodeNodes /\ n \notin CodeNodes /\ CodeNodes \subseteq Node
  BY DEF CodeNodes, Kinds
<1>3. \A m \in CodeNodes : pc'[m] = pc[m]
  BY <1>1, <1>2
<1> QED BY <1>1, <1>2, <1>3 DEF SocketInv, NetworkPolicyAlone

LEMMA StartCodeInv ==
  ASSUME SocketInv, NEW n \in Node, StartCode(n)
  PROVE  SocketInv'
<1>1. /\ pc[n] = "idle" /\ n \in CodeNodes /\ cfg' = cfg /\ CodeNodes' = CodeNodes
      /\ \/ pc' = [pc EXCEPT ![n] = "impl"] /\ BlockNetwork(n)
         \/ pc' = [pc EXCEPT ![n] = "done"] /\ sock' = sock /\ saved' = saved
  BY DEF StartCode, CodeNodes, Goto, Return, NetworkUntouched, Kinds
<1>2. pc' \in [Node -> Points]
  BY <1>1 DEF SocketInv, Points
<1>3. saved' \in [Node -> Node \cup {Real}] /\ sock' \in Node \cup {Real}
  BY <1>1 DEF SocketInv, BlockNetwork
<1>4. ASSUME Cardinality(CodeNodes) = 1, NEW m \in CodeNodes
      PROVE  /\ sock' = IF pc'[m] = "impl" /\ ~cfg[m].network THEN m ELSE Real
             /\ pc'[m] = "impl" => saved'[m] = Real
  <2>1. m = n
    BY <1>1, <1>4, AloneIsOnly
  <2>2. sock = Real
    BY <1>1, <1>4 DEF SocketInv, NetworkPolicyAlone
  <2> QED BY <1>1, <2>1, <2>2 DEF SocketInv, BlockNetwork
<1>5. \A m \in CodeNodes : pc'[m] \in {"idle", "impl", "done"}
  BY <1>1 DEF SocketInv, CodeNodes
<1> QED BY <1>1, <1>2, <1>3, <1>4, <1>5 DEF SocketInv, NetworkPolicyAlone

LEMMA CodeEndsInv ==
  ASSUME SocketInv, NEW n \in Node, CodeEnds(n)
  PROVE  SocketInv'
<1>1. /\ pc[n] = "impl" /\ n \in CodeNodes /\ cfg' = cfg /\ CodeNodes' = CodeNodes
      /\ pc' = [pc EXCEPT ![n] = "done"] /\ sock' = saved[n] /\ saved' = saved
  BY DEF CodeEnds, CodeNodes, Return, RestoreNetwork, Kinds
<1>2. pc' \in [Node -> Points] /\ saved' \in [Node -> Node \cup {Real}] /\ sock' \in Node \cup {Real}
  BY <1>1 DEF SocketInv, Points
<1>3. ASSUME Cardinality(CodeNodes) = 1, NEW m \in CodeNodes
      PROVE  sock' = Real /\ pc'[m] # "impl"
  <2>1. m = n
    BY <1>1, <1>3, AloneIsOnly
  <2>2. saved[n] = Real
    BY <1>1, <1>3 DEF SocketInv
  <2> QED BY <1>1, <2>1, <2>2 DEF SocketInv
<1>4. \A m \in CodeNodes : pc'[m] \in {"idle", "impl", "done"}
  BY <1>1 DEF SocketInv, CodeNodes
<1> QED BY <1>1, <1>2, <1>3, <1>4 DEF SocketInv, NetworkPolicyAlone

\* An executor call is one of the above or moves to another point.
LEMMA CallSteps ==
  ASSUME SocketInv, NEW n \in Node, ExecStep(n) \/ RecursiveBody(n)
  PROVE  \/ StartCode(n) \/ CodeEnds(n)
         \/ /\ Kinds(n) # "code" /\ UNCHANGED <<cfg, sock, saved>>
            /\ \E point \in Points : pc' = [pc EXCEPT ![n] = point]
<1> DEFINE Elsewhere ==
             /\ Kinds(n) # "code" /\ UNCHANGED <<cfg, sock, saved>>
             /\ \E point \in Points : pc' = [pc EXCEPT ![n] = point]
<1> USE DEF NetworkUntouched, Goto, Return, Points, Delegating
<1>1. Delegate(n) \/ Resolve(n) \/ StartAgent(n) => Elsewhere
  BY DEF Delegate, Resolve, StartAgent
<1>2. ImplReturns(n) \/ ChildReturns(n) \/ ToolReturns(n) \/ Evaluated(n) => Elsewhere
  BY DEF ImplReturns, ChildReturns, ToolReturns, Evaluated
<1>3. ImplRaisesKeyError(n) \/ ImplRaises(n) => Elsewhere
  BY DEF ImplRaisesKeyError, ImplRaises
<1>4. HumanBody(n) \/ MonitorBody(n) \/ SwarmBody(n) \/ LlmBody(n) => Elsewhere
  BY DEF HumanBody, MonitorBody, SwarmBody, LlmBody
<1>5. ParallelBody(n) \/ ConditionBody(n) \/ ConditionBranch(n) => Elsewhere
  <2>1. ParallelBody(n) => Elsewhere
    <3>1. ParallelBody(n) => pc' = [pc EXCEPT ![n] = "done"] /\ cfg' = cfg
      BY DEF ParallelBody
    <3>2. ParallelBody(n) => Kinds(n) = "parallel" /\ UNCHANGED <<sock, saved>>
      BY DEF ParallelBody
    <3> QED BY <3>1, <3>2
  <2>2. ConditionBody(n) => Elsewhere
    BY DEF ConditionBody
  <2>3. ConditionBranch(n) => Elsewhere
    BY DEF ConditionBranch, SocketInv, CodeNodes
  <2> QED BY <2>1, <2>2, <2>3
<1>6. LoopItem(n) \/ AgentActs(n) => Elsewhere
  <2>1. pc = [pc EXCEPT ![n] = pc[n]] /\ pc[n] \in Points
    BY DEF SocketInv
  <2> QED BY <2>1 DEF LoopItem, AgentActs
<1>7. LoopEnds(n) \/ LoopRaises(n) \/ AgentEnds(n) \/ AgentFails(n) => Elsewhere
  BY DEF LoopEnds, LoopRaises, AgentEnds, AgentFails
<1>8. RecursiveBody(n) => Elsewhere
  BY DEF RecursiveBody
<1> HIDE DEF Elsewhere
<1>9. StartCode(n) \/ CodeEnds(n) \/ Elsewhere
  BY <1>1, <1>2, <1>3, <1>4, <1>5, <1>6, <1>7, <1>8 DEF ExecStep
<1> QED BY <1>9 DEF Elsewhere

LEMMA SocketInvStep == SocketInv /\ [FlowNext]_flowVars => SocketInv'
<1> SUFFICES ASSUME SocketInv, [FlowNext]_flowVars PROVE SocketInv'
  OBVIOUS
<1>1. CASE UNCHANGED execVars
  BY <1>1 DEF execVars, SocketInv, NetworkPolicyAlone, CodeNodes, Kinds
<1>2. ASSUME NEW n \in Node, RunLevel(n) PROVE SocketInv'
  <2>1. ExecStep(n) \/ RecursiveBody(n)
    BY <1>2 DEF RunLevel
  <2> QED BY <2>1, CallSteps, StartCodeInv, CodeEndsInv, OtherExecutors DEF SocketInv
<1>3. (\E n \in Node : RunLevel(n)) \/ UNCHANGED execVars
  BY DEF FlowNext, flowVars, Gathered, ExecuteRecursive, Collect, Done
<1> QED BY <1>1, <1>2, <1>3

\* code_node_executor: beside any number of nodes of other kinds, a code node has
\* the network blocked exactly while it runs and may not use it, and afterwards
\* socket.socket is the library's.
THEOREM NetworkAlone == FlowSpec => []NetworkPolicyAlone
<1>1. SocketInv => NetworkPolicyAlone
  BY DEF SocketInv
<1> QED BY <1>1, SocketInvInit, SocketInvStep, PTL DEF FlowSpec

(***************************************************************************)
(* The file of node contexts: any number of processes, operations and      *)
(* crashes.                                                                *)
(***************************************************************************)
Busy(p) == doing[p] \notin {"idle", "down"}
Writing(p) == doing[p] \in {"open", "open unlocked", "dump", "dump unlocked", "rewrite"}

\* One operation at a time: what it is about to write is what was acknowledged,
\* and before and after that the file holds it.
Serial ==
  /\ \A p, q \in Proc : Busy(p) /\ Busy(q) => p = q
  /\ \A p \in Proc : Writing(p) => data[p] = acked
  /\ \A p \in Proc : doing[p] \in {"dump", "dump unlocked"} => file = [state |-> "empty"]
  /\ (\A p \in Proc : ~Writing(p)) => file = [state |-> "json", is |-> acked]

StoreInv == StoreTypeOK /\ (harmed = {} => Serial)

LEMMA StoreInvInit == StoreInit => StoreInv
<1> SUFFICES ASSUME StoreInit PROVE StoreInv
  OBVIOUS
<1>1. Nothing \in Contents
  BY DEF Nothing, Contents
<1>2. /\ file = [state |-> "json", is |-> Nothing] /\ acked = Nothing /\ harmed = {}
      /\ \A p \in Proc : doing[p] = "idle"
  BY DEF StoreInit
<1>3. StoreTypeOK
  BY <1>1, ScopesAssumption DEF StoreInit, StoreTypeOK
<1>4. Serial
  BY <1>2 DEF Serial, Busy, Writing
<1> QED BY <1>3, <1>4 DEF StoreInv

LEMMA ParsedTyped ==
  ASSUME StoreTypeOK
  PROVE  Parsed \in Contents
<1>1. Nothing \in Contents
  BY DEF Nothing, Contents
<1> QED BY <1>1 DEF StoreTypeOK, Parsed, Unparsable

\* The steps of p change nothing of another process.
LEMMA OthersIdle ==
  ASSUME StoreInv, NEW p \in Proc, Begins(p, {}), harmed' = {}
  PROVE  /\ harmed = {} /\ \A q \in Proc : ~Busy(q)
         /\ Parsed = acked /\ file = [state |-> "json", is |-> acked]
<1>1. harmed = {} /\ \A q \in Proc \ {p} : doing[q] \in {"idle", "down"}
  BY DEF Begins
<1>2. \A q \in Proc : ~Busy(q) /\ ~Writing(q)
  BY <1>1 DEF Begins, Busy, Writing
<1>3. file = [state |-> "json", is |-> acked]
  BY <1>1, <1>2 DEF StoreInv, Serial
<1> QED BY <1>1, <1>2, <1>3 DEF Parsed

LEMMA BeginsCounted ==
  ASSUME StoreTypeOK, NEW p \in Proc, NEW harm \in SUBSET Harm, Begins(p, harm)
  PROVE  ops' \in 0..MaxOps
<1>1. MaxOps \in Nat
  BY ScopesAssumption
<1>2. ops \in 0..MaxOps
  BY Zenon DEF StoreTypeOK
<1>3. ops < MaxOps /\ ops' = ops + 1
  BY DEF Begins
<1> QED BY <1>1, <1>2, <1>3

\* A process that begins to write, alone, what will have been acknowledged.
LEMMA BeginsWriting ==
  ASSUME StoreInv, NEW p \in Proc, NEW harm \in SUBSET Harm, Begins(p, harm),
         NEW new \in Contents, NEW point \in {"open", "open unlocked"},
         data' = [data EXCEPT ![p] = new], doing' = [doing EXCEPT ![p] = point],
         cache' \in [Proc -> Contents], acked' \in Contents,
         UNCHANGED <<file, lock, todo, crashes>>,
         harmed' = {} => acked' = new
  PROVE  StoreInv'
<1>1. StoreTypeOK'
  <2>1. ops' \in 0..MaxOps
    BY BeginsCounted DEF StoreInv
  <2>2. harmed' \in SUBSET Harm
    BY DEF Begins, Harm, StoreInv, StoreTypeOK
  <2> QED BY <2>1, <2>2 DEF StoreInv, StoreTypeOK
<1>2. ASSUME harmed' = {} PROVE Serial'
  <2>1. \A q \in Proc : ~Busy(q)
    BY <1>2 DEF Begins, Busy
  <2>2. \A q \in Proc : q # p => doing'[q] = doing[q] /\ data'[q] = data[q]
    BY DEF StoreInv, StoreTypeOK
  <2>3. doing'[p] = point /\ data'[p] = acked'
    BY <1>2 DEF StoreInv, StoreTypeOK
  <2> QED BY <2>1, <2>2, <2>3 DEF Serial, Busy, Writing
<1> QED BY <1>1, <1>2 DEF StoreInv

LEMMA UpdateInv ==
  ASSUME StoreInv, NEW p \in Proc, NEW k \in Key, NEW v \in Value, Update(p, k, v)
  PROVE  StoreInv'
<1> DEFINE new == [Parsed EXCEPT ![k] = v]
<1>1. new \in Contents /\ [acked EXCEPT ![k] = v] \in Contents
  BY ParsedTyped DEF StoreInv, StoreTypeOK, Contents
<1>2. cache' \in [Proc -> Contents]
  <2>1. cache[p] \in [Key -> Value \cup {Absent}]
    BY DEF StoreInv, StoreTypeOK, Contents
  <2>2. [cache[p] EXCEPT ![k] = v] \in Contents
    BY <2>1 DEF Contents
  <2>3. cache' = [cache EXCEPT ![p] = [cache[p] EXCEPT ![k] = v]]
    BY DEF Update
  <2> QED BY <2>2, <2>3 DEF StoreInv, StoreTypeOK
<1>3. harmed' = {} => acked' = new
  BY OthersIdle DEF Update
<1> QED BY <1>1, <1>2, <1>3, BeginsWriting DEF Update, Harm

LEMMA SetInv ==
  ASSUME StoreInv, NEW p \in Proc, NEW k \in Key, NEW v \in Value, Set(p, k, v)
  PROVE  StoreInv'
<1> DEFINE new == [cache[p] EXCEPT ![k] = v]
<1>1. cache[p] \in [Key -> Value \cup {Absent}] /\ acked \in [Key -> Value \cup {Absent}]
  BY DEF StoreInv, StoreTypeOK, Contents
<1>2. new \in Contents /\ [acked EXCEPT ![k] = v] \in Contents
  BY <1>1 DEF Contents
<1>3. cache' = [cache EXCEPT ![p] = new] /\ cache \in [Proc -> Contents]
  BY DEF Set, StoreInv, StoreTypeOK
<1>4. cache' \in [Proc -> Contents] /\ cache'[p] = new
  BY <1>2, <1>3
<1>5. harmed' # {}
  BY DEF Set, Begins
<1> QED BY <1>2, <1>4, <1>5, BeginsWriting DEF Set, Harm

LEMMA ClearAllInv ==
  ASSUME StoreInv, NEW p \in Proc, ClearAll(p)
  PROVE  StoreInv'
<1>1. Nothing \in Contents
  BY DEF Nothing, Contents
<1>2. cache' \in [Proc -> Contents]
  BY <1>1 DEF ClearAll, StoreInv, StoreTypeOK
<1> QED BY <1>1, <1>2, BeginsWriting DEF ClearAll, Harm

LEMMA ClearInv ==
  ASSUME StoreInv, NEW p \in Proc, Clear(p)
  PROVE  StoreInv'
<1>1. /\ Begins(p, {}) /\ doing' = [doing EXCEPT ![p] = "clearing"]
      /\ UNCHANGED <<file, lock, cache, data, crashes, acked>>
  BY DEF Clear
<1>2. PICK ks \in SUBSET Key : todo' = [todo EXCEPT ![p] = ks]
  <2>1. OwnKeys(p) \subseteq Key
    BY DEF OwnKeys
  <2> DEFINE Choice == {{k} : k \in OwnKeys(p)} \cup
                         (IF ScopeOf[p] = NoScope THEN {}
                          ELSE {{k \in OwnKeys(p) : cache[p][k] # Absent}})
  <2>2. PICK ks \in Choice : todo' = [todo EXCEPT ![p] = ks]
    BY Zenon DEF Clear
  <2>3. Choice \subseteq SUBSET OwnKeys(p)
    OBVIOUS
  <2> HIDE DEF Choice
  <2> QED BY <2>1, <2>2, <2>3
<1>3. ops' \in 0..MaxOps /\ {} \in SUBSET Harm
  BY <1>1, BeginsCounted DEF StoreInv
<1>4. StoreTypeOK'
  <2>1. harmed' \in SUBSET Harm
    BY <1>1 DEF Begins, Harm, StoreInv, StoreTypeOK
  <2> QED BY <1>1, <1>2, <1>3, <2>1 DEF StoreInv, StoreTypeOK
<1>5. ASSUME harmed' = {} PROVE Serial'
  <2>1. file = [state |-> "json", is |-> acked] /\ \A q \in Proc : ~Busy(q)
    BY <1>1, <1>5, OthersIdle
  <2>2. /\ \A q \in Proc : q # p => doing'[q] = doing[q]
        /\ doing'[p] = "clearing"
    BY <1>1 DEF StoreInv, StoreTypeOK
  <2> QED BY <1>1, <2>1, <2>2 DEF Serial, Busy, Writing
<1> QED BY <1>4, <1>5 DEF StoreInv

\* A step of one process moves no other.
LEMMA OneMoves ==
  ASSUME StoreInv, NEW p \in Proc, NEW point, doing' = [doing EXCEPT ![p] = point]
  PROVE  doing'[p] = point /\ \A q \in Proc \ {p} : doing'[q] = doing[q]
<1>1. doing \in [Proc -> {"down", "idle", "open", "dump", "dump unlocked", "open unlocked",
                         "clearing", "rewrite"}]
  BY Zenon DEF StoreInv, StoreTypeOK
<1> QED BY <1>1

\* A step of p that is not its first keeps the operations one at a time.
LEMMA StepsSerially ==
  ASSUME StoreInv, NEW p \in Proc, Busy(p), harmed = {},
         \A q \in Proc \ {p} : doing'[q] = doing[q],
         Writing(p)' => data'[p] = acked',
         doing'[p] \in {"dump", "dump unlocked"} => file' = [state |-> "empty"],
         ~Writing(p)' => file' = [state |-> "json", is |-> acked']
  PROVE  Serial'
<1>1. \A q \in Proc \ {p} : doing'[q] \in {"idle", "down"}
  BY DEF StoreInv, Serial, Busy
<1> QED BY <1>1 DEF Serial, Busy, Writing

LEMMA ClearReadInv ==
  ASSUME StoreInv, NEW p \in Proc, ClearRead(p)
  PROVE  StoreInv'
<1>1. PICK k \in todo[p] : /\ cache' = [cache EXCEPT ![p][k] = Absent]
                           /\ acked' = [acked EXCEPT ![k] = Absent]
                           /\ data' = [data EXCEPT ![p] = [Parsed EXCEPT ![k] = Absent]]
                           /\ todo' = [todo EXCEPT ![p] = @ \ {k}]
  BY DEF ClearRead
<1>2. /\ doing[p] = "clearing" /\ doing' = [doing EXCEPT ![p] = "rewrite"] /\ lock' = p
      /\ UNCHANGED <<file, ops, crashes, harmed>>
  BY DEF ClearRead
<1>3. Parsed \in Contents /\ k \in Key
  BY ParsedTyped DEF StoreInv, StoreTypeOK
<1>4. [Parsed EXCEPT ![k] = Absent] \in Contents /\ acked' \in Contents
  BY <1>1, <1>3 DEF StoreInv, StoreTypeOK, Contents
<1>5. cache' \in [Proc -> Contents]
  <2>1. cache[p] \in Contents /\ cache \in [Proc -> Contents]
    BY DEF StoreInv, StoreTypeOK
  <2>2. [cache[p] EXCEPT ![k] = Absent] \in Contents
    BY <1>3, <2>1 DEF Contents
  <2>3. cache' = [cache EXCEPT ![p] = [cache[p] EXCEPT ![k] = Absent]]
    BY <1>1
  <2> QED BY <2>1, <2>2, <2>3
<1>6. StoreTypeOK'
  <2>1. todo' \in [Proc -> SUBSET Key] /\ data' \in [Proc -> Contents]
    BY <1>1, <1>4 DEF StoreInv, StoreTypeOK
  <2> QED BY <1>2, <1>4, <1>5, <2>1 DEF StoreInv, StoreTypeOK
<1>7. ASSUME harmed = {} PROVE Serial'
  <2>1. Busy(p) /\ ~Writing(p)
    BY <1>2 DEF Busy, Writing
  <2>2. \A q \in Proc : ~Writing(q)
    BY <1>7, <2>1 DEF StoreInv, Serial, Busy, Writing
  <2>3. Parsed = acked
    <3>1. file = [state |-> "json", is |-> acked]
      BY <1>7, <2>2 DEF StoreInv, Serial
    <3> QED BY <3>1 DEF Parsed
  <2>4. data'[p] = [Parsed EXCEPT ![k] = Absent] /\ acked' = [acked EXCEPT ![k] = Absent]
    BY <1>1 DEF StoreInv, StoreTypeOK
  <2>5. doing'[p] = "rewrite" /\ \A q \in Proc \ {p} : doing'[q] = doing[q]
    BY <1>2, OneMoves
  <2> QED BY <1>7, <2>1, <2>3, <2>4, <2>5, StepsSerially DEF Writing
<1> QED BY <1>2, <1>6, <1>7 DEF StoreInv

LEMMA RewriteInv ==
  ASSUME StoreInv, NEW p \in Proc, Rewrite(p)
  PROVE  StoreInv'
<1>1. /\ doing[p] = "rewrite" /\ doing' = [doing EXCEPT ![p] = "clearing"] /\ lock' = Free
      /\ file' = [state |-> "json", is |-> data[p]]
      /\ UNCHANGED <<cache, data, todo, ops, crashes, acked, harmed>>
  BY DEF Rewrite
<1>2. StoreTypeOK'
  <2>1. file' \in [state : {"json"}, is : Contents]
    BY <1>1 DEF StoreInv, StoreTypeOK
  <2> QED BY <1>1, <2>1 DEF StoreInv, StoreTypeOK
<1>3. ASSUME harmed = {} PROVE Serial'
  <2>1. Busy(p) /\ data[p] = acked
    BY <1>1, <1>3 DEF Busy, Writing, StoreInv, Serial
  <2>2. doing'[p] = "clearing" /\ \A q \in Proc \ {p} : doing'[q] = doing[q]
    BY <1>1, OneMoves
  <2> QED BY <1>1, <1>3, <2>1, <2>2, StepsSerially DEF Writing
<1> QED BY <1>1, <1>2, <1>3 DEF StoreInv

LEMMA ClearedInv ==
  ASSUME StoreInv, NEW p \in Proc, Cleared(p)
  PROVE  StoreInv'
<1>1. /\ doing[p] = "clearing" /\ doing' = [doing EXCEPT ![p] = "idle"]
      /\ UNCHANGED <<file, lock, cache, data, todo, ops, crashes, acked, harmed>>
  BY DEF Cleared
<1>2. StoreTypeOK'
  BY <1>1 DEF StoreInv, StoreTypeOK
<1>3. ASSUME harmed = {} PROVE Serial'
  <2>1. Busy(p)
    BY <1>1 DEF Busy
  <2>2. file = [state |-> "json", is |-> acked]
    BY <1>1, <1>3, <2>1 DEF StoreInv, Serial, Busy, Writing
  <2>3. doing'[p] = "idle" /\ \A q \in Proc \ {p} : doing'[q] = doing[q]
    BY <1>1, OneMoves
  <2> QED BY <1>1, <1>3, <2>1, <2>2, <2>3, StepsSerially DEF Writing
<1> QED BY <1>1, <1>2, <1>3 DEF StoreInv

LEMMA OpenInv ==
  ASSUME StoreInv, NEW p \in Proc, Open(p)
  PROVE  StoreInv'
<1>1. PICK point \in {"dump", "dump unlocked"} : doing' = [doing EXCEPT ![p] = point]
  BY DEF Open
<1>2. /\ doing[p] \in {"open", "open unlocked"} /\ file' = [state |-> "empty"]
      /\ UNCHANGED <<lock, cache, data, todo, ops, crashes, acked, harmed>>
  BY DEF Open
<1>3. StoreTypeOK'
  <2>1. file' \in [state : Unparsable]
    BY <1>2 DEF Unparsable
  <2> QED BY <1>1, <1>2, <2>1 DEF StoreInv, StoreTypeOK
<1>4. ASSUME harmed = {} PROVE Serial'
  <2>1. Busy(p) /\ data[p] = acked
    BY <1>2, <1>4 DEF Busy, Writing, StoreInv, Serial
  <2>2. doing'[p] = point /\ \A q \in Proc \ {p} : doing'[q] = doing[q]
    BY <1>1, OneMoves
  <2> QED BY <1>2, <1>4, <2>1, <2>2, StepsSerially DEF Writing
<1> QED BY <1>2, <1>3, <1>4 DEF StoreInv

LEMMA DumpInv ==
  ASSUME StoreInv, NEW p \in Proc, Dump(p)
  PROVE  StoreInv'
<1>1. /\ doing[p] \in {"dump", "dump unlocked"} /\ doing' = [doing EXCEPT ![p] = "idle"]
      /\ UNCHANGED <<lock, cache, data, todo, ops, crashes, acked, harmed>>
      /\ \/ file' = [state |-> "json", is |-> data[p]]
         \/ file.state # "empty" /\ file' = [state |-> "torn"]
  BY DEF Dump
<1>2. StoreTypeOK'
  <2>1. file' \in [state : {"json"}, is : Contents] \cup [state : Unparsable]
    <3>1. data[p] \in Contents
      BY DEF StoreInv, StoreTypeOK
    <3>2. CASE file' = [state |-> "json", is |-> data[p]]
      BY <3>1, <3>2
    <3>3. CASE file' = [state |-> "torn"]
      BY <3>3 DEF Unparsable
    <3> QED BY <1>1, <3>2, <3>3
  <2> QED BY <1>1, <2>1 DEF StoreInv, StoreTypeOK
<1>3. ASSUME harmed = {} PROVE Serial'
  <2>1. Busy(p) /\ data[p] = acked
    BY <1>1, <1>3 DEF Busy, Writing, StoreInv, Serial
  <2>2. file.state = "empty"
    <3>1. file = [state |-> "empty"]
      BY <1>1, <1>3 DEF StoreInv, Serial
    <3> QED BY <3>1
  <2>3. doing'[p] = "idle" /\ \A q \in Proc \ {p} : doing'[q] = doing[q]
    BY <1>1, OneMoves
  <2> QED BY <1>1, <1>3, <2>1, <2>2, <2>3, StepsSerially DEF Writing
<1> QED BY <1>1, <1>2, <1>3 DEF StoreInv

LEMMA CrashInv ==
  ASSUME StoreInv, NEW p \in Proc, Crash(p)
  PROVE  StoreInv'
<1>1. /\ doing' = [doing EXCEPT ![p] = "down"] /\ data' = [data EXCEPT ![p] = Nothing]
      /\ cache' = [cache EXCEPT ![p] = Nothing] /\ todo' = [todo EXCEPT ![p] = {}]
      /\ UNCHANGED <<file, ops, acked>>
      /\ (doing[p] = "idle" /\ harmed' = harmed) \/ harmed' = harmed \cup {"crash"}
  BY DEF Crash
<1>2. crashes' \in 0..MaxCrashes
  <2>1. MaxCrashes \in Nat
    BY ScopesAssumption
  <2>2. crashes \in 0..MaxCrashes
    BY Zenon DEF StoreInv, StoreTypeOK
  <2>3. crashes < MaxCrashes /\ crashes' = crashes + 1
    BY DEF Crash
  <2> QED BY <2>1, <2>2, <2>3
<1>3. StoreTypeOK'
  <2>1. Nothing \in Contents
    BY DEF Nothing, Contents
  <2>2. lock' \in Proc \cup {Free}
    BY DEF Crash, StoreInv, StoreTypeOK
  <2>3. harmed' \in SUBSET Harm
    BY <1>1 DEF StoreInv, StoreTypeOK, Harm
  <2> QED BY <1>1, <1>2, <2>1, <2>2, <2>3 DEF StoreInv, StoreTypeOK
<1>4. ASSUME harmed' = {} PROVE Serial'
  <2>1. doing[p] = "idle" /\ harmed = {}
    BY <1>1, <1>4
  <2>2. /\ \A q \in Proc : q # p => doing'[q] = doing[q] /\ data'[q] = data[q]
        /\ doing'[p] = "down"
    BY <1>1 DEF StoreInv, StoreTypeOK
  <2> QED BY <1>1, <2>1, <2>2 DEF StoreInv, Serial, Busy, Writing
<1> QED BY <1>3, <1>4 DEF StoreInv

LEMMA RestartInv ==
  ASSUME StoreInv, NEW p \in Proc, Restart(p)
  PROVE  StoreInv'
<1>1. /\ doing[p] = "down" /\ doing' = [doing EXCEPT ![p] = "idle"]
      /\ cache' = [cache EXCEPT ![p] = Parsed]
      /\ UNCHANGED <<file, lock, data, todo, ops, crashes, acked, harmed>>
  BY DEF Restart
<1>2. StoreTypeOK'
  <2>1. Parsed \in Contents
    BY ParsedTyped DEF StoreInv
  <2> QED BY <1>1, <2>1 DEF StoreInv, StoreTypeOK
<1>3. ASSUME harmed = {} PROVE Serial'
  <2>1. /\ \A q \in Proc : q # p => doing'[q] = doing[q]
        /\ doing'[p] = "idle"
    BY <1>1 DEF StoreInv, StoreTypeOK
  <2> QED BY <1>1, <1>3, <2>1 DEF StoreInv, Serial, Busy, Writing
<1> QED BY <1>1, <1>2, <1>3 DEF StoreInv

LEMMA StoreInvIdle == StoreInv /\ UNCHANGED storeVars => StoreInv'
BY DEF storeVars, StoreInv, StoreTypeOK, Serial, Busy, Writing

\* The step of one process on the file, as StoreOp, StoreStep, Crash and
\* Restart put them together.
LEMMA ProcessStep ==
  ASSUME StoreInv, NEW p \in Proc,
         StoreOp(p) \/ StoreStep(p) \/ Crash(p) \/ Restart(p)
  PROVE  StoreInv'
<1>1. ASSUME NEW k \in OwnKeys(p), NEW v \in Value, Update(p, k, v) \/ Set(p, k, v)
      PROVE  StoreInv'
  <2>1. k \in Key
    BY DEF OwnKeys
  <2> QED BY <1>1, <2>1, UpdateInv, SetInv
<1>2. CASE StoreOp(p)
  BY <1>1, <1>2, ClearAllInv, ClearInv DEF StoreOp
<1>3. CASE StoreStep(p)
  BY <1>3, ClearReadInv, RewriteInv, ClearedInv, OpenInv, DumpInv DEF StoreStep
<1> QED BY <1>2, <1>3, CrashInv, RestartInv

\* The runs: one that no other has replaced finds, when its nodes are built,
\* the context it set itself, unless its workflow was executed before.
OwnContext(r) ==
  /\ seen[r] \subseteq {r}
  /\ run[r] = "built" => current.session # "run"
  /\ run[r] \in {"built", "running"} => current.inputs \subseteq {r}

RunInv ==
  /\ run \in [Run -> {"new", "built", "running", "ended", "died"}]
  /\ how \in [Run -> {"none", "blueprint", "workflow", "again"}]
  /\ seen \in [Run -> SUBSET Run]
  /\ rotated \subseteq Run
  /\ current \in Context \cup {NoContext}
  /\ \A r \in Run : run[r] = "new" => how[r] = "none"
  /\ \A r \in Run \ rotated : how[r] # "again" => OwnContext(r)

ContextInv == StoreInv /\ RunInv

LEMMA ContextInvInit == Init => ContextInv
<1> SUFFICES ASSUME Init PROVE ContextInv
  OBVIOUS
<1>1. RunInv
  BY DEF Init, ManagerInit, RunInv, OwnContext
<1> QED BY <1>1, StoreInvInit DEF Init, ContextInv

\* A run that puts a context of its own in place leaves the others replaced.
LEMMA TakesOver ==
  ASSUME RunInv, NEW r \in Run, NEW to \in {"built", "running"},
         NEW entry \in {"none", "blueprint", "workflow", "again"},
         run' = [run EXCEPT ![r] = to], how' = [how EXCEPT ![r] = entry],
         rotated' = rotated \cup (Active \ {r}),
         seen' = seen, current' \in Context \cup {NoContext},
         entry # "again" => how[r] # "again",
         r \notin rotated /\ entry # "again" /\ to = "built" => current'.session # "run",
         r \notin rotated /\ entry # "again" => current'.inputs \subseteq {r}
  PROVE  RunInv'
<1>1. /\ rotated' \subseteq Run
      /\ run' \in [Run -> {"new", "built", "running", "ended", "died"}]
      /\ how' \in [Run -> {"none", "blueprint", "workflow", "again"}]
  BY DEF RunInv, Active
<1>2. /\ run'[r] = to /\ how'[r] = entry
      /\ \A q \in Run \ {r} : run'[q] = run[q] /\ how'[q] = how[q]
  BY DEF RunInv
<1>3. ASSUME NEW q \in Run \ rotated', how'[q] # "again"
      PROVE  OwnContext(q)'
  <2>1. CASE q # r
    <3>1. q \notin rotated /\ run'[q] \notin {"built", "running"} /\ how[q] # "again"
      BY <1>2, <1>3, <2>1 DEF Active
    <3> QED BY <3>1 DEF RunInv, OwnContext
  <2>2. CASE q = r
    <3>1. r \notin rotated /\ entry # "again" /\ how[r] # "again"
      BY <1>2, <1>3, <2>2
    <3>2. seen[r] \subseteq {r}
      BY <3>1 DEF RunInv, OwnContext
    <3> QED BY <1>2, <2>2, <3>1, <3>2 DEF OwnContext
  <2> QED BY <2>1, <2>2
<1>4. \A q \in Run : run'[q] = "new" => how'[q] = "none"
  BY <1>2 DEF RunInv
<1> QED BY <1>1, <1>3, <1>4 DEF RunInv

LEMMA ConstructKeeps ==
  ASSUME RunInv, NEW r \in Run, Construct(r)
  PROVE  RunInv'
<1>1. /\ run[r] = "new" /\ rotated' = rotated \cup (Active \ {r}) /\ seen' = seen
      /\ how[r] = "none"
  BY DEF Construct, Replaces, RunInv
<1>2. r # "run"
  BY ManagerAssumption
<1>3. ASSUME NEW given \in {{}, {r}}, RegisterContext([session |-> r, inputs |-> given])
      PROVE  /\ current'.session # "run" /\ current'.inputs \subseteq {r}
             /\ current' \in Context \cup {NoContext}
  <2>1. current' \in {[session |-> r, inputs |-> given], NoContext}
    BY <1>3 DEF RegisterContext
  <2> QED BY <1>2, <2>1 DEF NoContext, Context, Session
<1>4. CASE /\ how' = [how EXCEPT ![r] = "blueprint"]
           /\ run' = [run EXCEPT ![r] = "running"]
           /\ \E given \in {{}, {r}} : RegisterContext([session |-> r, inputs |-> given])
  BY <1>1, <1>3, <1>4, TakesOver
<1>5. CASE /\ how' = [how EXCEPT ![r] = "workflow"]
           /\ run' = [run EXCEPT ![r] = "built"]
           /\ RegisterContext([session |-> r, inputs |-> {}])
  BY <1>1, <1>3, <1>5, TakesOver
<1> QED BY <1>4, <1>5 DEF Construct

\* execute_workflow, with and without inputs.
LEMMA InjectKeeps ==
  ASSUME RunInv, NEW r \in Run, Inject(r)
  PROVE  RunInv'
<1>1. run' = [run EXCEPT ![r] = "running"] /\ seen' = seen
  BY DEF Inject
<1>2. \/ run[r] = "built" /\ how' = how
      \/ run[r] = "new" /\ how' = [how EXCEPT ![r] = "again"]
  BY DEF Inject, Executes
<1>3. PICK entry \in {"none", "blueprint", "workflow", "again"} :
        /\ how' = [how EXCEPT ![r] = entry]
        /\ entry # "again" => entry = how[r] /\ run[r] = "built"
  <2>1. CASE run[r] = "built" /\ how' = how
    <3>1. how' = [how EXCEPT ![r] = how[r]]
      BY <2>1 DEF RunInv
    <3> QED BY <2>1, <3>1 DEF RunInv
  <2>2. CASE run[r] = "new" /\ how' = [how EXCEPT ![r] = "again"]
    BY <2>2
  <2> QED BY <1>2, <2>1, <2>2
<1>4. CASE UNCHANGED <<contexts, current, rotated>>
  <2>1. /\ run'[r] = "running" /\ how'[r] = entry
        /\ \A q \in Run \ {r} : run'[q] = run[q] /\ how'[q] = how[q]
    BY <1>1, <1>3 DEF RunInv
  <2>2. ASSUME NEW q \in Run \ rotated', how'[q] # "again"
        PROVE  OwnContext(q)'
    BY <1>1, <1>3, <1>4, <2>1, <2>2 DEF RunInv, OwnContext
  <2>3. /\ run' \in [Run -> {"new", "built", "running", "ended", "died"}]
        /\ how' \in [Run -> {"none", "blueprint", "workflow", "again"}]
    BY <1>1, <1>3 DEF RunInv
  <2> QED BY <1>1, <1>4, <2>1, <2>2, <2>3 DEF RunInv
<1>5. CASE /\ IF current.session = "run"
              THEN /\ current' = [current EXCEPT !.inputs = @ \cup {r}]
                   /\ contexts' = Append(Front(contexts), current')
              ELSE RegisterContext([session |-> "run", inputs |-> {r}])
           /\ Replaces(r)
  <2>1. ASSUME r \notin rotated, entry # "again"
        PROVE  current'.inputs \subseteq {r}
    <3>1. current.session # "run"
      BY <1>3, <2>1 DEF RunInv, OwnContext
    <3>2. current' \in {[session |-> "run", inputs |-> {r}], NoContext}
      BY <1>5, <3>1 DEF RegisterContext
    <3> QED BY <3>2 DEF NoContext
  <2>2. current' \in Context \cup {NoContext}
    <3>1. CASE current.session = "run"
      <4>1. current \in Context
        BY <3>1 DEF RunInv, NoContext
      <4> QED BY <1>5, <3>1, <4>1 DEF Context, Session
    <3>2. CASE current.session # "run"
      <4>1. current' \in {[session |-> "run", inputs |-> {r}], NoContext}
        BY <1>5, <3>2 DEF RegisterContext
      <4> QED BY <4>1 DEF Context, Session
    <3> QED BY <3>1, <3>2
  <2> QED BY <1>1, <1>3, <1>5, <2>1, <2>2, TakesOver DEF Replaces
<1> QED BY <1>4, <1>5 DEF Inject

LEMMA BuildKeeps ==
  ASSUME RunInv, NEW r \in Run, BuildNodeContext(r)
  PROVE  RunInv'
<1>1. /\ run[r] = "running" /\ UNCHANGED <<run, how, current, rotated>>
      /\ seen' = [seen EXCEPT ![r] = @ \cup current.inputs]
  BY DEF BuildNodeContext
<1>2. r \notin rotated /\ how[r] # "again" => current.inputs \subseteq {r}
  BY <1>1 DEF RunInv, OwnContext
<1>3. current.inputs \subseteq Run
  BY DEF RunInv, Context, NoContext
<1>4. seen'[r] = seen[r] \cup current.inputs /\ \A q \in Run \ {r} : seen'[q] = seen[q]
  BY <1>1 DEF RunInv
<1>5. seen' \in [Run -> SUBSET Run]
  BY <1>1, <1>3 DEF RunInv
<1> QED BY <1>1, <1>2, <1>4, <1>5 DEF RunInv, OwnContext

LEMMA EndKeeps ==
  ASSUME RunInv, NEW r \in Run, EndRun(r)
  PROVE  RunInv'
BY DEF EndRun, RunInv, OwnContext

LEMMA MainCrashKeeps ==
  ASSUME RunInv, MainCrash
  PROVE  RunInv'
<1>1. /\ run' = [r \in Run |-> IF run[r] = "new" THEN "new" ELSE "died"]
      /\ current' = NoContext /\ UNCHANGED <<how, seen, rotated>>
  BY DEF MainCrash
<1> QED BY <1>1 DEF RunInv, OwnContext

\* What a node's result does to the file is an update by the main process.
LEMMA UpdateStores ==
  ASSUME ContextInv, NEW r \in Run, UpdateNodeContext(r)
  PROVE  ContextInv'
<1>1. PICK o \in Output \ {"opaque"}, k \in OwnKeys(Main) :
        IF backend = "file" THEN Update(Main, k, Kept(o)) /\ UNCHANGED hash
        ELSE RedisUpdate(k, Kept(o))
  BY DEF UpdateNodeContext
<1>2. Kept(o) \in Value /\ k \in Key /\ Main \in Proc
  BY ManagerAssumption DEF Kept, OwnKeys
<1>3. StoreInv'
  <2>1. CASE backend = "file"
    BY <1>1, <1>2, <2>1, UpdateInv DEF ContextInv
  <2>2. CASE backend # "file"
    BY <1>1, <2>2, StoreInvIdle DEF RedisUpdate, ContextInv
  <2> QED BY <2>1, <2>2
<1>4. RunInv'
  BY DEF UpdateNodeContext, ContextInv, RunInv, OwnContext
<1> QED BY <1>3, <1>4 DEF ContextInv

LEMMA ContextInvStep == ContextInv /\ [Next]_vars => ContextInv'
<1> SUFFICES ASSUME ContextInv, [Next]_vars PROVE ContextInv'
  OBVIOUS
<1>1. StoreInv /\ RunInv
  BY DEF ContextInv
<1>2. ASSUME UNCHANGED storeVars PROVE StoreInv'
  BY <1>1, <1>2, StoreInvIdle
<1>3. ASSUME UNCHANGED <<run, how, current, seen, rotated>> PROVE RunInv'
  BY <1>1, <1>3 DEF RunInv, OwnContext
<1>4. ASSUME NEW r \in Run, Construct(r) PROVE ContextInv'
  <2>1. StoreInv'
    BY <1>2, <1>4 DEF Construct
  <2> QED BY <1>1, <1>4, <2>1, ConstructKeeps DEF ContextInv
<1>5. ASSUME NEW r \in Run, Inject(r) PROVE ContextInv'
  <2>1. StoreInv'
    BY <1>2, <1>5 DEF Inject
  <2> QED BY <1>1, <1>5, <2>1, InjectKeeps DEF ContextInv
<1>6. ASSUME NEW r \in Run, BuildNodeContext(r) PROVE ContextInv'
  <2>1. StoreInv'
    BY <1>2, <1>6 DEF BuildNodeContext
  <2> QED BY <1>1, <1>6, <2>1, BuildKeeps DEF ContextInv
<1>7. ASSUME NEW r \in Run, EndRun(r) PROVE ContextInv'
  <2>1. StoreInv'
    BY <1>2, <1>7 DEF EndRun
  <2> QED BY <1>1, <1>7, <2>1, EndKeeps DEF ContextInv
<1>8. ASSUME NEW b \in Branch, EnsureBranch(b) \/ ClearBranch(b) PROVE ContextInv'
  BY <1>2, <1>3, <1>8 DEF EnsureBranch, ClearBranch, ContextInv
<1>9. CASE RedisClear
  BY <1>2, <1>3, <1>9 DEF RedisClear, ContextInv
<1>10. CASE MainCrash
  <2>1. StoreInv'
    <3>1. Main \in Proc /\ Crash(Main)
      BY <1>10, ManagerAssumption DEF MainCrash
    <3> QED BY <1>1, <3>1, CrashInv
  <2> QED BY <1>1, <1>10, <2>1, MainCrashKeeps DEF ContextInv
<1>11. ASSUME NEW p \in Proc, OtherProcess(p) \/ OwnSteps(p) PROVE ContextInv'
  <2>1. StoreOp(p) \/ StoreStep(p) \/ Crash(p) \/ Restart(p)
    BY <1>11 DEF OtherProcess, OwnSteps
  <2>2. UNCHANGED <<run, how, current, seen, rotated>>
    BY <1>11 DEF OtherProcess, OwnSteps, managerVars
  <2> QED BY <1>1, <1>3, <2>1, <2>2, ProcessStep DEF ContextInv
<1>12. CASE UNCHANGED vars
  BY <1>2, <1>3, <1>12 DEF vars, managerVars, ContextInv
<1> QED BY <1>4, <1>5, <1>6, <1>7, <1>8, <1>9, <1>10, <1>11, <1>12, UpdateStores DEF Next

LEMMA ContextInvHolds == Spec => []ContextInv
BY ContextInvInit, ContextInvStep, PTL DEF Spec

\* The file, the lock, the caches and the history keep their types in every
\* step of every process (context/store.py, context/scoped_context_store.py).
THEOREM StoreTyped == Spec => []StoreTypeOK
<1>1. ContextInv => StoreTypeOK
  BY DEF ContextInv, StoreInv
<1> QED BY <1>1, ContextInvHolds, PTL

\* When no two operations overlapped, no process died in one and none wrote
\* its whole cache with set, the file holds the last value acknowledged under
\* every key, for any number of processes, scopes, keys and crashes between
\* operations: ContextStore.update and clear start from what the file holds.
THEOREM SerialUpdatesStay == Spec => []SerialUpdatesDurable
<1>1. ContextInv => SerialUpdatesDurable
  BY DEF ContextInv, StoreInv, Serial, Writing, SerialUpdatesDurable
<1> QED BY <1>1, ContextInvHolds, PTL

\* The first execution of a workflow that no other run has replaced while it
\* was under way is given its own inputs only, whatever contexts former runs
\* left behind, with or without inputs of its own and however few sessions
\* the manager keeps (GraphContextManager.get_context and _register_context,
\* WorkflowExecutionService.execute_workflow).
THEOREM UndisturbedRuns == Spec => []UndisturbedSeesOwn
<1>1. ContextInv => UndisturbedSeesOwn
  <2> SUFFICES ASSUME ContextInv, NEW r \in Run, how[r] # "again", r \notin rotated
               PROVE  seen[r] \subseteq {r}
    BY DEF UndisturbedSeesOwn
  <2> QED BY DEF ContextInv, RunInv, OwnContext
<1> QED BY <1>1, ContextInvHolds, PTL
=============================================================================
