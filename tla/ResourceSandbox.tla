-------------------------- MODULE ResourceSandbox --------------------------
(***************************************************************************)
(* ResourceSandbox: every executor call runs inside a sandbox that lowers  *)
(* a limit of the WHOLE process on entry and puts back what it found on    *)
(* exit.  Sandboxes nest (the tool and code executors open a second one)   *)
(* and those of concurrent nodes overlap in any order.                     *)
(*                                                                         *)
(* One resource stands for RLIMIT_AS, RLIMIT_CPU and RLIMIT_CORE, which    *)
(* are set and restored independently of each other.                       *)
(***************************************************************************)
EXTENDS Integers

CONSTANTS
  Sandboxes,     \* the ResourceSandbox objects, each entered at most once
  Limit,         \* sandbox -> what it sets as soft and hard limit
  OriginalSoft,  \* limit of the process when it started
  OriginalHard

ASSUME SandboxAssumption ==
  /\ Limit \in [Sandboxes -> Nat]
  /\ OriginalSoft \in Nat
  /\ OriginalHard \in Nat
  /\ OriginalSoft <= OriginalHard

VARIABLES
  privileged,  \* the process may raise hard limits
  soft, hard,  \* the limit of the process
  original,       \* _orig_limits of each sandbox
  status,       \* "new", "active", "left"
  under,       \* the sandboxes that were active when each was entered
  crossed      \* some sandbox was left before one entered inside it

sandboxVars == <<privileged, soft, hard, original, status, under, crossed>>

Inside == {s \in Sandboxes : status[s] = "active"}

SandboxInit ==
  /\ privileged \in BOOLEAN
  /\ soft = OriginalSoft
  /\ hard = OriginalHard
  /\ original = [s \in Sandboxes |-> <<0, 0>>]
  /\ status = [s \in Sandboxes |-> "new"]
  /\ under = [s \in Sandboxes |-> {}]
  /\ crossed = FALSE

\* resource.setrlimit; an unprivileged process that would raise its hard
\* limit gets an exception, which both callers swallow.
SetRlimit(new) ==
  IF privileged \/ new[2] <= hard
    THEN soft' = new[1] /\ hard' = new[2]
    ELSE UNCHANGED <<soft, hard>>

\* Fault: the snapshot is taken after lowering the limit.
EnterSnapshotLate(s) ==
  /\ status[s] = "new"
  /\ SetRlimit(<<Limit[s], Limit[s]>>)
  /\ original' = [original EXCEPT ![s] = <<soft', hard'>>]
  /\ status' = [status EXCEPT ![s] = "active"]
  /\ under' = [under EXCEPT ![s] = Inside]
  /\ UNCHANGED <<privileged, crossed>>

\* Fault: leaves the hard limit alone, so that others can raise the soft one.
EnterSoftOnly(s) ==
  /\ status[s] = "new"
  /\ original' = [original EXCEPT ![s] = <<soft, hard>>]
  /\ SetRlimit(<<Limit[s], hard>>)
  /\ status' = [status EXCEPT ![s] = "active"]
  /\ under' = [under EXCEPT ![s] = Inside]
  /\ UNCHANGED <<privileged, crossed>>

\* __aenter__: snapshot and lower the limit.
Enter(s) ==
  /\ status[s] = "new"
  /\ original' = [original EXCEPT ![s] = <<soft, hard>>]
  /\ SetRlimit(<<Limit[s], Limit[s]>>)
  /\ status' = [status EXCEPT ![s] = "active"]
  /\ under' = [under EXCEPT ![s] = Inside]
  /\ UNCHANGED <<privileged, crossed>>

\* __aexit__: put the snapshot back, however the executor ended.
Exit(s) ==
  /\ status[s] = "active"
  /\ SetRlimit(original[s])
  /\ status' = [status EXCEPT ![s] = "left"]
  /\ crossed' = (crossed \/ \E t \in Inside : s \in under[t])
  /\ UNCHANGED <<privileged, original, under>>

\* Every sandbox has been left.
AllLeft == (\A s \in Sandboxes : status[s] = "left") /\ UNCHANGED sandboxVars

SandboxNext == (\E s \in Sandboxes : Enter(s) \/ Exit(s)) \/ AllLeft

SandboxSpec == SandboxInit /\ [][SandboxNext]_sandboxVars

-----------------------------------------------------------------------------
(***************************************************************************)
(* Properties                                                              *)
(***************************************************************************)
\* The limits of the process and the bookkeeping of the sandboxes.
SandboxTypeOK ==
  /\ privileged \in BOOLEAN
  /\ soft \in Nat
  /\ hard \in Nat
  /\ original \in [Sandboxes -> Nat \X Nat]
  /\ status \in [Sandboxes -> {"new", "active", "left"}]
  /\ under \in [Sandboxes -> SUBSET Sandboxes]
  /\ crossed \in BOOLEAN

\* Sandboxes that are properly nested put the original limit back, if the
\* process may raise limits at all (__aexit__).
NestedRestores ==
  privileged /\ ~crossed /\ Inside = {} => soft = OriginalSoft /\ hard = OriginalHard

\* In an unprivileged process no code inside a sandbox ever runs with more
\* than the sandbox allows, whatever the sandboxes around it do.
ConfinedIfUnprivileged == ~privileged => \A s \in Inside : soft <= Limit[s]
=============================================================================
