------------------------------ MODULE CfgMachine ------------------------------
(***************************************************************************)
(* What the compiler makes of Core programs, run: the blocks of a program  *)
(* answer what the program means.                                          *)
(***************************************************************************)
EXTENDS BlockMachine, CfgLower

CONSTANT Programs       \* well-formed Core programs; Cfgs has Compiled of each

-----------------------------------------------------------------------------
E == INSTANCE Effects WITH prog <- prog, arg <- arg, outcome <- outcome
O == INSTANCE Oracle

(* What the machine does is what the program means: a program that is not  *)
(* refused answers its meaning, however its handlers were erased, shared   *)
(* or left to the runtime, and a program is only refused for a clause that *)
(* resumes twice or cannot be dispatched to.                               *)
Refines == E!Spec

(* Every program is refused or answers: none loops, reaches a block that   *)
(* was lowered as unreachable, or performs an effect for which the runtime *)
(* has no handler or no clause, all of which stop the machine.             *)
Answers == <>(outcome # Pending)

(* What the lowering makes passes validate: values are assigned once and,  *)
(* on every path, before they are read, although blocks are shared by the  *)
(* statements that resume one continuation.                                *)
LoweringIsValid == arg = NoInput /\ cfg.errors = {} => Valid(cfg)

(* Handles whose value the function that contains them goes on with.       *)
OperandHandles(p) ==
    UNION {{t \in Graph(s.value) : t.k = "Handle"} :
             s \in {u \in UNION {Graph(f.body) : f \in Elems(p.funcs)} : u.k = "Val"}}
    \cup {s \in UNION {Graph(p.funcs[i].body) : i \in 2 .. Len(p.funcs)} : s.k = "Handle"}

(* A continuation that is resumed under such a handle may perform again.   *)
PerformsAgain(p) ==
    \E s \in OperandHandles(p) :
      \/ \E t \in Graph(s.body) : t.k \in {"Call", "Handle"}
      \/ Cardinality({t \in Graph(s.body) : t.k = "Perform"}) > 1

(* The evaluator that the tests compare compiled programs with gives a     *)
(* program its meaning, where no resumed continuation performs again while *)
(* the value of its handle is awaited.                                     *)
OracleAgrees ==
    arg = NoInput /\ ~PerformsAgain(Programs[prog]) =>
      \A a \in Inputs : O!Meaning(Programs[prog], a) = E!M!Meaning(Programs[prog], a)
=============================================================================
