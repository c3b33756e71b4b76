---------------------------- MODULE CfgArcProofs ------------------------------
(***************************************************************************)
(* For every function that meets CfgShape's WellFormed, every heap size    *)
(* and every schedule of CfgArc: each reference a cell is counted for is   *)
(* owed by some owner, so counts follow liveness; when no call is nested   *)
(* in another's operands nothing freed is read; and, in optimized plans, a *)
(* fresh value owns its cell alone, so unique moves and takes are sound.   *)
(***************************************************************************)
EXTENDS CfgArc, CfgPlanLemmas

-----------------------------------------------------------------------------
(* The inductive invariant: every reference is owed.                       *)

Stages == {"entry", "site", "pre", "eval", "post", "edge", "done"}
Managed == Classify(prog)
LiveAt(i) == After(prog, block)[i]
Returns == term.kind = "return"

(* What holds a reference, by stage: the values that the rest of the block *)
(* needs; the values that this stage is still to release; the operands     *)
(* still to evaluate that take a reference; the retains done before them;  *)
(* and what was evaluated.                                                 *)
Keep ==
    CASE stage = "entry" -> LiveAt(0) \cap Managed
      [] stage = "site" -> LiveAt(site - 1) \cap Managed
      [] stage = "pre" -> (LiveAt(site - 1) \cap Managed) \ here.early
      [] stage = "eval" -> (LiveAt(site) \cap Managed) \ Defs(prog, block, site)
      [] stage = "post" /\ ~AtTerm -> LiveAt(site) \cap Managed
      [] stage = "post" /\ AtTerm /\ ~Returns -> Expected(plan, term.succ[edge]) \cup plan.drop[block][edge]
      [] stage = "edge" -> Expected(plan, term.succ[edge])
      [] OTHER -> {}

Due == IF stage = "eval" THEN here.late \ Defs(prog, block, site) ELSE todo.release

Taking == IF stage = "eval" THEN {k \in pending : Role(expr, k) = "Owned"} ELSE {}

Copies == {s \in Value \X Nat : stage = "pre" /\ todo.retain[s[1]] < s[2] /\ s[2] <= here.retain[s[1]]}

Temps ==
    IF stage = "eval" THEN {k \in DOMAIN expr.args \ pending : expr.args[k].via # "direct" \/ Role(expr, k) = "Owned"}
    ELSE IF stage \in {"post", "done"} /\ AtTerm /\ Returns THEN DOMAIN expr.args ELSE {}

Operands == [k \in DOMAIN expr.args |-> env[expr.args[k].val]]
Copied == [s \in Value \X Nat |-> env[s[1]]]

Claims(c) == Names(Keep, env, c) + Names(Due, env, c) + Names(Taking, Operands, c)
               + Names(Copies, Copied, c) + Names(Temps, held, c)

Balance == \A c \in Cell : count[c] = others[c] + FieldRefs(c) + Claims(c)

(* Where control may be.                                                   *)
Placed ==
    /\ prog \in Programs /\ optimize \in BOOLEAN /\ plan = Plan(prog, optimize)
    /\ stage \in Stages /\ block \in Blocks(prog) /\ site \in 0 .. Last(prog, block)
    /\ stage = "entry" <=> site = 0
    /\ stage \in {"edge", "done"} => AtTerm
    /\ stage = "done" => Returns
    /\ stage = "edge" => ~Returns
    /\ stage = "edge" \/ (stage = "post" /\ AtTerm /\ ~Returns) => edge \in DOMAIN term.succ

HeapTyped ==
    /\ env \in [Value -> Ref] /\ born \in 0 .. MaxCells
    /\ count \in [Cell -> Nat] /\ others \in [Cell -> Nat] /\ kids \in [Cell -> [Index -> Ref]]
    /\ zombies \subseteq Cell /\ \A c \in zombies : count[c] = 0
    /\ \A c \in Cell : c > born => count[c] = 0 /\ kids[c] = [i \in Index |-> Unit]

Releasing ==
    CASE stage = "entry" -> plan.entry[block]
      [] stage = "pre" -> here.early
      [] stage = "post" -> here.late
      [] stage = "edge" -> plan.drop[block][edge]
      [] OTHER -> {}

TodoTyped ==
    /\ todo \in [retain : [Value -> Nat], release : SUBSET Value]
    /\ todo.release \subseteq Releasing
    /\ stage # "pre" => \A v \in Value : todo.retain[v] = 0
    /\ stage = "pre" => \A v \in Value : /\ todo.retain[v] <= here.retain[v]
                                         /\ v \in here.early /\ todo.retain[v] > 0 => v \in todo.release

(* An evaluated operand that borrows is the value itself; a projection of  *)
(* a scalar gives no cell.                                                 *)
OperandsTyped ==
    /\ stage = "eval" =>
         /\ pending \subseteq DOMAIN expr.args /\ held \in [DOMAIN expr.args -> Ref]
         /\ \A k \in DOMAIN expr.args \ pending :
              /\ expr.args[k].via = "direct" => held[k] = env[expr.args[k].val]
              /\ expr.args[k].via = "field" /\ expr.args[k].val \notin Managed => held[k] \notin Cell
    /\ stage \in {"post", "done"} /\ AtTerm /\ Returns => held \in [DOMAIN expr.args -> Ref]

Scalars == \A v \in Reads(prog) \ Managed : env[v] \notin Cell

(* A borrowed binder takes no part in counting.                            *)
Unborrowed == Borrowed(prog, plan) \cap Managed \cap LiveAt(0) = {}

Typed == Placed /\ HeapTyped /\ TodoTyped /\ OperandsTyped
Inv == Typed /\ Balance /\ Scalars /\ Unborrowed

-----------------------------------------------------------------------------
(* Control: the program point a state stands at.                           *)

(* Where control is, said of the program and its plan.                     *)
LEMMA Here ==
    ASSUME Placed
    PROVE  /\ WellFormed(prog) /\ Shaped(prog) /\ SealedArms(prog) /\ DefinedWhenRead(prog)
           /\ ScalarsAreScalar(prog) /\ Acyclic(prog)
           /\ plan = Plan(prog, optimize) /\ block \in Blocks(prog)
           /\ plan.managed = Managed /\ Managed \subseteq Value
           /\ \A t \in Blocks(prog) : plan.after[t] = After(prog, t)
           /\ Last(prog, block) \in Nat \ {0} /\ Sites(prog, block) = 1 .. Last(prog, block)
           /\ site \in Nat /\ site <= Last(prog, block)
<1>1. WellFormed(prog)
  BY ProgramAssumption DEF Placed
<1>2. Shaped(prog) /\ SealedArms(prog) /\ DefinedWhenRead(prog) /\ ScalarsAreScalar(prog) /\ Acyclic(prog)
  BY <1>1 DEF WellFormed
<1>3. plan = Plan(prog, optimize) /\ block \in Blocks(prog)
  BY DEF Placed
<1>4. plan.managed = Managed /\ \A t \in Blocks(prog) : plan.after[t] = After(prog, t)
  BY <1>3, PlanGlobal DEF Managed
<1>5. Managed \subseteq Value
  BY <1>2, ManagedClosed DEF Managed
<1>6. Last(prog, block) \in Nat \ {0} /\ Sites(prog, block) = 1 .. Last(prog, block)
  BY <1>2, <1>3, Shapes
<1>7. site \in Nat /\ site <= Last(prog, block)
  BY <1>6 DEF Placed
<1> QED
  BY <1>1, <1>2, <1>3, <1>4, <1>5, <1>6, <1>7

(* At a site, the site is one of the block's.                              *)
LEMMA AtSite ==
    ASSUME Placed, site # 0
    PROVE  /\ site \in Sites(prog, block) /\ here = PlannedAt(prog, optimize, block, site)
           /\ Defs(prog, block, site) \subseteq Value
           /\ IsFiniteSet(DOMAIN expr.args) /\ DOMAIN expr.args = 1 .. Len(expr.args) /\ Len(expr.args) \in Nat
           /\ \A k \in DOMAIN expr.args : /\ expr.args[k].val \in Value
                                          /\ expr.args[k].via \in {"direct", "field", "call"}
                                          /\ expr.args[k].val \in Uses(prog, block, site)
                                          /\ expr.args[k].val \in Reads(prog)
           /\ IF AtTerm
                THEN /\ Defs(prog, block, site) = {} /\ expr = term.expr
                     /\ TermShape(prog, term)
                ELSE /\ site \in DOMAIN prog.insts[block] /\ expr = prog.insts[block][site].expr
                     /\ InstShape(prog.insts[block][site])
                     /\ Defs(prog, block, site) = {prog.insts[block][site].result}
                     /\ prog.insts[block][site].result \in Value
<1>1. Shaped(prog) /\ block \in Blocks(prog) /\ plan = Plan(prog, optimize)
  BY Here
<1>2. site \in Sites(prog, block)
  BY Here
<1>3. here = PlannedAt(prog, optimize, block, site)
  BY <1>1, <1>2, PlanSite DEF here
<1>4. /\ IsFiniteSet(DOMAIN expr.args) /\ DOMAIN expr.args = 1 .. Len(expr.args) /\ Len(expr.args) \in Nat
      /\ \A k \in DOMAIN expr.args : /\ expr.args[k].val \in Value
                                     /\ expr.args[k].via \in {"direct", "field", "call"}
                                     /\ expr.args[k].val \in Uses(prog, block, site)
  BY <1>1, <1>2, Occurring DEF expr
<1>5. Uses(prog, block, site) \subseteq Reads(prog)
  BY <1>1, <1>2, LiveIsRead
<1>6. CASE AtTerm
  <2>1. /\ Defs(prog, block, site) = {} /\ expr = term.expr /\ TermShape(prog, term)
    BY <1>1, <1>6, Shapes DEF AtTerm, term, expr
  <2> QED
    BY <1>2, <1>3, <1>4, <1>5, <1>6, <2>1
<1>7. CASE ~AtTerm
  <2>1. site \in DOMAIN prog.insts[block]
    BY <1>1, <1>2, <1>7, Shapes DEF AtTerm
  <2>2. /\ InstShape(prog.insts[block][site]) /\ expr = prog.insts[block][site].expr
        /\ Defs(prog, block, site) = {prog.insts[block][site].result}
        /\ prog.insts[block][site].result \in Value
    BY <1>1, <2>1, Shapes DEF expr
  <2> QED
    BY <1>2, <1>3, <1>4, <1>5, <1>7, <2>1, <2>2
<1> QED
  BY <1>6, <1>7

(* What is planned here: numbers of retains, sets of releases.             *)
LEMMA HereTypes ==
    ASSUME Placed, site # 0
    PROVE  here.early \subseteq Value /\ here.late \subseteq Value /\ here.retain \in [Value -> Nat]
<1>1. Shaped(prog) /\ block \in Blocks(prog) /\ site \in Sites(prog, block)
  BY Here, AtSite
<1>2. here = PlannedAt(prog, optimize, block, site)
  BY AtSite
<1> QED
  BY <1>1, <1>2, SitePlanTypes

(* On an edge, the target is a block and the edge is one of the plan's.    *)
LEMMA OnEdge ==
    ASSUME Placed, edge \in DOMAIN term.succ, AtTerm
    PROVE  /\ term.succ[edge] \in Blocks(prog)
           /\ Expected(plan, term.succ[edge]) \subseteq Managed /\ plan.drop[block][edge] \subseteq Managed
<1>1. Shaped(prog) /\ block \in Blocks(prog) /\ plan = Plan(prog, optimize) /\ plan.managed = Managed
  BY Here
<1>2. term.succ[edge] \in Blocks(prog)
  BY <1>1, Shapes DEF term
<1>3. plan.entry[term.succ[edge]] \subseteq Managed
  BY <1>1, <1>2, PlanEntry DEF Managed
<1>4. plan.drop[block][edge] \subseteq Managed
  <2>1. edge \in DOMAIN prog.term[block].succ
    BY DEF term
  <2>2. Plan(prog, optimize).drop[block][edge] =
             IF Len(prog.term[block].succ) < 2 THEN {}
             ELSE ((Out(prog, block) \ LeastLiveIn(prog)[prog.term[block].succ[edge]]) \cap Classify(prog))
                    \ Borrowed(prog, Plan(prog, optimize))
    BY <1>1, <2>1, PlanDrop
  <2> QED
    BY <1>1, <2>2 DEF Managed
<1> QED
  BY <1>1, <1>2, <1>3, <1>4 DEF Expected

(* The sets of claims are finite.                                          *)
LEMMA ClaimSets ==
    ASSUME Placed, TodoTyped, OperandsTyped
    PROVE  /\ Keep \subseteq Managed /\ Keep \subseteq Value /\ Due \subseteq Value
           /\ IsFiniteSet(Keep) /\ IsFiniteSet(Due)
           /\ IsFiniteSet(Taking) /\ IsFiniteSet(Copies) /\ IsFiniteSet(Temps)
           /\ \A s \in Copies : s[1] \in Value /\ s[2] \in Nat
<1>1. Keep \subseteq Managed
  <2>1. (stage = "post" /\ AtTerm /\ ~Returns) \/ stage = "edge" =>
           /\ edge \in DOMAIN term.succ /\ AtTerm
    BY DEF Placed
  <2>2. (stage = "post" /\ AtTerm /\ ~Returns) \/ stage = "edge" =>
           /\ Expected(plan, term.succ[edge]) \subseteq Managed /\ plan.drop[block][edge] \subseteq Managed
    BY <2>1, OnEdge
  <2>3. stage \in Stages
    BY DEF Placed
  <2> QED
    BY <2>2, <2>3 DEF Keep, Stages
<1>2. stage = "eval" => site # 0
  BY DEF Placed
<1>3. Due \subseteq Value
  <2>1. todo.release \subseteq Value
    BY DEF TodoTyped
  <2>2. ASSUME stage = "eval" PROVE here.late \subseteq Value
    BY <1>2, <2>2, HereTypes
  <2> QED
    BY <2>1, <2>2 DEF Due
<1>4. Managed \subseteq Value
  BY Here
<1>5. IsFiniteSet(Keep) /\ IsFiniteSet(Due)
  BY <1>1, <1>3, <1>4, ValuesFinite, FS_Subset
<1>6. IsFiniteSet(Taking)
  <2>1. CASE stage = "eval"
    <3>1. IsFiniteSet(DOMAIN expr.args)
      BY <1>2, <2>1, AtSite
    <3>2. Taking \in SUBSET DOMAIN expr.args
      BY <2>1 DEF Taking, OperandsTyped
    <3> QED
      BY <3>1, <3>2, FS_Subset
  <2>2. CASE stage # "eval"
    BY <2>2, FS_EmptySet DEF Taking
  <2> QED
    BY <2>1, <2>2
<1>7. IsFiniteSet(Temps)
  <2>1. CASE site # 0
    <3>1. IsFiniteSet(DOMAIN expr.args)
      BY <2>1, AtSite
    <3>2. Temps \in SUBSET DOMAIN expr.args
      BY DEF Temps
    <3> QED
      BY <3>1, <3>2, FS_Subset
  <2>2. CASE site = 0
    <3>1. Temps = {}
      BY <2>2 DEF Temps, Placed
    <3> QED
      BY <3>1, FS_EmptySet
  <2> QED
    BY <2>1, <2>2
<1>8. IsFiniteSet(Copies)
  <2>1. CASE stage = "pre"
    <3>1. site # 0
      BY <2>1 DEF Placed
    <3>2. here.retain \in [Value -> Nat]
      BY <3>1, HereTypes
    <3>3. PICK f \in [Value -> Nat] : f = here.retain
      BY <3>2
    <3> DEFINE upto == UNION {{v} \X (1 .. f[v]) : v \in Value}
    <3>4. Copies \in SUBSET upto
      <4>1. SUFFICES ASSUME NEW s \in Copies PROVE s \in upto
        OBVIOUS
      <4>2. s \in Value \X Nat /\ todo.retain[s[1]] < s[2] /\ s[2] <= f[s[1]]
        BY <3>3 DEF Copies
      <4>3. todo.retain[s[1]] \in Nat
        BY <4>2 DEF TodoTyped
      <4>4. s[2] \in 1 .. f[s[1]]
        BY <4>2, <4>3
      <4>5. s \in {s[1]} \X (1 .. f[s[1]])
        BY <4>2, <4>4
      <4> QED
        BY <4>2, <4>5
    <3>5. IsFiniteSet(upto)
      <4>1. IsFiniteSet({{v} \X (1 .. f[v]) : v \in Value})
        <5> DEFINE T == {{v} \X (1 .. f[v]) : v \in Value}
                   g == [v \in Value |-> {v} \X (1 .. f[v])]
        <5>1. g \in Surjection(Value, T)
          BY DEF Surjection
        <5> HIDE DEF g, T
        <5>2. IsFiniteSet(T)
          BY <5>1, ValuesFinite, FS_Surjection
        <5> QED
          BY <5>2 DEF T
      <4>2. \A v \in Value : IsFiniteSet({v} \X (1 .. f[v]))
        <5>1. SUFFICES ASSUME NEW v \in Value PROVE IsFiniteSet({v} \X (1 .. f[v]))
          OBVIOUS
        <5>2. f[v] \in Nat
          BY <3>3
        <5>3. IsFiniteSet(1 .. f[v])
          BY <5>2, FS_Interval
        <5>4. IsFiniteSet({v})
          BY FS_Singleton
        <5> QED
          BY <5>3, <5>4, FS_Product
      <4> QED
        BY <4>1, <4>2, FS_UNION
    <3> QED
      BY <3>4, <3>5, FS_Subset
  <2>2. CASE stage # "pre"
    <3>1. Copies = {}
      BY <2>2 DEF Copies
    <3> QED
      BY <3>1, FS_EmptySet
  <2> QED
    BY <2>1, <2>2
<1>9. \A s \in Copies : s[1] \in Value /\ s[2] \in Nat
  BY DEF Copies
<1> QED
  BY <1>1, <1>3, <1>4, <1>5, <1>6, <1>7, <1>8, <1>9

-----------------------------------------------------------------------------
(* Steps that only move control between the stages of a block.             *)

(* The empty set counts for nothing.                                       *)
LEMMA NamesNone == \A f, c : Names({}, f, c) = 0
<1> SUFFICES ASSUME NEW f, NEW c PROVE Names({}, f, c) = 0
  OBVIOUS
<1>1. {x \in {} : f[x] = c} = {}
  OBVIOUS
<1> QED
  BY <1>1, FS_EmptySet DEF Names

(* Every part of the claims on a cell is a natural.                        *)
LEMMA ClaimNumbers ==
    ASSUME Placed, TodoTyped, OperandsTyped, NEW c
    PROVE  /\ Names(Keep, env, c) \in Nat /\ Names(Due, env, c) \in Nat
           /\ Names(Taking, Operands, c) \in Nat /\ Names(Copies, Copied, c) \in Nat
           /\ Names(Temps, held, c) \in Nat
BY ClaimSets, NamesFinite

(* When a stage is over nothing of it is left to do.                       *)
LEMMA Quiet ==
    ASSUME NEW s, At(s), TodoTyped
    PROVE  /\ stage = s /\ todo.release = {} /\ zombies = {}
           /\ \A v \in Value : todo.retain[v] = 0
BY DEF At, Waiting, TodoTyped

(* No operand and no retain is under way.                                  *)
Settled == Taking = {} /\ Copies = {} /\ Temps = {} /\ Due = todo.release

(* Control moves on; what is claimed is named otherwise.                   *)
LEMMA SettledBalance ==
    ASSUME Balance, Settled, Settled', heap' = heap, env' = env, others' = others,
           \A c : Names(Keep', env, c) + Names(todo'.release, env, c)
                    = Names(Keep, env, c) + Names(todo.release, env, c)
    PROVE  Balance'
<1>1. SUFFICES ASSUME NEW c \in Cell PROVE (count[c] = others[c] + FieldRefs(c) + Claims(c))'
  BY DEF Balance
<1>2. count[c] = others[c] + FieldRefs(c) + Claims(c)
  BY DEF Balance
<1>3. Claims(c) = Names(Keep, env, c) + Names(todo.release, env, c) + 0 + 0 + 0
  BY NamesNone DEF Claims, Settled
<1>4. Claims(c)' = Names(Keep', env, c) + Names(todo'.release, env, c) + 0 + 0 + 0
  BY NamesNone DEF Claims, Settled
<1>5. FieldRefs(c)' = FieldRefs(c) /\ count' = count
  BY DEF FieldRefs, heap
<1>6. Claims(c)' = Claims(c)
  BY <1>3, <1>4
<1> QED
  BY <1>2, <1>5, <1>6

(* Two ways to split the same values claim the same.                       *)
LEMMA Regrouped ==
    ASSUME NEW K, NEW D, NEW L, NEW E,
           IsFiniteSet(K), IsFiniteSet(D), IsFiniteSet(L), IsFiniteSet(E),
           K \cap D = {}, L \cap E = {}, K \cup D = L \cup E, NEW f, NEW c
    PROVE  Names(K, f, c) + Names(D, f, c) = Names(L, f, c) + Names(E, f, c)
<1>1. Names(K \cup D, f, c) = Names(K, f, c) + Names(D, f, c)
  BY NamesSplit
<1>2. Names(L \cup E, f, c) = Names(L, f, c) + Names(E, f, c)
  BY NamesSplit
<1> QED
  BY <1>1, <1>2

(* Any set of values is finite, so its claims are counted.                 *)
LEMMA FiniteClaims ==
    ASSUME NEW S \in SUBSET Value
    PROVE  IsFiniteSet(S)
BY ValuesFinite, FS_Subset

(* Entering a block releases what its entry plan lists.                    *)
LEMMA EnterBlockInv == Inv /\ EnterBlock => Inv'
<1> SUFFICES ASSUME Inv, EnterBlock PROVE Inv'
  OBVIOUS
<1> USE DEF Typed, Inv
<1>1. /\ Placed /\ stage = "entry" /\ todo.release = {} /\ zombies = {} /\ site = 0
      /\ stage' = "site" /\ site' = 1 /\ todo' = todo /\ heap' = heap /\ env' = env
      /\ block' = block /\ prog' = prog /\ plan' = plan /\ optimize' = optimize /\ others' = others
  BY Quiet DEF EnterBlock, Placed, planned, At
<1>2. Placed'
  BY <1>1, Here DEF Placed, Stages, AtTerm, term
<1>3. HeapTyped'
  BY <1>1 DEF HeapTyped, heap
<1>4. TodoTyped'
  BY <1>1 DEF TodoTyped
<1>5. OperandsTyped'
  BY <1>1 DEF OperandsTyped
<1>6. Balance'
  <2>1. Settled /\ Settled'
    BY <1>1 DEF Settled, Taking, Copies, Temps, Due
  <2>2. Keep' = Keep
    BY <1>1 DEF Keep, LiveAt, Managed
  <2> QED
    BY <1>1, <2>1, <2>2, SettledBalance
<1>7. Scalars' /\ Unborrowed'
  BY <1>1 DEF Scalars, Unborrowed, Managed, LiveAt
<1> QED
  BY <1>2, <1>3, <1>4, <1>5, <1>6, <1>7

(* Control moves to the next site.                                         *)
LEMMA NextSiteInv == Inv /\ NextSite => Inv'
<1> SUFFICES ASSUME Inv, NextSite PROVE Inv'
  OBVIOUS
<1> USE DEF Typed, Inv
<1>1. /\ Placed /\ stage = "post" /\ ~AtTerm /\ todo.release = {} /\ zombies = {}
      /\ stage' = "site" /\ site' = site + 1 /\ todo' = todo /\ heap' = heap /\ env' = env
      /\ block' = block /\ prog' = prog /\ plan' = plan /\ optimize' = optimize /\ others' = others
  BY Quiet DEF NextSite, planned, At
<1>2. /\ Placed' /\ (site + 1) - 1 = site
  BY <1>1, Here DEF Placed, Stages, AtTerm, term
<1>3. HeapTyped'
  BY <1>1 DEF HeapTyped, heap
<1>4. TodoTyped'
  BY <1>1 DEF TodoTyped
<1>5. OperandsTyped'
  BY <1>1 DEF OperandsTyped
<1>6. Balance'
  <2>1. Settled /\ Settled'
    BY <1>1 DEF Settled, Taking, Copies, Temps, Due
  <2>2. Keep' = Keep
    BY <1>1, <1>2 DEF Keep, LiveAt, Managed
  <2> QED
    BY <1>1, <2>1, <2>2, SettledBalance
<1>7. Scalars' /\ Unborrowed'
  BY <1>1 DEF Scalars, Unborrowed, Managed, LiveAt
<1> QED
  BY <1>2, <1>3, <1>4, <1>5, <1>6, <1>7

(* A site begins: what it retains joins the claims.                        *)
LEMMA StartSiteInv == Inv /\ StartSite => Inv'
<1> SUFFICES ASSUME Inv, StartSite PROVE Inv'
  OBVIOUS
<1> USE DEF Typed, Inv
<1>1. /\ Placed /\ stage = "site" /\ todo.release = {} /\ zombies = {} /\ site # 0
      /\ stage' = "pre" /\ site' = site /\ heap' = heap /\ env' = env
      /\ todo' = [retain |-> here.retain, release |-> here.early]
      /\ block' = block /\ prog' = prog /\ plan' = plan /\ optimize' = optimize /\ others' = others
  BY Quiet DEF StartSite, planned, At, Placed
<1>2. Placed'
  BY <1>1 DEF Placed, Stages, AtTerm, term
<1>3. HeapTyped'
  BY <1>1 DEF HeapTyped, heap
<1>4. here.early \subseteq Value /\ here.retain \in [Value -> Nat] /\ here' = here
  BY <1>1, HereTypes DEF here
<1>5. TodoTyped'
  BY <1>1, <1>4 DEF TodoTyped, Releasing
<1>6. OperandsTyped'
  BY <1>1 DEF OperandsTyped
<1>7. here.early \subseteq LiveAt(site - 1) \cap Managed
  <2>1. SUFFICES ASSUME NEW v \in here.early PROVE v \in LiveAt(site - 1) /\ v \in Managed
    OBVIOUS
  <2>2. Shaped(prog) /\ block \in Blocks(prog) /\ site \in Sites(prog, block) /\ v \in Value
    BY <1>1, <1>4, Here, AtSite
  <2>3. here = PlannedAt(prog, optimize, block, site)
    BY <1>1, AtSite
  <2>4. v \in Managed /\ v \in Uses(prog, block, site)
    BY <2>2, <2>3, SiteReleases DEF Managed
  <2>5. Uses(prog, block, site) \subseteq LiveAt(site - 1)
    BY <2>2, ScanStep DEF LiveAt
  <2> QED
    BY <2>4, <2>5
<1>8. Balance'
  <2>1. Settled /\ Settled'
    <3>1. Settled
      BY <1>1 DEF Settled, Taking, Copies, Temps, Due
    <3>2. Copies' = {}
      <4>1. \A n \in Nat, v \in Value : ~(here.retain[v] < n /\ n <= here.retain[v])
        BY <1>4
      <4> QED
        BY <1>1, <1>4, <4>1 DEF Copies
    <3>3. Taking' = {} /\ Temps' = {} /\ Due' = todo'.release
      BY <1>1 DEF Taking, Temps, Due
    <3> QED
      BY <3>1, <3>2, <3>3 DEF Settled
  <2>2. Keep = LiveAt(site - 1) \cap Managed /\ Keep' = Keep \ here.early
    BY <1>1, <1>4 DEF Keep, LiveAt, Managed
  <2>3. /\ IsFiniteSet(Keep) /\ IsFiniteSet(todo.release)
        /\ IsFiniteSet(Keep') /\ IsFiniteSet(todo'.release)
    <3>1. Keep \in SUBSET Value /\ Keep' \in SUBSET Value
      BY <2>2, ClaimSets
    <3>2. todo.release \in SUBSET Value /\ todo'.release \in SUBSET Value
      BY <1>1, <1>4
    <3> QED
      BY <3>1, <3>2, FiniteClaims
  <2>4. /\ Keep \cap todo.release = {} /\ Keep' \cap todo'.release = {}
        /\ Keep \cup todo.release = Keep' \cup todo'.release
    BY <1>1, <1>7, <2>2
  <2>5. \A c : Names(Keep', env, c) + Names(todo'.release, env, c)
                    = Names(Keep, env, c) + Names(todo.release, env, c)
    BY <2>3, <2>4, Regrouped
  <2> QED
    BY <1>1, <2>1, <2>5, SettledBalance
<1>9. Scalars' /\ Unborrowed'
  BY <1>1 DEF Scalars, Unborrowed, Managed, LiveAt
<1> QED
  BY <1>2, <1>3, <1>5, <1>6, <1>8, <1>9

-----------------------------------------------------------------------------
(* Edges and the end of the function.                                      *)

(* What leaves the block is not a borrowed binder either.                  *)
LEMMA UnborrowedOut ==
    ASSUME Placed, Unborrowed
    PROVE  \A i \in 0 .. Last(prog, block) : Borrowed(prog, plan) \cap Managed \cap LiveAt(i) = {}
<1>1. Shaped(prog) /\ SealedArms(prog) /\ block \in Blocks(prog) /\ plan = Plan(prog, optimize)
  BY Here
<1>2. SUFFICES ASSUME NEW i \in 0 .. Last(prog, block), NEW v \in Borrowed(prog, plan), v \in Managed, v \in LiveAt(i)
               PROVE  FALSE
  OBVIOUS
<1>3. \A j \in DOMAIN prog.insts[block] : prog.insts[block][j].result # v
  BY <1>1, <1>2, BorrowedFacts
<1>4. v \in LiveAt(0)
  BY <1>1, <1>2, <1>3, LiveSinceEntry DEF LiveAt
<1> QED
  BY <1>2, <1>4 DEF Unborrowed

(* What an edge expects, at the state that takes it.                       *)
LEMMA EdgeRule ==
    ASSUME Placed, Unborrowed, AtTerm, NEW e \in DOMAIN term.succ
    PROVE  LET t == term.succ[e]
           IN  /\ t \in Blocks(prog)
               /\ Expected(plan, t) \cup plan.drop[block][e] =
                    (LiveAt(site) \cap Managed) \cup ((Params(prog, t) \cap Managed) \ Borrowed(prog, plan))
               /\ Expected(plan, t) \cap plan.drop[block][e] = {}
               /\ LiveAt(site) \cap Params(prog, t) = {}
               /\ Borrowed(prog, plan) \cap Managed \cap After(prog, t)[0] = {}
               /\ Uses(prog, block, site) \cap Params(prog, t) = {}
<1>1. WellFormed(prog) /\ block \in Blocks(prog) /\ plan = Plan(prog, optimize) /\ Shaped(prog)
  BY Here
<1>2. site = Last(prog, block) /\ e \in DOMAIN prog.term[block].succ
  BY DEF AtTerm, term
<1>3. After(prog, block)[Last(prog, block)] = Out(prog, block)
  BY <1>1, ScanStep
<1>4. LiveAt(site) = Out(prog, block)
  BY <1>2, <1>3 DEF LiveAt
<1>5. Last(prog, block) \in 0 .. Last(prog, block)
  BY Here
<1>6. Borrowed(prog, Plan(prog, optimize)) \cap Classify(prog) \cap Out(prog, block) = {}
  BY <1>1, <1>2, <1>4, <1>5, UnborrowedOut DEF Managed
<1> DEFINE t == prog.term[block].succ[e]
           pl == Plan(prog, optimize)
<1>7. /\ t \in Blocks(prog)
      /\ Expected(pl, t) \cup pl.drop[block][e] =
             (Out(prog, block) \cap Classify(prog)) \cup ((Params(prog, t) \cap Classify(prog)) \ Borrowed(prog, pl))
      /\ Expected(pl, t) \cap pl.drop[block][e] = {}
      /\ Out(prog, block) \cap Params(prog, t) = {}
      /\ Borrowed(prog, pl) \cap Classify(prog) \cap After(prog, t)[0] = {}
      /\ Uses(prog, block, Last(prog, block)) \cap Params(prog, t) = {}
  BY <1>1, <1>2, <1>6, EdgePlan
<1> QED
  BY <1>1, <1>2, <1>4, <1>7 DEF Managed, term

(* A terminator's edge is taken and its drops begin.                       *)
LEMMA TakeEdgeInv == Inv /\ TakeEdge => Inv'
<1> SUFFICES ASSUME Inv, TakeEdge PROVE Inv'
  OBVIOUS
<1> USE DEF Typed, Inv
<1>1. /\ Placed /\ stage = "post" /\ AtTerm /\ ~Returns /\ todo.release = {} /\ zombies = {}
      /\ \A v \in Value : todo.retain[v] = 0
      /\ stage' = "edge" /\ site' = site /\ todo' = Releases(plan.drop[block][edge])
      /\ heap' = heap /\ env' = env /\ edge' = edge
      /\ block' = block /\ prog' = prog /\ plan' = plan /\ optimize' = optimize /\ others' = others
  BY Quiet DEF TakeEdge, planned, At, Returns
<1>2. edge \in DOMAIN term.succ
  BY <1>1 DEF Placed
<1>3. Placed' /\ AtTerm' /\ ~Returns'
  BY <1>1, <1>2 DEF Placed, Stages, AtTerm, term, Returns
<1>4. HeapTyped'
  BY <1>1 DEF HeapTyped, heap
<1>5. /\ Expected(plan, term.succ[edge]) \subseteq Managed /\ plan.drop[block][edge] \subseteq Managed
      /\ Managed \subseteq Value /\ term.succ[edge] \in Blocks(prog)
  BY <1>1, <1>2, OnEdge, Here
<1>6. TodoTyped'
  BY <1>1, <1>5 DEF TodoTyped, Releasing, Releases
<1>7. OperandsTyped'
  BY <1>1 DEF OperandsTyped
<1>8. Balance'
  <2>1. Settled /\ Settled'
    BY <1>1, <1>3 DEF Settled, Taking, Copies, Temps, Due
  <2>2. Keep = Expected(plan, term.succ[edge]) \cup plan.drop[block][edge] /\ Keep' = Expected(plan, term.succ[edge])
    BY <1>1, <1>3 DEF Keep, term
  <2>3. todo'.release = plan.drop[block][edge]
    BY <1>1 DEF Releases
  <2>4. Expected(plan, term.succ[edge]) \cap plan.drop[block][edge] = {}
    BY <1>1, <1>2, EdgeRule
  <2>5. /\ IsFiniteSet(Keep) /\ IsFiniteSet(todo.release)
        /\ IsFiniteSet(Keep') /\ IsFiniteSet(todo'.release)
    <3>1. /\ Keep \in SUBSET Value /\ Keep' \in SUBSET Value
          /\ todo.release \in SUBSET Value /\ todo'.release \in SUBSET Value
      BY <1>1, <1>5, <2>2, <2>3
    <3> QED
      BY <3>1, FiniteClaims
  <2>6. /\ Keep \cap todo.release = {} /\ Keep' \cap todo'.release = {}
        /\ Keep \cup todo.release = Keep' \cup todo'.release
    BY <1>1, <2>2, <2>3, <2>4
  <2>7. \A c : Names(Keep', env, c) + Names(todo'.release, env, c)
                    = Names(Keep, env, c) + Names(todo.release, env, c)
    BY <2>5, <2>6, Regrouped
  <2> QED
    BY <1>1, <2>1, <2>7, SettledBalance
<1>9. Scalars' /\ Unborrowed'
  BY <1>1 DEF Scalars, Unborrowed, Managed, LiveAt
<1> QED
  BY <1>3, <1>4, <1>6, <1>7, <1>8, <1>9

(* An edge is crossed into its target.                                     *)
LEMMA CrossEdgeInv == Inv /\ CrossEdge => Inv'
<1> SUFFICES ASSUME Inv, CrossEdge PROVE Inv'
  OBVIOUS
<1> USE DEF Typed, Inv
<1> DEFINE t == term.succ[edge]
<1>1. /\ Placed /\ stage = "edge" /\ todo.release = {} /\ zombies = {}
      /\ \A v \in Value : todo.retain[v] = 0
      /\ stage' = "entry" /\ site' = 0 /\ block' = t /\ todo' = Releases(plan.entry[t])
      /\ heap' = heap /\ env' = env
      /\ prog' = prog /\ plan' = plan /\ optimize' = optimize /\ others' = others
  BY Quiet DEF CrossEdge, planned, At
<1>2. edge \in DOMAIN term.succ /\ AtTerm
  BY <1>1 DEF Placed
<1>3. /\ Expected(plan, t) \subseteq Managed /\ Managed \subseteq Value /\ t \in Blocks(prog)
      /\ Borrowed(prog, plan) \cap Managed \cap After(prog, t)[0] = {}
      /\ plan = Plan(prog, optimize) /\ Shaped(prog) /\ plan.managed = Managed /\ plan.after[t] = After(prog, t)
  BY <1>1, <1>2, OnEdge, EdgeRule, Here
<1>4. plan.entry[t] = ((Params(prog, t) \cap Managed) \ After(prog, t)[0]) \ Borrowed(prog, plan)
  BY <1>3, PlanEntry DEF Managed
<1> HIDE DEF t
<1>5. Placed'
  <2>1. Last(prog, t) \in Nat \ {0}
    BY <1>3, Shapes
  <2>2. 0 \in 0 .. Last(prog, t) /\ 0 # Last(prog, t)
    BY <2>1
  <2> QED
    BY <1>1, <1>3, <2>2 DEF Placed, Stages, AtTerm
<1>6. HeapTyped'
  BY <1>1 DEF HeapTyped, heap
<1>7. TodoTyped'
  BY <1>1, <1>3, <1>4 DEF TodoTyped, Releasing, Releases
<1>8. OperandsTyped'
  BY <1>1 DEF OperandsTyped
<1>9. Balance'
  <2>1. Settled /\ Settled'
    BY <1>1 DEF Settled, Taking, Copies, Temps, Due
  <2>2. Keep = Expected(plan, t) /\ Keep' = After(prog, t)[0] \cap Managed
    BY <1>1, <1>3 DEF Keep, LiveAt, Managed, t
  <2>3. todo'.release = plan.entry[t]
    BY <1>1 DEF Releases
  <2>4. Expected(plan, t) = (After(prog, t)[0] \cap Managed) \cup plan.entry[t]
    BY <1>3 DEF Expected
  <2>5. /\ IsFiniteSet(Keep) /\ IsFiniteSet(todo.release)
        /\ IsFiniteSet(Keep') /\ IsFiniteSet(todo'.release)
    <3>1. /\ Keep \in SUBSET Value /\ Keep' \in SUBSET Value
          /\ todo.release \in SUBSET Value /\ todo'.release \in SUBSET Value
      BY <1>1, <1>3, <1>4, <2>2, <2>3
    <3> QED
      BY <3>1, FiniteClaims
  <2>6. /\ Keep \cap todo.release = {} /\ Keep' \cap todo'.release = {}
        /\ Keep \cup todo.release = Keep' \cup todo'.release
    BY <1>1, <1>4, <2>2, <2>3, <2>4
  <2>7. \A c : Names(Keep', env, c) + Names(todo'.release, env, c)
                    = Names(Keep, env, c) + Names(todo.release, env, c)
    BY <2>5, <2>6, Regrouped
  <2> QED
    BY <1>1, <2>1, <2>7, SettledBalance
<1>10. Scalars' /\ Unborrowed'
  BY <1>1, <1>3 DEF Scalars, Unborrowed, Managed, LiveAt
<1> QED
  BY <1>5, <1>6, <1>7, <1>8, <1>9, <1>10

(* The function returns and gives its result up.                           *)
LEMMA FinishInv == Inv /\ Finish => Inv'
<1> SUFFICES ASSUME Inv, Finish PROVE Inv'
  OBVIOUS
<1> USE DEF Typed, Inv
<1>1. /\ Placed /\ stage = "post" /\ AtTerm /\ Returns /\ todo.release = {} /\ zombies = {}
      /\ stage' = "done" /\ site' = site /\ todo' = todo /\ heap' = heap /\ env' = env /\ held' = held
      /\ block' = block /\ prog' = prog /\ plan' = plan /\ optimize' = optimize /\ others' = others
  BY Quiet DEF Finish, planned, At, Returns
<1>2. AtTerm' /\ Returns' /\ term' = term /\ expr' = expr
  BY <1>1 DEF AtTerm, Returns, term, expr
<1>3. Placed'
  BY <1>1, <1>2 DEF Placed, Stages
<1>4. HeapTyped'
  BY <1>1 DEF HeapTyped, heap
<1>5. TodoTyped'
  BY <1>1 DEF TodoTyped
<1>6. OperandsTyped'
  BY <1>1, <1>2 DEF OperandsTyped
<1>7. Balance'
  <2>1. Keep' = Keep
    BY <1>1, <1>2 DEF Keep
  <2>2. Due' = Due /\ Taking = {} /\ Taking' = {} /\ Copies = {} /\ Copies' = {} /\ Temps' = Temps
    BY <1>1, <1>2 DEF Due, Taking, Copies, Temps
  <2>3. \A c : Claims(c)' = Claims(c)
    BY <1>1, <2>1, <2>2, NamesNone DEF Claims
  <2> QED
    BY <1>1, <2>3 DEF Balance, FieldRefs, heap
<1>8. Scalars' /\ Unborrowed'
  BY <1>1 DEF Scalars, Unborrowed, Managed, LiveAt
<1> QED
  BY <1>3, <1>4, <1>5, <1>6, <1>7, <1>8

(* Nothing changes.                                                        *)
LEMMA StutterInv == Inv /\ UNCHANGED vars => Inv'
<1> SUFFICES ASSUME Inv, UNCHANGED vars PROVE Inv'
  OBVIOUS
<1>1. /\ prog' = prog /\ optimize' = optimize /\ plan' = plan /\ others' = others
      /\ block' = block /\ site' = site /\ stage' = stage /\ edge' = edge /\ todo' = todo
      /\ pending' = pending /\ held' = held /\ env' = env /\ born' = born /\ count' = count
      /\ kids' = kids /\ zombies' = zombies
  BY DEF vars, planned, control, heap
<1>2. term' = term /\ AtTerm' = AtTerm /\ expr' = expr /\ here' = here /\ Returns' = Returns
  BY <1>1 DEF term, AtTerm, expr, here, Returns
<1>3. Placed' = Placed
  BY <1>1, <1>2 DEF Placed
<1>4. HeapTyped' = HeapTyped
  BY <1>1 DEF HeapTyped
<1>5. TodoTyped' = TodoTyped
  BY <1>1, <1>2 DEF TodoTyped, Releasing
<1>6. OperandsTyped' = OperandsTyped
  BY <1>1, <1>2 DEF OperandsTyped, Managed
<1>7. Balance' = Balance
  <2>1. Keep' = Keep /\ Due' = Due /\ Taking' = Taking /\ Copies' = Copies /\ Temps' = Temps
    BY <1>1, <1>2 DEF Keep, Due, Taking, Copies, Temps, LiveAt, Managed
  <2>2. Operands' = Operands /\ Copied' = Copied
    BY <1>1, <1>2 DEF Operands, Copied
  <2> QED
    BY <1>1, <2>1, <2>2 DEF Balance, Claims, FieldRefs
<1>8. Scalars' = Scalars /\ Unborrowed' = Unborrowed
  BY <1>1 DEF Scalars, Unborrowed, Managed, LiveAt
<1> QED
  BY <1>3, <1>4, <1>5, <1>6, <1>7, <1>8 DEF Inv, Typed

-----------------------------------------------------------------------------
(* Retains.                                                                *)

(* A non-empty set of naturals has a least member.                         *)
LEMMA LeastMember ==
    ASSUME NEW S \in SUBSET Nat, S # {}
    PROVE  Least(S) \in S /\ \A x \in S : Least(S) <= x
<1> DEFINE T == {n \in Nat : (\E x \in S : x <= n) => \E x \in S : \A y \in S : x <= y}
<1>1. 0 \in T
  <2>1. ASSUME NEW x \in S, x <= 0 PROVE \A y \in S : x <= y
    BY <2>1
  <2> QED
    BY <2>1
<1>2. ASSUME NEW n \in Nat, n \in T PROVE n + 1 \in T
  <2>1. SUFFICES ASSUME NEW x \in S, x <= n + 1, ~\E z \in S : z <= n
                 PROVE  \A y \in S : x <= y
    BY <1>2
  <2> QED
    BY <2>1
<1> HIDE DEF T
<1>3. \A n \in Nat : n \in T
  BY <1>1, <1>2, NatBySteps
<1>4. PICK n \in S : TRUE
  OBVIOUS
<1>5. n \in T /\ n <= n
  BY <1>3, <1>4
<1>6. \E x \in S : \A y \in S : x <= y
  BY <1>4, <1>5 DEF T
<1> QED
  BY <1>6 DEF Least

(* How often a cell occurs in a sequence is such a number too.             *)
LEMMA OccursNames == ASSUME NEW refs, NEW c PROVE Occurs(refs, c) = Names(DOMAIN refs, refs, c)
BY DEF Occurs, Names

(* A cell occurs in a one-element sequence once or not at all.             *)
LEMMA OccursOne == ASSUME NEW r, NEW c PROVE Occurs(<<r>>, c) = IF r = c THEN 1 ELSE 0
<1>1. DOMAIN <<r>> = {1} /\ <<r>>[1] = r
  OBVIOUS
<1>2. Names({1}, <<r>>, c) = IF <<r>>[1] = c THEN 1 ELSE 0
  BY NamesOne
<1> QED
  BY <1>1, <1>2, OccursNames

(* Cells are finitely many and are not the unit nor the pool.              *)
LEMMA Cells == IsFiniteSet(Cell) /\ Cell \subseteq Nat \ {0} /\ Pool \notin Cell /\ Unit \notin Cell
               /\ IsFiniteSet(Cell \X Index) /\ Unit \in Ref /\ Pool \in Ref /\ Cell \subseteq Ref
<1>1. Cell \subseteq Nat \ {0} /\ Pool \notin Cell /\ Unit \notin Cell
  BY UnitAssumption DEF Cell, Pool
<1>2. IsFiniteSet(Cell) /\ IsFiniteSet(Index)
  <2>1. MaxCells \in Int /\ 1 \in Int /\ 2 \in Int
    BY UnitAssumption
  <2>2. IsFiniteSet(1 .. MaxCells)
    BY <2>1, FS_Interval
  <2>3. IsFiniteSet(1 .. 2)
    BY <2>1, FS_Interval
  <2> QED
    BY <2>2, <2>3 DEF Cell, Index
<1> QED
  BY <1>1, <1>2, FS_Product DEF Ref

Fields == [f \in Cell \X Index |-> kids[f[1]][f[2]]]

(* The references from fields, counted over the pairs of a cell and an     *)
(* index.                                                                  *)
LEMMA FieldNames ==
    ASSUME NEW c
    PROVE  FieldRefs(c) = Names(Cell \X Index, Fields, c) /\ FieldRefs(c) \in Nat
<1>1. {f \in Cell \X Index : kids[f[1]][f[2]] = c} = {f \in Cell \X Index : Fields[f] = c}
  BY DEF Fields
<1>2. Names(Cell \X Index, Fields, c) \in Nat
  BY Cells, NamesFinite
<1> QED
  BY <1>1, <1>2 DEF FieldRefs, Names

(* Whatever claims a cell keeps it counted.                                *)
LEMMA Positive ==
    ASSUME Typed, Balance, NEW c \in Cell
    PROVE  /\ count[c] \in Nat /\ others[c] \in Nat /\ FieldRefs(c) \in Nat /\ Claims(c) \in Nat
           /\ count[c] = others[c] + FieldRefs(c) + Claims(c)
           /\ \A v \in Keep \cup Due : env[v] = c => count[c] > 0
           /\ \A k \in Taking : env[expr.args[k].val] = c => count[c] > 0
           /\ \A k \in Temps : held[k] = c => count[c] > 0
           /\ \A f \in Cell \X Index : kids[f[1]][f[2]] = c => count[c] > 0
           /\ count[c] > 0 => c <= born
<1>1. count[c] \in Nat /\ others[c] \in Nat
  BY DEF Typed, HeapTyped
<1>2. FieldRefs(c) \in Nat /\ FieldRefs(c) = Names(Cell \X Index, Fields, c)
  BY FieldNames
<1>3. /\ Names(Keep, env, c) \in Nat /\ Names(Due, env, c) \in Nat
      /\ Names(Taking, Operands, c) \in Nat /\ Names(Copies, Copied, c) \in Nat
      /\ Names(Temps, held, c) \in Nat
  BY ClaimNumbers DEF Typed
<1>4. Claims(c) \in Nat
  BY <1>3 DEF Claims
<1>5. count[c] = others[c] + FieldRefs(c) + Claims(c)
  BY DEF Balance
<1>6. /\ Names(Keep, env, c) <= Claims(c) /\ Names(Due, env, c) <= Claims(c)
      /\ Names(Taking, Operands, c) <= Claims(c) /\ Names(Temps, held, c) <= Claims(c)
  BY <1>3 DEF Claims
<1>7. IsFiniteSet(Keep) /\ IsFiniteSet(Due) /\ IsFiniteSet(Taking) /\ IsFiniteSet(Temps)
  BY ClaimSets DEF Typed
<1>8. \A v \in Keep \cup Due : env[v] = c => count[c] > 0
  <2>1. \A v \in Keep : env[v] = c => Names(Keep, env, c) > 0
    BY <1>7, NamesFinite
  <2>2. \A v \in Due : env[v] = c => Names(Due, env, c) > 0
    BY <1>7, NamesFinite
  <2> QED
    BY <1>1, <1>2, <1>3, <1>4, <1>5, <1>6, <2>1, <2>2
<1>9. \A k \in Taking : env[expr.args[k].val] = c => count[c] > 0
  <2>1. \A k \in Taking : Operands[k] = c => Names(Taking, Operands, c) > 0
    BY <1>7, NamesFinite
  <2>2. \A k \in Taking : k \in DOMAIN expr.args
    BY DEF Taking, Typed, OperandsTyped
  <2>3. \A k \in Taking : Operands[k] = env[expr.args[k].val]
    BY <2>2 DEF Operands
  <2> QED
    BY <1>1, <1>2, <1>3, <1>4, <1>5, <1>6, <2>1, <2>3
<1>10. \A k \in Temps : held[k] = c => count[c] > 0
  <2>1. \A k \in Temps : held[k] = c => Names(Temps, held, c) > 0
    BY <1>7, NamesFinite
  <2> QED
    BY <1>1, <1>2, <1>3, <1>4, <1>5, <1>6, <2>1
<1>11. \A f \in Cell \X Index : kids[f[1]][f[2]] = c => count[c] > 0
  <2>1. \A f \in Cell \X Index : Fields[f] = c => Names(Cell \X Index, Fields, c) > 0
    BY Cells, NamesFinite
  <2>2. \A f \in Cell \X Index : Fields[f] = kids[f[1]][f[2]]
    BY DEF Fields
  <2>3. FieldRefs(c) > 0 => count[c] > 0
    BY <1>1, <1>2, <1>4, <1>5
  <2> QED
    BY <1>2, <2>1, <2>2, <2>3
<1>12. count[c] > 0 => c <= born
  BY <1>1, Cells DEF Typed, HeapTyped
<1> QED
  BY <1>1, <1>2, <1>4, <1>5, <1>8, <1>9, <1>10, <1>11, <1>12

(* A value with retains to do is claimed meanwhile.                        *)
LEMMA RetainedIsClaimed ==
    ASSUME Inv, NEW v \in Value, todo.retain[v] > 0
    PROVE  stage = "pre" /\ v \in Keep \cup Due
<1> USE DEF Inv, Typed
<1>1. stage = "pre" /\ site # 0
  BY DEF TodoTyped, Placed
<1>2. /\ Shaped(prog) /\ block \in Blocks(prog) /\ site \in Sites(prog, block)
      /\ here = PlannedAt(prog, optimize, block, site)
  BY <1>1, Here, AtSite
<1>3. here.retain[v] > 0
  <2>1. here.retain[v] \in Nat /\ todo.retain[v] \in Nat /\ todo.retain[v] <= here.retain[v]
    BY <1>1, HereTypes DEF TodoTyped
  <2> QED
    BY <2>1
<1>4. v \in Managed /\ v \in Uses(prog, block, site)
  BY <1>2, <1>3, SiteReleases DEF Managed
<1>5. v \in LiveAt(site - 1)
  BY <1>2, <1>4, ScanStep DEF LiveAt
<1>6. CASE v \in here.early
  <2>1. v \in todo.release
    BY <1>1, <1>6 DEF TodoTyped
  <2> QED
    BY <1>1, <2>1 DEF Due
<1>7. CASE v \notin here.early
  BY <1>1, <1>4, <1>5, <1>7 DEF Keep
<1> QED
  BY <1>1, <1>6, <1>7

(* While anything waits, its least member is a value still to release or   *)
(* retain.                                                                 *)
LEMMA WaitingLeast ==
    ASSUME TodoTyped, Waiting # {}
    PROVE  Least(Waiting) \in Waiting /\ Waiting \subseteq Value
<1>1. Waiting \subseteq Value
  BY DEF Waiting, TodoTyped
<1>2. Waiting \in SUBSET Nat
  BY <1>1, ValueIdAssumption
<1> QED
  BY <1>1, <1>2, LeastMember

(* A retain turns into a copy.                                             *)
LEMMA RetainInv == Inv /\ RetainOp => Inv'
<1> SUFFICES ASSUME Inv, RetainOp PROVE Inv'
  OBVIOUS
<1> USE DEF Typed, Inv
<1> DEFINE v == Least(Waiting)
<1>1. /\ Placed /\ todo.retain[v] > 0 /\ v \in Value
      /\ todo' = [todo EXCEPT !.retain[v] = @ - 1] /\ count' = Retained(<<env[v]>>)
      /\ control' = control /\ planned' = planned /\ zombies = {}
      /\ pending' = pending /\ held' = held /\ env' = env /\ born' = born /\ kids' = kids /\ zombies' = zombies
  BY WaitingLeast DEF RetainOp
<1> HIDE DEF v
<1>2. stage = "pre" /\ v \in Keep \cup Due
  BY <1>1, RetainedIsClaimed
<1>3. /\ prog' = prog /\ optimize' = optimize /\ plan' = plan /\ others' = others
      /\ block' = block /\ site' = site /\ stage' = stage /\ edge' = edge
  BY <1>1 DEF planned, control
<1>4. term' = term /\ AtTerm' = AtTerm /\ expr' = expr /\ here' = here /\ Returns' = Returns
  BY <1>3 DEF term, AtTerm, expr, here, Returns
<1>5. todo'.release = todo.release /\ todo'.retain = [todo.retain EXCEPT ![v] = @ - 1]
      /\ todo' \in [retain : [Value -> Nat], release : SUBSET Value]
  <2>1. todo \in [retain : [Value -> Nat], release : SUBSET Value]
    BY DEF TodoTyped
  <2>2. todo' = [retain |-> [todo.retain EXCEPT ![v] = @ - 1], release |-> todo.release]
    BY <1>1, <2>1
  <2>3. todo.retain[v] - 1 \in Nat
    BY <1>1, <2>1
  <2>4. [todo.retain EXCEPT ![v] = @ - 1] \in [Value -> Nat]
    BY <2>1, <2>3
  <2> QED
    BY <2>1, <2>2, <2>4
<1>6. \A c \in Cell : count'[c] = count[c] + (IF env[v] = c THEN 1 ELSE 0)
  BY <1>1, OccursOne DEF Retained
<1>7. Placed'
  BY <1>1, <1>3, <1>4 DEF Placed
<1>8. HeapTyped'
  <2>1. count' \in [Cell -> Nat]
    <3>1. ASSUME NEW c \in Cell PROVE count[c] + Occurs(<<env[v]>>, c) \in Nat
      <4>1. count[c] \in Nat
        BY DEF HeapTyped
      <4>2. Occurs(<<env[v]>>, c) = IF env[v] = c THEN 1 ELSE 0
        BY OccursOne
      <4> QED
        BY <4>1, <4>2
    <3> QED
      BY <1>1, <3>1 DEF Retained
  <2>2. \A c \in Cell : c > born => env[v] # c
    BY <1>2, Positive, Cells DEF HeapTyped
  <2> QED
    BY <1>1, <1>3, <1>6, <2>1, <2>2 DEF HeapTyped
<1>9. TodoTyped'
  <2>1. \A w \in Value : todo'.retain[w] = IF w = v THEN todo.retain[w] - 1 ELSE todo.retain[w]
    BY <1>5 DEF TodoTyped
  <2>2. \A w \in Value : todo.retain[w] \in Nat /\ here.retain[w] \in Nat
    BY <1>2, HereTypes DEF TodoTyped, Placed
  <2> QED
    BY <1>2, <1>3, <1>4, <1>5, <2>1, <2>2 DEF TodoTyped, Releasing
<1>10. OperandsTyped'
  BY <1>1, <1>2, <1>3, <1>4 DEF OperandsTyped
<1>11. Balance'
  <2>1. SUFFICES ASSUME NEW c \in Cell PROVE (count[c] = others[c] + FieldRefs(c) + Claims(c))'
    BY DEF Balance
  <2>2. Keep' = Keep /\ Due' = Due /\ Taking' = {} /\ Taking = {} /\ Temps' = {} /\ Temps = {} /\ Copied' = Copied
    BY <1>1, <1>2, <1>3, <1>4, <1>5 DEF Keep, Due, Taking, Temps, Copied, LiveAt, Managed
  <2> DEFINE s == <<v, todo.retain[v]>>
  <2>3. Copies' = Copies \cup {s} /\ s \notin Copies
    <3>1. todo.retain[v] \in Nat \ {0} /\ todo.retain[v] <= here.retain[v] /\ here.retain[v] \in Nat
      BY <1>1, <1>2, HereTypes DEF TodoTyped, Placed
    <3>2. \A w \in Value : todo'.retain[w] = IF w = v THEN todo.retain[w] - 1 ELSE todo.retain[w]
      BY <1>5 DEF TodoTyped
    <3>3. s \notin Copies
      BY <3>1 DEF Copies
    <3>4. ASSUME NEW r \in Value \X Nat PROVE r \in Copies' <=> r \in Copies \/ r = s
      <4>1. CASE r[1] = v
        <5>1. todo.retain[v] - 1 < r[2] <=> todo.retain[v] < r[2] \/ r[2] = todo.retain[v]
          BY <3>1
        <5>2. r = s <=> r[2] = todo.retain[v]
          BY <4>1
        <5> QED
          BY <1>2, <1>3, <1>4, <3>1, <3>2, <4>1, <5>1, <5>2 DEF Copies
      <4>2. CASE r[1] # v
        BY <1>2, <1>3, <1>4, <3>2, <4>2 DEF Copies
      <4> QED
        BY <4>1, <4>2
    <3>5. s \in Value \X Nat /\ Copies \subseteq Value \X Nat /\ Copies' \subseteq Value \X Nat
      BY <1>1, <3>1 DEF Copies
    <3> HIDE DEF s
    <3> QED
      BY <3>3, <3>4, <3>5
  <2>4. Copied[s] = env[v]
    <3>1. todo.retain[v] \in Nat
      BY <1>1 DEF TodoTyped
    <3>2. s \in Value \X Nat /\ s[1] = v
      BY <1>1, <3>1
    <3> HIDE DEF s
    <3> QED
      BY <3>2 DEF Copied
  <2> HIDE DEF s
  <2>5. Names(Copies', Copied, c) = Names(Copies, Copied, c) + (IF env[v] = c THEN 1 ELSE 0)
    <3>1. IsFiniteSet(Copies)
      BY ClaimSets
    <3>2. Names(Copies \cup {s}, Copied, c) = Names(Copies, Copied, c) + (IF Copied[s] = c THEN 1 ELSE 0)
      BY <2>3, <3>1, NamesAdd
    <3> QED
      BY <2>3, <2>4, <3>2
  <2>6. Claims(c)' = Names(Keep, env, c) + Names(Due, env, c) + 0 + Names(Copies', Copied, c) + 0
    BY <1>1, <2>2, NamesNone DEF Claims
  <2>7. Claims(c) = Names(Keep, env, c) + Names(Due, env, c) + 0 + Names(Copies, Copied, c) + 0
    BY <2>2, NamesNone DEF Claims
  <2>8. FieldRefs(c)' = FieldRefs(c)
    BY <1>1 DEF FieldRefs
  <2>9. /\ Names(Keep, env, c) \in Nat /\ Names(Due, env, c) \in Nat /\ Names(Copies, Copied, c) \in Nat
        /\ FieldRefs(c) \in Nat /\ others[c] \in Nat
        /\ count[c] = others[c] + FieldRefs(c) + Claims(c)
    BY ClaimNumbers, Positive
  <2> QED
    BY <1>3, <1>6, <2>5, <2>6, <2>7, <2>8, <2>9
<1>12. Scalars' /\ Unborrowed'
  BY <1>1, <1>3 DEF Scalars, Unborrowed, Managed, LiveAt
<1> QED
  BY <1>7, <1>8, <1>9, <1>10, <1>11, <1>12

-----------------------------------------------------------------------------
(* Releases and the reaping of zombies.                                    *)

(* Dropping references that are all counted.                               *)
LEMMA DropCounted ==
    ASSUME count \in [Cell -> Nat], NEW refs, IsFiniteSet(DOMAIN refs),
           \A c \in Cell : Occurs(refs, c) <= count[c]
    PROVE  /\ Dropped(refs) \in [Cell -> Nat] /\ ~Short(refs)
           /\ \A c \in Cell : /\ Dropped(refs)[c] = count[c] - Occurs(refs, c)
                              /\ Occurs(refs, c) \in Nat
                              /\ count[c] = 0 => Dropped(refs)[c] = 0
<1>1. \A c \in Cell : Occurs(refs, c) \in Nat /\ count[c] \in Nat
  BY OccursNames, NamesFinite
<1>2. \A c \in Cell : ~(count[c] < Occurs(refs, c)) /\ count[c] - Occurs(refs, c) \in Nat
  BY <1>1
<1>3. \A c \in Cell : Dropped(refs)[c] = count[c] - Occurs(refs, c)
  BY <1>2 DEF Dropped
<1>4. Dropped(refs) \in [Cell -> Nat]
  BY <1>2 DEF Dropped
<1>5. ~Short(refs)
  BY <1>2 DEF Short
<1>6. \A c \in Cell : count[c] = 0 => count[c] - Occurs(refs, c) = 0
  BY <1>1, <1>2
<1> QED
  BY <1>1, <1>3, <1>4, <1>5, <1>6

(* One cell gets other fields.                                             *)
FieldsOf(k, c) == Cardinality({f \in Cell \X Index : k[f[1]][f[2]] = c})

SameBut(k, l, z) == \A d \in Cell : d # z => l[d] = k[d]

(* Only that cell's fields differ, and with them the references from       *)
(* fields.                                                                 *)
LEMMA FieldsChanged ==
    ASSUME NEW k, NEW l, NEW z \in Cell, NEW c, SameBut(k, l, z)
    PROVE  /\ FieldsOf(l, c) + Names(Index, k[z], c) = FieldsOf(k, c) + Names(Index, l[z], c)
           /\ FieldsOf(l, c) \in Nat /\ FieldsOf(k, c) \in Nat
           /\ Names(Index, k[z], c) \in Nat /\ Names(Index, l[z], c) \in Nat
<1> DEFINE All == Cell \X Index
           Rest == {f \in All : f[1] # z}
           Mine == {f \in All : f[1] = z}
           F(m) == [f \in All |-> m[f[1]][f[2]]]
           h == [i \in Index |-> <<z, i>>]
<1>1. IsFiniteSet(All) /\ IsFiniteSet(Index)
  <2>1. 1 \in Int /\ 2 \in Int
    OBVIOUS
  <2> QED
    BY <2>1, Cells, FS_Interval DEF Index
<1>2. Rest \in SUBSET All /\ Mine \in SUBSET All
  OBVIOUS
<1>3. IsFiniteSet(Rest) /\ IsFiniteSet(Mine)
  BY <1>1, <1>2, FS_Subset
<1>4. Rest \cup Mine = All /\ Rest \cap Mine = {}
  OBVIOUS
<1>5. ASSUME NEW m PROVE /\ FieldsOf(m, c) = Names(Rest, F(m), c) + Names(Index, m[z], c)
                         /\ Names(Rest, F(m), c) \in Nat /\ Names(Index, m[z], c) \in Nat
  <2>1. FieldsOf(m, c) = Names(All, F(m), c)
    <3>1. {f \in All : m[f[1]][f[2]] = c} = {f \in All : F(m)[f] = c}
      OBVIOUS
    <3> QED
      BY <3>1 DEF FieldsOf, Names
  <2>2. Names(Mine, F(m), c) = Names(Index, m[z], c)
    <3>1. \A i \in Index : h[i] \in Mine /\ F(m)[h[i]] = m[z][i]
      OBVIOUS
    <3>2. \A i, j \in Index : h[i] = h[j] => i = j
      OBVIOUS
    <3>3. \A f \in Mine : \E i \in Index : h[i] = f
      OBVIOUS
    <3> HIDE DEF h, F, Mine
    <3>4. \A f \in Mine : F(m)[f] = c => \E i \in Index : h[i] = f /\ m[z][i] = c
      BY <3>1, <3>3
    <3> QED
      BY <1>1, <3>1, <3>2, <3>4, NamesMoved
  <2> HIDE DEF F, Mine, Rest
  <2>3. Names(All, F(m), c) = Names(Rest, F(m), c) + Names(Mine, F(m), c)
    BY <1>3, <1>4, NamesSplit
  <2>4. Names(Rest, F(m), c) \in Nat /\ Names(Index, m[z], c) \in Nat
    BY <1>1, <1>3, NamesFinite
  <2> QED
    BY <2>1, <2>2, <2>3, <2>4
<1>6. Names(Rest, F(l), c) = Names(Rest, F(k), c)
  <2>1. \A f \in Rest : F(l)[f] = F(k)[f]
    BY DEF SameBut
  <2> HIDE DEF F, Rest
  <2>2. \A f \in Rest : F(l)[f] = c <=> F(k)[f] = c
    BY <2>1
  <2> QED
    BY <2>2, NamesSame
<1> HIDE DEF F, Rest, Mine, All, h
<1>7. /\ FieldsOf(k, c) = Names(Rest, F(k), c) + Names(Index, k[z], c)
      /\ FieldsOf(l, c) = Names(Rest, F(l), c) + Names(Index, l[z], c)
      /\ Names(Rest, F(k), c) \in Nat /\ Names(Index, k[z], c) \in Nat /\ Names(Index, l[z], c) \in Nat
  BY <1>5
<1> QED
  BY <1>6, <1>7

(* A release gives up the claim it had; the count does not run short.      *)
LEMMA ReleaseInv == Inv /\ ReleaseOp => Inv' /\ ~Short(<<env[Least(Waiting)]>>)
<1> SUFFICES ASSUME Inv, ReleaseOp PROVE Inv' /\ ~Short(<<env[Least(Waiting)]>>)
  OBVIOUS
<1> USE DEF Typed, Inv
<1> DEFINE v == Least(Waiting)
           refs == <<env[v]>>
<1>1. /\ Placed /\ todo.retain[v] = 0 /\ v \in todo.release /\ v \in Value
      /\ todo' = [todo EXCEPT !.release = @ \ {v}] /\ count' = Dropped(refs)
      /\ control' = control /\ planned' = planned /\ zombies = {} /\ zombies' = Died
      /\ pending' = pending /\ held' = held /\ env' = env /\ born' = born /\ kids' = kids
  <2>1. v \in Waiting /\ v \in Value
    BY WaitingLeast DEF ReleaseOp
  <2>2. todo.retain[v] = 0 /\ v \in todo.release
    BY <2>1 DEF ReleaseOp, Waiting
  <2> QED
    BY <2>1, <2>2 DEF ReleaseOp, Drop
<1> HIDE DEF v
<1>2. stage \notin {"eval", "site", "done"} /\ Due = todo.release
  BY <1>1 DEF TodoTyped, Releasing, Due
<1>3. /\ prog' = prog /\ optimize' = optimize /\ plan' = plan /\ others' = others
      /\ block' = block /\ site' = site /\ stage' = stage /\ edge' = edge
  BY <1>1 DEF planned, control
<1>4. term' = term /\ AtTerm' = AtTerm /\ expr' = expr /\ here' = here /\ Returns' = Returns
  BY <1>3 DEF term, AtTerm, expr, here, Returns
<1>5. todo'.release = todo.release \ {v} /\ todo'.retain = todo.retain
      /\ todo' \in [retain : [Value -> Nat], release : SUBSET Value]
  BY <1>1 DEF TodoTyped
<1>6. \A c \in Cell : Occurs(refs, c) = IF env[v] = c THEN 1 ELSE 0
  BY OccursOne
<1>7. count \in [Cell -> Nat] /\ IsFiniteSet(DOMAIN refs) /\ \A c \in Cell : Occurs(refs, c) <= count[c]
  <2>1. count \in [Cell -> Nat]
    BY DEF HeapTyped
  <2>2. IsFiniteSet(DOMAIN refs)
    <3>1. DOMAIN refs = {1}
      OBVIOUS
    <3> QED
      BY <3>1, FS_Singleton
  <2>3. ASSUME NEW c \in Cell PROVE Occurs(refs, c) <= count[c]
    <3>1. env[v] = c => count[c] > 0
      BY <1>1, <1>2, Positive
    <3> QED
      BY <1>6, <2>1, <3>1
  <2> QED
    BY <2>1, <2>2, <2>3
<1>8. /\ count' \in [Cell -> Nat] /\ ~Short(refs)
      /\ \A c \in Cell : /\ count'[c] = count[c] - Occurs(refs, c)
                         /\ count[c] = 0 => count'[c] = 0
  BY <1>1, <1>7, DropCounted
<1> HIDE DEF refs
<1>9. Placed'
  BY <1>1, <1>3, <1>4 DEF Placed
<1>10. HeapTyped'
  BY <1>1, <1>3, <1>8 DEF HeapTyped, Died
<1>11. TodoTyped'
  BY <1>1, <1>3, <1>4, <1>5 DEF TodoTyped, Releasing
<1>12. OperandsTyped'
  BY <1>1, <1>2, <1>3, <1>4 DEF OperandsTyped
<1>13. Balance'
  <2>1. SUFFICES ASSUME NEW c \in Cell PROVE (count[c] = others[c] + FieldRefs(c) + Claims(c))'
    BY DEF Balance
  <2>2. /\ Keep' = Keep /\ Due' = Due \ {v} /\ Taking' = Taking /\ Temps' = Temps /\ Copied' = Copied
        /\ Copies' = Copies /\ Operands' = Operands
    BY <1>1, <1>2, <1>3, <1>4, <1>5 DEF Keep, Due, Taking, Temps, Copied, Copies, Operands, LiveAt, Managed
  <2>3. Names(Due \ {v}, env, c) = Names(Due, env, c) - (IF env[v] = c THEN 1 ELSE 0)
    <3>1. IsFiniteSet(Due) /\ v \in Due
      BY <1>1, <1>2, ClaimSets
    <3> QED
      BY <3>1, NamesRemove
  <2>4. FieldRefs(c)' = FieldRefs(c)
    BY <1>1 DEF FieldRefs
  <2>5. Claims(c)' = Names(Keep, env, c) + Names(Due \ {v}, env, c) + Names(Taking, Operands, c)
                      + Names(Copies, Copied, c) + Names(Temps, held, c)
    BY <1>1, <2>2 DEF Claims
  <2>6. Claims(c) = Names(Keep, env, c) + Names(Due, env, c) + Names(Taking, Operands, c)
                      + Names(Copies, Copied, c) + Names(Temps, held, c)
    BY DEF Claims
  <2>7. /\ Names(Keep, env, c) \in Nat /\ Names(Due, env, c) \in Nat /\ Names(Copies, Copied, c) \in Nat
        /\ Names(Taking, Operands, c) \in Nat /\ Names(Temps, held, c) \in Nat
        /\ FieldRefs(c) \in Nat /\ others[c] \in Nat /\ count[c] \in Nat
        /\ count[c] = others[c] + FieldRefs(c) + Claims(c)
    BY ClaimNumbers, Positive
  <2>8. count'[c] = count[c] - (IF env[v] = c THEN 1 ELSE 0)
    BY <1>6, <1>8
  <2> QED
    BY <1>3, <2>3, <2>4, <2>5, <2>6, <2>7, <2>8
<1>14. Scalars' /\ Unborrowed'
  BY <1>1, <1>3 DEF Scalars, Unborrowed, Managed, LiveAt
<1> QED
  BY <1>8, <1>9, <1>10, <1>11, <1>12, <1>13, <1>14 DEF refs, v

(* A zombie gives its fields up; the counts do not run short.              *)
LEMMA ReapInv == Inv /\ Reap => Inv' /\ ~Short(kids[Least(zombies)])
<1> SUFFICES ASSUME Inv, Reap PROVE Inv' /\ ~Short(kids[Least(zombies)])
  OBVIOUS
<1> USE DEF Typed, Inv
<1> DEFINE z == Least(zombies)
           refs == kids[z]
<1>1. /\ Placed /\ z \in zombies /\ z \in Cell
      /\ count' = Dropped(refs) /\ zombies' = (zombies \ {z}) \cup Died
      /\ kids' = [kids EXCEPT ![z] = [i \in Index |-> Unit]]
      /\ control' = control /\ planned' = planned /\ todo' = todo
      /\ pending' = pending /\ held' = held /\ env' = env /\ born' = born
  <2>1. zombies \subseteq Cell /\ zombies # {} /\ Cell \subseteq Nat
    BY Cells DEF Reap, HeapTyped
  <2>2. zombies \in SUBSET Nat
    BY <2>1
  <2>3. z \in zombies
    BY <2>1, <2>2, LeastMember
  <2> QED
    BY <2>1, <2>3 DEF Reap
<1> HIDE DEF z
<1>2. /\ prog' = prog /\ optimize' = optimize /\ plan' = plan /\ others' = others
      /\ block' = block /\ site' = site /\ stage' = stage /\ edge' = edge
  BY <1>1 DEF planned, control
<1>3. term' = term /\ AtTerm' = AtTerm /\ expr' = expr /\ here' = here /\ Returns' = Returns
  BY <1>2 DEF term, AtTerm, expr, here, Returns
<1>4. /\ count \in [Cell -> Nat] /\ kids \in [Cell -> [Index -> Ref]] /\ DOMAIN refs = Index
      /\ IsFiniteSet(Index)
  <2>1. 1 \in Int /\ 2 \in Int
    OBVIOUS
  <2>2. IsFiniteSet(Index)
    BY <2>1, FS_Interval DEF Index
  <2>3. count \in [Cell -> Nat] /\ kids \in [Cell -> [Index -> Ref]]
    BY DEF HeapTyped
  <2> QED
    BY <1>1, <2>2, <2>3
<1>5. ASSUME NEW c \in Cell
      PROVE  /\ FieldRefs(c)' = FieldRefs(c) - Occurs(refs, c)
             /\ FieldRefs(c) \in Nat /\ FieldRefs(c)' \in Nat /\ Occurs(refs, c) \in Nat
  <2>1. kids'[z] = [i \in Index |-> Unit] /\ \A d \in Cell : d # z => kids'[d] = kids[d]
    BY <1>1, <1>4
  <2>2. /\ FieldsOf(kids', c) + Names(Index, kids[z], c) = FieldsOf(kids, c) + Names(Index, kids'[z], c)
        /\ FieldsOf(kids', c) \in Nat /\ FieldsOf(kids, c) \in Nat
        /\ Names(Index, kids[z], c) \in Nat /\ Names(Index, kids'[z], c) \in Nat
    <3>1. z \in Cell /\ SameBut(kids, kids', z)
      BY <1>1, <2>1 DEF SameBut
    <3> QED
      BY <3>1, FieldsChanged
  <2>3. Names(Index, kids'[z], c) = 0
    <3>1. \A i \in Index : kids'[z][i] # c
      BY <2>1, Cells
    <3> QED
      BY <1>4, <3>1, NamesFinite
  <2>4. FieldRefs(c) = FieldsOf(kids, c) /\ FieldRefs(c)' = FieldsOf(kids', c)
    BY DEF FieldRefs, FieldsOf
  <2>5. Occurs(refs, c) = Names(Index, kids[z], c)
    BY <1>4, OccursNames
  <2> QED
    BY <2>2, <2>3, <2>4, <2>5
<1>6. \A c \in Cell : Occurs(refs, c) <= count[c]
  <2>1. SUFFICES ASSUME NEW c \in Cell PROVE Occurs(refs, c) <= count[c]
    OBVIOUS
  <2>2. /\ FieldRefs(c)' = FieldRefs(c) - Occurs(refs, c)
        /\ FieldRefs(c) \in Nat /\ FieldRefs(c)' \in Nat /\ Occurs(refs, c) \in Nat
    BY <1>5
  <2>3. /\ count[c] \in Nat /\ others[c] \in Nat /\ Claims(c) \in Nat
        /\ count[c] = others[c] + FieldRefs(c) + Claims(c)
    BY Positive
  <2> QED
    BY <2>2, <2>3
<1>7. /\ count' \in [Cell -> Nat] /\ ~Short(refs)
      /\ \A c \in Cell : /\ count'[c] = count[c] - Occurs(refs, c)
                         /\ count[c] = 0 => count'[c] = 0
  BY <1>1, <1>4, <1>6, DropCounted
<1> HIDE DEF refs
<1>8. Placed'
  BY <1>1, <1>2, <1>3 DEF Placed
<1>9. HeapTyped'
  <2>1. [i \in Index |-> Unit] \in [Index -> Ref]
    BY Cells
  <2>2. kids' \in [Cell -> [Index -> Ref]]
    BY <1>1, <1>4, <2>1
  <2>3. \A c \in Cell : kids[c] = [i \in Index |-> Unit] => kids'[c] = [i \in Index |-> Unit]
    BY <1>1, <1>4
  <2> QED
    BY <1>1, <1>2, <1>7, <2>2, <2>3 DEF HeapTyped, Died
<1>10. TodoTyped'
  BY <1>1, <1>2, <1>3 DEF TodoTyped, Releasing
<1>11. OperandsTyped'
  BY <1>1, <1>2, <1>3 DEF OperandsTyped, Managed
<1>12. Balance'
  <2>1. SUFFICES ASSUME NEW c \in Cell PROVE (count[c] = others[c] + FieldRefs(c) + Claims(c))'
    BY DEF Balance
  <2>2. /\ Keep' = Keep /\ Due' = Due /\ Taking' = Taking /\ Temps' = Temps /\ Copied' = Copied
        /\ Copies' = Copies /\ Operands' = Operands
    BY <1>1, <1>2, <1>3 DEF Keep, Due, Taking, Temps, Copied, Copies, Operands, LiveAt, Managed
  <2>3. Claims(c)' = Claims(c)
    BY <1>1, <2>2 DEF Claims
  <2>4. /\ count[c] \in Nat /\ others[c] \in Nat /\ Claims(c) \in Nat
        /\ count[c] = others[c] + FieldRefs(c) + Claims(c)
    BY Positive
  <2>5. /\ FieldRefs(c)' = FieldRefs(c) - Occurs(refs, c)
        /\ FieldRefs(c) \in Nat /\ FieldRefs(c)' \in Nat /\ Occurs(refs, c) \in Nat
    BY <1>5 DEF refs
  <2>6. count'[c] = count[c] - Occurs(refs, c)
    BY <1>7
  <2> QED
    BY <1>2, <2>3, <2>4, <2>5, <2>6
<1>13. Scalars' /\ Unborrowed'
  BY <1>1, <1>2 DEF Scalars, Unborrowed, Managed, LiveAt
<1> QED
  BY <1>7, <1>8, <1>9, <1>10, <1>11, <1>12, <1>13 DEF refs, z

-----------------------------------------------------------------------------
(* The evaluation of operands.                                             *)

Same == [v \in Value |-> v]
First == [s \in Value \X Nat |-> s[1]]

(* A value names itself once.                                              *)
LEMMA NamesItself ==
    ASSUME NEW S \in SUBSET Value, NEW w \in Value
    PROVE  Names(S, Same, w) = Bit(w \in S)
<1>1. \A v \in S : Same[v] = v
  BY DEF Same
<1>2. CASE w \in S
  <2>1. {v \in S : Same[v] = w} = {w}
    BY <1>1, <1>2
  <2> QED
    BY <1>2, <2>1, FS_Singleton DEF Names, Bit
<1>3. CASE w \notin S
  <2>1. {v \in S : Same[v] = w} = {}
    BY <1>1, <1>3
  <2> QED
    BY <1>3, <2>1, FS_EmptySet DEF Names, Bit
<1> QED
  BY <1>2, <1>3

(* The retains done before a site, said of one value.                      *)
LEMMA NamesRetained ==
    ASSUME NEW r \in [Value -> Nat], NEW w \in Value
    PROVE  Names({s \in Value \X Nat : 0 < s[2] /\ s[2] <= r[s[1]]}, First, w) = r[w]
<1> DEFINE S == {s \in Value \X Nat : 0 < s[2] /\ s[2] <= r[s[1]]}
           T == {s \in S : First[s] = w}
           h == [n \in 1 .. r[w] |-> <<w, n>>]
<1>1. r[w] \in Nat
  OBVIOUS
<1>2. \A s \in S : First[s] = s[1]
  BY DEF First
<1>3. T = {s \in S : s[1] = w}
  BY <1>2
<1>4. h \in Bijection(1 .. r[w], T)
  <2>1. \A n \in 1 .. r[w] : h[n] \in T
    <3>1. \A n \in 1 .. r[w] : n \in Nat /\ 0 < n /\ n <= r[w] /\ h[n] = <<w, n>>
      BY <1>1
    <3> HIDE DEF h, T
    <3>2. \A n \in 1 .. r[w] : <<w, n>> \in S
      BY <3>1
    <3> HIDE DEF S
    <3> QED
      BY <1>3, <3>1, <3>2
  <2>2. \A m, n \in 1 .. r[w] : h[m] = h[n] => m = n
    OBVIOUS
  <2>3. \A t \in T : \E n \in 1 .. r[w] : h[n] = t
    <3>1. SUFFICES ASSUME NEW t \in T PROVE \E n \in 1 .. r[w] : h[n] = t
      OBVIOUS
    <3>2. t \in Value \X Nat /\ t[1] = w /\ 0 < t[2] /\ t[2] <= r[w]
      BY <1>3, <3>1
    <3>3. t = <<w, t[2]>> /\ t[2] \in 1 .. r[w]
      BY <1>1, <3>2
    <3> QED
      BY <3>3
  <2>4. h \in [1 .. r[w] -> T]
    BY <2>1
  <2> HIDE DEF h, T
  <2> QED
    BY <2>2, <2>3, <2>4 DEF Bijection, Injection, Surjection, IsInjective
<1> HIDE DEF h, T
<1>5. IsFiniteSet(1 .. r[w]) /\ Cardinality(1 .. r[w]) = r[w]
  BY <1>1, FS_Interval
<1>6. Cardinality(T) = Cardinality(1 .. r[w])
  <2>1. ExistsBijection(1 .. r[w], T)
    BY <1>4 DEF ExistsBijection
  <2> QED
    BY <1>5, <2>1, FS_Bijection
<1> QED
  BY <1>5, <1>6 DEF Names, T, S

(* The operands of a site that name a cell: scalars do not.                *)
LEMMA ScalarOperand ==
    ASSUME Placed, Scalars, site # 0, NEW k \in DOMAIN expr.args, expr.args[k].val \notin Managed
    PROVE  env[expr.args[k].val] \notin Cell
BY AtSite DEF Scalars

(* Evaluation begins: the operands that take a reference claim it.         *)
LEMMA StartEvalInv == Inv /\ StartEval => Inv'
<1> SUFFICES ASSUME Inv, StartEval PROVE Inv'
  OBVIOUS
<1> USE DEF Typed, Inv
<1>1. /\ Placed /\ stage = "pre" /\ todo.release = {} /\ zombies = {} /\ site # 0
      /\ \A v \in Value : todo.retain[v] = 0
      /\ stage' = "eval" /\ site' = site /\ todo' = todo /\ heap' = heap /\ env' = env
      /\ pending' = DOMAIN expr.args /\ held' = [k \in DOMAIN expr.args |-> Unit]
      /\ block' = block /\ prog' = prog /\ plan' = plan /\ optimize' = optimize /\ others' = others
  BY Quiet DEF StartEval, planned, At, Placed
<1>2. term' = term /\ AtTerm' = AtTerm /\ expr' = expr /\ here' = here /\ Returns' = Returns
  BY <1>1 DEF term, AtTerm, expr, here, Returns
<1>3. /\ Shaped(prog) /\ block \in Blocks(prog) /\ site \in Sites(prog, block) /\ Managed \subseteq Value
      /\ here = PlannedAt(prog, optimize, block, site) /\ here.late \subseteq Value
      /\ here.retain \in [Value -> Nat]
      /\ IsFiniteSet(DOMAIN expr.args)
      /\ \A k \in DOMAIN expr.args : expr.args[k].val \in Value
  BY <1>1, Here, AtSite, HereTypes
<1>4. Placed'
  BY <1>1, <1>2 DEF Placed, Stages
<1>5. HeapTyped'
  BY <1>1 DEF HeapTyped, heap
<1>6. TodoTyped'
  BY <1>1 DEF TodoTyped
<1>7. OperandsTyped'
  BY <1>1, <1>2, Cells DEF OperandsTyped
<1>8. Balance'
  <2>1. SUFFICES ASSUME NEW c \in Cell PROVE (count[c] = others[c] + FieldRefs(c) + Claims(c))'
    BY DEF Balance
  <2> DEFINE W == {v \in Managed : env[v] = c}
             before == {s \in Value \X Nat : 0 < s[2] /\ s[2] <= here.retain[s[1]]}
             kept == (LiveAt(site) \cap Managed) \ Defs(prog, block, site)
             late == here.late \ Defs(prog, block, site)
             takers == {k \in DOMAIN expr.args : Role(expr, k) = "Owned"}
             vals == [k \in DOMAIN expr.args |-> expr.args[k].val]
  <2>2. /\ Keep = (LiveAt(site - 1) \cap Managed) \ here.early /\ Due = {} /\ Taking = {} /\ Temps = {}
        /\ Copies = before
    BY <1>1 DEF Keep, Due, Taking, Temps, Copies
  <2>3. /\ Keep' = kept /\ Due' = late /\ Taking' = takers /\ Temps' = {} /\ Copies' = {}
        /\ Operands' = Operands
    <3>1. Keep' = kept
      BY <1>1, <1>2 DEF Keep, LiveAt, Managed
    <3>2. Due' = late
      BY <1>1, <1>2 DEF Due
    <3>3. Taking' = takers /\ Temps' = {} /\ Copies' = {} /\ Operands' = Operands
      BY <1>1, <1>2 DEF Taking, Temps, Copies, Operands
    <3> QED
      BY <3>1, <3>2, <3>3
  <2>4. /\ IsFiniteSet(Keep) /\ IsFiniteSet(before) /\ IsFiniteSet(kept) /\ IsFiniteSet(late)
        /\ IsFiniteSet(takers) /\ IsFiniteSet(W)
    <3>1. kept \in SUBSET Value /\ late \in SUBSET Value /\ W \in SUBSET Value
      BY <1>3
    <3>2. takers \in SUBSET DOMAIN expr.args
      OBVIOUS
    <3>3. IsFiniteSet(kept) /\ IsFiniteSet(late) /\ IsFiniteSet(W)
      BY <3>1, FiniteClaims
    <3>4. IsFiniteSet(takers)
      BY <1>3, <3>2, FS_Subset
    <3> HIDE DEF kept, late, W, takers, before
    <3> QED
      BY <2>2, <3>3, <3>4, ClaimSets
  <2>5. late \subseteq Managed
    <3>1. SUFFICES ASSUME NEW v \in here.late, v \notin Defs(prog, block, site) PROVE v \in Managed
      OBVIOUS
    <3>2. v \in Value
      BY <1>3
    <3>3. v \in here.late /\ v \notin Defs(prog, block, site)
             => v \in Classify(prog) /\ v \in Uses(prog, block, site)
      BY <1>3, <3>2, SiteReleases
    <3> QED
      BY <3>1, <3>3 DEF Managed
  <2>6. \A s \in before : s[1] \in Managed /\ Copied[s] = env[s[1]] /\ First[s] = s[1]
    <3>1. SUFFICES ASSUME NEW s \in before PROVE s[1] \in Managed /\ Copied[s] = env[s[1]] /\ First[s] = s[1]
      OBVIOUS
    <3>2. s \in Value \X Nat /\ 0 < s[2] /\ s[2] <= here.retain[s[1]]
      OBVIOUS
    <3>3. s[1] \in Value /\ s[2] \in Nat /\ here.retain[s[1]] \in Nat
      BY <1>3, <3>2
    <3>4. here.retain[s[1]] > 0
      BY <3>2, <3>3
    <3>5. s[1] \in Managed
      BY <1>3, <3>3, <3>4, SiteReleases DEF Managed
    <3> QED
      BY <3>2, <3>5 DEF Copied, First
  <2>7. \A k \in takers : Operands[k] = env[expr.args[k].val] /\ vals[k] = expr.args[k].val
                          /\ (Operands[k] = c => expr.args[k].val \in Managed)
    <3>1. SUFFICES ASSUME NEW k \in DOMAIN expr.args
                   PROVE  Operands[k] = env[expr.args[k].val] /\ vals[k] = expr.args[k].val
                          /\ (Operands[k] = c => expr.args[k].val \in Managed)
      OBVIOUS
    <3>2. Operands[k] = env[expr.args[k].val]
      BY DEF Operands
    <3>3. env[expr.args[k].val] = c => expr.args[k].val \in Managed
      BY <1>1, ScalarOperand
    <3> QED
      BY <3>2, <3>3
  <2> HIDE DEF before, kept, late, takers
  <2>8. \A w \in W : Names(Keep, Same, w) + Names(before, First, w) =
                       Names(kept, Same, w) + Names(late, Same, w) + Names(takers, vals, w)
    <3>1. SUFFICES ASSUME NEW w \in W
                   PROVE  Names(Keep, Same, w) + Names(before, First, w) =
                            Names(kept, Same, w) + Names(late, Same, w) + Names(takers, vals, w)
      OBVIOUS
    <3>2. w \in Managed /\ w \in Value
      BY <1>3
    <3>3. /\ Names(Keep, Same, w) = Bit(w \in Keep) /\ Names(kept, Same, w) = Bit(w \in kept)
          /\ Names(late, Same, w) = Bit(w \in late)
      <4>1. Keep \in SUBSET Value /\ kept \in SUBSET Value /\ late \in SUBSET Value
        BY <1>3, <2>2, <2>5 DEF kept
      <4> QED
        BY <3>2, <4>1, NamesItself
    <3>4. Names(before, First, w) = here.retain[w]
      BY <1>3, <3>2, NamesRetained DEF before
    <3>5. Names(takers, vals, w) = Cardinality(With(prog, block, site, w, "Owned"))
      <4>1. {k \in takers : vals[k] = w} = With(prog, block, site, w, "Owned")
        BY DEF takers, With, expr
      <4> QED
        BY <4>1 DEF Names
    <3>6. Bit(w \in After(prog, block)[site - 1] \ here.early) + here.retain[w] =
             Bit(w \in After(prog, block)[site] \ Defs(prog, block, site))
               + Bit(w \in here.late \ Defs(prog, block, site))
               + Cardinality(With(prog, block, site, w, "Owned"))
      <4>1. w \in Classify(prog)
        BY <3>2 DEF Managed
      <4> QED
        BY <1>3, <4>1, SiteBalance
    <3>7. /\ w \in Keep <=> w \in After(prog, block)[site - 1] \ here.early
          /\ w \in kept <=> w \in After(prog, block)[site] \ Defs(prog, block, site)
          /\ w \in late <=> w \in here.late \ Defs(prog, block, site)
      BY <2>2, <3>2 DEF kept, late, LiveAt
    <3> QED
      BY <3>3, <3>4, <3>5, <3>6, <3>7 DEF Bit
  <2> HIDE DEF vals
  <2>9. Into(Keep, Same, W) + Into(before, First, W) =
           Into(kept, Same, W) + Into(late, Same, W) + Into(takers, vals, W)
    <3> HIDE DEF W
    <3> QED
      BY <2>4, <2>8, SameSpread
  <2>10. ASSUME NEW S \in SUBSET Managed PROVE Into(S, Same, W) = Names(S, env, c)
    <3>1. \A v \in S : Same[v] = v
      BY <1>3 DEF Same
    <3>2. {v \in S : Same[v] \in W} = {v \in S : env[v] = c}
      BY <3>1
    <3> QED
      BY <3>2 DEF Into, Names
  <2>11. /\ Into(Keep, Same, W) = Names(Keep, env, c) /\ Into(kept, Same, W) = Names(kept, env, c)
         /\ Into(late, Same, W) = Names(late, env, c)
    <3>1. Keep \in SUBSET Managed /\ kept \in SUBSET Managed /\ late \in SUBSET Managed
      BY <2>2, <2>5 DEF kept
    <3> HIDE DEF W
    <3> QED
      BY <2>10, <3>1
  <2>12. Into(before, First, W) = Names(before, Copied, c)
    <3>1. {s \in before : First[s] \in W} = {s \in before : Copied[s] = c}
      BY <2>6
    <3> QED
      BY <3>1 DEF Into, Names
  <2>13. Into(takers, vals, W) = Names(takers, Operands, c)
    <3>1. {k \in takers : vals[k] \in W} = {k \in takers : Operands[k] = c}
      BY <2>7
    <3> QED
      BY <3>1 DEF Into, Names
  <2>14. Claims(c) = Names(Keep, env, c) + 0 + 0 + Names(before, Copied, c) + 0
    BY <2>2, NamesNone DEF Claims
  <2>15. Claims(c)' = Names(kept, env, c) + Names(late, env, c) + Names(takers, Operands, c) + 0 + 0
    BY <1>1, <2>3, NamesNone DEF Claims
  <2>16. /\ Names(Keep, env, c) \in Nat /\ Names(before, Copied, c) \in Nat
         /\ Names(kept, env, c) \in Nat /\ Names(late, env, c) \in Nat /\ Names(takers, Operands, c) \in Nat
    BY <2>4, NamesFinite
  <2>17. Claims(c)' = Claims(c)
    BY <2>9, <2>11, <2>12, <2>13, <2>14, <2>15, <2>16
  <2>18. count[c] = others[c] + FieldRefs(c) + Claims(c)
    BY DEF Balance
  <2>19. FieldRefs(c)' = FieldRefs(c) /\ count' = count
    BY <1>1 DEF FieldRefs, heap
  <2> QED
    BY <1>1, <2>17, <2>18, <2>19
<1>9. Scalars' /\ Unborrowed'
  BY <1>1 DEF Scalars, Unborrowed, Managed, LiveAt
<1> QED
  BY <1>4, <1>5, <1>6, <1>7, <1>8, <1>9

(* One more member, for every set and function at once.                    *)
LEMMA NamesAdding ==
    \A S, x, f, c : IsFiniteSet(S) /\ x \notin S =>
       Names(S \cup {x}, f, c) = Names(S, f, c) + (IF f[x] = c THEN 1 ELSE 0)
<1> SUFFICES ASSUME NEW S, NEW x, NEW f, NEW c, IsFiniteSet(S), x \notin S
             PROVE  Names(S \cup {x}, f, c) = Names(S, f, c) + (IF f[x] = c THEN 1 ELSE 0)
  OBVIOUS
<1> QED
  BY NamesAdd

One(x, c) == IF x = c THEN 1 ELSE 0

(* A call returns a reference.                                             *)
LEMMA CalledResult ==
    ASSUME HeapTyped, NEW args, \A k \in DOMAIN args : args[k] \in Ref, NEW res, Called(args, res)
    PROVE  res \in Ref
<1>1. born \in Nat
  BY DEF HeapTyped
<1>2. ASSUME res = born + 1, Allocate(<<>>, Dropped(args)) PROVE res \in Ref
  BY <1>1, <1>2, UnitAssumption DEF Allocate, Cell, Ref
<1> QED
  BY <1>2 DEF Called

(* A call gives its arguments up, and gives back one reference.            *)
LEMMA CalledHeap ==
    ASSUME HeapTyped, zombies = {}, env' \in [Value -> Ref], others' = others,
           NEW args, IsFiniteSet(DOMAIN args), \A k \in DOMAIN args : args[k] \in Ref,
           \A c \in Cell : Occurs(args, c) <= count[c],
           NEW res, Called(args, res)
    PROVE  /\ HeapTyped' /\ res \in Ref /\ kids' = kids
           /\ \A c \in Cell : /\ count'[c] = (count[c] - Occurs(args, c)) + One(res, c)
                              /\ Occurs(args, c) \in Nat /\ count[c] \in Nat
<1>1. /\ count \in [Cell -> Nat] /\ born \in 0 .. MaxCells /\ kids \in [Cell -> [Index -> Ref]]
      /\ \A c \in Cell : c > born => count[c] = 0 /\ kids[c] = [i \in Index |-> Unit]
  BY DEF HeapTyped
<1>2. zombies' = Died
  BY DEF Called
<1>3. CASE res = born + 1 /\ Allocate(<<>>, Dropped(args))
  <2>1. born < MaxCells /\ born' = born + 1 /\ count' = [Dropped(args) EXCEPT ![born + 1] = 1]
        /\ kids' = [kids EXCEPT ![born + 1] = [i \in Index |-> IF i \in DOMAIN <<>> THEN <<>>[i] ELSE Unit]]
    BY <1>3 DEF Allocate
  <2>2. born + 1 \in Cell /\ born + 1 > born /\ born + 1 \in 0 .. MaxCells
    BY <1>1, <2>1, UnitAssumption DEF Cell
  <2>3. /\ Dropped(args) \in [Cell -> Nat]
        /\ \A c \in Cell : /\ Dropped(args)[c] = count[c] - Occurs(args, c)
                           /\ Occurs(args, c) \in Nat
                           /\ count[c] = 0 => Dropped(args)[c] = 0
    BY <1>1, DropCounted
  <2>4. kids' = kids
    <3>1. DOMAIN <<>> = {}
      OBVIOUS
    <3>2. kids[born + 1] = [i \in Index |-> IF i \in DOMAIN <<>> THEN <<>>[i] ELSE Unit]
      BY <1>1, <2>2, <3>1
    <3> QED
      BY <1>1, <2>1, <2>2, <3>2
  <2>5. ASSUME NEW c \in Cell
        PROVE  /\ count'[c] = (count[c] - Occurs(args, c)) + One(res, c)
               /\ count'[c] \in Nat /\ c > born + 1 => count'[c] = 0
    <3>1. CASE c = born + 1
      <4>1. count[c] = 0 /\ Occurs(args, c) = 0
        BY <1>1, <2>2, <2>3, <3>1
      <4> QED
        BY <1>3, <2>1, <2>2, <2>3, <3>1, <4>1 DEF One
    <3>2. CASE c # born + 1
      <4>1. count'[c] = Dropped(args)[c]
        BY <2>1, <2>2, <2>3, <3>2
      <4>2. c > born + 1 => c > born
        BY <1>1, Cells
      <4> QED
        BY <1>1, <1>3, <2>3, <3>2, <4>1, <4>2 DEF One
    <3> QED
      BY <3>1, <3>2
  <2>6. HeapTyped'
    <3>1. count' \in [Cell -> Nat]
      BY <2>1, <2>2, <2>3
    <3>2. \A c \in Cell : c > born + 1 => c > born
      BY <1>1, UnitAssumption DEF Cell
    <3> QED
      BY <1>1, <1>2, <2>1, <2>2, <2>4, <2>5, <3>1, <3>2 DEF HeapTyped, Died
  <2> QED
    BY <1>1, <1>3, <2>2, <2>3, <2>4, <2>5, <2>6, Cells
<1>4. CASE \E k \in DOMAIN args : res = args[k] /\ count' = Dropped([args EXCEPT ![k] = Unit])
                                   /\ UNCHANGED <<born, kids>>
  <2>1. PICK k \in DOMAIN args : /\ res = args[k] /\ count' = Dropped([args EXCEPT ![k] = Unit])
                                 /\ born' = born /\ kids' = kids
    BY <1>4
  <2> DEFINE rest == [args EXCEPT ![k] = Unit]
  <2>2. DOMAIN rest = DOMAIN args /\ IsFiniteSet(DOMAIN rest)
    OBVIOUS
  <2>3. ASSUME NEW c \in Cell
        PROVE  /\ Occurs(rest, c) = Occurs(args, c) - One(res, c)
               /\ Occurs(args, c) \in Nat /\ Occurs(rest, c) \in Nat
               /\ Occurs(rest, c) <= count[c]
    <3> DEFINE R == DOMAIN args \ {k}
    <3>1. Names(R, args, c) = Names(DOMAIN args, args, c) - (IF args[k] = c THEN 1 ELSE 0)
      BY NamesRemove
    <3>2. DOMAIN rest = R \cup {k} /\ k \notin R /\ IsFiniteSet(R)
      <4>1. R \in SUBSET DOMAIN args
        OBVIOUS
      <4> QED
        BY <2>2, <4>1, FS_Subset
    <3>3. Names(R \cup {k}, rest, c) = Names(R, rest, c) + (IF rest[k] = c THEN 1 ELSE 0)
      <4> HIDE DEF rest, R
      <4> QED
        BY <3>2, NamesAdd
    <3>4. rest[k] # c
      BY Cells
    <3>5. Names(R, rest, c) = Names(R, args, c)
      <4>1. \A j \in R : rest[j] = args[j]
        OBVIOUS
      <4> HIDE DEF rest, R
      <4>2. \A j \in R : rest[j] = c <=> args[j] = c
        BY <4>1
      <4> QED
        BY <4>2, NamesSame
    <3>6. Names(R, args, c) \in Nat /\ Names(DOMAIN args, args, c) \in Nat
      BY <3>2, NamesFinite
    <3>7. Occurs(rest, c) = Names(R \cup {k}, rest, c) /\ Occurs(args, c) = Names(DOMAIN args, args, c)
      BY <3>2, OccursNames
    <3>8. Occurs(args, c) <= count[c] /\ count[c] \in Nat
      BY <1>1
    <3> HIDE DEF rest, R
    <3> QED
      BY <2>1, <3>1, <3>3, <3>4, <3>5, <3>6, <3>7, <3>8 DEF One
  <2> HIDE DEF rest
  <2>4. /\ Dropped(rest) \in [Cell -> Nat]
        /\ \A c \in Cell : /\ Dropped(rest)[c] = count[c] - Occurs(rest, c)
                           /\ count[c] = 0 => Dropped(rest)[c] = 0
    BY <1>1, <2>2, <2>3, DropCounted
  <2>5. count' = Dropped(rest)
    BY <2>1 DEF rest
  <2>6. ASSUME NEW c \in Cell PROVE count'[c] = (count[c] - Occurs(args, c)) + One(res, c) /\ count[c] \in Nat
    BY <1>1, <2>3, <2>4, <2>5 DEF One
  <2>7. HeapTyped'
    BY <1>1, <1>2, <2>1, <2>4, <2>5 DEF HeapTyped, Died
  <2> QED
    BY <2>1, <2>3, <2>6, <2>7
<1> QED
  BY <1>3, <1>4 DEF Called

(* What an operand that is evaluated leaves as it was.                     *)
LEMMA OperandFrame ==
    ASSUME Inv, NEW k, Operand(k), NEW r \in Ref, held' = [held EXCEPT ![k] = r],
           expr.args[k].via = "direct" => r = env[expr.args[k].val],
           expr.args[k].via = "field" /\ expr.args[k].val \notin Managed => r \notin Cell
    PROVE  /\ Placed' /\ TodoTyped' /\ OperandsTyped' /\ Scalars' /\ Unborrowed'
           /\ Placed /\ stage = "eval" /\ site # 0 /\ zombies = {}
           /\ k \in DOMAIN expr.args /\ env' = env /\ others' = others
           /\ Keep' = Keep /\ Due' = Due /\ Copies' = {} /\ Copies = {} /\ Operands' = Operands
           /\ Taking' = Taking \ {k}
           /\ k \in Taking <=> Role(expr, k) = "Owned"
           /\ Temps' = Temps \cup (IF expr.args[k].via # "direct" \/ Role(expr, k) = "Owned" THEN {k} ELSE {})
           /\ k \notin Temps
           /\ \A c : Names(Temps, held', c) = Names(Temps, held, c)
           /\ held'[k] = r
<1> USE DEF Inv, Typed
<1>1. /\ Placed /\ stage = "eval" /\ site # 0 /\ zombies = {} /\ k \in pending
      /\ pending' = pending \ {k}
      /\ control' = control /\ planned' = planned /\ todo' = todo /\ env' = env
  BY Quiet DEF Operand, Placed, At
<1>2. /\ prog' = prog /\ optimize' = optimize /\ plan' = plan /\ others' = others
      /\ block' = block /\ site' = site /\ stage' = stage /\ edge' = edge
  BY <1>1 DEF planned, control
<1>3. term' = term /\ AtTerm' = AtTerm /\ expr' = expr /\ here' = here /\ Returns' = Returns
  BY <1>2 DEF term, AtTerm, expr, here, Returns
<1>4. pending \subseteq DOMAIN expr.args /\ held \in [DOMAIN expr.args -> Ref]
  BY <1>1 DEF OperandsTyped
<1>5. held'[k] = r /\ \A j \in DOMAIN expr.args : j # k => held'[j] = held[j]
  BY <1>1, <1>4
<1>6. held' \in [DOMAIN expr.args -> Ref]
  BY <1>4
<1>7. Placed' /\ TodoTyped' /\ Scalars' /\ Unborrowed'
  BY <1>1, <1>2, <1>3 DEF Placed, TodoTyped, Releasing, Scalars, Unborrowed, Managed, LiveAt
<1>8. OperandsTyped'
  <2>1. \A j \in DOMAIN expr.args \ pending' :
          /\ expr.args[j].via = "direct" => held'[j] = env[expr.args[j].val]
          /\ expr.args[j].via = "field" /\ expr.args[j].val \notin Managed => held'[j] \notin Cell
    BY <1>1, <1>5 DEF OperandsTyped
  <2> QED
    BY <1>1, <1>2, <1>3, <1>4, <1>6, <2>1 DEF OperandsTyped, Managed
<1>9. Keep' = Keep /\ Due' = Due /\ Copies' = {} /\ Copies = {} /\ Operands' = Operands
  <2>1. Keep' = Keep /\ Due' = Due
    BY <1>1, <1>2, <1>3 DEF Keep, Due, LiveAt, Managed
  <2>2. Copies' = {} /\ Copies = {}
    BY <1>1, <1>2 DEF Copies
  <2>3. Operands' = Operands
    BY <1>1, <1>3 DEF Operands
  <2> QED
    BY <2>1, <2>2, <2>3
<1>10. Taking' = Taking \ {k} /\ (k \in Taking <=> Role(expr, k) = "Owned")
  BY <1>1, <1>2, <1>3 DEF Taking
<1>11. k \notin Temps /\ Temps' = Temps \cup (IF expr.args[k].via # "direct" \/ Role(expr, k) = "Owned" THEN {k} ELSE {})
  BY <1>1, <1>2, <1>3, <1>4 DEF Temps
<1>12. ASSUME NEW c PROVE Names(Temps, held', c) = Names(Temps, held, c)
  <2>1. Temps \subseteq DOMAIN expr.args
    BY <1>1 DEF Temps
  <2>2. \A j \in Temps : held'[j] = c <=> held[j] = c
    BY <1>5, <1>11, <2>1
  <2>3. \A g, h : (\A j \in Temps : g[j] = c <=> h[j] = c) => Names(Temps, g, c) = Names(Temps, h, c)
    BY NamesSame
  <2> QED
    BY <2>2, <2>3
<1> QED
  BY <1>1, <1>2, <1>4, <1>5, <1>7, <1>8, <1>9, <1>10, <1>11, <1>12

(* ... and what it does to the claims on a cell.                           *)
LEMMA OperandClaims ==
    ASSUME Inv, NEW k, Operand(k), NEW r \in Ref, held' = [held EXCEPT ![k] = r],
           expr.args[k].via = "direct" => r = env[expr.args[k].val],
           expr.args[k].via = "field" /\ expr.args[k].val \notin Managed => r \notin Cell,
           NEW c \in Cell
    PROVE  /\ Claims(c)' = (Claims(c) - (IF Role(expr, k) = "Owned" THEN One(env[expr.args[k].val], c) ELSE 0))
                           + (IF expr.args[k].via # "direct" \/ Role(expr, k) = "Owned" THEN One(r, c) ELSE 0)
           /\ Claims(c) \in Nat
<1> DEFINE o == env[expr.args[k].val]
           owned == Role(expr, k) = "Owned"
           temp == expr.args[k].via # "direct" \/ owned
<1>1. /\ k \in DOMAIN expr.args /\ env' = env
      /\ Keep' = Keep /\ Due' = Due /\ Copies' = {} /\ Copies = {} /\ Operands' = Operands
      /\ Taking' = Taking \ {k}
      /\ k \in Taking <=> owned
      /\ Temps' = Temps \cup (IF temp THEN {k} ELSE {})
      /\ k \notin Temps
      /\ Names(Temps, held', c) = Names(Temps, held, c)
      /\ held'[k] = r
  BY OperandFrame
<1>2. /\ IsFiniteSet(Taking) /\ IsFiniteSet(Temps)
      /\ Names(Keep, env, c) \in Nat /\ Names(Due, env, c) \in Nat
      /\ Names(Taking, Operands, c) \in Nat /\ Names(Copies, Copied, c) \in Nat
      /\ Names(Temps, held, c) \in Nat
  BY ClaimSets, ClaimNumbers DEF Inv, Typed
<1>3. Names(Taking', Operands, c) = Names(Taking, Operands, c) - (IF owned THEN One(o, c) ELSE 0)
  <2>1. CASE owned
    <3>1. Operands[k] = o
      BY <1>1 DEF Operands
    <3>2. Names(Taking \ {k}, Operands, c) = Names(Taking, Operands, c) - (IF Operands[k] = c THEN 1 ELSE 0)
      <4>1. IsFiniteSet(Taking) /\ k \in Taking
        BY <1>1, <1>2, <2>1
      <4> QED
        BY <4>1, NamesRemove
    <3> QED
      BY <1>1, <2>1, <3>1, <3>2 DEF One
  <2>2. CASE ~owned
    <3>1. Taking' = Taking
      BY <1>1, <2>2
    <3> QED
      BY <1>2, <2>2, <3>1
  <2> QED
    BY <2>1, <2>2
<1>4. Names(Temps', held', c) = Names(Temps, held, c) + (IF temp THEN One(r, c) ELSE 0)
  <2>1. CASE temp
    <3>1. IsFiniteSet(Temps) /\ k \notin Temps
      BY <1>1, <1>2
    <3>2. Names(Temps \cup {k}, held', c) = Names(Temps, held', c) + (IF held'[k] = c THEN 1 ELSE 0)
      <4> DEFINE S == Temps
                 h == held'
      <4> HIDE DEF S, h
      <4>1. IsFiniteSet(S) /\ k \notin S
        BY <3>1 DEF S
      <4>2. Names(S \cup {k}, h, c) = Names(S, h, c) + (IF h[k] = c THEN 1 ELSE 0)
        BY <4>1, NamesAdding
      <4> QED
        BY <4>2 DEF S, h
    <3> QED
      BY <1>1, <2>1, <3>2 DEF One
  <2>2. CASE ~temp
    <3>1. Temps' = Temps
      BY <1>1, <2>2
    <3> QED
      BY <1>1, <1>2, <2>2, <3>1
  <2> QED
    BY <2>1, <2>2
<1>5. Claims(c)' = Names(Keep, env, c) + Names(Due, env, c) + Names(Taking', Operands, c)
                   + 0 + Names(Temps', held', c)
  BY <1>1, NamesNone DEF Claims
<1>6. Claims(c) = Names(Keep, env, c) + Names(Due, env, c) + Names(Taking, Operands, c)
                   + 0 + Names(Temps, held, c)
  BY <1>1, NamesNone DEF Claims
<1>7. (IF owned THEN One(o, c) ELSE 0) \in Nat /\ (IF temp THEN One(r, c) ELSE 0) \in Nat
  BY DEF One
<1> HIDE DEF o, owned, temp
<1>8. Claims(c)' = (Claims(c) - (IF owned THEN One(o, c) ELSE 0)) + (IF temp THEN One(r, c) ELSE 0)
      /\ Claims(c) \in Nat
  BY <1>2, <1>3, <1>4, <1>5, <1>6, <1>7
<1> QED
  BY <1>8 DEF o, owned, temp

(* One reference, counted.                                                 *)
LEMMA OccursIsOne == ASSUME NEW r, NEW c PROVE Occurs(<<r>>, c) = One(r, c)
BY OccursOne DEF One

(* That number is one or zero.                                             *)
LEMMA Ones == ASSUME NEW r, NEW c PROVE One(r, c) \in Nat /\ (One(r, c) > 0 <=> r = c)
BY DEF One

(* The sequence of one reference.                                          *)
LEMMA Single == ASSUME NEW r PROVE DOMAIN <<r>> = {1} /\ IsFiniteSet(DOMAIN <<r>>) /\ <<r>>[1] = r
<1>1. DOMAIN <<r>> = {1} /\ <<r>>[1] = r
  OBVIOUS
<1> QED
  BY <1>1, FS_Singleton

(* A reference is copied into a local or a temporary.                      *)
LEMMA RetainedHeap ==
    ASSUME HeapTyped, NEW r, \A c \in Cell : r = c => c <= born,
           count' = Retained(<<r>>), env' \in [Value -> Ref],
           born' = born, kids' = kids, zombies' = zombies, others' = others, zombies = {}
    PROVE  HeapTyped' /\ \A c \in Cell : count'[c] = count[c] + One(r, c) /\ count[c] \in Nat
<1>1. \A c \in Cell : count[c] \in Nat /\ born \in Nat
  BY DEF HeapTyped
<1>2. \A c \in Cell : count'[c] = count[c] + One(r, c)
  BY OccursIsOne DEF Retained
<1>3. count' \in [Cell -> Nat]
  <2>1. \A c \in Cell : count[c] + Occurs(<<r>>, c) \in Nat
    BY <1>1, OccursIsOne, Ones
  <2> QED
    BY <2>1 DEF Retained
<1>4. \A c \in Cell : c > born => count'[c] = 0
  <2>1. SUFFICES ASSUME NEW c \in Cell, c > born PROVE count'[c] = 0
    OBVIOUS
  <2>2. c \in Nat /\ born \in Nat /\ r # c
    BY <1>1, <2>1, Cells
  <2>3. count[c] = 0
    BY <2>1 DEF HeapTyped
  <2> QED
    BY <1>2, <2>2, <2>3 DEF One
<1> QED
  BY <1>1, <1>2, <1>3, <1>4 DEF HeapTyped

(* An operand is evaluated: it borrows, gives a copy, loads a field or     *)
(* calls.                                                                  *)
LEMMA OperandInv ==
    ASSUME NEW k, Inv, Operand(k)
    PROVE  Inv' /\ (expr.args[k].via = "call" => ~Short(<<env[expr.args[k].val]>>))
<1> DEFINE v == expr.args[k].val
<1>1. /\ Placed /\ stage = "eval" /\ site # 0 /\ k \in pending /\ zombies = {}
      /\ env' = env /\ others' = others
  BY Quiet DEF Operand, Placed, At, Inv, Typed, planned
<1>2. /\ HeapTyped /\ k \in DOMAIN expr.args /\ pending \subseteq DOMAIN expr.args
      /\ count \in [Cell -> Nat] /\ kids \in [Cell -> [Index -> Ref]] /\ env \in [Value -> Ref]
  BY <1>1 DEF Inv, Typed, HeapTyped, OperandsTyped
<1>3. /\ v \in Value /\ env[v] \in Ref /\ Shaped(prog) /\ block \in Blocks(prog)
      /\ site \in Sites(prog, block) /\ expr = ExprAt(prog, block, site)
  BY <1>1, <1>2, AtSite, Here DEF expr
<1>4. /\ Role(expr, k) \in {"Read", "Owned"}
      /\ expr.args[k].via = "field" => Role(expr, k) = "Read"
      /\ expr.args[k].via = "call" => Role(expr, k) = "Owned"
  BY <1>2, <1>3, RoleIs
<1>5. Typed /\ Balance
  BY DEF Inv
<1>6. CASE expr.args[k].via = "direct"
  <2> DEFINE r == env[v]
  <2>1. held' = [held EXCEPT ![k] = r] /\ heap' = heap
    BY <1>6 DEF Operand
  <2>2. r \in Ref
    BY <1>3
  <2>3. /\ Placed' /\ TodoTyped' /\ OperandsTyped' /\ Scalars' /\ Unborrowed'
    BY <1>6, <2>1, <2>2, OperandFrame
  <2>4. HeapTyped'
    BY <1>1, <1>2, <2>1 DEF HeapTyped, heap
  <2>5. Balance'
    <3>1. SUFFICES ASSUME NEW c \in Cell PROVE (count[c] = others[c] + FieldRefs(c) + Claims(c))'
      BY DEF Balance
    <3>2. Claims(c)' = (Claims(c) - (IF Role(expr, k) = "Owned" THEN One(r, c) ELSE 0))
                        + (IF expr.args[k].via # "direct" \/ Role(expr, k) = "Owned" THEN One(r, c) ELSE 0)
          /\ Claims(c) \in Nat
      BY <1>6, <2>1, <2>2, OperandClaims
    <3>3. One(r, c) \in Nat
      BY Ones
    <3> HIDE DEF r
    <3>4. Claims(c)' = Claims(c)
      BY <1>6, <3>2, <3>3
    <3>5. FieldRefs(c)' = FieldRefs(c) /\ count' = count
      BY <2>1 DEF FieldRefs, heap
    <3>6. count[c] = others[c] + FieldRefs(c) + Claims(c)
      BY <1>5 DEF Balance
    <3> QED
      BY <1>1, <3>4, <3>5, <3>6
  <2> QED
    BY <1>6, <2>3, <2>4, <2>5 DEF Inv, Typed
<1>7. CASE expr.args[k].via = "field"
  <2> DEFINE r == Kid(env[v], 1)
  <2>1. /\ held' = [held EXCEPT ![k] = r] /\ count' = Retained(<<r>>)
        /\ born' = born /\ kids' = kids /\ zombies' = zombies
    BY <1>7 DEF Operand
  <2>2. r \in Ref /\ (env[v] \in Cell => r = kids[env[v]][1]) /\ (env[v] \notin Cell => r = Unit)
    <3>1. 1 \in Index /\ Unit \in Ref
      BY Cells DEF Index
    <3>2. env[v] \in Cell => kids[env[v]] \in [Index -> Ref]
      BY <1>2
    <3> QED
      BY <3>1, <3>2 DEF Kid
  <2>3. v \notin Managed => r \notin Cell
    BY <1>1, <1>2, <2>2, ScalarOperand, Cells DEF Inv
  <2>4. /\ Placed' /\ TodoTyped' /\ OperandsTyped' /\ Scalars' /\ Unborrowed'
    BY <1>7, <2>1, <2>2, <2>3, OperandFrame
  <2>5. \A c \in Cell : r = c => c <= born
    <3>1. SUFFICES ASSUME NEW c \in Cell, r = c PROVE c <= born
      OBVIOUS
    <3>2. env[v] \in Cell /\ kids[env[v]][1] = c
      BY <2>2, <3>1, Cells
    <3>3. <<env[v], 1>> \in Cell \X Index
      BY <3>2 DEF Index
    <3>4. \A f \in Cell \X Index : kids[f[1]][f[2]] = c => count[c] > 0
      BY <1>5, Positive
    <3>5. count[c] > 0
      BY <3>2, <3>3, <3>4
    <3> QED
      BY <1>5, <3>5, Positive
  <2> HIDE DEF r
  <2>6. HeapTyped' /\ \A c \in Cell : count'[c] = count[c] + One(r, c) /\ count[c] \in Nat
    <3>1. env' \in [Value -> Ref]
      BY <1>1, <1>2
    <3> QED
      BY <1>1, <1>2, <2>1, <2>5, <3>1, RetainedHeap
  <2>7. Balance'
    <3>1. SUFFICES ASSUME NEW c \in Cell PROVE (count[c] = others[c] + FieldRefs(c) + Claims(c))'
      BY DEF Balance
    <3>2. Claims(c)' = (Claims(c) - (IF Role(expr, k) = "Owned" THEN One(env[v], c) ELSE 0))
                        + (IF expr.args[k].via # "direct" \/ Role(expr, k) = "Owned" THEN One(r, c) ELSE 0)
          /\ Claims(c) \in Nat
      BY <1>7, <2>1, <2>2, <2>3, OperandClaims
    <3>3. One(r, c) \in Nat
      BY Ones
    <3>4. Claims(c)' = Claims(c) + One(r, c)
      BY <1>4, <1>7, <3>2, <3>3
    <3>5. FieldRefs(c)' = FieldRefs(c) /\ FieldRefs(c) \in Nat /\ others[c] \in Nat
      BY <1>5, <2>1, Positive DEF FieldRefs
    <3>6. count[c] = others[c] + FieldRefs(c) + Claims(c)
      BY <1>5 DEF Balance
    <3> QED
      BY <1>1, <2>6, <3>2, <3>3, <3>4, <3>5, <3>6
  <2> QED
    BY <1>7, <2>4, <2>6, <2>7 DEF Inv, Typed
<1>8. CASE expr.args[k].via = "call"
  <2> DEFINE args == <<env[v]>>
  <2>1. PICK res \in Results(args) : Called(args, res) /\ held' = [held EXCEPT ![k] = res]
    BY <1>8 DEF Operand
  <2>2. DOMAIN args = {1} /\ IsFiniteSet(DOMAIN args) /\ args[1] = env[v]
    BY Single
  <2>3. \A c \in Cell : Occurs(args, c) = One(env[v], c) /\ Occurs(args, c) <= count[c]
    <3>1. SUFFICES ASSUME NEW c \in Cell PROVE Occurs(args, c) = One(env[v], c) /\ Occurs(args, c) <= count[c]
      OBVIOUS
    <3>2. Occurs(args, c) = One(env[v], c)
      BY OccursIsOne
    <3>3. k \in Taking
      BY <1>1, <1>4, <1>8 DEF Taking
    <3>4. env[v] = c => count[c] > 0
      BY <1>5, <3>3, Positive
    <3>5. count[c] \in Nat
      BY <1>2
    <3> QED
      BY <3>2, <3>4, <3>5 DEF One
  <2>4. \A j \in DOMAIN args : args[j] \in Ref
    BY <1>3, <2>2
  <2>5. \A c \in Cell : Occurs(args, c) <= count[c]
    BY <2>3
  <2> HIDE DEF args
  <2>6. /\ HeapTyped' /\ res \in Ref /\ kids' = kids
        /\ \A c \in Cell : /\ count'[c] = (count[c] - Occurs(args, c)) + One(res, c)
                           /\ Occurs(args, c) \in Nat /\ count[c] \in Nat
    <3>1. env' \in [Value -> Ref]
      BY <1>1, <1>2
    <3>2. res \in Ref
      BY <1>2, <2>1, <2>4, CalledResult
    <3> QED
      BY <1>1, <1>2, <2>1, <2>2, <2>4, <2>5, <3>1, CalledHeap
  <2>7. /\ Placed' /\ TodoTyped' /\ OperandsTyped' /\ Scalars' /\ Unborrowed'
    BY <1>8, <2>1, <2>6, OperandFrame
  <2>8. Balance'
    <3>1. SUFFICES ASSUME NEW c \in Cell PROVE (count[c] = others[c] + FieldRefs(c) + Claims(c))'
      BY DEF Balance
    <3>2. Claims(c)' = (Claims(c) - (IF Role(expr, k) = "Owned" THEN One(env[v], c) ELSE 0))
                        + (IF expr.args[k].via # "direct" \/ Role(expr, k) = "Owned" THEN One(res, c) ELSE 0)
          /\ Claims(c) \in Nat
      BY <1>8, <2>1, <2>6, OperandClaims
    <3>3. One(res, c) \in Nat /\ One(env[v], c) \in Nat
      BY Ones
    <3>4. Claims(c)' = (Claims(c) - One(env[v], c)) + One(res, c)
      BY <1>4, <1>8, <3>2, <3>3
    <3>5. FieldRefs(c)' = FieldRefs(c) /\ FieldRefs(c) \in Nat /\ others[c] \in Nat
      BY <1>5, <2>6, Positive DEF FieldRefs
    <3>6. count[c] = others[c] + FieldRefs(c) + Claims(c)
      BY <1>5 DEF Balance
    <3>7. count'[c] = (count[c] - One(env[v], c)) + One(res, c) /\ count[c] \in Nat
      BY <2>3, <2>6
    <3> QED
      BY <1>1, <3>2, <3>3, <3>4, <3>5, <3>6, <3>7
  <2>9. ~Short(args)
    BY <1>2, <2>2, <2>5, DropCounted
  <2> QED
    BY <2>6, <2>7, <2>8, <2>9 DEF Inv, Typed, args
<1> QED
  BY <1>6, <1>7, <1>8 DEF Operand

-----------------------------------------------------------------------------
(* Instructions.                                                           *)

inst == prog.insts[block][site]

(* A let gets a reference if it is managed, an eval if one is produced.    *)
Given == inst.kind = "let" \/ ProducesOwned(inst.expr.kind)

(* At an instruction, when every operand is evaluated.                     *)
LEMMA AtInst ==
    ASSUME Inv, ~AtTerm, NEW kinds, Evaluated(kinds)
    PROVE  /\ Placed /\ stage = "eval" /\ site # 0 /\ pending = {} /\ zombies = {} /\ expr.kind \in kinds
           /\ \A w \in Value : todo.retain[w] = 0
           /\ Shaped(prog) /\ block \in Blocks(prog) /\ site \in DOMAIN prog.insts[block]
           /\ InstShape(inst) /\ expr = inst.expr /\ inst.result \in Value
           /\ Defs(prog, block, site) = {inst.result}
           /\ held \in [DOMAIN expr.args -> Ref] /\ IsFiniteSet(DOMAIN expr.args)
           /\ DOMAIN expr.args = 1 .. Len(expr.args) /\ Len(expr.args) \in Nat
           /\ Temps = {k \in DOMAIN expr.args : expr.args[k].via # "direct" \/ Role(expr, k) = "Owned"}
           /\ \A k \in DOMAIN expr.args :
                expr.args[k].via = "direct" => /\ held[k] = env[expr.args[k].val]
                                               /\ expr.args[k].val \notin Managed => held[k] \notin Cell
<1> USE DEF Inv, Typed
<1>1. /\ Placed /\ stage = "eval" /\ site # 0 /\ pending = {} /\ zombies = {} /\ expr.kind \in kinds
      /\ \A w \in Value : todo.retain[w] = 0
  BY Quiet DEF Evaluated, Placed, At
<1>2. /\ site \in DOMAIN prog.insts[block]
      /\ InstShape(inst) /\ expr = inst.expr /\ inst.result \in Value
      /\ Defs(prog, block, site) = {inst.result}
      /\ IsFiniteSet(DOMAIN expr.args) /\ DOMAIN expr.args = 1 .. Len(expr.args) /\ Len(expr.args) \in Nat
  BY <1>1, AtSite DEF inst
<1>3. Shaped(prog) /\ block \in Blocks(prog)
  BY Here
<1>4. Temps = {k \in DOMAIN expr.args : expr.args[k].via # "direct" \/ Role(expr, k) = "Owned"}
  BY <1>1 DEF Temps
<1>5. /\ held \in [DOMAIN expr.args -> Ref]
      /\ \A k \in DOMAIN expr.args :
           expr.args[k].via = "direct" => /\ held[k] = env[expr.args[k].val]
                                          /\ expr.args[k].val \notin Managed => held[k] \notin Cell
  BY <1>1, ScalarOperand DEF OperandsTyped
<1> QED
  BY <1>1, <1>2, <1>3, <1>4, <1>5

(* What an instruction does with its result, and to the claims on a cell.  *)
LEMMA BindFrame ==
    ASSUME Inv, ~AtTerm, NEW kinds, Evaluated(kinds), NEW r \in Ref, Bind(r),
           inst.kind = "let" /\ inst.result \notin Managed => r \notin Cell
    PROVE  /\ Placed' /\ TodoTyped' /\ OperandsTyped' /\ Scalars' /\ Unborrowed'
           /\ env' \in [Value -> Ref] /\ others' = others
<1> USE DEF Inv, Typed
<1>1. /\ Placed /\ stage = "eval" /\ site # 0 /\ inst.result \in Value /\ InstShape(inst)
      /\ site \in DOMAIN prog.insts[block] /\ Shaped(prog) /\ block \in Blocks(prog)
      /\ Defs(prog, block, site) = {inst.result}
  BY AtInst
<1>2. /\ prog' = prog /\ optimize' = optimize /\ plan' = plan /\ others' = others
      /\ block' = block /\ site' = site /\ stage' = "post" /\ edge' = edge
      /\ held' = held /\ todo' = Releases(here.late)
      /\ env' = [env EXCEPT ![inst.result] = r]
  BY DEF Bind, planned, inst
<1>3. term' = term /\ ~AtTerm' /\ expr' = expr /\ here' = here /\ Returns' = Returns /\ inst' = inst
  BY <1>2 DEF term, AtTerm, expr, here, Returns, inst
<1>4. here.late \subseteq Value /\ env \in [Value -> Ref]
  BY <1>1, HereTypes DEF HeapTyped
<1>5. Placed'
  BY <1>1, <1>2, <1>3 DEF Placed, Stages
<1>6. TodoTyped'
  BY <1>2, <1>3, <1>4 DEF TodoTyped, Releasing, Releases
<1>7. OperandsTyped'
  BY <1>2, <1>3 DEF OperandsTyped
<1>8. env' \in [Value -> Ref]
  BY <1>1, <1>2, <1>4
<1>9. Unborrowed'
  BY <1>2 DEF Unborrowed, Managed, LiveAt
<1>10. Scalars'
  <2>1. SUFFICES ASSUME NEW v \in Reads(prog), v \notin Managed PROVE env'[v] \notin Cell
    BY <1>2 DEF Scalars, Managed
  <2>2. env[v] \notin Cell
    BY <2>1 DEF Scalars
  <2>3. CASE v = inst.result
    <3>1. inst.kind = "let"
      <4>1. DefinedWhenRead(prog) /\ inst.kind \in {"let", "eval"}
        BY <1>1, Here DEF InstShape
      <4>2. inst.kind = "eval" => inst.result \notin Reads(prog)
        BY <1>1, <4>1 DEF DefinedWhenRead, inst
      <4> QED
        BY <2>1, <2>3, <4>1, <4>2
    <3>2. env'[v] = r
      BY <1>1, <1>2, <1>4, <2>3
    <3> QED
      BY <2>1, <2>3, <3>1, <3>2
  <2>4. CASE v # inst.result
    <3>1. v \in Value
      BY <1>1, ReadsAreValues
    <3>2. env'[v] = env[v]
      BY <1>1, <1>2, <1>4, <2>4, <3>1
    <3> QED
      BY <2>2, <3>2
  <2> QED
    BY <2>3, <2>4
<1> QED
  BY <1>2, <1>5, <1>6, <1>7, <1>8, <1>9, <1>10

(* ... and what is claimed of a cell afterwards.                           *)
LEMMA BindClaims ==
    ASSUME Inv, ~AtTerm, NEW kinds, Evaluated(kinds), NEW r \in Ref, Bind(r),
           inst.kind = "let" /\ inst.result \notin Managed => r \notin Cell,
           NEW c \in Cell
    PROVE  /\ Claims(c)' = (Claims(c) - Names(Temps, held, c)) + (IF Given THEN One(r, c) ELSE 0)
           /\ Claims(c) \in Nat /\ Names(Temps, held, c) \in Nat
           /\ Names(Temps, held, c) <= Claims(c)
<1> USE DEF Inv, Typed
<1> DEFINE v == inst.result
           live == LiveAt(site) \cap Managed
           late == here.late
<1>1. /\ Placed /\ stage = "eval" /\ site # 0 /\ v \in Value /\ InstShape(inst) /\ pending = {}
      /\ site \in DOMAIN prog.insts[block] /\ Shaped(prog) /\ block \in Blocks(prog)
      /\ Defs(prog, block, site) = {v} /\ expr = inst.expr
  BY AtInst
<1>2. /\ prog' = prog /\ optimize' = optimize /\ plan' = plan
      /\ block' = block /\ site' = site /\ stage' = "post"
      /\ held' = held /\ todo' = Releases(late)
      /\ env' = [env EXCEPT ![v] = r]
  BY DEF Bind, planned, inst
<1>3. term' = term /\ ~AtTerm' /\ expr' = expr /\ here' = here
  BY <1>2 DEF term, AtTerm, expr, here
<1>4. env \in [Value -> Ref] /\ late \in SUBSET Value /\ live \in SUBSET Value /\ DefinedWhenRead(prog)
      /\ here = PlannedAt(prog, optimize, block, site)
  BY <1>1, HereTypes, Here, AtSite DEF HeapTyped
<1>5. /\ Keep = live \ {v} /\ Due = late \ {v} /\ Taking = {} /\ Copies = {}
      /\ Keep' = live /\ Due' = late /\ Taking' = {} /\ Copies' = {} /\ Temps' = {}
  <2>1. Keep = live \ {v} /\ Due = late \ {v} /\ Taking = {} /\ Copies = {}
    BY <1>1 DEF Keep, Due, Taking, Copies
  <2>2. Keep' = live /\ Due' = late
    BY <1>2, <1>3 DEF Keep, Due, LiveAt, Managed, Releases
  <2>3. Taking' = {} /\ Copies' = {} /\ Temps' = {}
    BY <1>2, <1>3 DEF Taking, Copies, Temps
  <2> QED
    BY <2>1, <2>2, <2>3
<1>6. /\ Names(Keep, env, c) \in Nat /\ Names(Due, env, c) \in Nat
      /\ Names(Temps, held, c) \in Nat
  BY ClaimNumbers
<1>7. Claims(c) = Names(Keep, env, c) + Names(Due, env, c) + 0 + 0 + Names(Temps, held, c)
  BY <1>5, NamesNone DEF Claims
<1>8. Claims(c)' = Names(live, env', c) + Names(late, env', c) + 0 + 0 + 0
  BY <1>5, NamesNone DEF Claims
<1>9. ASSUME NEW S \in SUBSET Value
      PROVE  Names(S, env', c) = Names(S \ {v}, env, c) + (IF v \in S THEN One(r, c) ELSE 0)
  <2> DEFINE h == env'
             R == S \ {v}
  <2>1. \A x \in R : h[x] = env[x]
    BY <1>1, <1>2, <1>4
  <2>2. h[v] = r
    BY <1>1, <1>2, <1>4
  <2>3. IsFiniteSet(R) /\ v \notin R
    <3>1. R \in SUBSET Value
      OBVIOUS
    <3> QED
      BY <3>1, FiniteClaims
  <2> HIDE DEF h
  <2>4. Names(R, h, c) = Names(R, env, c)
    <3>1. \A x \in R : h[x] = c <=> env[x] = c
      BY <2>1
    <3> HIDE DEF R
    <3> QED
      BY <3>1, NamesSame
  <2>5. CASE v \in S
    <3>1. R \cup {v} = S
      BY <2>5
    <3> HIDE DEF R
    <3>2. Names(R \cup {v}, h, c) = Names(R, h, c) + (IF h[v] = c THEN 1 ELSE 0)
      BY <2>3, NamesAdding
    <3> QED
      BY <2>2, <2>4, <2>5, <3>1, <3>2 DEF One, h, R
  <2>6. CASE v \notin S
    <3>1. R = S
      BY <2>6
    <3>2. Names(S, h, c) = Names(R, env, c) /\ Names(R, env, c) \in Nat
      BY <2>3, <2>4, <3>1, NamesFinite
    <3> HIDE DEF R
    <3>3. Names(S, h, c) = Names(R, env, c) + 0
      BY <3>2
    <3> QED
      BY <2>6, <3>3 DEF h, R
  <2> QED
    BY <2>5, <2>6
<1>10. /\ Names(live, env', c) = Names(Keep, env, c) + (IF v \in live THEN One(r, c) ELSE 0)
       /\ Names(late, env', c) = Names(Due, env, c) + (IF v \in late THEN One(r, c) ELSE 0)
  BY <1>4, <1>5, <1>9
<1>11. (IF v \in live THEN One(r, c) ELSE 0) + (IF v \in late THEN One(r, c) ELSE 0)
          = IF Given THEN One(r, c) ELSE 0
  <2>1. IF inst.kind = "let"
          THEN v \in late <=> v \in Managed /\ v \notin LiveAt(site)
          ELSE v \notin LiveAt(site) /\ (v \in late <=> ProducesOwned(inst.expr.kind))
    <3>1. IF prog.insts[block][site].kind = "let"
          THEN prog.insts[block][site].result \in PlannedAt(prog, optimize, block, site).late
                 <=> prog.insts[block][site].result \in Classify(prog)
                     /\ prog.insts[block][site].result \notin After(prog, block)[site]
          ELSE /\ prog.insts[block][site].result \notin After(prog, block)[site]
               /\ prog.insts[block][site].result \notin Reads(prog)
               /\ prog.insts[block][site].result \in PlannedAt(prog, optimize, block, site).late
                     <=> ProducesOwned(prog.insts[block][site].expr.kind)
      BY <1>1, <1>4, ResultPlan
    <3> QED
      BY <1>4, <3>1 DEF inst, LiveAt, Managed
  <2>2. inst.kind = "let" /\ v \notin Managed => One(r, c) = 0
    BY DEF One
  <2>3. One(r, c) \in Nat
    BY Ones
  <2>4. CASE inst.kind = "let" /\ v \in Managed
    BY <2>1, <2>3, <2>4 DEF Given
  <2>5. CASE inst.kind = "let" /\ v \notin Managed
    BY <2>1, <2>2, <2>5 DEF Given
  <2>6. CASE inst.kind # "let"
    BY <2>1, <2>3, <2>6 DEF Given
  <2> QED
    BY <2>4, <2>5, <2>6
<1>12. /\ (IF v \in live THEN One(r, c) ELSE 0) \in Nat /\ (IF v \in late THEN One(r, c) ELSE 0) \in Nat
       /\ (IF Given THEN One(r, c) ELSE 0) \in Nat
  BY Ones
<1> HIDE DEF live, late, v
<1>13. Claims(c)' = (Claims(c) - Names(Temps, held, c)) + (IF Given THEN One(r, c) ELSE 0)
  BY <1>6, <1>7, <1>8, <1>10, <1>11, <1>12
<1>14. Claims(c) \in Nat /\ Names(Temps, held, c) <= Claims(c)
  BY <1>6, <1>7
<1> QED
  BY <1>6, <1>13, <1>14

(* An instruction keeps the invariant when its counts make up for the      *)
(* claims it ends and begins.                                              *)
LEMMA BoundInv ==
    ASSUME Inv, ~AtTerm, NEW kinds, Evaluated(kinds), NEW r \in Ref, Bind(r),
           inst.kind = "let" /\ inst.result \notin Managed => r \notin Cell,
           HeapTyped',
           \A c \in Cell : (count'[c] + Names(Temps, held, c)) + FieldRefs(c)
                             = (count[c] + FieldRefs(c)') + (IF Given THEN One(r, c) ELSE 0)
    PROVE  Inv'
<1>1. /\ Placed' /\ TodoTyped' /\ OperandsTyped' /\ Scalars' /\ Unborrowed' /\ others' = others
  BY BindFrame
<1>2. Typed /\ Balance
  BY DEF Inv
<1>3. Balance'
  <2>1. SUFFICES ASSUME NEW c \in Cell PROVE (count[c] = others[c] + FieldRefs(c) + Claims(c))'
    BY DEF Balance
  <2>2. /\ Claims(c)' = (Claims(c) - Names(Temps, held, c)) + (IF Given THEN One(r, c) ELSE 0)
        /\ Claims(c) \in Nat /\ Names(Temps, held, c) \in Nat
        /\ Names(Temps, held, c) <= Claims(c)
    BY BindClaims
  <2>3. /\ count[c] \in Nat /\ others[c] \in Nat /\ FieldRefs(c) \in Nat
        /\ count[c] = others[c] + FieldRefs(c) + Claims(c)
    BY <1>2, Positive
  <2>4. FieldRefs(c)' \in Nat /\ count'[c] \in Nat
    <3>1. {f \in Cell \X Index : kids'[f[1]][f[2]] = c} \in SUBSET (Cell \X Index)
      OBVIOUS
    <3>2. Cardinality({f \in Cell \X Index : kids'[f[1]][f[2]] = c}) \in Nat
      BY <3>1, Cells, FS_Subset, FS_CardinalityType
    <3>3. count' \in [Cell -> Nat]
      BY DEF HeapTyped
    <3> QED
      BY <3>2, <3>3 DEF FieldRefs
  <2>5. (IF Given THEN One(r, c) ELSE 0) \in Nat
    BY Ones
  <2>6. (count'[c] + Names(Temps, held, c)) + FieldRefs(c)
                             = (count[c] + FieldRefs(c)') + (IF Given THEN One(r, c) ELSE 0)
    OBVIOUS
  <2>7. count'[c] = others[c] + FieldRefs(c)' + Claims(c)'
    BY <2>2, <2>3, <2>4, <2>5, <2>6
  <2> QED
    BY <1>1, <2>7
<1> QED
  BY <1>1, <1>3 DEF Inv, Typed

(* A let whose result is not managed produces no reference.                *)
LEMMA LetRules ==
    ASSUME Inv, ~AtTerm, NEW kinds, Evaluated(kinds), inst.kind = "let", inst.result \notin Managed
    PROVE  \/ inst.expr.kind = "read"
           \/ inst.expr.kind \in {"value", "field"} /\ inst.expr.args[1].val \notin Managed
<1>1. Shaped(prog) /\ ScalarsAreScalar(prog) /\ block \in Blocks(prog)
  BY Here DEF Inv, Typed
<1>2. site \in DOMAIN prog.insts[block] /\ InstShape(inst)
  BY AtInst
<1>3. inst.kind = "let" /\ inst.result \notin Classify(prog) =>
          \/ inst.expr.kind = "read"
          \/ inst.expr.kind \in {"value", "field"} /\ inst.expr.args[1].val \notin Classify(prog)
  <2> DEFINE i == site
  <2>1. LET I == prog.insts[block][i]
        IN  I.kind = "let" /\ I.result \notin Classify(prog) =>
              \/ I.expr.kind = "read"
              \/ I.expr.kind \in {"value", "field"} /\ I.expr.args[1].val \notin Classify(prog)
    BY <1>1, <1>2, ManagedRules
  <2> QED
    BY <2>1 DEF inst
<1> QED
  BY <1>3 DEF Managed

(* Nothing on the heap changes.                                            *)
LEMMA Balanced ==
    ASSUME Inv, UNCHANGED <<count, kids, born, zombies, others>>, env' \in [Value -> Ref]
    PROVE  HeapTyped' /\ \A c : FieldRefs(c)' = FieldRefs(c)
BY DEF Inv, Typed, HeapTyped, FieldRefs

(* The counts, the references from fields and the claims are naturals.     *)
LEMMA Numbers ==
    ASSUME Inv
    PROVE  \A c \in Cell : /\ count[c] \in Nat /\ FieldRefs(c) \in Nat /\ others[c] \in Nat
                           /\ count[c] > 0 => c <= born
<1>1. Typed /\ Balance
  BY DEF Inv
<1> QED
  BY <1>1, Positive

(* A let of a plain value.                                                 *)
LEMMA AliasInv == Inv /\ Alias => Inv'
<1> SUFFICES ASSUME Inv, Alias PROVE Inv'
  OBVIOUS
<1> DEFINE r == held[1]
           kinds == {"value"}
<1>1. ~AtTerm /\ Evaluated(kinds) /\ Bind(r) /\ heap' = heap
  BY DEF Alias
<1> HIDE DEF kinds
<1>2. /\ expr.kind \in kinds /\ InstShape(inst) /\ expr = inst.expr
      /\ held \in [DOMAIN expr.args -> Ref] /\ DOMAIN expr.args = 1 .. Len(expr.args)
      /\ Temps = {k \in DOMAIN expr.args : expr.args[k].via # "direct" \/ Role(expr, k) = "Owned"}
      /\ \A k \in DOMAIN expr.args :
            expr.args[k].via = "direct" => /\ held[k] = env[expr.args[k].val]
                                           /\ expr.args[k].val \notin Managed => held[k] \notin Cell
      /\ Shaped(prog) /\ block \in Blocks(prog) /\ site \in DOMAIN prog.insts[block]
  BY <1>1, AtInst
<1>3. inst.kind = "let" /\ inst.expr.kind = "value" /\ Len(inst.expr.args) = 1 /\ Named(inst.expr)
  BY <1>2 DEF InstShape, kinds
<1>4. DOMAIN expr.args = {1} /\ expr.args[1].via = "direct" /\ Role(expr, 1) = "Owned"
  <2>1. DOMAIN expr.args = 1 .. 1
    BY <1>2, <1>3
  <2>2. 1 .. 1 = {1}
    OBVIOUS
  <2>3. expr.args[1].via = "direct"
    BY <1>2, <1>3, <2>1, <2>2 DEF Named
  <2> QED
    BY <1>2, <1>3, <2>1, <2>2, <2>3 DEF Role
<1>5. Temps = {1} /\ r \in Ref
  BY <1>2, <1>4
<1>6. inst.kind = "let" /\ inst.result \notin Managed => r \notin Cell
  BY <1>1, <1>2, <1>3, <1>4, LetRules
<1>7. env' \in [Value -> Ref] /\ others' = others
  BY <1>1, <1>5, <1>6, BindFrame
<1>8. HeapTyped' /\ \A c : FieldRefs(c)' = FieldRefs(c)
  BY <1>1, <1>7, Balanced DEF heap
<1>9. \A c \in Cell : (count'[c] + Names(Temps, held, c)) + FieldRefs(c)
                             = (count[c] + FieldRefs(c)') + (IF Given THEN One(r, c) ELSE 0)
  <2>1. SUFFICES ASSUME NEW c \in Cell
                 PROVE (count'[c] + Names(Temps, held, c)) + FieldRefs(c)
                             = (count[c] + FieldRefs(c)') + (IF Given THEN One(r, c) ELSE 0)
    OBVIOUS
  <2>2. Names(Temps, held, c) = One(r, c)
    BY <1>5, NamesOne DEF One
  <2>3. One(r, c) \in Nat /\ count[c] \in Nat /\ FieldRefs(c) \in Nat /\ count' = count
    BY <1>1, Ones, Numbers DEF heap
  <2> HIDE DEF r
  <2> QED
    BY <1>3, <1>8, <2>2, <2>3 DEF Given
<1> QED
  BY <1>1, <1>5, <1>6, <1>8, <1>9, BoundInv

(* A literal, an operation on scalars, an erased call.                     *)
LEMMA ScalarInv == Inv /\ Scalar => Inv'
<1> SUFFICES ASSUME Inv, Scalar PROVE Inv'
  OBVIOUS
<1> DEFINE kinds == {"read"}
<1>1. ~AtTerm /\ Evaluated(kinds) /\ Bind(Unit) /\ UNCHANGED <<born, count, kids, zombies>>
  BY DEF Scalar
<1> HIDE DEF kinds
<1>2. /\ expr.kind \in kinds /\ InstShape(inst) /\ expr = inst.expr
      /\ Temps = {k \in DOMAIN expr.args : expr.args[k].via # "direct" \/ Role(expr, k) = "Owned"}
  BY <1>1, AtInst
<1>3. inst.expr.kind = "read" /\ Named(inst.expr)
  BY <1>2 DEF InstShape, kinds
<1>4. Temps = {}
  BY <1>2, <1>3 DEF Named, Role
<1>5. Unit \in Ref /\ Unit \notin Cell
  BY Cells
<1>6. env' \in [Value -> Ref] /\ others' = others
  BY <1>1, <1>5, BindFrame
<1>7. HeapTyped' /\ \A c : FieldRefs(c)' = FieldRefs(c)
  BY <1>1, <1>6, Balanced
<1>8. \A c \in Cell : (count'[c] + Names(Temps, held, c)) + FieldRefs(c)
                             = (count[c] + FieldRefs(c)') + (IF Given THEN One(Unit, c) ELSE 0)
  BY <1>1, <1>4, <1>5, <1>7, NamesNone, Numbers DEF One
<1> QED
  BY <1>1, <1>5, <1>7, <1>8, BoundInv

(* A projection copies a field of a cell.                                  *)
LEMMA ProjectInv == Inv /\ Project => Inv'
<1> SUFFICES ASSUME Inv, Project PROVE Inv'
  OBVIOUS
<1> DEFINE r == Kid(held[1], 1)
           kinds == {"field"}
<1>1. /\ ~AtTerm /\ Evaluated(kinds) /\ Bind(r) /\ count' = Retained(<<r>>)
      /\ UNCHANGED <<born, kids, zombies>>
  BY DEF Project
<1> HIDE DEF kinds
<1>2. /\ expr.kind \in kinds /\ InstShape(inst) /\ expr = inst.expr
      /\ held \in [DOMAIN expr.args -> Ref] /\ DOMAIN expr.args = 1 .. Len(expr.args)
      /\ Temps = {k \in DOMAIN expr.args : expr.args[k].via # "direct" \/ Role(expr, k) = "Owned"}
      /\ \A k \in DOMAIN expr.args :
            expr.args[k].via = "direct" => /\ held[k] = env[expr.args[k].val]
                                           /\ expr.args[k].val \notin Managed => held[k] \notin Cell
      /\ zombies = {}
  BY <1>1, AtInst
<1>3. inst.expr.kind = "field" /\ Len(inst.expr.args) = 1 /\ Named(inst.expr) /\ inst.kind \in {"let", "eval"}
  BY <1>2 DEF InstShape, kinds
<1>4. DOMAIN expr.args = {1} /\ expr.args[1].via = "direct" /\ Role(expr, 1) = "Read"
  <2>1. DOMAIN expr.args = 1 .. 1
    BY <1>2, <1>3
  <2>2. 1 .. 1 = {1}
    OBVIOUS
  <2>3. expr.args[1].via = "direct"
    BY <1>2, <1>3, <2>1, <2>2 DEF Named
  <2> QED
    BY <1>2, <1>3, <2>1, <2>2, <2>3 DEF Role
<1>5. Temps = {}
  BY <1>2, <1>4
<1>6. kids \in [Cell -> [Index -> Ref]] /\ HeapTyped
  BY DEF Inv, Typed, HeapTyped
<1>7. r \in Ref /\ (held[1] \in Cell => r = kids[held[1]][1]) /\ (held[1] \notin Cell => r = Unit)
  <2>1. 1 \in Index /\ Unit \in Ref
    BY Cells DEF Index
  <2>2. held[1] \in Cell => kids[held[1]] \in [Index -> Ref]
    BY <1>6
  <2> QED
    BY <2>1, <2>2 DEF Kid
<1>8. inst.kind = "let" /\ inst.result \notin Managed => r \notin Cell
  <2>1. inst.kind = "let" /\ inst.result \notin Managed => inst.expr.args[1].val \notin Managed
    BY <1>1, <1>3, LetRules
  <2> QED
    BY <1>2, <1>4, <1>7, <2>1, Cells
<1>9. \A c \in Cell : r = c => c <= born
  <2>1. SUFFICES ASSUME NEW c \in Cell, r = c PROVE c <= born
    OBVIOUS
  <2>2. held[1] \in Cell /\ kids[held[1]][1] = c
    BY <1>7, <2>1, Cells
  <2>3. <<held[1], 1>> \in Cell \X Index
    BY <2>2 DEF Index
  <2>4. \A f \in Cell \X Index : kids[f[1]][f[2]] = c => count[c] > 0
    BY Positive DEF Inv
  <2>5. count[c] > 0
    BY <2>2, <2>3, <2>4
  <2> QED
    BY <2>5, Numbers
<1> HIDE DEF r
<1>10. env' \in [Value -> Ref] /\ others' = others
  BY <1>1, <1>7, <1>8, BindFrame
<1>11. HeapTyped' /\ \A c \in Cell : count'[c] = count[c] + One(r, c) /\ count[c] \in Nat
  BY <1>1, <1>2, <1>6, <1>9, <1>10, RetainedHeap
<1>12. \A c \in Cell : (count'[c] + Names(Temps, held, c)) + FieldRefs(c)
                             = (count[c] + FieldRefs(c)') + (IF Given THEN One(r, c) ELSE 0)
  <2>1. SUFFICES ASSUME NEW c \in Cell
                 PROVE (count'[c] + Names(Temps, held, c)) + FieldRefs(c)
                             = (count[c] + FieldRefs(c)') + (IF Given THEN One(r, c) ELSE 0)
    OBVIOUS
  <2>2. Names(Temps, held, c) = 0
    BY <1>5, NamesNone
  <2>3. One(r, c) \in Nat /\ count[c] \in Nat /\ FieldRefs(c) \in Nat /\ FieldRefs(c)' = FieldRefs(c)
    BY <1>1, Ones, Numbers DEF FieldRefs
  <2>4. Given
    BY <1>3 DEF Given, ProducesOwned
  <2> QED
    BY <1>11, <2>2, <2>3, <2>4
<1> QED
  BY <1>1, <1>7, <1>8, <1>11, <1>12, BoundInv

(* A load from the constant pool.                                          *)
LEMMA LoadPooledInv == Inv /\ LoadPooled => Inv'
<1> SUFFICES ASSUME Inv, LoadPooled PROVE Inv'
  OBVIOUS
<1> DEFINE kinds == {"pooled"}
<1>1. ~AtTerm /\ Evaluated(kinds) /\ Bind(Pool) /\ UNCHANGED <<born, count, kids, zombies>>
  BY DEF LoadPooled, heap
<1> HIDE DEF kinds
<1>2. /\ expr.kind \in kinds /\ InstShape(inst) /\ expr = inst.expr
      /\ Temps = {k \in DOMAIN expr.args : expr.args[k].via # "direct" \/ Role(expr, k) = "Owned"}
  BY <1>1, AtInst
<1>3. inst.expr.args = <<>>
  BY <1>2 DEF InstShape, kinds
<1>4. Temps = {}
  <2>1. DOMAIN <<>> = {}
    OBVIOUS
  <2> QED
    BY <1>2, <1>3, <2>1
<1>5. Pool \in Ref /\ Pool \notin Cell
  BY Cells
<1>6. env' \in [Value -> Ref] /\ others' = others
  BY <1>1, <1>5, BindFrame
<1>7. HeapTyped' /\ \A c : FieldRefs(c)' = FieldRefs(c)
  BY <1>1, <1>6, Balanced
<1>8. \A c \in Cell : (count'[c] + Names(Temps, held, c)) + FieldRefs(c)
                             = (count[c] + FieldRefs(c)') + (IF Given THEN One(Pool, c) ELSE 0)
  BY <1>1, <1>4, <1>5, <1>7, NamesNone, Numbers DEF One
<1> QED
  BY <1>1, <1>5, <1>7, <1>8, BoundInv

(* Operands of a constructor and of a call all give a reference.           *)
LEMMA AllTemps ==
    ASSUME NEW e, NEW k \in DOMAIN e.args, e.kind \in {"make", "call", "args"} \/ (e.kind = "closure" /\ k # 1)
    PROVE  e.args[k].via # "direct" \/ Role(e, k) = "Owned"
BY DEF Role

(* A constructor gives its operands to a new cell's fields.                *)
LEMMA MakeInv == Inv /\ Make => Inv'
<1> SUFFICES ASSUME Inv, Make PROVE Inv'
  OBVIOUS
<1> DEFINE r == born + 1
           kinds == {"make"}
           fields == [i \in Index |-> IF i \in DOMAIN held THEN held[i] ELSE Unit]
<1>1. /\ ~AtTerm /\ Evaluated(kinds) /\ Bind(r) /\ zombies' = zombies
      /\ born < MaxCells /\ born' = born + 1 /\ count' = [count EXCEPT ![r] = 1]
      /\ kids' = [kids EXCEPT ![r] = fields]
  BY DEF Make, Allocate
<1> HIDE DEF kinds
<1>2. /\ expr.kind \in kinds /\ InstShape(inst) /\ expr = inst.expr
      /\ held \in [DOMAIN expr.args -> Ref] /\ DOMAIN expr.args = 1 .. Len(expr.args)
      /\ IsFiniteSet(DOMAIN expr.args) /\ Len(expr.args) \in Nat
      /\ Temps = {k \in DOMAIN expr.args : expr.args[k].via # "direct" \/ Role(expr, k) = "Owned"}
      /\ zombies = {}
  BY <1>1, AtInst
<1>3. inst.expr.kind = "make" /\ Len(inst.expr.args) <= 2 /\ inst.kind \in {"let", "eval"}
  BY <1>2 DEF InstShape, kinds
<1>4. Temps = DOMAIN held /\ DOMAIN held = DOMAIN expr.args /\ IsFiniteSet(Temps) /\ Temps \subseteq Index
  <2>1. \A k \in DOMAIN expr.args : expr.args[k].via # "direct" \/ Role(expr, k) = "Owned"
    BY <1>2, <1>3, AllTemps
  <2>2. \A k \in 1 .. Len(expr.args) : k \in 1 .. 2
    BY <1>2, <1>3
  <2> QED
    BY <1>2, <2>1, <2>2 DEF Index
<1>5. /\ count \in [Cell -> Nat] /\ kids \in [Cell -> [Index -> Ref]] /\ born \in 0 .. MaxCells
      /\ \A c \in Cell : c > born => count[c] = 0 /\ kids[c] = [i \in Index |-> Unit]
  BY DEF Inv, Typed, HeapTyped
<1>6. r \in Cell /\ r > born /\ r \in 0 .. MaxCells /\ r \in Ref /\ born \in Nat
  BY <1>1, <1>5, UnitAssumption DEF Cell, Ref
<1>7. inst.kind = "let" /\ inst.result \notin Managed => r \notin Cell
  <2>1. inst.kind = "let" /\ inst.result \notin Managed => FALSE
    BY <1>1, <1>3, LetRules
  <2> QED
    BY <2>1
<1>8. env' \in [Value -> Ref] /\ others' = others
  BY <1>1, <1>6, <1>7, BindFrame
<1>9. fields \in [Index -> Ref]
  <2>1. \A i \in DOMAIN held : held[i] \in Ref
    BY <1>2, <1>4
  <2> QED
    BY <2>1, Cells
<1> HIDE DEF fields
<1>10. /\ kids' \in [Cell -> [Index -> Ref]] /\ kids'[r] = fields
       /\ \A d \in Cell : d # r => kids'[d] = kids[d]
       /\ count' \in [Cell -> Nat] /\ \A c \in Cell : count'[c] = count[c] + One(r, c)
  <2>1. \A c \in Cell : count'[c] = count[c] + One(r, c)
    <3>1. SUFFICES ASSUME NEW c \in Cell PROVE count'[c] = count[c] + One(r, c)
      OBVIOUS
    <3>2. count[r] = 0
      BY <1>5, <1>6
    <3>3. count'[c] = IF c = r THEN 1 ELSE count[c]
      BY <1>1, <1>5, <1>6
    <3>4. count[c] \in Nat
      BY <1>5
    <3> QED
      BY <3>2, <3>3, <3>4 DEF One
  <2> QED
    BY <1>1, <1>5, <1>6, <1>9, <2>1
<1>11. HeapTyped'
  <2>1. \A c \in Cell : c > r => c > born /\ c # r
    BY <1>5, <1>6, Cells
  <2>2. \A c \in Cell : c > r => count'[c] = 0 /\ kids'[c] = [i \in Index |-> Unit]
    BY <1>1, <1>5, <1>6, <1>10, <2>1
  <2>3. others \in [Cell -> Nat]
    BY DEF Inv, Typed, HeapTyped
  <2> HIDE DEF r
  <2> QED
    BY <1>1, <1>2, <1>6, <1>8, <1>10, <2>2, <2>3 DEF HeapTyped, r
<1>12. ASSUME NEW c \in Cell
       PROVE (count'[c] + Names(Temps, held, c)) + FieldRefs(c)
                             = (count[c] + FieldRefs(c)') + (IF Given THEN One(r, c) ELSE 0)
  <2>1. /\ FieldsOf(kids', c) + Names(Index, kids[r], c) = FieldsOf(kids, c) + Names(Index, kids'[r], c)
        /\ FieldsOf(kids', c) \in Nat /\ FieldsOf(kids, c) \in Nat
        /\ Names(Index, kids[r], c) \in Nat /\ Names(Index, kids'[r], c) \in Nat
    <3>1. r \in Cell /\ SameBut(kids, kids', r)
      BY <1>6, <1>10 DEF SameBut
    <3> QED
      BY <3>1, FieldsChanged
  <2>2. IsFiniteSet(Index)
    <3>1. 1 \in Int /\ 2 \in Int
      OBVIOUS
    <3> QED
      BY <3>1, FS_Interval DEF Index
  <2>3. Names(Index, kids[r], c) = 0
    <3>1. \A i \in Index : kids[r][i] # c
      BY <1>5, <1>6, Cells
    <3> QED
      BY <2>2, <3>1, NamesFinite
  <2>4. Names(Index, fields, c) = Names(Temps, held, c)
    <3>1. {i \in Index : fields[i] = c} = {i \in Temps : held[i] = c}
      BY <1>4, Cells DEF fields
    <3> QED
      BY <3>1 DEF Names
  <2>5. FieldRefs(c) = FieldsOf(kids, c) /\ FieldRefs(c)' = FieldsOf(kids', c)
    BY DEF FieldRefs, FieldsOf
  <2>6. Given
    BY <1>3 DEF Given, ProducesOwned
  <2>7. One(r, c) \in Nat /\ count[c] \in Nat /\ count'[c] = count[c] + One(r, c)
    BY <1>5, <1>10, Ones
  <2> HIDE DEF r
  <2> QED
    BY <1>10, <2>1, <2>3, <2>4, <2>5, <2>6, <2>7
<1>13. \A c \in Cell : (count'[c] + Names(Temps, held, c)) + FieldRefs(c)
                             = (count[c] + FieldRefs(c)') + (IF Given THEN One(r, c) ELSE 0)
  BY <1>12
<1> HIDE DEF r
<1> QED
  BY <1>1, <1>6, <1>7, <1>11, <1>13, BoundInv

(* What a call takes, and the temporaries that it takes.                   *)
CallArgs == IF expr.kind = "call" THEN held ELSE Tail(held)

IsTail(t, h) == t = Tail(h)

(* A closure's captures are its operands but the first.                    *)
LEMMA TailOccurs ==
    ASSUME NEW n \in Nat, NEW h \in [1 .. n -> Ref], NEW t, NEW c, n # 0, IsTail(t, h)
    PROVE  /\ IsFiniteSet(DOMAIN t) /\ \A k \in DOMAIN t : t[k] \in Ref
           /\ Occurs(t, c) = Names((1 .. n) \ {1}, h, c)
<1>1. h \in Seq(Ref) /\ Len(h) = n /\ h # <<>>
  OBVIOUS
<1>2. t \in Seq(Ref) /\ Len(t) = n - 1 /\ \A i \in 1 .. n - 1 : t[i] = h[i + 1]
  BY <1>1 DEF IsTail
<1> DEFINE T == DOMAIN t
           m == [i \in T |-> i + 1]
           U == (1 .. n) \ {1}
<1>3. T = 1 .. n - 1
  BY <1>2
<1>4. IsFiniteSet(T)
  <2>1. n - 1 \in Int /\ 1 \in Int
    OBVIOUS
  <2> QED
    BY <1>3, <2>1, FS_Interval
<1>5. \A i \in T : t[i] \in Ref
  BY <1>2, <1>3
<1>6. Names(U, h, c) = Names(T, t, c)
  <2>1. \A x \in T : t[x] = c => m[x] \in U /\ h[m[x]] = c
    BY <1>2, <1>3
  <2>2. \A x, y \in T : m[x] = m[y] => x = y
    BY <1>3
  <2>3. \A z \in U : h[z] = c => \E x \in T : m[x] = z /\ t[x] = c
    <3>1. SUFFICES ASSUME NEW z \in U, h[z] = c PROVE \E x \in T : m[x] = z /\ t[x] = c
      OBVIOUS
    <3>2. z - 1 \in 1 .. n - 1 /\ (z - 1) + 1 = z
      OBVIOUS
    <3>3. z - 1 \in T /\ m[z - 1] = z /\ t[z - 1] = c
      BY <1>2, <1>3, <3>1, <3>2
    <3> QED
      BY <3>3
  <2> HIDE DEF T, m, U
  <2> QED
    BY <1>4, <2>1, <2>2, <2>3, NamesMoved
<1> QED
  BY <1>4, <1>5, <1>6, OccursNames

(* A call gives its arguments up and gets a result; no count runs short.   *)
LEMMA CallInv == Inv /\ Call => Inv' /\ ~Short(CallArgs)
<1> SUFFICES ASSUME Inv, Call PROVE Inv' /\ ~Short(CallArgs)
  OBVIOUS
<1> DEFINE kinds == {"call", "closure"}
           args == CallArgs
<1>1. ~AtTerm /\ Evaluated(kinds)
  BY DEF Call
<1>2. PICK r \in Results(args) : Called(args, r) /\ Bind(r)
  BY DEF Call, CallArgs
<1> HIDE DEF kinds
<1>3. /\ expr.kind \in kinds /\ InstShape(inst) /\ expr = inst.expr
      /\ held \in [DOMAIN expr.args -> Ref] /\ DOMAIN expr.args = 1 .. Len(expr.args)
      /\ IsFiniteSet(DOMAIN expr.args) /\ Len(expr.args) \in Nat
      /\ Temps = {k \in DOMAIN expr.args : expr.args[k].via # "direct" \/ Role(expr, k) = "Owned"}
      /\ zombies = {} /\ Shaped(prog) /\ block \in Blocks(prog) /\ site \in DOMAIN prog.insts[block]
  BY <1>1, AtInst
<1>4. /\ inst.expr.kind \in {"call", "closure"} /\ inst.kind \in {"let", "eval"}
      /\ inst.expr.kind = "closure" => inst.expr.args # <<>> /\ inst.expr.args[1].via = "direct"
  BY <1>3 DEF InstShape, kinds
<1>5. Typed /\ Balance /\ HeapTyped
  BY DEF Inv, Typed
<1>6. /\ IsFiniteSet(DOMAIN args) /\ \A k \in DOMAIN args : args[k] \in Ref
      /\ \A c : Occurs(args, c) = Names(Temps, held, c)
  <2>1. CASE expr.kind = "call"
    <3>1. Temps = DOMAIN expr.args
      <4>1. \A k \in DOMAIN expr.args : expr.args[k].via # "direct" \/ Role(expr, k) = "Owned"
        BY <2>1, AllTemps
      <4> QED
        BY <1>3, <4>1
    <3>2. args = held /\ DOMAIN held = DOMAIN expr.args
      BY <1>3, <2>1 DEF CallArgs
    <3> QED
      BY <1>3, <3>1, <3>2, OccursNames
  <2>2. CASE expr.kind = "closure"
    <3> DEFINE n == Len(expr.args)
    <3>1. n \in Nat /\ n # 0 /\ expr.args[1].via = "direct" /\ 1 \in DOMAIN expr.args
      <4>1. inst.expr.args \in Seq(Occurrence)
        BY <1>3 DEF InstShape
      <4>2. n # 0
        BY <1>3, <1>4, <2>2, <4>1
      <4> QED
        BY <1>3, <1>4, <2>2, <4>2
    <3>2. Temps = (1 .. n) \ {1}
      <4>1. \A k \in DOMAIN expr.args : k # 1 => expr.args[k].via # "direct" \/ Role(expr, k) = "Owned"
        BY <2>2, AllTemps
      <4>2. Role(expr, 1) = "Read"
        BY <2>2, <3>1 DEF Role
      <4> QED
        BY <1>3, <3>1, <4>1, <4>2
    <3>3. IsTail(args, held) /\ held \in [1 .. n -> Ref]
      BY <1>3, <2>2 DEF CallArgs, IsTail
    <3> HIDE DEF n
    <3> HIDE DEF args
    <3>4. ASSUME NEW c
          PROVE  /\ IsFiniteSet(DOMAIN args) /\ \A k \in DOMAIN args : args[k] \in Ref
                 /\ Occurs(args, c) = Names((1 .. n) \ {1}, held, c)
      BY <3>1, <3>3, TailOccurs
    <3> QED
      BY <3>2, <3>4
  <2> QED
    BY <1>3, <2>1, <2>2 DEF kinds
<1> HIDE DEF args
<1>7. \A c \in Cell : Occurs(args, c) <= count[c]
  <2>1. SUFFICES ASSUME NEW c \in Cell PROVE Occurs(args, c) <= count[c]
    OBVIOUS
  <2>2. /\ Names(Keep, env, c) \in Nat /\ Names(Due, env, c) \in Nat
        /\ Names(Taking, Operands, c) \in Nat /\ Names(Copies, Copied, c) \in Nat
        /\ Names(Temps, held, c) \in Nat
    BY <1>5, ClaimNumbers DEF Typed
  <2>3. /\ count[c] \in Nat /\ others[c] \in Nat /\ FieldRefs(c) \in Nat
        /\ count[c] = others[c] + FieldRefs(c) + Claims(c)
    BY <1>5, Positive
  <2>4. Names(Temps, held, c) <= count[c]
    BY <2>2, <2>3 DEF Claims
  <2> QED
    BY <1>6, <2>4
<1>8. r \in Ref
  BY <1>2, <1>5, <1>6, CalledResult
<1>9. inst.kind = "let" /\ inst.result \notin Managed => r \notin Cell
  <2>1. inst.kind = "let" /\ inst.result \notin Managed => inst.expr.kind \in {"read", "value", "field"}
    BY <1>1, LetRules
  <2> QED
    BY <1>4, <2>1
<1>10. env' \in [Value -> Ref] /\ others' = others
  BY <1>1, <1>2, <1>8, <1>9, BindFrame
<1>11. /\ HeapTyped' /\ r \in Ref /\ kids' = kids
       /\ \A c \in Cell : /\ count'[c] = (count[c] - Occurs(args, c)) + One(r, c)
                          /\ Occurs(args, c) \in Nat /\ count[c] \in Nat
  BY <1>2, <1>3, <1>5, <1>6, <1>7, <1>10, CalledHeap
<1>12. ASSUME NEW c \in Cell
       PROVE (count'[c] + Names(Temps, held, c)) + FieldRefs(c)
                             = (count[c] + FieldRefs(c)') + (IF Given THEN One(r, c) ELSE 0)
  <2>1. /\ count'[c] = (count[c] - Occurs(args, c)) + One(r, c)
        /\ Occurs(args, c) \in Nat /\ count[c] \in Nat /\ Occurs(args, c) = Names(Temps, held, c)
    BY <1>6, <1>11
  <2>2. One(r, c) \in Nat /\ FieldRefs(c)' = FieldRefs(c) /\ FieldRefs(c) \in Nat
    BY <1>11, Ones, Numbers DEF FieldRefs
  <2>3. Given
    BY <1>4 DEF Given, ProducesOwned
  <2> QED
    BY <2>1, <2>2, <2>3
<1>13. \A c \in Cell : (count'[c] + Names(Temps, held, c)) + FieldRefs(c)
                             = (count[c] + FieldRefs(c)') + (IF Given THEN One(r, c) ELSE 0)
  BY <1>12
<1>14. Inv'
  BY <1>1, <1>2, <1>8, <1>9, <1>11, <1>13, BoundInv
<1>15. ~Short(args)
  <2>1. count \in [Cell -> Nat]
    BY <1>5 DEF HeapTyped
  <2> QED
    BY <1>6, <1>7, <2>1, DropCounted
<1> QED
  BY <1>14, <1>15 DEF args

-----------------------------------------------------------------------------
(* Terminators.                                                            *)

(* What an edge brings to its target that is counted.                      *)
Brought(e) == (Params(prog, term.succ[e]) \cap Managed) \ Borrowed(prog, plan)

(* At a terminator, when every operand is evaluated.                       *)
LEMMA AtEnd ==
    ASSUME Inv, AtTerm, NEW kinds, Evaluated(kinds)
    PROVE  /\ Placed /\ stage = "eval" /\ site # 0 /\ pending = {} /\ zombies = {} /\ expr.kind \in kinds
           /\ \A w \in Value : todo.retain[w] = 0
           /\ WellFormed(prog) /\ Shaped(prog) /\ block \in Blocks(prog) /\ site \in Sites(prog, block)
           /\ TermShape(prog, term) /\ expr = term.expr
           /\ Defs(prog, block, site) = {}
           /\ held \in [DOMAIN expr.args -> Ref] /\ IsFiniteSet(DOMAIN expr.args)
           /\ DOMAIN expr.args = 1 .. Len(expr.args) /\ Len(expr.args) \in Nat
           /\ Temps = {k \in DOMAIN expr.args : expr.args[k].via # "direct" \/ Role(expr, k) = "Owned"}
           /\ Keep = LiveAt(site) \cap Managed /\ Due = here.late /\ Taking = {} /\ Copies = {}
           /\ here.late \in SUBSET Value
           /\ \A k \in DOMAIN expr.args :
                expr.args[k].via = "direct" => /\ held[k] = env[expr.args[k].val]
                                               /\ expr.args[k].val \notin Managed => held[k] \notin Cell
<1> USE DEF Inv, Typed
<1>1. /\ Placed /\ stage = "eval" /\ site # 0 /\ pending = {} /\ zombies = {} /\ expr.kind \in kinds
      /\ \A w \in Value : todo.retain[w] = 0
  BY Quiet DEF Evaluated, Placed, At
<1>2. /\ TermShape(prog, term) /\ expr = term.expr /\ site \in Sites(prog, block)
      /\ Defs(prog, block, site) = {}
      /\ IsFiniteSet(DOMAIN expr.args) /\ DOMAIN expr.args = 1 .. Len(expr.args) /\ Len(expr.args) \in Nat
  BY <1>1, AtSite
<1>3. WellFormed(prog) /\ Shaped(prog) /\ block \in Blocks(prog)
  BY Here
<1>4. Temps = {k \in DOMAIN expr.args : expr.args[k].via # "direct" \/ Role(expr, k) = "Owned"}
  BY <1>1 DEF Temps
<1>5. /\ held \in [DOMAIN expr.args -> Ref]
      /\ \A k \in DOMAIN expr.args :
           expr.args[k].via = "direct" => /\ held[k] = env[expr.args[k].val]
                                          /\ expr.args[k].val \notin Managed => held[k] \notin Cell
  BY <1>1, ScalarOperand DEF OperandsTyped
<1>6. Keep = LiveAt(site) \cap Managed /\ Due = here.late /\ Taking = {} /\ Copies = {}
  BY <1>1, <1>2 DEF Keep, Due, Taking, Copies
<1>7. here.late \in SUBSET Value
  BY <1>1, HereTypes
<1> QED
  BY <1>1, <1>2, <1>3, <1>4, <1>5, <1>6, <1>7

(* Control leaves for a successor; what it brings is claimed there.        *)
LEMMA LeaveFrame ==
    ASSUME Inv, AtTerm, ~Returns, NEW kinds, Evaluated(kinds), NEW e \in DOMAIN term.succ, Leave(e),
           env' \in [Value -> Ref],
           \A v \in Value \ Params(prog, term.succ[e]) : env'[v] = env[v],
           \A v \in Params(prog, term.succ[e]) \ Managed : v \in Reads(prog) => env'[v] \notin Cell
    PROVE  Placed' /\ TodoTyped' /\ OperandsTyped' /\ Scalars' /\ Unborrowed' /\ others' = others
<1> USE DEF Inv, Typed
<1>1. /\ Placed /\ stage = "eval" /\ site # 0 /\ Shaped(prog) /\ here.late \in SUBSET Value
  BY AtEnd
<1>2. /\ prog' = prog /\ optimize' = optimize /\ plan' = plan /\ others' = others
      /\ block' = block /\ site' = site /\ stage' = "post" /\ edge' = e
      /\ held' = held /\ todo' = Releases(here.late)
  BY DEF Leave, planned
<1>3. term' = term /\ AtTerm' /\ expr' = expr /\ here' = here /\ ~Returns'
  BY <1>2 DEF term, AtTerm, expr, here, Returns
<1>4. Placed'
  BY <1>1, <1>2, <1>3 DEF Placed, Stages
<1>5. TodoTyped'
  BY <1>1, <1>2, <1>3 DEF TodoTyped, Releasing, Releases
<1>6. OperandsTyped'
  BY <1>2, <1>3 DEF OperandsTyped
<1>7. Unborrowed'
  BY <1>2 DEF Unborrowed, Managed, LiveAt
<1>8. Scalars'
  <2>1. SUFFICES ASSUME NEW v \in Reads(prog), v \notin Managed PROVE env'[v] \notin Cell
    BY <1>2 DEF Scalars, Managed
  <2>2. env[v] \notin Cell /\ v \in Value
    BY <1>1, <2>1, ReadsAreValues DEF Scalars
  <2> QED
    BY <2>1, <2>2
<1> QED
  BY <1>2, <1>4, <1>5, <1>6, <1>7, <1>8

(* ... and the claims on a cell there.                                     *)
LEMMA LeaveClaims ==
    ASSUME Inv, AtTerm, ~Returns, NEW kinds, Evaluated(kinds), NEW e \in DOMAIN term.succ, Leave(e),
           \A v \in Value \ Params(prog, term.succ[e]) : env'[v] = env[v], NEW c \in Cell
    PROVE  /\ Claims(c)' = (Claims(c) - Names(Temps, held, c)) + Names(Brought(e), env', c)
           /\ Claims(c) \in Nat /\ Names(Temps, held, c) \in Nat
           /\ Names(Brought(e), env', c) \in Nat
           /\ Names(Temps, held, c) <= Claims(c)
<1> USE DEF Inv, Typed
<1> DEFINE t == term.succ[e]
           live == LiveAt(site) \cap Managed
           late == here.late
           h == env'
<1>1. /\ Placed /\ stage = "eval" /\ site # 0 /\ Shaped(prog) /\ block \in Blocks(prog)
      /\ site \in Sites(prog, block) /\ Defs(prog, block, site) = {}
      /\ Keep = live /\ Due = late /\ Taking = {} /\ Copies = {} /\ late \in SUBSET Value
  BY AtEnd
<1>2. /\ prog' = prog /\ optimize' = optimize /\ plan' = plan
      /\ block' = block /\ site' = site /\ stage' = "post" /\ edge' = e
      /\ held' = held /\ todo' = Releases(late)
  BY DEF Leave, planned
<1>3. term' = term /\ AtTerm' /\ expr' = expr /\ here' = here /\ ~Returns'
  BY <1>2 DEF term, AtTerm, expr, here, Returns
<1>4. /\ Expected(plan, t) \cup plan.drop[block][e] =
             live \cup ((Params(prog, t) \cap Managed) \ Borrowed(prog, plan))
      /\ LiveAt(site) \cap Params(prog, t) = {}
      /\ Uses(prog, block, site) \cap Params(prog, t) = {}
  BY EdgeRule
<1>5. Keep' = live \cup Brought(e) /\ Due' = late /\ Taking' = {} /\ Copies' = {} /\ Temps' = {}
  <2>1. Keep' = Expected(plan, t) \cup plan.drop[block][e]
    BY <1>2, <1>3 DEF Keep
  <2>2. Due' = late /\ Taking' = {} /\ Copies' = {} /\ Temps' = {}
    BY <1>2, <1>3 DEF Due, Taking, Copies, Temps, Releases
  <2> QED
    BY <1>4, <2>1, <2>2 DEF Brought
<1>6. /\ Names(Keep, env, c) \in Nat /\ Names(Due, env, c) \in Nat
      /\ Names(Temps, held, c) \in Nat
  BY ClaimNumbers
<1>7. Claims(c) = Names(live, env, c) + Names(late, env, c) + 0 + 0 + Names(Temps, held, c)
  BY <1>1, NamesNone DEF Claims
<1>8. Claims(c)' = Names(live \cup Brought(e), h, c) + Names(late, h, c) + 0 + 0 + 0
  BY <1>5, NamesNone DEF Claims
<1>9. Managed \subseteq Value /\ late \cap Params(prog, t) = {}
  <2>1. here = PlannedAt(prog, optimize, block, site)
    BY <1>1, AtSite
  <2>2. \A v \in Value : v \in PlannedAt(prog, optimize, block, site).late /\ v \notin Defs(prog, block, site)
                            => v \in Uses(prog, block, site)
    BY <1>1, SiteReleases
  <2> QED
    BY <1>1, <1>4, <2>1, <2>2, Here
<1>10. IsFiniteSet(live) /\ IsFiniteSet(Brought(e)) /\ live \cap Brought(e) = {}
  <2>1. live \in SUBSET Value /\ Brought(e) \in SUBSET Value
    BY <1>9 DEF Brought
  <2> QED
    BY <1>4, <2>1, FiniteClaims DEF Brought
<1>11. ASSUME NEW S \in SUBSET Value, S \cap Params(prog, t) = {} PROVE Names(S, h, c) = Names(S, env, c)
  <2>1. \A v \in S : h[v] = c <=> env[v] = c
    BY <1>11
  <2> HIDE DEF h
  <2> QED
    BY <2>1, NamesSame
<1>12. Names(live, h, c) = Names(live, env, c) /\ Names(late, h, c) = Names(late, env, c)
  <2>1. live \in SUBSET Value /\ late \in SUBSET Value /\ live \cap Params(prog, t) = {}
    BY <1>1, <1>4, <1>9
  <2> QED
    BY <1>9, <1>11, <2>1
<1> HIDE DEF live, late, h
<1>13. Names(live \cup Brought(e), h, c) = Names(live, h, c) + Names(Brought(e), h, c)
  BY <1>10, NamesSplit
<1>14. Names(Brought(e), h, c) \in Nat
  BY <1>10, NamesFinite
<1> QED
  BY <1>1, <1>6, <1>7, <1>8, <1>12, <1>13, <1>14 DEF h

(* Leaving keeps the invariant when the counts make up for the claims.     *)
LEMMA LeftInv ==
    ASSUME Inv, AtTerm, ~Returns, NEW kinds, Evaluated(kinds), NEW e \in DOMAIN term.succ, Leave(e),
           env' \in [Value -> Ref],
           \A v \in Value \ Params(prog, term.succ[e]) : env'[v] = env[v],
           \A v \in Params(prog, term.succ[e]) \ Managed : v \in Reads(prog) => env'[v] \notin Cell,
           HeapTyped',
           \A c \in Cell : (count'[c] + Names(Temps, held, c)) + FieldRefs(c)
                             = (count[c] + FieldRefs(c)') + Names(Brought(e), env', c)
    PROVE  Inv'
<1>1. /\ Placed' /\ TodoTyped' /\ OperandsTyped' /\ Scalars' /\ Unborrowed' /\ others' = others
  BY LeaveFrame
<1>2. Typed /\ Balance
  BY DEF Inv
<1>3. Balance'
  <2>1. SUFFICES ASSUME NEW c \in Cell PROVE (count[c] = others[c] + FieldRefs(c) + Claims(c))'
    BY DEF Balance
  <2>2. /\ Claims(c)' = (Claims(c) - Names(Temps, held, c)) + Names(Brought(e), env', c)
        /\ Claims(c) \in Nat /\ Names(Temps, held, c) \in Nat
        /\ Names(Brought(e), env', c) \in Nat
        /\ Names(Temps, held, c) <= Claims(c)
    BY LeaveClaims
  <2>3. /\ count[c] \in Nat /\ others[c] \in Nat /\ FieldRefs(c) \in Nat
        /\ count[c] = others[c] + FieldRefs(c) + Claims(c)
    BY <1>2, Positive
  <2>4. FieldRefs(c)' \in Nat /\ count'[c] \in Nat
    <3>1. {f \in Cell \X Index : kids'[f[1]][f[2]] = c} \in SUBSET (Cell \X Index)
      OBVIOUS
    <3>2. Cardinality({f \in Cell \X Index : kids'[f[1]][f[2]] = c}) \in Nat
      BY <3>1, Cells, FS_Subset, FS_CardinalityType
    <3>3. count' \in [Cell -> Nat]
      BY DEF HeapTyped
    <3> QED
      BY <3>2, <3>3 DEF FieldRefs
  <2>5. (count'[c] + Names(Temps, held, c)) + FieldRefs(c)
                             = (count[c] + FieldRefs(c)') + Names(Brought(e), env', c)
    OBVIOUS
  <2>6. count'[c] = others[c] + FieldRefs(c)' + Claims(c)'
    BY <2>2, <2>3, <2>4, <2>5
  <2> QED
    BY <1>1, <2>6
<1> QED
  BY <1>1, <1>3 DEF Inv, Typed

(* A return evaluates its result.                                          *)
LEMMA ReturningInv == Inv /\ Returning => Inv'
<1> SUFFICES ASSUME Inv, Returning PROVE Inv'
  OBVIOUS
<1> DEFINE kinds == {"args"}
<1>1. /\ AtTerm /\ Evaluated(kinds) /\ Returns /\ Leave(0) /\ env' = env /\ heap' = heap
  BY DEF Returning, Returns
<1> HIDE DEF kinds
<1>2. /\ Placed /\ stage = "eval" /\ site # 0 /\ pending = {} /\ zombies = {} /\ expr.kind \in kinds
      /\ Shaped(prog) /\ block \in Blocks(prog)
      /\ TermShape(prog, term) /\ expr = term.expr
      /\ held \in [DOMAIN expr.args -> Ref]
      /\ Temps = {k \in DOMAIN expr.args : expr.args[k].via # "direct" \/ Role(expr, k) = "Owned"}
      /\ Keep = LiveAt(site) \cap Managed /\ Due = here.late /\ Taking = {} /\ Copies = {}
      /\ here.late \in SUBSET Value
  BY <1>1, AtEnd
<1>3. Temps = DOMAIN expr.args
  <2>1. \A k \in DOMAIN expr.args : expr.args[k].via # "direct" \/ Role(expr, k) = "Owned"
    BY <1>2, AllTemps DEF kinds
  <2> QED
    BY <1>2, <2>1
<1>4. Keep = {}
  <2>1. term.succ = <<>>
    BY <1>1, <1>2 DEF TermShape, Returns
  <2>2. Successors(prog, block) = {}
    <3>1. DOMAIN <<>> = {}
      OBVIOUS
    <3> QED
      BY <2>1, <3>1 DEF Successors, Elems, term
  <2>3. LiveAt(site) = Out(prog, block)
    BY <1>1, <1>2, ScanStep DEF LiveAt, AtTerm
  <2>4. Out(prog, block) = {}
    BY <2>2 DEF Out, OutOf
  <2> QED
    BY <1>2, <2>3, <2>4
<1>5. /\ prog' = prog /\ optimize' = optimize /\ plan' = plan /\ others' = others
      /\ block' = block /\ site' = site /\ stage' = "post" /\ edge' = 0
      /\ held' = held /\ todo' = Releases(here.late)
  BY <1>1 DEF Leave, planned
<1>6. term' = term /\ AtTerm' /\ expr' = expr /\ here' = here /\ Returns'
  BY <1>1, <1>5 DEF term, AtTerm, expr, here, Returns
<1>7. Placed'
  BY <1>2, <1>5, <1>6 DEF Placed, Stages
<1>8. TodoTyped'
  BY <1>2, <1>5, <1>6 DEF TodoTyped, Releasing, Releases
<1>9. OperandsTyped'
  BY <1>2, <1>5, <1>6 DEF OperandsTyped
<1>10. HeapTyped' /\ \A c : FieldRefs(c)' = FieldRefs(c)
  <2>1. env' \in [Value -> Ref]
    BY <1>1 DEF Inv, Typed, HeapTyped
  <2> QED
    BY <1>1, <1>5, <2>1, Balanced DEF heap
<1>11. Scalars' /\ Unborrowed'
  BY <1>1, <1>5 DEF Inv, Scalars, Unborrowed, Managed, LiveAt
<1>12. Balance'
  <2>1. Keep' = {} /\ Due' = here.late /\ Taking' = {} /\ Copies' = {} /\ Temps' = DOMAIN expr.args
    BY <1>5, <1>6 DEF Keep, Due, Taking, Copies, Temps, Releases
  <2>2. \A c : Claims(c)' = Claims(c)
    BY <1>1, <1>2, <1>3, <1>4, <1>5, <2>1, NamesNone DEF Claims
  <2> QED
    BY <1>1, <1>5, <1>10, <2>2 DEF Inv, Balance, heap
<1> QED
  BY <1>7, <1>8, <1>9, <1>10, <1>11, <1>12 DEF Inv, Typed

(* A branch on a scalar.                                                   *)
LEMMA BranchInv == Inv /\ Branch => Inv'
<1> SUFFICES ASSUME Inv, Branch PROVE Inv'
  OBVIOUS
<1> DEFINE kinds == {"read"}
<1>1. PICK e \in DOMAIN term.succ :
         /\ AtTerm /\ Evaluated(kinds) /\ term.kind = "branch" /\ Leave(e) /\ env' = env /\ heap' = heap
  BY DEF Branch
<1> HIDE DEF kinds
<1>2. /\ TermShape(prog, term) /\ expr = term.expr
      /\ Temps = {k \in DOMAIN expr.args : expr.args[k].via # "direct" \/ Role(expr, k) = "Owned"}
  BY <1>1, AtEnd
<1>3. Named(term.expr) /\ prog.params[term.succ[e]] = <<>> /\ ~Returns /\ term.expr.kind = "read"
  BY <1>1, <1>2 DEF TermShape, Returns
<1>4. Params(prog, term.succ[e]) = {} /\ Brought(e) = {} /\ Temps = {}
  <2>1. DOMAIN <<>> = {}
    OBVIOUS
  <2>2. Params(prog, term.succ[e]) = {}
    BY <1>3, <2>1 DEF Params, Elems
  <2>3. Temps = {}
    BY <1>2, <1>3 DEF Named, Role
  <2> QED
    BY <2>2, <2>3 DEF Brought
<1>5. env' \in [Value -> Ref] /\ others' = others
  BY <1>1 DEF Inv, Typed, HeapTyped, Leave, planned
<1>6. HeapTyped' /\ \A c : FieldRefs(c)' = FieldRefs(c)
  BY <1>1, <1>5, Balanced DEF heap
<1>7. \A c \in Cell : (count'[c] + Names(Temps, held, c)) + FieldRefs(c)
                             = (count[c] + FieldRefs(c)') + Names(Brought(e), env', c)
  <2>1. SUFFICES ASSUME NEW c \in Cell
                 PROVE (count'[c] + Names(Temps, held, c)) + FieldRefs(c)
                             = (count[c] + FieldRefs(c)') + Names(Brought(e), env', c)
    OBVIOUS
  <2>2. Names(Temps, held, c) = 0 /\ Names(Brought(e), env', c) = 0
    BY <1>4, NamesNone
  <2>3. count'[c] = count[c] /\ count[c] \in Nat /\ FieldRefs(c) \in Nat
    BY <1>1, Numbers DEF heap
  <2> QED
    BY <1>6, <2>2, <2>3
<1> QED
  BY <1>1, <1>3, <1>4, <1>5, <1>6, <1>7, LeftInv

(* A call or a perform that continues in a block; no count runs short.     *)
LEMMA CallOrPerformInv == Inv /\ CallOrPerform => Inv' /\ ~Short(held)
<1> SUFFICES ASSUME Inv, CallOrPerform PROVE Inv' /\ ~Short(held)
  OBVIOUS
<1> DEFINE kinds == {"args"}
           t == term.succ[1]
           x == prog.params[t][1]
<1>1. /\ AtTerm /\ Evaluated(kinds) /\ term.kind = "call" /\ Leave(1)
  BY DEF CallOrPerform
<1>2. PICK r \in Results(held) : Called(held, r) /\ env' = [env EXCEPT ![x] = r]
  BY DEF CallOrPerform
<1> HIDE DEF kinds
<1>3. /\ Placed /\ expr.kind \in kinds /\ TermShape(prog, term) /\ expr = term.expr
      /\ held \in [DOMAIN expr.args -> Ref] /\ IsFiniteSet(DOMAIN expr.args)
      /\ Temps = {k \in DOMAIN expr.args : expr.args[k].via # "direct" \/ Role(expr, k) = "Owned"}
      /\ WellFormed(prog) /\ Shaped(prog) /\ block \in Blocks(prog) /\ zombies = {}
  BY <1>1, AtEnd
<1>4. Len(term.succ) = 1 /\ Len(prog.params[t]) = 1 /\ ~Returns /\ term.succ \in Seq(Blocks(prog))
  BY <1>1, <1>3 DEF TermShape, Returns
<1>5. 1 \in DOMAIN term.succ /\ t \in Blocks(prog)
  BY <1>4
<1>6. Params(prog, t) = {x} /\ x \in Value
  <2>1. DOMAIN prog.params[t] = 1 .. Len(prog.params[t]) /\ \A k \in DOMAIN prog.params[t] : prog.params[t][k] \in Value
    BY <1>3, <1>5, ParamsShape
  <2>2. DOMAIN prog.params[t] = {1}
    BY <1>4, <2>1
  <2> QED
    BY <2>1, <2>2 DEF Params, Elems
<1>7. x \in Managed
  <2>1. ScalarsAreScalar(prog)
    BY <1>3, Here
  <2>2. prog.term[block].kind = "call" => Params(prog, prog.term[block].succ[1]) \subseteq Classify(prog)
    BY <1>3, <2>1 DEF ScalarsAreScalar
  <2> QED
    BY <1>1, <1>6, <2>2 DEF term, Managed
<1>8. Borrowed(prog, plan) \cap Params(prog, t) = {}
  <2>1. ~IsArm(prog, block, 1)
    BY <1>1 DEF IsArm, term
  <2>2. Borrowed(prog, Plan(prog, optimize)) \cap Params(prog, prog.term[block].succ[1]) = {}
    BY <1>3, <1>5, <2>1, PlainTarget DEF term
  <2>3. plan = Plan(prog, optimize)
    BY <1>3, Here
  <2> QED
    BY <2>2, <2>3 DEF term
<1>9. Brought(1) = {x}
  BY <1>6, <1>7, <1>8 DEF Brought
<1>10. Temps = DOMAIN held
  <2>1. \A k \in DOMAIN expr.args : expr.args[k].via # "direct" \/ Role(expr, k) = "Owned"
    BY <1>3, AllTemps DEF kinds
  <2> QED
    BY <1>3, <2>1
<1> HIDE DEF x, t
<1>11. Typed /\ Balance /\ HeapTyped
  BY DEF Inv, Typed
<1>12. IsFiniteSet(DOMAIN held) /\ \A k \in DOMAIN held : held[k] \in Ref
  BY <1>3
<1>13. ASSUME NEW c \in Cell PROVE Occurs(held, c) <= count[c] /\ Occurs(held, c) = Names(Temps, held, c)
  <2>1. /\ Names(Keep, env, c) \in Nat /\ Names(Due, env, c) \in Nat
        /\ Names(Taking, Operands, c) \in Nat /\ Names(Copies, Copied, c) \in Nat
        /\ Names(Temps, held, c) \in Nat
    BY <1>11, ClaimNumbers DEF Typed
  <2>2. /\ count[c] \in Nat /\ others[c] \in Nat /\ FieldRefs(c) \in Nat
        /\ count[c] = others[c] + FieldRefs(c) + Claims(c)
    BY <1>11, Positive
  <2>3. Names(Temps, held, c) <= count[c]
    BY <2>1, <2>2 DEF Claims
  <2> QED
    BY <1>10, <2>3, OccursNames
<1>14. \A c \in Cell : Occurs(held, c) <= count[c]
  BY <1>13
<1>15. r \in Ref
  BY <1>2, <1>11, <1>12, CalledResult
<1>16. /\ env \in [Value -> Ref] /\ env' \in [Value -> Ref] /\ env'[x] = r
       /\ \A v \in Value \ {x} : env'[v] = env[v]
       /\ others' = others
  <2>1. env \in [Value -> Ref]
    BY <1>11 DEF HeapTyped
  <2> QED
    BY <1>1, <1>2, <1>6, <1>15, <2>1 DEF Leave, planned
<1>17. /\ HeapTyped' /\ kids' = kids
       /\ \A c \in Cell : /\ count'[c] = (count[c] - Occurs(held, c)) + One(r, c)
                          /\ Occurs(held, c) \in Nat /\ count[c] \in Nat
  BY <1>2, <1>3, <1>11, <1>12, <1>14, <1>16, CalledHeap
<1>18. \A c \in Cell : (count'[c] + Names(Temps, held, c)) + FieldRefs(c)
                             = (count[c] + FieldRefs(c)') + Names(Brought(1), env', c)
  <2>1. SUFFICES ASSUME NEW c \in Cell
                 PROVE (count'[c] + Names(Temps, held, c)) + FieldRefs(c)
                             = (count[c] + FieldRefs(c)') + Names(Brought(1), env', c)
    OBVIOUS
  <2>2. Names(Brought(1), env', c) = One(r, c)
    BY <1>9, <1>16, NamesOne DEF One
  <2>3. /\ count'[c] = (count[c] - Occurs(held, c)) + One(r, c)
        /\ Occurs(held, c) \in Nat /\ count[c] \in Nat /\ Occurs(held, c) = Names(Temps, held, c)
    BY <1>13, <1>17
  <2>4. One(r, c) \in Nat /\ FieldRefs(c)' = FieldRefs(c) /\ FieldRefs(c) \in Nat
    BY <1>17, Ones, Numbers DEF FieldRefs
  <2> QED
    BY <2>2, <2>3, <2>4
<1>19. Inv'
  <2>1. \A v \in Value \ Params(prog, term.succ[1]) : env'[v] = env[v]
    BY <1>6, <1>16 DEF t
  <2>2. \A v \in Params(prog, term.succ[1]) \ Managed : v \in Reads(prog) => env'[v] \notin Cell
    BY <1>6, <1>7 DEF t
  <2> QED
    BY <1>1, <1>4, <1>5, <1>16, <1>17, <1>18, <2>1, <2>2, LeftInv
<1>20. ~Short(held)
  <2>1. count \in [Cell -> Nat]
    BY <1>11 DEF HeapTyped
  <2> QED
    BY <1>12, <1>14, <2>1, DropCounted
<1> QED
  BY <1>19, <1>20

(* Assigning parameters: each gets what is meant for it.                   *)
Assigned(params, from) ==
    [v \in Value |->
       LET into == {k \in DOMAIN from : params[k] = v}
       IN  IF into = {} THEN env[v] ELSE from[CHOOSE k \in into : TRUE]]

(* What a parameter is assigned.                                           *)
LEMMA AssignedAt ==
    ASSUME NEW params, NEW from, NEW n, DOMAIN from = 1 .. n, DOMAIN params = 1 .. n,
           \A k \in 1 .. n : params[k] \in Value,
           \A j, k \in 1 .. n : params[j] = params[k] => j = k
    PROVE  /\ \A k \in 1 .. n : Assigned(params, from)[params[k]] = from[k]
           /\ \A v \in Value \ Elems(params) : Assigned(params, from)[v] = env[v]
           /\ DOMAIN Assigned(params, from) = Value
<1>1. ASSUME NEW k \in 1 .. n PROVE Assigned(params, from)[params[k]] = from[k]
  <2> DEFINE into == {j \in DOMAIN from : params[j] = params[k]}
  <2>1. into = {k}
    OBVIOUS
  <2>2. (CHOOSE j \in into : TRUE) = k
    BY <2>1
  <2>3. params[k] \in Value
    OBVIOUS
  <2>4. Assigned(params, from)[params[k]] = IF into = {} THEN env[params[k]] ELSE from[CHOOSE j \in into : TRUE]
    BY <2>3 DEF Assigned
  <2> HIDE DEF into
  <2> QED
    BY <2>1, <2>2, <2>4
<1>2. ASSUME NEW v \in Value \ Elems(params) PROVE Assigned(params, from)[v] = env[v]
  <2>1. {j \in DOMAIN from : params[j] = v} = {}
    BY DEF Elems
  <2> QED
    BY <2>1 DEF Assigned
<1> QED
  BY <1>1, <1>2 DEF Assigned

(* A goto passes its operands to the target's parameters.                  *)
LEMMA GotoInv == Inv /\ Goto => Inv'
<1> SUFFICES ASSUME Inv, Goto PROVE Inv'
  OBVIOUS
<1> DEFINE kinds == {"args"}
           t == term.succ[1]
           params == prog.params[t]
           n == Len(expr.args)
<1>1. /\ AtTerm /\ Evaluated(kinds) /\ term.kind = "goto" /\ Leave(1) /\ heap' = heap
      /\ env' = Assigned(params, held)
  BY DEF Goto, Assigned
<1> HIDE DEF kinds
<1>2. /\ Placed /\ expr.kind \in kinds /\ TermShape(prog, term) /\ expr = term.expr /\ pending = {}
      /\ stage = "eval" /\ site # 0 /\ site \in Sites(prog, block)
      /\ held \in [DOMAIN expr.args -> Ref] /\ IsFiniteSet(DOMAIN expr.args)
      /\ DOMAIN expr.args = 1 .. n /\ n \in Nat
      /\ Temps = {k \in DOMAIN expr.args : expr.args[k].via # "direct" \/ Role(expr, k) = "Owned"}
      /\ WellFormed(prog) /\ Shaped(prog) /\ block \in Blocks(prog) /\ zombies = {}
      /\ \A k \in DOMAIN expr.args :
                expr.args[k].via = "direct" => /\ held[k] = env[expr.args[k].val]
                                               /\ expr.args[k].val \notin Managed => held[k] \notin Cell
  BY <1>1, AtEnd
<1>3. /\ Len(term.succ) = 1 /\ Len(params) = n /\ ~Returns /\ term.succ \in Seq(Blocks(prog))
  BY <1>1, <1>2 DEF TermShape, Returns
<1>4. 1 \in DOMAIN term.succ /\ t \in Blocks(prog)
  BY <1>3
<1>5. /\ DOMAIN params = 1 .. n /\ DOMAIN held = 1 .. n /\ \A k \in 1 .. n : params[k] \in Value
      /\ \A j, k \in 1 .. n : params[j] = params[k] => j = k
      /\ Params(prog, t) \subseteq Value /\ Params(prog, t) = Elems(params)
      /\ \A v \in Params(prog, t) : \E k \in 1 .. n : params[k] = v
      /\ \A k \in 1 .. n : params[k] \in Params(prog, t)
  <2>1. /\ DOMAIN prog.params[t] = 1 .. Len(prog.params[t])
        /\ \A k \in DOMAIN prog.params[t] : prog.params[t][k] \in Params(prog, t) /\ prog.params[t][k] \in Value
        /\ \A v \in Params(prog, t) : v \in Value /\ \E k \in DOMAIN prog.params[t] : prog.params[t][k] = v
        /\ \A j, k \in DOMAIN prog.params[t] : prog.params[t][j] = prog.params[t][k] => j = k
    BY <1>2, <1>4, ParamsShape
  <2> QED
    BY <1>2, <1>3, <2>1 DEF Params
<1>6. /\ \A k \in 1 .. n : env'[params[k]] = held[k]
      /\ \A v \in Value \ Params(prog, t) : env'[v] = env[v]
      /\ DOMAIN env' = Value
  <2> HIDE DEF params, n, t
  <2>1. /\ DOMAIN held = 1 .. n /\ DOMAIN params = 1 .. n
        /\ \A k \in 1 .. n : params[k] \in Value
        /\ \A j, k \in 1 .. n : params[j] = params[k] => j = k
    BY <1>5
  <2>2. /\ \A k \in 1 .. n : Assigned(params, held)[params[k]] = held[k]
        /\ \A v \in Value \ Elems(params) : Assigned(params, held)[v] = env[v]
        /\ DOMAIN Assigned(params, held) = Value
    BY <2>1, AssignedAt
  <2>3. env' = Assigned(params, held) /\ Params(prog, t) = Elems(params)
    BY <1>1, <1>5
  <2> QED
    BY <2>2, <2>3
<1>7. env \in [Value -> Ref]
  BY DEF Inv, Typed, HeapTyped
<1> HIDE DEF params
<1>8. env' \in [Value -> Ref]
  <2>1. ASSUME NEW v \in Value PROVE env'[v] \in Ref
    <3>1. CASE v \in Params(prog, t)
      BY <1>2, <1>5, <1>6, <3>1
    <3>2. CASE v \notin Params(prog, t)
      BY <1>6, <1>7, <3>2
    <3> QED
      BY <3>1, <3>2
  <2>2. env' = [v \in Value |-> env'[v]]
    <3>1. env' = [v \in Value |-> Assigned(params, held)[v]]
      BY <1>1 DEF Assigned
    <3> QED
      BY <1>1, <3>1
  <2> QED
    BY <2>1, <2>2
<1>9. Brought(1) = Params(prog, t) \cap Managed
  <2>1. ~IsArm(prog, block, 1)
    BY <1>1 DEF IsArm, term
  <2>2. Borrowed(prog, Plan(prog, optimize)) \cap Params(prog, prog.term[block].succ[1]) = {}
    BY <1>2, <1>4, <2>1, PlainTarget DEF term
  <2>3. plan = Plan(prog, optimize)
    BY <1>2, Here
  <2> QED
    BY <2>2, <2>3 DEF term, Brought
<1>10. Temps = 1 .. n
  <2>1. \A k \in DOMAIN expr.args : expr.args[k].via # "direct" \/ Role(expr, k) = "Owned"
    BY <1>2, AllTemps DEF kinds
  <2> QED
    BY <1>2, <2>1
<1>11. ASSUME NEW k \in 1 .. n, params[k] \notin Managed PROVE held[k] \notin Cell
  <2>1. ScalarsAreScalar(prog)
    BY <1>2, Here
  <2>2. term.kind = "goto" =>
               \A j \in DOMAIN term.expr.args :
                  prog.params[term.succ[1]][j] \notin Classify(prog) =>
                     term.expr.args[j].via \in {"direct", "field"} /\ term.expr.args[j].val \notin Classify(prog)
    BY <1>2, <2>1, ManagedRules DEF term
  <2>3. expr.args[k].via \in {"direct", "field"} /\ expr.args[k].val \notin Managed
    BY <1>1, <1>2, <1>11, <2>2 DEF params, Managed
  <2>4. expr.args[k].via = "field" /\ expr.args[k].val \notin Managed => held[k] \notin Cell
    BY <1>2 DEF Inv, Typed, OperandsTyped
  <2> QED
    BY <1>2, <2>3, <2>4
<1> HIDE DEF t
<1>12. ASSUME NEW c \in Cell PROVE Names(Brought(1), env', c) = Names(Temps, held, c)
  <2> DEFINE T == Brought(1)
             S == Temps
             g == env'
             f == held
             h == params
  <2>1. \A x \in S : f[x] = c => h[x] \in T /\ g[h[x]] = c
    BY <1>5, <1>6, <1>9, <1>10, <1>11
  <2>2. \A x, y \in S : h[x] = h[y] => x = y
    BY <1>5, <1>10
  <2>3. \A z \in T : g[z] = c => \E x \in S : h[x] = z /\ f[x] = c
    BY <1>5, <1>6, <1>9, <1>10
  <2>4. IsFiniteSet(S)
    BY <1>2, <1>10
  <2> HIDE DEF S, T, f, g, h
  <2>5. Names(T, g, c) = Names(S, f, c)
    BY <2>1, <2>2, <2>3, <2>4, NamesMoved
  <2> QED
    BY <2>5 DEF S, T, f, g
<1>13. others' = others
  BY <1>1 DEF Leave, planned
<1>14. HeapTyped' /\ \A c : FieldRefs(c)' = FieldRefs(c)
  BY <1>1, <1>8, <1>13, Balanced DEF heap
<1>15. \A c \in Cell : (count'[c] + Names(Temps, held, c)) + FieldRefs(c)
                             = (count[c] + FieldRefs(c)') + Names(Brought(1), env', c)
  <2>1. SUFFICES ASSUME NEW c \in Cell
                 PROVE (count'[c] + Names(Temps, held, c)) + FieldRefs(c)
                             = (count[c] + FieldRefs(c)') + Names(Brought(1), env', c)
    OBVIOUS
  <2>2. Names(Brought(1), env', c) = Names(Temps, held, c) /\ Names(Temps, held, c) \in Nat
    BY <1>2, <1>10, <1>12, NamesFinite
  <2>3. count'[c] = count[c] /\ count[c] \in Nat /\ FieldRefs(c) \in Nat
    BY <1>1, Numbers DEF heap
  <2> QED
    BY <1>14, <2>2, <2>3
<1>16. \A v \in Value \ Params(prog, term.succ[1]) : env'[v] = env[v]
  BY <1>6 DEF t
<1>17. \A v \in Params(prog, term.succ[1]) \ Managed : v \in Reads(prog) => env'[v] \notin Cell
  BY <1>5, <1>6, <1>11 DEF t
<1> QED
  BY <1>1, <1>3, <1>4, <1>8, <1>14, <1>15, <1>16, <1>17, LeftInv

(* What Match does on an arm.                                              *)
ArmTaken(e) ==
    LET mode == plan.mode[block][e]
    IN  {k \in DOMAIN mode : mode[k] = "MoveUnique" \/ (mode[k] = "Move" /\ held[1] \in Cell /\ count[held[1]] = 1)}
ArmCopied(e) ==
    LET mode == plan.mode[block][e]
    IN  [k \in DOMAIN mode |-> IF mode[k] = "Borrow" \/ k \in ArmTaken(e) THEN Unit ELSE Kid(held[1], k)]
ArmBinders(e) == prog.params[term.succ[e]]
ArmFields(e) == [k \in DOMAIN ArmBinders(e) |-> Kid(held[1], k)]
ArmKids(e) ==
    [d \in Cell |-> [i \in Index |-> IF d = held[1] /\ i \in ArmTaken(e) THEN Unit ELSE kids[d][i]]]
ArmCounted(e) == {k \in DOMAIN ArmBinders(e) : plan.mode[block][e][k] # "Borrow"}

(* A match takes its default, or an arm that fits.                         *)
LEMMA MatchCases ==
    ASSUME Match
    PROVE  \E e \in DOMAIN term.succ :
              /\ AtTerm /\ Evaluated({"read"}) /\ term.kind = "match" /\ Leave(e)
              /\ born' = born /\ zombies' = zombies
              /\ \/ e = Len(term.succ) /\ env' = env /\ count' = count /\ kids' = kids
                 \/ /\ e # Len(term.succ) /\ env' = Assigned(ArmBinders(e), ArmFields(e))
                    /\ count' = Retained(ArmCopied(e)) /\ kids' = ArmKids(e)
<1>1. PICK e \in DOMAIN term.succ :
         /\ e < Len(term.succ) => held[1] # Unit
         /\ Leave(e)
         /\ IF e = Len(term.succ) THEN UNCHANGED <<env, count, kids>>
            ELSE LET c == held[1]
                     binders == prog.params[term.succ[e]]
                     mode == plan.mode[block][e]
                     sole == c \in Cell /\ count[c] = 1
                     taken == {k \in DOMAIN mode : mode[k] = "MoveUnique" \/ (mode[k] = "Move" /\ sole)}
                     copied == [k \in DOMAIN mode |->
                                  IF mode[k] = "Borrow" \/ k \in taken THEN Unit ELSE Kid(c, k)]
                 IN  /\ env' = [v \in Value |->
                                  LET into == {k \in DOMAIN binders : binders[k] = v}
                                  IN  IF into = {} THEN env[v] ELSE Kid(c, CHOOSE k \in into : TRUE)]
                     /\ count' = Retained(copied)
                     /\ kids' = [d \in Cell |-> [i \in Index |->
                                   IF d = c /\ i \in taken THEN Unit ELSE kids[d][i]]]
  BY DEF Match
<1>2. /\ AtTerm /\ Evaluated({"read"}) /\ term.kind = "match" /\ born' = born /\ zombies' = zombies
  BY DEF Match
<1>3. CASE e = Len(term.succ)
  BY <1>1, <1>2, <1>3
<1>4. CASE e # Len(term.succ)
  <2> DEFINE binders == prog.params[term.succ[e]]
             into(v) == {k \in DOMAIN binders : binders[k] = v}
             gotten(v) == IF into(v) = {} THEN env[v] ELSE Kid(held[1], CHOOSE k \in into(v) : TRUE)
             given(v) == IF into(v) = {} THEN env[v] ELSE ArmFields(e)[CHOOSE k \in into(v) : TRUE]
  <2>1. env' = [v \in Value |-> gotten(v)]
    BY <1>1, <1>4
  <2>2. Assigned(ArmBinders(e), ArmFields(e)) = [v \in Value |-> given(v)]
    <3>1. DOMAIN ArmFields(e) = DOMAIN binders
      BY DEF ArmFields, ArmBinders
    <3> QED
      BY <3>1 DEF Assigned, ArmBinders
  <2>3. ASSUME NEW v \in Value PROVE gotten(v) = given(v)
    <3>1. CASE into(v) = {}
      BY <3>1
    <3>2. CASE into(v) # {}
      <4>1. (CHOOSE k \in into(v) : TRUE) \in into(v)
        BY <3>2
      <4>2. (CHOOSE k \in into(v) : TRUE) \in DOMAIN ArmBinders(e)
        BY <4>1 DEF ArmBinders
      <4> QED
        BY <3>2, <4>2 DEF ArmFields
    <3> QED
      BY <3>1, <3>2
  <2>4. env' = Assigned(ArmBinders(e), ArmFields(e))
    <3> HIDE DEF gotten, given
    <3> QED
      BY <2>1, <2>2, <2>3
  <2>5. count' = Retained(ArmCopied(e)) /\ kids' = ArmKids(e)
    BY <1>1, <1>4 DEF ArmCopied, ArmTaken, ArmKids
  <2> QED
    BY <1>1, <1>2, <1>4, <2>4, <2>5
<1> QED
  BY <1>3, <1>4

(* The default of a match moves nothing.                                   *)
LEMMA DefaultInv ==
    ASSUME Inv, AtTerm, Evaluated({"read"}), term.kind = "match", NEW e \in DOMAIN term.succ, Leave(e),
           e = Len(term.succ), UNCHANGED <<born, zombies, env, count, kids>>
    PROVE  Inv'
<1> DEFINE kinds == {"read"}
<1>1. Evaluated(kinds)
  OBVIOUS
<1> HIDE DEF kinds
<1>2. /\ TermShape(prog, term) /\ expr = term.expr /\ Shaped(prog) /\ block \in Blocks(prog)
      /\ Temps = {k \in DOMAIN expr.args : expr.args[k].via # "direct" \/ Role(expr, k) = "Owned"}
  BY <1>1, AtEnd
<1>3. Named(term.expr) /\ Len(prog.params[term.succ[e]]) <= 0 /\ ~Returns /\ term.expr.kind = "read"
  BY <1>2 DEF TermShape, Returns
<1>4. Params(prog, term.succ[e]) = {} /\ Brought(e) = {} /\ Temps = {}
  <2>1. term.succ[e] \in Blocks(prog)
    BY <1>2, Shapes DEF term
  <2>2. DOMAIN prog.params[term.succ[e]] = 1 .. Len(prog.params[term.succ[e]]) /\ Len(prog.params[term.succ[e]]) \in Nat
    BY <1>2, <2>1, ParamsShape
  <2>3. DOMAIN prog.params[term.succ[e]] = {}
    BY <1>3, <2>2
  <2>4. Params(prog, term.succ[e]) = {}
    BY <2>3 DEF Params, Elems
  <2>5. Temps = {}
    BY <1>2, <1>3 DEF Named, Role
  <2> QED
    BY <2>4, <2>5 DEF Brought
<1>5. env' \in [Value -> Ref] /\ others' = others
  BY DEF Inv, Typed, HeapTyped, Leave, planned
<1>6. HeapTyped' /\ \A c : FieldRefs(c)' = FieldRefs(c)
  BY <1>5, Balanced
<1>7. \A c \in Cell : (count'[c] + Names(Temps, held, c)) + FieldRefs(c)
                             = (count[c] + FieldRefs(c)') + Names(Brought(e), env', c)
  <2>1. SUFFICES ASSUME NEW c \in Cell
                 PROVE (count'[c] + Names(Temps, held, c)) + FieldRefs(c)
                             = (count[c] + FieldRefs(c)') + Names(Brought(e), env', c)
    OBVIOUS
  <2>2. Names(Temps, held, c) = 0 /\ Names(Brought(e), env', c) = 0
    BY <1>4, NamesNone
  <2>3. count'[c] = count[c] /\ count[c] \in Nat /\ FieldRefs(c) \in Nat
    BY Numbers
  <2> QED
    BY <1>6, <2>2, <2>3
<1> QED
  BY <1>1, <1>3, <1>4, <1>5, <1>6, <1>7, LeftInv

(* The arms: what a binder is bound to, and which are counted.             *)
LEMMA ArmFacts ==
    ASSUME Inv, AtTerm, Evaluated({"read"}), term.kind = "match", NEW e \in DOMAIN term.succ,
           e # Len(term.succ)
    PROVE  /\ ~Returns /\ zombies = {} /\ Temps = {} /\ held[1] \in Ref /\ 1 \in DOMAIN expr.args
           /\ DOMAIN expr.args = {1} /\ expr.args[1].via = "direct" /\ held[1] = env[expr.args[1].val]
           /\ expr.args[1].val \notin Managed => held[1] \notin Cell
           /\ DOMAIN plan.mode[block][e] = DOMAIN ArmBinders(e)
           /\ DOMAIN ArmBinders(e) \subseteq Index /\ DOMAIN ArmBinders(e) = 1 .. Len(ArmBinders(e))
           /\ Len(ArmBinders(e)) \in Nat
           /\ \A k \in DOMAIN ArmBinders(e) : /\ ArmBinders(e)[k] \in Value
                                              /\ ArmBinders(e)[k] \in Params(prog, term.succ[e])
           /\ \A j, k \in DOMAIN ArmBinders(e) : ArmBinders(e)[j] = ArmBinders(e)[k] => j = k
           /\ \A v \in Params(prog, term.succ[e]) : \E k \in DOMAIN ArmBinders(e) : ArmBinders(e)[k] = v
           /\ ArmTaken(e) \subseteq ArmCounted(e)
           /\ \A k \in DOMAIN ArmBinders(e) : k \in ArmCounted(e) <=> ArmBinders(e)[k] \in Brought(e)
           /\ expr.args[1].val \in Managed => Params(prog, term.succ[e]) \subseteq Managed
<1> DEFINE kinds == {"read"}
           t == term.succ[e]
<1>1. Evaluated(kinds)
  OBVIOUS
<1> HIDE DEF kinds
<1>2. /\ TermShape(prog, term) /\ expr = term.expr /\ WellFormed(prog) /\ Shaped(prog) /\ block \in Blocks(prog)
      /\ zombies = {} /\ Placed
      /\ held \in [DOMAIN expr.args -> Ref] /\ DOMAIN expr.args = 1 .. Len(expr.args)
      /\ Temps = {k \in DOMAIN expr.args : expr.args[k].via # "direct" \/ Role(expr, k) = "Owned"}
      /\ \A k \in DOMAIN expr.args :
           expr.args[k].via = "direct" => /\ held[k] = env[expr.args[k].val]
                                          /\ expr.args[k].val \notin Managed => held[k] \notin Cell
  BY <1>1, AtEnd
<1>3. /\ Named(term.expr) /\ Len(term.expr.args) = 1 /\ Len(prog.params[t]) <= 2 /\ ~Returns
      /\ term.expr.kind = "read" /\ term.succ \in Seq(Blocks(prog))
  BY <1>2 DEF TermShape, Returns
<1>4. DOMAIN expr.args = {1} /\ 1 \in DOMAIN expr.args
  <2>1. 1 .. 1 = {1}
    OBVIOUS
  <2> QED
    BY <1>2, <1>3, <2>1
<1>5. expr.args[1].via = "direct" /\ Temps = {}
  BY <1>2, <1>3, <1>4 DEF Named, Role
<1>6. t \in Blocks(prog)
  BY <1>3
<1>7. /\ DOMAIN prog.params[t] = 1 .. Len(prog.params[t]) /\ Len(prog.params[t]) \in Nat
      /\ \A k \in DOMAIN prog.params[t] : prog.params[t][k] \in Params(prog, t) /\ prog.params[t][k] \in Value
      /\ \A v \in Params(prog, t) : v \in Value /\ \E k \in DOMAIN prog.params[t] : prog.params[t][k] = v
      /\ \A j, k \in DOMAIN prog.params[t] : prog.params[t][j] = prog.params[t][k] => j = k
  BY <1>2, <1>6, ParamsShape
<1>8. DOMAIN prog.params[t] \subseteq Index
  BY <1>3, <1>7 DEF Index
<1>9. plan = Plan(prog, optimize) /\ SealedArms(prog) /\ ScalarsAreScalar(prog)
  BY <1>2, Here
<1>10. e \in DOMAIN Plan(prog, optimize).mode[block]
  <2>1. e \in DOMAIN prog.term[block].succ /\ IsArm(prog, block, e)
    <3>1. e \in 1 .. Len(term.succ) /\ Len(term.succ) \in Nat
      BY <1>3
    <3>2. e < Len(term.succ)
      BY <3>1
    <3> QED
      BY <3>2 DEF IsArm, term
  <2> QED
    BY <1>2, <2>1, ArmHasModes
<1>11. /\ DOMAIN plan.mode[block][e] = DOMAIN prog.params[t]
       /\ \A k \in DOMAIN prog.params[t] :
             plan.mode[block][e][k] = "Borrow" <=>
                prog.params[t][k] \notin Managed \/ prog.params[t][k] \notin After(prog, t)[0]
  <2>1. LET u == prog.term[block].succ[e]
            modes == Plan(prog, optimize).mode[block][e]
        IN  /\ prog.term[block].kind = "match" /\ IsArm(prog, block, e) /\ e \in DOMAIN prog.term[block].succ
            /\ u \in ArmTargets(prog) /\ u \in Blocks(prog)
            /\ DOMAIN modes = DOMAIN prog.params[u]
            /\ \A k \in DOMAIN prog.params[u] :
                 /\ modes[k] = Mode(prog, optimize, Classify(prog), SolveOrigins(prog), Afters(prog), block, prog.params[u][k], u)
                 /\ modes[k] \in {"Borrow", "Copy", "Move", "MoveUnique"}
                 /\ modes[k] = "Borrow" <=> prog.params[u][k] \notin Classify(prog) \/ prog.params[u][k] \notin After(prog, u)[0]
    BY <1>2, <1>10, ArmModes
  <2> QED
    BY <1>9, <2>1 DEF term, Managed
<1>12. \A k \in DOMAIN prog.params[t] :
          prog.params[t][k] \in Borrowed(prog, plan) <=> plan.mode[block][e][k] = "Borrow"
  <2>1. LET B == Borrowed(prog, Plan(prog, optimize))
        IN  /\ \A u \in Blocks(prog) : B \cap Params(prog, u) \cap Classify(prog) \cap After(prog, u)[0] = {}
            /\ \A u \in Blocks(prog) \ ArmTargets(prog) : B \cap Params(prog, u) = {}
            /\ \A b \in Blocks(prog) : \A i \in DOMAIN prog.insts[b] : prog.insts[b][i].result \notin B
            /\ \A b \in Blocks(prog) : \A j \in DOMAIN Plan(prog, optimize).mode[b] :
                  \A k \in DOMAIN Plan(prog, optimize).mode[b][j] :
                     prog.params[prog.term[b].succ[j]][k] \in B <=> Plan(prog, optimize).mode[b][j][k] = "Borrow"
    BY <1>2, <1>9, BorrowedFacts
  <2>2. \A k \in DOMAIN Plan(prog, optimize).mode[block][e] :
            prog.params[prog.term[block].succ[e]][k] \in Borrowed(prog, Plan(prog, optimize))
              <=> Plan(prog, optimize).mode[block][e][k] = "Borrow"
    BY <1>2, <1>10, <2>1
  <2> QED
    BY <1>9, <1>11, <2>2 DEF term
<1>13. \A k \in DOMAIN ArmBinders(e) : k \in ArmCounted(e) <=> ArmBinders(e)[k] \in Brought(e)
  BY <1>7, <1>11, <1>12 DEF ArmCounted, ArmBinders, Brought
<1>14. ArmTaken(e) \subseteq ArmCounted(e)
  BY <1>11 DEF ArmTaken, ArmCounted, ArmBinders
<1>15. expr.args[1].val \in Managed => Params(prog, t) \subseteq Managed
  <2>1. term.kind = "match" /\ term.expr.args[1].val \in Classify(prog) =>
                    \A j \in 1 .. Len(term.succ) - 1 : Params(prog, term.succ[j]) \subseteq Classify(prog)
    BY <1>2, <1>9, ManagedRules DEF term
  <2>2. e \in 1 .. Len(term.succ) - 1
    <3>1. e \in 1 .. Len(term.succ) /\ Len(term.succ) \in Nat
      BY <1>3
    <3> QED
      BY <3>1
  <2> QED
    BY <1>2, <2>1, <2>2 DEF Managed
<1>16. /\ DOMAIN plan.mode[block][e] = DOMAIN ArmBinders(e)
       /\ DOMAIN ArmBinders(e) \subseteq Index /\ DOMAIN ArmBinders(e) = 1 .. Len(ArmBinders(e))
       /\ Len(ArmBinders(e)) \in Nat
       /\ \A k \in DOMAIN ArmBinders(e) : /\ ArmBinders(e)[k] \in Value
                                          /\ ArmBinders(e)[k] \in Params(prog, term.succ[e])
       /\ \A j, k \in DOMAIN ArmBinders(e) : ArmBinders(e)[j] = ArmBinders(e)[k] => j = k
       /\ \A v \in Params(prog, term.succ[e]) : \E k \in DOMAIN ArmBinders(e) : ArmBinders(e)[k] = v
  BY <1>7, <1>8, <1>11 DEF ArmBinders
<1>17. /\ held[1] \in Ref /\ held[1] = env[expr.args[1].val]
       /\ expr.args[1].val \notin Managed => held[1] \notin Cell
  BY <1>2, <1>4, <1>5
<1> QED
  BY <1>2, <1>3, <1>4, <1>5, <1>13, <1>14, <1>15, <1>16, <1>17

(* A cell has finitely many fields.                                        *)
LEMMA IndexFinite == IsFiniteSet(Index) /\ \A S \in SUBSET Index : IsFiniteSet(S)
<1>1. 1 \in Int /\ 2 \in Int
  OBVIOUS
<1>2. IsFiniteSet(Index)
  BY <1>1, FS_Interval DEF Index
<1> QED
  BY <1>2, FS_Subset

(* An arm: what is copied is retained, what is taken has left its field.   *)
LEMMA ArmBalance ==
    ASSUME Inv, AtTerm, Evaluated({"read"}), term.kind = "match", NEW e \in DOMAIN term.succ,
           e # Len(term.succ), env' = Assigned(ArmBinders(e), ArmFields(e)),
           count' = Retained(ArmCopied(e)), kids' = ArmKids(e), NEW d \in Cell
    PROVE  /\ count'[d] = count[d] + Occurs(ArmCopied(e), d)
           /\ Occurs(ArmCopied(e), d) \in Nat
           /\ Occurs(ArmCopied(e), d) + FieldRefs(d) = FieldRefs(d)' + Names(Brought(e), env', d)
           /\ FieldRefs(d) \in Nat /\ FieldRefs(d)' \in Nat /\ Names(Brought(e), env', d) \in Nat
           /\ (Occurs(ArmCopied(e), d) > 0 => \E k \in Index : Kid(held[1], k) = d)
<1> DEFINE A == DOMAIN ArmBinders(e)
           c == held[1]
           K == [k \in Index |-> Kid(c, k)]
           NB == ArmCounted(e)
           T == ArmTaken(e)
           C == NB \ T
           g == env'
           b == ArmBinders(e)
<1>1. /\ DOMAIN plan.mode[block][e] = A /\ A \subseteq Index /\ A = 1 .. Len(ArmBinders(e))
      /\ \A k \in A : b[k] \in Value /\ b[k] \in Params(prog, term.succ[e])
      /\ \A j, k \in A : b[j] = b[k] => j = k
      /\ \A v \in Params(prog, term.succ[e]) : \E k \in A : b[k] = v
      /\ T \subseteq NB
      /\ \A k \in A : k \in NB <=> b[k] \in Brought(e)
      /\ c \in Ref
  BY ArmFacts
<1>2. NB \subseteq A /\ NB \subseteq Index /\ IsFiniteSet(NB) /\ IsFiniteSet(T) /\ IsFiniteSet(C)
      /\ T \subseteq Index
  <2>1. NB \subseteq A
    BY DEF ArmCounted
  <2>2. NB \in SUBSET Index /\ T \in SUBSET Index /\ C \in SUBSET Index
    BY <1>1, <2>1
  <2> QED
    BY <2>1, <2>2, IndexFinite
<1>3. Unit # d
  BY Cells
<1>4. Occurs(ArmCopied(e), d) = Names(C, K, d)
  <2>1. ASSUME NEW k \in A PROVE ArmCopied(e)[k] = d <=> k \in C /\ K[k] = d
    <3>1. ArmCopied(e)[k] = IF plan.mode[block][e][k] = "Borrow" \/ k \in T THEN Unit ELSE Kid(c, k)
      BY <1>1 DEF ArmCopied
    <3>2. k \in NB <=> plan.mode[block][e][k] # "Borrow"
      BY DEF ArmCounted
    <3>3. K[k] = Kid(c, k)
      BY <1>1
    <3> HIDE DEF K, NB, T
    <3> QED
      BY <1>3, <3>1, <3>2, <3>3
  <2>2. DOMAIN ArmCopied(e) = A
    BY <1>1 DEF ArmCopied
  <2>3. {k \in DOMAIN ArmCopied(e) : ArmCopied(e)[k] = d} = {k \in C : K[k] = d}
    <3>1. C \subseteq A
      BY <1>2
    <3> HIDE DEF C, K, A
    <3> QED
      BY <2>1, <2>2, <3>1
  <2> QED
    BY <2>3 DEF Occurs, Names
<1>5. Names(Brought(e), g, d) = Names(NB, K, d)
  <2>1. \A k \in A : g[b[k]] = Kid(c, k)
    <3>1. DOMAIN ArmFields(e) = 1 .. Len(ArmBinders(e)) /\ DOMAIN b = 1 .. Len(ArmBinders(e))
      BY <1>1 DEF ArmFields
    <3>2. \A k \in A : Assigned(ArmBinders(e), ArmFields(e))[b[k]] = ArmFields(e)[k]
      BY <1>1, <3>1, AssignedAt
    <3> QED
      BY <3>2 DEF ArmFields
  <2>2. \A x \in NB : K[x] = d => b[x] \in Brought(e) /\ g[b[x]] = d
    BY <1>1, <1>2, <2>1
  <2>3. \A x, y \in NB : b[x] = b[y] => x = y
    BY <1>1, <1>2
  <2>4. \A z \in Brought(e) : g[z] = d => \E x \in NB : b[x] = z /\ K[x] = d
    <3>1. SUFFICES ASSUME NEW z \in Brought(e), g[z] = d PROVE \E x \in NB : b[x] = z /\ K[x] = d
      OBVIOUS
    <3>2. PICK x \in A : b[x] = z
      BY <1>1, <3>1 DEF Brought
    <3>3. x \in NB /\ K[x] = Kid(c, x)
      BY <1>1, <3>2
    <3> QED
      BY <2>1, <3>1, <3>2, <3>3
  <2> HIDE DEF NB, K, g, b, A
  <2> QED
    BY <1>2, <2>2, <2>3, <2>4, NamesMoved
<1>6. /\ Names(NB, K, d) = Names(C, K, d) + Names(T, K, d)
      /\ Names(C, K, d) \in Nat /\ Names(T, K, d) \in Nat /\ Names(NB, K, d) \in Nat
  <2>1. C \cup T = NB /\ C \cap T = {}
    BY <1>1
  <2> HIDE DEF C, T, NB, K
  <2>2. Names(C \cup T, K, d) = Names(C, K, d) + Names(T, K, d)
    BY <1>2, <2>1, NamesSplit
  <2>3. Names(C, K, d) \in Nat /\ Names(T, K, d) \in Nat
    BY <1>2, NamesFinite
  <2>4. Names(NB, K, d) = Names(C, K, d) + Names(T, K, d)
    BY <2>1, <2>2
  <2> QED
    BY <2>3, <2>4
<1>7. FieldRefs(d)' + Names(T, K, d) = FieldRefs(d) /\ FieldRefs(d)' \in Nat /\ FieldRefs(d) \in Nat
  <2>1. kids \in [Cell -> [Index -> Ref]]
    BY DEF Inv, Typed, HeapTyped
  <2>2. FieldRefs(d) = FieldsOf(kids, d) /\ FieldRefs(d)' = FieldsOf(kids', d) /\ FieldRefs(d) \in Nat
    BY Numbers DEF FieldRefs, FieldsOf
  <2>3. CASE c \in Cell
    <3>1. /\ FieldsOf(kids', d) + Names(Index, kids[c], d) = FieldsOf(kids, d) + Names(Index, kids'[c], d)
          /\ FieldsOf(kids', d) \in Nat /\ FieldsOf(kids, d) \in Nat
          /\ Names(Index, kids[c], d) \in Nat /\ Names(Index, kids'[c], d) \in Nat
      <4>1. SameBut(kids, kids', c)
        <5>1. SUFFICES ASSUME NEW z \in Cell, z # c PROVE kids'[z] = kids[z]
          BY DEF SameBut
        <5>2. kids'[z] = [i \in Index |-> kids[z][i]]
          BY <5>1 DEF ArmKids
        <5> QED
          BY <2>1, <5>2
      <4> HIDE DEF c
      <4> QED
        BY <2>3, <4>1, FieldsChanged
    <3>2. K = kids[c]
      BY <2>1, <2>3 DEF Kid
    <3>3. \A i \in Index : kids'[c][i] = IF i \in T THEN Unit ELSE kids[c][i]
      BY <2>3 DEF ArmKids
    <3> DEFINE R == Index \ T
               f == kids'[c]
    <3>4. IsFiniteSet(R) /\ R \cup T = Index /\ R \cap T = {}
      <4>1. R \in SUBSET Index
        OBVIOUS
      <4> QED
        BY <1>2, <4>1, IndexFinite
    <3>5. Names(R, f, d) = Names(R, K, d) /\ Names(T, f, d) = 0
      <4>1. \A i \in R : f[i] = d <=> K[i] = d
        BY <3>2, <3>3
      <4>2. \A i \in T : f[i] # d
        BY <1>2, <1>3, <3>3
      <4> HIDE DEF R, f, T, K
      <4>3. Names(R, f, d) = Names(R, K, d)
        BY <4>1, NamesSame
      <4>4. Names(T, f, d) = 0
        BY <1>2, <4>2, NamesFinite
      <4> QED
        BY <4>3, <4>4
    <3> HIDE DEF R, f, T, K, c
    <3>6. Names(R \cup T, f, d) = Names(R, f, d) + Names(T, f, d)
      BY <1>2, <3>4, NamesSplit
    <3>7. Names(R \cup T, K, d) = Names(R, K, d) + Names(T, K, d)
      BY <1>2, <3>4, NamesSplit
    <3>8. Names(R, K, d) \in Nat
      BY <3>4, NamesFinite
    <3>9. /\ Names(Index, kids'[c], d) = Names(R, K, d)
          /\ Names(Index, kids[c], d) = Names(R, K, d) + Names(T, K, d)
      <4>1. Names(Index, f, d) = Names(R, f, d) + Names(T, f, d)
        BY <3>4, <3>6
      <4>2. Names(Index, K, d) = Names(R, K, d) + Names(T, K, d)
        BY <3>4, <3>7
      <4>3. Names(Index, f, d) = Names(R, K, d)
        BY <3>5, <3>8, <4>1
      <4> QED
        BY <3>2, <4>2, <4>3 DEF f
    <3> QED
      BY <1>6, <2>2, <3>1, <3>8, <3>9
  <2>4. CASE c \notin Cell
    <3>1. \A z \in Cell : kids'[z] = kids[z]
      <4>1. SUFFICES ASSUME NEW z \in Cell PROVE kids'[z] = kids[z]
        OBVIOUS
      <4>2. kids'[z] = [i \in Index |-> kids[z][i]]
        BY <2>4 DEF ArmKids
      <4> QED
        BY <2>1, <4>2
    <3>2. FieldRefs(d)' = FieldRefs(d)
      BY <3>1 DEF FieldRefs
    <3>3. Names(T, K, d) = 0
      <4>1. \A k \in T : K[k] # d
        BY <1>2, <1>3, <2>4 DEF Kid
      <4> HIDE DEF T, K
      <4> QED
        BY <1>2, <4>1, NamesFinite
    <3> QED
      BY <2>2, <3>2, <3>3
  <2> QED
    BY <2>3, <2>4
<1>8. Names(C, K, d) > 0 => \E k \in Index : Kid(c, k) = d
  <2>1. CASE \A k \in C : K[k] # d
    <3> HIDE DEF C, K
    <3>1. Names(C, K, d) = 0
      BY <1>2, <2>1, NamesFinite
    <3> QED
      BY <3>1
  <2>2. CASE \E k \in C : K[k] = d
    <3>1. C \subseteq Index
      BY <1>2
    <3> QED
      BY <2>2, <3>1
  <2> QED
    BY <2>1, <2>2
<1>9. count'[d] = count[d] + Occurs(ArmCopied(e), d)
  BY DEF Retained
<1> HIDE DEF C, T, NB, K, g
<1>10. Occurs(ArmCopied(e), d) + FieldRefs(d) = FieldRefs(d)' + Names(Brought(e), g, d)
  BY <1>4, <1>5, <1>6, <1>7
<1> QED
  BY <1>4, <1>5, <1>6, <1>7, <1>8, <1>9, <1>10 DEF g, c

(* An arm keeps the invariant.                                             *)
LEMMA ArmInv ==
    ASSUME Inv, AtTerm, Evaluated({"read"}), term.kind = "match", NEW e \in DOMAIN term.succ, Leave(e),
           e # Len(term.succ), env' = Assigned(ArmBinders(e), ArmFields(e)),
           count' = Retained(ArmCopied(e)), kids' = ArmKids(e), born' = born, zombies' = zombies
    PROVE  Inv'
<1> DEFINE kinds == {"read"}
           t == term.succ[e]
           b == ArmBinders(e)
<1>1. Evaluated(kinds) /\ Typed /\ Balance
  BY DEF Inv
<1> HIDE DEF kinds
<1>2. /\ ~Returns /\ zombies = {} /\ Temps = {} /\ held[1] \in Ref
      /\ expr.args[1].val \notin Managed => held[1] \notin Cell
      /\ DOMAIN b \subseteq Index /\ DOMAIN b = 1 .. Len(b)
      /\ \A k \in DOMAIN b : b[k] \in Value /\ b[k] \in Params(prog, t)
      /\ \A j, k \in DOMAIN b : b[j] = b[k] => j = k
      /\ \A v \in Params(prog, t) : \E k \in DOMAIN b : b[k] = v
      /\ expr.args[1].val \in Managed => Params(prog, t) \subseteq Managed
  BY ArmFacts
<1>3. /\ count \in [Cell -> Nat] /\ kids \in [Cell -> [Index -> Ref]] /\ env \in [Value -> Ref]
      /\ born \in 0 .. MaxCells /\ others \in [Cell -> Nat]
      /\ \A c \in Cell : c > born => count[c] = 0 /\ kids[c] = [i \in Index |-> Unit]
  BY <1>1 DEF Typed, HeapTyped
<1>4. others' = others
  BY DEF Leave, planned
<1>5. \A k \in Index : Kid(held[1], k) \in Ref /\ (held[1] \notin Cell => Kid(held[1], k) \notin Cell)
  <2>1. SUFFICES ASSUME NEW k \in Index
                 PROVE Kid(held[1], k) \in Ref /\ (held[1] \notin Cell => Kid(held[1], k) \notin Cell)
    OBVIOUS
  <2>2. CASE held[1] \in Cell
    <3>1. kids[held[1]] \in [Index -> Ref]
      BY <1>3, <2>2
    <3> QED
      BY <2>2, <3>1 DEF Kid
  <2>3. CASE held[1] \notin Cell
    BY <2>3, Cells DEF Kid
  <2> QED
    BY <2>2, <2>3
<1>6. /\ \A k \in DOMAIN b : env'[b[k]] = Kid(held[1], k)
      /\ \A v \in Value \ Params(prog, t) : env'[v] = env[v]
  <2>1. DOMAIN ArmFields(e) = 1 .. Len(b) /\ DOMAIN b = 1 .. Len(b)
    BY <1>2 DEF ArmFields
  <2>2. /\ \A k \in 1 .. Len(b) : Assigned(b, ArmFields(e))[b[k]] = ArmFields(e)[k]
        /\ \A v \in Value \ Elems(b) : Assigned(b, ArmFields(e))[v] = env[v]
    BY <1>2, <2>1, AssignedAt
  <2>3. Params(prog, t) = Elems(b)
    BY DEF Params, ArmBinders
  <2> QED
    BY <2>1, <2>2, <2>3 DEF ArmFields
<1> HIDE DEF b, t
<1>7. env' \in [Value -> Ref]
  <2>1. ASSUME NEW v \in Value PROVE env'[v] \in Ref
    <3>1. CASE v \in Params(prog, t)
      <4>1. PICK k \in DOMAIN b : b[k] = v
        BY <1>2, <3>1
      <4> QED
        BY <1>2, <1>5, <1>6, <4>1
    <3>2. CASE v \notin Params(prog, t)
      BY <1>3, <1>6, <3>2
    <3> QED
      BY <3>1, <3>2
  <2>2. env' = [v \in Value |-> env'[v]]
    BY DEF Assigned
  <2> QED
    BY <2>1, <2>2
<1>8. \A v \in Params(prog, t) \ Managed : v \in Reads(prog) => env'[v] \notin Cell
  <2>1. SUFFICES ASSUME NEW v \in Params(prog, t), v \notin Managed PROVE env'[v] \notin Cell
    OBVIOUS
  <2>2. PICK k \in DOMAIN b : b[k] = v
    BY <1>2, <2>1
  <2>3. held[1] \notin Cell
    BY <1>2, <2>1
  <2> QED
    BY <1>2, <1>5, <1>6, <2>2, <2>3
<1>9. ASSUME NEW d \in Cell
      PROVE  /\ count'[d] = count[d] + Occurs(ArmCopied(e), d)
             /\ Occurs(ArmCopied(e), d) \in Nat
             /\ Occurs(ArmCopied(e), d) + FieldRefs(d) = FieldRefs(d)' + Names(Brought(e), env', d)
             /\ FieldRefs(d) \in Nat /\ FieldRefs(d)' \in Nat /\ Names(Brought(e), env', d) \in Nat
             /\ (Occurs(ArmCopied(e), d) > 0 => \E k \in Index : Kid(held[1], k) = d)
  BY ArmBalance
<1>10. HeapTyped'
  <2>1. count' \in [Cell -> Nat]
    <3>1. \A d \in Cell : count[d] + Occurs(ArmCopied(e), d) \in Nat
      BY <1>3, <1>9
    <3> QED
      BY <3>1 DEF Retained
  <2>2. kids' \in [Cell -> [Index -> Ref]]
    BY <1>3, Cells DEF ArmKids
  <2>3. ASSUME NEW d \in Cell, d > born PROVE count'[d] = 0 /\ kids'[d] = [i \in Index |-> Unit]
    <3>1. count[d] = 0 /\ kids[d] = [i \in Index |-> Unit]
      BY <1>3, <2>3
    <3>2. Occurs(ArmCopied(e), d) = 0
      <4>1. SUFFICES ASSUME Occurs(ArmCopied(e), d) > 0 PROVE FALSE
        BY <1>9
      <4>2. PICK k \in Index : Kid(held[1], k) = d
        BY <1>9, <4>1
      <4>3. held[1] \in Cell /\ kids[held[1]][k] = d
        BY <4>2, Cells DEF Kid
      <4>4. <<held[1], k>> \in Cell \X Index
        BY <4>2, <4>3
      <4>5. \A f \in Cell \X Index : kids[f[1]][f[2]] = d => count[d] > 0
        BY <1>1, Positive
      <4>6. count[d] > 0
        BY <4>3, <4>4, <4>5
      <4> QED
        BY <3>1, <4>6
    <3>3. kids'[d] = [i \in Index |-> Unit]
      <4>1. kids'[d] = [i \in Index |-> IF d = held[1] /\ i \in ArmTaken(e) THEN Unit ELSE kids[d][i]]
        BY DEF ArmKids
      <4> QED
        BY <3>1, <4>1
    <3> QED
      BY <1>9, <3>1, <3>2, <3>3
  <2> QED
    BY <1>2, <1>3, <1>4, <1>7, <2>1, <2>2, <2>3 DEF HeapTyped
<1>11. \A c \in Cell : (count'[c] + Names(Temps, held, c)) + FieldRefs(c)
                             = (count[c] + FieldRefs(c)') + Names(Brought(e), env', c)
  <2>1. SUFFICES ASSUME NEW c \in Cell
                 PROVE (count'[c] + Names(Temps, held, c)) + FieldRefs(c)
                             = (count[c] + FieldRefs(c)') + Names(Brought(e), env', c)
    OBVIOUS
  <2>2. Names(Temps, held, c) = 0
    BY <1>2, NamesNone
  <2>3. count[c] \in Nat
    BY <1>3
  <2>4. /\ count'[c] = count[c] + Occurs(ArmCopied(e), c)
        /\ Occurs(ArmCopied(e), c) \in Nat
        /\ Occurs(ArmCopied(e), c) + FieldRefs(c) = FieldRefs(c)' + Names(Brought(e), env', c)
        /\ FieldRefs(c) \in Nat /\ FieldRefs(c)' \in Nat /\ Names(Brought(e), env', c) \in Nat
    BY <1>9
  <2> QED
    BY <2>2, <2>3, <2>4
<1>12. /\ \A v \in Value \ Params(prog, term.succ[e]) : env'[v] = env[v]
       /\ \A v \in Params(prog, term.succ[e]) \ Managed : v \in Reads(prog) => env'[v] \notin Cell
  BY <1>6, <1>8 DEF t
<1> QED
  BY <1>1, <1>2, <1>7, <1>10, <1>11, <1>12, LeftInv

(* So does the match.                                                      *)
LEMMA MatchInv == Inv /\ Match => Inv'
<1> SUFFICES ASSUME Inv, Match PROVE Inv'
  OBVIOUS
<1>1. PICK e \in DOMAIN term.succ :
              /\ AtTerm /\ Evaluated({"read"}) /\ term.kind = "match" /\ Leave(e)
              /\ born' = born /\ zombies' = zombies
              /\ \/ e = Len(term.succ) /\ env' = env /\ count' = count /\ kids' = kids
                 \/ /\ e # Len(term.succ) /\ env' = Assigned(ArmBinders(e), ArmFields(e))
                    /\ count' = Retained(ArmCopied(e)) /\ kids' = ArmKids(e)
  BY MatchCases
<1>2. CASE e = Len(term.succ) /\ env' = env /\ count' = count /\ kids' = kids
  BY <1>1, <1>2, DefaultInv
<1>3. CASE /\ e # Len(term.succ) /\ env' = Assigned(ArmBinders(e), ArmFields(e))
           /\ count' = Retained(ArmCopied(e)) /\ kids' = ArmKids(e)
  BY <1>1, <1>3, ArmInv
<1> QED
  BY <1>1, <1>2, <1>3

-----------------------------------------------------------------------------
(* The invariant holds, and counts follow liveness.                        *)

(* The invariant holds when the function is entered.                       *)
LEMMA InitInv == Init => Inv
<1> SUFFICES ASSUME Init PROVE Inv
  OBVIOUS
<1>1. /\ prog \in Programs /\ optimize \in BOOLEAN /\ plan = Plan(prog, optimize)
      /\ block = Len(prog.params) /\ site = 0 /\ edge = 0 /\ stage = "entry"
      /\ todo = Releases(plan.entry[block]) /\ zombies = {}
  BY DEF Init
<1>2. PICK h \in Heaps : env = h.env /\ born = h.born /\ count = h.count /\ kids = h.kids /\ others = h.others
  BY DEF Init
<1>3. WellFormed(prog) /\ Shaped(prog) /\ HeapFor(prog, h)
  BY <1>1, ProgramAssumption, HeapAssumption DEF WellFormed
<1>4. block \in Blocks(prog)
  BY <1>1, <1>3 DEF Shaped, Numbered
<1> DEFINE passed == Params(prog, Len(prog.params)) \cap Classify(prog)
<1>5. /\ env \in [Value -> Ref] /\ born \in 0 .. MaxCells
      /\ count \in [Cell -> Nat] /\ others \in [Cell -> Nat] /\ kids \in [Cell -> [Index -> Ref]]
      /\ \A v \in Reads(prog) \ Classify(prog) : env[v] \notin Cell
      /\ \A k \in Cell : k > born => count[k] = 0 /\ kids[k] = [i \in Index |-> Unit]
      /\ \A k \in Cell : count[k] = others[k] + Cardinality({f \in Cell \X Index : kids[f[1]][f[2]] = k})
                              + Cardinality({v \in passed : env[v] = k})
  BY <1>2, <1>3 DEF HeapFor
<1>6. Placed
  <2>1. Last(prog, block) \in Nat
    BY <1>3, <1>4, Shapes
  <2> QED
    BY <1>1, <1>4, <2>1 DEF Placed, Stages
<1>7. HeapTyped
  BY <1>1, <1>5 DEF HeapTyped
<1>8. /\ plan.entry[block] = ((Params(prog, block) \cap Managed) \ LiveAt(0)) \ Borrowed(prog, plan)
      /\ Managed \subseteq Value
  BY <1>1, <1>4, <1>6, Here, PlanEntry DEF Managed, LiveAt
<1>9. TodoTyped
  BY <1>1, <1>8 DEF TodoTyped, Releases, Releasing
<1>10. OperandsTyped
  BY <1>1 DEF OperandsTyped
<1>11. Expected(plan, block) = passed /\ Unborrowed
  <2>1. Expected(Plan(prog, optimize), Len(prog.params)) = passed
        /\ Borrowed(prog, Plan(prog, optimize)) \cap Classify(prog) \cap After(prog, Len(prog.params))[0] = {}
    BY <1>1, <1>3, <1>4, EntryPlan
  <2> QED
    BY <1>1, <2>1 DEF Unborrowed, Managed, LiveAt
<1>12. Scalars
  BY <1>5 DEF Scalars, Managed
<1>13. Balance
  <2>1. SUFFICES ASSUME NEW c \in Cell PROVE count[c] = others[c] + FieldRefs(c) + Claims(c)
    BY DEF Balance
  <2>2. Keep = LiveAt(0) \cap Managed /\ Due = plan.entry[block] /\ Taking = {} /\ Copies = {} /\ Temps = {}
    BY <1>1 DEF Keep, Due, Taking, Copies, Temps, Releases
  <2>3. Keep \cup Due = passed /\ Keep \cap Due = {}
    <3>1. plan.after[block] = After(prog, block) /\ plan.managed = Managed
      BY <1>6, Here
    <3>2. Keep \cup Due = passed
      BY <1>11, <2>2, <3>1 DEF Expected, LiveAt
    <3> QED
      BY <1>8, <2>2, <3>2
  <2>4. IsFiniteSet(Keep) /\ IsFiniteSet(Due)
    <3>1. Keep \in SUBSET Value /\ Due \in SUBSET Value
      BY <1>8, <2>2
    <3> QED
      BY <3>1, FiniteClaims
  <2>5. Names(Keep \cup Due, env, c) = Names(Keep, env, c) + Names(Due, env, c)
    BY <2>3, <2>4, NamesSplit
  <2>6. Names(Keep, env, c) \in Nat /\ Names(Due, env, c) \in Nat
    BY <2>4, NamesFinite
  <2>7. Claims(c) = Names(Keep, env, c) + Names(Due, env, c) + 0 + 0 + 0
    BY <2>2, NamesNone DEF Claims
  <2>8. count[c] = others[c] + FieldRefs(c) + Names(passed, env, c)
    BY <1>5 DEF FieldRefs, Names
  <2> HIDE DEF passed
  <2>9. Names(passed, env, c) = Names(Keep, env, c) + Names(Due, env, c)
    BY <2>3, <2>5
  <2>10. Claims(c) = Names(passed, env, c)
    BY <2>6, <2>7, <2>9
  <2> QED
    BY <2>8, <2>10
<1> QED
  BY <1>6, <1>7, <1>9, <1>10, <1>11, <1>12, <1>13 DEF Inv, Typed

(* Every step keeps the invariant.                                         *)
LEMMA NextInv == Inv /\ [Next]_vars => Inv'
<1> SUFFICES ASSUME Inv, [Next]_vars PROVE Inv'
  OBVIOUS
<1>1. CASE UNCHANGED vars
  BY <1>1, StutterInv
<1>2. CASE Reap
  BY <1>2, ReapInv
<1>3. CASE RetainOp
  BY <1>3, RetainInv
<1>4. CASE ReleaseOp
  BY <1>4, ReleaseInv
<1>5. CASE EnterBlock
  BY <1>5, EnterBlockInv
<1>6. CASE StartSite
  BY <1>6, StartSiteInv
<1>7. CASE StartEval
  BY <1>7, StartEvalInv
<1>8. ASSUME NEW k \in pending, Operand(k) PROVE Inv'
  BY <1>8, OperandInv
<1>9. CASE Alias
  BY <1>9, AliasInv
<1>10. CASE Scalar
  BY <1>10, ScalarInv
<1>11. CASE Project
  BY <1>11, ProjectInv
<1>12. CASE LoadPooled
  BY <1>12, LoadPooledInv
<1>13. CASE Make
  BY <1>13, MakeInv
<1>14. CASE Call
  BY <1>14, CallInv
<1>15. CASE Returning
  BY <1>15, ReturningInv
<1>16. CASE Goto
  BY <1>16, GotoInv
<1>17. CASE Branch
  BY <1>17, BranchInv
<1>18. CASE Match
  BY <1>18, MatchInv
<1>19. CASE CallOrPerform
  BY <1>19, CallOrPerformInv
<1>20. CASE NextSite
  BY <1>20, NextSiteInv
<1>21. CASE Finish
  BY <1>21, FinishInv
<1>22. CASE TakeEdge
  BY <1>22, TakeEdgeInv
<1>23. CASE CrossEdge
  BY <1>23, CrossEdgeInv
<1>24. CASE Stopped
  BY <1>24, StutterInv DEF Stopped
<1> QED
  BY <1>1, <1>2, <1>3, <1>4, <1>5, <1>6, <1>7, <1>8, <1>9, <1>10, <1>11, <1>12, <1>13, <1>14, <1>15,
     <1>16, <1>17, <1>18, <1>19, <1>20, <1>21, <1>22, <1>23, <1>24 DEF Next

(* In every state each cell's count is the number of its owners: the       *)
(* callers' references, the fields, and what the plan still owes on this   *)
(* path. This is what makes the retains and releases of cfg_arc.rs neither *)
(* leak nor free early.                                                    *)
THEOREM EveryReferenceIsOwed == Spec => []Inv
<1> QED
  BY InitInv, NextInv, PTL DEF Spec

(* What the runs check between two sites and at the end is Balance, when   *)
(* nothing is under way.                                                   *)
LEMMA BalanceBetweenSites == Inv => CountsFollowLiveness
<1> SUFFICES ASSUME Inv, NEW c \in Cell
             PROVE  /\ At("site") =>
                         count[c] = others[c] + FieldRefs(c)
                           + Cardinality({v \in plan.after[block][site - 1] \cap plan.managed : env[v] = c})
                    /\ At("done") => count[c] = others[c] + FieldRefs(c) + Occurs(held, c)
  BY DEF CountsFollowLiveness
<1>1. Typed /\ Balance /\ Placed /\ TodoTyped /\ OperandsTyped
  BY DEF Inv, Typed
<1>2. count[c] = others[c] + FieldRefs(c) + Claims(c)
  BY <1>1 DEF Balance
<1>3. ASSUME At("site")
      PROVE  count[c] = others[c] + FieldRefs(c)
                           + Cardinality({v \in plan.after[block][site - 1] \cap plan.managed : env[v] = c})
  <2>1. stage = "site" /\ todo.release = {}
    BY <1>1, <1>3, Quiet
  <2>2. Keep = plan.after[block][site - 1] \cap plan.managed
    BY <1>1, <2>1, Here DEF Keep, LiveAt
  <2>3. Due = {} /\ Taking = {} /\ Copies = {} /\ Temps = {}
    BY <2>1 DEF Due, Taking, Copies, Temps
  <2>4. Names(Keep, env, c) \in Nat
    BY <1>1, ClaimNumbers
  <2>5. Claims(c) = Names(Keep, env, c) + 0 + 0 + 0 + 0
    BY <2>3, NamesNone DEF Claims
  <2>6. Names(Keep, env, c) = Cardinality({v \in plan.after[block][site - 1] \cap plan.managed : env[v] = c})
    BY <2>2 DEF Names
  <2> QED
    BY <1>2, <2>4, <2>5, <2>6
<1>4. ASSUME At("done")
      PROVE  count[c] = others[c] + FieldRefs(c) + Occurs(held, c)
  <2>1. stage = "done" /\ todo.release = {} /\ AtTerm /\ Returns
    BY <1>1, <1>4, Quiet DEF Placed
  <2>2. Keep = {} /\ Due = {} /\ Taking = {} /\ Copies = {} /\ Temps = DOMAIN expr.args
    BY <2>1 DEF Keep, Due, Taking, Copies, Temps
  <2>3. DOMAIN held = DOMAIN expr.args
    BY <1>1, <2>1 DEF OperandsTyped
  <2>4. Names(Temps, held, c) \in Nat
    BY <1>1, ClaimNumbers
  <2>5. Claims(c) = 0 + 0 + 0 + 0 + Names(Temps, held, c)
    BY <2>2, NamesNone DEF Claims
  <2>6. Occurs(held, c) = Names(Temps, held, c)
    BY <2>2, <2>3, OccursNames
  <2> QED
    BY <1>2, <2>4, <2>5, <2>6
<1> QED
  BY <1>3, <1>4

(* Between two sites, and when the function has returned, a cell is        *)
(* counted for its other owners, its fields and the live managed values    *)
(* that hold it: nothing leaks and nothing is freed early.                 *)
THEOREM CountsAreRight == Spec => []CountsFollowLiveness
<1> QED
  BY EveryReferenceIsOwed, BalanceBetweenSites, PTL

-----------------------------------------------------------------------------
(* Nothing freed is read, when no call is an operand's.                    *)

(* A value that a site reads, but does not consume in a nested call, is    *)
(* live, or waits for its release, or is there as an operand, until the    *)
(* site has had its effect.                                                *)
LEMMA ReadIsAlive ==
    ASSUME Inv, Unnested(prog), stage = "eval", NEW k \in DOMAIN expr.args, Role(expr, k) = "Read"
    PROVE  ~Freed(env[expr.args[k].val])
<1> DEFINE v == expr.args[k].val
           c == env[v]
<1>1. Typed /\ Balance /\ Scalars /\ Placed /\ OperandsTyped /\ site # 0
  BY DEF Inv, Typed, Placed
<1>2. SUFFICES ASSUME c \in Cell PROVE count[c] > 0
  <2>1. count[c] > 0 => count[c] # 0
    OBVIOUS
  <2> QED
    BY <2>1 DEF Freed
<1>3. /\ Shaped(prog) /\ block \in Blocks(prog) /\ site \in Sites(prog, block)
      /\ expr = ExprAt(prog, block, site) /\ here = PlannedAt(prog, optimize, block, site)
  BY <1>1, Here, AtSite DEF expr
<1>4. v \in Managed
  BY <1>1, <1>2, ScalarOperand
<1>5. /\ Keep = (LiveAt(site) \cap Managed) \ Defs(prog, block, site)
      /\ Due = here.late \ Defs(prog, block, site)
  BY DEF Keep, Due
<1>6. /\ \A w \in Keep \cup Due : env[w] = c => count[c] > 0
      /\ \A j \in Taking : env[expr.args[j].val] = c => count[c] > 0
      /\ \A j \in Temps : held[j] = c => count[c] > 0
  BY <1>1, <1>2, Positive
<1>7. \/ With(prog, block, site, v, "Owned") # {}
      \/ v \in LiveAt(site) \ Defs(prog, block, site)
      \/ v \in here.late \ Defs(prog, block, site)
  <2>1. /\ k \in DOMAIN ExprAt(prog, block, site).args /\ Role(ExprAt(prog, block, site), k) = "Read"
        /\ ExprAt(prog, block, site).args[k].val \in Classify(prog)
    BY <1>3, <1>4 DEF Managed
  <2>2. LET h == PlannedAt(prog, optimize, block, site)
            w == ExprAt(prog, block, site).args[k].val
        IN  \/ With(prog, block, site, w, "Owned") # {}
            \/ w \in After(prog, block)[site] \ Defs(prog, block, site)
            \/ w \in h.late \ Defs(prog, block, site)
    BY <1>3, <2>1, ReadPlan
  <2> QED
    BY <1>3, <2>2 DEF LiveAt
<1>8. CASE v \in Keep \cup Due
  BY <1>6, <1>8
<1>9. CASE With(prog, block, site, v, "Owned") # {}
  <2>1. PICK j \in DOMAIN expr.args : expr.args[j].val = v /\ Role(expr, j) = "Owned"
    BY <1>3, <1>9 DEF With
  <2>2. expr.args[j].via # "call"
    BY <1>3, <2>1 DEF Unnested
  <2>3. expr.args[j].via = "direct"
    <3>1. expr.args[j].via \in {"direct", "field", "call"}
      BY <1>1, AtSite
    <3>2. expr.args[j].via # "field"
      BY <2>1 DEF Role
    <3> QED
      BY <2>2, <3>1, <3>2
  <2>4. CASE j \in pending
    <3>1. j \in Taking
      BY <2>1, <2>4 DEF Taking
    <3> QED
      BY <1>6, <2>1, <3>1
  <2>5. CASE j \notin pending
    <3>1. j \in Temps
      BY <2>1, <2>5 DEF Temps
    <3>2. held[j] = env[expr.args[j].val]
      BY <1>1, <2>1, <2>3, <2>5 DEF OperandsTyped
    <3> QED
      BY <1>6, <2>1, <3>1, <3>2
  <2> QED
    BY <2>4, <2>5
<1> QED
  BY <1>4, <1>5, <1>7, <1>8, <1>9

(* What a read operand gave is the value itself.                           *)
LEMMA ReadGave ==
    ASSUME Inv, Unnested(prog), stage = "eval", NEW k \in DOMAIN expr.args \ pending,
           Role(expr, k) = "Read", expr.args[k].via = "direct"
    PROVE  ~Freed(held[k])
<1>1. held[k] = env[expr.args[k].val]
  BY DEF Inv, Typed, OperandsTyped
<1> QED
  BY <1>1, ReadIsAlive

(* What an operand gave keeps its cell counted.                            *)
LEMMA TempIsAlive ==
    ASSUME Inv, NEW k \in Temps
    PROVE  ~Freed(held[k])
<1>1. SUFFICES ASSUME held[k] \in Cell PROVE count[held[k]] > 0
  <2>1. count[held[k]] > 0 => count[held[k]] # 0
    OBVIOUS
  <2> QED
    BY <2>1 DEF Freed
<1>2. Typed /\ Balance
  BY DEF Inv
<1>3. \A j \in Temps : held[j] = held[k] => count[held[k]] > 0
  BY <1>1, <1>2, Positive
<1> QED
  BY <1>3

(* A retain finds its cell counted.                                        *)
LEMMA RetainIsSafe == Inv /\ RetainOp => (fault' <=> fault)
<1> SUFFICES ASSUME Inv, RetainOp PROVE fault' <=> fault
  OBVIOUS
<1> DEFINE v == Least(Waiting)
<1>1. todo.retain[v] > 0 /\ Touch({env[v]}) /\ Waiting # {}
  BY DEF RetainOp
<1>2. Typed /\ Balance /\ TodoTyped /\ v \in Value
  BY <1>1, WaitingLeast DEF Inv, Typed
<1> HIDE DEF v
<1>3. v \in Keep \cup Due
  BY <1>1, <1>2, RetainedIsClaimed
<1>4. ~Freed(env[v])
  <2>1. SUFFICES ASSUME env[v] \in Cell PROVE count[env[v]] > 0
    <3>1. count[env[v]] > 0 => count[env[v]] # 0
      OBVIOUS
    <3> QED
      BY <3>1 DEF Freed
  <2>2. \A w \in Keep \cup Due : env[w] = env[v] => count[env[v]] > 0
    BY <1>2, <2>1, Positive
  <2> QED
    BY <1>3, <2>2
<1> QED
  BY <1>1, <1>4 DEF Touch

(* So does an operand that loads a field or copies.                        *)
LEMMA OperandIsSafe ==
    ASSUME NEW k \in pending, Inv, Unnested(prog), Operand(k)
    PROVE  fault' <=> fault
<1>1. Typed /\ Placed /\ OperandsTyped /\ stage = "eval"
  BY DEF Inv, Typed, Operand, At
<1>2. k \in DOMAIN expr.args
  BY <1>1 DEF OperandsTyped
<1>3. \/ expr.args[k].via = "direct" /\ UNCHANGED heap
      \/ expr.args[k].via = "field" /\ Touch({env[expr.args[k].val]})
      \/ expr.args[k].via = "call" /\ Follow(<<env[expr.args[k].val]>>)
  BY DEF Operand
<1>4. CASE expr.args[k].via = "direct" /\ UNCHANGED heap
  BY <1>4 DEF heap
<1>5. CASE expr.args[k].via = "field" /\ Touch({env[expr.args[k].val]})
  <2>1. Role(expr, k) = "Read"
    BY <1>5 DEF Role
  <2>2. ~Freed(env[expr.args[k].val])
    BY <1>1, <1>2, <2>1, ReadIsAlive
  <2> QED
    BY <1>5, <2>2 DEF Touch
<1>6. CASE expr.args[k].via = "call" /\ Follow(<<env[expr.args[k].val]>>)
  <2>1. ~Short(<<env[expr.args[k].val]>>)
    BY <1>6, OperandInv
  <2> QED
    BY <1>6, <2>1 DEF Follow
<1> QED
  BY <1>3, <1>4, <1>5, <1>6

(* The instructions and the match that read.                               *)
LEMMA ReadIsSafe ==
    ASSUME Inv, Unnested(prog), Evaluated({"read", "field"})
    PROVE  \A k \in DOMAIN held : ~Freed(held[k])
<1>1. Typed /\ Placed /\ OperandsTyped /\ stage = "eval" /\ pending = {} /\ site # 0
      /\ expr.kind \in {"read", "field"}
  BY DEF Inv, Typed, Evaluated, At, Placed
<1>2. SUFFICES ASSUME NEW k \in DOMAIN held PROVE ~Freed(held[k])
  OBVIOUS
<1>3. k \in DOMAIN expr.args
  BY <1>1 DEF OperandsTyped
<1>4. Role(expr, k) = "Read" /\ expr.args[k].via = "direct"
  <2>1. Named(expr)
    <3>1. CASE AtTerm
      BY <1>1, <3>1, AtSite DEF TermShape
    <3>2. CASE ~AtTerm
      BY <1>1, <3>2, AtSite DEF InstShape
    <3> QED
      BY <3>1, <3>2
  <2> QED
    BY <1>1, <1>3, <2>1 DEF Named, Role
<1>5. k \in DOMAIN expr.args \ pending
  BY <1>1, <1>3
<1> QED
  BY <1>1, <1>4, <1>5, ReadGave

(* Projections and matches read cells that are counted.                    *)
LEMMA ReadersAreSafe ==
    ASSUME Inv, Unnested(prog), Scalar \/ Project \/ Match
    PROVE  fault' <=> fault
<1>1. Evaluated({"read", "field"}) /\ (Touch(Elems(held)) \/ Touch({held[1]}))
  BY DEF Scalar, Project, Match, Evaluated
<1>2. \A k \in DOMAIN held : ~Freed(held[k])
  BY <1>1, ReadIsSafe
<1>3. CASE Touch(Elems(held))
  BY <1>2, <1>3 DEF Touch, Elems
<1>4. CASE Touch({held[1]})
  <2>1. Scalar \/ 1 \in DOMAIN held
    <3>1. Typed /\ Placed /\ OperandsTyped /\ stage = "eval" /\ site # 0
      BY <1>1 DEF Inv, Typed, Evaluated, At, Placed
    <3>2. Project \/ Match => Len(expr.args) = 1
      <4>1. ASSUME Project PROVE Len(expr.args) = 1
        BY <3>1, <4>1, AtSite DEF Project, Evaluated, InstShape
      <4>2. ASSUME Match PROVE Len(expr.args) = 1
        BY <3>1, <4>2, AtSite DEF Match, Evaluated, TermShape
      <4> QED
        BY <4>1, <4>2
    <3>3. DOMAIN held = DOMAIN expr.args /\ DOMAIN expr.args = 1 .. Len(expr.args)
      BY <3>1, AtSite DEF OperandsTyped
    <3> QED
      BY <3>2, <3>3
  <2>2. CASE 1 \in DOMAIN held
    BY <1>2, <1>4, <2>2 DEF Touch
  <2>3. CASE Scalar
    BY <1>2, <2>3 DEF Scalar, Touch, Elems
  <2> QED
    BY <2>1, <2>2, <2>3
<1> QED
  BY <1>1, <1>3, <1>4

(* A call reads cells that are counted.                                    *)
LEMMA CallIsSafe ==
    ASSUME Inv, Unnested(prog), Call
    PROVE  fault' <=> fault
<1>1. /\ fault' = (fault \/ Short(CallArgs) \/ \E k \in DOMAIN held : Freed(held[k]))
      /\ Evaluated({"call", "closure"}) /\ ~AtTerm
  BY DEF Call, CallArgs
<1>2. ~Short(CallArgs)
  BY CallInv
<1>3. ASSUME NEW k \in DOMAIN held PROVE ~Freed(held[k])
  <2>1. /\ stage = "eval" /\ pending = {} /\ expr.kind \in {"call", "closure"} /\ InstShape(inst) /\ expr = inst.expr
        /\ Temps = {j \in DOMAIN expr.args : expr.args[j].via # "direct" \/ Role(expr, j) = "Owned"}
        /\ held \in [DOMAIN expr.args -> Ref]
    BY <1>1, AtInst
  <2>2. k \in DOMAIN expr.args
    BY <2>1
  <2>3. CASE k \in Temps
    BY <2>3, TempIsAlive
  <2>4. CASE k \notin Temps
    <3>1. expr.kind = "closure" /\ k = 1
      BY <2>1, <2>2, <2>4, AllTemps
    <3>2. Role(expr, k) = "Read" /\ expr.args[k].via = "direct"
      BY <2>1, <2>2, <2>4, <3>1 DEF Role
    <3>3. k \in DOMAIN expr.args \ pending
      BY <2>1, <2>2
    <3> QED
      BY <2>1, <3>2, <3>3, ReadGave
  <2> QED
    BY <2>3, <2>4
<1> QED
  BY <1>1, <1>2, <1>3

Safe == Inv /\ ~fault

(* No step reads a freed cell.                                             *)
LEMMA StepIsSafe ==
    ASSUME \A p \in Programs : Unnested(p), Safe, [Next]_vars
    PROVE  Safe'
<1>1. Inv /\ ~fault /\ Inv'
  BY NextInv DEF Safe
<1>2. Unnested(prog)
  BY <1>1 DEF Inv, Typed, Placed
<1>3. SUFFICES fault' <=> fault
  BY <1>1 DEF Safe
<1>4. CASE Reap
  BY <1>1, <1>4, ReapInv DEF Reap, Follow
<1>5. CASE RetainOp
  BY <1>1, <1>5, RetainIsSafe
<1>6. CASE ReleaseOp
  <2>1. ~Short(<<env[Least(Waiting)]>>)
    BY <1>1, <1>6, ReleaseInv
  <2> QED
    BY <1>6, <2>1 DEF ReleaseOp, Drop, Follow
<1>7. ASSUME NEW k \in pending, Operand(k) PROVE fault' <=> fault
  BY <1>1, <1>2, <1>7, OperandIsSafe
<1>8. CASE Scalar \/ Project \/ Match
  BY <1>1, <1>2, <1>8, ReadersAreSafe
<1>9. CASE Call
  BY <1>1, <1>2, <1>9, CallIsSafe
<1>10. CASE CallOrPerform
  <2>1. ~Short(held)
    BY <1>1, <1>10, CallOrPerformInv
  <2> QED
    BY <1>10, <2>1 DEF CallOrPerform, Follow
<1>11. CASE EnterBlock \/ StartSite \/ StartEval \/ NextSite \/ Finish \/ TakeEdge \/ CrossEdge
  BY <1>11 DEF EnterBlock, StartSite, StartEval, NextSite, Finish, TakeEdge, CrossEdge, heap
<1>12. CASE Alias \/ LoadPooled \/ Make \/ Returning \/ Goto \/ Branch
  BY <1>12 DEF Alias, LoadPooled, Make, Returning, Goto, Branch, heap
<1>13. CASE Stopped \/ UNCHANGED vars
  BY <1>13 DEF Stopped, vars, heap
<1> QED
  BY <1>4, <1>5, <1>6, <1>7, <1>8, <1>9, <1>10, <1>11, <1>12, <1>13 DEF Next

(* In functions that nest no owned call among a site's operands, no step   *)
(* of generated code reads or counts a cell that was freed. The nested     *)
(* case is the finding of the run cfgarc_nested.                           *)
THEOREM NothingFreedIsFollowed ==
    ASSUME \A p \in Programs : Unnested(p)
    PROVE  Spec => []NoUseAfterFree
<1>1. Init => Safe
  BY InitInv DEF Init, Safe
<1>2. Safe /\ [Next]_vars => Safe'
  BY StepIsSafe
<1>3. Safe => NoUseAfterFree
  BY DEF Safe, NoUseAfterFree
<1> QED
  BY <1>1, <1>2, <1>3, PTL DEF Spec

-----------------------------------------------------------------------------
(* Sole ownership: the second inductive invariant, for optimized plans.    *)

(* Two members that name a cell count twice.                               *)
LEMMA NamesTwo ==
    ASSUME NEW S, IsFiniteSet(S), NEW x \in S, NEW y \in S, x # y, NEW f, NEW c, f[x] = c, f[y] = c
    PROVE  Names(S, f, c) > 1
<1> DEFINE R == S \ {x}
<1>1. Names(R, f, c) = Names(S, f, c) - (IF f[x] = c THEN 1 ELSE 0)
  BY NamesRemove
<1>2. IsFiniteSet(R) /\ y \in R
  BY FS_RemoveElement
<1> HIDE DEF R
<1>3. Names(R, f, c) > 0 /\ Names(R, f, c) \in Nat /\ Names(S, f, c) \in Nat
  BY <1>2, NamesFinite
<1> QED
  BY <1>1, <1>3

(* A cell that is counted once has one owner.                              *)
LEMMA OneOwner ==
    ASSUME Inv, NEW c \in Cell, count[c] = 1
    PROVE  /\ \A v, w \in Keep \cup Due : env[v] = c /\ env[w] = c => v = w /\ ~(v \in Keep /\ v \in Due)
           /\ \A v \in Keep \cup Due, k \in Taking : ~(env[v] = c /\ env[expr.args[k].val] = c)
           /\ \A v \in Keep \cup Due, k \in Temps : ~(env[v] = c /\ held[k] = c)
           /\ \A j, k \in Taking : env[expr.args[j].val] = c /\ env[expr.args[k].val] = c => j = k
           /\ \A j, k \in Temps : held[j] = c /\ held[k] = c => j = k
           /\ \A j \in Taking, k \in Temps : ~(env[expr.args[j].val] = c /\ held[k] = c)
           /\ \/ others[c] = 0 /\ \A f \in Cell \X Index : kids[f[1]][f[2]] # c
              \/ /\ \A v \in Keep \cup Due : env[v] # c
                 /\ \A k \in Taking : env[expr.args[k].val] # c
                 /\ \A k \in Temps : held[k] # c
<1> DEFINE nK == Names(Keep, env, c)
           nD == Names(Due, env, c)
           nT == Names(Taking, Operands, c)
           nC == Names(Copies, Copied, c)
           nM == Names(Temps, held, c)
           nF == FieldRefs(c)
<1>1. Typed /\ Balance /\ Placed /\ TodoTyped /\ OperandsTyped
  BY DEF Inv, Typed
<1>2. nK \in Nat /\ nD \in Nat /\ nT \in Nat /\ nC \in Nat /\ nM \in Nat
  BY <1>1, ClaimNumbers
<1>3. others[c] \in Nat /\ nF \in Nat /\ 1 = others[c] + nF + (nK + nD + nT + nC + nM)
  BY <1>1, Positive DEF Claims
<1>4. /\ IsFiniteSet(Keep) /\ IsFiniteSet(Due) /\ IsFiniteSet(Taking) /\ IsFiniteSet(Temps)
  BY <1>1, ClaimSets
<1>5. \A v \in Keep : env[v] = c => nK > 0
  BY <1>4, NamesFinite
<1>6. \A v \in Due : env[v] = c => nD > 0
  BY <1>4, NamesFinite
<1>7. \A k \in Taking : env[expr.args[k].val] = c => nT > 0
  <2>1. \A k \in Taking : Operands[k] = env[expr.args[k].val]
    BY <1>1 DEF Operands, Taking, OperandsTyped
  <2>2. \A k \in Taking : Operands[k] = c => nT > 0
    BY <1>4, NamesFinite
  <2> QED
    BY <2>1, <2>2
<1>8. \A k \in Temps : held[k] = c => nM > 0
  BY <1>4, NamesFinite
<1>9. \A v, w \in Keep : env[v] = c /\ env[w] = c /\ v # w => nK > 1
  BY <1>4, NamesTwo
<1>10. \A v, w \in Due : env[v] = c /\ env[w] = c /\ v # w => nD > 1
  BY <1>4, NamesTwo
<1>11. \A j, k \in Taking : env[expr.args[j].val] = c /\ env[expr.args[k].val] = c /\ j # k => nT > 1
  <2>1. \A k \in Taking : Operands[k] = env[expr.args[k].val]
    BY <1>1 DEF Operands, Taking, OperandsTyped
  <2>2. \A j, k \in Taking : Operands[j] = c /\ Operands[k] = c /\ j # k => nT > 1
    BY <1>4, NamesTwo
  <2> QED
    BY <2>1, <2>2
<1>12. \A j, k \in Temps : held[j] = c /\ held[k] = c /\ j # k => nM > 1
  BY <1>4, NamesTwo
<1>13. \A f \in Cell \X Index : kids[f[1]][f[2]] = c => nF > 0
  <2>1. IsFiniteSet(Cell \X Index) /\ nF = Names(Cell \X Index, Fields, c)
    BY Cells, FieldNames
  <2>2. \A f \in Cell \X Index : Fields[f] = c => nF > 0
    BY <2>1, NamesFinite
  <2> QED
    BY <2>2 DEF Fields
<1> HIDE DEF nK, nD, nT, nC, nM, nF
<1>14. ~(nK > 0 /\ nD > 0) /\ ~(nK > 1) /\ ~(nD > 1) /\ ~(nT > 1) /\ ~(nM > 1)
  BY <1>2, <1>3
<1>15. ~(nK > 0 /\ nT > 0) /\ ~(nD > 0 /\ nT > 0) /\ ~(nK > 0 /\ nM > 0) /\ ~(nD > 0 /\ nM > 0)
       /\ ~(nT > 0 /\ nM > 0)
  BY <1>2, <1>3
<1>16. (others[c] = 0 /\ ~(nF > 0)) \/ (~(nK > 0) /\ ~(nD > 0) /\ ~(nT > 0) /\ ~(nM > 0))
  BY <1>2, <1>3
<1>17. \A v, w \in Keep \cup Due : env[v] = c /\ env[w] = c => v = w /\ ~(v \in Keep /\ v \in Due)
  BY <1>5, <1>6, <1>9, <1>10, <1>14
<1>18. /\ \A v \in Keep \cup Due, k \in Taking : ~(env[v] = c /\ env[expr.args[k].val] = c)
       /\ \A v \in Keep \cup Due, k \in Temps : ~(env[v] = c /\ held[k] = c)
       /\ \A j \in Taking, k \in Temps : ~(env[expr.args[j].val] = c /\ held[k] = c)
  BY <1>5, <1>6, <1>7, <1>8, <1>15
<1>19. /\ \A j, k \in Taking : env[expr.args[j].val] = c /\ env[expr.args[k].val] = c => j = k
       /\ \A j, k \in Temps : held[j] = c /\ held[k] = c => j = k
  BY <1>11, <1>12, <1>14
<1>20. \/ others[c] = 0 /\ \A f \in Cell \X Index : kids[f[1]][f[2]] # c
       \/ /\ \A v \in Keep \cup Due : env[v] # c
          /\ \A k \in Taking : env[expr.args[k].val] # c
          /\ \A k \in Temps : held[k] # c
  BY <1>5, <1>6, <1>7, <1>8, <1>13, <1>16
<1> QED
  BY <1>17, <1>18, <1>19, <1>20

-----------------------------------------------------------------------------
(* Values that the uniqueness query calls unique where they are used.      *)
Unshared == {v \in SolveOrigins(prog) : UsedOnce(prog, v)}

(* Operands that take the reference of the value they name and are still   *)
(* to give it to their site.                                               *)
Consuming ==
    IF stage = "eval" THEN {k \in DOMAIN expr.args : /\ Role(expr, k) = "Owned"
                                                     /\ k \in pending \/ expr.args[k].via = "direct"}
    ELSE {}

Claimed == Keep \cup Due \cup {expr.args[k].val : k \in Consuming}

Only(c) == c \in Cell /\ count[c] = 1

(* From its definition to its use, such a value is the only reference to   *)
(* its cell.                                                               *)
Sole == optimize => \A v \in Claimed \cap Unshared : Only(env[v])

(* An operand that consumes a value is a claim on it.                      *)
LEMMA ConsumingHolds ==
    ASSUME Inv, NEW k \in Consuming
    PROVE  /\ stage = "eval" /\ k \in DOMAIN expr.args
           /\ \/ k \in Taking
              \/ k \in Temps /\ held[k] = env[expr.args[k].val] /\ expr.args[k].via = "direct" /\ k \notin pending
<1>1. stage = "eval" /\ k \in DOMAIN expr.args /\ Role(expr, k) = "Owned"
      /\ (k \in pending \/ expr.args[k].via = "direct")
  BY DEF Consuming
<1>2. CASE k \in pending
  BY <1>1, <1>2 DEF Taking
<1>3. CASE k \notin pending
  <2>1. k \in Temps
    BY <1>1, <1>3 DEF Temps
  <2>2. held[k] = env[expr.args[k].val]
    BY <1>1, <1>3 DEF Inv, Typed, OperandsTyped
  <2> QED
    BY <1>1, <1>3, <2>1, <2>2
<1> QED
  BY <1>1, <1>2, <1>3

(* What the claim of such a value excludes.                                *)
LEMMA SoleFacts ==
    ASSUME Inv, Sole, optimize, NEW w \in Claimed, w \in Unshared
    PROVE  /\ env[w] \in Cell /\ count[env[w]] = 1 /\ env[w] <= born
           /\ \A f \in Cell \X Index : kids[f[1]][f[2]] # env[w]
           /\ others[env[w]] = 0
<1>1. env[w] \in Cell /\ count[env[w]] = 1
  BY DEF Sole, Only
<1>2. env[w] <= born
  <2>1. Typed /\ Balance
    BY DEF Inv
  <2> QED
    BY <1>1, <2>1, Positive
<1>3. \/ \A f \in Cell \X Index : kids[f[1]][f[2]] # env[w] /\ others[env[w]] = 0
      \/ /\ \A v \in Keep \cup Due : env[v] # env[w]
         /\ \A k \in Taking : env[expr.args[k].val] # env[w]
         /\ \A k \in Temps : held[k] # env[w]
  BY <1>1, OneOwner
<1>4. CASE w \in Keep \cup Due
  BY <1>1, <1>2, <1>4, OneOwner
<1>5. CASE w \notin Keep \cup Due
  <2>1. PICK k \in Consuming : expr.args[k].val = w
    BY <1>5 DEF Claimed
  <2>2. k \in Taking \/ (k \in Temps /\ held[k] = env[w])
    BY <2>1, ConsumingHolds
  <2> QED
    BY <1>1, <1>2, <2>1, <2>2, OneOwner
<1> QED
  BY <1>4, <1>5

(* Sole ownership stays when the claims on fresh values are among the old  *)
(* ones and their cells are still counted once, or are newly theirs.       *)
LEMMA SoleStays ==
    ASSUME Sole, prog' = prog, optimize' = optimize,
           \A w \in Claimed' \cap Unshared :
              optimize => \/ w \in Claimed /\ env'[w] = env[w] /\ (Only(env[w]) => count'[env[w]] = 1)
                          \/ env'[w] \in Cell /\ count'[env'[w]] = 1
    PROVE  Sole'
<1>1. Unshared' = Unshared
  BY DEF Unshared
<1>2. SUFFICES ASSUME optimize, NEW w \in Claimed' \cap Unshared PROVE env'[w] \in Cell /\ count'[env'[w]] = 1
  BY <1>1 DEF Sole, Only
<1> QED
  BY <1>2 DEF Sole, Only

(* What does not occur occurs no times.                                    *)
LEMMA OccursNone ==
    ASSUME NEW refs, NEW c, \A k \in DOMAIN refs : refs[k] # c
    PROVE  Occurs(refs, c) = 0
<1>1. {k \in DOMAIN refs : refs[k] = c} = {}
  OBVIOUS
<1> QED
  BY <1>1, FS_EmptySet DEF Occurs

(* A call, or a release, leaves alone a cell that it is not given.         *)
LEMMA DroppedAway ==
    ASSUME NEW c \in Cell, count[c] = 1, NEW refs, \A k \in DOMAIN refs : refs[k] # c
    PROVE  Dropped(refs)[c] = 1
<1>1. Occurs(refs, c) = 0
  BY OccursNone
<1>2. Dropped(refs)[c] = IF count[c] < Occurs(refs, c) THEN 0 ELSE count[c] - Occurs(refs, c)
  BY DEF Dropped
<1>3. Dropped(refs)[c] = IF 1 < 0 THEN 0 ELSE 1 - 0
  BY <1>1, <1>2
<1> QED
  BY <1>3

(* A call leaves alone a cell it is not given.                             *)
LEMMA CalledAway ==
    ASSUME NEW c \in Cell, count[c] = 1, NEW args, \A k \in DOMAIN args : args[k] # c,
           NEW res, Called(args, res)
    PROVE  count'[c] = 1
<1>1. CASE Allocate(<<>>, Dropped(args))
  <2>1. Dropped(args)[c] = 1
    BY DroppedAway
  <2>2. count' = [Dropped(args) EXCEPT ![born + 1] = 1]
    BY <1>1 DEF Allocate
  <2>3. c \in DOMAIN Dropped(args)
    BY DEF Dropped
  <2> QED
    BY <2>1, <2>2, <2>3
<1>2. ASSUME NEW k \in DOMAIN args, count' = Dropped([args EXCEPT ![k] = Unit]) PROVE count'[c] = 1
  <2>1. \A j \in DOMAIN [args EXCEPT ![k] = Unit] : [args EXCEPT ![k] = Unit][j] # c
    BY Cells
  <2>2. Dropped([args EXCEPT ![k] = Unit])[c] = 1
    BY <2>1, DroppedAway
  <2> QED
    BY <1>2, <2>2
<1> QED
  BY <1>1, <1>2 DEF Called

(* A retain of other cells leaves a cell alone.                            *)
LEMMA RetainedAway ==
    ASSUME NEW c \in Cell, count[c] = 1, NEW refs, \A k \in DOMAIN refs : refs[k] # c
    PROVE  Retained(refs)[c] = 1
<1>1. Occurs(refs, c) = 0
  BY OccursNone
<1> QED
  BY <1>1 DEF Retained

(* What is fresh and used once is managed.                                 *)
LEMMA UnsharedIsManaged ==
    ASSUME Inv, NEW v \in Unshared
    PROVE  v \in Managed /\ v \in Value /\ UsedOnce(prog, v) /\ FreshBy(prog, v, SolveOrigins(prog))
<1>1. Shaped(prog) /\ Managed \subseteq Value
  BY Here DEF Inv, Typed
<1> QED
  BY <1>1, FreshRules DEF Unshared, Managed

(* Optimized plans release nothing before a site, and do not retain what   *)
(* is used once.                                                           *)
LEMMA UnsharedPlan ==
    ASSUME Inv, optimize, site # 0
    PROVE  here.early = {} /\ \A v \in Unshared : here.retain[v] = 0
<1>1. /\ Shaped(prog) /\ Acyclic(prog) /\ block \in Blocks(prog) /\ site \in Sites(prog, block)
      /\ here = PlannedAt(prog, optimize, block, site) /\ here.early \subseteq Value
  BY Here, AtSite, HereTypes DEF Inv, Typed
<1>2. ASSUME NEW v \in here.early PROVE FALSE
  <2>1. v \in Value
    BY <1>1, <1>2
  <2>2. SiteRule(prog, optimize, block, site, v, OwnedUses(prog, block, site, v), ReadUses(prog, block, site, v))
    BY <1>1, <2>1, SitePlan
  <2> QED
    BY <1>1, <1>2, <2>2 DEF SiteRule
<1>3. ASSUME NEW v \in Unshared PROVE here.retain[v] = 0
  <2>1. v \in Value /\ UsedOnce(prog, v)
    BY <1>3, UnsharedIsManaged
  <2> DEFINE owned == OwnedUses(prog, block, site, v)
             W == With(prog, block, site, v, "Owned")
  <2>2. SiteRule(prog, optimize, block, site, v, owned, ReadUses(prog, block, site, v))
    BY <1>1, <2>1, SitePlan
  <2>3. owned \in Nat /\ (owned > 0 => owned = Cardinality(W) /\ W # {})
    <3>1. IsFiniteSet(W) /\ Cardinality(W) \in Nat /\ (Cardinality(W) = 0 <=> W = {})
      BY <1>1, WithFinite
    <3> HIDE DEF W
    <3> QED
      BY <3>1 DEF OwnedUses, W
  <2>4. ASSUME W # {} PROVE v \notin After(prog, block)[site] /\ Cardinality(W) = 1
    <3>1. PICK k \in W : TRUE
      BY <2>4
    <3>2. k \in DOMAIN ExprAt(prog, block, site).args /\ ExprAt(prog, block, site).args[k].val = v
      BY <3>1 DEF With
    <3>3. /\ v \notin After(prog, block)[site]
          /\ \A j \in DOMAIN ExprAt(prog, block, site).args : ExprAt(prog, block, site).args[j].val = v => j = k
      BY <1>1, <2>1, <3>2, DeadAfterOnlyUse
    <3>4. W = {k}
      BY <3>1, <3>3 DEF With
    <3>5. Cardinality({k}) = 1
      BY FS_Singleton
    <3> QED
      BY <3>3, <3>4, <3>5
  <2> HIDE DEF owned, W
  <2>5. PlannedAt(prog, optimize, block, site).retain[v] =
           IF v \in Classify(prog) /\ owned > 0
             THEN IF optimize /\ ~(v \in After(prog, block)[site]) THEN owned - 1 ELSE owned
             ELSE 0
    BY <2>2 DEF SiteRule
  <2>6. owned > 0 => owned = 1 /\ v \notin After(prog, block)[site]
    BY <2>3, <2>4
  <2>7. PlannedAt(prog, optimize, block, site).retain[v] = 0
    <3>1. CASE owned > 0
      <4>1. owned - 1 = 0
        BY <2>6, <3>1
      <4> QED
        BY <2>5, <2>6, <3>1, <4>1
    <3>2. CASE ~(owned > 0)
      BY <2>5, <3>2
    <3> QED
      BY <3>1, <3>2
  <2> QED
    BY <1>1, <2>7
<1> QED
  BY <1>2, <1>3

-----------------------------------------------------------------------------
(* Steps that only move control.                                           *)
LEMMA ControlSole ==
    ASSUME Inv, Sole, prog' = prog, optimize' = optimize, env' = env, count' = count,
           optimize => Claimed' \cap Unshared \subseteq Claimed
    PROVE  Sole'
<1>1. \A w \in Claimed' \cap Unshared :
         optimize => \/ w \in Claimed /\ env'[w] = env[w] /\ (Only(env[w]) => count'[env[w]] = 1)
                     \/ env'[w] \in Cell /\ count'[env'[w]] = 1
  BY DEF Only
<1> QED
  BY <1>1, SoleStays

(* Entering a block.                                                       *)
LEMMA EnterBlockSole == Inv /\ Sole /\ EnterBlock => Sole'
<1> SUFFICES ASSUME Inv, Sole, EnterBlock PROVE Sole'
  OBVIOUS
<1>1. /\ stage = "entry" /\ todo.release = {} /\ site = 0
      /\ stage' = "site" /\ site' = 1 /\ todo' = todo /\ env' = env /\ count' = count
      /\ block' = block /\ prog' = prog /\ optimize' = optimize
  BY Quiet DEF EnterBlock, planned, At, Inv, Typed, Placed, heap
<1>2. Claimed' \subseteq Claimed
  BY <1>1 DEF Claimed, Keep, Due, Consuming, LiveAt, Managed
<1> QED
  BY <1>1, <1>2, ControlSole

(* Moving to the next site.                                                *)
LEMMA NextSiteSole == Inv /\ Sole /\ NextSite => Sole'
<1> SUFFICES ASSUME Inv, Sole, NextSite PROVE Sole'
  OBVIOUS
<1>1. /\ stage = "post" /\ ~AtTerm /\ todo.release = {} /\ site \in Nat
      /\ stage' = "site" /\ site' = site + 1 /\ todo' = todo /\ env' = env /\ count' = count
      /\ block' = block /\ prog' = prog /\ optimize' = optimize
  BY Quiet, Here DEF NextSite, planned, At, Inv, Typed, heap
<1>2. Keep' = Keep
  <2>1. (site + 1) - 1 = site
    BY <1>1
  <2> QED
    BY <1>1, <2>1 DEF Keep, LiveAt, Managed
<1>3. Claimed' \subseteq Claimed
  BY <1>1, <1>2 DEF Claimed, Due, Consuming
<1> QED
  BY <1>1, <1>3, ControlSole

(* Beginning a site.                                                       *)
LEMMA StartSiteSole == Inv /\ Sole /\ StartSite => Sole'
<1> SUFFICES ASSUME Inv, Sole, StartSite PROVE Sole'
  OBVIOUS
<1>1. /\ stage = "site" /\ site # 0
      /\ stage' = "pre" /\ site' = site /\ env' = env /\ count' = count
      /\ todo' = [retain |-> here.retain, release |-> here.early]
      /\ block' = block /\ prog' = prog /\ plan' = plan /\ optimize' = optimize
  BY DEF StartSite, planned, At, Inv, Typed, Placed, heap
<1>2. ASSUME optimize PROVE Claimed' \subseteq Claimed
  <2>1. here.early = {}
    BY <1>1, <1>2, UnsharedPlan
  <2>2. Keep = LiveAt(site - 1) \cap Managed /\ Keep' \subseteq Keep
    BY <1>1 DEF Keep, LiveAt, Managed
  <2>3. Due' = {} /\ Consuming' = {}
    BY <1>1, <2>1 DEF Due, Consuming
  <2> QED
    BY <2>2, <2>3 DEF Claimed
<1> QED
  BY <1>1, <1>2, ControlSole

(* Beginning its evaluation.                                               *)
LEMMA StartEvalSole == Inv /\ Sole /\ StartEval => Sole'
<1> SUFFICES ASSUME Inv, Sole, StartEval PROVE Sole'
  OBVIOUS
<1>1. /\ stage = "pre" /\ site # 0 /\ Placed
      /\ stage' = "eval" /\ site' = site /\ env' = env /\ count' = count
      /\ block' = block /\ prog' = prog /\ plan' = plan /\ optimize' = optimize
  BY DEF StartEval, planned, At, Inv, Typed, Placed, heap
<1>2. ASSUME optimize, NEW w \in Claimed' \cap Unshared PROVE w \in Keep
  <2>1. here.early = {} /\ w \in Managed /\ w \in Value
    BY <1>1, <1>2, UnsharedPlan, UnsharedIsManaged
  <2>2. Keep = LiveAt(site - 1) \cap Managed
    BY <1>1, <2>1 DEF Keep
  <2>3. /\ Keep' = (LiveAt(site) \cap Managed) \ Defs(prog, block, site)
        /\ Due' = here.late \ Defs(prog, block, site)
        /\ Consuming' \subseteq DOMAIN expr.args /\ expr' = expr
    BY <1>1 DEF Keep, Due, Consuming, LiveAt, Managed, here, expr
  <2>4. /\ Shaped(prog) /\ block \in Blocks(prog) /\ site \in Sites(prog, block)
        /\ here = PlannedAt(prog, optimize, block, site)
    BY <1>1, Here, AtSite
  <2>5. LiveAt(site - 1) = (LiveAt(site) \ Defs(prog, block, site)) \cup Uses(prog, block, site)
    BY <2>4, ScanStep DEF LiveAt
  <2>6. CASE w \in Keep'
    BY <2>1, <2>2, <2>3, <2>5, <2>6
  <2>7. CASE w \in Due'
    <3>1. w \in Uses(prog, block, site)
      BY <2>1, <2>3, <2>4, <2>7, SiteReleases
    <3> QED
      BY <2>1, <2>2, <2>5, <3>1
  <2>8. CASE \E k \in Consuming' : expr.args[k].val = w
    <3>1. w \in Uses(prog, block, site)
      BY <1>1, <2>3, <2>8, AtSite
    <3> QED
      BY <2>1, <2>2, <2>5, <3>1
  <2>9. w \in Claimed'
    BY <1>2
  <2> QED
    BY <2>3, <2>6, <2>7, <2>8, <2>9 DEF Claimed
<1>3. optimize => Claimed' \cap Unshared \subseteq Claimed
  BY <1>2 DEF Claimed
<1> QED
  BY <1>1, <1>3, ControlSole

(* Taking an edge.                                                         *)
LEMMA TakeEdgeSole == Inv /\ Sole /\ TakeEdge => Sole'
<1> SUFFICES ASSUME Inv, Sole, TakeEdge PROVE Sole'
  OBVIOUS
<1>1. /\ stage = "post" /\ AtTerm /\ ~Returns
      /\ stage' = "edge" /\ site' = site /\ env' = env /\ count' = count /\ edge' = edge
      /\ todo' = Releases(plan.drop[block][edge])
      /\ block' = block /\ prog' = prog /\ plan' = plan /\ optimize' = optimize
  BY DEF TakeEdge, planned, At, heap, Returns
<1>2. Keep = Expected(plan, term.succ[edge]) \cup plan.drop[block][edge] /\ Keep' = Expected(plan, term.succ[edge])
  BY <1>1 DEF Keep, term
<1>3. Due' = plan.drop[block][edge] /\ Consuming' = {}
  BY <1>1 DEF Due, Consuming, Releases
<1>4. Claimed' \subseteq Claimed
  BY <1>2, <1>3 DEF Claimed
<1> QED
  BY <1>1, <1>4, ControlSole

(* Crossing it.                                                            *)
LEMMA CrossEdgeSole == Inv /\ Sole /\ CrossEdge => Sole'
<1> SUFFICES ASSUME Inv, Sole, CrossEdge PROVE Sole'
  OBVIOUS
<1> DEFINE t == term.succ[edge]
<1>1. /\ stage = "edge" /\ AtTerm /\ Placed
      /\ stage' = "entry" /\ site' = 0 /\ env' = env /\ count' = count
      /\ todo' = Releases(plan.entry[t]) /\ block' = t
      /\ prog' = prog /\ plan' = plan /\ optimize' = optimize
  BY DEF CrossEdge, planned, At, heap, Inv, Typed, Placed
<1>2. t \in Blocks(prog)
  BY <1>1, OnEdge DEF Placed
<1> HIDE DEF t
<1>3. plan.after[t] = After(prog, t) /\ plan.managed = Managed
  BY <1>1, <1>2, Here
<1>4. Keep = Expected(plan, t)
  BY <1>1 DEF Keep, t
<1>5. Keep' = After(prog, t)[0] \cap Managed /\ Due' = plan.entry[t] /\ Consuming' = {}
  BY <1>1 DEF Keep, Due, Consuming, LiveAt, Managed, Releases
<1>6. Claimed' \subseteq Claimed
  BY <1>3, <1>4, <1>5 DEF Claimed, Expected
<1> QED
  BY <1>1, <1>6, ControlSole

(* Returning.                                                              *)
LEMMA FinishSole == Inv /\ Sole /\ Finish => Sole'
<1> SUFFICES ASSUME Inv, Sole, Finish PROVE Sole'
  OBVIOUS
<1>1. /\ stage = "post" /\ todo.release = {}
      /\ stage' = "done" /\ env' = env /\ count' = count /\ todo' = todo
      /\ prog' = prog /\ optimize' = optimize
  BY Quiet DEF Finish, planned, At, heap, Inv, Typed
<1>2. Claimed' = {}
  BY <1>1 DEF Claimed, Keep, Due, Consuming
<1> QED
  BY <1>1, <1>2, ControlSole

(* While retains or releases wait, no operand is under way.                *)
LEMMA WaitingStage ==
    ASSUME Inv, Waiting # {}
    PROVE  /\ stage # "eval" /\ stage \in Stages /\ Due = todo.release /\ Consuming = {}
           /\ Least(Waiting) \in Value
<1>1. Placed /\ TodoTyped
  BY DEF Inv, Typed
<1>2. Least(Waiting) \in Waiting /\ Waiting \subseteq Value
  BY <1>1, WaitingLeast
<1>3. stage # "eval"
  <2>1. SUFFICES ASSUME stage = "eval" PROVE FALSE
    OBVIOUS
  <2>2. todo.release = {} /\ \A v \in Value : todo.retain[v] = 0
    BY <1>1, <2>1 DEF TodoTyped, Releasing
  <2>3. Waiting = {}
    BY <2>2 DEF Waiting
  <2> QED
    BY <2>3
<1> QED
  BY <1>1, <1>2, <1>3 DEF Placed, Due, Consuming

(* A retain is never of a value used once.                                 *)
LEMMA RetainSole == Inv /\ Sole /\ RetainOp => Sole'
<1> SUFFICES ASSUME Inv, Sole, RetainOp PROVE Sole'
  OBVIOUS
<1> DEFINE v == Least(Waiting)
<1>1. /\ Waiting # {} /\ todo.retain[v] > 0 /\ count' = Retained(<<env[v]>>)
      /\ todo' = [todo EXCEPT !.retain[v] = @ - 1]
      /\ prog' = prog /\ optimize' = optimize /\ plan' = plan /\ env' = env
      /\ block' = block /\ site' = site /\ stage' = stage /\ edge' = edge
  BY DEF RetainOp, planned, control
<1>2. stage # "eval" /\ Due = todo.release /\ Consuming = {} /\ v \in Value
  BY <1>1, WaitingStage
<1> HIDE DEF v
<1>3. todo.retain[v] # 0 /\ todo'.release = todo.release
  <2>1. todo \in [retain : [Value -> Nat], release : SUBSET Value]
    BY DEF Inv, Typed, TodoTyped
  <2> QED
    BY <1>1, <1>2, <2>1
<1>4. Keep' = Keep /\ Due' = Due /\ Consuming' = {}
  <2>1. Keep' = Keep
    BY <1>1 DEF Keep, LiveAt, Managed, here, term, AtTerm, Returns
  <2> QED
    BY <1>1, <1>2, <1>3, <2>1 DEF Due, Consuming
<1>5. v \in Keep \cup Due /\ stage = "pre"
  BY <1>1, <1>2, RetainedIsClaimed
<1>6. ASSUME optimize, NEW w \in Claimed' \cap Unshared
      PROVE  w \in Claimed /\ env'[w] = env[w] /\ count'[env[w]] = 1
  <2>1. w \in Keep \cup Due
    BY <1>4, <1>6 DEF Claimed
  <2>2. w \in Claimed
    BY <2>1 DEF Claimed
  <2>3. env[w] \in Cell /\ count[env[w]] = 1
    BY <1>6, <2>2, SoleFacts
  <2>4. env[v] # env[w]
    <3>1. SUFFICES ASSUME env[v] = env[w] PROVE FALSE
      OBVIOUS
    <3>2. v = w
      BY <1>5, <2>1, <2>3, <3>1, OneOwner
    <3>3. here.retain[w] = 0
      BY <1>5, <1>6, UnsharedPlan DEF Inv, Typed, Placed
    <3>4. /\ todo.retain[v] <= here.retain[v] /\ todo.retain[v] \in Nat
      BY <1>2, <1>5 DEF Inv, Typed, TodoTyped
    <3> QED
      BY <1>3, <3>2, <3>3, <3>4
  <2>5. Retained(<<env[v]>>)[env[w]] = 1
    <3>1. \A k \in DOMAIN <<env[v]>> : <<env[v]>>[k] # env[w]
      BY <2>4
    <3> QED
      BY <2>3, <3>1, RetainedAway
  <2> QED
    BY <1>1, <2>2, <2>5
<1> QED
  BY <1>1, <1>6, SoleStays

(* A release of another value leaves the cell alone.                       *)
LEMMA ReleaseSole == Inv /\ Sole /\ ReleaseOp => Sole'
<1> SUFFICES ASSUME Inv, Sole, ReleaseOp PROVE Sole'
  OBVIOUS
<1> DEFINE v == Least(Waiting)
<1>1. /\ Waiting # {} /\ todo.retain[v] = 0 /\ count' = Dropped(<<env[v]>>)
      /\ todo' = [todo EXCEPT !.release = @ \ {v}]
      /\ prog' = prog /\ optimize' = optimize /\ plan' = plan /\ env' = env
      /\ block' = block /\ site' = site /\ stage' = stage /\ edge' = edge
  BY DEF ReleaseOp, Drop, planned, control
<1>2. stage # "eval" /\ Due = todo.release /\ Consuming = {} /\ v \in Value /\ v \in Waiting
  <2>1. Least(Waiting) \in Waiting
    BY <1>1, WaitingLeast DEF Inv, Typed
  <2> QED
    BY <1>1, <2>1, WaitingStage
<1> HIDE DEF v
<1>3. todo'.release = todo.release \ {v} /\ v \in todo.release
  <2>1. todo \in [retain : [Value -> Nat], release : SUBSET Value]
    BY DEF Inv, Typed, TodoTyped
  <2> QED
    BY <1>1, <1>2, <2>1 DEF Waiting
<1>4. Keep' = Keep /\ Due' = Due \ {v} /\ Consuming' = {}
  <2>1. Keep' = Keep
    BY <1>1 DEF Keep, LiveAt, Managed, here, term, AtTerm, Returns
  <2> QED
    BY <1>1, <1>2, <1>3, <2>1 DEF Due, Consuming
<1>5. ASSUME optimize, NEW w \in Claimed' \cap Unshared
      PROVE  w \in Claimed /\ env'[w] = env[w] /\ count'[env[w]] = 1
  <2>1. w \in Keep \cup Due /\ (w = v => w \in Keep)
    BY <1>4, <1>5 DEF Claimed
  <2>2. w \in Claimed
    BY <2>1 DEF Claimed
  <2>3. env[w] \in Cell /\ count[env[w]] = 1
    BY <1>5, <2>2, SoleFacts
  <2>4. env[v] # env[w]
    <3>1. SUFFICES ASSUME env[v] = env[w] PROVE FALSE
      OBVIOUS
    <3>2. v \in Keep \cup Due /\ v \in Due
      BY <1>2, <1>3
    <3>3. v = w /\ ~(v \in Keep /\ v \in Due)
      BY <2>1, <2>3, <3>1, <3>2, OneOwner
    <3> QED
      BY <2>1, <3>2, <3>3
  <2>5. Dropped(<<env[v]>>)[env[w]] = 1
    <3>1. \A k \in DOMAIN <<env[v]>> : <<env[v]>>[k] # env[w]
      BY <2>4
    <3> QED
      BY <2>3, <3>1, DroppedAway
  <2> QED
    BY <1>1, <2>2, <2>5
<1> QED
  BY <1>1, <1>5, SoleStays

(* A zombie's fields are other cells.                                      *)
LEMMA ReapSole == Inv /\ Sole /\ Reap => Sole'
<1> SUFFICES ASSUME Inv, Sole, Reap PROVE Sole'
  OBVIOUS
<1> DEFINE z == Least(zombies)
<1>1. /\ zombies # {} /\ count' = Dropped(kids[z]) /\ todo' = todo /\ pending' = pending /\ held' = held
      /\ prog' = prog /\ optimize' = optimize /\ plan' = plan /\ env' = env
      /\ block' = block /\ site' = site /\ stage' = stage /\ edge' = edge
  BY DEF Reap, planned, control
<1>2. z \in Cell /\ DOMAIN kids[z] = Index
  <2>1. zombies \in SUBSET Nat /\ zombies \subseteq Cell /\ kids \in [Cell -> [Index -> Ref]]
    BY Cells DEF Inv, Typed, HeapTyped
  <2>2. z \in zombies
    BY <1>1, <2>1, LeastMember
  <2> QED
    BY <2>1, <2>2
<1> HIDE DEF z
<1>3. Claimed' = Claimed
  <2>1. Keep' = Keep
    BY <1>1 DEF Keep, LiveAt, Managed, here, term, AtTerm, Returns
  <2>2. expr' = expr /\ here' = here
    BY <1>1 DEF expr, here
  <2>3. Due' = Due
    BY <1>1, <2>2 DEF Due
  <2>4. Consuming' = Consuming
    BY <1>1, <2>2 DEF Consuming
  <2> QED
    BY <2>1, <2>2, <2>3, <2>4 DEF Claimed
<1>4. ASSUME optimize, NEW w \in Claimed' \cap Unshared
      PROVE  w \in Claimed /\ env'[w] = env[w] /\ count'[env[w]] = 1
  <2>1. w \in Claimed
    BY <1>3, <1>4
  <2>2. env[w] \in Cell /\ count[env[w]] = 1 /\ \A f \in Cell \X Index : kids[f[1]][f[2]] # env[w]
    BY <1>4, <2>1, SoleFacts
  <2>3. \A k \in DOMAIN kids[z] : kids[z][k] # env[w]
    <3>1. \A k \in Index : <<z, k>> \in Cell \X Index
      BY <1>2
    <3> QED
      BY <1>2, <2>2, <3>1
  <2>4. Dropped(kids[z])[env[w]] = 1
    BY <2>2, <2>3, DroppedAway
  <2> QED
    BY <1>1, <2>1, <2>4
<1> QED
  BY <1>1, <1>4, SoleStays

(* An operand that calls gives its value up.                               *)
LEMMA CallTakes ==
    ASSUME Placed, site # 0, NEW k \in DOMAIN expr.args, expr.args[k].via = "call"
    PROVE  Role(expr, k) = "Owned"
<1>1. /\ Shaped(prog) /\ block \in Blocks(prog) /\ site \in Sites(prog, block)
      /\ expr = ExprAt(prog, block, site)
  BY Here, AtSite DEF expr
<1> QED
  BY <1>1, RoleIs

(* The operands: what is copied or called is another value's, or its use   *)
(* is over.                                                                *)
LEMMA OperandSole ==
    ASSUME NEW k, Inv, Sole, Operand(k)
    PROVE  Sole'
<1>1. /\ stage = "eval" /\ k \in pending /\ pending' = pending \ {k} /\ todo' = todo
      /\ prog' = prog /\ optimize' = optimize /\ plan' = plan /\ env' = env
      /\ block' = block /\ site' = site /\ stage' = stage /\ edge' = edge
  BY DEF Operand, planned, control, At
<1> DEFINE v == expr.args[k].val
<1>2. \/ expr.args[k].via = "direct" /\ count' = count
      \/ expr.args[k].via = "field" /\ count' = Retained(<<Kid(env[v], 1)>>)
      \/ expr.args[k].via = "call" /\ \E res \in Results(<<env[v]>>) : Called(<<env[v]>>, res)
  BY DEF Operand, heap
<1>3. expr' = expr /\ here' = here /\ Keep' = Keep /\ Due' = Due
  <2>1. expr' = expr /\ here' = here
    BY <1>1 DEF expr, here
  <2> QED
    BY <1>1, <2>1 DEF Keep, Due, LiveAt, Managed
<1>4. Consuming' = {j \in Consuming : j # k \/ expr.args[k].via = "direct"}
  BY <1>1, <1>3 DEF Consuming
<1> HIDE DEF v
<1>5. ASSUME optimize, NEW w \in Claimed' \cap Unshared
      PROVE  w \in Claimed /\ env'[w] = env[w] /\ count'[env[w]] = 1
  <2>1. w \in Keep \cup Due \/ \E j \in Consuming' : expr.args[j].val = w
    BY <1>3, <1>5 DEF Claimed
  <2>2. w \in Claimed
    BY <1>4, <2>1 DEF Claimed
  <2>3. env[w] \in Cell /\ count[env[w]] = 1 /\ \A f \in Cell \X Index : kids[f[1]][f[2]] # env[w]
    BY <1>5, <2>2, SoleFacts
  <2>4. CASE expr.args[k].via = "direct" /\ count' = count
    BY <1>1, <2>2, <2>3, <2>4
  <2>5. CASE expr.args[k].via = "field" /\ count' = Retained(<<Kid(env[v], 1)>>)
    <3>1. Kid(env[v], 1) # env[w]
      <4>1. CASE env[v] \in Cell
        <5>1. <<env[v], 1>> \in Cell \X Index
          BY <4>1 DEF Index
        <5>2. kids[env[v]][1] # env[w]
          BY <2>3, <5>1
        <5> QED
          BY <4>1, <5>2 DEF Kid
      <4>2. CASE env[v] \notin Cell
        BY <2>3, <4>2, Cells DEF Kid
      <4> QED
        BY <4>1, <4>2
    <3>2. \A j \in DOMAIN <<Kid(env[v], 1)>> : <<Kid(env[v], 1)>>[j] # env[w]
      BY <3>1
    <3>3. Retained(<<Kid(env[v], 1)>>)[env[w]] = 1
      BY <2>3, <3>2, RetainedAway
    <3> QED
      BY <1>1, <2>2, <2>5, <3>3
  <2>6. CASE expr.args[k].via = "call" /\ \E res \in Results(<<env[v]>>) : Called(<<env[v]>>, res)
    <3>1. PICK res \in Results(<<env[v]>>) : Called(<<env[v]>>, res)
      BY <2>6
    <3>2. k \in Taking
      <4>1. k \in DOMAIN expr.args
        BY <1>1 DEF Inv, Typed, OperandsTyped
      <4>2. Role(expr, k) = "Owned"
        <5>1. Placed /\ site # 0
          BY <1>1 DEF Inv, Typed, Placed
        <5>2. expr.args[k].via = "call"
          BY <2>6
        <5> QED
          BY <4>1, <5>1, <5>2, CallTakes
      <4> QED
        BY <1>1, <4>1, <4>2 DEF Taking
    <3>3. env[v] # env[w]
      <4>1. SUFFICES ASSUME env[v] = env[w] PROVE FALSE
        OBVIOUS
      <4>2. CASE w \in Keep \cup Due
        BY <2>3, <3>2, <4>1, <4>2, OneOwner DEF v
      <4>3. CASE \E j \in Consuming' : expr.args[j].val = w
        <5>1. PICK j \in Consuming' : expr.args[j].val = w
          BY <4>3
        <5>2. j \in Consuming /\ j # k
          BY <1>4, <2>6, <5>1
        <5>3. CASE j \in Taking
          BY <2>3, <3>2, <4>1, <5>1, <5>2, <5>3, OneOwner DEF v
        <5>4. CASE j \in Temps /\ held[j] = env[w]
          BY <2>3, <3>2, <4>1, <5>4, OneOwner DEF v
        <5> QED
          BY <5>1, <5>2, <5>3, <5>4, ConsumingHolds
      <4> QED
        BY <2>1, <4>2, <4>3
    <3>4. \A j \in DOMAIN <<env[v]>> : <<env[v]>>[j] # env[w]
      BY <3>3
    <3>5. count'[env[w]] = 1
      BY <2>3, <3>1, <3>4, CalledAway
    <3> QED
      BY <1>1, <2>2, <3>5
  <2> QED
    BY <1>2, <2>4, <2>5, <2>6
<1> QED
  BY <1>1, <1>5, SoleStays

(* An instruction: what else is claimed stays alone, and so is its result. *)
LEMMA BoundSole ==
    ASSUME Inv, Sole, ~AtTerm, NEW kinds, Evaluated(kinds), NEW r, Bind(r),
           optimize => \A w \in (Keep \cup Due) \cap Unshared : count'[env[w]] = 1,
           optimize /\ inst.result \in Unshared => r \in Cell /\ count'[r] = 1
    PROVE  Sole'
<1>1. /\ stage = "eval" /\ site # 0 /\ inst.result \in Value /\ Defs(prog, block, site) = {inst.result}
  BY AtInst
<1>2. /\ env' = [env EXCEPT ![inst.result] = r] /\ stage' = "post" /\ todo' = Releases(here.late)
      /\ prog' = prog /\ optimize' = optimize /\ plan' = plan
      /\ block' = block /\ site' = site /\ edge' = edge
  BY DEF Bind, planned, inst
<1>3. ~AtTerm'
  BY <1>2 DEF AtTerm
<1>4. Keep = (LiveAt(site) \cap Managed) \ {inst.result} /\ Due = here.late \ {inst.result}
  BY <1>1 DEF Keep, Due
<1>5. Keep' = LiveAt(site) \cap Managed /\ Due' = here.late /\ Consuming' = {}
  BY <1>2, <1>3 DEF Keep, Due, Consuming, LiveAt, Managed, Releases
<1>6. Claimed' \subseteq Keep \cup Due \cup {inst.result}
  BY <1>4, <1>5 DEF Claimed
<1>7. env \in [Value -> Ref]
  BY DEF Inv, Typed, HeapTyped
<1>8. ASSUME optimize, NEW w \in Claimed' \cap Unshared, w # inst.result
      PROVE  w \in Claimed /\ env'[w] = env[w] /\ count'[env[w]] = 1
  <2>1. w \in (Keep \cup Due) \cap Unshared /\ w \in Claimed
    BY <1>6, <1>8 DEF Claimed
  <2>2. env'[w] = env[w]
    BY <1>2, <1>7, <1>8
  <2> QED
    BY <1>8, <2>1, <2>2
<1>9. ASSUME optimize, inst.result \in Unshared
      PROVE  env'[inst.result] \in Cell /\ count'[env'[inst.result]] = 1
  BY <1>1, <1>2, <1>7, <1>9
<1>10. \A w \in Claimed' \cap Unshared :
          optimize => \/ w \in Claimed /\ env'[w] = env[w] /\ (Only(env[w]) => count'[env[w]] = 1)
                      \/ env'[w] \in Cell /\ count'[env'[w]] = 1
  BY <1>8, <1>9
<1> QED
  BY <1>2, <1>10, SoleStays

(* A fresh result is a new constructor, or takes over from a fresh value.  *)
LEMMA FreshResult ==
    ASSUME Inv, ~AtTerm, NEW kinds, Evaluated(kinds), inst.result \in Unshared
    PROVE  /\ inst.kind = "let" /\ expr.kind \in {"make", "value"}
           /\ expr.kind = "value" => expr.args[1].val \in Unshared
<1> DEFINE fresh == SolveOrigins(prog)
           v == IF expr.args = <<>> THEN 0 ELSE expr.args[1].val
<1>1. /\ Shaped(prog) /\ block \in Blocks(prog) /\ site \in DOMAIN prog.insts[block]
      /\ InstShape(inst) /\ expr = inst.expr
  BY AtInst
<1>2. FreshBy(prog, inst.result, fresh)
  BY UnsharedIsManaged
<1>3. <<block, site>> \in Insts(prog) /\ ResultOf(prog, block, site) = inst.result
  <2>1. site \in Sites(prog, block) /\ site # Last(prog, block) /\ Last(prog, block) \in Nat
        /\ Sites(prog, block) = 1 .. Last(prog, block)
    BY <1>1, Shapes DEF AtTerm
  <2>2. site < Last(prog, block)
    BY <2>1
  <2>3. <<block, site>> \in AllSites(prog)
    BY <1>1, <2>1 DEF AllSites
  <2> QED
    BY <2>2, <2>3 DEF Insts, ResultOf, inst
<1> HIDE DEF fresh
<1>4. LetFresh(prog, block, site, fresh)
  <2>1. \A s \in Insts(prog) : ResultOf(prog, s[1], s[2]) = inst.result => LetFresh(prog, s[1], s[2], fresh)
    BY <1>2 DEF FreshBy
  <2> QED
    BY <1>3, <2>1
<1>5. ExprAt(prog, block, site) = expr
  BY DEF expr
<1>6. inst.kind = "let" /\ FreshExpr(prog, expr.kind, v, fresh)
  BY <1>4, <1>5 DEF LetFresh, inst
<1>7. CASE expr.kind = "value"
  <2>1. v \in fresh /\ Cardinality(UsesOf(prog, v)) = 1
    BY <1>6, <1>7 DEF FreshExpr
  <2>2. v = expr.args[1].val
    <3>1. Len(inst.expr.args) = 1 /\ inst.expr.args \in Seq(Occurrence)
      BY <1>1, <1>7 DEF InstShape
    <3> QED
      BY <1>1, <3>1
  <2> HIDE DEF v
  <2>3. UsedOnce(prog, v)
    BY <1>1, <2>1, CountedOnce
  <2> QED
    BY <1>6, <1>7, <2>1, <2>2, <2>3 DEF Unshared, fresh
<1>8. CASE expr.kind # "value"
  BY <1>6, <1>8 DEF FreshExpr
<1> QED
  BY <1>7, <1>8

(* A fresh alias takes over from a fresh value.                            *)
LEMMA AliasSole == Inv /\ Sole /\ Alias => Sole'
<1> SUFFICES ASSUME Inv, Sole, Alias PROVE Sole'
  OBVIOUS
<1> DEFINE kinds == {"value"}
<1>1. ~AtTerm /\ Evaluated(kinds) /\ Bind(held[1]) /\ count' = count
  BY DEF Alias, heap
<1>2. expr.kind \in kinds
  BY <1>1, AtInst
<1>3. expr.kind = "value"
  BY <1>2
<1> HIDE DEF kinds
<1>4. ASSUME optimize, NEW w \in (Keep \cup Due) \cap Unshared PROVE count'[env[w]] = 1
  <2>1. w \in Claimed /\ w \in Unshared
    BY <1>4 DEF Claimed
  <2> QED
    BY <1>1, <1>4, <2>1, SoleFacts
<1>5. ASSUME optimize, inst.result \in Unshared PROVE held[1] \in Cell /\ count'[held[1]] = 1
  <2> DEFINE u == expr.args[1].val
  <2>1. u \in Unshared
    BY <1>1, <1>3, <1>5, FreshResult
  <2>2. /\ InstShape(inst) /\ expr = inst.expr /\ stage = "eval"
        /\ \A k \in DOMAIN expr.args : expr.args[k].via = "direct" => held[k] = env[expr.args[k].val]
    BY <1>1, AtInst
  <2>3. Len(expr.args) = 1 /\ Named(expr) /\ expr.args \in Seq(Occurrence)
    BY <1>3, <2>2 DEF InstShape
  <2>4. 1 \in DOMAIN expr.args /\ expr.args[1].via = "direct"
    BY <2>3 DEF Named
  <2>5. Role(expr, 1) = "Owned"
    BY <1>3, <2>4 DEF Role
  <2>6. 1 \in Consuming
    BY <2>2, <2>4, <2>5 DEF Consuming
  <2>7. u \in Claimed
    BY <2>6 DEF Claimed
  <2>8. held[1] = env[u]
    BY <2>2, <2>4
  <2> HIDE DEF u
  <2>9. env[u] \in Cell /\ count[env[u]] = 1
    BY <1>5, <2>1, <2>7, SoleFacts
  <2> QED
    BY <1>1, <2>8, <2>9
<1> QED
  BY <1>1, <1>4, <1>5, BoundSole

(* An instruction that makes nothing fresh.                                *)
LEMMA OtherSole ==
    ASSUME Inv, Sole, ~AtTerm, NEW kinds, Evaluated(kinds), "make" \notin kinds, "value" \notin kinds,
           NEW r, Bind(r),
           optimize => \A w \in (Keep \cup Due) \cap Unshared : count'[env[w]] = 1
    PROVE  Sole'
<1>1. expr.kind \in kinds
  BY AtInst
<1>2. inst.result \notin Unshared
  BY <1>1, FreshResult
<1> QED
  BY <1>2, BoundSole

(* Scalars.                                                                *)
LEMMA ScalarSole == Inv /\ Sole /\ Scalar => Sole'
<1> SUFFICES ASSUME Inv, Sole, Scalar PROVE Sole'
  OBVIOUS
<1> DEFINE kinds == {"read"}
<1>1. ~AtTerm /\ Evaluated(kinds) /\ Bind(Unit) /\ count' = count /\ "make" \notin kinds /\ "value" \notin kinds
  BY DEF Scalar
<1> HIDE DEF kinds
<1>2. ASSUME optimize, NEW w \in (Keep \cup Due) \cap Unshared PROVE count'[env[w]] = 1
  <2>1. w \in Claimed /\ w \in Unshared
    BY <1>2 DEF Claimed
  <2> QED
    BY <1>1, <1>2, <2>1, SoleFacts
<1> QED
  BY <1>1, <1>2, OtherSole

(* Loads from the constant pool.                                           *)
LEMMA LoadPooledSole == Inv /\ Sole /\ LoadPooled => Sole'
<1> SUFFICES ASSUME Inv, Sole, LoadPooled PROVE Sole'
  OBVIOUS
<1> DEFINE kinds == {"pooled"}
<1>1. ~AtTerm /\ Evaluated(kinds) /\ Bind(Pool) /\ count' = count /\ "make" \notin kinds /\ "value" \notin kinds
  BY DEF LoadPooled, heap
<1> HIDE DEF kinds
<1>2. ASSUME optimize, NEW w \in (Keep \cup Due) \cap Unshared PROVE count'[env[w]] = 1
  <2>1. w \in Claimed /\ w \in Unshared
    BY <1>2 DEF Claimed
  <2> QED
    BY <1>1, <1>2, <2>1, SoleFacts
<1> QED
  BY <1>1, <1>2, OtherSole

(* A cell that is in no field is not what a field gives.                   *)
LEMMA KidIsShared ==
    ASSUME NEW r, NEW c \in Cell, \A f \in Cell \X Index : kids[f[1]][f[2]] # c
    PROVE  \A i \in Index : Kid(r, i) # c
<1>1. SUFFICES ASSUME NEW i \in Index PROVE Kid(r, i) # c
  OBVIOUS
<1>2. CASE r \in Cell
  <2>1. <<r, i>> \in Cell \X Index
    BY <1>2
  <2>2. kids[r][i] # c
    BY <2>1
  <2> QED
    BY <1>2, <2>2 DEF Kid
<1>3. CASE r \notin Cell
  BY <1>3, Cells DEF Kid
<1> QED
  BY <1>2, <1>3

(* Projections.                                                            *)
LEMMA ProjectSole == Inv /\ Sole /\ Project => Sole'
<1> SUFFICES ASSUME Inv, Sole, Project PROVE Sole'
  OBVIOUS
<1> DEFINE kinds == {"field"}
           r == Kid(held[1], 1)
<1>1. /\ ~AtTerm /\ Evaluated(kinds) /\ Bind(r) /\ count' = Retained(<<r>>)
      /\ "make" \notin kinds /\ "value" \notin kinds
  BY DEF Project
<1> HIDE DEF kinds
<1>2. ASSUME optimize, NEW w \in (Keep \cup Due) \cap Unshared PROVE count'[env[w]] = 1
  <2>1. w \in Claimed /\ w \in Unshared
    BY <1>2 DEF Claimed
  <2>2. env[w] \in Cell /\ count[env[w]] = 1 /\ \A f \in Cell \X Index : kids[f[1]][f[2]] # env[w]
    BY <1>2, <2>1, SoleFacts
  <2>3. r # env[w]
    <3>1. 1 \in Index
      BY DEF Index
    <3> QED
      BY <2>2, <3>1, KidIsShared
  <2> HIDE DEF r
  <2>4. \A j \in DOMAIN <<r>> : <<r>>[j] # env[w]
    BY <2>3
  <2>5. Retained(<<r>>)[env[w]] = 1
    BY <2>2, <2>4, RetainedAway
  <2> QED
    BY <1>1, <2>5
<1> HIDE DEF r
<1> QED
  BY <1>1, <1>2, OtherSole

(* A constructor's new cell is its result's alone.                         *)
LEMMA MakeSole == Inv /\ Sole /\ Make => Sole'
<1> SUFFICES ASSUME Inv, Sole, Make PROVE Sole'
  OBVIOUS
<1> DEFINE kinds == {"make"}
           r == born + 1
<1>1. ~AtTerm /\ Evaluated(kinds) /\ Bind(r) /\ Allocate(held, count)
  BY DEF Make
<1>2. count' = [count EXCEPT ![born + 1] = 1] /\ born < MaxCells
  BY <1>1 DEF Allocate
<1>3. born \in 0 .. MaxCells /\ count \in [Cell -> Nat]
  BY DEF Inv, Typed, HeapTyped
<1>4. r \in Cell
  BY <1>2, <1>3, UnitAssumption DEF Cell
<1>5. count'[r] = 1
  BY <1>2, <1>3, <1>4
<1>6. ASSUME optimize, NEW w \in (Keep \cup Due) \cap Unshared PROVE count'[env[w]] = 1
  <2>1. w \in Claimed /\ w \in Unshared
    BY <1>6 DEF Claimed
  <2>2. env[w] \in Cell /\ count[env[w]] = 1 /\ env[w] <= born
    BY <1>6, <2>1, SoleFacts
  <2>3. env[w] # r
    BY <1>3, <2>2, Cells
  <2> QED
    BY <1>2, <1>3, <2>2, <2>3
<1> HIDE DEF r, kinds
<1> QED
  BY <1>1, <1>4, <1>5, <1>6, BoundSole

(* Calls.                                                                  *)
LEMMA CallSole == Inv /\ Sole /\ Call => Sole'
<1> SUFFICES ASSUME Inv, Sole, Call PROVE Sole'
  OBVIOUS
<1> DEFINE kinds == {"call", "closure"}
           args == CallArgs
<1>1. ~AtTerm /\ Evaluated(kinds) /\ "make" \notin kinds /\ "value" \notin kinds
  BY DEF Call
<1>2. PICK r \in Results(args) : Called(args, r) /\ Bind(r)
  BY DEF Call, CallArgs
<1>3. /\ expr.kind \in kinds /\ DOMAIN held = DOMAIN expr.args
      /\ DOMAIN expr.args = 1 .. Len(expr.args) /\ Len(expr.args) \in Nat
      /\ held \in [DOMAIN expr.args -> Ref]
      /\ Temps = {k \in DOMAIN expr.args : expr.args[k].via # "direct" \/ Role(expr, k) = "Owned"}
      /\ InstShape(inst) /\ expr = inst.expr
  BY <1>1, AtInst
<1>4. \A j \in DOMAIN args : \E k \in Temps : args[j] = held[k]
  <2>1. CASE expr.kind = "call"
    <3>1. \A k \in DOMAIN expr.args : k \in Temps
      BY <1>3, <2>1, AllTemps
    <3> QED
      BY <1>3, <2>1, <3>1 DEF CallArgs
  <2>2. CASE expr.kind = "closure"
    <3> DEFINE n == Len(expr.args)
    <3>1. n # 0
      BY <1>3, <2>2 DEF InstShape
    <3>2. args = Tail(held) /\ held \in [1 .. n -> Ref] /\ n \in Nat
      BY <1>3, <2>2 DEF CallArgs
    <3> HIDE DEF n, args
    <3>3. held \in Seq(Ref) /\ Len(held) = n
      BY <3>2
    <3>4. \A j \in DOMAIN args : j + 1 \in 1 .. n /\ j + 1 # 1 /\ args[j] = held[j + 1]
      BY <3>1, <3>2, <3>3
    <3>5. \A k \in 1 .. n : k # 1 => k \in Temps
      BY <1>3, <2>2, AllTemps DEF n
    <3> QED
      BY <3>4, <3>5
  <2> QED
    BY <1>3, <2>1, <2>2
<1> HIDE DEF kinds, args
<1>5. ASSUME optimize, NEW w \in (Keep \cup Due) \cap Unshared PROVE count'[env[w]] = 1
  <2>1. w \in Claimed /\ w \in Unshared
    BY <1>5 DEF Claimed
  <2>2. env[w] \in Cell /\ count[env[w]] = 1
    BY <1>5, <2>1, SoleFacts
  <2>3. \A k \in Temps : held[k] # env[w]
    BY <1>5, <2>2, OneOwner
  <2>4. \A j \in DOMAIN args : args[j] # env[w]
    BY <1>4, <2>3
  <2> QED
    BY <1>2, <2>2, <2>4, CalledAway
<1> QED
  BY <1>1, <1>2, <1>5, OtherSole

(* A terminator: what stays claimed stays alone, and so is what it brings. *)
LEMMA LeftSole ==
    ASSUME Inv, Sole, AtTerm, ~Returns, NEW kinds, Evaluated(kinds), NEW e \in DOMAIN term.succ, Leave(e),
           \A v \in Value \ Params(prog, term.succ[e]) : env'[v] = env[v],
           optimize => \A w \in (Keep \cup Due) \cap Unshared : count'[env[w]] = 1,
           optimize => \A w \in Params(prog, term.succ[e]) \cap Unshared : env'[w] \in Cell /\ count'[env'[w]] = 1
    PROVE  Sole'
<1> DEFINE P == Params(prog, term.succ[e])
<1>1. Keep = LiveAt(site) \cap Managed /\ Due = here.late /\ Placed
  BY AtEnd
<1>2. /\ stage' = "post" /\ todo' = Releases(here.late)
      /\ prog' = prog /\ optimize' = optimize /\ plan' = plan
      /\ block' = block /\ site' = site /\ edge' = e
  BY DEF Leave, planned
<1>3. AtTerm' /\ term' = term /\ ~Returns'
  BY <1>2 DEF AtTerm, Returns, term
<1>4. Keep' = Expected(plan, term.succ[e]) \cup plan.drop[block][e]
  BY <1>2, <1>3 DEF Keep
<1>5. Due' = here.late /\ Consuming' = {}
  BY <1>2 DEF Due, Consuming, Releases
<1>6. Keep' \subseteq Keep \cup P
  <2>1. Unborrowed
    BY DEF Inv
  <2>2. Expected(plan, term.succ[e]) \cup plan.drop[block][e] =
           (LiveAt(site) \cap Managed) \cup ((P \cap Managed) \ Borrowed(prog, plan))
    BY <1>1, <2>1, EdgeRule
  <2> QED
    BY <1>1, <1>4, <2>2
<1>7. Claimed' \subseteq Keep \cup Due \cup P
  BY <1>1, <1>5, <1>6 DEF Claimed
<1>8. \A w \in Claimed' \cap Unshared :
          optimize => \/ w \in Claimed /\ env'[w] = env[w] /\ (Only(env[w]) => count'[env[w]] = 1)
                      \/ env'[w] \in Cell /\ count'[env'[w]] = 1
  <2>1. SUFFICES ASSUME optimize, NEW w \in Claimed' \cap Unshared
                 PROVE  \/ w \in Claimed /\ env'[w] = env[w] /\ count'[env[w]] = 1
                        \/ env'[w] \in Cell /\ count'[env'[w]] = 1
    OBVIOUS
  <2>2. CASE w \in P
    BY <2>1, <2>2
  <2>3. CASE w \notin P
    <3>1. w \in (Keep \cup Due) \cap Unshared /\ w \in Claimed
      BY <1>7, <2>1, <2>3 DEF Claimed
    <3>2. w \in Value
      BY <2>1, UnsharedIsManaged
    <3>3. env'[w] = env[w] /\ count'[env[w]] = 1
      BY <2>1, <2>3, <3>1, <3>2
    <3> QED
      BY <3>1, <3>3
  <2> QED
    BY <2>2, <2>3
<1> QED
  BY <1>2, <1>8, SoleStays

(* A fresh parameter takes over from a fresh value, on a plain edge.       *)
LEMMA FreshParameter ==
    ASSUME Inv, AtTerm, NEW kinds, Evaluated(kinds), NEW e \in DOMAIN term.succ,
           NEW w \in Params(prog, term.succ[e]), w \in Unshared
    PROVE  /\ term.kind = "goto"
           /\ \E k \in DOMAIN expr.args : /\ prog.params[term.succ[1]][k] = w
                                          /\ expr.args[k].via = "direct" /\ expr.args[k].val \in Unshared
<1> DEFINE fresh == SolveOrigins(prog)
           t == term.succ[e]
<1>1. /\ Shaped(prog) /\ block \in Blocks(prog) /\ TermShape(prog, term) /\ expr = term.expr
      /\ \A k \in DOMAIN expr.args : expr.args[k].via \in {"direct", "field", "call"}
      /\ DOMAIN expr.args = 1 .. Len(expr.args)
  <2>1. Placed /\ site # 0
    BY AtEnd
  <2> QED
    BY <2>1, AtEnd, AtSite
<1>2. t \in Blocks(prog) /\ t \in Successors(prog, block)
  <2>1. t \in Blocks(prog)
    BY <1>1, Shapes DEF term
  <2> QED
    BY <2>1 DEF Successors, Elems, term
<1>3. FreshBy(prog, w, fresh)
  BY UnsharedIsManaged
<1> HIDE DEF fresh
<1>4. EdgeFresh(prog, block, t, w, fresh)
  <2>1. \A p \in Blocks(prog) \X Blocks(prog) :
          w \in Params(prog, p[2]) /\ p[2] \in Successors(prog, p[1]) => EdgeFresh(prog, p[1], p[2], w, fresh)
    BY <1>3 DEF FreshBy
  <2>2. <<block, t>> \in Blocks(prog) \X Blocks(prog)
    BY <1>1, <1>2
  <2> QED
    BY <1>2, <2>1, <2>2
<1> DEFINE k == CHOOSE j \in DOMAIN prog.params[t] : prog.params[t][j] = w
<1>5. term.kind = "goto" /\ FreshExpr(prog, ArgKind(term.expr, k), term.expr.args[k].val, fresh)
  BY <1>4 DEF EdgeFresh, term
<1>6. /\ k \in DOMAIN prog.params[t] /\ prog.params[t][k] = w
      /\ DOMAIN prog.params[t] = 1 .. Len(prog.params[t])
  <2>1. \E j \in DOMAIN prog.params[t] : prog.params[t][j] = w
    BY <1>1, <1>2, ParamsShape
  <2>2. DOMAIN prog.params[t] = 1 .. Len(prog.params[t])
    BY <1>1, <1>2, ParamsShape
  <2> QED
    BY <2>1, <2>2
<1> HIDE DEF k
<1>7. e = 1 /\ Len(term.expr.args) = Len(prog.params[term.succ[1]])
  <2>1. Len(term.succ) = 1 /\ Len(term.expr.args) = Len(prog.params[term.succ[1]]) /\ term.succ \in Seq(Blocks(prog))
    BY <1>1, <1>5 DEF TermShape
  <2> QED
    BY <2>1
<1>8. k \in DOMAIN expr.args /\ prog.params[term.succ[1]][k] = w
  BY <1>1, <1>6, <1>7
<1>9. expr.args[k].via \in {"direct", "field", "call"}
  BY <1>1, <1>8
<1>10. ArgKind(term.expr, k) = IF expr.args[k].via = "direct" THEN "value" ELSE expr.args[k].via
  BY <1>1 DEF ArgKind
<1> DEFINE u == expr.args[k].val
<1>11. expr.args[k].via = "direct" /\ u \in fresh /\ Cardinality(UsesOf(prog, u)) = 1
  BY <1>1, <1>5, <1>9, <1>10 DEF FreshExpr
<1> HIDE DEF u
<1>12. UsedOnce(prog, u)
  BY <1>1, <1>11, CountedOnce
<1>13. u \in Unshared
  BY <1>11, <1>12 DEF Unshared, fresh
<1> QED
  BY <1>5, <1>8, <1>11, <1>13 DEF u

(* While nothing is counted, what is claimed stays alone.                  *)
LEMMA UncountedSole ==
    ASSUME Inv, Sole, optimize, count' = count
    PROVE  \A w \in (Keep \cup Due) \cap Unshared : count'[env[w]] = 1
<1>1. SUFFICES ASSUME NEW w \in (Keep \cup Due) \cap Unshared PROVE count[env[w]] = 1
  OBVIOUS
<1>2. w \in Claimed /\ w \in Unshared
  BY DEF Claimed
<1> QED
  BY <1>2, SoleFacts

(* A return.                                                               *)
LEMMA ReturningSole == Inv /\ Sole /\ Returning => Sole'
<1> SUFFICES ASSUME Inv, Sole, Returning PROVE Sole'
  OBVIOUS
<1> DEFINE kinds == {"args"}
<1>1. /\ AtTerm /\ Evaluated(kinds) /\ Returns /\ Leave(0) /\ env' = env /\ count' = count
  BY DEF Returning, Returns, heap
<1> HIDE DEF kinds
<1>2. Due = here.late
  BY <1>1, AtEnd
<1>3. /\ stage' = "post" /\ todo' = Releases(here.late)
      /\ prog' = prog /\ optimize' = optimize /\ plan' = plan /\ block' = block /\ site' = site
  BY <1>1 DEF Leave, planned
<1>4. AtTerm' /\ Returns'
  BY <1>1, <1>3 DEF AtTerm, Returns, term
<1>5. Keep' = {} /\ Due' = here.late /\ Consuming' = {}
  BY <1>3, <1>4 DEF Keep, Due, Consuming, Releases
<1>6. Claimed' \subseteq Claimed
  BY <1>2, <1>5 DEF Claimed
<1> QED
  BY <1>1, <1>3, <1>6, ControlSole

(* A branch.                                                               *)
LEMMA BranchSole == Inv /\ Sole /\ Branch => Sole'
<1> SUFFICES ASSUME Inv, Sole, Branch PROVE Sole'
  OBVIOUS
<1> DEFINE kinds == {"read"}
<1>1. PICK e \in DOMAIN term.succ :
         /\ AtTerm /\ Evaluated(kinds) /\ term.kind = "branch" /\ Leave(e) /\ env' = env /\ count' = count
  BY DEF Branch, heap
<1> HIDE DEF kinds
<1>2. ~Returns /\ \A w \in Params(prog, term.succ[e]) : w \notin Unshared
  BY <1>1, FreshParameter DEF Returns
<1>3. optimize => \A w \in (Keep \cup Due) \cap Unshared : count'[env[w]] = 1
  BY <1>1, UncountedSole
<1> QED
  BY <1>1, <1>2, <1>3, LeftSole

(* A goto: a fresh parameter takes over from a fresh value.                *)
LEMMA GotoSole == Inv /\ Sole /\ Goto => Sole'
<1> SUFFICES ASSUME Inv, Sole, Goto PROVE Sole'
  OBVIOUS
<1> DEFINE kinds == {"args"}
           t == term.succ[1]
           params == prog.params[t]
           n == Len(expr.args)
<1>1. /\ AtTerm /\ Evaluated(kinds) /\ term.kind = "goto" /\ Leave(1) /\ count' = count
      /\ env' = Assigned(params, held)
  BY DEF Goto, Assigned, heap
<1> HIDE DEF kinds
<1>2. /\ expr.kind \in kinds /\ TermShape(prog, term) /\ expr = term.expr /\ stage = "eval"
      /\ held \in [DOMAIN expr.args -> Ref] /\ DOMAIN expr.args = 1 .. n /\ n \in Nat
      /\ Shaped(prog) /\ block \in Blocks(prog)
      /\ \A k \in DOMAIN expr.args : expr.args[k].via = "direct" => held[k] = env[expr.args[k].val]
  BY <1>1, AtEnd
<1>3. /\ Len(term.succ) = 1 /\ Len(params) = n /\ ~Returns /\ term.succ \in Seq(Blocks(prog))
  BY <1>1, <1>2 DEF TermShape, Returns
<1>4. 1 \in DOMAIN term.succ /\ t \in Blocks(prog)
  BY <1>3
<1>5. /\ DOMAIN params = 1 .. n /\ DOMAIN held = 1 .. n /\ \A k \in 1 .. n : params[k] \in Value
      /\ \A j, k \in 1 .. n : params[j] = params[k] => j = k
      /\ Params(prog, t) = Elems(params)
  <2>1. /\ DOMAIN prog.params[t] = 1 .. Len(prog.params[t])
        /\ \A k \in DOMAIN prog.params[t] : prog.params[t][k] \in Value
        /\ \A j, k \in DOMAIN prog.params[t] : prog.params[t][j] = prog.params[t][k] => j = k
    BY <1>2, <1>4, ParamsShape
  <2> QED
    BY <1>2, <1>3, <2>1 DEF Params
<1>6. /\ \A k \in 1 .. n : env'[params[k]] = held[k]
      /\ \A v \in Value \ Params(prog, t) : env'[v] = env[v]
  BY <1>1, <1>5, AssignedAt
<1>7. ASSUME optimize, NEW w \in Params(prog, t), w \in Unshared
      PROVE  env'[w] \in Cell /\ count'[env'[w]] = 1
  <2>1. PICK k \in DOMAIN expr.args : /\ prog.params[term.succ[1]][k] = w
                                      /\ expr.args[k].via = "direct" /\ expr.args[k].val \in Unshared
    BY <1>1, <1>4, <1>7, FreshParameter
  <2> DEFINE u == expr.args[k].val
  <2>2. Role(expr, k) = "Owned"
    BY <1>2, <2>1 DEF Role, kinds
  <2>3. k \in Consuming
    BY <1>2, <2>1, <2>2 DEF Consuming
  <2>4. u \in Claimed /\ u \in Unshared
    BY <2>1, <2>3 DEF Claimed
  <2>5. env'[w] = env[u]
    BY <1>2, <1>6, <2>1
  <2> HIDE DEF u
  <2>6. env[u] \in Cell /\ count[env[u]] = 1
    BY <1>7, <2>4, SoleFacts
  <2> QED
    BY <1>1, <2>5, <2>6
<1>8. optimize => \A w \in (Keep \cup Due) \cap Unshared : count'[env[w]] = 1
  BY <1>1, UncountedSole
<1>9. /\ \A v \in Value \ Params(prog, term.succ[1]) : env'[v] = env[v]
      /\ optimize => \A w \in Params(prog, term.succ[1]) \cap Unshared : env'[w] \in Cell /\ count'[env'[w]] = 1
  BY <1>6, <1>7
<1> QED
  BY <1>1, <1>3, <1>4, <1>8, <1>9, LeftSole

(* A call or a perform.                                                    *)
LEMMA CallOrPerformSole == Inv /\ Sole /\ CallOrPerform => Sole'
<1> SUFFICES ASSUME Inv, Sole, CallOrPerform PROVE Sole'
  OBVIOUS
<1> DEFINE kinds == {"args"}
<1>1. AtTerm /\ Evaluated(kinds) /\ term.kind = "call" /\ Leave(1) /\ ~Returns
  BY DEF CallOrPerform, Returns
<1>2. PICK res \in Results(held) :
         Called(held, res) /\ env' = [env EXCEPT ![prog.params[term.succ[1]][1]] = res]
  BY DEF CallOrPerform
<1>3. /\ expr.kind \in kinds /\ TermShape(prog, term) /\ held \in [DOMAIN expr.args -> Ref]
      /\ Temps = {k \in DOMAIN expr.args : expr.args[k].via # "direct" \/ Role(expr, k) = "Owned"}
      /\ Shaped(prog)
  BY <1>1, AtEnd
<1>4. \A k \in DOMAIN held : k \in Temps
  BY <1>3, AllTemps
<1>5. /\ 1 \in DOMAIN term.succ /\ term.succ[1] \in Blocks(prog)
      /\ prog.params[term.succ[1]][1] \in Params(prog, term.succ[1])
  <2>1. Len(term.succ) = 1 /\ term.succ \in Seq(Blocks(prog)) /\ Len(prog.params[term.succ[1]]) = 1
    BY <1>1, <1>3 DEF TermShape
  <2>2. 1 \in DOMAIN term.succ /\ term.succ[1] \in Blocks(prog)
    BY <2>1
  <2>3. 1 \in DOMAIN prog.params[term.succ[1]]
    BY <1>3, <2>1, <2>2, ParamsShape
  <2> QED
    BY <1>3, <2>2, <2>3, ParamsShape
<1> HIDE DEF kinds
<1>6. \A v \in Value \ Params(prog, term.succ[1]) : env'[v] = env[v]
  <2>1. env \in [Value -> Ref]
    BY DEF Inv, Typed, HeapTyped
  <2> QED
    BY <1>2, <1>5, <2>1
<1>7. \A w \in Params(prog, term.succ[1]) : w \notin Unshared
  BY <1>1, <1>5, FreshParameter
<1>8. ASSUME optimize, NEW w \in (Keep \cup Due) \cap Unshared PROVE count'[env[w]] = 1
  <2>1. w \in Claimed /\ w \in Unshared
    BY <1>8 DEF Claimed
  <2>2. env[w] \in Cell /\ count[env[w]] = 1
    BY <1>8, <2>1, SoleFacts
  <2>3. \A k \in Temps : held[k] # env[w]
    BY <1>8, <2>2, OneOwner
  <2>4. \A k \in DOMAIN held : held[k] # env[w]
    BY <1>4, <2>3
  <2> QED
    BY <1>2, <2>2, <2>4, CalledAway
<1> QED
  BY <1>1, <1>5, <1>6, <1>7, <1>8, LeftSole

(* A match.                                                                *)
LEMMA MatchSole == Inv /\ Sole /\ Match => Sole'
<1> SUFFICES ASSUME Inv, Sole, Match PROVE Sole'
  OBVIOUS
<1> DEFINE kinds == {"read"}
<1>1. PICK e \in DOMAIN term.succ :
              /\ AtTerm /\ Evaluated(kinds) /\ term.kind = "match" /\ Leave(e)
              /\ \/ e = Len(term.succ) /\ env' = env /\ count' = count
                 \/ /\ e # Len(term.succ) /\ env' = Assigned(ArmBinders(e), ArmFields(e))
                    /\ count' = Retained(ArmCopied(e)) /\ kids' = ArmKids(e)
  BY MatchCases
<1>2. ~Returns
  BY <1>1 DEF Returns
<1>3. \A w \in Params(prog, term.succ[e]) : w \notin Unshared
  <2> HIDE DEF kinds
  <2> QED
    BY <1>1, FreshParameter
<1>4. CASE e = Len(term.succ) /\ env' = env /\ count' = count
  <2> HIDE DEF kinds
  <2>1. optimize => \A w \in (Keep \cup Due) \cap Unshared : count'[env[w]] = 1
    BY <1>4, UncountedSole
  <2> QED
    BY <1>1, <1>2, <1>3, <1>4, <2>1, LeftSole
<1>5. CASE e # Len(term.succ) /\ env' = Assigned(ArmBinders(e), ArmFields(e))
           /\ count' = Retained(ArmCopied(e)) /\ kids' = ArmKids(e)
  <2>1. /\ DOMAIN ArmBinders(e) = 1 .. Len(ArmBinders(e)) /\ Len(ArmBinders(e)) \in Nat
        /\ \A k \in DOMAIN ArmBinders(e) : ArmBinders(e)[k] \in Value
        /\ \A j, k \in DOMAIN ArmBinders(e) : ArmBinders(e)[j] = ArmBinders(e)[k] => j = k
    BY <1>1, <1>5, ArmFacts
  <2>2. \A v \in Value \ Elems(ArmBinders(e)) : env'[v] = env[v]
    <3> DEFINE n == Len(ArmBinders(e))
    <3>1. DOMAIN ArmFields(e) = 1 .. n
      BY <2>1 DEF ArmFields
    <3> HIDE DEF n
    <3>2. \A v \in Value \ Elems(ArmBinders(e)) : Assigned(ArmBinders(e), ArmFields(e))[v] = env[v]
      BY <2>1, <3>1, AssignedAt DEF n
    <3> QED
      BY <1>5, <3>2
  <2>3. \A v \in Value \ Params(prog, term.succ[e]) : env'[v] = env[v]
    BY <2>2 DEF ArmBinders, Params
  <2>4. ASSUME optimize, NEW w \in (Keep \cup Due) \cap Unshared PROVE count'[env[w]] = 1
    <3>1. w \in Claimed /\ w \in Unshared
      BY <2>4 DEF Claimed
    <3>2. env[w] \in Cell /\ count[env[w]] = 1 /\ \A f \in Cell \X Index : kids[f[1]][f[2]] # env[w]
      BY <2>4, <3>1, SoleFacts
    <3>3. /\ count'[env[w]] = count[env[w]] + Occurs(ArmCopied(e), env[w])
          /\ Occurs(ArmCopied(e), env[w]) \in Nat
          /\ (Occurs(ArmCopied(e), env[w]) > 0 => \E k \in Index : Kid(held[1], k) = env[w])
      BY <1>1, <1>5, <3>2, ArmBalance
    <3>4. \A k \in Index : Kid(held[1], k) # env[w]
      BY <3>2, KidIsShared
    <3>5. Occurs(ArmCopied(e), env[w]) = 0
      BY <3>3, <3>4
    <3> QED
      BY <3>2, <3>3, <3>5
  <2> HIDE DEF kinds
  <2> QED
    BY <1>1, <1>2, <1>3, <2>3, <2>4, LeftSole
<1> QED
  BY <1>1, <1>4, <1>5

(* Nothing changes.                                                        *)
LEMMA StutterSole == Inv /\ Sole /\ UNCHANGED vars => Sole'
<1> SUFFICES ASSUME Inv, Sole, UNCHANGED vars PROVE Sole'
  OBVIOUS
<1>1. /\ prog' = prog /\ optimize' = optimize /\ plan' = plan /\ env' = env /\ count' = count
      /\ block' = block /\ site' = site /\ stage' = stage /\ edge' = edge /\ todo' = todo
      /\ pending' = pending /\ held' = held
  BY DEF vars, planned, control, heap
<1>2. expr' = expr /\ here' = here
  BY <1>1 DEF expr, here
<1>3. Keep' = Keep
  BY <1>1, <1>2 DEF Keep, LiveAt, Managed, term, AtTerm, Returns
<1>4. Claimed' = Claimed
  BY <1>1, <1>2, <1>3 DEF Claimed, Due, Consuming
<1> QED
  BY <1>1, <1>4, ControlSole

(* The parameters of the entry are not fresh: nothing in the function      *)
(* defines them.                                                           *)
LEMMA InitSole == Init => Sole
<1> SUFFICES ASSUME Init PROVE Sole
  OBVIOUS
<1>1. Inv
  BY InitInv
<1>2. /\ stage = "entry" /\ block = Len(prog.params) /\ todo = Releases(plan.entry[block])
  BY DEF Init
<1>3. /\ WellFormed(prog) /\ plan = Plan(prog, optimize) /\ block \in Blocks(prog)
      /\ plan.managed = Managed /\ plan.after[block] = After(prog, block)
  BY <1>1, Here DEF Inv, Typed
<1>4. Claimed \subseteq Params(prog, block)
  <2>1. Expected(plan, block) = Params(prog, block) \cap Classify(prog)
    BY <1>2, <1>3, EntryPlan
  <2>2. Keep = LiveAt(0) \cap Managed /\ Due = plan.entry[block] /\ Consuming = {}
    BY <1>2 DEF Keep, Due, Consuming, Releases
  <2>3. Expected(plan, block) = Keep \cup Due
    BY <1>3, <2>2 DEF Expected, LiveAt
  <2> QED
    BY <2>1, <2>2, <2>3 DEF Claimed
<1>5. ASSUME NEW w \in Params(prog, block), w \in Unshared PROVE FALSE
  <2> DEFINE fresh == SolveOrigins(prog)
  <2>1. FreshBy(prog, w, fresh)
    BY <1>1, <1>5, UnsharedIsManaged
  <2> HIDE DEF fresh
  <2>2. OnlyHere(prog, block) /\ \A b \in Blocks(prog) : block \notin Successors(prog, b)
    BY <1>2, <1>3 DEF WellFormed, EnteredOnce
  <2>3. ASSUME NEW s \in Insts(prog), ResultOf(prog, s[1], s[2]) = w PROVE FALSE
    <3>1. Shaped(prog)
      BY <1>3 DEF WellFormed
    <3>2. s \in AllSites(prog) /\ s[2] < Last(prog, s[1])
      BY <2>3 DEF Insts
    <3>3. s[1] \in Blocks(prog) /\ s[2] \in Sites(prog, s[1])
      BY <3>1, <3>2, SitesFinite
    <3>4. s[2] \in DOMAIN prog.insts[s[1]]
      BY <3>1, <3>2, <3>3, Shapes
    <3> QED
      BY <1>5, <2>2, <2>3, <3>3, <3>4 DEF OnlyHere, ResultOf
  <2>4. ASSUME NEW e \in Blocks(prog) \X Blocks(prog), w \in Params(prog, e[2]), e[2] \in Successors(prog, e[1])
        PROVE  FALSE
    <3>1. e[2] # block /\ e[2] \in Blocks(prog)
      BY <2>2, <2>4
    <3>2. Params(prog, e[2]) \cap Params(prog, block) = {}
      BY <2>2, <3>1 DEF OnlyHere
    <3> QED
      BY <1>5, <2>4, <3>2
  <2> QED
    BY <2>1, <2>3, <2>4 DEF FreshBy
<1> QED
  BY <1>4, <1>5 DEF Sole

-----------------------------------------------------------------------------
(* Sole ownership holds; a unique move moves out of the only owner.        *)

(* Every step keeps sole ownership.                                        *)
LEMMA NextSole == Inv /\ Sole /\ [Next]_vars => Sole'
<1> SUFFICES ASSUME Inv, Sole, [Next]_vars PROVE Sole'
  OBVIOUS
<1>1. CASE UNCHANGED vars
  BY <1>1, StutterSole
<1>2. CASE Reap
  BY <1>2, ReapSole
<1>3. CASE RetainOp
  BY <1>3, RetainSole
<1>4. CASE ReleaseOp
  BY <1>4, ReleaseSole
<1>5. CASE EnterBlock
  BY <1>5, EnterBlockSole
<1>6. CASE StartSite
  BY <1>6, StartSiteSole
<1>7. CASE StartEval
  BY <1>7, StartEvalSole
<1>8. ASSUME NEW k \in pending, Operand(k) PROVE Sole'
  BY <1>8, OperandSole
<1>9. CASE Alias
  BY <1>9, AliasSole
<1>10. CASE Scalar
  BY <1>10, ScalarSole
<1>11. CASE Project
  BY <1>11, ProjectSole
<1>12. CASE LoadPooled
  BY <1>12, LoadPooledSole
<1>13. CASE Make
  BY <1>13, MakeSole
<1>14. CASE Call
  BY <1>14, CallSole
<1>15. CASE Returning
  BY <1>15, ReturningSole
<1>16. CASE Goto
  BY <1>16, GotoSole
<1>17. CASE Branch
  BY <1>17, BranchSole
<1>18. CASE Match
  BY <1>18, MatchSole
<1>19. CASE CallOrPerform
  BY <1>19, CallOrPerformSole
<1>20. CASE NextSite
  BY <1>20, NextSiteSole
<1>21. CASE Finish
  BY <1>21, FinishSole
<1>22. CASE TakeEdge
  BY <1>22, TakeEdgeSole
<1>23. CASE CrossEdge
  BY <1>23, CrossEdgeSole
<1>24. CASE Stopped
  BY <1>24, StutterSole DEF Stopped
<1> QED
  BY <1>1, <1>2, <1>3, <1>4, <1>5, <1>6, <1>7, <1>8, <1>9, <1>10, <1>11, <1>12, <1>13, <1>14, <1>15,
     <1>16, <1>17, <1>18, <1>19, <1>20, <1>21, <1>22, <1>23, <1>24 DEF Next

SoleInv == Inv /\ Sole

(* In optimized plans, a value that the planner calls fresh and that has   *)
(* one use owns its cell alone from its definition to that use:            *)
(* mark_unique_borrows and take modes rest on this.                        *)
THEOREM FreshValuesAreSole == Spec => []SoleInv
<1>1. Init => SoleInv
  BY InitInv, InitSole DEF SoleInv
<1>2. SoleInv /\ [Next]_vars => SoleInv'
  <2>1. SUFFICES ASSUME SoleInv, [Next]_vars PROVE SoleInv'
    OBVIOUS
  <2>2. Inv /\ Sole
    BY <2>1 DEF SoleInv
  <2>3. Inv'
    BY <2>1, <2>2, NextInv
  <2>4. Sole'
    BY <2>1, <2>2, NextSole
  <2> QED
    BY <2>3, <2>4 DEF SoleInv
<1> QED
  BY <1>1, <1>2, PTL DEF Spec

(* The scrutinee of a match that is not read later is due for its release. *)
LEMMA Scrutinee ==
    ASSUME Inv, At("eval"), pending = {}, AtTerm, term.kind = "match", NEW e \in DOMAIN plan.mode[block]
    PROVE  LET u == expr.args[1].val
           IN  /\ Evaluated({"read"}) /\ e \in DOMAIN term.succ /\ e # Len(term.succ)
               /\ held[1] = env[u] /\ DirectValue(term.expr) = {u}
               /\ u \notin Managed => held[1] \notin Cell
               /\ u \in Managed => u \in Keep \cup Due
               /\ \A k \in DOMAIN plan.mode[block][e] :
                     plan.mode[block][e][k] \in {"Move", "MoveUnique"} =>
                        /\ optimize /\ u \notin LiveAt(site)
                        /\ plan.mode[block][e][k] = "MoveUnique" => u \in Unshared
<1> DEFINE u == expr.args[1].val
           kinds == {"read"}
<1>1. Placed /\ stage = "eval" /\ site # 0
  BY DEF At, Inv, Typed, Placed
<1>2. /\ WellFormed(prog) /\ Shaped(prog) /\ plan = Plan(prog, optimize) /\ block \in Blocks(prog)
  BY <1>1, Here
<1>3. /\ TermShape(prog, term) /\ expr = term.expr /\ site \in Sites(prog, block)
      /\ here = PlannedAt(prog, optimize, block, site) /\ Defs(prog, block, site) = {}
  BY <1>1, AtSite
<1>4. /\ expr.kind = "read" /\ Named(expr) /\ Len(expr.args) = 1 /\ expr.args \in Seq(Occurrence)
  BY <1>3 DEF TermShape
<1>5. Evaluated(kinds)
  BY <1>4 DEF Evaluated
<1>6. /\ IsArm(prog, block, e) /\ e \in DOMAIN term.succ
      /\ \A k \in DOMAIN plan.mode[block][e] :
            plan.mode[block][e][k] = Mode(prog, optimize, Classify(prog), SolveOrigins(prog), Afters(prog), block,
                                          prog.params[prog.term[block].succ[e]][k], prog.term[block].succ[e])
  BY <1>2, ArmModes DEF term
<1>7. e # Len(term.succ)
  <2>1. e < Len(term.succ) /\ term.succ \in Seq(Blocks(prog))
    BY <1>3, <1>6 DEF IsArm, TermShape, term
  <2> QED
    BY <2>1
<1>8. /\ 1 \in DOMAIN expr.args /\ DOMAIN expr.args = {1} /\ expr.args[1].via = "direct" /\ held[1] = env[u]
      /\ u \notin Managed => held[1] \notin Cell
  BY <1>5, <1>6, <1>7, ArmFacts
<1>9. DirectValue(term.expr) = {u}
  BY <1>3, <1>4, <1>8 DEF DirectValue
<1>10. expr = ExprAt(prog, block, site)
  BY DEF expr
<1>11. ASSUME u \in Managed PROVE u \in Keep \cup Due
  <2>1. Role(expr, 1) = "Read"
    BY <1>4, <1>8 DEF Role
  <2>2. With(prog, block, site, u, "Owned") = {}
    <3>1. \A k \in DOMAIN expr.args : k = 1
      BY <1>8
    <3>2. "Read" # "Owned"
      OBVIOUS
    <3> QED
      BY <1>10, <2>1, <3>1, <3>2 DEF With
  <2>3. \/ u \in After(prog, block)[site] \ Defs(prog, block, site)
        \/ u \in here.late \ Defs(prog, block, site)
    <3>1. LET h == PlannedAt(prog, optimize, block, site)
              v == ExprAt(prog, block, site).args[1].val
          IN  \/ With(prog, block, site, v, "Owned") # {}
              \/ v \in After(prog, block)[site] \ Defs(prog, block, site)
              \/ v \in h.late \ Defs(prog, block, site)
      BY <1>2, <1>3, <1>8, <1>10, <1>11, <2>1, ReadPlan DEF Managed
    <3> QED
      BY <1>3, <1>10, <2>2, <3>1
  <2> QED
    BY <1>1, <1>11, <2>3 DEF Keep, Due, LiveAt
<1>12. ASSUME NEW k \in DOMAIN plan.mode[block][e], plan.mode[block][e][k] \in {"Move", "MoveUnique"}
       PROVE  /\ optimize /\ u \notin LiveAt(site)
              /\ plan.mode[block][e][k] = "MoveUnique" => u \in Unshared
  <2> DEFINE binder == prog.params[prog.term[block].succ[e]][k]
             target == prog.term[block].succ[e]
             fresh == SolveOrigins(prog)
             managed == Classify(prog)
  <2>1. Mode(prog, optimize, managed, fresh, Afters(prog), block, binder, target) \in {"Move", "MoveUnique"}
        /\ plan.mode[block][e][k] = Mode(prog, optimize, managed, fresh, Afters(prog), block, binder, target)
    BY <1>6, <1>12
  <2> HIDE DEF binder, target, fresh, managed
  <2>2. /\ optimize /\ DirectValue(prog.term[block].expr) \cap Afters(prog)[block][Last(prog, block)] = {}
        /\ plan.mode[block][e][k] = "MoveUnique" =>
              \E v \in DirectValue(prog.term[block].expr) : UniqueAt(prog, fresh, v, block, Last(prog, block))
    BY <2>1 DEF Mode
  <2>3. Afters(prog)[block][Last(prog, block)] = LiveAt(site)
    BY <1>2 DEF Afters, LiveAt, AtTerm
  <2>4. u \notin LiveAt(site)
    BY <1>9, <2>2, <2>3 DEF term
  <2>5. ASSUME plan.mode[block][e][k] = "MoveUnique" PROVE u \in Unshared
    <3>1. UniqueAt(prog, fresh, u, block, Last(prog, block))
      BY <1>9, <2>2, <2>5 DEF term
    <3>2. u \in fresh /\ \E o : UsesOf(prog, u) = {o}
      BY <3>1 DEF UniqueAt
    <3>3. UsedOnce(prog, u)
      <4>1. PICK o : UsesOf(prog, u) = {o}
        BY <3>2
      <4>2. o \in Occurrences(prog)
        BY <4>1 DEF UsesOf
      <4> QED
        BY <4>1, <4>2 DEF UsedOnce
    <3> QED
      BY <3>2, <3>3 DEF Unshared, fresh
  <2> QED
    BY <2>2, <2>4, <2>5
<1> HIDE DEF u
<1> QED
  BY <1>5, <1>6, <1>7, <1>8, <1>9, <1>11, <1>12 DEF u

(* At a match that moves its scrutinee's fields out uniquely, the          *)
(* scrutinee is such a value, and nothing else holds the cell.             *)
LEMMA UniqueOwner == SoleInv => UniqueIsSole
<1> SUFFICES ASSUME Inv, Sole, At("eval"), pending = {}, AtTerm, term.kind = "match", held[1] # Unit,
                    NEW e \in DOMAIN plan.mode[block],
                    NEW k \in DOMAIN plan.mode[block][e], plan.mode[block][e][k] = "MoveUnique"
             PROVE  held[1] \in Cell /\ count[held[1]] = 1
  BY DEF UniqueIsSole, SoleInv
<1> DEFINE u == expr.args[1].val
<1>1. /\ held[1] = env[u]
      /\ u \in Managed => u \in Keep \cup Due
      /\ plan.mode[block][e][k] \in {"Move", "MoveUnique"} =>
                        /\ optimize /\ u \notin LiveAt(site)
                        /\ plan.mode[block][e][k] = "MoveUnique" => u \in Unshared
  BY Scrutinee
<1> HIDE DEF u
<1>2. optimize /\ u \in Unshared
  BY <1>1
<1>3. u \in Claimed
  BY <1>1, <1>2, UnsharedIsManaged DEF Claimed
<1>4. env[u] \in Cell /\ count[env[u]] = 1
  BY <1>2, <1>3, SoleFacts
<1> QED
  BY <1>1, <1>4

(* Wherever a plan says that a match may move fields out without testing   *)
(* the count, the count is one.                                            *)
THEOREM UniqueMovesAreSole == Spec => []UniqueIsSole
<1> QED
  BY FreshValuesAreSole, UniqueOwner, PTL

-----------------------------------------------------------------------------
(* Fields are taken only from what is dead.                                *)

(* What a step takes out of a cell that is counted.                        *)
Takes(c) == count[c] > 0 /\ kids'[c] # kids[c]
Dead(c) == count[c] = 1 /\ others[c] = 0 /\ \A v \in plan.after[block][site] : env[v] # c

(* A cell that is made was not counted.                                    *)
LEMMA AllocateTakesNothing ==
    ASSUME Inv, NEW fields, NEW counts, Allocate(fields, counts), NEW c \in Cell
    PROVE  ~Takes(c)
<1>1. SUFFICES ASSUME Takes(c) PROVE FALSE
  OBVIOUS
<1>2. /\ kids' = [kids EXCEPT ![born + 1] = [i \in Index |-> IF i \in DOMAIN fields THEN fields[i] ELSE Unit]]
      /\ kids \in [Cell -> [Index -> Ref]] /\ count[c] > 0 /\ kids'[c] # kids[c]
  BY <1>1 DEF Allocate, Takes, Inv, Typed, HeapTyped
<1>3. c = born + 1
  BY <1>2
<1>4. c <= born
  BY <1>2, Numbers
<1>5. born \in Nat
  BY DEF Inv, Typed, HeapTyped
<1> QED
  BY <1>3, <1>4, <1>5

(* A call takes no field out of a cell that stays counted.                 *)
LEMMA CalledTakesNothing ==
    ASSUME Inv, NEW args, NEW res, Called(args, res), NEW c \in Cell
    PROVE  ~Takes(c)
<1>1. CASE kids' = kids
  BY <1>1 DEF Takes
<1>2. CASE Allocate(<<>>, Dropped(args))
  BY <1>2, AllocateTakesNothing
<1> QED
  BY <1>1, <1>2 DEF Called

(* Nor does reaping.                                                       *)
LEMMA ReapTakesNothing ==
    ASSUME Inv, Reap, NEW c \in Cell
    PROVE  ~Takes(c)
<1> DEFINE z == Least(zombies)
<1>1. /\ zombies # {} /\ kids' = [kids EXCEPT ![z] = [i \in Index |-> Unit]]
  BY DEF Reap
<1>2. zombies \in SUBSET Nat /\ kids \in [Cell -> [Index -> Ref]] /\ \A d \in zombies : count[d] = 0
  BY Cells DEF Inv, Typed, HeapTyped
<1>3. z \in zombies
  BY <1>1, <1>2, LeastMember
<1> HIDE DEF z
<1>4. count[z] = 0
  BY <1>2, <1>3
<1> QED
  BY <1>1, <1>2, <1>4 DEF Takes

(* An arm: a field is taken from the scrutinee, which is not read later.   *)
LEMMA MatchTakesDead ==
    ASSUME Inv, Sole, Match, NEW c \in Cell, Takes(c)
    PROVE  Dead(c)
<1>1. PICK e \in DOMAIN term.succ :
              /\ AtTerm /\ Evaluated({"read"}) /\ term.kind = "match"
              /\ \/ e = Len(term.succ) /\ kids' = kids
                 \/ e # Len(term.succ) /\ kids' = ArmKids(e)
  BY MatchCases
<1>2. e # Len(term.succ) /\ kids' = ArmKids(e)
  BY <1>1 DEF Takes
<1>3. At("eval") /\ pending = {} /\ Placed /\ stage = "eval" /\ site # 0
  BY <1>1 DEF Evaluated, At, Inv, Typed, Placed
<1>4. e \in DOMAIN plan.mode[block]
  <2>1. /\ Shaped(prog) /\ plan = Plan(prog, optimize) /\ block \in Blocks(prog) /\ TermShape(prog, term)
    BY <1>1, <1>3, Here, AtSite
  <2>2. term.succ \in Seq(Blocks(prog))
    BY <2>1 DEF TermShape
  <2>3. e < Len(term.succ)
    BY <1>2, <2>2
  <2>4. IsArm(prog, block, e)
    BY <1>1, <2>3 DEF IsArm, term
  <2> QED
    BY <2>1, <2>4, ArmHasModes DEF term
<1>5. c = held[1] /\ \E k \in Index : k \in ArmTaken(e)
  <2>1. kids \in [Cell -> [Index -> Ref]]
    BY DEF Inv, Typed, HeapTyped
  <2>2. kids'[c] = [i \in Index |-> IF c = held[1] /\ i \in ArmTaken(e) THEN Unit ELSE kids[c][i]]
    BY <1>2 DEF ArmKids
  <2>3. kids'[c] # kids[c]
    BY DEF Takes
  <2>4. kids[c] = [i \in Index |-> kids[c][i]]
    BY <2>1
  <2>5. CASE \A i \in Index : ~(c = held[1] /\ i \in ArmTaken(e))
    <3>1. kids'[c] = [i \in Index |-> kids[c][i]]
      BY <2>2, <2>5
    <3> QED
      BY <2>3, <2>4, <3>1
  <2> QED
    BY <2>5
<1>6. PICK k \in Index : k \in ArmTaken(e)
  BY <1>5
<1>7. /\ k \in DOMAIN plan.mode[block][e] /\ plan.mode[block][e][k] \in {"Move", "MoveUnique"}
      /\ plan.mode[block][e][k] = "MoveUnique" \/ count[c] = 1
  BY <1>5, <1>6 DEF ArmTaken
<1> DEFINE u == expr.args[1].val
<1>8. /\ held[1] = env[u]
      /\ u \notin Managed => held[1] \notin Cell
      /\ u \in Managed => u \in Keep \cup Due
      /\ u \notin LiveAt(site)
  BY <1>1, <1>3, <1>4, <1>7, Scrutinee
<1>9. count[c] = 1
  <2>1. CASE plan.mode[block][e][k] = "MoveUnique"
    <3>1. UniqueIsSole
      BY UniqueOwner DEF SoleInv
    <3>2. held[1] # Unit
      BY <1>5, Cells
    <3> QED
      BY <1>1, <1>3, <1>4, <1>5, <1>7, <2>1, <3>1, <3>2 DEF UniqueIsSole
  <2> QED
    BY <1>7, <2>1
<1> HIDE DEF u
<1>10. u \in Keep \cup Due /\ env[u] = c
  BY <1>5, <1>8
<1>11. Keep = LiveAt(site) \cap Managed
  BY <1>1, AtEnd
<1>12. others[c] = 0
  BY <1>9, <1>10, OneOwner
<1>13. ASSUME NEW v \in LiveAt(site), env[v] = c PROVE FALSE
  <2>1. CASE v \in Managed
    <3>1. v \in Keep
      BY <1>11, <1>13, <2>1
    <3>2. v = u
      BY <1>9, <1>10, <1>13, <3>1, OneOwner
    <3> QED
      BY <1>8, <1>13, <3>2
  <2>2. CASE v \notin Managed
    <3>1. Shaped(prog) /\ block \in Blocks(prog) /\ site \in 0 .. Last(prog, block)
      BY <1>3, Here DEF Placed
    <3>2. v \in Reads(prog)
      BY <1>13, <3>1, LiveIsRead DEF LiveAt
    <3> QED
      BY <1>13, <2>2, <3>2 DEF Inv, Scalars
  <2> QED
    BY <2>1, <2>2
<1>14. plan.after[block][site] = LiveAt(site)
  BY <1>3, Here DEF LiveAt
<1> QED
  BY <1>9, <1>12, <1>13, <1>14 DEF Dead

(* Only a match arm takes a field out of a counted cell, and its scrutinee *)
(* is dead.                                                                *)
LEMMA StepTakesDead ==
    ASSUME Inv, Sole, [Next]_vars, NEW c \in Cell, Takes(c)
    PROVE  Dead(c)
<1>1. CASE kids' = kids
  BY <1>1 DEF Takes
<1>2. CASE Reap
  BY <1>2, ReapTakesNothing
<1>3. ASSUME NEW k \in pending, Operand(k) PROVE Dead(c)
  <2>1. \/ kids' = kids
        \/ \E res \in Results(<<env[expr.args[k].val]>>) : Called(<<env[expr.args[k].val]>>, res)
    BY <1>3 DEF Operand, heap
  <2> QED
    BY <1>1, <2>1, CalledTakesNothing
<1>4. CASE Make
  BY <1>4, AllocateTakesNothing DEF Make
<1>5. CASE Call
  <2>1. PICK res \in Results(CallArgs) : Called(CallArgs, res)
    BY <1>5 DEF Call, CallArgs
  <2> QED
    BY <2>1, CalledTakesNothing
<1>6. CASE CallOrPerform
  <2>1. PICK res \in Results(held) : Called(held, res)
    BY <1>6 DEF CallOrPerform
  <2> QED
    BY <2>1, CalledTakesNothing
<1>7. CASE Match
  BY <1>7, MatchTakesDead
<1>8. CASE RetainOp \/ ReleaseOp \/ EnterBlock \/ StartSite \/ StartEval
  BY <1>1, <1>8 DEF RetainOp, ReleaseOp, EnterBlock, StartSite, StartEval, heap
<1>9. CASE Alias \/ Scalar \/ Project \/ LoadPooled
  BY <1>1, <1>9 DEF Alias, Scalar, Project, LoadPooled, heap
<1>10. CASE Returning \/ Goto \/ Branch
  BY <1>1, <1>10 DEF Returning, Goto, Branch, heap
<1>11. CASE NextSite \/ Finish \/ TakeEdge \/ CrossEdge
  BY <1>1, <1>11 DEF NextSite, Finish, TakeEdge, CrossEdge, heap
<1>12. CASE Stopped \/ UNCHANGED vars
  BY <1>1, <1>12 DEF Stopped, vars, heap
<1> QED
  BY <1>2, <1>3, <1>4, <1>5, <1>6, <1>7, <1>8, <1>9, <1>10, <1>11, <1>12 DEF Next

(* A step that empties a field of a cell that stays counted takes it out   *)
(* of the scrutinee of a match that nothing later reads.                   *)
THEOREM OnlyTheDeadAreTakenFrom == Spec => TakesAreDead
<1>1. SoleInv /\ [Next]_vars
        => [\A c \in Cell : count[c] > 0 /\ kids'[c] # kids[c] =>
               /\ count[c] = 1 /\ others[c] = 0
               /\ \A v \in plan.after[block][site] : env[v] # c]_vars
  <2>1. ASSUME SoleInv, [Next]_vars, NEW c \in Cell, count[c] > 0, kids'[c] # kids[c]
        PROVE  count[c] = 1 /\ others[c] = 0 /\ \A v \in plan.after[block][site] : env[v] # c
    <3>1. Takes(c)
      BY <2>1 DEF Takes
    <3>2. Inv /\ Sole
      BY <2>1 DEF SoleInv
    <3>3. Dead(c)
      BY <2>1, <3>1, <3>2, StepTakesDead
    <3> QED
      BY <3>3 DEF Dead
  <2> QED
    BY <2>1
<1> QED
  BY <1>1, FreshValuesAreSole, PTL DEF Spec, TakesAreDead
=============================================================================
