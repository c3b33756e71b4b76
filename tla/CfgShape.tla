------------------------------ MODULE CfgShape ------------------------------
(***************************************************************************)
(* What the passes of cielo-memory take for granted of the programs that   *)
(* they get: what CfgProgram::validate checks, and what cfg_lower.rs makes *)
(* so.  CfgArc.tla assumes it of the programs it runs.                     *)
(***************************************************************************)
EXTENDS CfgPlan

Occurrence == [val : Value, via : {"direct", "field", "call"}]
Named(e) == \A k \in DOMAIN e.args : e.args[k].via = "direct"
Reads(p) == UNION {UNION {Uses(p, b, i) : i \in Sites(p, b)} : b \in Blocks(p)}

(* An operand that is only read is given a name first (lower_borrowed).    *)
InstShape(in) ==
    /\ in.kind \in {"let", "eval"} /\ in.result \in Value
    /\ in.expr.args \in Seq(Occurrence)
    /\ in.result \notin {o.val : o \in Elems(in.expr.args)}
    /\ \/ in.expr.kind = "value" /\ in.kind = "let" /\ Len(in.expr.args) = 1 /\ Named(in.expr)
       \/ in.expr.kind = "read" /\ Named(in.expr)
       \/ in.expr.kind = "field" /\ Len(in.expr.args) = 1 /\ Named(in.expr)
       \/ in.expr.kind = "pooled" /\ in.expr.args = <<>>
       \/ in.expr.kind = "make" /\ Len(in.expr.args) <= 2
       \/ in.expr.kind = "call"
       \/ in.expr.kind = "closure" /\ in.expr.args # <<>> /\ in.expr.args[1].via = "direct"

(* The arity of each edge (validate), and what is named.                   *)
TermShape(p, t) ==
    /\ t.expr.args \in Seq(Occurrence) /\ t.succ \in Seq(Blocks(p))
    /\ \/ /\ t.kind = "return" /\ t.expr.kind = "args"
          /\ t.succ = <<>> /\ Len(t.expr.args) = 1
       \/ /\ t.kind = "goto" /\ t.expr.kind = "args"
          /\ Len(t.succ) = 1 /\ Len(t.expr.args) = Len(p.params[t.succ[1]])
       \/ /\ t.kind = "call" /\ t.expr.kind = "args"
          /\ Len(t.succ) = 1 /\ Len(p.params[t.succ[1]]) = 1
       \/ /\ t.kind = "branch" /\ t.expr.kind = "read" /\ Named(t.expr)
          /\ \A j \in DOMAIN t.succ : p.params[t.succ[j]] = <<>>
       \/ /\ t.kind = "match" /\ t.expr.kind = "read" /\ Named(t.expr)
          /\ Len(t.expr.args) = 1 /\ t.succ # <<>>
          /\ \A j \in DOMAIN t.succ :
                Len(p.params[t.succ[j]]) <= (IF j = Len(t.succ) THEN 0 ELSE 2)

(* Blocks are numbered and one is the entry; no value is twice in the      *)
(* parameters of one.                                                      *)
Shaped(p) ==
    /\ Numbered(p) /\ Len(p.params) # 0 /\ p.facts \subseteq Value
    /\ \A b \in Blocks(p) :
         /\ p.params[b] \in Seq(Value)
         /\ \A j, k \in DOMAIN p.params[b] : p.params[b][j] = p.params[b][k] => j = k
         /\ \A i \in DOMAIN p.insts[b] : InstShape(p.insts[b][i])
         /\ TermShape(p, p.term[b])

-----------------------------------------------------------------------------
IsArm(p, b, j) == p.term[b].kind = "match" /\ j < Len(p.term[b].succ)
ArmTargets(p) ==
    UNION {{p.term[b].succ[j] : j \in {k \in DOMAIN p.term[b].succ : IsArm(p, b, k)}} : b \in Blocks(p)}

(* The values that block t takes as parameters are defined nowhere else.   *)
OnlyHere(p, t) ==
    \A b \in Blocks(p) : /\ b # t => Params(p, b) \cap Params(p, t) = {}
                         /\ \A i \in DOMAIN p.insts[b] : p.insts[b][i].result \notin Params(p, t)

(* The wrapper that lowering puts around an arm has no other predecessor,  *)
(* and its binders are made for it.                                        *)
SealedArms(p) ==
    \A t \in ArmTargets(p) :
       /\ t # Len(p.params) /\ OnlyHere(p, t)
       /\ \A b \in Blocks(p) : \A j \in DOMAIN p.term[b].succ :
             p.term[b].succ[j] = t => IsArm(p, b, j)

(* A function is entered by its callers, with the parameters it declares.  *)
EnteredOnce(p) ==
    /\ OnlyHere(p, Len(p.params))
    /\ \A b \in Blocks(p) : Len(p.params) \notin Successors(p, b)

(* check_value_definitions: on no path is a value read before it is        *)
(* defined; a binder is not read where another arm was taken, a parameter  *)
(* not before the edge that assigns it, the result of an eval nowhere.     *)
DefinedWhenRead(p) ==
    LET in == LeastLiveIn(p)
    IN  /\ in[Len(p.params)] = {}
        /\ \A b \in Blocks(p) :
             /\ \A s \in Successors(p, b) : Uses(p, b, Last(p, b)) \cap Params(p, s) = {}
             /\ \A j \in DOMAIN p.term[b].succ :
                  IsArm(p, b, j) => Params(p, p.term[b].succ[j]) \cap OutOf(p, in, b) = {}
             /\ \A i \in DOMAIN p.insts[b] : p.insts[b][i].kind = "eval" => p.insts[b][i].result \notin Reads(p)

(* A value that is not managed is not defined by what may name a cell.     *)
ScalarsAreScalar(p) ==
    LET managed == Classify(p)
    IN  \A b \in Blocks(p) :
          /\ \A i \in DOMAIN p.insts[b] :
               LET in == p.insts[b][i]
               IN  in.kind = "let" /\ in.result \notin managed =>
                     /\ in.expr.kind # "closure"
                     /\ in.expr.kind = "field" => in.expr.args[1].val \notin managed
          /\ p.term[b].kind = "call" => Params(p, p.term[b].succ[1]) \subseteq managed
          /\ p.term[b].kind = "goto" =>
               \A k \in DOMAIN p.term[b].expr.args :
                  LET o == p.term[b].expr.args[k]
                  IN  o.via = "field" /\ o.val \in managed => p.params[p.term[b].succ[1]][k] \in managed

(* Successors are lowered first, and the sites that share a continuation   *)
(* are on different paths: no path comes back to a block.                  *)
Acyclic(p) ==
    \A S \in SUBSET Blocks(p) : S # {} => \E b \in S : Successors(p, b) \cap S = {}

(* No site reads a value that a call nested in the same site consumes.     *)
Unnested(p) ==
    \A b \in Blocks(p) : \A i \in Sites(p, b) :
       LET e == ExprAt(p, b, i)
       IN  \A j, k \in DOMAIN e.args :
              e.args[j].via = "call" /\ Role(e, k) = "Read" => e.args[j].val # e.args[k].val

WellFormed(p) ==
    Shaped(p) /\ SealedArms(p) /\ EnteredOnce(p) /\ DefinedWhenRead(p) /\ ScalarsAreScalar(p) /\ Acyclic(p)
=============================================================================
