----------------------------- MODULE BlockMachine -----------------------------
(***************************************************************************)
(* Blocks running as the C that is made of them does: frames of calls, the *)
(* runtime's stack of handlers and the regions that hold their evidence. A *)
(* step is an instruction of a block or its terminator.                    *)
(***************************************************************************)
EXTENDS Regions

CONSTANTS
    Cfgs,           \* what the compiler makes of programs, by name
    Inputs          \* arguments of main

(* A program that is compiled has the shape of what cfg_lower makes, and   *)
(* its regions are where region.rs places them.                            *)
ASSUME CfgsAssumption ==
    \A p \in DOMAIN Cfgs :
      Cfgs[p].errors = {} =>
        Wired(Cfgs[p]) /\ WellNested(Cfgs[p]) /\ Place(Cfgs[p]) = Cfgs[p]

ASSUME InputsAssumption == Inputs \subseteq Nat

VARIABLES
    prog, arg,
    cfg,        \* what the compiler made of prog
    frames,     \* of calls: [at, pc, env]
    handlers,   \* the handler stack: [handler, depth]
    slots,      \* open regions of frames: a set of [region, depth]
    outcome

source == <<prog, arg, cfg>>
vars == <<source, frames, handlers, slots, outcome>>

NoInput == -1

(* Outcomes that are no answers.                                           *)
Pending == -2
Refused == -3

Garbage == 77       \* what an uninitialised local holds: LoweringIsValid, none is read

Depth == Len(frames)
frame == frames[Depth]
block == cfg.blocks[frame.at]
inst == block.insts[frame.pc]
term == block.term

Running == outcome = Pending /\ frames # <<>>
AtInst(kind) == Running /\ frame.pc <= Len(block.insts) /\ inst.k = kind
AtTerm(kinds) == Running /\ frame.pc > Len(block.insts) /\ term.k \in kinds

(* The innermost entry of the handler stack that satisfies P; or 0.        *)
Topmost(P(_)) ==
    LET is == {i \in DOMAIN handlers : P(handlers[i])}
    IN  IF is = {} THEN 0 ELSE CHOOSE i \in is : \A j \in is : j <= i

Holds(e) == ValueOf(e, frame.env)
Given == [i \in DOMAIN term.args |-> Holds(term.args[i])]

Put(env, xs, vals) ==
    [v \in DOMAIN env |-> IF v \in Elems(xs) THEN vals[CHOOSE i \in DOMAIN xs : xs[i] = v] ELSE env[v]]

(* A frame at the start of block b, with the parameters of b assigned.     *)
At(f, b, vals) ==
    [f EXCEPT !.at = b, !.pc = 1, !.env = Put(@, cfg.blocks[b].params, vals)]

Entered(f, vals) ==
    At([at |-> 0, pc |-> 1, env |-> [v \in 0 .. cfg.values |-> Garbage]],
       cfg.functions[f].entry, vals)

-----------------------------------------------------------------------------
Refuse ==
    /\ outcome = Pending /\ cfg.errors # {}
    /\ outcome' = Refused
    /\ UNCHANGED <<source, frames, handlers, slots>>

Start ==
    /\ cfg.errors = {}
    /\ arg = NoInput
    /\ arg' \in Inputs
    /\ frames' = <<Entered(1, <<arg'>>)>>
    /\ UNCHANGED <<prog, cfg, handlers, slots, outcome>>

(* Instructions.                                                           *)

Advanced == [frames EXCEPT ![Depth].pc = @ + 1]

Assign ==
    /\ AtInst("Let")
    /\ frames' = [Advanced EXCEPT ![Depth].env[inst.result] = Holds(inst.expr)]
    /\ UNCHANGED <<source, handlers, slots, outcome>>

RegionEnter ==
    /\ AtInst("RegionEnter")
    /\ slots' = slots \cup {[region |-> inst.region, depth |-> Depth]}
    /\ frames' = Advanced
    /\ UNCHANGED <<source, handlers, outcome>>

HandlerEnter ==
    /\ AtInst("HandlerEnter")
    /\ handlers' = Append(handlers, [handler |-> inst.handler, depth |-> Depth])
    /\ frames' = Advanced
    /\ UNCHANGED <<source, slots, outcome>>

(* HandlerExit, had it unwound to its entry without the entry.             *)
FaultyHandlerExit ==
    /\ AtInst("HandlerExit")
    /\ LET i == Topmost(LAMBDA h : h.handler = inst.handler /\ h.depth = Depth)
       IN  handlers' = SubSeq(handlers, 1, i)
    /\ frames' = Advanced
    /\ UNCHANGED <<source, slots, outcome>>

(* Pops the entry that this frame pushed, and everything above it.         *)
HandlerExit ==
    /\ AtInst("HandlerExit")
    /\ LET i == Topmost(LAMBDA h : h.handler = inst.handler /\ h.depth = Depth)
       IN  handlers' = IF i = 0 THEN handlers ELSE SubSeq(handlers, 1, i - 1)
    /\ frames' = Advanced
    /\ UNCHANGED <<source, slots, outcome>>

RegionExit ==
    /\ AtInst("RegionExit")
    /\ slots' = slots \ {[region |-> inst.region, depth |-> Depth]}
    /\ frames' = Advanced
    /\ UNCHANGED <<source, handlers, outcome>>

(* Terminators: to another block of the function, by an edge with          *)
(* arguments or by a selector.                                             *)
Goto ==
    /\ AtTerm({"Goto"})
    /\ frames' = [frames EXCEPT ![Depth] = At(@, term.succ[1], Given)]
    /\ UNCHANGED <<source, handlers, slots, outcome>>

Select ==
    LET n == Len(term.succ)
        arm == CASE term.k = "Switch" -> IF Given[1] \in 0 .. n - 2 THEN Given[1] + 1 ELSE n
                 [] OTHER -> Selected(Given[1], n)
    IN  /\ AtTerm({"Branch", "Match", "Switch"})
        /\ arm \in DOMAIN term.succ
        /\ frames' = [frames EXCEPT ![Depth] = At(@, term.succ[arm], <<>>)]
        /\ UNCHANGED <<source, handlers, slots, outcome>>

(* Calls function f; the frame of the caller waits at its terminator.      *)
Enter(f) ==
    /\ frames' = Append(frames, Entered(f, Given))
    /\ UNCHANGED <<source, handlers, slots, outcome>>

CallFunction == AtTerm({"Call"}) /\ Enter(term.fn)

(* Dispatcher, had it only looked at the handler on top of the stack.      *)
FaultyDispatcher ==
    Topmost(LAMBDA h : h = handlers[Len(handlers)] /\ cfg.regions[h.handler].effect = term.eff)

(* The innermost handler of the effect, and the clause in its table.       *)
Dispatcher == Topmost(LAMBDA h : cfg.regions[h.handler].effect = term.eff)
ClauseOf ==
    IF Dispatcher = 0 THEN {}
    ELSE {e[2] : e \in {t \in cfg.tables[handlers[Dispatcher].handler] : t[1] = term.op}}

Dispatch == AtTerm({"Perform"}) /\ \E f \in ClauseOf : Enter(f)

(* Behind the call or the perform of the caller, or out of main.           *)
Leave ==
    LET caller == frames[Depth - 1]
        site == cfg.blocks[caller.at].term
        vals == IF site.arity = 1 THEN Given ELSE <<>>
    IN  /\ AtTerm({"Return"})
        /\ IF Depth = 1
           THEN frames' = <<>> /\ outcome' = Given[1]
           ELSE /\ frames' = [SubSeq(frames, 1, Depth - 1)
                                EXCEPT ![Depth - 1] = At(caller, site.succ[1], vals)]
                /\ UNCHANGED outcome
        /\ UNCHANGED <<source, handlers, slots>>

Next ==
    \/ Refuse \/ Start
    \/ Assign \/ RegionEnter \/ HandlerEnter \/ HandlerExit \/ RegionExit
    \/ Goto \/ Select \/ CallFunction \/ Dispatch \/ Leave

Init ==
    /\ prog \in DOMAIN Cfgs
    /\ arg = NoInput
    /\ cfg = Cfgs[prog]
    /\ frames = <<>> /\ handlers = <<>> /\ slots = {}
    /\ outcome = Pending

Spec == Init /\ [][Next]_vars /\ WF_vars(Next)

-----------------------------------------------------------------------------
(* The evidence of every handler that a perform could be dispatched to     *)
(* lies in an open region of a frame that has not returned.                *)
EvidenceAlive ==
    \A i \in DOMAIN handlers :
      /\ handlers[i].depth <= Depth
      /\ [region |-> handlers[i].handler, depth |-> handlers[i].depth] \in slots

(* While a region on the C stack is open, the frame that opened it neither *)
(* returns, nor makes a call that may capture a continuation, nor performs *)
(* an effect that is not the region's: the walk over the blocks between    *)
(* the ends of a region has seen all that run there.                       *)
StackPlacement ==
    Running /\ frame.pc > Len(block.insts) =>
      \A s \in slots :
        s.depth = Depth /\ cfg.regions[s.region].placement = "Stack" =>
          /\ term.k # "Return"
          /\ term.k = "Call" => term.convention # "Control"
          /\ term.k = "Perform" => term.eff = cfg.regions[s.region].effect
=============================================================================
