------------------------------- MODULE Regions --------------------------------
(***************************************************************************)
(* Whether the evidence of a handler may lie on the C stack (region.rs),   *)
(* and the shape of blocks that the answer rests on.                       *)
(***************************************************************************)
EXTENDS Operands, FiniteSets

(* The instructions that open a handler with its region, and that close it.*)
Opening(r) == <<[k |-> "RegionEnter", region |-> r], [k |-> "HandlerEnter", handler |-> r]>>
Closing(r) == <<[k |-> "HandlerExit", handler |-> r], [k |-> "RegionExit", region |-> r]>>

Opens(block, r) == \E i \in DOMAIN block.insts : block.insts[i] = [k |-> "RegionEnter", region |-> r]
Closes(block, r) == \E i \in DOMAIN block.insts : block.insts[i] = [k |-> "RegionExit", region |-> r]

Entries(cfg, r) == {b \in DOMAIN cfg.blocks : Opens(cfg.blocks[b], r)}

(* One step on from the blocks that do not close r.                        *)
Wider(cfg, r, seen) ==
    seen \cup UNION {Elems(cfg.blocks[b].term.succ) :
                       b \in {a \in seen : ~Closes(cfg.blocks[a], r)}}

(* What is reachable from the entries of r without passing a close.        *)
Reached(cfg, r) ==
    LET grow[n \in Nat] == IF n = 0 THEN Entries(cfg, r) ELSE Wider(cfg, r, grow[n - 1])
    IN  grow[Len(cfg.blocks)]

Extent(cfg, r) == {b \in Reached(cfg, r) : ~Closes(cfg.blocks[b], r)}

Bracketed(cfg, r) ==
    /\ Cardinality(Entries(cfg, r)) = 1
    /\ Extent(cfg, r) # Reached(cfg, r)

(* Escapes, had it taken every call to be one that only returns.           *)
FaultyEscapes(cfg, r) ==
    \/ ~Bracketed(cfg, r)
    \/ \E b \in Extent(cfg, r) :
         LET t == cfg.blocks[b].term
         IN  t.k = "Return" \/ (t.k = "Perform" /\ t.eff # cfg.regions[r].effect)

(* Something inside of the region may keep the address of a slot.          *)
Escapes(cfg, r) ==
    \/ ~Bracketed(cfg, r)
    \/ \E b \in Extent(cfg, r) :
         LET t == cfg.blocks[b].term
         IN  \/ t.k = "Return"
             \/ t.k = "Call" /\ t.convention = "Control"
             \/ t.k = "Perform" /\ t.eff # cfg.regions[r].effect

Place(cfg) ==
    [cfg EXCEPT !.regions = [r \in DOMAIN @ |->
       [effect |-> @[r].effect, placement |-> IF Escapes(cfg, r) THEN "Arena" ELSE "Stack"]]]

-----------------------------------------------------------------------------
(* The bracketed shape of what cfg_lower makes.                            *)

(* Sequences, edges and functions that exist.                              *)
IsSeq(s) == s \in Seq(Elems(s))

Wired(cfg) ==
    /\ IsSeq(cfg.blocks) /\ IsSeq(cfg.regions)
    /\ 1 \in DOMAIN cfg.functions
    /\ \A f \in Elems(cfg.functions) : f.entry \in DOMAIN cfg.blocks
    /\ \A r \in DOMAIN cfg.regions : \A e \in cfg.tables[r] : e[2] \in DOMAIN cfg.functions
    /\ \A b \in DOMAIN cfg.blocks :
         LET block == cfg.blocks[b]
             t == block.term
         IN  /\ IsSeq(block.insts)
             /\ Elems(t.succ) \subseteq DOMAIN cfg.blocks
             /\ t.k \in {"Goto", "Call", "Perform"} => 1 \in DOMAIN t.succ
             /\ t.k = "Call" => t.fn \in DOMAIN cfg.functions

(* What opens a handler is a block of its own, and so is what closes it.   *)
Brackets == {"RegionEnter", "HandlerEnter", "HandlerExit", "RegionExit"}

BlockBrackets(cfg) ==
    \A b \in DOMAIN cfg.blocks :
      LET insts == cfg.blocks[b].insts
      IN  (\E i \in DOMAIN insts : insts[i].k \in Brackets) =>
            \E r \in DOMAIN cfg.regions : insts \in {Opening(r), Closing(r)}

(* The blocks at whose start r is open.                                    *)
Inside(cfg, r) == Reached(cfg, r) \ Entries(cfg, r)

(* Whether r is open at a block does not depend on the path to it, and r   *)
(* is not opened again; it is not open where a function starts, nor where  *)
(* one returns; it is closed where it is open; and what is opened inside is*)
(* numbered later and closed before it.                                    *)
IsNested(cfg, r) ==
    LET extent == Extent(cfg, r)
        inside == Inside(cfg, r)
    IN  /\ \A f \in Elems(cfg.functions) : f.entry \notin inside
        /\ \A b \in DOMAIN cfg.blocks :
             LET block == cfg.blocks[b]
             IN  /\ \A t \in Elems(block.term.succ) :
                      /\ t \in inside => b \in extent
                      /\ b \in extent => t \notin Entries(cfg, r)
                 /\ block.term.k = "Return" => b \notin extent
                 /\ Closes(block, r) => b \in inside
                 /\ b \in inside => \A s \in DOMAIN cfg.regions :
                       /\ Opens(block, s) => r < s
                       /\ Closes(block, s) => r <= s

WellNested(cfg) == BlockBrackets(cfg) /\ \A r \in DOMAIN cfg.regions : IsNested(cfg, r)
=============================================================================
