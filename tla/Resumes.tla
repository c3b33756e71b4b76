------------------------------- MODULE Resumes --------------------------------
(***************************************************************************)
(* How a handler clause uses its resumption, and what lowering does with   *)
(* the clause on account of it (linearize/analysis.rs).                    *)
(***************************************************************************)
EXTENDS Core

(* An effect reaches s through a call that s makes, or that a clause which *)
(* will be spliced into s makes.                                           *)
RECURSIVE CallsPerforming(_, _, _)
CallsPerforming(p, s, eff) ==
    CASE s.k = "Call" -> eff \in CallRow(p, s) \/ CallsPerforming(p, s.next, eff)
      [] s.k = "Handle" ->
           LET inner == p.handlers[s.handler]
           IN  /\ inner.effect # eff
               /\ \E t \in {s.body} \cup ClauseBodies(inner) : CallsPerforming(p, t, eff)
      [] OTHER -> \E t \in Children(s) : CallsPerforming(p, t, eff)

Performs(s, eff) == \E t \in Graph(s) : t.k = "Perform" /\ t.eff = eff

(* Splices, had it been asked of the first statement alone.                *)
FaultySplices(s, effects, resume) ==
    \/ s.k = "Perform" /\ s.eff \in effects
    \/ s.k = "Resume" /\ s.resume = resume

(* Lowering s splices a continuation into it: that of a perform which one  *)
(* of the handlers answers, or of a resume of the clause in force.  The    *)
(* body of a handle is not looked into.                                    *)
RECURSIVE Splices(_, _, _)
Splices(s, effects, resume) ==
    \/ s.k = "Perform" /\ s.eff \in effects
    \/ s.k = "Resume" /\ s.resume = resume
    \/ s.k # "Handle" /\ \E t \in Children(s) : Splices(t, effects, resume)

-----------------------------------------------------------------------------
(* Uses of a resumption on one path: 0, 1, or 2 for many.                  *)

Capped(n) == IF n > 2 THEN 2 ELSE n
Least(a, b) == IF a < b THEN a ELSE b
Most(a, b) == IF a > b THEN a ELSE b

NoUse == [min |-> 0, max |-> 0]
BothUses(a, b) == [min |-> Capped(a.min + b.min), max |-> Capped(a.max + b.max)]
EitherUse(a, b) == [min |-> Least(a.min, b.min), max |-> Most(a.max, b.max)]

RECURSIVE UseRange(_, _), UsesOfArms(_, _)
UseRange(s, r) ==
    CASE s.k = "Return" -> NoUse
      [] s.k \in {"Let", "Call", "Perform"} -> UseRange(s.next, r)
      [] s.k = "Val" -> BothUses(UseRange(s.value, r), UseRange(s.next, r))
      [] s.k = "Resume" ->
           BothUses(IF s.resume = r THEN [min |-> 1, max |-> 1] ELSE NoUse, UseRange(s.next, r))
      [] s.k = "If" -> UsesOfArms(s.arms, r)
      [] s.k = "Match" -> EitherUse(NoUse, UsesOfArms(s.arms, r))
      [] s.k = "Handle" -> UseRange(s.body, r)
UsesOfArms(arms, r) ==
    IF Len(arms) = 1 THEN UseRange(arms[1], r)
    ELSE EitherUse(UseRange(Head(arms), r), UsesOfArms(Tail(arms), r))

Mentions(s, r) ==
    \E t \in Graph(s) : r \in Reads(t) \/ (t.k = "Resume" /\ t.resume = r)

(* Every path ends by returning what the resumption returned.              *)
RECURSIVE TailResumptive(_, _)
TailResumptive(s, r) ==
    CASE s.k \in {"Return", "Call", "Perform", "Handle"} -> FALSE
      [] s.k = "Let" -> r \notin Reads(s) /\ TailResumptive(s.next, r)
      [] s.k = "Val" ->
           IF IsReturnOf(s.next, s.bind) THEN TailResumptive(s.value, r)
           ELSE ~Mentions(s.value, r) /\ TailResumptive(s.next, r)
      [] s.k = "Resume" -> s.resume = r /\ r \notin Reads(s) /\ IsReturnOf(s.next, s.bind)
      [] s.k \in {"If", "Match"} ->
           r \notin Reads(s) /\ \A t \in Arms(s) : TailResumptive(t, r)

ResumeSites(c) == {t \in Graph(c.body) : t.k = "Resume" /\ t.resume = c.resume}

InTail(c) == c.resume = NoVar \/ TailResumptive(c.body, c.resume)

Qualifier(c) ==
    LET range == IF c.resume = NoVar THEN NoUse ELSE UseRange(c.body, c.resume)
    IN  CASE range.max = 2 -> "Multi"
          [] range.max = 0 -> "Abortive"
          [] range.max = 1 /\ range.min = 1 -> "Linear"
          [] OTHER -> "Affine"

Convention(c) ==
    CASE c.resume = NoVar -> "Pure"
      [] c.resume # NoVar /\ Qualifier(c) = "Multi" -> "Control"
      [] c.resume # NoVar /\ Qualifier(c) = "Abortive" -> "Direct"
      [] OTHER -> IF TailResumptive(c.body, c.resume) THEN "Direct" ELSE "Control"

-----------------------------------------------------------------------------
(* One copy of the continuation for every resume of a clause.              *)

(* s reads a variable that is neither in bound nor bound on the way.       *)
RECURSIVE ReadsOutside(_, _, _)
ReadsOutside(p, s, bound) ==
    \/ ~ Reads(s) \subseteq bound
    \/ s.k = "Resume" /\ s.resume \notin bound
    \/ Binds(s) /\ ReadsOutside(p, s.next, bound \cup {s.bind})
    \/ s.k = "Val" /\ ReadsOutside(p, s.value, bound)
    \/ \E t \in Arms(s) : ReadsOutside(p, t, bound)
    \/ /\ s.k = "Handle"
       /\ LET h == p.handlers[s.handler]
          IN  \/ ReadsOutside(p, h.ret, bound \cup {h.param})
              \/ \E c \in Elems(h.clauses) :
                   ReadsOutside(p, c.body, bound \cup Elems(c.params) \cup {c.resume})
              \/ ReadsOutside(p, s.body, bound)

(* {} when code after a resume of r in s reads what one path only defines; *)
(* {found}, whether there is such a resume, otherwise.  What is bound      *)
(* before the first branch is shared by all resumes.                       *)
RECURSIVE CanShare(_, _, _, _, _)
CanShare(p, s, r, shared, branched) ==
    LET before(x) == IF branched THEN shared ELSE shared \cup {x}
    IN  CASE s.k = "Return" -> {FALSE}
          [] s.k \in {"Let", "Call", "Perform"} ->
               CanShare(p, s.next, r, before(s.bind), branched)
          [] s.k = "Val" ->
               LET value == CanShare(p, s.value, r, shared, branched)
                   after == shared \cup {s.bind}
               IN  IF value = {} \/ (TRUE \in value /\ ReadsOutside(p, s.next, after)) THEN {}
                   ELSE {(TRUE \in value \/ next) : next \in
                           CanShare(p, s.next, r,
                                    IF TRUE \in value THEN after ELSE before(s.bind), branched)}
          [] s.k = "Resume" ->
               LET after == shared \cup {s.bind}
               IN  IF s.resume = r /\ ReadsOutside(p, s.next, after) THEN {}
                   ELSE {(s.resume = r \/ next) : next \in CanShare(p, s.next, r, after, branched)}
          [] s.k \in {"If", "Match"} ->
               LET arm(t) == CanShare(p, t, r, shared, TRUE)
               IN  IF \E t \in Arms(s) : arm(t) = {} THEN {}
                   ELSE {\E t \in Arms(s) : TRUE \in arm(t)}
          [] s.k = "Handle" ->
               IF CanShare(p, s.body, r, shared, TRUE) = {FALSE} THEN {FALSE} ELSE {}

Shareable(p, c) == CanShare(p, c.body, c.resume, Elems(c.params) \cup {c.resume}, FALSE) # {}

-----------------------------------------------------------------------------
(* The policy for a clause.                                                *)

(* A perform in the handled body itself is replaced by the clause.         *)
ErasePolicy(p, c) ==
    CASE Cardinality(ResumeSites(c)) <= 1 -> "Inline"
      [] Cardinality(ResumeSites(c)) > 1 /\ InTail(c) -> "Join"
      [] OTHER -> IF Qualifier(c) # "Multi" /\ Shareable(p, c) THEN "Defunctionalise" ELSE "Inline"

CapturesEnvironment(c) ==
    LET stmts == Graph(c.body)
        bound == Elems(c.params) \cup {c.resume} \cup {t.bind : t \in {u \in stmts : Binds(u)}}
    IN  \E t \in stmts : ~ Reads(t) \subseteq bound \/ (t.k = "Resume" /\ t.resume \notin bound)

(* Why a clause cannot be a function that the runtime dispatches to.       *)
Blockers(p, h, c) ==
    (IF c.resume = NoVar \/ Qualifier(c) = "Abortive" THEN {"Abortive"} ELSE {})
    \cup (IF c.resume # NoVar /\ Qualifier(c) = "Multi" THEN {"MultiShot"} ELSE {})
    \cup (IF ~InTail(c) THEN {"NotTailResumptive"} ELSE {})
    \cup (IF CapturesEnvironment(c) THEN {"CapturesEnvironment"} ELSE {})
    \cup (IF Performs(c.body, h.effect) \/ CallsPerforming(p, c.body, h.effect)
          THEN {"ReentersHandler"} ELSE {})
=============================================================================
