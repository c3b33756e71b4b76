-------------------------------- MODULE Effects -------------------------------
(***************************************************************************)
(* What the compiler promises for a program: it answers what the program   *)
(* means, or refuses it for a reason that the program has.                 *)
(***************************************************************************)
EXTENDS Resumes

CONSTANTS
    Programs,       \* well-formed Core programs, by name
    Inputs          \* arguments of main

VARIABLES prog, arg, outcome
vars == <<prog, arg, outcome>>

NoInput == -1

Pending == -2
Refused == -3

M == INSTANCE Meaning

Handles(p) ==
    LET bodies == {f.body : f \in Elems(p.funcs)} \cup UNION {ClauseBodies(h) : h \in Elems(p.handlers)}
    IN  {s \in UNION {Graph(b) : b \in bodies} : s.k = "Handle"}

(* A clause resumes twice on a path, or only the runtime can dispatch an   *)
(* effect of a handler that has a clause which cannot be dispatched to.    *)
MayRefuse(p) ==
    \/ \E h \in Elems(p.handlers) : \E c \in Elems(h.clauses) : Qualifier(c) = "Multi"
    \/ \E s \in Handles(p) :
         LET h == p.handlers[s.handler]
         IN  /\ CallsPerforming(p, s.body, h.effect)
             /\ \E c \in Elems(h.clauses) : Blockers(p, h, c) # {}

Init ==
    /\ prog \in DOMAIN Programs
    /\ arg = NoInput
    /\ outcome = Pending

Start ==
    /\ outcome = Pending /\ arg = NoInput
    /\ arg' \in Inputs
    /\ UNCHANGED <<prog, outcome>>

Answer ==
    /\ outcome = Pending /\ arg \in Inputs
    /\ outcome' \notin {Pending, Refused}
    /\ outcome' = M!Meaning(Programs[prog], arg)
    /\ UNCHANGED <<prog, arg>>

Refuse ==
    /\ outcome = Pending /\ arg = NoInput
    /\ outcome' = Refused
    /\ MayRefuse(Programs[prog])
    /\ UNCHANGED <<prog, arg>>

Next == Start \/ Answer \/ Refuse

Spec == Init /\ [][Next]_vars
=============================================================================
