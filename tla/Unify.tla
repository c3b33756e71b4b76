--------------------------------- MODULE Unify ---------------------------------
(***************************************************************************)
(* The solver of type inference (InferState in cielo-sema/src/             *)
(* typecheck.rs): variables in a union-find forest, a type bound to the    *)
(* root of a class, and applications Name[..] whose arguments need not be  *)
(* known yet.                                                              *)
(*                                                                         *)
(* unify calls itself for the arguments of applications, from left to      *)
(* right, and gives up at the first mismatch, keeping what it has bound by *)
(* then.  The calls still to be made are the agenda; one step of Unify is  *)
(* one call.  The type that a call returns and the labels of variables     *)
(* are left out.                                                           *)
(***************************************************************************)
EXTENDS Naturals, Sequences, SequencesExt, FiniteSets

CONSTANTS
    Var, App,   \* InferVarId, AppId
    Type,       \* TypeId: the interned types
    Shape,      \* instance_shape: name and arguments of interned applications
    Size,       \* of a type: its arguments are smaller
    Name,       \* of declarations with type parameters
    MaxRank,    \* u8::MAX
    Written,    \* the applications that the types of a program make
    MaxCalls,   \* bound on the calls from outside
    None

Open == Var \cup App
Node == Open \cup Type
Instance == DOMAIN Shape

ASSUME NodeAssumption ==
    /\ Var \cap App = {} /\ Var \cap Type = {} /\ App \cap Type = {}
    /\ None \notin Node
    /\ MaxRank \in Nat /\ MaxCalls \in Nat
    /\ Written \subseteq [name : Name, args : Seq(Node)]
(* Instances are interned by name and arguments, after the arguments.      *)
ASSUME ShapeAssumption ==
    /\ Size \in [Type -> Nat]
    /\ Instance \subseteq Type
    /\ \A t \in Instance :
          /\ Shape[t] \in [name : Name, args : Seq(Type)]
          /\ \A i \in DOMAIN Shape[t].args : Size[Shape[t].args[i]] < Size[t]
    /\ \A t, u \in Instance : Shape[t] = Shape[u] => t = u

VARIABLES
    vars,       \* the variables made so far
    parent, rank, binding,
    apps,       \* the applications made so far, None for the others
    agenda,     \* the calls of unify to be made, the next one first
    given,      \* the calls from outside so far
    refused     \* those that ended with a mismatch, by number

unifyVars == <<vars, parent, rank, binding, apps, agenda, given, refused>>

-----------------------------------------------------------------------------
(* Variables from v to its root.                                           *)
Path(p, v) ==
    {w \in Var : \A S \in SUBSET Var : v \in S /\ (\A x \in S : p[x] \in S) => w \in S}

Roots(p, v) == {w \in Path(p, v) : p[w] = w}
Find(p, v) == CHOOSE w \in Roots(p, v) : TRUE

(* The forest after find has gone through some variables.                  *)
Compress(p, seen) == [v \in Var |-> IF v \in seen THEN Find(p, v) ELSE p[v]]

(* A root is not bound to a variable, so one look at its binding is enough. *)
Resolve(p, b, n) ==
    IF n \notin Var THEN n ELSE IF b[Find(p, n)] = None THEN Find(p, n) ELSE b[Find(p, n)]

(* What a type refers to directly, and what it refers to at all.           *)
Succ(p, b, a, n) ==
    CASE n \in Var /\ p[n] # n -> {p[n]}
      [] n \in Var /\ p[n] = n -> {b[n]} \cap App
      [] n \in App /\ a[n] # None -> Range(a[n].args) \cap Open
      [] OTHER -> {}

Reach(p, b, a, n) ==
    {m \in Open : \A S \in SUBSET Open :
                     {n} \cap Open \subseteq S /\ (\A x \in S : Succ(p, b, a, x) \subseteq S) => m \in S}

Made == vars \cup {c \in App : apps[c] # None} \cup Type

-----------------------------------------------------------------------------
Init ==
    /\ vars = {}
    /\ parent = [v \in Var |-> v]
    /\ rank = [v \in Var |-> 0]
    /\ binding = [v \in Var |-> None]
    /\ apps = [c \in App |-> None]
    /\ agenda = <<>>
    /\ given = <<>>
    /\ refused = {}

Idle == agenda = <<>>

FreshVar(v) ==
    /\ Idle
    /\ v \notin vars
    /\ vars' = vars \cup {v}
    /\ UNCHANGED <<parent, rank, binding, apps, agenda, given, refused>>

(* A written type, or the type of a constructor's value.                   *)
NewApp(c, app) ==
    /\ Idle
    /\ apps[c] = None
    /\ Range(app.args) \subseteq Made
    /\ apps' = [apps EXCEPT ![c] = app]
    /\ UNCHANGED <<vars, parent, rank, binding, agenda, given, refused>>

(* A call of unify from the type checker.                                  *)
CallUnify(l, r) ==
    /\ Idle
    /\ Len(given) < MaxCalls
    /\ l \in Made /\ r \in Made
    /\ given' = Append(given, <<l, r>>)
    /\ agenda' = <<<<l, r>>>>
    /\ UNCHANGED <<vars, parent, rank, binding, apps, refused>>

(* The two sides of the next call, resolved, and the forest after that.    *)
Left == Resolve(parent, binding, Head(agenda)[1])
Right == Resolve(parent, binding, Head(agenda)[2])
Sides == {<<Left, Right>>, <<Right, Left>>}
Resolving ==
    Compress(parent, UNION {Path(parent, n) : n \in {Head(agenda)[1], Head(agenda)[2]} \cap Var})

(* What the occurs check may look at.                                      *)
Below(n) == Reach(Resolving, binding, apps, n)

(* Faulty: the next arguments are compared after a mismatch. *)
FaultyMismatch == agenda' = Tail(agenda) /\ UNCHANGED refused

Unchanged == UNCHANGED <<vars, apps, given>>
Return == agenda' = Tail(agenda) /\ UNCHANGED refused
Mismatch == agenda' = <<>> /\ refused' = refused \cup {Len(given)}
Descend(s, t) == agenda' = Zip(s, t) \o Tail(agenda) /\ UNCHANGED refused

SameType ==
    /\ Left \in Type /\ Right \in Type /\ Left = Right
    /\ parent' = Resolving
    /\ Return
    /\ UNCHANGED <<rank, binding>> /\ Unchanged

SameVar ==
    /\ Left \in Var /\ Right = Left
    /\ parent' = Resolving
    /\ Return
    /\ UNCHANGED <<rank, binding>> /\ Unchanged

(* The root of lower rank becomes a child; the left one stays otherwise.   *)
UnionVars ==
    /\ Left \in Var /\ Right \in Var /\ Left # Right
    /\ LET root == IF rank[Left] < rank[Right] THEN Right ELSE Left
           child == IF rank[Left] < rank[Right] THEN Left ELSE Right
       IN  /\ parent' = [Resolving EXCEPT ![child] = root]
           /\ rank' = IF rank[Left] = rank[Right] /\ rank[root] < MaxRank
                      THEN [rank EXCEPT ![root] = @ + 1] ELSE rank
    /\ Return
    /\ UNCHANGED binding /\ Unchanged

(* Faulty: a variable is looked for at the top of a type only. *)
FaultyOccurs(v, t) == v \in Succ(Resolving, binding, apps, t)

Occurs(v, t) == v \in Below(t)

BindVar(v, t) ==
    /\ <<v, t>> \in Sides
    /\ v \in Var /\ t \notin Var
    /\ ~Occurs(v, t)
    /\ parent' = Compress(Resolving, Below(t) \cap Var)
    /\ binding' = [binding EXCEPT ![v] = t]
    /\ Return
    /\ UNCHANGED rank /\ Unchanged

(* The search ends where it finds the variable, and has compressed the     *)
(* paths that it saw before.                                               *)
Infinite(v, t) ==
    /\ <<v, t>> \in Sides
    /\ v \in Var /\ t \notin Var
    /\ Occurs(v, t)
    /\ \E seen \in SUBSET (Below(t) \cap Var) : parent' = Compress(Resolving, seen)
    /\ Mismatch
    /\ UNCHANGED <<rank, binding>> /\ Unchanged

(* Faulty: the arguments have to be the same already. *)
FaultySameHead(x, y) == x = y

SameHead(x, y) == x.name = y.name /\ Len(x.args) = Len(y.args)

UnifyApps ==
    /\ Left \in App /\ Right \in App
    /\ SameHead(apps[Left], apps[Right])
    /\ parent' = Resolving
    /\ Descend(apps[Left].args, apps[Right].args)
    /\ UNCHANGED <<rank, binding>> /\ Unchanged

UnifyAppWithInstance(c, t) ==
    /\ <<c, t>> \in Sides
    /\ c \in App /\ t \in Instance
    /\ SameHead(apps[c], Shape[t])
    /\ parent' = Resolving
    /\ Descend(apps[c].args, Shape[t].args)
    /\ UNCHANGED <<rank, binding>> /\ Unchanged

Clash(l, r) ==
    \/ l \in Type /\ r \in Type /\ l # r
    \/ l \in App /\ r \in App /\ ~SameHead(apps[l], apps[r])
    \/ l \in App /\ r \in Type \ Instance
    \/ l \in App /\ r \in Instance /\ ~SameHead(apps[l], Shape[r])

Refuse ==
    /\ \E s \in Sides : Clash(s[1], s[2])
    /\ parent' = Resolving
    /\ Mismatch
    /\ UNCHANGED <<rank, binding>> /\ Unchanged

Unify ==
    /\ ~Idle
    /\ \/ SameType \/ SameVar \/ UnionVars \/ UnifyApps \/ Refuse
       \/ \E v \in Var, t \in App \cup Type : BindVar(v, t) \/ Infinite(v, t)
       \/ \E c \in App, t \in Type : UnifyAppWithInstance(c, t)

Next ==
    \/ \E v \in Var : FreshVar(v)
    \/ \E c \in App, app \in Written : NewApp(c, app)
    \/ \E l, r \in Made : CallUnify(l, r)
    \/ Unify

UnifySpec == Init /\ [][Next]_unifyVars

-----------------------------------------------------------------------------
(* The state has its types, nothing refers to what is not made yet, and    *)
(* only the root of a class is bound.                                      *)
TypeOK ==
    /\ vars \subseteq Var
    /\ parent \in [Var -> Var]
    /\ rank \in [Var -> 0 .. MaxRank]
    /\ binding \in [Var -> App \cup Type \cup {None}]
    /\ apps \in [App -> [name : Name, args : Seq(Node)] \cup {None}]
    /\ agenda \in Seq(Made \X Made)
    /\ given \in Seq(Made \X Made)
    /\ refused \subseteq DOMAIN given
    /\ \A v \in Var :
          /\ v \notin vars => parent[v] = v /\ binding[v] = None
          /\ v \in vars => parent[v] \in vars /\ binding[v] \in Made \cup {None}
          /\ binding[v] # None => parent[v] = v
    /\ \A c \in App : apps[c] # None => Range(apps[c].args) \subseteq Made

Acyclic(p, b, a) ==
    \A S \in SUBSET Open : S # {} => \E n \in S : Succ(p, b, a, n) \cap S = {}

(* No type contains itself, through whatever chain of variables and        *)
(* applications: find, resolve, the occurs check and the walk that writes  *)
(* the types down in the end come to an end.                               *)
TypesAreFinite == Acyclic(parent, binding, apps)

(* Readings: a type for each variable and application.                     *)
Readings == [Open -> Type]
Value(r, n) == IF n \in Open THEN r[n] ELSE n
Holds(r, c) == Value(r, c[1]) = Value(r, c[2])

AppsFit(r, a) ==
    \A c \in App : a[c] # None =>
        /\ r[c] \in Instance
        /\ Shape[r[c]] = [name |-> a[c].name,
                          args |-> [i \in DOMAIN a[c].args |-> Value(r, a[c].args[i])]]

VarsFit(r, p, b) ==
    \A v \in Var : r[v] = r[p[v]] /\ (b[v] # None => r[v] = Value(r, b[v]))

(* What the solver knows, and what it still has to do, in a reading.       *)
Known(r) == AppsFit(r, apps) /\ VarsFit(r, parent, binding)
AgendaHolds(r) == \A i \in DOMAIN agenda : Holds(r, agenda[i])

(* What was accepted holds from then on: in every reading of what the      *)
(* solver knows the two sides are one type, whatever was bound since, and  *)
(* also when a refused call has left some of its bindings behind.          *)
AcceptedHolds ==
    \A r \in Readings : Known(r) /\ AgendaHolds(r) =>
        \A i \in DOMAIN given \ refused : Holds(r, given[i])

(* A program without type errors is not refused: there is no reading in    *)
(* which the calls up to the first refused one hold, so a mismatch and a   *)
(* failed occurs check say something about the program.                    *)
RefusedIsImpossible ==
    \A k \in refused : (\A j \in refused : k <= j) =>
        ~ \E r \in Readings : AppsFit(r, apps) /\ \A i \in 1 .. k : Holds(r, given[i])
=============================================================================
