------------------------------ MODULE UnifyProofs ------------------------------
(***************************************************************************)
(* For all types, applications and calls: the solver builds no infinite    *)
(* type, what it accepts holds, and what it refuses is impossible.         *)
(***************************************************************************)
EXTENDS Unify, TLAPS

-----------------------------------------------------------------------------
(* The forest of variables.                                                *)

(* Every set of variables has one whose parent is outside, or a root.      *)
Forest(p) ==
    /\ p \in [Var -> Var]
    /\ \A S \in SUBSET Var : S # {} => \E w \in S : p[w] = w \/ p[w] \notin S

LEMMA PathIsClosed ==
    ASSUME NEW p \in [Var -> Var], NEW v \in Var
    PROVE  /\ Path(p, v) \subseteq Var
           /\ v \in Path(p, v)
           /\ \A w \in Path(p, v) : p[w] \in Path(p, v)
BY DEF Path

LEMMA PathIsLeast ==
    ASSUME NEW p, NEW v \in Var, NEW S \in SUBSET Var,
           v \in S, \A w \in S : p[w] \in S
    PROVE  Path(p, v) \subseteq S
BY DEF Path

LEMMA FindIsRoot ==
    ASSUME NEW p, Forest(p), NEW v \in Var
    PROVE  /\ Find(p, v) \in Path(p, v)
           /\ Find(p, v) \in Var
           /\ p[Find(p, v)] = Find(p, v)
<1>1. p \in [Var -> Var]
      BY DEF Forest
<1>2. \E w \in Path(p, v) : p[w] = w
      BY <1>1, PathIsClosed DEF Forest
<1>3. Find(p, v) \in Roots(p, v)
      BY <1>2 DEF Find, Roots
<1>   QED BY <1>1, <1>3, PathIsClosed DEF Roots

LEMMA RootsOfParent ==
    ASSUME NEW p \in [Var -> Var], NEW v \in Var
    PROVE  Roots(p, p[v]) = Roots(p, v)
<1>   DEFINE S == {v} \cup Path(p, p[v])
<1>0. p[v] \in Var
      OBVIOUS
<1>1. Path(p, p[v]) \subseteq Path(p, v)
      BY <1>0, PathIsClosed, PathIsLeast
<1>2. Path(p, v) \subseteq S
  <2>1. S \subseteq Var /\ v \in S
        BY <1>0, PathIsClosed
  <2>2. \A w \in S : p[w] \in S
        BY <1>0, PathIsClosed
  <2>3. S \in SUBSET Var
        BY <2>1
  <2>   HIDE DEF S
  <2>   QED BY <2>1, <2>2, <2>3, PathIsLeast
<1>3. CASE p[v] = v
      BY <1>3
<1>4. CASE p[v] # v
      BY <1>1, <1>2, <1>4 DEF Roots
<1>   QED BY <1>3, <1>4

LEMMA FindOfParent ==
    ASSUME NEW p \in [Var -> Var], NEW v \in Var
    PROVE  Find(p, p[v]) = Find(p, v)
BY RootsOfParent DEF Find

LEMMA RootFindsItself ==
    ASSUME NEW p, Forest(p), NEW v \in Var, p[v] = v
    PROVE  Find(p, v) = v
<1>   DEFINE S == {v}
<1>0. S \in SUBSET Var /\ v \in S /\ \A w \in S : p[w] \in S
      OBVIOUS
<1>   HIDE DEF S
<1>1. Path(p, v) \subseteq S
      BY <1>0, PathIsLeast
<1>   QED BY <1>1, FindIsRoot DEF S

(* What a variable and its parent share, a variable and its root share.    *)
LEMMA SharedWithRoot ==
    ASSUME NEW p, Forest(p), NEW r,
           \A w \in Var : r[w] = r[p[w]],
           NEW v \in Var
    PROVE  r[v] = r[Find(p, v)]
<1>   DEFINE S == {w \in Var : r[w] = r[v]}
<1>1. \A w \in S : p[w] \in S
      BY DEF Forest
<1>2. Path(p, v) \subseteq S
      BY <1>1, PathIsLeast
<1>   QED BY <1>2, FindIsRoot

(* Compressing paths keeps the roots, and so what variables share.         *)
LEMMA CompressKeepsRoots ==
    ASSUME NEW p, Forest(p), NEW seen
    PROVE  /\ Compress(p, seen) \in [Var -> Var]
           /\ \A v \in Var : p[v] = v <=> Compress(p, seen)[v] = v
BY FindIsRoot, RootFindsItself DEF Compress, Forest

LEMMA CompressShares ==
    ASSUME NEW p, Forest(p), NEW seen, NEW r
    PROVE  (\A v \in Var : r[v] = r[Compress(p, seen)[v]]) <=> (\A v \in Var : r[v] = r[p[v]])
<1>   DEFINE q == Compress(p, seen)
<1>1. ASSUME \A v \in Var : r[v] = r[p[v]], NEW v \in Var
      PROVE  r[v] = r[q[v]]
      BY <1>1, SharedWithRoot DEF Compress
<1>2. ASSUME \A v \in Var : r[v] = r[q[v]], NEW v \in Var
      PROVE  r[v] = r[p[v]]
  <2>   DEFINE B == {w \in Var : r[w] # r[Find(p, w)]}
  <2>1. B = {}
    <3>1. SUFFICES ASSUME NEW w \in B, p[w] = w \/ p[w] \notin B
                   PROVE  FALSE
          BY DEF Forest
    <3>2. p[w] \in Var /\ Find(p, p[w]) = Find(p, w)
          BY FindOfParent DEF Forest
    <3>3. CASE w \in seen
          BY <1>2, <3>3 DEF Compress
    <3>4. CASE w \notin seen /\ p[w] = w
          BY <3>4, RootFindsItself
    <3>5. CASE w \notin seen /\ p[w] \notin B
          BY <1>2, <3>2, <3>5 DEF Compress
    <3>   QED BY <3>1, <3>3, <3>4, <3>5
  <2>2. p[v] \in Var /\ Find(p, p[v]) = Find(p, v)
        BY FindOfParent DEF Forest
  <2>   QED BY <2>1, <2>2
<1>   QED BY <1>1, <1>2

-----------------------------------------------------------------------------
(* What types refer to.                                                    *)

LEMMA SuccOfNode ==
    ASSUME NEW p, NEW b, NEW a, NEW m \in Open
    PROVE  /\ m \in Var /\ p[m] # m => Succ(p, b, a, m) = {p[m]}
           /\ m \in Var /\ p[m] = m => Succ(p, b, a, m) = {b[m]} \cap App
           /\ m \in App /\ a[m] # None => Succ(p, b, a, m) = Range(a[m].args) \cap Open
           /\ m \in App /\ a[m] = None => Succ(p, b, a, m) = {}
BY NodeAssumption DEF Succ, Open

LEMMA SameSucc ==
    ASSUME NEW p, NEW b, NEW a, NEW q, NEW c, NEW d, NEW m \in Open,
           m \in Var => q[m] = p[m] /\ c[m] = b[m],
           m \in App => d[m] = a[m]
    PROVE  Succ(q, c, d, m) = Succ(p, b, a, m)
BY DEF Succ, Open

LEMMA AcyclicIsForest ==
    ASSUME NEW p \in [Var -> Var], NEW b, NEW a, Acyclic(p, b, a)
    PROVE  Forest(p)
<1>1. SUFFICES ASSUME NEW S \in SUBSET Var, S # {}
               PROVE  \E w \in S : p[w] = w \/ p[w] \notin S
      BY DEF Forest
<1>2. PICK w \in S : Succ(p, b, a, w) \cap S = {}
      BY <1>1 DEF Acyclic, Open
<1>3. w \in Open /\ w \in Var
      BY DEF Open
<1>   QED BY <1>2, <1>3, SuccOfNode

LEMMA CompressIsAcyclic ==
    ASSUME NEW p \in [Var -> Var], NEW b, NEW a, Acyclic(p, b, a), NEW seen
    PROVE  Acyclic(Compress(p, seen), b, a)
<1>   DEFINE q == Compress(p, seen)
<1>1. SUFFICES ASSUME NEW S \in SUBSET Open, S # {},
                      \A m \in S : Succ(q, b, a, m) \cap S # {}
               PROVE  FALSE
      BY DEF Acyclic
<1>2. Forest(p)
      BY AcyclicIsForest
<1>   DEFINE T == S \cup {w \in Var : Find(p, w) \in S}
<1>3. ASSUME NEW m \in T
      PROVE  Succ(p, b, a, m) \cap T # {}
  <2>1. m \in Open
        BY DEF Open
  <2>2. CASE m \in Var /\ p[m] # m /\ Find(p, m) \in S
        BY <2>1, <2>2, SuccOfNode, FindOfParent
  <2>3. CASE m \in Var /\ p[m] # m /\ Find(p, m) \notin S
    <3>1. m \in S /\ q[m] # m
          BY <1>2, <2>3, CompressKeepsRoots
    <3>2. q[m] \in S
          BY <1>1, <2>1, <2>3, <3>1, SuccOfNode
    <3>3. q[m] = p[m]
          BY <2>3, <3>2 DEF Compress
    <3>   QED BY <2>1, <2>3, <3>2, <3>3, SuccOfNode
  <2>4. CASE m \in Var /\ p[m] = m
    <3>1. m \in S /\ q[m] = m
          BY <1>2, <2>4, CompressKeepsRoots, RootFindsItself
    <3>   QED BY <1>1, <2>1, <2>4, <3>1, SuccOfNode
  <2>5. CASE m \in App
    <3>1. m \in S
          BY <2>5, NodeAssumption
    <3>   QED BY <1>1, <2>1, <2>5, <3>1, SuccOfNode
  <2>   QED BY <2>1, <2>2, <2>3, <2>4, <2>5 DEF Open
<1>4. T \in SUBSET Open /\ T # {}
      BY <1>1 DEF Open
<1>   QED BY <1>3, <1>4 DEF Acyclic

LEMMA ReachIsClosed ==
    ASSUME NEW p, NEW b, NEW a, NEW m
    PROVE  /\ Reach(p, b, a, m) \subseteq Open
           /\ m \in Open => m \in Reach(p, b, a, m)
           /\ \A x \in Reach(p, b, a, m) :
                 Succ(p, b, a, x) \cap Open \subseteq Reach(p, b, a, m)
BY DEF Reach

LEMMA BindIsAcyclic ==
    ASSUME NEW p \in [Var -> Var], NEW b \in [Var -> App \cup Type \cup {None}], NEW a,
           Acyclic(p, b, a),
           NEW v \in Var, p[v] = v, NEW t \in App \cup Type,
           v \notin Reach(p, b, a, t)
    PROVE  Acyclic(p, [b EXCEPT ![v] = t], a)
<1>   DEFINE c == [b EXCEPT ![v] = t]
             R == Reach(p, b, a, t)
<1>0. c[v] = t /\ \A w \in Var \ {v} : c[w] = b[w]
      OBVIOUS
<1>   HIDE DEF c
<1>1. SUFFICES ASSUME NEW S \in SUBSET Open, S # {},
                      \A m \in S : Succ(p, c, a, m) \cap S # {}
               PROVE  FALSE
      BY DEF Acyclic, c
<1>2. ASSUME NEW m \in Open, m # v
      PROVE  Succ(p, c, a, m) = Succ(p, b, a, m)
      BY <1>0, <1>2, SameSucc
<1>3. v \notin S
  <2>1. \A m \in S \cap R : Succ(p, b, a, m) \cap (S \cap R) # {}
    <3>1. TAKE m \in S \cap R
    <3>2. m \in Open /\ m # v
          OBVIOUS
    <3>3. Succ(p, b, a, m) \cap S # {}
          BY <1>1, <1>2, <3>2
    <3>4. Succ(p, b, a, m) \cap Open \subseteq R
          BY ReachIsClosed
    <3>   QED BY <3>3, <3>4
  <2>2. S \cap R = {}
        BY <2>1 DEF Acyclic
  <2>3. v \in Open /\ Succ(p, c, a, v) = {t} \cap App
        BY <1>0, SuccOfNode DEF Open
  <2>4. {t} \cap App \subseteq R
        BY ReachIsClosed DEF Open
  <2>   QED BY <1>1, <2>2, <2>3, <2>4
<1>   QED BY <1>1, <1>2, <1>3 DEF Acyclic

LEMMA UnionIsAcyclic ==
    ASSUME NEW p \in [Var -> Var], NEW b, NEW a, Acyclic(p, b, a),
           NEW root \in Var, NEW child \in Var, root # child,
           p[root] = root, b[root] \notin App
    PROVE  Acyclic([p EXCEPT ![child] = root], b, a)
<1>   DEFINE q == [p EXCEPT ![child] = root]
<1>0. q[child] = root /\ \A w \in Var \ {child} : q[w] = p[w]
      OBVIOUS
<1>   HIDE DEF q
<1>1. SUFFICES ASSUME NEW S \in SUBSET Open, S # {},
                      \A m \in S : Succ(q, b, a, m) \cap S # {}
               PROVE  FALSE
      BY DEF Acyclic, q
<1>2. ASSUME NEW m \in Open, m # child
      PROVE  Succ(q, b, a, m) = Succ(p, b, a, m)
      BY <1>0, <1>2, SameSucc
<1>3. root \in Open /\ child \in Open
      BY DEF Open
<1>4. Succ(q, b, a, root) = {} /\ Succ(q, b, a, child) = {root}
  <2>1. q[root] = root /\ q[child] # child
        BY <1>0
  <2>2. Succ(q, b, a, root) = {b[root]} \cap App /\ Succ(q, b, a, child) = {q[child]}
        BY <1>3, <2>1, SuccOfNode
  <2>   QED BY <1>0, <2>2
<1>5. child \notin S
      BY <1>1, <1>4
<1>   QED BY <1>1, <1>2, <1>5 DEF Acyclic

(* An application is made after what it refers to.                         *)
LEMMA NewAppIsAcyclic ==
    ASSUME NEW p, NEW b, NEW a \in [App -> [name : Name, args : Seq(Node)] \cup {None}],
           Acyclic(p, b, a),
           NEW c \in App, NEW app \in [name : Name, args : Seq(Node)], c \notin Range(app.args),
           \A m \in Open : c \notin Succ(p, b, a, m)
    PROVE  Acyclic(p, b, [a EXCEPT ![c] = app])
<1>   DEFINE d == [a EXCEPT ![c] = app]
<1>0. d[c] = app /\ \A m \in App \ {c} : d[m] = a[m]
      OBVIOUS
<1>   HIDE DEF d
<1>1. SUFFICES ASSUME NEW S \in SUBSET Open, S # {},
                      \A m \in S : Succ(p, b, d, m) \cap S # {}
               PROVE  FALSE
      BY DEF Acyclic, d
<1>2. ASSUME NEW m \in Open, m # c
      PROVE  Succ(p, b, d, m) = Succ(p, b, a, m)
      BY <1>0, <1>2, SameSucc
<1>3. c \in Open /\ c \notin Succ(p, b, d, c)
  <2>1. c \in Open
        BY DEF Open
  <2>2. CASE d[c] = None
        BY <2>1, <2>2, SuccOfNode
  <2>3. CASE d[c] # None
    <3>1. Succ(p, b, d, c) = Range(d[c].args) \cap Open
          BY <2>1, <2>3, SuccOfNode
    <3>   QED BY <1>0, <2>1, <3>1
  <2>   QED BY <2>1, <2>2, <2>3
<1>   DEFINE T == S \ {c}
<1>4. ASSUME NEW m \in S, m # c
      PROVE  Succ(p, b, a, m) \cap T # {}
  <2>1. Succ(p, b, d, m) = Succ(p, b, a, m) /\ c \notin Succ(p, b, a, m)
        BY <1>2, <1>4
  <2>   QED BY <1>1, <2>1
<1>5. T # {}
      BY <1>1, <1>3
<1>   QED BY <1>4, <1>5 DEF Acyclic

-----------------------------------------------------------------------------
(* The state.                                                              *)

(* The call that is being worked on was given, and is not refused yet.     *)
InFlight == ~Idle => given # <<>> /\ Len(given) \notin refused

UInv == TypeOK /\ TypesAreFinite /\ InFlight

Wired(p, b) ==
    /\ p \in [Var -> Var]
    /\ \A v \in Var :
          /\ v \notin vars => p[v] = v /\ b[v] = None
          /\ v \in vars => p[v] \in vars /\ b[v] \in Made \cup {None}
          /\ b[v] # None => p[v] = v

LEMMA FindStaysMade ==
    ASSUME NEW p, NEW b, vars \subseteq Var, Wired(p, b), Forest(p), NEW v \in vars
    PROVE  Find(p, v) \in vars
<1>1. vars \in SUBSET Var /\ v \in Var /\ \A w \in vars : p[w] \in vars
      BY DEF Wired
<1>2. Path(p, v) \subseteq vars
      BY <1>1, PathIsLeast
<1>   QED BY <1>1, <1>2, FindIsRoot

LEMMA CompressIsWired ==
    ASSUME NEW p, NEW b, vars \subseteq Var, Wired(p, b), Forest(p), NEW seen
    PROVE  Wired(Compress(p, seen), b)
<1>   DEFINE q == Compress(p, seen)
<1>1. q \in [Var -> Var] /\ \A v \in Var : p[v] = v <=> q[v] = v
      BY CompressKeepsRoots
<1>2. \A v \in vars : q[v] \in vars
      BY FindStaysMade DEF Compress, Wired
<1>   QED BY <1>1, <1>2 DEF Wired

LEMMA StateIsWired ==
    ASSUME TypeOK, TypesAreFinite
    PROVE  Wired(parent, binding) /\ Forest(parent)
BY AcyclicIsForest DEF TypeOK, TypesAreFinite, Wired

(* Resolving ends at an unbound root, or at something else than a variable. *)
LEMMA ResolveEnds ==
    ASSUME TypeOK, TypesAreFinite, NEW x \in Made
    PROVE  LET y == Resolve(parent, binding, x) IN
           /\ y \in Made
           /\ y \in Var => y \in vars /\ parent[y] = y /\ binding[y] = None
<1>1. CASE x \notin Var
      BY <1>1 DEF Resolve
<1>2. CASE x \in Var
  <2>1. x \in vars
        BY <1>2, NodeAssumption DEF Made
  <2>2. Find(parent, x) \in vars /\ Find(parent, x) \in Var /\ parent[Find(parent, x)] = Find(parent, x)
        BY <1>2, <2>1, FindStaysMade, FindIsRoot, StateIsWired DEF TypeOK
  <2>3. binding[Find(parent, x)] \in Made \cup {None} /\ binding[Find(parent, x)] \notin Var
        BY <2>2, NodeAssumption DEF TypeOK, Node, Open
  <2>4. vars \subseteq Made
        BY DEF Made
  <2>   QED BY <1>2, <2>2, <2>3, <2>4 DEF Resolve
<1>   QED BY <1>1, <1>2

LEMMA HeadIsMade ==
    ASSUME TypeOK, ~Idle
    PROVE  /\ Head(agenda) \in Made \X Made
           /\ Tail(agenda) \in Seq(Made \X Made)
           /\ Head(agenda)[1] \in Made /\ Head(agenda)[2] \in Made
BY DEF TypeOK, Idle

LEMMA SidesAreMade ==
    ASSUME TypeOK, TypesAreFinite, ~Idle
    PROVE  /\ Left \in Made /\ Right \in Made
           /\ \A v \in Var \cap {Left, Right} : v \in vars /\ parent[v] = v /\ binding[v] = None
BY HeadIsMade, ResolveEnds DEF Left, Right

LEMMA ResolvingIsWired ==
    ASSUME TypeOK, TypesAreFinite
    PROVE  /\ Wired(Resolving, binding) /\ Forest(Resolving)
           /\ Acyclic(Resolving, binding, apps)
           /\ \A v \in Var : parent[v] = v <=> Resolving[v] = v
<1>1. Wired(parent, binding) /\ Forest(parent)
      BY StateIsWired
<1>2. Wired(Resolving, binding)
      BY <1>1, CompressIsWired DEF Resolving, TypeOK
<1>3. Acyclic(Resolving, binding, apps)
      BY CompressIsAcyclic DEF Resolving, TypeOK, TypesAreFinite
<1>4. \A v \in Var : parent[v] = v <=> Resolving[v] = v
      BY <1>1, CompressKeepsRoots DEF Resolving
<1>   QED BY <1>2, <1>3, <1>4, AcyclicIsForest DEF Wired

LEMMA ArgsAreMade ==
    ASSUME TypeOK, NEW c \in App, apps[c] # None
    PROVE  apps[c] \in [name : Name, args : Seq(Node)] /\ apps[c].args \in Seq(Made)
<1>1. apps[c] \in [name : Name, args : Seq(Node)] /\ Range(apps[c].args) \subseteq Made
      BY DEF TypeOK
<1>   QED BY <1>1 DEF Range

LEMMA ShapeIsMade ==
    ASSUME NEW t \in Instance
    PROVE  Shape[t] \in [name : Name, args : Seq(Type)] /\ Shape[t].args \in Seq(Made)
<1>1. Shape[t] \in [name : Name, args : Seq(Type)]
      BY ShapeAssumption
<1>   QED BY <1>1 DEF Made

LEMMA ZipIsPairs ==
    ASSUME NEW S, NEW s \in Seq(S), NEW t \in Seq(S), Len(s) = Len(t)
    PROVE  /\ Zip(s, t) \in Seq(S \X S)
           /\ Len(Zip(s, t)) = Len(s)
           /\ \A i \in 1 .. Len(s) : Zip(s, t)[i] = <<s[i], t[i]>>
BY DEF Zip

LEMMA InitUInv == ASSUME Init PROVE UInv
<1>1. TypeOK
      BY NodeAssumption DEF Init, TypeOK, Made
<1>2. Acyclic(parent, binding, apps)
  <2>1. \A m \in Open : Succ(parent, binding, apps, m) = {}
        BY NodeAssumption DEF Init, Succ, Open, Node
  <2>   QED BY <2>1 DEF Acyclic
<1>   QED BY <1>1, <1>2 DEF Init, UInv, TypesAreFinite, InFlight, Idle

(* Steps of unify that leave the agenda shorter, longer or empty.          *)
LEMMA AgendaStaysMade ==
    ASSUME TypeOK, ~Idle,
           \/ Return
           \/ Mismatch
           \/ \E s, t \in Seq(Made) : Len(s) = Len(t) /\ Descend(s, t)
    PROVE  agenda' \in Seq(Made \X Made)
<1>1. CASE Return
      BY <1>1, HeadIsMade DEF Return
<1>2. CASE Mismatch
      BY <1>2 DEF Mismatch
<1>3. CASE \E s, t \in Seq(Made) : Len(s) = Len(t) /\ Descend(s, t)
  <2>1. PICK s \in Seq(Made), t \in Seq(Made) : Len(s) = Len(t) /\ Descend(s, t)
        BY <1>3
  <2>2. Zip(s, t) \in Seq(Made \X Made)
        BY <2>1, ZipIsPairs
  <2>   QED BY <2>1, <2>2, HeadIsMade DEF Descend
<1>   QED BY <1>1, <1>2, <1>3

LEMMA RefusedStaysGiven ==
    ASSUME TypeOK, InFlight, ~Idle, given' = given,
           Mismatch \/ UNCHANGED refused
    PROVE  refused' \subseteq DOMAIN given'
<1>1. Len(given) \in DOMAIN given
      BY DEF TypeOK, InFlight
<1>   QED BY <1>1 DEF TypeOK, Mismatch

(* The steps of unify that only compress paths.                            *)
LEMMA CompressingStep ==
    ASSUME UInv, ~Idle, Unchanged, UNCHANGED <<rank, binding>>,
           NEW seen,
           parent' = Resolving \/ parent' = Compress(Resolving, seen),
           \/ Return
           \/ Mismatch
           \/ \E s, t \in Seq(Made) : Len(s) = Len(t) /\ Descend(s, t)
    PROVE  UInv'
<1>1. TypeOK /\ TypesAreFinite /\ InFlight /\ vars \subseteq Var
      BY DEF UInv, TypeOK
<1>2. Made' = Made
      BY DEF Made, Unchanged
<1>3. Wired(parent', binding)
      BY <1>1, ResolvingIsWired, CompressIsWired
<1>4. Acyclic(parent', binding, apps)
      BY <1>1, ResolvingIsWired, CompressIsAcyclic DEF Wired
<1>5. agenda' \in Seq(Made \X Made)
      BY <1>1, AgendaStaysMade
<1>6. refused' \subseteq DOMAIN given'
      BY <1>1, RefusedStaysGiven DEF Unchanged, Return, Descend
<1>7. TypeOK'
      BY <1>1, <1>2, <1>3, <1>5, <1>6 DEF TypeOK, Unchanged, Wired
<1>8. InFlight'
      BY <1>1 DEF InFlight, Idle, Unchanged, Return, Mismatch, Descend
<1>   QED BY <1>4, <1>7, <1>8 DEF UInv, TypesAreFinite, Unchanged

LEMMA NothingRefersTo ==
    ASSUME TypeOK, NEW c \in App, c \notin Made, NEW m \in Open
    PROVE  c \notin Succ(parent, binding, apps, m)
<1>1. CASE m \in Var
  <2>1. parent[m] # c /\ binding[m] # c
        BY <1>1, NodeAssumption DEF TypeOK, Node, Open
  <2>   QED BY <1>1, <2>1, SuccOfNode
<1>2. CASE m \in App
  <2>1. apps[m] # None => c \notin Range(apps[m].args)
        BY <1>2 DEF TypeOK
  <2>   QED BY <1>2, <2>1, SuccOfNode
<1>   QED BY <1>1, <1>2 DEF Open

LEMMA UnionVarsStep ==
    ASSUME UInv, ~Idle, UnionVars
    PROVE  UInv'
<1>1. TypeOK /\ TypesAreFinite /\ InFlight /\ vars \subseteq Var
      BY DEF UInv, TypeOK
<1>2. Made' = Made
      BY DEF Made, Unchanged, UnionVars
<1>   DEFINE root == IF rank[Left] < rank[Right] THEN Right ELSE Left
             child == IF rank[Left] < rank[Right] THEN Left ELSE Right
             q == [Resolving EXCEPT ![child] = root]
<1>3. /\ parent' = q
      /\ rank' = IF rank[Left] = rank[Right] /\ rank[root] < MaxRank
                 THEN [rank EXCEPT ![root] = @ + 1] ELSE rank
      /\ Return /\ binding' = binding /\ Unchanged
      BY DEF UnionVars
<1>4. /\ root \in Var /\ child \in Var /\ root # child
      /\ root \in vars /\ child \in vars
      /\ binding[root] = None /\ binding[child] = None
      /\ Resolving[root] = root
      BY <1>1, SidesAreMade, ResolvingIsWired DEF UnionVars
<1>   HIDE DEF root, child
<1>5. Wired(Resolving, binding) /\ Acyclic(Resolving, binding, apps)
      BY <1>1, ResolvingIsWired
<1>6. Wired(q, binding)
      BY <1>4, <1>5 DEF Wired
<1>7. Acyclic(q, binding, apps)
  <2>1. binding[root] \notin App
        BY <1>4, NodeAssumption DEF Node, Open
  <2>   QED BY <1>4, <1>5, <2>1, UnionIsAcyclic DEF Wired
<1>   HIDE DEF q
<1>8. rank' \in [Var -> 0 .. MaxRank]
      BY <1>1, <1>3, <1>4, NodeAssumption DEF TypeOK
<1>9. agenda' \in Seq(Made \X Made)
      BY <1>1, <1>3, AgendaStaysMade
<1>10. TypeOK'
      BY <1>1, <1>2, <1>3, <1>6, <1>8, <1>9 DEF TypeOK, Unchanged, Wired, Return
<1>11. InFlight'
      BY <1>1, <1>3 DEF InFlight, Idle, Unchanged, Return
<1>   QED BY <1>3, <1>7, <1>10, <1>11 DEF UInv, TypesAreFinite, Unchanged

LEMMA BindVarStep ==
    ASSUME UInv, ~Idle, NEW v \in Var, NEW t \in App \cup Type, BindVar(v, t)
    PROVE  UInv'
<1>1. TypeOK /\ TypesAreFinite /\ InFlight /\ vars \subseteq Var
      BY DEF UInv, TypeOK
<1>   DEFINE c == [binding EXCEPT ![v] = t]
             seen == Below(t) \cap Var
<1>2. /\ parent' = Compress(Resolving, seen)
      /\ binding' = c
      /\ rank' = rank /\ Return /\ Unchanged
      /\ v \notin Reach(Resolving, binding, apps, t)
      /\ {v, t} = {Left, Right}
      BY DEF BindVar, Occurs, Below, Sides
<1>   HIDE DEF seen
<1>3. Made' = Made
      BY <1>2 DEF Made, Unchanged
<1>4. v \in vars /\ t \in Made /\ Resolving[v] = v /\ binding[v] = None
      BY <1>1, <1>2, SidesAreMade, ResolvingIsWired
<1>5. Wired(Resolving, binding) /\ Acyclic(Resolving, binding, apps)
      BY <1>1, ResolvingIsWired
<1>6. Acyclic(Resolving, c, apps)
      BY <1>1, <1>2, <1>4, <1>5, BindIsAcyclic DEF Wired, TypeOK
<1>7. Wired(Resolving, c)
      BY <1>1, <1>4, <1>5 DEF Wired, TypeOK
<1>8. c \in [Var -> App \cup Type \cup {None}]
      BY <1>1 DEF TypeOK
<1>   HIDE DEF c
<1>9. Acyclic(parent', c, apps) /\ Forest(Resolving)
      BY <1>2, <1>6, <1>7, CompressIsAcyclic, AcyclicIsForest DEF Wired
<1>10. Wired(parent', c)
      BY <1>1, <1>2, <1>7, <1>9, CompressIsWired
<1>11. agenda' \in Seq(Made \X Made)
      BY <1>1, <1>2, AgendaStaysMade
<1>12. TypeOK'
      BY <1>1, <1>2, <1>3, <1>8, <1>10, <1>11 DEF TypeOK, Unchanged, Wired, Return
<1>13. InFlight'
      BY <1>1, <1>2 DEF InFlight, Idle, Unchanged, Return
<1>   QED BY <1>2, <1>9, <1>12, <1>13 DEF UInv, TypesAreFinite, Unchanged

LEMMA ActionsKeepUInv == ASSUME UInv, [Next]_unifyVars PROVE UInv'
<1>0. TypeOK /\ TypesAreFinite /\ InFlight /\ vars \subseteq Var
      BY DEF UInv, TypeOK
<1>1. ASSUME NEW v \in Var, FreshVar(v)
      PROVE  UInv'
  <2>1. Made \subseteq Made'
        BY <1>1 DEF FreshVar, Made
  <2>2. agenda' \in Seq(Made' \X Made') /\ given' \in Seq(Made' \X Made')
        BY <1>0, <1>1, <2>1 DEF FreshVar, TypeOK
  <2>3. TypeOK'
        BY <1>0, <1>1, <2>1, <2>2 DEF FreshVar, TypeOK
  <2>   QED BY <1>0, <1>1, <2>3 DEF FreshVar, UInv, TypesAreFinite, InFlight, Idle
<1>2. ASSUME NEW c \in App, NEW app \in Written, NewApp(c, app)
      PROVE  UInv'
  <2>1. app \in [name : Name, args : Seq(Node)]
        BY NodeAssumption
  <2>2. Made \subseteq Made'
        BY <1>0, <1>2 DEF NewApp, Made, TypeOK
  <2>3. c \notin Made
        BY <1>0, <1>2, NodeAssumption DEF NewApp, Made
  <2>4. \A m \in Open : c \notin Succ(parent, binding, apps, m)
        BY <1>0, <2>3, NothingRefersTo
  <2>5. Acyclic(parent, binding, [apps EXCEPT ![c] = app])
        BY <1>0, <1>2, <2>1, <2>3, <2>4, NewAppIsAcyclic DEF NewApp, TypeOK, TypesAreFinite
  <2>6. agenda' \in Seq(Made' \X Made') /\ given' \in Seq(Made' \X Made')
        BY <1>0, <1>2, <2>2 DEF NewApp, TypeOK
  <2>7. TypeOK'
        BY <1>0, <1>2, <2>1, <2>2, <2>6 DEF NewApp, TypeOK
  <2>   QED BY <1>0, <1>2, <2>5, <2>7 DEF NewApp, UInv, TypesAreFinite, InFlight, Idle
<1>3. ASSUME NEW l \in Made, NEW r \in Made, CallUnify(l, r)
      PROVE  UInv'
  <2>1. agenda' \in Seq(Made \X Made) /\ given' \in Seq(Made \X Made)
        BY <1>0, <1>3 DEF CallUnify, TypeOK
  <2>2. Len(given') = Len(given) + 1 /\ given' # <<>> /\ DOMAIN given \subseteq DOMAIN given'
    <3>1. given \in Seq(Made \X Made) /\ given' = Append(given, <<l, r>>)
          BY <1>0, <1>3 DEF CallUnify, TypeOK
    <3>2. DOMAIN given = 1 .. Len(given) /\ DOMAIN given' = 1 .. Len(given') /\ Len(given') = Len(given) + 1
          BY <3>1
    <3>   QED BY <3>1, <3>2
  <2>3. TypeOK'
        BY <1>0, <1>3, <2>1, <2>2 DEF CallUnify, TypeOK, Made
  <2>4. Len(given') \notin refused'
        BY <1>0, <1>3, <2>2 DEF CallUnify, TypeOK
  <2>   QED BY <1>0, <1>3, <2>2, <2>3, <2>4 DEF CallUnify, UInv, TypesAreFinite, InFlight
<1>4. ASSUME ~Idle, SameType \/ SameVar \/ Refuse
      PROVE  UInv'
      BY <1>4, CompressingStep DEF SameType, SameVar, Refuse
<1>5. ASSUME ~Idle, UnionVars
      PROVE  UInv'
      BY <1>5, UnionVarsStep
<1>6. ASSUME ~Idle, UnifyApps
      PROVE  UInv'
  <2>1. apps[Left] # None /\ apps[Right] # None
        BY <1>0, <1>6, SidesAreMade, NodeAssumption DEF UnifyApps, Made
  <2>2. apps[Left].args \in Seq(Made) /\ apps[Right].args \in Seq(Made)
        BY <1>0, <1>6, <2>1, ArgsAreMade DEF UnifyApps
  <2>   QED BY <1>6, <2>2, CompressingStep DEF UnifyApps, SameHead
<1>7. ASSUME ~Idle, NEW v \in Var, NEW t \in App \cup Type, BindVar(v, t)
      PROVE  UInv'
      BY <1>7, BindVarStep
<1>8. ASSUME ~Idle, NEW v \in Var, NEW t \in App \cup Type, Infinite(v, t)
      PROVE  UInv'
      BY <1>8, CompressingStep DEF Infinite
<1>9. ASSUME ~Idle, NEW c \in App, NEW t \in Type, UnifyAppWithInstance(c, t)
      PROVE  UInv'
  <2>1. c \in {Left, Right} /\ t \in Instance
        BY <1>9 DEF UnifyAppWithInstance, Sides
  <2>2. apps[c] # None
        BY <1>0, <1>9, <2>1, SidesAreMade, NodeAssumption DEF Made
  <2>3. apps[c].args \in Seq(Made) /\ Shape[t].args \in Seq(Made)
        BY <1>0, <2>1, <2>2, ArgsAreMade, ShapeIsMade
  <2>   QED BY <1>9, <2>3, CompressingStep DEF UnifyAppWithInstance, SameHead
<1>10. CASE UNCHANGED unifyVars
      BY <1>0, <1>10 DEF unifyVars, UInv, TypeOK, TypesAreFinite, InFlight, Idle, Made
<1>   QED BY <1>1, <1>2, <1>3, <1>4, <1>5, <1>6, <1>7, <1>8, <1>9, <1>10 DEF Next, Unify

LEMMA AlwaysUInv == UnifySpec => []UInv
BY InitUInv, ActionsKeepUInv, PTL DEF UnifySpec

(* In every state the solver's fields have their types, a type refers only *)
(* to what is made, and only roots are bound.                              *)
THEOREM SolverTypes == UnifySpec => []TypeOK
<1>1. UInv => TypeOK
      BY DEF UInv
<1>   QED BY <1>1, AlwaysUInv, PTL

(* The solver never makes a type that contains itself, in any number of    *)
(* variables, applications and calls.                                      *)
THEOREM NoInfiniteType == UnifySpec => []TypesAreFinite
<1>1. UInv => TypesAreFinite
      BY DEF UInv
<1>   QED BY <1>1, AlwaysUInv, PTL

-----------------------------------------------------------------------------
(* Readings.                                                               *)

LEMMA CompressFits ==
    ASSUME NEW p, NEW b, NEW r, Forest(p), NEW seen
    PROVE  VarsFit(r, Compress(p, seen), b) <=> VarsFit(r, p, b)
BY CompressShares DEF VarsFit

LEMMA ResolveKeepsValue ==
    ASSUME UInv, NEW r, VarsFit(r, parent, binding), NEW x \in Made
    PROVE  Value(r, Resolve(parent, binding, x)) = Value(r, x)
<1>1. CASE x \notin Var
      BY <1>1 DEF Resolve
<1>2. CASE x \in Var
  <2>1. Forest(parent)
        BY StateIsWired DEF UInv
  <2>2. r[x] = r[Find(parent, x)] /\ Find(parent, x) \in Var
        BY <1>2, <2>1, SharedWithRoot, FindIsRoot DEF VarsFit
  <2>3. CASE binding[Find(parent, x)] = None
        BY <1>2, <2>2, <2>3 DEF Resolve, Value, Open
  <2>4. CASE binding[Find(parent, x)] # None
        BY <1>2, <2>2, <2>4 DEF Resolve, Value, Open, VarsFit
  <2>   QED BY <2>3, <2>4
<1>   QED BY <1>1, <1>2

LEMMA HeadHolds ==
    ASSUME UInv, ~Idle, NEW r, VarsFit(r, parent, binding)
    PROVE  Holds(r, Head(agenda)) <=> Value(r, Left) = Value(r, Right)
<1>1. Head(agenda)[1] \in Made /\ Head(agenda)[2] \in Made
      BY HeadIsMade DEF UInv
<1>   QED BY <1>1, ResolveKeepsValue DEF Holds, Left, Right

LEMMA AgendaIsHeadAndTail ==
    ASSUME UInv, ~Idle, NEW r
    PROVE  AgendaHolds(r) <=> /\ Holds(r, Head(agenda))
                              /\ \A i \in DOMAIN Tail(agenda) : Holds(r, Tail(agenda)[i])
<1>1. agenda \in Seq(Made \X Made) /\ agenda # <<>>
      BY DEF UInv, TypeOK, Idle
<1>2. /\ DOMAIN Tail(agenda) = 1 .. Len(agenda) - 1
      /\ \A i \in 1 .. Len(agenda) - 1 : Tail(agenda)[i] = agenda[i + 1]
      /\ Head(agenda) = agenda[1] /\ DOMAIN agenda = 1 .. Len(agenda) /\ Len(agenda) \in Nat \ {0}
      BY <1>1
<1>3. ASSUME AgendaHolds(r)
      PROVE  Holds(r, Head(agenda)) /\ \A i \in DOMAIN Tail(agenda) : Holds(r, Tail(agenda)[i])
      BY <1>2, <1>3 DEF AgendaHolds
<1>4. ASSUME Holds(r, Head(agenda)), \A i \in DOMAIN Tail(agenda) : Holds(r, Tail(agenda)[i]),
             NEW i \in DOMAIN agenda
      PROVE  Holds(r, agenda[i])
  <2>1. CASE i = 1
        BY <1>2, <1>4, <2>1
  <2>2. CASE i # 1
    <3>1. i - 1 \in DOMAIN Tail(agenda) /\ agenda[i] = Tail(agenda)[i - 1]
          BY <1>2, <2>2
    <3>   QED BY <1>4, <3>1
  <2>   QED BY <2>1, <2>2
<1>   QED BY <1>3, <1>4 DEF AgendaHolds

(* The instance t has the name and the arguments of x.                     *)
ReadAs(r, t, x) ==
    /\ t \in Instance
    /\ Shape[t] = [name |-> x.name, args |-> [i \in DOMAIN x.args |-> Value(r, x.args[i])]]

(* Two instances are one when their names and arguments are.               *)
LEMMA SameShape ==
    ASSUME NEW r, NEW s, NEW t,
           NEW x \in [name : Name, args : Seq(Node)], NEW y \in [name : Name, args : Seq(Node)],
           ReadAs(r, s, x), ReadAs(r, t, y)
    PROVE  s = t <=> /\ SameHead(x, y)
                     /\ \A i \in 1 .. Len(x.args) : Holds(r, <<x.args[i], y.args[i]>>)
<1>   DEFINE X == [i \in DOMAIN x.args |-> Value(r, x.args[i])]
             Y == [i \in DOMAIN y.args |-> Value(r, y.args[i])]
<1>1. s = t <=> Shape[s] = Shape[t]
      BY ShapeAssumption DEF ReadAs
<1>2. Shape[s] = Shape[t] <=> x.name = y.name /\ X = Y
  <2>   HIDE DEF X, Y
  <2>1. Shape[s] = [name |-> x.name, args |-> X] /\ Shape[t] = [name |-> y.name, args |-> Y]
        BY DEF X, Y, ReadAs
  <2>   QED BY <2>1
<1>3. DOMAIN x.args = 1 .. Len(x.args) /\ DOMAIN y.args = 1 .. Len(y.args)
      /\ Len(x.args) \in Nat /\ Len(y.args) \in Nat
      OBVIOUS
<1>4. DOMAIN X = 1 .. Len(x.args) /\ DOMAIN Y = 1 .. Len(y.args)
      BY <1>3
<1>5. \A i \in 1 .. Len(x.args) : X[i] = Value(r, x.args[i])
      BY <1>3
<1>6. \A i \in 1 .. Len(y.args) : Y[i] = Value(r, y.args[i])
      BY <1>3
<1>7. ASSUME X = Y
      PROVE  Len(x.args) = Len(y.args) /\ \A i \in 1 .. Len(x.args) : Holds(r, <<x.args[i], y.args[i]>>)
  <2>   HIDE DEF X, Y
  <2>1. 1 .. Len(x.args) = 1 .. Len(y.args)
        BY <1>4, <1>7
  <2>2. Len(x.args) = Len(y.args)
        BY <1>3, <2>1
  <2>   QED BY <1>5, <1>6, <1>7, <2>2 DEF Holds
<1>8. ASSUME Len(x.args) = Len(y.args), \A i \in 1 .. Len(x.args) : Holds(r, <<x.args[i], y.args[i]>>)
      PROVE  X = Y
      BY <1>3, <1>8 DEF Holds
<1>   QED BY <1>1, <1>2, <1>7, <1>8 DEF SameHead

(* An instance is read as itself.                                          *)
LEMMA InstanceReads ==
    ASSUME NEW r, NEW t \in Instance
    PROVE  /\ t \in Type /\ Value(r, t) = t
           /\ Shape[t] \in [name : Name, args : Seq(Node)]
           /\ ReadAs(r, t, Shape[t])
<1>1. t \in Type /\ Shape[t] \in [name : Name, args : Seq(Type)]
      BY ShapeAssumption
<1>2. \A u \in Type : Value(r, u) = u
      BY NodeAssumption DEF Value, Open
<1>3. Shape[t].args \in Seq(Type) /\ Shape[t].args \in Seq(Node)
      BY <1>1 DEF Node
<1>4. Shape[t].args = [i \in DOMAIN Shape[t].args |-> Value(r, Shape[t].args[i])]
      BY <1>2, <1>3
<1>   QED BY <1>1, <1>2, <1>3, <1>4 DEF ReadAs

(* A step of unify that is no mismatch keeps the readings of what is known *)
(* and of what is still to be done, taken together.                        *)
Exact ==
    \A r \in Readings : AppsFit(r, apps) =>
        /\ VarsFit(r, parent', binding') => VarsFit(r, parent, binding)
        /\ (VarsFit(r, parent', binding') /\ AgendaHolds(r)')
              <=> (VarsFit(r, parent, binding) /\ AgendaHolds(r))

LEMMA ResolvingFits ==
    ASSUME UInv, NEW r
    PROVE  VarsFit(r, Resolving, binding) <=> VarsFit(r, parent, binding)
BY StateIsWired, CompressFits DEF Resolving, UInv

LEMMA ReturnIsExact ==
    ASSUME UInv, ~Idle, Return, NEW r,
           VarsFit(r, parent', binding')
               <=> VarsFit(r, parent, binding) /\ Value(r, Left) = Value(r, Right)
    PROVE  /\ VarsFit(r, parent', binding') => VarsFit(r, parent, binding)
           /\ (VarsFit(r, parent', binding') /\ AgendaHolds(r)')
                 <=> (VarsFit(r, parent, binding) /\ AgendaHolds(r))
<1>1. AgendaHolds(r)' <=> \A i \in DOMAIN Tail(agenda) : Holds(r, Tail(agenda)[i])
      BY DEF AgendaHolds, Return
<1>   QED BY <1>1, HeadHolds, AgendaIsHeadAndTail

LEMMA PartsOfConcat ==
    ASSUME NEW S, NEW z \in Seq(S), NEW u \in Seq(S)
    PROVE  /\ DOMAIN (z \o u) = 1 .. Len(z) + Len(u)
           /\ \A i \in 1 .. Len(z) : (z \o u)[i] = z[i]
           /\ \A i \in 1 .. Len(u) : (z \o u)[Len(z) + i] = u[i]
<1>1. Len(z) \in Nat /\ Len(u) \in Nat /\ z \o u \in Seq(S) /\ Len(z \o u) = Len(z) + Len(u)
      OBVIOUS
<1>2. DOMAIN (z \o u) = 1 .. Len(z) + Len(u)
      BY <1>1
<1>3. ASSUME NEW i \in 1 .. Len(z)
      PROVE  (z \o u)[i] = z[i]
      BY <1>1
<1>4. ASSUME NEW i \in 1 .. Len(u)
      PROVE  (z \o u)[Len(z) + i] = u[i]
      BY <1>1
<1>   QED BY <1>2, <1>3, <1>4

LEMMA DescendIsExact ==
    ASSUME UInv, ~Idle, NEW r,
           NEW s \in Seq(Made), NEW t \in Seq(Made), Len(s) = Len(t), Descend(s, t),
           parent' = Resolving, binding' = binding,
           Value(r, Left) = Value(r, Right)
               <=> \A i \in 1 .. Len(s) : Holds(r, <<s[i], t[i]>>)
    PROVE  /\ VarsFit(r, parent', binding') => VarsFit(r, parent, binding)
           /\ (VarsFit(r, parent', binding') /\ AgendaHolds(r)')
                 <=> (VarsFit(r, parent, binding) /\ AgendaHolds(r))
<1>1. VarsFit(r, parent', binding') <=> VarsFit(r, parent, binding)
      BY ResolvingFits
<1>   DEFINE z == Zip(s, t)
             u == Tail(agenda)
<1>2. z \in Seq(Made \X Made) /\ Len(z) = Len(s) /\ \A i \in 1 .. Len(s) : z[i] = <<s[i], t[i]>>
      BY ZipIsPairs
<1>3. u \in Seq(Made \X Made) /\ agenda' = z \o u
      BY HeadIsMade DEF UInv, Descend
<1>4. AgendaHolds(r)' <=> \A i \in DOMAIN agenda' : Holds(r, agenda'[i])
      BY DEF AgendaHolds
<1>   HIDE DEF z, u
<1>5. /\ DOMAIN agenda' = 1 .. Len(z) + Len(u) /\ DOMAIN u = 1 .. Len(u)
      /\ Len(z) \in Nat /\ Len(u) \in Nat
      /\ \A i \in 1 .. Len(z) : agenda'[i] = z[i]
      /\ \A i \in 1 .. Len(u) : agenda'[Len(z) + i] = u[i]
  <2>1. /\ DOMAIN (z \o u) = 1 .. Len(z) + Len(u)
        /\ \A i \in 1 .. Len(z) : (z \o u)[i] = z[i]
        /\ \A i \in 1 .. Len(u) : (z \o u)[Len(z) + i] = u[i]
    <3>   DEFINE P == Made \X Made
    <3>1. z \in Seq(P) /\ u \in Seq(P)
          BY <1>2, <1>3
    <3>   HIDE DEF P
    <3>   QED BY <3>1, PartsOfConcat
  <2>2. DOMAIN u = 1 .. Len(u) /\ Len(z) \in Nat /\ Len(u) \in Nat
        BY <1>2, <1>3
  <2>   QED BY <1>3, <2>1, <2>2
<1>6. AgendaHolds(r)' <=> /\ \A i \in 1 .. Len(z) : Holds(r, z[i])
                          /\ \A i \in 1 .. Len(u) : Holds(r, u[i])
  <2>1. ASSUME \A i \in DOMAIN agenda' : Holds(r, agenda'[i])
        PROVE  /\ \A i \in 1 .. Len(z) : Holds(r, z[i])
               /\ \A i \in 1 .. Len(u) : Holds(r, u[i])
    <3>1. ASSUME NEW i \in 1 .. Len(z)
          PROVE  Holds(r, z[i])
          BY <1>5, <2>1
    <3>2. ASSUME NEW i \in 1 .. Len(u)
          PROVE  Holds(r, u[i])
      <4>1. Len(z) + i \in DOMAIN agenda' /\ agenda'[Len(z) + i] = u[i]
            BY <1>5
      <4>   QED BY <2>1, <4>1
    <3>   QED BY <3>1, <3>2
  <2>2. ASSUME \A i \in 1 .. Len(z) : Holds(r, z[i]), \A i \in 1 .. Len(u) : Holds(r, u[i]),
               NEW i \in DOMAIN agenda'
        PROVE  Holds(r, agenda'[i])
    <3>1. CASE i \in 1 .. Len(z)
          BY <1>5, <2>2, <3>1
    <3>2. CASE i \notin 1 .. Len(z)
      <4>1. i - Len(z) \in 1 .. Len(u) /\ i = Len(z) + (i - Len(z))
            BY <1>5, <3>2
      <4>2. agenda'[i] = u[i - Len(z)]
            BY <1>5, <4>1
      <4>   QED BY <2>2, <4>1, <4>2
    <3>   QED BY <3>1, <3>2
  <2>   QED BY <1>4, <2>1, <2>2
<1>7. (\A i \in 1 .. Len(z) : Holds(r, z[i])) <=> Value(r, Left) = Value(r, Right)
      BY <1>2
<1>8. VarsFit(r, parent, binding) =>
        (AgendaHolds(r) <=> /\ Value(r, Left) = Value(r, Right)
                            /\ \A i \in 1 .. Len(u) : Holds(r, u[i]))
      BY <1>5, HeadHolds, AgendaIsHeadAndTail DEF u
<1>   QED BY <1>1, <1>6, <1>7, <1>8

LEMMA SameIsExact ==
    ASSUME UInv, ~Idle, SameType \/ SameVar
    PROVE  Exact
<1>1. Return /\ parent' = Resolving /\ binding' = binding /\ Left = Right
      BY DEF SameType, SameVar
<1>   QED BY <1>1, ResolvingFits, ReturnIsExact DEF Exact

LEMMA UnionVarsIsExact ==
    ASSUME UInv, ~Idle, UnionVars
    PROVE  Exact
<1>1. SUFFICES ASSUME NEW r \in Readings
               PROVE  VarsFit(r, parent', binding')
                        <=> VarsFit(r, parent, binding) /\ Value(r, Left) = Value(r, Right)
      BY ReturnIsExact DEF Exact, UnionVars
<1>   DEFINE root == IF rank[Left] < rank[Right] THEN Right ELSE Left
             child == IF rank[Left] < rank[Right] THEN Left ELSE Right
<1>2. /\ parent' = [Resolving EXCEPT ![child] = root] /\ binding' = binding
      /\ root \in Var /\ child \in Var
      /\ Value(r, Left) = Value(r, Right) <=> r[child] = r[root]
      BY DEF UnionVars, Value, Open
<1>3. binding[child] = None /\ Resolving[child] = child
      BY SidesAreMade, ResolvingIsWired DEF UInv, UnionVars
<1>   HIDE DEF root, child
<1>4. Resolving \in [Var -> Var]
      BY ResolvingIsWired DEF UInv, Wired
<1>5. VarsFit(r, parent', binding') <=> VarsFit(r, Resolving, binding) /\ r[child] = r[root]
      BY <1>2, <1>3, <1>4 DEF VarsFit
<1>   QED BY <1>2, <1>5, ResolvingFits

LEMMA BindVarIsExact ==
    ASSUME UInv, ~Idle, NEW v \in Var, NEW t \in App \cup Type, BindVar(v, t)
    PROVE  Exact
<1>1. SUFFICES ASSUME NEW r \in Readings
               PROVE  VarsFit(r, parent', binding')
                        <=> VarsFit(r, parent, binding) /\ Value(r, Left) = Value(r, Right)
      BY ReturnIsExact DEF Exact, BindVar
<1>   DEFINE seen == Below(t) \cap Var
             c == [binding EXCEPT ![v] = t]
<1>2. parent' = Compress(Resolving, seen) /\ binding' = c /\ {v, t} = {Left, Right}
      BY DEF BindVar, Sides
<1>3. binding[v] = None /\ binding \in [Var -> App \cup Type \cup {None}] /\ t # None
  <2>1. TypeOK /\ TypesAreFinite
        BY DEF UInv
  <2>2. binding[v] = None
        BY <1>2, <2>1, SidesAreMade
  <2>   QED BY <2>1, <2>2, NodeAssumption DEF TypeOK, Node, Open
<1>4. Value(r, Left) = Value(r, Right) <=> r[v] = Value(r, t)
      BY <1>2 DEF Value, Open
<1>   HIDE DEF seen
<1>5. VarsFit(r, parent', c) <=> VarsFit(r, Resolving, c)
      BY <1>2, ResolvingIsWired, CompressFits DEF UInv
<1>6. VarsFit(r, Resolving, c) <=> VarsFit(r, Resolving, binding) /\ r[v] = Value(r, t)
      BY <1>3 DEF VarsFit
<1>   QED BY <1>2, <1>4, <1>5, <1>6, ResolvingFits

LEMMA UnifyAppsIsExact ==
    ASSUME UInv, ~Idle, UnifyApps
    PROVE  Exact
<1>0. TypeOK /\ TypesAreFinite /\ vars \subseteq Var
      BY DEF UInv, TypeOK
<1>1. apps[Left] # None /\ apps[Right] # None /\ Left \in App /\ Right \in App
      BY <1>0, SidesAreMade, NodeAssumption DEF UnifyApps, Made
<1>   DEFINE x == apps[Left]
             y == apps[Right]
<1>2. /\ x \in [name : Name, args : Seq(Node)] /\ x.args \in Seq(Made)
      /\ y \in [name : Name, args : Seq(Node)] /\ y.args \in Seq(Made)
      BY <1>1, ArgsAreMade DEF UInv
<1>3. ASSUME NEW r \in Readings, AppsFit(r, apps)
      PROVE  Value(r, Left) = Value(r, Right)
               <=> \A i \in 1 .. Len(x.args) : Holds(r, <<x.args[i], y.args[i]>>)
  <2>1. Value(r, Left) = r[Left] /\ Value(r, Right) = r[Right]
        BY <1>1 DEF Value, Open
  <2>2. ReadAs(r, r[Left], x) /\ ReadAs(r, r[Right], y)
        BY <1>1, <1>3 DEF AppsFit, ReadAs
  <2>3. SameHead(x, y)
        BY DEF UnifyApps
  <2>   HIDE DEF x, y
  <2>   QED BY <1>2, <2>1, <2>2, <2>3, SameShape
<1>4. Len(x.args) = Len(y.args) /\ Descend(x.args, y.args) /\ parent' = Resolving /\ binding' = binding
      BY DEF UnifyApps, SameHead
<1>   HIDE DEF x, y
<1>   QED BY <1>2, <1>3, <1>4, DescendIsExact DEF Exact

LEMMA UnifyAppWithInstanceIsExact ==
    ASSUME UInv, ~Idle, NEW c \in App, NEW t \in Type, UnifyAppWithInstance(c, t)
    PROVE  Exact
<1>0. TypeOK /\ TypesAreFinite /\ vars \subseteq Var
      BY DEF UInv, TypeOK
<1>1. ((c = Left /\ t = Right) \/ (c = Right /\ t = Left)) /\ t \in Instance
  <2>1. <<c, t>> = <<Left, Right>> \/ <<c, t>> = <<Right, Left>>
        BY DEF UnifyAppWithInstance, Sides
  <2>   QED BY <2>1 DEF UnifyAppWithInstance
<1>2. apps[c] # None
      BY <1>0, <1>1, SidesAreMade, NodeAssumption DEF Made
<1>   DEFINE x == apps[c]
             y == Shape[t]
<1>3. /\ x \in [name : Name, args : Seq(Node)] /\ x.args \in Seq(Made)
      /\ y.args \in Seq(Made)
      BY <1>1, <1>2, ArgsAreMade, ShapeIsMade DEF UInv
<1>4. ASSUME NEW r \in Readings, AppsFit(r, apps)
      PROVE  Value(r, Left) = Value(r, Right)
               <=> \A i \in 1 .. Len(x.args) : Holds(r, <<x.args[i], y.args[i]>>)
  <2>1. Value(r, Left) = Value(r, Right) <=> r[c] = t
    <3>1. Value(r, c) = r[c] /\ Value(r, t) = t
          BY <1>1, InstanceReads DEF Value, Open
    <3>   QED BY <1>1, <3>1
  <2>2. ReadAs(r, r[c], x)
        BY <1>2, <1>4 DEF AppsFit, ReadAs
  <2>3. SameHead(x, y)
        BY DEF UnifyAppWithInstance
  <2>4. y \in [name : Name, args : Seq(Node)] /\ ReadAs(r, t, y)
        BY <1>1, InstanceReads
  <2>   HIDE DEF x, y
  <2>5. r[c] = t <=> /\ SameHead(x, y)
                     /\ \A i \in 1 .. Len(x.args) : Holds(r, <<x.args[i], y.args[i]>>)
        BY <1>3, <2>2, <2>4, SameShape
  <2>   QED BY <2>1, <2>3, <2>5
<1>5. Len(x.args) = Len(y.args) /\ Descend(x.args, y.args) /\ parent' = Resolving /\ binding' = binding
      BY DEF UnifyAppWithInstance, SameHead
<1>   HIDE DEF x, y
<1>   QED BY <1>3, <1>4, <1>5, DescendIsExact DEF Exact

LEMMA CallIsExact ==
    ASSUME UInv, ~Idle,
           \/ SameType \/ SameVar \/ UnionVars \/ UnifyApps
           \/ \E v \in Var, t \in App \cup Type : BindVar(v, t)
           \/ \E c \in App, t \in Type : UnifyAppWithInstance(c, t)
    PROVE  Exact
BY SameIsExact, UnionVarsIsExact, BindVarIsExact, UnifyAppsIsExact, UnifyAppWithInstanceIsExact

-----------------------------------------------------------------------------
(* A mismatch has no reading.                                              *)

LEMMA MismatchFits ==
    ASSUME UInv, ~Idle, NEW r,
           Refuse \/ \E v \in Var, t \in App \cup Type : Infinite(v, t)
    PROVE  VarsFit(r, parent', binding') <=> VarsFit(r, parent, binding)
<1>1. binding' = binding /\ (parent' = Resolving \/ \E seen : parent' = Compress(Resolving, seen))
      BY DEF Refuse, Infinite
<1>2. Forest(Resolving)
      BY ResolvingIsWired DEF UInv
<1>   QED BY <1>1, <1>2, CompressFits, ResolvingFits

LEMMA ClashDiffers ==
    ASSUME UInv, NEW r \in Readings, AppsFit(r, apps),
           NEW x \in Made, NEW y \in Made, Clash(x, y)
    PROVE  Value(r, x) # Value(r, y)
<1>0. TypeOK /\ vars \subseteq Var
      BY DEF UInv, TypeOK
<1>1. ASSUME NEW c \in App, c \in Made
      PROVE  /\ apps[c] \in [name : Name, args : Seq(Node)]
             /\ ReadAs(r, r[c], apps[c]) /\ Value(r, c) = r[c]
  <2>1. apps[c] # None
        BY <1>0, <1>1, NodeAssumption DEF Made
  <2>   QED BY <1>0, <2>1, ArgsAreMade DEF AppsFit, ReadAs, Value, Open
<1>2. \A t \in Type : Value(r, t) = t
      BY NodeAssumption DEF Value, Open
<1>3. CASE x \in Type /\ y \in Type /\ x # y
      BY <1>2, <1>3
<1>4. CASE x \in App /\ y \in App /\ ~SameHead(apps[x], apps[y])
  <2>1. r[x] # r[y]
        BY <1>1, <1>4, SameShape
  <2>   QED BY <1>1, <1>4, <2>1
<1>5. CASE x \in App /\ y \in Type \ Instance
      BY <1>1, <1>2, <1>5 DEF ReadAs
<1>6. CASE x \in App /\ y \in Instance /\ ~SameHead(apps[x], Shape[y])
  <2>1. /\ Shape[y] \in [name : Name, args : Seq(Node)]
        /\ ReadAs(r, y, Shape[y]) /\ Value(r, y) = y
        BY <1>6, InstanceReads
  <2>2. r[x] # y
        BY <1>1, <1>6, <2>1, SameShape
  <2>   QED BY <1>1, <1>6, <2>1, <2>2
<1>   QED BY <1>3, <1>4, <1>5, <1>6 DEF Clash

LEMMA ArgsAreSmaller ==
    ASSUME TypeOK, NEW r \in Readings, AppsFit(r, apps),
           NEW c \in App, apps[c] # None, NEW x \in Range(apps[c].args) \cap Open
    PROVE  Size[r[x]] < Size[r[c]]
<1>1. PICK i \in DOMAIN apps[c].args : x = apps[c].args[i]
      BY DEF Range
<1>   DEFINE read == [j \in DOMAIN apps[c].args |-> Value(r, apps[c].args[j])]
<1>2. r[c] \in Instance /\ Shape[r[c]] = [name |-> apps[c].name, args |-> read]
      BY DEF AppsFit
<1>3. i \in DOMAIN Shape[r[c]].args /\ Shape[r[c]].args[i] = r[x]
  <2>1. i \in DOMAIN read /\ read[i] = r[x]
        BY <1>1 DEF Value
  <2>   HIDE DEF read
  <2>   QED BY <1>2, <2>1
<1>   QED BY <1>2, <1>3, ShapeAssumption

(* What a type contains is smaller.                                        *)
LEMMA OccursDiffers ==
    ASSUME UInv, NEW r \in Readings, AppsFit(r, apps), VarsFit(r, parent, binding),
           NEW v \in Var, NEW t \in App \cup Type, Occurs(v, t)
    PROVE  r[v] # Value(r, t)
<1>   DEFINE S == {m \in Open : m = t \/ Size[r[m]] < Size[Value(r, t)]}
<1>0. TypeOK /\ VarsFit(r, Resolving, binding) /\ Resolving \in [Var -> Var]
      BY ResolvingFits, ResolvingIsWired DEF UInv, Wired
<1>1. ASSUME NEW m \in S, NEW x \in Succ(Resolving, binding, apps, m)
      PROVE  x \in S
  <2>0. m \in Open /\ Size \in [Type -> Nat] /\ r \in [Open -> Type] /\ Value(r, t) \in Type
        BY ShapeAssumption DEF Readings, Value, Open
  <2>1. CASE m \in Var /\ Resolving[m] # m
    <3>1. x = Resolving[m] /\ x \in Open
          BY <1>0, <1>1, <2>0, <2>1, SuccOfNode DEF Open
    <3>2. r[x] = r[m] /\ m # t
          BY <1>0, <2>1, <3>1, NodeAssumption DEF VarsFit
    <3>   QED BY <1>1, <3>1, <3>2
  <2>2. CASE m \in Var /\ Resolving[m] = m
    <3>1. x = binding[m] /\ x \in App /\ x \in Open
          BY <1>1, <2>0, <2>2, SuccOfNode DEF Open
    <3>2. r[m] = r[x] /\ m # t
          BY <1>0, <2>2, <3>1, NodeAssumption DEF VarsFit, Value, Node
    <3>   QED BY <1>1, <3>1, <3>2
  <2>3. CASE m \in App
    <3>1. apps[m] # None /\ x \in Range(apps[m].args) \cap Open
          BY <1>1, <2>0, <2>3, SuccOfNode
    <3>2. Size[r[x]] < Size[r[m]] /\ r[x] \in Type /\ r[m] \in Type
          BY <1>0, <2>0, <2>3, <3>1, ArgsAreSmaller
    <3>3. m = t => Value(r, t) = r[m]
          BY <2>0 DEF Value
    <3>   QED BY <1>1, <2>0, <3>1, <3>2, <3>3
  <2>   QED BY <2>0, <2>1, <2>2, <2>3 DEF Open
<1>2. S \in SUBSET Open /\ {t} \cap Open \subseteq S
      OBVIOUS
<1>   HIDE DEF S
<1>3. v \in S
      BY <1>1, <1>2 DEF Occurs, Below, Reach
<1>4. Size[r[v]] < Size[Value(r, t)]
      BY <1>3, NodeAssumption DEF S
<1>5. Size[r[v]] \in Nat
      BY ShapeAssumption DEF Readings, Open
<1>   QED BY <1>4, <1>5

LEMMA MismatchDiffers ==
    ASSUME UInv, ~Idle, NEW r \in Readings, AppsFit(r, apps), VarsFit(r, parent, binding),
           Refuse \/ \E v \in Var, t \in App \cup Type : Infinite(v, t)
    PROVE  ~AgendaHolds(r)
<1>1. Left \in Made /\ Right \in Made
      BY SidesAreMade DEF UInv
<1>2. CASE Refuse
  <2>1. Clash(Left, Right) \/ Clash(Right, Left)
        BY <1>2 DEF Refuse, Sides
  <2>   QED BY <1>1, <2>1, ClashDiffers, HeadHolds, AgendaIsHeadAndTail
<1>3. CASE \E v \in Var, t \in App \cup Type : Infinite(v, t)
  <2>1. PICK v \in Var, t \in App \cup Type : Infinite(v, t)
        BY <1>3
  <2>2. (v = Left /\ t = Right) \/ (v = Right /\ t = Left)
    <3>1. <<v, t>> = <<Left, Right>> \/ <<v, t>> = <<Right, Left>>
          BY <2>1 DEF Infinite, Sides
    <3>   QED BY <3>1
  <2>3. r[v] # Value(r, t) /\ Value(r, v) = r[v]
        BY <2>1, OccursDiffers DEF Infinite, Value, Open
  <2>   QED BY <2>2, <2>3, HeadHolds, AgendaIsHeadAndTail
<1>   QED BY <1>2, <1>3

-----------------------------------------------------------------------------
(* What was given.                                                         *)

(* AcceptedHolds, without the agenda for all calls but the last.           *)
SettledHolds ==
    \A r \in Readings : Known(r) =>
        \A i \in DOMAIN given \ refused :
            (i # Len(given) \/ AgendaHolds(r)) => Holds(r, given[i])

(* As long as nothing is refused, the solver assumes what it was told, and *)
(* no more.                                                                *)
NothingInvented ==
    refused = {} => \A r \in Readings :
        AppsFit(r, apps) /\ (\A i \in DOMAIN given : Holds(r, given[i]))
            => VarsFit(r, parent, binding) /\ AgendaHolds(r)

SInv == UInv /\ SettledHolds /\ NothingInvented /\ RefusedIsImpossible

LEMMA IdleHolds ==
    ASSUME Idle, NEW r
    PROVE  AgendaHolds(r)
BY DEF Idle, AgendaHolds

LEMMA InitSInv == ASSUME Init PROVE SInv
<1>1. UInv
      BY InitUInv
<1>2. ASSUME NEW r \in Readings
      PROVE  VarsFit(r, parent, binding) /\ AgendaHolds(r)
      BY IdleHolds DEF Init, VarsFit, Idle
<1>   QED BY <1>1, <1>2 DEF Init, SInv, SettledHolds, NothingInvented, RefusedIsImpossible

LEMMA FreshVarKeepsSInv ==
    ASSUME SInv, NEW v \in Var, FreshVar(v)
    PROVE  SettledHolds' /\ NothingInvented' /\ RefusedIsImpossible'
BY DEF SInv, FreshVar, SettledHolds, NothingInvented, RefusedIsImpossible, Known, AgendaHolds

LEMMA NewAppKeepsSInv ==
    ASSUME SInv, NEW c \in App, NEW app \in Written, NewApp(c, app)
    PROVE  SettledHolds' /\ NothingInvented' /\ RefusedIsImpossible'
<1>1. ASSUME NEW r, AppsFit(r, apps')
      PROVE  AppsFit(r, apps)
  <2>1. \A d \in App : apps[d] # None => apps'[d] = apps[d]
        BY DEF NewApp, SInv, UInv, TypeOK
  <2>   QED BY <1>1, <2>1 DEF AppsFit
<1>2. UNCHANGED <<vars, parent, rank, binding, agenda, given, refused>>
      BY DEF NewApp
<1>3. SettledHolds'
      BY <1>1, <1>2 DEF SInv, SettledHolds, Known, AgendaHolds
<1>4. NothingInvented'
      BY <1>1, <1>2 DEF SInv, NothingInvented, AgendaHolds
<1>5. RefusedIsImpossible'
      BY <1>1, <1>2 DEF SInv, RefusedIsImpossible
<1>   QED BY <1>3, <1>4, <1>5

LEMMA CallUnifyKeepsSInv ==
    ASSUME SInv, NEW l \in Made, NEW m \in Made, CallUnify(l, m)
    PROVE  SettledHolds' /\ NothingInvented' /\ RefusedIsImpossible'
<1>1. /\ given \in Seq(Made \X Made) /\ refused \subseteq DOMAIN given
      /\ given' = Append(given, <<l, m>>) /\ agenda' = <<<<l, m>>>>
      /\ UNCHANGED <<parent, binding, apps, refused>>
      BY DEF SInv, UInv, TypeOK, CallUnify
<1>2. /\ Len(given') = Len(given) + 1 /\ Len(given) \in Nat
      /\ DOMAIN given = 1 .. Len(given) /\ DOMAIN given' = 1 .. Len(given) + 1
      /\ \A i \in 1 .. Len(given) : given'[i] = given[i]
      /\ given'[Len(given) + 1] = <<l, m>>
      BY <1>1
<1>3. ASSUME NEW r
      PROVE  AgendaHolds(r) /\ (AgendaHolds(r)' <=> Holds(r, <<l, m>>))
  <2>1. AgendaHolds(r)
        BY IdleHolds DEF CallUnify
  <2>2. AgendaHolds(r)' <=> \A i \in DOMAIN agenda' : Holds(r, agenda'[i])
        BY DEF AgendaHolds
  <2>3. DOMAIN agenda' = {1} /\ agenda'[1] = <<l, m>>
        BY <1>1
  <2>   QED BY <2>1, <2>2, <2>3
<1>4. SettledHolds'
  <2>1. SUFFICES ASSUME NEW r \in Readings, Known(r), NEW i \in DOMAIN given' \ refused',
                        i # Len(given') \/ AgendaHolds(r)'
                 PROVE  Holds(r, given'[i])
        BY <1>1 DEF SettledHolds, Known
  <2>2. CASE i = Len(given) + 1
        BY <1>2, <1>3, <2>1, <2>2
  <2>3. CASE i # Len(given) + 1
    <3>1. i \in DOMAIN given \ refused /\ given'[i] = given[i]
          BY <1>1, <1>2, <2>1, <2>3
    <3>   QED BY <1>3, <2>1, <3>1 DEF SInv, SettledHolds
  <2>   QED BY <2>2, <2>3
<1>5. NothingInvented'
  <2>1. SUFFICES ASSUME refused = {}, NEW r \in Readings, AppsFit(r, apps),
                        \A i \in DOMAIN given' : Holds(r, given'[i])
                 PROVE  VarsFit(r, parent, binding) /\ AgendaHolds(r)'
        BY <1>1 DEF NothingInvented
  <2>2. \A i \in DOMAIN given : Holds(r, given[i])
        BY <1>2, <2>1
  <2>3. Holds(r, <<l, m>>)
        BY <1>2, <2>1
  <2>   QED BY <1>3, <2>1, <2>2, <2>3 DEF SInv, NothingInvented
<1>6. RefusedIsImpossible'
  <2>1. SUFFICES ASSUME NEW k \in refused, \A j \in refused : k <= j,
                        NEW r \in Readings, AppsFit(r, apps), \A i \in 1 .. k : Holds(r, given'[i])
                 PROVE  FALSE
        BY <1>1 DEF RefusedIsImpossible
  <2>2. \A i \in 1 .. k : Holds(r, given[i])
        BY <1>1, <1>2, <2>1
  <2>   QED BY <2>1, <2>2 DEF SInv, RefusedIsImpossible
<1>   QED BY <1>4, <1>5, <1>6

LEMMA ExactKeepsSInv ==
    ASSUME SInv, ~Idle, Exact, Unchanged, UNCHANGED refused
    PROVE  SettledHolds' /\ NothingInvented' /\ RefusedIsImpossible'
<1>1. UNCHANGED <<apps, given, refused>>
      BY DEF Unchanged
<1>2. SettledHolds'
      BY <1>1 DEF SInv, SettledHolds, Known, Exact
<1>3. NothingInvented'
      BY <1>1 DEF SInv, NothingInvented, Exact
<1>4. RefusedIsImpossible'
      BY <1>1 DEF SInv, RefusedIsImpossible
<1>   QED BY <1>2, <1>3, <1>4

LEMMA MismatchKeepsSInv ==
    ASSUME SInv, ~Idle,
           Refuse \/ \E v \in Var, t \in App \cup Type : Infinite(v, t)
    PROVE  SettledHolds' /\ NothingInvented' /\ RefusedIsImpossible'
<1>1. /\ UNCHANGED <<apps, given>> /\ refused' = refused \cup {Len(given)}
      /\ UInv
      BY DEF Refuse, Infinite, Mismatch, Unchanged, SInv
<1>2. SettledHolds'
      BY <1>1, MismatchFits DEF SInv, SettledHolds, Known
<1>3. NothingInvented'
      BY <1>1 DEF NothingInvented
<1>4. RefusedIsImpossible'
  <2>1. SUFFICES ASSUME NEW k \in refused', \A j \in refused' : k <= j,
                        NEW r \in Readings, AppsFit(r, apps), \A i \in 1 .. k : Holds(r, given[i])
                 PROVE  FALSE
        BY <1>1 DEF RefusedIsImpossible
  <2>2. CASE k \in refused
        BY <1>1, <2>1, <2>2 DEF SInv, RefusedIsImpossible
  <2>3. CASE k \notin refused
    <3>1. k = Len(given) /\ DOMAIN given = 1 .. Len(given) /\ Len(given) \in Nat
          /\ refused \subseteq DOMAIN given
          BY <1>1, <2>1, <2>3 DEF UInv, TypeOK
    <3>2. refused = {}
      <4>1. SUFFICES ASSUME NEW j \in refused PROVE FALSE
            OBVIOUS
      <4>2. k <= j /\ j \in 1 .. k
            BY <1>1, <2>1, <3>1
      <4>   QED BY <2>3, <3>1, <4>2
    <3>3. VarsFit(r, parent, binding) /\ AgendaHolds(r)
          BY <2>1, <3>1, <3>2 DEF SInv, NothingInvented
    <3>   QED BY <1>1, <2>1, <3>3, MismatchDiffers
  <2>   QED BY <2>2, <2>3
<1>   QED BY <1>2, <1>3, <1>4

LEMMA ActionsKeepSInv == ASSUME SInv, [Next]_unifyVars PROVE SInv'
<1>1. UInv'
      BY ActionsKeepUInv DEF SInv
<1>2. CASE \E v \in Var : FreshVar(v)
      BY <1>1, <1>2, FreshVarKeepsSInv DEF SInv
<1>3. CASE \E c \in App, app \in Written : NewApp(c, app)
      BY <1>1, <1>3, NewAppKeepsSInv DEF SInv
<1>4. CASE \E l, r \in Made : CallUnify(l, r)
      BY <1>1, <1>4, CallUnifyKeepsSInv DEF SInv
<1>5. CASE Unify
  <2>1. ASSUME ~Idle, Refuse \/ \E v \in Var, t \in App \cup Type : Infinite(v, t)
        PROVE  SInv'
        BY <1>1, <2>1, MismatchKeepsSInv DEF SInv
  <2>2. ASSUME ~Idle,
               \/ SameType \/ SameVar \/ UnionVars \/ UnifyApps
               \/ \E v \in Var, t \in App \cup Type : BindVar(v, t)
               \/ \E c \in App, t \in Type : UnifyAppWithInstance(c, t)
        PROVE  SInv'
    <3>1. Exact
          BY <2>2, CallIsExact DEF SInv
    <3>2. Unchanged /\ UNCHANGED refused
          BY <2>2 DEF SameType, SameVar, UnionVars, UnifyApps, BindVar, UnifyAppWithInstance,
                      Return, Descend
    <3>   QED BY <1>1, <2>2, <3>1, <3>2, ExactKeepsSInv DEF SInv
  <2>   QED BY <1>5, <2>1, <2>2 DEF Unify
<1>6. CASE UNCHANGED unifyVars
      BY <1>1, <1>6 DEF unifyVars, SInv, SettledHolds, NothingInvented, RefusedIsImpossible,
                        Known, AgendaHolds
<1>   QED BY <1>2, <1>3, <1>4, <1>5, <1>6 DEF Next

LEMMA AlwaysSInv == UnifySpec => []SInv
BY InitSInv, ActionsKeepSInv, PTL DEF UnifySpec

(* What unify accepts holds ever after: every reading of the bindings, and *)
(* of the calls still to be made, makes the two sides one type.            *)
THEOREM SolverIsSound == UnifySpec => []AcceptedHolds
<1>1. SInv => AcceptedHolds
      BY DEF SInv, SettledHolds, AcceptedHolds
<1>   QED BY <1>1, AlwaysSInv, PTL

(* The first call that unify refuses could not have been accepted: nothing *)
(* satisfies it together with what was accepted before.                    *)
THEOREM RefusalIsJustified == UnifySpec => []RefusedIsImpossible
<1>1. SInv => RefusedIsImpossible
      BY DEF SInv
<1>   QED BY <1>1, AlwaysSInv, PTL
================================================================================
