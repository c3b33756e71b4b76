------------------------------- MODULE MCStaging -------------------------------
(***************************************************************************)
(* Programs for Staging, by the pass they are for.  Variable 1 is the      *)
(* parameter of main, and the variables of function i start at 10 * i.     *)
(* Effect IO is opaque to staging, and effect Files is for compile time    *)
(* only; E is neither.                                                     *)
(***************************************************************************)
EXTENDS Staging

E == 1
IO == 2
Files == 3
op == 1

Arg == Get(1)
I(n) == Lit(Int_(n))
Add(a, b) == Binary("add", a, b)
Sub(a, b) == Binary("sub", a, b)
Lt(a, b) == Binary("lt", a, b)
Eq(a, b) == Binary("eq", a, b)
Give_(x) == Return(Get(x))

Fn(ps, s) == [params |-> ps, body |-> s, effects |-> {}, ctOnly |-> FALSE, generics |-> 0]
EffFn(row, ps, s) == [Fn(ps, s) EXCEPT !.effects = row]
CtFn(ps, s) == [Fn(ps, s) EXCEPT !.ctOnly = TRUE]
GenFn(n, ps, s) == [Fn(ps, s) EXCEPT !.generics = n]
Main(s) == Fn(<<1>>, s)

Clause(ps, r, s) == [op |-> op, params |-> ps, resume |-> r, body |-> s]
Handler(e, x, c) == [effect |-> e, param |-> x, ret |-> Give_(x), clauses |-> <<c>>]

(* Handlers of effect e whose variables start at x: resume with the        *)
(* argument and one more, give up, and do something after resuming.        *)
TailOf(e, x, n) ==
    Handler(e, x, Clause(<<x + 1>>, x + 2, Resume(x + 3, x + 2, Add(Get(x + 1), I(n)), Give_(x + 3))))
AbortOf(e, x) == Handler(e, x, Clause(<<x + 1>>, NoVar, Return(I(7))))
AfterOf(e, x) ==
    Handler(e, x, Clause(<<x + 1>>, x + 2, Resume(x + 3, x + 2, Get(x + 1),
                                             Return(Add(Get(x + 3), I(1))))))

Program(fs, hs) == [funcs |-> fs, handlers |-> hs]
Pure(fs) == Program(fs, <<>>)

Numbers == {-8, -1, 0, 3, 7}
Operators == {"add", "sub", "mul", "div", "mod", "lt", "eq"}

(* Operators on known operands, at the edges of a word.                    *)
Arithmetic ==
    {Pure(<<Main(Let(2, Binary(o, I(a), I(b)), Return(Get(2))))>>) :
        o \in Operators, a \in Numbers, b \in Numbers}
    \cup {Pure(<<Main(Return(Unary("neg", I(a))))>>) : a \in Numbers}

(* Calls of pure functions: nested, recursive, too deep, trapping, printing *)
(* and called with what is not known.                                      *)
Inc == Fn(<<20>>, Return(Add(Get(20), I(1))))
CountDown == Fn(<<20>>, If(Lt(Get(20), I(1)), Return(I(0)),
                           Return(Add(PureCall(2, <<Sub(Get(20), I(1))>>), I(1)))))
Twice(f) == Fn(<<30>>, Val(31, Return(PureCall(f, <<Get(30)>>)), Return(PureCall(f, <<Get(31)>>))))
Thrice(f) == Fn(<<40>>, Let(41, PureCall(f, <<Get(40)>>), Return(PureCall(f, <<Get(41)>>))))
Printing == Fn(<<20>>, Let(21, Builtin("print", <<Get(20)>>), Return(Get(20))))

Folding ==
    {Pure(<<Main(Return(Add(PureCall(2, <<I(n)>>), Arg))), f>>) :
        n \in {0, 2, 7}, f \in {Inc, CountDown}}
    \cup {Pure(<<Main(Return(PureCall(n, <<I(1)>>))), Inc, Twice(2), Thrice(3)>>) : n \in 2 .. 4}
    \cup {Pure(<<Main(Return(PureCall(3, <<Add(I(1), I(1))>>))), Inc, Twice(2)>>),
          Pure(<<Main(Return(PureCall(3, <<Arg>>))), Inc, Twice(2)>>),
          Pure(<<Main(Return(PureCall(3, <<I(6)>>))), Inc, Twice(2)>>),
          Pure(<<Main(Return(PureCall(2, <<I(1)>>))), Printing>>),
          Pure(<<Main(Return(PureCall(2, <<Arg>>))), Printing>>)}
    \cup {Pure(<<Main(Return(PureCall(2, <<I(n)>>))),
                 Fn(<<20>>, Stage("comptime", Let(21, I(n), Give_(21))))>>) : n \in {0, 1}}

(* Branches that are decided at once, and behind lets.                     *)
Known == MakeEnum(1, <<I(3), Arg>>)
OnKnown(e) ==
    MatchOn(e, <<[tag |-> 1, binders |-> <<5, 6>>], [tag |-> 2, binders |-> <<7>>]>>,
            <<Return(Add(Get(5), Get(6))), Give_(7), Return(I(0))>>)

Branches ==
    {Pure(<<Main(If(c, Return(I(1)), Return(Arg)))>>) :
        c \in {Lit(Bool(TRUE)), Lt(I(2), I(1)), Lt(Arg, I(1)), Eq(Arg, Arg)}}
    \cup {Pure(<<Main(Let(2, Lt(I(n), I(1)), If(Get(2), Return(I(1)), Return(Arg))))>>) : n \in {0, 1}}
    \cup {Pure(<<Main(Let(2, MakeEnum(g, IF g = 1 THEN <<I(3), Arg>> ELSE <<Arg>>), OnKnown(Get(2))))>>) :
            g \in 1 .. 3}
    \cup {Pure(<<Main(OnKnown(Known))>>),
          Pure(<<Main(Let(2, Known, Let(3, Get(2), Val(4, OnKnown(Get(3)), Give_(4)))))>>),
          Pure(<<Main(Val(2, If(Lt(Arg, I(1)), Return(MakeEnum(2, <<Arg>>)), Return(Known)),
                          OnKnown(Get(2))))>>)}

(* Lets that are dropped and kept, and nested vals.                        *)
Shrinking ==
    {Pure(<<Main(Let(2, e, Return(Arg)))>>) :
        e \in {Add(Arg, I(1)), Builtin("print", <<Arg>>),
               MakeEnum(1, <<Builtin("print", <<Add(Arg, I(1))>>)>>), Binary("div", I(1), Arg)}}
    \cup {Pure(<<Main(Lets(<<2, 3, 4, 5>>, <<Add(Arg, I(1)), Add(Get(2), I(1)), Sub(Get(3), I(1)),
                                             Eq(Get(4), Arg)>>, Return(Arg)))>>)}
    \cup {Pure(<<Main(Val(2, Let(3, Builtin("print", <<Arg>>), Return(I(1))), Return(I(5))))>>),
          Pure(<<Main(Val(2, Val(3, If(Lt(Arg, I(1)), Return(I(1)), Return(Arg)),
                                 Return(Add(Get(3), I(1)))),
                          Return(Add(Get(2), Arg))))>>),
          Pure(<<Main(Val(2, Val(3, Val(4, If(Lt(Arg, I(1)), Return(I(1)), Return(I(2))), Give_(4)),
                                 Return(Add(Get(3), Arg))), Give_(2)))>>)}

(* Functions that are inlined, once or everywhere, in several sweeps, and  *)
(* with their arguments in several places.                                 *)
Square == Fn(<<20>>, Return(Add(Get(20), Get(20))))
Flip == Fn(<<30, 31>>, Return(Sub(Get(31), Get(30))))
Yes == Fn(<<20>>, Return(Lit(Bool(TRUE))))
Big == Fn(<<20>>, Return(Add(Add(Get(20), I(1)), Add(Get(20), I(-1)))))

Inlining ==
    {Pure(<<Main(Return(Add(PureCall(2, <<Arg>>), PureCall(2, <<Add(Arg, I(1))>>)))), f>>) :
        f \in {Inc, Square, Big}}
    \cup {Pure(<<Main(Return(PureCall(2, <<PureCall(3, <<Arg, I(2)>>)>>))), f, Flip>>) : f \in {Inc, Square}}
    \cup {Pure(<<Main(CallRowed(2, 2, <<Arg>>, {}, Return(Add(Get(2), I(1))))), f, Twice(2)>>) :
            f \in {Inc, Square, CountDown}}
    \cup {Pure(<<Main(Let(2, MakeClosure(2, <<Arg>>), Return(CallClosure(Get(2), <<I(1)>>)))),
                 Fn(<<20, 21>>, Return(PureCall(3, <<Get(20), Get(21)>>))), Flip>>),
          Pure(<<Main(If(PureCall(3, <<Arg>>), Return(PureCall(2, <<Arg>>)), Return(Arg))), Inc,
                 Fn(<<30>>, Return(Lt(Get(30), I(1))))>>),
          Pure(<<Main(Return(Add(PureCall(2, <<Arg>>), PureCall(2, <<Arg>>)))), Big>>),
          Pure(<<Main(Return(PureCall(3, <<PureCall(2, <<Arg>>)>>))),
                 Fn(<<20>>, Let(21, I(1), Return(Add(Get(20), I(1))))), [Square EXCEPT !.params = <<30>>,
                    !.body = Return(Add(Get(30), Get(30)))]>>),
          Pure(<<Main(Let(2, PureCall(2, <<Arg>>), If(Get(2), Return(I(3)), Return(Arg)))), Yes>>),
          Program(<<Main(Let(2, PureCall(2, <<Arg>>), Handle(1, Perform(3, E, op, <<Arg>>, Give_(3))))), Yes>>,
                  <<Handler(E, 50, Clause(<<51>>, 52, If(Get(2), Resume(53, 52, Get(51), Give_(53)),
                                                         Return(I(0)))))>>)}

(* Directives: blocks that fold, that are left with an operator, and that  *)
(* are refused; a branch that a runtime directive keeps from folding.      *)
Directives ==
    {Pure(<<Main(Val(2, Stage("comptime", s), Return(Add(Get(2), Arg)))), Inc, CountDown>>) :
        s \in {Return(Add(I(1), I(2))), Return(Binary("div", I(1), I(0))), Return(PureCall(2, <<I(1)>>)),
               Return(PureCall(3, <<I(1)>>)), Return(Arg), Return(Add(Arg, I(1))),
               Return(Add(Add(Arg, I(1)), I(1))),
               If(Lt(I(1), I(2)), Return(I(3)), Return(I(4))),
               Let(5, I(2), Return(Get(5))), Val(5, Return(PureCall(2, <<I(1)>>)), Return(Get(5))),
               Val(5, Stage("runtime", Return(I(1))), Return(Get(5)))}}
    \cup {Pure(<<Main(Stage("runtime", If(Lt(I(1), I(2)), Return(Add(I(1), I(2))), Return(Arg))))>>),
          Pure(<<Main(Stage("runtime", Let(2, Add(I(1), I(1)), Stage("comptime", Return(I(1))))))>>),
          Pure(<<Main(CallRowed(2, 2, <<I(1)>>, {}, Give_(2))), CtFn(<<20>>, Give_(20))>>),
          Pure(<<Main(CallRowed(2, 2, <<Arg>>, {}, Give_(2))), CtFn(<<20>>, Give_(20))>>),
          Pure(<<Main(Return(PureCall(2, <<Arg>>))), CtFn(<<20>>, Give_(20))>>),
          Pure(<<Main(Return(PureCall(2, <<Add(I(1), I(1))>>))), CtFn(<<20>>, Give_(20))>>)}
    \cup {Program(<<Main(Handle(1, Stage("comptime", Perform(2, e, op, <<I(1)>>, Give_(2)))))>>,
                  <<TailOf(e, 50, 1)>>) : e \in {E, IO, Files}}
    \cup {Program(<<Main(Handle(1, Stage("comptime", Perform(2, Files, op, <<I(1)>>,
                                                       If(Lt(I(1), I(2)), Return(I(3)), Return(I(4)))))))>>,
                  <<TailOf(Files, 50, 1)>>)}
    \cup {Program(<<Main(Stage("comptime", Handle(1, Perform(2, e, op, <<I(1)>>, Return(I(2))))))>>,
                  <<IF aborts THEN AbortOf(e, 50) ELSE TailOf(e, 50, 1)>>) :
            e \in {E, IO}, aborts \in BOOLEAN}
    \cup {Program(<<Main(Handle(1, Stage("comptime", CallRowed(2, 2, <<a>>, {Files}, Return(I(2)))))),
                    EffFn({Files}, <<20>>, Perform(21, Files, op, <<Get(20)>>, Return(I(3))))>>,
                  <<TailOf(Files, 50, 1)>>) : a \in {I(1), Arg}}

(* Handles around calls.  Asks performs, Loops calls itself in its tail,   *)
(* Nests calls itself under a handler of its own, and so on.               *)
Asks(e) == EffFn({e}, <<20>>, Perform(21, e, op, <<Get(20)>>, Return(Add(Get(21), I(1)))))
Loops ==
    EffFn({E}, <<20>>, If(Lt(Get(20), I(1)), Perform(21, E, op, <<Get(20)>>, Give_(21)),
                          CallRowed(22, 2, <<Sub(Get(20), I(1))>>, {E}, Give_(22))))
Nests ==
    EffFn({E}, <<20>>, If(Lt(Get(20), I(1)), Perform(21, E, op, <<Get(20)>>, Give_(21)),
                          Handle(2, CallRowed(22, 2, <<Sub(Get(20), I(1))>>, {E}, Give_(22)))))
Both ==
    EffFn({E, IO}, <<20>>,
          Perform(21, IO, op, <<Get(20)>>, Perform(22, E, op, <<Get(21)>>, Give_(22))))
CallF(x, e) == CallRowed(x, 2, <<e>>, {E}, Give_(x))

Wrapping(x) ==
    {CallF(x, Arg), Let(x + 1, Add(Arg, I(1)), CallF(x, Get(x + 1))),
     Val(x + 1, CallF(x, Arg), Let(x + 2, Get(x + 1), Give_(x + 2))),
     Val(x + 1, CallF(x, Arg), Return(Add(Get(x + 1), I(1)))),
     If(Lt(Arg, I(1)), CallF(x, Arg), CallF(x + 1, I(1))),
     If(Lt(Arg, I(1)), CallF(x, Arg), Return(Arg)),
     Stage("runtime", CallF(x, Arg)),
     MatchOn(MakeEnum(1, <<Arg>>), <<[tag |-> 1, binders |-> <<x + 1>>]>>,
             <<CallF(x, Get(x + 1)), CallF(x + 2, I(0))>>)}

Specializing ==
    {Program(<<Main(Handle(1, w)), f>>, <<h>>) :
        w \in Wrapping(2), f \in {Asks(E), Loops}, h \in {TailOf(E, 50, 1), AbortOf(E, 50)}}
    \cup {Program(<<Main(Handle(1, CallF(2, Arg))), f>>, <<h, TailOf(E, 60, n)>>) :
            f \in {Nests, Asks(E)}, h \in {TailOf(E, 50, 1), AfterOf(E, 50)}, n \in {1, 2}}
    \cup {Program(<<Main(Val(2, Handle(1, CallF(3, Arg)),
                           Val(4, Handle(2, CallF(5, Get(2))),
                               Val(6, Handle(3, CallF(7, Get(4))), Return(Add(Get(6), Get(2))))))),
                    Asks(E), Inc>>, <<TailOf(E, 50, m), TailOf(E, 60, n), TailOf(E, 70, 2)>>) :
            m \in 0 .. 2, n \in 0 .. 2}
    \cup {Program(<<Main(Handle(1, Handle(2, CallRowed(2, 2, <<Arg>>, {E, IO}, Give_(2))))), Both>>,
                  <<h, TailOf(E, 60, 1)>>) : h \in {TailOf(IO, 50, 1), AbortOf(IO, 50)}}
    \cup {Program(<<Main(Handle(1, Handle(2, CallRowed(2, 2, <<Arg>>, {E}, Give_(2))))), Asks(E)>>,
                  <<TailOf(IO, 50, 1),
                    Handler(E, 60, Clause(<<61>>, 62, Perform(63, IO, op, <<Get(61)>>,
                                                       Resume(64, 62, Get(63), Give_(64)))))>>),
          Program(<<Main(Handle(1, CallF(2, Arg))), Asks(E)>>,
                  <<Handler(E, 60, Clause(<<61>>, 62, If(Lt(Get(61), I(1)),
                        Resume(63, 62, Get(61), Give_(63)), Return(Get(61)))))>>),
          Program(<<Main(Handle(1, CallRowed(2, 2, <<I(1)>>, {E}, Give_(2)))),
                    EffFn({E}, <<20>>, If(Lt(I(1), I(0)), Perform(21, E, op, <<Get(20)>>, Give_(21)),
                                          Give_(20)))>>, <<TailOf(E, 50, 1)>>)}
    \cup {Program(<<Main(Handle(1, CallRowed(2, 3, <<Arg>>, {E}, Give_(2)))), Inc,
                    EffFn({E}, <<30>>, Handle(2, CallRowed(31, 4, <<Get(30)>>, {E}, Give_(31)))),
                    EffFn({E}, <<40>>, Perform(41, E, op, <<PureCall(2, <<Get(40)>>)>>, Give_(41)))>>,
                  <<TailOf(E, 50, 1), h>>) : h \in {TailOf(E, 60, 2), AfterOf(E, 60)}}

(* Clauses in which there is something to fold, decide, drop or inline.    *)
Clauses ==
    {Program(<<Main(Handle(1, Perform(2, E, op, <<Arg>>, Perform(3, E, op, <<Add(Get(2), I(1))>>,
                                                            Return(Sub(Get(3), Get(2))))))), Inc, Square>>,
             <<Handler(E, 50, Clause(<<51>>, 52, s))>>) :
        s \in {If(Lt(I(1), I(2)), Resume(53, 52, Get(51), Give_(53)), Return(I(0))),
               Let(54, MakeEnum(1, <<I(3), Get(51)>>),
                   MatchOn(Get(54), <<[tag |-> 1, binders |-> <<55, 56>>]>>,
                           <<Resume(53, 52, Add(Get(55), Get(56)), Give_(53)), Return(I(0))>>)),
               CallRowed(54, 2, <<Get(51)>>, {}, Resume(53, 52, Get(54), Give_(53))),
               Resume(53, 52, PureCall(3, <<PureCall(2, <<I(1)>>)>>), Give_(53)),
               Val(54, Val(55, Resume(53, 52, Get(51), Give_(53)), Return(Add(Get(55), I(1)))), Give_(54)),
               Let(54, Add(Get(51), I(1)), Let(55, Builtin("print", <<Get(51)>>),
                   Resume(53, 52, Get(51), Give_(53)))),
               If(Lt(Get(51), I(2)), Resume(53, 52, PureCall(2, <<Get(51)>>), Give_(53)), Return(Get(51)))}}

(* Generic functions.                                                      *)
N == Con("Int", <<>>)
B == Con("Bool", <<>>)
ListOf(t) == Con("List", <<t>>)
T(i) == Param(i)
Id == GenFn(1, <<20>>, Give_(20))
Swaps ==
    GenFn(2, <<30, 31>>, If(Lt(Get(30), I(1)), Give_(31),
                            Return(GenericCall(3, <<T(2), T(1)>>, <<Sub(Get(30), I(1)), Get(31)>>))))
Grows == GenFn(1, <<20>>, If(Lt(Get(20), I(1)), Give_(20),
                             Return(GenericCall(2, <<ListOf(T(1))>>, <<Sub(Get(20), I(1))>>))))
Holds ==
    [GenFn(1, <<20>>, Handle(1, Perform(21, E, op, <<GenericCall(3, <<T(1)>>, <<Get(20)>>)>>,
       MatchOn(MakeEnum(1, <<Get(21)>>), <<[tag |-> 1, binders |-> <<22>>]>>, <<Give_(22)>>))))
     EXCEPT !.effects = {}]

Generics ==
    {Pure(<<Main(Return(GenericCall(2, <<N>>, <<Arg>>))), f>>) : f \in {Id, Grows}}
    \cup {Pure(<<Main(Return(GenericCall(3, <<t, N>>, <<I(1), Arg>>))), Inc, Swaps>>) : t \in {N, ListOf(N)}}
    \cup {Pure(<<Main(Return(Add(GenericCall(2, <<N>>, <<Arg>>),
                                 GenericCall(2, <<t>>, <<GenericCall(2, <<u>>, <<I(1)>>)>>)))), Id>>) :
            t \in {N, B, ListOf(ListOf(N))}, u \in {N, ListOf(N), ListOf(B)}}
    \cup {Pure(<<Main(Return(GenericCall(3, <<N>>, <<Arg>>))), Id,
                 GenFn(1, <<30>>, Val(31, GenericCallRowed(32, 2, <<ListOf(T(1))>>, <<Get(30)>>, {}, Give_(32)),
                                      Return(GenericCall(2, <<T(1)>>, <<Get(31)>>))))>>),
          Pure(<<Main(Lets(<<2, 3, 4, 5>>,
                           <<GenericCall(2, <<N>>, <<Arg>>), GenericCall(2, <<B>>, <<Get(2)>>),
                             GenericCall(2, <<ListOf(N)>>, <<Get(3)>>),
                             GenericCall(2, <<ListOf(B)>>, <<Get(4)>>)>>,
                           Return(GenericCall(2, <<Con("Unit", <<>>)>>, <<Get(5)>>)))), Id>>),
          Pure(<<GenFn(1, <<1>>, Return(Arg))>>),
          Pure(<<Main(Let(2, MakeClosure(2, <<>>), Return(CallClosure(Get(2), <<Arg>>)))), Id>>),
          Program(<<Main(Return(Add(GenericCall(2, <<N>>, <<Arg>>), GenericCall(2, <<B>>, <<I(1)>>)))),
                    Holds, [Id EXCEPT !.params = <<30>>, !.body = Give_(30)]>>,
                  <<Handler(E, 50, Clause(<<51>>, 52, Resume(53, 52, GenericCall(3, <<T(1)>>, <<Get(51)>>),
                                                             Give_(53))))>>)}

(* Constants that share entries, and too many of them for the pool.        *)
Point(a, b) == MakeEnum(1, <<a, b>>)
UsesOf(es) == Lets([i \in DOMAIN es |-> 60 + i], [i \in DOMAIN es |-> Builtin("print", <<es[i]>>)],
                   Return(Arg))

Constants ==
    {Pure(<<Main(UsesOf(es))>>) :
        es \in {<<I(1), I(1), I(2), Lit(Bool(TRUE)), Lit(Bool(TRUE)), I(0), I(0)>>,
                <<Point(I(1), I(1)), Point(I(1), I(1)), MakeEnum(2, <<Point(I(2), I(3))>>)>>,
                <<MakeEnum(2, <<>>), MakeEnum(3, <<>>), MakeEnum(2, <<>>), MakeEnum(3, <<>>), I(3), I(3)>>,
                <<MakeEnum(2, <<I(3)>>), MakeEnum(2, <<I(4)>>), MakeEnum(2, <<I(3)>>),
                  MakeEnum(2, <<I(4)>>), Point(Arg, I(3))>>}}
    \cup {Pure(<<Main(If(Lt(I(1), I(2)), UsesOf(<<I(5)>>), Return(PureCall(2, <<I(5)>>)))), Inc>>)}

(* Ways to use a function of one parameter, with functions of all kinds.   *)
Uses ==
    {Return(PureCall(2, <<Arg>>)),
     Return(Add(PureCall(2, <<I(2)>>), PureCall(2, <<Arg>>))),
     Let(2, PureCall(2, <<I(2)>>), If(Lt(Get(2), I(3)), Return(PureCall(2, <<Get(2)>>)), Return(Arg))),
     Val(2, If(Lt(Arg, I(1)), Return(PureCall(2, <<I(0)>>)), Return(Arg)), Return(PureCall(2, <<Get(2)>>))),
     CallRowed(2, 2, <<PureCall(2, <<Arg>>)>>, {}, Let(3, PureCall(2, <<Arg>>), Give_(2))),
     Let(2, MakeEnum(1, <<PureCall(2, <<I(1)>>), Arg>>), OnKnown(Get(2))),
     Let(2, MakeClosure(2, <<>>), Let(3, CallClosure(Get(2), <<Arg>>), Return(CallClosure(Get(2), <<Get(3)>>)))),
     Val(2, Stage("comptime", Return(PureCall(2, <<I(1)>>))), Return(Sub(Get(2), Arg))),
     Val(2, Stage("runtime", Return(PureCall(2, <<I(1)>>))), Return(Sub(Get(2), Arg)))}

Functions ==
    {Inc, Square, Big, CountDown,
     Fn(<<20>>, Let(21, Add(Get(20), I(1)), Give_(20))),
     Fn(<<20>>, If(Lt(I(1), I(2)), Give_(20), Return(I(0)))),
     Fn(<<20>>, If(Lt(Get(20), I(2)), Give_(20), Return(I(0)))),
     Fn(<<20>>, Let(21, MakeEnum(2, <<Get(20)>>),
       MatchOn(Get(21), <<[tag |-> 1, binders |-> <<>>], [tag |-> 2, binders |-> <<22>>]>>,
               <<Return(I(0)), Return(Add(Get(22), I(1)))>>))),
     Fn(<<20>>, Val(21, Val(22, If(Lt(Get(20), I(1)), Return(I(1)), Give_(20)), Return(Add(Get(22), I(1)))),
                    Return(Sub(Get(21), I(1))))),
     Fn(<<20>>, CallRowed(21, 3, <<Get(20)>>, {}, Give_(21))),
     Fn(<<20>>, Return(PureCall(3, <<PureCall(3, <<Get(20)>>)>>)))}

Products ==
    {Pure(<<Main(s), f, Fn(<<30>>, Return(Sub(Get(30), I(1))))>>) : s \in Uses, f \in Functions}

MCInputs == {Int_(n) : n \in {0, 1, 3}}

MCSources ==
    {Sited(p) : p \in Arithmetic \cup Folding \cup Branches \cup Shrinking \cup Inlining
                        \cup Directives \cup Specializing \cup Clauses \cup Generics \cup Constants
                        \cup Products}

(* A pure function that prints, called for nothing.                        *)
OutputSources == {Sited(Pure(<<Main(Let(2, PureCall(2, <<Arg>>), Return(Arg))), Printing>>))}

(* A function that calls itself before its end, under a handler that gives *)
(* up.                                                                     *)
Climbs ==
    EffFn({E}, <<20>>, If(Lt(Get(20), I(1)), Perform(21, E, op, <<Get(20)>>, Give_(21)),
                          CallRowed(22, 2, <<Sub(Get(20), I(1))>>, {E}, Return(Add(Get(22), I(1))))))

RecursionSources ==
    {Sited(Program(<<Main(Handle(1, CallF(2, Arg))), Climbs>>,
                   <<Handler(E, 50, Clause(<<51>>, NoVar, Return(I(2))))>>))}
=============================================================================
