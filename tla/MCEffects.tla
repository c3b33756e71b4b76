------------------------------ MODULE MCEffects -------------------------------
(***************************************************************************)
(* Programs of one handler and of two for CfgMachine: the shapes of a      *)
(* clause with the shapes of a handled body.                               *)
(***************************************************************************)
EXTENDS CfgMachine

A == 1
B == 2
op == 1

(* Variables: c is the parameter of main, and those of the handler of A    *)
(* start at 10, of the handler of B at 20 and of bodies at 30.             *)
c == 1

(* Clauses with parameter o + 1 and resumption o + 2: they resume never,   *)
(* in tail position, or with something left to do, in one place or in      *)
(* several, and some perform the effect of the other handler.              *)
ClauseBody(shape, o) ==
    LET a == o + 1
        k == o + 2
        res(n, e) == Resume(o + n, k, e, Return(Var(o + n)))
        then(n, s, e) == Val(o + n, s, Return(e))
        v(n) == o + n
        other == IF o = 10 THEN B ELSE A
    IN  CASE shape = "abort" -> Return(Op(o + 1, <<a>>))
          [] shape = "tail" -> res(3, Op(o + 1, <<a>>))
          [] shape = "tailLet" -> Let(v(4), Op(o + 1, <<a>>), res(3, Op(o + 2, <<v(4)>>)))
          [] shape = "tailVal" -> Val(v(4), res(3, Op(o + 1, <<a>>)), Return(Var(v(4))))
          [] shape = "join" -> If(Var(a), res(3, Op(o + 1, <<a>>)), res(4, Op(o + 2, <<a>>)))
          [] shape = "match" -> Match(Var(a), <<res(3, Op(o + 1, <<a>>)), res(4, Op(o + 2, <<>>)),
                                                res(5, Op(o + 3, <<>>))>>)
          [] shape = "after" -> then(4, res(3, Op(o + 1, <<a>>)), Op(o + 2, <<v(4), a>>))
          [] shape = "affine" -> If(Var(a), res(3, Op(o + 1, <<a>>)), Return(Op(o + 2, <<a>>)))
          [] shape = "defunc" -> If(Var(a), then(5, res(3, Op(o + 1, <<a>>)), Op(o + 2, <<v(5)>>)),
                                    then(6, res(4, Op(o + 3, <<a>>)), Op(o + 4, <<v(6), a>>)))
          [] shape = "defuncLet" ->
               Let(v(7), Op(o + 5, <<a>>),
                 If(Var(a), then(5, res(3, Op(o + 1, <<a>>)), Op(o + 2, <<v(5), v(7)>>)),
                    then(6, res(4, Op(o + 3, <<a>>)), Op(o + 4, <<v(6), a>>))))
          [] shape = "branchLocal" ->
               If(Var(a), Let(v(7), Op(o + 5, <<a>>),
                            then(5, res(3, Op(o + 1, <<v(7)>>)), Op(o + 2, <<v(5), v(7)>>))),
                  then(6, res(4, Op(o + 3, <<a>>)), Op(o + 4, <<v(6), a>>)))
          [] shape = "maybe" -> then(5, If(Var(a), res(3, Op(o + 1, <<a>>)), Return(Op(o + 2, <<>>))),
                                     Op(o + 3, <<v(5), a>>))
          [] shape = "either" -> then(5, If(Var(a), res(3, Op(o + 1, <<a>>)), res(4, Op(o + 2, <<>>))),
                                      Op(o + 3, <<v(5), a>>))
          [] shape = "double" -> Val(v(5), res(3, Op(o + 1, <<a>>)), res(4, Op(o + 2, <<v(5)>>)))
          [] shape = "capture" -> res(3, Op(o + 1, <<a, c>>))
          [] shape = "perform" ->
               Perform(v(4), other, op, <<Op(o + 1, <<a>>)>>, res(3, Op(o + 2, <<v(4)>>)))
          [] shape = "ifPerform" ->
               Val(v(4), If(Var(a), Perform(v(5), other, op, <<Op(o + 1, <<a>>)>>, Return(Var(v(5)))),
                            Return(Op(o + 2, <<a>>))),
                   res(3, Op(o + 3, <<v(4)>>)))

Shapes ==
    {"abort", "tail", "tailLet", "tailVal", "join", "match", "after", "affine", "defunc",
     "defuncLet", "branchLocal", "maybe", "either", "double", "capture"}

Handler(eff, shape, o, ret) ==
    [effect |-> eff, param |-> o, ret |-> Return(ret),
     clauses |-> <<[op |-> op, params |-> <<o + 1>>, body |-> ClauseBody(shape, o),
                    resume |-> IF shape = "abort" THEN NoVar ELSE o + 2]>>]

PerfA(x, e, n) == Perform(x, A, op, <<e>>, n)
PerfB(x, e, n) == Perform(x, B, op, <<e>>, n)
CallWith(x, fn, e, n) == Call(x, fn, <<e>>, n)
Function(x, body) == [params |-> <<x>>, body |-> body]
Program(body, callees, hs) ==
    [funcs |-> <<Function(c, body)>> \o callees, handlers |-> hs]

(* What is done with the value of a handle.                                *)
Use(s) == Val(51, s, Return(Op(81, <<51, c>>)))

-----------------------------------------------------------------------------
(* One handler: bodies that perform A directly or through a call.          *)

Callee == Function(41, PerfA(42, Op(71, <<41>>), Return(Op(72, <<42, 41>>))))

OneA == PerfA(31, Op(61, <<c>>), Return(Op(62, <<31, c>>)))
OneOf(t) == If(Var(c), OneA, t)
CallThen(n) == CallWith(31, 2, Op(61, <<c>>), n)
Both == Return(Op(65, <<31, 32>>))

Bodies ==
    [none    |-> Return(Op(62, <<c>>)),
     one     |-> OneA,
     two     |-> PerfA(31, Op(61, <<c>>), PerfA(32, Op(63, <<31>>), Both)),
     drop    |-> PerfA(NoVar, Op(61, <<c>>), Return(Op(62, <<c>>))),
     arms    |-> OneOf(PerfA(32, Op(64, <<c>>), Return(Op(65, <<32>>)))),
     val     |-> Val(33, OneA, Return(Op(64, <<33, c>>))),
     valArm  |-> Val(33, OneOf(Return(Op(64, <<>>))), Return(Op(65, <<33, c>>))),
     valTwo  |-> Val(33, OneA, PerfA(32, Op(64, <<33>>), Return(Op(65, <<32, 33>>)))),
     call    |-> CallThen(Return(Op(62, <<31, c>>))),
     callTwo |-> CallThen(CallWith(32, 2, Op(63, <<31>>), Both)),
     callAnd |-> CallThen(PerfA(32, Op(63, <<31>>), Both))]

Few == {"abort", "tail", "join", "after", "affine", "defunc"}

Single ==
    [n \in (Shapes \X (DOMAIN Bodies) \X {"plain"})
             \cup (Few \X (DOMAIN Bodies) \X {"used", "return"}) |->
       LET handle == Handle(1, Bodies[n[2]])
           ret == IF n[3] = "return" THEN Op(66, <<10>>) ELSE Var(10)
       IN  Program(IF n[3] = "used" THEN Use(handle) ELSE handle, <<Callee>>,
                   <<Handler(A, n[1], 10, ret)>>)]

-----------------------------------------------------------------------------
(* Two handlers, 1 of A and 2 of B.                                        *)

OneB == PerfB(31, Op(61, <<c>>), Return(Op(62, <<31, c>>)))
CalleeAB == Function(43, PerfB(44, Op(73, <<43>>), PerfA(45, Op(74, <<44>>), Return(Op(75, <<44, 45>>)))))
CalleeHandling == Function(41, Handle(2, CallWith(42, 3, Op(71, <<41>>), Return(Op(72, <<41, 42>>)))))

Nests ==
    [outer     |-> Handle(1, Handle(2, OneA)),
     inner     |-> Handle(1, Handle(2, OneB)),
     outerThen |-> Handle(1, Handle(2, PerfA(31, Op(61, <<c>>), PerfB(32, Op(63, <<31>>), Both)))),
     innerUsed |-> Handle(1, Use(Handle(2, OneB))),
     innerThen |-> Handle(1, Val(52, Handle(2, OneB), PerfA(53, Op(82, <<52>>), Return(Op(83, <<53>>))))),
     calls     |-> Handle(1, Handle(2, CallThen(PerfB(32, Op(63, <<31>>), Both)))),
     callsUsed |-> Handle(1, Use(Handle(2, CallThen(Return(Op(62, <<31, c>>))))))]

InTailShapes == {"abort", "tail", "join"}

Handlers(a, b) == <<Handler(A, a, 10, Var(10)), Handler(B, b, 20, Var(20))>>

Nested ==
    [n \in Few \X Few \X (DOMAIN Nests) |->
       Program(Nests[n[3]], <<Callee>>, Handlers(n[1], n[2]))]

(* B, whose clause resumes last, and then A; a clause of A that performs   *)
(* B; and a handler in the function that is called.                        *)
InnerFirst(n) ==
    Program(Handle(1, Handle(2, PerfB(31, Op(61, <<c>>), PerfA(32, Op(63, <<31>>), Both)))), <<>>,
            Handlers(n[1], n[2]))
ClausePerforms(n) == Program(Handle(2, Handle(1, OneA)), <<>>, Handlers(n[1], n[2]))
CalleeHandles(n) ==
    Program(Handle(1, CallThen(Return(Op(62, <<31, c>>)))), <<CalleeHandling, CalleeAB>>,
            Handlers(n[1], n[2]))

MCPrograms ==
    Single @@ Nested
    @@ [n \in Few \X InTailShapes \X {"innerFirst"} |-> InnerFirst(n)]
    @@ [n \in {"perform"} \X (Few \ {"join"}) \X {"clausePerforms"} |-> ClausePerforms(n)]
    @@ [n \in {"ifPerform"} \X Few \X {"clausePerforms"} |-> ClausePerforms(n)]
    @@ [n \in Few \X Few \X {"calleeHandles"} |-> CalleeHandles(n)]

(* What is made of programs with names.                                    *)
CompiledEach(programs) == [n \in DOMAIN programs |-> Compiled(programs[n])]

MCCfgs == CompiledEach(MCPrograms)

MCInputs == 0 .. 1

-----------------------------------------------------------------------------
(* Programs that are not compiled to what they mean.                       *)

(* A, answered outside, is performed by a handle whose value is used.      *)
MCOuterUsed ==
    [n \in {"abort", "after", "affine", "defunc"} \X Few \X {"outerUsed"} |->
       Program(Handle(1, Use(Handle(2, OneA))), <<>>, Handlers(n[1], n[2]))]

MCOuterUsedCfgs == CompiledEach(MCOuterUsed)
=============================================================================
