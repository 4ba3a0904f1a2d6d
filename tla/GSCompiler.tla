----------------------------- MODULE GSCompiler -----------------------------
(* The one-pass compiler: GSCompiler (GScompiler.cpp) over GSFuncState      *)
(* (GSfuncstate.cpp).  Every program is read, token by token, by a parser   *)
(* that emits instructions as it goes: registers are handed out and taken   *)
(* back on a stack of targets, scopes and try blocks are counted, jumps are *)
(* patched, and a peephole optimizer joins each instruction with the one    *)
(* before it.                                                               *)
(*                                                                         *)
(* work is the C++ stack of the parser, fs the chain of function states,    *)
(* and what comes next in the source is a free choice.  Of the instructions *)
(* only the last is kept, which is all the optimizer looks at, and whether  *)
(* a jump leads to the place after it.  Line information is off.            *)
EXTENDS Integers, FiniteSets, SequencesExt

CONSTANTS
    Languages,  \* parts of the language: the words of each, and the bounds on
                \* nested constructs (work) and registers of a function (regs)
    MaxFns,     \* bound: nested functions
    MaxInc,     \* bound: instructions of the third part of a for
    Features    \* uses of the language after which some property fails

ASSUME BoundsAssumption ==
    /\ {MaxFns, MaxInc} \subseteq Nat
    /\ \A p \in DOMAIN Languages : {Languages[p].work, Languages[p].regs} \subseteq Nat

VARIABLES
    fs,     \* the function states, the current one last
    work,   \* the functions of the parser that have not returned
    pc,     \* what the parser is about to read
    tok,    \* _token, as far as it decides the code of an operand
    es,     \* _es: what the last operand is, and donot_get
    scope,  \* _scope.stacksize
    lang    \* the part of the language the program keeps to

vars == <<fs, work, pc, tok, es, scope, lang>>

MaxWork == Languages[lang].work
MaxRegs == Languages[lang].regs
Uses(word) == word \in Languages[lang].words

-----------------------------------------------------------------------------
(* GSFuncState: registers.  A position is a register; its entry of _vlocals *)
(* is a local with a name, or a temporary.  Every local has a name of its   *)
(* own: shadowing only hides some.                                          *)

Temp == [kind |-> "temp", cap |-> FALSE]
Local(kind) == [kind |-> kind, cap |-> FALSE]

NoInstr == [op |-> "none", a |-> 0, b |-> 0, c |-> 0]

Instr(op, a, b, c) == [op |-> op, a |-> a, b |-> b, c |-> c]

\* rec: the instructions of the third part of a for, each with whether a
\* jump leads to it; on while that part is read.  bad is a history variable.
NewState(params) ==
    [loc |-> [i \in 1 .. params + 1 |-> Local("var")], tgt |-> <<>>,
     traps |-> 0, brk |-> <<>>, cont |-> <<>>,
     last |-> NoInstr, label |-> FALSE,
     rec |-> <<>>, on |-> FALSE, bad |-> FALSE]

f == Last(fs)
StackSize(g) == Len(g.loc)
TopTarget(g) == Last(g.tgt)
IsLocal(g, r) == r < StackSize(g) /\ g.loc[r + 1].kind # "temp"
Named(g) == {r \in 0 .. StackSize(g) - 1 : g.loc[r + 1].kind \in {"var", "typed"}}
Temps(g) == {r \in 0 .. StackSize(g) - 1 : g.loc[r + 1].kind = "temp"}

PushTo(g, r) == [g EXCEPT !.tgt = Append(@, r)]
PushTarget(g) == [g EXCEPT !.loc = Append(@, Temp), !.tgt = Append(@, StackSize(g))]

\* Mutant: the entry goes with a target that is a local, too.
Mut_PopTarget(g) == [g EXCEPT !.tgt = Front(@), !.loc = Front(@)]

\* PopTarget takes the last entry of _vlocals, whichever register it was.
PopTarget(g) ==
    [g EXCEPT !.tgt = Front(@),
              !.loc = IF IsLocal(g, TopTarget(g)) THEN @ ELSE Front(@)]

PopTargets(g, n) == FoldLeft(LAMBDA h, i : PopTarget(h), g, [i \in 1 .. n |-> i])

PushLocal(g, kind) == [g EXCEPT !.loc = Append(@, Local(kind))]

Captured(g, from) == \E r \in from .. StackSize(g) - 1 : g.loc[r + 1].cap

-----------------------------------------------------------------------------
(* GSFuncState::AddInstruction and its optimizer.  last is what it looks at: *)
(* the last instruction, as far as one may be joined with it, and NoInstr   *)
(* while _optimization is off.                                              *)

Results == {"GET", "ARITH", "LOADINT", "LOAD"}
Joins == Results \cup {"CMP", "CLOSE", "MOVE", "LOADNULLS", "CALL"}

Keep(i) ==
    IF i.op \notin Joins THEN NoInstr
    ELSE Instr(i.op, IF i.op \in {"CLOSE", "MOVE", "CALL"} THEN 0 ELSE i.a,
               IF i.op = "LOADNULLS" THEN i.b ELSE 0, 0)

Redirects(p, i) == i.op = "MOVE" /\ p.op \in Results /\ p.a = i.b

Folds(g, i) ==
    LET p == g.last
        loaded(r) == p.op = "LOAD" /\ p.a = r /\ ~IsLocal(g, r)
    IN CASE i.op = "JZ" -> p.op = "CMP"
         [] i.op = "RETURN" -> p.op = "CLOSE"
         [] i.op = "GET" -> loaded(i.c)
         [] i.op \in {"PREPCALL", "EQ"} -> loaded(i.b)
         [] i.op = "APPENDARRAY" ->
              p.op \in {"LOAD", "LOADINT"} /\ p.a = i.b /\ ~IsLocal(g, p.a)
         [] i.op = "MOVE" -> Redirects(p, i) \/ p.op = "MOVE"
         [] i.op = "LOAD" -> p.op = "LOAD"
         [] i.op = "LOADNULLS" -> p.op = "LOADNULLS" /\ p.a + p.b = i.a
         [] OTHER -> FALSE

\* Two instructions in one.  Result elimination turns the optimizer off.
Merged(p, i) ==
    CASE Redirects(p, i) -> NoInstr
      [] i.op = "LOADNULLS" -> [p EXCEPT !.b = @ + 1]
      [] OTHER -> Instr("J" \o i.op, 0, 0, 0)

\* What must not happen: a jump skips what was joined, a conditional jump
\* tests another comparison, or a result is taken from a register in use.
Unsound(g, i) ==
    \/ g.label
    \/ i.op = "JZ" /\ g.last.a # i.a
    \/ Redirects(g.last, i) /\ (IsLocal(g, i.b) \/ i.b \in Range(g.tgt))

\* _OP_RETURN after a call in the return expression makes it a tail call.
TailCalls(g, i) == i.op = "RETURN" /\ i.a = 1 /\ g.last.op = "CALL" /\ Len(fs) > 1

Emit(g, i) ==
    IF Folds(g, i)
    THEN LET j == Merged(g.last, i)
             r == Last(g.rec).i
         IN [g EXCEPT !.last = Keep(j), !.bad = @ \/ Unsound(g, i),
                      !.label = @ /\ Keep(j) # NoInstr,
                      !.rec = IF ~g.on THEN @
                              ELSE Append(Front(@), [Last(@) EXCEPT !.i =
                                     CASE Redirects(g.last, i) -> [r EXCEPT !.a = i.a]
                                       [] i.op = "LOADNULLS" -> [r EXCEPT !.b = @ + 1]
                                       [] OTHER -> j])]
    ELSE [g EXCEPT !.last = Keep(i), !.label = FALSE,
                   !.bad = @ \/ (TailCalls(g, i) /\ (g.label \/ g.traps > 0)),
                   !.rec = IF g.on THEN Append(@, [i |-> i, label |-> g.label]) ELSE @]

\* A jump leads to the next instruction.
Mark(g) == [g EXCEPT !.label = g.last # NoInstr \/ g.on]
SnoozeOpt(g) == [g EXCEPT !.last = NoInstr, !.label = g.label /\ g.on]

\* An instruction with its result in a new target.
Load(g, op) == LET h == PushTarget(g) IN Emit(h, Instr(op, TopTarget(h), 1, 0))

\* An instruction on the top target, which is taken.
Use(g, op) == Emit(PopTarget(g), Instr(op, TopTarget(g), 0, 0))

Emit2ArgsOP(g, op) ==
    LET h == PushTarget(PopTargets(g, 2))
    IN Emit(h, Instr(op, TopTarget(h), g.tgt[Len(g.tgt) - 1], TopTarget(g)))

EmitDerefOp(g, op) ==
    LET h == PushTarget(PopTargets(g, 3))
    IN Emit(h, Instr(op, TopTarget(h), g.tgt[Len(g.tgt) - 1], TopTarget(g)))

Unary(g, op) ==
    LET h == PushTarget(PopTarget(g)) IN Emit(h, Instr(op, TopTarget(h), TopTarget(g), 0))

MoveTo(g, trg, src) == IF trg = src THEN g ELSE Emit(g, Instr("MOVE", trg, src, 0))

\* Mutant: an argument that is a local stays where it is.
Mut_MoveIfLocal(g) == g

\* MoveIfCurrentTargetIsLocal.
MoveIfLocal(g) ==
    LET h == PushTarget(PopTarget(g))
    IN IF IsLocal(g, TopTarget(g)) THEN Emit(h, Instr("MOVE", TopTarget(h), TopTarget(g), 0)) ELSE g

\* What DiscardTarget writes to the instruction that made the value, no
\* later instruction reads.
DiscardTarget(g) == PopTarget(g)

\* SetStackSize and the _OP_CLOSE of END_SCOPE.  The counter _outers changes
\* when a local that is captured goes.
EndScope(g, size, close) ==
    LET h == [g EXCEPT !.loc = SubSeq(@, 1, size)]
    IN IF close /\ Captured(g, size) THEN Emit(h, Instr("CLOSE", 0, size, 0)) ELSE h

-----------------------------------------------------------------------------
(* The parser.                                                              *)

Top == Last(work)
Owner == work[Len(work) - 1]
NoEs == [etype |-> "EXPR", donot |-> FALSE]

Room == Len(work) < MaxWork
Set(g) ==
    /\ Len(g.loc) <= MaxRegs /\ Len(g.tgt) <= MaxRegs /\ Len(g.rec) <= MaxInc
    /\ fs' = [fs EXCEPT ![Len(fs)] = g]

\* Expression is called by the construct on top of w.
Expression(w) ==
    /\ Len(w) < MaxWork
    /\ work' = Append(w, [k |-> "expr", es |-> es])
    /\ es' = NoEs /\ pc' = "prefixed" /\ tok' = "end" /\ UNCHANGED scope

At(where) == [work EXCEPT ![Len(work)].at = where]
Back(k, where) == pc = "ret" /\ Top.k = k /\ Top.at = where

Tokens == {"=", "<-", "+=", "++", ".", "[", "(", "<", "end"} \cap Languages[lang].words
Assigns == {"=", "<-", "+="}

NeedGet(t) ==
    /\ t \notin Assigns \cup {"(", "++"}
    /\ es.donot => t \in {".", "["}

\* PrefixedExpr, called by the top of w, has an operand of type e, and t
\* follows.  An assignment is to the first operand of an expression; what
\* else could follow is a syntax error.
Operand(e, t, w) ==
    /\ t \in Assigns => e \in {"OBJECT", "LOCAL", "OUTER"} /\ Last(w).k = "expr"
    /\ t = "<-" => e = "OBJECT"
    /\ t = "++" => e \in {"OBJECT", "LOCAL", "OUTER"} /\ ~es.donot
    /\ es' = [es EXCEPT !.etype = e] /\ tok' = t
    /\ pc' = "suffix" /\ work' = w /\ UNCHANGED scope

\* Factor: a local, a free variable, a field, base, ::, a literal or constant.
\* Type arguments after an identifier are read over before t.
FactorLocal ==
    /\ pc = "prefixed"
    /\ \E r \in Named(f), t \in Tokens \ {"<"} : Set(PushTo(f, r)) /\ Operand("LOCAL", t, work)

\* GetOuterVariable marks the local of the enclosing function.
Capture(d, r) == [fs EXCEPT ![d].loc[r + 1].cap = TRUE]

FactorOuter ==
    /\ pc = "prefixed"
    /\ \E d \in 1 .. Len(fs) - 1, t \in Tokens \ {"<"} : \E r \in Named(fs[d]) :
         LET g == IF NeedGet(t) THEN Load(f, "GETOUTER") ELSE f
         IN /\ Len(g.loc) <= MaxRegs
            /\ fs' = [Capture(d, r) EXCEPT ![Len(fs)] = g]
            /\ Operand(IF NeedGet(t) THEN "EXPR" ELSE "OUTER", t, work)

FactorField ==
    /\ pc = "prefixed"
    /\ \E t \in Tokens \ {"<"} :
         LET g == Load(PushTo(f, 0), "LOAD")
         IN Set(IF NeedGet(t) THEN Emit2ArgsOP(g, "GET") ELSE g) /\ Operand("OBJECT", t, work)

FactorBase ==
    /\ pc = "prefixed"
    /\ \E t \in Tokens : Set(Load(f, "GETBASE")) /\ Operand("BASE", t, work)

FactorRoot == pc = "prefixed" /\ Set(Load(f, "LOADROOT")) /\ Operand("OBJECT", ".", work)

\* LOADINT stands for the loads of integers, floats and booleans.
FactorConstant ==
    /\ pc = "prefixed"
    /\ \E op \in {"LOAD", "LOADINT", "LOADNULLS"}, t \in Tokens :
         Uses(op) /\ Set(Load(f, op)) /\ Operand("EXPR", t, work)

\* -x, !x, ~x, typeof, resume, clone; ++x, --x; delete x.
FactorPrefix ==
    /\ pc = "prefixed" /\ Room
    /\ \E op \in {"unary", "incdec", "delete"} :
         /\ work' = Append(work, [k |-> op, es |-> es])
         /\ es' = IF op = "unary" THEN es ELSE [es EXCEPT !.donot = TRUE]
    /\ UNCHANGED <<fs, pc, tok, scope>>

FactorParen ==
    /\ pc = "prefixed"
    /\ Expression(Append(work, [k |-> "paren", at |-> "comma"])) /\ UNCHANGED fs

\* [ and { and class: the new object is a target under those of its members.
FactorArray ==
    /\ pc = "prefixed" /\ Room
    /\ Set(Load(f, "NEWOBJ"))
    /\ work' = Append(work, [k |-> "array", at |-> "next"]) /\ pc' = "ret"
    /\ UNCHANGED <<tok, es, scope>>

Table(class) == [k |-> "table", class |-> class, attrs |-> FALSE, at |-> "next"]

FactorTable ==
    /\ pc = "prefixed" /\ Room
    /\ Set(Load(f, "NEWOBJ"))
    /\ work' = Append(work, Table(FALSE))
    /\ pc' = "ret" /\ UNCHANGED <<tok, es, scope>>

\* ClassExp, with a base class or without.  n: the targets of base and attributes.
FactorClass ==
    /\ pc = "prefixed" /\ Room
    /\ work' = Append(work, [k |-> "class", n |-> 0, at |-> "base"]) /\ pc' = "ret"
    /\ UNCHANGED <<fs, tok, es, scope>>

\* CreateFunction is called by the top of w: the environment comes first.
\* bound is FALSE where 0xFF is passed on whatever was read.
Function(w, lambda) ==
    /\ Len(w) < MaxWork /\ Len(fs) < MaxFns
    /\ work' = Append(w, [k |-> "func", lambda |-> lambda, n |-> 0, at |-> "start"])
    /\ pc' = "ret" /\ UNCHANGED <<tok, es, scope>>

\* FunctionExp.
FactorFunction ==
    /\ pc = "prefixed"
    /\ \/ Uses("function") /\ Function(work, FALSE)
       \/ Uses("lambda") /\ Function(work, TRUE)
    /\ UNCHANGED fs

\* rawcall(callee, this, ...).
FactorRawcall ==
    /\ pc = "prefixed"
    /\ Expression(Append(work, [k |-> "args", raw |-> TRUE, n |-> 1, at |-> "arg"]))
    /\ UNCHANGED fs

-----------------------------------------------------------------------------
(* PrefixedExpr.                                                            *)

\* . and ] : the key is a target.
Member(g, w) ==
    \E t \in Tokens :
       IF es.etype = "BASE" THEN Set(Emit2ArgsOP(g, "GET")) /\ Operand("EXPR", t, w)
       ELSE Set(IF NeedGet(t) THEN Emit2ArgsOP(g, "GET") ELSE g) /\ Operand("OBJECT", t, w)

SuffixDot == pc = "suffix" /\ tok = "." /\ Member(Load(f, "LOAD"), work)

SuffixIndex ==
    /\ pc = "suffix" /\ tok = "["
    /\ Expression(Append(work, [k |-> "index", at |-> "end"])) /\ UNCHANGED fs

IndexEnd == pc = "ret" /\ Top.k = "index" /\ Member(f, Front(work))

\* x++ and x--.
SuffixIncDec ==
    /\ pc = "suffix" /\ tok = "++"
    /\ Set(CASE es.etype = "OBJECT" -> Emit2ArgsOP(f, "PINC")
             [] es.etype = "LOCAL" -> Unary(f, "PINCL")
             [] es.etype = "OUTER" ->
                  LET g == PushTarget(PushTarget(f))
                      r == TopTarget(g)
                  IN PopTarget(Emit(Emit(Emit(g, Instr("GETOUTER", r, 0, 0)),
                                         Instr("PINCL", r - 1, r, 0)),
                                    Instr("SETOUTER", r, 0, r))))
    /\ es' = [es EXCEPT !.etype = "EXPR"] /\ tok' = "end" /\ pc' = "operand"
    /\ UNCHANGED <<work, scope>>

\* A list of type arguments is read over.  Whether the value of a member is
\* read was decided at < and not by what follows: when they differ, a target
\* is taken that is not there.
SuffixTypes ==
    /\ pc = "suffix" /\ tok = "<"
    /\ \E t \in Tokens \ {"<"} :
         /\ es.etype = "OBJECT" => NeedGet("<") = NeedGet(t)
         /\ Operand(es.etype, t, work)
    /\ UNCHANGED fs

\* Whatever follows < is taken for a type: a comparison by < does not compile.
LessThan ==
    /\ pc = "suffix" /\ tok = "<"
    /\ pc' = "error" /\ UNCHANGED <<fs, work, tok, es, scope>>

SuffixCall ==
    /\ pc = "suffix" /\ tok = "(" /\ Room
    /\ Set(CASE es.etype = "OBJECT" ->
                  LET g == PushTarget(PushTarget(PopTargets(f, 2)))
                  IN Emit(g, Instr("PREPCALL", TopTarget(g) - 1, TopTarget(f), f.tgt[Len(f.tgt) - 1]))
             [] es.etype = "OUTER" ->
                  LET g == PushTarget(Load(f, "GETOUTER")) IN Emit(g, Instr("MOVE", TopTarget(g), 0, 0))
             [] OTHER -> LET g == PushTarget(f) IN Emit(g, Instr("MOVE", TopTarget(g), 0, 0)))
    /\ es' = [es EXCEPT !.etype = "EXPR"]
    /\ work' = Append(work, [k |-> "args", raw |-> FALSE, n |-> 1, at |-> "next"])
    /\ pc' = "ret" /\ tok' = "end" /\ UNCHANGED scope

SuffixEnd ==
    /\ pc = "suffix" /\ tok \in {"=", "<-", "+=", "end"}
    /\ pc' = "operand" /\ UNCHANGED <<fs, work, tok, es, scope>>

-----------------------------------------------------------------------------
(* The levels of binary operators, and Expression.                          *)

\* UnaryOP, DeleteExpr and PrefixIncDec have their operand: Factor returns to
\* the PrefixedExpr that called it.
UnaryEnd ==
    /\ pc = "operand" /\ Top.k \in {"unary", "delete", "incdec"} /\ tok = "end"
    /\ \/ Top.k = "unary" /\ Set(Unary(f, "UNARY"))
       \/ Top.k = "delete" /\ es.etype = "OBJECT" /\ Set(Emit2ArgsOP(f, "DELETE"))
       \/ Top.k = "incdec" /\ es.etype = "OBJECT" /\ Set(Emit2ArgsOP(f, "INC"))
       \/ /\ Top.k = "incdec" /\ es.etype = "LOCAL"
          /\ Set(Emit(f, Instr("INCL", TopTarget(f), TopTarget(f), 0)))
       \/ /\ Top.k = "incdec" /\ es.etype = "OUTER"
          /\ LET g == Load(f, "GETOUTER")
                 r == TopTarget(g)
             IN Set(Emit(Emit(g, Instr("INCL", r, r, 0)), Instr("SETOUTER", r, 0, r)))
    /\ es' = [Top.es EXCEPT !.etype = "EXPR"]
    /\ work' = Front(work) /\ pc' = "suffix" /\ UNCHANGED <<tok, scope>>

\* INVOKE_EXP: the second operand is read with a new _es; what was there is
\* not looked at again.
Second(frame) ==
    /\ Room
    /\ work' = Append(work, frame) /\ es' = NoEs /\ pc' = "prefixed"
    /\ UNCHANGED <<tok, scope>>

\* ARITH stands for the arithmetic and bit operators, TEST for in and instanceof.
BinExp ==
    /\ pc = "operand" /\ Top.k \in {"expr", "or", "and", "bin"} /\ tok = "end"
    /\ \E op \in {"ARITH", "CMP", "EQ", "TEST"} : Uses(op) /\ Second([k |-> "bin", op |-> op])
    /\ UNCHANGED fs

BinExpEnd ==
    /\ pc = "operand" /\ Top.k = "bin" /\ tok = "end"
    /\ LET g == PushTarget(PopTargets(f, 2))
       IN Set(Emit(g, Instr(Top.op, TopTarget(g), TopTarget(f), f.tgt[Len(f.tgt) - 1])))
    /\ es' = NoEs /\ work' = Front(work) /\ UNCHANGED <<pc, tok, scope>>

\* Jumps inside the third part of a for.
MayJump == f.on => "inc" \in Features

\* && and || : the operand of && holds no ||.
LogicalExp ==
    /\ pc = "operand" /\ tok = "end" /\ MayJump
    /\ \E op \in {"and", "or"} :
         /\ Top.k \in {"expr", "or"} \/ (Top.k = "and" /\ op = "and")
         /\ LET g == PushTarget(PopTarget(f))
            IN /\ Set(MoveTo(Emit(g, Instr(op, TopTarget(g), 0, TopTarget(f))),
                             TopTarget(g), TopTarget(f)))
               /\ Second([k |-> op, trg |-> TopTarget(g)])

LogicalExpEnd ==
    /\ pc = "operand" /\ Top.k \in {"and", "or"} /\ tok = "end"
    /\ Set(Mark(SnoozeOpt(MoveTo(PopTarget(SnoozeOpt(f)), Top.trg, TopTarget(f)))))
    /\ es' = NoEs /\ work' = Front(work) /\ UNCHANGED <<pc, tok, scope>>

\* Expression returns to its caller.
Return(g, w, saved) ==
    /\ Set(g) /\ work' = Front(w) /\ es' = saved /\ pc' = "ret" /\ UNCHANGED <<tok, scope>>

ExpressionEnd == pc = "operand" /\ Top.k = "expr" /\ tok = "end" /\ Return(f, work, Top.es)

Assign ==
    /\ pc = "operand" /\ Top.k = "expr" /\ tok \in Assigns
    /\ Expression(Append(Front(work), [k |-> "assign", op |-> tok, to |-> es.etype, es |-> Top.es]))
    /\ UNCHANGED fs

\* The target of a local that was given its value by the instruction before.
JustLoaded(r) == f.last.op \in Results /\ f.last.a = r /\ IsLocal(f, r)

\* EmitCompoundArith.
CompoundArith(to) ==
    CASE to = "LOCAL" ->
           LET g == PopTargets(f, 2)
               r == f.tgt[Len(f.tgt) - 1]
           IN SnoozeOpt(Emit(PushTo(g, r), Instr("ARITH", r, TopTarget(f), r)))
      [] to = "OBJECT" -> EmitDerefOp(f, "COMPARITH")
      [] to = "OUTER" ->
           LET g == Load(f, "GETOUTER")
               r == TopTarget(g)
               h == PushTarget(PopTargets(Emit(g, Instr("ARITH", r, TopTarget(f), r)), 2))
           IN Emit(h, Instr("SETOUTER", TopTarget(h), 0, r))

AssignEnd ==
    /\ pc = "ret" /\ Top.k = "assign"
    /\ JustLoaded(TopTarget(f)) => "decl" \in Features
    /\ LET dst == f.tgt[Len(f.tgt) - 1]
           moved == Emit(PopTarget(f), Instr("MOVE", dst, TopTarget(f), 0))
       IN CASE Top.op = "+=" -> Return(CompoundArith(Top.to), work, Top.es)
            [] Top.op = "<-" -> Return(EmitDerefOp(f, "NEWSLOT"), work, Top.es)
            [] Top.to = "OBJECT" -> Return(EmitDerefOp(f, "SET"), work, Top.es)
            [] Top.to = "OUTER" ->
                 LET g == PushTarget(PopTarget(f))
                 IN Return(Emit(g, Instr("SETOUTER", TopTarget(g), 0, TopTarget(f))), work, Top.es)
            [] Top.to = "LOCAL" ->
                 Return(IF f.loc[dst + 1].kind = "typed" THEN Emit(moved, Instr("TYPECHECK", dst, 0, 0))
                        ELSE moved, work, Top.es)

\* _OP_JZ is about the comparison before it, if there is one.
JumpIsAbout(g) == (g.last.op = "CMP" /\ g.last.a # TopTarget(g)) => "jz" \in Features

Ternary ==
    /\ pc = "operand" /\ Top.k = "expr" /\ tok = "end" /\ MayJump
    /\ JumpIsAbout(f)
    /\ LET g == PushTarget(Use(f, "JZ"))
       IN /\ Set(g)
          /\ Expression(Append(Front(work), [k |-> "ternary", at |-> "then", trg |-> TopTarget(g),
                                             es |-> Top.es]))

TernaryElse ==
    /\ pc = "ret" /\ Top.k = "ternary" /\ Top.at = "then"
    /\ Set(Mark(Emit(MoveTo(PopTarget(f), Top.trg, TopTarget(f)), Instr("JMP", 0, 0, 0))))
    /\ Expression(At("else"))

\* Mutant: no SnoozeOpt where the two branches meet.
Mut_TernaryEnd ==
    /\ pc = "ret" /\ Top.k = "ternary" /\ Top.at = "else"
    /\ Return(Mark(MoveTo(PopTarget(f), Top.trg, TopTarget(f))), work, Top.es)

TernaryEnd ==
    /\ pc = "ret" /\ Top.k = "ternary" /\ Top.at = "else"
    /\ Return(SnoozeOpt(Mark(MoveTo(PopTarget(f), Top.trg, TopTarget(f)))), work, Top.es)

-----------------------------------------------------------------------------
(* What reads expressions, members or arguments, each on its own frame.     *)

Goto(w) == work' = w /\ pc' = "ret" /\ UNCHANGED <<tok, es, scope>>

\* A factor that began with a frame of its own is read, or the class or
\* function that a statement, a class or a table asked for.
Finish ==
    IF Owner.k \in {"class", "table", "slot", "local"} THEN Goto(Front(work))
    ELSE \E t \in Tokens : Operand("EXPR", t, Front(work))

\* CommaExpr.
CommaNext ==
    /\ pc = "ret" /\ Top.k # "assign" /\ Top.at \in {"comma", "init", "test", "inc"}
    /\ Set(PopTarget(f)) /\ Expression(work)

ParenEnd == Back("paren", "comma") /\ Finish /\ UNCHANGED fs

ArrayElement == Back("array", "next") /\ Expression(At("value")) /\ UNCHANGED fs

ArrayAppend ==
    /\ Back("array", "value")
    /\ LET g == PopTarget(f) IN Set(Emit(g, Instr("APPENDARRAY", TopTarget(g), TopTarget(f), 0)))
    /\ Goto(At("next"))

ArrayEnd == Back("array", "next") /\ Finish /\ UNCHANGED fs

\* ParseTableOrClass: a member may have attributes, in a class.
MemberAttributes ==
    /\ Back("table", "next") /\ Top.class /\ ~Top.attrs /\ Room
    /\ Set(Load(f, "NEWOBJ"))
    /\ Goto(Append([work EXCEPT ![Len(work)].attrs = TRUE], Table(FALSE)))

MemberFunction ==
    /\ Back("table", "next")
    /\ Set(Load(f, "LOAD")) /\ Function(At("value"), FALSE)

MemberNamed ==
    /\ Back("table", "next")
    /\ Set(Load(f, "LOAD")) /\ Expression(At("value"))

MemberKey == Back("table", "next") /\ Expression(At("comma")) /\ UNCHANGED fs
MemberValue == Back("table", "comma") /\ Expression(At("value")) /\ UNCHANGED fs

\* The attributes, if any, are in the register below the key.
AttrsBelowKeyIn(g) == g.tgt[Len(g.tgt) - 2] = g.tgt[Len(g.tgt) - 1] - 1

MemberEnd ==
    /\ Back("table", "value")
    /\ Top.attrs => AttrsBelowKeyIn(f) \/ "attr" \in Features
    /\ LET g == PopTargets(f, IF Top.attrs THEN 3 ELSE 2)
       IN Set(Emit(g, IF Top.class THEN Instr("NEWSLOTA", 0, TopTarget(g), 0)
                      ELSE Instr("NEWSLOT", -1, TopTarget(g), TopTarget(f))))
    /\ Goto([work EXCEPT ![Len(work)].attrs = FALSE, ![Len(work)].at = "next"])

TableEnd == Back("table", "next") /\ ~Top.attrs /\ Finish /\ UNCHANGED fs

\* ClassExp: the base class, the attributes of the class, then its members.
ClassBase == Back("class", "base") /\ Top.n = 0 /\ Expression(At("attrs")) /\ UNCHANGED fs

ClassAttrs ==
    /\ pc = "ret" /\ Top.k = "class" /\ Top.at \in {"base", "attrs"} /\ Room
    /\ Set(Load(f, "NEWOBJ"))
    /\ Goto(Append([work EXCEPT ![Len(work)].n = IF Top.at = "attrs" THEN 2 ELSE 1,
                                ![Len(work)].at = "body"], Table(FALSE)))

ClassBody ==
    /\ pc = "ret" /\ Top.k = "class"
    /\ LET n == IF Top.at = "attrs" THEN 1 ELSE Top.n
       IN Set(Load(PopTargets(f, n), "NEWOBJ"))
    /\ Goto(Append(Front(work), Table(TRUE)))

\* FunctionCallArgs.
Argument == Back("args", "next") /\ Expression(At("arg")) /\ UNCHANGED fs

ArgumentEnd ==
    /\ Back("args", "arg")
    /\ Set(MoveIfLocal(f))
    /\ Goto([work EXCEPT ![Len(work)].n = @ + 1, ![Len(work)].at = "next"])

\* The registers the callee finds its arguments in, this first.
NArgs == IF Top.raw THEN Top.n - 2 ELSE Top.n

CallEnd ==
    /\ Back("args", "next") /\ (Top.raw => Top.n >= 3)
    /\ LET g == PushTarget(PopTargets(f, NArgs + 1))
       IN Set(Emit(g, Instr("CALL", TopTarget(g), 0, 0)))
    /\ Goto(At("init"))

\* { key = value } after a call.
InitNamed == Back("args", "init") /\ Set(Load(f, "LOAD")) /\ Expression(At("initval"))
InitKey == Back("args", "init") /\ Expression(At("comma")) /\ UNCHANGED fs
InitValue == Back("args", "comma") /\ Expression(At("initval")) /\ UNCHANGED fs

InitSet ==
    /\ Back("args", "initval")
    /\ Set(Emit(PopTargets(f, 2), Instr("SET", -1, 0, TopTarget(f)))) /\ Goto(At("init"))

ArgsEnd == Back("args", "init") /\ Finish /\ UNCHANGED fs

-----------------------------------------------------------------------------
(* CreateFunction.                                                          *)

\* ParseBindEnv.  LocalDeclStatement passes 0xFF on: the environment stays.
FunctionEnv ==
    /\ Back("func", "start") /\ (Owner.k = "local" => "bind" \in Features)
    /\ Expression([work EXCEPT ![Len(work)].n = IF Owner.k = "local" THEN 0 ELSE 1,
                               ![Len(work)].at = "params"])
    /\ UNCHANGED fs

Params == pc = "ret" /\ Top.k = "func" /\ Top.at \in {"start", "params"}

FunctionDefault ==
    /\ Params /\ UNCHANGED fs
    /\ Expression([work EXCEPT ![Len(work)].n = @ + 1, ![Len(work)].at = "params"])

FunctionBody ==
    /\ Params
    /\ \E params \in 0 .. 1 :
         fs' = Append([fs EXCEPT ![Len(fs)] = PopTargets(f, Top.n)], NewState(params))
    /\ IF Top.lambda THEN Expression(At("body"))
       ELSE work' = At("body") /\ pc' = "statement" /\ UNCHANGED <<tok, es, scope>>

FunctionEnd ==
    /\ Back("func", "body")
    /\ LET g == IF Top.lambda THEN Emit(PopTarget(f), Instr("RETURN", 1, TopTarget(f), 0)) ELSE f
           child == Emit(g, Instr("RETURN", -1, 0, 0))
           parent == Load(fs[Len(fs) - 1], "CLOSURE")
       IN /\ Len(parent.loc) <= MaxRegs
          /\ fs' = Append(SubSeq(fs, 1, Len(fs) - 2), [parent EXCEPT !.bad = @ \/ child.bad])
    /\ Finish

-----------------------------------------------------------------------------
(* Statements.  A frame holds the scope, the targets and the stack size     *)
(* that were there when the statement began.                                *)

Stmt(k, at) == Append(work, [k |-> k, at |-> at, old |-> scope, tgt |-> f.tgt, size |-> StackSize(f)])
StmtX(k, at, x) == Append(work, Last(Stmt(k, at)) @@ x)

ToBody(w, size) == work' = w /\ pc' = "statement" /\ scope' = size /\ UNCHANGED <<tok, es>>

\* The statement on top of w has emitted all its code.
Done(w, size) == work' = w /\ pc' = "stmtend" /\ scope' = size /\ UNCHANGED <<tok, es>>

Simple(k, g) == pc = "statement" /\ Room /\ Set(g) /\ Done(Stmt(k, "end"), scope)

\* const and enum put names into _consts and emit no code.
EmptyStatement == Simple("empty", f)
ConstStatement == Simple("const", f)
EnumStatement == Simple("enum", f)

\* import and namespace: the operator takes the name from a register.
ImportStatement == \E op \in {"IMPORT", "NAMESPACE"} : Simple("import", Use(Load(f, "LOAD"), op))

EndStatement ==
    /\ pc = "stmtend"
    /\ Set(SnoozeOpt(f)) /\ Goto(Front(work))

NextStatement ==
    /\ pc = "ret" /\ Top.k # "assign" /\ Top.at = "list"
    /\ pc' = "statement" /\ UNCHANGED <<fs, work, tok, es, scope>>

\* Expressions, return, yield and throw.
ExpressionStatement ==
    /\ pc = "statement"
    /\ \E op \in {"DISCARD", "RETURN", "YIELD", "THROW"} :
         Uses(op) /\ Expression(StmtX("value", "comma", [op |-> op]))
    /\ UNCHANGED fs

LeaveTraps(g, n) == IF n > 0 THEN Emit(g, Instr("POPTRAP", n, 0, 0)) ELSE g

ExpressionStatementEnd ==
    /\ Back("value", "comma")
    /\ Set(CASE Top.op = "DISCARD" -> DiscardTarget(f)
             [] Top.op = "THROW" -> Use(f, "THROW")
             [] OTHER ->
                  LET g == LeaveTraps(f, IF Top.op = "RETURN" THEN f.traps ELSE 0)
                  IN Emit(PopTarget(g), Instr(Top.op, 1, TopTarget(g), 0)))
    /\ Done(work, scope)

ReturnStatement ==
    \E op \in {"RETURN", "YIELD"} :
       Simple("return", Emit(LeaveTraps(f, IF op = "RETURN" THEN f.traps ELSE 0), Instr(op, -1, 0, 0)))

\* RESOLVE_OUTERS.
ResolveOuters(g) == IF Captured(g, scope) THEN Emit(g, Instr("CLOSE", 0, scope, 0)) ELSE g

Jump(g) == Emit(g, Instr("JMP", 0, 0, 0))

BreakStatement == f.brk # <<>> /\ Simple("break", Jump(ResolveOuters(LeaveTraps(f, Last(f.brk)))))
ContinueStatement == f.cont # <<>> /\ Simple("continue", Jump(ResolveOuters(LeaveTraps(f, Last(f.cont)))))

\* A block: its frame is not closed when it is the body of a function.
Block ==
    /\ pc = "statement" /\ Room
    /\ work' = Stmt("block", "list") /\ pc' = "ret" /\ scope' = StackSize(f)
    /\ UNCHANGED <<fs, tok, es>>

BlockEnd ==
    /\ Back("block", "list")
    /\ Set(EndScope(f, scope, Owner.k # "func")) /\ Done(work, Top.old)

\* IfBlock reads a block or a statement; that it leaves the optimizer on
\* after a block makes no difference to a jump or to the end of a statement.
IfStatement == pc = "statement" /\ Expression(Stmt("if", "comma")) /\ UNCHANGED fs

IfBlock ==
    /\ Back("if", "comma") /\ JumpIsAbout(f)
    /\ Set(Use(f, "JZ")) /\ ToBody(At("then"), scope)

ElseBlock ==
    /\ Back("if", "then")
    /\ Set(Mark(Jump(f))) /\ ToBody(At("else"), scope)

IfEnd ==
    /\ pc = "ret" /\ Top.k = "if" /\ Top.at \in {"then", "else"}
    /\ Set(Mark(f)) /\ Done(work, scope)

\* BEGIN_BREAKBLE_BLOCK and END_BREAKBLE_BLOCK.
Breakable(g) == [g EXCEPT !.brk = Append(@, 0), !.cont = Append(@, 0)]
EndBreakable(g) == [Mark(g) EXCEPT !.brk = Front(@), !.cont = Front(@)]

WhileStatement ==
    /\ pc = "statement"
    /\ Set(Mark(f)) /\ Expression(Stmt("while", "comma"))

WhileBody ==
    /\ Back("while", "comma") /\ JumpIsAbout(f)
    /\ LET g == Use(Breakable(f), "JZ") IN Set(g) /\ ToBody(At("body"), StackSize(g))

WhileEnd ==
    /\ Back("while", "body")
    /\ Set(EndBreakable(Jump(EndScope(f, scope, TRUE)))) /\ Done(work, Top.old)

DoWhileStatement ==
    /\ pc = "statement" /\ Room
    /\ Set(Breakable(Mark(f))) /\ ToBody(Stmt("do", "body"), StackSize(f))

DoWhileCond ==
    /\ Back("do", "body") /\ Len(work) < MaxWork
    /\ Set(Mark(EndScope(f, scope, TRUE)))
    /\ work' = Append(At("comma"), [k |-> "expr", es |-> es])
    /\ es' = NoEs /\ pc' = "prefixed" /\ scope' = Top.old /\ UNCHANGED tok

DoWhileEnd ==
    /\ Back("do", "comma") /\ JumpIsAbout(f)
    /\ Set(EndBreakable(Jump(Use(f, "JZ")))) /\ Done(work, scope)

\* for: a declaration, expressions, or nothing; then the condition and the
\* third part, whose code is taken out again.
ForStatement ==
    /\ pc = "statement" /\ Room
    /\ work' = StmtX("for", "first", [last |-> NoInstr, inc |-> <<>>])
    /\ pc' = "ret" /\ scope' = StackSize(f) /\ UNCHANGED <<fs, tok, es>>

ForDecl ==
    /\ Back("for", "first")
    /\ work' = At("cond") /\ pc' = "decl" /\ UNCHANGED <<fs, tok, es, scope>>

ForInit == Back("for", "first") /\ Expression(At("init")) /\ UNCHANGED fs
ForInitEnd == Back("for", "init") /\ Set(PopTarget(f)) /\ Goto(At("cond"))

\* SnoozeOpt, and the place the loop jumps back to.
ForCond ==
    /\ pc = "ret" /\ Top.k = "for" /\ Top.at \in {"first", "cond"}
    /\ Set(Mark(SnoozeOpt(f)))
    /\ Goto(At("none")) \/ Expression(At("test"))

ForTest ==
    /\ Back("for", "test") /\ JumpIsAbout(f)
    /\ Set(Use(f, "JZ")) /\ Goto(At("none"))

ForIncrement ==
    /\ Back("for", "none")
    /\ Set([SnoozeOpt(f) EXCEPT !.on = TRUE])
    /\ Expression([work EXCEPT ![Len(work)].at = "inc", ![Len(work)].last = f.last])

\* PopInstructions.
ForIncrementEnd ==
    /\ Back("for", "inc")
    /\ Set([SnoozeOpt(PopTarget(f)) EXCEPT !.on = FALSE, !.rec = <<>>, !.last = Top.last])
    /\ Goto([work EXCEPT ![Len(work)].at = "loop", ![Len(work)].inc = f.rec])

ForBody ==
    /\ pc = "ret" /\ Top.k = "for" /\ Top.at \in {"none", "loop"}
    /\ Set(Breakable(SnoozeOpt(f))) /\ ToBody(At("body"), scope)

\* The third part is emitted once more, and optimized once more.
Replay(g, inc) ==
    FoldLeft(LAMBDA h, e : Emit(IF e.label THEN Mark(h) ELSE h, e.i), Mark(g), inc)

ForEnd ==
    /\ Back("for", "body")
    /\ LET g == Replay(f, Top.inc)
       IN /\ (g.bad /\ ~f.bad) => "inc" \in Features
          /\ Set(EndScope(EndBreakable(Jump(g)), scope, TRUE))
    /\ Done(work, Top.old)

ForEachStatement ==
    /\ pc = "statement" /\ Len(work) + 1 < MaxWork
    /\ work' = Append(Stmt("foreach", "in"), [k |-> "expr", es |-> es])
    /\ es' = NoEs /\ pc' = "prefixed" /\ scope' = StackSize(f) /\ UNCHANGED <<fs, tok>>

\* The index, the value and the iterator are locals above the container.
ForEachBody ==
    /\ Back("foreach", "in")
    /\ LET null(g, kind) == Emit(PushLocal(g, kind), Instr("LOADNULLS", StackSize(g), 1, 0))
           g == Mark(null(null(null(f, "var"), "var"), "hidden"))
           each(h, op) == Emit(h, Instr(op, TopTarget(f), 0, 0))
       IN Set(Breakable(Mark(each(each(g, "FOREACH"), "POSTFOREACH"))))
    /\ ToBody(At("body"), scope)

ForEachEnd ==
    /\ Back("foreach", "body")
    /\ Set(EndScope(PopTarget(EndBreakable(Jump(f))), scope, TRUE)) /\ Done(work, Top.old)

SwitchStatement ==
    /\ pc = "statement" /\ Expression(StmtX("switch", "comma", [first |-> TRUE, default |-> FALSE, expr |-> 0]))
    /\ UNCHANGED fs

SwitchCases ==
    /\ Back("switch", "comma")
    /\ Set([f EXCEPT !.brk = Append(@, 0)])
    /\ Goto([work EXCEPT ![Len(work)].at = "cases", ![Len(work)].expr = TopTarget(f)])

\* The jump of the condition before leads to the next case, and the end of
\* the statements before to its own.
CaseCond ==
    /\ Back("switch", "cases")
    /\ Set(IF Top.first THEN f ELSE Mark(Jump(f))) /\ Expression(At("case"))

CaseBody ==
    /\ Back("switch", "case")
    /\ LET trg == TopTarget(f)
           g == IF IsLocal(f, trg) THEN PushTarget(PopTarget(f)) ELSE f
           eq == Emit(IF IsLocal(f, trg) THEN g ELSE PopTarget(f),
                      Instr("EQ", TopTarget(g), trg, Top.expr))
           jz == Emit(eq, Instr("JZ", TopTarget(g), 0, 0))
           h == IF IsLocal(f, trg) THEN PopTarget(jz) ELSE jz
       IN /\ Set(IF Top.first THEN h ELSE Mark(h))
          /\ work' = [work EXCEPT ![Len(work)].at = "list", ![Len(work)].first = FALSE]
          /\ pc' = "ret" /\ scope' = StackSize(h) /\ UNCHANGED <<tok, es>>

CaseEnd ==
    /\ Back("switch", "list")
    /\ Set(EndScope(f, scope, TRUE))
    /\ work' = At(IF Top.default THEN "end" ELSE "cases")
    /\ scope' = Top.old /\ UNCHANGED <<pc, tok, es>>

SwitchDefault ==
    /\ Back("switch", "cases")
    /\ (Top.first \/ f.last.op = "CLOSE") => "default" \in Features
    /\ Set(IF Top.first THEN f ELSE Mark(f))
    /\ work' = [work EXCEPT ![Len(work)].at = "list", ![Len(work)].default = TRUE]
    /\ pc' = "ret" /\ scope' = StackSize(f) /\ UNCHANGED <<tok, es>>

\* Mutant: the value that was switched on stays a target.
Mut_SwitchEnd ==
    /\ pc = "ret" /\ Top.k = "switch" /\ Top.at \in {"cases", "end"}
    /\ Set([Mark(f) EXCEPT !.brk = Front(@)]) /\ Done(work, scope)

SwitchEnd ==
    /\ pc = "ret" /\ Top.k = "switch" /\ Top.at \in {"cases", "end"}
    /\ Set([Mark(PopTarget(f)) EXCEPT !.brk = Front(@)]) /\ Done(work, scope)

\* Mutant: continue does not know of the traps.
Mut_Trap(g, d) ==
    [g EXCEPT !.traps = @ + d,
              !.brk = IF @ = <<>> THEN @ ELSE [@ EXCEPT ![Len(g.brk)] = @ + d]]

\* Every count of traps that a jump out of the block must pop goes up.
Trap(g, d) ==
    LET top(s) == IF s = <<>> THEN s ELSE [s EXCEPT ![Len(s)] = @ + d]
    IN [g EXCEPT !.traps = @ + d, !.brk = top(@), !.cont = top(@)]

TryCatchStatement ==
    /\ pc = "statement" /\ Room
    /\ Set(Trap(Emit(f, Instr("PUSHTRAP", 0, 0, 0)), 1)) /\ ToBody(Stmt("try", "try"), StackSize(f))

CatchBlock ==
    /\ Back("try", "try")
    /\ LET g == Mark(Jump(Trap(Emit(EndScope(f, scope, TRUE), Instr("POPTRAP", 1, 0, 0)), -1)))
       IN Set(PushLocal(g, "var")) /\ ToBody(At("catch"), StackSize(g))

TryCatchEnd ==
    /\ Back("try", "catch")
    /\ Set(EndScope(Mark(f), scope, TRUE)) /\ Done(work, Top.old)

-----------------------------------------------------------------------------
(* Declarations.                                                            *)

LocalDeclStatement ==
    /\ pc \in {"statement", "decl"} /\ Room
    /\ Goto(Stmt("local", "next")) /\ UNCHANGED fs

LocalFunction ==
    /\ Back("local", "next") /\ Uses("function")
    /\ Function(At("func"), FALSE) /\ UNCHANGED fs

LocalFunctionEnd ==
    /\ Back("local", "func")
    /\ Set(PushLocal(PopTarget(f), "var")) /\ Done(work, scope)

LocalInit ==
    /\ Back("local", "next")
    /\ \E kind \in {"var", "typed"} : Uses(kind) /\ Expression(At(kind))
    /\ UNCHANGED fs

\* The declared local takes the register of its value; another one follows,
\* or not.
Declare(g, kind) ==
    /\ Set(PushLocal(PopTarget(g), kind))
    /\ Goto(At("next")) \/ Done(work, scope)

LocalInitEnd ==
    /\ pc = "ret" /\ Top.k = "local" /\ Top.at \in {"var", "typed"}
    /\ LET src == TopTarget(f)
           g == PushTarget(PopTarget(f))
           h == IF TopTarget(g) = src THEN g
                ELSE Emit(IF IsLocal(g, src) THEN SnoozeOpt(g) ELSE g,
                          Instr("MOVE", TopTarget(g), src, 0))
       IN Declare(IF Top.at = "typed" THEN Emit(h, Instr("TYPECHECK", TopTarget(g), 0, 0)) ELSE h, Top.at)

LocalNull == Back("local", "next") /\ Declare(Load(f, "LOADNULLS"), "var")

\* function name() and class name, public or not, and pub name = value: a
\* slot of the root table or of the namespace, which is a slot of it.
NamespaceSlot ==
    Load(Emit2ArgsOP(Load(Load(f, "LOADROOT"), "LOAD"), "GET"), "LOAD")

Slot == {Load(Load(f, "LOADROOT"), "LOAD"), NamespaceSlot}

FunctionStatement ==
    /\ pc = "statement"
    /\ \E g \in Slot : Set(g)
    /\ Function(Stmt("slot", "value"), FALSE)

ClassStatement ==
    /\ pc = "statement" /\ Len(work) + 1 < MaxWork
    /\ \E g \in Slot : Set(g)
    /\ Goto(Append(Stmt("slot", "value"), [k |-> "class", n |-> 0, at |-> "base"]))

PubStatement ==
    /\ pc = "statement"
    /\ Set(NamespaceSlot)
    /\ Expression(Stmt("slot", "value"))

SlotEnd ==
    /\ Back("slot", "value")
    /\ Set(PopTarget(EmitDerefOp(f, "NEWSLOT"))) /\ Done(work, scope)

-----------------------------------------------------------------------------

Init ==
    /\ fs = <<NewState(1)>>
    /\ work = <<[k |-> "main", at |-> "list"]>>
    /\ pc = "ret" /\ tok = "end" /\ es = NoEs /\ scope = 0
    /\ lang \in DOMAIN Languages

Compile ==
    /\ Back("main", "list")
    /\ fs' = <<[Emit([f EXCEPT !.loc = SubSeq(@, 1, 2)], Instr("RETURN", -1, 0, 0)) EXCEPT !.loc = <<>>]>>
    /\ pc' = "done" /\ UNCHANGED <<work, tok, es, scope>>

Factor ==
    \/ FactorConstant \/ FactorFunction
    \/ Uses("local") /\ FactorLocal
    \/ Uses("outer") /\ FactorOuter
    \/ Uses("field") /\ FactorField
    \/ Uses("base") /\ (FactorBase \/ FactorRoot)
    \/ Uses("prefix") /\ FactorPrefix
    \/ Uses("paren") /\ FactorParen
    \/ Uses("array") /\ FactorArray
    \/ Uses("table") /\ (FactorTable \/ FactorClass)
    \/ Uses("rawcall") /\ FactorRawcall

Suffix ==
    SuffixDot \/ SuffixIndex \/ IndexEnd \/ SuffixIncDec \/ SuffixTypes \/ LessThan
    \/ SuffixCall \/ SuffixEnd

Operators ==
    \/ UnaryEnd \/ BinExp \/ BinExpEnd \/ LogicalExpEnd \/ ExpressionEnd \/ Assign \/ AssignEnd
    \/ TernaryElse \/ TernaryEnd \/ ParenEnd
    \/ Uses("logical") /\ (LogicalExp \/ Ternary)
    \/ Uses("comma") /\ CommaNext

Members ==
    ArrayElement \/ ArrayAppend \/ ArrayEnd \/ MemberAttributes \/ MemberFunction \/ MemberNamed
    \/ MemberKey \/ MemberValue \/ MemberEnd \/ TableEnd \/ ClassBase \/ ClassAttrs \/ ClassBody

Calls ==
    Argument \/ ArgumentEnd \/ CallEnd \/ InitNamed \/ InitKey \/ InitValue \/ InitSet \/ ArgsEnd
    \/ FunctionEnv \/ FunctionDefault \/ FunctionBody \/ FunctionEnd

Statement ==
    \/ EndStatement \/ NextStatement \/ ExpressionStatement \/ ExpressionStatementEnd
    \/ Uses("declare") /\ LocalDeclStatement
    \/ Uses("simple") /\ (EmptyStatement \/ ConstStatement \/ EnumStatement \/ ImportStatement)
    \/ Uses("return") /\ ReturnStatement
    \/ Uses("break") /\ (BreakStatement \/ ContinueStatement)
    \/ Uses("block") /\ Block
    \/ Uses("if") /\ IfStatement
    \/ Uses("while") /\ (WhileStatement \/ DoWhileStatement)
    \/ Uses("for") /\ (ForStatement \/ ForEachStatement)
    \/ Uses("switch") /\ SwitchStatement
    \/ Uses("try") /\ TryCatchStatement
    \/ Uses("slot") /\ (FunctionStatement \/ ClassStatement \/ PubStatement)

Blocks ==
    BlockEnd \/ IfBlock \/ ElseBlock \/ IfEnd \/ WhileBody \/ WhileEnd \/ DoWhileCond \/ DoWhileEnd
    \/ SwitchCases \/ CaseCond \/ CaseBody \/ CaseEnd \/ SwitchDefault \/ SwitchEnd
    \/ CatchBlock \/ TryCatchEnd

ForLoops ==
    ForDecl \/ ForInit \/ ForInitEnd \/ ForCond \/ ForTest \/ ForIncrement \/ ForIncrementEnd
    \/ ForBody \/ ForEnd \/ ForEachBody \/ ForEachEnd

Declarations ==
    LocalFunction \/ LocalFunctionEnd \/ LocalInit \/ LocalInitEnd \/ LocalNull \/ SlotEnd

Next ==
    /\ Factor \/ Suffix \/ Operators \/ Members \/ Calls \/ Statement \/ Blocks \/ ForLoops
       \/ Declarations \/ Compile
    /\ UNCHANGED lang

Spec == Init /\ [][Next]_vars

-----------------------------------------------------------------------------
(* Properties.                                                              *)

\* The registers in use as temporaries are exactly the targets that are no
\* locals, the last one on top: the assertion of PopTarget, and what it takes
\* for granted when it drops the last entry of _vlocals.
TargetsAreTemps ==
    pc \notin {"done", "error"} =>
       \A n \in 1 .. Len(fs) :
          LET g == fs[n]
              s == SelectSeq(g.tgt, LAMBDA r : ~IsLocal(g, r))
          IN /\ Range(s) = Temps(g)
             /\ \A i \in 1 .. Len(s) - 1 : s[i] < s[i + 1]

\* A statement leaves the targets and the temporaries as it found them.
StatementBalanced ==
    pc = "stmtend" => f.tgt = Top.tgt /\ \A r \in Temps(f) : r < Top.size

\* FunctionCallArgs gives the callee its arguments in consecutive registers,
\* which _OP_CALL reads from stackbase on.
CallArgsContiguous ==
    Back("args", "next") =>
       \A i \in 2 .. NArgs :
          LET n == Len(f.tgt) IN f.tgt[n - NArgs + i] = f.tgt[n - NArgs + i - 1] + 1

\* The frames of the function that is compiled, and those of them whose trap
\* is pushed while their statement is compiled.
FirstFrame == LET s == {i \in 1 .. Len(work) : work[i].k = "func" /\ work[i].at = "body"}
              IN CHOOSE i \in s \cup {1} : \A j \in s : j <= i
OpenTries(from) == {i \in from .. Len(work) : work[i].k = "try" /\ work[i].at = "try"}

Loops == {i \in FirstFrame .. Len(work) :
            work[i].k \in {"while", "do", "for", "foreach"} /\ work[i].at = "body"}
Switches == {i \in FirstFrame .. Len(work) : work[i].k = "switch" /\ work[i].at = "list"}
Innermost(s) == CHOOSE i \in s : \A j \in s : j <= i

\* What break, continue and return pop is what is pushed between them and the
\* place they go to, however loops, switches and try blocks are nested.
TrapCountsLexical ==
    pc = "statement" =>
       /\ f.traps = Cardinality(OpenTries(FirstFrame))
       /\ f.brk # <<>> => Last(f.brk) = Cardinality(OpenTries(Innermost(Loops \cup Switches)))
       /\ f.cont # <<>> => Last(f.cont) = Cardinality(OpenTries(Innermost(Loops)))

\* The optimizer joins no instruction that a jump leads to with the one before
\* it, no conditional jump with the comparison of another register, takes no
\* value away from a register that is in use, and makes no tail call of a
\* call that a trap watches over.
FoldsSound == \A n \in 1 .. Len(fs) : ~fs[n].bad

=============================================================================
