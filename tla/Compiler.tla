------------------------------ MODULE Compiler ------------------------------
(***************************************************************************)
(* amlc, the compiler of textual assembly, on top of the assembler.  It    *)
(* reads a module in one pass and emits as it reads: names become indices  *)
(* through pools, and what is not known yet (labels and closures) gets the *)
(* index of a place holder, which is resolved where the definition ends.   *)
(* A definition that is read inside another has a context of its own.      *)
(*                                                                         *)
(* The text is chosen statement by statement; source remembers it, for the *)
(* properties only.  In the end the chunk is written and loaded again.     *)
(***************************************************************************)
EXTENDS Assembler

CONSTANTS
  Symbols,     \* names of arguments, variables and labels
  Functions,   \* names of definitions
  SymbolOf,    \* SymbolOf[<<f, n>>]: the string f/n
  Literals,    \* constants as they are written: numbers (Plain) and strings
  Signatures,  \* arguments and variables of definitions
  File,        \* the name of the file and the module
  MaxBody      \* bound: statements of the module

ASSUME CompilerAssumption ==
  /\ \A s \in Sections : DefaultRoom[s] > 0
  /\ Functions \subseteq Strings /\ File \in Strings
  /\ \A x \in DOMAIN SymbolOf : x \in Functions \X Nat /\ SymbolOf[x] \in Strings
  /\ \A l \in Literals : l \in Plain \/ l.text \in Strings
  /\ \A g \in Signatures :
       /\ g.args \in Seq(Symbols) /\ g.vars \in Seq(Symbols)
       /\ \A f \in Functions : <<f, Len(g.args)>> \in DOMAIN SymbolOf

VARIABLES
  ctxs,        \* contexts of the definitions that are being read
  outcome,     \* "reading", "failed", "compiled", "loaded"
  source       \* the definitions, in the order of their slots

cvars == <<self, ctxs, outcome, source>>

NoContext ==
  [num_arguments |-> 0, num_variables |-> 0, locals |-> <<>>, imports |-> <<>>,
   constants |-> <<>>, nesteds |-> <<>>, pseudo_nesteds |-> <<>>,
   label_addresses |-> <<>>, pseudo_jumps |-> <<>>, sym |-> "statement"]

pctx == Last(ctxs)
NumInstructions == Len(aasm_prototype(self).code)
-----------------------------------------------------------------------------
(***************************************************************************)
(* Pools: what is written, with the index it has got.                      *)
(***************************************************************************)
Has(pool, literal) == \E i \in DOMAIN pool : pool[i].literal = literal
IdxOf(pool, literal) ==
  pool[SelectInSeq(pool, LAMBDA v : v.literal = literal)].idx
LiteralAt(pool, idx) == pool[SelectInSeq(pool, LAMBDA v : v.idx = idx)].literal

Known(pool, literal) == Has(pool, literal)

\* A literal keeps the index it was pushed with first.
pool_push(pool, literal, idx) ==
  IF Has(pool, literal) THEN pool
  ELSE Append(pool, [literal |-> literal, idx |-> idx])

\* The arguments and the variables of a signature as locals, with the first
\* as -1 and 0.
Signed(sig) ==
  [i \in DOMAIN sig.args |-> [literal |-> sig.args[i], idx |-> -i]]
    \o [i \in DOMAIN sig.vars |-> [literal |-> sig.vars[i], idx |-> i - 1]]

Duplicated(sig) == ~IsInjective(sig.args \o sig.vars)
-----------------------------------------------------------------------------
(***************************************************************************)
(* Statements.                                                             *)
(***************************************************************************)
\* A statement may be read where a definition is open and the symbol read
\* last is not the def of a nested definition.
Reading == outcome = "reading" /\ ctxs # <<>> /\ pctx.sym = "statement"
Statements == FoldLeft(LAMBDA n, d : n + Len(d.body), 0, source)

\* An exception, which ends the program.
Fail ==
  /\ outcome' = "failed"
  /\ self' = Fresh
  /\ ctxs' = <<>>
  /\ source' = <<>>

\* The instruction is emitted by assembler a; the context becomes c.
Emits(a, instruction, c, statement) ==
  /\ Statements < MaxBody
  /\ self' = aasm_emit(a, instruction)
  /\ ctxs' = Append(Front(ctxs), c)
  /\ source' = [source EXCEPT ![Slot(self)].body = Append(@, statement)]
  /\ UNCHANGED outcome

\* Instructions without names, and jumps by a number.
Plainly(instruction) ==
  Emits(self, instruction, pctx, [op |-> "plain"])

LoadConstant(l) ==
  LET known == Known(pctx.constants, l.text)
      idx == IF known THEN IdxOf(pctx.constants, l.text)
             ELSE Len(aasm_prototype(self).consts)
      a == IF known THEN self
           ELSE IF l \in Plain THEN aasm_add_constant(self, l)
           ELSE AddString(self, l.text)
  IN  Emits(a, [op |-> "ldk", idx |-> idx],
            [pctx EXCEPT !.constants = pool_push(@, l.text, idx)],
            [op |-> "ldk", text |-> l.text])

Import(m, n) ==
  LET known == Known(pctx.imports, <<m, n>>)
      idx == IF known THEN IdxOf(pctx.imports, <<m, n>>)
             ELSE Len(aasm_prototype(self).imports)
      a == IF known THEN self ELSE aasm_add_import(self, m, n)
  IN  Emits(a, [op |-> "imp", idx |-> idx],
            [pctx EXCEPT !.imports = pool_push(@, <<m, n>>, idx)],
            [op |-> "imp", module |-> m, name |-> n])

\* Labels are locals, too: one that is known may be loaded.
Local(x) ==
  IF Has(pctx.locals, x)
  THEN Emits(self, [op |-> "llv", idx |-> IdxOf(pctx.locals, x)], pctx,
             [op |-> "llv", name |-> x])
  ELSE Fail

\* The displacement is the index of the label in a pool of its own until the
\* definition ends.
Jump(x) ==
  LET pool == pool_push(pctx.label_addresses, x, Len(pctx.label_addresses))
  IN  Emits(self, [op |-> "jmp", idx |-> IdxOf(pool, x)],
            [pctx EXCEPT !.label_addresses = pool,
                         !.pseudo_jumps = Append(@, NumInstructions)],
            [op |-> "jmp", label |-> x])

Closure(f, n) ==
  LET name == SymbolOf[<<f, n>>]
      pool == pool_push(pctx.pseudo_nesteds, name, Len(pctx.pseudo_nesteds))
  IN  Emits(self, [op |-> "cls", idx |-> IdxOf(pool, name)],
            [pctx EXCEPT !.pseudo_nesteds = pool],
            [op |-> "cls", name |-> name])

\* Fault: a label may have the name of a local.
IsTaken_label(x) == \E i \in DOMAIN pctx.locals :
  pctx.locals[i].literal = x /\ i > pctx.num_arguments + pctx.num_variables

IsTaken(x) == Has(pctx.locals, x)

Label(x) ==
  IF IsTaken(x) THEN Fail
  ELSE /\ Statements < MaxBody
       /\ ctxs' = Append(Front(ctxs),
                    [pctx EXCEPT !.locals =
                       Append(@, [literal |-> x, idx |-> NumInstructions])])
       /\ source' = [source EXCEPT ![Slot(self)].body =
                       Append(@, [op |-> "label", name |-> x])]
       /\ UNCHANGED <<self, outcome>>

\* The text is not what is expected, or ends too early.
SyntaxError == outcome = "reading" /\ Fail
-----------------------------------------------------------------------------
(***************************************************************************)
(* Definitions.                                                            *)
(***************************************************************************)
\* The context in which the body is read, and what is remembered of the text.
Begun(sig) ==
  [NoContext EXCEPT !.num_arguments = Len(sig.args),
                    !.num_variables = Len(sig.vars), !.locals = Signed(sig)]
Defined(f, sig) ==
  [name |-> f, args |-> sig.args, vars |-> sig.vars, body |-> <<>>]

DefModule(f, sig) ==
  /\ outcome = "reading"
  /\ ctxs = <<>>
  /\ Len(self.slots) < MaxItems
  /\ IF Duplicated(sig) THEN Fail
     ELSE /\ self' = aasm_module_push(self, f)
          /\ ctxs' = <<Begun(sig)>>
          /\ source' = Append(source, Defined(f, sig))
          /\ UNCHANGED outcome

\* The loop that reads statements does not read the next symbol when it comes
\* back from a nested definition: the symbol is still def.
AfterNested == "def"

\* The assertion of aasm_push fails, which ends the compiler.
TooDeep == Len(self.context) > MaxNested

\* match_nested_prototype up to its body.
DefNested(f, sig) ==
  /\ outcome = "reading"
  /\ ctxs # <<>>
  /\ IF TooDeep \/ Duplicated(sig) THEN Fail
     ELSE /\ Len(self.slots) < MaxItems
          /\ self' = aasm_push(self)
          /\ ctxs' = Append(Front(ctxs),
                       [pctx EXCEPT
                          !.nesteds = pool_push(@, f,
                                        Len(aasm_prototype(self).nesteds)),
                          !.sym = AfterNested])
                     \o <<Begun(sig)>>
          /\ source' = Append(source, Defined(f, sig))
          /\ UNCHANGED outcome

\* The places of an instruction with a place holder, counted from 0.
IsPseudoJump(off) == off \in Range(pctx.pseudo_jumps)
LabelAt(off) ==
  LiteralAt(pctx.label_addresses, aasm_prototype(self).code[off + 1].idx)
ClosureAt(off) ==
  LiteralAt(pctx.pseudo_nesteds, aasm_prototype(self).code[off + 1].idx)

\* Fault: the displacement is not counted from the next instruction.
Displacement_here(off) == IdxOf(pctx.locals, LabelAt(off)) - off

Displacement(off) == IdxOf(pctx.locals, LabelAt(off)) - off - 1

\* resolve_pseudo_jumps and resolve_pseudo_nesteds.
Resolved(off) ==
  LET ins == aasm_prototype(self).code[off + 1]
  IN  CASE IsPseudoJump(off) -> [ins EXCEPT !.idx = Displacement(off)]
        [] ins.op = "cls" ->
             [ins EXCEPT !.idx = IdxOf(pctx.nesteds, ClosureAt(off))]
        [] OTHER -> ins

\* Fault: a label is only known to the jumps behind it.
Resolvable_back ==
  \A off \in 0 .. NumInstructions - 1 :
    /\ IsPseudoJump(off) =>
         /\ Has(pctx.locals, LabelAt(off))
         /\ IdxOf(pctx.locals, LabelAt(off)) <= off
    /\ aasm_prototype(self).code[off + 1].op = "cls" =>
         Has(pctx.nesteds, ClosureAt(off))

Resolvable ==
  \A off \in 0 .. NumInstructions - 1 :
    /\ IsPseudoJump(off) => Has(pctx.locals, LabelAt(off))
    /\ aasm_prototype(self).code[off + 1].op = "cls" =>
         Has(pctx.nesteds, ClosureAt(off))

\* The end of match_prototype.
Finished ==
  WithPrototype(self, [aasm_prototype(self) EXCEPT
    !.code = [i \in DOMAIN @ |-> Resolved(i - 1)],
    !.locals = pctx.num_variables])

\* The nested definition is found by its name and gets its number of
\* arguments.
Renamed(pool, f, n) ==
  LET i == SelectInSeq(pool, LAMBDA v : v.literal = f)
  IN  [pool EXCEPT ![i].literal = SymbolOf[<<f, n>>]]

EndModule ==
  LET f == source[Slot(self)].name
  IN  /\ self' = aasm_pop(SetName(Finished, "symbol",
                                  SymbolOf[<<f, pctx.num_arguments>>]))
      /\ ctxs' = <<>>

EndNested ==
  LET f == source[Slot(self)].name
      outer == ctxs[Len(ctxs) - 1]
  IN  /\ self' = aasm_pop(Finished)
      /\ ctxs' = Append(SubSeq(ctxs, 1, Len(ctxs) - 2),
                   [outer EXCEPT !.nesteds =
                      Renamed(@, f, pctx.num_arguments)])

End ==
  /\ Reading
  /\ IF ~Resolvable THEN Fail
     ELSE /\ IF Len(ctxs) = 1 THEN EndModule ELSE EndNested
          /\ UNCHANGED <<outcome, source>>
-----------------------------------------------------------------------------
EndOfFile ==
  /\ outcome = "reading"
  /\ ctxs = <<>>
  /\ outcome' = "compiled"
  /\ UNCHANGED <<self, ctxs, source>>

\* The chunk is saved; what a loader finds in it.
Load ==
  /\ outcome = "compiled"
  /\ self' = load_chunk(Started, save_chunk(self))
  /\ outcome' = "loaded"
  /\ UNCHANGED <<ctxs, source>>

CInit ==
  /\ self = SetName(SetName(Started, "source", File), "symbol", File)
  /\ ctxs = <<>>
  /\ outcome = "reading"
  /\ source = <<>>

Statement ==
  /\ Reading
  /\ \/ \E i \in Codes : Plainly(i)
     \/ \E l \in Literals : LoadConstant(l)
     \/ \E x \in Externals : Import(x[1], x[2])
     \/ \E x \in Symbols : Local(x) \/ Jump(x) \/ Label(x)
     \/ \E s \in DOMAIN SymbolOf : Closure(s[1], s[2])

CNext ==
  \/ \E f \in Functions, sig \in Signatures : DefModule(f, sig) \/ DefNested(f, sig)
  \/ Statement \/ End \/ EndOfFile \/ Load \/ SyntaxError

CSpec == CInit /\ [][CNext]_cvars
=============================================================================
