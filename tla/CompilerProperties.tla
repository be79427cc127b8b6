------------------------- MODULE CompilerProperties -------------------------
(***************************************************************************)
(* What the compiler must guarantee: the byte code means the text.         *)
(***************************************************************************)
EXTENDS Compiler

\* Type invariant.
CompilerTypeOK ==
  /\ outcome \in {"reading", "failed", "compiled", "loaded"}
  /\ outcome # "failed" => Len(source) = Len(self.slots) - 1
  /\ outcome = "reading" => Len(self.context) = Len(ctxs) + 1
  /\ \A c \in Range(ctxs) :
       /\ IsInjective([i \in DOMAIN c.locals |-> c.locals[i].literal])
       /\ \A off \in Range(c.pseudo_jumps) : off \in Nat

\* The definitions of the module that have ended, the children of slot 0.
\* Only they are compared with the text.  A nested definition ends too, but the
\* one around it does not, a defect of the code (AfterNested), and such a module
\* is never compiled.
Ended ==
  IF self.slots = <<>> THEN {} ELSE
  {s \in Range(At(self, 0).nesteds) : \A k \in DOMAIN self.context :
     self.context[k].slot # s}

\* How many instructions the first n statements of a definition are: a label
\* is none.
Instructions(d, n) == Cardinality({j \in 1 .. n : d.body[j].op # "label"})

\* The address of a label: how many instructions are before it.
AddressOf(d, x) ==
  Instructions(d, CHOOSE j \in DOMAIN d.body :
                    d.body[j].op = "label" /\ d.body[j].name = x)

IsLabel(d, x) ==
  \E j \in DOMAIN d.body : d.body[j].op = "label" /\ d.body[j].name = x

\* What the k-th instruction of prototype p must be for statement t.
Means(p, d, k, t) ==
  LET ins == p.code[k]
  IN  CASE t.op = "plain" -> ins \in Codes
        [] t.op = "jmp" /\ IsLabel(d, t.label) ->
             ins.op = "jmp" /\ k + ins.idx = AddressOf(d, t.label)
        [] t.op = "llv" /\ ~IsLabel(d, t.name) ->
             /\ ins.op = "llv"
             /\ IF ins.idx < 0 THEN d.args[-ins.idx] = t.name
                ELSE d.vars[ins.idx + 1] = t.name
        [] t.op = "imp" ->
             ins.op = "imp" /\ p.imports[ins.idx + 1]
               = [module |-> t.module, name |-> t.name]
        [] t.op = "ldk" ->
             /\ ins.op = "ldk"
             /\ LET c == p.consts[ins.idx + 1]
                IN  t.text = IF c \in Plain THEN c.text ELSE c.string
        [] OTHER -> TRUE

\* Every definition of the module that has ended, and every one of the chunk
\* that is saved and loaded, is what was written: as many instructions, every jump to a
\* label lands behind it, every local, import and constant is the one that
\* was named, the frame has room for the variables, and the symbol is the name
\* with the number of arguments.  It holds however
\* often the prototype was moved to get more room (compiler.cpp, asm.c).
CodeMeansSource ==
  \A s \in Ended :
    LET p == Written(self, At(self, s))
        d == source[s]
    IN  /\ p.symbol = SymbolOf[<<d.name, Len(d.args)>>]
        /\ p.locals = Len(d.vars)
        /\ Len(p.code) = Instructions(d, Len(d.body))
        /\ \A j \in DOMAIN d.body : d.body[j].op # "label" =>
             Means(p, d, Instructions(d, j), d.body[j])

\* What is defined in definition d as far as it was read.
NamesOf(d) ==
  Range(d.args) \cup Range(d.vars)
    \cup {d.body[j].name : j \in {i \in DOMAIN d.body : d.body[i].op = "label"}}

\* The definition that is read is rejected only for errors in it: a name is
\* known, so that it can be loaded and not be defined again, exactly if this
\* definition has it and none of those around it, and the end is accepted when
\* all labels that are jumped to, forward or back, are in it and it makes no
\* closure (pool_push_label, pool_take_local, resolve_pseudo_jumps).
OnlyErrorsAreRejected ==
  Reading =>
    LET d == source[Slot(self)]
    IN  /\ \A x \in Symbols : IsTaken(x) <=> x \in NamesOf(d)
        /\ (\A j \in DOMAIN d.body :
              /\ d.body[j].op = "jmp" => IsLabel(d, d.body[j].label)
              /\ d.body[j].op # "cls")
           => Resolvable
=============================================================================
