--------------------------- MODULE CallsProperties ---------------------------
(* What must be true of the calls and the value stack of an actor.         *)
EXTENDS Calls

Frames == {i \in DOMAIN cstack : cstack[i].kind # "try"}

\* The state has its types.  What is called is a function (actor.c:126).
CallsTypeOK ==
  /\ v \in Seq(Values)
  /\ sp \in 1 .. MaxStack + 1 /\ sp <= Len(v)
  /\ \A i \in DOMAIN cstack :
       IF i \in Frames
       THEN /\ cstack[i].kind \in {"entry"} \cup Functions
            /\ cstack[i].nargs \in Args \cup {0}
            /\ cstack[i].locals \in Locals \cup {0}
            /\ cstack[i].below \in Seq(Values)
       ELSE cstack[i].body \in {"native", "begin", "call"}
  /\ {flags, loose, under} \subseteq BOOLEAN

\* The pointers of the actor, and the ones saved in each activation, lead to
\* activations that still run, and to the innermost ones of their kind.  As
\* long as the actor has not exited any_throw has a catch point to jump to
\* (assert in actor.c:302).
PointersLive ==
  LET Innermost(S, n) == Max({0} \cup {i \in S : i < n})
  IN  /\ frame = Innermost(Frames, Here + 1)
      /\ error_jmp = Innermost(Catches(cstack), Here + 1)
      /\ \A i \in Frames : cstack[i].prev = Innermost(Frames, i)
      /\ \A i \in Catches(cstack) :
           /\ cstack[i].prev = Innermost(Catches(cstack), i)
           /\ cstack[i].frame = Innermost(Frames, i)
      /\ (Native \/ Code) => error_jmp # 0

\* Each running function has its own part of the stack: its function value
\* and arguments lie above where its caller's part begins, and its catch
\* points and the top above where its own begins (save_ctx, any_call).
FramesAreApart ==
  /\ sp >= Cur.bp
  /\ \A i \in Frames \ {1} :
       Len(cstack[i].below) >= cstack[cstack[i].prev].bp
  /\ \A i \in Catches(cstack) : cstack[i].sp >= cstack[cstack[i].frame].bp

\* What a caller has on the stack under a call is as it was when the call
\* returns or fails, whatever the callee does to its own part: any_pop,
\* any_check_index and any_try keep it out.  The one exception is a pop of
\* more than the callee has, which is refused when it has been done.
CallersOperandsKept ==
  ~under => \A i \in Frames :
    SubSeq(v, 1, Len(cstack[i].below)) = cstack[i].below

\* No value on the stack is one that a collection has left behind, also
\* after errors have brought back a higher top (any_try, any_error), unless
\* code took values from under its own catch point.
NothingStaleOnStack ==
  ~under /\ ~loose => \A k \in 1 .. sp : v[k] # "stale"

\* any_protected_call takes "error value, args and function" (actor.c:155)
\* when it fails: what its caller had under the function stays.
ProtectedCallKeepsOperands ==
  [][\A i \in Catches(cstack) :
       (/\ cstack[i].body = "call"
        /\ Len(cstack') = i - 1)
       => sp' >= cstack[i].sp - cstack[i].nargs]_vars
=============================================================================
