-------------------------------- MODULE Calls --------------------------------
(***************************************************************************)
(* Calls, errors and the value stack of one actor: any_call, any_try,      *)
(* any_throw, any_protected_call and the instructions of the dispatcher.   *)
(*                                                                         *)
(* Frames and catch points are structures on the C stack of the actor, and *)
(* the actor keeps pointers to the innermost ones.  cstack is that stack   *)
(* and the pointers are places in it, so that a pointer into a part that   *)
(* longjmp has left can be told.  Programs are all programs: the next      *)
(* instruction, or the next call of native code, is any.                   *)
(*                                                                         *)
(* v is the array behind the value stack.  What lies above sp is kept as   *)
(* far as a catch point may bring it back.  Indices of the code are from   *)
(* 0, so v[k] is the value at index k - 1 and v[sp] is the top.            *)
(***************************************************************************)
EXTENDS Integers, Sequences, FiniteSets, FiniteSetsExt

CONSTANTS
  Args,      \* numbers of arguments
  Locals,    \* values of num_local_vars
  MaxStack,  \* bound: values on the stack
  MaxNest    \* bound: activations on the C stack

ASSUME CallsAssumption ==
  /\ Args \subseteq 0 .. MaxStack
  /\ Locals \subseteq Nat
  /\ MaxStack \in Nat
  /\ MaxNest \in Nat

VARIABLES
  v,          \* the array, as far as it matters
  sp,         \* number of values on the stack
  cstack,     \* activations of actor_entry, any_call and any_try
  frame,      \* aactor_t.frame, a place in cstack
  error_jmp,  \* aactor_t.error_jmp, a place in cstack; 0 is NULL
  flags,      \* APF_EXIT is set
  loose,      \* history: native code took values from under its catch point
  under       \* history: a pop was refused when it had taken caller's values

history == <<loose, under>>
vars == <<v, sp, cstack, frame, error_jmp, flags, history>>

\* Kinds of values.  "ref" is a collectable value, "stale" one that a
\* collection has not updated, "nil" any other value that is no function.
Plain == {"nil", "native", "code"}
Values == Plain \cup {"ref", "stale"}
Functions == {"native", "code"}

\* Activations: a frame, and a catch point with what any_try runs (body).
\* below is a history, the values under the function.
Frame(kind, n, bp, locals, below) ==
  [kind |-> kind, prev |-> frame, bp |-> bp, nargs |-> n, locals |-> locals,
   below |-> below]
Catch(body, n) ==
  [kind |-> "try", prev |-> error_jmp, sp |-> sp, frame |-> frame,
   body |-> body, nargs |-> n]

Here == Len(cstack)
Top == cstack[Here]
Cur == cstack[frame]
Count == sp - Cur.bp                   \* any_count

\* Fault: only the upper end is checked.
Rel_unchecked == 1 .. sp
\* The places that any_check_index accepts.
Rel == {k \in 1 .. sp : k > Cur.bp - Cur.nargs}

Catches(cs) == {i \in DOMAIN cs : cs[i].kind = "try"}

\* The array up to sp or to the highest sp of a catch point.
Trim(a, n, cs) == SubSeq(a, 1, Max({n} \cup {cs[i].sp : i \in Catches(cs)}))

Put(a, k, x) == IF k <= Len(a) THEN [a EXCEPT ![k] = x] ELSE Append(a, x)

\* Fault: the top is not a root.
Collected_misses_top(a, n) ==
  [k \in DOMAIN a |-> IF k >= n /\ a[k] = "ref" THEN "stale" ELSE a[k]]
\* The array after a collection with n roots.
Collected(a, n) ==
  [k \in DOMAIN a |-> IF k > n /\ a[k] = "ref" THEN "stale" ELSE a[k]]
-----------------------------------------------------------------------------
\* actor_entry, when it has popped the number of arguments.
Init ==
  /\ \E f \in Plain, n \in Args :
       /\ v = <<f>> \o [k \in 1 .. n |-> "ref"]
       /\ cstack = <<[kind |-> "entry", prev |-> 0, bp |-> 0, nargs |-> 0,
                      locals |-> 0, below |-> <<>>],
                     [kind |-> "try", prev |-> 0, sp |-> n + 1, frame |-> 1,
                      body |-> "begin", nargs |-> n]>>
  /\ sp = Len(v)
  /\ frame = 1
  /\ error_jmp = 2
  /\ flags = FALSE
  /\ loose = FALSE /\ under = FALSE
-----------------------------------------------------------------------------
(***************************************************************************)
(* Errors.                                                                 *)
(***************************************************************************)

\* The rest of any_protected_call after an error: all of the frame is popped.
Popped(c) == cstack[c.frame].bp

\* any_throw, longjmp and the rest of any_try, with array a and n values.
Throw(a, n) ==
  LET c == cstack[error_jmp]
      ev == a[n]
      to == IF c.body = "native" THEN c.sp ELSE Popped(c)
      cs == SubSeq(cstack, 1, error_jmp - 1)
      restored == IF c.body = "native" THEN a ELSE Put(a, c.sp + 1, ev)
  IN  /\ n > 0
      /\ sp' = to + 1
      /\ v' = Trim(Put(restored, to + 1, ev), to + 1, cs)
      /\ cstack' = cs
      /\ frame' = c.frame
      /\ error_jmp' = c.prev

\* any_error with n values left on the stack: the message is a new string,
\* for which the heap may be collected.
Error(n) ==
  \E a \in {v, Collected(v, n)} : Throw(Put(a, n + 1, "ref"), n + 1)
-----------------------------------------------------------------------------
(***************************************************************************)
(* Calls.                                                                  *)
(***************************************************************************)

\* The index of the function of a call.
FirstOf(n) == sp - n - 1

\* Fault: any value is taken for a function.
Callable_any(n) == FirstOf(n) >= Cur.bp
Callable_anywhere(n) == FirstOf(n) >= 0 /\ v[FirstOf(n) + 1] \in Functions
Callable(n) == FirstOf(n) >= Cur.bp /\ v[FirstOf(n) + 1] \in Functions

\* any_call: the activation is put on cs, the C stack of its caller.
CallOn(cs, n) ==
  IF ~Callable(n) THEN Error(sp)
  ELSE LET f == v[FirstOf(n) + 1]
       IN  \E l \in IF f = "code" THEN Locals ELSE {0} :
             /\ sp + l <= MaxStack
             /\ sp' = sp + l
             /\ cstack' = Append(cs, Frame(f, n, sp, l, SubSeq(v, 1, FirstOf(n))))
             /\ frame' = Len(cs) + 1
             /\ v' = Trim([k \in 1 .. Max({sp + l, Len(v)}) |->
                            IF k \in sp + 1 .. sp + l THEN "nil" ELSE v[k]],
                          sp', cstack')
             /\ UNCHANGED error_jmp

\* n values are taken of what a catch point of the same function would restore.
Taken(n) ==
  \E i \in Catches(cstack) : cstack[i].frame = frame /\ sp - n < cstack[i].sp

Call(n) ==
  /\ Here < MaxNest
  /\ CallOn(cstack, n)
  /\ loose' = (loose \/ Taken(n + 1))
  /\ UNCHANGED <<flags, under>>

\* load_ctx, when a native function or the dispatcher has returned.
Return ==
  /\ Top.kind \in Functions
  /\ IF sp <= Cur.bp THEN Error(sp)
     ELSE LET cs == SubSeq(cstack, 1, Here - 1)
          IN  /\ sp' = Cur.bp - Cur.nargs
              /\ v' = Trim([v EXCEPT ![Cur.bp - Cur.nargs] = v[sp]], sp', cs)
              /\ cstack' = cs
              /\ frame' = Cur.prev
              /\ UNCHANGED error_jmp
  /\ UNCHANGED <<flags, history>>

\* any_try begins.
Try ==
  /\ Here < MaxNest /\ sp < MaxStack
  /\ cstack' = Append(cstack, Catch("native", 0))
  /\ error_jmp' = Here + 1
  /\ UNCHANGED <<v, sp, frame, flags, history>>

\* any_protected_call begins.  When it fails it takes all of the frame.
ProtectedCall(n) ==
  /\ Here < MaxNest /\ sp < MaxStack
  /\ cstack' = Append(cstack, Catch("begin", n))
  /\ error_jmp' = Here + 1
  /\ loose' = (loose \/ Taken(Count))
  /\ UNCHANGED <<v, sp, frame, flags, under>>

\* The any_call of any_protected_call and of actor_entry.
Begin ==
  /\ Top.kind = "try" /\ Top.body = "begin"
  /\ CallOn([cstack EXCEPT ![Here].body = "call"], Top.nargs)
  /\ UNCHANGED <<flags, history>>

\* Fault: the catch point stays the one to jump to.
Caught_stays(c) == error_jmp
Caught(c) == c.prev

\* any_try ends without an error and pushes a nil.
TryEnds ==
  /\ Top.kind = "try" /\ Top.body # "begin"
  /\ sp < MaxStack
  /\ sp' = sp + 1
  /\ cstack' = SubSeq(cstack, 1, Here - 1)
  /\ v' = Trim(Put(v, sp + 1, "nil"), sp', cstack')
  /\ error_jmp' = Caught(Top)
  /\ UNCHANGED <<frame, flags, history>>

\* actor_entry after its call: the actor yields for ever.
Exit ==
  /\ Top.kind = "entry" /\ ~flags
  /\ flags' = TRUE
  /\ UNCHANGED <<v, sp, cstack, frame, error_jmp, history>>
-----------------------------------------------------------------------------
(***************************************************************************)
(* Instructions and calls of native code that use the stack only.          *)
(***************************************************************************)
Keep == UNCHANGED <<cstack, frame, error_jmp, flags>>
Fails(n) == Error(n) /\ UNCHANGED <<flags, history>>

Push(x) ==
  /\ sp < MaxStack
  /\ sp' = sp + 1
  /\ v' = Put(v, sp + 1, x)
  /\ Keep /\ UNCHANGED history

\* Any new object: the heap may be collected before it is pushed.
PushNew ==
  /\ sp < MaxStack
  /\ sp' = sp + 1
  /\ \E a \in {v, Collected(v, sp)} : v' = Put(a, sp + 1, "ref")
  /\ Keep /\ UNCHANGED history

\* AOC_LLV and any_push_index
PushIndex ==
  \/ \E k \in Rel : Push(v[k])
  \/ Fails(sp)

\* any_pop takes the values before it looks at what is left.
PopThen(n) ==
  /\ n <= sp
  /\ loose' = (loose \/ Taken(n))
  /\ IF sp - n < Cur.bp + Cur.locals
     THEN /\ Error(sp - n)
          /\ under' = (under \/ sp - n < Cur.bp)
          /\ UNCHANGED flags
     ELSE /\ sp' = sp - n
          /\ v' = Trim(v, sp', cstack)
          /\ Keep /\ UNCHANGED under

\* AOC_SLV and any_insert: the top goes to another place.
Insert ==
  \/ /\ sp - 1 >= Cur.bp + Cur.locals
     /\ loose' = (loose \/ Taken(1))
     /\ sp' = sp - 1
     /\ \E k \in Rel : v' = Trim([v EXCEPT ![k] = v[sp]], sp', cstack)
     /\ Keep /\ UNCHANGED under
  \/ Rel # {} /\ PopThen(1) /\ sp - 1 < Cur.bp + Cur.locals
  \/ Fails(sp)

\* any_remove of an operand.
Remove ==
  \E k \in Cur.bp + 1 .. sp :
    /\ sp' = sp - 1
    /\ v' = Trim([i \in DOMAIN v |-> IF i >= k /\ i < sp THEN v[i + 1] ELSE v[i]],
                 sp', cstack)
    /\ loose' = (loose \/ Taken(1))
    /\ Keep /\ UNCHANGED under

\* any_throw by native code: the error is what is on top.
NativeThrow == Throw(v, sp) /\ UNCHANGED <<flags, history>>

\* Instructions that test any_count, which counts local variables, and then
\* take operands and leave the values x.
Operands(take, x) ==
  /\ Count >= take
  /\ sp' = sp - take + Len(x)
  /\ v' = Trim([k \in DOMAIN v |->
                 IF x # <<>> /\ k = sp' THEN x[1] ELSE v[k]], sp', cstack)
  /\ Keep /\ UNCHANGED history

\* A bad jump is found when the condition has been popped.
Jin ==
  \/ Operands(1, <<>>)
  \/ Count >= 1 /\ Fails(sp - 1)
Not == Operands(1, <<"nil">>)
Binary == Operands(2, <<"nil">>)

\* any_mbox_recv puts the message in the place of the top.
Receive == \E m \in {"nil", "ref"} : Operands(1, <<m>>)

\* any_mbox_send: both values are popped before they are looked at.
Send ==
  \/ PopThen(2)
  \/ /\ sp - 2 >= Cur.bp + Cur.locals
     /\ Error(sp - 2)
     /\ loose' = (loose \/ Taken(2))
     /\ UNCHANGED <<flags, under>>
-----------------------------------------------------------------------------
Native ==
  \/ Top.kind = "native"
  \/ Top.kind = "try" /\ Top.body = "native"
Code == Top.kind = "code"

Step ==
  \/ \E x \in Plain : Push(x)
  \/ PushNew
  \/ PushIndex
  \/ \E n \in 0 .. sp : PopThen(n)
  \/ Insert
  \/ Send
  \/ Receive
  \/ \E n \in Args : Call(n)
  \/ Fails(sp)

CodeStep ==
  /\ Code
  /\ Step \/ Jin \/ Not \/ Binary

NativeStep ==
  /\ Native
  /\ \/ Step
     \/ Remove
     \/ NativeThrow
     \/ Try
     \/ \E n \in Args : ProtectedCall(n)

Next ==
  \/ CodeStep
  \/ NativeStep
  \/ Begin
  \/ Return
  \/ TryEnds
  \/ Exit

Spec == Init /\ [][Next]_vars
=============================================================================
