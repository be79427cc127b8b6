--------------------------- MODULE HeapProperties ----------------------------
(***************************************************************************)
(* What the collector and the operations on the heap must guarantee.       *)
(***************************************************************************)
EXTENDS Heap

Phases == {"run", "reserve", "roots", "scan", "again", "alloc"}
Collecting == phase \in {"roots", "scan"}

\* The values an object of the heap h holds, without the cells of a block
\* that are not elements.
Visible(h, o) ==
  CASE o.kind = "tuple" -> Range(o.vals)
    [] IsContainer(o) ->
         {o.buff} \cup {h[o.buff.at].vals[k] : k \in 1 .. Width(o.kind) * o.n}
    [] OTHER -> {}

\* The values the actor holds.
Held == Range(stack) \cup Range(msbox)

\* v refers to the object of h it was made for.
Refers(v, h) == v = Nil \/ (v.at \in DOMAIN h /\ h[v.at].id = v.id)

\* The sum of a sequence; the bytes of each object of h, and of all of them.
Total(s) ==
  LET upTo[n \in 0 .. Len(s)] == IF n = 0 THEN 0 ELSE upTo[n - 1] + s[n]
  IN  upTo[Len(s)]
Sizes(h) == [k \in DOMAIN h |-> h[k].sz]
TotalSz(h) == Total(Sizes(h))

\* Type invariant, with the bytes in use as the sizes of the objects.
HeapTypeOK ==
  /\ phase \in Phases
  /\ \A h \in {cur, to} : \A k \in DOMAIN h :
       /\ h[k].kind \in {"string", "tuple", "fixed", "array", "buffer", "table"}
       /\ h[k].id \in 1 .. made
       /\ h[k].sz % Word = 0
       /\ IsContainer(h[k]) => h[k].n <= h[k].cap
  /\ heap_sz = TotalSz(IF Collecting THEN to ELSE cur)
  /\ Len(stack) <= MaxRoots /\ Len(msbox) <= MaxMail
  /\ fwd \in [DOMAIN fwd -> 0 .. Len(to)]
-----------------------------------------------------------------------------
\* Outside a collection every value on the stack, in the mailbox and in any
\* object refers to the object it was made for, however often it has moved:
\* the collector keeps the graph of objects, shared and cyclic ones included,
\* and no cell that was never written can be read (gc.c, and the order of
\* reserve, alloc and lookup in set_capacity and the constructors).
NoStaleReference ==
  ~Collecting =>
    \A v \in Held \cup UNION {Visible(cur, o) : o \in Range(cur)} :
      Refers(v, cur)

\* Two objects never become one and one object never becomes two.
NoObjectTwice ==
  \A h \in {cur, to} : \A k, l \in DOMAIN h : h[k].id = h[l].id => k = l

\* The assertion in agc_alloc holds although sizes are rounded up after they
\* were reserved, and a collection never writes past the new half.
HeapWithinCapacity == heap_sz <= heap_cap

\* Inside a collection: what was scanned refers to the new half, the rest of
\* it and the roots not yet copied to the old one, elements of a container
\* also while their block is still in the old half, and the forwarding indices agree
\* with the identities (the loop of agc_collect, copy_array, copy_table).
Half(copied) == IF copied THEN to ELSE cur
Tricolor ==
  Collecting =>
    /\ \A k \in DOMAIN cur : fwd[k] # 0 => to[fwd[k]].id = cur[k].id
    /\ \A k \in DOMAIN Roots : Refers(Roots[k], Half(phase = "scan" \/ k < pos))
    /\ \A s \in DOMAIN to :
         LET o == to[s]
             scanned(k) == s < scan \/ (s = scan /\ k < child)
             blockMoved == scanned(ValuesOf(o))
         IN  CASE o.kind = "tuple" ->
                    \A k \in DOMAIN o.vals : Refers(o.vals[k], Half(scanned(k)))
               [] IsContainer(o) ->
                    /\ Refers(o.buff, Half(blockMoved))
                    /\ \A k \in 1 .. Width(o.kind) * o.n :
                         Refers(Half(blockMoved)[o.buff.at].vals[k], Half(scanned(k)))
               [] OTHER -> TRUE

\* The objects that a program can still reach, by their places in cur: those
\* in every set that the roots lead into and no value leads out of.
Closed(S) ==
  /\ \A v \in Held : v.at # 0 => v.at \in S
  /\ \A k \in S : \A v \in Visible(cur, cur[k]) : v.at # 0 => v.at \in S
Reachable == {k \in DOMAIN cur : \A S \in SUBSET DOMAIN cur : Closed(S) => k \in S}

\* The heap grows only when what is reachable and the request together do not
\* fit: garbage is reclaimed first, all of it (aactor_heap_reserve).
ReachableSz == Total([k \in DOMAIN cur |-> IF k \in Reachable THEN cur[k].sz ELSE 0])
GrowsOnlyWhenFull ==
  [][heap_cap' # heap_cap => ReachableSz + Need(req.more, req.n) > heap_cap]_vars

\* Every collection ends, cycles or not (the loop of agc_collect).
CollectionEnds == Collecting ~> phase = "run"

\* The message is popped and it is what is sent (rt_types.h, AOC_SND): a string
\* must still be in memory when it is copied (any_mbox_send, agc_string_new).
SentStringIsKept ==
  phase = "alloc" /\ req.op = "message" => req.from # "released"
=============================================================================
