--------------------------- MODULE BlockFixpoint ----------------------------
(***************************************************************************)
(* Jumps.  The facts of a block that loops, or that a goto leads into, are *)
(* a fixed point: Block::find_fixed_point visits its statements again with *)
(* what the back edges bring, until nothing is new.  A statement that does *)
(* not survive this is deleted with all that refer to it.                  *)
(*                                                                         *)
(* A function is generated: its body, Top, with pointer assignments,       *)
(* dereferences, gotos in both directions, a return, and at most one loop, *)
(* For, whose Body has break and continue as well and may have locals.     *)
(* Then the function is called, with the facts it was generated with or,   *)
(* analysed again, with others, and it is executed.  Conditions are        *)
(* variables that may have any value; effects are in EffectContext.        *)
(***************************************************************************)
EXTENDS Integers, Sequences, FiniteSets, SequencesExt

CONSTANTS
  Ptr,         \* pointers
  Target,      \* what they may point to
  Local,       \* pointers and variables of the loop body
  Null,        \* FactPointTo::null_ptr
  Garbage,     \* FactPointTo::garbage_ptr
  InitOf,      \* what a pointer local to the loop body is initialised to
  Assigns,     \* pointer assignments, as records with "to" and a pointer or a value
  Derefs,      \* pointers that are dereferenced
  Jumps,       \* kinds of jumps generated
  Entries,     \* facts at the calls of the function
  MaxNodes,    \* bound on blocks and statements
  MaxRounds    \* find_fixed_point gives up after so many

Top == 0
Body == 1
For == 2

Global == Ptr \ Local

\* something is known outside the loop, and nothing there of what is inside
ASSUME FixpointConstantsOK ==
  /\ Null # Garbage /\ {Null, Garbage} \subseteq Target \ Local
  /\ InitOf \in [Ptr \cap Local -> SUBSET Target]
  /\ Assigns \subseteq [k : {"value"}, to : Ptr, of : Target] \cup [k : {"copy"}, to : Ptr, of : Ptr]
  /\ Derefs \subseteq Ptr
  /\ Jumps \subseteq {"break", "continue", "return", "back", "forward", "around"}
  /\ Global # {} /\ Entries # {} /\ Entries \subseteq [Global -> SUBSET (Target \ Local)]
  /\ MaxNodes \in Nat /\ For <= MaxNodes /\ MaxRounds \in Nat \ {0}

VARIABLES
  mode,     \* "generate", "ready", "execute", or "aborted" by a failed assertion
  curr,     \* the block under construction
  stm,      \* statements: kind, what is assigned or dereferenced, jump destination
  seq,      \* Block::stms
  made,     \* the number of nodes
  locals,   \* the loop body has locals
  edges,    \* FactMgr::cfg_edges
  breaks,   \* Block::break_stms of the loop body
  need,     \* blocks with need_revisit
  maps,     \* FactMgr::map_facts_in, map_facts_out and map_visited
  facts,    \* FactMgr::global_facts
  pre,      \* facts before the loop
  rounds,   \* the rounds of the longest search for a fixed point
  pc,       \* the statement to execute
  env       \* what the pointers point to

program == <<stm, seq, made, locals, edges, breaks, need>>
vars == <<mode, curr, program, maps, facts, pre, rounds, pc, env>>

Blocks == {Top, Body}
Nodes == 0 .. MaxNodes
End == -1

NoFacts == [p \in {} |-> {}]
----------------------------------------------------------------------------
(* Facts *)

\* merge_facts
Merge(G) ==
  [p \in UNION {DOMAIN g : g \in G} |-> UNION {g[p] : g \in {h \in G : p \in DOMAIN h}}]

\* FactMgr::merge_jump_facts: a variable that a jump does not know is not initialised
MergeJumps(f, G) ==
  [p \in DOMAIN f |-> f[p] \cup UNION {IF p \in DOMAIN g THEN g[p] ELSE {Garbage} : g \in G}]

\* FactMgr::update_facts_for_oos_vars
Dead(S, dead) == IF S \cap dead = {} THEN S ELSE (S \ dead) \cup {Garbage}
OutOfScope(f, dead) == [p \in DOMAIN f \ dead |-> Dead(f[p], dead)]

Imply(S, T) == T \subseteq S

\* subset_facts, which compares sizes first
SubsetFacts(f, g) == DOMAIN f = DOMAIN g /\ \A p \in DOMAIN f : Imply(g[p], f[p])

\* f, and g about what f does not know
Join(f, g) == [p \in DOMAIN f \cup DOMAIN g |-> IF p \in DOMAIN f THEN f[p] ELSE g[p]]

\* FactMgr::add_new_var_fact, for the locals of the loop body if it has any
WithLocals(f, any) == Join(f, [p \in {q \in Ptr \cap Local : any} |-> InitOf[p]])

AddLocals(f) == WithLocals(f, locals)

\* FactMgr::update_facts_for_dest, for a destination in Top: every loop body is
\* marked in_array_loop, and no goto leads into one
ForDest(f) == OutOfScope(f, Local)

Transfer(s, f) ==
  CASE stm[s].k = "value" -> [f EXCEPT ![stm[s].to] = {stm[s].of}]
    [] stm[s].k = "copy"  -> [f EXCEPT ![stm[s].to] = f[stm[s].of]]
    [] OTHER -> f

Valid(s, f) ==
  stm[s].k = "deref" => f[stm[s].of] # {} /\ f[stm[s].of] \cap {Null, Garbage} = {}

\* FactMgr::set_fact_out
FactOut(s, f) ==
  CASE stm[s].k \in {"break", "continue", "return"} -> OutOfScope(f, Local)
    [] stm[s].k = "goto" -> ForDest(f)
    [] OTHER -> f

Save(m, s, f, g) == [m EXCEPT !.in[s] = f, !.out[s] = FactOut(s, g), !.vis[s] = TRUE]
----------------------------------------------------------------------------
(* The flow graph.  P: the sequences, the edges, the breaks. *)

Contents(P, s) ==
  CASE s = Top  -> Nodes
    [] s \in {For, Body} -> {s, Body} \cup Range(P.seq[Body])
    [] OTHER -> {s}

EdgesIn(P, s, post, back) == {e \in P.edges : e.dest = s /\ e.post = post /\ e.back = back}

IsGoto(s) == stm[s].k = "goto"
IsCtrl(s) == stm[s].k \in {"goto", "break", "continue"}

MustReturn(P, b) ==
  /\ P.seq[b] # <<>> /\ stm[Last(P.seq[b])].k = "return"
  /\ \A e \in EdgesIn(P, b, FALSE, TRUE) : e.src = b

\* Block::must_return also asks for no break
BodyMustReturn(P) == P.breaks = {} /\ MustReturn(P, Body)

FromTailToHead(P, b) ==
  b = Body /\ P.seq[b] # <<>> /\ stm[Last(P.seq[b])].k # "return"

\* mutant: forgets that a loop body follows itself
NoSelfEdge(P, b) == P

WithSelfEdge(P, b) ==
  IF FromTailToHead(P, b)
  THEN [P EXCEPT !.edges = @ \cup {[src |-> b, dest |-> b, post |-> FALSE, back |-> TRUE]}]
  ELSE P

\* Block::remove_stmt takes the gotos that lead to s with it, and the gotos to those
Doomed(P, X) ==
  {n \in Nodes : \A Y \in SUBSET Nodes :
     /\ X \subseteq Y
     /\ \A e \in P.edges : e.dest \in Y /\ IsGoto(e.src) => e.src \in Y
     => n \in Y}

\* a sequence without the statements of X
Without(t, X) ==
  LET rest[i \in 0 .. Len(t)] ==
        IF i = 0 THEN <<>>
        ELSE IF t[i] \in X THEN rest[i - 1] ELSE Append(rest[i - 1], t[i])
  IN  rest[Len(t)]

RemoveAll(P, X) ==
  [seq    |-> [b \in Blocks |-> Without(P.seq[b], X)],
   edges  |-> {e \in P.edges : e.src \notin X /\ e.dest \notin X},
   breaks |-> P.breaks \ X]

\* mutant: leaves the gotos to what is deleted
RemoveStmtOnly(P, s) == RemoveAll(P, Contents(P, s))

RemoveStmt(P, s) == RemoveAll(P, Doomed(P, Contents(P, s)))

\* the statements of b from the i-th on, as long as there are any
RemoveNth(P, b, i) == IF i > Len(P.seq[b]) THEN P ELSE RemoveStmt(P, P.seq[b][i])

RemoveFrom(P, b, i) ==
  LET left[n \in 0 .. Len(P.seq[b])] == IF n = 0 THEN P ELSE RemoveNth(left[n - 1], b, i)
  IN  left[Len(P.seq[b])]

\* FactMgr::reset_stm_fact_maps
ResetMaps(m, P, b) ==
  LET in == {b} \cup UNION {Contents(P, s) : s \in Range(P.seq[b])}
  IN  [m EXCEPT !.in = [n \in Nodes |-> IF n \in in THEN NoFacts ELSE @[n]],
                !.out = [n \in Nodes |-> IF n \in in THEN NoFacts ELSE @[n]]]
----------------------------------------------------------------------------
(* The analysis.  m: the maps; f: the facts before.  The result has the    *)
(* maps, the facts after, whether it succeeded, and the most rounds any    *)
(* search took.                                                            *)

\* the facts at the destination of a goto do not have all that it brings
NotCovered(m, e) ==
  \/ m.out[e.src] # NoFacts /\ m.in[e.dest] = NoFacts
  \/ \E p \in DOMAIN m.in[e.dest] \cap DOMAIN m.out[e.src] :
       ~Imply(m.in[e.dest][p], m.out[e.src][p])

\* mutant: forgets the gotos in s that have not been visited
UnfixedVisited(m, P, s) ==
  \E e \in P.edges :
    IsGoto(e.src) /\ m.vis[e.src] /\ e.dest \in Contents(P, s) /\ NotCovered(m, e)

UnfixedGoto(m, P, s) ==
  \E e \in P.edges :
    /\ IsGoto(e.src)
    /\ \/ e.src \in Contents(P, s) /\ ~m.vis[e.src] /\ e.dest \notin Contents(P, s)
       \/ m.vis[e.src] /\ e.dest \in Contents(P, s) /\ NotCovered(m, e)

\* mutant: compares with the facts after
ShortcutOnOutput(m, P, s, f) == f = m.out[s] /\ ~IsCtrl(s) /\ ~UnfixedGoto(m, P, s)

Shortcut(m, P, s, f) == f = m.in[s] /\ ~IsCtrl(s) /\ ~UnfixedGoto(m, P, s)

MarkGotos(m, P, s) ==
  [m EXCEPT !.vis = [n \in Nodes |->
     @[n] \/ (n \in Contents(P, s) /\ \E e \in P.edges : e.src = n /\ IsGoto(n))]]

FlowIn(m, es, f) == MergeJumps(f, {m.out[e.src] : e \in {e \in es : m.vis[e.src]}})

\* StatementGoto::visit_facts: less comes this time than the last
Shrinks(m, s, f) ==
  /\ ~m.vis[s] /\ ~m.vis[stm[s].to]
  /\ f # m.out[s] /\ SubsetFacts(f, m.out[s])

MaxOf(i, j) == IF i < j THEN j ELSE i

\* Statement::stm_visit_facts, for all but loops
VisitSimple(m, s, f) ==
  LET d == stm[s].to
      m1 == IF IsGoto(s) /\ Shrinks(m, s, f)
            THEN [m EXCEPT !.in[d] = NoFacts, !.out[d] = NoFacts] ELSE m
  IN  [ok |-> Valid(s, f), maps |-> [m1 EXCEPT !.vis[s] = TRUE],
       facts |-> IF Valid(s, f) THEN Transfer(s, f) ELSE f, rounds |-> 0]

\* StatementFor::visit_facts, after the fixed point r of the body
LeaveLoop(P, f, r) ==
  LET g == IF BodyMustReturn(P) THEN f ELSE r.maps.in[Body]
      out == MergeJumps(g, {r.maps.out[e.src] : e \in EdgesIn(P, For, TRUE, FALSE)})
  IN  [ok |-> r.ok, maps |-> [r.maps EXCEPT !.vis = [n \in Nodes |-> @[n] \/ n = For \/ (n = Body /\ r.ok)]],
       facts |-> out, rounds |-> r.rounds]

\* Statement::validate_and_update_facts, after the visit
Record(s, f, r) == IF r.ok THEN [r EXCEPT !.maps = Save(r.maps, s, f, r.facts)] ELSE r

\* the facts that come in over the edges of Statement::analyze_with_edges_in
StatementIn(m, P, s, f) ==
  LET back == IF m.vis[s] THEN FlowIn(m, EdgesIn(P, s, FALSE, TRUE), f) ELSE f
  IN  FlowIn(m, EdgesIn(P, s, FALSE, FALSE), back)

\* the facts that come in over the back edges of a block
BlockIn(m, P, b, f) ==
  IF m.vis[b] THEN Merge({f} \cup {m.out[e.src] : e \in EdgesIn(P, b, FALSE, TRUE)}) ELSE f

(* Block::find_fixed_point.  A search x has the maps, the facts before the *)
(* block, whether the statements must be visited once, the iterations, and *)
(* for the last of them whether and how many statements passed and the     *)
(* facts at its end, in the scope of the block.                            *)

Enter(P, b, x) ==
  [x EXCEPT !.in = BlockIn(x.maps, P, b, @), !.cnt = IF x.maps.vis[b] THEN @ + 1 ELSE @]

Start(m, P, b, f, once) ==
  Enter(P, b, [maps |-> m, in |-> f, once |-> once, cnt |-> 0,
               ok |-> TRUE, passed |-> 0, post |-> NoFacts, rounds |-> 0])

GaveUp(x) == x.cnt > MaxRounds

Ended(P, b, x) == ~x.ok \/ GaveUp(x) \/ (~x.once /\ Shortcut(x.maps, P, b, x.in))

\* after a walk w through the statements
Again(P, b, x, w) ==
  LET m == [w.maps EXCEPT !.in[b] = x.in, !.vis[b] = TRUE,
                          !.out[b] = OutOfScope(w.facts, IF b = Body THEN Local ELSE {})]
      y == [x EXCEPT !.rounds = MaxOf(@, w.rounds)]
  IN  IF w.ok THEN Enter(P, b, [y EXCEPT !.maps = m, !.once = FALSE, !.post = w.facts])
      ELSE [y EXCEPT !.maps = w.maps, !.ok = FALSE, !.passed = w.passed]

Result(x) == [x EXCEPT !.rounds = MaxOf(@, x.cnt)]

\* a walk before its first statement, and after the analysis r of the next one
Walk0(m, f) == [ok |-> TRUE, maps |-> m, facts |-> f, rounds |-> 0, passed |-> 0]

NextStm(w, r) ==
  [ok |-> r.ok, maps |-> r.maps, facts |-> r.facts, rounds |-> MaxOf(w.rounds, r.rounds),
   passed |-> IF r.ok THEN w.passed + 1 ELSE w.passed]

\* Statement::validate_and_update_facts, where v is what the visit of s gives
Analysed(m, P, s, f, v) ==
  IF Shortcut(m, P, s, f)
  THEN [ok |-> TRUE, maps |-> MarkGotos(m, P, s), facts |-> m.out[s], rounds |-> 0]
  ELSE Record(s, f, v)

\* the loop body has simple statements only
VisitInBody(P, s, w) ==
  LET f == StatementIn(w.maps, P, s, w.facts)
  IN  IF w.ok THEN NextStm(w, Analysed(w.maps, P, s, f, VisitSimple(w.maps, s, f))) ELSE w

WalkBody(m, P, f) ==
  LET w[i \in 0 .. Len(P.seq[Body])] ==
        IF i = 0 THEN Walk0(m, f) ELSE VisitInBody(P, P.seq[Body][i], w[i - 1])
  IN  w[Len(P.seq[Body])]

BodyRound(P, x) ==
  IF Ended(P, Body, x) THEN x ELSE Again(P, Body, x, WalkBody(x.maps, P, AddLocals(x.in)))

FixedPointBody(m, P, f, once) ==
  LET x[n \in 0 .. MaxRounds + 1] ==
        IF n = 0 THEN Start(m, P, Body, f, once) ELSE BodyRound(P, x[n - 1])
  IN  Result(x[MaxRounds + 1])

\* Statement::stm_visit_facts
VisitStm(m, P, s, f) ==
  IF s = For THEN LeaveLoop(P, f, FixedPointBody(m, P, f, FALSE)) ELSE VisitSimple(m, s, f)

VisitInTop(P, s, w) ==
  LET f == StatementIn(w.maps, P, s, w.facts)
  IN  IF w.ok THEN NextStm(w, Analysed(w.maps, P, s, f, VisitStm(w.maps, P, s, f))) ELSE w

WalkTop(m, P, f) ==
  LET w[i \in 0 .. Len(P.seq[Top])] ==
        IF i = 0 THEN Walk0(m, f) ELSE VisitInTop(P, P.seq[Top][i], w[i - 1])
  IN  w[Len(P.seq[Top])]

TopRound(P, x) ==
  IF Ended(P, Top, x) THEN x ELSE Again(P, Top, x, WalkTop(x.maps, P, x.in))

FixedPointTop(m, P, f, once) ==
  LET x[n \in 0 .. MaxRounds + 1] ==
        IF n = 0 THEN Start(m, P, Top, f, once) ELSE TopRound(P, x[n - 1])
  IN  Result(x[MaxRounds + 1])

FixedPoint(m, P, b, f, once) ==
  IF b = Body THEN FixedPointBody(m, P, f, once) ELSE FixedPointTop(m, P, f, once)
----------------------------------------------------------------------------
(* Generation *)

P0 == [seq |-> seq, edges |-> edges, breaks |-> breaks]

Edge(s, d, post, back) == [src |-> s, dest |-> d, post |-> post, back |-> back]

Position(t, s) == CHOOSE i \in DOMAIN t : t[i] = s

\* the assertion of find_fixed_point fails when a search gives up
Outcome(next, r) == IF r.rounds > MaxRounds THEN "aborted" ELSE next

NoStm == [k |-> "none", to |-> 0, of |-> 0]

Init ==
  /\ mode = "generate" /\ curr = Top /\ made = For
  /\ stm = [n \in Nodes |-> IF n = For THEN [NoStm EXCEPT !.k = "for"] ELSE NoStm]
  /\ seq = [b \in Blocks |-> <<>>]
  /\ locals = FALSE /\ edges = {} /\ breaks = {} /\ need = {}
  /\ facts \in Entries /\ pre = facts
  /\ maps = [in |-> [n \in Nodes |-> IF n = Top THEN facts ELSE NoFacts],
             out |-> [n \in Nodes |-> NoFacts], vis |-> [n \in Nodes |-> FALSE]]
  /\ rounds = 0 /\ pc = End /\ env = NoFacts

Closed(b) == seq[b] # <<>> /\ stm[Last(seq[b])].k = "return"

Adding == mode = "generate" /\ made < MaxNodes /\ ~Closed(curr)

\* Statement::post_creation_analysis
Add(st) ==
  LET n == made + 1
  IN  /\ stm' = [stm EXCEPT ![n] = st] /\ made' = n
      /\ seq' = [seq EXCEPT ![curr] = Append(@, n)]
      /\ maps' = LET g == CASE st.k = "value" -> [facts EXCEPT ![st.to] = {st.of}]
                             [] st.k = "copy" -> [facts EXCEPT ![st.to] = facts[st.of]]
                             [] OTHER -> facts
                     g1 == IF st.k \in {"break", "continue", "return", "goto"}
                           THEN OutOfScope(g, Local) ELSE g
                 IN  [maps EXCEPT !.in[n] = facts, !.out[n] = g1, !.vis[n] = TRUE]
      /\ UNCHANGED <<mode, curr, locals, pre, rounds, pc, env>>

InScope(v) == v \in Local => curr = Body /\ locals

MakeAssign(st) ==
  /\ Adding /\ InScope(st.to) /\ InScope(st.of)
  /\ Add(st)
  /\ facts' = [facts EXCEPT ![st.to] = IF st.k = "value" THEN {st.of} ELSE facts[st.of]]
  /\ UNCHANGED <<edges, breaks, need>>

MakeDeref(p) ==
  /\ Adding /\ InScope(p)
  /\ facts[p] # {} /\ facts[p] \cap {Null, Garbage} = {}
  /\ Add([k |-> "deref", of |-> p, to |-> 0])
  /\ UNCHANGED <<facts, edges, breaks, need>>

MakeReturn ==
  /\ Adding /\ "return" \in Jumps
  /\ Add([NoStm EXCEPT !.k = "return"])
  /\ UNCHANGED <<facts, edges, breaks, need>>

MakeBreak ==
  /\ Adding /\ "break" \in Jumps /\ curr = Body
  /\ Add([NoStm EXCEPT !.k = "break"])
  /\ breaks' = breaks \cup {made + 1}
  /\ UNCHANGED <<facts, edges, need>>

MakeContinue ==
  /\ Adding /\ "continue" \in Jumps /\ curr = Body /\ seq[Body] # <<>>
  /\ Add([NoStm EXCEPT !.k = "continue"])
  /\ edges' = edges \cup {Edge(made + 1, Body, FALSE, TRUE)}
  /\ UNCHANGED <<facts, breaks, need>>

\* mutant: marks the target and not the block around it
MakeGotoBackMarksTarget(d) ==
  /\ Adding /\ "back" \in Jumps
  /\ d \in Range(seq[Top]) /\ stm[d].k # "return"
  /\ seq[curr] # <<>> => d # Last(seq[curr])
  /\ Add([NoStm EXCEPT !.k = "goto", !.to = d])
  /\ edges' = edges \cup {Edge(made + 1, d, FALSE, TRUE)}
  /\ need' = need \cup {d}
  /\ UNCHANGED <<facts, breaks>>

\* StatementGoto::make_random, back to a statement that is not the last
MakeGotoBack(d) ==
  /\ Adding /\ "back" \in Jumps
  /\ d \in Range(seq[Top]) /\ stm[d].k # "return"
  /\ seq[curr] # <<>> => d # Last(seq[curr])
  /\ Add([NoStm EXCEPT !.k = "goto", !.to = d])
  /\ edges' = edges \cup {Edge(made + 1, d, FALSE, TRUE)}
  /\ need' = need \cup {Top}
  /\ UNCHANGED <<facts, breaks>>

\* StatementGoto::make_random, from behind an earlier statement to the last one,
\* which is analysed again if the jump brings something new
MakeGotoForward(other) ==
  /\ Adding /\ "forward" \in Jumps
  /\ curr = Top /\ seq[Top] # <<>>
  /\ other \in Range(seq[Top]) \cup Range(seq[Body])
  /\ other \in Contents(P0, Last(seq[Top])) => "around" \in Jumps
  /\ LET s == Last(seq[Top])
         n == made + 1
         b == IF other \in Range(seq[Body]) THEN Body ELSE Top
         before == IF IsCtrl(other) THEN maps.in[other] ELSE maps.out[other]
         merged == MergeJumps(maps.in[s], {ForDest(before)})
         new == merged # maps.in[s]
     IN  /\ other # s /\ stm[other].k # "return"
         /\ \E r \in {VisitStm(maps, P0, s, merged)} :
            LET after == IF IsCtrl(other) THEN r.maps.in[other] ELSE r.maps.out[other]
                jump == IF new /\ other \in Contents(P0, s)
                        THEN Merge({ForDest(before), ForDest(after)}) ELSE ForDest(before)
                m == IF new THEN [r.maps EXCEPT !.in[s] = merged, !.out[s] = FactOut(s, r.facts)]
                     ELSE maps
            IN  /\ new => r.ok
                /\ mode' = IF new THEN Outcome(mode, r) ELSE mode
                /\ maps' = [m EXCEPT !.in[n] = IF new THEN after ELSE before,
                                     !.out[n] = jump, !.vis[n] = TRUE]
                /\ facts' = IF IsCtrl(s) THEN maps'.in[s] ELSE maps'.out[s]
                /\ rounds' = MaxOf(rounds, r.rounds)
         /\ seq' = [seq EXCEPT ![b] = InsertAt(@, Position(@, other) + 1, n)]
         /\ stm' = [stm EXCEPT ![n] = [NoStm EXCEPT !.k = "goto", !.to = s]]
         /\ made' = n
         /\ edges' = edges \cup {Edge(n, s, FALSE, FALSE)}
  /\ UNCHANGED <<curr, locals, breaks, need, pre, pc, env>>

OpenFor(loc) ==
  /\ Adding /\ curr = Top /\ For \notin Range(seq[Top]) /\ ~maps.vis[For]
  /\ curr' = Body /\ locals' = loc /\ pre' = facts
  /\ maps' = [maps EXCEPT !.in[Body] = facts]
  /\ facts' = WithLocals(facts, loc)
  /\ UNCHANGED <<mode, stm, seq, made, edges, breaks, need, rounds, pc, env>>

\* Block::post_creation_analysis: the fixed point, and deletion until there is one
Retry(b, in, y) ==
  LET P1 == WithSelfEdge(RemoveFrom(y.P, b, y.r.passed + 1), b)
      r == FixedPoint(ResetMaps(y.r.maps, P1, b), P1, b, in, TRUE)
  IN  IF y.r.ok THEN y ELSE [P |-> P1, r |-> r, rounds |-> MaxOf(y.rounds, r.rounds)]

Settle(m, P, b, in, once) ==
  LET r == FixedPoint(m, P, b, in, once)
      y[n \in 0 .. Len(P.seq[b])] ==
        IF n = 0 THEN [P |-> P, r |-> r, rounds |-> r.rounds] ELSE Retry(b, in, y[n - 1])
  IN  y[Len(P.seq[b])]

\* what the analysis of a block leaves, with y from Settle
Complete(y) ==
  [maps |-> y.r.maps, P |-> y.P, rounds |-> y.rounds,
   post |-> IF y.r.post = NoFacts THEN facts ELSE y.r.post]

Finished(b) ==
  LET m == [maps EXCEPT !.vis[b] = TRUE,
                        !.out[b] = OutOfScope(facts, IF b = Body THEN Local ELSE {})]
      loops == b = Body /\ ~MustReturn(P0, Body)
      P == IF loops THEN WithSelfEdge(P0, b) ELSE P0
  IN  IF loops \/ b \in need \/ EdgesIn(P0, b, FALSE, TRUE) # {}
      THEN Complete(Settle(m, P, b, m.in[b], b \in need))
      ELSE [maps |-> m, P |-> P0, rounds |-> 0, post |-> facts]

\* the body of the loop is complete, then the loop: StatementFor::post_loop_analysis
CloseFor ==
  /\ mode = "generate" /\ curr = Body
  /\ \E r \in {Finished(Body)} :
     LET g == IF BodyMustReturn(r.P) THEN pre ELSE r.maps.in[Body]
         out == MergeJumps(g, {r.maps.out[s] : s \in r.P.breaks})
     IN  /\ seq' = [r.P.seq EXCEPT ![Top] = Append(@, For)]
         /\ edges' = r.P.edges \cup {Edge(s, For, TRUE, FALSE) : s \in r.P.breaks}
         /\ breaks' = r.P.breaks
         /\ maps' = [r.maps EXCEPT !.in[For] = pre, !.out[For] = out, !.vis[For] = TRUE]
         /\ facts' = out
         /\ rounds' = MaxOf(rounds, r.rounds)
         /\ mode' = Outcome(mode, r)
  /\ curr' = Top
  /\ UNCHANGED <<stm, made, locals, need, pre, pc, env>>

\* the function is complete; it returns
CloseFunction ==
  /\ mode = "generate" /\ curr = Top
  /\ \E r \in {Finished(Top)} :
       /\ seq' = r.P.seq /\ edges' = r.P.edges /\ breaks' = r.P.breaks
       /\ maps' = r.maps
       /\ facts' = r.post
       /\ rounds' = MaxOf(rounds, r.rounds)
       /\ mode' = Outcome("ready", r)
  /\ UNCHANGED <<curr, stm, made, locals, need, pre, pc, env>>
----------------------------------------------------------------------------
(* Calls *)

After(s) ==
  LET b == IF s \in Range(seq[Body]) THEN Body ELSE Top
      i == Position(seq[b], s)
  IN  IF i < Len(seq[b]) THEN seq[b][i + 1] ELSE IF b = Body THEN Body ELSE End

First(b) == IF seq[b] = <<>> THEN End ELSE seq[b][1]

Begin ==
  /\ pc' = First(Top)
  /\ env' \in {e \in [DOMAIN maps'.in[Top] -> UNION Range(maps'.in[Top])] :
                \A p \in DOMAIN e : e[p] \in maps'.in[Top][p]}

\* the call that the function was generated for
FirstCall ==
  /\ mode = "ready"
  /\ mode' = "execute" /\ maps' = maps
  /\ Begin
  /\ UNCHANGED <<curr, program, facts, pre, rounds>>

\* FunctionInvocationUser::revisit, accepted
Call(f) ==
  /\ mode = "ready"
  /\ \E r \in {FixedPoint([maps EXCEPT !.vis = [n \in Nodes |-> FALSE]], P0, Top, f, FALSE)} :
       /\ r.ok \/ r.rounds > MaxRounds
       /\ mode' = Outcome("execute", r)
       /\ maps' = r.maps
       /\ rounds' = MaxOf(rounds, r.rounds)
  /\ Begin
  /\ UNCHANGED <<curr, program, facts, pre>>
----------------------------------------------------------------------------
(* Execution *)

Running(kinds) == mode = "execute" /\ pc # End /\ pc # Body /\ stm[pc].k \in kinds

LeaveScope(e) ==
  [p \in DOMAIN e \ Local |-> IF e[p] \in Local THEN Garbage ELSE e[p]]

Goto(n, e) ==
  /\ pc' = n
  /\ env' = IF n \notin Range(seq[Body]) THEN LeaveScope(e) ELSE e
  /\ UNCHANGED <<mode, curr, program, maps, facts, pre, rounds>>

RunAssign ==
  /\ Running({"value", "copy", "deref"})
  /\ Goto(After(pc),
          CASE stm[pc].k = "value" -> [env EXCEPT ![stm[pc].to] = stm[pc].of]
            [] stm[pc].k = "copy" -> [env EXCEPT ![stm[pc].to] = env[stm[pc].of]]
            [] OTHER -> env)

\* a condition is true or false
RunJump ==
  /\ Running({"break", "continue", "goto"})
  /\ \/ Goto(After(pc), env)
     \/ stm[pc].k = "goto" /\ Goto(stm[pc].to, env)
     \/ stm[pc].k = "continue" /\ Goto(Body, env)
     \/ stm[pc].k = "break" /\ Goto(After(For), env)

RunReturn == Running({"return"}) /\ Goto(End, env)

\* the test of the loop, before the first and after every iteration
Iterate ==
  \/ Goto(After(For), env)
  \/ /\ seq[Body] # <<>>
     /\ \E e \in [{q \in Ptr \cap Local : locals} -> UNION Range(InitOf)] :
          /\ \A p \in DOMAIN e : e[p] \in InitOf[p]
          /\ Goto(First(Body), Join(LeaveScope(env), e))

RunLoop == (Running({"for"}) \/ (mode = "execute" /\ pc = Body)) /\ Iterate

Next ==
  \/ \E st \in Assigns : MakeAssign(st)
  \/ \E p \in Derefs : MakeDeref(p)
  \/ MakeReturn \/ MakeBreak \/ MakeContinue
  \/ \E n \in Nodes : MakeGotoBack(n) \/ MakeGotoForward(n)
  \/ \E loc \in BOOLEAN : OpenFor(loc)
  \/ CloseFor \/ CloseFunction
  \/ FirstCall \/ \E f \in Entries : Call(f)
  \/ RunAssign \/ RunJump \/ RunReturn \/ RunLoop

Spec == Init /\ [][Next]_vars
----------------------------------------------------------------------------
(* Properties *)

Statement == [k : {"none", "for", "value", "copy", "deref", "goto", "break", "continue", "return"},
              to : Nodes \cup Ptr, of : Target \cup Ptr \cup {0}]

\* facts about some of the pointers
Facts == UNION {[D -> SUBSET Target] : D \in SUBSET Ptr}

Maps == [in : [Nodes -> Facts], out : [Nodes -> Facts], vis : [Nodes -> BOOLEAN]]

TypeOK ==
  /\ mode \in {"generate", "ready", "execute", "aborted"} /\ curr \in Blocks
  /\ stm \in [Nodes -> Statement] /\ made \in For .. MaxNodes
  /\ seq \in [Blocks -> Seq(Nodes)] /\ locals \in BOOLEAN
  /\ edges \subseteq [src : Nodes, dest : Nodes, post : BOOLEAN, back : BOOLEAN]
  /\ breaks \subseteq Nodes /\ need \subseteq Blocks
  /\ maps \in Maps /\ facts \in Facts /\ pre \in Facts /\ rounds \in Nat
  /\ pc \in Nodes \cup {End} /\ DOMAIN env \subseteq Ptr /\ Range(env) \subseteq Target

\* No edge, no break and no jump of a statement that is left leads to or from
\* one that was deleted.
GraphWellFormed ==
  LET left == Blocks \cup Range(seq[Top]) \cup Range(seq[Body])
  IN  mode \in {"ready", "execute"} =>
        /\ \A e \in edges : e.src \in left /\ e.dest \in left
        /\ breaks \subseteq Range(seq[Body])
        /\ \A n \in left : IsGoto(n) => stm[n].to \in left /\
                                   \E e \in edges : e.src = n /\ e.dest = stm[n].to

\* Whenever a statement is executed its input facts describe the pointers.
FactsCoverExecution ==
  mode = "execute" /\ pc \notin {End, Body} =>
    \A p \in DOMAIN env : p \in DOMAIN maps.in[pc] /\ env[p] \in maps.in[pc][p]

\* No pointer is dereferenced that is null or dangling.
NoBadDereference ==
  mode = "execute" /\ pc \notin {End, Body} /\ stm[pc].k = "deref" =>
    env[stm[pc].of] \notin {Null, Garbage}

\* Facts move on by one copy or one jump in a round: the search for a fixed point
\* is over after as many rounds as there are of these, one to enter, one to leave and
\* one after a deletion.  Block::find_fixed_point gives up in the ninth.
FixedPointFound ==
  rounds <= Cardinality({n \in Nodes : stm[n].k \in {"copy", "goto"}}) + 3
=============================================================================
