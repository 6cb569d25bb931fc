---------------------- MODULE BlockFixpointInvariant -----------------------
(***************************************************************************)
(* The invariant of BlockFixpoint, IInv, and what its proof says of the    *)
(* parts of an analysis.                                                   *)
(***************************************************************************)
EXTENDS BlockFixpoint
----------------------------------------------------------------------------
(* The program and its flow graph *)

Edges == [src : Nodes, dest : Nodes, post : BOOLEAN, back : BOOLEAN]

Program == [seq : [Blocks -> Seq(Nodes)], edges : SUBSET Edges, breaks : SUBSET Nodes]

Scope(b) == IF b = Body THEN Global \cup {p \in Ptr \cap Local : locals} ELSE Global
Reach(b) == IF b = Body THEN Target ELSE Target \ Local

\* what a statement of b refers to is in scope
StmOK(n, b) ==
  /\ n \in For .. made
  /\ stm[n].k \in {"for", "value", "copy", "deref", "goto", "break", "continue", "return"}
  /\ stm[n].k = "value" => stm[n].to \in Scope(b) /\ stm[n].of \in Reach(b)
  /\ stm[n].k = "copy" => stm[n].to \in Scope(b) /\ stm[n].of \in Scope(b)
  /\ stm[n].k = "deref" => stm[n].of \in Scope(b)
  /\ stm[n].k \in {"break", "continue"} => b = Body
  /\ n = For <=> stm[n].k = "for"
  /\ n = For => b = Top

\* each once, and a return is the last
SeqOK(t, b) ==
  /\ \A i \in 1 .. Len(t) : StmOK(t[i], b)
  /\ \A i, j \in 1 .. Len(t) : i < j => t[i] # t[j] /\ stm[t[i]].k # "return"

Placed(P) == Range(P.seq[Top]) \cup Range(P.seq[Body])

EdgeOK(P, e) ==
  \/ /\ e.src \in Placed(P) /\ IsGoto(e.src)
     /\ e.dest = stm[e.src].to /\ e.dest \in Range(P.seq[Top]) /\ ~e.post
  \/ /\ e.src \in Range(P.seq[Body]) /\ stm[e.src].k = "continue"
     /\ e.dest = Body /\ ~e.post /\ e.back
  \/ e.src = Body /\ e.dest = Body /\ ~e.post /\ e.back
  \/ e.src \in P.breaks /\ e.dest = For /\ For \in Range(P.seq[Top]) /\ e.post /\ ~e.back

JumpOK(P, n) ==
  /\ IsGoto(n) => /\ stm[n].to \in Range(P.seq[Top])
                  /\ \E e \in P.edges : e.src = n /\ e.dest = stm[n].to /\ ~e.post
  /\ stm[n].k = "continue" => Edge(n, Body, FALSE, TRUE) \in P.edges
  /\ stm[n].k = "break" =>
       n \in P.breaks /\ (For \in Range(P.seq[Top]) => Edge(n, For, TRUE, FALSE) \in P.edges)

WellFormed(P) ==
  /\ P \in Program
  /\ \A b \in Blocks : SeqOK(P.seq[b], b)
  /\ Range(P.seq[Top]) \cap Range(P.seq[Body]) = {}
  /\ \A e \in P.edges : EdgeOK(P, e)
  /\ \A n \in Placed(P) : JumpOK(P, n)
  /\ \A n \in P.breaks : n \in Range(P.seq[Body]) /\ stm[n].k = "break"

\* a loop body follows itself
Follows(P) == FromTailToHead(P, Body) => Edge(Body, Body, FALSE, TRUE) \in P.edges

\* P1 is what is left of P
Left(P1, P) ==
  /\ \A b \in Blocks : Range(P1.seq[b]) \subseteq Range(P.seq[b]) /\ Len(P1.seq[b]) <= Len(P.seq[b])
  /\ P1.breaks \subseteq P.breaks

\* the blocks and the loop are what they are
Fixed == stm[Top].k = "none" /\ stm[Body].k = "none" /\ stm[For].k = "for"

\* Deletion in the loop body does not touch the rest of the function.
Beside(Q, P) ==
  /\ Q.seq[Top] = P.seq[Top]
  /\ \A e \in P.edges : e.src \notin Range(P.seq[Body]) => e \in Q.edges
  /\ \A e \in Q.edges : e \in P.edges \/ e = Edge(Body, Body, FALSE, TRUE)

\* the conditions for the statements of b to be deleted
Deletable(P, b) == IF b = Top THEN Follows(P) ELSE For \notin Range(P.seq[Top])

\* The program is well formed; a loop body that is complete follows itself; nothing
\* of the loop is there before it is opened.
Structure ==
  /\ mode \in {"generate", "ready", "execute", "aborted"} /\ curr \in Blocks
  /\ stm \in [Nodes -> Statement] /\ made \in For .. MaxNodes /\ locals \in BOOLEAN
  /\ need \subseteq {Top}
  /\ Fixed /\ WellFormed(P0)
  /\ IF curr = Body THEN For \notin Range(seq[Top]) /\ ~Closed(Top) ELSE Follows(P0)
  /\ mode = "generate" /\ curr = Top /\ For \notin Range(seq[Top]) => seq[Body] = <<>> /\ ~locals
  /\ "around" \notin Jumps => \A n \in Range(seq[Body]) : IsGoto(n) => stm[n].to # For

\* u is t with n behind its k-th statement
Inserted(u, t, k, n) ==
  /\ u \in Seq(Nodes) /\ Len(u) = Len(t) + 1 /\ u[k + 1] = n /\ k + 1 \in 1 .. Len(u)
  /\ \A i \in 1 .. k : u[i] = t[i] /\ i \in 1 .. Len(u)
  /\ \A i \in k + 1 .. Len(t) : u[i + 1] = t[i] /\ i + 1 \in 1 .. Len(u)
  /\ Range(u) = Range(t) \cup {n}
  /\ Last(u) = IF k = Len(t) THEN n ELSE Last(t)
----------------------------------------------------------------------------
(* Facts and maps in scope *)

FactsOf(b) == [Scope(b) -> SUBSET Reach(b)]

Known(b) == FactsOf(b) \cup {NoFacts}

IsJump(s) == stm[s].k \in {"break", "continue", "return", "goto"}

OutBlock(s, b) == IF IsJump(s) THEN Top ELSE b

TypedAt(m, s, b) ==
  /\ m.in[s] \in Known(b) /\ m.out[s] \in Known(OutBlock(s, b))
  /\ m.in[s] # NoFacts /\ ~IsCtrl(s) => m.out[s] # NoFacts

TypedMaps(m, P) ==
  /\ m \in Maps
  /\ \A b \in Blocks : m.in[b] \in Known(Top) /\ m.out[b] \in Known(Top)
  /\ \A b \in Blocks : \A s \in Range(P.seq[b]) : TypedAt(m, s, b)

\* f is part of g
Below(f, g) == DOMAIN f = DOMAIN g /\ \A p \in DOMAIN f : f[p] \subseteq g[p]
----------------------------------------------------------------------------
(* What analyses, searches and deletion do to the maps *)

\* what is visited stays visited, and outside X the maps are as they were, but for
\* statements that a goto resets, which are not visited
Tame(m, m1, X) ==
  \A n \in Nodes :
    /\ m.vis[n] => m1.vis[n]
    /\ n \notin X => \/ m1.in[n] = m.in[n] /\ m1.out[n] = m.out[n]
                     \/ m1.in[n] = NoFacts /\ m1.out[n] = NoFacts /\ n \notin Blocks /\ ~m.vis[n]

\* m1 is m with the facts f before s and g after it
Saved(m, s, f, g, m1) ==
  /\ m1 \in Maps
  /\ m1.in = [m.in EXCEPT ![s] = f] /\ m1.out = [m.out EXCEPT ![s] = g]
  /\ m1.vis = [m.vis EXCEPT ![s] = TRUE]
  /\ m1.in[s] = f /\ m1.out[s] = g /\ m1.vis[s] = TRUE
  /\ \A n \in Nodes : n # s => m1.in[n] = m.in[n] /\ m1.out[n] = m.out[n] /\ m1.vis[n] = m.vis[n]

\* m1 is m with the gotos in s visited
Marked(m, P, s, m1) ==
  /\ m1 \in Maps /\ m1.in = m.in /\ m1.out = m.out
  /\ \A n \in Nodes : m1.vis[n] = (m.vis[n] \/ (n \in Contents(P, s) /\ \E e \in P.edges : e.src = n /\ IsGoto(n)))

\* What an analysis of a simple statement does.
SimpleDone(m, P, s, f, r) ==
  \/ /\ r.ok = TRUE /\ f = m.in[s] /\ ~IsCtrl(s) /\ ~UnfixedGoto(m, P, s)
     /\ r.facts = m.out[s] /\ r.maps = MarkGotos(m, P, s)
  \/ /\ r.ok = TRUE /\ Valid(s, f) /\ r.facts = Transfer(s, f)
     /\ r.maps.in[s] = f /\ r.maps.out[s] = FactOut(s, Transfer(s, f))
  \/ r.ok = FALSE

SimpleFrame(m, P, s, f, r) ==
  \/ r.maps = MarkGotos(m, P, s)
  \/ /\ r.maps.vis = [m.vis EXCEPT ![s] = TRUE]
     /\ \A n \in Nodes \ {s} :
          \/ r.maps.in[n] = m.in[n] /\ r.maps.out[n] = m.out[n]
          \/ /\ r.maps.in[n] = NoFacts /\ r.maps.out[n] = NoFacts
             /\ IsGoto(s) /\ Shrinks(m, s, f) /\ n = stm[s].to

\* what an analysis r of s, in b, leaves is typed, and only s is analysed
StmTyped(m, P, b, s, r) ==
  /\ TypedMaps(r.maps, P) /\ Tame(m, r.maps, Contents(P, s)) /\ r.rounds \in Nat
  /\ r.ok \in BOOLEAN
  /\ r.ok => r.facts \in FactsOf(b) \/ (stm[s].k = "return" /\ r.facts \in FactsOf(Top))

\* A visit v of s, which is no loop, changes no facts but those at the destination
\* of a goto that brings less than the last time.
VisitedSimple(m, s, f, v) ==
  /\ \E m1, g : v = [ok |-> Valid(s, f), maps |-> m1, facts |-> g, rounds |-> 0]
  /\ v.ok = Valid(s, f) /\ (Valid(s, f) => v.facts = Transfer(s, f))
  /\ v.maps \in Maps /\ v.maps.vis = [m.vis EXCEPT ![s] = TRUE] /\ Tame(m, v.maps, {s})
  /\ \A n \in Nodes : \/ v.maps.in[n] = m.in[n] /\ v.maps.out[n] = m.out[n]
                      \/ /\ v.maps.in[n] = NoFacts /\ v.maps.out[n] = NoFacts
                         /\ IsGoto(s) /\ Shrinks(m, s, f) /\ n = stm[s].to

\* the facts after the i-th statement of b; after a return they are those of the function
FactsAfter(g, i, P, b) ==
  g \in FactsOf(b) \/ (i \in 1 .. Len(P.seq[b]) /\ stm[P.seq[b][i]].k = "return" /\ g \in FactsOf(Top))

TypedWalk(w, i, m, P, b, X) ==
  /\ TypedMaps(w.maps, P) /\ Tame(m, w.maps, X) /\ w.rounds \in Nat /\ w.ok \in BOOLEAN /\ w.passed \in Nat
  /\ w.ok => FactsAfter(w.facts, i, P, b)

Search == [maps : Maps, in : Facts, once : BOOLEAN, cnt : Nat, ok : BOOLEAN, passed : Nat, post : Facts, rounds : Nat]

TypedSearch(x, m, P, X) ==
  /\ x \in Search
  /\ TypedMaps(x.maps, P) /\ Tame(m, x.maps, X) /\ x.in \in FactsOf(Top)

Started(x, m, P, b, f, once, X) ==
  /\ TypedSearch(x, m, P, X) /\ x.maps = m /\ x.cnt <= 1 /\ x.once = once /\ x.ok = TRUE
  /\ x.in = BlockIn(m, P, b, f) /\ x.rounds = 0

\* what the walk w through b leaves of the search x, where g is known behind b
AgainDone(P, b, x, w, g, z) ==
  /\ Saved(w.maps, b, x.in, g, z.maps)
  /\ z.in = BlockIn(z.maps, P, b, x.in) /\ z.once = FALSE /\ z.cnt = x.cnt + 1 /\ z.ok = x.ok
  /\ z.passed = x.passed /\ z.post = w.facts /\ z.rounds = MaxOf(x.rounds, w.rounds)
  /\ z.in \in Facts => z \in Search

AgainFailed(x, w, z) ==
  /\ z.maps = w.maps /\ z.in = x.in /\ z.once = x.once /\ z.cnt = x.cnt /\ z.ok = FALSE
  /\ z.passed = w.passed /\ z.post = x.post /\ z.rounds = MaxOf(x.rounds, w.rounds)
  /\ z \in Search

\* A round keeps a search typed; X has what is in the block.
RoundDone(x, w, z, m, P, b, X) ==
  /\ TypedSearch(z, m, P, X) /\ (z.ok => w.ok)
  /\ w.ok => z.maps.in[b] = x.in /\ z.once = FALSE /\ z.cnt = x.cnt + 1
  /\ ~w.ok => ~z.ok

\* the search x, after n rounds: once a round has passed, the facts before the block are known
TypedFrom(x, n, m, P, b, X) ==
  /\ TypedSearch(x, m, P, X)
  /\ n = 0 => x.cnt <= 1
  /\ n >= 1 /\ x.ok => x.maps.in[b] \in FactsOf(Top)

\* what a search r for a fixed point of b leaves
TypedResult(r, m, P, b, X) ==
  /\ r \in Search /\ TypedMaps(r.maps, P) /\ Tame(m, r.maps, X)
  /\ r.ok => r.maps.in[b] \in FactsOf(Top)

\* what a visit v of the loop leaves, where r is the fixed point of its body
LoopVisited(m, P, f, r, v) ==
  /\ TypedMaps(v.maps, P) /\ Tame(m, v.maps, Contents(P, For)) /\ v.rounds \in Nat /\ v.ok \in BOOLEAN
  /\ v.maps.in = r.maps.in /\ v.maps.out = r.maps.out /\ v.ok = r.ok /\ v.rounds = r.rounds
  /\ \A n \in Nodes : v.maps.vis[n] = (r.maps.vis[n] \/ n = For \/ (n = Body /\ r.ok))
  /\ v.ok => /\ v.facts \in FactsOf(Top)
             /\ v.facts = MergeJumps(IF BodyMustReturn(P) THEN f ELSE r.maps.in[Body],
                                     {r.maps.out[e.src] : e \in EdgesIn(P, For, TRUE, FALSE)})

\* What an analysis of the loop does: nothing is new, or its body is searched.
LoopDone(m, P, f, r) ==
  \/ /\ r.ok = TRUE /\ f = m.in[For] /\ ~UnfixedGoto(m, P, For)
     /\ r.facts = m.out[For] /\ r.maps = MarkGotos(m, P, For)
  \/ \E x, v : /\ x = FixedPointBody(m, P, f, FALSE) /\ LoopVisited(m, P, f, x, v)
               /\ r.ok = x.ok /\ r.rounds = x.rounds
               /\ x.ok => r.facts = v.facts /\ Saved(v.maps, For, f, v.facts, r.maps)
               /\ ~x.ok => r.maps = v.maps

\* the nodes of b whose facts are forgotten
Forgotten(P, b) == {b} \cup UNION {Contents(P, s) : s \in Range(P.seq[b])}

\* m1 is m without the facts in b
Reset(m, P, b, m1) ==
  /\ m1 \in Maps /\ m1.vis = m.vis
  /\ \A n \in Nodes :
       IF n \in Forgotten(P, b) THEN m1.in[n] = NoFacts /\ m1.out[n] = NoFacts
       ELSE m1.in[n] = m.in[n] /\ m1.out[n] = m.out[n]

\* what is in b
Whole(P, b) == IF b = Body THEN {Body} \cup Range(P.seq[Body]) ELSE Nodes

\* where the last search r for a fixed point of b in Q comes from
Searched(r, Q, P, m, b, in, once) ==
  \/ Q = P /\ r = FixedPoint(m, P, b, in, once)
  \/ \E m1, m2 : /\ TypedMaps(m1, Q) /\ Tame(m, m1, Whole(P, b)) /\ Reset(m1, Q, b, m2)
                 /\ r = FixedPoint(m2, Q, b, in, TRUE)

Settled(y, P, m, b, in, once) ==
  /\ WellFormed(y.P) /\ Left(y.P, P) /\ Deletable(y.P, b) /\ (Follows(P) => Follows(y.P))
  /\ TypedResult(y.r, m, y.P, b, Whole(P, b))
  /\ y.rounds \in Nat /\ y.r.rounds <= y.rounds
  /\ Searched(y.r, y.P, P, m, b, in, once)

\* the maps at the end of b, behind which o is known
Ending(m, b, o) ==
  /\ m \in Maps /\ m.in = maps.in /\ m.vis = [maps.vis EXCEPT ![b] = TRUE] /\ m.out = [maps.out EXCEPT ![b] = o]
  /\ m.out[b] = o /\ m.vis[b] = TRUE
  /\ \A n \in Nodes : n # b => m.out[n] = maps.out[n] /\ m.vis[n] = maps.vis[n]

Loops(b) == b = Body /\ ~MustReturn(P0, Body)

\* b is finished with r: as it is, or as a fixed point of what is left
FinishedDone(b, m, r) ==
  \/ /\ ~Loops(b) /\ b \notin need /\ EdgesIn(P0, b, FALSE, TRUE) = {}
     /\ r.P = P0 /\ r.maps = m /\ r.rounds = 0
  \/ \E y, Q : /\ Q = (IF Loops(b) THEN WithSelfEdge(P0, b) ELSE P0)
               /\ Settled(y, Q, m, b, maps.in[b], b \in need) /\ y.r.ok
               /\ r.P = y.P /\ r.maps = y.r.maps /\ r.rounds = y.rounds

\* m1 is m but for the facts of s
Written(m, s, f, g, m1) ==
  /\ m1 \in Maps /\ m1.vis = m.vis /\ m1.in[s] = f /\ m1.out[s] = g
  /\ \A n \in Nodes : n # s => m1.in[n] = m.in[n] /\ m1.out[n] = m.out[n]
----------------------------------------------------------------------------
(* What is in scope, in every state *)

EnvOf(b) == [Scope(b) -> Reach(b)]

\* the block whose scope a statement is executed in
ScopeAt(s) == IF s \in Range(seq[Body]) THEN Body ELSE Top

\* what is known, and what the pointers point to, is in scope
Types ==
  /\ TypedMaps(maps, P0) /\ facts \in Facts /\ pre \in FactsOf(Top) /\ rounds \in Nat
  /\ mode = "generate" => facts \in FactsOf(curr)
  /\ mode \in {"generate", "ready", "execute"} => maps.in[Top] \in FactsOf(Top)
  /\ mode = "generate" /\ curr = Body => maps.in[Body] \in FactsOf(Top)
  /\ mode = "generate" /\ curr = Top /\ seq[Top] # <<>> => maps.in[Last(seq[Top])] # NoFacts
  /\ pc \in Nodes \cup {End} /\ DOMAIN env \subseteq Ptr /\ Range(env) \subseteq Target
  /\ mode = "execute" /\ pc # End => pc \in {Body} \cup Placed(P0) /\ env \in EnvOf(ScopeAt(pc))
  /\ mode = "execute" /\ pc \in {Body} \cup Range(seq[Body]) => For \in Range(seq[Top])
----------------------------------------------------------------------------
(* Facts that are a fixed point *)

\* what a statement that is not a return has behind it
BehindOf(m, s) == IF IsCtrl(s) THEN m.in[s] ELSE m.out[s]

\* recorded facts are those that a visit finds
RecordedAt(m, s) ==
  m.in[s] # NoFacts => Valid(s, m.in[s]) /\ m.out[s] = FactOut(s, Transfer(s, m.in[s]))

Recorded(m, S) == \A s \in S : s # For => RecordedAt(m, s)

\* what is before t, and behind each of its statements, is part of what is before the next
Chain(m, t, f) ==
  /\ \A j \in 1 .. Len(t) : m.in[t[j]] # NoFacts
  /\ t # <<>> => Below(f, m.in[t[1]])
  /\ \A j \in 2 .. Len(t) : Below(BehindOf(m, t[j - 1]), m.in[t[j]])

\* a goto that was visited leads to n
Pending(m, P, n) ==
  \E e \in P.edges : IsGoto(e.src) /\ e.dest = n /\ m.vis[e.src] /\ m.out[e.src] # NoFacts

\* the same of the first n statements, but for those that a goto has reset
Weak(m, P, t, n, f) ==
  /\ \A j \in 1 .. n : m.in[t[j]] # NoFacts \/ Pending(m, P, t[j])
  /\ n >= 1 /\ m.in[t[1]] # NoFacts => Below(f, m.in[t[1]])
  /\ \A j \in 2 .. n : m.in[t[j - 1]] # NoFacts /\ m.in[t[j]] # NoFacts =>
                         Below(BehindOf(m, t[j - 1]), m.in[t[j]])

\* what the back edges bring to the loop body is part of g
Enclosed(m, P, g) ==
  \A e \in EdgesIn(P, Body, FALSE, TRUE) : m.out[e.src] # NoFacts => Below(m.out[e.src], g)

BodyChain(m, P) ==
  /\ Chain(m, P.seq[Body], AddLocals(m.in[Body]))
  /\ P.seq[Body] # <<>> /\ stm[Last(P.seq[Body])].k # "return" =>
       m.out[Body] = OutOfScope(BehindOf(m, Last(P.seq[Body])), Local)

BodyStable(m, P) == m.in[Body] # NoFacts => BodyChain(m, P) /\ Enclosed(m, P, m.in[Body])

\* what the loop does as a statement
LoopKept(m, P) ==
  m.in[For] # NoFacts =>
    /\ m.in[Body] # NoFacts /\ Below(m.in[For], m.in[Body]) /\ Below(m.in[For], m.out[For])
    /\ ~BodyMustReturn(P) => Below(m.in[Body], m.out[For])
    /\ \A s \in P.breaks : m.out[s] # NoFacts => Below(m.out[s], m.out[For])

\* the facts of each statement agree with one another, those of the loop once it is complete
Kept(m, P) ==
  /\ Recorded(m, Range(P.seq[Top]))
  /\ For \in Range(P.seq[Top]) =>
       Recorded(m, Range(P.seq[Body])) /\ BodyStable(m, P) /\ LoopKept(m, P)

\* what may be executed
Live(P) == Range(P.seq[Top]) \cup {s \in Range(P.seq[Body]) : For \in Range(P.seq[Top])}

Covered(m, e) == m.out[e.src] # NoFacts => Below(m.out[e.src], m.in[e.dest])

\* a fixed point of the function
Stable(m, P) ==
  /\ Kept(m, P) /\ m.in[Top] # NoFacts /\ Chain(m, P.seq[Top], m.in[Top])
  /\ \A e \in P.edges : IsGoto(e.src) /\ e.src \in Live(P) => Covered(m, e)

\* the environments that facts describe
Conc(f) == {e \in [DOMAIN f -> Target] : \A p \in DOMAIN f : e[p] \in f[p]}

\* what is known at the end of b, before which f is known
AtEnd(m, b, f) == IF seq[b] = <<>> THEN f ELSE BehindOf(m, Last(seq[b]))
----------------------------------------------------------------------------
(* The facts, in every state *)

\* While the function is generated the facts are a fixed point but for what the
\* gotos back bring, which mark the function's body for another visit.
GenInv ==
  mode = "generate" =>
    /\ Kept(maps, P0) /\ Chain(maps, seq[Top], maps.in[Top])
    /\ \A s \in Range(seq[Top]) : maps.vis[s]
    /\ ~Closed(curr) => facts = AtEnd(maps, curr, IF curr = Top THEN maps.in[Top] ELSE AddLocals(pre))
    /\ curr = Body => /\ pre = AtEnd(maps, Top, maps.in[Top]) /\ maps.in[Body] = pre
                      /\ Chain(maps, seq[Body], AddLocals(pre)) /\ Recorded(maps, Range(seq[Body]))
    /\ \A e \in edges : IsGoto(e.src) =>
         IF e.back THEN Top \in need
         ELSE /\ Covered(maps, e)
              /\ For \notin Range(seq[Top]) => e.src \in Range(seq[Top])
              /\ curr = Top => e.src \notin Contents(P0, Last(seq[Top]))

\* The facts of a complete function are a fixed point.
ReadyInv == mode \in {"ready", "execute"} => Stable(maps, P0)

\* What the pointers point to is described by the facts before the next statement.
ExecInv ==
  mode = "execute" /\ pc # End => env \in Conc(maps.in[pc]) /\ (pc = Body => ~BodyMustReturn(P0))

Sound == GenInv /\ ReadyInv /\ ExecInv

\* The program is well formed and the state has its types at every step; and, if no
\* goto leads around a loop, the facts are right: those recorded are what generation
\* and the analyses flow from statement to statement, along jumps and around the
\* loop (GenInv), between calls they describe every run of the body (ReadyInv), and
\* the pointers are as the facts say wherever an execution stands (ExecInv).
IInv == Structure /\ Types /\ ("around" \notin Jumps => Sound)
----------------------------------------------------------------------------
(* What the analysis of a statement finds *)

\* From m to m1 only X is analysed, and gotos that are visited reset what they lead to.
Orderly(m, m1, P, X) ==
  \A n \in Nodes :
    /\ m.vis[n] => m1.vis[n]
    /\ m.vis[n] /\ m.out[n] # NoFacts => m1.out[n] # NoFacts
    /\ n \notin X => \/ m1.in[n] = m.in[n] /\ m1.out[n] = m.out[n]
                     \/ m1.in[n] = NoFacts /\ m1.out[n] = NoFacts /\ Pending(m1, P, n)

\* the gotos in S have been visited
VisitedGotos(m, P, S) == \A e \in P.edges : IsGoto(e.src) /\ e.src \in S => m.vis[e.src]

\* what the analysis r of s leaves, when it succeeds
Analysis(m, P, s, f, r) ==
  /\ Orderly(m, r.maps, P, Contents(P, s)) /\ r.maps.in[s] = f
  /\ stm[s].k # "return" => r.facts = BehindOf(r.maps, s)
  /\ VisitedGotos(r.maps, P, Contents(P, s))
  /\ s # For => RecordedAt(r.maps, s)

\* what holds between the statements of b while they are analysed
Hold(m, P, b) == IF b = Body THEN Recorded(m, Range(P.seq[Body])) ELSE Kept(m, P)

\* the walk w has analysed i statements of b, from f on
WalkedOK(w, i, m, P, b, f, X) ==
  /\ Orderly(m, w.maps, P, X) /\ Hold(w.maps, P, b)
  /\ Weak(w.maps, P, P.seq[b], i, f)
  /\ \A j \in 1 .. i : VisitedGotos(w.maps, P, Contents(P, P.seq[b][j]))
  /\ i = 0 => w.facts = f
  /\ i >= 1 => w.maps.in[P.seq[b][i]] # NoFacts
  /\ i >= 1 /\ stm[P.seq[b][i]].k # "return" => w.facts = BehindOf(w.maps, P.seq[b][i])

Walked(w, i, m, P, b, f, X) == w.ok /\ w.rounds <= MaxRounds => WalkedOK(w, i, m, P, b, f, X)

NextWalkedOK(P, b, s, v, g, r) ==
  r.ok /\ r.rounds <= MaxRounds /\ Hold(v.maps, P, b) => Analysis(v.maps, P, s, g, r) /\ Hold(r.maps, P, b)
----------------------------------------------------------------------------
(* What searches find *)

\* the loop body is ready for a search: what the back edges bring is in it, or it comes next
BodyReady(m, P) ==
  m.in[Body] # NoFacts => BodyChain(m, P) /\ (m.vis[Body] \/ Enclosed(m, P, m.in[Body]))

\* a search x of the loop body after n rounds: what is recorded is closed but for the
\* back edges, and these are in the facts that come next
BodySearch(x, n, m, P, f) ==
  /\ Below(f, x.in)
  /\ Ended(P, Body, x) \/ x.cnt >= n
  /\ x.ok /\ x.rounds <= MaxRounds =>
       /\ Orderly(m, x.maps, P, Whole(P, Body)) /\ Recorded(x.maps, Range(P.seq[Body]))
       /\ x.once \/ (x.maps.in[Body] # NoFacts =>
                       BodyChain(x.maps, P) /\ (x.maps.vis[Body] \/ Enclosed(x.maps, P, x.maps.in[Body])))
       /\ x.maps.vis[Body] => Enclosed(x.maps, P, x.in)

\* what a search for the fixed point of the loop body finds
BodySearched(m, P, f, r) ==
  /\ Orderly(m, r.maps, P, Whole(P, Body)) /\ Recorded(r.maps, Range(P.seq[Body]))
  /\ r.maps.in[Body] # NoFacts /\ Below(f, r.maps.in[Body])
  /\ BodyChain(r.maps, P) /\ Enclosed(r.maps, P, r.maps.in[Body])
  /\ VisitedGotos(r.maps, P, Contents(P, For))

\* what the analysis of the loop, from f on, leaves in m1
LoopAfter(m, P, f, m1) ==
  /\ Orderly(m, m1, P, Contents(P, For)) /\ Kept(m1, P) /\ VisitedGotos(m1, P, Contents(P, For))

\* the statements of the function have been analysed once
TopWalked(m, P, f) ==
  /\ m.in[Top] = f /\ Weak(m, P, P.seq[Top], Len(P.seq[Top]), f)
  /\ \A j \in 1 .. Len(P.seq[Top]) : VisitedGotos(m, P, Contents(P, P.seq[Top][j]))

TopSearch(x, n, P, f) ==
  /\ x.in = f
  /\ Ended(P, Top, x) \/ x.cnt >= n
  /\ x.ok /\ x.rounds <= MaxRounds =>
       Kept(x.maps, P) /\ (x.once \/ Stable(x.maps, P) \/ TopWalked(x.maps, P, f))
----------------------------------------------------------------------------
(* Execution *)

\* what executing s makes of the environment
Executed(s, e) ==
  CASE stm[s].k = "value" -> [e EXCEPT ![stm[s].to] = stm[s].of]
    [] stm[s].k = "copy" -> [e EXCEPT ![stm[s].to] = e[stm[s].of]]
    [] OTHER -> e

\* where execution may go, to n with e
StepOK(n, e) ==
  n # End =>
    /\ (IF n \in Range(seq[Body]) THEN e ELSE LeaveScope(e)) \in Conc(maps.in[n])
    /\ n = Body => ~BodyMustReturn(P0)
----------------------------------------------------------------------------
(* Generation *)

\* The new statement n stands behind the k-th of b.
Placing(n, b, k) ==
  /\ n \in Nodes \ Placed(P0) /\ n # Top /\ n # Body /\ n # For /\ \A e \in edges : e.src # n
  /\ b \in Blocks /\ k \in 0 .. Len(seq[b]) /\ Inserted(seq'[b], seq[b], k, n)
  /\ \A c \in Blocks : c # b => seq'[c] = seq[c]
  /\ \A v \in Nodes : v # n => stm'[v] = stm[v]
  /\ locals' = locals /\ edges \subseteq edges'

\* f is known before t, and the facts of n are those at its place
Fits(m, m1, n, t, k, f) ==
  /\ m1.in[n] # NoFacts
  /\ k = 0 => Below(f, m1.in[n])
  /\ k >= 1 => Below(BehindOf(m, t[k]), m1.in[n])
  /\ k < Len(t) => k >= 1 /\ BehindOf(m1, n)' = BehindOf(m, t[k])

\* The facts of the other statements are the same.
Beyond(n, m, m1) == \A v \in Nodes : v # n => m1.in[v] = m.in[v] /\ m1.out[v] = m.out[v]

\* what is known before b
Before(b) == IF b = Top THEN maps.in[Top] ELSE AddLocals(pre)

\* a goto that needs no analysis yet, or one that has been analysed
EdgeSound(e) ==
  IsGoto(e.src) =>
    IF e.back THEN Top \in need
    ELSE /\ Covered(maps, e)
         /\ For \notin Range(seq[Top]) => e.src \in Range(seq[Top])
         /\ curr = Top => e.src \notin Contents(P0, Last(seq[Top]))

\* what is known of the loop body when it is complete
BodyFinal(m, P) ==
  /\ Recorded(m, Range(P.seq[Body]))
  /\ m.in[Body] # NoFacts /\ Below(pre, m.in[Body])
  /\ BodyChain(m, P) /\ Enclosed(m, P, m.in[Body])

\* m is y, where R is left of the program, with the loop, behind which o is known, in Q
LoopClosed(R, y, o, Q, m) ==
  /\ o = MergeJumps(IF BodyMustReturn(R) THEN pre ELSE y.in[Body], {y.out[s] : s \in R.breaks})
  /\ Q.seq[Body] = R.seq[Body] /\ Q.breaks = R.breaks
  /\ EdgesIn(Q, Body, FALSE, TRUE) = EdgesIn(R, Body, FALSE, TRUE)
  /\ m.in[For] = pre /\ m.out[For] = o
  /\ \A n \in Nodes : n # For => m.in[n] = y.in[n] /\ m.out[n] = y.out[n]

\* m is what the analysis of s, before which g is known, leaves
Advanced(m, s, g) ==
  /\ Kept(m, P0) /\ m.in[s] = g /\ \A v \in Nodes : maps.vis[v] => m.vis[v]
  /\ \A v \in Placed(P0) \cup {Top} : v \notin Contents(P0, s) => m.in[v] = maps.in[v] /\ m.out[v] = maps.out[v]

\* A goto n from behind other to s: m is what the analysis of s leaves, g what is known before s.
ForwardDone(m, g, s, n, other) ==
  /\ Advanced(m, s, g) /\ g \in FactsOf(Top) /\ g # NoFacts /\ Below(maps.in[s], g)
  /\ ForDest(BehindOf(maps, other)) # NoFacts => Below(ForDest(BehindOf(maps, other)), g)
  /\ Saved(m, n, BehindOf(maps, other), ForDest(BehindOf(maps, other)), maps')
  /\ facts' = BehindOf(maps', s)
=============================================================================
