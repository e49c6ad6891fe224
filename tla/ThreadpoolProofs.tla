-------------------------- MODULE ThreadpoolProofs --------------------------
(***************************************************************************)
(* Proofs about the thread pool, for a pool of any size, any graphs, any   *)
(* thread counts the caller asks for and any number of graphs.             *)
(*                                                                         *)
(* The threads that compute a graph are a team.  Between two barriers the  *)
(* team is in one stretch of the graph: all its members left the last      *)
(* barrier at node b (numbered from 0), and will meet at the next one.  A  *)
(* stretch is of one of three kinds: in "nodes" a thread looks for the     *)
(* first node at or after b that is not a view, computes it if it is       *)
(* element-wise and only converts its input if it is a product; in         *)
(* "product" the chunks of the product b are shared out; in "over" there   *)
(* is no graph.  TeamInv says that at all times there is such a stretch.   *)
(* A thread that spins in a barrier which has opened counts as being where *)
(* it will return to.                                                      *)
(***************************************************************************)
EXTENDS Threadpool, FiniteSetTheorems, TLAPS

Nodes == [op : {"none", "rows", "mul_mat"}, raw : Nat]

\* The team, and how many nodes it will compute.
Team == {t \in Threads : t < n_graph[2]}
UpTo == IF abort = -1 THEN Len(cgraph) ELSE abort
Op(k) == cgraph[k + 1].op
NParts(k) == Executor!NChunk(cgraph[k + 1].raw, n_graph[2])

\* Barriers: let go, at l or free to go there, and held in one that leads to l.
Released(t) == pc[t] = "spin" /\ n_passed[t] # n_barrier_passed
At(t, l)    == pc[t] = l \/ (Released(t) /\ ret[t] = l)
Held(t, l)  == pc[t] \in InBarrier /\ ~Released(t) /\ ret[t] = l
Home(t)     == IF t = 0 THEN "idle" ELSE "top"
Resting(t)  == t # 0 /\ (pc[t] \in Waiting \/ (Released(t) /\ ret[t] = "top"))

\* What thread t computed of the nodes from number b on: nothing, or node k.
Fresh(t, b)   == \A j \in Nat : j > b => <<j, t>> \notin computed
Did(t, b, k)  == \A j \in Nat : j > b => (<<j, t>> \in computed <=> j = k)

\* From node b on there are only views before node k.
Skip(b, k) == b <= k /\ k <= UpTo /\ \A j \in b .. (k - 1) : Op(j) = "none"

\* The places of a thread in a stretch "nodes" that began at node b: before
\* the node that is to be done, in it, or after it.
Before(t, b) == Skip(b, node[t]) /\ Fresh(t, b)
In(t, b, op) == Skip(b, node[t]) /\ node[t] < UpTo /\ Op(node[t]) = op
After(t, b)  ==
  /\ node[t] > b /\ Skip(b, node[t] - 1) /\ node[t] <= UpTo /\ Op(node[t] - 1) = "rows"
  /\ Did(t, b, node[t])

Joined(t) == nth[t] = n_graph[2] /\ (t # 0 => last_graph[t] = n_graph)

Placed(t, b) ==
  \/ At(t, "node") /\ Before(t, b)
  \/ pc[t] = "convert" /\ In(t, b, "mul_mat") /\ Fresh(t, b) /\ chunk[t] = t
  \/ /\ Held(t, "chunks") /\ In(t, b, "mul_mat") /\ Fresh(t, b) /\ chunk[t] = t
     /\ t = 0 => current_chunk = n_graph[2]
  \/ pc[t] = "chunks" /\ In(t, b, "rows") /\ Fresh(t, b) /\ chunk[t] = t
  \/ pc[t] = "endnode" /\ In(t, b, "rows") /\ Did(t, b, node[t] + 1)
  \/ Held(t, "node") /\ After(t, b) /\ node[t] < Len(cgraph)
  \/ pc[t] = "node" /\ After(t, b) /\ node[t] = Len(cgraph)
  \/ Held(t, Home(t)) /\ Before(t, b) /\ node[t] = UpTo
  \/ Held(t, Home(t)) /\ After(t, b) /\ node[t] = Len(cgraph)

InNodes(t, b) ==
  \/ Resting(t) /\ last_graph[t] # n_graph /\ b = 0 /\ Fresh(t, b)
  \/ pc[t] = "enter" /\ (t # 0 => last_graph[t] = n_graph) /\ b = 0 /\ Fresh(t, b)
  \/ Joined(t) /\ Placed(t, b)

\* The places of a thread in the product of node b.
InProduct(t, b) ==
  /\ Joined(t)
  /\ \/ At(t, "chunks") /\ node[t] = b /\ chunk[t] < current_chunk
     \/ pc[t] = "grab" /\ node[t] = b
     \/ /\ current_chunk >= NParts(b)
        /\ \/ pc[t] = "endnode" /\ node[t] = b
           \/ Held(t, "node") /\ node[t] = b + 1 /\ node[t] < Len(cgraph)
           \/ (pc[t] = "node" \/ Held(t, Home(t))) /\ node[t] = b + 1 /\ node[t] = Len(cgraph)

\* A thread without a graph.
Off(t) ==
  IF t = 0 THEN pc[t] \in {"idle", "kickoff", "join", "freed"} \/ (Released(t) /\ ret[t] = "idle")
  ELSE Resting(t) /\ (t < n_graph[2] => last_graph[t] = n_graph)

\* The chunks of product b: every chunk handed out is computed or with one thread.
Shared(b) ==
  /\ current_chunk >= n_graph[2]
  /\ \A p \in computed : p[1] <= b + 1
  /\ \A c \in Nat : <<b + 1, c>> \in computed =>
       c < current_chunk /\ \A t \in Team : At(t, "chunks") => chunk[t] # c
  /\ \A t, u \in Team : At(t, "chunks") /\ At(u, "chunks") /\ t # u => chunk[t] # chunk[u]
  /\ \A c \in Nat : c < current_chunk =>
       \/ c >= NParts(b) \/ <<b + 1, c>> \in computed
       \/ \E t \in Team : At(t, "chunks") /\ chunk[t] = c

\* Arrived at the barrier that is to open.  It counts them; the last one finds
\* all there, and is alone in opening it.
Arrived == {t \in Team : pc[t] \in {"last", "open"} \/ (pc[t] = "spin" /\ ~Released(t))}
BarrierInv ==
  /\ \A t \in Team : pc[t] = "open" => n_barrier = 0
  /\ (\A t \in Team : pc[t] # "open") => n_barrier = Cardinality(Arrived)
  /\ \A t \in Team : pc[t] \in {"last", "open"} =>
       /\ Arrived = Team
       /\ \A u \in Team : pc[u] \in {"last", "open"} => u = t
  /\ \A t \in Team : pc[t] = "arrive" => n_passed[t] = n_barrier_passed

NodesStretch(b) ==
  /\ \A t \in Team : InNodes(t, b)
  /\ \A p \in computed : p[1] <= b \/ p[2] \in Team

ProductStretch(b) ==
  /\ b < UpTo /\ Op(b) = "mul_mat"
  /\ \A t \in Team : InProduct(t, b)
  /\ Shared(b)

Busy(b) ==
  /\ n_graph[2] > 0 /\ n_threads = n_graph[2] /\ b <= UpTo
  /\ \A k \in 1 .. b : Executor!Complete(k)
  /\ \A t \in Threads \ Team : Resting(t)
  /\ BarrierInv

Over ==
  /\ \A t \in Threads : Off(t)
  /\ n_barrier = 0
  /\ pc[0] = "kickoff" => computed = {} /\ abort = -1 /\ n_threads > 0
  /\ pc[0] \in {"spin", "idle"} =>
       n_threads = n_graph[2] /\ \A k \in 1 .. UpTo : Executor!Complete(k)

TeamInv == Over \/ \E b \in Nat : Busy(b) /\ (NodesStretch(b) \/ ProductStretch(b))

\* What PTypeOK leaves out; counters only grow.
PTypeInv ==
  /\ PTypeOK
  /\ cgraph \in Seq(Nodes) /\ computed \subseteq Nat \X Nat
  /\ abort = -1 \/ abort \in 0 .. Len(cgraph)
  /\ \A t \in Threads : n_passed[t] <= n_barrier_passed
  /\ \A t \in Workers : last_graph[t][1] <= n_graph[1]

PInv == PTypeInv /\ TeamInv

-----------------------------------------------------------------------------
(* The operators of the model.                                             *)

\* How a node is cut into parts.
LEMMA PartsFacts ==
  ASSUME NEW nd \in Nodes, NEW n \in Nat
  PROVE  /\ nd.op = "none" => Executor!Parts(nd, n) = {}
         /\ nd.op = "rows" => /\ Executor!Parts(nd, n) = 0 .. (n - 1)
                              /\ Cardinality(Executor!Parts(nd, n)) = n
         /\ nd.op = "mul_mat" =>
              /\ Executor!NChunk(nd.raw, n) \in Nat
              /\ Executor!Parts(nd, n) = 0 .. (Executor!NChunk(nd.raw, n) - 1)
              /\ Cardinality(Executor!Parts(nd, n)) = Executor!NChunk(nd.raw, n)
<1>1. nd.op = "none" => Executor!Parts(nd, n) = {}
  BY DEF Executor!Parts
<1>2. nd.op = "rows" => Executor!Parts(nd, n) = 0 .. (n - 1)
  BY DEF Executor!Parts
<1>3. nd.op = "mul_mat" => Executor!Parts(nd, n) = 0 .. (Executor!NChunk(nd.raw, n) - 1)
  BY DEF Executor!Parts
<1>4. Executor!NChunk(nd.raw, n) \in Nat
  BY DEF Executor!NChunk, Nodes
<1>5. \A m \in Nat : Cardinality(0 .. (m - 1)) = m
  <2> TAKE m \in Nat
  <2>1. Cardinality(0 .. (m - 1)) = IF 0 > m - 1 THEN 0 ELSE (m - 1) - 0 + 1
    BY FS_Interval
  <2> QED
    BY <2>1
<1> QED
  BY <1>1, <1>2, <1>3, <1>4, <1>5

\* The nodes of the graph are nodes.
LEMMA NodeFacts ==
  ASSUME PTypeInv, NEW k \in Nat, k < Len(cgraph)
  PROVE  cgraph[k + 1] \in Nodes
  BY DEF PTypeInv

\* The number of nodes to compute.
LEMMA UpToFacts == ASSUME PTypeInv PROVE UpTo \in Nat /\ UpTo <= Len(cgraph)
  BY DEF PTypeInv, UpTo

-----------------------------------------------------------------------------
(* What a step of another thread leaves alone.                             *)

Same(u) ==
  /\ pc'[u] = pc[u] /\ ret'[u] = ret[u] /\ node'[u] = node[u] /\ nth'[u] = nth[u]
  /\ chunk'[u] = chunk[u] /\ n_passed'[u] = n_passed[u]
  /\ u # 0 => last_graph'[u] = last_graph[u]

SameParts(u) == \A j \in Nat : <<j, u>> \in computed' <=> <<j, u>> \in computed

\* A thread that is left alone keeps its place in the nodes.
LEMMA FrameNodes ==
  ASSUME NEW u \in Threads, NEW b \in Nat, InNodes(u, b), Same(u), SameParts(u),
         UNCHANGED <<cgraph, abort, n_graph, n_barrier_passed>>,
         u = 0 => current_chunk' = current_chunk
  PROVE  InNodes(u, b)'
<1>1. UpTo' = UpTo /\ \A k \in Nat : Op(k)' = Op(k)
  BY DEF UpTo, Op
<1>2. Released(u)' <=> Released(u)
  BY DEF Released, Same
<1>3. /\ Resting(u)' <=> Resting(u)
      /\ \A l : At(u, l)' <=> At(u, l)
      /\ \A l : Held(u, l)' <=> Held(u, l)
  BY <1>2 DEF Resting, At, Held, Same
<1>4. /\ Fresh(u, b)' <=> Fresh(u, b)
      /\ \A k : Did(u, b, k)' <=> Did(u, b, k)
  BY DEF Fresh, Did, SameParts
<1>5. \A k : Skip(b, k)' <=> Skip(b, k)
  BY DEF Skip, UpTo, Op
<1>6. /\ Before(u, b)' <=> Before(u, b)
      /\ After(u, b)' <=> After(u, b)
      /\ \A op : In(u, b, op)' <=> In(u, b, op)
  BY <1>1, <1>4, <1>5 DEF Before, After, In, Same, Op
<1>7. Joined(u)' <=> Joined(u)
  BY DEF Joined, Same
<1>8. CASE Resting(u) /\ last_graph[u] # n_graph /\ b = 0 /\ Fresh(u, b)
  BY <1>3, <1>4, <1>8 DEF InNodes, Same, Resting
<1>9. CASE pc[u] = "enter" /\ (u # 0 => last_graph[u] = n_graph) /\ b = 0 /\ Fresh(u, b)
  BY <1>4, <1>9 DEF InNodes, Same
<1>10. CASE Joined(u) /\ Placed(u, b)
  BY <1>1, <1>3, <1>4, <1>6, <1>7, <1>10 DEF InNodes, Placed, Same, Home
<1> QED
  BY <1>8, <1>9, <1>10 DEF InNodes

\* It keeps its place in a product, where chunks are only ever taken.
LEMMA FrameProduct ==
  ASSUME NEW u \in Threads, NEW b \in Nat, InProduct(u, b), Same(u), PTypeInv,
         UNCHANGED <<cgraph, n_graph, n_barrier_passed>>, b < Len(cgraph),
         current_chunk' \in Nat, current_chunk' >= current_chunk
  PROVE  InProduct(u, b)'
<1>1. Released(u)' <=> Released(u)
  BY DEF Released, Same
<1>2. /\ \A l : At(u, l)' <=> At(u, l)
      /\ \A l : Held(u, l)' <=> Held(u, l)
  BY <1>1 DEF At, Held, Same
<1>3. Joined(u)' <=> Joined(u)
  BY DEF Joined, Same
<1>4. NParts(b)' = NParts(b) /\ NParts(b) \in Nat
  <2>1. n_graph[2] \in Nat
    BY PoolAssumption DEF PTypeInv, PTypeOK
  <2>2. cgraph[b + 1] \in Nodes
    BY NodeFacts
  <2> QED
    BY <2>1, <2>2, FactorAssumption DEF NParts, Executor!NChunk, Nodes
<1>5. chunk[u] \in Nat /\ current_chunk \in Nat
  BY DEF PTypeInv, PTypeOK
<1>6. current_chunk >= NParts(b) => current_chunk' >= NParts(b)'
  BY <1>4, <1>5
<1>7. chunk[u] < current_chunk => chunk'[u] < current_chunk'
  BY <1>5 DEF Same
<1> QED
  BY <1>2, <1>3, <1>6, <1>7 DEF InProduct, Same, Home

\* A thread at rest stays at rest, also when a barrier opens.
LEMMA FrameResting ==
  ASSUME PTypeInv, NEW u \in Threads, Resting(u), Same(u),
         n_barrier_passed' \in {n_barrier_passed, n_barrier_passed + 1}
  PROVE  Resting(u)'
<1>1. n_passed[u] \in Nat /\ n_barrier_passed \in Nat /\ n_passed[u] <= n_barrier_passed
  BY DEF PTypeInv, PTypeOK
<1>2. Released(u) => Released(u)'
  BY <1>1 DEF Released, Same
<1> QED
  BY <1>2 DEF Resting, Same

\* The barrier does not notice steps outside it, nor a thread that leaves it
\* after it opened.
Counted(u) == pc[u] \in {"last", "open"} \/ (pc[u] = "spin" /\ ~Released(u))

\* The barrier's invariant holds after such a step.
LEMMA FrameBarrier ==
  ASSUME BarrierInv, UNCHANGED <<n_graph, n_barrier, n_barrier_passed>>,
         \A u \in Threads :
           \/ pc'[u] = pc[u] /\ n_passed'[u] = n_passed[u]
           \/ ~Counted(u) /\ ~Counted(u)' /\ pc'[u] # "arrive"
           \/ ~Counted(u) /\ ~Counted(u)' /\ n_passed'[u] = n_barrier_passed
  PROVE  BarrierInv'
<1>1. Team' = Team
  BY DEF Team
<1>2. \A u \in Threads : Counted(u)' <=> Counted(u)
  BY DEF Counted, Released
<1>3. Arrived = {u \in Team : Counted(u)} /\ Arrived' = {u \in Team : Counted(u)'}
  BY <1>1 DEF Arrived, Counted
<1>4. Arrived' = Arrived
  BY <1>2, <1>3 DEF Team
<1>5. \A u \in Team : /\ pc'[u] \in {"last", "open"} => pc'[u] = pc[u]
                      /\ pc[u] \in {"last", "open"} => pc'[u] = pc[u]
  BY DEF Counted, Team
<1>6. \A u \in Team : pc'[u] = "arrive" => n_passed'[u] = n_barrier_passed'
  BY DEF BarrierInv, Counted, Team
<1> QED
  BY <1>1, <1>4, <1>5, <1>6 DEF BarrierInv

\* What is complete stays complete.
LEMMA FrameComplete ==
  ASSUME NEW k, Executor!Complete(k), UNCHANGED <<cgraph, n_threads>>, computed \subseteq computed'
  PROVE  Executor!Complete(k)'
  BY DEF Executor!Complete, Executor!Parts, Executor!NChunk

\* A step of one thread of the team in a stretch of nodes.
LEMMA NodesStep ==
  ASSUME PTypeInv, NEW b \in Nat, Busy(b), NodesStretch(b), NEW t \in Team,
         \A u \in Threads \ {t} : Same(u) /\ SameParts(u),
         UNCHANGED <<cgraph, abort, n_threads, n_graph, n_barrier_passed>>,
         t # 0 => current_chunk' = current_chunk,
         computed \subseteq computed', \A p \in computed' : p \in computed \/ p[2] = t,
         InNodes(t, b)', BarrierInv'
  PROVE  TeamInv'
<1>1. Team' = Team /\ Team \subseteq Threads /\ UpTo' = UpTo
  BY DEF Team, UpTo
<1>2. ASSUME NEW u \in Team PROVE InNodes(u, b)'
  <2>1. CASE u = t
    BY <2>1
  <2>2. CASE u # t
    BY <1>1, <2>2, FrameNodes DEF NodesStretch
  <2> QED
    BY <2>1, <2>2
<1>3. \A p \in computed' : p[1] <= b \/ p[2] \in Team
  BY DEF NodesStretch
<1>4. ASSUME NEW u \in Threads \ Team PROVE Resting(u)'
  BY FrameResting DEF Busy
<1>5. \A k \in 1 .. b : Executor!Complete(k)'
  BY FrameComplete DEF Busy
<1>6. Busy(b)'
  BY <1>1, <1>4, <1>5 DEF Busy
<1>7. NodesStretch(b)'
  BY <1>1, <1>2, <1>3 DEF NodesStretch
<1> QED
  BY <1>6, <1>7 DEF TeamInv

\* A step of one thread of the team in a product.
LEMMA ProductStep ==
  ASSUME PTypeInv, NEW b \in Nat, Busy(b), ProductStretch(b), NEW t \in Team,
         \A u \in Threads \ {t} : Same(u),
         UNCHANGED <<cgraph, n_threads, n_graph, n_barrier_passed>>,
         UpTo' \in Nat, b < UpTo', current_chunk' \in Nat, current_chunk' >= current_chunk,
         computed \subseteq computed',
         InProduct(t, b)', Shared(b)', BarrierInv'
  PROVE  TeamInv'
<1>1. Team' = Team /\ Team \subseteq Threads
  BY DEF Team
<1>2. ASSUME NEW u \in Team PROVE InProduct(u, b)'
  <2>1. CASE u = t
    BY <2>1
  <2>2. CASE u # t
    <3>1. b < Len(cgraph)
      BY UpToFacts, PTypeInv DEF ProductStretch, PTypeInv
    <3> QED
      BY <1>1, <2>2, <3>1, FrameProduct DEF ProductStretch
  <2> QED
    BY <2>1, <2>2
<1>3. Op(b)' = "mul_mat"
  BY DEF ProductStretch, Op
<1>4. ASSUME NEW u \in Threads \ Team PROVE Resting(u)'
  BY FrameResting DEF Busy
<1>5. \A k \in 1 .. b : Executor!Complete(k)'
  BY FrameComplete DEF Busy
<1>6. Busy(b)'
  <2>1. b <= UpTo'
    OBVIOUS
  <2> QED
    BY <1>1, <1>4, <1>5, <2>1 DEF Busy
<1>7. ProductStretch(b)'
  BY <1>1, <1>2, <1>3 DEF ProductStretch
<1> QED
  BY <1>6, <1>7 DEF TeamInv

-----------------------------------------------------------------------------
(* The barrier opens.                                                      *)

\* All threads of the team were held and may now go where the barrier leads.
Opens ==
  /\ \A u \in Team : pc[u] \in InBarrier /\ ~Released(u)
  /\ \A u \in Team : pc'[u] = ret[u] \/ (pc'[u] = "spin" /\ Released(u)')
  /\ \A u \in Threads \ Team : Resting(u)'
  /\ n_barrier' = 0
  /\ UNCHANGED <<cgraph, abort, n_threads, n_graph, current_chunk, computed,
                 ret, node, nth, chunk, last_graph>>

\* Nobody waits at a barrier that has opened.
LEMMA OpensEmpty ==
  ASSUME PTypeInv, Opens PROVE BarrierInv'
<1>1. \A u \in Team : pc'[u] \in {"idle", "top", "node", "chunks"} \/ (pc'[u] = "spin" /\ Released(u)')
  BY DEF Opens, PTypeInv, PTypeOK, Team
<1>2. Team' = Team
  BY DEF Opens, Team
<1>3. Arrived' = {}
  BY <1>1, <1>2 DEF Arrived
<1>4. Cardinality({}) = 0
  BY FS_EmptySet
<1>5. \A u \in Team' : pc'[u] \notin {"last", "open", "arrive"}
  BY <1>1, <1>2
<1>6. n_barrier' = 0
  BY DEF Opens
<1> QED
  BY <1>3, <1>4, <1>5, <1>6 DEF BarrierInv

\* The next stretch of nodes begins.
LEMMA OpensNodes ==
  ASSUME PTypeInv, Opens, NEW k \in Nat, k <= UpTo,
         n_graph[2] > 0, n_threads = n_graph[2],
         \A u \in Team : Joined(u) /\ ret[u] = "node" /\ node[u] = k /\ Fresh(u, k),
         \A p \in computed : p[1] <= k \/ p[2] \in Team,
         \A j \in 1 .. k : Executor!Complete(j)
  PROVE  TeamInv'
<1>1. Team' = Team /\ UpTo' = UpTo /\ UpTo \in Nat
  BY UpToFacts DEF Opens, Team, UpTo
<1>2. ASSUME NEW u \in Team PROVE InNodes(u, k)'
  <2>1. Joined(u)' /\ Fresh(u, k)'
    BY DEF Opens, Joined, Fresh
  <2>2. At(u, "node")'
    BY DEF Opens, At
  <2>3. Skip(k, node[u])'
    BY <1>1 DEF Skip, Opens
  <2> QED
    BY <2>1, <2>2, <2>3 DEF InNodes, Placed, Before
<1>3. \A j \in 1 .. k : Executor!Complete(j)'
  BY FrameComplete DEF Opens
<1>4. Busy(k)'
  BY <1>1, <1>3, OpensEmpty DEF Busy, Opens
<1>5. NodesStretch(k)'
  BY <1>1, <1>2 DEF NodesStretch, Opens
<1> QED
  BY <1>4, <1>5 DEF TeamInv

\* The graph is over.
LEMMA OpensOver ==
  ASSUME PTypeInv, Opens, n_graph[2] > 0, n_threads = n_graph[2],
         \A u \in Team : Joined(u) /\ ret[u] = Home(u),
         \A j \in 1 .. UpTo : Executor!Complete(j)
  PROVE  TeamInv'
<1>1. Team' = Team /\ UpTo' = UpTo
  BY DEF Opens, Team, UpTo
<1>2. 0 \in Team
  BY PoolAssumption DEF Team, Threads
<1>3. ASSUME NEW u \in Threads PROVE Off(u)'
  <2>1. CASE u = 0
    BY <1>2, <2>1 DEF Opens, Off, Home
  <2>2. CASE u # 0 /\ u \in Team
    <3>1. Resting(u)'
      BY <2>2 DEF Opens, Resting, Home, Waiting
    <3> QED
      BY <2>2, <3>1 DEF Off, Opens, Joined
  <2>3. CASE u # 0 /\ u \notin Team
    BY <2>3 DEF Off, Opens, Team
  <2> QED
    BY <2>1, <2>2, <2>3
<1>4. \A j \in 1 .. UpTo : Executor!Complete(j)'
  BY FrameComplete DEF Opens
<1>5. pc'[0] # "kickoff"
  BY <1>2 DEF Opens, Home
<1> QED
  BY <1>1, <1>3, <1>4, <1>5 DEF TeamInv, Over, Opens

\* The threads held at the end of a stretch of nodes are held by one barrier.
LEMMA Agree ==
  ASSUME PTypeInv, NEW b \in Nat, NEW t \in Threads, NEW u \in Threads,
         InNodes(t, b), pc[t] \in InBarrier, ~Released(t),
         InNodes(u, b), pc[u] \in InBarrier, ~Released(u)
  PROVE  /\ node[t] = node[u]
         /\ ret[t] = ret[u] \/ (ret[t] = Home(t) /\ ret[u] = Home(u))
<1> USE DEF InBarrier, Waiting
<1>1. UpTo \in Nat /\ UpTo <= Len(cgraph) /\ Len(cgraph) \in Nat
  <2>1. cgraph \in Seq(Nodes)
    BY DEF PTypeInv
  <2> QED
    BY <2>1, UpToFacts
<1> DEFINE AtProduct(v) == ret[v] = "chunks" /\ In(v, b, "mul_mat")
           AtRows(v)    == ret[v] = "node" /\ After(v, b) /\ node[v] < Len(cgraph)
           AtViews(v)   == ret[v] = Home(v) /\ Before(v, b) /\ node[v] = UpTo
           AtEnd(v)     == ret[v] = Home(v) /\ After(v, b) /\ node[v] = Len(cgraph)
           Stops(v, e)  ==
             /\ b <= e /\ \A j \in b .. (e - 1) : Op(j) = "none"
             /\ \/ ret[v] = "chunks" /\ node[v] = e /\ e < UpTo /\ Op(e) = "mul_mat"
                \/ /\ ret[v] = "node" /\ node[v] = e + 1 /\ e < UpTo
                   /\ Op(e) = "rows" /\ e + 1 < Len(cgraph)
                \/ ret[v] = Home(v) /\ node[v] = UpTo /\ e = UpTo
                \/ /\ ret[v] = Home(v) /\ node[v] = e + 1 /\ e < UpTo
                   /\ Op(e) = "rows" /\ e + 1 = Len(cgraph)
<1>2. ASSUME NEW v \in Threads, InNodes(v, b), pc[v] \in InBarrier, ~Released(v)
      PROVE  \E e \in Nat : Stops(v, e)
  <2>1. AtProduct(v) \/ AtRows(v) \/ AtViews(v) \/ AtEnd(v)
    BY <1>2 DEF InNodes, Resting, Placed, At, Held
  <2>2. node[v] \in Nat
    BY DEF PTypeInv, PTypeOK
  <2>3. CASE AtProduct(v)
    <3>1. Stops(v, node[v])
      BY <1>1, <2>2, <2>3 DEF In, Skip
    <3> QED
      BY <2>2, <3>1
  <2>4. CASE AtRows(v)
    <3>1. Stops(v, node[v] - 1)
      BY <1>1, <2>2, <2>4 DEF After, Skip
    <3>2. node[v] - 1 \in Nat
      BY <2>2, <2>4 DEF After
    <3> QED
      BY <3>1, <3>2
  <2>5. CASE AtViews(v)
    <3>1. Stops(v, node[v])
      BY <1>1, <2>2, <2>5 DEF Before, Skip
    <3> QED
      BY <2>2, <3>1
  <2>6. CASE AtEnd(v)
    <3>1. Stops(v, node[v] - 1)
      BY <1>1, <2>2, <2>6 DEF After, Skip
    <3>2. node[v] - 1 \in Nat
      BY <2>2, <2>6 DEF After
    <3> QED
      BY <3>1, <3>2
  <2> QED
    BY <2>1, <2>3, <2>4, <2>5, <2>6
<1>3. PICK et \in Nat : Stops(t, et)
  BY <1>2
<1>4. PICK eu \in Nat : Stops(u, eu)
  BY <1>2
<1>5. ~(et < eu) /\ ~(eu < et)
  BY <1>1, <1>3, <1>4
<1>6. et = eu
  BY <1>5
<1> QED
  BY <1>1, <1>3, <1>4, <1>6

\* The parts of the nodes before node e: views have none.
LEMMA CompleteSkip ==
  ASSUME PTypeInv, NEW b \in Nat, NEW e \in Nat, Skip(b, e),
         \A k \in 1 .. b : Executor!Complete(k), n_threads = n_graph[2]
  PROVE  \A k \in 1 .. e : Executor!Complete(k)
<1> TAKE k \in 1 .. e
<1>1. CASE k <= b
  BY <1>1
<1>2. CASE k > b
  <2>1. k - 1 \in Nat /\ k - 1 < Len(cgraph) /\ Len(cgraph) \in Nat
    BY <1>2, UpToFacts DEF Skip, PTypeInv
  <2>2. cgraph[k] \in Nodes
    <3>1. cgraph[(k - 1) + 1] \in Nodes
      BY <2>1, NodeFacts
    <3> QED
      BY <3>1
  <2>3. cgraph[k].op = "none"
    <3>1. Op(k - 1) = "none"
      BY <1>2 DEF Skip
    <3>2. (k - 1) + 1 = k
      OBVIOUS
    <3> QED
      BY <3>1, <3>2 DEF Op
  <2>4. n_threads \in Nat
    BY DEF PTypeInv, PTypeOK
  <2>5. Executor!Parts(cgraph[k], n_threads) = {}
    BY <2>2, <2>3, <2>4, PartsFacts
  <2> QED
    BY <2>5 DEF Executor!Complete
<1> QED
  BY <1>1, <1>2

\* Everybody held behind an element-wise node: the node is complete.
LEMMA CompleteRows ==
  ASSUME PTypeInv, NEW b \in Nat, NEW e \in Nat, b <= e, e < Len(cgraph), Op(e) = "rows",
         n_threads = n_graph[2], \A u \in Team : Did(u, b, e + 1)
  PROVE  Executor!Complete(e + 1)
<1>1. n_threads \in Nat /\ n_threads <= Pool
  BY PoolAssumption DEF PTypeInv, PTypeOK
<1>2. Executor!Parts(cgraph[e + 1], n_threads) = 0 .. (n_threads - 1)
  BY <1>1, NodeFacts, PartsFacts DEF Op
<1>3. \A c \in 0 .. (n_threads - 1) : <<e + 1, c>> \in computed
  BY <1>1, PoolAssumption DEF Did, Team, Threads
<1> QED
  BY <1>2, <1>3 DEF Executor!Complete

\* The barrier at the end of a stretch of nodes opens.
LEMMA OpensAfterNodes ==
  ASSUME PTypeInv, NEW b \in Nat, Busy(b), NodesStretch(b), Opens
  PROVE  TeamInv'
<1>0. n_graph[2] \in Nat /\ n_graph[2] > 0 /\ n_graph[2] <= Pool /\ n_threads = n_graph[2]
  BY PoolAssumption DEF Busy, PTypeInv, PTypeOK
<1>1. 0 \in Team /\ Team \subseteq Threads
  BY <1>0, PoolAssumption DEF Team, Threads
<1>2. \A u \in Team : Joined(u) /\ Placed(u, b)
  BY DEF NodesStretch, InNodes, Opens, Resting, InBarrier, Waiting
<1>3. \A u \in Team : /\ node[u] = node[0]
                      /\ ret[u] = ret[0] \/ (ret[u] = Home(u) /\ ret[0] = Home(0))
  BY <1>1, Agree DEF NodesStretch, Opens
<1>4. \A u \in Team : node[u] \in Nat
  BY <1>1 DEF PTypeInv, PTypeOK
<1>5. UpTo \in Nat /\ UpTo <= Len(cgraph) /\ Len(cgraph) \in Nat
  BY UpToFacts DEF PTypeInv
<1>6. CASE ret[0] = "chunks"
  <2>0. PICK e \in Nat : e = node[0]
    BY <1>1, <1>4
  <2>1. ASSUME NEW u \in Team
        PROVE  /\ ret[u] = "chunks" /\ node[u] = e /\ In(u, b, "mul_mat") /\ Fresh(u, b)
               /\ chunk[u] = u /\ (u = 0 => current_chunk = n_graph[2])
    BY <1>2, <1>3, <1>6, <2>0 DEF Placed, Opens, At, Held, Home, InBarrier
  <2>2. e \in Nat /\ b <= e /\ e < UpTo /\ Op(e) = "mul_mat" /\ Skip(b, e)
    BY <1>1, <1>4, <2>1 DEF In, Skip
  <2>3. current_chunk = n_graph[2]
    BY <1>1, <2>1
  <2>4. \A p \in computed : p[1] <= b
    <3> TAKE p \in computed
    <3>1. p \in Nat \X Nat
      BY DEF PTypeInv
    <3>2. p[1] <= b \/ p[2] \in Team
      BY DEF NodesStretch
    <3>3. p = <<p[1], p[2]>> /\ p[1] \in Nat
      BY <3>1
    <3>4. p[2] \in Team => ~(p[1] > b)
      BY <2>1, <3>3 DEF Fresh
    <3> QED
      BY <3>2, <3>3, <3>4
  <2>5. Team' = Team /\ UpTo' = UpTo
    BY DEF Team, UpTo, Opens
  <2>6. \A u \in Team : At(u, "chunks")'
    BY <2>1 DEF Opens, At
  <2>7. \A u \in Team : InProduct(u, e)'
    BY <1>0, <1>2, <2>1, <2>3, <2>6 DEF InProduct, Opens, Joined, Team, Threads
  <2>8. Shared(e)'
    <3>1. \A c \in Nat : <<e + 1, c>> \notin computed
      BY <2>2, <2>4
    <3>2. \A c \in Nat : c < n_graph[2] => c \in Team
      BY <1>0, PoolAssumption DEF Team, Threads
    <3>3. \A p \in computed : p[1] <= e + 1
      BY <2>2, <2>4 DEF PTypeInv
    <3>4. \A c \in Nat : c < current_chunk => \E u \in Team : At(u, "chunks")' /\ chunk'[u] = c
      BY <2>1, <2>3, <2>6, <3>2 DEF Opens
    <3> QED
      BY <1>0, <2>1, <2>3, <2>5, <2>6, <3>1, <3>3, <3>4 DEF Shared, Opens
  <2>9. \A k \in 1 .. e : Executor!Complete(k)
    BY <2>2, CompleteSkip DEF Busy
  <2>10. Busy(e)'
    BY <2>2, <2>5, <2>9, <1>5, FrameComplete, OpensEmpty DEF Busy, Opens
  <2>11. ProductStretch(e)'
    BY <2>2, <2>5, <2>7, <2>8 DEF ProductStretch, Opens, Op
  <2> QED
    BY <2>2, <2>10, <2>11 DEF TeamInv
<1>7. CASE ret[0] = "node"
  <2>1. ASSUME NEW u \in Team
        PROVE  ret[u] = "node" /\ node[u] = node[0] /\ After(u, b) /\ Joined(u)
    BY <1>2, <1>3, <1>7 DEF Placed, Opens, At, Held, Home, InBarrier
  <2>2. PICK e \in Nat : node[0] = e + 1 /\ b <= e /\ e < UpTo /\ Skip(b, e) /\ Op(e) = "rows"
    <3>1. After(0, b) /\ node[0] \in Nat
      BY <1>1, <1>4, <2>1
    <3>2. node[0] - 1 \in Nat
      BY <3>1 DEF After
    <3>3. node[0] = (node[0] - 1) + 1
      BY <3>1
    <3> QED
      BY <1>5, <3>1, <3>2, <3>3 DEF After, Skip
  <2>3. \A k \in 1 .. (e + 1) : Executor!Complete(k)
    <3>1. \A k \in 1 .. e : Executor!Complete(k)
      BY <1>0, <2>2, CompleteSkip DEF Busy
    <3>2. Executor!Complete(e + 1)
      BY <1>0, <1>5, <2>1, <2>2, CompleteRows DEF After
    <3> QED
      BY <3>1, <3>2
  <2>4. \A u \in Team : Fresh(u, e + 1)
    BY <2>1, <2>2 DEF After, Did, Fresh
  <2>5. \A p \in computed : p[1] <= e + 1 \/ p[2] \in Team
    BY <2>2 DEF NodesStretch, PTypeInv
  <2> QED
    BY <1>0, <1>5, <2>1, <2>2, <2>3, <2>4, <2>5, OpensNodes
<1>8. CASE ret[0] = "idle"
  <2>1. ASSUME NEW u \in Team
        PROVE  ret[u] = Home(u) /\ Joined(u) /\ node[u] = node[0]
               /\ \/ Before(u, b) /\ node[u] = UpTo
                  \/ After(u, b) /\ node[u] = Len(cgraph)
    BY <1>2, <1>3, <1>8 DEF Placed, Opens, At, Held, Home, InBarrier
  <2>2. CASE Before(0, b) /\ node[0] = UpTo
    <3>1. \A k \in 1 .. UpTo : Executor!Complete(k)
      BY <1>0, <1>5, <2>2, CompleteSkip DEF Busy, Before
    <3> QED
      BY <1>0, <2>1, <3>1, OpensOver
  <2>3. CASE After(0, b) /\ node[0] = Len(cgraph)
    <3>1. PICK e \in Nat : /\ node[0] = e + 1 /\ e + 1 = UpTo /\ UpTo = Len(cgraph)
                           /\ b <= e /\ Skip(b, e) /\ Op(e) = "rows"
      <4>1. node[0] \in Nat /\ node[0] - 1 \in Nat /\ node[0] = (node[0] - 1) + 1
        BY <1>1, <1>4, <2>3 DEF After
      <4>2. b <= node[0] - 1 /\ Skip(b, node[0] - 1) /\ Op(node[0] - 1) = "rows" /\ node[0] <= UpTo
        BY <2>3, <4>1 DEF After
      <4>3. UpTo = Len(cgraph)
        BY <1>5, <2>3, <4>2
      <4> QED
        BY <2>3, <4>1, <4>2, <4>3
    <3>2. \A u \in Team : After(u, b)
      BY <1>5, <2>1, <3>1 DEF Before, Skip
    <3>3. \A k \in 1 .. e : Executor!Complete(k)
      BY <1>0, <3>1, CompleteSkip DEF Busy
    <3>4. Executor!Complete(e + 1)
      BY <1>0, <1>5, <2>1, <3>1, <3>2, CompleteRows DEF After
    <3>5. \A k \in 1 .. UpTo : Executor!Complete(k)
      BY <3>1, <3>3, <3>4
    <3> QED
      BY <1>0, <2>1, <3>5, OpensOver
  <2> QED
    BY <1>1, <2>1, <2>2, <2>3
<1> QED
  <2>1. ret[0] \in {"chunks", "node", "idle"}
    BY <1>1, <1>2 DEF Placed, Opens, At, Held, Home, InBarrier
  <2> QED
    BY <1>6, <1>7, <1>8, <2>1

\* The barrier at the end of a product opens: every chunk was handed out, and
\* nobody holds one.
LEMMA OpensAfterProduct ==
  ASSUME PTypeInv, NEW b \in Nat, Busy(b), ProductStretch(b), Opens
  PROVE  TeamInv'
<1>0. n_graph[2] \in Nat /\ n_graph[2] > 0 /\ n_graph[2] <= Pool /\ n_threads = n_graph[2]
  BY PoolAssumption DEF Busy, PTypeInv, PTypeOK
<1>1. 0 \in Team /\ Team \subseteq Threads
  BY <1>0, PoolAssumption DEF Team, Threads
<1>2. UpTo \in Nat /\ UpTo <= Len(cgraph) /\ Len(cgraph) \in Nat /\ b < UpTo
  BY UpToFacts DEF PTypeInv, ProductStretch
<1>3. ASSUME NEW u \in Team
      PROVE  /\ Joined(u) /\ ~At(u, "chunks") /\ current_chunk >= NParts(b) /\ node[u] = b + 1
             /\ \/ ret[u] = "node" /\ b + 1 < Len(cgraph)
                \/ ret[u] = Home(u) /\ b + 1 = Len(cgraph)
  BY DEF ProductStretch, InProduct, Opens, At, Held, InBarrier
<1>4. NParts(b) \in Nat /\ Executor!Parts(cgraph[b + 1], n_threads) = 0 .. (NParts(b) - 1)
  <2>1. cgraph[b + 1] \in Nodes /\ cgraph[b + 1].op = "mul_mat"
    BY <1>2, NodeFacts DEF ProductStretch, Op
  <2> QED
    BY <1>0, <2>1, PartsFacts DEF NParts
<1>5. Executor!Complete(b + 1)
  <2>1. current_chunk \in Nat
    BY DEF PTypeInv, PTypeOK
  <2>2. \A c \in 0 .. (NParts(b) - 1) : <<b + 1, c>> \in computed
    BY <1>1, <1>3, <1>4, <2>1 DEF ProductStretch, Shared
  <2> QED
    BY <1>4, <2>2 DEF Executor!Complete
<1>6. \A k \in 1 .. (b + 1) : Executor!Complete(k)
  BY <1>5 DEF Busy
<1>7. \A p \in computed : p[1] <= b + 1
  BY DEF ProductStretch, Shared
<1>8. CASE b + 1 < Len(cgraph)
  <2>1. \A u \in Team : Fresh(u, b + 1)
    <3> SUFFICES ASSUME NEW u \in Team, NEW j \in Nat, j > b + 1, <<j, u>> \in computed
                 PROVE  FALSE
      BY DEF Fresh
    <3>1. <<j, u>>[1] <= b + 1
      BY <1>7
    <3> QED
      BY <3>1
  <2> QED
    BY <1>0, <1>2, <1>3, <1>6, <1>7, <1>8, <2>1, OpensNodes
<1>9. CASE b + 1 = Len(cgraph)
  <2>1. UpTo = b + 1
    BY <1>2, <1>9
  <2> QED
    BY <1>0, <1>3, <1>6, <1>9, <2>1, OpensOver
<1> QED
  BY <1>1, <1>3, <1>8, <1>9

-----------------------------------------------------------------------------
(* Steps of single threads, in general.                                    *)

\* A step of a thread changes the locals of no other thread.
LEMMA OneThread ==
  ASSUME PTypeInv, NEW t \in Threads,
         ComputeThread(t) \/ (t # 0 /\ (WaitForWork(t) \/ SpuriousWakeup(t)))
  PROVE  /\ \A u \in Threads \ {t} : Same(u)
         /\ UNCHANGED <<cgraph, n_threads, n_graph>>
<1> USE DEF PTypeInv, PTypeOK, Same, plan, flags, bar, work, Goto, Workers, Threads
<1>1. CASE Enter(t) \/ LoopEnds(t) \/ BeginNode(t) \/ Convert(t)
  BY <1>1 DEF Enter, LoopEnds, BeginNode, Convert, EnterBarrier
<1>2. CASE ComputeChunk(t) \/ GrabChunk(t)
  BY <1>2 DEF ComputeChunk, GrabChunk
<1>3. CASE EndNode(t)
  BY <1>3 DEF EndNode, EnterBarrier
<1>4. CASE Barrier(t)
  BY <1>4 DEF Barrier, ReadRound, Arrive, ResetBarrier, OpenBarrier, Spin
<1>5. CASE t # 0 /\ (WaitForWork(t) \/ SpuriousWakeup(t))
  <2>1. CASE Top(t)
    BY <2>1 DEF Top
  <2>2. CASE SpuriousWakeup(t)
    BY <2>2 DEF SpuriousWakeup
  <2>3. ASSUME NEW l, Look(t, l) \/ (Goto(t, l) /\ UNCHANGED last_graph)
        PROVE  \A u \in Threads \ {t} : pc'[u] = pc[u] /\ (u # 0 => last_graph'[u] = last_graph[u])
    <3> SUFFICES ASSUME NEW u \in Threads \ {t}
                 PROVE  pc'[u] = pc[u] /\ (u # 0 => last_graph'[u] = last_graph[u])
      OBVIOUS
    <3>1. u # 0 => u \in Workers
      BY PoolAssumption
    <3>2. PICK m : pc' = [pc EXCEPT ![t] = m]
      BY <2>3 DEF Look
    <3>3. last_graph' = last_graph \/ last_graph' = [last_graph EXCEPT ![t] = n_graph]
      BY <2>3 DEF Look
    <3> QED
      BY <3>1, <3>2, <3>3
  <2>4. CASE Poll(t)
    BY <2>3, <2>4 DEF Poll
  <2>5. CASE LockAndTest(t)
    BY <2>3, <2>5 DEF LockAndTest
  <2> QED
    BY <1>5, <2>1, <2>2, <2>4, <2>5 DEF WaitForWork
<1> QED
  BY <1>1, <1>2, <1>3, <1>4, <1>5 DEF ComputeThread

\* A thread outside the team, at rest before and after its step.
LEMMA BystanderStep ==
  ASSUME PTypeInv, NEW b \in Nat, Busy(b), NodesStretch(b) \/ ProductStretch(b),
         NEW t \in Threads \ Team, \A u \in Threads \ {t} : Same(u),
         UNCHANGED <<cgraph, abort, n_threads, n_graph, n_barrier, n_barrier_passed,
                     current_chunk, computed>>,
         Resting(t)'
  PROVE  TeamInv'
<1>1. Team' = Team /\ Team \subseteq Threads /\ UpTo' = UpTo /\ Op(b)' = Op(b)
  BY DEF Team, UpTo, Op
<1>2. BarrierInv'
  <2>1. Resting(t)
    BY DEF Busy
  <2>2. ~Counted(t) /\ ~Counted(t)' /\ pc'[t] # "arrive"
    BY <2>1 DEF Resting, Counted, Waiting, Released
  <2> QED
    BY <2>2, FrameBarrier DEF Busy, Same
<1>3. ASSUME NEW u \in Threads \ Team PROVE Resting(u)'
  BY FrameResting DEF Busy
<1>4. \A k \in 1 .. b : Executor!Complete(k)'
  BY FrameComplete DEF Busy
<1>5. Busy(b)'
  BY <1>1, <1>2, <1>3, <1>4 DEF Busy
<1>6. CASE NodesStretch(b)
  <2>1. ASSUME NEW u \in Team PROVE InNodes(u, b)'
    BY <1>1, <1>6, FrameNodes DEF NodesStretch, SameParts
  <2>2. NodesStretch(b)'
    BY <1>1, <1>6, <2>1 DEF NodesStretch
  <2> QED
    BY <1>5, <2>2 DEF TeamInv
<1>7. CASE ProductStretch(b)
  <2>1. b < Len(cgraph) /\ current_chunk \in Nat
    <3>1. UpTo \in Nat /\ UpTo <= Len(cgraph)
      BY UpToFacts
    <3> QED
      BY <1>7, <3>1, SMTT(30) DEF PTypeInv, PTypeOK, ProductStretch
  <2>2. ASSUME NEW u \in Team PROVE InProduct(u, b)'
    BY <1>1, <1>7, <2>1, FrameProduct DEF ProductStretch
  <2>3. \A u \in Team : (At(u, "chunks")' <=> At(u, "chunks")) /\ chunk'[u] = chunk[u]
    BY <1>1 DEF At, Released, Same
  <2>4. NParts(b)' = NParts(b)
    BY DEF NParts, Executor!NChunk
  <2>5. Shared(b)'
    BY <1>1, <1>7, <2>3, <2>4 DEF ProductStretch, Shared
  <2>6. ProductStretch(b)'
    BY <1>1, <1>7, <2>2, <2>5 DEF ProductStretch
  <2> QED
    BY <1>5, <2>6 DEF TeamInv
<1> QED
  BY <1>6, <1>7

\* A thread when there is no graph.
LEMMA OverStep ==
  ASSUME PTypeInv, Over, NEW t \in Threads, \A u \in Threads \ {t} : Same(u),
         UNCHANGED <<cgraph, abort, n_threads, n_graph, n_barrier, n_barrier_passed, computed>>,
         Off(t)', t = 0 => pc[0] = "spin" /\ pc'[0] = "idle"
  PROVE  TeamInv'
<1>1. ASSUME NEW u \in Threads PROVE Off(u)'
  <2>1. CASE u # t
    BY <2>1 DEF Over, Off, Same, Resting, Released
  <2> QED
    BY <2>1
<1>2. pc'[0] = pc[0] \/ (pc[0] = "spin" /\ pc'[0] = "idle")
  BY PoolAssumption DEF Same, Threads
<1>3. pc[0] \in {"spin", "idle"} => \A k \in 1 .. UpTo' : Executor!Complete(k)'
  BY FrameComplete DEF Over, UpTo
<1> QED
  BY <1>1, <1>2, <1>3 DEF TeamInv, Over

\* The chunks of a product, in a step that takes and computes none.
LEMMA FrameShared ==
  ASSUME NEW b \in Nat, Shared(b),
         \A u \in Team : (At(u, "chunks")' <=> At(u, "chunks")) /\ (At(u, "chunks") => chunk'[u] = chunk[u]),
         UNCHANGED <<cgraph, n_graph, current_chunk, computed>>
  PROVE  Shared(b)'
<1>1. Team' = Team
  BY DEF Team
<1>2. NParts(b)' = NParts(b)
  BY DEF NParts, Executor!NChunk
<1> QED
  BY <1>1, <1>2 DEF Shared

\* A worker that waits goes on waiting, or joins a graph that wants it.
LEMMA WaitEffect ==
  ASSUME PTypeInv, NEW t \in Workers, WaitForWork(t) \/ SpuriousWakeup(t)
  PROVE  /\ pc[t] \in Waiting
         /\ \/ pc'[t] \in Waiting /\ last_graph'[t] = last_graph[t]
            \/ pc'[t] \in Waiting /\ last_graph'[t] = n_graph /\ ~(t < n_graph[2])
            \/ /\ pc'[t] = "enter" /\ last_graph'[t] = n_graph /\ t < n_graph[2]
               /\ last_graph[t] # n_graph
         /\ UNCHANGED <<plan, flags, bar, work, ret>>
<1> USE DEF Waiting, Goto, Workers, Threads
<1>1. t \in Threads /\ \A l : Goto(t, l) => pc'[t] = l
  BY PoolAssumption DEF PTypeInv, PTypeOK
<1>2. CASE Top(t)
  BY <1>1, <1>2 DEF Top
<1>3. CASE SpuriousWakeup(t)
  BY <1>1, <1>3 DEF SpuriousWakeup, Awake
<1>4. ASSUME NEW l \in Waiting, \/ Ready(t) /\ Look(t, l)
                                \/ ~Ready(t) /\ Goto(t, l) /\ UNCHANGED last_graph
      PROVE  \/ pc'[t] \in Waiting /\ last_graph'[t] = last_graph[t]
             \/ pc'[t] \in Waiting /\ last_graph'[t] = n_graph /\ ~(t < n_graph[2])
             \/ /\ pc'[t] = "enter" /\ last_graph'[t] = n_graph /\ t < n_graph[2]
                /\ last_graph[t] # n_graph
  <2>1. CASE Goto(t, l) /\ UNCHANGED last_graph
    BY <1>1, <2>1
  <2>2. CASE /\ last_graph' = [last_graph EXCEPT ![t] = n_graph]
             /\ Goto(t, IF t < n_graph[2] THEN "enter" ELSE l) /\ n_graph # last_graph[t]
    <3>1. last_graph'[t] = n_graph
      BY <2>2 DEF PTypeInv, PTypeOK
    <3>2. pc'[t] = IF t < n_graph[2] THEN "enter" ELSE l
      BY <1>1, <2>2
    <3> QED
      BY <2>2, <3>1, <3>2
  <2> QED
    BY <1>4, <2>1, <2>2 DEF Ready, Look
<1>5. CASE Poll(t)
  BY <1>4, <1>5 DEF Poll
<1>6. CASE LockAndTest(t)
  BY <1>4, <1>6 DEF LockAndTest
<1> QED
  BY <1>2, <1>3, <1>5, <1>6 DEF WaitForWork

\* The steps of a worker that waits keep the team together.
LEMMA WaitInv ==
  ASSUME PTypeInv, TeamInv, NEW t \in Workers, WaitForWork(t) \/ SpuriousWakeup(t)
  PROVE  TeamInv'
<1>1. t \in Threads /\ t # 0
  BY PoolAssumption DEF Workers, Threads
<1>2. \A u \in Threads \ {t} : Same(u)
  BY <1>1, OneThread
<1>3. /\ pc[t] \in Waiting
      /\ \/ pc'[t] \in Waiting /\ last_graph'[t] = last_graph[t]
         \/ pc'[t] \in Waiting /\ last_graph'[t] = n_graph /\ ~(t < n_graph[2])
         \/ /\ pc'[t] = "enter" /\ last_graph'[t] = n_graph /\ t < n_graph[2]
            /\ last_graph[t] # n_graph
      /\ UNCHANGED <<plan, flags, bar, work, ret>>
  BY WaitEffect
<1>4. UNCHANGED <<cgraph, n_threads, abort, n_graph, n_barrier, n_barrier_passed, n_passed,
                  node, nth, chunk, current_chunk, computed, ret>>
  BY <1>3 DEF plan, flags, bar, work
<1>5. CASE Over
  <2>1. Off(t)'
    BY <1>1, <1>3, <1>4, <1>5 DEF Over, Off, Resting
  <2> QED
    BY <1>1, <1>2, <1>4, <1>5, <2>1, OverStep
<1>6. ASSUME NEW b \in Nat, Busy(b), NodesStretch(b) \/ ProductStretch(b) PROVE TeamInv'
  <2>1. CASE t \notin Team
    <3>1. Resting(t)'
      BY <1>1, <1>3, <2>1 DEF Resting, Team
    <3> QED
      BY <1>1, <1>2, <1>4, <1>6, <2>1, <3>1, BystanderStep
  <2>2. CASE t \in Team
    <3>1. NodesStretch(b) /\ Resting(t) /\ last_graph[t] # n_graph /\ b = 0 /\ Fresh(t, b)
      <4>1. ~Joined(t) \/ (~Placed(t, b) /\ ~InProduct(t, b))
        BY <1>3 DEF InProduct, Placed, At, Held, Released, Waiting, InBarrier
      <4> QED
        BY <1>3, <1>6, <2>2, <4>1 DEF NodesStretch, ProductStretch, InNodes, InProduct, Waiting
    <3>2. Fresh(t, b)'
      BY <1>4, <3>1 DEF Fresh
    <3>3. InNodes(t, b)'
      BY <1>1, <1>3, <1>4, <2>2, <3>1, <3>2 DEF InNodes, Resting, Team
    <3>4. BarrierInv'
      <4>1. ~Counted(t) /\ ~Counted(t)' /\ pc'[t] # "arrive"
        BY <1>3 DEF Counted, Waiting
      <4> QED
        BY <1>2, <1>4, <1>6, <4>1, FrameBarrier DEF Busy, Same
    <3>5. \A u \in Threads \ {t} : Same(u) /\ SameParts(u)
      BY <1>2, <1>4 DEF SameParts
    <3> QED
      BY <1>4, <1>6, <2>2, <3>1, <3>3, <3>4, <3>5, NodesStep
  <2> QED
    BY <2>1, <2>2
<1> QED
  BY <1>5, <1>6 DEF TeamInv

\* A thread leaves a barrier that opened before.
LEMMA SpinInv ==
  ASSUME PTypeInv, TeamInv, NEW t \in Threads, Spin(t)
  PROVE  TeamInv'
<1>1. \A u \in Threads \ {t} : Same(u)
  BY OneThread DEF ComputeThread, Barrier
<1>2. pc[t] = "spin" /\ Released(t) /\ pc'[t] = ret[t]
  BY DEF Spin, Released, Goto, PTypeInv, PTypeOK
<1>3. UNCHANGED <<cgraph, n_threads, abort, n_graph, n_barrier, n_barrier_passed, n_passed,
                  node, nth, chunk, current_chunk, computed, ret, last_graph>>
  BY DEF Spin, plan, flags, bar, work
<1>4. CASE Over
  <2>1. Off(t)' /\ (t = 0 => pc[0] = "spin" /\ pc'[0] = "idle")
    BY <1>2, <1>3, <1>4 DEF Over, Off, Resting, Waiting
  <2> QED
    BY <1>1, <1>3, <1>4, <2>1, OverStep
<1>5. ASSUME NEW b \in Nat, Busy(b), NodesStretch(b) \/ ProductStretch(b) PROVE TeamInv'
  <2>1. CASE t \notin Team
    <3>1. Resting(t)'
      BY <1>2, <1>5, <2>1 DEF Busy, Resting, Waiting
    <3> QED
      BY <1>1, <1>3, <1>5, <2>1, <3>1, BystanderStep
  <2>2. BarrierInv'
    <3>1. ~Counted(t) /\ ~Counted(t)' /\ pc'[t] # "arrive"
      BY <1>2 DEF Counted, PTypeInv, PTypeOK
    <3> QED
      BY <1>1, <1>3, <1>5, <3>1, FrameBarrier DEF Busy, Same
  <2>3. CASE t \in Team /\ NodesStretch(b)
    <3>1. \/ Resting(t) /\ ret[t] = "top" /\ last_graph[t] # n_graph /\ b = 0 /\ Fresh(t, b)
          \/ Joined(t) /\ ret[t] = "node" /\ Before(t, b)
      BY <1>2, <2>3 DEF NodesStretch, InNodes, Resting, Placed, At, Held, Waiting
    <3>2. /\ Fresh(t, b)' <=> Fresh(t, b)
          /\ Before(t, b)' <=> Before(t, b)
          /\ Joined(t)' <=> Joined(t)
      BY <1>3 DEF Fresh, Before, Joined, Skip, UpTo, Op
    <3>3. InNodes(t, b)'
      BY <1>2, <1>3, <3>1, <3>2 DEF InNodes, Placed, Resting, At, Waiting
    <3>4. \A u \in Threads \ {t} : Same(u) /\ SameParts(u)
      BY <1>1, <1>3 DEF SameParts
    <3> QED
      BY <1>3, <1>5, <2>2, <2>3, <3>3, <3>4, NodesStep
  <2>4. CASE t \in Team /\ ProductStretch(b)
    <3>1. Joined(t) /\ ret[t] = "chunks" /\ node[t] = b /\ chunk[t] < current_chunk
      BY <1>2, <2>4 DEF ProductStretch, InProduct, At, Held
    <3>2. InProduct(t, b)'
      BY <1>2, <1>3, <3>1 DEF InProduct, Joined, At
    <3>3. Shared(b)'
      <4>1. \A u \in Team : At(u, "chunks")' <=> At(u, "chunks")
        BY <1>1, <1>2, <1>3, <3>1 DEF At, Released, Same, Team
      <4> QED
        BY <1>3, <2>4, <4>1, FrameShared DEF ProductStretch
    <3>4. UpTo' \in Nat /\ b < UpTo' /\ current_chunk \in Nat
      BY <1>3, <2>4, UpToFacts DEF UpTo, ProductStretch, PTypeInv, PTypeOK
    <3> QED
      BY <1>1, <1>3, <1>5, <2>2, <2>4, <3>2, <3>3, <3>4, ProductStep
  <2> QED
    BY <1>5, <2>1, <2>3, <2>4
<1> QED
  BY <1>4, <1>5 DEF TeamInv

-----------------------------------------------------------------------------
(* The caller.                                                             *)

\* The caller is outside ggml_graph_compute, or starts it, only between graphs.
LEMMA CallerOver ==
  ASSUME PTypeInv, TeamInv, pc[0] \in {"idle", "kickoff", "join", "freed"}
  PROVE  Over
<1> SUFFICES ASSUME NEW b \in Nat, Busy(b), NodesStretch(b) \/ ProductStretch(b) PROVE FALSE
  BY DEF TeamInv
<1>1. 0 \in Team
  BY PoolAssumption DEF Busy, Team, Threads
<1>2. ~Placed(0, b) /\ ~InProduct(0, b) /\ ~Resting(0) /\ pc[0] # "enter"
  BY DEF Placed, InProduct, Resting, At, Held, Released, InBarrier
<1> QED
  BY <1>1, <1>2 DEF NodesStretch, ProductStretch, InNodes

\* A wake-up disturbs nobody who does not sleep.
LEMMA BroadcastRests ==
  ASSUME PTypeInv, Over, NEW l, Broadcast(l), UNCHANGED <<n_passed, n_barrier_passed, ret>>,
         NEW u \in Threads, u # 0
  PROVE  Resting(u)'
<1>1. Resting(u)
  BY DEF Over, Off
<1>2. pc'[u] = Awake(pc[u])
  BY DEF Broadcast
<1>3. CASE pc[u] \in Waiting
  BY <1>2, <1>3 DEF Resting, Waiting, Awake
<1>4. CASE Released(u) /\ ret[u] = "top"
  BY <1>2, <1>4 DEF Resting, Released, Awake
<1> QED
  BY <1>1, <1>3, <1>4 DEF Resting

\* A new graph.
LEMMA SetGraphInv ==
  ASSUME PTypeInv, TeamInv, NEW g \in Graphs, NEW n \in Plans, SetGraph(g, n)
  PROVE  TeamInv'
<1>1. Over
  BY CallerOver DEF SetGraph
<1>2. ASSUME NEW u \in Threads PROVE Off(u)'
  BY <1>1 DEF SetGraph, Over, Off, Resting, Released, Goto, flags, bar, PTypeInv, PTypeOK
<1>3. n_threads' > 0
  BY PoolAssumption, PlansAssumption DEF SetGraph
<1>4. pc'[0] = "kickoff"
  BY PoolAssumption DEF SetGraph, Goto, PTypeInv, PTypeOK, Threads
<1> QED
  BY <1>1, <1>2, <1>3, <1>4 DEF TeamInv, Over, SetGraph, bar

\* The kickoff makes a team, which is at node 0.
LEMMA KickoffInv ==
  ASSUME PTypeInv, TeamInv, Kickoff
  PROVE  TeamInv'
<1>1. Over
  BY CallerOver DEF Kickoff
<1>2. /\ n_graph' = <<n_graph[1] + 1, n_threads>> /\ pc[0] = "kickoff"
      /\ UNCHANGED <<cgraph, n_threads, abort, n_barrier, n_barrier_passed, n_passed, computed,
                     ret, last_graph>>
  BY DEF Kickoff, plan, bar, work
<1>3. /\ computed' = {} /\ abort' = -1 /\ n_threads > 0 /\ n_threads \in Nat
      /\ n_barrier' = 0 /\ n_graph[1] \in Nat
  BY <1>1, <1>2 DEF Over, PTypeInv, PTypeOK
<1>4. UpTo' \in Nat
  BY <1>2, <1>3 DEF UpTo, PTypeInv
<1>5. ASSUME NEW u \in Threads, u # 0 PROVE Resting(u)' /\ last_graph'[u] # n_graph'
  <2>1. Resting(u)'
    BY <1>1, <1>2, <1>5, BroadcastRests DEF Kickoff
  <2>2. u \in Workers
    BY <1>5, PoolAssumption DEF Workers, Threads
  <2>3. last_graph[u][1] <= n_graph[1] /\ last_graph[u][1] \in Nat
    BY <2>2 DEF PTypeInv, PTypeOK
  <2>4. n_graph'[1] = n_graph[1] + 1
    BY <1>2
  <2> QED
    BY <1>2, <1>3, <2>1, <2>3, <2>4
<1>6. 0 \in Threads /\ pc'[0] = "enter"
  BY PoolAssumption DEF Kickoff, Broadcast, Threads
<1>7. ASSUME NEW u \in Threads PROVE InNodes(u, 0)'
  BY <1>3, <1>5, <1>6 DEF InNodes, Fresh
<1>8. BarrierInv'
  <2>1. \A u \in Threads : ~Counted(u)' /\ pc'[u] # "arrive"
    BY <1>5, <1>6 DEF Counted, Resting, Waiting, Released
  <2>2. Arrived' = {} /\ Cardinality({}) = 0
    BY <2>1, FS_EmptySet DEF Arrived, Counted, Team
  <2> QED
    BY <1>3, <2>1, <2>2 DEF BarrierInv, Counted, Team
<1>9. Busy(0)'
  <2>1. n_graph'[2] = n_threads'
    BY <1>2
  <2>2. 0 \in Team'
    BY <1>2, <1>3, <1>6, <2>1 DEF Team
  <2> QED
    BY <1>2, <1>3, <1>4, <1>5, <1>8, <2>1, <2>2 DEF Busy
<1>10. NodesStretch(0)'
  BY <1>3, <1>7 DEF NodesStretch, Team
<1> QED
  BY <1>9, <1>10 DEF TeamInv

\* Pausing, resuming and freeing the pool.
LEMMA QuietInv ==
  ASSUME PTypeInv, TeamInv, Free \/ Join \/ \E v \in BOOLEAN : SetPause(v)
  PROVE  TeamInv'
<1>1. Over
  BY CallerOver DEF Free, Join, SetPause
<1>2. UNCHANGED <<cgraph, n_threads, abort, n_graph, n_barrier, n_barrier_passed, n_passed, computed,
                  ret, last_graph>>
  BY DEF Free, Join, SetPause, plan, flags, bar, work
<1>3. pc'[0] \in {"idle", "join", "freed"}
  BY PoolAssumption DEF Free, Join, SetPause, Broadcast, Goto, Threads, PTypeInv, PTypeOK
<1>4. ASSUME NEW u \in Threads, u # 0 PROVE Resting(u)'
  <2>1. CASE Join
    <3>1. pc'[u] = pc[u] /\ Resting(u)
      BY <1>1, <1>4, <2>1 DEF Join, Goto, Over, Off, PTypeInv, PTypeOK
    <3> QED
      BY <1>2, <3>1 DEF Resting, Released
  <2>2. ASSUME NEW l, Broadcast(l) PROVE Resting(u)'
    BY <1>1, <1>2, <1>4, <2>2, BroadcastRests
  <2> QED
    BY <2>1, <2>2 DEF Free, SetPause
<1>5. ASSUME NEW u \in Threads PROVE Off(u)'
  BY <1>1, <1>2, <1>3, <1>4 DEF Off, Over
<1>6. pc'[0] = "idle" => pc[0] = "idle"
  BY PoolAssumption DEF Free, Join, SetPause, Broadcast, Goto, Threads, PTypeInv, PTypeOK
<1>7. pc'[0] = "idle" => \A k \in 1 .. UpTo' : Executor!Complete(k)'
  BY <1>1, <1>2, <1>6, FrameComplete DEF Over, UpTo
<1> QED
  BY <1>1, <1>2, <1>3, <1>5, <1>6, <1>7 DEF TeamInv, Over

-----------------------------------------------------------------------------
(* ggml_barrier.                                                           *)

\* A thread that is not waiting for work works in a team.
LEMMA WorksInTeam ==
  ASSUME PTypeInv, TeamInv, NEW t \in Threads,
         pc[t] \in InWork \union {"enter", "bar", "arrive", "last", "open"}
  PROVE  /\ t \in Team
         /\ \E b \in Nat : Busy(b) /\ (NodesStretch(b) \/ ProductStretch(b))
<1>1. ~Resting(t)
  BY DEF Resting, Waiting, InWork, Released
<1>2. ~Off(t)
  BY <1>1 DEF Off, InWork, Released
<1>3. ~Over
  BY <1>2 DEF Over
<1> QED
  BY <1>1, <1>3 DEF TeamInv, Busy

\* A thread that stays in the barrier stays where it is in the graph.
LEMMA HeldStep ==
  ASSUME PTypeInv, NEW b \in Nat, Busy(b), NodesStretch(b) \/ ProductStretch(b), NEW t \in Team,
         pc[t] \in InBarrier, ~Released(t), pc'[t] \in InBarrier, ~Released(t)',
         \A u \in Threads \ {t} : Same(u),
         UNCHANGED <<cgraph, abort, n_threads, n_graph, n_barrier_passed, current_chunk, computed,
                     ret, node, nth, chunk, last_graph>>,
         BarrierInv'
  PROVE  TeamInv'
<1>1. \A l : Held(t, l)' <=> Held(t, l)
  BY DEF Held
<1>2. Joined(t)' <=> Joined(t)
  BY DEF Joined
<1>3. ~Resting(t) /\ pc[t] # "enter" /\ \A l \in {"node", "chunks"} : ~At(t, l) /\ ~At(t, l)'
  BY DEF Resting, At, InBarrier, Waiting
<1>4. CASE NodesStretch(b)
  <2>1. /\ Before(t, b)' <=> Before(t, b)
        /\ After(t, b)' <=> After(t, b)
        /\ Fresh(t, b)' <=> Fresh(t, b)
        /\ In(t, b, "mul_mat")' <=> In(t, b, "mul_mat")
        /\ UpTo' = UpTo
    BY DEF Before, After, Fresh, Did, In, Skip, UpTo, Op
  <2>2. Joined(t) /\ Placed(t, b)
    BY <1>3, <1>4 DEF NodesStretch, InNodes
  <2>3. Placed(t, b)'
    BY <1>1, <1>3, <2>1, <2>2 DEF Placed, InBarrier, Home
  <2>4. \A u \in Threads \ {t} : Same(u) /\ SameParts(u)
    BY DEF SameParts
  <2> QED
    BY <1>2, <1>4, <2>2, <2>3, <2>4, NodesStep DEF InNodes
<1>5. CASE ProductStretch(b)
  <2>1. NParts(b)' = NParts(b)
    BY DEF NParts, Executor!NChunk
  <2>2. InProduct(t, b)
    BY <1>5 DEF ProductStretch
  <2>3. InProduct(t, b)'
    BY <1>1, <1>2, <1>3, <2>1, <2>2 DEF InProduct, InBarrier, Home
  <2>4. Shared(b)'
    <3>1. \A u \in Team : At(u, "chunks")' <=> At(u, "chunks")
      BY <1>3 DEF At, Released, Same, Team
    <3> QED
      BY <1>5, <3>1, FrameShared DEF ProductStretch
  <2>5. UpTo' \in Nat /\ b < UpTo' /\ current_chunk \in Nat
    BY <1>5, UpToFacts DEF UpTo, ProductStretch, PTypeInv, PTypeOK
  <2> QED
    BY <1>5, <2>3, <2>4, <2>5, ProductStep
<1> QED
  BY <1>4, <1>5

\* The team is finite; it has n_graph[2] members.
LEMMA TeamSize ==
  ASSUME PTypeInv
  PROVE  /\ n_graph[2] \in Nat /\ Team = 0 .. (n_graph[2] - 1)
         /\ IsFiniteSet(Team) /\ Cardinality(Team) = n_graph[2]
<1>1. n_graph[2] \in Nat /\ n_graph[2] <= Pool
  BY PoolAssumption DEF PTypeInv, PTypeOK
<1>2. Team = 0 .. (n_graph[2] - 1)
  BY <1>1, PoolAssumption DEF Team, Threads
<1>3. \A n \in Nat : IsFiniteSet(0 .. (n - 1)) /\ Cardinality(0 .. (n - 1)) = n
  <2> TAKE n \in Nat
  <2>1. /\ IsFiniteSet(0 .. (n - 1))
        /\ Cardinality(0 .. (n - 1)) = IF 0 > n - 1 THEN 0 ELSE (n - 1) - 0 + 1
    BY FS_Interval
  <2> QED
    BY <2>1
<1> QED
  BY <1>1, <1>2, <1>3

\* A team of one does not wait; other threads remember the round.
LEMMA ReadRoundInv ==
  ASSUME PTypeInv, TeamInv, NEW t \in Threads, ReadRound(t)
  PROVE  TeamInv'
<1>1. t \in Team
  BY WorksInTeam DEF ReadRound
<1>2. PICK b \in Nat : Busy(b) /\ (NodesStretch(b) \/ ProductStretch(b))
  BY WorksInTeam DEF ReadRound
<1>3. \A u \in Threads \ {t} : Same(u)
  BY OneThread DEF ComputeThread, Barrier
<1>4. /\ pc[t] = "bar" /\ ~Released(t)
      /\ UNCHANGED <<cgraph, abort, n_threads, n_graph, n_barrier, n_barrier_passed, current_chunk,
                     computed, ret, node, nth, chunk, last_graph>>
  BY DEF ReadRound, plan, flags, work, Released
<1>5. CASE n_graph[2] = 1
  <2>1. Team = {t} /\ t = 0
    BY <1>1, <1>5, TeamSize
  <2>2. pc'[t] = ret[t] /\ UNCHANGED n_passed
    BY <1>5 DEF ReadRound, Goto, PTypeInv, PTypeOK
  <2>3. n_barrier = 0
    <3>1. Arrived = {} /\ Cardinality({}) = 0
      BY <1>4, <2>1, FS_EmptySet DEF Arrived
    <3> QED
      BY <1>2, <1>4, <2>1, <3>1 DEF Busy, BarrierInv
  <2>4. ASSUME NEW u \in Threads \ Team PROVE Resting(u)'
    BY <1>2, <1>3, <1>4, <2>1, FrameResting DEF Busy
  <2>5. Opens
    BY <1>4, <2>1, <2>2, <2>3, <2>4 DEF Opens, InBarrier
  <2> QED
    BY <1>2, <2>5, OpensAfterNodes, OpensAfterProduct
<1>6. CASE n_graph[2] # 1
  <2>1. pc'[t] = "arrive" /\ n_passed'[t] = n_barrier_passed
    BY <1>6 DEF ReadRound, Goto, PTypeInv, PTypeOK
  <2>2. BarrierInv'
    <3>1. ~Counted(t) /\ ~Counted(t)' /\ n_passed'[t] = n_barrier_passed
      BY <1>4, <2>1 DEF Counted
    <3> QED
      BY <1>2, <1>3, <1>4, <3>1, FrameBarrier DEF Busy, Same
  <2> QED
    BY <1>1, <1>2, <1>3, <1>4, <2>1, <2>2, HeldStep DEF InBarrier, Released
<1> QED
  BY <1>5, <1>6

\* The thread that makes the team complete, and only it, is the last.
LEMMA ArriveInv ==
  ASSUME PTypeInv, TeamInv, NEW t \in Threads, Arrive(t)
  PROVE  TeamInv'
<1>1. t \in Team
  BY WorksInTeam DEF Arrive
<1>2. PICK b \in Nat : Busy(b) /\ (NodesStretch(b) \/ ProductStretch(b))
  BY WorksInTeam DEF Arrive
<1>3. \A u \in Threads \ {t} : Same(u)
  BY OneThread DEF ComputeThread, Barrier
<1>4. /\ pc[t] = "arrive" /\ n_barrier' = n_barrier + 1
      /\ UNCHANGED <<cgraph, abort, n_threads, n_graph, n_barrier_passed, n_passed, current_chunk,
                     computed, ret, node, nth, chunk, last_graph>>
  BY DEF Arrive, plan, flags, work
<1>5. pc'[t] = IF n_barrier = n_graph[2] - 1 THEN "last" ELSE "spin"
  BY DEF Arrive, Goto, PTypeInv, PTypeOK
<1>6. BarrierInv /\ n_passed[t] = n_barrier_passed
  BY <1>1, <1>2, <1>4 DEF Busy, BarrierInv
<1>7. ~Released(t) /\ ~Released(t)'
  BY <1>4, <1>6 DEF Released
<1>8. Team' = Team /\ Team \subseteq Threads
  BY <1>4 DEF Team
<1>9. t \notin Arrived /\ Arrived \subseteq Team
  BY <1>4 DEF Arrived
<1>10. \A u \in Team : pc[u] \notin {"last", "open"}
  BY <1>1, <1>6, <1>9 DEF BarrierInv
<1>11. Arrived' = Arrived \union {t}
  BY <1>1, <1>3, <1>4, <1>5, <1>7, <1>8 DEF Arrived, Same, Released
<1>12. /\ n_barrier = Cardinality(Arrived) /\ IsFiniteSet(Arrived)
       /\ Cardinality(Arrived') = n_barrier + 1
  <2>1. n_barrier = Cardinality(Arrived)
    BY <1>6, <1>10 DEF BarrierInv
  <2>2. IsFiniteSet(Arrived)
    BY <1>9, TeamSize, FS_Subset
  <2> QED
    BY <1>9, <1>11, <2>1, <2>2, FS_AddElement
<1>13. pc'[t] = "last" => Arrived' = Team
  <2> HAVE pc'[t] = "last"
  <2>1. n_barrier + 1 = n_graph[2]
    BY <1>5, TeamSize, SMTT(30) DEF PTypeInv, PTypeOK
  <2>2. Arrived' \subseteq Team
    BY <1>1, <1>9, <1>11
  <2> QED
    BY <1>12, <2>1, <2>2, TeamSize, FS_Subset
<1>14. BarrierInv'
  <2>1. \A u \in Team : u # t => pc'[u] = pc[u] /\ n_passed'[u] = n_passed[u]
    BY <1>3, <1>8 DEF Same
  <2>2. \A u \in Team : /\ pc'[u] # "open"
                        /\ pc'[u] = "last" => u = t
                        /\ pc'[u] = "arrive" => n_passed'[u] = n_barrier_passed'
    BY <1>4, <1>5, <1>6, <1>10, <2>1 DEF BarrierInv
  <2> QED
    BY <1>4, <1>8, <1>12, <1>13, <2>2 DEF BarrierInv
<1> QED
  BY <1>1, <1>2, <1>3, <1>4, <1>5, <1>7, <1>14, HeldStep DEF InBarrier

\* The last thread empties the barrier while all others are held.
LEMMA ResetBarrierInv ==
  ASSUME PTypeInv, TeamInv, NEW t \in Threads, ResetBarrier(t)
  PROVE  TeamInv'
<1>1. t \in Team
  BY WorksInTeam DEF ResetBarrier
<1>2. PICK b \in Nat : Busy(b) /\ (NodesStretch(b) \/ ProductStretch(b))
  BY WorksInTeam DEF ResetBarrier
<1>3. \A u \in Threads \ {t} : Same(u)
  BY OneThread DEF ComputeThread, Barrier
<1>4. /\ pc[t] = "last" /\ pc'[t] = "open" /\ n_barrier' = 0 /\ ~Released(t) /\ ~Released(t)'
      /\ UNCHANGED <<cgraph, abort, n_threads, n_graph, n_barrier_passed, n_passed, current_chunk,
                     computed, ret, node, nth, chunk, last_graph>>
  BY DEF ResetBarrier, plan, flags, work, Goto, PTypeInv, PTypeOK, Released
<1>5. Team' = Team /\ Team \subseteq Threads
  BY <1>4 DEF Team
<1>6. Arrived' = Arrived
  BY <1>3, <1>4, <1>5 DEF Arrived, Same, Released
<1>7. \A u \in Team : u # t => pc'[u] = pc[u] /\ n_passed'[u] = n_passed[u]
  BY <1>3, <1>5 DEF Same
<1>8. BarrierInv'
  BY <1>1, <1>2, <1>4, <1>5, <1>6, <1>7 DEF Busy, BarrierInv
<1> QED
  BY <1>1, <1>2, <1>3, <1>4, <1>8, HeldStep DEF InBarrier

\* The barrier opens for all at once.
LEMMA OpenBarrierInv ==
  ASSUME PTypeInv, TeamInv, NEW t \in Threads, OpenBarrier(t)
  PROVE  TeamInv'
<1>1. t \in Team
  BY WorksInTeam DEF OpenBarrier
<1>2. PICK b \in Nat : Busy(b) /\ (NodesStretch(b) \/ ProductStretch(b))
  BY WorksInTeam DEF OpenBarrier
<1>3. \A u \in Threads \ {t} : Same(u)
  BY OneThread DEF ComputeThread, Barrier
<1>4. /\ pc[t] = "open" /\ pc'[t] = ret[t] /\ n_barrier_passed' = n_barrier_passed + 1
      /\ UNCHANGED <<cgraph, abort, n_threads, n_graph, n_barrier, n_passed, current_chunk,
                     computed, ret, node, nth, chunk, last_graph>>
  BY DEF OpenBarrier, plan, flags, work, Goto, PTypeInv, PTypeOK
<1>5. n_barrier = 0 /\ Arrived = Team /\ \A u \in Team : pc[u] \in {"last", "open"} => u = t
  BY <1>1, <1>2, <1>4 DEF Busy, BarrierInv
<1>6. \A u \in Team : u # t => pc[u] = "spin" /\ n_passed[u] = n_barrier_passed
  BY <1>5 DEF Arrived, Released
<1>7. \A u \in Team : u # t => pc'[u] = "spin" /\ Released(u)'
  BY <1>3, <1>4, <1>6 DEF Same, Released, Team, PTypeInv, PTypeOK
<1>8. ASSUME NEW u \in Threads \ Team PROVE Resting(u)'
  BY <1>1, <1>2, <1>3, <1>4, FrameResting DEF Busy
<1>9. Opens
  BY <1>4, <1>5, <1>6, <1>7, <1>8 DEF Opens, InBarrier, Released
<1> QED
  BY <1>2, <1>9, OpensAfterNodes, OpensAfterProduct

-----------------------------------------------------------------------------
(* ggml_graph_compute_thread.                                              *)

\* Work is done outside the barrier.
LEMMA WorkBarrier ==
  ASSUME NEW b \in Nat, Busy(b), NEW t \in Threads, pc[t] \in InWork \union {"enter"},
         pc'[t] \in InWork \union {"bar"}, \A u \in Threads \ {t} : Same(u),
         UNCHANGED <<n_graph, n_barrier, n_barrier_passed>>
  PROVE  BarrierInv'
<1>1. ~Counted(t) /\ ~Counted(t)' /\ pc'[t] # "arrive"
  BY DEF Counted, InWork
<1> QED
  BY <1>1, FrameBarrier DEF Busy, Same

\* A thread joins the team at node 0.
LEMMA EnterInv ==
  ASSUME PTypeInv, TeamInv, NEW t \in Threads, Enter(t)
  PROVE  TeamInv'
<1>1. t \in Team
  BY WorksInTeam DEF Enter
<1>2. PICK b \in Nat : Busy(b) /\ (NodesStretch(b) \/ ProductStretch(b))
  BY WorksInTeam DEF Enter
<1>3. \A u \in Threads \ {t} : Same(u)
  BY OneThread DEF ComputeThread
<1>4. /\ pc[t] = "enter" /\ pc'[t] = "node" /\ node'[t] = 0 /\ nth'[t] = n_graph[2]
      /\ UNCHANGED <<cgraph, abort, n_threads, n_graph, n_barrier, n_barrier_passed, n_passed,
                     chunk, current_chunk, computed, ret, last_graph>>
  BY DEF Enter, plan, flags, bar, Goto, PTypeInv, PTypeOK
<1>5. BarrierInv'
  BY <1>2, <1>3, <1>4, WorkBarrier DEF InWork
<1>6. ~Placed(t, b) /\ ~InProduct(t, b) /\ ~Resting(t)
  BY <1>4 DEF Placed, InProduct, At, Held, Released, Resting, Waiting, InBarrier
<1>7. NodesStretch(b) /\ (t # 0 => last_graph[t] = n_graph) /\ b = 0 /\ Fresh(t, b)
  BY <1>1, <1>2, <1>6 DEF NodesStretch, ProductStretch, InNodes
<1>8. InNodes(t, b)'
  <2>1. Skip(b, node[t])'
    BY <1>4, <1>7, UpToFacts DEF Skip, UpTo
  <2>2. Fresh(t, b)' /\ Joined(t)'
    BY <1>4, <1>7 DEF Fresh, Joined
  <2> QED
    BY <1>4, <2>1, <2>2 DEF InNodes, Placed, At, Before
<1>9. \A u \in Threads \ {t} : Same(u) /\ SameParts(u)
  BY <1>3, <1>4 DEF SameParts
<1> QED
  BY <1>1, <1>2, <1>4, <1>5, <1>7, <1>8, <1>9, NodesStep

\* At the head of the loop.
LEMMA AtNode ==
  ASSUME NEW t \in Team, pc[t] = "node", NEW b \in Nat, NodesStretch(b) \/ ProductStretch(b)
  PROVE  /\ Joined(t)
         /\ \/ NodesStretch(b) /\ Before(t, b)
            \/ NodesStretch(b) /\ After(t, b) /\ node[t] = Len(cgraph)
            \/ /\ ProductStretch(b) /\ current_chunk >= NParts(b)
               /\ node[t] = b + 1 /\ node[t] = Len(cgraph)
<1>1. ~Resting(t) /\ \A l : ~Held(t, l)
  BY DEF Resting, Held, Waiting, Released, InBarrier
<1> QED
  BY <1>1 DEF NodesStretch, ProductStretch, InNodes, InProduct, Placed, At, Released

\* The end of the graph, or the abort point, for one thread.
LEMMA LoopEndsInv ==
  ASSUME PTypeInv, TeamInv, NEW t \in Threads, LoopEnds(t)
  PROVE  TeamInv'
<1>1. t \in Team
  BY WorksInTeam DEF LoopEnds, InWork
<1>2. PICK b \in Nat : Busy(b) /\ (NodesStretch(b) \/ ProductStretch(b))
  BY WorksInTeam DEF LoopEnds, InWork
<1>3. \A u \in Threads \ {t} : Same(u)
  BY OneThread DEF ComputeThread
<1>4. /\ pc[t] = "node" /\ pc'[t] = "bar" /\ ret'[t] = Home(t) /\ Home(t)' = Home(t)
      /\ node[t] >= Len(cgraph) \/ abort = node[t]
      /\ UNCHANGED <<cgraph, abort, n_threads, n_graph, n_barrier, n_barrier_passed, n_passed,
                     node, nth, chunk, current_chunk, computed, last_graph>>
  BY DEF LoopEnds, EnterBarrier, plan, flags, bar, work, Goto, Home, PTypeInv, PTypeOK
<1>5. BarrierInv'
  BY <1>2, <1>3, <1>4, WorkBarrier DEF InWork
<1>6. Held(t, Home(t))'
  BY <1>4 DEF Held, InBarrier, Released
<1>7. Joined(t)'
  BY <1>1, <1>2, <1>4, AtNode DEF Joined
<1>8. UpTo' = UpTo /\ UpTo \in Nat /\ UpTo <= Len(cgraph) /\ Len(cgraph) \in Nat /\ node[t] \in Nat
  BY <1>4, UpToFacts DEF UpTo, PTypeInv, PTypeOK
<1>9. \A u \in Threads \ {t} : Same(u) /\ SameParts(u)
  BY <1>3, <1>4 DEF SameParts
<1>10. CASE NodesStretch(b) /\ Before(t, b)
  <2>1. node[t] = UpTo
    BY <1>4, <1>8, <1>10 DEF Before, Skip, UpTo
  <2>2. Before(t, b)'
    BY <1>4, <1>8, <1>10 DEF Before, Skip, Fresh, Op
  <2>3. InNodes(t, b)'
    BY <1>4, <1>6, <1>7, <1>8, <2>1, <2>2 DEF InNodes, Placed
  <2> QED
    BY <1>1, <1>2, <1>4, <1>5, <1>9, <1>10, <2>3, NodesStep
<1>11. CASE NodesStretch(b) /\ After(t, b) /\ node[t] = Len(cgraph)
  <2>1. After(t, b)'
    BY <1>4, <1>8, <1>11 DEF After, Skip, Did, Op
  <2>2. InNodes(t, b)'
    BY <1>4, <1>6, <1>7, <1>11, <2>1 DEF InNodes, Placed
  <2> QED
    BY <1>1, <1>2, <1>4, <1>5, <1>9, <1>11, <2>2, NodesStep
<1>12. CASE /\ ProductStretch(b) /\ current_chunk >= NParts(b)
            /\ node[t] = b + 1 /\ node[t] = Len(cgraph)
  <2>1. NParts(b)' = NParts(b)
    BY <1>4 DEF NParts, Executor!NChunk
  <2>2. InProduct(t, b)'
    BY <1>4, <1>6, <1>7, <1>12, <2>1 DEF InProduct
  <2>3. Shared(b)'
    <3>1. \A u \in Team : At(u, "chunks")' <=> At(u, "chunks")
      BY <1>3, <1>4 DEF At, Released, Same, Team
    <3> QED
      BY <1>4, <1>12, <3>1, FrameShared DEF ProductStretch
  <2>4. b < UpTo /\ current_chunk \in Nat
    BY <1>12 DEF ProductStretch, PTypeInv, PTypeOK
  <2> QED
    BY <1>1, <1>2, <1>3, <1>4, <1>5, <1>8, <1>12, <2>2, <2>3, <2>4, ProductStep
<1> QED
  BY <1>1, <1>2, <1>4, <1>10, <1>11, <1>12, AtNode

\* A thread passes a view, or begins a node.
LEMMA BeginNodeInv ==
  ASSUME PTypeInv, TeamInv, NEW t \in Threads, BeginNode(t)
  PROVE  TeamInv'
<1>1. t \in Team
  BY WorksInTeam DEF BeginNode, InWork
<1>2. PICK b \in Nat : Busy(b) /\ (NodesStretch(b) \/ ProductStretch(b))
  BY WorksInTeam DEF BeginNode, InWork
<1>3. \A u \in Threads \ {t} : Same(u)
  BY OneThread DEF ComputeThread
<1>4. /\ pc[t] = "node" /\ node[t] < Len(cgraph) /\ abort # node[t] /\ chunk'[t] = t
      /\ UNCHANGED <<cgraph, abort, n_threads, n_graph, n_barrier, n_barrier_passed, n_passed,
                     nth, current_chunk, computed, ret, last_graph>>
  BY DEF BeginNode, plan, flags, bar, PTypeInv, PTypeOK
<1>5. UpTo' = UpTo /\ UpTo \in Nat /\ UpTo <= Len(cgraph) /\ Len(cgraph) \in Nat /\ node[t] \in Nat
  BY <1>4, UpToFacts DEF UpTo, PTypeInv, PTypeOK
<1>6. Joined(t) /\ NodesStretch(b) /\ Before(t, b)
  <2>1. ~(node[t] = Len(cgraph))
    BY <1>4, <1>5
  <2> QED
    BY <1>1, <1>2, <1>4, <2>1, AtNode
<1>7. Skip(b, node[t]) /\ Fresh(t, b) /\ node[t] < UpTo
  BY <1>4, <1>5, <1>6 DEF Before, Skip, UpTo
<1>8. Node(t) \in Nodes /\ Node(t).op = Op(node[t])
  BY <1>4, <1>5, NodeFacts DEF Node, Op
<1>9. Joined(t)' /\ Fresh(t, b)' /\ \A k : Skip(b, k)' <=> Skip(b, k)
  BY <1>4, <1>5, <1>6, <1>7 DEF Joined, Fresh, Skip, Op
<1>10. \A u \in Threads \ {t} : Same(u) /\ SameParts(u)
  BY <1>3, <1>4 DEF SameParts
<1>11. CASE Node(t).op = "none"
  <2>1. pc'[t] = "node" /\ node'[t] = node[t] + 1
    BY <1>11 DEF BeginNode, Goto, PTypeInv, PTypeOK
  <2>2. Skip(b, node[t] + 1)
    <3>1. \A j \in b .. node[t] : j = node[t] \/ j \in b .. (node[t] - 1)
      BY <1>5
    <3>2. \A j \in b .. node[t] : Op(j) = "none"
      BY <1>7, <1>8, <1>11, <3>1 DEF Skip
    <3>3. b .. node[t] = b .. ((node[t] + 1) - 1) /\ b <= node[t]
      BY <1>5, <1>7 DEF Skip
    <3>4. b <= node[t] + 1 /\ node[t] + 1 <= UpTo
      BY <1>5, <1>7, <3>3
    <3> QED
      BY <3>2, <3>3, <3>4 DEF Skip
  <2>3. InNodes(t, b)'
    BY <1>9, <2>1, <2>2 DEF InNodes, Placed, At, Before
  <2>4. BarrierInv'
    BY <1>2, <1>3, <1>4, <2>1, WorkBarrier DEF InWork
  <2> QED
    BY <1>1, <1>2, <1>4, <1>6, <1>10, <2>3, <2>4, NodesStep
<1>12. CASE Node(t).op \in {"rows", "mul_mat"}
  <2>1. node'[t] = node[t] /\ pc'[t] = IF Node(t).op = "rows" THEN "chunks" ELSE "convert"
    BY <1>12 DEF BeginNode, Goto, PTypeInv, PTypeOK
  <2>2. In(t, b, Node(t).op) /\ Op(node[t])' = Op(node[t])
    BY <1>4, <1>7, <1>8, <2>1 DEF In, Op
  <2>3. Node(t).op = "rows" => In(t, b, "rows")'
    BY <1>5, <1>7, <1>8, <1>9, <2>1, <2>2 DEF In
  <2>4. Node(t).op = "mul_mat" => In(t, b, "mul_mat")'
    BY <1>5, <1>7, <1>8, <1>9, <2>1, <2>2 DEF In
  <2>5. InNodes(t, b)'
    BY <1>4, <1>9, <1>12, <2>1, <2>3, <2>4 DEF InNodes, Placed
  <2>6. BarrierInv'
    BY <1>2, <1>3, <1>4, <2>1, WorkBarrier DEF InWork
  <2> QED
    BY <1>1, <1>2, <1>4, <1>6, <1>10, <2>5, <2>6, NodesStep
<1> QED
  BY <1>8, <1>11, <1>12 DEF Nodes

\* A thread converts its part of a product's input; thread 0 also resets the
\* chunk counter.
LEMMA ConvertInv ==
  ASSUME PTypeInv, TeamInv, NEW t \in Threads, Convert(t)
  PROVE  TeamInv'
<1>1. t \in Team
  BY WorksInTeam DEF Convert, InWork
<1>2. PICK b \in Nat : Busy(b) /\ (NodesStretch(b) \/ ProductStretch(b))
  BY WorksInTeam DEF Convert, InWork
<1>3. \A u \in Threads \ {t} : Same(u)
  BY OneThread DEF ComputeThread
<1>4. /\ pc[t] = "convert" /\ pc'[t] = "bar" /\ ret'[t] = "chunks"
      /\ current_chunk' = IF t = 0 THEN nth[0] ELSE current_chunk
      /\ UNCHANGED <<cgraph, abort, n_threads, n_graph, n_barrier, n_barrier_passed, n_passed,
                     node, nth, chunk, computed, last_graph>>
  BY DEF Convert, EnterBarrier, plan, flags, bar, Goto, PTypeInv, PTypeOK
<1>5. BarrierInv'
  BY <1>2, <1>3, <1>4, WorkBarrier DEF InWork
<1>6. /\ Joined(t) /\ NodesStretch(b) /\ In(t, b, "mul_mat") /\ Fresh(t, b) /\ chunk[t] = t
  <2>1. ~Resting(t) /\ \A l : ~Held(t, l)
    BY <1>4 DEF Resting, Held, Waiting, Released, InBarrier
  <2> QED
    BY <1>1, <1>2, <1>4, <2>1 DEF NodesStretch, ProductStretch, InNodes, InProduct, Placed, At, Released
<1>7. InNodes(t, b)'
  <2>1. Held(t, "chunks")'
    BY <1>4 DEF Held, InBarrier, Released
  <2>2. Joined(t)' /\ In(t, b, "mul_mat")' /\ Fresh(t, b)'
    BY <1>4, <1>6 DEF Joined, In, Fresh, Skip, UpTo, Op
  <2>3. t = 0 => current_chunk' = n_graph'[2]
    BY <1>4, <1>6 DEF Joined
  <2> QED
    BY <1>4, <1>6, <2>1, <2>2, <2>3 DEF InNodes, Placed
<1>8. \A u \in Threads \ {t} : Same(u) /\ SameParts(u)
  BY <1>3, <1>4 DEF SameParts
<1> QED
  BY <1>1, <1>2, <1>4, <1>5, <1>6, <1>7, <1>8, NodesStep

\* A chunk is computed: the thread's own part of an element-wise node, or the
\* chunk it holds of a product.
LEMMA ComputeChunkInv ==
  ASSUME PTypeInv, TeamInv, NEW t \in Threads, ComputeChunk(t)
  PROVE  TeamInv'
<1>1. t \in Team
  BY WorksInTeam DEF ComputeChunk, InWork
<1>2. PICK b \in Nat : Busy(b) /\ (NodesStretch(b) \/ ProductStretch(b))
  BY WorksInTeam DEF ComputeChunk, InWork
<1>3. \A u \in Threads \ {t} : Same(u)
  BY OneThread DEF ComputeThread
<1>4. /\ pc[t] = "chunks"
      /\ UNCHANGED <<cgraph, abort, n_threads, n_graph, n_barrier, n_barrier_passed, n_passed,
                     node, nth, chunk, current_chunk, ret, last_graph>>
  BY DEF ComputeChunk, plan, flags, bar
<1>5. /\ \/ /\ chunk[t] \in PartsOf(t) /\ computed' = computed \union {<<node[t] + 1, chunk[t]>>}
            /\ pc'[t] = IF nth[t] < Cardinality(PartsOf(t)) THEN "grab" ELSE "endnode"
         \/ chunk[t] \notin PartsOf(t) /\ computed' = computed /\ pc'[t] = "endnode"
      /\ computed \subseteq computed'
  BY DEF ComputeChunk, Goto, PTypeInv, PTypeOK
<1>6. BarrierInv'
  BY <1>2, <1>3, <1>4, <1>5, WorkBarrier DEF InWork
<1>7. /\ Joined(t)
      /\ \/ NodesStretch(b) /\ In(t, b, "rows") /\ Fresh(t, b) /\ chunk[t] = t
         \/ ProductStretch(b) /\ node[t] = b /\ chunk[t] < current_chunk
  <2>1. ~Resting(t) /\ \A l : ~Held(t, l)
    BY <1>4 DEF Resting, Held, Waiting, Released, InBarrier
  <2> QED
    BY <1>1, <1>2, <1>4, <2>1 DEF NodesStretch, ProductStretch, InNodes, InProduct, Placed, At, Released
<1>8. /\ UpTo \in Nat /\ UpTo <= Len(cgraph) /\ Len(cgraph) \in Nat /\ UpTo' = UpTo
      /\ node[t] \in Nat /\ chunk[t] \in Nat /\ current_chunk \in Nat
  BY <1>4, UpToFacts DEF UpTo, PTypeInv, PTypeOK
<1>9. n_graph[2] \in Nat /\ nth[t] = n_graph[2]
  BY <1>7, TeamSize DEF Joined
<1>10. CASE NodesStretch(b) /\ In(t, b, "rows") /\ Fresh(t, b) /\ chunk[t] = t
  <2>1. Node(t) \in Nodes /\ Node(t).op = "rows"
    BY <1>8, <1>10, NodeFacts DEF In, Node, Op
  <2>2. PartsOf(t) = 0 .. (n_graph[2] - 1) /\ Cardinality(PartsOf(t)) = n_graph[2]
    BY <1>9, <2>1, PartsFacts DEF PartsOf
  <2>3. t \in PartsOf(t) /\ ~(nth[t] < Cardinality(PartsOf(t)))
    BY <1>1, <1>9, <2>2, TeamSize
  <2>4. computed' = computed \union {<<node[t] + 1, t>>} /\ pc'[t] = "endnode"
    BY <1>5, <1>10, <2>3
  <2>5. Did(t, b, node[t] + 1)'
    BY <1>4, <1>10, <2>4 DEF Did, Fresh
  <2>6. Joined(t)' /\ In(t, b, "rows")'
    BY <1>4, <1>7, <1>10 DEF Joined, In, Skip, UpTo, Op
  <2>7. InNodes(t, b)'
    BY <2>4, <2>5, <2>6 DEF InNodes, Placed
  <2>8. \A u \in Threads \ {t} : Same(u) /\ SameParts(u)
    BY <1>3, <2>4 DEF SameParts
  <2>9. \A p \in computed' : p \in computed \/ p[2] = t
    BY <2>4
  <2> QED
    BY <1>1, <1>2, <1>4, <1>5, <1>6, <1>10, <2>7, <2>8, <2>9, NodesStep
<1>11. CASE ProductStretch(b) /\ node[t] = b /\ chunk[t] < current_chunk
  <2>1. Node(t) \in Nodes /\ Node(t).op = "mul_mat" /\ b < UpTo
    BY <1>8, <1>11, NodeFacts DEF ProductStretch, Node, Op
  <2>2. /\ NParts(b) \in Nat /\ PartsOf(t) = 0 .. (NParts(b) - 1)
        /\ Cardinality(PartsOf(t)) = NParts(b)
    BY <1>9, <1>11, <2>1, PartsFacts DEF PartsOf, NParts, Node
  <2>3. NParts(b)' = NParts(b) /\ Team' = Team /\ Team \subseteq Threads
    BY <1>4 DEF NParts, Team, Executor!NChunk
  <2>4. Shared(b) /\ current_chunk >= n_graph[2]
    BY <1>11 DEF ProductStretch, Shared
  <2>5. pc'[t] = "grab" \/ (pc'[t] = "endnode" /\ current_chunk >= NParts(b))
    BY <1>5, <1>8, <1>9, <1>11, <2>2, <2>4
  <2>6. InProduct(t, b)'
    BY <1>4, <1>7, <1>11, <2>3, <2>5 DEF InProduct, Joined
  <2>7. At(t, "chunks") /\ ~At(t, "chunks")'
    BY <1>4, <2>5 DEF At, Released
  <2>8. \A u \in Team : u # t => (At(u, "chunks")' <=> At(u, "chunks")) /\ chunk'[u] = chunk[u]
    BY <1>3, <1>4, <2>3 DEF At, Released, Same
  <2>9. \A c : <<b + 1, c>> \in computed' <=>
          <<b + 1, c>> \in computed \/ (c = chunk[t] /\ c < NParts(b))
    BY <1>5, <1>8, <1>11, <2>2
  <2>10. Shared(b)'
    <3>1. \A p \in computed' : p[1] <= b + 1
      BY <1>5, <1>11, <2>4 DEF Shared
    <3>2. \A c \in Nat : <<b + 1, c>> \in computed' =>
            c < current_chunk /\ \A u \in Team : At(u, "chunks")' => chunk'[u] # c
      BY <1>1, <1>11, <2>4, <2>7, <2>8, <2>9 DEF Shared
    <3>3. \A v, u \in Team : At(v, "chunks")' /\ At(u, "chunks")' /\ v # u => chunk'[v] # chunk'[u]
      BY <2>4, <2>7, <2>8 DEF Shared
    <3>4. \A c \in Nat : c < current_chunk =>
            \/ c >= NParts(b) \/ <<b + 1, c>> \in computed'
            \/ \E u \in Team : At(u, "chunks")' /\ chunk'[u] = c
      <4> TAKE c \in Nat
      <4> HAVE c < current_chunk
      <4>1. CASE c >= NParts(b) \/ <<b + 1, c>> \in computed
        BY <2>9, <4>1
      <4>2. CASE c < NParts(b) /\ \E u \in Team : At(u, "chunks") /\ chunk[u] = c
        BY <2>7, <2>8, <2>9, <4>2
      <4> QED
        BY <2>2, <2>4, <4>1, <4>2 DEF Shared
    <3> QED
      BY <1>4, <2>3, <2>4, <3>1, <3>2, <3>3, <3>4 DEF Shared
  <2> QED
    BY <1>1, <1>2, <1>3, <1>4, <1>5, <1>6, <1>8, <1>11, <2>1, <2>6, <2>10, ProductStep
<1> QED
  BY <1>7, <1>10, <1>11

\* The next chunk nobody took goes to one thread.
LEMMA GrabChunkInv ==
  ASSUME PTypeInv, TeamInv, NEW t \in Threads, GrabChunk(t)
  PROVE  TeamInv'
<1>1. t \in Team
  BY WorksInTeam DEF GrabChunk, InWork
<1>2. PICK b \in Nat : Busy(b) /\ (NodesStretch(b) \/ ProductStretch(b))
  BY WorksInTeam DEF GrabChunk, InWork
<1>3. \A u \in Threads \ {t} : Same(u)
  BY OneThread DEF ComputeThread
<1>4. /\ pc[t] = "grab" /\ pc'[t] = "chunks" /\ chunk'[t] = current_chunk
      /\ current_chunk' = current_chunk + 1 /\ current_chunk \in Nat
      /\ UNCHANGED <<cgraph, abort, n_threads, n_graph, n_barrier, n_barrier_passed, n_passed,
                     node, nth, computed, ret, last_graph>>
  BY DEF GrabChunk, plan, flags, bar, Goto, PTypeInv, PTypeOK
<1>5. BarrierInv'
  BY <1>2, <1>3, <1>4, WorkBarrier DEF InWork
<1>6. Joined(t) /\ ProductStretch(b) /\ node[t] = b
  <2>1. ~Resting(t) /\ \A l : ~Held(t, l)
    BY <1>4 DEF Resting, Held, Waiting, Released, InBarrier
  <2> QED
    BY <1>1, <1>2, <1>4, <2>1 DEF NodesStretch, ProductStretch, InNodes, InProduct, Placed, At, Released
<1>7. UpTo' \in Nat /\ b < UpTo'
  BY <1>4, <1>6, UpToFacts DEF UpTo, ProductStretch
<1>8. InProduct(t, b)'
  BY <1>4, <1>6 DEF InProduct, Joined, At
<1>9. ~At(t, "chunks") /\ At(t, "chunks")'
  BY <1>4 DEF At, Released
<1>10. Team' = Team /\ NParts(b)' = NParts(b) /\ n_graph[2] \in Nat
  BY <1>4, TeamSize DEF Team, NParts, Executor!NChunk
<1>11. \A u \in Team : u # t => (At(u, "chunks")' <=> At(u, "chunks")) /\ chunk'[u] = chunk[u]
  BY <1>3, <1>4 DEF At, Released, Same, Team
<1>12. \A u \in Team : At(u, "chunks") => chunk[u] < current_chunk
  BY <1>6 DEF ProductStretch, InProduct, At, Held, Released, InBarrier
<1>13. Shared(b)'
  <2>1. \A c \in Nat : <<b + 1, c>> \in computed' =>
          c < current_chunk' /\ \A u \in Team : At(u, "chunks")' => chunk'[u] # c
    BY <1>4, <1>6, <1>9, <1>11 DEF ProductStretch, Shared
  <2>2. \A v, u \in Team : At(v, "chunks")' /\ At(u, "chunks")' /\ v # u => chunk'[v] # chunk'[u]
    BY <1>4, <1>6, <1>11, <1>12 DEF ProductStretch, Shared
  <2>3. \A c \in Nat : c < current_chunk' =>
          \/ c >= NParts(b) \/ <<b + 1, c>> \in computed'
          \/ \E u \in Team : At(u, "chunks")' /\ chunk'[u] = c
    <3> TAKE c \in Nat
    <3> HAVE c < current_chunk'
    <3>1. CASE c = current_chunk
      BY <1>1, <1>4, <1>9, <3>1
    <3>2. CASE c < current_chunk
      BY <1>4, <1>6, <1>9, <1>11, <3>2 DEF ProductStretch, Shared
    <3> QED
      BY <1>4, <3>1, <3>2
  <2>4. current_chunk' >= n_graph'[2]
    BY <1>4, <1>6, <1>10 DEF ProductStretch, Shared
  <2> QED
    BY <1>4, <1>6, <1>10, <2>1, <2>2, <2>3, <2>4 DEF ProductStretch, Shared
<1> QED
  BY <1>1, <1>2, <1>3, <1>4, <1>5, <1>6, <1>7, <1>8, <1>13, ProductStep

\* Thread 0 sets the abort point behind the node it has done: no other thread
\* is beyond it.
LEMMA AbortFrame ==
  ASSUME PTypeInv, NEW b \in Nat, NEW u \in Threads, InNodes(u, b), Same(u), SameParts(u),
         NEW e \in Nat, e < UpTo, Skip(b, e), Op(e) = "rows", abort' = e + 1,
         UNCHANGED <<cgraph, n_graph, n_barrier_passed, current_chunk>>
  PROVE  InNodes(u, b)'
<1>1. UpTo' = e + 1 /\ \A k \in Nat : Op(k)' = Op(k)
  BY DEF UpTo, Op
<1>2. UpTo \in Nat /\ node[u] \in Nat
  BY UpToFacts DEF PTypeInv, PTypeOK
<1>3. \A k \in Nat : Skip(b, k) => k <= e /\ Skip(b, k)'
  BY <1>1 DEF Skip, Op
<1>4. Released(u)' <=> Released(u)
  BY DEF Released, Same
<1>5. /\ Resting(u)' <=> Resting(u)
      /\ \A l : At(u, l)' <=> At(u, l)
      /\ \A l : Held(u, l)' <=> Held(u, l)
  BY <1>4 DEF Resting, At, Held, Same
<1>6. /\ Fresh(u, b)' <=> Fresh(u, b)
      /\ \A k : Did(u, b, k)' <=> Did(u, b, k)
  BY DEF Fresh, Did, SameParts
<1>7. Before(u, b) => Before(u, b)' /\ node[u] # UpTo
  BY <1>2, <1>3, <1>6 DEF Before, Same
<1>8. After(u, b) => After(u, b)'
  <2> HAVE After(u, b)
  <2>1. node[u] - 1 \in Nat
    BY <1>2 DEF After
  <2>2. Skip(b, node[u] - 1)' /\ node[u] - 1 <= e
    <3>1. PICK k \in Nat : k = node[u] - 1
      BY <2>1
    <3>2. Skip(b, k)' /\ k <= e
      BY <1>3, <3>1 DEF After
    <3> QED
      BY <3>1, <3>2 DEF Same
  <2>3. node[u] <= UpTo' /\ Op(node[u] - 1)' = Op(node[u] - 1)
    BY <1>1, <1>2, <2>1, <2>2 DEF Same, Op
  <2> QED
    BY <1>6, <2>2, <2>3 DEF After, Same, Op
<1>9. \A op : In(u, b, op) => In(u, b, op)'
  BY <1>1, <1>2, <1>3 DEF In, Same, Op
<1>10. Joined(u)' <=> Joined(u)
  BY DEF Joined, Same
<1>11. CASE Resting(u) /\ last_graph[u] # n_graph /\ b = 0 /\ Fresh(u, b)
  BY <1>5, <1>6, <1>11 DEF InNodes, Same, Resting
<1>12. CASE pc[u] = "enter" /\ (u # 0 => last_graph[u] = n_graph) /\ b = 0 /\ Fresh(u, b)
  BY <1>6, <1>12 DEF InNodes, Same
<1>13. CASE Joined(u) /\ Placed(u, b)
  BY <1>5, <1>6, <1>7, <1>8, <1>9, <1>10, <1>13 DEF InNodes, Placed, Same, Home
<1> QED
  BY <1>11, <1>12, <1>13 DEF InNodes

\* A node is done; thread 0 may end the graph here.
LEMMA EndNodeInv ==
  ASSUME PTypeInv, TeamInv, NEW t \in Threads, EndNode(t)
  PROVE  TeamInv'
<1>1. t \in Team
  BY WorksInTeam DEF EndNode, InWork
<1>2. PICK b \in Nat : Busy(b) /\ (NodesStretch(b) \/ ProductStretch(b))
  BY WorksInTeam DEF EndNode, InWork
<1>3. \A u \in Threads \ {t} : Same(u) /\ SameParts(u)
  <2>1. \A u \in Threads \ {t} : Same(u)
    BY OneThread DEF ComputeThread
  <2> QED
    BY <2>1 DEF EndNode, SameParts
<1>4. /\ pc[t] = "endnode" /\ node'[t] = node[t] + 1
      /\ UNCHANGED <<cgraph, n_threads, n_graph, n_barrier, n_barrier_passed, n_passed,
                     nth, chunk, current_chunk, computed, last_graph>>
  BY DEF EndNode, flags, bar, PTypeInv, PTypeOK
<1>5. abort' = abort \/ (t = 0 /\ abort' = node[t] + 1)
  BY DEF EndNode
<1>6. \/ node[t] + 1 < Len(cgraph) /\ pc'[t] = "bar" /\ ret'[t] = "node"
      \/ ~(node[t] + 1 < Len(cgraph)) /\ pc'[t] = "node"
  BY DEF EndNode, EnterBarrier, Goto, PTypeInv, PTypeOK
<1>7. BarrierInv'
  BY <1>2, <1>3, <1>4, <1>6, WorkBarrier DEF InWork
<1>8. /\ Joined(t)
      /\ \/ NodesStretch(b) /\ In(t, b, "rows") /\ Did(t, b, node[t] + 1)
         \/ ProductStretch(b) /\ node[t] = b /\ current_chunk >= NParts(b)
  <2>1. ~Resting(t) /\ \A l : ~Held(t, l)
    BY <1>4 DEF Resting, Held, Waiting, Released, InBarrier
  <2> QED
    BY <1>1, <1>2, <1>4, <2>1 DEF NodesStretch, ProductStretch, InNodes, InProduct, Placed, At, Released
<1>9. /\ UpTo \in Nat /\ UpTo <= Len(cgraph) /\ Len(cgraph) \in Nat
      /\ node[t] \in Nat /\ current_chunk \in Nat
  <2>1. UpTo \in Nat /\ UpTo <= Len(cgraph)
    BY UpToFacts
  <2>2. cgraph \in Seq(Nodes) /\ node \in [Threads -> Nat] /\ current_chunk \in Nat
    BY DEF PTypeInv, PTypeOK
  <2> QED
    BY <2>1, <2>2
<1>10. UpTo' = UpTo \/ UpTo' = node[t] + 1
  BY <1>4, <1>5, <1>9 DEF UpTo
<1>11. Team' = Team /\ Team \subseteq Threads /\ Joined(t)'
  BY <1>4, <1>8 DEF Team, Joined
<1>12. pc'[t] = "bar" => Held(t, "node")'
  BY <1>6 DEF Held, Released, InBarrier
<1>13. CASE NodesStretch(b) /\ In(t, b, "rows") /\ Did(t, b, node[t] + 1)
  <2>1. Skip(b, node[t]) /\ node[t] < UpTo /\ Op(node[t]) = "rows" /\ b <= node[t]
    BY <1>13 DEF In, Skip
  <2>2. node[t] + 1 <= UpTo' /\ node[t] < UpTo' /\ b <= UpTo'
    BY <1>9, <1>10, <2>1
  <2>3. After(t, b)'
    <3>1. Did(t, b, node[t])'
      BY <1>4, <1>13 DEF Did
    <3>2. node'[t] > b /\ node'[t] <= UpTo' /\ node'[t] - 1 = node[t]
      BY <1>4, <1>9, <2>1, <2>2
    <3>3. Skip(b, node[t] - 1)' /\ Op(node[t] - 1)' = "rows"
      <4>1. PICK k \in Nat : k = node[t]
        BY <1>9
      <4>2. Skip(b, k)' /\ Op(k)' = "rows"
        BY <1>4, <1>9, <1>10, <2>1, <2>2, <4>1 DEF Skip, Op
      <4> QED
        BY <3>2, <4>1, <4>2
    <3> QED
      BY <3>1, <3>2, <3>3 DEF After
  <2>4. InNodes(t, b)'
    <3>1. CASE pc'[t] = "bar"
      BY <1>4, <1>6, <1>11, <1>12, <2>3, <3>1 DEF InNodes, Placed
    <3>2. CASE pc'[t] = "node" /\ ~(node[t] + 1 < Len(cgraph))
      <4>1. node'[t] = Len(cgraph')
        BY <1>4, <1>9, <2>1, <3>2
      <4> QED
        BY <1>11, <2>3, <3>2, <4>1 DEF InNodes, Placed
    <3> QED
      BY <1>6, <3>1, <3>2
  <2>5. CASE abort' = abort
    BY <1>1, <1>2, <1>3, <1>4, <1>7, <1>13, <2>4, <2>5, NodesStep
  <2>6. CASE t = 0 /\ abort' = node[t] + 1
    <3>1. ASSUME NEW u \in Team, u # t PROVE InNodes(u, b)'
      <4>1. PICK e \in Nat : e = node[t]
        BY <1>9
      <4> QED
        BY <1>3, <1>4, <1>11, <1>13, <2>1, <2>6, <3>1, <4>1, AbortFrame DEF NodesStretch
    <3>2. NodesStretch(b)'
      BY <1>4, <1>11, <1>13, <2>4, <3>1 DEF NodesStretch
    <3>3. ASSUME NEW u \in Threads \ Team PROVE Resting(u)'
      BY <1>1, <1>2, <1>3, <1>4, FrameResting DEF Busy
    <3>4. Busy(b)'
      BY <1>2, <1>4, <1>7, <1>11, <2>2, <3>3, FrameComplete DEF Busy
    <3> QED
      BY <3>2, <3>4 DEF TeamInv
  <2> QED
    BY <1>5, <2>5, <2>6
<1>14. CASE ProductStretch(b) /\ node[t] = b /\ current_chunk >= NParts(b)
  <2>1. b < UpTo /\ b < UpTo' /\ UpTo' \in Nat
    BY <1>9, <1>10, <1>14 DEF ProductStretch
  <2>2. NParts(b)' = NParts(b)
    BY <1>4 DEF NParts, Executor!NChunk
  <2>3. InProduct(t, b)'
    <3>1. CASE pc'[t] = "bar" /\ node[t] + 1 < Len(cgraph)
      BY <1>4, <1>11, <1>12, <1>14, <2>2, <3>1 DEF InProduct
    <3>2. CASE pc'[t] = "node" /\ ~(node[t] + 1 < Len(cgraph))
      <4>1. node'[t] = Len(cgraph')
        BY <1>4, <1>9, <1>14, <2>1, <3>2
      <4> QED
        BY <1>4, <1>11, <1>14, <2>2, <3>2, <4>1 DEF InProduct
    <3> QED
      BY <1>6, <3>1, <3>2
  <2>4. Shared(b)'
    <3>1. \A u \in Team : At(u, "chunks")' <=> At(u, "chunks")
      BY <1>3, <1>4, <1>6, <1>11 DEF At, Released, Same
    <3> QED
      BY <1>4, <1>14, <3>1, FrameShared DEF ProductStretch
  <2> QED
    BY <1>1, <1>2, <1>3, <1>4, <1>7, <1>9, <1>14, <2>1, <2>3, <2>4, ProductStep
<1> QED
  BY <1>8, <1>13, <1>14

-----------------------------------------------------------------------------
(* Types.                                                                  *)

\* A thread that ends a node is within the graph.
LEMMA EndNodeBound ==
  ASSUME PTypeInv, TeamInv, NEW t \in Threads, pc[t] = "endnode"
  PROVE  node[t] < UpTo
<1>1. t \in Team
  BY WorksInTeam DEF InWork
<1>2. PICK b \in Nat : Busy(b) /\ (NodesStretch(b) \/ ProductStretch(b))
  BY WorksInTeam DEF InWork
<1>3. ~Resting(t) /\ \A l : ~Held(t, l)
  BY DEF Resting, Held, Waiting, Released, InBarrier
<1> QED
  BY <1>1, <1>2, <1>3 DEF NodesStretch, ProductStretch, InNodes, InProduct, Placed, At, In, Released

\* Every step of the caller keeps the types.
LEMMA CallerTypes ==
  ASSUME PTypeInv,
         \/ \E g \in Graphs, n \in Plans : SetGraph(g, n)
         \/ Kickoff \/ Free \/ Join
         \/ \E v \in BOOLEAN : SetPause(v)
  PROVE  PTypeInv'
<1> USE DEF PTypeInv, PTypeOK, plan, flags, bar, work, Waiting, InWork, InBarrier
<1>1. 0 \in Threads /\ Pool \in Nat \ {0}
  BY PoolAssumption DEF Threads
<1>2. ASSUME NEW g \in Graphs, NEW n \in Plans, SetGraph(g, n) PROVE PTypeInv'
  <2>1. cgraph' \in Seq(Nodes) /\ n_threads' \in 0 .. Pool
    BY <1>1, <1>2, GraphAssumption, PlansAssumption DEF SetGraph, Nodes
  <2> QED
    BY <1>1, <1>2, <2>1 DEF SetGraph, Goto
<1>3. ASSUME NEW l \in {"idle", "enter", "join"}, Broadcast(l)
      PROVE  pc' \in [Threads -> Waiting \union InWork \union InBarrier
                                   \union {"idle", "kickoff", "enter", "join", "freed"}]
  BY <1>3 DEF Broadcast, Awake
<1>4. CASE Kickoff
  <2>1. n_graph' \in Nat \X (0 .. Pool) /\ n_graph'[1] = n_graph[1] + 1
    BY <1>4 DEF Kickoff
  <2>2. \A t \in Workers : last_graph'[t][1] <= n_graph'[1]
    BY <1>4, <2>1 DEF Kickoff
  <2> QED
    BY <1>3, <1>4, <2>1, <2>2 DEF Kickoff
<1>5. CASE Free
  BY <1>3, <1>5 DEF Free
<1>6. CASE Join
  BY <1>6 DEF Join, Goto
<1>7. ASSUME NEW v \in BOOLEAN, SetPause(v) PROVE PTypeInv'
  BY <1>3, <1>7 DEF SetPause
<1> QED
  BY <1>2, <1>4, <1>5, <1>6, <1>7

\* Every step of a worker that waits keeps the types.
LEMMA WaitTypes ==
  ASSUME PTypeInv, NEW t \in Workers, WaitForWork(t) \/ SpuriousWakeup(t)
  PROVE  PTypeInv'
<1>1. t \in Threads
  BY PoolAssumption DEF Workers, Threads
<1>2. /\ pc'[t] \in Waiting \union {"enter"}
      /\ last_graph'[t] \in {last_graph[t], n_graph}
      /\ UNCHANGED <<plan, flags, bar, work, ret>>
  BY WaitEffect
<1>3. \E l : pc' = [pc EXCEPT ![t] = l]
  BY DEF WaitForWork, SpuriousWakeup, Top, Poll, LockAndTest, Look, Goto
<1>4. last_graph' = last_graph \/ last_graph' = [last_graph EXCEPT ![t] = n_graph]
  BY DEF WaitForWork, SpuriousWakeup, Top, Poll, LockAndTest, Look
<1>5. pc' \in [Threads -> Waiting \union InWork \union InBarrier
                            \union {"idle", "kickoff", "enter", "join", "freed"}]
  BY <1>1, <1>2, <1>3 DEF PTypeInv, PTypeOK
<1>6. /\ last_graph' \in [Workers -> Nat \X (0 .. Pool)]
      /\ \A u \in Workers : last_graph'[u][1] <= n_graph[1]
  <2>1. n_graph \in Nat \X (0 .. Pool) /\ last_graph \in [Workers -> Nat \X (0 .. Pool)]
    BY DEF PTypeInv, PTypeOK
  <2>2. \A u \in Workers : last_graph'[u] = last_graph[u] \/ last_graph'[u] = n_graph
    BY <1>4, <2>1
  <2>3. n_graph[1] <= n_graph[1] /\ \A u \in Workers : last_graph[u][1] <= n_graph[1]
    BY <2>1 DEF PTypeInv
  <2>4. last_graph' \in [Workers -> Nat \X (0 .. Pool)]
    BY <1>4, <2>1
  <2> QED
    BY <2>2, <2>3, <2>4
<1> QED
  BY <1>2, <1>5, <1>6 DEF PTypeInv, PTypeOK, plan, flags, bar, work

\* Every step of a thread that computes keeps the types.
LEMMA ComputeTypes ==
  ASSUME PTypeInv, TeamInv, NEW t \in Threads, ComputeThread(t)
  PROVE  PTypeInv'
<1>0. /\ pc[t] = "endnode" => node[t] < UpTo
      /\ UpTo \in Nat /\ UpTo <= Len(cgraph) /\ Len(cgraph) \in Nat /\ t \in Nat
  <2>1. Len(cgraph) \in Nat
    BY DEF PTypeInv
  <2> QED
    BY <2>1, EndNodeBound, UpToFacts DEF Threads
<1>21. /\ node \in [Threads -> Nat] /\ [node EXCEPT ![t] = @ + 1] \in [Threads -> Nat]
      /\ [node EXCEPT ![t] = @] = node
  <2>1. node \in [Threads -> Nat]
    BY DEF PTypeInv, PTypeOK
  <2> QED
    BY <2>1
<1>22. [chunk EXCEPT ![t] = t] \in [Threads -> Nat]
  <2>1. chunk \in [Threads -> Nat]
    BY DEF PTypeInv, PTypeOK
  <2> QED
    BY <1>0, <2>1
<1>23. /\ [n_passed EXCEPT ![t] = n_barrier_passed] \in [Threads -> Nat]
      /\ \A u \in Threads : [n_passed EXCEPT ![t] = n_barrier_passed][u] <= n_barrier_passed
  <2>1. /\ n_passed \in [Threads -> Nat] /\ n_barrier_passed \in Nat
        /\ \A u \in Threads : n_passed[u] <= n_barrier_passed
    BY DEF PTypeInv, PTypeOK
  <2> QED
    BY <2>1
<1>24. [ret EXCEPT ![t] = "node"] \in [Threads -> {"idle", "top", "node", "chunks"}]
  BY DEF PTypeInv, PTypeOK
<1> DEFINE PCs == Waiting \union InWork \union InBarrier
                    \union {"idle", "kickoff", "enter", "join", "freed"}
<1>25. \A l \in PCs : [pc EXCEPT ![t] = l] \in [Threads -> PCs]
  <2>1. pc \in [Threads -> PCs]
    BY DEF PTypeInv, PTypeOK
  <2> HIDE DEF PCs
  <2> QED
    BY <2>1
<1>26. ret[t] \in PCs /\ {"node", "bar", "arrive"} \subseteq PCs
  <2>1. ret[t] \in {"idle", "top", "node", "chunks"}
    BY DEF PTypeInv, PTypeOK
  <2> QED
    BY <2>1 DEF Waiting, InWork, InBarrier
<1> USE DEF PTypeInv, PTypeOK, plan, flags, bar, work, Waiting, InWork, InBarrier, Goto
<1>1. CASE Enter(t)
  BY <1>1 DEF Enter
<1>2. CASE LoopEnds(t)
  BY <1>2 DEF LoopEnds, EnterBarrier
<1>3. CASE BeginNode(t)
  <2>1. /\ node' \in [Threads -> Nat]
        /\ chunk' \in [Threads -> Nat]
    <3>1. node' = node \/ node' = [node EXCEPT ![t] = @ + 1] \/ node' = [node EXCEPT ![t] = @]
      BY <1>3 DEF BeginNode
    <3>2. chunk' = [chunk EXCEPT ![t] = t]
      BY <1>3 DEF BeginNode
    <3>3. node' \in [Threads -> Nat]
      BY <1>21, <3>1
    <3>4. chunk' \in [Threads -> Nat]
      BY <1>22, <3>2
    <3> QED
      BY <3>3, <3>4
  <2>2. Node(t).op \in {"none", "rows", "mul_mat"}
    <3>1. cgraph[node[t] + 1] \in Nodes
      BY <1>3, NodeFacts DEF BeginNode
    <3> QED
      BY <3>1 DEF Node, Nodes
  <2>3. pc' \in [Threads -> Waiting \union InWork \union InBarrier
                              \union {"idle", "kickoff", "enter", "join", "freed"}]
    BY <1>3, <2>2 DEF BeginNode
  <2> QED
    BY <1>3, <2>1, <2>3 DEF BeginNode
<1>4. CASE Convert(t)
  <2>1. current_chunk' \in Nat
    BY <1>4, PoolAssumption DEF Convert, Threads
  <2> QED
    BY <1>4, <2>1 DEF Convert, EnterBarrier
<1>5. CASE ComputeChunk(t)
  <2>1. computed' \subseteq Nat \X Nat
    BY <1>5 DEF ComputeChunk
  <2>2. pc' \in [Threads -> Waiting \union InWork \union InBarrier
                              \union {"idle", "kickoff", "enter", "join", "freed"}]
    BY <1>5 DEF ComputeChunk
  <2> QED
    BY <1>5, <2>1, <2>2 DEF ComputeChunk
<1>6. CASE GrabChunk(t)
  <2>1. chunk' \in [Threads -> Nat] /\ current_chunk' \in Nat
    BY <1>6 DEF GrabChunk
  <2>2. pc' \in [Threads -> Waiting \union InWork \union InBarrier
                              \union {"idle", "kickoff", "enter", "join", "freed"}]
    BY <1>6 DEF GrabChunk
  <2> QED
    BY <1>6, <2>1, <2>2 DEF GrabChunk
<1>7. CASE EndNode(t)
  <2>1. abort' = -1 \/ abort' \in 0 .. Len(cgraph)
    BY <1>0, <1>7, SMTT(30) DEF EndNode
  <2>2. /\ node' \in [Threads -> Nat] /\ ec' \in {"success", "aborted"}
        /\ ret' \in [Threads -> {"idle", "top", "node", "chunks"}]
    <3>1. node' = [node EXCEPT ![t] = @ + 1] /\ ec' \in {ec, "aborted"}
      BY <1>7 DEF EndNode
    <3>2. ret' = ret \/ ret' = [ret EXCEPT ![t] = "node"]
      BY <1>7 DEF EndNode, EnterBarrier
    <3> QED
      BY <1>21, <1>24, <3>1, <3>2
  <2>3. pc' \in [Threads -> Waiting \union InWork \union InBarrier
                              \union {"idle", "kickoff", "enter", "join", "freed"}]
    <3>1. \E l \in {"node", "bar"} : pc' = [pc EXCEPT ![t] = l]
      BY <1>7 DEF EndNode, EnterBarrier
    <3> HIDE DEF PCs, PTypeInv, PTypeOK, Waiting, InWork, InBarrier
    <3>2. pc' \in [Threads -> PCs]
      BY <1>25, <1>26, <3>1
    <3> QED
      BY <3>2 DEF PCs
  <2>4. abort' \in Int
    BY <2>1
  <2> QED
    BY <1>7, <2>1, <2>2, <2>3, <2>4 DEF EndNode
<1>8. CASE ReadRound(t)
  <2>1. n_passed' = n_passed \/ n_passed' = [n_passed EXCEPT ![t] = n_barrier_passed]
    BY <1>8 DEF ReadRound
  <2>2. /\ n_passed' \in [Threads -> Nat]
        /\ \A u \in Threads : n_passed'[u] <= n_barrier_passed
    BY <1>23, <2>1
  <2>3. pc' \in [Threads -> Waiting \union InWork \union InBarrier
                              \union {"idle", "kickoff", "enter", "join", "freed"}]
    <3>1. \E l \in {ret[t], "arrive"} : pc' = [pc EXCEPT ![t] = l]
      BY <1>8 DEF ReadRound
    <3> HIDE DEF PCs, PTypeInv, PTypeOK, Waiting, InWork, InBarrier
    <3>2. pc' \in [Threads -> PCs]
      BY <1>25, <1>26, <3>1
    <3> QED
      BY <3>2 DEF PCs
  <2> QED
    BY <1>8, <2>2, <2>3 DEF ReadRound
<1>9. CASE Arrive(t)
  BY <1>9, SMTT(30) DEF Arrive
<1>10. CASE ResetBarrier(t)
  BY <1>10 DEF ResetBarrier
<1>11. CASE OpenBarrier(t)
  BY <1>11, SMTT(30) DEF OpenBarrier
<1>12. CASE Spin(t)
  BY <1>12 DEF Spin
<1> QED
  BY <1>1, <1>2, <1>3, <1>4, <1>5, <1>6, <1>7, <1>8, <1>9, <1>10, <1>11, <1>12
     DEF ComputeThread, Barrier

-----------------------------------------------------------------------------
(* The invariant and what follows from it.                                 *)

\* At first there is no graph.
LEMMA InitInv == PInit => PInv
<1> SUFFICES ASSUME PInit PROVE PInv
  OBVIOUS
<1>1. PTypeInv
  <2>1. << >> \in Seq(Nodes) /\ Len(<< >>) = 0
    OBVIOUS
  <2>2. n_graph \in Nat \X (0 .. Pool) /\ n_threads \in 0 .. Pool /\ n_graph[1] = 0
    BY PoolAssumption DEF PInit
  <2>3. /\ last_graph \in [Workers -> Nat \X (0 .. Pool)]
        /\ \A t \in Workers : last_graph[t][1] = 0
    BY PoolAssumption DEF PInit
  <2>4. /\ node \in [Threads -> Nat] /\ nth \in [Threads -> 0 .. Pool]
        /\ chunk \in [Threads -> Nat] /\ n_passed \in [Threads -> Nat]
        /\ \A t \in Threads : n_passed[t] = 0
    BY PoolAssumption DEF PInit
  <2>5. /\ pc \in [Threads -> Waiting \union InWork \union InBarrier
                               \union {"idle", "kickoff", "enter", "join", "freed"}]
        /\ ret \in [Threads -> {"idle", "top", "node", "chunks"}]
    BY DEF PInit, Waiting
  <2>6. PTypeOK
    <3>1. n_barrier \in Nat /\ n_barrier_passed \in Nat /\ current_chunk \in Nat /\ abort \in Int
      BY DEF PInit
    <3>2. stop \in BOOLEAN /\ pause \in BOOLEAN /\ ec \in {"success", "aborted"}
      BY DEF PInit
    <3> QED
      BY <2>2, <2>3, <2>4, <2>5, <3>1, <3>2 DEF PTypeOK
  <2> QED
    BY <2>1, <2>2, <2>3, <2>4, <2>6 DEF PInit, PTypeInv
<1>2. Over
  <2>1. pc[0] = "idle"
    BY PoolAssumption DEF PInit, Threads
  <2>2. ASSUME NEW t \in Threads, t # 0 PROVE Off(t)
    <3>1. t \in Workers
      BY <2>2, PoolAssumption DEF Threads, Workers
    <3> QED
      BY <2>2, <3>1 DEF PInit, Off, Resting, Waiting
  <2>3. \A t \in Threads : Off(t)
    BY <2>1, <2>2 DEF Off
  <2>4. UpTo = 0 /\ n_threads = n_graph[2]
    BY DEF PInit, UpTo
  <2> QED
    BY <2>1, <2>3, <2>4 DEF Over, PInit
<1> QED
  BY <1>1, <1>2 DEF PInv, TeamInv

\* Every step keeps the team together.
LEMMA NextInv == PInv /\ [PNext]_vars => PInv'
<1> SUFFICES ASSUME PTypeInv, TeamInv, [PNext]_vars PROVE PTypeInv' /\ TeamInv'
  BY DEF PInv
<1>1. ASSUME NEW g \in Graphs, NEW n \in Plans, SetGraph(g, n) PROVE PTypeInv' /\ TeamInv'
  BY <1>1, CallerTypes, SetGraphInv
<1>2. CASE Kickoff
  BY <1>2, CallerTypes, KickoffInv
<1>3. CASE Free \/ Join \/ \E v \in BOOLEAN : SetPause(v)
  BY <1>3, CallerTypes, QuietInv
<1>4. ASSUME NEW t \in Workers, WaitForWork(t) \/ SpuriousWakeup(t) PROVE PTypeInv' /\ TeamInv'
  BY <1>4, WaitTypes, WaitInv
<1>5. ASSUME NEW t \in Threads, ComputeThread(t) PROVE PTypeInv' /\ TeamInv'
  <2>1. PTypeInv'
    BY <1>5, ComputeTypes
  <2>2. TeamInv'
    BY <1>5, EnterInv, LoopEndsInv, BeginNodeInv, ConvertInv, ComputeChunkInv, GrabChunkInv,
       EndNodeInv, ReadRoundInv, ArriveInv, ResetBarrierInv, OpenBarrierInv, SpinInv
       DEF ComputeThread, Barrier
  <2> QED
    BY <2>1, <2>2
<1>6. CASE UNCHANGED vars
  <2> USE <1>6 DEF vars, plan, flags, bar, work
  <2>1. PTypeInv'
    BY DEF PTypeInv, PTypeOK
  <2>2. \A u \in Threads : Same(u) /\ SameParts(u)
    BY DEF Same, SameParts
  <2>3. CASE Over
    <3>1. \A u \in Threads : Off(u)'
      BY <2>3 DEF Over, Off, Resting, Released
    <3>2. pc[0] \in {"spin", "idle"} => \A k \in 1 .. UpTo' : Executor!Complete(k)'
      BY <2>3, FrameComplete DEF Over, UpTo
    <3> QED
      BY <2>1, <2>3, <3>1, <3>2 DEF TeamInv, Over
  <2>4. ASSUME NEW b \in Nat, Busy(b), NodesStretch(b) \/ ProductStretch(b) PROVE TeamInv'
    <3>1. 0 \in Team /\ 0 \in Threads
      BY <2>4, PoolAssumption DEF Busy, Team, Threads
    <3>2. BarrierInv'
      BY <2>4, FrameBarrier DEF Busy
    <3>3. CASE NodesStretch(b)
      BY <2>2, <2>4, <3>1, <3>2, <3>3, FrameNodes, NodesStep DEF NodesStretch
    <3>4. CASE ProductStretch(b)
      <4>1. b < UpTo /\ UpTo \in Nat /\ UpTo' = UpTo /\ b < Len(cgraph) /\ current_chunk \in Nat
        BY <3>4, UpToFacts DEF ProductStretch, UpTo, PTypeInv, PTypeOK
      <4>2. InProduct(0, b)'
        BY <2>2, <3>1, <3>4, <4>1, FrameProduct DEF ProductStretch
      <4>3. Shared(b)'
        <5>1. \A u \in Team : At(u, "chunks")' <=> At(u, "chunks")
          BY DEF At, Released
        <5> QED
          BY <3>4, <5>1, FrameShared DEF ProductStretch
      <4> QED
        BY <2>2, <2>4, <3>1, <3>2, <3>4, <4>1, <4>2, <4>3, ProductStep
    <3> QED
      BY <2>4, <3>3, <3>4
  <2> QED
    BY <2>1, <2>3, <2>4 DEF TeamInv
<1> QED
  BY <1>1, <1>2, <1>3, <1>4, <1>5, <1>6 DEF PNext, Freed

\* In every reachable state there is a stretch in which the whole team is.
THEOREM TeamTogether == PSpec => []PInv
  BY InitInv, NextInv, PTL DEF PSpec

\* Type correctness of the pool's atomics and the threads' locals.
THEOREM PoolTypeCorrect == PSpec => []PTypeOK
<1>1. PInv => PTypeOK
  BY DEF PInv, PTypeInv
<1> QED
  BY <1>1, TeamTogether, PTL

\* Nobody reads the parameters of the graph while the caller may write them.
THEOREM QuietCorrect == PSpec => []ParametersAreQuiet
<1>1. PInv => ParametersAreQuiet
  <2> SUFFICES ASSUME PTypeInv, TeamInv, pc[0] \in {"idle", "kickoff", "join", "freed"},
                      NEW t \in Workers
               PROVE  pc[t] \in Waiting \/ (pc[t] = "spin" /\ n_passed[t] # n_barrier_passed)
    BY DEF PInv, ParametersAreQuiet
  <2>1. Over /\ t \in Threads /\ t # 0
    BY CallerOver, PoolAssumption DEF Workers, Threads
  <2> QED
    BY <2>1 DEF Over, Off, Resting, Released
<1> QED
  BY <1>1, TeamTogether, PTL

\* Where a thread is that computes a chunk, and what it holds.
LEMMA AtChunks ==
  ASSUME PTypeInv, TeamInv, NEW t \in Threads, pc[t] = "chunks"
  PROVE  /\ t \in Team /\ nth[t] = n_graph[2] /\ n_threads = n_graph[2]
         /\ node[t] < UpTo /\ \A k \in 1 .. node[t] : Executor!Complete(k)
         /\ \A b \in Nat : Busy(b) /\ NodesStretch(b) =>
              In(t, b, "rows") /\ chunk[t] = t /\ Fresh(t, b)
         /\ \A b \in Nat : Busy(b) /\ ProductStretch(b) =>
              node[t] = b /\ chunk[t] < current_chunk /\ At(t, "chunks")
<1>1. t \in Team
  BY WorksInTeam DEF InWork
<1>2. PICK c \in Nat : Busy(c) /\ (NodesStretch(c) \/ ProductStretch(c))
  BY WorksInTeam DEF InWork
<1>3. ~Resting(t) /\ \A l : ~Held(t, l)
  BY DEF Resting, Held, Waiting, Released, InBarrier
<1>4. ASSUME NEW b \in Nat, Busy(b), NodesStretch(b)
      PROVE  In(t, b, "rows") /\ chunk[t] = t /\ Fresh(t, b) /\ Joined(t)
  BY <1>1, <1>3, <1>4 DEF NodesStretch, InNodes, Placed, At, Released
<1>5. ASSUME NEW b \in Nat, Busy(b), ProductStretch(b)
      PROVE  node[t] = b /\ chunk[t] < current_chunk /\ At(t, "chunks") /\ Joined(t)
  BY <1>1, <1>3, <1>5 DEF ProductStretch, InProduct, At, Released
<1>6. n_threads = n_graph[2] /\ node[t] \in Nat
  BY <1>2 DEF Busy, PTypeInv, PTypeOK
<1>7. CASE NodesStretch(c)
  <2>1. Skip(c, node[t]) /\ node[t] < UpTo /\ Joined(t)
    BY <1>2, <1>4, <1>7 DEF In
  <2>2. \A k \in 1 .. node[t] : Executor!Complete(k)
    BY <1>2, <1>6, <2>1, CompleteSkip DEF Busy
  <2> QED
    BY <1>1, <1>4, <1>5, <1>6, <2>1, <2>2 DEF Joined
<1>8. CASE ProductStretch(c)
  <2>1. node[t] = c /\ Joined(t) /\ c < UpTo
    BY <1>2, <1>5, <1>8 DEF ProductStretch
  <2>2. \A k \in 1 .. node[t] : Executor!Complete(k)
    BY <1>2, <2>1 DEF Busy
  <2> QED
    BY <1>1, <1>4, <1>5, <1>6, <2>1, <2>2 DEF Joined
<1> QED
  BY <1>2, <1>7, <1>8

\* Every chunk has one owner and is computed once.
LEMMA OneOwner == PInv => ChunkHasOneOwner
<1> SUFFICES ASSUME PTypeInv, TeamInv, NEW t \in Threads, pc[t] = "chunks", chunk[t] \in PartsOf(t)
             PROVE  /\ <<node[t] + 1, chunk[t]>> \notin computed
                    /\ \A u \in Threads \ {t} :
                         pc[u] = "chunks" => <<node[u], chunk[u]>> # <<node[t], chunk[t]>>
  BY DEF PInv, ChunkHasOneOwner
<1>1. PICK b \in Nat : Busy(b) /\ (NodesStretch(b) \/ ProductStretch(b))
  BY WorksInTeam DEF InWork
<1>2. node[t] \in Nat /\ chunk[t] \in Nat
  BY DEF PTypeInv, PTypeOK
<1>3. CASE NodesStretch(b)
  <2>1. In(t, b, "rows") /\ chunk[t] = t /\ Fresh(t, b)
    BY <1>1, <1>3, AtChunks
  <2>2. node[t] + 1 \in Nat /\ node[t] + 1 > b
    BY <1>2, <2>1 DEF In, Skip
  <2>3. \A u \in Threads \ {t} : pc[u] = "chunks" => chunk[u] = u
    BY <1>1, <1>3, AtChunks
  <2> QED
    BY <2>1, <2>2, <2>3 DEF Fresh
<1>4. CASE ProductStretch(b)
  <2>1. t \in Team /\ node[t] = b /\ At(t, "chunks")
    BY <1>1, <1>4, AtChunks
  <2>2. \A u \in Threads : pc[u] = "chunks" => u \in Team /\ At(u, "chunks")
    BY <1>1, <1>4, AtChunks
  <2>3. Shared(b)
    BY <1>4 DEF ProductStretch
  <2> QED
    BY <1>2, <2>1, <2>2, <2>3 DEF Shared
<1> QED
  BY <1>1, <1>3, <1>4

\* No chunk of a product is computed twice, or by two threads at a time.
THEOREM ChunksCorrect == PSpec => []ChunkHasOneOwner
  BY OneOwner, TeamTogether, PTL

\* While somebody converts into the work buffer nobody computes with it.
THEOREM WorkBufferCorrect == PSpec => []WorkBufferIsStable
<1>1. PInv => WorkBufferIsStable
  <2> SUFFICES ASSUME PTypeInv, TeamInv, NEW t \in Threads, NEW u \in Threads,
                      pc[t] = "convert", pc[u] = "chunks"
               PROVE  Node(u).op # "mul_mat"
    BY DEF PInv, WorkBufferIsStable
  <2>1. t \in Team
    BY WorksInTeam DEF InWork
  <2>2. PICK b \in Nat : Busy(b) /\ (NodesStretch(b) \/ ProductStretch(b))
    BY WorksInTeam DEF InWork
  <2>3. \A l : ~Held(t, l)
    BY DEF Held, Released, InBarrier
  <2>4. ~ProductStretch(b)
    BY <2>1, <2>3 DEF ProductStretch, InProduct, At, Released
  <2>5. In(u, b, "rows")
    BY <2>2, <2>4, AtChunks
  <2> QED
    BY <2>5 DEF In, Node, Op
<1> QED
  BY <1>1, TeamTogether, PTL

\* A node is computed only when all nodes before it are complete.
THEOREM InputsCorrect == PSpec => []InputsAreComplete
<1>1. PInv => InputsAreComplete
  <2> SUFFICES ASSUME PTypeInv, TeamInv, NEW t \in Threads, pc[t] \in {"convert", "chunks"}
               PROVE  \A k \in 1 .. node[t] : Executor!Complete(k)
    BY DEF PInv, InputsAreComplete
  <2>1. CASE pc[t] = "chunks"
    BY <2>1, AtChunks
  <2>2. CASE pc[t] = "convert"
    <3>1. t \in Team
      BY <2>2, WorksInTeam DEF InWork
    <3>2. PICK b \in Nat : Busy(b) /\ (NodesStretch(b) \/ ProductStretch(b))
      BY <2>2, WorksInTeam DEF InWork
    <3>3. ~Resting(t) /\ \A l : ~Held(t, l)
      BY <2>2 DEF Resting, Held, Waiting, Released, InBarrier
    <3>4. Skip(b, node[t])
      BY <2>2, <3>1, <3>2, <3>3
         DEF NodesStretch, ProductStretch, InNodes, InProduct, Placed, At, Released, In
    <3>5. n_threads = n_graph[2] /\ node[t] \in Nat
      BY <3>2 DEF Busy, PTypeInv, PTypeOK
    <3> QED
      BY <3>2, <3>4, <3>5, CompleteSkip DEF Busy
  <2> QED
    BY <2>1, <2>2
<1> QED
  BY <1>1, TeamTogether, PTL

-----------------------------------------------------------------------------
(* The pool implements the executor.                                       *)

Phase ==
  CASE pc[0] = "idle" -> "idle"
    [] pc[0] \in {"join", "freed"} -> "over"
    [] OTHER -> "busy"

\* A step that the caller of ggml_graph_compute cannot see.
LEMMA Invisible ==
  ASSUME UNCHANGED <<cgraph, n_threads, abort, ec, computed>>, Phase' = Phase
  PROVE  UNCHANGED Executor!evars
<1>1. UpTo' = UpTo
  BY DEF UpTo
<1> QED
  BY <1>1 DEF Executor!evars, Phase, UpTo

\* While a thread works, the caller is inside ggml_graph_compute.
LEMMA WorkIsBusy ==
  ASSUME PTypeInv, TeamInv, NEW t \in Threads,
         pc[t] \in InWork \union {"enter", "bar", "arrive", "last", "open"}
  PROVE  Phase = "busy"
<1>1. ~Off(t)
  BY DEF Off, Resting, Waiting, InWork, Released
<1>2. pc[0] \notin {"idle", "kickoff", "join", "freed"}
  BY <1>1, CallerOver DEF Over
<1> QED
  BY <1>2 DEF Phase

\* What was computed when thread 0 ends a node is not beyond this node.
LEMMA NothingBeyond ==
  ASSUME PTypeInv, TeamInv, pc[0] = "endnode", NEW p \in computed
  PROVE  p[1] <= node[0] + 1
<1>0. 0 \in Threads
  BY PoolAssumption DEF Threads
<1>1. 0 \in Team
  BY <1>0, WorksInTeam DEF InWork
<1>2. PICK b \in Nat : Busy(b) /\ (NodesStretch(b) \/ ProductStretch(b))
  BY <1>0, WorksInTeam DEF InWork
<1>3. /\ p = <<p[1], p[2]>> /\ p[1] \in Nat /\ UpTo \in Nat
      /\ \A u \in Threads : node[u] \in Nat
  BY UpToFacts DEF PTypeInv, PTypeOK
<1>4. ~Resting(0) /\ \A l : ~Held(0, l)
  BY DEF Resting, Held, Waiting, Released, InBarrier
<1>5. CASE NodesStretch(b)
  <2>1. Skip(b, node[0]) /\ node[0] < UpTo /\ Op(node[0]) = "rows"
    BY <1>1, <1>4, <1>5 DEF NodesStretch, InNodes, Placed, At, Released, In
  <2>2. \A k \in Nat : Skip(b, k) => k <= node[0]
    BY <1>0, <1>3, <2>1 DEF Skip
  <2>3. CASE p[1] <= b
    BY <1>0, <1>3, <2>1, <2>3 DEF Skip
  <2>4. CASE p[1] > b
    <3>1. PICK u \in Team : u = p[2]
      BY <1>3, <1>5, <2>4 DEF NodesStretch
    <3>2. InNodes(u, b) /\ ~Fresh(u, b) /\ u \in Threads
      BY <1>3, <1>5, <2>4, <3>1 DEF NodesStretch, Fresh, Team
    <3>3. (In(u, b, "rows") /\ Did(u, b, node[u] + 1)) \/ After(u, b)
      BY <3>2 DEF InNodes, Placed, Before
    <3>4. CASE In(u, b, "rows") /\ Did(u, b, node[u] + 1)
      <4>1. p[1] = node[u] + 1
        BY <1>3, <2>4, <3>1, <3>4 DEF Did
      <4> QED
        BY <1>0, <1>3, <2>2, <3>2, <3>4, <4>1 DEF In
    <3>5. CASE After(u, b)
      <4>1. p[1] = node[u]
        BY <1>3, <2>4, <3>1, <3>5 DEF After, Did
      <4>2. node[u] - 1 \in Nat /\ Skip(b, node[u] - 1)
        BY <1>3, <3>2, <3>5 DEF After
      <4>3. node[u] - 1 <= node[0]
        BY <2>2, <4>2
      <4> QED
        BY <1>0, <1>3, <3>2, <4>1, <4>3
    <3> QED
      BY <3>3, <3>4, <3>5
  <2> QED
    BY <1>3, <2>3, <2>4
<1>6. CASE ProductStretch(b)
  <2>1. node[0] = b
    BY <1>1, <1>4, <1>6 DEF ProductStretch, InProduct, At, Released
  <2> QED
    BY <1>6, <2>1 DEF ProductStretch, Shared
<1> QED
  BY <1>2, <1>5, <1>6

\* The caller's steps: submit, free, or nothing.
LEMMA CallerRefines ==
  ASSUME PTypeInv, TeamInv,
         \/ \E g \in Graphs, n \in Plans : SetGraph(g, n)
         \/ Kickoff \/ Free \/ Join
         \/ \E v \in BOOLEAN : SetPause(v)
  PROVE  [Executor!ENext]_(Executor!evars)
<1>0. 0 \in Threads /\ \A l : Goto(0, l) \/ Broadcast(l) => pc'[0] = l
  BY PoolAssumption DEF Threads, Goto, Broadcast, PTypeInv, PTypeOK
<1>1. ASSUME NEW g \in Graphs, NEW n \in Plans, SetGraph(g, n) PROVE Executor!ENext
  <2>1. n_threads' \in 1 .. Pool
    BY <1>1, PoolAssumption, PlansAssumption DEF SetGraph
  <2>2. pc[0] = "idle" /\ pc'[0] = "kickoff"
    BY <1>0, <1>1 DEF SetGraph
  <2>3. Executor!Submit(g, n_threads')
    BY <1>1, <2>2 DEF SetGraph, Executor!Submit
  <2> QED
    BY <2>1, <2>3 DEF Executor!ENext
<1>2. CASE Kickoff
  <2>1. Phase' = Phase
    BY <1>0, <1>2 DEF Kickoff, Phase
  <2> QED
    BY <1>2, <2>1, Invisible DEF Kickoff, plan, work
<1>3. CASE Free
  <2>1. pc[0] = "idle" /\ pc'[0] = "join"
    BY <1>0, <1>3 DEF Free
  <2>2. UNCHANGED <<cgraph, n_threads, abort, ec, computed>>
    BY <1>3 DEF Free, plan, work
  <2>3. Executor!Free
    BY <2>1, <2>2 DEF Executor!Free
  <2> QED
    BY <2>3 DEF Executor!ENext
<1>4. CASE Join
  <2>1. Phase' = Phase
    BY <1>0, <1>4 DEF Join, Phase
  <2> QED
    BY <1>4, <2>1, Invisible DEF Join, plan, work
<1>5. ASSUME NEW v \in BOOLEAN, SetPause(v) PROVE UNCHANGED Executor!evars
  <2>1. Phase' = Phase
    BY <1>0, <1>5 DEF SetPause, Phase
  <2> QED
    BY <1>5, <2>1, Invisible DEF SetPause, plan, work
<1> QED
  BY <1>1, <1>2, <1>3, <1>4, <1>5

\* When thread 0 has returned to its caller, the graph is computed.
LEMMA ReturnedComplete ==
  PTypeInv /\ TeamInv /\ pc[0] = "idle" => \A k \in 1 .. UpTo : Executor!Complete(k)
  BY CallerOver DEF Over

\* A step that changes neither the graph nor what is computed is invisible, or
\* it is the return to the caller.
LEMMA ReturnOrStutter ==
  ASSUME PTypeInv, TeamInv, PTypeInv', TeamInv',
         UNCHANGED <<cgraph, n_threads, abort, ec, computed>>,
         pc'[0] = pc[0] \/ (Phase = "busy" /\ pc'[0] \notin {"join", "freed"})
  PROVE  [Executor!ENext]_(Executor!evars)
<1>1. CASE Phase' = Phase
  BY <1>1, Invisible
<1>2. CASE Phase' # Phase
  <2>1. Phase = "busy" /\ pc'[0] = "idle"
    BY <1>2 DEF Phase
  <2>2. (\A k \in 1 .. UpTo : Executor!Complete(k))'
    <3>1. (PTypeInv /\ TeamInv /\ pc[0] = "idle" => \A k \in 1 .. UpTo : Executor!Complete(k))'
      BY ReturnedComplete, PTL
    <3> QED
      BY <2>1, <3>1
  <2>3. UpTo' = UpTo /\ \A k : Executor!Complete(k)' <=> Executor!Complete(k)
    BY DEF UpTo, Executor!Complete, Executor!Parts, Executor!NChunk
  <2>4. \A k \in 1 .. UpTo : Executor!Complete(k)
    BY <2>2, <2>3
  <2>5. Executor!Return
    BY <2>1, <2>4 DEF Executor!Return, Phase, UpTo
  <2> QED
    BY <2>5 DEF Executor!ENext
<1> QED
  BY <1>1, <1>2

\* A chunk is computed: the executor's Compute, or nothing.
LEMMA ComputeChunkRefines ==
  ASSUME PTypeInv, TeamInv, NEW t \in Threads, ComputeChunk(t)
  PROVE  [Executor!ENext]_(Executor!evars)
<1>1. /\ pc[t] = "chunks" /\ Phase = "busy"
      /\ UNCHANGED <<cgraph, n_threads, abort, ec>>
  BY WorkIsBusy DEF ComputeChunk, plan, InWork
<1>2. Phase' = Phase
  <2>1. pc'[0] = pc[0] \/ pc'[0] \in {"grab", "endnode"}
    <3>1. \E l \in {"grab", "endnode"} : pc' = [pc EXCEPT ![t] = l]
      BY DEF ComputeChunk, Goto
    <3>2. 0 \in Threads /\ DOMAIN pc = Threads
      BY PoolAssumption DEF PTypeInv, PTypeOK, Threads
    <3> QED
      BY <3>1, <3>2
  <2> QED
    BY <1>1, <2>1 DEF Phase
<1>3. /\ nth[t] = n_threads /\ node[t] < UpTo /\ node[t] \in Nat
      /\ UpTo \in Nat /\ UpTo <= Len(cgraph) /\ Len(cgraph) \in Nat
      /\ \A k \in 1 .. node[t] : Executor!Complete(k)
  <2>1. node[t] \in Nat /\ Len(cgraph) \in Nat
    BY DEF PTypeInv, PTypeOK
  <2> QED
    BY <1>1, <2>1, AtChunks, UpToFacts
<1>4. CASE chunk[t] \in PartsOf(t)
  <2>1. computed' = computed \union {<<node[t] + 1, chunk[t]>>}
    BY <1>4 DEF ComputeChunk
  <2>2. <<node[t] + 1, chunk[t]>> \notin computed
    BY <1>1, <1>4, OneOwner DEF PInv, ChunkHasOneOwner
  <2>3. PICK k \in 1 .. Len(cgraph) : k = node[t] + 1 /\ k <= UpTo
    BY <1>3
  <2>4. chunk[t] \in Executor!Parts(cgraph[k], n_threads)
    BY <1>3, <1>4, <2>3 DEF PartsOf, Node
  <2>5. \A j \in 1 .. (k - 1) : Executor!Complete(j)
    BY <1>3, <2>3
  <2>6. Executor!Compute(k, chunk[t])
    BY <1>1, <1>2, <2>1, <2>2, <2>3, <2>4, <2>5 DEF Executor!Compute, Phase, UpTo
  <2> QED
    BY <2>3, <2>4, <2>6 DEF Executor!ENext
<1>5. CASE chunk[t] \notin PartsOf(t)
  BY <1>1, <1>2, <1>5, Invisible DEF ComputeChunk
<1> QED
  BY <1>4, <1>5

\* A node is done: the executor's Abort, or nothing.
LEMMA EndNodeRefines ==
  ASSUME PTypeInv, TeamInv, NEW t \in Threads, EndNode(t)
  PROVE  [Executor!ENext]_(Executor!evars)
<1>1. /\ pc[t] = "endnode" /\ Phase = "busy"
      /\ UNCHANGED <<cgraph, n_threads, computed>>
  BY WorkIsBusy DEF EndNode, InWork
<1>2. Phase' = Phase
  <2>1. pc'[0] = pc[0] \/ pc'[0] \in {"bar", "node"}
    <3>1. \E l \in {"bar", "node"} : pc' = [pc EXCEPT ![t] = l]
      BY DEF EndNode, EnterBarrier, Goto
    <3>2. 0 \in Threads /\ DOMAIN pc = Threads
      BY PoolAssumption DEF PTypeInv, PTypeOK, Threads
    <3> QED
      BY <3>1, <3>2
  <2> QED
    BY <1>1, <2>1 DEF Phase
<1>3. CASE UNCHANGED <<abort, ec>>
  BY <1>1, <1>2, <1>3, Invisible
<1>4. CASE t = 0 /\ abort' = node[t] + 1 /\ ec' = "aborted"
  <2>1. /\ node[t] < UpTo /\ node[t] \in Nat
        /\ UpTo \in Nat /\ UpTo <= Len(cgraph) /\ Len(cgraph) \in Nat
    <3>1. node[t] \in Nat /\ Len(cgraph) \in Nat
      BY DEF PTypeInv, PTypeOK
    <3> QED
      BY <1>1, <3>1, EndNodeBound, UpToFacts
  <2>2. PICK k \in 1 .. Len(cgraph) : k = node[t] + 1 /\ k <= UpTo
    BY <2>1
  <2>3. \A p \in computed : p[1] <= k
    BY <1>1, <1>4, <2>2, NothingBeyond
  <2>4. UpTo' = k
    BY <1>4, <2>2 DEF UpTo
  <2>5. Executor!Abort(k)
    BY <1>1, <1>2, <1>4, <2>2, <2>3, <2>4 DEF Executor!Abort, Phase, UpTo
  <2> QED
    BY <2>2, <2>5 DEF Executor!ENext
<1> QED
  BY <1>3, <1>4 DEF EndNode

\* The other steps of a thread that computes.
LEMMA ComputeThreadRefines ==
  ASSUME PTypeInv, TeamInv, PTypeInv', TeamInv', NEW t \in Threads, ComputeThread(t)
  PROVE  [Executor!ENext]_(Executor!evars)
<1>1. CASE ComputeChunk(t)
  BY <1>1, ComputeChunkRefines
<1>2. CASE EndNode(t)
  BY <1>2, EndNodeRefines
<1>3. CASE \/ Enter(t) \/ LoopEnds(t) \/ BeginNode(t) \/ Convert(t) \/ GrabChunk(t)
           \/ Barrier(t)
  <2>1. UNCHANGED <<cgraph, n_threads, abort, ec, computed>>
    BY <1>3 DEF Enter, LoopEnds, BeginNode, Convert, GrabChunk, Barrier, ReadRound, Arrive,
                ResetBarrier, OpenBarrier, Spin, plan, work
  <2>2. pc[t] \in InWork \union {"enter"} \union InBarrier
    BY <1>3 DEF Enter, LoopEnds, BeginNode, Convert, GrabChunk, Barrier, ReadRound, Arrive,
                ResetBarrier, OpenBarrier, Spin, InWork, InBarrier
  <2>3. CASE t # 0
    <3>1. pc'[0] = pc[0]
      BY <2>3, OneThread, PoolAssumption DEF Same, Threads
    <3> QED
      BY <2>1, <3>1, ReturnOrStutter
  <2>4. CASE t = 0
    <3>1. Phase = "busy"
      BY <2>2, <2>4 DEF Phase, InWork, InBarrier
    <3>2. pc'[0] \notin {"join", "freed"}
      <4>1. ret[t] \in {"idle", "top", "node", "chunks"}
        BY DEF PTypeInv, PTypeOK
      <4>2. CASE Barrier(t)
        BY <2>4, <4>1, <4>2 DEF Barrier, ReadRound, Arrive, ResetBarrier, OpenBarrier, Spin, Goto,
                                PTypeInv, PTypeOK
      <4>3. CASE BeginNode(t)
        <5>1. node[t] \in Nat /\ node[t] < Len(cgraph)
          BY <4>3 DEF BeginNode, PTypeInv, PTypeOK
        <5>2. Node(t).op \in {"none", "rows", "mul_mat"}
          BY <5>1, NodeFacts DEF Node, Nodes
        <5> QED
          BY <2>4, <4>3, <5>2 DEF BeginNode, Goto, PTypeInv, PTypeOK
      <4>4. CASE Enter(t) \/ LoopEnds(t) \/ Convert(t) \/ GrabChunk(t)
        BY <2>4, <4>4 DEF Enter, LoopEnds, Convert, GrabChunk, EnterBarrier, Goto,
                          PTypeInv, PTypeOK
      <4> QED
        BY <1>3, <4>2, <4>3, <4>4
    <3> QED
      BY <2>1, <3>1, <3>2, ReturnOrStutter
  <2> QED
    BY <2>3, <2>4
<1> QED
  BY <1>1, <1>2, <1>3 DEF ComputeThread

\* Every step of the pool is a step of the executor, or invisible.
LEMMA NextRefines == PInv /\ PInv' /\ [PNext]_vars => [Executor!ENext]_(Executor!evars)
<1> SUFFICES ASSUME PTypeInv, TeamInv, PTypeInv', TeamInv', [PNext]_vars
             PROVE  [Executor!ENext]_(Executor!evars)
  BY DEF PInv
<1>1. CASE \/ \E g \in Graphs, n \in Plans : SetGraph(g, n)
           \/ Kickoff \/ Free \/ Join
           \/ \E v \in BOOLEAN : SetPause(v)
  BY <1>1, CallerRefines
<1>2. ASSUME NEW t \in Workers, WaitForWork(t) \/ SpuriousWakeup(t)
      PROVE  [Executor!ENext]_(Executor!evars)
  <2>1. t \in Threads /\ t # 0 /\ 0 \in Threads
    BY PoolAssumption DEF Workers, Threads
  <2>2. pc'[0] = pc[0]
    BY <1>2, <2>1, OneThread DEF Same
  <2>3. UNCHANGED <<cgraph, n_threads, abort, ec, computed>>
    BY <1>2, WaitEffect DEF plan, work
  <2> QED
    BY <2>2, <2>3, ReturnOrStutter
<1>3. ASSUME NEW t \in Threads, ComputeThread(t) PROVE [Executor!ENext]_(Executor!evars)
  BY <1>3, ComputeThreadRefines
<1>4. CASE UNCHANGED vars
  BY <1>4, ReturnOrStutter DEF vars, plan, work
<1> QED
  BY <1>1, <1>2, <1>3, <1>4 DEF PNext, Freed

\* The thread pool does what the caller of ggml_graph_compute counts on.
THEOREM PoolRefines == PSpec => ImplementsExecutor
<1>1. PInit => Executor!EInit
  <2> SUFFICES ASSUME PInit PROVE Executor!EInit
    OBVIOUS
  <2>1. pc[0] = "idle"
    BY PoolAssumption DEF PInit, Threads
  <2> QED
    BY <2>1 DEF PInit, Executor!EInit
<1> QED
  BY <1>1, NextRefines, TeamTogether, PTL DEF PSpec, ImplementsExecutor, Executor!ESpec
=============================================================================
