---------------------------- MODULE GraphExecutor ----------------------------
(***************************************************************************)
(* What ggml_graph_compute promises its caller, whoever does the work: the *)
(* nodes of the submitted graph are computed in order, each part of each   *)
(* node exactly once, a node only when all nodes before it are complete;   *)
(* and it returns when every node up to the abort point is complete.       *)
(* Threadpool implements this specification.                               *)
(***************************************************************************)
EXTENDS Naturals, Sequences

CONSTANTS Graphs,       \* the graphs a caller may submit: sequences of nodes
          Pool,         \* the number of threads of the pool
          Factor        \* chunks per thread that make fine chunking worthwhile

VARIABLES phase,        \* "idle", "busy" or "over" (the pool was freed)
          graph,        \* the graph being computed
          width,        \* the number of threads that share its nodes
          computed,     \* the parts <<node, chunk>> computed so far
          upto,         \* how many nodes will be computed
          status        \* what ggml_graph_compute returns

evars == <<phase, graph, width, computed, upto, status>>

\* The number of chunks a matrix product is cut into: fine chunks when there
\* are enough of them for n threads, otherwise one per thread.
NChunk(raw, n) == IF raw < Factor * n THEN n ELSE raw

\* The parts of a node that n threads compute: none of a view, one per thread
\* of an element-wise node, the chunks of a matrix product.
Parts(nd, n) ==
  CASE nd.op = "none"    -> {}
    [] nd.op = "rows"    -> 0 .. (n - 1)
    [] nd.op = "mul_mat" -> 0 .. (NChunk(nd.raw, n) - 1)

\* All parts of node k are computed.
Complete(k) == \A c \in Parts(graph[k], width) : <<k, c>> \in computed

EInit ==
  /\ phase = "idle"
  /\ graph = << >> /\ width = 0 /\ computed = {} /\ upto = 0
  /\ status = "success"

Submit(g, n) ==
  /\ phase = "idle"
  /\ phase' = "busy" /\ graph' = g /\ width' = n /\ computed' = {}
  /\ upto' = Len(g) /\ status' = "success"

\* One part of node k, with all earlier nodes complete, for the first time.
Compute(k, c) ==
  /\ phase = "busy" /\ k <= upto
  /\ c \in Parts(graph[k], width) /\ <<k, c>> \notin computed
  /\ \A j \in 1 .. (k - 1) : Complete(j)
  /\ computed' = computed \union {<<k, c>>}
  /\ UNCHANGED <<phase, graph, width, upto, status>>

\* The abort callback: no node after k is computed, none of them was begun.
Abort(k) ==
  /\ phase = "busy" /\ k \in 1 .. upto
  /\ \A p \in computed : p[1] <= k
  /\ upto' = k /\ status' = "aborted"
  /\ UNCHANGED <<phase, graph, width, computed>>

Return ==
  /\ phase = "busy"
  /\ \A k \in 1 .. upto : Complete(k)
  /\ phase' = "idle"
  /\ UNCHANGED <<graph, width, computed, upto, status>>

Free ==
  /\ phase = "idle" /\ phase' = "over"
  /\ UNCHANGED <<graph, width, computed, upto, status>>

ENext ==
  \/ \E g \in Graphs, n \in 1 .. Pool : Submit(g, n)
  \/ \E k \in 1 .. Len(graph) : Abort(k) \/ \E c \in Parts(graph[k], width) : Compute(k, c)
  \/ Return
  \/ Free

ESpec == EInit /\ [][ENext]_evars
=============================================================================
