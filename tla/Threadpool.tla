------------------------------ MODULE Threadpool ------------------------------
(***************************************************************************)
(* The thread pool with which the native engine computes a graph of tensor *)
(* operations (ggml-cpu.c, the build without OpenMP).  Thread 0 is the     *)
(* caller of ggml_graph_compute; the others poll for a new graph, then     *)
(* sleep on a condition variable.  All threads walk the nodes of the graph *)
(* and meet in a counting barrier; in a matrix product they share out the  *)
(* chunks with an atomic counter.                                          *)
(*                                                                         *)
(* A step is one access of a shared atomic, or one critical section of the *)
(* pool's mutex (everything the sections test is written under the mutex). *)
(* A worker's look at stop, pause and n_graph is one step: the caller      *)
(* cannot change two of them without this worker's help or a second look.  *)
(* Memory is sequentially consistent.  worker.pending is the pc "enter".   *)
(***************************************************************************)
EXTENDS Integers, Sequences, FiniteSets

CONSTANTS Pool,         \* threadpool->n_threads
          Graphs,       \* graphs the caller computes, sequences of nodes
          Plans,        \* the cplan->n_threads the caller asks for
          Factor,       \* chunks per thread that make chunking worthwhile (4)
          CanAbort,     \* whether cplan->abort_callback is set
          MaxGraphs     \* bound: how many graphs the caller computes

ASSUME PoolAssumption  == Pool \in Nat \ {0}
ASSUME PlansAssumption == Plans \subseteq Nat \ {0}
ASSUME GraphAssumption == Graphs \subseteq Seq([op : {"none", "rows", "mul_mat"}, raw : Nat])
ASSUME FactorAssumption == Factor \in Nat
ASSUME AbortAssumption == CanAbort \in BOOLEAN

Threads == 0 .. (Pool - 1)
Workers == 1 .. (Pool - 1)

VARIABLES
  cgraph, n_threads,           \* what thread 0 computes, with how many threads
  n_graph,                     \* <<graph count, active threads>>, one atomic
  n_barrier, n_barrier_passed, \* arrived at the barrier; barriers passed
  current_chunk,               \* next chunk nobody took
  stop, pause, abort, ec,
  pc, ret,                     \* where a thread is; where its barrier returns
  last_graph,                  \* the n_graph a worker saw last
  node, nth, chunk,            \* locals of ggml_graph_compute_thread
  n_passed,                    \* local of ggml_barrier
  computed                     \* history: parts <<node, chunk>> of this graph

plan   == <<cgraph, n_threads, abort, ec>>
flags  == <<n_graph, stop, pause>>
bar    == <<n_barrier, n_barrier_passed, n_passed>>
work   == <<node, nth, chunk, current_chunk, computed>>
vars   == <<plan, flags, bar, work, pc, ret, last_graph>>

\* The parts of a node and the chunking of a product are those of the
\* specification this module implements.
Executor == INSTANCE GraphExecutor WITH
  phase  <- CASE pc[0] = "idle" -> "idle"
              [] pc[0] \in {"join", "freed"} -> "over"
              [] OTHER -> "busy",
  graph  <- cgraph,
  width  <- n_threads,
  upto   <- IF abort = -1 THEN Len(cgraph) ELSE abort,
  status <- ec

Goto(t, l) == pc' = [pc EXCEPT ![t] = l]

\* ggml_cond_broadcast, and a spurious wake-up: a worker asleep for work tests
\* again under the mutex, one asleep in the pause loop tests pause again.
Awake(l) == CASE l = "sleep" -> "lock" [] l = "pausesleep" -> "top" [] OTHER -> l
Broadcast(l) == pc' = [t \in Threads |-> IF t = 0 THEN l ELSE Awake(pc[t])]

PInit ==
  /\ cgraph = << >> /\ n_threads = 0 /\ abort = -1 /\ ec = "success"
  /\ n_graph = <<0, 0>> /\ stop = FALSE /\ pause \in BOOLEAN
  /\ n_barrier = 0 /\ n_barrier_passed = 0 /\ current_chunk = 0
  /\ pc = [t \in Threads |-> IF t = 0 THEN "idle" ELSE "top"]
  /\ ret = [t \in Threads |-> "top"]
  /\ last_graph = [t \in Workers |-> <<0, 0>>]
  /\ node = [t \in Threads |-> 0] /\ nth = [t \in Threads |-> 0]
  /\ chunk = [t \in Threads |-> 0] /\ n_passed = [t \in Threads |-> 0]
  /\ computed = {}

-----------------------------------------------------------------------------
(* The caller.                                                             *)

\* Mutant: more threads than the pool has are asked for.
SetGraphUnclamped(g, n) ==
  /\ pc[0] = "idle" /\ n_graph[1] < MaxGraphs
  /\ cgraph' = g /\ n_threads' = n
  /\ current_chunk' = 0 /\ abort' = -1 /\ ec' = "success" /\ computed' = {}
  /\ Goto(0, "kickoff")
  /\ UNCHANGED <<flags, bar, node, nth, chunk, ret, last_graph>>

\* ggml_graph_compute up to the kickoff: the parameters of the new graph.
SetGraph(g, n) ==
  /\ pc[0] = "idle" /\ n_graph[1] < MaxGraphs
  /\ cgraph' = g /\ n_threads' = IF n > Pool THEN Pool ELSE n
  /\ current_chunk' = 0 /\ abort' = -1 /\ ec' = "success" /\ computed' = {}
  /\ Goto(0, "kickoff")
  /\ UNCHANGED <<flags, bar, node, nth, chunk, ret, last_graph>>

\* Mutant: sleeping workers are not woken for a new graph.
KickoffSilently ==
  /\ pc[0] = "kickoff"
  /\ n_graph' = <<n_graph[1] + 1, n_threads>>
  /\ pause' = FALSE
  /\ Goto(0, "enter")
  /\ UNCHANGED <<plan, stop, bar, work, ret, last_graph>>

Kickoff ==
  /\ pc[0] = "kickoff"
  /\ n_graph' = <<n_graph[1] + 1, n_threads>>
  /\ pause' = FALSE
  /\ Broadcast("enter")
  /\ UNCHANGED <<plan, stop, bar, work, ret, last_graph>>

SetPause(b) ==
  /\ pc[0] = "idle" /\ pause # b
  /\ pause' = b
  /\ Broadcast("idle")
  /\ UNCHANGED <<plan, n_graph, stop, bar, work, ret, last_graph>>

\* ggml_threadpool_free, up to the joins.
Free ==
  /\ pc[0] = "idle"
  /\ stop' = TRUE /\ pause' = FALSE
  /\ Broadcast("join")
  /\ UNCHANGED <<plan, n_graph, bar, work, ret, last_graph>>

Join ==
  /\ pc[0] = "join" /\ \A t \in Workers : pc[t] = "exit"
  /\ Goto(0, "freed")
  /\ UNCHANGED <<plan, flags, bar, work, ret, last_graph>>

-----------------------------------------------------------------------------
(* ggml_graph_compute_secondary_thread: waiting for work.                  *)

\* The head of the loop: sleep while paused, leave when stopped.
Top(t) ==
  /\ pc[t] = "top"
  /\ Goto(t, CASE pause -> "pausesleep" [] ~pause /\ stop -> "exit" [] OTHER -> "poll")
  /\ UNCHANGED <<plan, flags, bar, work, ret, last_graph>>

\* ggml_graph_compute_thread_ready, when it is: a stop or a pause sends the
\* worker back to the loop, a new graph to its work if it is one of the
\* threads the graph wants.
Ready(t) == stop \/ pause \/ n_graph # last_graph[t]

Look(t, otherwise) ==
  IF stop \/ pause
  THEN Goto(t, otherwise) /\ UNCHANGED last_graph
  ELSE /\ last_graph' = [last_graph EXCEPT ![t] = n_graph]
       /\ Goto(t, IF t < n_graph[2] THEN "enter" ELSE otherwise)

\* Polling ends with something to look at or after n_rounds; without work the
\* worker goes on to the mutex.
Poll(t) ==
  /\ pc[t] = "poll"
  /\ \/ Ready(t) /\ Look(t, "lock")
     \/ ~Ready(t) /\ Goto(t, "lock") /\ UNCHANGED last_graph
  /\ UNCHANGED <<plan, flags, bar, work, ret>>

\* The test under the mutex: look once more, or sleep.
LockAndTest(t) ==
  /\ pc[t] = "lock"
  /\ \/ Ready(t) /\ Look(t, "top")
     \/ ~Ready(t) /\ Goto(t, "sleep") /\ UNCHANGED last_graph
  /\ UNCHANGED <<plan, flags, bar, work, ret>>

SpuriousWakeup(t) ==
  /\ pc[t] \in {"sleep", "pausesleep"}
  /\ Goto(t, Awake(pc[t]))
  /\ UNCHANGED <<plan, flags, bar, work, ret, last_graph>>

-----------------------------------------------------------------------------
(* ggml_graph_compute_thread: the nodes of a graph.                        *)

Node(t) == cgraph[node[t] + 1]
PartsOf(t) == Executor!Parts(Node(t), nth[t])

\* ggml_barrier begins, and will return to l.
EnterBarrier(t, l) == Goto(t, "bar") /\ ret' = [ret EXCEPT ![t] = l]

Enter(t) ==
  /\ pc[t] = "enter"
  /\ node' = [node EXCEPT ![t] = 0] /\ nth' = [nth EXCEPT ![t] = n_graph[2]]
  /\ Goto(t, "node")
  /\ UNCHANGED <<plan, flags, bar, chunk, current_chunk, computed, ret, last_graph>>

\* Mutant: no barrier at the end of the graph.
LoopEndsAlone(t) ==
  /\ pc[t] = "node" /\ (node[t] >= Len(cgraph) \/ abort = node[t])
  /\ Goto(t, IF t = 0 THEN "idle" ELSE "top")
  /\ UNCHANGED <<plan, flags, bar, work, ret, last_graph>>

\* The loop test: the end of the graph or an abort leads to the last barrier,
\* from which thread 0 returns to its caller and a worker to its loop.
LoopEnds(t) ==
  /\ pc[t] = "node" /\ (node[t] >= Len(cgraph) \/ abort = node[t])
  /\ EnterBarrier(t, IF t = 0 THEN "idle" ELSE "top")
  /\ UNCHANGED <<plan, flags, bar, work, last_graph>>

BeginNode(t) ==
  /\ pc[t] = "node" /\ node[t] < Len(cgraph) /\ abort # node[t]
  /\ chunk' = [chunk EXCEPT ![t] = t]
  /\ node' = [node EXCEPT ![t] = IF Node(t).op = "none" THEN @ + 1 ELSE @]
  /\ Goto(t, CASE Node(t).op = "none" -> "node"
               [] Node(t).op = "rows" -> "chunks"
               [] Node(t).op = "mul_mat" -> "convert")
  /\ UNCHANGED <<plan, flags, bar, nth, current_chunk, computed, ret, last_graph>>

\* Mutant: the counter starts at the first chunk, which thread 0 has.
ConvertFromZero(t) ==
  /\ pc[t] = "convert"
  /\ current_chunk' = IF t = 0 THEN 0 ELSE current_chunk
  /\ EnterBarrier(t, "chunks")
  /\ UNCHANGED <<plan, flags, bar, node, nth, chunk, computed, last_graph>>

\* A product first converts its second factor into the shared work buffer,
\* each thread a part of it; thread 0 also resets the chunk counter.
Convert(t) ==
  /\ pc[t] = "convert"
  /\ current_chunk' = IF t = 0 THEN nth[0] ELSE current_chunk
  /\ EnterBarrier(t, "chunks")
  /\ UNCHANGED <<plan, flags, bar, node, nth, chunk, computed, last_graph>>

\* Computes its chunk if there is one; more are only handed out when there are
\* more chunks than threads.
ComputeChunk(t) ==
  /\ pc[t] = "chunks"
  /\ IF chunk[t] \in PartsOf(t)
     THEN /\ computed' = computed \union {<<node[t] + 1, chunk[t]>>}
          /\ Goto(t, IF nth[t] < Cardinality(PartsOf(t)) THEN "grab" ELSE "endnode")
     ELSE Goto(t, "endnode") /\ UNCHANGED computed
  /\ UNCHANGED <<plan, flags, bar, node, nth, chunk, current_chunk, ret, last_graph>>

GrabChunk(t) ==
  /\ pc[t] = "grab"
  /\ chunk' = [chunk EXCEPT ![t] = current_chunk]
  /\ current_chunk' = current_chunk + 1
  /\ Goto(t, "chunks")
  /\ UNCHANGED <<plan, flags, bar, node, nth, computed, ret, last_graph>>

\* Mutant: the threads do not meet between two nodes.
EndNodeAlone(t) ==
  /\ pc[t] = "endnode"
  /\ Goto(t, "node")
  /\ node' = [node EXCEPT ![t] = @ + 1]
  /\ UNCHANGED <<plan, flags, bar, nth, chunk, current_chunk, computed, ret, last_graph>>

\* Mutant: the abort point is the node itself, which all have passed.
EndNodeAbortsHere(t) ==
  /\ pc[t] = "endnode"
  /\ \/ UNCHANGED <<abort, ec>>
     \/ t = 0 /\ CanAbort /\ abort' = node[t] /\ ec' = "aborted"
  /\ node' = [node EXCEPT ![t] = @ + 1]
  /\ IF node[t] + 1 < Len(cgraph)
     THEN EnterBarrier(t, "node")
     ELSE Goto(t, "node") /\ UNCHANGED ret
  /\ UNCHANGED <<cgraph, n_threads, flags, bar, nth, chunk, current_chunk, computed, last_graph>>

\* Thread 0 asks the abort callback; all meet before the next node.
EndNode(t) ==
  /\ pc[t] = "endnode"
  /\ \/ UNCHANGED <<abort, ec>>
     \/ t = 0 /\ CanAbort /\ abort' = node[t] + 1 /\ ec' = "aborted"
  /\ node' = [node EXCEPT ![t] = @ + 1]
  /\ IF node[t] + 1 < Len(cgraph)
     THEN EnterBarrier(t, "node")
     ELSE Goto(t, "node") /\ UNCHANGED ret
  /\ UNCHANGED <<cgraph, n_threads, flags, bar, nth, chunk, current_chunk, computed, last_graph>>

-----------------------------------------------------------------------------
(* ggml_barrier.                                                           *)

\* One active thread has nobody to wait for; otherwise remember the round.
ReadRound(t) ==
  /\ pc[t] = "bar"
  /\ IF n_graph[2] = 1
     THEN Goto(t, ret[t]) /\ UNCHANGED n_passed
     ELSE n_passed' = [n_passed EXCEPT ![t] = n_barrier_passed] /\ Goto(t, "arrive")
  /\ UNCHANGED <<plan, flags, n_barrier, n_barrier_passed, work, ret, last_graph>>

\* Mutant: the barrier opens one thread early.
ArriveEarly(t) ==
  /\ pc[t] = "arrive"
  /\ n_barrier' = n_barrier + 1
  /\ Goto(t, IF n_barrier >= n_graph[2] - 2 THEN "last" ELSE "spin")
  /\ UNCHANGED <<plan, flags, n_barrier_passed, n_passed, work, ret, last_graph>>

Arrive(t) ==
  /\ pc[t] = "arrive"
  /\ n_barrier' = n_barrier + 1
  /\ Goto(t, IF n_barrier = n_graph[2] - 1 THEN "last" ELSE "spin")
  /\ UNCHANGED <<plan, flags, n_barrier_passed, n_passed, work, ret, last_graph>>

\* The last thread empties the barrier, then lets the others go.
ResetBarrier(t) ==
  /\ pc[t] = "last"
  /\ n_barrier' = 0
  /\ Goto(t, "open")
  /\ UNCHANGED <<plan, flags, n_barrier_passed, n_passed, work, ret, last_graph>>

OpenBarrier(t) ==
  /\ pc[t] = "open"
  /\ n_barrier_passed' = n_barrier_passed + 1
  /\ Goto(t, ret[t])
  /\ UNCHANGED <<plan, flags, n_barrier, n_passed, work, ret, last_graph>>

Spin(t) ==
  /\ pc[t] = "spin" /\ n_barrier_passed # n_passed[t]
  /\ Goto(t, ret[t])
  /\ UNCHANGED <<plan, flags, bar, work, ret, last_graph>>

-----------------------------------------------------------------------------
Barrier(t) == ReadRound(t) \/ Arrive(t) \/ ResetBarrier(t) \/ OpenBarrier(t) \/ Spin(t)
ComputeThread(t) ==
  \/ Enter(t) \/ LoopEnds(t) \/ BeginNode(t) \/ Convert(t)
  \/ ComputeChunk(t) \/ GrabChunk(t) \/ EndNode(t) \/ Barrier(t)
WaitForWork(t) == Top(t) \/ Poll(t) \/ LockAndTest(t)

\* The pool was freed: nothing is left to do.
Freed == pc[0] = "freed" /\ UNCHANGED vars

PNext ==
  \/ \E g \in Graphs, n \in Plans : SetGraph(g, n)
  \/ Kickoff \/ Free \/ Join
  \/ \E b \in BOOLEAN : SetPause(b)
  \/ \E t \in Workers : WaitForWork(t) \/ SpuriousWakeup(t)
  \/ \E t \in Threads : ComputeThread(t)
  \/ Freed

\* The operating system runs every thread; the caller owes no further call.
PFairness ==
  /\ WF_vars(Kickoff) /\ WF_vars(Join)
  /\ \A t \in Threads : WF_vars(ComputeThread(t))
  /\ \A t \in Workers : WF_vars(WaitForWork(t))

PSpec == PInit /\ [][PNext]_vars /\ PFairness

-----------------------------------------------------------------------------
(* Properties.                                                             *)

Waiting  == {"top", "poll", "lock", "sleep", "pausesleep", "exit"}
InWork   == {"node", "convert", "chunks", "grab", "endnode"}
InBarrier == {"bar", "arrive", "last", "open", "spin"}

\* The pool's atomics and the threads' locals have their types.
PTypeOK ==
  /\ n_graph \in Nat \X (0 .. Pool) /\ n_threads \in 0 .. Pool
  /\ n_barrier \in Nat /\ n_barrier_passed \in Nat /\ current_chunk \in Nat
  /\ stop \in BOOLEAN /\ pause \in BOOLEAN /\ abort \in Int
  /\ ec \in {"success", "aborted"}
  /\ pc \in [Threads -> Waiting \union InWork \union InBarrier
                          \union {"idle", "kickoff", "enter", "join", "freed"}]
  /\ ret \in [Threads -> {"idle", "top", "node", "chunks"}]
  /\ last_graph \in [Workers -> Nat \X (0 .. Pool)]
  /\ node \in [Threads -> Nat] /\ nth \in [Threads -> 0 .. Pool]
  /\ chunk \in [Threads -> Nat] /\ n_passed \in [Threads -> Nat]

\* The comment in ggml_graph_compute: "No worker threads should be accessing
\* the parameters below at this stage".  Whenever the caller may write cgraph,
\* abort and current_chunk, every worker is past its last access to them: it
\* waits for work or has arrived at the last barrier.
ParametersAreQuiet ==
  pc[0] \in {"idle", "kickoff", "join", "freed"} =>
    \A t \in Workers : pc[t] \in Waiting \/ (pc[t] = "spin" /\ n_passed[t] # n_barrier_passed)

\* mul_mat's chunk counter: a chunk that a thread is computing or about to
\* compute has not been computed, and no other thread has it.
ChunkHasOneOwner ==
  \A t \in Threads : pc[t] = "chunks" /\ chunk[t] \in PartsOf(t) =>
    /\ <<node[t] + 1, chunk[t]>> \notin computed
    /\ \A u \in Threads \ {t} :
         pc[u] = "chunks" => <<node[u], chunk[u]>> # <<node[t], chunk[t]>>

\* The shared work buffer: while one thread converts into it no other thread
\* reads it, neither for the product before nor for this one.
WorkBufferIsStable ==
  \A t, u \in Threads :
    pc[t] = "convert" => ~(pc[u] = "chunks" /\ chunk[u] \in PartsOf(u)
                           /\ Node(u).op = "mul_mat")

\* While a thread computes a part of a node, all earlier nodes are complete.
InputsAreComplete ==
  \A t \in Threads : pc[t] \in {"convert", "chunks"} =>
    \A k \in 1 .. node[t] : Executor!Complete(k)

\* ggml_graph_compute does what its caller counts on: see GraphExecutor.
ImplementsExecutor == Executor!ESpec

\* No thread is left behind in a barrier or asleep: ggml_graph_compute and
\* ggml_threadpool_free return.
CallsReturn ==
  /\ (pc[0] = "kickoff") ~> (pc[0] = "idle")
  /\ (pc[0] = "join") ~> (pc[0] = "freed")
=============================================================================
