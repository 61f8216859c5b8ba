------------------------------- MODULE NumaMon -------------------------------
(***************************************************************************)
(* The NUMA locality part of cpumon::update_stats: the node every thread   *)
(* last ran on, read one thread after the other while threads start, move  *)
(* and end; and the node that holds most of the memory, added up over one  *)
(* process after the other while pages are allocated and freed.            *)
(*                                                                         *)
(* A CPU is represented by its node.                                       *)
(***************************************************************************)
EXTENDS Parameter, Integers, FiniteSetsExt

CONSTANTS
  Procs,       \* processes that may be in the tree
  Tids,        \* thread identifiers
  ProcOf,      \* the process each thread identifier belongs to
  Nodes,       \* NUMA nodes
  MaxPages,    \* bound on the pages of a process on a node
  MaxEvents,   \* bound on what threads and memory do
  MaxNumaSamples \* bound on the number of samples

ASSUME ThreadsAssumption ==
  ProcOf \in [Tids -> Procs] /\ IsFiniteSet(Tids) /\ IsFiniteSet(Procs)
ASSUME NodesAssumption == Nodes \subseteq Nat /\ IsFiniteSet(Nodes)
ASSUME NumaBoundsAssumption ==
  MaxPages \in Nat /\ MaxEvents \in Nat /\ MaxNumaSamples \in Nat

VARIABLES
  place,        \* external: node of each thread, Unmapped, or None
  pages,        \* external: pages of each process on each node
  have_table,   \* cpu_to_node is not empty
  pc,
  list,         \* the processes passed to update_stats, new in every sample
  pids, tids,   \* processes and threads the loops have still to visit
  nodes_seen, last_seen_node, numa_migrations,
  node_pages, mem_nodes_seen, last_dominant_mem_node, numa_mem_migrations,
  cpu_stats,    \* the monitored values
  numa_samples,
  events,       \* number of events so far
  moves, reuses, changes, ties, visited, used,
  \* history: moves of threads, thread identifiers used again, changes of
  \* memory, samples without a dominant node, nodes threads have been on,
  \* thread identifiers used so far
  counted, turnover
  \* history: the processes whose pages the last sample to look at them has
  \* counted, and how many came into this set or dropped out of it

worldVars  == <<place, pages, have_table>>
threadVars == <<nodes_seen, last_seen_node, numa_migrations>>
memVars    == <<node_pages, mem_nodes_seen, last_dominant_mem_node, numa_mem_migrations>>
histVars   == <<moves, reuses, changes, visited, used>>
countVars  == <<counted, turnover>>
numaVars == <<worldVars, pc, list, pids, tids, threadVars, memVars, cpu_stats,
              numa_samples, events, histVars, ties, countVars>>

None     == -1   \* there is no such thread, or nothing is known of it yet
Unmapped == -2   \* on a CPU that is not in the table made from lscpu
Places == Nodes \cup {Unmapped, None}
Counts == {"numa_nodes_used", "numa_migrations",
           "numa_mem_nodes_used", "numa_mem_migrations"}

NumaInit ==
  /\ place \in [Tids -> {None} \cup Nodes]
  /\ pages \in [Procs -> [Nodes -> 0..MaxPages]]
  /\ have_table \in BOOLEAN
  /\ pc = "idle" /\ list = {} /\ pids = {} /\ tids = {}
  /\ nodes_seen = {} /\ numa_migrations = 0
  /\ last_seen_node = [t \in Tids |-> None]
  /\ node_pages = [n \in Nodes |-> 0] /\ mem_nodes_seen = {}
  /\ last_dominant_mem_node = None /\ numa_mem_migrations = 0
  /\ cpu_stats = [c \in Counts |-> NewMonitoredValue(TRUE, 0)]
  /\ numa_samples = 0 /\ events = 0
  /\ moves = 0 /\ reuses = 0 /\ changes = 0 /\ ties = 0
  /\ visited = {place[t] : t \in Tids} \cap Nodes
  /\ used = {t \in Tids : place[t] # None}
  /\ counted = {} /\ turnover = 0

---------------------------------------------------------------------------
(* Threads and memory.                                                     *)

Event ==
  /\ events < MaxEvents /\ events' = events + 1
  /\ UNCHANGED <<have_table, pc, list, pids, tids, threadVars, memVars, cpu_stats,
                 numa_samples, ties, countVars>>

\* A thread starts, possibly with the identifier of one that has ended.
ThreadStarts(t, n) ==
  /\ Event /\ place[t] = None
  /\ place' = [place EXCEPT ![t] = n]
  /\ reuses' = (IF t \in used THEN reuses + 1 ELSE reuses)
  /\ used' = used \cup {t} /\ visited' = visited \cup {n}
  /\ UNCHANGED <<pages, moves, changes>>

ThreadMoves(t, q) ==
  /\ Event /\ place[t] \notin {None, q}
  /\ place' = [place EXCEPT ![t] = q]
  /\ moves' = moves + 1 /\ visited' = visited \cup ({q} \cap Nodes)
  /\ UNCHANGED <<pages, reuses, changes, used>>

ThreadEnds(t) ==
  /\ Event /\ place[t] # None
  /\ place' = [place EXCEPT ![t] = None]
  /\ UNCHANGED <<pages, histVars>>

PagesChange(p, n, k) ==
  /\ Event /\ k # pages[p][n]
  /\ pages' = [pages EXCEPT ![p][n] = k]
  /\ changes' = changes + 1
  /\ UNCHANGED <<place, moves, reuses, visited, used>>

---------------------------------------------------------------------------
(* Compute locality.                                                       *)

Quiet == UNCHANGED <<worldVars, events, histVars>>

\* Processes come into the tree and leave it, or could not be listed at all.
\* Without a table there is nothing to map CPUs to, and no thread is read.
StartLocality ==
  /\ pc = "idle" /\ numa_samples < MaxNumaSamples
  /\ numa_samples' = numa_samples + 1
  /\ pc' = "threads" /\ tids' = {}
  /\ list' \in SUBSET Procs
  /\ pids' = IF have_table THEN list' ELSE {}
  /\ UNCHANGED <<threadVars, memVars, cpu_stats, ties, countVars>> /\ Quiet

\* get_thread_ids of the next process.
ListThreads(p) ==
  /\ pc = "threads" /\ tids = {} /\ p \in pids
  /\ pids' = pids \ {p}
  /\ tids' = {t \in Tids : ProcOf[t] = p /\ place[t] # None}
  /\ UNCHANGED <<pc, list, threadVars, memVars, cpu_stats, numa_samples, ties,
                 countVars>>
  /\ Quiet

\* Mutated form: a thread keeps the first node it was seen on.
ReadThreadKeepsFirst(t) ==
  /\ pc = "threads" /\ t \in tids /\ tids' = tids \ {t}
  /\ IF place[t] \in Nodes
     THEN /\ nodes_seen' = nodes_seen \cup {place[t]}
          /\ numa_migrations' = IF last_seen_node[t] \notin {None, place[t]}
                                THEN numa_migrations + 1 ELSE numa_migrations
          /\ last_seen_node' = [last_seen_node EXCEPT ![t] = IF @ = None THEN place[t] ELSE @]
     ELSE UNCHANGED threadVars
  /\ UNCHANGED <<pc, list, pids, memVars, cpu_stats, numa_samples, ties, countVars>>
  /\ Quiet

\* get_thread_processor; a thread that has ended, or runs on a CPU that is
\* not in the table, is passed over.
ReadThread(t) ==
  /\ pc = "threads" /\ t \in tids /\ tids' = tids \ {t}
  /\ IF place[t] \in Nodes
     THEN /\ nodes_seen' = nodes_seen \cup {place[t]}
          /\ numa_migrations' = IF last_seen_node[t] \notin {None, place[t]}
                                THEN numa_migrations + 1 ELSE numa_migrations
          /\ last_seen_node' = [last_seen_node EXCEPT ![t] = place[t]]
     ELSE UNCHANGED threadVars
  /\ UNCHANGED <<pc, list, pids, memVars, cpu_stats, numa_samples, ties, countVars>>
  /\ Quiet

Set(values, name, v) == [values EXCEPT ![name] = SetValue(@, v)]

\* The pages of a process that is no longer in the list are not counted.
EndThreads ==
  /\ pc = "threads" /\ tids = {} /\ pids = {}
  /\ cpu_stats' = Set(Set(cpu_stats, "numa_nodes_used", Cardinality(nodes_seen)),
                      "numa_migrations", numa_migrations)
  /\ pc' = "memory" /\ pids' = list
  /\ node_pages' = [n \in Nodes |-> 0]
  /\ counted' = counted \cap list
  /\ turnover' = turnover + Cardinality(counted \ list)
  /\ UNCHANGED <<list, tids, threadVars, mem_nodes_seen, last_dominant_mem_node,
                 numa_mem_migrations, numa_samples, ties>>
  /\ Quiet
---------------------------------------------------------------------------
(* Memory locality.                                                        *)

\* read_numa_maps_node_pages: the file can be opened, or it can not.
ReadNumaMaps(p, readable) ==
  /\ pc = "memory" /\ p \in pids /\ pids' = pids \ {p}
  /\ node_pages' = IF readable THEN [n \in Nodes |-> node_pages[n] + pages[p][n]]
                   ELSE node_pages
  /\ counted' = IF readable THEN counted \cup {p} ELSE counted \ {p}
  /\ turnover' = IF readable = (p \in counted) THEN turnover ELSE turnover + 1
  /\ UNCHANGED <<pc, list, tids, threadVars, mem_nodes_seen, last_dominant_mem_node,
                 numa_mem_migrations, cpu_stats, numa_samples, ties>>
  /\ Quiet

\* A node is in the map only if some line of numa_maps names it.
Present == {n \in Nodes : node_pages[n] > 0}

\* Mutated form: the last node of the map is taken.
DominantUnordered == Present

\* The first of the largest, in the unspecified order of an unordered_map.
Dominant == {n \in Present : \A m \in Present : node_pages[n] >= node_pages[m]}

\* For the history only: no node has more pages than all others.
Tied ==
  /\ Present # {}
  /\ \A n \in Present : \E m \in Present \ {n} : node_pages[m] >= node_pages[n]

EndMemory ==
  /\ pc = "memory" /\ pids = {} /\ pc' = "idle"
  /\ mem_nodes_seen' = mem_nodes_seen \cup Present
  /\ \/ /\ Present = {}
        /\ UNCHANGED <<last_dominant_mem_node, numa_mem_migrations>>
     \/ \E d \in Dominant :
          /\ numa_mem_migrations' = IF last_dominant_mem_node \notin {None, d}
                                    THEN numa_mem_migrations + 1
                                    ELSE numa_mem_migrations
          /\ last_dominant_mem_node' = d
  /\ cpu_stats' = Set(Set(cpu_stats, "numa_mem_nodes_used", Cardinality(mem_nodes_seen')),
                      "numa_mem_migrations", numa_mem_migrations')
  /\ ties' = IF Tied THEN ties + 1 ELSE ties
  /\ UNCHANGED <<list, pids, tids, threadVars, node_pages, numa_samples, countVars>>
  /\ Quiet

NumaTerminated == pc = "idle" /\ numa_samples = MaxNumaSamples /\ UNCHANGED numaVars

NumaNext ==
  \/ StartLocality \/ EndThreads \/ EndMemory \/ NumaTerminated
  \/ \E p \in Procs : ListThreads(p)
  \/ \E p \in Procs, readable \in BOOLEAN : ReadNumaMaps(p, readable)
  \/ \E t \in Tids : ReadThread(t) \/ ThreadEnds(t)
  \/ \E t \in Tids, n \in Nodes : ThreadStarts(t, n)
  \/ \E t \in Tids, q \in Nodes \cup {Unmapped} : ThreadMoves(t, q)
  \/ \E p \in Procs, n \in Nodes, k \in 0..MaxPages : PagesChange(p, n, k)

NumaSpec == NumaInit /\ [][NumaNext]_numaVars

---------------------------------------------------------------------------
(* Properties.                                                             *)

\* What the monitor reports, in the text file and in the JSON.
get_text_stats(c) == cpu_stats[c].value

\* A migration is reported only for a thread that moved or whose identifier
\* was used again for another thread, however samples and moves interleave;
\* and no node is reported that no thread ran on (cpumon.cpp:58-75).
MigrationsExplained ==
  /\ get_text_stats("numa_migrations") <= moves + reuses
  /\ get_text_stats("numa_nodes_used") <= Cardinality(visited)

\* A memory migration is reported only if memory was allocated or freed since
\* the process was last read, or a process came into what is counted or
\* dropped out of it (it has joined or left the tree, or its file could not be
\* opened), or no node was dominant: although the list of processes is new in
\* every sample and their pages are read at different times, none of these is
\* counted twice (prmon.cpp:149-156, cpumon.cpp:79-99).
MemoryMigrationsExplained ==
  get_text_stats("numa_mem_migrations") <= changes + turnover + ties
============================================================================
