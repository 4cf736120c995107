-------------------------- MODULE ProvenanceGraph --------------------------
(***************************************************************************)
(* IPGBuilder: the provenance graph of a window of events.  build() is a   *)
(* loop that adds a node for every process and resource type and an edge   *)
(* from each event to the next; equal edges are merged, and the merged     *)
(* edge keeps the resource it had first.  analyze() reads behaviours off   *)
(* the edges, in the order in which networkx iterates over them, which is  *)
(* not the order in which they were added.                                 *)
(*                                                                         *)
(* One step here is one iteration of the loop.                             *)
(***************************************************************************)
EXTENDS Integers, Sequences, FiniteSets

CONSTANTS
  Kinds,       \* the events: system call, comm, resource, time since the last
  Sensitive,   \* resources with a prefix of _SENSITIVE_FILE_PREFIXES
  TmpPaths,    \* resources below /tmp/, /var/log/, /home/admin/cache
  Routable,    \* addresses that are external, and not DNS
  Known,       \* comms of _KNOWN_DAEMONS
  Servers      \* comms of _SERVER_DAEMONS

Calls == {"execve", "openat(R)", "openat(W)", "connect", "listen", "fork",
          "clone", "setuid", "mmap", "ptrace", "syscall"}

ASSUME GraphAssumption ==
  \A e \in Kinds : e.sc \in Calls /\ e.gap \in Int

VARIABLES
  win,     \* the window, with the parent's events in front
  pos,     \* number of events the loop has looked at
  nodes,   \* nodes in the order of their insertion
  edges    \* edges in the order of their insertion

graphVars == <<win, pos, nodes, edges>>

-----------------------------------------------------------------------------
(* build()                                                                  *)

Rtype(sc) ==
  CASE sc \in {"execve", "fork", "clone"}   -> "EXEC"
    [] sc \in {"openat(R)", "openat(W)"}    -> "FILE"
    [] sc \in {"connect", "listen"}         -> "NET"
    [] sc \in {"mmap", "ptrace"}            -> "MEM"
    [] sc = "setuid"                        -> "SYS"
    [] OTHER                                -> "UNK"

Node(e) == [comm |-> e.comm, rtype |-> Rtype(e.sc)]

\* the edge into event k
Link(k) == [src |-> Node(win[k - 1]), dst |-> Node(win[k]), label |-> win[k].sc]

Least(a, b) == IF a < b THEN a ELSE b
Greatest(a, b) == IF a < b THEN b ELSE a

NewEdge(k) ==
  [link |-> Link(k), min |-> win[k].gap, max |-> win[k].gap, count |-> 1,
   first |-> k, res |-> win[k].res]

\* Mutant of Merged: only the fastest instance is kept.
MergedFastest(x, k) ==
  [x EXCEPT !.min = Least(@, win[k].gap), !.count = @ + 1]

Merged(x, k) ==
  [x EXCEPT !.min = Least(@, win[k].gap), !.max = Greatest(@, win[k].gap),
            !.count = @ + 1]

Joined(k) ==
  IF \E i \in DOMAIN edges : edges[i].link = Link(k)
  THEN [i \in DOMAIN edges |->
          IF edges[i].link = Link(k) THEN Merged(edges[i], k) ELSE edges[i]]
  ELSE Append(edges, NewEdge(k))

\* an iteration of the loop; the first event has no edge
Insert ==
  /\ pos < Len(win)
  /\ pos' = pos + 1
  /\ nodes' = IF \E i \in DOMAIN nodes : nodes[i] = Node(win[pos + 1])
              THEN nodes ELSE Append(nodes, Node(win[pos + 1]))
  /\ edges' = IF pos = 0 THEN edges ELSE Joined(pos + 1)
  /\ UNCHANGED win

-----------------------------------------------------------------------------
(* analyze() and provenance_score()                                         *)

NodePos(n) == CHOOSE i \in DOMAIN nodes : nodes[i] = n

\* when the two nodes of edge i became neighbours
NeighbourPos(i) ==
  CHOOSE j \in DOMAIN edges :
    LET Same(k) == /\ edges[k].link.src = edges[i].link.src
                   /\ edges[k].link.dst = edges[i].link.dst
    IN Same(j) /\ \A k \in 1 .. j - 1 : ~Same(k)

\* G.edges goes by source node, then by neighbour, then by edge
Before(i, j) ==
  LET a == NodePos(edges[i].link.src)
      b == NodePos(edges[j].link.src) IN
  \/ a < b
  \/ a = b /\ NeighbourPos(i) < NeighbourPos(j)
  \/ a = b /\ NeighbourPos(i) = NeighbourPos(j) /\ i < j

Labelled(l) == {i \in DOMAIN edges : edges[i].link.label = l}

Outward == {i \in Labelled("connect") : edges[i].res \in Routable}

\* an external connection is suspicious from a server or an unknown process
Suspicious(i) ==
  LET c == edges[i].link.src.comm IN c \in Servers \/ c \notin Known

Meta ==
  [tmpExec      |-> \E i \in Labelled("execve") : edges[i].res \in TmpPaths,
   outbound     |-> \E i \in Outward : Suspicious(i),
   reads        |-> Cardinality({i \in Labelled("openat(R)") :
                                   edges[i].res \in Sensitive}),
   execAfterNet |-> \E i \in Labelled("connect"), j \in Labelled("execve") :
                      Before(i, j),
   unusual      |-> \E i \in DOMAIN nodes : nodes[i].comm \notin Known]

Points(shown, n) == IF shown THEN n ELSE 0

\* provenance_score in hundredths
Score(m) ==
  Least(100, Points(m.tmpExec, 75) + Points(m.outbound, 80)
             + Least(20 * m.reads, 45)
             + Points(m.execAfterNet, 30) + Points(m.unusual, 15))

-----------------------------------------------------------------------------
(* What a graph should say of its window.                                   *)

\* the events whose edge is l
Instances(l) == {k \in 2 .. pos : Link(k) = l}

\* Each transition of the window is one edge with all its instances: their
\* number, their fastest and slowest time and the resource of the first.
GraphFaithful ==
  /\ \A k \in 2 .. pos : \E i \in DOMAIN edges : edges[i].link = Link(k)
  /\ \A i, j \in DOMAIN edges : edges[i].link = edges[j].link => i = j
  /\ \A i \in DOMAIN edges :
       LET x == edges[i]
           S == Instances(x.link) IN
       /\ x.count = Cardinality(S)
       /\ \A k \in S : x.first <= k /\ x.min <= win[k].gap /\ win[k].gap <= x.max
       /\ x.first \in S /\ x.res = win[x.first].res
       /\ \E k \in S : win[k].gap = x.min
       /\ \E k \in S : win[k].gap = x.max
=============================================================================
