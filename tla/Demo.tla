------------------------------- MODULE Demo -------------------------------
(***************************************************************************)
(* The demonstration that the Docker image runs: demo_runner.py with the   *)
(* first version of the graph encoder (ipg_encoder.py), of the mock        *)
(* classifier (llm_classifier.py) and of the enforcement (enforcement.py). *)
(* Its scenarios are ten of simulation.py's.  A text is represented by the *)
(* graph it is written from; scores are in hundredths.                     *)
(***************************************************************************)
EXTENDS Scenarios, FiniteSets, FiniteSetsExt

CONSTANT MaxResults   \* bound on the results without a summary

VARIABLES
  running,    \* number of the scenario that is run, 0 at the menu
  all,        \* it is one of a run of all scenarios
  read,       \* number of its events in the graph
  edges,      \* edges of the graph, in the order of their insertion
  decision,   \* the classifier's, or Undecided
  results,    \* outcomes since the last summary
  effects     \* what the enforcement has done to processes

demoVars == <<running, all, read, edges, decision, results, effects>>

-----------------------------------------------------------------------------
(* demo_runner.py: the scenarios, whose calls have no address.              *)

Attacks ==
  <<CredentialDumping, PrivilegeEscalation,
    [i \in DOMAIN ProcessInjection |-> [ProcessInjection[i] EXCEPT !.kind.heap = FALSE]],
    DefenseEvasion, C2OverHttp, LateralMovement, DataExfiltration>>
Benign == <<NginxWebServer, AptPackageUpdate, PostgresNormalOp>>

Shows == Attacks \o Benign

Expected(n) == IF n \in DOMAIN Attacks THEN "MALICIOUS" ELSE "BENIGN"

-----------------------------------------------------------------------------
(* ipg_encoder.py.                                                          *)

\* infer_resource_type
ResourceType(sc) ==
  CASE sc \in {"execve", "fork", "clone"}     -> "EXEC"
    [] sc \in {"openat(R)", "openat(W)"}      -> "FILE"
    [] sc \in {"connect", "listen"}           -> "NET"
    [] sc \in {"mmap", "ptrace"}              -> "MEM"
    [] sc = "setuid"                          -> "SYS"
    [] OTHER                                  -> "UNK"

NodeOf(kind) == [comm |-> kind.comm, rtype |-> ResourceType(kind.sc)]

EdgeBetween(prev, kind) == [from |-> NodeOf(prev), to |-> NodeOf(kind), kind |-> kind]

\* build, one event: an edge is merged with a parallel one of the same call,
\* whose resource stays
Inserted(es, e) ==
  IF \E i \in DOMAIN es :
       es[i].from = e.from /\ es[i].to = e.to /\ es[i].kind.sc = e.kind.sc
    THEN es ELSE Append(es, e)

\* serialize: what the text says
Tagged(es) ==
  \E i \in DOMAIN es :
    es[i].kind.res \in {"shadow", "passwd", "sudoers", "tmp", "procroot"}
Paths(es) == {<<es[i].kind.res, es[i].kind.alt>> :
              i \in {j \in DOMAIN es : es[j].to.rtype \in {"FILE", "NET"}}}
Reads(es, resources) == \E x \in Paths(es) : x[1] \in resources
Nodes(es) == UNION {{es[i].from, es[i].to} : i \in DOMAIN es}
Comms(es) == {n.comm : n \in Nodes(es)}
Calls(es, sc) == Cardinality({i \in DOMAIN es : es[i].kind.sc = sc})

\* binary logarithms of 1 to 20 in thousandths
Log2 == <<0, 1000, 1585, 2000, 2322, 2585, 2807, 3000, 3170, 3322, 3459, 3585,
          3700, 3807, 3907, 4000, 4087, 4170, 4248, 4322>>

\* structural_entropy: n times the entropy of the n calls of q, in thousandths;
\* each contributes log n - log c, if there are c like it
Surprise(q) ==
  LET Alike(i) == Cardinality({j \in DOMAIN q : q[j].kind.sc = q[i].kind.sc})
      Sum[i \in 0 .. Len(q)] ==
        IF i = 0 THEN 0 ELSE Sum[i - 1] + Log2[Len(q)] - Log2[Alike(i)]
  IN Sum[Len(q)]

-----------------------------------------------------------------------------
(* llm_classifier.py: _mock_classify.                                       *)

Credentials(es) == Tagged(es) \/ Reads(es, {"sshkey", "aws", "tlskey"})

Signal(ttp, weight, seen) == [ttp |-> ttp, weight |-> weight, seen |-> seen]

AttackSignals(es) ==
  {Signal("T1003", 55, Credentials(es)),
   Signal("T1059", 45, Reads(es, {"tmp"})),
   Signal("T1071", 50, Reads(es, {"c2port", "c2range"}) \/ <<"ext", 1>> \in Paths(es)),
   Signal("T1210", 25, Calls(es, "connect") >= 2),
   Signal("T1105", 45, /\ Calls(es, "openat(W)") > 0 /\ Calls(es, "execve") > 0
                       /\ \E n \in Nodes(es) : n.rtype = "NET"),
   Signal("T1068", 65, Calls(es, "setuid") > 0),
   Signal("T1055", 70, Calls(es, "ptrace") > 0),
   Signal("T1562", 40, Reads(es, {"authlog", "log", "cron"})),
   Signal("T1041", 45, /\ Calls(es, "openat(R)") >= 2 /\ Calls(es, "connect") > 0
                       /\ Tagged(es))}

\* known servers, unless something else is wrong, and package managers
BenignSignals(es) ==
  {Signal("server", -30,
     /\ Comms(es) \cap {"nginx", "postgres", "sshd", "apache2", "systemd"} # {}
     /\ ~Tagged(es) /\ ~Reads(es, {"tmp", "c2port"})
     /\ Calls(es, "setuid") + Calls(es, "ptrace") = 0),
   Signal("package", -20, Comms(es) \cap {"apt", "dpkg", "yum", "pip"} # {})}

Score(es) ==
  LET sum == MapThenSumSet(LAMBDA s : s.weight,
               {s \in AttackSignals(es) \cup BenignSignals(es) : s.seen})
  IN Max({0, Min({sum, 99})})

MockClassify(es) ==
  IF Score(es) >= 30 THEN [label |-> "MALICIOUS", conf |-> Score(es)]
  ELSE [label |-> "BENIGN", conf |-> Min({100 - Score(es), 8})]

-----------------------------------------------------------------------------
(* enforcement.py.                                                          *)

Thresholds == <<30, 50, 70, 85, 101>>

\* enforce: the tier, 0 for LOG_ONLY to 4 for ISOLATE
TierOf(dec) ==
  LET above == {i \in DOMAIN Thresholds : dec.conf < Thresholds[i]}
  IN IF dec.label = "BENIGN" \/ above = {} THEN 0 ELSE Min(above) - 1

\* _dispatch
Dispatched(tier) ==
  CASE tier = 0 -> {}
    [] tier = 1 -> {"signal", "mark", "alert"}
    [] tier = 2 -> {"signal", "mark", "dump"}
    [] tier = 3 -> {"signal", "mark", "xdp"}
    [] tier = 4 -> {"signal", "mark", "xdp", "freeze"}

\* What a dry run without map descriptors leaves of it: of the steps that touch
\* the process, only the dump of its memory map does not ask.
DryRun(steps) == steps \cap {"dump"}

-----------------------------------------------------------------------------
(* DemoRunner.                                                              *)

Undecided == [label |-> "none", conf |-> 0]

DemoInit ==
  /\ running = 0 /\ all = FALSE /\ read = 0 /\ edges = <<>>
  /\ decision = Undecided /\ results = <<>> /\ effects = {}

Choose(n) ==
  /\ running = 0 /\ ~all /\ Len(results) < MaxResults
  /\ running' = n
  /\ UNCHANGED <<all, read, edges, decision, results, effects>>

ChooseAll ==
  /\ running = 0 /\ ~all
  /\ running' = 1 /\ all' = TRUE
  /\ UNCHANGED <<read, edges, decision, results, effects>>

ReadEvent ==
  /\ running # 0 /\ read < Len(Shows[running])
  /\ read' = read + 1
  /\ edges' = IF read = 0 THEN edges
              ELSE Inserted(edges, EdgeBetween(Shows[running][read].kind,
                                               Shows[running][read + 1].kind))
  /\ UNCHANGED <<running, all, decision, results, effects>>

\* reads of secrets and a connection, which the entropy cannot dismiss
HasExfil(es) == Credentials(es) /\ Calls(es, "connect") > 0

\* Below 1.2 bits the mock gets the text "benign", which has no signal, as the
\* empty graph's text has none.
Gated(es) == ~HasExfil(es) /\ (es = <<>> \/ Surprise(es) < 1200 * Len(es))

DemoClassify ==
  /\ running # 0 /\ read = Len(Shows[running]) /\ decision = Undecided
  /\ decision' = MockClassify(IF Gated(edges) THEN <<>> ELSE edges)
  /\ UNCHANGED <<running, all, read, edges, results, effects>>

DemoEnforce ==
  /\ decision # Undecided
  /\ effects' = effects \cup DryRun(Dispatched(TierOf(decision)))
  /\ results' = Append(results, [scenario |-> running, label |-> decision.label,
                                 tier |-> TierOf(decision)])
  /\ running' = IF all /\ running < Len(Shows) THEN running + 1 ELSE 0
  /\ read' = 0 /\ edges' = <<>> /\ decision' = Undecided
  /\ UNCHANGED all

\* print_summary, and the menu again
PrintSummary ==
  /\ running = 0 /\ all
  /\ all' = FALSE /\ results' = <<>>
  /\ UNCHANGED <<running, read, edges, decision, effects>>

DemoNext ==
  \/ \E n \in DOMAIN Shows : Choose(n)
  \/ ChooseAll \/ ReadEvent \/ DemoClassify \/ DemoEnforce \/ PrintSummary

-----------------------------------------------------------------------------
(* Property.                                                                *)

\* The demonstration shows what it announces, whatever is chosen from its menu:
\* each scenario gets the label expected of it, although a graph lacks its
\* first event and the resources of merged edges, and an attack is answered by
\* QUARANTINE or ISOLATE.  The dry run has done nothing to the processes that
\* happen to have the scenarios' pids.
DemoExpected ==
  /\ \A i \in DOMAIN results :
       LET r == results[i] IN
       /\ r.label = Expected(r.scenario)
       /\ r.tier = 0 \/ r.tier >= 3
       /\ r.tier = 0 <=> r.label = "BENIGN"
  /\ effects = {}
=============================================================================
