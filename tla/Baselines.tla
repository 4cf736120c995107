----------------------------- MODULE Baselines -----------------------------
(***************************************************************************)
(* The two rule tables of the repository: FalcoRulesClassifier, which      *)
(* labels a window of events, and SemanticLabeler, which rates an event;   *)
(* and SimulationSource, which replays the scenarios of simulation.py.     *)
(* Scores are percentages.                                                 *)
(***************************************************************************)
EXTENDS Scenarios, FiniteSets, FiniteSetsExt

VARIABLES
  playing,    \* number of the scenario that is replayed, 0 before the first
  sent        \* number of its events so far

replayVars == <<playing, sent>>

Resources(w) == {w[i].kind.res : i \in DOMAIN w}
CallsOf(w) == {w[i].kind.sc : i \in DOMAIN w}

-----------------------------------------------------------------------------
(* falco_rules.py.                                                          *)

\* a rule without resources holds of any, one without calls of any
FalcoRule(score, res, calls) == [score |-> score, res |-> res, calls |-> calls]

FalcoRules ==
  {FalcoRule(90, {"shadow"}, {"openat(R)"}),
   FalcoRule(85, {"sshkey", "aws", "tlskey"}, {}),
   FalcoRule(88, {}, {"setuid"}),
   FalcoRule(92, {}, {"ptrace"}),
   FalcoRule(75, {"tmp", "procroot"}, {"execve"}),
   FalcoRule(70, {"authlog"}, {"openat(W)"}),
   FalcoRule(72, {"cron", "sudoers"}, {"openat(W)"}),
   FalcoRule(78, {"c2port"}, {"connect"})}

\* a resource of the rule occurs, and its calls occur, of whatever event
Fires(r, w) ==
  /\ r.res = {} \/ r.res \cap Resources(w) # {}
  /\ r.calls \subseteq CallsOf(w)

\* _SENSITIVE_PATTERNS
SensitiveReads == {"shadow", "sshkey", "aws", "tlskey", "passwd"}

\* detect_exfil_combo and detect_lateral
Exfiltration(w) ==
  /\ SensitiveReads \cap Resources(w) # {}
  /\ "connect" \in CallsOf(w)

Lateral(w) ==
  Cardinality({<<w[i].kind.res, w[i].kind.alt>> :
               i \in {j \in DOMAIN w : w[j].kind.sc = "connect"}}) >= 2

\* _BENIGN_DAMPENERS, in a name or a resource
Dampeners == {"nginx", "apache2", "sshd", "systemd", "postgres"}
Known(w) == \E i \in DOMAIN w : w[i].kind.comm \in Dampeners \/ w[i].kind.res = "known"

RuleSum(w) ==
  MapThenSumSet(LAMBDA r : r.score, {r \in FalcoRules : Fires(r, w)})
  + (IF Exfiltration(w) THEN 82 ELSE 0) + (IF Lateral(w) THEN 65 ELSE 0)

FalcoScore(w) ==
  LET score == RuleSum(w)
  IN Min({99, IF Known(w) /\ score < 50 THEN (score * 3) \div 10 ELSE score})

FalcoLabel(w) == IF FalcoScore(w) >= 30 THEN "MALICIOUS" ELSE "BENIGN"

-----------------------------------------------------------------------------
(* semantic.py.                                                             *)

SemanticRule(res, calls, risk) == [res |-> res, calls |-> calls, risk |-> risk]

\* without the rules of risk LOW, which come last and say what no rule says
SemanticRules ==
  <<SemanticRule({"shadow"}, {"openat(R)"}, 4),
    SemanticRule({"passwd"}, {"openat(R)"}, 3),
    SemanticRule({"sudoers"}, {"openat(R)", "openat(W)"}, 4),
    SemanticRule({"sshkey", "aws", "tlskey"}, {"openat(R)"}, 4),
    SemanticRule({"tmp", "procroot"}, {"execve"}, 3),
    SemanticRule({}, {"ptrace"}, 3),
    SemanticRule({"rwx"}, {"mmap"}, 3),
    SemanticRule({}, {"setuid"}, 3),
    SemanticRule({"authlog", "cron"}, {"openat(W)"}, 3),
    SemanticRule({"c2port"}, {"connect"}, 3),
    SemanticRule({"c2range", "lan"}, {"connect"}, 2),
    SemanticRule({"tmp", "procroot"}, {"openat(W)"}, 2)>>

\* label(): the first rule that holds; 1 is LOW, 4 is CRITICAL
Risk(e) ==
  LET Holds(r) == (r.res = {} \/ e.kind.res \in r.res) /\ e.kind.sc \in r.calls
      first == SelectSeq(SemanticRules, Holds)
  IN IF first = <<>> THEN 1 ELSE Head(first).risk

MaxRisk(w) == Max({1} \cup {Risk(w[i]) : i \in DOMAIN w})

-----------------------------------------------------------------------------
(* SimulationSource.events().                                               *)

ReplayInit == playing = 0 /\ sent = 0

Played == IF playing = 0 THEN <<>> ELSE SubSeq(ReplayedScenarios[playing], 1, sent)

PickScenario(n) ==
  /\ playing # 0 => sent = Len(ReplayedScenarios[playing])
  /\ playing' = n /\ sent' = 0

EmitNext ==
  /\ playing # 0 /\ sent < Len(ReplayedScenarios[playing])
  /\ sent' = sent + 1 /\ UNCHANGED playing

-----------------------------------------------------------------------------
(* Properties.                                                              *)

\* Both tables give a complete scenario the label that simulation.py expects
\* of it: the rule engine alerts, and an event is rated HIGH, in the attacks
\* only.  An alert is not withdrawn by events that follow.
ScenariosExpected ==
  playing # 0 =>
    LET attack == playing <= Len(AttackScenarios)
        label == FalcoLabel(Played) IN
    /\ sent = Len(ReplayedScenarios[playing]) =>
         (label = "MALICIOUS") = attack /\ (MaxRisk(Played) >= 3) = attack
    /\ \A k \in 0 .. sent :
         FalcoLabel(SubSeq(Played, 1, k)) = "MALICIOUS" => label = "MALICIOUS"
=============================================================================
