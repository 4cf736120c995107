------------------------------ MODULE RedTeam ------------------------------
(***************************************************************************)
(* evaluate_evasion of evaluate_red_team.py: each attack is fed to a new   *)
(* SymbolicGuardian with its default axioms; then each process of the      *)
(* attack is shown to the model if one of three gates opens; and the       *)
(* attack is detected if an axiom, the model or the origin of a call says  *)
(* so.  The model may say anything.                                        *)
(***************************************************************************)
EXTENDS Baselines, Demo

VARIABLES
  program,    \* which of the three programs is run
  scenario,   \* number of the attack, 0 before the first
  stage,      \* how far its evaluation has come
  late,       \* axioms reported by the replay of the whole attack
  left,       \* processes still to be judged
  flagged,    \* processes the model has called MALICIOUS
  shown,      \* processes the model was asked about
  count, watches, stream, raised   \* the guardian

guardianVars == <<count, watches, stream, raised>>
evaluateVars == <<scenario, stage, late, left, flagged, shown, guardianVars>>
vars == <<program, evaluateVars, replayVars, demoVars>>

Events == IF scenario = 0 THEN <<>> ELSE EvasionScenarios[scenario]
RangeOf(s) == {s[i] : i \in DOMAIN s}
AllEvents == UNION {RangeOf(EvasionScenarios[i]) : i \in DOMAIN EvasionScenarios}
Kinds == {e.kind : e \in AllEvents}
Pids == {e.pid : e \in AllEvents}

-----------------------------------------------------------------------------
(* ltl.py: the default axioms.                                              *)

Connects == {k \in Kinds : k.sc = "connect"}
ShadowRead == {k \in Kinds : k.sc = "openat(R)" /\ k.res = "shadow"}

Pam == {"sshd", "pam", "login", "passwd", "su", "sudo", "polkit", "chpasswd",
        "newgrp", "gpasswd"}
ShadowReadSuspicious == {k \in ShadowRead : k.comm \notin Pam}

Axiom(id, trigger, forbidden, window, self) ==
  [id |-> id, trigger |-> trigger, forbidden |-> forbidden, window |-> window,
   self |-> self]

AX1 == Axiom("AX-1", {k \in Kinds : k.comm = "nginx"},
             {k \in Kinds : k.sc = "execve" /\ k.res = "bash"}, 50, FALSE)
AX3 == Axiom("AX-3", {k \in Kinds : k.sc = "prctl"}, ShadowRead, 0, FALSE)
AX4 == Axiom("AX-4", Kinds, {k \in Kinds : k.sc = "execve" /\ k.res = "tmp"}, 1, TRUE)
AX5 == Axiom("AX-5", {k \in Kinds : k.sc = "setuid" /\ k.res = "root"}, Connects, 5,
             FALSE)

Reported(id, trigger, window, negate) ==
  [id |-> id, trigger |-> trigger, consequence |-> Connects, window |-> window,
   negate |-> negate]

AX2  == Reported("AX-2", ShadowReadSuspicious, 10, TRUE)
AX2b == Reported("AX-2b", ShadowReadSuspicious, 50, FALSE)

G == INSTANCE Guardian WITH SimpleAxioms <- {AX1, AX3, AX4, AX5},
       TemporalAxioms <- {AX2, AX2b}, WinSize <- 20, MaxEvents <- 20

-----------------------------------------------------------------------------
(* The gates.                                                               *)

\* HARD_TRIGGER_RESOURCES
Hard == {"shadow", "sudoers", "sshkey", "aws", "tlskey", "backup"}

OfPid(p) == SelectSeq(Events, LAMBDA e : e.pid = p)

HardTriggered(p) ==
  \E e \in RangeOf(OfPid(p)) : e.kind.res \in Hard \/ e.kind.sc = "prctl"

\* is_flagged; the evaluation of an attack is over before a flag expires
IsFlagged(p) == {p, p - 1} \cap flagged # {}

\* the entropy is at least ENTROPY_LOW = 1.2
EntropyPass(p) == Surprise(OfPid(p)) >= 1200 * Len(OfPid(p))

\* Mutant of LlmInvoked: hard triggers do not open the gate.
LlmInvokedQuiet(p) == IsFlagged(p) \/ EntropyPass(p)

\* Mutant of LlmInvoked: a flagged parent does not open the gate.
LlmInvokedAlone(p) == HardTriggered(p) \/ EntropyPass(p)

LlmInvoked(p) == HardTriggered(p) \/ IsFlagged(p) \/ EntropyPass(p)

\* a call from the heap: a score of 0.94, above PCABP_THRESHOLD
PcabpDetected == \E e \in RangeOf(Events) : e.kind.heap

-----------------------------------------------------------------------------
(* evaluate_evasion.                                                        *)

Init ==
  /\ program \in {"red team", "simulation", "demo"}
  /\ scenario = 0 /\ stage = "done"
  /\ late = {} /\ left = <<>> /\ flagged = {} /\ shown = {}
  /\ G!Init /\ ReplayInit /\ DemoInit

Start(n) ==
  /\ stage = "done"
  /\ scenario' = n /\ stage' = "feed"
  /\ late' = {} /\ left' = <<>> /\ flagged' = {} /\ shown' = {}
  /\ G!Reset

FeedNext ==
  /\ stage = "feed" /\ count < Len(Events)
  /\ G!Feed(Events[count + 1])
  /\ UNCHANGED <<scenario, stage, late, left, flagged, shown>>

\* processes by their first event
PidOrder ==
  LET New(i) == \A j \in 1 .. i - 1 : Events[j].pid # Events[i].pid
      firsts == SelectSeq([i \in DOMAIN Events |-> i], New)
  IN [k \in DOMAIN firsts |-> Events[firsts[k]].pid]

AnalyzeWindow ==
  /\ stage = "feed" /\ count = Len(Events)
  /\ late' = {ax.id : ax \in {x \in {AX2, AX2b} : G!Report(x, Events) # {}}}
  /\ left' = PidOrder
  /\ stage' = "judge"
  /\ UNCHANGED <<scenario, flagged, shown, guardianVars>>

Skip ==
  /\ stage = "judge" /\ left # <<>> /\ ~LlmInvoked(Head(left))
  /\ left' = Tail(left)
  /\ UNCHANGED <<scenario, stage, late, flagged, shown, guardianVars>>

Classify(label) ==
  /\ stage = "judge" /\ left # <<>> /\ LlmInvoked(Head(left))
  /\ shown' = shown \cup {Head(left)}
  /\ flagged' = IF label = "MALICIOUS" THEN flagged \cup {Head(left)} ELSE flagged
  /\ left' = Tail(left)
  /\ UNCHANGED <<scenario, stage, late, guardianVars>>

Conclude ==
  /\ stage = "judge" /\ left = <<>>
  /\ stage' = "done"
  /\ UNCHANGED <<scenario, late, left, flagged, shown, guardianVars>>

Axioms == {v.axiom.id : v \in raised} \cup late
Detected == flagged # {} \/ Axioms # {} \/ PcabpDetected

Evaluate ==
  \/ \E n \in DOMAIN EvasionScenarios : Start(n)
  \/ FeedNext \/ AnalyzeWindow \/ Skip
  \/ \E label \in {"BENIGN", "MALICIOUS"} : Classify(label)
  \/ Conclude

\* evaluate_red_team.py, a simulated agent's source, or demo_runner.py
Next ==
  /\ \/ /\ program = "red team" /\ Evaluate
        /\ UNCHANGED <<replayVars, demoVars>>
     \/ /\ program = "simulation"
        /\ EmitNext \/ \E n \in DOMAIN ReplayedScenarios : PickScenario(n)
        /\ UNCHANGED <<evaluateVars, demoVars>>
     \/ /\ program = "demo" /\ DemoNext
        /\ UNCHANGED <<evaluateVars, replayVars>>
  /\ UNCHANGED program

Spec == Init /\ [][Next]_vars

-----------------------------------------------------------------------------
(* Properties.                                                              *)

\* The axioms that the script's "Interpretation" names for each attack.
ClaimedAxioms(n) ==
  CASE n = 8 -> {"AX-3", "AX-1"} [] n \in {9, 15} -> {"AX-2"}
    [] n \in {12, 13} -> {"AX-4"} [] OTHER -> {}

\* The attacks it says a hard trigger shows to the model.
ClaimedTriggers == {1, 2, 3, 4, 5, 6, 7, 8, 9, 11, 12, 15}

\* The attacks of which it says so wrongly: the "setuid(0) sequence" of attack 12
\* (lines 23 and 371) is a hard trigger nowhere in the code.
Untriggered == {12}

\* What the script says detects each attack does so, with one exception: the
\* axioms it names are raised, the call from the heap is seen, the second
\* process of the split attack is shown to the model if the first was
\* condemned, and the hard triggers open the gate of every attack it claims
\* them for but attack 12, where none fires and the claim is false.
ScriptClaims ==
  stage = "done" /\ scenario # 0 =>
    /\ ClaimedAxioms(scenario) \subseteq Axioms
    /\ scenario \in ClaimedTriggers =>
         (scenario \notin Untriggered <=> \E p \in shown : HardTriggered(p))
    /\ scenario = 10 => PcabpDetected
    /\ scenario = 4 /\ 23000 \in flagged => 23001 \in shown

\* simulation.py and the scripts of the scenarios: each is what they say it is,
\* but for the hard trigger of attack 12, which does not exist.
\* The rule engine alerts on every evasion, also on the one that is said to
\* evade it.
ClaimsHold ==
  /\ ScriptClaims /\ ScenariosExpected /\ DemoExpected
  /\ stage = "judge" => FalcoLabel(Events) = "MALICIOUS"

\* An attack is missed only if the model was asked and called every process
\* benign, and never where an axiom's two events or a call from the heap occur;
\* the exception is the attack by DNS rebinding, which no gate lets through.
MissedOnlyByModel ==
  stage = "done" /\ scenario \notin {0, 14} /\ ~Detected =>
    /\ shown # {} /\ flagged = {}
    /\ \A i, j \in DOMAIN Events :
         i < j /\ Events[i].kind \in ShadowReadSuspicious /\ Events[j].kind \in Connects
           => Events[i].pid # Events[j].pid

=============================================================================
