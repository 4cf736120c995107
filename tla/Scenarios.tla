----------------------------- MODULE Scenarios -----------------------------
(***************************************************************************)
(* The scenarios of simulation.py: SCENARIOS, which a simulated agent      *)
(* replays, and EVASION_SCENARIOS, the red team's attacks.  Each is a      *)
(* sequence of events of one or two processes.  A resource is reduced to   *)
(* its class, as far as triggers, axioms and rule tables tell resources    *)
(* apart; "alt" tells addresses of a class apart.                          *)
(***************************************************************************)
EXTENDS Integers, Sequences

Kind(comm, sc, res) ==
  [comm |-> comm, sc |-> sc, res |-> res, alt |-> 0, heap |-> FALSE]

X(comm, res) == Kind(comm, "execve", res)
R(comm, res) == Kind(comm, "openat(R)", res)
W(comm, res) == Kind(comm, "openat(W)", res)
L(comm)      == Kind(comm, "listen", "host")
C(comm, res) == Kind(comm, "connect", res)

\* the n-th address of its class
To(n, kind) == [kind EXCEPT !.alt = n]

\* _e_injected: called from the heap
Injected(kind) == [kind EXCEPT !.heap = TRUE]

\* the events of process p; its parent is p - 1 (_e's default)
By(p, kinds) == [i \in DOMAIN kinds |-> [pid |-> p, kind |-> kinds[i]]]

Times(n, kind) == [i \in 1 .. n |-> kind]

-----------------------------------------------------------------------------
(* SCENARIOS.                                                               *)

CredentialDumping == By(1234,
  Times(2, X("bash", "bin")) \o <<R("cat", "shadow"), R("cat", "passwd"),
  C("bash", "c2port"), X("bash", "tmp")>>)

PrivilegeEscalation ==
  By(2000, <<X("exploit", "tmp"), Kind("exploit", "fork", "none")>>)
  \o By(2001, <<Kind("exploit", "setuid", "root"), X("exploit", "bin"),
                R("sh", "sudoers"), W("sh", "cron")>>)

ProcessInjection == By(3000,
  <<X("malware", "tmp"), Kind("malware", "ptrace", "none"),
    Kind("malware", "mmap", "rwx"), Injected(C("malware", "c2range"))>>)

DefenseEvasion == By(4000,
  Times(2, X("bash", "bin")) \o Times(2, W("bash", "authlog"))
  \o <<W("bash", "cron"), C("bash", "lan")>>)

C2OverHttp == By(5000,
  <<X("bash", "bin"), To(1, C("curl", "ext")), W("curl", "tmp"), X("bash", "tmp"),
    C("update.sh", "c2port"), X("update.sh", "tmp")>>)

LateralMovement == By(6000,
  <<R("bash", "sshkey"), C("bash", "lan"), To(1, C("ssh", "lan")),
    To(2, C("ssh", "lan")), W("bash", "tmp"), X("bash", "tmp")>>)

DataExfiltration == By(7000,
  <<R("python3", "file"), R("python3", "tlskey"), R("python3", "aws")>>
  \o Times(2, C("python3", "ext")))

ScriptedExecution == By(11000,
  Times(2, X("bash", "bin")) \o <<C("python3", "c2port"), R("python3", "file")>>)

ValidAccounts == By(12000,
  <<L("sshd"), X("bash", "bin"), C("bash", "c2port"), To(1, C("bash", "c2port"))>>)

WebExploitation == By(13000,
  <<L("apache2"), X("apache2", "bin"), C("bash", "c2port"),
    To(1, C("bash", "c2port"))>>)

PromptInjection == By(14000,
  <<C("claude-cod", "host"), X("claude-cod", "bin"), R("bash", "shadow"),
    C("bash", "c2port")>>)

NginxWebServer == By(8000,
  <<L("nginx")>> \o Times(2, R("nginx", "file")) \o <<W("nginx", "log"),
  L("nginx"), R("nginx", "file")>>)

AptPackageUpdate == By(9000,
  <<X("apt", "bin"), C("apt", "known"), W("apt", "file"), X("dpkg", "bin")>>
  \o Times(2, W("dpkg", "file")))

PostgresNormalOp == By(10000,
  <<L("postgres"), R("postgres", "file"), W("postgres", "file"),
    R("postgres", "file"), W("postgres", "file")>>)

AttackScenarios ==
  <<CredentialDumping, PrivilegeEscalation, ProcessInjection, DefenseEvasion,
    C2OverHttp, LateralMovement, DataExfiltration, ScriptedExecution,
    ValidAccounts, WebExploitation, PromptInjection>>
BenignScenarios == <<NginxWebServer, AptPackageUpdate, PostgresNormalOp>>
ReplayedScenarios == AttackScenarios \o BenignScenarios

-----------------------------------------------------------------------------
(* EVASION_SCENARIOS.                                                       *)

Evasion01 == By(20000,
  <<R("attacker", "shadow"), R("attacker", "passwd"), R("attacker", "sshkey"),
    R("attacker", "aws"), R("attacker", "tlskey"), R("attacker", "backup")>>)

Evasion02 == By(21000,
  Times(2, R("webapp", "known")) \o <<L("webapp"), W("webapp", "known")>>
  \o Times(2, R("webapp", "known")) \o <<L("webapp"), R("webapp", "shadow"),
  R("webapp", "known"), W("webapp", "known")>> \o Times(2, R("webapp", "known"))
  \o <<L("webapp"), W("webapp", "known"), R("webapp", "file")>>)

Evasion03 == By(22000,
  Times(2, R("daemon", "file")) \o <<L("daemon"), R("daemon", "shadow")>>
  \o Times(2, R("daemon", "file")) \o <<W("daemon", "log"), R("daemon", "file")>>)

Evasion04 ==
  By(23000, <<X("config-d", "bin"), R("config-d", "shadow"),
              R("config-d", "sshkey"), X("config-d", "bin")>>)
  \o By(23001, <<C("health-ch", "c2port"), C("health-ch", "c2range"),
                W("health-ch", "tmp")>>)

Evasion05 == By(25000,
  <<X("python3", "bin"), X("python3", "bin"), X("sh", "bin"), R("cat", "shadow"),
    C("python3", "ext")>>)

Evasion06 == By(26000,
  Times(2, X("bash", "bin")) \o <<R("base64", "file")>> \o Times(2, X("bash", "bin"))
  \o <<R("cat", "shadow")>>)

Evasion07 == By(27000,
  Times(2, R("daemon", "file")) \o <<L("daemon"), R("daemon", "file"),
  W("daemon", "log")>> \o Times(3, R("daemon", "file")) \o <<L("daemon"),
  R("daemon", "file"), W("daemon", "log")>> \o Times(5, R("daemon", "file"))
  \o <<W("daemon", "log"), R("daemon", "file"), R("daemon", "shadow"),
  C("daemon", "c2port")>>)

Evasion08 == By(28000,
  <<X("malware", "bin"), Kind("nginx", "prctl", "rename"), R("nginx", "file"),
    L("nginx"), R("nginx", "shadow"), C("nginx", "c2port"), X("nginx", "bash")>>)

Evasion09 == By(29000,
  <<X("cron", "bin")>> \o Times(2, R("cron", "cron")) \o <<R("cron", "shadow")>>
  \o Times(4, R("cron", "file")) \o <<W("cron", "tmp"), C("cron", "c2range")>>)

Evasion10 == By(30000,
  <<L("nginx")>> \o Times(2, R("nginx", "file"))
  \o <<Injected(C("nginx", "c2port")), W("nginx", "log")>>)

Evasion11 ==
  By(31000, <<X("opener", "tmp"), R("opener", "tmp")>>)
  \o By(31001, <<X("swapper", "tmp"), W("swapper", "tmp")>>)
  \o By(31000, <<R("opener", "shadow"), C("opener", "c2range")>>)

Evasion12 == By(32000,
  <<X("runc", "bin"), Kind("nsenter", "mmap", "rwx"), W("nsenter", "procroot"),
    Kind("nsenter", "setuid", "root"), X("nsenter", "tmp"), C("escape", "c2range")>>)

Evasion13 == By(33000,
  <<X("pip", "bin"), C("pip", "host"), X("pip", "bin"), C("python3", "c2range"),
    W("python3", "tmp"), X("python3", "tmp"), R("python3", "sshkey")>>)

Evasion14 == By(34000,
  <<C("webapp", "dns"), C("webapp", "ext"), C("webapp", "dns"), C("webapp", "c2range"),
    W("webapp", "tmp")>>)

Evasion15 == By(35000,
  <<L("nginx"), X("nginx", "bin")>> \o Times(6, R("bash", "file"))
  \o <<R("bash", "shadow"), W("bash", "tmp"), C("bash", "c2port")>>)

EvasionScenarios ==
  <<Evasion01, Evasion02, Evasion03, Evasion04, Evasion05, Evasion06, Evasion07,
    Evasion08, Evasion09, Evasion10, Evasion11, Evasion12, Evasion13, Evasion14,
    Evasion15>>
=============================================================================
