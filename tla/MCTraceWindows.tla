--------------------------- MODULE MCTraceWindows ---------------------------
(* TraceWindows for TLC.                                                      *)
EXTENDS TraceWindows, TLC

Subject(u, p, parent) ==
  [kind |-> "Subject", uuid |-> u, pid |-> p, parent |-> parent, name |-> "nginx",
   cmd |-> ""]
Net(u, remote, port, local) ==
  [kind |-> "NetFlowObject", uuid |-> u, remote |-> remote, rport |-> port,
   local |-> local, lport |-> TRUE]
File(u, path) == [kind |-> "FileObject", uuid |-> u, path |-> path]
Socket(u, path) == [kind |-> "PacketSocketObject", uuid |-> u, path |-> path]
Event(u, o, path, at) ==
  [kind |-> "Event", type |-> IF path = "" THEN "connect" ELSE "open", subj |-> u,
   obj |-> o, exec |-> "", path |-> path, addr |-> "host", at |-> at]
Typed(type, r) == [r EXCEPT !.type = type, !.exec = "sh"]

\* A runs under B, B under C, C under D, which is one generation too far; o is
\* the address of a command server, n is not.
Entities ==
  <<Subject("A", 1, "B"), Subject("B", 2, "C"), Subject("C", 3, "D"),
    Subject("D", 4, "none"),
    Net("o", "c2", TRUE, "host"), Net("n", "c2", FALSE, "host")>>

Calls ==
  {Event("A", "o", "", "calm"), Event("A", "n", "", "calm"),
   Event("A", "none", "malware", "calm"),
   Event("B", "n", "", "calm"), Event("B", "n", "", "attack1"),
   Event("C", "none", "", "calm"), Event("D", "none", "", "calm")}

LongFiles == {Entities \o calls : calls \in [1 .. 5 -> Calls]}

\* A description, or an event, whose "properties" are null.
Bare(r) ==
  CASE r.kind = "Subject" -> [r EXCEPT !.name = "null"]
    [] r.kind = "Event" -> [r EXCEPT !.exec = "null", !.addr = "null"]
    [] OTHER -> [r EXCEPT !.path = "null"]

\* Descriptions before, between and after the calls that refer to them, some with
\* nulls, and a process that is its own grandparent.
Pieces ==
  {Subject("A", 1, "B"), Subject("B", 2, "A"), Net("o", "c2", TRUE, "host"),
   File("o", "malware"), Bare(Subject("A", 3, "B")), Bare(File("o", "malware")),
   Socket("o", "file"), Bare(Event("A", "o", "", "calm")),
   Event("A", "o", "", "calm"), Event("B", "o", "file", "attack1"),
   Event("C", "o", "", "calm"), Event("A", "null", "", "calm"),
   Typed("execute", Event("A", "o", "", "calm")),
   Typed("execute", Event("A", "o", "null", "calm")),
   Typed("fork", Event("A", "o", "", "calm")), Typed("exit", Event("A", "o", "", "calm"))}

ShortFiles == [1 .. 4 -> Pieces]

MCTexts ==
  {"", "unknown", "nginx", "sh", "calm", "attack1", "file", "malware", "host", "c2",
   "open", "execute", "connect", "fork", "exit"}

MCFiles == LongFiles \cup ShortFiles
=============================================================================
