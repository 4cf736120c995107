----------------------------- MODULE CdmParser -----------------------------
(***************************************************************************)
(* CDM18Parser of evaluate_darpa_tc.py: a trace file is read twice, first  *)
(* for the processes and objects it describes, then for its events, which  *)
(* refer to them and may stand before them.                                *)
(*                                                                         *)
(* A record of the file has a "kind".  A resource is reduced to a class:   *)
(* a file, a known attack file ("malware"), a host, a known command and    *)
(* control address ("c2"); the class is also the mark that the parser adds *)
(* to the text.                                                            *)
(***************************************************************************)
EXTENDS Integers, Sequences, FiniteSets

CONSTANTS
  Files,      \* the files: sequences of records
  Uuids,      \* identifiers of processes and objects
  NoUuid,     \* the reference is absent
  Null        \* an explicit null: of a reference, of a path, or of the "properties"
              \* that a name, an exec, an address or a path would stand in

VARIABLES
  file,       \* the file that is read
  pass,       \* "entities", "events" or "done"
  line,       \* number of lines read in this pass
  subjects,   \* process records by identifier
  objects,    \* resources by identifier
  emitted     \* events of the file so far

parserVars == <<file, pass, line, subjects, objects, emitted>>

Resources == {"", "file", "malware", "host", "c2"}
NoSubject == [pid |-> 0, parent |-> NoUuid, comm |-> ""]
References == Uuids \cup {NoUuid, Null}

\* _TYPE_MAP, as far as types are told apart
Types == {"open", "execute", "connect", "send", "fork"}
NetTypes == {"connect", "send"}

First(s) == IF s[1] # "" THEN s[1] ELSE s[2]

\* "or {}": to the parser a null is as good as an absence
Given(text) == IF text = Null THEN "" ELSE text

ParserInit ==
  /\ file \in Files
  /\ pass = "entities" /\ line = 0
  /\ subjects = [u \in References |-> NoSubject]
  /\ objects = [u \in References |-> ""]
  /\ emitted = <<>>

-----------------------------------------------------------------------------
(* Pass 1.                                                                  *)

IngestSubject(r) ==
  /\ r.kind = "Subject"
  /\ subjects' = [subjects EXCEPT
       ![r.uuid] = [pid |-> r.pid, parent |-> r.parent, comm |-> First(<<Given(r.name), r.cmd>>)]]
  /\ UNCHANGED objects

IngestFileObject(r) ==
  /\ r.kind \in {"FileObject", "PacketSocketObject"}
  /\ objects' = [objects EXCEPT ![r.uuid] = Given(r.path)]
  /\ UNCHANGED subjects

\* the remote end if it has a port, else the local one if it has, else any
NetResource(r) ==
  IF r.remote # "" /\ r.rport THEN r.remote
  ELSE IF r.local # "" /\ r.lport THEN r.local
  ELSE First(<<r.remote, r.local>>)

IngestNetObject(r) ==
  /\ r.kind = "NetFlowObject"
  /\ objects' = [objects EXCEPT ![r.uuid] = NetResource(r)]
  /\ UNCHANGED subjects

PassOver(r) ==
  /\ r.kind \in {"Event", "junk"}
  /\ UNCHANGED <<subjects, objects>>

\* Mutant of Pass1: what follows the first event is not ingested.
Pass1Prefix ==
  /\ pass = "entities" /\ line < Len(file)
  /\ line' = line + 1
  /\ LET r == file[line + 1] IN
       IF \E i \in 1 .. line : file[i].kind = "Event" THEN UNCHANGED <<subjects, objects>>
       ELSE \/ IngestSubject(r) \/ IngestFileObject(r)
            \/ IngestNetObject(r) \/ PassOver(r)
  /\ UNCHANGED <<file, pass, emitted>>

Pass1 ==
  /\ pass = "entities" /\ line < Len(file)
  /\ line' = line + 1
  /\ LET r == file[line + 1] IN
       \/ IngestSubject(r) \/ IngestFileObject(r) \/ IngestNetObject(r) \/ PassOver(r)
  /\ UNCHANGED <<file, pass, emitted>>

Rewind ==
  /\ pass = "entities" /\ line = Len(file)
  /\ pass' = "events" /\ line' = 0
  /\ UNCHANGED <<file, subjects, objects, emitted>>

-----------------------------------------------------------------------------
(* Pass 2.                                                                  *)

Resource(r) ==
  LET named == First(<<Given(r.path), objects[r.obj]>>)
  IN IF r.type \in NetTypes THEN First(<<named, Given(r.addr)>>) ELSE named

\* _ingest_event, for an event of a type in _TYPE_MAP
Resolved(r) ==
  LET s == subjects[r.subj] IN
  [pid |-> s.pid, ppid |-> subjects[s.parent].pid,
   comm |-> First(<<Given(r.exec), First(<<s.comm, "unknown">>)>>),
   res |-> Resource(r), at |-> r.at]

IsEvent(r) == r.kind = "Event" /\ r.type \in Types

SkipLine ==
  /\ pass = "events" /\ line < Len(file) /\ ~IsEvent(file[line + 1])
  /\ line' = line + 1
  /\ UNCHANGED <<file, pass, subjects, objects, emitted>>

\* stream() yields an event
Yield ==
  /\ pass = "events" /\ line < Len(file) /\ IsEvent(file[line + 1])
  /\ line' = line + 1
  /\ emitted' = Append(emitted, Resolved(file[line + 1]))
  /\ UNCHANGED <<file, pass, subjects, objects>>

EndOfFile ==
  /\ pass = "events" /\ line = Len(file)
  /\ pass' = "done"
  /\ UNCHANGED <<file, line, subjects, objects, emitted>>
=============================================================================
