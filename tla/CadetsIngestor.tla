--------------------------- MODULE CadetsIngestor ---------------------------
(***************************************************************************)
(* CadetsIngestor of evaluation/cadets_ingestor.py: the other reader of    *)
(* these files.  It also reads them twice, but differs in what it takes    *)
(* from a record, loses what has a null where the parser would take it for *)
(* absent, knows no packet sockets, and cuts one stream of all processes   *)
(* into windows.                                                           *)
(***************************************************************************)
EXTENDS CdmParser

CONSTANT WindowSize

VARIABLES
  reader,     \* which program reads the file
  window,     \* events that do not fill a window yet
  windows     \* windows that were yielded

ingestorVars == <<reader, window, windows>>

\* type_map
IngestedTypes == Types \ {"fork"}

IngestorInit ==
  /\ ParserInit
  /\ reader \in {"parser", "ingestor"} /\ window = <<>> /\ windows = <<>>

-----------------------------------------------------------------------------
\* A description that leaves no trace: .get of a null "properties" or "baseObject"
\* raises and the line is given up, a base without properties is passed over, and
\* so is a kind of object that is not in the list.
Overlooked(r) ==
  \/ r.kind = "Subject" /\ r.name = Null
  \/ r.kind = "FileObject" /\ r.path = Null
  \/ r.kind = "PacketSocketObject"

Overlook(r) == Overlooked(r) /\ UNCHANGED <<subjects, objects>>

\* the name that stands under "map" is looked for beside it, and not found
ProcessSubject(r) ==
  /\ r.kind = "Subject" /\ ~Overlooked(r)
  /\ subjects' = [subjects EXCEPT
       ![r.uuid] = [pid |-> r.pid, parent |-> NoUuid, comm |-> "unknown"]]
  /\ UNCHANGED objects

ProcessObject(r) ==
  /\ r.kind \in {"FileObject", "NetFlowObject"} /\ ~Overlooked(r)
  /\ objects' = IF r.kind = "FileObject"
                THEN [objects EXCEPT ![r.uuid] = First(<<r.path, "file">>)]
                ELSE IF r.remote # "" /\ r.rport
                THEN [objects EXCEPT ![r.uuid] = r.remote] ELSE objects
  /\ UNCHANGED subjects

BuildEntities ==
  /\ pass = "entities" /\ line < Len(file)
  /\ line' = line + 1
  /\ LET r == file[line + 1] IN ProcessSubject(r) \/ ProcessObject(r) \/ Overlook(r) \/ PassOver(r)
  /\ UNCHANGED <<file, pass, emitted, ingestorVars>>

\* an exception, after which the line is given up
Raises(r) ==
  Null \in {r.subj, r.obj, r.exec, r.addr} \/ (r.type = "execute" /\ r.path = Null)

Ingested(r) == r.kind = "Event" /\ r.type \in IngestedTypes /\ ~Raises(r)

Dropped ==
  /\ pass = "events" /\ line < Len(file) /\ ~Ingested(file[line + 1])
  /\ line' = line + 1
  /\ UNCHANGED <<file, pass, subjects, objects, emitted, ingestorVars>>

\* "exec" of an execve without a path renames the process for good, if it is
\* known
Renames(r) == r.type = "execute" /\ r.path = "" /\ r.exec # ""

IngestedResource(r) ==
  CASE r.type = "execute" /\ r.path # "" -> r.path
    [] r.type = "connect" -> First(<<objects[r.obj], r.addr>>)
    [] OTHER -> objects[r.obj]

\* stream_events() yields an event, get_windows() a window when it is full
Stream ==
  /\ pass = "events" /\ line < Len(file) /\ Ingested(file[line + 1])
  /\ line' = line + 1
  /\ LET r == file[line + 1]
         comm == IF Renames(r) THEN r.exec
                 ELSE First(<<subjects[r.subj].comm, "unknown">>)
         e == [pid |-> subjects[r.subj].pid, ppid |-> 0, comm |-> comm,
               res |-> IngestedResource(r), at |-> r.at]
         full == Len(window) + 1 = WindowSize
     IN /\ emitted' = Append(emitted, e)
        /\ subjects' = IF r.subj \in Uuids /\ subjects[r.subj] # NoSubject
                       THEN [subjects EXCEPT ![r.subj].comm = comm] ELSE subjects
        /\ window' = IF full THEN <<>> ELSE Append(window, e)
        /\ windows' = IF full THEN Append(windows, Append(window, e)) ELSE windows
  /\ UNCHANGED <<file, pass, objects, reader>>

\* what is left at the end of the file is a window too
Flush ==
  /\ EndOfFile
  /\ windows' = IF window = <<>> THEN windows ELSE Append(windows, window)
  /\ window' = <<>> /\ UNCHANGED reader

Ingestor ==
  /\ reader = "ingestor"
  /\ BuildEntities \/ (Rewind /\ UNCHANGED ingestorVars) \/ Dropped \/ Stream \/ Flush
=============================================================================
