------------------------------- MODULE Probes -------------------------------
(***************************************************************************)
(* The probes of sentinel.c and the tables they keep: per process a        *)
(* histogram of the last W system calls (entropy_map) and a lineage record *)
(* (lineage_map), both with a copy per CPU; and the record of a call,      *)
(* whose caller's address the detector looks up in a call-site map.        *)
(*                                                                         *)
(* A CPU runs one probe at a time, and another CPU may run one for another *)
(* thread of the same process (the pid of a record is the thread group's). *)
(* The probes that touch only their own CPU's copies are one step; the two *)
(* that may create a lineage record look it up in one step and write it in *)
(* another.  Each thread has a name of its own, any name at each call.     *)
(*                                                                         *)
(* A probe that finds the ring buffer full returns before it changes       *)
(* anything and is left out, but for the marks it enforces (Host).         *)
(***************************************************************************)
EXTENDS CallSites, FiniteSetsExt

CONSTANTS
  Pids, Cpus,
  Comms,        \* names of threads
  NoName,       \* the empty name
  Absent,       \* no entry in a map
  W,            \* ENTROPY_WINDOW
  MaxPids,      \* capacity of both maps
  Lap,          \* records that fit into the fresh ring buffer
  Bases,        \* addresses at which the binary may be loaded, less the linked one
  Strays,       \* addresses outside the binary
  MaxRecords    \* bound on the records submitted

\* with and without the sections of newer compilers, and without a .plt
Layouts == {{"plt"}, {"plt", "sec", "got"}, {"sec"}}

Types == {"EXEC", "FILE_R", "FILE_W", "NET_CON", "SETUID", "PTRACE", "PRCTL"}

Histogram == [ring : [0 .. W - 1 -> Types], pos : 0 .. W - 1, total : 0 .. W,
              counts : [Types -> Nat]]
Lineage == [count : Nat, original : Comms \cup {NoName}, current : Comms \cup {NoName}]
Record == [sc : Types, pid : Pids \cup {Absent}, ip : Nat, site : Nat]
Pending == [rec : Record, comm : Comms \cup {NoName}, name : Comms \cup {NoName},
            seen : BOOLEAN]

ASSUME ProbesAssumption ==
  /\ {W, MaxPids} \subseteq Nat \ {0} /\ {Lap, MaxRecords} \subseteq Nat
  /\ Strays \subseteq Nat \ {0} /\ Bases \subseteq Nat
  /\ \A b \in Bases, c \in Calls : Hashed(b + c.ret) # {}
  /\ IsFiniteSet(Cpus) /\ Absent \notin Pids /\ NoName \notin Comms
  /\ Absent \notin [Cpus -> Histogram] /\ Absent \notin [Cpus -> Lineage]

VARIABLES
  secs,      \* sections of the binary of which the call-site map was made
  csm,       \* the map, as the agent loaded it
  base,      \* where the binary is loaded
  probe,     \* per CPU, the execve or prctl probe between look-up and update
  hist,      \* entropy_map
  lineage,   \* lineage_map
  sent,      \* number of records reserved
  last,      \* the last record
  mirror,    \* EntropyTrackers fed with the calls of each process on each CPU
  renames,   \* history: renames recorded since the lineage record was made
  first      \* history: the probes that had looked it up before it was made

binary == <<secs, csm, base>>
vars == <<secs, csm, base, probe, hist, lineage, sent, last, mirror, renames, first>>

NoRecord == [sc |-> "EXEC", pid |-> Absent, ip |-> 0, site |-> 0]
NoProbe == [rec |-> NoRecord, comm |-> NoName, name |-> NoName, seen |-> FALSE]

Init ==
  /\ secs \in Layouts
  /\ csm \in {Loaded(Build(secs)), Loaded(LegacyFile(Build(secs)))}
  /\ base \in Bases
  /\ probe = [c \in Cpus |-> NoProbe]
  /\ hist = [p \in Pids |-> Absent] /\ lineage = [p \in Pids |-> Absent]
  /\ sent = 0 /\ last = NoRecord
  /\ mirror = [p \in Pids |-> [c \in Cpus |-> <<>>]]
  /\ renames = [p \in Pids |-> 0] /\ first = [p \in Pids |-> {}]

Entries(map) == {p \in Pids : map[p] # Absent}

-----------------------------------------------------------------------------
(* _update_entropy_map                                                      *)

NewHistogram ==
  [ring |-> [k \in 0 .. W - 1 |-> "EXEC"], pos |-> 0, total |-> 0,
   counts |-> [t \in Types |-> 0]]

\* Mutants of Pushed: the oldest call stays in the histogram; a call is taken
\* out before the window is full.
PushedOnly(h, t) ==
  [ring |-> [h.ring EXCEPT ![h.pos] = t], pos |-> (h.pos + 1) % W,
   total |-> IF h.total < W THEN h.total + 1 ELSE h.total,
   counts |-> [h.counts EXCEPT ![t] = @ + 1]]

PushedEarly(h, t) ==
  LET kept == [h.counts EXCEPT ![h.ring[h.pos]] = @ - 1]
  IN [ring |-> [h.ring EXCEPT ![h.pos] = t], pos |-> (h.pos + 1) % W,
      total |-> IF h.total < W THEN h.total + 1 ELSE h.total,
      counts |-> [kept EXCEPT ![t] = @ + 1]]

Pushed(h, t) ==
  LET kept == IF h.total >= W THEN [h.counts EXCEPT ![h.ring[h.pos]] = @ - 1]
              ELSE h.counts
  IN [ring |-> [h.ring EXCEPT ![h.pos] = t], pos |-> (h.pos + 1) % W,
      total |-> IF h.total < W THEN h.total + 1 ELSE h.total,
      counts |-> [kept EXCEPT ![t] = @ + 1]]

\* EntropyTracker.update, the window
Mirrored(win, t) == IF Len(win) = W THEN Append(Tail(win), t) ELSE Append(win, t)

\* a process without an entry gets one with a histogram on every CPU, unless it
\* is gone again before it is used; a full map drops another process for it
Count(p, c, t) ==
  \/ /\ hist[p] # Absent
     /\ hist' = [hist EXCEPT ![p][c] = Pushed(@, t)]
     /\ mirror' = [mirror EXCEPT ![p][c] = Mirrored(@, t)]
  \/ /\ hist[p] = Absent
     /\ UNCHANGED <<hist, mirror>>
  \/ /\ hist[p] = Absent
     /\ \E gone \in SUBSET Entries(hist) :
         /\ Cardinality(gone) = IF Cardinality(Entries(hist)) < MaxPids THEN 0 ELSE 1
         /\ hist' = [q \in Pids |->
              IF q = p THEN [k \in Cpus |-> IF k = c THEN Pushed(NewHistogram, t)
                                            ELSE NewHistogram]
              ELSE IF q \in gone THEN Absent ELSE hist[q]]
         /\ mirror' = [q \in Pids |->
              IF q = p THEN [mirror[p] EXCEPT ![c] = Mirrored(<<>>, t)]
              ELSE IF q \in gone THEN [k \in Cpus |-> <<>>] ELSE mirror[q]]

-----------------------------------------------------------------------------
(* lineage_map                                                              *)

NoLineage == [count |-> 0, original |-> NoName, current |-> NoName]

\* the probes of a process that looked its record up and found none
Early(p) ==
  {[cpu |-> k, comm |-> probe[k].comm] :
     k \in {j \in Cpus : probe[j].rec.pid = p /\ ~probe[j].seen}}

\* bpf_map_update_elem, BPF_ANY: a new record has its contents on this CPU and
\* zeros on the others; a record that another CPU has made by now gets them as
\* this CPU's copy; a full map refuses a new record
Recorded(p, c, n) ==
  LET own == [count |-> n, original |-> probe[c].comm, current |-> probe[c].name] IN
  \/ /\ lineage[p] = Absent /\ Cardinality(Entries(lineage)) < MaxPids
     /\ lineage' = [lineage EXCEPT ![p] = [k \in Cpus |-> IF k = c THEN own ELSE NoLineage]]
     /\ renames' = [renames EXCEPT ![p] = n]
     /\ first' = [first EXCEPT ![p] = Early(p)]
  \/ /\ lineage[p] = Absent /\ Cardinality(Entries(lineage)) >= MaxPids
     /\ UNCHANGED <<lineage, renames, first>>
  \/ /\ lineage[p] # Absent
     /\ lineage' = [lineage EXCEPT ![p][c] = own]
     /\ renames' = [renames EXCEPT ![p] = @ + n]
     /\ UNCHANGED first

\* the rest of _update_lineage
Trace(p, c) ==
  IF probe[c].seen THEN UNCHANGED <<lineage, renames, first>> ELSE Recorded(p, c, 0)

Renamed(l, name) == [l EXCEPT !.count = @ + 1, !.current = name]

\* Mutant of Rename: a CPU that knows no name of the process fills in its own.
RenameAnew(p, c) ==
  IF probe[c].seen
  THEN /\ lineage' = [lineage EXCEPT
            ![p][c] = [Renamed(@, probe[c].name) EXCEPT
                         !.original = IF @ = NoName THEN probe[c].comm ELSE @]]
       /\ renames' = [renames EXCEPT ![p] = @ + 1]
       /\ UNCHANGED first
  ELSE Recorded(p, c, 1)

\* the rest of trace_prctl's update
Rename(p, c) ==
  IF probe[c].seen
  THEN /\ lineage' = [lineage EXCEPT ![p][c] = Renamed(@, probe[c].name)]
       /\ renames' = [renames EXCEPT ![p] = @ + 1]
       /\ UNCHANGED first
  ELSE Recorded(p, c, 1)

-----------------------------------------------------------------------------
(* The probes.                                                              *)

\* where the binary's calls return to, and a place outside it
Addresses == {base + c.ret : c \in Calls} \cup Strays

\* what a record that was not cleared holds where nothing is written
Leftover == IF sent < Lap THEN {0} ELSE Addresses \cup {0}

\* _capture_user_ip: the address the call came from, or 0
Captured(site) == {site, 0}

\* the CPU is free, and there is room for a record
Reserve(c) ==
  /\ probe[c].rec.pid = Absent
  /\ sent < MaxRecords
  /\ sent' = sent + 1

Submit(r, c) == last' = r /\ Count(r.pid, c, r.sc) /\ UNCHANGED binary

\* a probe that does not touch the lineage
Plain(p, c, t, site, ips) ==
  /\ Reserve(c)
  /\ \E ip \in ips : Submit([sc |-> t, pid |-> p, ip |-> ip, site |-> site], c)
  /\ UNCHANGED <<probe, lineage, renames, first>>

\* bpf_map_lookup_elem(&lineage_map, &pid), in a thread called comm
LookUp(p, c, t, site, comm, name) ==
  /\ Reserve(c)
  /\ \E ip \in Leftover :
       probe' = [probe EXCEPT ![c] =
         [rec |-> [sc |-> t, pid |-> p, ip |-> ip, site |-> site],
          comm |-> comm, name |-> name, seen |-> lineage[p] # Absent]]
  /\ UNCHANGED <<binary, hist, lineage, last, mirror, renames, first>>

TraceExecve(p, c, site, comm) == LookUp(p, c, "EXEC", site, comm, comm)

\* PR_SET_NAME
TracePrctl(p, c, site, comm, name) == LookUp(p, c, "PRCTL", site, comm, name)

Finish(c) ==
  /\ Submit(probe[c].rec, c)
  /\ probe' = [probe EXCEPT ![c] = NoProbe]
  /\ UNCHANGED sent

FinishExecve(p, c) ==
  /\ probe[c].rec.pid = p /\ probe[c].rec.sc = "EXEC"
  /\ Trace(p, c) /\ Finish(c)

FinishPrctl(p, c) ==
  /\ probe[c].rec.pid = p /\ probe[c].rec.sc = "PRCTL"
  /\ Rename(p, c) /\ Finish(c)

LsmBprmCheck(p, c, site) == Plain(p, c, "EXEC", site, Leftover)

\* only the lowest bit of the access mode counts: O_RDWR is a read
OpenType(mode) == IF mode % 2 = 1 THEN "FILE_W" ELSE "FILE_R"

TraceOpenat(p, c, site, mode) == Plain(p, c, OpenType(mode), site, Leftover)

LsmFileOpen(p, c, site, mode) == Plain(p, c, OpenType(mode), site, Leftover)

TraceConnect(p, c, site) == Plain(p, c, "NET_CON", site, Captured(site))

LsmSocketConnect(p, c, site) == Plain(p, c, "NET_CON", site, Leftover)

TraceWrite(p, c, site, fd) ==
  /\ 0 <= fd /\ fd <= 1024
  /\ Plain(p, c, "FILE_W", site, Captured(site))

TraceSetuid(p, c, site) == Plain(p, c, "SETUID", site, Leftover)

TracePtrace(p, c, site) == Plain(p, c, "PTRACE", site, Leftover)

Next ==
  \E p \in Pids, c \in Cpus :
    \/ FinishExecve(p, c) \/ FinishPrctl(p, c)
    \/ \E site \in Addresses :
         \/ \E comm \in Comms : TraceExecve(p, c, site, comm)
         \/ \E comm, name \in Comms : TracePrctl(p, c, site, comm, name)
         \/ LsmBprmCheck(p, c, site)
         \/ \E mode \in 0 .. 2 : TraceOpenat(p, c, site, mode) \/ LsmFileOpen(p, c, site, mode)
         \/ TraceConnect(p, c, site) \/ LsmSocketConnect(p, c, site)
         \/ \E fd \in {-1, 0, 1024, 1025} : TraceWrite(p, c, site, fd)
         \/ TraceSetuid(p, c, site) \/ TracePtrace(p, c, site)

Spec == Init /\ [][Next]_vars

-----------------------------------------------------------------------------
(* The detector's first test: check is given no load address.               *)

Alarm(r) == r.ip # 0 /\ ~Valid(csm, r.ip, 0)

-----------------------------------------------------------------------------
(* Properties.                                                              *)

\* The kernel's tables keep their types; in particular a count never drops
\* below zero.
TypeOK ==
  /\ secs \subseteq Sections
  /\ base \in Bases /\ probe \in [Cpus -> Pending]
  /\ hist \in [Pids -> {Absent} \cup [Cpus -> Histogram]]
  /\ lineage \in [Pids -> {Absent} \cup [Cpus -> Lineage]]
  /\ sent \in 0 .. MaxRecords
  /\ last \in Record
  /\ mirror \in [Pids -> [Cpus -> Seq(Types)]]
  /\ renames \in [Pids -> Nat] /\ first \in [Pids -> SUBSET [cpu : Cpus, comm : Comms]]

\* The kernel's histogram of a process on a CPU is the one the user-space
\* tracker has of the same calls, through wrap-around and eviction.
MirrorsTracker ==
  \A p \in Entries(hist), c \in Cpus :
    LET h == hist[p][c]
        win == mirror[p][c] IN
    /\ h.total = Len(win)
    /\ \A t \in Types : h.counts[t] = Cardinality({i \in DOMAIN win : win[i] = t})

\* The copies of a lineage record on all CPUs count its renames, each once,
\* however probes overlap.  Its original name is there, and a second one only
\* from a probe that had looked the record up before another CPU made it: two
\* threads that first call execve or prctl at once leave two originals.
LineageMerged ==
  \A p \in Entries(lineage) :
    /\ \E m \in first[p] : lineage[p][m.cpu].original = m.comm
    /\ \A c \in Cpus : lineage[p][c].original # NoName =>
                         [cpu |-> c, comm |-> lineage[p][c].original] \in first[p]
    /\ MapThenSumSet(LAMBDA c : lineage[p][c].count, Cpus) = renames[p]

\* A sensitive library call of the mapped binary, captured with its address,
\* raises no alarm at the address it was linked for, however its PLT is laid
\* out and however old the map's file; it does raise one whenever the binary has
\* no .plt, and at another load address but for a collision in the filter.
OwnCallAlarms ==
  \A c \in Calls :
    LET ip == base + c.ret IN
    (Relocs[c.sym] \in Sensitive /\ last.site = ip /\ last.ip = ip) =>
      (Alarm(last) <=> \/ "plt" \notin secs
                       \/ base # 0 /\ ~(Hashed(ip) \subseteq Bloom(SiteAddrs(secs))))

\* What event_t says of user_ip: it is the address the call came from, or 0.
NoForeignSite == last.ip \in Captured(last.site)
=============================================================================
