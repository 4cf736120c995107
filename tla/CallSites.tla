----------------------------- MODULE CallSites -----------------------------
(***************************************************************************)
(* ValidCallSiteMap: the return addresses of a binary's calls of sensitive *)
(* library functions, found by following each call in .text to the PLT     *)
(* stub it goes to, and kept in a Bloom filter.  An address that is not in *)
(* the filter is a "static violation".                                     *)
(*                                                                         *)
(* A call is its return address and the index of the symbol it calls in    *)
(* .rela.plt; compilers let it go to .plt.sec when there is one.           *)
(***************************************************************************)
EXTENDS Integers, Sequences, FiniteSets

CONSTANTS
  Relocs,       \* the symbols of .rela.plt, in order
  SectionAt,    \* addresses of the sections "plt", "sec" and "got"
  Calls,        \* the direct calls in .text: [ret |-> address, sym |-> index]
  Hashed(_)     \* the bits of an address in the filter

Sensitive == {"connect", "write", "send", "sendto", "sendmsg", "execve",
              "execveat", "mmap", "mmap2"}
Sections == {"plt", "sec", "got"}

ASSUME CallSitesAssumption ==
  /\ Relocs \in Seq(STRING) /\ SectionAt \in [Sections -> Nat]
  /\ \A c \in Calls : c.ret \in Nat \ {0} /\ c.sym \in DOMAIN Relocs

-----------------------------------------------------------------------------
(* build()                                                                  *)

\* the stub of symbol i in a section; the first entry of .plt is the resolver
Stub(i, sec) == SectionAt[sec] + 16 * (IF sec = "plt" THEN i ELSE i - 1)

\* Mutant of Stubs: the stubs of .plt only.
StubsLegacy(secs) ==
  [i \in {k \in DOMAIN Relocs : Relocs[k] \in Sensitive /\ "plt" \in secs} |->
     {Stub(i, "plt")}]

\* _build_plt_map: nothing without a .plt
Stubs(secs) ==
  [i \in {k \in DOMAIN Relocs : Relocs[k] \in Sensitive /\ "plt" \in secs} |->
     {Stub(i, sec) : sec \in secs}]

Target(c, secs) == Stub(c.sym, IF "sec" \in secs THEN "sec" ELSE "plt")

Near(a, b) == a - b < 32 /\ b - a < 32

\* _scan: the symbols a call may belong to, of which the first gets it
Matching(c, secs) ==
  {i \in DOMAIN Stubs(secs) : \E va \in Stubs(secs)[i] : Near(Target(c, secs), va)}

CallSitesOf(i, secs) ==
  {c.ret : c \in {x \in Calls : /\ i \in Matching(x, secs)
                                /\ \A j \in Matching(x, secs) : i <= j}}

SiteAddrs(secs) == UNION {CallSitesOf(i, secs) : i \in DOMAIN Stubs(secs)}

Bloom(addrs) == UNION {Hashed(a) : a \in addrs}

\* the map that build() saves; older files lack "all"
Build(secs) ==
  [sites |-> [i \in DOMAIN Stubs(secs) |-> CallSitesOf(i, secs)],
   bloom |-> Bloom(SiteAddrs(secs)), all |-> SiteAddrs(secs)]
LegacyFile(m) == [m EXCEPT !.all = {}]

\* _site_addrs, called by load()
Loaded(m) ==
  [m EXCEPT !.all = IF @ # {} THEN @ ELSE UNION {m.sites[i] : i \in DOMAIN m.sites}]

-----------------------------------------------------------------------------
(* check()                                                                  *)

Valid(m, ip, base) == ip = 0 \/ Hashed(ip - base) \subseteq m.bloom

Distance(a, b) == IF a < b THEN b - a ELSE a - b

\* the distance from the nearest call site
Delta(m, ip, base) ==
  LET D == {Distance(ip - base, s) : s \in m.all}
  IN IF Valid(m, ip, base) \/ D = {} THEN 0
     ELSE CHOOSE d \in D : \A e \in D : d <= e
=============================================================================
