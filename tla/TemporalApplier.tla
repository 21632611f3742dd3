--------------------------- MODULE TemporalApplier ---------------------------
(***************************************************************************)
(* r2g/temporal/applier.py behind CDCHandler._apply_delta_temporal: the    *)
(* immutable-proxy versioning of entities, one database call at a time.    *)
(* The feed delivers the changes of a table in order, at least once; any   *)
(* call may be the last one of a change (an exception, or a crash), and    *)
(* the server ages out closed versions and edges on its own (TTL).         *)
(*                                                                         *)
(* A version is [key, n, created, expired, data], an element of edges      *)
(* stands for its two hasVersion edges, written by one call.               *)
(***************************************************************************)
EXTENDS Naturals, Sequences, FiniteSets

CONSTANTS
  Keys,             \* base keys of the entity collection
  Data,             \* contents of a row
  NoRow,            \* the table has no such row
  Never,            \* NEVER_EXPIRES; also the bound on the clock
  Retain,           \* ttl_retain_seconds
  MaxOps,           \* bound: changes the table makes
  MaxAborts,        \* bound: changes cut short
  MaxRedeliveries   \* bound: how often the feed goes back

ASSUME TimesAssumption == Never \in Nat \ {0} /\ Retain \in Nat
ASSUME NoRowAssumption == NoRow \notin Data

VARIABLES
  rows,      \* the table: key -> data or NoRow
  hist,      \* its changes: <<[op, key, data]>>
  pos,       \* changes the feed has delivered since it last went back
  clock,     \* now_ts()
  versions,  \* the entity collection
  edges,     \* the hasVersion collection
  proxies,   \* the proxies: {"in", "out"} \X Keys
  now,       \* the time read when the change began
  n,         \* the version number it writes or expires
  pc,        \* the next database call, or "idle"
  aborts,        \* changes cut short so far
  redeliveries,  \* times the feed went back so far
  aged           \* history: has TTL removed anything?

sourceVars == <<rows, hist>>
dbVars == <<versions, edges, proxies>>
feedVars == <<pos, aborts, redeliveries>>
vars == <<rows, hist, pos, clock, versions, edges, proxies, now, n, pc,
          aborts, redeliveries, aged>>

Change(kind, k, d) == [op |-> kind, key |-> k, data |-> d]
Changes == [op : {"INSERT", "REPLACE", "DELETE"}, key : Keys, data : Data]

Init ==
  /\ rows = [k \in Keys |-> NoRow] /\ hist = <<>> /\ pos = 0
  /\ clock = 0
  /\ versions = {} /\ edges = {} /\ proxies = {}
  /\ now = 0 /\ n = 0 /\ pc = "idle"
  /\ aborts = 0 /\ redeliveries = 0 /\ aged = FALSE

(***************************************************************************)
(* The table, the feed and the server                                      *)
(***************************************************************************)

RowChange(k, d) ==
  \/ rows[k] = NoRow /\ hist' = Append(hist, Change("INSERT", k, d))
     /\ rows' = [rows EXCEPT ![k] = d]
  \/ rows[k] \notin {NoRow, d} /\ hist' = Append(hist, Change("REPLACE", k, d))
     /\ rows' = [rows EXCEPT ![k] = d]
  \/ rows[k] = d /\ hist' = Append(hist, Change("DELETE", k, d))
     /\ rows' = [rows EXCEPT ![k] = NoRow]

(* Nothing looks at the table before a change is delivered, so the next    *)
(* change is made when the feed has delivered all the others.              *)
Commit ==
  /\ pc = "idle" /\ pos = Len(hist) /\ Len(hist) < MaxOps
  /\ \E k \in Keys, d \in Data : RowChange(k, d)
  /\ UNCHANGED <<pos, clock, dbVars, now, n, pc, aborts, redeliveries, aged>>

Tick ==
  /\ clock + 1 < Never
  /\ clock' = clock + 1
  /\ UNCHANGED <<sourceVars, pos, dbVars, now, n, pc, aborts, redeliveries, aged>>

Redeliver ==
  /\ pc = "idle" /\ redeliveries < MaxRedeliveries
  /\ \E p \in 0..pos : p < pos /\ pos' = p
  /\ redeliveries' = redeliveries + 1
  /\ UNCHANGED <<sourceVars, clock, dbVars, now, n, pc, aborts, aged>>

(* The TTL index of _ensure_ttl_index: only documents with a ttlExpireAt.  *)
Expirable(e) == e.expired # Never /\ e.expired + Retain <= clock

AgeOut ==
  /\ \/ \E e \in versions : Expirable(e) /\ versions' = versions \ {e} /\ UNCHANGED edges
     \/ \E e \in edges : Expirable(e) /\ edges' = edges \ {e} /\ UNCHANGED versions
  /\ aged' = TRUE
  /\ UNCHANGED <<sourceVars, feedVars, clock, proxies, now, n, pc>>

(***************************************************************************)
(* apply_insert, apply_update, apply_delete                                *)
(***************************************************************************)

(* The change being applied, or the next one.                              *)
op == hist[pos + 1]

(* A change is taken from the feed and its timestamp is read.              *)
Begin ==
  /\ pc = "idle" /\ pos < Len(hist)
  /\ now' = clock
  /\ pc' = IF op.op = "INSERT" THEN "put_proxy_in" ELSE "find"
  /\ UNCHANGED <<sourceVars, feedVars, clock, dbVars, n, aged>>

(* The change is done, its locals are gone, the feed goes on.              *)
Return == pc' = "idle" /\ now' = 0 /\ n' = 0
Done == Return /\ pos' = pos + 1

Live(k) == {e \in versions : e.key = k /\ e.expired >= Never}
Newest(k) == {e \in Live(k) : \A f \in Live(k) : f.n <= e.n}

(* _find_current_version, and what the caller makes of its answer.         *)
FindCurrent ==
  /\ pc = "find"
  /\ \/ /\ \E e \in Newest(op.key) : n' = e.n
        /\ pc' = "expire"
        /\ UNCHANGED <<pos, now>>
     \/ /\ Live(op.key) = {} /\ op.op = "REPLACE"
        /\ pc' = "put_proxy_in"
        /\ UNCHANGED <<pos, now, n>>
     \/ /\ Live(op.key) = {} /\ op.op = "DELETE"
        /\ Done
  /\ UNCHANGED <<sourceVars, clock, dbVars, aborts, redeliveries, aged>>

(* Mutant: only the edges of the old version are closed.                   *)
ExpireNoEntity ==
  /\ pc = "expire" /\ pc' = "expire_edges"
  /\ UNCHANGED <<sourceVars, feedVars, clock, dbVars, now, n, aged>>

(* _expire_version, first query: the entity.                               *)
ExpireEntity ==
  /\ pc = "expire"
  /\ versions' = {IF e.key = op.key /\ e.n = n THEN [e EXCEPT !.expired = now] ELSE e :
                  e \in versions}
  /\ pc' = "expire_edges"
  /\ UNCHANGED <<sourceVars, feedVars, clock, edges, proxies, now, n, aged>>

(* Mutant: the next version takes the number of the one it supersedes.     *)
ExpireEdgesSameNumber ==
  /\ pc = "expire_edges"
  /\ edges' = {IF e.key = op.key /\ e.n = n /\ e.expired >= Never
               THEN [e EXCEPT !.expired = now] ELSE e : e \in edges}
  /\ IF op.op = "DELETE"
       THEN Done
       ELSE pc' = "put_version" /\ UNCHANGED <<pos, now, n>>
  /\ UNCHANGED <<sourceVars, clock, versions, proxies, aborts, redeliveries, aged>>

(* Second query: its open edges.  An update goes on to the next version.   *)
ExpireEdges ==
  /\ pc = "expire_edges"
  /\ edges' = {IF e.key = op.key /\ e.n = n /\ e.expired >= Never
               THEN [e EXCEPT !.expired = now] ELSE e : e \in edges}
  /\ IF op.op = "DELETE"
       THEN Done
       ELSE n' = n + 1 /\ pc' = "put_version" /\ UNCHANGED <<pos, now>>
  /\ UNCHANGED <<sourceVars, clock, versions, proxies, aborts, redeliveries, aged>>

(* _write_proxies: on_duplicate="ignore".                                  *)
PutProxy(side, next) ==
  /\ proxies' = proxies \cup {<<side, op.key>>}
  /\ pc' = next
  /\ UNCHANGED <<sourceVars, feedVars, clock, versions, edges, now, n, aged>>

(* Mutant: the second proxy is forgotten.                                  *)
PutOneProxy == pc = "put_proxy_in" /\ PutProxy("in", "put_version")

PutProxyIn  == pc = "put_proxy_in" /\ PutProxy("in", "put_proxy_out")
PutProxyOut == pc = "put_proxy_out" /\ PutProxy("out", "put_version")

Has(S, k, v) == \E e \in S : e.key = k /\ e.n = v

(* Mutant: on_duplicate="replace".                                         *)
PutVersionReplaces ==
  /\ pc = "put_version"
  /\ versions' =
       {e \in versions : ~(e.key = op.key /\ e.n = n)}
         \cup {[key |-> op.key, n |-> n, created |-> now, expired |-> Never, data |-> op.data]}
  /\ pc' = "put_edges"
  /\ UNCHANGED <<sourceVars, feedVars, clock, edges, proxies, now, n, aged>>

(* _write_version, the entity: on_duplicate="ignore".                      *)
PutVersion ==
  /\ pc = "put_version"
  /\ versions' =
       IF Has(versions, op.key, n) THEN versions
       ELSE versions \cup {[key |-> op.key, n |-> n, created |-> now,
                            expired |-> Never, data |-> op.data]}
  /\ pc' = "put_edges"
  /\ UNCHANGED <<sourceVars, feedVars, clock, edges, proxies, now, n, aged>>

(* _write_version, the edges: on_duplicate="ignore".                       *)
PutEdges ==
  /\ pc = "put_edges"
  /\ edges' =
       IF Has(edges, op.key, n) THEN edges
       ELSE edges \cup {[key |-> op.key, n |-> n, created |-> now, expired |-> Never]}
  /\ Done
  /\ UNCHANGED <<sourceVars, clock, versions, proxies, aborts, redeliveries, aged>>

(* A database call raises and _apply_delta_temporal counts a failed delta  *)
(* and goes on, or the process dies and the feed may deliver the change    *)
(* again.                                                                  *)
Abort ==
  /\ pc # "idle" /\ aborts < MaxAborts
  /\ aborts' = aborts + 1
  /\ Return
  /\ pos' \in {pos, pos + 1}
  /\ UNCHANGED <<sourceVars, clock, dbVars, redeliveries, aged>>

Apply ==
  \/ Begin \/ FindCurrent \/ ExpireEntity \/ ExpireEdges
  \/ PutProxyIn \/ PutProxyOut \/ PutVersion \/ PutEdges

Next == Commit \/ Tick \/ Redeliver \/ AgeOut \/ Apply \/ Abort

Spec == Init /\ [][Next]_vars

(***************************************************************************)
(* Properties                                                              *)
(***************************************************************************)

Times == 0..Never
Versions == [key : Keys, n : Nat, created : Times, expired : Times, data : Data]
VersionEdges == [key : Keys, n : Nat, created : Times, expired : Times]

TypeOK ==
  /\ rows \in [Keys -> Data \cup {NoRow}]
  /\ hist \in Seq(Changes) /\ pos \in 0..Len(hist)
  /\ clock \in Times /\ now \in 0..clock
  /\ versions \subseteq Versions /\ edges \subseteq VersionEdges
  /\ proxies \subseteq ({"in", "out"} \X Keys)
  /\ n \in Nat
  /\ pc \in {"idle", "find", "expire", "expire_edges", "put_proxy_in",
             "put_proxy_out", "put_version", "put_edges"}
  /\ aborts \in Nat /\ redeliveries \in Nat /\ aged \in BOOLEAN

(* Deterministic keys make a replay harmless only while the version it      *)
(* would write is still there: once TTL has removed one, a redelivered or  *)
(* interrupted change may write it anew.  NoPhantomVersion shows that; the *)
(* other properties speak of every other behaviour.                        *)
ReplayedAfterAging == aged /\ redeliveries + aborts > 0

(* The versions of an entity are disjoint in time: "snapshot at T" returns *)
(* at most one of them, whatever was redelivered or cut short.             *)
Disjoint(e, f) == e.expired <= f.created \/ f.expired <= e.created
IntervalsDisjoint ==
  ~ReplayedAfterAging =>
    \A e, f \in versions : e.key = f.key /\ e # f => Disjoint(e, f)

(* "A replayed INSERT does not create a phantom version" (applier.py:16):  *)
(* an entity never has two current versions.                               *)
NoPhantomVersion ==
  \A e, f \in versions :
    e.key = f.key /\ e.expired = Never /\ f.expired = Never => e = f

(* Topology edges attach to proxies (PRD P5.3): every version that exists  *)
(* has both, at any moment, and no delete or aging takes them away.        *)
VersionsHaveProxies ==
  \A e \in versions : {<<"in", e.key>>, <<"out", e.key>>} \subseteq proxies

(* What is past stays as it was until TTL removes it: no redelivered or    *)
(* interrupted change rewrites a closed version.                           *)
HistoryUnchanged ==
  [][\A e \in versions : e.expired < Never =>
        \A f \in versions' : f.key = e.key /\ f.n = e.n => f = e]_vars

(* With every change applied, the current version of each entity is its    *)
(* row, provided no change was cut short and no key was used twice.        *)
Reinserted ==
  \E i, j \in DOMAIN hist :
    i # j /\ hist[i].op = "INSERT" /\ hist[j].op = "INSERT" /\ hist[i].key = hist[j].key
CaughtUpMeansCurrent ==
  pc = "idle" /\ pos = Len(hist) /\ aborts = 0 /\ ~Reinserted /\ ~ReplayedAfterAging =>
    \A k \in Keys : {e.data : e \in Live(k)} = IF rows[k] = NoRow THEN {} ELSE {rows[k]}
=============================================================================
