----------------------------- MODULE BenchPolicy -----------------------------
(***************************************************************************)
(* What the MCP server learns at the bench: every tool call is an edge     *)
(* from the fault believed before it to the one believed after it, kept in *)
(* policy.json, and a call that lands in a fault from which a way back was *)
(* learned answers with that way.  Several servers share the file; each of *)
(* their steps on it is an action, and each may break off.  One board; the *)
(* time that calls take, hence which of several ways back is the cheapest, *)
(* is a free choice.                                                       *)
(***************************************************************************)
EXTENDS Naturals, Sequences, FiniteSets, FiniteSetsExt, SequencesExt

CONSTANTS
  Servers,
  Crashes,         \* crash classes
  Tools,           \* the tools called
  Learned,         \* graphs that earlier sessions may have left
  MinSupport,      \* policy.min_support
  MaxToolCalls, MaxBreaks, MaxClears,
  Healthy, NoCrash

VARIABLES
  belief,          \* of each server
  tap,             \* the call each server is recording
  policyFile, tmpFile,
  toolCalls, breaks, clears,
  happened,        \* the graph of all calls since it was cleared
  overlapped,      \* a server or `nff policy clear' came between another's load and save
  advice           \* the last answer

benchVars == <<belief, tap, policyFile, tmpFile, toolCalls, breaks, clears, happened, overlapped, advice>>

Faults == {Healthy, "compile:fail", "flash:fail"} \cup Crashes
ActuationTools == {"compile", "flash", "reset_device", "serial_write", "ota_deploy"}
EmptyGraph == << >>   \* of [from, action, to] to [count, ok]

Edges == [from : Faults, action : Tools, to : Faults]
Counted == {k \in [count : Nat, ok : Nat] : k.ok <= k.count}
IsGraph(g) == DOMAIN g \subseteq Edges /\ g \in [DOMAIN g -> Counted]
ASSUME BenchAssumption ==
  /\ MinSupport \in Nat \ {0} /\ MaxToolCalls \in Nat /\ Healthy \notin Crashes
  /\ IsFiniteSet(Crashes) /\ IsFiniteSet(Tools)
  /\ \A g \in Learned : IsGraph(g)

(* A file, and the graph that is read in it: none, if it is not there or   *)
(* does not parse.                                                         *)
Text(g) == [is |-> "text", graph |-> g]
NoFile  == [is |-> "absent", graph |-> EmptyGraph]
Emptied == [is |-> "emptied", graph |-> EmptyGraph]
Garbled == [is |-> "garbled", graph |-> EmptyGraph]

NoAdvice == [at |-> Healthy, path |-> << >>]
Restful == [at |-> "idle", from |-> Healthy, to |-> Healthy, graph |-> EmptyGraph, handle |-> "none"]
Absent == [Restful EXCEPT !.at = "absent"]   \* this server is not run

BenchInit ==
  /\ belief = [s \in Servers |-> Healthy] /\ tap \in [Servers -> {Restful, Absent}]
  /\ policyFile \in {Text(g) : g \in Learned} \cup {NoFile} /\ tmpFile = NoFile
  /\ happened = policyFile.graph
  /\ toolCalls \in 0..MaxToolCalls /\ breaks = 0 /\ clears = 0
  /\ overlapped = FALSE /\ advice = NoAdvice

----------------------------------------------------------------------------
(* _parse_outcome and apply_outcome.                                       *)

Outcomes ==
  {o \in [tool : Tools, ok : BOOLEAN, crash : Crashes \cup {NoCrash}, clean : BOOLEAN] :
     /\ o.crash # NoCrash => o.ok /\ ~o.clean /\ o.tool \in {"serial_read", "diagnose"}
     /\ o.clean => o.ok /\ o.tool = "serial_read"}

ApplyOutcome(f, o) ==
  CASE o.crash # NoCrash -> o.crash
    [] o.tool = "compile" /\ ~o.ok -> "compile:fail"
    [] o.tool = "compile" /\ o.ok /\ f = "compile:fail" -> Healthy
    [] o.tool = "flash" -> IF o.ok THEN Healthy ELSE "flash:fail"
    [] o.clean /\ f \in Crashes -> Healthy
    [] OTHER -> f

(* record_transition: what changed nothing and succeeded is not recorded.  *)
Recorded(from, o, to) == ~(from = to /\ o.ok /\ o.tool \notin ActuationTools)

Edge(s, a, t) == [from |-> s, action |-> a, to |-> t]
AddEdge(g, from, o, to) ==
  LET e == Edge(from, o.tool, to)
      known == IF e \in DOMAIN g THEN g[e] ELSE [count |-> 0, ok |-> 0]
      times == [count |-> known.count + 1, ok |-> known.ok + (IF o.ok THEN 1 ELSE 0)]
  IN  [d \in DOMAIN g \cup {e} |-> IF d = e THEN times ELSE g[d]]

Load == policyFile.graph   \* load_graph

----------------------------------------------------------------------------
(* plan_to_goal.  Value iteration finds the cheapest way back to healthy,  *)
(* where an action leads to any of the states it led to with success.  For *)
(* some time the calls took, that is any choice of actions in the states   *)
(* with a way back that leads back from each of them.                      *)

Leads(g, s, a) == {t \in Faults \ {s} : Edge(s, a, t) \in DOMAIN g /\ g[Edge(s, a, t)].ok > 0}
Tries(g, s, a) ==
  MapThenSumSet(LAMBDA e : g[e].count, {e \in DOMAIN g : e.from = s /\ e.action = a})

(* The states of a finite value.                                           *)
WayBack(g) ==
  LET grow[n \in 0..Cardinality(Faults)] ==
        IF n = 0 THEN {Healthy} \cap {e.to : e \in DOMAIN g}
        ELSE LET before == grow[n - 1] IN
             before \cup {s \in Faults : \E a \in Tools :
               LET states == Leads(g, s, a) IN states # {} /\ states \subseteq before}
  IN  grow[Cardinality(Faults)]

(* The choices of an action in each that may be the cheapest ones.         *)
EndsHealthy(lead, c) ==
  LET reach[n \in 0..Cardinality(Faults)] ==
        IF n = 0 THEN {Healthy}
        ELSE LET before == reach[n - 1] IN
             before \cup {s \in DOMAIN c : lead[s][c[s]] \cap before # {}}
  IN  DOMAIN c \subseteq reach[Cardinality(Faults)]

Cheapest(g) ==
  LET back == WayBack(g)
      lead == [s \in back \ {Healthy} |-> [a \in Tools |-> Leads(g, s, a)]]
  IN  {c \in [back \ {Healthy} -> Tools] :
         /\ \A s \in DOMAIN c : lead[s][c[s]] # {} /\ lead[s][c[s]] \subseteq back
         /\ EndsHealthy(lead, c)}

Likeliest(g, s, a) ==
  {t \in Leads(g, s, a) : \A u \in Leads(g, s, a) : g[Edge(s, a, u)].ok <= g[Edge(s, a, t)].ok}

(* The path that follows a choice, until healthy or a state passed before. *)
Returns(path) == \E i \in DOMAIN path : path[i].from = Last(path).to
Over(path) == Last(path).to = Healthy \/ Returns(path)
Paths(g, c, s) ==
  LET onwards(from) == {Edge(from, c[from], t) : t \in Likeliest(g, from, c[from])}
      walks[n \in 1..Cardinality(Faults)] ==
        IF n = 1 THEN {<<e>> : e \in onwards(s)}
        ELSE UNION {IF Over(w) THEN {w} ELSE {Append(w, e) : e \in onwards(Last(w).to)} :
                    w \in walks[n - 1]}
  IN  walks[Cardinality(Faults)]
Ways(g, s) == UNION {IF s \in DOMAIN c THEN Paths(g, c, s) ELSE {} : c \in Cheapest(g)}

(* render_directive.                                                       *)
Supported(g, path) == \A i \in DOMAIN path : Tries(g, path[i].from, path[i].action) >= MinSupport

----------------------------------------------------------------------------
(* observe_tool, around load_graph and save_graph.                         *)

Others(s) == Servers \ {s}
Busy(s) == tap[s] \notin {Restful, Absent}
HandlesAfter(moves) ==
  [s \in Servers |-> [tap[s] EXCEPT !.handle = IF @ \in DOMAIN moves THEN moves[@] ELSE @]]
(* Whoever has a file open keeps it under whatever name it gets.           *)
Renamed == HandlesAfter([tmp |-> "policy", policy |-> "gone"])
Unlinked == HandlesAfter([policy |-> "gone"])

Observe(s) ==
  /\ tap[s] = Restful /\ toolCalls < MaxToolCalls
  /\ toolCalls' = toolCalls + 1
  /\ \E o \in Outcomes :
       LET from == belief[s]
           to   == ApplyOutcome(belief[s], o)
       IN  /\ belief' = [belief EXCEPT ![s] = to]
           /\ IF Recorded(from, o, to)
              THEN /\ tap' = [tap EXCEPT ![s] = [Restful EXCEPT
                        !.at = "open", !.from = from, !.to = to, !.graph = AddEdge(Load, from, o, to)]]
                   /\ happened' = AddEdge(happened, from, o, to)
              ELSE UNCHANGED <<tap, happened>>
  /\ overlapped' = (overlapped \/ \E other \in Others(s) : Busy(other))
  /\ advice' = NoAdvice
  /\ UNCHANGED <<policyFile, tmpFile, breaks, clears>>

(* Mutant: policy.json is written in place.                                *)
OpenInPlace(s) ==
  /\ tap[s].at = "open"
  /\ policyFile' = Emptied
  /\ tap' = [tap EXCEPT ![s].at = "write", ![s].handle = "policy"]
  /\ UNCHANGED <<belief, tmpFile, toolCalls, breaks, clears, happened, overlapped, advice>>

OpenTmp(s) ==
  /\ tap[s].at = "open"
  /\ tmpFile' = Emptied
  /\ tap' = [tap EXCEPT ![s].at = "write", ![s].handle = "tmp"]
  /\ UNCHANGED <<belief, policyFile, toolCalls, breaks, clears, happened, overlapped, advice>>

(* What another wrote into the same file shows behind a shorter text.      *)
Overwritten(old, g) == IF old = Emptied THEN {Text(g)} ELSE {Text(g), Garbled}
WriteTmp(s) ==
  /\ tap[s].at = "write"
  /\ IF tap[s].handle = "tmp" THEN tmpFile' \in Overwritten(tmpFile, tap[s].graph) ELSE UNCHANGED tmpFile
  /\ IF tap[s].handle = "policy" THEN policyFile' \in Overwritten(policyFile, tap[s].graph) ELSE UNCHANGED policyFile
  /\ tap' = [tap EXCEPT ![s].at = "replace", ![s].handle = "none"]
  /\ UNCHANGED <<belief, toolCalls, breaks, clears, happened, overlapped, advice>>

Advise(s) ==
  LET t == tap[s]
      ways == IF t.to # Healthy /\ t.from # t.to THEN Ways(t.graph, t.to) ELSE {}
  IN  \/ \E path \in {w \in ways : Supported(t.graph, w)} : advice' = [at |-> t.to, path |-> path]
      \/ (ways = {} \/ \E w \in ways : ~Supported(t.graph, w)) /\ advice' = NoAdvice

ReplacePolicy(s) ==
  /\ tap[s].at = "replace" /\ tmpFile # NoFile
  /\ policyFile' = tmpFile /\ tmpFile' = NoFile
  /\ tap' = [Renamed EXCEPT ![s] = Restful]
  /\ Advise(s)
  /\ UNCHANGED <<belief, toolCalls, breaks, clears, happened, overlapped>>

(* Another renamed the file, or, on Windows, has it open.                  *)
ReplaceFails(s) ==
  /\ tap[s].at = "replace" /\ (tmpFile = NoFile \/ \E other \in Others(s) : tap[other].handle # "none")
  /\ tap' = [tap EXCEPT ![s] = Restful]
  /\ advice' = NoAdvice
  /\ UNCHANGED <<belief, policyFile, tmpFile, toolCalls, breaks, clears, happened, overlapped>>

(* The disk fails, or the server is killed and started again.              *)
BreaksOff(s) ==
  /\ Busy(s) /\ breaks < MaxBreaks
  /\ breaks' = breaks + 1
  /\ belief' \in {belief, [belief EXCEPT ![s] = Healthy]}
  /\ tap' = [tap EXCEPT ![s] = Restful]
  /\ advice' = NoAdvice
  /\ UNCHANGED <<policyFile, tmpFile, toolCalls, clears, happened, overlapped>>

(* nff policy clear                                                        *)
ClearGraph ==
  /\ clears < MaxClears /\ clears' = clears + 1
  /\ policyFile' = NoFile /\ happened' = EmptyGraph
  /\ tap' = Unlinked
  /\ overlapped' = (overlapped \/ \E s \in Servers : Busy(s))
  /\ advice' = NoAdvice
  /\ UNCHANGED <<belief, tmpFile, toolCalls, breaks>>

BenchNext ==
  \/ \E s \in Servers : Observe(s) \/ OpenTmp(s) \/ WriteTmp(s) \/ ReplacePolicy(s)
                        \/ ReplaceFails(s) \/ BreaksOff(s)
  \/ ClearGraph

BenchSpec == BenchInit /\ [][BenchNext]_benchVars

----------------------------------------------------------------------------
Total(g) == MapThenSumSet(LAMBDA e : g[e].count, DOMAIN g)
Resurrected == overlapped /\ clears > 0

BenchTypeOK ==
  /\ belief \in [Servers -> Faults]
  /\ IsGraph(policyFile.graph) /\ IsGraph(tmpFile.graph) /\ IsGraph(happened)
  /\ \A s \in Servers : IsGraph(tap[s].graph) /\ (tap[s].handle # "none" => tap[s].at = "write")

(* The file never counts what did not happen, however servers interleave   *)
(* and break off; a server that loaded it before it was cleared brings it  *)
(* back (policy.py:186-223, 471-473).                                      *)
InventsNothing ==
  ~Resurrected => \A e \in DOMAIN Load :
    e \in DOMAIN happened /\ Load[e].count <= happened[e].count /\ Load[e].ok <= happened[e].ok

(* As long as no two servers overlap the file is legible, and lacks only   *)
(* the calls being recorded and those whose recording broke off            *)
(* (policy.py:166-172).                                                    *)
LosesLittle ==
  ~overlapped =>
    /\ policyFile \notin {Emptied, Garbled}
    /\ Total(happened) <= Total(Load) + breaks + Cardinality({s \in Servers : Busy(s)})

(* Every step of a way that is advised was taken often enough from where   *)
(* it starts, and led where it says with success.  It leads back to        *)
(* healthy, or returns to a state that it passed: then one of its steps    *)
(* has led elsewhere, too (policy.py:339-384).                             *)
AdviceEarned ==
  advice # NoAdvice /\ ~Resurrected =>
    LET path == advice.path IN
    /\ path[1].from = advice.at /\ Over(path) /\ Supported(happened, path)
    /\ \A i \in DOMAIN path : path[i].to \in Leads(happened, path[i].from, path[i].action)
    /\ Returns(path) => \E i \in DOMAIN path : Cardinality(Leads(happened, path[i].from, path[i].action)) > 1

BenchSound == BenchTypeOK /\ InventsNothing /\ LosesLittle /\ AdviceEarned

=============================================================================
