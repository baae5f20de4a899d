---------------------------- MODULE MCAgentSide ----------------------------
(* The three components that a coding agent meets.  They share no state, so *)
(* each runs while the others rest.                                         *)
(*                                                                          *)
(* The catalog: two versions of one capsule whose offers tie, a capsule     *)
(* with a method that an objective may prefer and an offer that was         *)
(* revoked, and one of higher priority that asks for a constraint and a     *)
(* toolchain.                                                               *)
EXTENDS McpSession, AgentIntegration, CatalogSelection, TLC

VARIABLE component

SessionRests == peer = "agent" /\ tools = {"query"} /\ Init
IntegrationRests == profile = [path \in Paths |-> Absent] /\ migrated = TRUE /\ IntegrationInit
CatalogRests == directory = {} /\ damaged = None /\ CatalogInit

\* A profile holds others' entries or does not exist, and the modern one is
\* what the migration left; edits make the rest.
IntegrationStarts ==
  /\ IntegrationInit
  /\ Empty \notin {profile[path] : path \in Paths}
  /\ profile["modern"] # Absent => migrated /\ profile["legacy"] # Absent

SideInit ==
  \/ component = "session" /\ Init /\ IntegrationRests /\ CatalogRests
  \/ component = "integration" /\ IntegrationStarts /\ SessionRests /\ CatalogRests
  \/ component = "catalog" /\ CatalogInit /\ SessionRests /\ IntegrationRests

SideNext ==
  /\ UNCHANGED component
  /\ \/ component = "session" /\ Next /\ UNCHANGED <<integrationVars, catalogVars>>
     \/ component = "integration" /\ IntegrationNext /\ UNCHANGED <<vars, catalogVars>>
     \/ component = "catalog" /\ CatalogNext /\ UNCHANGED <<vars, integrationVars>>

SideSpec == SideInit /\ [][SideNext]_<<vars, integrationVars, catalogVars, component>>

-----------------------------------------------------------------------------
Offer(id, kind, priority, state) ==
  [id |-> id, kind |-> kind, priority |-> priority, state |-> state, taskKind |-> "parse",
   allowedUses |-> {"*"}, tenantScopes |-> {"own"}, constraints |-> {}, toolchain |-> <<>>,
   summary |-> {}, details |-> {}]

Capsule(id, version, title, offers) ==
  [id |-> id, version |-> version, title |-> title, offers |-> offers]

MCCapsules ==
  { Capsule(1, 1, {"csv"}, {Offer(1, "component", 1, "active")}),
    Capsule(1, 2, {"csv"}, {Offer(1, "component", 1, "active")}),
    Capsule(2, 1, {"table"},
      {[Offer(1, "method", 1, "active") EXCEPT !.summary = {"csv", "rows"},
                                               !.details = {"csv", "quote"}],
       Offer(2, "method", 3, "revoked")}),
    Capsule(3, 1, {"rows"},
      {[Offer(1, "component", 2, "active") EXCEPT !.constraints = {"offline"},
          !.toolchain = [python |-> {"3.11", "3.12"}], !.allowedUses = {"build"}]}) }

Request(objective, constraints, toolchain, use, scope) ==
  [taskKind |-> "parse", objective |-> objective, constraints |-> constraints,
   toolchain |-> toolchain, requestedUse |-> use, tenantScope |-> scope]

Plain(objective) == Request(objective, {}, <<>>, "build", "own")
Offline(objective, version) ==
  Request(objective, {"offline", "arm"}, [python |-> version], "build", "own")

MCQueries ==
  { Plain(None), Plain({}), Plain({"csv"}), Plain({"rows", "quote"}),
    Offline(None, "3.12"), Offline({"csv"}, "3.12"), Offline({"rows"}, "3.12"),
    Offline(None, "3.9"),
    Request(None, {"offline"}, [python |-> "3.12"], "run", "own"),
    Request(None, {}, <<>>, "build", "other") }

Symmetry == Permutations(Calls) \cup Permutations(Catalogs)
=============================================================================
