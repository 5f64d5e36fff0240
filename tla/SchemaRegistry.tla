--------------------------- MODULE SchemaRegistry ---------------------------
(***************************************************************************)
(* The graph's schema: the seed of lucent_api/schema_registry.py and the   *)
(* two validators.  Types and edges added later by the admin endpoints     *)
(* bring their own specification; which ones are registered is state of    *)
(* the store (LucentGraph), and registered ones are never removed.         *)
(***************************************************************************)
EXTENDS FiniteSets

NoEnums == <<>>

Type(required, optional, enums) ==
  [required |-> required, optional |-> optional, enums |-> enums]

FirstClass == [
  Person |-> Type({"name"}, {"first_name", "middle_name", "last_name", "title",
                             "aliases", "birthday", "phonetic"}, NoEnums),
  Mind |-> Type({"name"}, {}, NoEnums),
  Device |-> Type({"name", "kind"}, {"purpose", "as_of", "config"},
    [kind |-> {"phone", "laptop", "desktop", "server", "workstation", "tablet", "iot"}]),
  Organization |-> Type({"name"}, {"full_name", "kind", "email", "phone", "website",
                                   "as_of"}, NoEnums),
  Property |-> Type({"name", "kind", "purpose", "status"}, {"address", "as_of"},
    [kind |-> {"residential", "commercial", "land", "mixed-use"},
     purpose |-> {"primary", "vacation", "rental", "investment", "second-home"},
     status |-> {"owned", "sold", "under-contract", "pending"}])]

SecondClass == [
  ContactMethod |-> Type({"kind", "value"}, {"label", "as_of"},
    [kind |-> {"email", "phone", "telegram", "discord", "slack", "mailing_address"},
     label |-> {"work", "personal", "school", "planka"}]),
  Place |-> Type({"name", "kind"}, {"as_of"},
    [kind |-> {"home", "work", "school", "city", "country"}]),
  Address |-> Type({"street"}, {"city", "state", "postal_code", "country", "label", "as_of"},
    [label |-> {"home", "work", "mailing"}]),
  Interest |-> Type({"name", "kind"}, {"notes", "as_of"},
    [kind |-> {"hobby", "sport", "media", "topic", "food"}]),
  HealthFact |-> Type({"summary"}, {"relevance", "as_of"},
    [relevance |-> {"informational", "actionable", "dietary", "medication"}]),
  Aspiration |-> Type({"summary"}, {"as_of"}, NoEnums),
  Education |-> Type({"level", "school_year"}, {"school", "as_of"}, NoEnums),
  LifeEvent |-> Type({"name", "kind", "summary"}, {"started_at", "ended_at", "as_of"},
    [kind |-> {"military", "financial", "career", "personal", "move", "health",
               "award", "travel"}]),
  OS |-> Type({"name"}, {"version", "as_of"}, NoEnums),
  Software |-> Type({"name"}, {"purpose", "as_of"}, NoEnums)]

SchemaTypes ==
  [n \in DOMAIN FirstClass \cup DOMAIN SecondClass |->
     IF n \in DOMAIN FirstClass THEN FirstClass[n] ELSE SecondClass[n]]

(* No seeded edge has required attributes or enums. *)
Edge(source, target, optional) ==
  [source |-> source, target |-> target, required |-> {}, optional |-> optional,
   enums |-> NoEnums]

BetweenPersons == [
  PARENT_OF |-> Edge("Person", "Person", {}),
  CHILD_OF |-> Edge("Person", "Person", {}),
  SPOUSE_OF |-> Edge("Person", "Person", {"since", "until"}),
  SIBLING_OF |-> Edge("Person", "Person", {}),
  REPORTS_TO |-> Edge("Person", "Person", {"since", "until"}),
  FRIEND_OF |-> Edge("Person", "Person", {"since", "context"})]

OtherEdges == [
  HAS_CONTACT |-> Edge("Person", "ContactMethod", {"is_primary"}),
  LIVES_IN |-> Edge("Person", "Place", {"since"}),
  HAS_ADDRESS |-> Edge("Person", "Address", {"since", "until"}),
  WORKS_IN |-> Edge("Person", "Place", {}),
  LOCATED_AT |-> Edge("Organization", "Place", {"since", "until"}),
  HAS_SIDE_GIG |-> Edge("Person", "Organization", {"since", "until"}),
  FOUNDED_BY |-> Edge("Organization", "Person", {"since"}),
  INTERESTED_IN |-> Edge("Person", "Interest", {"strength", "since"}),
  HAS_HEALTH_FACT |-> Edge("Person", "HealthFact", {}),
  ASPIRES_TO |-> Edge("Person", "Aspiration", {}),
  HAS_EDUCATION |-> Edge("Person", "Education", {}),
  MEMBER_OF |-> Edge("Person", "Organization", {"role", "title", "since", "until"}),
  OWNS |-> Edge("Person", "Device", {"since"}),
  OWNS_PROPERTY |-> Edge("Person", "Property", {"ownership_share", "acquired", "disposed"}),
  EXPERIENCED |-> Edge("Person", "LifeEvent", {}),
  RUNS |-> Edge("Device", "OS", {"since"}),
  HAS_INSTALLED |-> Edge("Device", "Software", {"since"})]

SchemaEdges ==
  [n \in DOMAIN BetweenPersons \cup DOMAIN OtherEdges |->
     IF n \in DOMAIN BetweenPersons THEN BetweenPersons[n] ELSE OtherEdges[n]]

-----------------------------------------------------------------------------

Infra == {"id", "mind_id", "created_at", "updated_at", "type", "name"}

OutsideEnum(spec, given) ==
  \E f \in DOMAIN spec.enums \cap DOMAIN given : given[f] \notin spec.enums[f]

(* The first objection to a node, or "ok"; given maps fields to values. *)
ValidateNode(registered, spec, given) ==
  IF ~ registered THEN "unknown_node_type"
  ELSE IF ~ (spec.required \ {"name"}) \subseteq DOMAIN given THEN "missing_required"
  ELSE IF ~ (DOMAIN given \ Infra) \subseteq spec.required \cup spec.optional
       THEN "unknown_field"
  ELSE IF OutsideEnum(spec, given) THEN "invalid_enum" ELSE "ok"

ValidateEdge(registered, spec, source, target, given) ==
  IF ~ registered THEN "unknown_edge_type"
  ELSE IF source # spec.source \/ target # spec.target THEN "invalid_edge_direction"
  ELSE IF ~ spec.required \subseteq DOMAIN given THEN "missing_required_attr"
  ELSE IF ~ DOMAIN given \subseteq spec.required \cup spec.optional THEN "unknown_attr"
  ELSE IF OutsideEnum(spec, given) THEN "invalid_enum" ELSE "ok"
=============================================================================
