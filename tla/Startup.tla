------------------------------- MODULE Startup -------------------------------
(***************************************************************************)
(* How the guard comes up (clared-core/src/main.rs) and builds the         *)
(* registry of tools from adapter documents                                *)
(* (AdapterRegistry::from_yaml_documents).  Nothing is served before all   *)
(* of it went well.                                                        *)
(*                                                                         *)
(* A document is a record                                                  *)
(*   parses     : whether serde_yaml makes an adapter of it                *)
(*   version    : a string                                                 *)
(*   strategies : sequence of three, staging, settlement and rollback      *)
(*   targets    : sequence of [tool_name, resource_arguments,              *)
(*                budget_charges, settlement_order]                        *)
(* and Blank stands for a string that is empty once trimmed.               *)
(***************************************************************************)
EXTENDS Naturals, Sequences

CONSTANTS
  None,
  Blank,
  Registries,   \* sequences of documents given to from_yaml_documents,
                \* which is public; built_in() gives it three sound ones
  Secrets,      \* lengths of CLARED_DELEGATION_SECRET, or None if not set
  Ports         \* values of PORT, or None if not set

Version == "clared.dev/settlement-adapter/v0alpha1"

(* The types that serde deserializes into.                                 *)
AdapterTarget ==
  [tool_name          : STRING,
   resource_arguments : Seq([argument     : {Blank} \cup STRING,
                             scope_prefix : {Blank} \cup STRING]),
   budget_charges     : Seq([dimension : STRING, argument : {None} \cup STRING,
                             constant  : {None} \cup Nat]),
   settlement_order   : Nat]

SettlementAdapter ==
  [parses     : BOOLEAN,
   version    : STRING,
   strategies : Seq({Blank} \cup STRING),
   targets    : Seq(AdapterTarget)]

(* The targets of a list of documents, by place, and what the session      *)
(* manager looks up about one.                                             *)
Targets(documents) ==
  UNION {{<<d, t>> : t \in DOMAIN documents[d].targets} : d \in DOMAIN documents}

Target(documents, p) == documents[p[1]].targets[p[2]]

Registered(target) ==
  [resource_arguments |-> {target.resource_arguments[i] :
                             i \in DOMAIN target.resource_arguments},
   budget_charges     |-> target.budget_charges,
   settlement_order   |-> target.settlement_order]

ASSUME RegistriesAssumption ==
  \A documents \in Registries :
    /\ documents \in Seq(SettlementAdapter)
    /\ None \notin [{Target(documents, p).tool_name : p \in Targets(documents)} ->
                      {Registered(Target(documents, p)) : p \in Targets(documents)}]

VARIABLES
  environment,  \* [documents, secret, port]: what the process starts with
  phase,        \* how far main() got
  at,           \* the document and the target being registered
  tools,        \* the map under construction
  registry,     \* what the session manager is given
  error         \* what main() returns

startupVars == <<environment, phase, at, tools, registry, error>>

NoTools == [tool \in {} |-> None]

Documents == environment.documents

StartupInit ==
  /\ environment \in [documents : Registries, secret : Secrets, port : Ports]
  /\ phase = "secret"
  /\ at = [document |-> 1, target |-> 0]
  /\ tools = NoTools
  /\ registry = None
  /\ error = None

Fails(code) ==
  /\ phase' = "failed"
  /\ error' = [code |-> code, at |-> at]
  /\ UNCHANGED <<environment, at, tools, registry>>

Proceeds(next) ==
  /\ phase' = next
  /\ UNCHANGED <<environment, at, tools, registry, error>>
-----------------------------------------------------------------------------
SecretAccepted == environment.secret # None /\ environment.secret >= 32

CheckSecret ==
  /\ phase = "secret"
  /\ IF SecretAccepted THEN Proceeds("loading") ELSE Fails("secret")
-----------------------------------------------------------------------------
(* from_yaml_documents.                                                    *)

(* Mutant of DocumentFault: the version is not looked at.                  *)
DocumentFaultAnyVersion(document) ==
  IF ~ document.parses THEN "yaml"
  ELSE IF \E i \in DOMAIN document.strategies : document.strategies[i] = Blank
  THEN "strategy" ELSE "OK"

DocumentFault(document) ==
  IF ~ document.parses THEN "yaml"
  ELSE IF document.version # Version THEN "version"
  ELSE IF \E i \in DOMAIN document.strategies : document.strategies[i] = Blank
  THEN "strategy" ELSE "OK"

ResourceFault(target) ==
  \E i \in DOMAIN target.resource_arguments :
    Blank \in {target.resource_arguments[i].argument,
               target.resource_arguments[i].scope_prefix}

(* Mutant of TargetFault: a tool without resources is refused.             *)
TargetFaultUnscoped(target) ==
  IF target.resource_arguments = << >> \/ ResourceFault(target) THEN "resource"
  ELSE IF target.tool_name \in DOMAIN tools THEN "duplicate" ELSE "OK"

TargetFault(target) ==
  IF ResourceFault(target) THEN "resource"
  ELSE IF target.tool_name \in DOMAIN tools THEN "duplicate" ELSE "OK"

Document == Documents[at.document]

OpenDocument ==
  /\ phase = "loading"
  /\ at.target = 0
  /\ at.document <= Len(Documents)
  /\ IF DocumentFault(Document) # "OK" THEN Fails(DocumentFault(Document))
     ELSE /\ at' = [at EXCEPT !.target = 1]
          /\ UNCHANGED <<environment, phase, tools, registry, error>>

RegisterTarget ==
  LET target == Document.targets[at.target] IN
  /\ phase = "loading"
  /\ at.target > 0
  /\ at.target <= Len(Document.targets)
  /\ IF TargetFault(target) # "OK" THEN Fails(TargetFault(target))
     ELSE /\ tools' = [tool \in DOMAIN tools \cup {target.tool_name} |->
                         IF tool = target.tool_name THEN Registered(target)
                                                    ELSE tools[tool]]
          /\ at' = [at EXCEPT !.target = at.target + 1]
          /\ UNCHANGED <<environment, phase, registry, error>>

NextDocument ==
  /\ phase = "loading"
  /\ at.target > 0
  /\ at.target > Len(Document.targets)
  /\ at' = [document |-> at.document + 1, target |-> 0]
  /\ UNCHANGED <<environment, phase, tools, registry, error>>

RegistryBuilt ==
  /\ phase = "loading"
  /\ at.document > Len(Documents)
  /\ registry' = tools
  /\ phase' = "port"
  /\ UNCHANGED <<environment, at, tools, error>>
-----------------------------------------------------------------------------
(* PORT is parsed as a u16, 4000 unless it is set.                         *)
PortAccepted == environment.port = None \/ environment.port \in 0..65535

ParsePort ==
  /\ phase = "port"
  /\ IF PortAccepted THEN Proceeds("binding") ELSE Fails("port")

(* Somebody else may have the port.                                        *)
Bind ==
  /\ phase = "binding"
  /\ Proceeds("serving") \/ Fails("bind")

StartupNext ==
  \/ CheckSecret
  \/ OpenDocument \/ RegisterTarget \/ NextDocument \/ RegistryBuilt
  \/ ParsePort \/ Bind

StartupSpec == StartupInit /\ [][StartupNext]_startupVars
-----------------------------------------------------------------------------
(* What a list of documents has to be, said without an order of checks.    *)
Sound(documents) ==
  /\ \A d \in DOMAIN documents :
       /\ documents[d].parses
       /\ documents[d].version = Version
       /\ \A i \in DOMAIN documents[d].strategies : documents[d].strategies[i] # Blank
  /\ \A p \in Targets(documents) :
       \A i \in DOMAIN Target(documents, p).resource_arguments :
         LET ra == Target(documents, p).resource_arguments[i]
         IN  ra.argument # Blank /\ ra.scope_prefix # Blank
  /\ \A p, q \in Targets(documents) :
       Target(documents, p).tool_name = Target(documents, q).tool_name => p = q

(* The first d - 1 documents, and document d up to its target t.           *)
UpTo(d, t) ==
  Append(SubSeq(Documents, 1, d - 1),
         [Documents[d] EXCEPT !.targets = SubSeq(Documents[d].targets, 1, t)])

(* specs/settlement-adapters.md: "The proxy must validate the adapter      *)
(* version and reject duplicate or unknown targets."  A guard that serves  *)
(* has every tool of every document, each as declared, and no other.       *)
ServesWhatIsDeclared ==
  phase = "serving" =>
    /\ SecretAccepted
    /\ Sound(Documents)
    /\ DOMAIN registry = {Target(Documents, p).tool_name : p \in Targets(Documents)}
    /\ \A p \in Targets(Documents) :
         registry[Target(Documents, p).tool_name] = Registered(Target(Documents, p))

(* An error is about the first thing that is wrong: everything before it   *)
(* is sound, and no sound list of documents is refused.                    *)
StopsAtFirstFault ==
  phase = "failed" /\ registry = None /\ error.code # "secret" =>
    LET d == error.at.document
        t == error.at.target
    IN  /\ ~ Sound(UpTo(d, t))
        /\ IF t = 0 THEN Sound(SubSeq(Documents, 1, d - 1)) ELSE Sound(UpTo(d, t - 1))
=============================================================================
