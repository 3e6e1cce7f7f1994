---------------------------- MODULE StartupProofs ----------------------------
(***************************************************************************)
(* The registry of tools, for any adapter documents and any environment.   *)
(*                                                                         *)
(* What main() has got through is known by its place in the documents:     *)
(* every document that was opened and every target before that place is    *)
(* sound, no name occurs twice among them, and the map holds exactly them. *)
(***************************************************************************)
EXTENDS Startup, TLAPS, SequenceTheorems

(* The invariant speaks of documents and targets by their numbers.         *)
Place(ds, d, t) == d \in DOMAIN ds /\ t \in DOMAIN ds[d].targets

Opened(d) ==
  /\ d \in DOMAIN Documents
  /\ d < at.document \/ (d = at.document /\ at.target > 0)

Seen(d, t) ==
  /\ Place(Documents, d, t)
  /\ d < at.document \/ (d = at.document /\ t < at.target)

NameAt(d, t) == Documents[d].targets[t].tool_name

Loaded == {"port", "binding", "serving"}

OnItsWay ==
  /\ environment.documents \in Registries
  /\ at \in [document : Nat \ {0}, target : Nat]
  /\ at.document <= Len(Documents) + 1
  /\ at.target > 0 => /\ at.document <= Len(Documents)
                      /\ at.target <= Len(Documents[at.document].targets) + 1
  /\ phase \in {"secret", "loading", "failed"} \cup Loaded
  /\ phase \in {"secret", "loading"} => registry = None
  /\ phase \in Loaded => /\ registry = tools
                         /\ registry # None
                         /\ at.document > Len(Documents)
  /\ phase \in {"loading"} \cup Loaded => SecretAccepted

SeenSound ==
  /\ \A d : Opened(d) => DocumentFault(Documents[d]) = "OK"
  /\ \A d, t : Seen(d, t) => ~ ResourceFault(Documents[d].targets[t])
  /\ \A d, t, e, u : Seen(d, t) /\ Seen(e, u) /\ NameAt(d, t) = NameAt(e, u) =>
       d = e /\ t = u

MapsTheSeen ==
  /\ tools = [tool \in DOMAIN tools |-> tools[tool]]
  /\ \A tool \in DOMAIN tools : \E d, t : Seen(d, t) /\ NameAt(d, t) = tool
  /\ \A d, t : Seen(d, t) =>
       /\ NameAt(d, t) \in DOMAIN tools
       /\ tools[NameAt(d, t)] = Registered(Documents[d].targets[t])

FaultHere ==
  phase = "failed" /\ registry = None /\ error.code # "secret" =>
    /\ error.at = at
    /\ at.document <= Len(Documents)
    /\ IF at.target = 0 THEN DocumentFault(Document) # "OK"
       ELSE /\ at.target <= Len(Document.targets)
            /\ TargetFault(Document.targets[at.target]) # "OK"

StartupInv == OnItsWay /\ SeenSound /\ MapsTheSeen /\ FaultHere
-----------------------------------------------------------------------------
LEMMA DocumentTypes ==
  ASSUME NEW ds \in Registries
  PROVE  /\ ds \in Seq(SettlementAdapter)
         /\ \A d \in DOMAIN ds : /\ ds[d] \in SettlementAdapter
                                 /\ ds[d].targets \in Seq(AdapterTarget)
<1>1. ds \in Seq(SettlementAdapter)
  BY RegistriesAssumption
<1>2. \A a \in SettlementAdapter : a.targets \in Seq(AdapterTarget)
  BY DEF SettlementAdapter
<1> QED BY <1>1, <1>2

LEMMA StartupInitHolds == StartupInit => StartupInv
<1> SUFFICES ASSUME StartupInit PROVE StartupInv
  OBVIOUS
<1>1. /\ environment.documents \in Registries
      /\ phase = "secret" /\ at = [document |-> 1, target |-> 0]
      /\ tools = NoTools /\ registry = None
  BY DEF StartupInit
<1>2. Documents \in Seq(SettlementAdapter)
  BY <1>1, DocumentTypes DEF Documents
<1>3. OnItsWay
  BY <1>1, <1>2 DEF OnItsWay, Loaded
<1>4. \A d, t : ~ Opened(d) /\ ~ Seen(d, t)
  BY <1>1, <1>2, DocumentTypes DEF Opened, Seen, Place, Documents
<1>5. DOMAIN tools = {} /\ tools = [tool \in DOMAIN tools |-> tools[tool]]
  BY <1>1 DEF NoTools
<1> QED BY <1>1, <1>3, <1>4, <1>5 DEF StartupInv, SeenSound, MapsTheSeen, FaultHere

(* A failure, and a step that reads no document, leave the place alone.    *)
LEMMA StandingStill ==
  ASSUME StartupInv, UNCHANGED <<environment, at, tools>>, OnItsWay', FaultHere'
  PROVE  StartupInv'
<1>1. Documents' = Documents
  BY DEF Documents
<1>2. SeenSound'
  BY <1>1 DEF StartupInv, SeenSound, Opened, Seen, Place, NameAt, DocumentFault, ResourceFault
<1>3. MapsTheSeen'
  BY <1>1 DEF StartupInv, MapsTheSeen, Seen, Place, NameAt, Registered
<1> QED BY <1>2, <1>3 DEF StartupInv

LEMMA OpenStep ==
  ASSUME StartupInv, OpenDocument
  PROVE  StartupInv'
<1>1. /\ environment' = environment /\ Documents' = Documents
      /\ tools' = tools /\ registry' = registry
      /\ phase = "loading" /\ at.target = 0 /\ at.document <= Len(Documents)
      /\ registry = None /\ SecretAccepted /\ SecretAccepted'
      /\ at \in [document : Nat \ {0}, target : Nat]
  BY DEF OpenDocument, Documents, Fails, StartupInv, OnItsWay, Loaded, SecretAccepted
<1>2. Documents \in Seq(SettlementAdapter)
  BY DocumentTypes DEF StartupInv, OnItsWay, Documents
<1>3. \A d \in DOMAIN Documents : Documents[d].targets \in Seq(AdapterTarget)
  BY DocumentTypes DEF StartupInv, OnItsWay, Documents
<1>4. CASE DocumentFault(Document) # "OK"
  <2>1. Fails(DocumentFault(Document))
    BY <1>4 DEF OpenDocument
  <2>2. OnItsWay'
    BY <1>1, <2>1 DEF Fails, StartupInv, OnItsWay, Loaded
  <2>3. FaultHere'
    BY <1>1, <1>4, <2>1 DEF Fails, FaultHere, Document, DocumentFault
  <2> QED BY <2>1, <2>2, <2>3, StandingStill DEF Fails
<1>5. CASE DocumentFault(Document) = "OK"
  <2>1. at' = [at EXCEPT !.target = 1] /\ phase' = phase
    BY <1>5 DEF OpenDocument
  <2>2. at'.document = at.document /\ at'.target = 1
        /\ at' \in [document : Nat \ {0}, target : Nat]
    BY <1>1, <2>1
  <2>3. Len(Documents[at.document].targets) \in Nat
    BY <1>1, <1>2, <1>3
  <2>4. OnItsWay'
    BY <1>1, <1>2, <2>1, <2>2, <2>3 DEF StartupInv, OnItsWay, Loaded
  <2>5. \A d : Opened(d)' => Opened(d) \/ d = at.document
    BY <1>1, <2>2 DEF Opened
  <2>6. \A d, t : Seen(d, t)' <=> Seen(d, t)
    BY <1>1, <1>2, <1>3, <2>2 DEF Seen, Place
  <2>7. SeenSound'
    BY <1>1, <1>5, <2>5, <2>6 DEF StartupInv, SeenSound, NameAt, Document, DocumentFault,
       ResourceFault
  <2>8. MapsTheSeen'
    BY <1>1, <2>6 DEF StartupInv, MapsTheSeen, NameAt, Registered
  <2>9. FaultHere'
    BY <1>1, <2>1 DEF FaultHere
  <2> QED BY <2>4, <2>7, <2>8, <2>9 DEF StartupInv
<1> QED BY <1>4, <1>5

LEMMA RegisterStep ==
  ASSUME StartupInv, RegisterTarget
  PROVE  StartupInv'
<1> DEFINE target == Document.targets[at.target]
           name   == target.tool_name
<1>1. /\ environment' = environment /\ Documents' = Documents /\ registry' = registry
      /\ phase = "loading" /\ at.target > 0 /\ at.target <= Len(Document.targets)
      /\ registry = None /\ SecretAccepted /\ SecretAccepted'
      /\ at \in [document : Nat \ {0}, target : Nat]
      /\ at.document <= Len(Documents)
  BY DEF RegisterTarget, Documents, Fails, StartupInv, OnItsWay, Loaded, SecretAccepted
<1>2. Documents \in Seq(SettlementAdapter)
  BY DocumentTypes DEF StartupInv, OnItsWay, Documents
<1>3. \A d \in DOMAIN Documents : Documents[d].targets \in Seq(AdapterTarget)
  BY DocumentTypes DEF StartupInv, OnItsWay, Documents
<1>4. CASE TargetFault(target) # "OK"
  <2>1. Fails(TargetFault(target))
    BY <1>4 DEF RegisterTarget
  <2>2. OnItsWay'
    BY <1>1, <2>1 DEF Fails, StartupInv, OnItsWay, Loaded
  <2>3. at' = at /\ tools' = tools /\ Document' = Document /\ error'.at = at
    BY <1>1, <2>1 DEF Fails, Document
  <2>4. (TargetFault(Document.targets[at.target]) # "OK")'
    BY <1>4, <2>3 DEF TargetFault, ResourceFault
  <2>5. FaultHere'
    BY <1>1, <2>3, <2>4 DEF FaultHere
  <2> QED BY <2>1, <2>2, <2>5, StandingStill DEF Fails
<1>5. CASE TargetFault(target) = "OK"
  <2>1. /\ tools' = [tool \in DOMAIN tools \cup {name} |->
                       IF tool = name THEN Registered(target) ELSE tools[tool]]
        /\ at' = [at EXCEPT !.target = at.target + 1]
        /\ phase' = phase
    BY <1>5 DEF RegisterTarget
  <2>2. at'.document = at.document /\ at'.target = at.target + 1
        /\ at' \in [document : Nat \ {0}, target : Nat]
    BY <1>1, <2>1
  <2>3. Len(Documents[at.document].targets) \in Nat
    BY <1>1, <1>2, <1>3
  <2>4. OnItsWay'
    BY <1>1, <1>2, <2>1, <2>2, <2>3 DEF StartupInv, OnItsWay, Loaded, Document
  <2>5. \A d : Opened(d)' <=> Opened(d)
    BY <1>1, <2>2 DEF Opened
  <2>6. \A d, t : Seen(d, t)' <=> Seen(d, t) \/ (d = at.document /\ t = at.target)
    BY <1>1, <1>2, <1>3, <2>2 DEF Seen, Place, Document
  <2>7. name = NameAt(at.document, at.target) /\ target = Documents[at.document].targets[at.target]
    BY DEF NameAt, Document
  <2>8. ~ ResourceFault(target) /\ name \notin DOMAIN tools
    BY <1>5 DEF TargetFault
  <2>9. SeenSound'
    <3>1. \A d : Opened(d)' => DocumentFault(Documents[d]) = "OK"
      BY <2>5 DEF StartupInv, SeenSound
    <3>2. \A d, t : Seen(d, t)' => ~ ResourceFault(Documents[d].targets[t])
      BY <2>6, <2>7, <2>8 DEF StartupInv, SeenSound
    <3>3. \A d, t : Seen(d, t) => NameAt(d, t) # name
      BY <2>8 DEF StartupInv, MapsTheSeen
    <3>4. \A d, t, e, u : Seen(d, t)' /\ Seen(e, u)' /\ NameAt(d, t) = NameAt(e, u) =>
            d = e /\ t = u
      <4> HIDE DEF target, name
      <4> QED BY <2>6, <2>7, <3>3 DEF StartupInv, SeenSound
    <3> QED BY <1>1, <3>1, <3>2, <3>4 DEF SeenSound, NameAt, DocumentFault, ResourceFault
  <2>10. MapsTheSeen'
    <3>1. tools' = [tool \in DOMAIN tools' |-> tools'[tool]]
      BY <2>1
    <3>2. \A tool \in DOMAIN tools' : \E d, t : Seen(d, t)' /\ NameAt(d, t) = tool
      BY <2>1, <2>6, <2>7 DEF StartupInv, MapsTheSeen
    <3>3. \A d, t : Seen(d, t)' => /\ NameAt(d, t) \in DOMAIN tools'
                                   /\ tools'[NameAt(d, t)] = Registered(Documents[d].targets[t])
      <4> HIDE DEF target, name
      <4> QED BY <2>1, <2>6, <2>7, <2>8 DEF StartupInv, MapsTheSeen
    <3> QED BY <1>1, <3>1, <3>2, <3>3 DEF MapsTheSeen, NameAt, Registered
  <2>11. FaultHere'
    BY <1>1, <2>1 DEF FaultHere
  <2> QED BY <2>4, <2>9, <2>10, <2>11 DEF StartupInv
<1> QED BY <1>4, <1>5

LEMMA NextDocumentStep ==
  ASSUME StartupInv, NextDocument
  PROVE  StartupInv'
<1>1. /\ environment' = environment /\ Documents' = Documents
      /\ tools' = tools /\ registry' = registry /\ phase' = phase
      /\ phase = "loading" /\ at.target > Len(Document.targets) /\ at.target > 0
      /\ at' = [document |-> at.document + 1, target |-> 0]
      /\ registry = None /\ SecretAccepted /\ SecretAccepted'
      /\ at \in [document : Nat \ {0}, target : Nat]
      /\ at.document <= Len(Documents)
  BY DEF NextDocument, Documents, StartupInv, OnItsWay, Loaded, SecretAccepted
<1>2. Documents \in Seq(SettlementAdapter)
  BY DocumentTypes DEF StartupInv, OnItsWay, Documents
<1>3. \A d \in DOMAIN Documents : Documents[d].targets \in Seq(AdapterTarget)
  BY DocumentTypes DEF StartupInv, OnItsWay, Documents
<1>4. OnItsWay'
  BY <1>1, <1>2 DEF StartupInv, OnItsWay, Loaded
<1>5. \A d : Opened(d)' <=> Opened(d)
  BY <1>1, <1>2 DEF Opened
<1>6. \A d, t : Seen(d, t)' <=> Seen(d, t)
  BY <1>1, <1>2, <1>3 DEF Seen, Place, Document
<1>7. SeenSound'
  BY <1>1, <1>5, <1>6 DEF StartupInv, SeenSound, NameAt, DocumentFault, ResourceFault
<1>8. MapsTheSeen'
  BY <1>1, <1>6 DEF StartupInv, MapsTheSeen, NameAt, Registered
<1>9. FaultHere'
  BY <1>1 DEF FaultHere
<1> QED BY <1>4, <1>7, <1>8, <1>9 DEF StartupInv

(* Once every document was read every target was seen.                     *)
LEMMA AllSeen ==
  ASSUME StartupInv, at.document > Len(Documents)
  PROVE  /\ \A d \in DOMAIN Documents : Opened(d)
         /\ \A d, t : Place(Documents, d, t) => Seen(d, t)
<1>1. Documents \in Seq(SettlementAdapter) /\ at.document \in Nat
  BY DocumentTypes DEF StartupInv, OnItsWay, Documents
<1> QED BY <1>1 DEF Opened, Seen, Place

LEMMA TargetsAre ==
  ASSUME NEW ds
  PROVE  /\ \A d, t : Place(ds, d, t) =>
              <<d, t>> \in Targets(ds) /\ Target(ds, <<d, t>>) = ds[d].targets[t]
         /\ \A p \in Targets(ds) : \E d, t :
              Place(ds, d, t) /\ p = <<d, t>> /\ Target(ds, p) = ds[d].targets[t]
<1>1. \A d, t : Target(ds, <<d, t>>) = ds[d].targets[t]
  BY DEF Target
<1>2. \A p : p \in Targets(ds) <=> \E d, t : Place(ds, d, t) /\ p = <<d, t>>
  BY DEF Targets, Place
<1> QED BY <1>1, <1>2

LEMMA BuiltStep ==
  ASSUME StartupInv, RegistryBuilt
  PROVE  StartupInv'
<1> DEFINE names   == {Target(Documents, p).tool_name : p \in Targets(Documents)}
           entries == {Registered(Target(Documents, p)) : p \in Targets(Documents)}
<1>1. /\ environment' = environment /\ Documents' = Documents
      /\ tools' = tools /\ registry' = tools /\ phase' = "port" /\ at' = at
      /\ at.document > Len(Documents)
      /\ SecretAccepted'
  BY DEF RegistryBuilt, Documents, StartupInv, OnItsWay, Loaded, SecretAccepted
<1>2. \A d, t : Place(Documents, d, t) =>
        /\ <<d, t>> \in Targets(Documents)
        /\ Target(Documents, <<d, t>>) = Documents[d].targets[t]
  BY TargetsAre
<1>3. \A d, t : Place(Documents, d, t) =>
        NameAt(d, t) \in names /\ Registered(Documents[d].targets[t]) \in entries
  <2> SUFFICES ASSUME NEW d, NEW t, Place(Documents, d, t)
               PROVE  NameAt(d, t) \in names /\ Registered(Documents[d].targets[t]) \in entries
    OBVIOUS
  <2> QED BY <1>2 DEF NameAt
<1>4. \A tool \in names : \E d, t : Place(Documents, d, t) /\ NameAt(d, t) = tool
  BY TargetsAre DEF NameAt
<1> HIDE DEF names, entries
<1>5. DOMAIN tools = names
  <2>1. DOMAIN tools \subseteq names
    BY <1>3 DEF StartupInv, MapsTheSeen, Seen
  <2>2. \A d, t : Place(Documents, d, t) => NameAt(d, t) \in DOMAIN tools
    BY <1>1, AllSeen DEF StartupInv, MapsTheSeen
  <2> QED BY <1>4, <2>1, <2>2
<1>6. \A tool \in DOMAIN tools : tools[tool] \in entries
  BY <1>3 DEF StartupInv, MapsTheSeen, Seen
<1>7. tools \in [names -> entries]
  BY <1>5, <1>6 DEF StartupInv, MapsTheSeen
<1>8. tools # None
  BY <1>7, RegistriesAssumption DEF StartupInv, OnItsWay, Documents, names, entries
<1>9. OnItsWay'
  BY <1>1, <1>8 DEF StartupInv, OnItsWay, Loaded
<1> QED BY <1>1, <1>9, StandingStill DEF FaultHere

LEMMA StartupStep == StartupInv /\ [StartupNext]_startupVars => StartupInv'
<1> SUFFICES ASSUME StartupInv, [StartupNext]_startupVars PROVE StartupInv'
  OBVIOUS
<1>1. ASSUME CheckSecret \/ ParsePort \/ Bind \/ UNCHANGED startupVars
      PROVE  StartupInv'
  <2>1. UNCHANGED <<environment, at, tools, registry>> /\ Documents' = Documents
        /\ SecretAccepted' = SecretAccepted
    BY <1>1 DEF CheckSecret, ParsePort, Bind, Proceeds, Fails, startupVars, Documents,
       SecretAccepted
  <2>2. OnItsWay'
    BY <1>1, <2>1 DEF CheckSecret, ParsePort, Bind, Proceeds, Fails, startupVars, StartupInv,
       OnItsWay, Loaded
  <2>3. FaultHere'
    BY <1>1, <2>1 DEF CheckSecret, ParsePort, Bind, Proceeds, Fails, startupVars, StartupInv,
       OnItsWay, Loaded, FaultHere, Document, DocumentFault, TargetFault, ResourceFault
  <2> QED BY <2>1, <2>2, <2>3, StandingStill
<1> QED BY <1>1, OpenStep, RegisterStep, NextDocumentStep, BuiltStep DEF StartupNext

LEMMA StartupHolds == StartupSpec => []StartupInv
  BY StartupInitHolds, StartupStep, PTL DEF StartupSpec
-----------------------------------------------------------------------------
(* Sound, by number.                                                       *)
LEMMA SoundMeans ==
  ASSUME NEW ds
  PROVE  Sound(ds) <=>
           /\ \A d \in DOMAIN ds : DocumentFault(ds[d]) = "OK"
           /\ \A d, t : Place(ds, d, t) => ~ ResourceFault(ds[d].targets[t])
           /\ \A d, t, e, u :
                /\ Place(ds, d, t) /\ Place(ds, e, u)
                /\ ds[d].targets[t].tool_name = ds[e].targets[u].tool_name
                => d = e /\ t = u
<1> DEFINE A == \A d \in DOMAIN ds :
                  /\ ds[d].parses
                  /\ ds[d].version = Version
                  /\ \A i \in DOMAIN ds[d].strategies : ds[d].strategies[i] # Blank
           B == \A p \in Targets(ds) :
                  \A i \in DOMAIN Target(ds, p).resource_arguments :
                    LET ra == Target(ds, p).resource_arguments[i]
                    IN  ra.argument # Blank /\ ra.scope_prefix # Blank
           C == \A p, q \in Targets(ds) :
                  Target(ds, p).tool_name = Target(ds, q).tool_name => p = q
<1>1. Sound(ds) <=> A /\ B /\ C
  BY Zenon DEF Sound
<1>2. A <=> \A d \in DOMAIN ds : DocumentFault(ds[d]) = "OK"
  BY DEF DocumentFault
<1>3. B <=> \A p \in Targets(ds) : ~ ResourceFault(Target(ds, p))
  BY DEF ResourceFault
<1>4. B <=> \A d, t : Place(ds, d, t) => ~ ResourceFault(ds[d].targets[t])
  <2> HIDE DEF B
  <2>1. ASSUME B, NEW d, NEW t, Place(ds, d, t)
        PROVE  ~ ResourceFault(ds[d].targets[t])
    <3>1. <<d, t>> \in Targets(ds) /\ Target(ds, <<d, t>>) = ds[d].targets[t]
      BY <2>1, TargetsAre
    <3> QED BY <1>3, <2>1, <3>1
  <2>2. ASSUME \A d, t : Place(ds, d, t) => ~ ResourceFault(ds[d].targets[t]),
               NEW p \in Targets(ds)
        PROVE  ~ ResourceFault(Target(ds, p))
    <3>1. PICK d, t : Place(ds, d, t) /\ p = <<d, t>> /\ Target(ds, p) = ds[d].targets[t]
      BY TargetsAre
    <3> QED BY <2>2, <3>1
  <2> QED BY <1>3, <2>1, <2>2
<1>5. C <=> \A d, t, e, u :
              /\ Place(ds, d, t) /\ Place(ds, e, u)
              /\ ds[d].targets[t].tool_name = ds[e].targets[u].tool_name
              => d = e /\ t = u
  <2>1. \A d, t, e, u : <<d, t>> = <<e, u>> <=> d = e /\ t = u
    OBVIOUS
  <2>2. ASSUME C, NEW d, NEW t, NEW e, NEW u, Place(ds, d, t), Place(ds, e, u),
               ds[d].targets[t].tool_name = ds[e].targets[u].tool_name
        PROVE  d = e /\ t = u
    <3>1. /\ <<d, t>> \in Targets(ds) /\ Target(ds, <<d, t>>) = ds[d].targets[t]
          /\ <<e, u>> \in Targets(ds) /\ Target(ds, <<e, u>>) = ds[e].targets[u]
      BY <2>2, TargetsAre
    <3>2. <<d, t>> = <<e, u>>
      BY <2>2, <3>1
    <3> QED BY <3>2
  <2>3. ASSUME \A d, t, e, u :
                 /\ Place(ds, d, t) /\ Place(ds, e, u)
                 /\ ds[d].targets[t].tool_name = ds[e].targets[u].tool_name
                 => d = e /\ t = u,
               NEW p \in Targets(ds), NEW q \in Targets(ds),
               Target(ds, p).tool_name = Target(ds, q).tool_name
        PROVE  p = q
    <3>1. PICK d, t : Place(ds, d, t) /\ p = <<d, t>> /\ Target(ds, p) = ds[d].targets[t]
      BY TargetsAre
    <3>2. PICK e, u : Place(ds, e, u) /\ q = <<e, u>> /\ Target(ds, q) = ds[e].targets[u]
      BY TargetsAre
    <3> QED BY <2>3, <3>1, <3>2
  <2> QED BY <2>2, <2>3
<1> HIDE DEF A, B, C
<1> QED BY <1>1, <1>2, <1>4, <1>5

(* A guard that serves passed every check, and has every tool of every     *)
(* document, each as declared, and no other.                               *)
THEOREM ServesDeclared == StartupSpec => []ServesWhatIsDeclared
<1> SUFFICES StartupInv => ServesWhatIsDeclared
  BY StartupHolds, PTL
<1> SUFFICES ASSUME StartupInv, phase = "serving" PROVE ServesWhatIsDeclared
  BY DEF ServesWhatIsDeclared
<1>1. /\ SecretAccepted /\ registry = tools
      /\ \A d \in DOMAIN Documents : Opened(d)
      /\ \A d, t : Place(Documents, d, t) <=> Seen(d, t)
  BY AllSeen DEF StartupInv, OnItsWay, Loaded, Seen
<1>2. Sound(Documents)
  BY <1>1, SoundMeans DEF StartupInv, SeenSound, NameAt
<1>3. \A d, t : Seen(d, t) =>
        <<d, t>> \in Targets(Documents) /\ Target(Documents, <<d, t>>) = Documents[d].targets[t]
  BY <1>1, TargetsAre
<1>4. DOMAIN registry = {Target(Documents, p).tool_name : p \in Targets(Documents)}
  <2>1. \A tool \in DOMAIN registry : \E p \in Targets(Documents) :
          tool = Target(Documents, p).tool_name
    <3> SUFFICES ASSUME NEW tool \in DOMAIN tools
                 PROVE  \E p \in Targets(Documents) : tool = Target(Documents, p).tool_name
      BY <1>1
    <3>1. PICK d, t : Seen(d, t) /\ NameAt(d, t) = tool
      BY DEF StartupInv, MapsTheSeen
    <3>2. <<d, t>> \in Targets(Documents) /\ Target(Documents, <<d, t>>).tool_name = tool
      BY <1>3, <3>1 DEF NameAt
    <3> QED BY <3>2
  <2>2. \A p \in Targets(Documents) : Target(Documents, p).tool_name \in DOMAIN registry
    BY <1>1, <1>3, TargetsAre DEF StartupInv, MapsTheSeen, NameAt
  <2> QED BY <2>1, <2>2
<1>5. \A p \in Targets(Documents) :
        registry[Target(Documents, p).tool_name] = Registered(Target(Documents, p))
  BY <1>1, <1>3, TargetsAre DEF StartupInv, MapsTheSeen, NameAt
<1> QED BY <1>1, <1>2, <1>4, <1>5 DEF ServesWhatIsDeclared
-----------------------------------------------------------------------------
(* A list of documents up to a target of the last of them.                 *)
LEMMA UpToIs ==
  ASSUME environment.documents \in Registries, NEW d \in DOMAIN Documents,
         NEW t \in 0..Len(Documents[d].targets)
  PROVE  /\ DOMAIN UpTo(d, t) = 1..d
         /\ \A i \in 1..d : /\ i < d => UpTo(d, t)[i] = Documents[i]
                            /\ DocumentFault(UpTo(d, t)[i]) = DocumentFault(Documents[i])
         /\ \A i, j : Place(UpTo(d, t), i, j) <=>
                        Place(Documents, i, j) /\ (i < d \/ (i = d /\ j <= t))
         /\ \A i, j : Place(UpTo(d, t), i, j) =>
                        UpTo(d, t)[i].targets[j] = Documents[i].targets[j]
<1> DEFINE front == SubSeq(Documents, 1, d - 1)
           cut   == SubSeq(Documents[d].targets, 1, t)
           last  == [Documents[d] EXCEPT !.targets = cut]
           ds    == Append(front, last)
<1>1. /\ Documents \in Seq(SettlementAdapter)
      /\ Documents[d] \in SettlementAdapter
      /\ \A i \in DOMAIN Documents : Documents[i].targets \in Seq(AdapterTarget)
  BY DocumentTypes DEF Documents
<1>2. d \in 1..Len(Documents) /\ t \in Nat
  BY <1>1
<1>3. /\ front \in Seq(SettlementAdapter)
      /\ Len(front) = d - 1
      /\ \A i \in 1..(d - 1) : front[i] = Documents[i]
  BY <1>1, <1>2
<1>4. cut \in Seq(AdapterTarget) /\ DOMAIN cut = 1..t
      /\ \A j \in 1..t : cut[j] = Documents[d].targets[j]
  BY <1>1, <1>2
<1> HIDE DEF cut, front
<1>5. /\ last.targets = cut
      /\ last.parses = Documents[d].parses
      /\ last.version = Documents[d].version
      /\ last.strategies = Documents[d].strategies
      /\ last \in SettlementAdapter
  BY <1>1, <1>4 DEF SettlementAdapter
<1>6. DocumentFault(last) = DocumentFault(Documents[d])
  BY <1>5 DEF DocumentFault
<1> HIDE DEF last
<1>7. /\ DOMAIN ds = 1..d
      /\ \A i \in 1..(d - 1) : ds[i] = Documents[i]
      /\ ds[d] = last
  BY <1>2, <1>3, <1>5
<1>8. UpTo(d, t) = ds
  BY DEF UpTo, last, cut, front
<1> HIDE DEF ds
<1>9. \A i \in 1..d : /\ i < d => ds[i] = Documents[i]
                      /\ DocumentFault(ds[i]) = DocumentFault(Documents[i])
  BY <1>2, <1>6, <1>7
<1>10. \A i, j : Place(ds, i, j) <=> Place(Documents, i, j) /\ (i < d \/ (i = d /\ j <= t))
  <2>1. ASSUME NEW i, NEW j, i \in 1..(d - 1)
        PROVE  Place(ds, i, j) <=> Place(Documents, i, j)
    BY <1>1, <1>2, <1>7, <2>1 DEF Place
  <2>2. ASSUME NEW j
        PROVE  Place(ds, d, j) <=> Place(Documents, d, j) /\ j <= t
    <3>1. Place(ds, d, j) <=> j \in 1..t
      BY <1>2, <1>4, <1>5, <1>7 DEF Place
    <3>2. Place(Documents, d, j) <=> j \in 1..Len(Documents[d].targets)
      BY <1>1, <1>2 DEF Place
    <3>3. Len(Documents[d].targets) \in Nat
      BY <1>1, <1>2
    <3> QED BY <1>2, <3>1, <3>2, <3>3
  <2>3. \A i, j : Place(ds, i, j) => i \in 1..(d - 1) \/ i = d
    BY <1>2, <1>7 DEF Place
  <2>4. \A i, j : Place(Documents, i, j) /\ i < d => i \in 1..(d - 1)
    BY <1>1, <1>2 DEF Place
  <2> QED BY <1>2, <2>1, <2>2, <2>3, <2>4
<1>11. \A i, j : Place(ds, i, j) => ds[i].targets[j] = Documents[i].targets[j]
  BY <1>2, <1>4, <1>5, <1>7 DEF Place
<1> QED BY <1>7, <1>8, <1>9, <1>10, <1>11

(* Where a guard that fails has stopped, what StartupInv says of what it    *)
(* has seen is what StopsAtFirstFault asks.                                *)
LEMMA FaultMeans == StartupInv => StopsAtFirstFault
<1> SUFFICES ASSUME StartupInv, phase = "failed", registry = None, error.code # "secret"
             PROVE  /\ ~ Sound(UpTo(error.at.document, error.at.target))
                    /\ IF error.at.target = 0
                       THEN Sound(SubSeq(Documents, 1, error.at.document - 1))
                       ELSE Sound(UpTo(error.at.document, error.at.target - 1))
  BY DEF StopsAtFirstFault
<1> DEFINE d == at.document
           t == at.target
<1>1. /\ error.at = at /\ d \in Nat \ {0} /\ t \in Nat
      /\ d <= Len(Documents)
      /\ environment.documents \in Registries
      /\ IF t = 0 THEN DocumentFault(Documents[d]) # "OK"
         ELSE /\ t <= Len(Documents[d].targets)
              /\ TargetFault(Documents[d].targets[t]) # "OK"
  BY DEF StartupInv, FaultHere, OnItsWay, Document
<1>2. /\ Documents \in Seq(SettlementAdapter)
      /\ \A i \in DOMAIN Documents : Documents[i].targets \in Seq(AdapterTarget)
  BY <1>1, DocumentTypes DEF Documents
<1>3. d \in DOMAIN Documents /\ t \in 0..Len(Documents[d].targets)
  BY <1>1, <1>2
<1>4. CASE t = 0
  <2>1. ~ Sound(UpTo(d, 0))
    <3>1. d \in DOMAIN UpTo(d, 0) /\ DocumentFault(UpTo(d, 0)[d]) # "OK"
      BY <1>1, <1>3, <1>4, UpToIs
    <3> QED BY <3>1, SoundMeans
  <2>2. Sound(SubSeq(Documents, 1, d - 1))
    <3> DEFINE front == SubSeq(Documents, 1, d - 1)
    <3>1. DOMAIN front = 1..(d - 1) /\ \A i \in 1..(d - 1) : front[i] = Documents[i]
      BY <1>1, <1>2
    <3>2. \A i \in DOMAIN front : Opened(i)
      BY <1>1, <1>2, <3>1 DEF Opened
    <3>3. \A i, j : Place(front, i, j) => Seen(i, j) /\ front[i] = Documents[i]
      BY <1>1, <1>2, <3>1 DEF Seen, Place
    <3> HIDE DEF front
    <3>4. \A i \in DOMAIN front : DocumentFault(front[i]) = "OK"
      BY <3>1, <3>2 DEF StartupInv, SeenSound
    <3>5. \A i, j : Place(front, i, j) => ~ ResourceFault(front[i].targets[j])
      BY <3>3 DEF StartupInv, SeenSound
    <3>6. \A i, j, k, l :
            /\ Place(front, i, j) /\ Place(front, k, l)
            /\ front[i].targets[j].tool_name = front[k].targets[l].tool_name
            => i = k /\ j = l
      BY <3>3 DEF StartupInv, SeenSound, NameAt
    <3>7. Sound(front)
      BY <3>4, <3>5, <3>6, SoundMeans
    <3> QED BY <3>7 DEF front
  <2> QED BY <1>1, <1>4, <2>1, <2>2
<1>5. CASE t > 0
  <2>1. Sound(UpTo(d, t - 1))
    <3> DEFINE ds == UpTo(d, t - 1)
    <3>1. t - 1 \in 0..Len(Documents[d].targets)
      BY <1>1, <1>3, <1>5
    <3>2. /\ DOMAIN ds = 1..d
          /\ \A i \in 1..d : DocumentFault(ds[i]) = DocumentFault(Documents[i])
          /\ \A i, j : Place(ds, i, j) <=>
                         Place(Documents, i, j) /\ (i < d \/ (i = d /\ j <= t - 1))
          /\ \A i, j : Place(ds, i, j) => ds[i].targets[j] = Documents[i].targets[j]
      BY <1>1, <1>3, <3>1, UpToIs
    <3> HIDE DEF ds
    <3>3. \A i \in 1..d : Opened(i)
      BY <1>1, <1>2, <1>5 DEF Opened
    <3>4. \A i, j : Place(ds, i, j) => Seen(i, j)
      BY <1>1, <1>2, <3>2 DEF Seen, Place
    <3>5. \A i \in DOMAIN ds : DocumentFault(ds[i]) = "OK"
      <4>1. \A i \in 1..d : DocumentFault(Documents[i]) = "OK"
        BY <3>3 DEF StartupInv, SeenSound
      <4> QED BY <3>2, <4>1
    <3>6. \A i, j : Place(ds, i, j) => ~ ResourceFault(ds[i].targets[j])
      BY <3>2, <3>4 DEF StartupInv, SeenSound
    <3>7. \A i, j, k, l :
            /\ Place(ds, i, j) /\ Place(ds, k, l)
            /\ ds[i].targets[j].tool_name = ds[k].targets[l].tool_name
            => i = k /\ j = l
      <4>1. \A i, j : Place(ds, i, j) =>
              Seen(i, j) /\ ds[i].targets[j].tool_name = NameAt(i, j)
        BY <3>2, <3>4 DEF NameAt
      <4> QED BY <4>1 DEF StartupInv, SeenSound
    <3>8. Sound(ds)
      BY <3>5, <3>6, <3>7, SoundMeans
    <3> QED BY <3>8 DEF ds
  <2>2. ~ Sound(UpTo(d, t))
    <3> DEFINE ds     == UpTo(d, t)
               target == Documents[d].targets[t]
    <3>1. /\ \A i, j : Place(ds, i, j) <=>
                         Place(Documents, i, j) /\ (i < d \/ (i = d /\ j <= t))
          /\ \A i, j : Place(ds, i, j) => ds[i].targets[j] = Documents[i].targets[j]
      BY <1>1, <1>3, UpToIs
    <3> HIDE DEF ds
    <3>2. Place(ds, d, t) /\ ds[d].targets[t] = target
      BY <1>1, <1>2, <1>3, <1>5, <3>1 DEF Place
    <3>3. ResourceFault(target) \/ target.tool_name \in DOMAIN tools
      BY <1>1, <1>5 DEF TargetFault
    <3>4. CASE ResourceFault(target)
      BY <3>2, <3>4, SoundMeans DEF ds
    <3>5. CASE target.tool_name \in DOMAIN tools
      <4>1. PICK i, j : Seen(i, j) /\ NameAt(i, j) = target.tool_name
        BY <3>5 DEF StartupInv, MapsTheSeen
      <4>2. Place(Documents, i, j) /\ (i < d \/ (i = d /\ j < t))
        BY <4>1 DEF Seen
      <4>3. i \in Nat /\ j \in Nat
        BY <1>2, <4>2 DEF Place
      <4>4. Place(ds, i, j) /\ ds[i].targets[j].tool_name = target.tool_name
        BY <1>1, <3>1, <4>1, <4>2, <4>3 DEF NameAt
      <4>5. ~ (i = d /\ j = t)
        BY <1>1, <4>2, <4>3
      <4> QED BY <3>2, <4>4, <4>5, SoundMeans DEF ds
    <3> QED BY <3>3, <3>4, <3>5
  <2> QED BY <1>1, <1>5, <2>1, <2>2
<1> QED BY <1>1, <1>4, <1>5

(* An error is about the first thing that is wrong: everything before it   *)
(* is sound, and no sound list of documents is refused.                    *)
THEOREM FirstFaultStops == StartupSpec => []StopsAtFirstFault
  BY FaultMeans, StartupHolds, PTL
=============================================================================
