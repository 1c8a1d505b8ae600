----------------------------- MODULE Deployments -----------------------------
(***************************************************************************)
(* projectmodel: the contracts of a project, the components they belong to *)
(* and where they are deployed, as the generators read them                *)
(* (framework-go-projectmodel).                                            *)
(*                                                                         *)
(*   cs  : contract key -> [layer, pkg, infra, deps, stub, hand]; pkg is   *)
(*         <<parent, leaf>> or <<>>, infra a set of names, deps a sequence *)
(*         of [name, comp, type, import], comp "" for a plain dependency,  *)
(*         import the package that its type names or <<>>, and hand the    *)
(*         constructors its package has of its own;                        *)
(*   sys : [comps, rels]; comps : id -> [layer, kind, key, ui, protocol,   *)
(*         status], key its contractKey or "", and rels a set of           *)
(*         <<from, to>>.  An id is the kebab form of a contract key: the   *)
(*         two forms of one name are one value here;                       *)
(*   a deployment: [containers, profiles, decls, bindings, settings];      *)
(*         decls of [key, substrate, profiles, presence], bindings of      *)
(*         [comp, per, presence, settings], per : profile ->               *)
(*         [variant, infra], infra a sequence of keys.                     *)
(* A deployment declares a substrate of each kind at most once, but for    *)
(* external endpoints.                                                     *)
(***************************************************************************)
EXTENDS Integers, FiniteSets, Sequences, SequencesExt

Layers == {"client", "manager", "engine", "resourceAccess", "utility"}

LegalDepTargets == [client |-> {"manager"}, manager |-> {"engine", "resourceAccess"},
                    engine |-> {"resourceAccess"}, resourceAccess |-> {}, utility |-> Layers]

Takes(c) == {dep.comp : dep \in ToSet(c.deps)} \ {""}

DepsLegal(cs) ==
    \A k \in DOMAIN cs :
      /\ cs[k].layer \in Layers
      /\ \A dep \in Takes(cs[k]) :
           /\ dep \in DOMAIN cs
           /\ cs[dep].layer \in LegalDepTargets[cs[k].layer] \union {"utility"}

Presences == {"", "required", "optional", "optional-dormant"}

KeysOf(decls) == {decl.key : decl \in decls}

DeploymentLegal(cs, d) ==
    /\ \A decl \in d.decls : decl.presence \in Presences /\ decl.profiles \subseteq d.profiles
    /\ \A b \in d.bindings :
         /\ b.comp \in DOMAIN cs /\ b.presence \in Presences
         /\ DOMAIN b.per \subseteq d.profiles
         /\ \A p \in DOMAIN b.per : ToSet(b.per[p].infra) \subseteq KeysOf(d.decls)

\* An unresolved join is a warning only.
ModelLegal(cs, sys, d) ==
    /\ DepsLegal(cs)
    /\ d.containers # {} => DeploymentLegal(cs, d)
    /\ \A r \in sys.rels : r[1] \in DOMAIN sys.comps /\ r[2] \in DOMAIN sys.comps
-----------------------------------------------------------------------------
(* The components *)

Explicit(sys, key) == {id \in DOMAIN sys.comps : sys.comps[id].key = key}

\* ComponentByContractKey: the explicit key, else the id; the set is empty
\* when nothing joins.
Joined(sys, key) ==
    IF Explicit(sys, key) # {} THEN Explicit(sys, key) ELSE {key} \intersect DOMAIN sys.comps

ContractKey(sys, id) == IF sys.comps[id].key # "" THEN sys.comps[id].key ELSE id

IsBuilt(comp) == comp.status \notin {"planned", "external"}

BuiltSurfaces(sys) == {id \in DOMAIN sys.comps : sys.comps[id].ui = "browser" /\ IsBuilt(sys.comps[id])}
-----------------------------------------------------------------------------
(* The deployment *)

DefaultProfiles == {"cloud", "local"}

Served(cs) == {k \in DOMAIN cs : cs[k].pkg # <<>> /\ ~cs[k].stub /\ cs[k].layer # "client"}

\* An external endpoint is declared under its component's own key.
InfraKeys(k, name) == CASE name = "Postgres" -> <<"postgres">> [] name = "ExternalHTTP" -> <<k>>

DefaultBinding(k, name) ==
    [comp |-> k, presence |-> "required", settings |-> {},
     per |-> [p \in DefaultProfiles |-> [variant |-> name, infra |-> InfraKeys(k, name)]]]

\* Infrastructure of another name needs an authored deployment.
DefaultBindings(cs) ==
    UNION {{DefaultBinding(k, name) : name \in cs[k].infra \intersect {"Postgres", "ExternalHTTP"}} :
             k \in Served(cs)}

Decl(key, substrate, presence) ==
    [key |-> key, substrate |-> substrate, profiles |-> DefaultProfiles, presence |-> presence]

DefaultDecls(cs) ==
    {Decl("otel", "otel", "optional")}
    \union {Decl("temporal", "temporal", "required") :
              k \in {k \in Served(cs) : cs[k].layer = "manager"}}
    \union {Decl("postgres", "postgres", "required") :
              k \in {k \in Served(cs) : "Postgres" \in cs[k].infra}}
    \union {Decl(k, "external-http", "required") :
              k \in {k \in Served(cs) : "ExternalHTTP" \in cs[k].infra}}

DefaultDeployment(cs, container) ==
    [containers |-> {container}, profiles |-> DefaultProfiles, decls |-> DefaultDecls(cs),
     bindings |-> DefaultBindings(cs), settings |-> {"listenAddr", "shutdownTimeout"}]

\* An authored deployment that names a container replaces the derived one.
EffectiveDeployment(cs, sys, authored, container) ==
    LET derived == DefaultDeployment(cs, container)
    IN  IF authored.containers # {} THEN authored
        ELSE IF BuiltSurfaces(sys) = {} THEN derived
        ELSE [derived EXCEPT !.settings = @ \union {"webDistDir"}]

DeclOf(d, key) == CHOOSE decl \in d.decls : decl.key = key
OfSubstrate(d, s) == {decl \in d.decls : decl.substrate = s}

-----------------------------------------------------------------------------
(* deploynaming: the inputs of a substrate; only Temporal's have defaults. *)

Inputs(s) ==
    CASE s = "temporal" -> {"HOSTPORT", "NAMESPACE"}
      [] s \in {"postgres", "external-http"} -> {"URL"}
      [] s = "github-app" -> {"APP_ID", "PRIVATE_KEY_PEM", "ACCOUNT", "APP_SLUG",
                              "INSTALLATION_ID", "API_BASE_URL"}
      [] s = "keycloak" -> {"JWKS_URL", "ISSUER"}
      [] s = "otel" -> {}

KnownSubstrates == {"temporal", "postgres", "external-http", "github-app", "keycloak", "otel"}
HasDefault(s) == s = "temporal"

-----------------------------------------------------------------------------
(* configgen and rungen: the fields of the generated Config, what of them *)
(* LoadConfig insists on, and the plan of the local launcher.             *)

Infra(key, input) == <<key, input>>
Setting(name) == <<name>>

\* The fields of an infrastructure declaration.
FieldsOf(decl) == {Infra(decl.key, input) : input \in Inputs(decl.substrate)}

ConfigFields(d) == (UNION {FieldsOf(decl) : decl \in d.decls}) \union {Setting(s) : s \in d.settings}

\* collect: what makes the generation fail.
ConfigRefusals(d) ==
    {<<"unknown substrate", decl.key>> :
       decl \in {decl \in d.decls : decl.substrate \notin KnownSubstrates}}
    \union {<<"reserved name", s>> : s \in d.settings \intersect {"devPrincipal"}}

RequiredClass(decl) == decl.presence \notin {"optional", "optional-dormant"}

Insisted(decl) == RequiredClass(decl) /\ ~HasDefault(decl.substrate)

\* What LoadConfig refuses to start without, under any profile.
HardRequired(d) ==
    UNION {FieldsOf(decl) : decl \in {decl \in d.decls : Insisted(decl) /\ d.profiles \subseteq decl.profiles}}

RequiredFor(d, profile) ==
    UNION {FieldsOf(decl) : decl \in {decl \in d.decls : Insisted(decl) /\ profile \in decl.profiles}}
-----------------------------------------------------------------------------
(* The launcher's plan *)

Local(d) == {decl \in d.decls : "local" \in decl.profiles}
Provisionable == {"temporal", "postgres"}

PlanRefusals(d, sys) ==
    {"no listenAddr" : s \in {"listenAddr"} \ d.settings}
    \union {"no webDistDir" : s \in IF BuiltSurfaces(sys) # {} THEN {"webDistDir"} \ d.settings ELSE {}}

\* A mistake for the checks to find: only what every profile insists on is
\* asked for.
AskedEverywhere(d) ==
    LET started == {decl \in Local(d) : decl.substrate \in Provisionable}
    IN  [substrates |-> {decl.substrate : decl \in started},
         provisioned |-> UNION {FieldsOf(decl) : decl \in started},
         required |-> HardRequired(d) \ UNION {FieldsOf(decl) : decl \in started}]

LauncherPlan(d) ==
    LET started == {decl \in Local(d) : decl.substrate \in Provisionable}
    IN  [substrates |-> {decl.substrate : decl \in started},
         provisioned |-> UNION {FieldsOf(decl) : decl \in started},
         required |-> RequiredFor(d, "local") \ UNION {FieldsOf(decl) : decl \in started}]
=============================================================================
