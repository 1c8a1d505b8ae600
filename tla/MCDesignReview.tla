--------------------------- MODULE MCDesignReview ---------------------------
(***************************************************************************)
(* An accepted design for TLC to edit: a browser and a scheduler, two      *)
(* Managers, an Engine, a ResourceAccess with its database, a log; three   *)
(* use cases, one for each trigger; two deployments, one from the web-app  *)
(* prototype of deployment_baseline.go; and the diagrams of five nodes.    *)
(* A project with test plans: a browser and an agent add to a list, or     *)
(* share it, through one Manager, a facet of which does the sharing.       *)
(***************************************************************************)
EXTENDS DesignReview

Comp(name, k, ui, protocol) ==
    [name |-> name, stereotype |-> "", kind |-> k, layer |-> k, status |-> "",
     ui |-> ui, protocol |-> protocol, encap |-> TRUE, verbs |-> 4]

MCComps == [
    web   |-> Comp("web", "client", "browser", ""),
    sched |-> Comp("sched", "client", "machine", "mcp"),
    m1    |-> [Comp("m1", "manager", "", "") EXCEPT !.stereotype = "manager"],
    m2    |-> Comp("m2", "manager", "", ""),
    e1    |-> Comp("e1", "engine", "", ""),
    ra    |-> Comp("ra", "resourceAccess", "", ""),
    db    |-> Comp("db", "resource", "", ""),
    log   |-> Comp("log", "utility", "", "")]

Call(a, b, mode) == [from |-> a, to |-> b, mode |-> mode, op |-> TRUE]
Sync(a, b) == Call(a, b, "sync")

Rel(a, b, mode) == [from |-> a, to |-> b, mode |-> mode, label |-> "", ambient |-> b = "log"]

MCRels == {Rel("web", "m1", "sync"), Rel("sched", "m2", "sync"), Rel("m1", "m2", "queued"),
           Rel("m1", "e1", "sync"), Rel("m2", "ra", "sync"),
           Rel("e1", "ra", "sync"), Rel("ra", "db", "sync"), Rel("m1", "log", "sync")}

Step(n, calls) == [node |-> n, calls |-> calls]

MCViews == <<
    [key |-> "v1", uc |-> "edit", steps |-> <<
        Step(2, <<Sync("user", "web"), Sync("web", "m1"), Sync("m1", "e1")>>),
        Step(4, <<Sync("e1", "ra"), Sync("ra", "db"), Call("m1", "m2", "queued")>>)>>],
    [key |-> "v2", uc |-> "sweep", steps |-> <<
        Step(1, <<Sync("sched", "m2")>>), Step(2, <<Sync("m2", "ra"), Sync("ra", "db")>>)>>],
    [key |-> "v3", uc |-> "settle", steps |-> <<
        Step(1, <<Call("m1", "m2", "queued")>>), Step(2, <<Sync("m2", "ra")>>),
        Step(3, <<Call("m2", "m1", "queued")>>)>>]>>

F(u, v, x) == [from |-> u, to |-> v, guard |-> x]
Plain(kinds, flows) ==
    [kind |-> kinds, edges |-> flows, lane |-> [n \in DOMAIN kinds |-> ""], decider |-> [n \in DOMAIN kinds |-> ""]]

MCUseCases == [
    edit |-> [core |-> TRUE, trigger |-> "clientAction", actors |-> {"user"}, variationOf |-> "", reason |-> FALSE,
              g |-> [Plain(<<"start", "action", "decision", "action", "end">>,
                           <<F(1, 2, ""), F(2, 3, ""), F(3, 4, "yes"), F(3, 5, "no"), F(4, 5, "")>>)
                     EXCEPT !.lane[2] = "user", !.decider[3] = "m1"]],
    sweep |-> [core |-> TRUE, trigger |-> "timer", actors |-> {}, variationOf |-> "", reason |-> FALSE,
               g |-> Plain(<<"timeEvent", "action", "end">>, <<F(1, 2, ""), F(2, 3, "")>>)],
    settle |-> [core |-> FALSE, trigger |-> "busMessage", actors |-> {}, variationOf |-> "sweep", reason |-> TRUE,
                g |-> Plain(<<"acceptEvent", "action", "acceptEvent", "end">>,
                            <<F(1, 2, ""), F(2, 3, ""), F(3, 4, "")>>)]]

MCSystem == [comps |-> MCComps, rels |-> MCRels \union {Rel("m2", "m1", "queued")}, views |-> MCViews]

MCCalls == {Sync("web", "m1"), Call("m1", "m2", "queued"), Sync("e1", "ra"), Sync("web", "e1")}

Element(key, k, container, name, role) ==
    [key |-> key, kind |-> k, container |-> container, name |-> name, role |-> role]
Link(a, b) == [from |-> a, to |-> b]

\* baselineFrontDoorRelationships, with the person's edge that it leaves out.
MCFrontDoor == {Link("user", "ciSpa"), Link("ciSpa", "gw"), Link("harness", "gw"), Link("gw", "idp"), Link("gw", "ciApp")}

\* WebAppBaseline, with the database and the two containers of the design.
MCCloud(profile) == [profile |-> profile, rels |-> MCFrontDoor, elements |-> <<
    Element("user", "person", "", "User", ""),
    Element("browser", "node", "", "Web browser", ""),
    Element("ciSpa", "containerInstance", "spa", "", ""),
    Element("harness", "softwareSystemInstance", "", "Agent harness", "agentHarness"),
    Element("gw", "infrastructureNode", "", "Edge gateway", "gateway"),
    Element("idp", "infrastructureNode", "", "Identity provider", "identityProvider"),
    Element("ciApp", "containerInstance", "app", "", ""),
    Element("pg", "infrastructureNode", "", "db", "other")>>]

MCTest == [profile |-> "test", rels |-> {Link("cli", "all")}, elements |-> <<
    Element("cli", "softwareSystemInstance", "", "tester", "agentHarness"),
    Element("all", "containerInstance", "app", "", ""),
    Element("spa", "containerInstance", "spa", "", ""),
    Element("pg", "infrastructureNode", "", "db", "other")>>]

Packed == <<[key |-> "spa", comps |-> {"web"}, surface |-> "spa"],
            [key |-> "app", comps |-> {"sched", "m1", "m2", "e1", "ra"}, surface |-> "service"]>>

MCTopologies == {
    [style |-> "cloud", containers |-> Packed, envs |-> <<MCCloud("cloud"), MCTest>>],
    [style |-> "both", containers |-> Packed, envs |-> <<MCCloud("cloud"), MCTest, MCCloud("local")>>]}

MCLinks == MCFrontDoor \union {Link("ciApp", "idp")}

MCFlows == <<F(1, 2, 0), F(2, 4, 1), F(2, 3, 2), F(2, 3, 0), F(3, 2, 0), F(3, 4, 0),
             F(5, 3, 0), F(3, 2, 1), F(5, 2, 0), F(1, 3, 0), F(4, 2, 0), F(3, 5, 0)>>

MCKindings == {<<"start", a, b, "end", "timeEvent">> :
                 a \in {"decision", "fork"}, b \in {"action", "decision", "fork"}}

-----------------------------------------------------------------------------
Name(words) == [words |-> words, form |-> "Exported"]
Lower(words) == [words |-> words, form |-> "lower"]
Piece(name, tail) == [name |-> name, tail |-> tail]
Label(alts) == [alts |-> alts, rest |-> <<>>]
One(name) == Label(<<<<Piece(name, "args")>>>>)
Either(a, b) == Label(<<<<Piece(a, "")>>, <<Piece(b, "")>>>>)
Prose == Label(<<<<Piece(Lower(<<"submits">>), "prose")>>>>)

Add == Name(<<"add">>)
Reword == Name(<<"reword">>)
Share == Name(<<"share">>)
Store == Name(<<"store">>)

Param(name, type) == [name |-> name, needed |-> TRUE, type |-> type]
Op(name, params, result) == [name |-> name, params |-> params, fails |-> FALSE, result |-> result]
Simple(name) == Op(name, {}, "void")
Contract(key, of, client, base, ops) ==
    [key |-> key, of |-> of, client |-> client, manager |-> key \in {"list", "sharing"}, base |-> base, ops |-> ops]

MCContracts == <<
    Contract("agent", "", TRUE, <<>>, <<Simple(Name(<<"list", "add">>)), Simple(Name(<<"sharing", "share">>))>>),
    Contract("list", "", FALSE, <<"list">>, <<Op(Add, {Param("title", "string")}, "string"), Simple(Reword)>>),
    Contract("page", "", TRUE, <<>>, <<Simple(Add), Simple(Reword)>>),
    Contract("sharing", "list", FALSE, <<"sharing">>, <<Simple(Share)>>),
    Contract("store", "", FALSE, <<>>, <<Simple(Store)>>)>>

Asks(a, b, label) == [from |-> a, to |-> b, label |-> label, alt |-> ""]
Alternatively(a, b, label) == [Asks(a, b, label) EXCEPT !.alt = "either"]

MCPlanned == <<
    [g |-> [kind |-> <<"start", "action", "decision", "action", "objectNode", "end">>,
            edges |-> <<F(1, 2, 0), F(2, 3, 0), F(3, 4, 1), F(3, 6, 2), F(4, 5, 0), F(5, 6, 0)>>,
            actor |-> <<"", "user", "", "", "", "">>, decider |-> <<"", "", "user", "", "", "">>,
            lane |-> <<"", "", "page", "", "", "">>],
     calls |-> <<<<>>,
        <<Asks("user", "page", Either(Add, Reword)), Asks("user", "agent", Prose),
          Alternatively("page", "list", Either(Add, Reword)), Alternatively("agent", "list", One(Lower(<<"add">>)))>>,
        <<>>, <<Asks("list", "store", One(Store))>>, <<>>, <<>>>>],
    [g |-> [kind |-> <<"timeEvent", "action", "end">>, edges |-> <<F(1, 2, 0), F(2, 3, 0)>>,
            actor |-> <<"", "", "">>, decider |-> <<"", "", "">>, lane |-> <<"", "", "">>],
     calls |-> <<<<Asks("clock", "agent", Either(Share, Name(<<"list", "add">>)))>>,
                 <<Asks("agent", "list", One(Share)), Asks("store", "clock", Prose)>>, <<>>>>]>>

Facing(browser, client) == [browser |-> browser, client |-> client, built |-> TRUE]

Unplanned == [contracts |-> MCContracts, actors |-> {"user"}, useCases |-> MCPlanned,
              comps |-> [page |-> Facing(TRUE, TRUE), agent |-> Facing(FALSE, TRUE), list |-> Facing(FALSE, FALSE)],
              plan |-> [key \in {"agent", "list", "page", "sharing", "store"} |-> <<>>], rows |-> <<>>,
              probe |-> [comp |-> "list", op |-> Reword]]

MCProject == [Unplanned EXCEPT !.plan = Plans!Planned(Unplanned)]

MCLabels == {Either(Add, Reword), Either(Add, Share), Either(Reword, Name(<<"missing">>)), Prose}
MCOps == {Simple(Share), Simple(Name(<<"list", "reword">>))}

\* The design it starts from passes every rule, and so does each deployment of it.
ASSUME /\ StaticAccepted(MCSystem) /\ ViewsAccepted(MCSystem, MCUseCases)
       /\ UseCasesAccepted(MCUseCases) /\ CallChainsAccepted(MCSystem, MCUseCases)
       /\ \A x \in MCTopologies : DeploymentAccepted(MCSystem, x)
       /\ Plans!TestPlansAccepted(MCProject)
=============================================================================
