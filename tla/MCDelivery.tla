------------------------------ MODULE MCDelivery ------------------------------
(***************************************************************************)
(* Two applications and a launcher interrupted once or twice.  Shop has no *)
(* deployment of its own: an Engine and a Manager whose packages share a   *)
(* leaf, a Utility, an access to Postgres and one to an external endpoint, *)
(* and three clients, one of them yet to be built.  Sync has one: values   *)
(* that differ between cloud and local, one that is dormant, constructors  *)
(* written by hand, hooks, a setting and a registrar.                      *)
(***************************************************************************)
EXTENDS Delivery

Plain(comp) == [name |-> comp, comp |-> comp, type |-> "", import |-> <<>>]
Typed(name, type, import) == [name |-> name, comp |-> "", type |-> type, import |-> import]

Contracted(layer, pkg, deps, infra, hand) ==
    [layer |-> layer, pkg |-> pkg, deps |-> deps, infra |-> infra, hand |-> hand, stub |-> FALSE]

Box(layer, key) == [layer |-> layer, kind |-> layer, key |-> key, ui |-> "", protocol |-> "", status |-> "built"]
ClientBox(ui, protocol, status) ==
    [layer |-> "client", kind |-> "client", key |-> "", ui |-> ui, protocol |-> protocol, status |-> status]

Knobs == [web |-> [given |-> FALSE, keys |-> {}], exposed |-> [given |-> FALSE, keys |-> {}],
          managers |-> [given |-> FALSE, keys |-> {}],
          hooked |-> <<>>, imports |-> <<>>, noError |-> {}, registrar |-> ""]

Nowhere == [containers |-> {}, profiles |-> {}, decls |-> {}, bindings |-> {}, settings |-> {}]

Shop ==
    [cs |-> [ordersManager |-> Contracted("manager", <<"manager", "orders">>,
                                          <<Plain("pricing"), Plain("storeAccess"), Plain("clock"),
                                            Typed("tc", "client.Client", Outside("client"))>>, {}, {}),
             pricing       |-> Contracted("engine", <<"engine", "orders">>, <<>>, {}, {}),
             storeAccess   |-> Contracted("resourceAccess", <<"resourceaccess", "store">>, <<>>, {"Postgres"}, {}),
             paymentAccess |-> Contracted("resourceAccess", <<"resourceaccess", "payment">>, <<>>, {"ExternalHTTP"}, {}),
             clock         |-> Contracted("utility", <<"utility", "store">>, <<>>, {}, {})],
     sys |-> [comps |-> [box |-> Box("manager", "ordersManager"),
                         page |-> ClientBox("browser", "", "built"),
                         agent |-> ClientBox("", "mcp", "built"),
                         later |-> ClientBox("", "mcp", "planned")],
              rels |-> {<<"page", "box">>, <<"agent", "box">>, <<"later", "box">>}],
     authored |-> Nowhere, knobs |-> Knobs]

Both == {"cloud", "local"}
Declared(key, substrate, profiles, presence) ==
    [key |-> key, substrate |-> substrate, profiles |-> profiles, presence |-> presence]
Arm(variant, infra) == [variant |-> variant, infra |-> infra]
Bind(comp, presence, per) == [comp |-> comp, presence |-> presence, per |-> per, settings |-> {}]

Sync ==
    [cs |-> [syncManager  |-> Contracted("manager", <<"manager", "syncing">>,
                                         <<Plain("scmAccess"), Plain("eventsAccess"), Plain("messageBus"),
                                           Typed("region", "string", <<>>),
                                           Typed("repo", "func() scm.RepoRef", <<"resourceaccess", "scm">>)>>, {}, {}),
             scmAccess    |-> Contracted("resourceAccess", <<"resourceaccess", "scm">>, <<>>, {"GitHubActions"},
                                         {Call("Recording", <<"string">>, FALSE), Call("InMemory", <<>>, FALSE)}),
             eventsAccess |-> Contracted("resourceAccess", <<"resourceaccess", "events">>, <<>>, {"Postgres"}, {}),
             messageBus   |-> Contracted("utility", <<"utility", "bus">>, <<>>, {"Temporal"}, {})],
     sys |-> [comps |-> [syncManager |-> Box("manager", ""), page |-> ClientBox("browser", "", "built")],
              rels |-> {<<"page", "syncManager">>}],
     authored |->
        [containers |-> {"app"}, profiles |-> Both \union {"demo"},
         settings |-> {"listenAddr", "shutdownTimeout", "webDistDir", "region"},
         decls |-> {Declared("temporal", "temporal", Both \union {"demo"}, "required"),
                    Declared("otel", "otel", Both, "optional"),
                    Declared("github", "github-app", {"cloud"}, "required"),
                    Declared("recorder", "external-http", {"local"}, "required"),
                    Declared("postgres", "postgres", {"cloud"}, "optional-dormant")},
         bindings |-> {Bind("scmAccess", "required", [cloud |-> Arm("GitHubActions", <<"github">>),
                                                local |-> Arm("Recording", <<"recorder">>),
                                                demo  |-> Arm("InMemory", <<>>)]),
                       Bind("eventsAccess", "optional-dormant", [cloud |-> Arm("Postgres", <<"postgres">>)]),
                       Bind("messageBus", "required", [p \in Both \union {"demo"} |-> Arm("Temporal", <<"temporal">>)])}],
     knobs |->
        [Knobs EXCEPT !.registrar = "messageBus",
           !.noError = {<<"scmAccess", "Recording">>, <<"messageBus", "Temporal">>},
           !.hooked = (<<"scmAccess", "GitHubActions">> :> InfraParams["GitHubActions"].args)
                      @@ (<<"scmAccess", "Recording">> :> <<"string">>)
                      @@ (<<"messageBus", "Temporal">> :> <<"table">>),
           !.imports = (<<"scmAccess", "GitHubActions">> :> {<<"resourceaccess", "scm">>})
                       @@ (<<"scmAccess", "Recording">> :> {})
                       @@ (<<"messageBus", "Temporal">> :> {Outside("tables")})]]

MCProjects == {Shop, Sync}

\* An Engine that takes a ResourceAccess, as the layers allow.
Ledger ==
    [cs |-> [postingManager |-> Contracted("manager", <<"manager", "posting">>,
                                           <<Plain("ratesEngine"), Plain("quotesAccess")>>, {}, {}),
             ratesEngine    |-> Contracted("engine", <<"engine", "rates">>, <<Plain("quotesAccess")>>, {}, {}),
             quotesAccess   |-> Contracted("resourceAccess", <<"resourceaccess", "quotes">>, <<>>, {"Postgres"}, {})],
     sys |-> [comps |-> [postingManager |-> Box("manager", ""), page |-> ClientBox("browser", "", "built")],
              rels |-> {<<"page", "postingManager">>}],
     authored |-> Nowhere, knobs |-> Knobs]

MCLedger == {Ledger}

ASSUME Legal == /\ \A p \in MCProjects \union MCLedger : ModelLegal(p.cs, p.sys, p.authored)
                /\ AuthoredLocally
                /\ \A p \in MCProjects : WellMade(p) /\ WellSurfaced(p)
=============================================================================
