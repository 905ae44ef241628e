---------------------------- MODULE ConsolePages ----------------------------
(***************************************************************************)
(* The pages of the web console, each over its own rows: a behaviour is    *)
(* one page's, chosen at the start.  A page's constants come in a record.  *)
(***************************************************************************)
EXTENDS Console

CONSTANTS ComputeOf, NewPodOf, NewEndpointOf, EndpointsOf, TabsOf, HistoryOf, BenchmarksOf, BenchLogOf,
          NewBenchOf, BenchRunOf,       \* the form of a benchmark: its fields and texts, and what is around them
          SessionOf, UsersOf, RolesOf, ProvidersOf

VARIABLE page

Compute == INSTANCE ComputePages WITH
  Rows <- ComputeOf.rows, Mine <- ComputeOf.mine, KindOf <- ComputeOf.kindOf, Filters <- ComputeOf.filters,
  MaxCalls <- ComputeOf.calls, MaxPolls <- ComputeOf.polls

NewPod == INSTANCE NewPodForm WITH
  Providers <- NewPodOf.providers, ProviderKind <- NewPodOf.providerKind, Gpus <- NewPodOf.gpus,
  AllImages <- NewPodOf.images, FallbackImages <- NewPodOf.fallback, InStock <- NewPodOf.inStock,
  Curated <- NewPodOf.curated, Found <- NewPodOf.found, Sizes <- NewPodOf.sizes, Size1 <- NewPodOf.size1,
  MaxEdits <- NewPodOf.edits

NewEndpoint == INSTANCE InferenceForm WITH
  Gpus <- NewEndpointOf.gpus, Counts <- NewEndpointOf.counts, Tiers <- NewEndpointOf.tiers,
  Providers <- NewEndpointOf.providers, Gpu1 <- NewEndpointOf.gpu1, Count1 <- NewEndpointOf.count1,
  Tier1 <- NewEndpointOf.tier1, MaxEdits <- NewEndpointOf.edits

Endpoints == INSTANCE EndpointPages WITH
  Apps <- EndpointsOf.apps, Mine <- EndpointsOf.mine, Scales <- EndpointsOf.scales, Args <- EndpointsOf.args,
  Bad <- EndpointsOf.bad, Filters <- EndpointsOf.filters, MaxCalls <- EndpointsOf.calls, Visited <- EndpointsOf.visited

Views == INSTANCE EndpointTabs WITH
  Jobs <- TabsOf.jobs, Pods <- TabsOf.pods, MaxPolls <- TabsOf.polls, MaxChanges <- TabsOf.changes, MaxTurns <- TabsOf.turns

History == INSTANCE RequestHistory WITH
  Reqs <- HistoryOf.reqs, Absent <- HistoryOf.absent, Outcomes <- HistoryOf.outcomes, MaxHistory <- HistoryOf.history,
  MaxEdits <- HistoryOf.edits, MaxFailures <- HistoryOf.failures, MaxCalls <- HistoryOf.calls

Benchmarks == INSTANCE BenchmarkPages WITH
  Benches <- BenchmarksOf.benches, Mine <- BenchmarksOf.mine, Filters <- BenchmarksOf.filters,
  Visited <- BenchmarksOf.visited, MaxCalls <- BenchmarksOf.calls, MaxPolls <- BenchmarksOf.polls

BenchLog == INSTANCE BenchmarkLog WITH MaxLines <- BenchLogOf.lines, MaxOpens <- BenchLogOf.opens

\* A form for the pages of a benchmark that is made anew, and one for the other.
BenchForm(of) == INSTANCE BenchmarkForm WITH
  Gpus <- of.gpus, Images <- of.images, Presets <- of.presets, Plains <- of.plains, Keys <- of.keys, Nums <- of.nums,
  Dtypes <- of.dtypes, Extras <- of.extras, Lens <- of.lens, Concs <- of.concs, Defaults <- of.defaults, Vms <- of.vms,
  Accounts <- of.accounts, Templates <- of.templates, Texts <- of.texts, MaxEdits <- of.edits

Session == INSTANCE Sessions WITH
  Tabs <- SessionOf.tabs, Users <- SessionOf.users, Passwords <- SessionOf.passwords, Random <- SessionOf.random,
  Visited <- SessionOf.visited, MaxSessions <- SessionOf.sessions, MaxFlows <- SessionOf.flows, MaxEvents <- SessionOf.events

\* The users and the page of one; the roles.
Organized(of) == INSTANCE Organization WITH
  Self <- of.self, Users <- of.users, Ids <- of.ids, System <- of.system, FullAccess <- of.full, Names <- of.names,
  Slug <- of.slug, Sections <- of.sections, Visited <- of.visited, MaxEvents <- of.events

Providers == INSTANCE ProviderPages WITH
  Kinds <- ProvidersOf.kinds, Ids <- ProvidersOf.ids, Hosts <- ProvidersOf.hosts, Keys <- ProvidersOf.keys,
  MaxEvents <- ProvidersOf.events

\* None is a value of its own; what the constants stand for fits together.
ASSUME ConsoleAssumption == /\ None \notin BOOLEAN /\ NewPod!ConstantsOK /\ Benchmarks!ConstantsOK
                            /\ BenchForm(NewBenchOf)!ConstantsOK /\ BenchForm(BenchRunOf)!ConstantsOK
                            /\ BenchLog!ConstantsOK /\ NewEndpoint!ConstantsOK /\ Views!ConstantsOK /\ History!ConstantsOK
                            /\ Session!ConstantsOK /\ Providers!ConstantsOK
                            /\ Organized(UsersOf)!ConstantsOK /\ Organized(RolesOf)!ConstantsOK

-----------------------------------------------------------------------------
Init == \/ page = "compute" /\ Compute!Init
        \/ page = "newpod" /\ NewPod!Init
        \/ page = "newendpoint" /\ NewEndpoint!Init
        \/ page = "endpoints" /\ Endpoints!Init
        \/ page = "tabs" /\ Views!Init
        \/ page = "history" /\ History!Init
        \/ page = "benchmarks" /\ Benchmarks!Init
        \/ page = "benchlog" /\ BenchLog!Init
        \/ page = "newbench" /\ BenchForm(NewBenchOf)!Init
        \/ page = "benchrun" /\ BenchForm(BenchRunOf)!Init
        \/ page = "session" /\ Session!Init
        \/ page = "users" /\ Organized(UsersOf)!Init
        \/ page = "roles" /\ Organized(RolesOf)!Init
        \/ page = "providers" /\ Providers!Init

Next == /\ \/ page = "compute" /\ Compute!Next
           \/ page = "newpod" /\ NewPod!Next
           \/ page = "newendpoint" /\ NewEndpoint!Next
           \/ page = "endpoints" /\ Endpoints!Next
           \/ page = "tabs" /\ Views!Next
           \/ page = "history" /\ History!Next
           \/ page = "benchmarks" /\ Benchmarks!Next
           \/ page = "benchlog" /\ BenchLog!Next
           \/ page = "newbench" /\ BenchForm(NewBenchOf)!Next
           \/ page = "benchrun" /\ BenchForm(BenchRunOf)!Next
           \/ page = "session" /\ Session!Next
           \/ page = "users" /\ Organized(UsersOf)!Next
           \/ page = "roles" /\ Organized(RolesOf)!Next
           \/ page = "providers" /\ Providers!Next
        /\ UNCHANGED page

all == <<page, vars>>
\* One page's condition each: the others' are disabled for good.
Fairly(compute, tabs, history, benchmarks) == /\ \/ page = "compute" /\ compute
                                                 \/ page = "tabs" /\ tabs
                                                 \/ page = "history" /\ history
                                                 \/ page = "benchmarks" /\ benchmarks
                                              /\ UNCHANGED page
Fairness == /\ WF_all(Fairly(Compute!Ticks, Views!Ticks, History!Ticks, Benchmarks!Ticks))
            /\ SF_all(Fairly(Compute!Answers, Views!Answers, History!Answers, Benchmarks!Answers))
            /\ WF_all(Fairly(Compute!Replies, Views!Replies, History!Replies, Benchmarks!Replies))
            /\ WF_all(Fairly(FALSE, Views!OtherReplies, History!Render, FALSE))
            /\ WF_all(page = "benchlog" /\ BenchLog!Streams /\ UNCHANGED page)
Spec == Init /\ [][Next]_all /\ Fairness

-----------------------------------------------------------------------------
TypeOK == /\ page = "compute" => Compute!TypeOK
          /\ page = "newpod" => NewPod!TypeOK
          /\ page = "newendpoint" => NewEndpoint!TypeOK
          /\ page = "endpoints" => Endpoints!TypeOK
          /\ page = "tabs" => Views!TypeOK
          /\ page = "history" => History!TypeOK
          /\ page = "benchmarks" => Benchmarks!TypeOK
          /\ page = "benchlog" => BenchLog!TypeOK
          /\ page = "newbench" => BenchForm(NewBenchOf)!TypeOK
          /\ page = "benchrun" => BenchForm(BenchRunOf)!TypeOK
          /\ page = "session" => Session!TypeOK
          /\ page = "users" => Organized(UsersOf)!TypeOK
          /\ page = "roles" => Organized(RolesOf)!TypeOK
          /\ page = "providers" => Providers!TypeOK
\* Stock, prices, log lines, roles and results on screen are of what they
\* stand next to, cookies of the session they came with, stored keys and
\* attached roles of what there is; everything else holds values of its kind.
ScreensAreFaithful == /\ TypeOK
                      /\ page = "newpod" => NewPod!StockIsOfTheChoice
                      /\ page = "newendpoint" => NewEndpoint!StockIsOfTheChoice
                      /\ page = "newbench" => BenchForm(NewBenchOf)!StockIsOfTheChoice
                      /\ page = "benchrun" => BenchForm(BenchRunOf)!StockIsOfTheChoice
                      /\ page = "benchlog" => BenchLog!LogIsAPrefix
                      /\ page = "session" => Session!CookiesAgree /\ Session!FlowsLandWhereAsked
                      /\ page = "users" => Organized(UsersOf)!AttachedRolesExist
                      /\ page = "roles" => Organized(RolesOf)!RolesAsStored /\ Organized(RolesOf)!AttachedRolesExist
                      /\ page = "providers" => Providers!ResultsAreKept /\ Providers!TestedAccountsOpen
\* What the forms send is something the chosen provider or machine can take.
RequestsFitTheProvider == /\ page = "newpod" => NewPod!RequestsFitTheProvider
                          /\ page = "newbench" => BenchForm(NewBenchOf)!RequestsFitTheProvider
                          /\ page = "benchrun" => BenchForm(BenchRunOf)!RequestsFitTheProvider
                          /\ page = "providers" => Providers!RequestsFitTheProvider
\* No request drops off the approvals page before someone has decided it.
UndecidedStayListed == [][page = "compute" => Compute!UndecidedStays]_all
\* A bulk delete that ends without complaint has deleted all that was selected.
BulkEndsWithAllDeleted == [][/\ page = "compute" => Compute!BulkEndsWell
                             /\ page = "endpoints" => Endpoints!BulkEndsWell
                             /\ page = "benchmarks" => Benchmarks!BulkEndsWell]_all
\* No refresh and no change of view throws away what was typed.
EditsSurvive == [][/\ page = "endpoints" => Endpoints!EditsStay
                   /\ page = "newbench" => BenchForm(NewBenchOf)!YamlStays
                   /\ page = "benchrun" => BenchForm(BenchRunOf)!YamlStays]_all
\* Pods, benchmarks, tabs and logs on screen catch up with what has become of
\* them.  Of the conditions of the pages one holds at a time: one "leads to".
Lagging == Compute!Lagging \/ Benchmarks!Lagging \/ Views!Behind \/ BenchLog!Tailing
PagesSettle == Lagging ~> ~Lagging
\* Every request in the history shows how it ended, in the end.
TrackedRequestsSettle == History!TrackedRequestsSettle
=============================================================================
