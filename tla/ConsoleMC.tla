----------------------------- MODULE ConsoleMC ------------------------------
(* The pages of the console over small sets of rows. *)
EXTENDS Console, ConsolePages, TLC

CONSTANTS r1, r2,                       \* compute pods
          a1, a2, s1, s2, bad, x1,      \* endpoints and their settings
          runpod1, pi1,                 \* accounts
          g1, g2, h1, h2, n1, n2,       \* GPUs of RunPod and of Prime Intellect, counts
          i1, i2, t1, f1,               \* images, a template shown, one found
          j1, p1, q1, q2,               \* a request and a pod of an endpoint; request ids
          b1, b2,                       \* benchmarks
          m1, l1, l2, c1, k1, flag, odd, w1, w2, v1,   \* what a benchmark is made of, and its templates
          tab1, tab2, u0, u1, pw,       \* tabs, users, a password
          full, own, sc                 \* a built-in role, another; a section

Of(ids, first) == [ids |-> ids, first |-> first]
AnyStatus == {[match |-> {r1, r2}, kind |-> k] : k \in {"all", "pi"}}

MCCompute == [rows |-> {r1, r2}, mine |-> {r1}, kindOf |-> r1 :> "pi" @@ r2 :> "runpod", filters |-> AnyStatus,
              calls |-> 2, polls |-> 2]
MCNewPod == [providers |-> {pi1}, providerKind |-> pi1 :> "pi",
             gpus |-> [runpod |-> [builtin |-> Of({g1}, g1), live |-> Of({g1, g2}, g1)],
                       pi |-> [builtin |-> Of({h1}, h1), live |-> Of({h2}, h2)]],
             images |-> Of({i1, i2}, i1), fallback |-> Of({i1}, i1),
             inStock |-> h1 :> Of({i2}, i2) @@ h2 :> Of({}, i1), curated |-> Of({t1}, t1), found |-> {f1},
             sizes |-> {n1, n2}, size1 |-> n1, edits |-> 2]
MCNewEndpoint == [gpus |-> {g1, g2}, counts |-> {n1, n2}, tiers |-> {t1}, providers |-> {runpod1},
                  gpu1 |-> g1, count1 |-> n1, tier1 |-> t1, edits |-> 3]
MCEndpoints == [apps |-> {a1, a2}, mine |-> {a1}, scales |-> {s1, s2}, args |-> {x1}, bad |-> bad, filters |-> {{a1}},
                calls |-> 2, visited |-> {a1}]
MCTabs == [jobs |-> {j1}, pods |-> {p1}, polls |-> 2, changes |-> 2, turns |-> 2]
MCHistory == [reqs |-> {q1, q2}, absent |-> {q2}, outcomes |-> {"completed"}, history |-> 2, edits |-> 3,
              failures |-> 1, calls |-> 2]
MCBenchmarks == [benches |-> {b1, b2}, mine |-> {b1}, filters |-> {{b1}}, visited |-> {b1}, calls |-> 2, polls |-> 2]
MCBenchLog == [lines |-> 2, opens |-> 3]

\* The form of a benchmark twice: what its fields and texts say, and the
\* machines, templates and calls around them.
Fields == [gpu |-> g1, image |-> i1, plain |-> v1, args |-> k1 :> None, dtype |-> "auto", extra |-> flag :> "true",
           sweep |-> FALSE, len |-> l1, conc |-> c1, lens |-> {l1, l2}, concs |-> {c1}]
Full == [parses |-> TRUE, plain |-> w1, foreign |-> {"told"}, rent |-> [gpu |-> g2, image |-> i2],
         serve |-> k1 :> n2 @@ "dtype" :> "half", runs |-> {l1, l2} \X {c1}, percentiles |-> FALSE]
Scant == [parses |-> TRUE, plain |-> v1, foreign |-> {}, rent |-> None,
          serve |-> flag :> "false" @@ k1 :> odd, runs |-> {<<l2, c1>>}, percentiles |-> FALSE]
MCNewBench == [gpus |-> {g1, g2}, images |-> {i1, i2}, presets |-> {i1}, plains |-> {v1, w1}, keys |-> {k1},
               nums |-> {n1, n2}, dtypes |-> {"auto", "half"},
               extras |-> {<<>>, flag :> "true", k1 :> n1, "dtype" :> odd},
               lens |-> {l1, l2}, concs |-> {c1}, defaults |-> Fields, vms |-> {}, accounts |-> {}, templates |-> {},
               texts |-> {Full, Scant}, edits |-> 1]
MCBenchRun == [gpus |-> {g1}, images |-> {i1}, presets |-> {i1}, plains |-> {v1}, keys |-> {k1}, nums |-> {n1},
               dtypes |-> {"auto"}, extras |-> {<<>>}, lens |-> {l1}, concs |-> {c1},
               defaults |-> [Fields EXCEPT !.lens = {l1}], vms |-> {m1}, accounts |-> {runpod1}, templates |-> {w1, w2},
               texts |-> {[Scant EXCEPT !.serve = k1 :> n1, !.runs = {<<l1, c1>>}]}, edits |-> 1]

MCSession == [tabs |-> {tab1, tab2}, users |-> {u1}, passwords |-> {pw}, random |-> odd,
              visited |-> {"login", "register", "settings", "keys", "home"}, sessions |-> 2, flows |-> 2, events |-> 3]
Directory(users, visited, events) ==
  [self |-> u0, users |-> users, ids |-> {full, own}, system |-> {full}, full |-> full, names |-> {n1, n2},
   slug |-> n1 :> own @@ n2 :> None, sections |-> {sc}, visited |-> {visited}, events |-> events]
MCUsers == Directory({u0, u1}, "organization", 3)
MCRoles == Directory({u0}, "roles", 4)
MCProviders == [kinds |-> {"vm", "pi"}, ids |-> {p1}, hosts |-> {m1}, keys |-> {k1}, events |-> 5]

-----------------------------------------------------------------------------
\* The list starts with a pod waiting for approval and one running, the
\* approvals page with two waiting; the endpoints start with equal settings,
\* the organization with a plain user and a role of its own.
Rest == r1 :> "pending_approval" @@ r2 :> IF ui.route = "approvals" THEN "pending_approval" ELSE "running"
Starting == /\ page = "compute" => gw = Rest
            /\ page = "endpoints" => \A a \in {a1, a2} : gw[a] = [scale |-> s1, args |-> x1]
            /\ page = "benchmarks" => gw = (b1 :> "queued" @@ b2 :> "done")
            /\ page = "benchrun" => DOMAIN gw = {w1} /\ ui.vm \in {None, m1}
            /\ page = "session" => ui.tabs[tab1].next = "app" /\ ui.tabs[tab2].next = "keys"
            /\ page \in {"users", "roles"} =>
                 /\ gw.roles = full :> [name |-> n2, sections |-> {sc}] @@ own :> [name |-> n1, sections |-> {sc}]
                 /\ \A u \in DOMAIN gw.users : gw.users[u] = [tier |-> IF u = u0 THEN "admin" ELSE "user", policy |-> None]
InitMC == Init /\ Starting
SpecMC == InitMC /\ [][Next]_all /\ Fairness
=============================================================================
