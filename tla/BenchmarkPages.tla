--------------------------- MODULE BenchmarkPages ---------------------------
(***************************************************************************)
(* The benchmark pages of the console: the list with its filters,          *)
(* selection and bulk deletion (benchmark-list.tsx, benchmark-row.tsx) and *)
(* the page of one benchmark (benchmark-detail.tsx), which polls while the *)
(* run is on its way and can terminate or delete it.  Its log is           *)
(* BenchmarkLog's.  A deleted benchmark is gone: the gateway has no row.   *)
(***************************************************************************)
EXTENDS Console, Integers, FiniteSets

CONSTANTS Benches,  \* benchmarks
          Mine,     \* those the user created
          Filters,  \* sets of benchmarks text and status may match
          Visited,  \* those whose page is opened
          MaxCalls, MaxPolls   \* bounds: calls that change something, and polls, on their way

ConstantsOK == Visited \subseteq Benches /\ Filters \subseteq SUBSET Benches

Finished == {"done", "failed", "cancelled"}
InFlight(st) == st \in {"queued", "running"}
Status == {"queued", "running", "gone"} \cup Finished
Scopes == {"mine", "all"}

Listing(scope) == {b \in Benches : gw[b] # "gone" /\ (scope = "all" \/ b \in Mine)}

ListPage(items, scope) ==
  [route |-> "benches", scope |-> scope, items |-> items, filter |-> Benches,
   select |-> FALSE, selected |-> {}, confirm |-> FALSE, single |-> None]
Page(b) == [route |-> "bench", bench |-> b, shown |-> gw[b], dialog |-> None]

Init == /\ gw \in [Benches -> Status]
        /\ ui = ListPage(Listing("mine"), "mine")
        /\ net = {}

-----------------------------------------------------------------------------
(* Navigation, as on the pages of ComputePages: of the calls of a page that is *)
(* left, only a deletion that goes on to the list has an effect left.          *)

Left == Orphans({c \in net : c.op = "erase"})
Send(calls) == Cardinality({c \in net : c.op # "poll"} \cup calls) <= MaxCalls /\ net' = net \cup calls
Navigating == {"refresh", "goto"}
Refreshed(calls, scope) == {c \in calls : c.op \notin Navigating} \cup {Call("refresh", scope)}
Stay == UNCHANGED <<net, gw>>

NoDialog == IF ui.route = "benches" THEN ~ui.confirm /\ ui.single = None ELSE ui.dialog = None
OpenList == /\ ui.route = "bench" /\ NoDialog
            /\ \E items \in {Listing("mine"), {}} : ui' = ListPage(items, "mine")
            /\ net' = Left
            /\ UNCHANGED gw
OpenBench(b) == /\ ui.route = "benches" /\ ~ui.select /\ NoDialog /\ b \in ui.items \cap Visited
                /\ gw[b] # "gone"
                /\ ui' = Page(b)
                /\ net' = Left
                /\ UNCHANGED gw
ListArrives(c, items) ==
  /\ c \in net /\ c.op \in Navigating
  /\ IF ui.route # "benches" \/ items = {}
     THEN ui' = ListPage(items, c.arg) /\ net' = Left
     ELSE ui' = [ui EXCEPT !.items = items, !.scope = c.arg] /\ net' = net \ {c}
  /\ UNCHANGED gw
SwitchScope(s) == ui.route = "benches" /\ s # ui.scope /\ net' = Refreshed(net, s) /\ UNCHANGED <<ui, gw>>

-----------------------------------------------------------------------------
(* The list *)

OnList == ui.route = "benches" /\ ui.items # {}
Visible == ui.items \cap ui.filter
SetFilter(f) == OnList /\ NoDialog /\ ui' = [ui EXCEPT !.filter = f] /\ Stay
StartSelect == OnList /\ NoDialog /\ ~ui.select /\ ui' = [ui EXCEPT !.select = TRUE] /\ Stay
CancelSelect == /\ OnList /\ NoDialog /\ ui.select /\ ~Waiting("bulk")
                /\ ui' = [ui EXCEPT !.select = FALSE, !.selected = {}]
                /\ Stay
Toggle(b) == /\ OnList /\ NoDialog /\ ui.select /\ b \in Visible
             /\ ui' = [ui EXCEPT !.selected = (@ \cup {b}) \ (@ \cap {b})]
             /\ Stay
SelectVisible == /\ OnList /\ NoDialog /\ ui.select /\ Visible # {}
                 /\ \E s \in {Visible, {}} : ui' = [ui EXCEPT !.selected = s]
                 /\ Stay

AskBulk == /\ OnList /\ NoDialog /\ ui.selected # {} /\ ~Waiting("bulk")
           /\ ui' = [ui EXCEPT !.confirm = TRUE]
           /\ Stay
CloseBulk == OnList /\ ui.confirm /\ ~Waiting("bulk") /\ ui' = [ui EXCEPT !.confirm = FALSE] /\ Stay
DeleteSelected == /\ OnList /\ ui.confirm /\ ~Waiting("bulk")
                  /\ Send({Call("bulk", b) : b \in ui.selected})
                  /\ UNCHANGED <<ui, gw>>
\* Those deleted stay selected under an error: the next attempt cannot succeed.
BulkSettles == /\ OnList /\ Waiting("bulk") /\ \A c \in CallsOf("bulk") : c.at # "sent"
               /\ ui' = IF \E c \in CallsOf("bulk") : c.at = "failed" THEN ui
                        ELSE [ui EXCEPT !.confirm = FALSE, !.select = FALSE, !.selected = {}]
               /\ net' = Refreshed(net \ CallsOf("bulk"), ui.scope)
               /\ UNCHANGED gw

AskSingle(b) == OnList /\ NoDialog /\ ~ui.select /\ b \in Visible /\ ui' = [ui EXCEPT !.single = b] /\ Stay
CloseSingle == OnList /\ ui.single # None /\ ~Waiting("delete") /\ ui' = [ui EXCEPT !.single = None] /\ Stay
DeleteSingle == /\ OnList /\ ui.single # None /\ ~Waiting("delete")
                /\ Send({Call("delete", ui.single)})
                /\ UNCHANGED <<ui, gw>>
SingleSettles(c) == /\ Done(c, "delete")
                    /\ IF c.at = "ok"
                       THEN ui' = [ui EXCEPT !.single = None] /\ net' = Refreshed(net \ {c}, ui.scope)
                       ELSE ui' = ui /\ net' = net \ {c}
                    /\ UNCHANGED gw

-----------------------------------------------------------------------------
(* The page of one benchmark *)

OnBench == ui.route = "bench"
\* The interval runs while the status shown is on its way; replies that come
\* after it was cleared still count, and an older one may come last.
PollTick == /\ OnBench /\ InFlight(ui.shown) /\ Cardinality(CallsOf("poll")) < MaxPolls
            /\ net' = net \cup {Call("poll", ui.bench)}
            /\ UNCHANGED <<ui, gw>>
PollReply(c) == /\ Done(c, "poll")
                /\ ui' = IF c.at = "ok" THEN [ui EXCEPT !.shown = c.val] ELSE ui
                /\ net' = net \ {c}
                /\ UNCHANGED gw

\* Dialogs close at any time; their buttons wait for one transition together.
TransitionPending == Waiting("erase") \/ Waiting("terminate") \/ Waiting("fetch")
AskDelete == OnBench /\ NoDialog /\ ui' = [ui EXCEPT !.dialog = "delete"] /\ Stay
AskTerminate == OnBench /\ NoDialog /\ InFlight(ui.shown) /\ ui' = [ui EXCEPT !.dialog = "terminate"] /\ Stay
CloseDialog == OnBench /\ ~NoDialog /\ ui' = [ui EXCEPT !.dialog = None] /\ Stay
Delete == /\ OnBench /\ ui.dialog = "delete" /\ ~TransitionPending
          /\ Send({Call("erase", ui.bench)})
          /\ UNCHANGED <<ui, gw>>
\* Somebody who has left the page is taken to the list all the same.
DeleteSettles(c) == /\ c \in net /\ c.op = "erase" /\ c.at # "sent"
                    /\ net' = IF c.at = "ok" THEN {d \in net \ {c} : d.op \notin Navigating} \cup {Call("goto", "mine")}
                                             ELSE net \ {c}
                    /\ UNCHANGED <<ui, gw>>
Terminate == /\ OnBench /\ ui.dialog = "terminate" /\ ~TransitionPending
             /\ Send({Call("terminate", ui.bench)})
             /\ UNCHANGED <<ui, gw>>
\* The dialog closes, whichever it is now, and the benchmark is fetched.
TerminateSettles(c) ==
  /\ Done(c, "terminate")
  /\ IF c.at = "ok"
     THEN /\ ui' = [ui EXCEPT !.dialog = IF @ = "terminate" THEN None ELSE @]
          /\ net' = (net \ {c}) \cup {Call("fetch", ui.bench)}
     ELSE ui' = ui /\ net' = net \ {c}
  /\ UNCHANGED gw
FetchReply(c) == /\ Done(c, "fetch")
                 /\ ui' = IF c.at = "ok" THEN [ui EXCEPT !.shown = c.val] ELSE ui
                 /\ net' = net \ {c}
                 /\ UNCHANGED gw

-----------------------------------------------------------------------------
(* The gateway and everybody else *)

Set(b, st) == [gw EXCEPT ![b] = st]
Accepts(c) == /\ c.op \in {"bulk", "delete", "erase", "poll", "fetch"} => gw[c.arg] # "gone"
              /\ c.op = "terminate" => InFlight(gw[c.arg])
Effect(c) == CASE c.op \in {"bulk", "delete", "erase"} -> Set(c.arg, "gone")
               [] c.op = "terminate" -> Set(c.arg, "cancelled")
               [] OTHER -> gw
Serve(c) == /\ c \in net /\ c.at = "sent" /\ c.op \notin Navigating /\ Accepts(c)
            /\ gw' = Effect(c)
            /\ net' = Answered(c, IF c.op \in {"poll", "fetch"} THEN gw[c.arg] ELSE None)
            /\ UNCHANGED ui
Fail(c) == /\ c \in net /\ c.at = "sent" /\ c.op \notin Navigating
           /\ \/ UNCHANGED gw
              \/ Accepts(c) /\ gw' = Effect(c)
           /\ net' = Failed(c)
           /\ UNCHANGED ui

Run(b) == /\ \/ gw[b] = "queued" /\ gw' = Set(b, "running")
             \/ gw[b] = "running" /\ \E st \in {"done", "failed"} : gw' = Set(b, st)
          /\ UNCHANGED <<ui, net>>
EndElsewhere(b) == /\ \/ gw[b] # "gone" /\ gw' = Set(b, "gone")
                      \/ InFlight(gw[b]) /\ gw' = Set(b, "cancelled")
                   /\ UNCHANGED <<ui, net>>

-----------------------------------------------------------------------------
ListStep == \/ OpenList \/ StartSelect \/ CancelSelect \/ SelectVisible
            \/ AskBulk \/ CloseBulk \/ DeleteSelected \/ BulkSettles \/ CloseSingle \/ DeleteSingle
            \/ \E f \in Filters : SetFilter(f)
            \/ \E s \in Scopes : SwitchScope(s)
            \/ \E b \in Benches : OpenBench(b) \/ Toggle(b) \/ AskSingle(b)
            \/ \E c \in net : (\E items \in {Listing(c.arg), {}} : ListArrives(c, items)) \/ SingleSettles(c)
BenchStep == \/ PollTick \/ AskDelete \/ AskTerminate \/ CloseDialog \/ Delete \/ Terminate
             \/ \E c \in net : PollReply(c) \/ DeleteSettles(c) \/ TerminateSettles(c) \/ FetchReply(c)
GatewayStep == \/ \E c \in net : Serve(c) \/ Fail(c)
               \/ \E b \in Benches : Run(b) \/ EndElsewhere(b)

Next == ListStep \/ BenchStep \/ GatewayStep
Spec == Init /\ [][Next]_vars

\* The interval fires, a gateway asked again and again answers in the end, and
\* continuations run.
Ticks == PollTick
Answers == \E c \in net : c.op = "poll" /\ Serve(c)
Replies == \E c \in net : c.at = "ok" /\ PollReply(c)

-----------------------------------------------------------------------------
(* Properties *)

CallType == [op: {"bulk", "delete", "erase", "terminate", "fetch", "poll"} \cup Navigating, arg: Benches \cup Scopes,
             at: {"sent", "ok", "failed"}, val: {None} \cup Status, live: BOOLEAN]
UiType ==
  [route: {"benches"}, scope: Scopes, items: SUBSET Benches, filter: SUBSET Benches, select: BOOLEAN,
   selected: SUBSET Benches, confirm: BOOLEAN, single: Benches \cup {None}]
  \cup [route: {"bench"}, bench: Visited, shown: Status \ {"gone"}, dialog: {"delete", "terminate", None}]
TypeOK == ui \in UiType /\ net \subseteq CallType /\ gw \in [Benches -> Status]

\* A bulk deletion closes and forgets its selection only when every benchmark
\* chosen has been deleted.
BulkEndsWell ==
  Waiting("bulk") /\ ui.route = "benches" /\ ui'.route = "benches" /\ ui'.items # {} /\ ui'.selected = {}
  => \A b \in ui.selected : gw[b] = "gone"

\* A page that shows a run on its way shows how it ended, once it has, or is
\* left.  One of a benchmark deleted elsewhere polls for ever.
Lagging == OnBench /\ InFlight(ui.shown) /\ gw[ui.bench] \in Finished
BenchPageSettles == Lagging ~> ~Lagging
=============================================================================
