---------------------------- MODULE EndpointPages ---------------------------
(***************************************************************************)
(* The serverless pages: the grid of endpoints with its search, selection  *)
(* and bulk deletion (endpoint-grid.tsx), and the page of one endpoint     *)
(* (endpoint-detail.tsx) with the two cards of its overview tab that edit  *)
(* the endpoint's settings (overview.tsx).  The server actions behind them *)
(* are in actions.ts.  Other admins and owners change endpoints meanwhile. *)
(* What the other tabs poll is in EndpointTabs and RequestHistory.         *)
(***************************************************************************)
EXTENDS Console, Integers, FiniteSets

CONSTANTS Apps,          \* endpoints
          Mine,          \* those the user created
          Scales, Args,  \* values of max_containers and idle_timeout_s; of vllm_args
          Bad,           \* a text that cannot be saved: out of range, or too long
          Filters,       \* sets of endpoints a search may match
          MaxCalls,      \* bounds: changes on their way at a time, and
          Visited        \* the endpoints whose page the user opens

Settings == [scale: Scales, args: Args]
Here == {a \in Apps : gw[a] # None}
Listing(scope) == {a \in Here : scope = "all" \/ a \in Mine}
Changing == {"bulk", "delete", "remove", "scale", "args", "restart"}

GridPage(scope, items) ==
  [route |-> "grid", scope |-> scope, items |-> items, match |-> Apps,
   select |-> FALSE, selected |-> {}, confirm |-> FALSE, single |-> None]
Card(value) == [editing |-> FALSE, input |-> value]
EndpointPage(a, props) ==
  [route |-> "endpoint", app |-> a, props |-> props, tab |-> "overview", confirm |-> FALSE,
   scale |-> Card(props.scale), args |-> Card(props.args), restart |-> FALSE]

Init == /\ gw \in [Apps -> Settings]
        /\ ui = GridPage("mine", Listing("mine"))
        /\ net = {}

Stay == UNCHANGED <<net, gw>>
Send(calls) == Cardinality(net \cup calls) <= MaxCalls /\ net' = net \cup calls

-----------------------------------------------------------------------------
(* Navigation and refreshes *)

\* What a page leaves behind still refreshes, or pushes, when it is answered:
\* of the others nothing but that they have been matters.
Refreshing == [Call("refresh", None) EXCEPT !.at = "ok", !.live = FALSE]
Heard(calls) == LET over == {c \in calls : ~c.live /\ c.at # "sent" /\ (c.at = "failed" \/ c.op # "remove")}
                IN  IF \E c \in over : c.at = "ok" THEN (calls \ over) \cup {Refreshing} ELSE calls \ over
Left == Heard(Orphans(net))
NoDialog == /\ ui.route = "grid" => ~ui.confirm /\ ui.single = None
            /\ ui.route = "endpoint" => ~ui.confirm /\ ~ui.restart

OpenGrid == /\ ui.route # "grid" /\ NoDialog
            /\ ui' = GridPage("mine", Listing("mine"))
            /\ net' = Left
            /\ UNCHANGED gw
\* notFound() of an endpoint that is gone; any other failure is a page of its own.
Failing(a) == [route |-> "failing", app |-> a]
OpenEndpoint(a) == /\ ui.route = "grid" /\ NoDialog /\ ~ui.select /\ a \in ui.items \cap ui.match \cap Visited
                   /\ ui' \in {Failing(a)} \cup (IF a \in Here THEN {EndpointPage(a, gw[a])} ELSE {})
                   /\ net' = Left
                   /\ UNCHANGED gw

\* What revalidatePath() of a server action sends along with its answer, and
\* router.refresh(): the page rendered anew.  A grid whose listing fails is empty.
\* The inputs of a card follow its own settings only, and only when they change.
ResetAlways(card, old, new) == [card EXCEPT !.input = new]   \* mutant
Reset(card, old, new) == IF new = old THEN card ELSE [card EXCEPT !.input = new]
Props(u, p) == [u EXCEPT !.props = p, !.scale = Reset(@, u.props.scale, p.scale), !.args = Reset(@, u.props.args, p.args)]
Refresh(u) ==
  \/ u.route = "grid" /\ \E items \in {Listing(u.scope), {}} : ui' = [u EXCEPT !.items = items]
  \/ u.route = "endpoint" /\ u.app \in Here /\ ui' = Props(u, gw[u.app])
  \/ u.route = "failing" /\ u.app \in Here /\ ui' = EndpointPage(u.app, gw[u.app])
  \/ u.route \in {"endpoint", "failing"} /\ ui' = Failing(u.app)
SwitchScope(s) == /\ ui.route = "grid" /\ NoDialog /\ s # ui.scope
                  /\ \E items \in {Listing(s), {}} : ui' = [ui EXCEPT !.scope = s, !.items = items]
                  /\ Stay

-----------------------------------------------------------------------------
(* The grid.  With no endpoint at all it shows a notice, and keeps its state *)

OnGrid == ui.route = "grid" /\ ui.items # {}
Visible == ui.items \cap ui.match

Search(f) == OnGrid /\ NoDialog /\ ui' = [ui EXCEPT !.match = f] /\ Stay
StartSelect == OnGrid /\ NoDialog /\ ~ui.select /\ ui' = [ui EXCEPT !.select = TRUE] /\ Stay
CancelSelect == /\ OnGrid /\ NoDialog /\ ui.select /\ ~Waiting("bulk")
                /\ ui' = [ui EXCEPT !.select = FALSE, !.selected = {}]
                /\ Stay
Toggle(a) == /\ OnGrid /\ NoDialog /\ ui.select /\ a \in Visible
             /\ ui' = [ui EXCEPT !.selected = (@ \cup {a}) \ (@ \cap {a})]
             /\ Stay
SelectVisible == /\ OnGrid /\ NoDialog /\ ui.select /\ Visible # {}
                 /\ \E s \in {Visible, {}} : ui' = [ui EXCEPT !.selected = s]
                 /\ Stay
AskBulk == /\ OnGrid /\ NoDialog /\ ui.select /\ ui.selected # {} /\ ~Waiting("bulk")
           /\ ui' = [ui EXCEPT !.confirm = TRUE]
           /\ Stay
CloseBulk == /\ OnGrid /\ ui.confirm /\ ~Waiting("bulk")
             /\ ui' = [ui EXCEPT !.confirm = FALSE]
             /\ Stay
DeleteSelected == /\ OnGrid /\ ui.confirm /\ ui.selected # {} /\ ~Waiting("bulk")
                  /\ Send({Call("bulk", a) : a \in ui.selected})
                  /\ UNCHANGED <<ui, gw>>
\* Rejected, or answered with ok: false.
Failures == {c \in CallsOf("bulk") : c.at = "failed"}
BulkSettles ==
  /\ Waiting("bulk") /\ \A c \in CallsOf("bulk") : c.at # "sent"
  /\ Refresh(IF Failures = {} THEN [ui EXCEPT !.confirm = FALSE, !.select = FALSE, !.selected = {}] ELSE ui)
  /\ net' = net \ CallsOf("bulk")
  /\ UNCHANGED gw

\* The menu of a card.  This dialog closes (Escape) even while its deletion runs,
\* and a deletion that ends closes the dialog, whichever endpoint it is then about.
AskSingle(a) == /\ OnGrid /\ NoDialog /\ ~ui.select /\ a \in Visible
                /\ ui' = [ui EXCEPT !.single = a]
                /\ Stay
CloseSingle == OnGrid /\ ui.single # None /\ ui' = [ui EXCEPT !.single = None] /\ Stay
DeleteSingle == /\ OnGrid /\ ui.single # None /\ ~Waiting("delete")
                /\ Send({Call("delete", ui.single)})
                /\ UNCHANGED <<ui, gw>>
SingleSettles(c) == /\ Done(c, "delete")
                    /\ IF c.at = "ok" THEN Refresh([ui EXCEPT !.single = None]) ELSE ui' = ui
                    /\ net' = net \ {c}
                    /\ UNCHANGED gw

-----------------------------------------------------------------------------
(* The page of one endpoint *)

OnEndpoint == ui.route = "endpoint"
\* Another tab unmounts the cards: their dialogs are modal, their edits are lost.
ShowTab(t) == /\ OnEndpoint /\ NoDialog /\ t # ui.tab
              /\ ui' = [ui EXCEPT !.tab = t, !.scale = Card(ui.props.scale), !.args = Card(ui.props.args)]
              /\ net' = {c \in net : c.op = "remove"} \cup Heard(Orphans({c \in net : c.op # "remove"}))
              /\ UNCHANGED gw

AskRemove == OnEndpoint /\ NoDialog /\ ui' = [ui EXCEPT !.confirm = TRUE] /\ Stay
CloseRemove == OnEndpoint /\ ui.confirm /\ ui' = [ui EXCEPT !.confirm = FALSE] /\ Stay
Remove == /\ OnEndpoint /\ ui.confirm /\ ~Waiting("remove")
          /\ Send({Call("remove", ui.app)})
          /\ UNCHANGED <<ui, gw>>
RemoveSettles(c) == /\ c \in net /\ c.op = "remove" /\ c.at # "sent"
                    /\ IF c.at = "failed" THEN ui' = ui /\ net' = net \ {c}
                       ELSE IF ui.route = "grid"
                       THEN ui' = [ui EXCEPT !.items = Listing("mine"), !.scope = "mine"] /\ net' = net \ {c}
                       ELSE ui' = GridPage("mine", Listing("mine")) /\ net' = Left \ Orphans({c})
                    /\ UNCHANGED gw

\* The cards: card is "scale" or "args", the names of the operations too.
Cards == {"scale", "args"}
Valid(card) == ui[card].input # Bad
OnCard(card) == OnEndpoint /\ NoDialog /\ ui.tab = "overview" /\ ~Waiting(card)
Edit(card) == OnEndpoint /\ NoDialog /\ ui.tab = "overview" /\ ~ui[card].editing /\ ui' = [ui EXCEPT ![card].editing = TRUE] /\ Stay
Type(card, v) == OnCard(card) /\ ui[card].editing /\ ui' = [ui EXCEPT ![card].input = v] /\ Stay
Cancel(card) == OnCard(card) /\ ui[card].editing /\ ui' = [ui EXCEPT ![card] = Card(ui.props[card])] /\ Stay
Save(card) == /\ OnCard(card) /\ ui[card].editing /\ Valid(card)
              /\ Send({Call(card, [app |-> ui.app, value |-> ui[card].input])})
              /\ UNCHANGED <<ui, gw>>
SaveSettles(c) == /\ c.op \in Cards /\ Done(c, c.op)
                  /\ IF c.at = "ok" THEN Refresh([ui EXCEPT ![c.op].editing = FALSE]) ELSE ui' = ui
                  /\ net' = IF ui'.route = ui.route THEN net \ {c} ELSE Left \ Orphans({c})
                  /\ UNCHANGED gw

AskRestart == /\ OnCard("args") /\ ~ui.args.editing /\ ~Waiting("restart")
              /\ ui' = [ui EXCEPT !.restart = TRUE]
              /\ Stay
CloseRestart == OnEndpoint /\ ui.restart /\ ~Waiting("restart") /\ ui' = [ui EXCEPT !.restart = FALSE] /\ Stay
Restart == /\ OnEndpoint /\ ui.restart /\ ~Waiting("restart")
           /\ Send({Call("restart", ui.app)})
           /\ UNCHANGED <<ui, gw>>
RestartSettles(c) == /\ Done(c, "restart")
                     /\ IF c.at = "ok" THEN Refresh([ui EXCEPT !.restart = FALSE]) ELSE ui' = ui
                     /\ net' = IF ui'.route = ui.route THEN net \ {c} ELSE Left \ Orphans({c})
                     /\ UNCHANGED gw

\* A continuation whose component is gone: only the router still listens.
OrphanSettles(c) == /\ c \in net /\ ~c.live /\ c.op # "remove" /\ c.at = "ok"
                    /\ Refresh(ui)
                    /\ net' = IF ui'.route = ui.route THEN net \ {c} ELSE Left \ Orphans({c})
                    /\ UNCHANGED gw

-----------------------------------------------------------------------------
(* The gateway and everybody else *)

Target(c) == IF c.op \in Cards THEN c.arg.app ELSE c.arg
Effect(c) == CASE c.op \in {"bulk", "delete", "remove"} -> [gw EXCEPT ![c.arg] = None]
               [] c.op \in Cards -> [gw EXCEPT ![c.arg.app] = [@ EXCEPT ![c.op] = c.arg.value]]
               [] OTHER -> gw
\* An endpoint that is gone answers 404, to a deletion too.
Serve(c) == /\ c \in net /\ c.at = "sent" /\ Target(c) \in Here
            /\ gw' = Effect(c)
            /\ net' = Heard(Answered(c, None))
            /\ UNCHANGED ui
Fail(c) == /\ c \in net /\ c.at = "sent"
           /\ \/ UNCHANGED gw
              \/ Target(c) \in Here /\ gw' = Effect(c)
           /\ net' = Heard(Failed(c))
           /\ UNCHANGED ui

\* Settings are seen on the endpoint's page alone.
Foreign(a, s) == /\ a \in Here /\ (a \in Visited \/ s = None)
                 /\ gw' = [gw EXCEPT ![a] = s]
                 /\ UNCHANGED <<ui, net>>

-----------------------------------------------------------------------------
GridStep == \/ StartSelect \/ CancelSelect \/ SelectVisible \/ AskBulk \/ CloseBulk
            \/ DeleteSelected \/ BulkSettles \/ CloseSingle \/ DeleteSingle
            \/ \E f \in Filters : Search(f)
            \/ \E s \in {"mine", "all"} : SwitchScope(s)
            \/ \E a \in Apps : Toggle(a) \/ AskSingle(a) \/ OpenEndpoint(a)
            \/ \E c \in net : SingleSettles(c)
EndpointStep == \/ AskRemove \/ CloseRemove \/ Remove \/ AskRestart \/ CloseRestart \/ Restart
                \/ \E t \in {"overview", "another"} : ShowTab(t)
                \/ \E card \in Cards : Edit(card) \/ Cancel(card) \/ Save(card)
                \/ \E v \in Scales \cup {Bad} : Type("scale", v)
                \/ \E v \in Args \cup {Bad} : Type("args", v)
                \/ \E c \in net : RemoveSettles(c) \/ SaveSettles(c) \/ RestartSettles(c)
RouterStep == OpenGrid \/ \E c \in net : OrphanSettles(c)
GatewayStep == \/ \E c \in net : Serve(c) \/ Fail(c)
               \/ \E a \in Apps, s \in Settings \cup {None} : Foreign(a, s)

Next == GridStep \/ EndpointStep \/ RouterStep \/ GatewayStep
Spec == Init /\ [][Next]_vars

-----------------------------------------------------------------------------
(* Properties *)

CallType == [op: Changing \cup {"refresh"},
             arg: Apps \cup {None} \cup [app: Apps, value: Scales \cup Args],
             at: {"sent", "ok", "failed"}, val: {None}, live: BOOLEAN]
CardType(values) == [editing: BOOLEAN, input: values]
UiType ==
  [route: {"grid"}, scope: {"mine", "all"}, items: SUBSET Apps, match: Filters \cup {Apps},
   select: BOOLEAN, selected: SUBSET Apps, confirm: BOOLEAN, single: Apps \cup {None}]
  \cup [route: {"endpoint"}, app: Apps, props: Settings, tab: {"overview", "another"}, confirm: BOOLEAN,
        scale: CardType(Scales \cup {Bad}), args: CardType(Args \cup {Bad}), restart: BOOLEAN]
  \cup [route: {"failing"}, app: Apps]
TypeOK == /\ ui \in UiType /\ net \subseteq CallType
          /\ gw \in [Apps -> Settings \cup {None}]

\* A bulk deletion drops its selection and closes only when every endpoint
\* chosen is gone from the gateway.
BulkEndsWell ==
  Waiting("bulk") /\ ui.route = "grid" /\ ui'.route = "grid" /\ ui'.selected = {} /\ ui.confirm
  => \A a \in ui.selected : a \notin Here

\* A refresh, after a save of the other card or a restart, leaves what the
\* user has typed into a card alone, unless that card's settings have changed.
EditsStay ==
  \A card \in Cards :
    OnEndpoint /\ ui'.route = "endpoint" /\ ui'.props # ui.props /\ ui'.props[card] = ui.props[card]
      => ui'[card].input = ui[card].input
=============================================================================
