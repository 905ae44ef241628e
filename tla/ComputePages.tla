---------------------------- MODULE ComputePages ----------------------------
(***************************************************************************)
(* The compute pages of the console: the list of pods with its filters,    *)
(* selection and bulk deletion (compute-list.tsx), the page of one pod,    *)
(* which polls while the pod is on its way (pod-detail.tsx), the admin's   *)
(* approvals (approvals-list.tsx) and everybody's live resources           *)
(* (provisioned-list.tsx; its rows are pods and apps, which it treats      *)
(* alike).  Other users, the provisioning task and a second admin change   *)
(* the rows meanwhile; ComputePods models the gateway's side.              *)
(***************************************************************************)
EXTENDS Console, Integers, FiniteSets

CONSTANTS Rows,     \* compute rows
          Mine,     \* those the user created
          KindOf,   \* the kind of each row's provider, "runpod" or "pi"
          Filters,  \* what the user may put in the filter bar
          MaxCalls, \* bounds: calls that change something, and polls, that
          MaxPolls  \* are on their way at a time

Status == {"pending_approval", "creating", "running", "failed", "rejected", "terminated"}
Scopes == {"mine", "all"}
NoFilter == [match |-> Rows, kind |-> "all"]   \* match: the rows whose text and status pass
InFlight(st) == st \in {"creating", "pending_approval"}
Live(st) == st \in {"running", "creating"}
Deleting == {"delete", "bulk", "terminate", "remove"}
Reading == {"poll", "refresh", "goto", "reload"}

\* GET /compute: a user's rows or everybody's, terminated ones hidden.
Listing(scope) == {r \in Rows : gw[r] # "terminated" /\ (scope = "all" \/ r \in Mine)}
Billing(scope) == {r \in Listing(scope) : Live(gw[r])}
Pending == {r \in Rows : gw[r] = "pending_approval"}

-----------------------------------------------------------------------------
(* What the pages start with *)

ListPage(items, scope) ==
  [route |-> "list", scope |-> scope, items |-> items, filter |-> NoFilter, kinds |-> FALSE,
   select |-> FALSE, selected |-> {}, confirm |-> FALSE, single |-> None]

\* The effect of pod-detail that polls: React runs the cleanup of the last
\* run, then the effect, whenever the status shown changes.
CleanupKeepsRef(u) == [u EXCEPT !.timer = FALSE]   \* mutant
Cleanup(u) == [u EXCEPT !.timer = FALSE, !.ref = FALSE]
Arm(u) == CASE ~InFlight(u.shown) -> Cleanup(u)
            [] InFlight(u.shown) /\ u.ref -> u
            [] OTHER -> [u EXCEPT !.timer = TRUE, !.ref = TRUE]
Show(u, st) == IF st = u.shown THEN u ELSE Arm([Cleanup(u) EXCEPT !.shown = st])

PodPage(r, st) ==
  Arm([route |-> "pod", pod |-> r, shown |-> st, timer |-> FALSE, ref |-> FALSE,
       confirm |-> FALSE, terminating |-> FALSE])
ApprovalsPage(items) ==
  [route |-> "approvals", items |-> items, rejecting |-> None, busy |-> None]
ProvisionedPage(items) == [route |-> "provisioned", items |-> items, confirm |-> None]

\* The user is on the list, the admin on one of the pages that are his.
Init == /\ gw \in [Rows -> Status]
        /\ ui \in {ListPage(Listing("mine"), "mine"), ApprovalsPage(Pending), ProvisionedPage(Billing("all"))}
        /\ net = {}

-----------------------------------------------------------------------------
(* Navigation *)

\* A new navigation discards the ones on their way.  Calls of the page that is
\* left run on, and change rows as anybody else's do (Decide, DeleteElsewhere);
\* of their continuations only that of terminate() has an effect left.
Left == Orphans({c \in net : c.op = "terminate"})
Send(calls) == Cardinality(net \cup calls) <= MaxCalls /\ net' = net \cup calls

\* The list's loader catches what goes wrong and shows an empty list; so does a
\* user whom getMe does not find or whose role hides the section.
OpenList == /\ ui.route = "pod"
            /\ \E items \in {Listing("mine"), {}} : ui' = ListPage(items, "mine")
            /\ net' = Left
            /\ UNCHANGED gw
NoDialog == ui.confirm \in {FALSE, None} /\ (ui.route = "list" => ui.single = None)
OpenPod(r) == /\ \/ ui.route = "list" /\ ~ui.select
                 \/ ui.route = "provisioned"
              /\ NoDialog /\ r \in ui.items
              /\ ui' = PodPage(r, gw[r])
              /\ net' = Left
              /\ UNCHANGED gw

\* router.refresh() and router.push(): the server renders the list anew.  That
\* it is rendered a moment before it is on screen is left out: it ages there.
Refreshed(calls, scope) == {c \in calls : c.op \notin {"refresh", "goto"}} \cup {Call("refresh", scope)}

\* The component keeps its state under new items, and is unmounted with none.
ListArrives(c, items) ==
  /\ c \in net /\ c.op \in {"refresh", "goto"}
  /\ IF ui.route # "list" \/ items = {}
     THEN ui' = ListPage(items, c.arg) /\ net' = Left
     ELSE ui' = [ui EXCEPT !.items = items, !.scope = c.arg] /\ net' = net \ {c}
  /\ UNCHANGED gw

-----------------------------------------------------------------------------
(* The list of pods *)

OnList == ui.route = "list" /\ ui.items # {}

\* A row whose provider is not known (yet) passes for a RunPod one.
Kind(r) == IF ui.kinds THEN KindOf[r] ELSE "runpod"
Visible == {r \in ui.items \cap ui.filter.match : ui.filter.kind \in {"all", Kind(r)}}

Stay == UNCHANGED <<net, gw>>
ProvidersArrive == OnList /\ ui' = [ui EXCEPT !.kinds = TRUE] /\ Stay
SetFilter(f) == OnList /\ NoDialog /\ ui' = [ui EXCEPT !.filter = f] /\ Stay
SwitchScope(s) == /\ ui.route = "list" /\ s # ui.scope
                  /\ net' = Refreshed(net, s)
                  /\ UNCHANGED <<ui, gw>>

StartSelect == OnList /\ NoDialog /\ ~ui.select /\ ui' = [ui EXCEPT !.select = TRUE] /\ Stay
CancelSelect == /\ OnList /\ NoDialog /\ ui.select /\ ~Waiting("bulk")
                /\ ui' = [ui EXCEPT !.select = FALSE, !.selected = {}]
                /\ Stay
Toggle(r) == /\ OnList /\ NoDialog /\ ui.select /\ r \in Visible
             /\ ui' = [ui EXCEPT !.selected = (@ \cup {r}) \ (@ \cap {r})]
             /\ Stay
SelectVisible == /\ OnList /\ NoDialog /\ ui.select /\ Visible # {}
                 /\ \E s \in {Visible, {}} : ui' = [ui EXCEPT !.selected = s]
                 /\ Stay

\* The dialogs are modal; neither closes while its deletion runs.
AskBulk == /\ OnList /\ NoDialog /\ ui.select /\ ui.selected # {} /\ ~Waiting("bulk")
           /\ ui' = [ui EXCEPT !.confirm = TRUE]
           /\ Stay
CloseBulk == /\ OnList /\ ui.confirm /\ ~Waiting("bulk")
             /\ ui' = [ui EXCEPT !.confirm = FALSE]
             /\ Stay
DeleteSelected == /\ OnList /\ ui.confirm /\ ui.selected # {} /\ ~Waiting("bulk")
                  /\ Send({Call("bulk", r) : r \in ui.selected})
                  /\ UNCHANGED <<ui, gw>>
NoFailureIfSomeDone == IF \E c \in CallsOf("bulk") : c.at = "ok" THEN {} ELSE CallsOf("bulk")   \* mutant
Failures == {c \in CallsOf("bulk") : c.at = "failed"}
BulkSettles == /\ Waiting("bulk") /\ \A c \in CallsOf("bulk") : c.at # "sent"
               /\ ui' = IF Failures = {} THEN [ui EXCEPT !.confirm = FALSE, !.select = FALSE, !.selected = {}]
                                         ELSE ui
               /\ net' = Refreshed(net \ CallsOf("bulk"), ui.scope)
               /\ UNCHANGED gw

AskSingle(r) == /\ OnList /\ NoDialog /\ ~ui.select /\ r \in Visible
                /\ ui' = [ui EXCEPT !.single = r]
                /\ Stay
CloseSingle == /\ OnList /\ ui.single # None /\ ~Waiting("delete")
               /\ ui' = [ui EXCEPT !.single = None]
               /\ Stay
DeleteSingle == /\ OnList /\ ui.single # None /\ ~Waiting("delete")
                /\ Send({Call("delete", ui.single)})
                /\ UNCHANGED <<ui, gw>>
SingleSettles(c) == /\ Done(c, "delete")
                    /\ IF c.at = "ok"
                       THEN ui' = [ui EXCEPT !.single = None] /\ net' = Refreshed(net \ {c}, ui.scope)
                       ELSE ui' = ui /\ net' = net \ {c}
                    /\ UNCHANGED gw

-----------------------------------------------------------------------------
(* The page of one pod *)

OnPod == ui.route = "pod"
PollTick == /\ OnPod /\ ui.timer /\ Cardinality(CallsOf("poll")) < MaxPolls
            /\ net' = net \cup {Call("poll", ui.pod)}
            /\ UNCHANGED <<ui, gw>>
\* A failed poll is ignored.  Polls are not ordered: an older one may answer last.
PollReply(c) == /\ Done(c, "poll")
                /\ IF c.at = "ok" THEN \E st \in c.val : ui' = Show(ui, st) ELSE ui' = ui
                /\ net' = net \ {c}
                /\ UNCHANGED gw

TerminateOffered == OnPod /\ ui.shown \notin {"terminated", "rejected"} /\ ~ui.terminating
AskTerminate == TerminateOffered /\ ~ui.confirm /\ ui' = [ui EXCEPT !.confirm = TRUE] /\ Stay
CloseTerminate == /\ OnPod /\ ui.confirm /\ ~ui.terminating
                  /\ ui' = [ui EXCEPT !.confirm = FALSE]
                  /\ Stay
Terminate == /\ OnPod /\ ui.confirm /\ ~ui.terminating
             /\ ui' = [ui EXCEPT !.terminating = TRUE]
             /\ Send({Call("terminate", ui.pod)})
             /\ UNCHANGED gw
\* After success the button stays busy until the list is there.  Somebody who
\* has left the page meanwhile is taken to the list all the same.
TerminateSettles(c) ==
  /\ c \in net /\ c.op = "terminate" /\ c.at # "sent"
  /\ IF c.at = "ok"
     THEN net' = {d \in net \ {c} : d.op \notin {"goto", "refresh"}} \cup {Call("goto", "mine")} /\ ui' = ui
     ELSE /\ net' = net \ {c}
          /\ ui' = IF c.live THEN [ui EXCEPT !.terminating = FALSE] ELSE ui
  /\ UNCHANGED gw

-----------------------------------------------------------------------------
(* Approvals *)

OnApprovals == ui.route = "approvals" /\ ui.items # {}
\* useTransition: pending while any action of the list runs.
TransitionPending == Waiting("approve") \/ Waiting("reject")
Busy(r) == TransitionPending /\ ui.busy = r

Approve(r) == /\ OnApprovals /\ ui.rejecting = None /\ r \in ui.items /\ ~Busy(r)
              /\ ui' = [ui EXCEPT !.busy = r]
              /\ Send({Call("approve", r)})
              /\ UNCHANGED gw
ApproveSettlesAnyhow(c) ==   \* mutant
  /\ Done(c, "approve")
  /\ ui' = [ui EXCEPT !.items = @ \ {c.arg}, !.busy = None]
  /\ net' = net \ {c}
  /\ UNCHANGED gw
ApproveSettles(c) == /\ Done(c, "approve")
                     /\ ui' = IF c.at = "ok" THEN [ui EXCEPT !.items = @ \ {c.arg}, !.busy = None]
                                             ELSE [ui EXCEPT !.busy = None]
                     /\ net' = net \ {c}
                     /\ UNCHANGED gw
AskReject(r) == /\ OnApprovals /\ ui.rejecting = None /\ r \in ui.items /\ ~Busy(r)
                /\ ui' = [ui EXCEPT !.rejecting = r]
                /\ Stay
CloseReject == /\ OnApprovals /\ ui.rejecting # None /\ ~TransitionPending
               /\ ui' = [ui EXCEPT !.rejecting = None]
               /\ Stay
Reject == /\ OnApprovals /\ ui.rejecting # None /\ ~TransitionPending
          /\ ui' = [ui EXCEPT !.busy = ui.rejecting]
          /\ Send({Call("reject", ui.rejecting)})
          /\ UNCHANGED gw
RejectSettles(c) ==
  /\ Done(c, "reject")
  /\ ui' = IF c.at = "ok" THEN [ui EXCEPT !.items = @ \ {c.arg}, !.rejecting = None, !.busy = None]
                          ELSE [ui EXCEPT !.busy = None]
  /\ net' = net \ {c}
  /\ UNCHANGED gw

-----------------------------------------------------------------------------
(* Everybody's live resources *)

OnProvisioned == ui.route = "provisioned"
\* The loader asks for everybody's rows, this button for the admin's own.
Reload == /\ OnProvisioned /\ ui.confirm = None /\ ~Waiting("reload")
          /\ net' = net \cup {Call("reload", "mine")}
          /\ UNCHANGED <<ui, gw>>
ReloadArrives(c) == /\ Done(c, "reload")
                    /\ ui' = IF c.at = "ok" THEN [ui EXCEPT !.items = c.val] ELSE ui
                    /\ net' = net \ {c}
                    /\ UNCHANGED gw
AskRemove(r) == /\ OnProvisioned /\ ui.confirm = None /\ r \in ui.items /\ ~Waiting("remove")
                /\ ui' = [ui EXCEPT !.confirm = r]
                /\ Stay
CloseRemove == /\ OnProvisioned /\ ui.confirm # None /\ ~Waiting("remove")
               /\ ui' = [ui EXCEPT !.confirm = None]
               /\ Stay
Remove == /\ OnProvisioned /\ ui.confirm # None /\ ~Waiting("remove")
          /\ Send({Call("remove", ui.confirm)})
          /\ UNCHANGED <<ui, gw>>
\* router.refresh() re-renders the server part; the lists in useState stay.
RemoveSettles(c) ==
  /\ Done(c, "remove")
  /\ ui' = IF c.at = "ok"
           THEN [ui EXCEPT !.items = @ \ {c.arg}, !.confirm = None]
           ELSE ui
  /\ net' = net \ {c}
  /\ UNCHANGED gw

-----------------------------------------------------------------------------
(* The gateway and everybody else *)

Accepts(c) == c.op \in {"approve", "reject"} => gw[c.arg] = "pending_approval"
Set(r, st) == [gw EXCEPT ![r] = st]
Effect(c) == CASE c.op \in Deleting -> Set(c.arg, "terminated")
               [] c.op = "approve" -> Set(c.arg, "creating")
               [] c.op = "reject" -> Set(c.arg, "rejected")
               [] OTHER -> gw
Answer(c) == CASE c.op = "poll" -> {gw[c.arg]}
               [] c.op = "reload" -> Billing(c.arg)
               [] OTHER -> None

Serve(c) == /\ c \in net /\ c.at = "sent" /\ c.op \notin {"refresh", "goto"} /\ Accepts(c)
            /\ gw' = Effect(c)
            /\ net' = Answered(c, Answer(c))
            /\ UNCHANGED ui
\* Refused, unreachable, or done and the answer lost.
Fail(c) == /\ c \in net /\ c.at = "sent" /\ c.op \notin {"refresh", "goto"}
           /\ \/ UNCHANGED gw
              \/ Accepts(c) /\ gw' = Effect(c)
           /\ net' = Failed(c)
           /\ UNCHANGED ui

Provision(r) == /\ gw[r] = "creating"
                /\ \E st \in {"running", "failed"} : gw' = Set(r, st)
                /\ UNCHANGED <<ui, net>>
Decide(r) == /\ gw[r] = "pending_approval"
             /\ \E st \in {"creating", "rejected"} : gw' = Set(r, st)
             /\ UNCHANGED <<ui, net>>
DeleteElsewhere(r) == gw[r] # "terminated" /\ gw' = Set(r, "terminated") /\ UNCHANGED <<ui, net>>

-----------------------------------------------------------------------------
Navigate == OpenList \/ \E r \in Rows : OpenPod(r)
ListStep == \/ ProvidersArrive \/ StartSelect \/ CancelSelect \/ SelectVisible
            \/ AskBulk \/ CloseBulk \/ DeleteSelected \/ BulkSettles \/ CloseSingle \/ DeleteSingle
            \/ \E f \in Filters : SetFilter(f)
            \/ \E s \in Scopes : SwitchScope(s)
            \/ \E r \in Rows : Toggle(r) \/ AskSingle(r)
            \/ \E c \in net : (\E items \in {Listing(c.arg), {}} : ListArrives(c, items)) \/ SingleSettles(c)
PodStep == \/ PollTick \/ AskTerminate \/ CloseTerminate \/ Terminate
           \/ \E c \in net : PollReply(c) \/ TerminateSettles(c)
AdminStep == \/ CloseReject \/ Reject \/ Reload \/ CloseRemove \/ Remove
             \/ \E r \in Rows : Approve(r) \/ AskReject(r) \/ AskRemove(r)
             \/ \E c \in net : ApproveSettles(c) \/ RejectSettles(c) \/ ReloadArrives(c) \/ RemoveSettles(c)
GatewayStep == \/ \E c \in net : Serve(c) \/ Fail(c)
               \/ \E r \in Rows : Provision(r) \/ Decide(r) \/ DeleteElsewhere(r)

Next == Navigate \/ ListStep \/ PodStep \/ AdminStep \/ GatewayStep
Spec == Init /\ [][Next]_vars

\* Timers fire and continuations run; a gateway that is asked again and again
\* answers in the end.
Ticks == PollTick
Answers == \E c \in net : c.op = "poll" /\ Serve(c)
Replies == \E c \in net : c.at = "ok" /\ PollReply(c)

-----------------------------------------------------------------------------
(* Properties *)

CallType == [op: Deleting \cup Reading \cup {"approve", "reject"}, arg: Rows \cup Scopes \cup {None},
             at: {"sent", "ok", "failed"}, val: {None} \cup SUBSET (Rows \cup Status),
             live: BOOLEAN]
UiType ==
  [route: {"list"}, scope: Scopes, items: SUBSET Rows, filter: Filters \cup {NoFilter}, kinds: BOOLEAN,
   select: BOOLEAN, selected: SUBSET Rows, confirm: BOOLEAN, single: Rows \cup {None}]
  \cup [route: {"pod"}, pod: Rows, shown: Status, timer: BOOLEAN, ref: BOOLEAN,
        confirm: BOOLEAN, terminating: BOOLEAN]
  \cup [route: {"approvals"}, items: SUBSET Rows, rejecting: Rows \cup {None}, busy: Rows \cup {None}]
  \cup [route: {"provisioned"}, items: SUBSET Rows, confirm: Rows \cup {None}]

TypeOK == ui \in UiType /\ net \subseteq CallType /\ gw \in [Rows -> Status]

\* A request leaves the approvals list only once it is decided: whatever fails,
\* is refused or overtaken, a pod still waiting for the admin stays in view.
UndecidedStays ==
  ui.route = "approvals" /\ ui'.route = "approvals"
  => \A r \in ui.items \ ui'.items : gw[r] # "pending_approval"

\* A bulk deletion drops its selection and closes only when every pod chosen
\* has been deleted: a pod that goes on billing is still selected, under an error.
BulkEndsWell ==
  Waiting("bulk") /\ ui.route = "list" /\ ui'.route = "list" /\ ui'.items # {} /\ ui'.selected = {}
  => \A r \in ui.selected : gw[r] = "terminated"

\* The page of a pod refreshes on its own: once the pod has come to rest, a
\* page that shows it on its way shows where it ended, or has been left.
Lagging == ui.route = "pod" /\ InFlight(ui.shown) /\ ~InFlight(gw[ui.pod])
PodPageSettles == Lagging ~> ~Lagging
=============================================================================
