------------------------- MODULE ConsoleListProofs --------------------------
(***************************************************************************)
(* Proofs about the pages of the console that list rows: compute pods,     *)
(* benchmarks, endpoints.  Each has an invariant over what is on screen and *)
(* the calls on their way, which every step of the page preserves.         *)
(***************************************************************************)
EXTENDS ConsolePages, Integers, Sequences, SequenceTheorems, TLAPS

-----------------------------------------------------------------------------
(* The compute pages *)

ComputeList == [route: {"list"}, scope: Compute!Scopes, items: SUBSET ComputeOf.rows,
                filter: ComputeOf.filters \cup {Compute!NoFilter}, kinds: BOOLEAN, select: BOOLEAN,
                selected: SUBSET ComputeOf.rows, confirm: BOOLEAN, single: ComputeOf.rows \cup {None}]
ComputePod == [route: {"pod"}, pod: ComputeOf.rows, shown: Compute!Status, timer: BOOLEAN, ref: BOOLEAN,
               confirm: BOOLEAN, terminating: BOOLEAN]
ComputeApprovals == [route: {"approvals"}, items: SUBSET ComputeOf.rows, rejecting: ComputeOf.rows \cup {None},
                     busy: ComputeOf.rows \cup {None}]
ComputeLive == [route: {"provisioned"}, items: SUBSET ComputeOf.rows, confirm: ComputeOf.rows \cup {None}]

LEMMA ComputeRoutes ==
  ASSUME Compute!TypeOK
  PROVE  /\ ui.route \in {"list", "pod", "approvals", "provisioned"}
         /\ ui.route = "list" => ui \in ComputeList
         /\ ui.route = "pod" => ui \in ComputePod
         /\ ui.route = "approvals" => ui \in ComputeApprovals
         /\ ui.route = "provisioned" => ui \in ComputeLive
BY DEF Compute!TypeOK, Compute!UiType, ComputeList, ComputePod, ComputeApprovals, ComputeLive

LEMMA ComputeUis ==
  ASSUME NEW u, u \in ComputeList \cup ComputePod \cup ComputeApprovals \cup ComputeLive
  PROVE  u \in Compute!UiType
BY DEF Compute!UiType, ComputeList, ComputePod, ComputeApprovals, ComputeLive

\* Whose page a call is of, and what it is about.
ComputeCall(c) ==
  /\ c.op \in {"bulk", "delete", "terminate", "remove", "poll", "approve", "reject"} => c.arg \in ComputeOf.rows
  /\ c.op \in {"refresh", "goto", "reload"} => c.arg \in Compute!Scopes
  /\ c.op \in {"bulk", "delete"} => ui.route = "list"
  /\ c.op = "poll" => ui.route = "pod"
  /\ c.op = "terminate" => ui.route \in {"list", "pod"} /\ (c.live => ui.route = "pod")
  /\ c.op \in {"refresh", "goto"} => ui.route \in {"list", "pod"}
  /\ c.op \in {"approve", "reject"} => ui.route = "approvals"
  /\ c.op \in {"reload", "remove"} => ui.route = "provisioned"
  /\ ~c.live => c.op = "terminate"
  /\ c.at = "ok" => /\ c.op = "poll" => c.val \subseteq Compute!Status
                    /\ c.op = "reload" => c.val \subseteq ComputeOf.rows
                    /\ c.op \in {"approve", "reject"} => gw[c.arg] # "pending_approval"
                    /\ c.op = "bulk" => gw[c.arg] = "terminated"
  /\ c.op = "bulk" => ui.confirm /\ c.arg \in ui.selected
ComputeInv ==
  /\ Compute!TypeOK
  /\ \A c \in net : ComputeCall(c)
  /\ (\E c \in net : c.op = "bulk") => \A r \in ui.selected : \E c \in net : c.op = "bulk" /\ c.arg = r

LEMMA ComputeInit == Compute!Init => ComputeInv
<1> SUFFICES ASSUME Compute!Init PROVE ComputeInv
  OBVIOUS
<1>1. ui \in ComputeList \cup ComputePod \cup ComputeApprovals \cup ComputeLive
  <2>1. CASE ui = Compute!ListPage(Compute!Listing("mine"), "mine")
    BY <2>1 DEF Compute!ListPage, Compute!Listing, Compute!NoFilter, Compute!Scopes, ComputeList
  <2>2. CASE ui = Compute!ApprovalsPage(Compute!Pending)
    BY <2>2 DEF Compute!ApprovalsPage, Compute!Pending, ComputeApprovals
  <2>3. CASE ui = Compute!ProvisionedPage(Compute!Billing("all"))
    BY <2>3 DEF Compute!ProvisionedPage, Compute!Billing, Compute!Listing, ComputeLive
  <2> QED BY <2>1, <2>2, <2>3 DEF Compute!Init
<1> QED BY <1>1, ComputeUis DEF Compute!Init, ComputeInv, Compute!TypeOK

\* No row waits for approval again, and none comes back from its end.
ComputeOnward == /\ gw' \in [ComputeOf.rows -> Compute!Status]
                 /\ \A r \in ComputeOf.rows : /\ gw[r] # "pending_approval" => gw'[r] # "pending_approval"
                                              /\ gw[r] = "terminated" => gw'[r] = "terminated"
LEMMA ComputeStill == ASSUME ComputeInv, gw' = gw PROVE ComputeOnward
BY DEF ComputeOnward, ComputeInv, Compute!TypeOK
LEMMA ComputeEffect ==
  ASSUME ComputeInv, NEW c \in net, Compute!Accepts(c), gw' = Compute!Effect(c)
  PROVE  /\ ComputeOnward
         /\ c.op \in Compute!Deleting => gw'[c.arg] = "terminated"
         /\ c.op \in {"approve", "reject"} => gw'[c.arg] # "pending_approval"
<1>1. /\ c.op \in Compute!Deleting \cup {"approve", "reject"} => c.arg \in ComputeOf.rows
      /\ gw \in [ComputeOf.rows -> Compute!Status]
  BY DEF ComputeInv, ComputeCall, Compute!TypeOK, Compute!Deleting
<1>2. CASE c.op \in Compute!Deleting
  BY <1>1, <1>2 DEF ComputeOnward, Compute!Effect, Compute!Set, Compute!Status, Compute!Deleting
<1>3. CASE c.op = "approve"
  BY <1>1, <1>3 DEF ComputeOnward, Compute!Effect, Compute!Set, Compute!Status, Compute!Deleting, Compute!Accepts
<1>4. CASE c.op = "reject"
  BY <1>1, <1>4 DEF ComputeOnward, Compute!Effect, Compute!Set, Compute!Status, Compute!Deleting, Compute!Accepts
<1>5. CASE c.op \notin Compute!Deleting \cup {"approve", "reject"}
  BY <1>1, <1>5 DEF ComputeOnward, Compute!Effect
<1> QED BY <1>2, <1>3, <1>4, <1>5

\* Calls stay what they were while their page stays, and a running bulk
\* deletion keeps its dialog and its selection.
LEMMA ComputeKeeps ==
  ASSUME ComputeInv, ComputeOnward, ui'.route = ui.route,
         ui' \in ComputeList \cup ComputePod \cup ComputeApprovals \cup ComputeLive,
         \A c \in net' \ net : c \in Compute!CallType /\ ComputeCall(c)' /\ c.op # "bulk",
         \A c \in net : c.op = "bulk" => /\ c \in net'
                                         /\ ui'.confirm = ui.confirm /\ ui'.selected = ui.selected
  PROVE  ComputeInv'
<1>1. Compute!TypeOK'
  BY ComputeUis DEF ComputeInv, ComputeOnward, Compute!TypeOK
<1>2. ASSUME NEW c \in net' PROVE ComputeCall(c)'
  <2>1. CASE c \notin net
    BY <2>1
  <2>2. CASE c \in net
    <3>1. ComputeCall(c)
      BY <2>2 DEF ComputeInv
    <3>2. c.op = "bulk" => ui'.confirm = ui.confirm /\ ui'.selected = ui.selected
      BY <2>2
    <3> QED BY <3>1, <3>2 DEF ComputeCall, ComputeOnward
  <2> QED BY <2>1, <2>2
<1>3. (\E c \in net : c.op = "bulk")' => (\A r \in ui.selected : \E c \in net : c.op = "bulk" /\ c.arg = r)'
  BY DEF ComputeInv
<1> QED BY <1>1, <1>2, <1>3 DEF ComputeInv

\* A page that is opened starts with no calls but the pods' terminations.
ComputePageTypes == ComputeList \cup ComputePod \cup ComputeApprovals \cup ComputeLive
LEMMA ComputeLeft ==
  ASSUME ComputeInv, gw' = gw, ui' \in ComputePageTypes, net' = Compute!Left, ui'.route \in {"list", "pod"}
  PROVE  ComputeInv'
<1>1. \A c \in net' : \E d \in net : d.op = "terminate" /\ c = [d EXCEPT !.live = FALSE]
  BY DEF Compute!Left, Compute!Orphans
<1>2. \A c \in net' : c \in Compute!CallType /\ c.op = "terminate" /\ ~c.live /\ ComputeCall(c)'
  <2> SUFFICES ASSUME NEW c \in net' PROVE c \in Compute!CallType /\ c.op = "terminate" /\ ~c.live /\ ComputeCall(c)'
    OBVIOUS
  <2>1. PICK d \in net : d.op = "terminate" /\ c = [d EXCEPT !.live = FALSE]
    BY <1>1
  <2>2. d \in Compute!CallType /\ ComputeCall(d)
    BY DEF ComputeInv, Compute!TypeOK
  <2>3. c \in Compute!CallType /\ c.op = "terminate" /\ ~c.live /\ c.arg = d.arg
    BY <2>1, <2>2 DEF Compute!CallType
  <2> QED BY <2>1, <2>2, <2>3 DEF ComputeCall
<1>3. Compute!TypeOK'
  BY <1>2, ComputeUis DEF ComputeInv, Compute!TypeOK, ComputePageTypes
<1> QED BY <1>2, <1>3 DEF ComputeInv

LEMMA ComputeListPages ==
  ASSUME NEW items \in SUBSET ComputeOf.rows, NEW scope \in Compute!Scopes
  PROVE  Compute!ListPage(items, scope) \in ComputeList
BY DEF ComputeList, Compute!ListPage, Compute!NoFilter
LEMMA ComputePodPages ==
  ASSUME NEW r \in ComputeOf.rows, NEW st \in Compute!Status
  PROVE  Compute!PodPage(r, st) \in ComputePod
BY DEF ComputePod, Compute!PodPage, Compute!Arm, Compute!Cleanup, Compute!InFlight, Compute!Status
LEMMA ComputeShows ==
  ASSUME NEW u \in ComputePod, NEW st \in Compute!Status
  PROVE  Compute!Show(u, st) \in ComputePod
BY DEF ComputePod, Compute!Show, Compute!Arm, Compute!Cleanup

LEMMA ComputeNavigates ==
  ASSUME ComputeInv, Compute!Navigate
  PROVE  ComputeInv'
<1>1. CASE Compute!OpenList
  BY <1>1, ComputeLeft, ComputeListPages
  DEF Compute!OpenList, ComputePageTypes, Compute!Listing, Compute!Scopes, ComputeList
<1>2. ASSUME NEW r \in ComputeOf.rows, Compute!OpenPod(r) PROVE ComputeInv'
  <2>1. gw[r] \in Compute!Status
    BY DEF ComputeInv, Compute!TypeOK
  <2> QED BY <1>2, <2>1, ComputeLeft, ComputePodPages DEF Compute!OpenPod, ComputePageTypes, ComputePod
<1> QED BY <1>1, <1>2 DEF Compute!Navigate

-----------------------------------------------------------------------------
LEMMA ComputeNewCalls ==
  ASSUME NEW op \in Compute!Deleting \cup Compute!Reading \cup {"approve", "reject"},
         NEW arg \in ComputeOf.rows \cup Compute!Scopes
  PROVE  /\ Compute!Call(op, arg) \in Compute!CallType
         /\ Compute!Call(op, arg).op = op /\ Compute!Call(op, arg).arg = arg
         /\ Compute!Call(op, arg).at = "sent" /\ Compute!Call(op, arg).live
BY DEF Compute!Call, Compute!CallType


LEMMA ComputeClicks ==
  ASSUME ComputeInv, ui' \in ComputePageTypes, ui'.route = ui.route, net' = net, gw' = gw,
         ui.route = "list" /\ ui.confirm => ui'.confirm = ui.confirm /\ ui'.selected = ui.selected
  PROVE  ComputeInv'
<1>1. \A c \in net : c.op = "bulk" => ui.route = "list" /\ ui.confirm
  BY DEF ComputeInv, ComputeCall
<1>2. net' \ net = {}
  OBVIOUS
<1>3. \A c \in net : c.op = "bulk" => c \in net' /\ ui'.confirm = ui.confirm /\ ui'.selected = ui.selected
  BY <1>1
<1>4. ComputeOnward
  BY ComputeStill
<1> QED BY <1>2, <1>3, <1>4, ComputeKeeps DEF ComputePageTypes

LEMMA ComputeListSteps ==
  ASSUME ComputeInv, Compute!ListStep
  PROVE  ComputeInv'
<1> USE ConsoleAssumption DEF ComputePageTypes
<1>0. ui.route = "list" => ui \in ComputeList
  BY ComputeRoutes DEF ComputeInv
<1> DEFINE Keeps == /\ ui' \in ComputeList /\ ui.route = "list"
                    /\ ui.confirm => ui'.confirm = ui.confirm /\ ui'.selected = ui.selected
<1>1. ASSUME Keeps, Compute!Stay PROVE ComputeInv'
  BY <1>1, ComputeClicks DEF Compute!Stay, ComputeList
<1> USE DEF Compute!OnList, Compute!NoDialog
<1>2. CASE Compute!ProvidersArrive
  <2>1. Keeps
    BY <1>2, <1>0 DEF Compute!ProvidersArrive, ComputeList
  <2> QED BY <1>2, <2>1, <1>1 DEF Compute!ProvidersArrive
<1>3. CASE Compute!StartSelect
  <2>1. Keeps
    BY <1>3, <1>0 DEF Compute!StartSelect, ComputeList
  <2> QED BY <1>3, <2>1, <1>1 DEF Compute!StartSelect
<1>4. CASE Compute!CancelSelect
  <2>1. Keeps
    BY <1>4, <1>0 DEF Compute!CancelSelect, ComputeList
  <2> QED BY <1>4, <2>1, <1>1 DEF Compute!CancelSelect
<1>5. CASE Compute!SelectVisible
  <2>1. Keeps
    <3>1. PICK s \in {Compute!Visible, {}} : ui' = [ui EXCEPT !.selected = s]
      BY <1>5 DEF Compute!SelectVisible
    <3>2. ui \in ComputeList /\ ui.route = "list"
      BY <1>5, <1>0 DEF Compute!SelectVisible
    <3>3. s \in SUBSET ComputeOf.rows
      BY <3>1, <3>2 DEF Compute!Visible, ComputeList
    <3> QED BY <1>5, <3>1, <3>2, <3>3 DEF Compute!SelectVisible, ComputeList
  <2> QED BY <1>5, <2>1, <1>1 DEF Compute!SelectVisible
<1>6. ASSUME NEW r \in ComputeOf.rows, Compute!Toggle(r) PROVE ComputeInv'
  <2>1. Keeps
    BY <1>6, <1>0 DEF Compute!Toggle, ComputeList
  <2> QED BY <1>6, <2>1, <1>1 DEF Compute!Toggle
<1>7. ASSUME NEW f \in ComputeOf.filters, Compute!SetFilter(f) PROVE ComputeInv'
  <2>1. Keeps
    BY <1>7, <1>0 DEF Compute!SetFilter, ComputeList
  <2> QED BY <1>7, <2>1, <1>1 DEF Compute!SetFilter
<1>8. CASE Compute!AskBulk
  <2>1. Keeps
    BY <1>8, <1>0 DEF Compute!AskBulk, ComputeList
  <2> QED BY <1>8, <2>1, <1>1 DEF Compute!AskBulk
<1>9. ASSUME NEW r \in ComputeOf.rows, Compute!AskSingle(r) PROVE ComputeInv'
  <2>1. Keeps
    BY <1>9, <1>0 DEF Compute!AskSingle, ComputeList
  <2> QED BY <1>9, <2>1, <1>1 DEF Compute!AskSingle
<1>10. CASE Compute!CloseSingle
  <2>1. Keeps
    BY <1>10, <1>0 DEF Compute!CloseSingle, ComputeList
  <2> QED BY <1>10, <2>1, <1>1 DEF Compute!CloseSingle
<1>11. ASSUME net' \subseteq net \cup {Compute!Call("refresh", ui.scope)}, gw' = gw, Keeps,
              \A c \in net : c.op = "bulk" => c \in net'
       PROVE  ComputeInv'
  <2>1. \A c \in net : c.op = "bulk" => ui.confirm
    BY DEF ComputeInv, ComputeCall
  <2>2. \A c \in net' \ net : c \in Compute!CallType /\ ComputeCall(c)' /\ c.op # "bulk"
    BY <1>11, <1>0, ComputeNewCalls DEF ComputeCall, ComputeList, Compute!Scopes, Compute!Reading
  <2>3. \A c \in net : c.op = "bulk" => c \in net' /\ ui'.confirm = ui.confirm /\ ui'.selected = ui.selected
    BY <1>11, <2>1
  <2>4. ComputeOnward /\ ui'.route = ui.route
    BY <1>11, ComputeStill DEF ComputeList
  <2> QED BY <1>11, <2>2, <2>3, <2>4, ComputeKeeps
<1>12. ASSUME NEW s \in Compute!Scopes, Compute!SwitchScope(s) PROVE ComputeInv'
  <2>1. \A c \in net' \ net : c \in Compute!CallType /\ ComputeCall(c)' /\ c.op # "bulk"
    BY <1>12, ComputeNewCalls DEF Compute!SwitchScope, Compute!Refreshed, ComputeCall, Compute!Reading
  <2>2. \A c \in net : c.op = "bulk" => c \in net' /\ ui'.confirm = ui.confirm /\ ui'.selected = ui.selected
    BY <1>12 DEF Compute!SwitchScope, Compute!Refreshed
  <2>3. ui' \in ComputePageTypes /\ ui'.route = ui.route /\ ComputeOnward
    BY <1>12, <1>0, ComputeStill DEF Compute!SwitchScope
  <2> QED BY <2>1, <2>2, <2>3, ComputeKeeps
<1>13. CASE Compute!CloseBulk
  <2>1. ui' \in ComputeList /\ ui'.route = ui.route
    BY <1>13, <1>0 DEF Compute!CloseBulk, ComputeList
  <2>2. \A c \in net : c.op # "bulk"
    BY <1>13 DEF Compute!CloseBulk, Compute!Waiting, Compute!CallsOf, ComputeInv, ComputeCall
  <2>3. net' \ net = {} /\ ComputeOnward
    BY <1>13, ComputeStill DEF Compute!CloseBulk, Compute!Stay
  <2> QED BY <2>1, <2>2, <2>3, ComputeKeeps
<1>14. CASE Compute!DeleteSingle
  <2>1. ui.single \in ComputeOf.rows /\ ui.route = "list"
    BY <1>14, <1>0 DEF Compute!DeleteSingle, ComputeList
  <2>2. \A c \in net' \ net : c \in Compute!CallType /\ ComputeCall(c)' /\ c.op # "bulk"
    BY <1>14, <2>1, ComputeNewCalls DEF Compute!DeleteSingle, Compute!Send, ComputeCall, Compute!Deleting
  <2>3. ui' \in ComputePageTypes /\ ui' = ui /\ ComputeOnward /\ net \subseteq net'
    BY <1>14, <1>0, <2>1, ComputeStill DEF Compute!DeleteSingle, Compute!Send
  <2> QED BY <2>2, <2>3, ComputeKeeps
<1>15. CASE Compute!DeleteSelected
  <2>1. ui.selected \in SUBSET ComputeOf.rows /\ ui.route = "list" /\ ui.confirm
    BY <1>15, <1>0 DEF Compute!DeleteSelected, ComputeList
  <2>2. net' = net \cup {Compute!Call("bulk", r) : r \in ui.selected} /\ ui' = ui /\ gw' = gw
    BY <1>15 DEF Compute!DeleteSelected, Compute!Send
  <2>3. \A r \in ui.selected : LET c == Compute!Call("bulk", r)
                               IN  c \in Compute!CallType /\ c.op = "bulk" /\ c.arg = r /\ ComputeCall(c)'
    BY <2>1, <2>2, ComputeNewCalls DEF ComputeCall, Compute!Deleting
  <2>4. \A c \in net : c \in Compute!CallType /\ ComputeCall(c)'
    BY <2>2 DEF ComputeInv, ComputeCall, Compute!TypeOK
  <2>5. \A c \in net' : c \in Compute!CallType /\ ComputeCall(c)'
    BY <2>2, <2>3, <2>4
  <2>6. \A r \in ui'.selected : \E c \in net' : c.op = "bulk" /\ c.arg = r
    BY <2>2, <2>3
  <2>7. Compute!TypeOK'
    BY <2>2, <2>5 DEF ComputeInv, Compute!TypeOK
  <2> QED BY <2>5, <2>6, <2>7 DEF ComputeInv
<1>16. CASE Compute!BulkSettles
  <2>1. ui.route = "list" /\ ui \in ComputeList
    BY <1>16, <1>0 DEF Compute!BulkSettles, Compute!Waiting, Compute!CallsOf, ComputeInv, ComputeCall
  <2>2. ui' \in ComputeList /\ ui'.route = ui.route /\ gw' = gw
    BY <1>16, <2>1 DEF Compute!BulkSettles, ComputeList
  <2>3. \A c \in net' \ net : c \in Compute!CallType /\ ComputeCall(c)' /\ c.op # "bulk"
    BY <1>16, <2>1, <2>2, ComputeNewCalls
    DEF Compute!BulkSettles, Compute!Refreshed, ComputeCall, Compute!Reading, Compute!Scopes, ComputeList
  <2>4. \A c \in net' : c.op # "bulk"
    <3>1. \A c \in net : c.op = "bulk" => c.live
      BY DEF ComputeInv, ComputeCall
    <3>2. net' \cap net \subseteq net \ Compute!CallsOf("bulk")
      <4>1. ASSUME NEW c \in net', c \in net PROVE c \notin Compute!CallsOf("bulk")
        <5>1. CASE c = Compute!Call("refresh", ui.scope)
          BY <5>1 DEF Compute!Call, Compute!CallsOf
        <5> QED BY <1>16, <5>1 DEF Compute!BulkSettles, Compute!Refreshed
      <4> QED BY <4>1
    <3> QED BY <2>3, <3>1, <3>2 DEF Compute!CallsOf
  <2>5. \A c \in net' : c \in Compute!CallType /\ ComputeCall(c)'
    BY <2>2, <2>3, <2>4 DEF ComputeInv, ComputeCall, Compute!TypeOK
  <2>6. Compute!TypeOK'
    BY <2>2, <2>5, ComputeUis DEF ComputeInv, Compute!TypeOK
  <2> QED BY <2>4, <2>5, <2>6 DEF ComputeInv
<1>17. ASSUME NEW c \in net, Compute!SingleSettles(c) PROVE ComputeInv'
  <2>1. c.op = "delete" /\ ui.route = "list" /\ ui \in ComputeList
    BY <1>17, <1>0 DEF Compute!SingleSettles, Compute!Done, ComputeInv, ComputeCall
  <2>2. Keeps /\ gw' = gw
    BY <1>17, <2>1 DEF Compute!SingleSettles, ComputeList
  <2>3. /\ net' \subseteq net \cup {Compute!Call("refresh", ui.scope)}
        /\ \A d \in net : d.op = "bulk" => d \in net'
    BY <1>17, <2>1 DEF Compute!SingleSettles, Compute!Refreshed
  <2> QED BY <1>11, <2>2, <2>3
<1>18. ASSUME NEW c \in net, NEW items \in {Compute!Listing(c.arg), {}}, Compute!ListArrives(c, items)
       PROVE  ComputeInv'
  <2>1. c.arg \in Compute!Scopes /\ c.op # "bulk"
    BY <1>18 DEF Compute!ListArrives, ComputeInv, ComputeCall
  <2>2. items \in SUBSET ComputeOf.rows
    BY DEF Compute!Listing
  <2>3. CASE ui.route # "list" \/ items = {}
    <3>1. ui' = Compute!ListPage(items, c.arg) /\ net' = Compute!Left /\ gw' = gw
      BY <1>18, <2>3 DEF Compute!ListArrives
    <3>2. ui' \in ComputeList
      BY <2>1, <2>2, <3>1, ComputeListPages
    <3> QED BY <3>1, <3>2, ComputeLeft DEF ComputeList
  <2>4. CASE ui.route = "list" /\ items # {}
    <3>1. ui' = [ui EXCEPT !.items = items, !.scope = c.arg] /\ net' = net \ {c} /\ gw' = gw
      BY <1>18, <2>4 DEF Compute!ListArrives
    <3>2. Keeps
      BY <1>0, <2>1, <2>2, <2>4, <3>1 DEF ComputeList
    <3> QED BY <1>11, <2>1, <3>1, <3>2
  <2> QED BY <2>3, <2>4
<1> QED BY <1>2, <1>3, <1>4, <1>5, <1>6, <1>7, <1>8, <1>9, <1>10, <1>12, <1>13, <1>14, <1>15, <1>16, <1>17, <1>18
        DEF Compute!ListStep

LEMMA ComputePodSteps ==
  ASSUME ComputeInv, Compute!PodStep
  PROVE  ComputeInv'
<1> USE DEF ComputePageTypes
<1>0. ui.route = "pod" => ui \in ComputePod
  BY ComputeRoutes DEF ComputeInv
<1>1. ASSUME gw' = gw, ui' = ui \/ (ui.route = "pod" /\ ui' \in ComputePod),
             \A c \in net' \ net : c \in Compute!CallType /\ ComputeCall(c)' /\ c.op # "bulk",
             \A c \in net : c.op = "bulk" => c \in net'
      PROVE  ComputeInv'
  <2>1. ui' \in ComputePageTypes /\ ui'.route = ui.route /\ ComputeOnward
    BY <1>1, ComputeStill, ComputeRoutes DEF ComputeInv, ComputePod
  <2>2. \A c \in net : c.op = "bulk" => c \in net' /\ ui' = ui
    BY <1>1 DEF ComputeInv, ComputeCall
  <2> QED BY <1>1, <2>1, <2>2, ComputeKeeps
<1>2. CASE Compute!PollTick
  <2>1. \A c \in net' \ net : c \in Compute!CallType /\ ComputeCall(c)' /\ c.op # "bulk"
    BY <1>2, <1>0, ComputeNewCalls DEF Compute!PollTick, Compute!OnPod, ComputeCall, Compute!Reading, ComputePod
  <2> QED BY <1>1, <1>2, <2>1 DEF Compute!PollTick
<1>3. CASE Compute!AskTerminate
  <2>1. ui.route = "pod" /\ ui' \in ComputePod /\ net' = net /\ gw' = gw
    BY <1>3, <1>0 DEF Compute!AskTerminate, Compute!TerminateOffered, Compute!OnPod, Compute!Stay, ComputePod
  <2> QED BY <1>1, <2>1
<1>4. CASE Compute!CloseTerminate
  <2>1. ui.route = "pod" /\ ui' \in ComputePod /\ net' = net /\ gw' = gw
    BY <1>4, <1>0 DEF Compute!CloseTerminate, Compute!OnPod, Compute!Stay, ComputePod
  <2> QED BY <1>1, <2>1
<1>5. CASE Compute!Terminate
  <2>1. ui.route = "pod" /\ ui' \in ComputePod /\ gw' = gw /\ ui.pod \in ComputeOf.rows
    BY <1>5, <1>0 DEF Compute!Terminate, Compute!OnPod, ComputePod
  <2>2. \A c \in net' \ net : c \in Compute!CallType /\ ComputeCall(c)' /\ c.op # "bulk"
    BY <1>5, <2>1, ComputeNewCalls DEF Compute!Terminate, Compute!Send, ComputeCall, Compute!Deleting, ComputePod
  <2> QED BY <1>1, <1>5, <2>1, <2>2 DEF Compute!Terminate, Compute!Send
<1>6. ASSUME NEW c \in net, Compute!PollReply(c) PROVE ComputeInv'
  <2>1. ui.route = "pod" /\ c.op = "poll" /\ (c.at = "ok" => c.val \subseteq Compute!Status)
    BY <1>6 DEF Compute!PollReply, Compute!Done, ComputeInv, ComputeCall
  <2>2. ui' \in ComputePod
    BY <1>6, <1>0, <2>1, ComputeShows DEF Compute!PollReply
  <2> QED BY <1>1, <1>6, <2>1, <2>2 DEF Compute!PollReply
<1>7. ASSUME NEW c \in net, Compute!TerminateSettles(c) PROVE ComputeInv'
  <2>1. ui.route \in {"list", "pod"} /\ (c.live => ui.route = "pod") /\ c.op = "terminate" /\ gw' = gw
    BY <1>7 DEF Compute!TerminateSettles, ComputeInv, ComputeCall
  <2>2. ui' = ui \/ (ui.route = "pod" /\ ui' \in ComputePod)
    BY <1>7, <1>0, <2>1 DEF Compute!TerminateSettles, ComputePod
  <2>3. ui'.route = ui.route
    BY <2>1, <2>2 DEF ComputePod
  <2>4. \A d \in net' \ net : d \in Compute!CallType /\ ComputeCall(d)' /\ d.op # "bulk"
    BY <1>7, <2>1, <2>3, ComputeNewCalls DEF Compute!TerminateSettles, ComputeCall, Compute!Reading, Compute!Scopes
  <2>5. \A d \in net : d.op = "bulk" => d \in net'
    BY <1>7, <2>1 DEF Compute!TerminateSettles
  <2> QED BY <1>1, <2>1, <2>2, <2>4, <2>5
<1> QED BY <1>2, <1>3, <1>4, <1>5, <1>6, <1>7 DEF Compute!PodStep

LEMMA ComputeAdminSteps ==
  ASSUME ComputeInv, Compute!AdminStep
  PROVE  ComputeInv'
<1> USE DEF ComputePageTypes
<1> DEFINE Admins(u) == u \in ComputeApprovals \cup ComputeLive
<1>0. /\ ui.route = "approvals" => ui \in ComputeApprovals
      /\ ui.route = "provisioned" => ui \in ComputeLive
  BY ComputeRoutes DEF ComputeInv
<1>1. ASSUME gw' = gw, Admins(ui), Admins(ui'), ui'.route = ui.route,
             \A c \in net' \ net : c \in Compute!CallType /\ ComputeCall(c)' /\ c.op # "bulk"
      PROVE  ComputeInv'
  <2>1. \A c \in net : c.op # "bulk"
    BY <1>1 DEF ComputeInv, ComputeCall, ComputeApprovals, ComputeLive
  <2> QED BY <1>1, <2>1, ComputeStill, ComputeKeeps
<1>2. CASE Compute!CloseReject
  <2>1. Admins(ui) /\ Admins(ui') /\ ui'.route = ui.route
    BY <1>2, <1>0 DEF Compute!CloseReject, Compute!OnApprovals, ComputeApprovals
  <2> QED BY <1>1, <1>2, <2>1 DEF Compute!CloseReject, Compute!Stay
<1>3. CASE Compute!Reject
  <2>1. Admins(ui) /\ Admins(ui') /\ ui'.route = ui.route /\ ui.route = "approvals" /\ ui.rejecting \in ComputeOf.rows
    BY <1>3, <1>0 DEF Compute!Reject, Compute!OnApprovals, ComputeApprovals
  <2>2. \A c \in net' \ net : c \in Compute!CallType /\ ComputeCall(c)' /\ c.op # "bulk"
    BY <1>3, <2>1, ComputeNewCalls DEF Compute!Reject, Compute!Send, ComputeCall
  <2> QED BY <1>1, <1>3, <2>1, <2>2 DEF Compute!Reject
<1>4. CASE Compute!Reload
  <2>1. \A c \in net' \ net : c \in Compute!CallType /\ ComputeCall(c)' /\ c.op # "bulk"
    BY <1>4, ComputeNewCalls DEF Compute!Reload, Compute!OnProvisioned, ComputeCall, Compute!Reading, Compute!Scopes
  <2> QED BY <1>1, <1>4, <1>0, <2>1 DEF Compute!Reload, Compute!OnProvisioned
<1>5. CASE Compute!CloseRemove
  <2>1. Admins(ui) /\ Admins(ui') /\ ui'.route = ui.route
    BY <1>5, <1>0 DEF Compute!CloseRemove, Compute!OnProvisioned, ComputeLive
  <2> QED BY <1>1, <1>5, <2>1 DEF Compute!CloseRemove, Compute!Stay
<1>6. CASE Compute!Remove
  <2>1. Admins(ui) /\ ui.route = "provisioned" /\ ui.confirm \in ComputeOf.rows /\ ui' = ui /\ gw' = gw
    BY <1>6, <1>0 DEF Compute!Remove, Compute!OnProvisioned, ComputeLive
  <2>2. \A c \in net' \ net : c \in Compute!CallType /\ ComputeCall(c)' /\ c.op # "bulk"
    BY <1>6, <2>1, ComputeNewCalls DEF Compute!Remove, Compute!Send, ComputeCall, Compute!Deleting
  <2> QED BY <1>1, <2>1, <2>2
<1>7. ASSUME NEW r \in ComputeOf.rows, Compute!Approve(r) PROVE ComputeInv'
  <2>1. Admins(ui) /\ Admins(ui') /\ ui'.route = ui.route /\ ui.route = "approvals"
    BY <1>7, <1>0 DEF Compute!Approve, Compute!OnApprovals, ComputeApprovals
  <2>2. \A c \in net' \ net : c \in Compute!CallType /\ ComputeCall(c)' /\ c.op # "bulk"
    BY <1>7, <2>1, ComputeNewCalls DEF Compute!Approve, Compute!Send, ComputeCall
  <2> QED BY <1>1, <1>7, <2>1, <2>2 DEF Compute!Approve
<1>8. ASSUME NEW r \in ComputeOf.rows, Compute!AskReject(r) PROVE ComputeInv'
  <2>1. Admins(ui) /\ Admins(ui') /\ ui'.route = ui.route
    BY <1>8, <1>0 DEF Compute!AskReject, Compute!OnApprovals, ComputeApprovals
  <2> QED BY <1>1, <1>8, <2>1 DEF Compute!AskReject, Compute!Stay
<1>9. ASSUME NEW r \in ComputeOf.rows, Compute!AskRemove(r) PROVE ComputeInv'
  <2>1. Admins(ui) /\ Admins(ui') /\ ui'.route = ui.route
    BY <1>9, <1>0 DEF Compute!AskRemove, Compute!OnProvisioned, ComputeLive
  <2> QED BY <1>1, <1>9, <2>1 DEF Compute!AskRemove, Compute!Stay
<1>10. ASSUME NEW c \in net, Compute!ApproveSettles(c) \/ Compute!RejectSettles(c) PROVE ComputeInv'
  <2>1. ui.route = "approvals" /\ ui \in ComputeApprovals
    BY <1>10, <1>0 DEF Compute!ApproveSettles, Compute!RejectSettles, Compute!Done, ComputeInv, ComputeCall
  <2>2. ui' \in ComputeApprovals
    BY <1>10, <2>1 DEF Compute!ApproveSettles, Compute!RejectSettles, ComputeApprovals
  <2>3. ui'.route = ui.route /\ net' \ net = {} /\ gw' = gw
    BY <1>10, <2>1, <2>2 DEF Compute!ApproveSettles, Compute!RejectSettles, ComputeApprovals
  <2> QED BY <1>1, <2>1, <2>2, <2>3
<1>11. ASSUME NEW c \in net, Compute!ReloadArrives(c) \/ Compute!RemoveSettles(c) PROVE ComputeInv'
  <2>1. ui.route = "provisioned" /\ ui \in ComputeLive /\ (c.op = "reload" /\ c.at = "ok" => c.val \in SUBSET ComputeOf.rows)
    BY <1>11, <1>0 DEF Compute!ReloadArrives, Compute!RemoveSettles, Compute!Done, ComputeInv, ComputeCall
  <2>2. ui' \in ComputeLive
    BY <1>11, <2>1, ZenonT(60) DEF Compute!ReloadArrives, Compute!RemoveSettles, Compute!Done, ComputeLive
  <2>3. ui'.route = ui.route /\ net' \ net = {} /\ gw' = gw
    BY <1>11, <2>1, <2>2 DEF Compute!ReloadArrives, Compute!RemoveSettles, ComputeLive
  <2> QED BY <1>1, <2>1, <2>2, <2>3
<1> QED BY <1>2, <1>3, <1>4, <1>5, <1>6, <1>7, <1>8, <1>9, <1>10, <1>11 DEF Compute!AdminStep

\* What the gateway makes of a call it serves.
LEMMA ComputeAnswer ==
  ASSUME ComputeOnward, ui' = ui, NEW c, ComputeCall(c),
         NEW d, d.op = c.op, d.arg = c.arg, d.live = c.live,
         c.op = "poll" => d.val \subseteq Compute!Status,
         c.op = "reload" => d.val \subseteq ComputeOf.rows,
         c.op \in Compute!Deleting => gw'[c.arg] = "terminated",
         c.op \in {"approve", "reject"} => gw'[c.arg] # "pending_approval"
  PROVE  ComputeCall(d)'
BY DEF ComputeCall, Compute!Deleting

LEMMA ComputeGatewaySteps ==
  ASSUME ComputeInv, Compute!GatewayStep
  PROVE  ComputeInv'
<1> USE DEF ComputePageTypes
<1>0. ui \in ComputePageTypes
  BY ComputeRoutes DEF ComputeInv
<1>1. ASSUME UNCHANGED <<ui, net>>, ComputeOnward PROVE ComputeInv'
  BY <1>0, <1>1, ComputeKeeps
<1>2. ASSUME NEW r \in ComputeOf.rows, Compute!Provision(r) \/ Compute!Decide(r) \/ Compute!DeleteElsewhere(r)
      PROVE  ComputeInv'
  <2>1. ComputeOnward
    BY <1>2 DEF Compute!Provision, Compute!Decide, Compute!DeleteElsewhere, Compute!Set, Compute!Status, ComputeOnward,
                ComputeInv, Compute!TypeOK
  <2> QED BY <1>1, <1>2, <2>1 DEF Compute!Provision, Compute!Decide, Compute!DeleteElsewhere
\* A call served or failed is the same call with its answer.
<1>3. ASSUME NEW c \in net, NEW at \in {"ok", "failed"}, NEW v \in {None} \cup SUBSET (ComputeOf.rows \cup Compute!Status),
             NEW d, d = [c EXCEPT !.at = at, !.val = v], net' = (net \ {c}) \cup {d}, ui' = ui, ComputeOnward,
             ComputeCall(d)'
      PROVE  ComputeInv'
  <2>1. c \in Compute!CallType /\ ComputeCall(c)
    BY DEF ComputeInv, Compute!TypeOK
  <2>2. d \in Compute!CallType /\ d.op = c.op /\ d.arg = c.arg
    BY <1>3, <2>1 DEF Compute!CallType
  <2>3. \A e \in net' : e \in Compute!CallType /\ ComputeCall(e)'
    <3>1. ASSUME NEW e \in net PROVE e \in Compute!CallType /\ ComputeCall(e)'
      <4>1. e \in Compute!CallType /\ ComputeCall(e)
        BY DEF ComputeInv, Compute!TypeOK
      <4> QED BY <1>3, <4>1 DEF ComputeCall, ComputeOnward
    <3> QED BY <1>3, <2>2, <3>1
  <2>4. ASSUME NEW e \in net', e.op = "bulk", NEW r \in ui'.selected PROVE \E f \in net' : f.op = "bulk" /\ f.arg = r
    <3>1. \E f \in net : f.op = "bulk"
      BY <1>3, <2>2, <2>4
    <3>2. PICK f \in net : f.op = "bulk" /\ f.arg = r
      BY <1>3, <2>4, <3>1 DEF ComputeInv
    <3> QED BY <1>3, <2>2, <3>2
  <2>5. Compute!TypeOK'
    BY <1>3, <2>3 DEF ComputeInv, Compute!TypeOK, ComputeOnward
  <2> QED BY <2>3, <2>4, <2>5 DEF ComputeInv
<1>4. ASSUME NEW c \in net, Compute!Serve(c) PROVE ComputeInv'
  <2>0. PICK d : d = [c EXCEPT !.at = "ok", !.val = Compute!Answer(c)]
    OBVIOUS
  <2>1. c \in Compute!CallType /\ ComputeCall(c) /\ gw \in [ComputeOf.rows -> Compute!Status]
    BY DEF ComputeInv, Compute!TypeOK
  <2>2. /\ Compute!Answer(c) \in {None} \cup SUBSET (ComputeOf.rows \cup Compute!Status)
        /\ c.op = "poll" => Compute!Answer(c) \subseteq Compute!Status
        /\ c.op = "reload" => Compute!Answer(c) \subseteq ComputeOf.rows
    BY <2>1 DEF Compute!Answer, Compute!Billing, Compute!Listing, ComputeCall
  <2>3. /\ ComputeOnward
        /\ c.op \in Compute!Deleting => gw'[c.arg] = "terminated"
        /\ c.op \in {"approve", "reject"} => gw'[c.arg] # "pending_approval"
    BY <1>4, ComputeEffect DEF Compute!Serve
  <2>4. d.op = c.op /\ d.arg = c.arg /\ d.val = Compute!Answer(c) /\ d.at = "ok" /\ d.live = c.live
    BY <2>0, <2>1 DEF Compute!CallType
  <2>5. ui' = ui /\ net' = (net \ {c}) \cup {d}
    BY <1>4, <2>0 DEF Compute!Serve, Compute!Answered
  <2>6. ComputeCall(d)'
    BY <2>1, <2>2, <2>3, <2>4, <2>5, ComputeAnswer
  <2> QED BY <1>3, <2>0, <2>2, <2>3, <2>5, <2>6
<1>5. ASSUME NEW c \in net, Compute!Fail(c) PROVE ComputeInv'
  <2> DEFINE d == [c EXCEPT !.at = "failed"]
  <2>1. c \in Compute!CallType /\ ComputeCall(c)
    BY DEF ComputeInv, Compute!TypeOK
  <2>2. ComputeOnward
    BY <1>5, ComputeEffect, ComputeStill DEF Compute!Fail
  <2>3. d = [c EXCEPT !.at = "failed", !.val = c.val] /\ d.op = c.op /\ d.arg = c.arg /\ d.at = "failed" /\ d.live = c.live
    BY <2>1 DEF Compute!CallType
  <2>4. ui' = ui /\ net' = (net \ {c}) \cup {d} /\ c.val \in {None} \cup SUBSET (ComputeOf.rows \cup Compute!Status)
    BY <1>5, <2>1 DEF Compute!Fail, Compute!Failed, Compute!CallType
  <2>5. ComputeCall(d)'
    BY <2>1, <2>3, <2>4 DEF ComputeCall
  <2> QED BY <1>3, <2>2, <2>3, <2>4, <2>5
<1> QED BY <1>2, <1>4, <1>5 DEF Compute!GatewayStep

LEMMA ComputeNext == ComputeInv /\ Compute!Next => ComputeInv'
BY ComputeNavigates, ComputeListSteps, ComputePodSteps, ComputeAdminSteps, ComputeGatewaySteps DEF Compute!Next

\* A row that leaves the approvals page has been decided.
LEMMA ComputeUndecidedStays == ComputeInv /\ Compute!Next => Compute!UndecidedStays
<1> SUFFICES ASSUME ComputeInv, Compute!Next, ui.route = "approvals", ui'.route = "approvals",
                    NEW r \in ui.items, r \notin ui'.items
             PROVE  gw[r] # "pending_approval"
  BY DEF Compute!UndecidedStays
<1>0. ui \in ComputeApprovals
  BY ComputeRoutes DEF ComputeInv
<1>1. \A c \in net : ComputeCall(c)
  BY DEF ComputeInv
<1>2. CASE Compute!Navigate
  BY <1>2 DEF Compute!Navigate, Compute!OpenList, Compute!OpenPod
<1>3. CASE Compute!ListStep
  <2>1. \A c \in net : ~Compute!SingleSettles(c) /\ \A items : ~Compute!ListArrives(c, items)
    BY <1>1 DEF ComputeCall, Compute!SingleSettles, Compute!Done, Compute!ListArrives
  <2>2. ~Compute!BulkSettles
    BY <1>1 DEF ComputeCall, Compute!BulkSettles, Compute!Waiting, Compute!CallsOf
  <2> QED BY <1>3, <2>1, <2>2
          DEF Compute!ListStep, Compute!ProvidersArrive, Compute!StartSelect, Compute!CancelSelect, Compute!SelectVisible,
              Compute!AskBulk, Compute!CloseBulk, Compute!DeleteSelected, Compute!CloseSingle, Compute!DeleteSingle,
              Compute!SetFilter, Compute!SwitchScope, Compute!Toggle, Compute!AskSingle, Compute!OnList
<1>4. CASE Compute!PodStep
  <2>1. \A c \in net : ~Compute!PollReply(c) /\ ~Compute!TerminateSettles(c)
    BY <1>1 DEF ComputeCall, Compute!PollReply, Compute!Done, Compute!TerminateSettles
  <2> QED BY <1>4, <2>1 DEF Compute!PodStep, Compute!PollTick, Compute!AskTerminate, Compute!TerminateOffered,
              Compute!CloseTerminate, Compute!Terminate, Compute!OnPod
<1>5. CASE Compute!AdminStep
  <2>1. ASSUME NEW c \in net, Compute!ApproveSettles(c) \/ Compute!RejectSettles(c) PROVE gw[r] # "pending_approval"
    <3>1. c.at = "ok" /\ r = c.arg
      BY <1>0, <2>1, ZenonT(60) DEF Compute!ApproveSettles, Compute!RejectSettles, ComputeApprovals
    <3> QED BY <1>1, <2>1, <3>1 DEF ComputeCall, Compute!ApproveSettles, Compute!RejectSettles, Compute!Done
  <2>2. \A c \in net : ~Compute!ReloadArrives(c) /\ ~Compute!RemoveSettles(c)
    BY <1>1 DEF ComputeCall, Compute!ReloadArrives, Compute!RemoveSettles, Compute!Done
  <2>3. CASE Compute!CloseReject \/ Compute!Reject \/ \E s \in ComputeOf.rows : Compute!Approve(s) \/ Compute!AskReject(s)
    BY <1>0, <2>3 DEF Compute!CloseReject, Compute!Reject, Compute!Approve, Compute!AskReject, ComputeApprovals
  <2> QED BY <1>5, <2>1, <2>2, <2>3
          DEF Compute!AdminStep, Compute!Reload, Compute!CloseRemove, Compute!Remove, Compute!AskRemove, Compute!OnProvisioned
<1>6. CASE Compute!GatewayStep
  BY <1>6
     DEF Compute!GatewayStep, Compute!Serve, Compute!Fail, Compute!Provision, Compute!Decide, Compute!DeleteElsewhere
<1> QED BY <1>2, <1>3, <1>4, <1>5, <1>6 DEF Compute!Next

\* The selection is only dropped under a running deletion when that deletion
\* settles with every call answered.
LEMMA ComputeBulkEndsWell == ComputeInv /\ Compute!Next => Compute!BulkEndsWell
<1> SUFFICES ASSUME ComputeInv, Compute!Next, Compute!Waiting("bulk"), ui.route = "list", ui'.route = "list",
                    ui'.items # {}, ui'.selected = {}, NEW r \in ui.selected
             PROVE  gw[r] = "terminated"
  BY DEF Compute!BulkEndsWell
<1>0. ui \in ComputeList
  BY ComputeRoutes DEF ComputeInv
<1>1. PICK b \in net : b.op = "bulk" /\ b.live
  BY DEF Compute!Waiting, Compute!CallsOf
<1>2. ui.confirm /\ ~Compute!NoDialog
  BY <1>0, <1>1, ConsoleAssumption DEF ComputeInv, ComputeCall, Compute!NoDialog, ComputeList
<1>3. ui.selected # {}
  OBVIOUS
<1>4. PICK c \in net : c.op = "bulk" /\ c.arg = r
  BY <1>1 DEF ComputeInv
<1>5. CASE Compute!BulkSettles
  <2>1. Compute!Failures = {}
    BY <1>3, <1>5 DEF Compute!BulkSettles
  <2>2. c.live /\ c \in Compute!CallType /\ ComputeCall(c)
    BY <1>4 DEF ComputeInv, ComputeCall, Compute!TypeOK
  <2>3. c.at = "ok"
    BY <1>4, <1>5, <2>1, <2>2 DEF Compute!BulkSettles, Compute!CallsOf, Compute!Failures, Compute!CallType
  <2> QED BY <1>4, <2>2, <2>3 DEF ComputeCall
<1>6. CASE ui'.selected = ui.selected
  BY <1>3, <1>6
<1>7. CASE Compute!Navigate
  BY <1>2, <1>7 DEF Compute!Navigate, Compute!OpenList, Compute!OpenPod
<1>8. CASE Compute!ListStep
  <2>1. ASSUME NEW d \in net, NEW items, Compute!ListArrives(d, items) PROVE FALSE
    <3>1. CASE items = {}
      <4>1. ui' = Compute!ListPage({}, d.arg)
        BY <2>1, <3>1 DEF Compute!ListArrives
      <4>2. ui'.items = {}
        BY <4>1 DEF Compute!ListPage
      <4> QED BY <4>2
    <3>2. CASE items # {}
      BY <1>0, <1>3, <2>1, <3>2 DEF Compute!ListArrives, ComputeList
    <3> QED BY <3>1, <3>2
  <2>2. \A d \in net : Compute!SingleSettles(d) => ui'.selected = ui.selected
    BY <1>0 DEF Compute!SingleSettles, ComputeList
  <2>3. CASE Compute!ProvidersArrive \/ Compute!CloseBulk \/ Compute!CloseSingle \/ Compute!DeleteSingle \/ Compute!DeleteSelected
             \/ \E s \in Compute!Scopes : Compute!SwitchScope(s)
    BY <1>0, <1>6, <2>3 DEF Compute!ProvidersArrive, Compute!CloseBulk, Compute!CloseSingle, Compute!DeleteSingle,
       Compute!DeleteSelected, Compute!SwitchScope, ComputeList
  <2> QED BY <1>2, <1>5, <1>6, <1>8, <2>1, <2>2, <2>3
          DEF Compute!ListStep, Compute!StartSelect, Compute!CancelSelect, Compute!SelectVisible, Compute!AskBulk,
              Compute!SetFilter, Compute!Toggle, Compute!AskSingle
<1>9. CASE Compute!PodStep
  <2>1. \A d \in net : ~Compute!PollReply(d)
    BY DEF ComputeInv, ComputeCall, Compute!PollReply, Compute!Done
  <2>2. \A d \in net : Compute!TerminateSettles(d) => ui' = ui
    BY DEF ComputeInv, ComputeCall, Compute!TerminateSettles
  <2> QED BY <1>6, <1>9, <2>1, <2>2
     DEF Compute!PodStep, Compute!PollTick, Compute!AskTerminate, Compute!TerminateOffered,
              Compute!CloseTerminate, Compute!Terminate, Compute!OnPod
<1>10. CASE Compute!AdminStep
  <2>1. \A d \in net : ~Compute!ApproveSettles(d) /\ ~Compute!RejectSettles(d) /\ ~Compute!ReloadArrives(d)
                       /\ ~Compute!RemoveSettles(d)
    BY DEF ComputeInv, ComputeCall, Compute!ApproveSettles, Compute!RejectSettles, Compute!ReloadArrives,
           Compute!RemoveSettles, Compute!Done
  <2> QED BY <1>10, <2>1
     DEF Compute!AdminStep, Compute!CloseReject, Compute!Reject, Compute!Reload, Compute!CloseRemove,
              Compute!Remove, Compute!Approve, Compute!AskReject, Compute!AskRemove, Compute!OnApprovals, Compute!OnProvisioned
<1>11. CASE Compute!GatewayStep
  BY <1>6, <1>11
     DEF Compute!GatewayStep, Compute!Serve, Compute!Fail, Compute!Provision, Compute!Decide, Compute!DeleteElsewhere
<1> QED BY <1>7, <1>8, <1>9, <1>10, <1>11 DEF Compute!Next

-----------------------------------------------------------------------------
(* The benchmark pages *)

BenchesList == [route: {"benches"}, scope: Benchmarks!Scopes, items: SUBSET BenchmarksOf.benches,
                filter: SUBSET BenchmarksOf.benches, select: BOOLEAN, selected: SUBSET BenchmarksOf.benches,
                confirm: BOOLEAN, single: BenchmarksOf.benches \cup {None}]
BenchesPage == [route: {"bench"}, bench: BenchmarksOf.visited, shown: Benchmarks!Status \ {"gone"},
                dialog: {"delete", "terminate", None}]
BenchesPageTypes == BenchesList \cup BenchesPage

LEMMA BenchesRoutes ==
  ASSUME Benchmarks!TypeOK
  PROVE  /\ ui.route \in {"benches", "bench"}
         /\ ui.route = "benches" => ui \in BenchesList
         /\ ui.route = "bench" => ui \in BenchesPage
BY DEF Benchmarks!TypeOK, Benchmarks!UiType, BenchesList, BenchesPage

LEMMA BenchesUis == ASSUME NEW u \in BenchesPageTypes PROVE u \in Benchmarks!UiType
BY DEF Benchmarks!UiType, BenchesList, BenchesPage, BenchesPageTypes

\* Whose page a call is of, and what it is about.
BenchesCall(c) ==
  /\ c.op \notin Benchmarks!Navigating => c.arg \in BenchmarksOf.benches
  /\ c.op \in Benchmarks!Navigating => c.arg \in Benchmarks!Scopes
  /\ c.op \in {"bulk", "delete"} => ui.route = "benches"
  /\ c.op \in {"poll", "terminate", "fetch"} => ui.route = "bench"
  /\ ~c.live => c.op = "erase"
  /\ c.at = "ok" => /\ c.op \in {"poll", "fetch"} => c.val \in Benchmarks!Status \ {"gone"}
                    /\ c.op = "bulk" => gw[c.arg] = "gone"
  /\ c.op = "bulk" => ui.confirm /\ c.arg \in ui.selected
BenchesInv ==
  /\ Benchmarks!TypeOK
  /\ \A c \in net : BenchesCall(c)
  /\ (\E c \in net : c.op = "bulk") => \A b \in ui.selected : \E c \in net : c.op = "bulk" /\ c.arg = b

LEMMA BenchesListPages ==
  ASSUME NEW items \in SUBSET BenchmarksOf.benches, NEW scope \in Benchmarks!Scopes
  PROVE  Benchmarks!ListPage(items, scope) \in BenchesList
BY DEF BenchesList, Benchmarks!ListPage
LEMMA BenchesInit == Benchmarks!Init => BenchesInv
<1> SUFFICES ASSUME Benchmarks!Init PROVE BenchesInv
  OBVIOUS
<1>1. ui \in BenchesList
  BY BenchesListPages DEF Benchmarks!Init, Benchmarks!Listing, Benchmarks!Scopes
<1> QED BY <1>1, BenchesUis DEF Benchmarks!Init, BenchesInv, Benchmarks!TypeOK, BenchesPageTypes

\* No benchmark that is gone comes back.
BenchesOnward == /\ gw' \in [BenchmarksOf.benches -> Benchmarks!Status]
                 /\ \A b \in BenchmarksOf.benches : gw[b] = "gone" => gw'[b] = "gone"
LEMMA BenchesStill == ASSUME BenchesInv, gw' = gw PROVE BenchesOnward
BY DEF BenchesOnward, BenchesInv, Benchmarks!TypeOK
LEMMA BenchesEffect ==
  ASSUME BenchesInv, NEW c \in net, c.op \notin Benchmarks!Navigating, Benchmarks!Accepts(c), gw' = Benchmarks!Effect(c)
  PROVE  BenchesOnward /\ (c.op = "bulk" => gw'[c.arg] = "gone")
<1>1. c.arg \in BenchmarksOf.benches /\ gw \in [BenchmarksOf.benches -> Benchmarks!Status]
  BY DEF BenchesInv, BenchesCall, Benchmarks!TypeOK
<1>2. CASE c.op \in {"bulk", "delete", "erase"}
  BY <1>1, <1>2 DEF BenchesOnward, Benchmarks!Effect, Benchmarks!Set, Benchmarks!Status
<1>3. CASE c.op = "terminate"
  BY <1>1, <1>3 DEF BenchesOnward, Benchmarks!Effect, Benchmarks!Set, Benchmarks!Status, Benchmarks!Accepts,
     Benchmarks!InFlight, Benchmarks!Finished
<1>4. CASE c.op \notin {"bulk", "delete", "erase", "terminate"}
  BY <1>1, <1>4 DEF BenchesOnward, Benchmarks!Effect
<1> QED BY <1>2, <1>3, <1>4

LEMMA BenchesKeeps ==
  ASSUME BenchesInv, BenchesOnward, ui' \in BenchesPageTypes, ui'.route = ui.route,
         \A c \in net' \ net : c \in Benchmarks!CallType /\ BenchesCall(c)' /\ c.op # "bulk",
         \A c \in net : c.op = "bulk" => /\ c \in net'
                                         /\ ui'.confirm = ui.confirm /\ ui'.selected = ui.selected
  PROVE  BenchesInv'
<1>1. Benchmarks!TypeOK'
  BY BenchesUis DEF BenchesInv, BenchesOnward, Benchmarks!TypeOK
<1>2. ASSUME NEW c \in net' PROVE BenchesCall(c)'
  <2>1. CASE c \notin net
    BY <2>1
  <2>2. CASE c \in net
    <3>1. BenchesCall(c)
      BY <2>2 DEF BenchesInv
    <3>2. c.op = "bulk" => ui'.confirm = ui.confirm /\ ui'.selected = ui.selected
      BY <2>2
    <3> QED BY <3>1, <3>2 DEF BenchesCall, BenchesOnward, Benchmarks!Navigating
  <2> QED BY <2>1, <2>2
<1>3. (\E c \in net : c.op = "bulk")' => (\A b \in ui.selected : \E c \in net : c.op = "bulk" /\ c.arg = b)'
  BY DEF BenchesInv
<1> QED BY <1>1, <1>2, <1>3 DEF BenchesInv

LEMMA BenchesLeft ==
  ASSUME BenchesInv, gw' = gw, ui' \in BenchesPageTypes, net' = Benchmarks!Left
  PROVE  BenchesInv'
<1>1. \A c \in net' : c \in Benchmarks!CallType /\ c.op = "erase" /\ ~c.live /\ BenchesCall(c)'
  <2> SUFFICES ASSUME NEW c \in net' PROVE c \in Benchmarks!CallType /\ c.op = "erase" /\ ~c.live /\ BenchesCall(c)'
    OBVIOUS
  <2>1. PICK d \in net : d.op = "erase" /\ c = [d EXCEPT !.live = FALSE]
    BY DEF Benchmarks!Left, Benchmarks!Orphans
  <2>2. d \in Benchmarks!CallType /\ BenchesCall(d)
    BY DEF BenchesInv, Benchmarks!TypeOK
  <2>3. c \in Benchmarks!CallType /\ c.op = "erase" /\ ~c.live /\ c.arg = d.arg
    BY <2>1, <2>2 DEF Benchmarks!CallType
  <2> QED BY <2>1, <2>2, <2>3 DEF BenchesCall, Benchmarks!Navigating
<1>2. Benchmarks!TypeOK'
  BY <1>1, BenchesUis DEF BenchesInv, Benchmarks!TypeOK
<1> QED BY <1>1, <1>2 DEF BenchesInv

LEMMA BenchesNewCalls ==
  ASSUME NEW op \in {"bulk", "delete", "erase", "terminate", "fetch", "poll"} \cup Benchmarks!Navigating,
         NEW arg \in BenchmarksOf.benches \cup Benchmarks!Scopes
  PROVE  /\ Benchmarks!Call(op, arg) \in Benchmarks!CallType
         /\ Benchmarks!Call(op, arg).op = op /\ Benchmarks!Call(op, arg).arg = arg
         /\ Benchmarks!Call(op, arg).at = "sent" /\ Benchmarks!Call(op, arg).live
BY DEF Benchmarks!Call, Benchmarks!CallType

LEMMA BenchesClicks ==
  ASSUME BenchesInv, ui' \in BenchesPageTypes, ui'.route = ui.route, net' = net, gw' = gw,
         ui.route = "benches" /\ ui.confirm => ui'.confirm = ui.confirm /\ ui'.selected = ui.selected
  PROVE  BenchesInv'
<1>1. \A c \in net : c.op = "bulk" => ui.route = "benches" /\ ui.confirm
  BY DEF BenchesInv, BenchesCall
<1>2. \A c \in net : c.op = "bulk" => c \in net' /\ ui'.confirm = ui.confirm /\ ui'.selected = ui.selected
  BY <1>1
<1>3. BenchesOnward
  BY BenchesStill
<1> QED BY <1>2, <1>3, BenchesKeeps

LEMMA BenchesListSteps ==
  ASSUME BenchesInv, Benchmarks!ListStep
  PROVE  BenchesInv'
<1> USE DEF BenchesPageTypes
<1>0. ui.route = "benches" => ui \in BenchesList
  BY BenchesRoutes DEF BenchesInv
<1> DEFINE Keeps == /\ ui' \in BenchesList /\ ui.route = "benches"
                    /\ ui.confirm => ui'.confirm = ui.confirm /\ ui'.selected = ui.selected
<1>1. ASSUME Keeps, Benchmarks!Stay PROVE BenchesInv'
  BY <1>1, BenchesClicks DEF Benchmarks!Stay, BenchesList
<1> USE DEF Benchmarks!OnList, Benchmarks!NoDialog
<1>2. CASE Benchmarks!OpenList
  <2>1. PICK items \in {Benchmarks!Listing("mine"), {}} : ui' = Benchmarks!ListPage(items, "mine")
    BY <1>2 DEF Benchmarks!OpenList
  <2>2. items \in SUBSET BenchmarksOf.benches /\ "mine" \in Benchmarks!Scopes
    BY <2>1 DEF Benchmarks!Listing, Benchmarks!Scopes
  <2>3. ui' \in BenchesPageTypes
    BY <2>1, <2>2, BenchesListPages
  <2> QED BY <1>2, <2>3, BenchesLeft DEF Benchmarks!OpenList
<1>3. CASE Benchmarks!StartSelect
  <2>1. Keeps
    BY <1>3, <1>0 DEF Benchmarks!StartSelect, BenchesList
  <2> QED BY <1>3, <2>1, <1>1 DEF Benchmarks!StartSelect
<1>4. CASE Benchmarks!CancelSelect
  <2>1. Keeps
    BY <1>4, <1>0 DEF Benchmarks!CancelSelect, BenchesList
  <2> QED BY <1>4, <2>1, <1>1 DEF Benchmarks!CancelSelect
<1>5. CASE Benchmarks!SelectVisible
  <2>1. Keeps
    <3>1. PICK s \in {Benchmarks!Visible, {}} : ui' = [ui EXCEPT !.selected = s]
      BY <1>5 DEF Benchmarks!SelectVisible
    <3>2. ui \in BenchesList /\ ui.route = "benches"
      BY <1>5, <1>0 DEF Benchmarks!SelectVisible
    <3>3. s \in SUBSET BenchmarksOf.benches
      BY <3>1, <3>2 DEF Benchmarks!Visible, BenchesList
    <3> QED BY <1>5, <3>1, <3>2, <3>3 DEF Benchmarks!SelectVisible, BenchesList
  <2> QED BY <1>5, <2>1, <1>1 DEF Benchmarks!SelectVisible
<1>6. ASSUME NEW b \in BenchmarksOf.benches, Benchmarks!Toggle(b) PROVE BenchesInv'
  <2>1. Keeps
    BY <1>6, <1>0 DEF Benchmarks!Toggle, BenchesList
  <2> QED BY <1>6, <2>1, <1>1 DEF Benchmarks!Toggle
<1>7. ASSUME NEW f \in BenchmarksOf.filters, Benchmarks!SetFilter(f) PROVE BenchesInv'
  <2>1. Keeps
    BY <1>7, <1>0, ConsoleAssumption DEF Benchmarks!ConstantsOK, Benchmarks!SetFilter, BenchesList
  <2> QED BY <1>7, <2>1, <1>1 DEF Benchmarks!SetFilter
<1>8. CASE Benchmarks!AskBulk
  <2>1. Keeps
    BY <1>8, <1>0 DEF Benchmarks!AskBulk, BenchesList
  <2> QED BY <1>8, <2>1, <1>1 DEF Benchmarks!AskBulk
<1>9. ASSUME NEW b \in BenchmarksOf.benches, Benchmarks!AskSingle(b) PROVE BenchesInv'
  <2>1. Keeps
    BY <1>9, <1>0 DEF Benchmarks!AskSingle, BenchesList
  <2> QED BY <1>9, <2>1, <1>1 DEF Benchmarks!AskSingle
<1>10. CASE Benchmarks!CloseSingle
  <2>1. Keeps
    BY <1>10, <1>0 DEF Benchmarks!CloseSingle, BenchesList
  <2> QED BY <1>10, <2>1, <1>1 DEF Benchmarks!CloseSingle
<1>11. ASSUME net' \subseteq net \cup {Benchmarks!Call("refresh", ui.scope)}, gw' = gw, Keeps,
              \A c \in net : c.op = "bulk" => c \in net'
       PROVE  BenchesInv'
  <2>1. \A c \in net : c.op = "bulk" => ui.confirm
    BY DEF BenchesInv, BenchesCall
  <2>2. \A c \in net' \ net : c \in Benchmarks!CallType /\ BenchesCall(c)' /\ c.op # "bulk"
    BY <1>11, <1>0, BenchesNewCalls DEF BenchesCall, BenchesList, Benchmarks!Scopes, Benchmarks!Navigating
  <2>3. \A c \in net : c.op = "bulk" => c \in net' /\ ui'.confirm = ui.confirm /\ ui'.selected = ui.selected
    BY <1>11, <2>1
  <2>4. BenchesOnward /\ ui'.route = ui.route
    BY <1>11, BenchesStill DEF BenchesList
  <2> QED BY <1>11, <2>2, <2>3, <2>4, BenchesKeeps
<1>12. ASSUME NEW s \in Benchmarks!Scopes, Benchmarks!SwitchScope(s) PROVE BenchesInv'
  <2>1. \A c \in net' \ net : c \in Benchmarks!CallType /\ BenchesCall(c)' /\ c.op # "bulk"
    BY <1>12, BenchesNewCalls DEF Benchmarks!SwitchScope, Benchmarks!Refreshed, BenchesCall, Benchmarks!Navigating
  <2>2. \A c \in net : c.op = "bulk" => c \in net' /\ ui'.confirm = ui.confirm /\ ui'.selected = ui.selected
    BY <1>12 DEF Benchmarks!SwitchScope, Benchmarks!Refreshed, Benchmarks!Navigating
  <2>3. ui' \in BenchesPageTypes /\ ui'.route = ui.route /\ BenchesOnward
    BY <1>12, <1>0, BenchesStill DEF Benchmarks!SwitchScope
  <2> QED BY <2>1, <2>2, <2>3, BenchesKeeps
<1>13. CASE Benchmarks!CloseBulk
  <2>1. ui' \in BenchesList /\ ui'.route = ui.route
    BY <1>13, <1>0 DEF Benchmarks!CloseBulk, BenchesList
  <2>2. \A c \in net : c.op # "bulk"
    BY <1>13 DEF Benchmarks!CloseBulk, Benchmarks!Waiting, Benchmarks!CallsOf, BenchesInv, BenchesCall
  <2>3. net' \ net = {} /\ BenchesOnward
    BY <1>13, BenchesStill DEF Benchmarks!CloseBulk, Benchmarks!Stay
  <2> QED BY <2>1, <2>2, <2>3, BenchesKeeps
<1>14. CASE Benchmarks!DeleteSingle
  <2>1. ui.single \in BenchmarksOf.benches /\ ui.route = "benches"
    BY <1>14, <1>0 DEF Benchmarks!DeleteSingle, BenchesList
  <2>2. \A c \in net' \ net : c \in Benchmarks!CallType /\ BenchesCall(c)' /\ c.op # "bulk"
    BY <1>14, <2>1, BenchesNewCalls DEF Benchmarks!DeleteSingle, Benchmarks!Send, BenchesCall, Benchmarks!Navigating
  <2>3. ui' \in BenchesPageTypes /\ ui' = ui /\ BenchesOnward /\ net \subseteq net'
    BY <1>14, <1>0, <2>1, BenchesStill DEF Benchmarks!DeleteSingle, Benchmarks!Send
  <2> QED BY <2>2, <2>3, BenchesKeeps
<1>15. CASE Benchmarks!DeleteSelected
  <2>1. ui.selected \in SUBSET BenchmarksOf.benches /\ ui.route = "benches" /\ ui.confirm
    BY <1>15, <1>0 DEF Benchmarks!DeleteSelected, BenchesList
  <2>2. net' = net \cup {Benchmarks!Call("bulk", b) : b \in ui.selected} /\ ui' = ui /\ gw' = gw
    BY <1>15 DEF Benchmarks!DeleteSelected, Benchmarks!Send
  <2>3. \A b \in ui.selected : LET c == Benchmarks!Call("bulk", b)
                               IN  c \in Benchmarks!CallType /\ c.op = "bulk" /\ c.arg = b /\ BenchesCall(c)'
    BY <2>1, <2>2, BenchesNewCalls DEF BenchesCall, Benchmarks!Navigating
  <2>4. \A c \in net : c \in Benchmarks!CallType /\ BenchesCall(c)'
    BY <2>2 DEF BenchesInv, BenchesCall, Benchmarks!TypeOK
  <2>5. \A c \in net' : c \in Benchmarks!CallType /\ BenchesCall(c)'
    BY <2>2, <2>3, <2>4
  <2>6. \A b \in ui'.selected : \E c \in net' : c.op = "bulk" /\ c.arg = b
    BY <2>2, <2>3
  <2>7. Benchmarks!TypeOK'
    BY <2>2, <2>5 DEF BenchesInv, Benchmarks!TypeOK
  <2> QED BY <2>5, <2>6, <2>7 DEF BenchesInv
<1>16. CASE Benchmarks!BulkSettles
  <2>1. ui.route = "benches" /\ ui \in BenchesList
    BY <1>16, <1>0 DEF Benchmarks!BulkSettles
  <2>2. ui' \in BenchesList /\ ui'.route = ui.route /\ gw' = gw
    BY <1>16, <2>1 DEF Benchmarks!BulkSettles, BenchesList
  <2>3. \A c \in net' \ net : c \in Benchmarks!CallType /\ BenchesCall(c)' /\ c.op # "bulk"
    BY <1>16, <2>1, <2>2, BenchesNewCalls
    DEF Benchmarks!BulkSettles, Benchmarks!Refreshed, BenchesCall, Benchmarks!Navigating, Benchmarks!Scopes, BenchesList
  <2>4. \A c \in net' : c.op # "bulk"
    <3>1. \A c \in net : c.op = "bulk" => c.live
      BY DEF BenchesInv, BenchesCall
    <3>2. net' \cap net \subseteq net \ Benchmarks!CallsOf("bulk")
      <4>1. ASSUME NEW c \in net', c \in net PROVE c \notin Benchmarks!CallsOf("bulk")
        <5>1. CASE c = Benchmarks!Call("refresh", ui.scope)
          BY <5>1 DEF Benchmarks!Call, Benchmarks!CallsOf
        <5> QED BY <1>16, <5>1 DEF Benchmarks!BulkSettles, Benchmarks!Refreshed
      <4> QED BY <4>1
    <3> QED BY <2>3, <3>1, <3>2 DEF Benchmarks!CallsOf
  <2>5. \A c \in net' : c \in Benchmarks!CallType /\ BenchesCall(c)'
    BY <2>2, <2>3, <2>4 DEF BenchesInv, BenchesCall, Benchmarks!TypeOK
  <2>6. Benchmarks!TypeOK'
    BY <2>2, <2>5, BenchesUis DEF BenchesInv, Benchmarks!TypeOK
  <2> QED BY <2>4, <2>5, <2>6 DEF BenchesInv
<1>17. ASSUME NEW c \in net, Benchmarks!SingleSettles(c) PROVE BenchesInv'
  <2>1. c.op = "delete" /\ ui.route = "benches" /\ ui \in BenchesList
    BY <1>17, <1>0 DEF Benchmarks!SingleSettles, Benchmarks!Done, BenchesInv, BenchesCall
  <2>2. Keeps /\ gw' = gw
    BY <1>17, <2>1 DEF Benchmarks!SingleSettles, BenchesList
  <2>3. /\ net' \subseteq net \cup {Benchmarks!Call("refresh", ui.scope)}
        /\ \A d \in net : d.op = "bulk" => d \in net'
    BY <1>17, <2>1 DEF Benchmarks!SingleSettles, Benchmarks!Refreshed, Benchmarks!Navigating
  <2> QED BY <1>11, <2>2, <2>3
<1>18. ASSUME NEW c \in net, NEW items \in {Benchmarks!Listing(c.arg), {}}, Benchmarks!ListArrives(c, items)
       PROVE  BenchesInv'
  <2>1. c.arg \in Benchmarks!Scopes /\ c.op # "bulk"
    BY <1>18 DEF Benchmarks!ListArrives, BenchesInv, BenchesCall, Benchmarks!Navigating
  <2>2. items \in SUBSET BenchmarksOf.benches
    BY DEF Benchmarks!Listing
  <2>3. CASE ui.route # "benches" \/ items = {}
    <3>1. ui' = Benchmarks!ListPage(items, c.arg) /\ net' = Benchmarks!Left /\ gw' = gw
      BY <1>18, <2>3 DEF Benchmarks!ListArrives
    <3>2. ui' \in BenchesList
      BY <2>1, <2>2, <3>1, BenchesListPages
    <3> QED BY <3>1, <3>2, BenchesLeft DEF BenchesList
  <2>4. CASE ui.route = "benches" /\ items # {}
    <3>1. ui' = [ui EXCEPT !.items = items, !.scope = c.arg] /\ net' = net \ {c} /\ gw' = gw
      BY <1>18, <2>4 DEF Benchmarks!ListArrives
    <3>2. Keeps
      BY <1>0, <2>1, <2>2, <2>4, <3>1 DEF BenchesList
    <3> QED BY <1>11, <2>1, <3>1, <3>2
  <2> QED BY <2>3, <2>4
<1>19. ASSUME NEW b \in BenchmarksOf.benches, Benchmarks!OpenBench(b) PROVE BenchesInv'
  <2>1. gw[b] \in Benchmarks!Status \ {"gone"} /\ b \in BenchmarksOf.visited
    BY <1>19 DEF Benchmarks!OpenBench, BenchesInv, Benchmarks!TypeOK
  <2>2. ui' \in BenchesPageTypes
    BY <1>19, <2>1 DEF Benchmarks!OpenBench, Benchmarks!Page, BenchesPage
  <2> QED BY <1>19, <2>2, BenchesLeft DEF Benchmarks!OpenBench
<1> QED BY <1>2, <1>3, <1>4, <1>5, <1>6, <1>7, <1>8, <1>9, <1>10, <1>12, <1>13, <1>14, <1>15, <1>16, <1>17, <1>18, <1>19
        DEF Benchmarks!ListStep

LEMMA BenchesPageSteps ==
  ASSUME BenchesInv, Benchmarks!BenchStep
  PROVE  BenchesInv'
<1> USE DEF BenchesPageTypes
<1>0. ui.route = "bench" => ui \in BenchesPage /\ ui.bench \in BenchmarksOf.benches
  BY BenchesRoutes, ConsoleAssumption DEF Benchmarks!ConstantsOK, BenchesInv, BenchesPage
<1>1. ASSUME gw' = gw, ui' = ui \/ (ui.route = "bench" /\ ui' \in BenchesPage),
             \A c \in net' \ net : c \in Benchmarks!CallType /\ BenchesCall(c)' /\ c.op # "bulk",
             \A c \in net : c.op = "bulk" => c \in net'
      PROVE  BenchesInv'
  <2>1. ui' \in BenchesPageTypes /\ ui'.route = ui.route /\ BenchesOnward
    BY <1>1, BenchesStill, BenchesRoutes DEF BenchesInv, BenchesPage
  <2>2. \A c \in net : c.op = "bulk" => c \in net' /\ ui' = ui
    BY <1>1 DEF BenchesInv, BenchesCall
  <2> QED BY <1>1, <2>1, <2>2, BenchesKeeps
<1> USE DEF Benchmarks!OnBench
<1>2. ASSUME NEW op \in {"poll", "erase", "terminate"}, ui.route = "bench", UNCHANGED <<ui, gw>>,
             net' = net \cup {Benchmarks!Call(op, ui.bench)}
      PROVE  BenchesInv'
  <2>1. \A c \in net' \ net : c \in Benchmarks!CallType /\ BenchesCall(c)' /\ c.op # "bulk"
    BY <1>2, <1>0, BenchesNewCalls DEF BenchesCall, Benchmarks!Navigating
  <2> QED BY <1>1, <1>2, <2>1
<1>3. CASE Benchmarks!PollTick
  BY <1>2, <1>3 DEF Benchmarks!PollTick
<1>4. CASE Benchmarks!Delete
  BY <1>2, <1>4 DEF Benchmarks!Delete, Benchmarks!Send
<1>5. CASE Benchmarks!Terminate
  BY <1>2, <1>5 DEF Benchmarks!Terminate, Benchmarks!Send
<1>6. CASE Benchmarks!AskDelete \/ Benchmarks!AskTerminate \/ Benchmarks!CloseDialog
  <2>1. ui.route = "bench" /\ ui' \in BenchesPage /\ net' = net /\ gw' = gw
    BY <1>6, <1>0
       DEF Benchmarks!AskDelete, Benchmarks!AskTerminate, Benchmarks!CloseDialog, Benchmarks!Stay, BenchesPage
  <2> QED BY <1>1, <2>1
<1>7. ASSUME NEW c \in net, Benchmarks!PollReply(c) \/ Benchmarks!FetchReply(c) PROVE BenchesInv'
  <2>1. ui.route = "bench" /\ c.op \in {"poll", "fetch"} /\ (c.at = "ok" => c.val \in Benchmarks!Status \ {"gone"})
    BY <1>7 DEF Benchmarks!PollReply, Benchmarks!FetchReply, Benchmarks!Done, BenchesInv, BenchesCall
  <2>2. ui' \in BenchesPage
    BY <1>7, <1>0, <2>1 DEF Benchmarks!PollReply, Benchmarks!FetchReply, BenchesPage
  <2>3. net' = net \ {c} /\ gw' = gw
    BY <1>7 DEF Benchmarks!PollReply, Benchmarks!FetchReply
  <2> QED BY <1>1, <2>1, <2>2, <2>3
<1>8. ASSUME NEW c \in net, Benchmarks!DeleteSettles(c) PROVE BenchesInv'
  <2>1. c.op = "erase" /\ ui' = ui /\ gw' = gw
    BY <1>8 DEF Benchmarks!DeleteSettles
  <2>2. \A d \in net' \ net : d \in Benchmarks!CallType /\ BenchesCall(d)' /\ d.op # "bulk"
    BY <1>8, <2>1, BenchesNewCalls DEF Benchmarks!DeleteSettles, BenchesCall, Benchmarks!Navigating, Benchmarks!Scopes
  <2>3. \A d \in net : d.op = "bulk" => d \in net'
    BY <1>8, <2>1 DEF Benchmarks!DeleteSettles, Benchmarks!Navigating
  <2> QED BY <1>1, <2>1, <2>2, <2>3
<1>9. ASSUME NEW c \in net, Benchmarks!TerminateSettles(c) PROVE BenchesInv'
  <2>1. ui.route = "bench" /\ c.op = "terminate" /\ gw' = gw
    BY <1>9 DEF Benchmarks!TerminateSettles, Benchmarks!Done, BenchesInv, BenchesCall
  <2>2. ui' \in BenchesPage
    BY <1>9, <1>0, <2>1 DEF Benchmarks!TerminateSettles, BenchesPage
  <2>3. \A d \in net' \ net : d \in Benchmarks!CallType /\ BenchesCall(d)' /\ d.op # "bulk"
    BY <1>9, <1>0, <2>1, <2>2, BenchesNewCalls
       DEF Benchmarks!TerminateSettles, BenchesCall, Benchmarks!Navigating, BenchesPage
  <2>4. \A d \in net : d.op = "bulk" => d \in net'
    BY <1>9, <2>1 DEF Benchmarks!TerminateSettles
  <2> QED BY <1>1, <2>1, <2>2, <2>3, <2>4
<1> QED BY <1>3, <1>4, <1>5, <1>6, <1>7, <1>8, <1>9 DEF Benchmarks!BenchStep

\* A call served or failed is the same call with its answer.
LEMMA BenchesAnswer ==
  ASSUME BenchesInv, BenchesOnward, ui' = ui, NEW c \in net, NEW at \in {"ok", "failed"},
         NEW v \in {None} \cup Benchmarks!Status, NEW d, d = [c EXCEPT !.at = at, !.val = v],
         net' = (net \ {c}) \cup {d},
         at = "ok" /\ c.op \in {"poll", "fetch"} => v # "gone" /\ v \in Benchmarks!Status,
         at = "ok" /\ c.op = "bulk" => gw'[c.arg] = "gone"
  PROVE  BenchesInv'
<1>1. c \in Benchmarks!CallType /\ BenchesCall(c)
  BY DEF BenchesInv, Benchmarks!TypeOK
<1>2. d \in Benchmarks!CallType /\ d.op = c.op /\ d.arg = c.arg /\ d.at = at /\ d.val = v /\ d.live = c.live
  BY <1>1 DEF Benchmarks!CallType
<1>3. BenchesCall(d)'
  BY <1>1, <1>2 DEF BenchesCall
<1>4. ASSUME NEW e \in net PROVE e \in Benchmarks!CallType /\ BenchesCall(e)'
  <2>1. e \in Benchmarks!CallType /\ BenchesCall(e)
    BY DEF BenchesInv, Benchmarks!TypeOK
  <2> QED BY <2>1 DEF BenchesCall, BenchesOnward, Benchmarks!Navigating
<1>5. ASSUME NEW e \in net', e.op = "bulk", NEW b \in ui'.selected PROVE \E f \in net' : f.op = "bulk" /\ f.arg = b
  <2>1. \E f \in net : f.op = "bulk"
    BY <1>2, <1>5
  <2>2. PICK f \in net : f.op = "bulk" /\ f.arg = b
    BY <1>5, <2>1 DEF BenchesInv
  <2> QED BY <1>2, <2>2
<1>6. Benchmarks!TypeOK'
  BY <1>2, <1>4 DEF BenchesInv, Benchmarks!TypeOK, BenchesOnward
<1> QED BY <1>2, <1>3, <1>4, <1>5, <1>6 DEF BenchesInv

LEMMA BenchesGatewaySteps ==
  ASSUME BenchesInv, Benchmarks!GatewayStep
  PROVE  BenchesInv'
<1>0. ui \in BenchesPageTypes
  BY BenchesRoutes DEF BenchesInv, BenchesPageTypes
<1>1. ASSUME NEW b \in BenchmarksOf.benches, Benchmarks!Run(b) \/ Benchmarks!EndElsewhere(b) PROVE BenchesInv'
  <2>1. BenchesOnward /\ UNCHANGED <<ui, net>>
    BY <1>1 DEF Benchmarks!Run, Benchmarks!EndElsewhere, Benchmarks!Set, Benchmarks!Status, Benchmarks!InFlight,
                Benchmarks!Finished, BenchesOnward, BenchesInv, Benchmarks!TypeOK
  <2> QED BY <1>0, <2>1, BenchesKeeps
<1>2. ASSUME NEW c \in net, Benchmarks!Serve(c) PROVE BenchesInv'
  <2> DEFINE v == IF c.op \in {"poll", "fetch"} THEN gw[c.arg] ELSE None
  <2>1. BenchesOnward /\ (c.op = "bulk" => gw'[c.arg] = "gone")
    BY <1>2, BenchesEffect DEF Benchmarks!Serve
  <2>2. v \in {None} \cup Benchmarks!Status /\ (c.op \in {"poll", "fetch"} => v # "gone" /\ v \in Benchmarks!Status)
    BY <1>2 DEF Benchmarks!Serve, Benchmarks!Accepts, BenchesInv, BenchesCall, Benchmarks!TypeOK, Benchmarks!Navigating
  <2>3. PICK d : d = [c EXCEPT !.at = "ok", !.val = v]
    OBVIOUS
  <2>4. net' = (net \ {c}) \cup {d} /\ ui' = ui
    BY <1>2, <2>3 DEF Benchmarks!Serve, Benchmarks!Answered
  <2> HIDE DEF v
  <2> QED BY <2>1, <2>2, <2>3, <2>4, BenchesAnswer
<1>3. ASSUME NEW c \in net, Benchmarks!Fail(c) PROVE BenchesInv'
  <2>1. BenchesOnward
    BY <1>3, BenchesEffect, BenchesStill DEF Benchmarks!Fail
  <2>2. c \in Benchmarks!CallType
    BY DEF BenchesInv, Benchmarks!TypeOK
  <2>3. PICK d : d = [c EXCEPT !.at = "failed", !.val = c.val]
    OBVIOUS
  <2>4. d = [c EXCEPT !.at = "failed"] /\ c.val \in {None} \cup Benchmarks!Status
    BY <2>2, <2>3 DEF Benchmarks!CallType
  <2>5. net' = (net \ {c}) \cup {d} /\ ui' = ui
    BY <1>3, <2>4 DEF Benchmarks!Fail, Benchmarks!Failed
  <2> QED BY <2>1, <2>3, <2>4, <2>5, BenchesAnswer
<1> QED BY <1>1, <1>2, <1>3 DEF Benchmarks!GatewayStep

LEMMA BenchesNext == BenchesInv /\ Benchmarks!Next => BenchesInv'
BY BenchesListSteps, BenchesPageSteps, BenchesGatewaySteps DEF Benchmarks!Next

\* The selection is only dropped under a running deletion when that deletion
\* settles with every call answered.
LEMMA BenchesBulkEndsWell == BenchesInv /\ Benchmarks!Next => Benchmarks!BulkEndsWell
<1> SUFFICES ASSUME BenchesInv, Benchmarks!Next, Benchmarks!Waiting("bulk"), ui.route = "benches", ui'.route = "benches",
                    ui'.items # {}, ui'.selected = {}, NEW b \in ui.selected
             PROVE  gw[b] = "gone"
  BY DEF Benchmarks!BulkEndsWell
<1>0. ui \in BenchesList
  BY BenchesRoutes DEF BenchesInv
<1>1. PICK a \in net : a.op = "bulk" /\ a.live
  BY DEF Benchmarks!Waiting, Benchmarks!CallsOf
<1>2. ui.confirm /\ ~Benchmarks!NoDialog
  BY <1>0, <1>1 DEF BenchesInv, BenchesCall, Benchmarks!NoDialog
<1>3. ui.selected # {}
  OBVIOUS
<1>4. PICK c \in net : c.op = "bulk" /\ c.arg = b
  BY <1>1 DEF BenchesInv
<1>5. CASE Benchmarks!BulkSettles
  <2>1. c.live /\ c \in Benchmarks!CallType /\ BenchesCall(c)
    BY <1>4 DEF BenchesInv, BenchesCall, Benchmarks!TypeOK
  <2>2. c.at = "ok"
    BY <1>3, <1>4, <1>5, <2>1 DEF Benchmarks!BulkSettles, Benchmarks!CallsOf, Benchmarks!CallType
  <2> QED BY <1>4, <2>1, <2>2 DEF BenchesCall
<1>6. CASE ui'.selected = ui.selected
  BY <1>3, <1>6
<1>7. CASE Benchmarks!ListStep
  <2>1. ASSUME NEW d \in net, NEW items, Benchmarks!ListArrives(d, items) PROVE FALSE
    <3>1. CASE items = {}
      <4>1. ui' = Benchmarks!ListPage({}, d.arg)
        BY <2>1, <3>1 DEF Benchmarks!ListArrives
      <4>2. ui'.items = {}
        BY <4>1 DEF Benchmarks!ListPage
      <4> QED BY <4>2
    <3>2. CASE items # {}
      BY <1>0, <1>3, <2>1, <3>2 DEF Benchmarks!ListArrives, BenchesList
    <3> QED BY <3>1, <3>2
  <2>2. \A d \in net : Benchmarks!SingleSettles(d) => ui'.selected = ui.selected
    BY <1>0 DEF Benchmarks!SingleSettles, BenchesList
  <2>3. CASE Benchmarks!CloseBulk \/ Benchmarks!CloseSingle \/ Benchmarks!DeleteSingle \/ Benchmarks!DeleteSelected
             \/ \E s \in Benchmarks!Scopes : Benchmarks!SwitchScope(s)
    BY <1>0, <1>6, <2>3 DEF Benchmarks!CloseBulk, Benchmarks!CloseSingle, Benchmarks!DeleteSingle,
       Benchmarks!DeleteSelected, Benchmarks!SwitchScope, BenchesList
  <2> QED BY <1>2, <1>5, <1>6, <1>7, <2>1, <2>2, <2>3
          DEF Benchmarks!ListStep, Benchmarks!OpenList, Benchmarks!StartSelect, Benchmarks!CancelSelect,
              Benchmarks!SelectVisible, Benchmarks!AskBulk, Benchmarks!SetFilter, Benchmarks!Toggle, Benchmarks!AskSingle,
              Benchmarks!OpenBench
<1>8. CASE Benchmarks!BenchStep
  <2>1. \A d \in net : ~Benchmarks!PollReply(d) /\ ~Benchmarks!FetchReply(d) /\ ~Benchmarks!TerminateSettles(d)
    BY
       DEF BenchesInv, BenchesCall, Benchmarks!PollReply, Benchmarks!FetchReply, Benchmarks!TerminateSettles, Benchmarks!Done
  <2> QED BY <1>6, <1>8, <2>1
     DEF Benchmarks!BenchStep, Benchmarks!PollTick, Benchmarks!AskDelete, Benchmarks!AskTerminate,
              Benchmarks!CloseDialog, Benchmarks!Delete, Benchmarks!Terminate, Benchmarks!DeleteSettles, Benchmarks!OnBench
<1>9. CASE Benchmarks!GatewayStep
  BY <1>6, <1>9 DEF Benchmarks!GatewayStep, Benchmarks!Serve, Benchmarks!Fail, Benchmarks!Run, Benchmarks!EndElsewhere
<1> QED BY <1>7, <1>8, <1>9 DEF Benchmarks!Next

-----------------------------------------------------------------------------
(* The endpoints *)

EndpointsGrid == [route: {"grid"}, scope: {"mine", "all"}, items: SUBSET EndpointsOf.apps,
                  match: EndpointsOf.filters \cup {EndpointsOf.apps}, select: BOOLEAN, selected: SUBSET EndpointsOf.apps,
                  confirm: BOOLEAN, single: EndpointsOf.apps \cup {None}]
EndpointsPage == [route: {"endpoint"}, app: EndpointsOf.apps, props: Endpoints!Settings, tab: {"overview", "another"},
                  confirm: BOOLEAN, scale: Endpoints!CardType(EndpointsOf.scales \cup {EndpointsOf.bad}),
                  args: Endpoints!CardType(EndpointsOf.args \cup {EndpointsOf.bad}), restart: BOOLEAN]
EndpointsFailing == [route: {"failing"}, app: EndpointsOf.apps]
EndpointsPages == EndpointsGrid \cup EndpointsPage \cup EndpointsFailing

LEMMA EndpointsRoutes ==
  ASSUME Endpoints!TypeOK
  PROVE  /\ ui.route \in {"grid", "endpoint", "failing"} /\ ui \in EndpointsPages
         /\ ui.route = "grid" => ui \in EndpointsGrid
         /\ ui.route = "endpoint" => ui \in EndpointsPage
         /\ ui.route = "failing" => ui \in EndpointsFailing
BY DEF Endpoints!TypeOK, Endpoints!UiType, EndpointsGrid, EndpointsPage, EndpointsFailing, EndpointsPages

LEMMA EndpointsUis == ASSUME NEW u \in EndpointsPages PROVE u \in Endpoints!UiType
BY DEF Endpoints!UiType, EndpointsGrid, EndpointsPage, EndpointsFailing, EndpointsPages

\* What a call is about, and while its component is there, whose page it is of.
EndpointsCall(c) ==
  /\ c.op \in {"bulk", "delete", "remove", "restart"} => c.arg \in EndpointsOf.apps
  /\ c.op = "scale" => c.arg \in [app: EndpointsOf.apps, value: EndpointsOf.scales]
  /\ c.op = "args" => c.arg \in [app: EndpointsOf.apps, value: EndpointsOf.args]
  /\ c.op = "bulk" /\ c.at = "ok" => gw[c.arg] = None
  /\ c.live => /\ c.op \in {"bulk", "delete"} => ui.route = "grid"
               /\ c.op \in {"scale", "args", "restart"} => ui.route = "endpoint"
               /\ c.op = "bulk" => ui.confirm /\ c.arg \in ui.selected
EndpointsInv ==
  /\ Endpoints!TypeOK
  /\ \A c \in net : EndpointsCall(c)
  /\ (\E c \in net : c.op = "bulk" /\ c.live)
       => \A a \in ui.selected : \E c \in net : c.op = "bulk" /\ c.live /\ c.arg = a

LEMMA EndpointsGridPages ==
  ASSUME NEW items \in SUBSET EndpointsOf.apps
  PROVE  Endpoints!GridPage("mine", items) \in EndpointsGrid
BY DEF EndpointsGrid, Endpoints!GridPage
LEMMA EndpointsOnePages ==
  ASSUME NEW a \in EndpointsOf.apps, NEW props \in Endpoints!Settings
  PROVE  Endpoints!EndpointPage(a, props) \in EndpointsPage
BY DEF EndpointsPage, Endpoints!EndpointPage, Endpoints!Card, Endpoints!CardType, Endpoints!Settings
LEMMA EndpointsFailings == ASSUME NEW a \in EndpointsOf.apps PROVE Endpoints!Failing(a) \in EndpointsFailing
BY DEF EndpointsFailing, Endpoints!Failing

LEMMA EndpointsInit == Endpoints!Init => EndpointsInv
<1> SUFFICES ASSUME Endpoints!Init PROVE EndpointsInv
  OBVIOUS
<1>1. ui \in EndpointsPages
  BY EndpointsGridPages DEF Endpoints!Init, Endpoints!Listing, Endpoints!Here, EndpointsPages
<1> QED BY <1>1, EndpointsUis DEF Endpoints!Init, EndpointsInv, Endpoints!TypeOK

\* No endpoint that is gone comes back.
EndpointsOnward == /\ gw' \in [EndpointsOf.apps -> Endpoints!Settings \cup {None}]
                   /\ \A a \in EndpointsOf.apps : gw[a] = None => gw'[a] = None
LEMMA EndpointsStill == ASSUME EndpointsInv, gw' = gw PROVE EndpointsOnward
BY DEF EndpointsOnward, EndpointsInv, Endpoints!TypeOK
LEMMA EndpointsEffect ==
  ASSUME EndpointsInv, NEW c \in net, Endpoints!Target(c) \in Endpoints!Here, gw' = Endpoints!Effect(c)
  PROVE  EndpointsOnward /\ (c.op = "bulk" => gw'[c.arg] = None)
<1>1. EndpointsCall(c) /\ gw \in [EndpointsOf.apps -> Endpoints!Settings \cup {None}]
  BY DEF EndpointsInv, Endpoints!TypeOK
<1>2. CASE c.op \in {"bulk", "delete", "remove"}
  <2>1. c.arg \in EndpointsOf.apps
    BY <1>1, <1>2 DEF EndpointsCall
  <2>2. gw' = [gw EXCEPT ![c.arg] = None]
    BY <1>2 DEF Endpoints!Effect, Endpoints!Cards
  <2> QED BY <1>1, <2>1, <2>2 DEF EndpointsOnward
<1>3. CASE c.op = "scale"
  <2>1. c.arg.app \in EndpointsOf.apps /\ gw[c.arg.app] \in Endpoints!Settings /\ c.arg.value \in EndpointsOf.scales
        /\ gw[c.arg.app] # None
    BY <1>1, <1>3 DEF Endpoints!Target, Endpoints!Cards, Endpoints!Here, EndpointsCall
  <2>2. [gw[c.arg.app] EXCEPT !["scale"] = c.arg.value] \in Endpoints!Settings
    BY <2>1 DEF Endpoints!Settings
  <2>3. gw' = [gw EXCEPT ![c.arg.app] = [gw[c.arg.app] EXCEPT !["scale"] = c.arg.value]]
    BY <1>1, <1>3, <2>1 DEF Endpoints!Effect, Endpoints!Cards
  <2> QED BY <1>1, <1>3, <2>1, <2>2, <2>3 DEF EndpointsOnward
<1>4. CASE c.op = "args"
  <2>1. c.arg.app \in EndpointsOf.apps /\ gw[c.arg.app] \in Endpoints!Settings /\ c.arg.value \in EndpointsOf.args
        /\ gw[c.arg.app] # None
    BY <1>1, <1>4 DEF Endpoints!Target, Endpoints!Cards, Endpoints!Here, EndpointsCall
  <2>2. [gw[c.arg.app] EXCEPT !["args"] = c.arg.value] \in Endpoints!Settings
    BY <2>1 DEF Endpoints!Settings
  <2>3. gw' = [gw EXCEPT ![c.arg.app] = [gw[c.arg.app] EXCEPT !["args"] = c.arg.value]]
    BY <1>1, <1>4, <2>1 DEF Endpoints!Effect, Endpoints!Cards
  <2> QED BY <1>1, <1>4, <2>1, <2>2, <2>3 DEF EndpointsOnward
<1>5. CASE c.op \notin {"bulk", "delete", "remove", "scale", "args"}
  BY <1>1, <1>5 DEF EndpointsOnward, Endpoints!Effect, Endpoints!Cards
<1> QED BY <1>2, <1>3, <1>4, <1>5

LEMMA EndpointsKeeps ==
  ASSUME EndpointsInv, EndpointsOnward, ui' \in EndpointsPages, ui'.route = ui.route,
         \A c \in net' \ net : c \in Endpoints!CallType /\ EndpointsCall(c)' /\ ~(c.op = "bulk" /\ c.live),
         \A c \in net : c.op = "bulk" /\ c.live => /\ c \in net'
                                                   /\ ui'.confirm = ui.confirm /\ ui'.selected = ui.selected
  PROVE  EndpointsInv'
<1>1. Endpoints!TypeOK'
  BY EndpointsUis DEF EndpointsInv, EndpointsOnward, Endpoints!TypeOK
<1>2. ASSUME NEW c \in net' PROVE EndpointsCall(c)'
  <2>1. CASE c \notin net
    BY <2>1
  <2>2. CASE c \in net
    <3>1. EndpointsCall(c)
      BY <2>2 DEF EndpointsInv
    <3>2. c.op = "bulk" /\ c.live => ui'.confirm = ui.confirm /\ ui'.selected = ui.selected
      BY <2>2
    <3> QED BY <3>1, <3>2 DEF EndpointsCall, EndpointsOnward
  <2> QED BY <2>1, <2>2
<1>3. (\E c \in net : c.op = "bulk" /\ c.live)'
      => (\A a \in ui.selected : \E c \in net : c.op = "bulk" /\ c.live /\ c.arg = a)'
  BY DEF EndpointsInv
<1> QED BY <1>1, <1>2, <1>3 DEF EndpointsInv

\* What is heard of the calls of a page that is left.
LEMMA EndpointsHeard ==
  ASSUME NEW calls, NEW c \in Endpoints!Heard(calls)
  PROVE  c \in calls \/ c = Endpoints!Refreshing
BY DEF Endpoints!Heard
LEMMA EndpointsHeardLive ==
  ASSUME NEW calls, NEW c \in calls, c.live
  PROVE  c \in Endpoints!Heard(calls)
BY DEF Endpoints!Heard
LEMMA EndpointsRefreshing ==
  /\ Endpoints!Refreshing \in Endpoints!CallType
  /\ Endpoints!Refreshing.op = "refresh" /\ ~Endpoints!Refreshing.live
BY DEF Endpoints!Refreshing, Endpoints!Call, Endpoints!CallType
LEMMA EndpointsOrphans ==
  ASSUME EndpointsInv, gw' = gw, NEW calls \in SUBSET net, NEW c \in Endpoints!Heard(Endpoints!Orphans(calls))
  PROVE  c \in Endpoints!CallType /\ EndpointsCall(c)' /\ ~c.live
<1>1. CASE c = Endpoints!Refreshing
  BY <1>1, EndpointsRefreshing DEF EndpointsCall
<1>2. CASE c # Endpoints!Refreshing
  <2>1. PICK d \in net : c = [d EXCEPT !.live = FALSE]
    BY <1>2, EndpointsHeard DEF Endpoints!Orphans
  <2>2. d \in Endpoints!CallType /\ EndpointsCall(d)
    BY DEF EndpointsInv, Endpoints!TypeOK
  <2>3. c \in Endpoints!CallType /\ c.op = d.op /\ c.arg = d.arg /\ c.at = d.at /\ ~c.live
    BY <2>1, <2>2 DEF Endpoints!CallType
  <2> QED BY <2>2, <2>3 DEF EndpointsCall
<1> QED BY <1>1, <1>2
LEMMA EndpointsLeft ==
  ASSUME EndpointsInv, gw' = gw, ui' \in EndpointsPages, net' \subseteq Endpoints!Left
  PROVE  EndpointsInv'
<1>1. \A c \in net' : c \in Endpoints!CallType /\ EndpointsCall(c)' /\ ~c.live
  BY EndpointsOrphans DEF Endpoints!Left
<1>2. Endpoints!TypeOK'
  BY <1>1, EndpointsUis DEF EndpointsInv, Endpoints!TypeOK
<1> QED BY <1>1, <1>2 DEF EndpointsInv

LEMMA EndpointsNewCalls ==
  ASSUME NEW op \in Endpoints!Changing, NEW arg \in EndpointsOf.apps \cup [app: EndpointsOf.apps, value: EndpointsOf.scales \cup EndpointsOf.args]
  PROVE  /\ Endpoints!Call(op, arg) \in Endpoints!CallType
         /\ Endpoints!Call(op, arg).op = op /\ Endpoints!Call(op, arg).arg = arg
         /\ Endpoints!Call(op, arg).at = "sent" /\ Endpoints!Call(op, arg).live
BY DEF Endpoints!Call, Endpoints!CallType

LEMMA EndpointsClicks ==
  ASSUME EndpointsInv, ui' \in EndpointsPages, ui'.route = ui.route, net' = net, gw' = gw,
         ui.route = "grid" /\ ui.confirm => ui'.confirm = ui.confirm /\ ui'.selected = ui.selected
  PROVE  EndpointsInv'
<1>1. \A c \in net : c.op = "bulk" /\ c.live => ui.route = "grid" /\ ui.confirm
  BY DEF EndpointsInv, EndpointsCall
<1>2. \A c \in net : c.op = "bulk" /\ c.live => c \in net' /\ ui'.confirm = ui.confirm /\ ui'.selected = ui.selected
  BY <1>1
<1>3. EndpointsOnward
  BY EndpointsStill
<1> QED BY <1>2, <1>3, EndpointsKeeps

\* A page rendered anew is one of the pages; a grid keeps its selection and dialog.
LEMMA EndpointsProps ==
  ASSUME NEW u \in EndpointsPage, NEW p \in Endpoints!Settings
  PROVE  Endpoints!Props(u, p) \in EndpointsPage
BY DEF EndpointsPage, Endpoints!Props, Endpoints!Reset, Endpoints!Settings, Endpoints!CardType
LEMMA EndpointsRefreshes ==
  ASSUME EndpointsInv, NEW u \in EndpointsPages, Endpoints!Refresh(u)
  PROVE  /\ ui' \in EndpointsPages
         /\ u.route = "grid" => ui'.route = "grid" /\ ui'.confirm = u.confirm /\ ui'.selected = u.selected
         /\ u.route # "grid" => ui'.route # "grid"
<1>1. gw \in [EndpointsOf.apps -> Endpoints!Settings \cup {None}]
  BY DEF EndpointsInv, Endpoints!TypeOK
<1>2. /\ u.route = "grid" => u \in EndpointsGrid
      /\ u.route = "endpoint" => u \in EndpointsPage /\ u.app \in EndpointsOf.apps
      /\ u.route = "failing" => u \in EndpointsFailing /\ u.app \in EndpointsOf.apps
  BY DEF EndpointsPages, EndpointsGrid, EndpointsPage, EndpointsFailing
<1>3. CASE u.route = "grid" /\ \E items \in {Endpoints!Listing(u.scope), {}} : ui' = [u EXCEPT !.items = items]
  BY <1>2, <1>3 DEF EndpointsPages, EndpointsGrid, Endpoints!Listing, Endpoints!Here
<1>4. CASE u.route = "endpoint" /\ u.app \in Endpoints!Here /\ ui' = Endpoints!Props(u, gw[u.app])
  <2>1. gw[u.app] \in Endpoints!Settings
    BY <1>1, <1>4 DEF Endpoints!Here
  <2> QED BY <1>2, <1>4, <2>1, EndpointsProps DEF EndpointsPages, EndpointsPage
<1>5. CASE u.route = "failing" /\ u.app \in Endpoints!Here /\ ui' = Endpoints!EndpointPage(u.app, gw[u.app])
  <2>1. gw[u.app] \in Endpoints!Settings
    BY <1>1, <1>5 DEF Endpoints!Here
  <2> QED BY <1>2, <1>5, <2>1, EndpointsOnePages DEF EndpointsPages, EndpointsPage
<1>6. CASE u.route \in {"endpoint", "failing"} /\ ui' = Endpoints!Failing(u.app)
  BY <1>2, <1>6, EndpointsFailings DEF EndpointsPages, EndpointsFailing
<1> QED BY <1>3, <1>4, <1>5, <1>6 DEF Endpoints!Refresh

LEMMA EndpointsGridSteps ==
  ASSUME EndpointsInv, Endpoints!GridStep
  PROVE  EndpointsInv'
<1> USE DEF EndpointsPages
<1>0. ui.route = "grid" => ui \in EndpointsGrid
  BY EndpointsRoutes DEF EndpointsInv
<1> DEFINE Keeps == /\ ui' \in EndpointsGrid /\ ui.route = "grid"
                    /\ ui.confirm => ui'.confirm = ui.confirm /\ ui'.selected = ui.selected
<1>1. ASSUME Keeps, Endpoints!Stay PROVE EndpointsInv'
  BY <1>1, EndpointsClicks DEF Endpoints!Stay, EndpointsGrid
<1> USE DEF Endpoints!OnGrid, Endpoints!NoDialog
<1>2. ASSUME NEW s \in {"mine", "all"}, Endpoints!SwitchScope(s) PROVE EndpointsInv'
  <2>1. Keeps
    <3>1. PICK items \in {Endpoints!Listing(s), {}} : ui' = [ui EXCEPT !.scope = s, !.items = items]
      BY <1>2 DEF Endpoints!SwitchScope
    <3>2. items \in SUBSET EndpointsOf.apps
      BY <3>1 DEF Endpoints!Listing, Endpoints!Here
    <3> QED BY <1>2, <1>0, <3>1, <3>2 DEF Endpoints!SwitchScope, EndpointsGrid
  <2> QED BY <1>2, <2>1, <1>1 DEF Endpoints!SwitchScope
<1>3. CASE Endpoints!StartSelect
  <2>1. Keeps
    BY <1>3, <1>0 DEF Endpoints!StartSelect, EndpointsGrid
  <2> QED BY <1>3, <2>1, <1>1 DEF Endpoints!StartSelect
<1>4. CASE Endpoints!CancelSelect
  <2>1. Keeps
    BY <1>4, <1>0 DEF Endpoints!CancelSelect, EndpointsGrid
  <2> QED BY <1>4, <2>1, <1>1 DEF Endpoints!CancelSelect
<1>5. CASE Endpoints!SelectVisible
  <2>1. Keeps
    <3>1. PICK s \in {Endpoints!Visible, {}} : ui' = [ui EXCEPT !.selected = s]
      BY <1>5 DEF Endpoints!SelectVisible
    <3>2. ui \in EndpointsGrid /\ ui.route = "grid"
      BY <1>5, <1>0 DEF Endpoints!SelectVisible
    <3>3. s \in SUBSET EndpointsOf.apps
      BY <3>1, <3>2 DEF Endpoints!Visible, EndpointsGrid
    <3> QED BY <1>5, <3>1, <3>2, <3>3 DEF Endpoints!SelectVisible, EndpointsGrid
  <2> QED BY <1>5, <2>1, <1>1 DEF Endpoints!SelectVisible
<1>6. ASSUME NEW a \in EndpointsOf.apps, Endpoints!Toggle(a) PROVE EndpointsInv'
  <2>1. Keeps
    BY <1>6, <1>0 DEF Endpoints!Toggle, EndpointsGrid
  <2> QED BY <1>6, <2>1, <1>1 DEF Endpoints!Toggle
<1>7. ASSUME NEW f \in EndpointsOf.filters, Endpoints!Search(f) PROVE EndpointsInv'
  <2>1. Keeps
    BY <1>7, <1>0 DEF Endpoints!Search, EndpointsGrid
  <2> QED BY <1>7, <2>1, <1>1 DEF Endpoints!Search
<1>8. CASE Endpoints!AskBulk
  <2>1. Keeps
    BY <1>8, <1>0 DEF Endpoints!AskBulk, EndpointsGrid
  <2> QED BY <1>8, <2>1, <1>1 DEF Endpoints!AskBulk
<1>9. ASSUME NEW a \in EndpointsOf.apps, Endpoints!AskSingle(a) PROVE EndpointsInv'
  <2>1. Keeps
    BY <1>9, <1>0 DEF Endpoints!AskSingle, EndpointsGrid
  <2> QED BY <1>9, <2>1, <1>1 DEF Endpoints!AskSingle
<1>10. CASE Endpoints!CloseSingle
  <2>1. Keeps
    BY <1>10, <1>0 DEF Endpoints!CloseSingle, EndpointsGrid
  <2> QED BY <1>10, <2>1, <1>1 DEF Endpoints!CloseSingle
<1>11. CASE Endpoints!CloseBulk
  <2>1. ui' \in EndpointsGrid /\ ui'.route = ui.route
    BY <1>11, <1>0 DEF Endpoints!CloseBulk, EndpointsGrid
  <2>2. \A c \in net : ~(c.op = "bulk" /\ c.live)
    BY <1>11 DEF Endpoints!CloseBulk, Endpoints!Waiting, Endpoints!CallsOf
  <2>3. net' \ net = {} /\ EndpointsOnward
    BY <1>11, EndpointsStill DEF Endpoints!CloseBulk, Endpoints!Stay
  <2> QED BY <2>1, <2>2, <2>3, EndpointsKeeps
<1>12. CASE Endpoints!DeleteSingle
  <2>1. ui.single \in EndpointsOf.apps /\ ui.route = "grid"
    BY <1>12, <1>0 DEF Endpoints!DeleteSingle, EndpointsGrid
  <2>2. \A c \in net' \ net : c \in Endpoints!CallType /\ EndpointsCall(c)' /\ c.op # "bulk"
    BY <1>12, <2>1, EndpointsNewCalls DEF Endpoints!DeleteSingle, Endpoints!Send, EndpointsCall, Endpoints!Changing
  <2>3. ui' \in EndpointsPages /\ ui' = ui /\ EndpointsOnward /\ net \subseteq net'
    BY <1>12, <1>0, <2>1, EndpointsStill DEF Endpoints!DeleteSingle, Endpoints!Send
  <2> QED BY <2>2, <2>3, EndpointsKeeps
<1>13. CASE Endpoints!DeleteSelected
  <2>1. ui.selected \in SUBSET EndpointsOf.apps /\ ui.route = "grid" /\ ui.confirm
    BY <1>13, <1>0 DEF Endpoints!DeleteSelected, EndpointsGrid
  <2>2. net' = net \cup {Endpoints!Call("bulk", a) : a \in ui.selected} /\ ui' = ui /\ gw' = gw
    BY <1>13 DEF Endpoints!DeleteSelected, Endpoints!Send
  <2>3. \A a \in ui.selected : LET c == Endpoints!Call("bulk", a)
                               IN  c \in Endpoints!CallType /\ c.op = "bulk" /\ c.live /\ c.arg = a /\ EndpointsCall(c)'
    BY <2>1, <2>2, EndpointsNewCalls DEF EndpointsCall, Endpoints!Changing
  <2>4. \A c \in net : c \in Endpoints!CallType /\ EndpointsCall(c)'
    BY <2>2 DEF EndpointsInv, EndpointsCall, Endpoints!TypeOK
  <2>5. \A c \in net' : c \in Endpoints!CallType /\ EndpointsCall(c)'
    BY <2>2, <2>3, <2>4
  <2>6. \A a \in ui'.selected : \E c \in net' : c.op = "bulk" /\ c.live /\ c.arg = a
    BY <2>2, <2>3
  <2>7. Endpoints!TypeOK'
    BY <2>2, <2>5 DEF EndpointsInv, Endpoints!TypeOK
  <2> QED BY <2>5, <2>6, <2>7 DEF EndpointsInv
<1>14. CASE Endpoints!BulkSettles
  <2>1. ui.route = "grid" /\ ui \in EndpointsGrid
    BY <1>14, <1>0 DEF Endpoints!BulkSettles, Endpoints!Waiting, Endpoints!CallsOf, EndpointsInv, EndpointsCall
  <2>2. PICK u \in EndpointsGrid : Endpoints!Refresh(u)
    BY <1>14, <2>1 DEF Endpoints!BulkSettles, EndpointsGrid
  <2>3. ui' \in EndpointsPages /\ ui'.route = ui.route /\ EndpointsOnward
    BY <1>14, <2>1, <2>2, EndpointsRefreshes, EndpointsStill DEF EndpointsGrid, Endpoints!BulkSettles
  <2>4. \A c \in net' : c \in net /\ ~(c.op = "bulk" /\ c.live)
    BY <1>14 DEF Endpoints!BulkSettles, Endpoints!CallsOf
  <2>5. \A c \in net' : c \in Endpoints!CallType /\ EndpointsCall(c)'
    BY <1>14, <2>3, <2>4 DEF EndpointsInv, EndpointsCall, Endpoints!TypeOK, Endpoints!BulkSettles
  <2>6. Endpoints!TypeOK'
    BY <2>3, <2>5, EndpointsUis DEF EndpointsInv, Endpoints!TypeOK, EndpointsOnward
  <2> QED BY <2>4, <2>5, <2>6 DEF EndpointsInv
<1>15. ASSUME NEW c \in net, Endpoints!SingleSettles(c) PROVE EndpointsInv'
  <2>1. c.op = "delete" /\ ui.route = "grid" /\ ui \in EndpointsGrid
    BY <1>15, <1>0 DEF Endpoints!SingleSettles, Endpoints!Done, EndpointsInv, EndpointsCall
  <2>2. ui' \in EndpointsPages /\ ui'.route = ui.route /\ ui'.confirm = ui.confirm /\ ui'.selected = ui.selected
    <3>1. CASE ui' = ui
      BY <2>1, <3>1
    <3>2. CASE Endpoints!Refresh([ui EXCEPT !.single = None])
      <4>1. PICK u : u = [ui EXCEPT !.single = None]
        OBVIOUS
      <4>2. u \in EndpointsGrid /\ u.route = "grid" /\ u.confirm = ui.confirm /\ u.selected = ui.selected
        BY <2>1, <4>1 DEF EndpointsGrid
      <4> QED BY <2>1, <3>2, <4>1, <4>2, EndpointsRefreshes
    <3> QED BY <1>15, <3>1, <3>2 DEF Endpoints!SingleSettles
  <2>3. net' = net \ {c} /\ EndpointsOnward
    BY <1>15, EndpointsStill DEF Endpoints!SingleSettles
  <2> QED BY <2>1, <2>2, <2>3, EndpointsKeeps
<1>16. ASSUME NEW a \in EndpointsOf.apps, Endpoints!OpenEndpoint(a) PROVE EndpointsInv'
  <2>1. a \in Endpoints!Here => gw[a] \in Endpoints!Settings
    BY DEF Endpoints!Here, EndpointsInv, Endpoints!TypeOK
  <2>2. ui' \in EndpointsPages
    BY <1>16, <2>1, EndpointsFailings, EndpointsOnePages DEF Endpoints!OpenEndpoint
  <2> QED BY <1>16, <2>2, EndpointsLeft DEF Endpoints!OpenEndpoint
<1> QED BY <1>2, <1>3, <1>4, <1>5, <1>6, <1>7, <1>8, <1>9, <1>10, <1>11, <1>12, <1>13, <1>14, <1>15, <1>16
        DEF Endpoints!GridStep

\* What settles on the page of an endpoint, or after it: the page rendered anew.
LEMMA EndpointsSettles ==
  ASSUME EndpointsInv, gw' = gw, ui' \in EndpointsPages, NEW c \in net, ~(c.op = "bulk" /\ c.live),
         ui'.route = "grid" <=> ui.route = "grid",
         ui.route = "grid" => ui'.confirm = ui.confirm /\ ui'.selected = ui.selected,
         net' = IF ui'.route = ui.route THEN net \ {c} ELSE Endpoints!Left \ Endpoints!Orphans({c})
  PROVE  EndpointsInv'
<1>1. CASE ui'.route = ui.route
  <2>1. \A d \in net : d.op = "bulk" /\ d.live => ui.route = "grid"
    BY DEF EndpointsInv, EndpointsCall
  <2> QED BY <1>1, <2>1, EndpointsStill, EndpointsKeeps
<1>2. CASE ui'.route # ui.route
  BY <1>2, EndpointsLeft
<1> QED BY <1>1, <1>2

LEMMA EndpointsPageSteps ==
  ASSUME EndpointsInv, Endpoints!EndpointStep
  PROVE  EndpointsInv'
<1> USE DEF EndpointsPages
<1>0. ui.route = "endpoint" => ui \in EndpointsPage
  BY EndpointsRoutes DEF EndpointsInv
<1> DEFINE Keeps == ui' \in EndpointsPage /\ ui.route = "endpoint"
<1>1. ASSUME Keeps, Endpoints!Stay PROVE EndpointsInv'
  BY <1>1, EndpointsClicks DEF Endpoints!Stay, EndpointsPage
<1> USE DEF Endpoints!OnEndpoint
<1>2. CASE Endpoints!AskRemove
  BY <1>0, <1>1, <1>2 DEF Endpoints!AskRemove, EndpointsPage
<1>3. CASE Endpoints!CloseRemove
  BY <1>0, <1>1, <1>3 DEF Endpoints!CloseRemove, EndpointsPage
<1>4. CASE Endpoints!AskRestart
  BY <1>0, <1>1, <1>4 DEF Endpoints!AskRestart, Endpoints!OnCard, EndpointsPage
<1>5. CASE Endpoints!CloseRestart
  BY <1>0, <1>1, <1>5 DEF Endpoints!CloseRestart, EndpointsPage
<1>6. ASSUME NEW op \in {"remove", "restart", "scale", "args"}, NEW arg, Keeps, ui' = ui, gw' = gw,
             net' = net \cup {Endpoints!Call(op, arg)},
             op \in {"remove", "restart"} => arg \in EndpointsOf.apps,
             op = "scale" => arg \in [app: EndpointsOf.apps, value: EndpointsOf.scales],
             op = "args" => arg \in [app: EndpointsOf.apps, value: EndpointsOf.args]
      PROVE  EndpointsInv'
  <2>1. arg \in EndpointsOf.apps \cup [app: EndpointsOf.apps, value: EndpointsOf.scales \cup EndpointsOf.args]
    BY <1>6
  <2>2. \A c \in net' \ net : c \in Endpoints!CallType /\ EndpointsCall(c)' /\ c.op # "bulk"
    BY <1>6, <2>1, EndpointsNewCalls DEF EndpointsCall, Endpoints!Changing, EndpointsPage
  <2> QED BY <1>6, <2>2, EndpointsStill, EndpointsKeeps
<1>7. CASE Endpoints!Remove
  BY <1>0, <1>6, <1>7 DEF Endpoints!Remove, Endpoints!Send, EndpointsPage
<1>8. CASE Endpoints!Restart
  BY <1>0, <1>6, <1>8 DEF Endpoints!Restart, Endpoints!Send, EndpointsPage
<1>9. ASSUME NEW t \in {"overview", "another"}, Endpoints!ShowTab(t) PROVE EndpointsInv'
  <2>1. Keeps
    BY <1>0, <1>9 DEF Endpoints!ShowTab, EndpointsPage, Endpoints!Card, Endpoints!CardType, Endpoints!Settings
  <2>2. \A c \in net' \ net : c \in Endpoints!CallType /\ EndpointsCall(c)' /\ ~c.live
    <3>1. PICK calls \in SUBSET net : net' \subseteq net \cup Endpoints!Heard(Endpoints!Orphans(calls))
      BY <1>9 DEF Endpoints!ShowTab
    <3>2. gw' = gw
      BY <1>9 DEF Endpoints!ShowTab
    <3> QED BY <3>1, <3>2, EndpointsOrphans
  <2>3. \A c \in net : ~(c.op = "bulk" /\ c.live)
    BY <1>9 DEF Endpoints!ShowTab, EndpointsInv, EndpointsCall
  <2> QED BY <1>9, <2>1, <2>2, <2>3, EndpointsStill, EndpointsKeeps DEF Endpoints!ShowTab, EndpointsPage
<1>10. ASSUME NEW card \in Endpoints!Cards, Endpoints!Edit(card) PROVE EndpointsInv'
  <2>1. ui' \in EndpointsPage
    <3>1. CASE card = "scale"
      BY <1>0, <1>10, <3>1 DEF Endpoints!Edit, EndpointsPage, Endpoints!CardType
    <3>2. CASE card = "args"
      BY <1>0, <1>10, <3>2 DEF Endpoints!Edit, EndpointsPage, Endpoints!CardType
    <3> QED BY <3>1, <3>2 DEF Endpoints!Cards
  <2> QED BY <1>1, <1>10, <2>1 DEF Endpoints!Edit
<1>18. ASSUME NEW card \in Endpoints!Cards, Endpoints!Cancel(card) PROVE EndpointsInv'
  <2>1. ui' \in EndpointsPage
    <3>0. ui \in EndpointsPage /\ ui.props.scale \in EndpointsOf.scales /\ ui.props.args \in EndpointsOf.args
      BY <1>0, <1>18 DEF Endpoints!Cancel, Endpoints!OnCard, EndpointsPage, Endpoints!Settings
    <3>1. CASE card = "scale"
      <4>1. ui' = [ui EXCEPT !.scale = Endpoints!Card(ui.props.scale)]
        BY <1>18, <3>1 DEF Endpoints!Cancel
      <4>2. Endpoints!Card(ui.props.scale) \in Endpoints!CardType(EndpointsOf.scales \cup {EndpointsOf.bad})
        BY <3>0 DEF Endpoints!Card, Endpoints!CardType
      <4> QED BY <3>0, <4>1, <4>2 DEF EndpointsPage
    <3>2. CASE card = "args"
      <4>1. ui' = [ui EXCEPT !.args = Endpoints!Card(ui.props.args)]
        BY <1>18, <3>2 DEF Endpoints!Cancel
      <4>2. Endpoints!Card(ui.props.args) \in Endpoints!CardType(EndpointsOf.args \cup {EndpointsOf.bad})
        BY <3>0 DEF Endpoints!Card, Endpoints!CardType
      <4> QED BY <3>0, <4>1, <4>2 DEF EndpointsPage
    <3> QED BY <3>1, <3>2 DEF Endpoints!Cards
  <2> QED BY <1>1, <1>18, <2>1 DEF Endpoints!Cancel, Endpoints!OnCard
<1>11. ASSUME NEW card \in Endpoints!Cards, Endpoints!Save(card) PROVE EndpointsInv'
  <2>1. CASE card = "scale"
    <3>1. ui \in EndpointsPage /\ ui.scale.input \in EndpointsOf.scales
      BY <1>0, <1>11, <2>1 DEF Endpoints!Save, Endpoints!OnCard, Endpoints!Valid, EndpointsPage, Endpoints!CardType
    <3>2. [app |-> ui.app, value |-> ui.scale.input] \in [app: EndpointsOf.apps, value: EndpointsOf.scales]
      BY <3>1 DEF EndpointsPage
    <3> QED BY <1>6, <1>11, <2>1, <3>1, <3>2 DEF Endpoints!Save, Endpoints!OnCard, Endpoints!Send
  <2>2. CASE card = "args"
    <3>1. ui \in EndpointsPage /\ ui.args.input \in EndpointsOf.args
      BY <1>0, <1>11, <2>2 DEF Endpoints!Save, Endpoints!OnCard, Endpoints!Valid, EndpointsPage, Endpoints!CardType
    <3>2. [app |-> ui.app, value |-> ui.args.input] \in [app: EndpointsOf.apps, value: EndpointsOf.args]
      BY <3>1 DEF EndpointsPage
    <3> QED BY <1>6, <1>11, <2>2, <3>1, <3>2 DEF Endpoints!Save, Endpoints!OnCard, Endpoints!Send
  <2> QED BY <2>1, <2>2 DEF Endpoints!Cards
<1>12. ASSUME NEW v \in EndpointsOf.scales \cup {EndpointsOf.bad}, Endpoints!Type("scale", v) PROVE EndpointsInv'
  BY <1>0, <1>1, <1>12 DEF Endpoints!Type, Endpoints!OnCard, EndpointsPage, Endpoints!CardType
<1>13. ASSUME NEW v \in EndpointsOf.args \cup {EndpointsOf.bad}, Endpoints!Type("args", v) PROVE EndpointsInv'
  BY <1>0, <1>1, <1>13 DEF Endpoints!Type, Endpoints!OnCard, EndpointsPage, Endpoints!CardType
<1>14. ASSUME NEW c \in net, Endpoints!RemoveSettles(c) PROVE EndpointsInv'
  <2>1. c.op = "remove" /\ gw' = gw
    BY <1>14 DEF Endpoints!RemoveSettles
  <2>2. ASSUME ui' \in EndpointsPages, ui'.route = ui.route, net' = net \ {c},
               ui.route = "grid" => ui'.confirm = ui.confirm /\ ui'.selected = ui.selected
        PROVE  EndpointsInv'
    BY <2>1, <2>2, EndpointsSettles
  <2>3. CASE c.at = "failed"
    BY <1>14, <2>2, <2>3, EndpointsRoutes DEF Endpoints!RemoveSettles, EndpointsInv
  <2>4. CASE c.at # "failed" /\ ui.route = "grid"
    <3>1. Endpoints!Listing("mine") \in SUBSET EndpointsOf.apps /\ ui \in EndpointsGrid
      BY <2>4, EndpointsRoutes DEF Endpoints!Listing, Endpoints!Here, EndpointsInv
    <3>2. ui' = [ui EXCEPT !.items = Endpoints!Listing("mine"), !.scope = "mine"] /\ net' = net \ {c}
      BY <1>14, <2>4 DEF Endpoints!RemoveSettles
    <3> HIDE DEF EndpointsPages
    <3>3. ui' \in EndpointsGrid /\ ui'.confirm = ui.confirm /\ ui'.selected = ui.selected
      BY <3>1, <3>2 DEF EndpointsGrid
    <3> QED BY <2>2, <2>4, <3>2, <3>3 DEF EndpointsGrid, EndpointsPages
  <2>5. CASE c.at # "failed" /\ ui.route # "grid"
    <3>1. Endpoints!Listing("mine") \in SUBSET EndpointsOf.apps
      BY DEF Endpoints!Listing, Endpoints!Here
    <3>2. ui' \in EndpointsPages /\ net' \subseteq Endpoints!Left
      BY <1>14, <2>5, <3>1, EndpointsGridPages DEF Endpoints!RemoveSettles
    <3> QED BY <2>1, <3>2, EndpointsLeft
  <2> QED BY <2>3, <2>4, <2>5
<1>15. ASSUME NEW c \in net, NEW u \in EndpointsPage, u.route = "endpoint", ui.route = "endpoint", ui' = ui \/ Endpoints!Refresh(u),
              net' = IF ui'.route = ui.route THEN net \ {c} ELSE Endpoints!Left \ Endpoints!Orphans({c}), gw' = gw
       PROVE  EndpointsInv'
  <2>1. ui' \in EndpointsPages /\ ui'.route # "grid"
    BY <1>15, EndpointsRefreshes, EndpointsRoutes DEF EndpointsInv
  <2>2. ~(c.op = "bulk" /\ c.live)
    BY <1>15 DEF EndpointsInv, EndpointsCall
  <2> QED BY <1>15, <2>1, <2>2, EndpointsSettles
<1>16. ASSUME NEW c \in net, Endpoints!SaveSettles(c) PROVE EndpointsInv'
  <2>1. ui.route = "endpoint" /\ ui \in EndpointsPage
    BY <1>0, <1>16 DEF Endpoints!SaveSettles, Endpoints!Done, Endpoints!Cards, EndpointsInv, EndpointsCall
  <2>2. PICK u : u = [ui EXCEPT ![c.op].editing = FALSE]
    OBVIOUS
  <2>3. u \in EndpointsPage /\ u.route = "endpoint"
    <3>1. CASE c.op = "scale"
      BY <2>1, <2>2, <3>1 DEF EndpointsPage, Endpoints!CardType
    <3>2. CASE c.op = "args"
      BY <2>1, <2>2, <3>2 DEF EndpointsPage, Endpoints!CardType
    <3> QED BY <1>16, <3>1, <3>2 DEF Endpoints!SaveSettles, Endpoints!Cards
  <2> QED BY <1>15, <1>16, <2>1, <2>2, <2>3 DEF Endpoints!SaveSettles
<1>17. ASSUME NEW c \in net, Endpoints!RestartSettles(c) PROVE EndpointsInv'
  <2>1. ui.route = "endpoint" /\ ui \in EndpointsPage
    BY <1>0, <1>17 DEF Endpoints!RestartSettles, Endpoints!Done, EndpointsInv, EndpointsCall
  <2>2. PICK u : u = [ui EXCEPT !.restart = FALSE]
    OBVIOUS
  <2>3. u \in EndpointsPage /\ u.route = "endpoint"
    BY <2>1, <2>2 DEF EndpointsPage
  <2> QED BY <1>15, <1>17, <2>1, <2>2, <2>3 DEF Endpoints!RestartSettles
<1> QED BY <1>2, <1>3, <1>4, <1>5, <1>7, <1>8, <1>9, <1>10, <1>11, <1>12, <1>13, <1>14, <1>16, <1>17, <1>18
   DEF Endpoints!EndpointStep

LEMMA EndpointsRouterSteps ==
  ASSUME EndpointsInv, Endpoints!RouterStep
  PROVE  EndpointsInv'
<1>1. CASE Endpoints!OpenGrid
  <2>1. Endpoints!Listing("mine") \in SUBSET EndpointsOf.apps
    BY DEF Endpoints!Listing, Endpoints!Here
  <2> QED BY <1>1, <2>1, EndpointsGridPages, EndpointsLeft DEF Endpoints!OpenGrid, EndpointsPages
<1>2. ASSUME NEW c \in net, Endpoints!OrphanSettles(c) PROVE EndpointsInv'
  <2>1. /\ ui' \in EndpointsPages
        /\ ui.route = "grid" => ui'.route = "grid" /\ ui'.confirm = ui.confirm /\ ui'.selected = ui.selected
        /\ ui.route # "grid" => ui'.route # "grid"
    BY <1>2, EndpointsRefreshes, EndpointsRoutes DEF Endpoints!OrphanSettles, EndpointsInv
  <2> QED BY <1>2, <2>1, EndpointsSettles DEF Endpoints!OrphanSettles
<1> QED BY <1>1, <1>2 DEF Endpoints!RouterStep

\* A call served or failed is the same call with its answer; it is forgotten
\* when nobody listens any more.
LEMMA EndpointsAnswer ==
  ASSUME EndpointsInv, EndpointsOnward, ui' = ui, NEW c \in net, NEW at \in {"ok", "failed"},
         NEW d, d = [c EXCEPT !.at = at, !.val = None], net' = Endpoints!Heard((net \ {c}) \cup {d}),
         at = "ok" /\ c.op = "bulk" => gw'[c.arg] = None
  PROVE  EndpointsInv'
<1>1. c \in Endpoints!CallType /\ EndpointsCall(c)
  BY DEF EndpointsInv, Endpoints!TypeOK
<1>2. d \in Endpoints!CallType /\ d.op = c.op /\ d.arg = c.arg /\ d.at = at /\ d.live = c.live
  BY <1>1 DEF Endpoints!CallType
<1>3. EndpointsCall(d)'
  BY <1>1, <1>2 DEF EndpointsCall
<1>4. ASSUME NEW e \in net PROVE e \in Endpoints!CallType /\ EndpointsCall(e)'
  <2>1. e \in Endpoints!CallType /\ EndpointsCall(e)
    BY DEF EndpointsInv, Endpoints!TypeOK
  <2> QED BY <2>1 DEF EndpointsCall, EndpointsOnward
<1>5. ASSUME NEW e \in net' PROVE /\ e \in Endpoints!CallType /\ EndpointsCall(e)'
                                  /\ e.live => e \in (net \ {c}) \cup {d}
  <2>1. CASE e = Endpoints!Refreshing
    BY <2>1, EndpointsRefreshing DEF EndpointsCall
  <2>2. CASE e \in (net \ {c}) \cup {d}
    BY <1>2, <1>3, <1>4, <2>2
  <2> QED BY <2>1, <2>2, EndpointsHeard
<1>6. ASSUME NEW e \in net', e.op = "bulk", e.live, NEW a \in ui'.selected
      PROVE  \E f \in net' : f.op = "bulk" /\ f.live /\ f.arg = a
  <2>1. \E f \in net : f.op = "bulk" /\ f.live
    BY <1>2, <1>5, <1>6
  <2>2. PICK f \in net : f.op = "bulk" /\ f.live /\ f.arg = a
    BY <1>6, <2>1 DEF EndpointsInv
  <2>3. PICK g \in (net \ {c}) \cup {d} : g.op = "bulk" /\ g.live /\ g.arg = a
    BY <1>2, <2>2
  <2> QED BY <2>3, EndpointsHeardLive
<1>7. Endpoints!TypeOK'
  BY <1>5 DEF EndpointsInv, Endpoints!TypeOK, EndpointsOnward
<1> QED BY <1>5, <1>6, <1>7 DEF EndpointsInv

LEMMA EndpointsGatewaySteps ==
  ASSUME EndpointsInv, Endpoints!GatewayStep
  PROVE  EndpointsInv'
<1>1. ASSUME NEW a \in EndpointsOf.apps, NEW s \in Endpoints!Settings \cup {None}, Endpoints!Foreign(a, s)
      PROVE  EndpointsInv'
  <2>1. EndpointsOnward /\ UNCHANGED <<ui, net>>
    BY <1>1 DEF Endpoints!Foreign, Endpoints!Here, EndpointsOnward, EndpointsInv, Endpoints!TypeOK
  <2> QED BY <2>1, EndpointsRoutes, EndpointsKeeps DEF EndpointsInv
<1>2. ASSUME NEW c \in net, Endpoints!Serve(c) PROVE EndpointsInv'
  <2>1. EndpointsOnward /\ (c.op = "bulk" => gw'[c.arg] = None)
    BY <1>2, EndpointsEffect DEF Endpoints!Serve
  <2>2. PICK d : d = [c EXCEPT !.at = "ok", !.val = None]
    OBVIOUS
  <2>3. net' = Endpoints!Heard((net \ {c}) \cup {d}) /\ ui' = ui
    BY <1>2, <2>2 DEF Endpoints!Serve, Endpoints!Answered
  <2> QED BY <2>1, <2>2, <2>3, EndpointsAnswer
<1>3. ASSUME NEW c \in net, Endpoints!Fail(c) PROVE EndpointsInv'
  <2>1. EndpointsOnward
    BY <1>3, EndpointsEffect, EndpointsStill DEF Endpoints!Fail
  <2>2. c \in Endpoints!CallType
    BY DEF EndpointsInv, Endpoints!TypeOK
  <2>3. PICK d : d = [c EXCEPT !.at = "failed", !.val = None]
    OBVIOUS
  <2>4. d = [c EXCEPT !.at = "failed"]
    BY <2>2, <2>3 DEF Endpoints!CallType
  <2>5. net' = Endpoints!Heard((net \ {c}) \cup {d}) /\ ui' = ui
    BY <1>3, <2>4 DEF Endpoints!Fail, Endpoints!Failed
  <2> QED BY <2>1, <2>3, <2>5, EndpointsAnswer
<1> QED BY <1>1, <1>2, <1>3 DEF Endpoints!GatewayStep

LEMMA EndpointsNext == EndpointsInv /\ Endpoints!Next => EndpointsInv'
BY EndpointsGridSteps, EndpointsPageSteps, EndpointsRouterSteps, EndpointsGatewaySteps DEF Endpoints!Next

\* The selection is only dropped under a running deletion when that deletion
\* settles with every call answered.
LEMMA EndpointsBulkEndsWell == EndpointsInv /\ Endpoints!Next => Endpoints!BulkEndsWell
<1> SUFFICES ASSUME EndpointsInv, Endpoints!Next, Endpoints!Waiting("bulk"), ui.route = "grid", ui'.route = "grid",
                    ui'.selected = {}, ui.confirm, NEW a \in ui.selected
             PROVE  gw[a] = None
  BY DEF Endpoints!BulkEndsWell, Endpoints!Here
<1>0. ui \in EndpointsGrid
  BY EndpointsRoutes DEF EndpointsInv
<1>1. PICK b \in net : b.op = "bulk" /\ b.live
  BY DEF Endpoints!Waiting, Endpoints!CallsOf
<1>2. ~Endpoints!NoDialog /\ ui.selected # {}
  BY DEF Endpoints!NoDialog
<1>3. PICK c \in net : c.op = "bulk" /\ c.live /\ c.arg = a
  BY <1>1 DEF EndpointsInv
<1>4. CASE ui'.selected = ui.selected
  BY <1>2, <1>4
<1>5. CASE Endpoints!GridStep
  <2>1. CASE Endpoints!BulkSettles
    <3>1. CASE Endpoints!Failures = {}
      <4>1. c \in Endpoints!CallType /\ EndpointsCall(c)
        BY DEF EndpointsInv, Endpoints!TypeOK
      <4>2. c.at = "ok"
        BY <1>3, <2>1, <3>1, <4>1 DEF Endpoints!BulkSettles, Endpoints!CallsOf, Endpoints!Failures, Endpoints!CallType
      <4> QED BY <1>3, <4>1, <4>2 DEF EndpointsCall
    <3>2. CASE Endpoints!Failures # {}
      BY <1>0, <1>4, <2>1, <3>2, EndpointsRefreshes DEF Endpoints!BulkSettles, EndpointsPages
    <3> QED BY <3>1, <3>2
  <2>2. ASSUME NEW d \in net, Endpoints!SingleSettles(d) PROVE ui'.selected = ui.selected
    <3>1. CASE Endpoints!Refresh([ui EXCEPT !.single = None])
      <4>1. PICK u : u = [ui EXCEPT !.single = None]
        OBVIOUS
      <4>2. u \in EndpointsPages /\ u.route = "grid" /\ u.selected = ui.selected
        BY <1>0, <4>1 DEF EndpointsGrid, EndpointsPages
      <4> QED BY <3>1, <4>1, <4>2, EndpointsRefreshes
    <3> QED BY <2>2, <3>1 DEF Endpoints!SingleSettles
  <2>3. CASE Endpoints!CloseBulk \/ Endpoints!CloseSingle \/ Endpoints!DeleteSingle \/ Endpoints!DeleteSelected
    BY <1>0, <1>4, <2>3 DEF Endpoints!CloseBulk, Endpoints!CloseSingle, Endpoints!DeleteSingle,
       Endpoints!DeleteSelected, EndpointsGrid
  <2> QED BY <1>2, <1>4, <1>5, <2>1, <2>2, <2>3
          DEF Endpoints!GridStep, Endpoints!StartSelect, Endpoints!CancelSelect, Endpoints!SelectVisible, Endpoints!AskBulk,
              Endpoints!Search, Endpoints!Toggle, Endpoints!AskSingle, Endpoints!OpenEndpoint, Endpoints!SwitchScope
<1>6. CASE Endpoints!EndpointStep
  <2>1. \A d \in net : ~Endpoints!SaveSettles(d) /\ ~Endpoints!RestartSettles(d)
    BY DEF EndpointsInv, EndpointsCall, Endpoints!SaveSettles, Endpoints!RestartSettles, Endpoints!Done, Endpoints!Cards
  <2>2. \A d \in net : Endpoints!RemoveSettles(d) => ui'.selected = ui.selected
    BY <1>0 DEF Endpoints!RemoveSettles, EndpointsGrid
  <2> QED BY <1>4, <1>6, <2>1, <2>2
          DEF Endpoints!EndpointStep, Endpoints!AskRemove, Endpoints!CloseRemove, Endpoints!Remove, Endpoints!AskRestart,
              Endpoints!CloseRestart, Endpoints!Restart, Endpoints!ShowTab, Endpoints!Edit, Endpoints!Cancel, Endpoints!Save,
              Endpoints!Type, Endpoints!OnCard, Endpoints!OnEndpoint
<1>7. CASE Endpoints!RouterStep
  BY <1>0, <1>4, <1>7, EndpointsRefreshes
     DEF Endpoints!RouterStep, Endpoints!OpenGrid, Endpoints!OrphanSettles, EndpointsPages
<1>8. CASE Endpoints!GatewayStep
  BY <1>4, <1>8 DEF Endpoints!GatewayStep, Endpoints!Serve, Endpoints!Fail, Endpoints!Foreign
<1> QED BY <1>5, <1>6, <1>7, <1>8 DEF Endpoints!Next

\* Of a page rendered anew, an input changes only with the settings of its card.
LEMMA EndpointsPropsStay ==
  ASSUME NEW u \in EndpointsPage, NEW p \in Endpoints!Settings, NEW card \in Endpoints!Cards, p[card] = u.props[card]
  PROVE  Endpoints!Props(u, p)[card].input = u[card].input
<1>1. CASE card = "scale"
  BY <1>1 DEF EndpointsPage, Endpoints!Props, Endpoints!Reset, Endpoints!Settings
<1>2. CASE card = "args"
  BY <1>2 DEF EndpointsPage, Endpoints!Props, Endpoints!Reset, Endpoints!Settings
<1> QED BY <1>1, <1>2 DEF Endpoints!Cards
LEMMA EndpointsEditsStay == EndpointsInv /\ Endpoints!Next => Endpoints!EditsStay
<1> SUFFICES ASSUME EndpointsInv, Endpoints!Next, NEW card \in Endpoints!Cards, ui.route = "endpoint", ui'.route = "endpoint",
                    ui'.props # ui.props, ui'.props[card] = ui.props[card]
             PROVE  ui'[card].input = ui[card].input
  BY DEF Endpoints!EditsStay, Endpoints!OnEndpoint
<1>0. ui \in EndpointsPage /\ gw \in [EndpointsOf.apps -> Endpoints!Settings \cup {None}]
  BY EndpointsRoutes DEF EndpointsInv, Endpoints!TypeOK
<1>1. ASSUME NEW u \in EndpointsPage, u.route = "endpoint", u.props = ui.props, u[card].input = ui[card].input, Endpoints!Refresh(u)
      PROVE  ui'[card].input = ui[card].input
  <2>1. (ui' = Endpoints!Props(u, gw[u.app]) /\ u.app \in Endpoints!Here) \/ ui' = Endpoints!Failing(u.app)
    BY <1>1 DEF Endpoints!Refresh
  <2>2. CASE ui' = Endpoints!Failing(u.app)
    BY <2>2 DEF Endpoints!Failing
  <2>3. CASE ui' = Endpoints!Props(u, gw[u.app]) /\ u.app \in Endpoints!Here
    <3>1. gw[u.app] \in Endpoints!Settings
      BY <1>0, <2>3 DEF Endpoints!Here
    <3>2. ui'.props = gw[u.app]
      BY <2>3, <3>1 DEF Endpoints!Props, EndpointsPage
    <3> QED BY <1>1, <2>3, <3>1, <3>2, EndpointsPropsStay
  <2> QED BY <2>1, <2>2, <2>3
<1>2. ASSUME ui'.props = ui.props PROVE ui'[card].input = ui[card].input
  BY <1>2
<1>3. CASE Endpoints!GridStep
  <2>1. \A d \in net : ~Endpoints!SingleSettles(d)
    BY DEF EndpointsInv, EndpointsCall, Endpoints!SingleSettles, Endpoints!Done
  <2>2. ~Endpoints!BulkSettles
    BY DEF EndpointsInv, EndpointsCall, Endpoints!BulkSettles, Endpoints!Waiting, Endpoints!CallsOf
  <2> QED BY <1>3, <2>1, <2>2
          DEF Endpoints!GridStep, Endpoints!StartSelect, Endpoints!CancelSelect, Endpoints!SelectVisible, Endpoints!AskBulk,
              Endpoints!Search, Endpoints!Toggle, Endpoints!AskSingle, Endpoints!OpenEndpoint, Endpoints!SwitchScope,
              Endpoints!CloseBulk, Endpoints!CloseSingle, Endpoints!DeleteSingle, Endpoints!DeleteSelected, Endpoints!OnGrid
<1>4. CASE Endpoints!EndpointStep
  <2>1. ASSUME NEW d \in net, Endpoints!SaveSettles(d) PROVE ui'[card].input = ui[card].input
    <3>1. CASE Endpoints!Refresh([ui EXCEPT ![d.op].editing = FALSE])
      <4>1. PICK u : u = [ui EXCEPT ![d.op].editing = FALSE]
        OBVIOUS
      <4>2. u \in EndpointsPage /\ u.route = "endpoint" /\ u.props = ui.props /\ u[card].input = ui[card].input
        <5>1. CASE d.op = "scale"
          BY <1>0, <4>1, <5>1 DEF EndpointsPage, Endpoints!CardType, Endpoints!Cards
        <5>2. CASE d.op = "args"
          BY <1>0, <4>1, <5>2 DEF EndpointsPage, Endpoints!CardType, Endpoints!Cards
        <5> QED BY <2>1, <5>1, <5>2 DEF Endpoints!SaveSettles, Endpoints!Cards
      <4> QED BY <1>1, <3>1, <4>1, <4>2
    <3> QED BY <2>1, <3>1 DEF Endpoints!SaveSettles
  <2>2. ASSUME NEW d \in net, Endpoints!RestartSettles(d) PROVE ui'[card].input = ui[card].input
    <3>1. CASE Endpoints!Refresh([ui EXCEPT !.restart = FALSE])
      <4>1. PICK u : u = [ui EXCEPT !.restart = FALSE]
        OBVIOUS
      <4>2. u \in EndpointsPage /\ u.route = "endpoint" /\ u.props = ui.props /\ u[card].input = ui[card].input
        BY <1>0, <4>1 DEF EndpointsPage, Endpoints!Cards
      <4> QED BY <1>1, <3>1, <4>1, <4>2
    <3> QED BY <2>2, <3>1 DEF Endpoints!RestartSettles
  <2>3. ASSUME NEW d \in net, Endpoints!RemoveSettles(d) PROVE ui' = ui
    BY <2>3 DEF Endpoints!RemoveSettles, Endpoints!GridPage
  <2>4. CASE \/ Endpoints!AskRemove \/ Endpoints!CloseRemove \/ Endpoints!Remove
             \/ Endpoints!AskRestart \/ Endpoints!CloseRestart \/ Endpoints!Restart
             \/ \E t \in {"overview", "another"} : Endpoints!ShowTab(t)
    BY <1>0, <1>2, <2>4 DEF Endpoints!AskRemove, Endpoints!CloseRemove, Endpoints!Remove, Endpoints!AskRestart,
       Endpoints!CloseRestart, Endpoints!Restart, Endpoints!ShowTab, EndpointsPage
  <2>5. ASSUME NEW one \in Endpoints!Cards, \/ Endpoints!Edit(one) \/ Endpoints!Cancel(one) \/ Endpoints!Save(one)
                                            \/ \E v : Endpoints!Type(one, v)
        PROVE  ui'.props = ui.props
    BY <1>0, <2>5 DEF Endpoints!Edit, Endpoints!Cancel, Endpoints!Save, Endpoints!Type, EndpointsPage, Endpoints!Cards
  <2> QED BY <1>2, <1>4, <2>1, <2>2, <2>3, <2>4, <2>5 DEF Endpoints!EndpointStep, Endpoints!Cards
<1>5. CASE Endpoints!RouterStep
  BY <1>0, <1>1, <1>5 DEF Endpoints!RouterStep, Endpoints!OpenGrid, Endpoints!GridPage, Endpoints!OrphanSettles
<1>6. CASE Endpoints!GatewayStep
  BY <1>2, <1>6 DEF Endpoints!GatewayStep, Endpoints!Serve, Endpoints!Fail, Endpoints!Foreign
<1> QED BY <1>3, <1>4, <1>5, <1>6 DEF Endpoints!Next

-----------------------------------------------------------------------------
(* The log of a benchmark *)

\* A connection has read up to u.at; what it has read is on screen unless the
\* user has cleared it, and the first connection has shown nothing else.
BenchLogStatus == {"queued", "running", "gone", "done", "failed", "cancelled"}
BenchLogRow == [status: BenchLogStatus, log: 0 .. BenchLogOf.lines]
BenchLogTab == [route: {"log"}, shown: BenchLogStatus, streaming: BOOLEAN, at: 0 .. BenchLogOf.lines, dry: BOOLEAN,
                seen: SUBSET (1 .. BenchLogOf.lines), cleared: BOOLEAN, twice: BOOLEAN, opens: 1 .. BenchLogOf.opens]
BenchLogSeen(u, log) ==
  /\ u.at <= log /\ \A n \in u.seen : n <= log
  /\ ~u.cleared => (\A n \in u.seen : \A m \in Int : 1 <= m /\ m <= n => m \in u.seen)
                   /\ \A m \in Int : 1 <= m /\ m <= u.at => m \in u.seen
  /\ u.opens = 1 => ~u.twice /\ (u.streaming => \A n \in u.seen : n <= u.at)
BenchLogOther == [route: {"other"}, opens: 1 .. BenchLogOf.opens]
BenchLogInv == /\ net = {} /\ gw \in BenchLogRow
               /\ ui \in BenchLogOther \/ (ui \in BenchLogTab /\ BenchLogSeen(ui, gw.log))

LEMMA BenchLogConstants == BenchLogOf.lines \in Nat /\ BenchLogOf.opens \in Nat /\ BenchLogOf.opens >= 1
BY ConsoleAssumption DEF BenchLog!ConstantsOK

LEMMA BenchLogNew ==
  ASSUME gw \in BenchLogRow, NEW opens \in 1 .. BenchLogOf.opens,
         NEW u, u = [BenchLog!LogTab(gw.status) EXCEPT !.opens = opens]
  PROVE  u \in BenchLogTab /\ BenchLogSeen(u, gw.log)
<1>1. PICK t : t = BenchLog!LogTab(gw.status)
  OBVIOUS
<1>2. t \in BenchLogTab /\ t.at = 0 /\ t.seen = {} /\ ~t.twice
  BY <1>1, BenchLogConstants DEF BenchLogTab, BenchLogRow, BenchLog!LogTab
<1>3. u \in BenchLogTab /\ u.at = 0 /\ u.seen = {} /\ ~u.twice
  BY <1>1, <1>2 DEF BenchLogTab
<1>4. gw.log >= 0
  BY BenchLogConstants DEF BenchLogRow
<1> QED BY <1>3, <1>4 DEF BenchLogSeen

LEMMA BenchLogInit == BenchLog!Init => BenchLogInv
<1> SUFFICES ASSUME BenchLog!Init PROVE BenchLogInv
  OBVIOUS
<1>1. gw \in BenchLogRow /\ net = {}
  BY DEF BenchLog!Init, BenchLog!Finished, BenchLogStatus, BenchLogRow
<1>2. ui \in BenchLogTab /\ ui.at = 0 /\ ui.seen = {} /\ ~ui.twice
  BY <1>1, BenchLogConstants DEF BenchLog!Init, BenchLog!LogTab, BenchLogTab, BenchLogRow
<1>3. gw.log >= 0
  BY <1>1, BenchLogConstants DEF BenchLogRow
<1> QED BY <1>1, <1>2, <1>3 DEF BenchLogInv, BenchLogSeen

LEMMA BenchLogNext == BenchLogInv /\ BenchLog!Next => BenchLogInv'
<1> SUFFICES ASSUME BenchLogInv, BenchLog!Next PROVE BenchLogInv'
  OBVIOUS
<1> USE BenchLogConstants DEF BenchLog!Stay, BenchLog!OnLog
<1>1. BenchLog!OnLog => ui \in BenchLogTab /\ BenchLogSeen(ui, gw.log)
  BY DEF BenchLogInv, BenchLogOther
<1>2. net = {} /\ gw \in BenchLogRow
  BY DEF BenchLogInv
<1>3. CASE UNCHANGED <<net, gw>> /\ ui' \in BenchLogTab /\ BenchLogSeen(ui', gw.log)
  BY <1>2, <1>3 DEF BenchLogInv
<1>4. CASE BenchLog!PageShows
  <2>1. ui \in BenchLogTab /\ BenchLogSeen(ui, gw.log) /\ UNCHANGED <<net, gw>>
    BY <1>1, <1>4 DEF BenchLog!PageShows
  <2>2. /\ ui' \in BenchLogTab /\ ui'.at = ui.at /\ ui'.seen = ui.seen /\ ui'.cleared = ui.cleared
        /\ ui'.opens = ui.opens /\ ui'.twice = ui.twice /\ ui'.streaming = ui.streaming
    BY <1>2, <1>4, <2>1 DEF BenchLog!PageShows, BenchLogTab, BenchLogRow
  <2> QED BY <1>3, <2>1, <2>2 DEF BenchLogSeen
<1>5. CASE BenchLog!Clear
  <2>1. ui \in BenchLogTab /\ BenchLogSeen(ui, gw.log) /\ UNCHANGED <<net, gw>>
    BY <1>1, <1>5 DEF BenchLog!Clear
  <2>2. ui' \in BenchLogTab /\ ui'.at = ui.at /\ ui'.seen = {} /\ ui'.cleared /\ ~ui'.twice
    BY <1>5, <2>1 DEF BenchLog!Clear, BenchLogTab
  <2> QED BY <1>3, <2>1, <2>2 DEF BenchLogSeen
<1>6. CASE BenchLog!Pause \/ BenchLog!CheckStatus
  <2>1. ui \in BenchLogTab /\ BenchLogSeen(ui, gw.log) /\ UNCHANGED <<net, gw>>
    BY <1>1, <1>6 DEF BenchLog!Pause, BenchLog!CheckStatus
  <2>2. /\ ui' \in BenchLogTab /\ ui'.seen = ui.seen /\ ui'.cleared = ui.cleared /\ ui'.opens = ui.opens
        /\ ui'.twice = ui.twice /\ (ui'.at = ui.at \/ (ui'.at = 0 /\ ~ui'.streaming)) /\ (ui'.streaming => ui.streaming)
    <3>1. CASE ui' = [ui EXCEPT !.dry = FALSE]
      BY <2>1, <3>1 DEF BenchLogTab
    <3>2. CASE ui' = BenchLog!Closed(ui)
      <4>1. 0 \in 0 .. BenchLogOf.lines
        OBVIOUS
      <4> QED BY <2>1, <3>2, <4>1 DEF BenchLog!Closed, BenchLogTab
    <3> QED BY <1>6, <3>1, <3>2 DEF BenchLog!Pause, BenchLog!CheckStatus
  <2>3. gw.log \in Nat
    BY <1>2 DEF BenchLogRow
  <2> QED BY <1>3, <2>1, <2>2, <2>3 DEF BenchLogSeen
<1>7. CASE BenchLog!Resume \/ BenchLog!Reconnect
  <2>1. ui \in BenchLogTab /\ BenchLogSeen(ui, gw.log) /\ UNCHANGED <<net, gw>>
    BY <1>1, <1>7 DEF BenchLog!Resume, BenchLog!Reconnect
  <2>2. ui' = BenchLog!Connected(ui) /\ ui.opens + 1 \in 2 .. BenchLogOf.opens
    BY <1>7, <2>1 DEF BenchLog!Resume, BenchLog!Reconnect, BenchLogTab
  <2>3. /\ ui' \in BenchLogTab /\ ui'.seen = ui.seen /\ ui'.cleared = ui.cleared /\ ui'.opens # 1
        /\ ui'.at = 0
    <3>1. 0 \in 0 .. BenchLogOf.lines /\ ui.opens + 1 \in 1 .. BenchLogOf.opens /\ ui.opens + 1 # 1
      BY <2>2
    <3> QED BY <2>1, <2>2, <3>1 DEF BenchLog!Connected, BenchLogTab
  <2>4. gw.log \in Nat
    BY <1>2 DEF BenchLogRow
  <2> QED BY <1>3, <2>1, <2>3, <2>4 DEF BenchLogSeen
<1>8. CASE BenchLog!Tail
  <2>1. ui \in BenchLogTab /\ BenchLogSeen(ui, gw.log) /\ UNCHANGED <<net, gw>>
    BY <1>1, <1>8 DEF BenchLog!Tail
  <2>2. CASE BenchLog!New = {}
    <3>1. /\ ui' \in BenchLogTab /\ ui'.at = ui.at /\ ui'.seen = ui.seen /\ ui'.cleared = ui.cleared
          /\ ui'.opens = ui.opens /\ ui'.twice = ui.twice /\ ui'.streaming = ui.streaming
      BY <1>8, <2>1, <2>2 DEF BenchLog!Tail, BenchLogTab
    <3> QED BY <1>3, <2>1, <3>1 DEF BenchLogSeen
  <2>3. CASE BenchLog!New # {}
    <3>1. BenchLog!New \in SUBSET (1 .. BenchLogOf.lines) /\ gw.log \in 0 .. BenchLogOf.lines
      BY <1>2, <2>1 DEF BenchLogTab, BenchLogRow, BenchLog!New
    <3>2. /\ ui' \in BenchLogTab /\ ui'.at = gw.log /\ ui'.seen = ui.seen \cup BenchLog!New /\ ui'.cleared = ui.cleared
          /\ ui'.opens = ui.opens /\ ui'.twice = (ui.twice \/ ui.seen \cap BenchLog!New # {}) /\ ui.streaming
      BY <1>8, <2>1, <2>3, <3>1 DEF BenchLog!Tail, BenchLogTab
    <3>3. ui.at \in Int /\ ui.at < gw.log /\ ui.seen \subseteq Int
      BY <2>1, <2>3, <3>1 DEF BenchLog!New, BenchLogTab
    <3>4. \A m \in Int : m \in BenchLog!New <=> ui.at < m /\ m <= gw.log
      BY <3>1, <3>3 DEF BenchLog!New
    <3>5. ui'.at <= gw.log /\ \A n \in ui'.seen : n <= gw.log
      BY <2>1, <3>1, <3>2, <3>3 DEF BenchLogSeen, BenchLog!New
    <3>6. ASSUME ~ui'.cleared, NEW n \in Int, NEW m \in Int, 1 <= m, m <= n, n \in ui'.seen \/ n = gw.log PROVE m \in ui'.seen
      BY <2>1, <3>1, <3>2, <3>3, <3>4, <3>6 DEF BenchLogSeen
    <3>7. ui'.opens = 1 => ~ui'.twice /\ \A n \in ui'.seen : n <= ui'.at
      <4>1. ASSUME ui.opens = 1, NEW n \in ui.seen PROVE n \notin BenchLog!New
        BY <2>1, <3>2, <3>3, <3>4, <4>1 DEF BenchLogSeen
      <4> QED BY <2>1, <3>2, <3>5, <4>1 DEF BenchLogSeen
    <3>8. ui'.seen \subseteq Int /\ gw.log \in Int
      <4>1. BenchLog!New \subseteq Int
        BY <3>1
      <4>2. ui'.seen = ui.seen \cup BenchLog!New /\ ui.seen \subseteq Int /\ gw.log \in Int
        BY <3>1, <3>2, <3>3
      <4> QED BY <4>1, <4>2
    <3>9. BenchLogSeen(ui', gw.log)
      BY <3>2, <3>5, <3>6, <3>7, <3>8 DEF BenchLogSeen
    <3> QED BY <1>3, <2>1, <3>2, <3>9
  <2> QED BY <2>2, <2>3
<1>9. CASE BenchLog!Write \/ BenchLog!CleanUp
  <2>1. gw' = [gw EXCEPT !.log = @ + 1] /\ gw.log < BenchLogOf.lines /\ UNCHANGED <<ui, net>>
    BY <1>9 DEF BenchLog!Write, BenchLog!CleanUp, BenchLog!Written
  <2>2. gw' \in BenchLogRow /\ gw'.log = gw.log + 1 /\ gw.log \in Nat
    BY <1>2, <2>1 DEF BenchLogRow
  <2>3. ui \in BenchLogTab /\ BenchLogSeen(ui, gw.log) => BenchLogSeen(ui, gw.log + 1)
    BY <2>2 DEF BenchLogSeen, BenchLogTab
  <2> QED BY <2>1, <2>2, <2>3 DEF BenchLogInv
<1>10. CASE BenchLog!Run
  <2>1. gw' \in BenchLogRow /\ gw'.log = gw.log /\ UNCHANGED <<ui, net>>
    BY <1>2, <1>10 DEF BenchLog!Run, BenchLogRow, BenchLogStatus, BenchLog!Finished
  <2> QED BY <2>1 DEF BenchLogInv
<1>11. ASSUME NEW logs \in BOOLEAN, BenchLog!ShowTab(logs) PROVE BenchLogInv'
  <2>1. CASE logs
    <3>1. ui.opens + 1 \in 1 .. BenchLogOf.opens
      BY <1>11, <2>1 DEF BenchLogInv, BenchLog!ShowTab, BenchLogOther, BenchLogTab
    <3>2. ui' = [BenchLog!LogTab(gw.status) EXCEPT !.opens = ui.opens + 1] /\ UNCHANGED <<net, gw>>
      BY <1>11, <2>1 DEF BenchLog!ShowTab
    <3> QED BY <1>2, <1>3, <3>1, <3>2, BenchLogNew
  <2>2. CASE ~logs
    <3>1. ui \in BenchLogTab /\ ui' = [route |-> "other", opens |-> ui.opens] /\ UNCHANGED <<net, gw>>
      BY <1>1, <1>11, <2>2 DEF BenchLog!ShowTab
    <3>2. ui' \in BenchLogOther
      BY <3>1 DEF BenchLogOther, BenchLogTab
    <3> QED BY <1>2, <3>1, <3>2 DEF BenchLogInv
  <2> QED BY <2>1, <2>2
<1> QED BY <1>4, <1>5, <1>6, <1>7, <1>8, <1>9, <1>10, <1>11 DEF BenchLog!Next

LEMMA BenchLogFaithful == BenchLogInv => BenchLog!TypeOK /\ BenchLog!LogIsAPrefix
<1> SUFFICES ASSUME BenchLogInv PROVE BenchLog!TypeOK /\ BenchLog!LogIsAPrefix
  OBVIOUS
<1>1. BenchLog!TypeOK
  BY DEF BenchLogInv, BenchLogRow, BenchLogOther, BenchLogTab, BenchLogStatus, BenchLog!TypeOK, BenchLog!UiType,
         BenchLog!Finished, BenchLog!Lines
<1>2. BenchLog!LogIsAPrefix
  <2>1. CASE ui \in BenchLogOther
    BY <2>1 DEF BenchLogOther, BenchLog!LogIsAPrefix, BenchLog!OnLog
  <2>2. CASE ui \in BenchLogTab /\ BenchLogSeen(ui, gw.log)
    BY <2>2, BenchLogConstants DEF BenchLogInv, BenchLogRow, BenchLogTab, BenchLogSeen, BenchLog!LogIsAPrefix
  <2> QED BY <2>1, <2>2 DEF BenchLogInv
<1> QED BY <1>1, <1>2

-----------------------------------------------------------------------------
(* The tabs of an endpoint *)

\* A tab holds what its view is made of, of its own kind.
ViewsFields == {"remembered", "source", "tail"}
ViewsView(w) == w \in [of: Views!Views, data: {None} \cup Views!Data[w.of], err: BOOLEAN, loading: BOOLEAN]
ViewsUi(u) ==
  /\ ViewsView(u.view)
  /\ u.view.of = "workers" => u \in [route: {"tabs"}, view: {u.view}, remembered: [TabsOf.pods -> Views!WorkerStatus]]
  /\ u.view.of = "logs" => u \in [route: {"tabs"}, view: {u.view}, source: Views!Logs, tail: BOOLEAN]
  /\ u.view.of \notin {"workers", "logs"} => u \in [route: {"tabs"}, view: {u.view}]
\* Calls that are waited for are those of the view.
ViewsCall(c, of) ==
  /\ c \in [op: Views!Views, arg: {None} \cup Views!Logs, at: {"sent", "ok", "failed"}, val: {c.val}, live: BOOLEAN]
  /\ c.val = None \/ c.val \in Views!Data[c.op]
  /\ c.at = "ok" => c.val \in Views!Data[c.op]
  /\ c.op = "logs" => c.arg \in Views!Logs
  /\ c.op = IF c.live THEN of ELSE "workers"
\* Every change is counted: no log outgrows the changes there have been.
ViewsGw(g) ==
  /\ g \in [job: [TabsOf.jobs -> Views!JobStatus], pod: [TabsOf.pods -> Views!PodStatus], fault: BOOLEAN,
            log: [Views!Logs -> Nat], stored: [TabsOf.pods -> Views!WorkerStatus], left: Nat, turns: 0 .. TabsOf.turns]
  /\ \A s \in Views!Logs : g.log[s] + g.left <= TabsOf.changes
ViewsInv == ViewsUi(ui) /\ ViewsGw(gw) /\ \A c \in net : ViewsCall(c, ui.view.of)

LEMMA ViewsTyped == ViewsInv => Views!TypeOK
<1> SUFFICES ASSUME ViewsInv PROVE Views!TypeOK
  OBVIOUS
<1>1. ViewsUi(ui) /\ ViewsGw(gw)
  BY DEF ViewsInv
<1>2. ui.view.of \in Views!Views /\ ui.view \in [of: Views!Views, data: {None} \cup Views!Data[ui.view.of], err: BOOLEAN, loading: BOOLEAN]
  BY <1>1 DEF ViewsUi, ViewsView
<1>3. /\ Views!On("workers") => ui.remembered \in [TabsOf.pods -> Views!WorkerStatus]
      /\ Views!On("logs") => ui.source \in Views!Logs /\ ui.tail \in BOOLEAN
  BY <1>1 DEF ViewsUi, Views!On
<1>4. ASSUME NEW c \in net
      PROVE  /\ c.op \in Views!Views
             /\ c \in [op: Views!Views, arg: {None} \cup Views!Logs, at: {"sent", "ok", "failed"},
                       val: {None} \cup Views!Data[c.op], live: BOOLEAN]
  <2>1. ViewsCall(c, ui.view.of)
    BY DEF ViewsInv
  <2> QED BY <2>1 DEF ViewsCall
<1>5. \A s \in Views!Logs : gw.log[s] \in 0 .. TabsOf.changes
  BY <1>1, ConsoleAssumption DEF ViewsGw, Views!ConstantsOK
<1>6. gw.left \in 0 .. TabsOf.changes
  BY <1>1, ConsoleAssumption DEF ViewsGw, Views!ConstantsOK, Views!Logs
<1>7. gw \in [job: [TabsOf.jobs -> Views!JobStatus], pod: [TabsOf.pods -> Views!PodStatus], fault: BOOLEAN,
             log: [Views!Logs -> 0 .. TabsOf.changes], stored: [TabsOf.pods -> Views!WorkerStatus], left: 0 .. TabsOf.changes,
             turns: 0 .. TabsOf.turns]
  <2>1. gw.log \in [Views!Logs -> 0 .. TabsOf.changes]
    BY <1>1, <1>5 DEF ViewsGw
  <2> QED BY <1>1, <1>6, <2>1 DEF ViewsGw
<1> QED BY <1>2, <1>3, <1>4, <1>7 DEF Views!TypeOK

\* A view that opens is empty; a poll asks for what the view shows.
LEMMA ViewsOpen == ASSUME NEW v \in Views!Views, ViewsGw(gw) PROVE ViewsUi(Views!Open(v)) /\ Views!Open(v).view.of = v
<1>1. PICK w : w = Views!View(v)
  OBVIOUS
<1>2. ViewsView(w) /\ w.of = v
  BY <1>1 DEF ViewsView, Views!View
<1>3. PICK o, g : o = Views!Open(v) /\ g = gw.stored
  OBVIOUS
<1>4. g \in [TabsOf.pods -> Views!WorkerStatus]
  BY <1>3 DEF ViewsGw
<1>5. CASE v = "workers"
  <2>1. o = [route |-> "tabs", view |-> w, remembered |-> g]
    BY <1>1, <1>3, <1>5 DEF Views!Open
  <2>2. o.view = w
    BY <2>1
  <2> QED BY <1>2, <1>3, <1>4, <1>5, <2>1, <2>2 DEF ViewsUi
<1>6. CASE v = "logs"
  <2>1. o = [route |-> "tabs", view |-> w, source |-> "gateway", tail |-> TRUE]
    BY <1>1, <1>3, <1>6 DEF Views!Open
  <2>2. o.view = w
    BY <2>1
  <2>3. o \in [route: {"tabs"}, view: {w}, source: Views!Logs, tail: BOOLEAN]
    BY <2>1 DEF Views!Logs
  <2> QED BY <1>2, <1>3, <1>6, <2>2, <2>3 DEF ViewsUi
<1>7. CASE v \notin {"workers", "logs"}
  <2>1. o = [route |-> "tabs", view |-> w]
    BY <1>1, <1>3, <1>7 DEF Views!Open
  <2>2. o.view = w
    BY <2>1
  <2> QED BY <1>2, <1>3, <1>7, <2>1, <2>2 DEF ViewsUi
<1> QED BY <1>5, <1>6, <1>7

LEMMA ViewsBegin == ASSUME NEW u, ViewsUi(u) PROVE ViewsUi(Views!Begin(u)) /\ Views!Begin(u).view.of = u.view.of
<1>1. PICK w : w = [u.view EXCEPT !.loading = TRUE]
  OBVIOUS
<1>2. ViewsView(w) /\ w.of = u.view.of
  BY <1>1 DEF ViewsUi, ViewsView
<1>3. PICK b : b = Views!Begin(u)
  OBVIOUS
<1>4. b = u \/ b = [u EXCEPT !.view = w]
  BY <1>1, <1>3 DEF Views!Begin
<1>5. ViewsUi(b) /\ b.view.of = u.view.of
  BY <1>2, <1>4 DEF ViewsUi
<1> QED BY <1>3, <1>5

LEMMA ViewsPoll == ASSUME NEW u, ViewsUi(u) PROVE ViewsCall(Views!Poll(u), u.view.of)
<1>1. PICK a : a = IF u.view.of = "logs" THEN u.source ELSE None
  OBVIOUS
<1>2. a \in {None} \cup Views!Logs /\ (u.view.of = "logs" => a \in Views!Logs) /\ u.view.of \in Views!Views
  BY <1>1 DEF ViewsUi, ViewsView
<1>3. Views!Poll(u) = [op |-> u.view.of, arg |-> a, at |-> "sent", val |-> None, live |-> TRUE]
  BY <1>1 DEF Views!Poll, Views!Call
<1> QED BY <1>2, <1>3 DEF ViewsCall

\* What a view makes of an answer or a failure.
LEMMA ViewsShows ==
  ASSUME NEW u, ViewsUi(u), NEW v, \E w : v = [u EXCEPT !.view = w] /\ ViewsView(w) /\ w.of = u.view.of
  PROVE  ViewsUi(v) /\ v.view.of = u.view.of
BY DEF ViewsUi

LEMMA ViewsTurn ==
  ASSUME ViewsInv, NEW u, ViewsUi(u), NEW calls, \A c \in calls : ViewsCall(c, u.view.of), Views!Turn(u, calls)
  PROVE  ViewsInv'
<1>1. ViewsUi(ui') /\ ui'.view.of = u.view.of
  BY ViewsBegin DEF Views!Turn
<1>2. \A c \in net' : ViewsCall(c, u.view.of)
  BY ViewsPoll DEF Views!Turn
<1>3. PICK n : n = gw.turns - 1
  OBVIOUS
<1>4. gw' = [gw EXCEPT !.turns = n] /\ n \in 0 .. TabsOf.turns
  BY <1>3, ConsoleAssumption DEF Views!Turn, ViewsInv, ViewsGw, Views!ConstantsOK
<1>5. ViewsGw(gw')
  BY <1>4 DEF ViewsInv, ViewsGw
<1> QED BY <1>1, <1>2, <1>5 DEF ViewsInv

LEMMA ViewsInit == Views!Init => ViewsInv
<1> SUFFICES ASSUME Views!Init PROVE ViewsInv
  OBVIOUS
<1>1. PICK n, l : n = Views!Nothing /\ l = [s \in Views!Logs |-> 0]
  OBVIOUS
<1>2. n \in [TabsOf.pods -> Views!WorkerStatus] /\ l \in [Views!Logs -> Nat]
  BY <1>1 DEF Views!Nothing, Views!WorkerStatus
<1>3. ViewsGw(gw)
  BY <1>1, <1>2, ConsoleAssumption DEF Views!Init, ViewsGw, Views!ConstantsOK, Views!JobStatus, Views!PodStatus
<1>4. ViewsUi(ui)
  BY <1>3, ViewsOpen DEF Views!Init, Views!Views
<1> QED BY <1>3, <1>4, ViewsPoll DEF Views!Init, ViewsInv

LEMMA ViewsAsk == ViewsInv /\ Views!Ask => ViewsInv'
<1> SUFFICES ASSUME ViewsInv, Views!Ask PROVE ViewsInv'
  OBVIOUS
<1>0. ViewsUi(ui) /\ ViewsGw(gw) /\ \A c \in net : ViewsCall(c, ui.view.of)
  BY DEF ViewsInv
<1>1. PICK b : b = Views!Begin(ui)
  OBVIOUS
<1>2. ViewsUi(b) /\ b.view.of = ui.view.of
  BY <1>0, <1>1, ViewsBegin
<1>3. PICK w : w = [b.view EXCEPT !.err = FALSE]
  OBVIOUS
<1>4. ViewsView(w) /\ w.of = b.view.of
  BY <1>2, <1>3 DEF ViewsUi, ViewsView
<1>5. ui' = b \/ ui' = [b EXCEPT !.view = w]
  BY <1>1, <1>3 DEF Views!Ask
<1>6. ViewsUi(ui') /\ ui'.view.of = ui.view.of
  BY <1>2, <1>4, <1>5, ViewsShows
<1> QED BY <1>0, <1>6, ViewsPoll DEF Views!Ask, ViewsInv

LEMMA ViewsUserStep == ViewsInv /\ Views!UserStep => ViewsInv'
<1> SUFFICES ASSUME ViewsInv, Views!UserStep PROVE ViewsInv'
  OBVIOUS
<1>0. ViewsUi(ui) /\ ViewsGw(gw) /\ \A c \in net : ViewsCall(c, ui.view.of)
  BY DEF ViewsInv
<1>2. CASE Views!ClearHistory
  <2>1. PICK n : n = Views!Nothing
    OBVIOUS
  <2>2. n \in [TabsOf.pods -> Views!WorkerStatus]
    BY <2>1 DEF Views!Nothing, Views!WorkerStatus
  <2>3. ui.view.of = "workers" /\ ui' = [ui EXCEPT !.remembered = n] /\ gw' = [gw EXCEPT !.stored = n] /\ net' = net
    BY <1>2, <2>1 DEF Views!ClearHistory, Views!On
  <2>4. ViewsUi(ui') /\ ui'.view.of = ui.view.of
    BY <1>0, <2>2, <2>3 DEF ViewsUi
  <2>5. ViewsGw(gw')
    BY <1>0, <2>2, <2>3 DEF ViewsGw
  <2> QED BY <1>0, <2>3, <2>4, <2>5 DEF ViewsInv
<1>3. CASE Views!ToggleTail
  <2>1. PICK t \in BOOLEAN : t = ~ui.tail
    OBVIOUS
  <2>2. PICK u : u = [ui EXCEPT !.tail = t]
    OBVIOUS
  <2>3. ui.view.of = "logs" /\ Views!Turn(u, net)
    BY <1>3, <2>1, <2>2 DEF Views!ToggleTail, Views!On
  <2>4. ViewsUi(u) /\ u.view.of = ui.view.of
    BY <1>0, <2>2, <2>3 DEF ViewsUi
  <2> QED BY <1>0, <2>3, <2>4, ViewsTurn
<1>4. ASSUME NEW s \in Views!Logs, Views!ChooseSource(s) PROVE ViewsInv'
  <2>1. PICK w, u : w = Views!View("logs") /\ u = [ui EXCEPT !.source = s, !.view = w]
    OBVIOUS
  <2>2. ViewsView(w) /\ w.of = "logs"
    BY <2>1 DEF ViewsView, Views!View, Views!Views
  <2>3. ui.view.of = "logs" /\ Views!Turn(u, net)
    BY <1>4, <2>1 DEF Views!ChooseSource, Views!On
  <2>4. ViewsUi(u) /\ u.view.of = ui.view.of
    BY <1>0, <2>1, <2>2, <2>3 DEF ViewsUi
  <2> QED BY <1>0, <2>3, <2>4, ViewsTurn
<1>5. ASSUME NEW v \in Views!Views, Views!ShowView(v) PROVE ViewsInv'
  <2>1. ViewsUi(Views!Open(v)) /\ Views!Open(v).view.of = v
    BY <1>0, ViewsOpen
  <2>2. ASSUME NEW c \in net, c.op = "workers", NEW d, d = [c EXCEPT !.live = FALSE] PROVE ViewsCall(d, v)
    <3>1. ViewsCall(c, ui.view.of)
      BY <1>0
    <3>2. d.op = c.op /\ d.arg = c.arg /\ d.at = c.at /\ d.val = c.val /\ d.live = FALSE
          /\ d \in [op: Views!Views, arg: {None} \cup Views!Logs, at: {"sent", "ok", "failed"}, val: {d.val}, live: BOOLEAN]
      BY <2>2, <3>1 DEF ViewsCall
    <3> QED BY <2>2, <3>1, <3>2 DEF ViewsCall
  <2>3. \A d \in Views!Orphans({c \in net : c.op = "workers"}) : ViewsCall(d, v)
    BY <2>2 DEF Views!Orphans
  <2> QED BY <1>5, <2>1, <2>3, ViewsTurn DEF Views!ShowView
<1> QED BY <1>2, <1>3, <1>4, <1>5, ViewsAsk DEF Views!UserStep, Views!RefreshButton

LEMMA ViewsMerges ==
  ASSUME NEW a \in [TabsOf.pods -> Views!WorkerStatus], NEW b \in [TabsOf.pods -> Views!WorkerStatus]
  PROVE  Views!Merge(a, b) \in [TabsOf.pods -> Views!WorkerStatus]
BY DEF Views!Merge

LEMMA ViewsPageStep == ViewsInv /\ Views!PageStep => ViewsInv'
<1> SUFFICES ASSUME ViewsInv, Views!PageStep PROVE ViewsInv'
  OBVIOUS
<1>0. ViewsUi(ui) /\ ViewsGw(gw) /\ \A c \in net : ViewsCall(c, ui.view.of)
  BY DEF ViewsInv
<1>1. ASSUME NEW c, net' = net \ {c}, ViewsGw(gw'), ViewsUi(ui'), ui'.view.of = ui.view.of PROVE ViewsInv'
  BY <1>0, <1>1 DEF ViewsInv
<1>2. ASSUME NEW d \in {None} \cup Views!Data[ui.view.of], NEW e \in BOOLEAN, NEW l \in BOOLEAN, NEW u,
             u = [ui EXCEPT !.view.data = d, !.view.err = e, !.view.loading = l]
      PROVE  ViewsUi(u) /\ u.view.of = ui.view.of
  <2>1. PICK w : w = [ui.view EXCEPT !.data = d, !.err = e, !.loading = l]
    OBVIOUS
  <2>2. ViewsView(w) /\ w.of = ui.view.of
    BY <1>0, <2>1 DEF ViewsUi, ViewsView
  <2>3. u = [ui EXCEPT !.view = w]
    BY <1>0, <1>2, <2>1 DEF ViewsUi
  <2> QED BY <1>0, <2>2, <2>3, ViewsShows
<1>3. PICK e, l, d : e = ui.view.err /\ l = ui.view.loading /\ d = ui.view.data
  OBVIOUS
<1>4. e \in BOOLEAN /\ l \in BOOLEAN /\ d \in {None} \cup Views!Data[ui.view.of]
  BY <1>0, <1>3 DEF ViewsUi, ViewsView
<1>5. ASSUME NEW c \in net, c.live PROVE c.op = ui.view.of /\ (c.at = "ok" => c.val \in Views!Data[ui.view.of])
  BY <1>0, <1>5 DEF ViewsCall
<1>6. ASSUME NEW u, u = Views!Fails PROVE ViewsUi(u) /\ u.view.of = ui.view.of
  <2>1. PICK w : w = [ui.view EXCEPT !.err = TRUE, !.loading = FALSE]
    OBVIOUS
  <2>2. ViewsView(w) /\ w.of = ui.view.of
    BY <1>0, <2>1 DEF ViewsUi, ViewsView
  <2>3. u = [ui EXCEPT !.view = w]
    BY <1>0, <1>6, <2>1 DEF ViewsUi, Views!Fails
  <2> QED BY <1>0, <2>2, <2>3, ViewsShows
<1>7. ASSUME NEW x \in Views!Data[ui.view.of], NEW u, u = Views!Shows(x) PROVE ViewsUi(u) /\ u.view.of = ui.view.of
  BY <1>2, <1>7 DEF Views!Shows
<1>8. ASSUME NEW c \in net, Views!BannerReply(c) PROVE ViewsInv'
  <2>1. c.live /\ net' = net \ {c} /\ gw' = gw /\ (ui' = ui \/ (c.at = "ok" /\ ui' = [ui EXCEPT !.view.data = c.val]))
    BY <1>8 DEF Views!BannerReply, Views!Done
  <2>2. ASSUME c.at = "ok", ui' = [ui EXCEPT !.view.data = c.val] PROVE ViewsUi(ui') /\ ui'.view.of = ui.view.of
    <3>1. PICK w : w = [ui.view EXCEPT !.data = c.val]
      OBVIOUS
    <3>2. ViewsView(w) /\ w.of = ui.view.of
      BY <1>0, <1>5, <2>1, <2>2, <3>1 DEF ViewsUi, ViewsView
    <3>3. ui' = [ui EXCEPT !.view = w]
      BY <2>2, <3>1
    <3> QED BY <1>0, <3>2, <3>3, ViewsShows
  <2> QED BY <1>0, <1>1, <2>1, <2>2
<1>9. ASSUME NEW c \in net, Views!QueueReply(c) PROVE ViewsInv'
  <2>1. c.live /\ net' = net \ {c} /\ gw' = gw /\ (ui' = Views!Fails \/ (c.at = "ok" /\ ui' = Views!Shows(c.val)))
    BY <1>9 DEF Views!QueueReply, Views!Done
  <2>2. ViewsUi(ui') /\ ui'.view.of = ui.view.of
    BY <1>5, <1>6, <1>7, <2>1
  <2> QED BY <1>0, <1>1, <2>1, <2>2
<1>10. ASSUME NEW c \in net, Views!WorkersReply(c) PROVE ViewsInv'
  <2>1. c.live /\ c.op = "workers" /\ net' = net \ {c}
    BY <1>10 DEF Views!WorkersReply, Views!Done
  <2>2. CASE c.at # "ok"
    BY <1>0, <1>1, <1>6, <1>10, <2>1, <2>2 DEF Views!WorkersReply
  <2>3. CASE c.at = "ok"
    <3>1. PICK m : m = Views!Merge(ui.remembered, c.val)
      OBVIOUS
    <3>2. ui.view.of = "workers" /\ c.val \in [TabsOf.pods -> Views!WorkerStatus] /\ ui.remembered \in [TabsOf.pods -> Views!WorkerStatus]
      BY <1>0, <1>5, <2>1, <2>3 DEF ViewsUi, Views!Data
    <3>3. m \in [TabsOf.pods -> Views!WorkerStatus]
      BY <3>1, <3>2, ViewsMerges
    <3>4. PICK w : w = [ui.view EXCEPT !.data = c.val, !.loading = FALSE]
      OBVIOUS
    <3>5. ViewsView(w) /\ w.of = ui.view.of
      BY <1>0, <1>5, <2>1, <2>3, <3>4 DEF ViewsUi, ViewsView
    <3>6. ui' = [ui EXCEPT !.view = w, !.remembered = m] /\ gw' = [gw EXCEPT !.stored = m]
      BY <1>10, <2>3, <3>1, <3>4 DEF Views!WorkersReply
    <3>7. ViewsUi(ui') /\ ui'.view.of = ui.view.of
      BY <1>0, <3>2, <3>3, <3>5, <3>6 DEF ViewsUi
    <3>8. ViewsGw(gw')
      BY <1>0, <3>3, <3>6 DEF ViewsGw
    <3> QED BY <1>1, <2>1, <3>7, <3>8
  <2> QED BY <2>2, <2>3
<1>11. ASSUME NEW c \in net, Views!LateWorkers(c) PROVE ViewsInv'
  <2>1. ~c.live /\ net' = net \ {c} /\ ui' = ui
        /\ (gw' = gw \/ (c.at = "ok" /\ gw' = [gw EXCEPT !.stored = Views!Merge(@, c.val)]))
    BY <1>11 DEF Views!LateWorkers
  <2>2. ASSUME c.at = "ok", gw' = [gw EXCEPT !.stored = Views!Merge(@, c.val)] PROVE ViewsGw(gw')
    <3>1. PICK m : m = Views!Merge(gw.stored, c.val)
      OBVIOUS
    <3>2. c.val \in [TabsOf.pods -> Views!WorkerStatus] /\ gw.stored \in [TabsOf.pods -> Views!WorkerStatus]
      BY <1>0, <2>1, <2>2 DEF ViewsCall, ViewsGw, Views!Data
    <3>3. m \in [TabsOf.pods -> Views!WorkerStatus] /\ gw' = [gw EXCEPT !.stored = m]
      BY <2>2, <3>1, <3>2, ViewsMerges
    <3> QED BY <1>0, <3>3 DEF ViewsGw
  <2> QED BY <1>0, <1>1, <2>1, <2>2
<1>12. ASSUME NEW c \in net, Views!LogsReply(c) PROVE ViewsInv'
  <2>1. /\ c.live /\ c.at # "sent" /\ net' = net \ {c} /\ gw' = gw
        /\ \/ ui' = Views!Fails
           \/ c.at # "failed" /\ ui' = Views!Shows(c.val)
           \/ ui' = [ui EXCEPT !.view.err = FALSE, !.view.loading = FALSE]
    <3>1. c.live /\ c.at # "sent" /\ net' = net \ {c} /\ gw' = gw
      BY <1>12 DEF Views!LogsReply, Views!Done
    <3>2. CASE c.at = "failed"
      BY <1>12, <3>1, <3>2 DEF Views!LogsReply
    <3>3. CASE c.at = "ok" /\ c.arg = ui.source
      BY <1>12, <3>1, <3>3 DEF Views!LogsReply
    <3>4. CASE c.at # "failed" /\ ~(c.at = "ok" /\ c.arg = ui.source)
      BY <1>12, <3>1, <3>4 DEF Views!LogsReply
    <3> QED BY <3>2, <3>3, <3>4
  <2>2. c.at # "failed" => c.val \in Views!Data[ui.view.of]
    BY <1>0, <1>5, <2>1 DEF ViewsCall
  <2>3. ASSUME ui' = [ui EXCEPT !.view.err = FALSE, !.view.loading = FALSE] PROVE ViewsUi(ui') /\ ui'.view.of = ui.view.of
    <3>1. PICK w : w = [ui.view EXCEPT !.err = FALSE, !.loading = FALSE]
      OBVIOUS
    <3>2. ViewsView(w) /\ w.of = ui.view.of
      BY <1>0, <3>1 DEF ViewsUi, ViewsView
    <3>3. ui' = [ui EXCEPT !.view = w]
      BY <1>0, <2>3, <3>1 DEF ViewsUi
    <3> QED BY <1>0, <3>2, <3>3, ViewsShows
  <2> QED BY <1>0, <1>1, <1>6, <1>7, <2>1, <2>2, <2>3
<1> QED BY <1>8, <1>9, <1>10, <1>11, <1>12, ViewsAsk DEF Views!PageStep, Views!Tick, Views!Reply

LEMMA ViewsServerStep == ViewsInv /\ Views!ServerStep => ViewsInv'
<1> SUFFICES ASSUME ViewsInv, Views!ServerStep PROVE ViewsInv'
  OBVIOUS
<1>0. ViewsUi(ui) /\ ViewsGw(gw) /\ \A c \in net : ViewsCall(c, ui.view.of)
  BY DEF ViewsInv
<1>1. ASSUME NEW c \in net, Views!Serve(c) PROVE ViewsInv'
  <2>1. PICK x, d : x = Views!Snapshot(c) /\ d = [c EXCEPT !.at = "ok", !.val = x]
    OBVIOUS
  <2>2. ViewsCall(c, ui.view.of)
    BY <1>0
  <2>3. x \in Views!Data[c.op]
    <3>1. Views!Queue \in [TabsOf.jobs -> Views!Bucket]
      BY <1>0 DEF Views!Queue, Views!bucketFor, Views!Bucket, ViewsGw, Views!JobStatus
    <3>2. Views!Workers \in [TabsOf.pods -> Views!WorkerStatus]
      BY <1>0 DEF Views!Workers, Views!mapStatus, Views!WorkerStatus, ViewsGw, Views!PodStatus
    <3>3. Views!Fault \in [fault: BOOLEAN]
      BY <1>0 DEF Views!Fault, ViewsGw
    <3>4. c.op = "logs" => Views!Log(c.arg) \in [log: 0 .. TabsOf.changes]
      <4>1. c.op = "logs" => gw.log[c.arg] \in 0 .. TabsOf.changes
        BY <1>0, <2>2, ConsoleAssumption DEF ViewsGw, ViewsCall, Views!ConstantsOK
      <4> QED BY <4>1 DEF Views!Log
    <3>5. c.op \in {"banner", "queue", "workers", "logs"}
      BY <2>2 DEF ViewsCall, Views!Views
    <3>6. CASE c.op = "banner"
      BY <2>1, <3>3, <3>6 DEF Views!Snapshot, Views!Data
    <3>7. CASE c.op = "queue"
      BY <2>1, <3>1, <3>7 DEF Views!Snapshot, Views!Data
    <3>8. CASE c.op = "workers"
      BY <2>1, <3>2, <3>8 DEF Views!Snapshot, Views!Data
    <3>9. CASE c.op = "logs"
      BY <2>1, <3>4, <3>9 DEF Views!Snapshot, Views!Data
    <3> QED BY <3>5, <3>6, <3>7, <3>8, <3>9
  <2>4. d.op = c.op /\ d.arg = c.arg /\ d.at = "ok" /\ d.val = x /\ d.live = c.live
        /\ d \in [op: Views!Views, arg: {None} \cup Views!Logs, at: {"sent", "ok", "failed"}, val: {d.val}, live: BOOLEAN]
    BY <2>1, <2>2 DEF ViewsCall
  <2>5. ViewsCall(d, ui.view.of)
    BY <2>2, <2>3, <2>4 DEF ViewsCall
  <2> QED BY <1>0, <1>1, <2>1, <2>5 DEF Views!Serve, Views!Answered, ViewsInv
<1>2. ASSUME NEW c \in net, Views!Fail(c) PROVE ViewsInv'
  <2>1. PICK d : d = [c EXCEPT !.at = "failed"]
    OBVIOUS
  <2>2. ViewsCall(c, ui.view.of)
    BY <1>0
  <2>3. d.op = c.op /\ d.arg = c.arg /\ d.at = "failed" /\ d.val = c.val /\ d.live = c.live
        /\ d \in [op: Views!Views, arg: {None} \cup Views!Logs, at: {"sent", "ok", "failed"}, val: {d.val}, live: BOOLEAN]
    BY <2>1, <2>2 DEF ViewsCall
  <2>4. ViewsCall(d, ui.view.of)
    BY <2>2, <2>3 DEF ViewsCall
  <2> QED BY <1>0, <1>2, <2>1, <2>4 DEF Views!Fail, Views!Failed, ViewsInv
<1>3. ASSUME NEW g, g \in [job: [TabsOf.jobs -> Views!JobStatus], pod: [TabsOf.pods -> Views!PodStatus], fault: BOOLEAN,
                           log: [Views!Logs -> Nat], stored: [TabsOf.pods -> Views!WorkerStatus], left: Nat, turns: 0 .. TabsOf.turns],
             g.left = gw.left, \A s \in Views!Logs : g.log[s] <= gw.log[s] + 1, Views!Change(g)
      PROVE  ViewsInv'
  <2>1. PICK n : n = g.left - 1
    OBVIOUS
  <2>2. gw' = [g EXCEPT !.left = n] /\ n \in Nat /\ n + 1 = gw.left
    BY <1>0, <1>3, <2>1 DEF Views!Change, ViewsGw
  <2>3. /\ gw' \in [job: [TabsOf.jobs -> Views!JobStatus], pod: [TabsOf.pods -> Views!PodStatus], fault: BOOLEAN,
                    log: [Views!Logs -> Nat], stored: [TabsOf.pods -> Views!WorkerStatus], left: Nat, turns: 0 .. TabsOf.turns]
        /\ gw'.log = g.log /\ gw'.left = n
    BY <1>3, <2>2
  <2>4. ASSUME NEW s \in Views!Logs PROVE gw'.log[s] + gw'.left <= TabsOf.changes
    <3>1. gw.log[s] + gw.left <= TabsOf.changes /\ gw.log[s] \in Nat /\ g.log[s] \in Nat /\ g.log[s] <= gw.log[s] + 1
      BY <1>0, <1>3 DEF ViewsGw
    <3> QED BY <2>2, <2>3, <3>1, ConsoleAssumption DEF Views!ConstantsOK
  <2>5. ViewsGw(gw')
    BY <2>3, <2>4 DEF ViewsGw
  <2> QED BY <1>0, <1>3, <2>5 DEF Views!Change, ViewsInv
<1>4. gw \in [job: [TabsOf.jobs -> Views!JobStatus], pod: [TabsOf.pods -> Views!PodStatus], fault: BOOLEAN,
              log: [Views!Logs -> Nat], stored: [TabsOf.pods -> Views!WorkerStatus], left: Nat, turns: 0 .. TabsOf.turns]
  BY <1>0 DEF ViewsGw
<1>5. CASE Views!FaultMoves
  <2>1. PICK b \in BOOLEAN : b = ~gw.fault
    OBVIOUS
  <2>2. PICK g : g = [gw EXCEPT !.fault = b]
    OBVIOUS
  <2>3. Views!Change(g)
    BY <1>5, <2>1, <2>2 DEF Views!FaultMoves
  <2>4. g \in [job: [TabsOf.jobs -> Views!JobStatus], pod: [TabsOf.pods -> Views!PodStatus], fault: BOOLEAN,
               log: [Views!Logs -> Nat], stored: [TabsOf.pods -> Views!WorkerStatus], left: Nat, turns: 0 .. TabsOf.turns]
        /\ g.left = gw.left /\ g.log = gw.log
    BY <1>4, <2>2
  <2> QED BY <1>3, <1>4, <2>3, <2>4
<1>6. ASSUME NEW j \in TabsOf.jobs, Views!JobMoves(j) PROVE ViewsInv'
  <2>1. PICK st \in Views!JobStatus : Views!Change([gw EXCEPT !.job[j] = st])
    BY <1>6, ZenonT(60) DEF Views!JobMoves, Views!JobStatus
  <2>2. PICK g : g = [gw EXCEPT !.job[j] = st]
    OBVIOUS
  <2>3. g \in [job: [TabsOf.jobs -> Views!JobStatus], pod: [TabsOf.pods -> Views!PodStatus], fault: BOOLEAN,
               log: [Views!Logs -> Nat], stored: [TabsOf.pods -> Views!WorkerStatus], left: Nat, turns: 0 .. TabsOf.turns]
        /\ g.left = gw.left /\ g.log = gw.log
    BY <1>4, <2>2
  <2> QED BY <1>3, <1>4, <2>1, <2>2, <2>3
<1>7. ASSUME NEW p \in TabsOf.pods, Views!PodMoves(p) PROVE ViewsInv'
  <2>1. PICK st \in Views!PodStatus : Views!Change([gw EXCEPT !.pod[p] = st])
    BY <1>7 DEF Views!PodMoves, Views!NextStatus, Views!PodStatus
  <2>2. PICK g : g = [gw EXCEPT !.pod[p] = st]
    OBVIOUS
  <2>3. g \in [job: [TabsOf.jobs -> Views!JobStatus], pod: [TabsOf.pods -> Views!PodStatus], fault: BOOLEAN,
               log: [Views!Logs -> Nat], stored: [TabsOf.pods -> Views!WorkerStatus], left: Nat, turns: 0 .. TabsOf.turns]
        /\ g.left = gw.left /\ g.log = gw.log
    BY <1>4, <2>2
  <2> QED BY <1>3, <1>4, <2>1, <2>2, <2>3
<1>8. ASSUME NEW s \in Views!Logs, Views!LogGrows(s) PROVE ViewsInv'
  <2>1. PICK n : n = gw.log[s] + 1
    OBVIOUS
  <2>2. PICK g : g = [gw EXCEPT !.log[s] = n]
    OBVIOUS
  <2>3. Views!Change(g) /\ n \in Nat
    BY <1>4, <1>8, <2>1, <2>2 DEF Views!LogGrows
  <2>4. g \in [job: [TabsOf.jobs -> Views!JobStatus], pod: [TabsOf.pods -> Views!PodStatus], fault: BOOLEAN,
               log: [Views!Logs -> Nat], stored: [TabsOf.pods -> Views!WorkerStatus], left: Nat, turns: 0 .. TabsOf.turns]
        /\ g.left = gw.left /\ g.log = [gw.log EXCEPT ![s] = n]
    BY <1>4, <2>2, <2>3
  <2>5. \A t \in Views!Logs : g.log[t] <= gw.log[t] + 1
    BY <1>4, <2>1, <2>4
  <2> QED BY <1>3, <2>3, <2>4, <2>5
<1> QED BY <1>1, <1>2, <1>5, <1>6, <1>7, <1>8 DEF Views!ServerStep

LEMMA ViewsNext == ViewsInv /\ Views!Next => ViewsInv'
BY ViewsUserStep, ViewsPageStep, ViewsServerStep DEF Views!Next

-----------------------------------------------------------------------------
(* The requests tab of an endpoint *)

\* A history tracks requests that were sent, each once, and not too many.
HistoryTracked(g) == {e \in [id: HistoryOf.reqs, status: History!RequestStatus] : g.status[e.id] # "new"}
HistoryOK(g, h) == h \in Seq(HistoryTracked(g)) /\ Len(h) <= HistoryOf.history /\ History!Once(h)
HistoryUi(g, u) ==
  /\ HistoryOK(g, u.old)
  /\ \/ u \in [route: {"requests"}, shown: {u.shown}, queued: {u.queued}, old: {u.old}] /\ HistoryOK(g, u.shown) /\ HistoryOK(g, u.queued)
     \/ u \in [route: {"elsewhere"}, old: {u.old}]
HistoryGw(g) == /\ g \in [status: [HistoryOf.reqs -> History!Ended \cup {"new", "pending"}], stored: {g.stored},
                          edits: 0 .. HistoryOf.edits, failures: 0 .. HistoryOf.failures]
                /\ HistoryOK(g, g.stored)
HistoryCall(g, u, c) ==
  /\ c \in [op: {"run", "result"}, arg: HistoryOf.reqs \cup {None}, at: {"sent", "ok", "failed"},
            val: HistoryOf.reqs \cup History!RequestStatus \cup {None}, live: BOOLEAN]
  /\ c.op = "result" => c.arg \in HistoryOf.reqs /\ g.status[c.arg] # "new" /\ (c.at = "ok" => c.val \in History!RequestStatus)
  /\ c.op = "run" /\ c.at = "ok" => c.val \in HistoryOf.reqs /\ g.status[c.val] # "new"
  /\ c.live => u.route = "requests"
HistoryInv == HistoryGw(gw) /\ HistoryUi(gw, ui) /\ \A c \in net : HistoryCall(gw, ui, c)

LEMMA HistoryWithout ==
  ASSUME NEW g, NEW h, HistoryOK(g, h), NEW r, NEW w, w = History!Without(h, r)
  PROVE  HistoryOK(g, w) /\ \A i \in 1 .. Len(w) : w[i].id # r
<1>1. h \in Seq(HistoryTracked(g)) /\ Len(h) \in Nat /\ DOMAIN h = 1 .. Len(h) /\ Len(h) <= HistoryOf.history
  BY LenProperties DEF HistoryOK
<1>2. CASE History!Places(h, r) = {}
  BY <1>2 DEF History!Without, History!Places
<1>3. CASE History!Places(h, r) # {}
  <2>1. PICK i : i = CHOOSE j \in History!Places(h, r) : TRUE
    OBVIOUS
  <2>2. i \in 1 .. Len(h) /\ h[i].id = r
    BY <1>3, <2>1 DEF History!Places
  <2>3. PICK a, b : a = SubSeq(h, 1, i - 1) /\ b = SubSeq(h, i + 1, Len(h))
    OBVIOUS
  <2>4. w = a \o b
    BY <1>3, <2>1, <2>3 DEF History!Without
  <2>5. /\ a \in Seq(HistoryTracked(g)) /\ Len(a) = i - 1
        /\ \A k \in 1 .. i - 1 : a[k] = h[k]
    <3>1. \A k \in 1 .. i - 1 : h[k] \in HistoryTracked(g)
      BY <1>1, <2>2, ElementOfSeq
    <3> QED BY <1>1, <2>2, <2>3, <3>1, SubSeqProperties
  <2>6. /\ b \in Seq(HistoryTracked(g)) /\ Len(b) = Len(h) - i
        /\ \A k \in 1 .. Len(h) - i : b[k] = h[i + k]
    <3>1. \A k \in i + 1 .. Len(h) : h[k] \in HistoryTracked(g)
      BY <1>1, <2>2, ElementOfSeq
    <3>2. /\ b \in Seq(HistoryTracked(g)) /\ Len(b) = IF i + 1 <= Len(h) THEN Len(h) - (i + 1) + 1 ELSE 0
          /\ \A k \in 1 .. Len(h) - (i + 1) + 1 : b[k] = h[(i + 1) + k - 1]
      BY <1>1, <2>2, <2>3, <3>1, SubSeqProperties
    <3>3. Len(b) = Len(h) - i
      <4>1. CASE i + 1 <= Len(h)
        <5>1. Len(b) = Len(h) - (i + 1) + 1
          BY <3>2, <4>1
        <5> QED BY <1>1, <2>2, <5>1
      <4>2. CASE ~(i + 1 <= Len(h))
        <5>1. Len(b) = 0
          BY <3>2, <4>2
        <5>2. PICK n \in Nat : n = Len(h)
          BY <1>1
        <5>3. i \in 1 .. n
          BY <2>2, <5>2
        <5>4. i = Len(h)
          BY <4>2, <5>2, <5>3
        <5> QED BY <1>1, <5>1, <5>4
      <4> QED BY <4>1, <4>2
    <3>4. ASSUME NEW k \in 1 .. Len(h) - i PROVE b[k] = h[i + k]
      <4>1. k \in 1 .. Len(h) - (i + 1) + 1 /\ (i + 1) + k - 1 = i + k
        BY <1>1, <2>2
      <4> QED BY <3>2, <4>1
    <3> QED BY <3>2, <3>3, <3>4
  <2>7. /\ w \in Seq(HistoryTracked(g)) /\ Len(w) = Len(h) - 1 /\ DOMAIN w = 1 .. Len(h) - 1
        /\ \A k \in 1 .. Len(h) - 1 : w[k] = IF k < i THEN h[k] ELSE h[k + 1]
    <3>1. /\ w \in Seq(HistoryTracked(g)) /\ Len(w) = Len(a) + Len(b)
          /\ \A k \in 1 .. Len(a) + Len(b) : w[k] = IF k <= Len(a) THEN a[k] ELSE b[k - Len(a)]
      BY <2>4, <2>5, <2>6, ConcatProperties
    <3>2. Len(w) = Len(h) - 1 /\ DOMAIN w = 1 .. Len(h) - 1
      BY <1>1, <2>2, <2>5, <2>6, <3>1, LenProperties
    <3>3. ASSUME NEW k \in 1 .. Len(h) - 1 PROVE w[k] = IF k < i THEN h[k] ELSE h[k + 1]
      <4>1. CASE k < i
        <5>1. k \in 1 .. Len(a) + Len(b) /\ k <= Len(a) /\ k \in 1 .. i - 1
          BY <1>1, <2>2, <2>5, <2>6, <4>1
        <5> QED BY <2>5, <3>1, <4>1, <5>1
      <4>2. CASE k >= i
        <5>1. k \in 1 .. Len(a) + Len(b) /\ ~(k <= Len(a)) /\ k - Len(a) \in 1 .. Len(h) - i /\ i + (k - Len(a)) = k + 1
          BY <1>1, <2>2, <2>5, <2>6, <4>2
        <5> QED BY <2>6, <3>1, <4>2, <5>1, <2>2
      <4> QED BY <2>2, <4>1, <4>2
    <3> QED BY <3>1, <3>2, <3>3
  <2>8. ASSUME NEW k \in 1 .. Len(h) - 1 PROVE w[k].id # r
    <3>1. PICK j \in 1 .. Len(h) : w[k] = h[j] /\ j # i
      BY <1>1, <2>2, <2>7
    <3> QED BY <1>1, <2>2, <3>1 DEF HistoryOK, History!Once
  <2>9. History!Once(w)
    <3> SUFFICES ASSUME NEW k \in 1 .. Len(h) - 1, NEW l \in 1 .. Len(h) - 1, w[k].id = w[l].id PROVE k = l
      BY <2>7 DEF History!Once
    <3>1. PICK m, n : m = (IF k < i THEN k ELSE k + 1) /\ n = (IF l < i THEN l ELSE l + 1)
      OBVIOUS
    <3>2. m \in 1 .. Len(h) /\ n \in 1 .. Len(h) /\ w[k] = h[m] /\ w[l] = h[n]
      BY <1>1, <2>2, <2>7, <3>1
    <3>3. m = n
      BY <1>1, <3>2 DEF HistoryOK, History!Once
    <3> QED BY <1>1, <2>2, <3>1, <3>3
  <2>10. Len(w) <= HistoryOf.history
    BY <1>1, <2>7, ConsoleAssumption DEF History!ConstantsOK
  <2>11. \A k \in 1 .. Len(w) : w[k].id # r
    BY <2>7, <2>8
  <2> QED BY <2>7, <2>9, <2>10, <2>11 DEF HistoryOK
<1> QED BY <1>2, <1>3

LEMMA HistoryUpserts ==
  ASSUME NEW g, NEW h, HistoryOK(g, h), NEW r \in HistoryOf.reqs, g.status[r] # "new", NEW st \in History!RequestStatus
  PROVE  HistoryOK(g, History!upsert(h, r, st))
<1>1. PICK w : w = History!Without(h, r)
  OBVIOUS
<1>2. HistoryOK(g, w) /\ \A i \in 1 .. Len(w) : w[i].id # r
  BY <1>1, HistoryWithout
<1>3. PICK e : e = History!Entry(r, st)
  OBVIOUS
<1>4. e \in HistoryTracked(g) /\ e.id = r
  BY <1>3 DEF History!Entry, HistoryTracked
<1>5. w \in Seq(HistoryTracked(g)) /\ Len(w) \in Nat /\ DOMAIN w = 1 .. Len(w)
  BY <1>2, LenProperties DEF HistoryOK
<1>6. PICK n : n = <<e>> \o w
  OBVIOUS
<1>7. <<e>> \in Seq(HistoryTracked(g)) /\ Len(<<e>>) = 1 /\ <<e>>[1] = e
  BY <1>4
<1>8. /\ n \in Seq(HistoryTracked(g)) /\ Len(n) = 1 + Len(w) /\ n[1] = e
      /\ \A k \in 1 .. Len(w) : n[k + 1] = w[k]
  <2>1. /\ n \in Seq(HistoryTracked(g)) /\ Len(n) = 1 + Len(w)
        /\ \A k \in 1 .. 1 + Len(w) : n[k] = IF k <= 1 THEN <<e>>[k] ELSE w[k - 1]
    BY <1>5, <1>6, <1>7, ConcatProperties
  <2>2. ASSUME NEW k \in 1 .. Len(w) PROVE n[k + 1] = w[k]
    <3>1. k + 1 \in 1 .. 1 + Len(w) /\ ~(k + 1 <= 1) /\ (k + 1) - 1 = k
      BY <1>5
    <3> QED BY <2>1, <3>1
  <2> QED BY <1>5, <1>7, <2>1, <2>2
<1>9. \A i, j \in 1 .. Len(n) : n[i].id = n[j].id => i = j
  <2> SUFFICES ASSUME NEW i \in 1 .. Len(n), NEW j \in 1 .. Len(n), n[i].id = n[j].id PROVE i = j
    OBVIOUS
  <2>1. \A k \in 1 .. Len(n) : k = 1 \/ (k - 1 \in 1 .. Len(w) /\ n[k] = w[k - 1])
    <3> SUFFICES ASSUME NEW k \in 1 .. Len(n), k # 1 PROVE k - 1 \in 1 .. Len(w) /\ n[k] = w[k - 1]
      OBVIOUS
    <3>1. k - 1 \in 1 .. Len(w) /\ (k - 1) + 1 = k
      BY <1>5, <1>8
    <3> QED BY <1>8, <3>1
  <2>2. \A k, l \in 1 .. Len(w) : w[k].id = w[l].id => k = l
    BY <1>2, <1>5 DEF HistoryOK, History!Once
  <2>3. CASE i = 1
    BY <1>2, <1>4, <1>8, <2>1, <2>3
  <2>4. CASE j = 1
    BY <1>2, <1>4, <1>8, <2>1, <2>4
  <2>5. CASE i # 1 /\ j # 1
    <3>1. i - 1 = j - 1
      BY <2>1, <2>2, <2>5
    <3> QED BY <3>1, <1>5, <1>8
  <2> QED BY <2>3, <2>4, <2>5
<1>10. PICK m : m = IF Len(n) > HistoryOf.history THEN HistoryOf.history ELSE Len(n)
  OBVIOUS
<1>11. m \in Nat /\ m <= Len(n) /\ m <= HistoryOf.history
  BY <1>5, <1>8, <1>10, ConsoleAssumption DEF History!ConstantsOK
<1>12. PICK s : s = SubSeq(n, 1, m)
  OBVIOUS
<1>13. /\ s \in Seq(HistoryTracked(g)) /\ Len(s) = m
       /\ \A k \in 1 .. m : s[k] = n[k]
  <2>1. \A k \in 1 .. m : n[k] \in HistoryTracked(g)
    BY <1>5, <1>8, <1>11, ElementOfSeq
  <2>2. /\ s \in Seq(HistoryTracked(g)) /\ Len(s) = IF 1 <= m THEN m - 1 + 1 ELSE 0
        /\ \A k \in 1 .. m - 1 + 1 : s[k] = n[1 + k - 1]
    BY <1>11, <1>12, <2>1, SubSeqProperties
  <2> QED BY <1>11, <2>2
<1>14. History!Once(s)
  <2>1. DOMAIN s = 1 .. m
    BY <1>13, LenProperties
  <2> QED BY <1>5, <1>8, <1>9, <1>11, <1>13, <2>1 DEF History!Once
<1>15. History!upsert(h, r, st) = s
  BY <1>1, <1>3, <1>6, <1>10, <1>12 DEF History!upsert
<1> QED BY <1>11, <1>13, <1>14, <1>15 DEF HistoryOK

LEMMA HistoryEmpty == ASSUME NEW g PROVE HistoryOK(g, <<>>)
<1>1. <<>> \in Seq(HistoryTracked(g)) /\ Len(<<>>) = 0 /\ DOMAIN <<>> = {}
  BY EmptySeq, LenProperties
<1> QED BY <1>1, ConsoleAssumption DEF HistoryOK, History!Once, History!ConstantsOK

\* A request that was sent stays sent.
LEMMA HistoryMoves ==
  ASSUME NEW g, NEW k, \A r \in HistoryOf.reqs : g.status[r] # "new" => k.status[r] # "new", NEW h, HistoryOK(g, h)
  PROVE  HistoryOK(k, h)
<1>1. HistoryTracked(g) \subseteq HistoryTracked(k)
  BY DEF HistoryTracked
<1> QED BY <1>1, SeqMonotonic DEF HistoryOK

LEMMA HistoryTyped == HistoryInv => History!TypeOK
<1> SUFFICES ASSUME HistoryInv PROVE History!TypeOK
  OBVIOUS
<1>1. ASSUME NEW h, HistoryOK(gw, h) PROVE h \in History!History
  <2>1. Len(h) \in 0 .. HistoryOf.history /\ h \in [1 .. Len(h) -> HistoryTracked(gw)]
    BY <1>1, LenProperties, ConsoleAssumption DEF HistoryOK, History!ConstantsOK
  <2>2. h \in [1 .. Len(h) -> [id: HistoryOf.reqs, status: History!RequestStatus]]
    BY <2>1 DEF HistoryTracked
  <2> QED BY <1>1, <2>1, <2>2 DEF HistoryOK, History!History
<1>2. ui \in [route: {"requests"}, shown: History!History, queued: History!History, old: History!History]
             \cup [route: {"elsewhere"}, old: History!History]
  BY <1>1 DEF HistoryInv, HistoryUi
<1>3. gw \in [status: [HistoryOf.reqs -> History!Ended \cup {"new", "pending"}], stored: History!History,
              edits: 0 .. HistoryOf.edits, failures: 0 .. HistoryOf.failures]
  BY <1>1 DEF HistoryInv, HistoryGw
<1> QED BY <1>2, <1>3 DEF HistoryInv, HistoryCall, History!TypeOK

LEMMA HistoryInit == History!Init => HistoryInv
<1> SUFFICES ASSUME History!Init PROVE HistoryInv
  OBVIOUS
<1>1. HistoryOK(gw, <<>>)
  BY HistoryEmpty
<1>2. ui = [route |-> "requests", shown |-> <<>>, queued |-> <<>>, old |-> <<>>] /\ net = {}
  BY DEF History!Init, History!RequestsTab
<1>3. PICK s : s = [r \in HistoryOf.reqs |-> IF r \in HistoryOf.absent THEN "absent" ELSE "new"]
  OBVIOUS
<1>4. s \in [HistoryOf.reqs -> History!Ended \cup {"new", "pending"}]
  BY <1>3 DEF History!Ended
<1>5. gw = [status |-> s, stored |-> <<>>, edits |-> 0, failures |-> 0]
  BY <1>3 DEF History!Init
<1>6. 0 \in 0 .. HistoryOf.edits /\ 0 \in 0 .. HistoryOf.failures
  BY ConsoleAssumption DEF History!ConstantsOK
<1>7. gw.stored = <<>>
  BY <1>5
<1>8. HistoryGw(gw)
  BY <1>1, <1>4, <1>5, <1>6, <1>7 DEF HistoryGw
<1>9. ui.shown = <<>> /\ ui.queued = <<>> /\ ui.old = <<>>
  BY <1>2
<1>10. HistoryUi(gw, ui)
  BY <1>1, <1>2, <1>9 DEF HistoryUi
<1> QED BY <1>2, <1>8, <1>10 DEF HistoryInv

\* The gateway's rows and the screen may move on while calls wait.
LEMMA HistoryCallStays ==
  ASSUME NEW g, NEW k, NEW u, NEW v, NEW c, HistoryCall(g, u, c), u.route = "requests" => v.route = "requests",
         \A r \in HistoryOf.reqs : g.status[r] # "new" => k.status[r] # "new"
  PROVE  HistoryCall(k, v, c)
BY DEF HistoryCall

\* What a continuation stores is a history too.
LEMMA HistoryAfter ==
  ASSUME HistoryInv, NEW h, HistoryOK(gw, h), NEW c \in net, c.at # "sent", ~History!Silent(c)
  PROVE  HistoryOK(gw, History!After(h, c))
<1>1. HistoryCall(gw, ui, c)
  BY DEF HistoryInv
<1>2. CASE c.op = "run" /\ c.at = "ok"
  <2>1. c.val \in HistoryOf.reqs /\ gw.status[c.val] # "new" /\ "pending" \in History!RequestStatus
    BY <1>1, <1>2 DEF HistoryCall, History!RequestStatus
  <2>2. HistoryOK(gw, History!upsert(h, c.val, "pending"))
    BY <2>1, HistoryUpserts
  <2> QED BY <1>2, <2>2 DEF History!After
<1>3. CASE c.op = "result"
  <2>1. PICK st : st = IF c.at = "ok" THEN c.val ELSE "unknown"
    OBVIOUS
  <2>2. c.arg \in HistoryOf.reqs /\ gw.status[c.arg] # "new" /\ st \in History!RequestStatus
    BY <1>1, <1>3, <2>1 DEF HistoryCall, History!RequestStatus
  <2>3. HistoryOK(gw, History!upsert(h, c.arg, st))
    BY <2>2, HistoryUpserts
  <2> QED BY <1>3, <2>1, <2>3 DEF History!After
<1> QED BY <1>1, <1>2, <1>3 DEF HistoryCall, History!Silent

LEMMA HistoryEdits ==
  ASSUME HistoryInv, NEW h, HistoryOK(gw, h), History!Edit(h)
  PROVE  HistoryInv'
<1>1. /\ ui.route = "requests" /\ gw.edits < HistoryOf.edits /\ net' = net
      /\ ui' = [ui EXCEPT !.shown = h, !.queued = h]
      /\ gw' = [gw EXCEPT !.stored = h, !.edits = @ + 1]
  BY DEF History!Edit, History!OnTab
<1>2. gw'.status = gw.status /\ gw'.stored = h /\ ui'.shown = h /\ ui'.queued = h /\ ui'.old = ui.old /\ ui'.route = "requests"
  BY <1>1 DEF HistoryInv, HistoryGw, HistoryUi
<1>3. \A x : HistoryOK(gw, x) => HistoryOK(gw', x)
  BY <1>2, HistoryMoves
<1>4. gw.edits + 1 \in 0 .. HistoryOf.edits
  BY <1>1, ConsoleAssumption DEF HistoryInv, HistoryGw, History!ConstantsOK
<1>5. HistoryGw(gw')
  BY <1>1, <1>2, <1>3, <1>4 DEF HistoryInv, HistoryGw
<1>6. HistoryUi(gw', ui')
  BY <1>1, <1>2, <1>3 DEF HistoryInv, HistoryUi
<1>7. ASSUME NEW c \in net' PROVE HistoryCall(gw', ui', c)
  <2>1. HistoryCall(gw, ui, c)
    BY <1>1 DEF HistoryInv
  <2> QED BY <1>2, <2>1 DEF HistoryCall
<1> QED BY <1>5, <1>6, <1>7 DEF HistoryInv

LEMMA HistoryTabStep == HistoryInv /\ History!TabStep => HistoryInv'
<1> SUFFICES ASSUME HistoryInv, History!TabStep PROVE HistoryInv'
  OBVIOUS
<1>0. /\ HistoryGw(gw) /\ HistoryUi(gw, ui) /\ \A c \in net : HistoryCall(gw, ui, c)
      /\ HistoryOK(gw, gw.stored) /\ HistoryOK(gw, ui.old) /\ (ui.route = "requests" => HistoryOK(gw, ui.shown) /\ HistoryOK(gw, ui.queued))
  BY DEF HistoryInv, HistoryGw, HistoryUi
<1>1. CASE History!OpenTab
  <2>1. ui' = [route |-> "requests", shown |-> gw.stored, queued |-> gw.stored, old |-> ui.old] /\ net' = net /\ gw' = gw
    BY <1>1 DEF History!OpenTab, History!RequestsTab
  <2>2. ui'.shown = gw.stored /\ ui'.queued = gw.stored /\ ui'.old = ui.old /\ ui'.route = "requests"
    BY <2>1
  <2>3. HistoryUi(gw, ui')
    BY <1>0, <2>1, <2>2 DEF HistoryUi
  <2>4. \A c \in net : HistoryCall(gw, ui', c)
    BY <1>0, <2>2 DEF HistoryCall
  <2> QED BY <1>0, <2>1, <2>3, <2>4 DEF HistoryInv
<1>2. CASE History!LeaveTab
  <2>1. PICK o : o = IF net = {} THEN <<>> ELSE ui.shown
    OBVIOUS
  <2>2. /\ ui.route = "requests" /\ gw.edits < HistoryOf.edits /\ ui' = [route |-> "elsewhere", old |-> o]
        /\ net' = History!Orphans(net) /\ gw' = [gw EXCEPT !.edits = @ + 1]
    BY <1>2, <2>1 DEF History!LeaveTab, History!OnTab
  <2>3. gw'.status = gw.status /\ gw'.stored = gw.stored /\ ui'.old = o /\ ui'.route = "elsewhere"
    BY <1>0, <2>2 DEF HistoryGw
  <2>4. \A x : HistoryOK(gw, x) => HistoryOK(gw', x)
    BY <2>3, HistoryMoves
  <2>5. gw.edits + 1 \in 0 .. HistoryOf.edits
    BY <1>0, <2>2, ConsoleAssumption DEF HistoryGw, History!ConstantsOK
  <2>6. HistoryGw(gw')
    BY <1>0, <2>2, <2>3, <2>4, <2>5 DEF HistoryGw
  <2>7. HistoryOK(gw', o)
    BY <1>0, <2>1, <2>2, <2>4, HistoryEmpty
  <2>8. HistoryUi(gw', ui')
    BY <2>2, <2>3, <2>7 DEF HistoryUi
  <2>9. ASSUME NEW c \in net' PROVE HistoryCall(gw', ui', c)
    <3>1. PICK d \in net : c = [d EXCEPT !.live = FALSE]
      BY <2>2 DEF History!Orphans
    <3>2. HistoryCall(gw, ui, d)
      BY <1>0
    <3> QED BY <2>3, <3>1, <3>2 DEF HistoryCall
  <2> QED BY <2>6, <2>8, <2>9 DEF HistoryInv
<1>3. CASE History!clearAll
  BY <1>3, HistoryEmpty, HistoryEdits DEF History!clearAll
<1>4. ASSUME NEW r \in HistoryOf.reqs, History!remove(r) PROVE HistoryInv'
  <2>1. PICK w : w = History!Without(ui.shown, r)
    OBVIOUS
  <2>2. HistoryOK(gw, ui.shown)
    BY <1>0, <1>4 DEF History!remove, History!Edit, History!OnTab
  <2>3. HistoryOK(gw, w)
    BY <2>1, <2>2, HistoryWithout
  <2> QED BY <1>4, <2>1, <2>3, HistoryEdits DEF History!remove
<1>5. ASSUME NEW r \in HistoryOf.reqs, History!fetchAndAdd(r) PROVE HistoryInv'
  <2>1. PICK w : w = History!upsert(ui.shown, r, "pending")
    OBVIOUS
  <2>2. HistoryOK(gw, ui.shown) /\ gw.status[r] # "new" /\ "pending" \in History!RequestStatus
    BY <1>0, <1>5 DEF History!fetchAndAdd, History!Edit, History!OnTab, History!RequestStatus
  <2>3. HistoryOK(gw, w)
    BY <2>1, <2>2, HistoryUpserts
  <2> QED BY <1>5, <2>1, <2>3, HistoryEdits DEF History!fetchAndAdd
<1>6. CASE History!send
  <2>1. PICK n : n = History!Call("run", None)
    OBVIOUS
  <2>2. n = [op |-> "run", arg |-> None, at |-> "sent", val |-> None, live |-> TRUE]
    BY <2>1 DEF History!Call
  <2>3. ui.route = "requests" /\ gw.edits < HistoryOf.edits /\ ui' = ui /\ gw' = [gw EXCEPT !.edits = @ + 1] /\ net' = net \cup {n}
    BY <1>6, <2>1 DEF History!send, History!OnTab, History!Send
  <2>4. gw'.status = gw.status /\ gw'.stored = gw.stored
    BY <1>0, <2>3 DEF HistoryGw
  <2>5. \A x : HistoryOK(gw, x) => HistoryOK(gw', x)
    BY <2>4, HistoryMoves
  <2>6. gw.edits + 1 \in 0 .. HistoryOf.edits
    BY <1>0, <2>3, ConsoleAssumption DEF HistoryGw, History!ConstantsOK
  <2>7. HistoryGw(gw')
    BY <1>0, <2>3, <2>4, <2>5, <2>6 DEF HistoryGw
  <2>8. HistoryUi(gw', ui')
    BY <1>0, <2>3, <2>5 DEF HistoryUi
  <2>9. HistoryCall(gw', ui', n)
    BY <2>2, <2>3 DEF HistoryCall
  <2>10. ASSUME NEW c \in net PROVE HistoryCall(gw', ui', c)
    <3>1. HistoryCall(gw, ui, c)
      BY <1>0
    <3> QED BY <2>3, <2>4, <3>1 DEF HistoryCall
  <2> QED BY <2>3, <2>7, <2>8, <2>9, <2>10 DEF HistoryInv
<1>7. CASE History!Tick
  <2>1. ui.route = "requests" /\ ui' = ui /\ gw' = gw /\ net' = net \cup {History!Call("result", r) : r \in History!live}
    BY <1>7 DEF History!Tick, History!OnTab, History!Send
  <2>2. ASSUME NEW r \in History!live PROVE HistoryCall(gw, ui, History!Call("result", r))
    <3>1. PICK i \in 1 .. Len(ui.shown) : r = ui.shown[i].id
      BY DEF History!live, History!Entries
    <3>2. ui.shown \in Seq(HistoryTracked(gw))
      BY <1>0, <2>1 DEF HistoryOK
    <3>3. ui.shown[i] \in HistoryTracked(gw)
      BY <3>2, ElementOfSeq
    <3>4. r \in HistoryOf.reqs /\ gw.status[r] # "new"
      BY <3>1, <3>3 DEF HistoryTracked
    <3>5. PICK n : n = History!Call("result", r)
      OBVIOUS
    <3>6. n = [op |-> "result", arg |-> r, at |-> "sent", val |-> None, live |-> TRUE]
      BY <3>5 DEF History!Call
    <3>7. /\ n \in [op: {"run", "result"}, arg: HistoryOf.reqs \cup {None}, at: {"sent", "ok", "failed"},
                     val: HistoryOf.reqs \cup History!RequestStatus \cup {None}, live: BOOLEAN]
          /\ n.op = "result" /\ n.arg = r /\ n.at = "sent"
      BY <3>4, <3>6
    <3>8. HistoryCall(gw, ui, n)
      BY <2>1, <3>4, <3>7 DEF HistoryCall
    <3> QED BY <3>5, <3>8
  <2>3. \A c \in net' : HistoryCall(gw, ui, c)
    BY <1>0, <2>1, <2>2
  <2> QED BY <1>0, <2>1, <2>3 DEF HistoryInv
<1>8. CASE History!Render
  <2>1. ui.route = "requests" /\ ui' = [ui EXCEPT !.shown = ui.queued] /\ net' = net /\ gw' = gw
    BY <1>8 DEF History!Render, History!OnTab
  <2>2. ui'.shown = ui.queued /\ ui'.queued = ui.queued /\ ui'.old = ui.old /\ ui'.route = "requests"
    BY <1>0, <2>1 DEF HistoryUi
  <2>3. HistoryUi(gw, ui')
    BY <1>0, <2>1, <2>2 DEF HistoryUi
  <2>4. \A c \in net : HistoryCall(gw, ui', c)
    BY <1>0, <2>1, <2>2 DEF HistoryCall
  <2> QED BY <1>0, <2>1, <2>3, <2>4 DEF HistoryInv
<1>9. ASSUME NEW c \in net, History!Reply(c) PROVE HistoryInv'
  <2>1. c.live /\ c.at # "sent" /\ net' = net \ {c} /\ ui.route = "requests"
    BY <1>0, <1>9 DEF History!Reply, HistoryCall
  <2>2. CASE History!Silent(c)
    <3>1. ui' = ui /\ gw' = gw
      BY <1>9, <2>2 DEF History!Reply
    <3> QED BY <1>0, <2>1, <3>1 DEF HistoryInv
  <2>3. CASE ~History!Silent(c)
    <3>1. PICK h : h = History!After(ui.shown, c)
      OBVIOUS
    <3>2. HistoryOK(gw, h)
      BY <1>0, <2>1, <2>3, <3>1, HistoryAfter
    <3>3. ui' = [ui EXCEPT !.queued = h] /\ gw' = [gw EXCEPT !.stored = h]
      BY <1>9, <2>3, <3>1 DEF History!Reply, History!persist
    <3>4. /\ gw'.status = gw.status /\ gw'.stored = h
          /\ ui'.shown = ui.shown /\ ui'.queued = h /\ ui'.old = ui.old /\ ui'.route = "requests"
      BY <1>0, <2>1, <3>3 DEF HistoryUi, HistoryGw
    <3>5. \A x : HistoryOK(gw, x) => HistoryOK(gw', x)
      BY <3>4, HistoryMoves
    <3>6. HistoryGw(gw')
      BY <1>0, <3>2, <3>3, <3>4, <3>5 DEF HistoryGw
    <3>7. HistoryUi(gw', ui')
      BY <1>0, <2>1, <3>2, <3>3, <3>4, <3>5 DEF HistoryUi
    <3>8. \A d \in net' : HistoryCall(gw', ui', d)
      BY <1>0, <2>1, <3>4, HistoryCallStays
    <3> QED BY <3>6, <3>7, <3>8 DEF HistoryInv
  <2> QED BY <2>2, <2>3
<1>10. ASSUME NEW c \in net, History!LateReply(c) PROVE HistoryInv'
  <2>1. c.at # "sent" /\ net' = net \ {c}
    BY <1>10 DEF History!LateReply
  <2>2. PICK h : h = IF History!Silent(c) THEN gw.stored ELSE History!After(ui.old, c)
    OBVIOUS
  <2>3. HistoryOK(gw, h)
    BY <1>0, <2>1, <2>2, HistoryAfter
  <2>4. gw' = gw \/ gw' = [gw EXCEPT !.stored = h]
    BY <1>10, <2>2 DEF History!LateReply
  <2>5. gw'.status = gw.status /\ (gw'.stored = gw.stored \/ gw'.stored = h)
    BY <1>0, <2>4 DEF HistoryGw
  <2>6. \A x : HistoryOK(gw, x) => HistoryOK(gw', x)
    BY <2>5, HistoryMoves
  <2>7. HistoryOK(gw', gw'.stored)
    BY <1>0, <2>3, <2>5, <2>6
  <2>8. HistoryGw(gw')
    BY <1>0, <2>4, <2>7 DEF HistoryGw
  <2>9. ui' = ui \/ ui' = [ui EXCEPT !.old = <<>>]
    BY <1>10 DEF History!LateReply
  <2>10. HistoryUi(gw', ui) /\ HistoryOK(gw', <<>>)
    BY <1>0, <2>6, HistoryEmpty DEF HistoryUi
  <2>11. HistoryUi(gw', ui') /\ ui'.route = ui.route
    BY <2>9, <2>10 DEF HistoryUi
  <2>12. \A d \in net' : HistoryCall(gw', ui', d)
    BY <1>0, <2>1, <2>5, <2>11, HistoryCallStays
  <2> QED BY <2>8, <2>11, <2>12 DEF HistoryInv
<1> QED BY <1>1, <1>2, <1>3, <1>4, <1>5, <1>6, <1>7, <1>8, <1>9, <1>10 DEF History!TabStep

LEMMA HistoryQueue ==
  ASSUME HistoryInv, NEW r \in HistoryOf.reqs, NEW st \in History!Ended \cup {"pending"},
         gw' = [gw EXCEPT !.status[r] = st]
  PROVE  /\ HistoryGw(gw') /\ HistoryUi(gw', ui) /\ gw'.status[r] # "new" /\ \A c \in net : HistoryCall(gw', ui, c)
<1>1. HistoryGw(gw) /\ HistoryUi(gw, ui) /\ HistoryOK(gw, gw.stored) /\ \A c \in net : HistoryCall(gw, ui, c)
  BY DEF HistoryInv, HistoryGw
<1>2. PICK s : s = [gw.status EXCEPT ![r] = st]
  OBVIOUS
<1>3. st # "new"
  BY ConsoleAssumption DEF History!Ended, History!ConstantsOK
<1>4. s \in [HistoryOf.reqs -> History!Ended \cup {"new", "pending"}] /\ s[r] = st
  BY <1>1, <1>2 DEF HistoryGw
<1>5. gw' = [gw EXCEPT !.status = s]
  BY <1>2
<1>6. gw'.status = s /\ gw'.stored = gw.stored
  BY <1>1, <1>5 DEF HistoryGw
<1>7. \A q \in HistoryOf.reqs : gw.status[q] # "new" => gw'.status[q] # "new"
  BY <1>1, <1>2, <1>3, <1>6 DEF HistoryGw
<1>8. \A x : HistoryOK(gw, x) => HistoryOK(gw', x)
  BY <1>7, HistoryMoves
<1>9. HistoryGw(gw')
  BY <1>1, <1>4, <1>5, <1>6, <1>8 DEF HistoryGw
<1>10. HistoryUi(gw', ui)
  BY <1>1, <1>8 DEF HistoryUi
<1>11. ASSUME NEW c \in net PROVE HistoryCall(gw', ui, c)
  <2>1. HistoryCall(gw, ui, c)
    BY <1>1
  <2> QED BY <1>7, <2>1 DEF HistoryCall
<1> QED BY <1>3, <1>4, <1>6, <1>9, <1>10, <1>11

LEMMA HistoryGatewayStep == HistoryInv /\ History!GatewayStep => HistoryInv'
<1> SUFFICES ASSUME HistoryInv, History!GatewayStep PROVE HistoryInv'
  OBVIOUS
<1>0. HistoryGw(gw) /\ HistoryUi(gw, ui) /\ \A c \in net : HistoryCall(gw, ui, c)
  BY DEF HistoryInv
<1>1. ASSUME NEW r \in HistoryOf.reqs, History!Queue(r)
      PROVE  /\ HistoryGw(gw') /\ HistoryUi(gw', ui) /\ gw'.status[r] # "new" /\ \A c \in net : HistoryCall(gw', ui, c)
  BY <1>1, HistoryQueue DEF History!Queue
<1>2. ASSUME NEW c \in net, History!Serve(c) PROVE HistoryInv'
  <2>1. c.at = "sent" /\ ui' = ui /\ HistoryCall(gw, ui, c)
    BY <1>0, <1>2 DEF History!Serve
  <2>2. CASE c.op = "result" /\ net' = History!Answered(c, History!Result(c.arg)) /\ gw' = gw
    <3>1. PICK v : v = History!Result(c.arg)
      OBVIOUS
    <3>2. c.arg \in HistoryOf.reqs /\ gw.status[c.arg] # "new" /\ gw.status[c.arg] \in History!Ended \cup {"new", "pending"}
      BY <1>0, <2>1, <2>2 DEF HistoryCall, HistoryGw
    <3>3. v \in History!RequestStatus
      BY <3>1, <3>2 DEF History!Result, History!RequestStatus, History!Ended
    <3>4. PICK a : a = [c EXCEPT !.at = "ok", !.val = v]
      OBVIOUS
    <3>5. HistoryCall(gw, ui, a)
      BY <2>1, <2>2, <3>2, <3>3, <3>4 DEF HistoryCall
    <3>6. \A d \in net' : d \in net \/ d = a
      BY <2>2, <3>1, <3>4 DEF History!Answered
    <3> QED BY <1>0, <2>1, <2>2, <3>5, <3>6 DEF HistoryInv
  <2>3. CASE c.op = "run" /\ \E r \in HistoryOf.reqs : History!Queue(r) /\ net' = History!Answered(c, r)
    <3>1. PICK r \in HistoryOf.reqs : History!Queue(r) /\ net' = History!Answered(c, r)
      BY <2>3
    <3>2. /\ HistoryGw(gw') /\ HistoryUi(gw', ui) /\ gw'.status[r] # "new" /\ \A d \in net : HistoryCall(gw', ui, d)
      BY <1>1, <3>1
    <3>3. PICK a : a = [c EXCEPT !.at = "ok", !.val = r]
      OBVIOUS
    <3>4. HistoryCall(gw', ui, c)
      BY <3>2
    <3>5. HistoryCall(gw', ui, a)
      BY <2>3, <3>2, <3>3, <3>4 DEF HistoryCall
    <3>6. \A d \in net' : d \in net \/ d = a
      BY <3>1, <3>3 DEF History!Answered
    <3> QED BY <2>1, <3>2, <3>5, <3>6 DEF HistoryInv
  <2> QED BY <1>2, <2>2, <2>3 DEF History!Serve
<1>3. ASSUME NEW c \in net, History!Fail(c) PROVE HistoryInv'
  <2>1. c.at = "sent" /\ ui' = ui /\ net' = History!Failed(c)
    BY <1>3 DEF History!Fail
  <2>2. HistoryGw(gw') /\ HistoryUi(gw', ui) /\ \A d \in net : HistoryCall(gw', ui, d)
    <3>1. CASE gw' = gw
      BY <1>0, <3>1
    <3>2. CASE \E r \in HistoryOf.reqs : History!Queue(r)
      BY <1>1, <3>2
    <3>3. CASE gw.failures < HistoryOf.failures /\ gw' = [gw EXCEPT !.failures = @ + 1]
      <4>1. gw.failures + 1 \in 0 .. HistoryOf.failures
        BY <1>0, <3>3, ConsoleAssumption DEF HistoryGw, History!ConstantsOK
      <4>2. gw'.status = gw.status /\ gw'.stored = gw.stored
        BY <1>0, <3>3 DEF HistoryGw
      <4>3. \A x : HistoryOK(gw, x) => HistoryOK(gw', x)
        BY <4>2, HistoryMoves
      <4>4. HistoryGw(gw')
        BY <1>0, <3>3, <4>1, <4>2, <4>3 DEF HistoryGw
      <4>5. HistoryUi(gw', ui)
        BY <1>0, <4>3 DEF HistoryUi
      <4> QED BY <1>0, <4>2, <4>4, <4>5, HistoryCallStays
    <3> QED BY <1>3, <3>1, <3>2, <3>3 DEF History!Fail
  <2>3. PICK a : a = [c EXCEPT !.at = "failed"]
    OBVIOUS
  <2>4. HistoryCall(gw', ui, a)
    BY <2>2, <2>3 DEF HistoryCall
  <2>5. \A d \in net' : d \in net \/ d = a
    BY <2>1, <2>3 DEF History!Failed
  <2> QED BY <2>1, <2>2, <2>4, <2>5 DEF HistoryInv
<1>4. ASSUME NEW r \in HistoryOf.reqs, History!OtherClient(r) PROVE HistoryInv'
  BY <1>1, <1>4 DEF History!OtherClient, HistoryInv
<1>5. ASSUME NEW r \in HistoryOf.reqs, History!End(r) PROVE HistoryInv'
  <2>1. PICK st \in HistoryOf.outcomes : gw' = [gw EXCEPT !.status[r] = st]
    BY <1>5 DEF History!End
  <2>2. st \in History!Ended \cup {"pending"}
    BY DEF History!Ended
  <2> QED BY <1>5, <2>1, <2>2, HistoryQueue DEF History!End, HistoryInv
<1> QED BY <1>2, <1>3, <1>4, <1>5 DEF History!GatewayStep

LEMMA HistoryNext == HistoryInv /\ History!Next => HistoryInv'
BY HistoryTabStep, HistoryGatewayStep DEF History!Next
=============================================================================
