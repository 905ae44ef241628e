--------------------------- MODULE RequestHistory ---------------------------
(***************************************************************************)
(* The requests tab of an endpoint (requests.tsx): test requests are sent, *)
(* ids pasted, and each is polled until it has ended.  The history lives   *)
(* in the browser's storage and in the component; a continuation computes  *)
(* the next history from the one last rendered, so two of them between two *)
(* renders lose what the first one did.                                    *)
(***************************************************************************)
EXTENDS Console, Integers, Sequences, FiniteSets

CONSTANTS Reqs, Absent,   \* ids; those among them the gateway does not know
          Outcomes,    \* how requests end, of "completed", "timeout", "cancelled"
          MaxHistory,  \* MAX_HISTORY
          MaxEdits,    \* bounds: inputs of the user,
          MaxFailures, \* failing polls,
          MaxCalls     \* and calls on their way at a time

ConstantsOK == /\ Absent \subseteq Reqs /\ Outcomes \subseteq {"completed", "timeout", "cancelled"}
               /\ {MaxHistory, MaxEdits, MaxFailures} \subseteq Nat

RequestStatus == Outcomes \cup {"pending", "expired", "unknown"}
\* gw.status: new has not been sent.
Ended == Outcomes \cup {"absent"}
isTerminal(st) == st \in Outcomes \cup {"expired"}

-----------------------------------------------------------------------------
(* A history is a sequence of entries, the latest first *)

Entry(r, st) == [id |-> r, status |-> st]
\* filter(): an id is in a history once at most.
Places(h, r) == {i \in 1 .. Len(h) : h[i].id = r}
Without(h, r) == IF Places(h, r) = {} THEN h
                 ELSE LET i == CHOOSE i \in Places(h, r) : TRUE
                      IN  SubSeq(h, 1, i - 1) \o SubSeq(h, i + 1, Len(h))
upsert(h, r, st) == LET next == <<Entry(r, st)>> \o Without(h, r)
                    IN  SubSeq(next, 1, IF Len(next) > MaxHistory THEN MaxHistory ELSE Len(next))
Entries(h) == {h[i] : i \in 1 .. Len(h)}

\* shown is historyRef, what was last rendered; queued the last setHistory().
RequestsTab(h, old) == [route |-> "requests", shown |-> h, queued |-> h, old |-> old]
Init == /\ gw = [status |-> [r \in Reqs |-> IF r \in Absent THEN "absent" ELSE "new"],
                 stored |-> <<>>, edits |-> 0, failures |-> 0]
        /\ ui = RequestsTab(<<>>, <<>>)
        /\ net = {}

OnTab == ui.route = "requests"
\* The effect that loads runs, and is rendered, with the mount.
OpenTab == ~OnTab /\ ui' = RequestsTab(gw.stored, ui.old) /\ UNCHANGED <<net, gw>>
\* old is the reference the component that is gone leaves to its continuations;
\* at most one such component is followed at a time.
LeaveTab == /\ OnTab /\ gw.edits < MaxEdits /\ \A c \in net : c.live
            /\ ui' = [route |-> "elsewhere", old |-> IF net = {} THEN <<>> ELSE ui.shown]
            /\ net' = Orphans(net)
            /\ gw' = [gw EXCEPT !.edits = @ + 1]

Send(calls) == Cardinality(net \cup calls) <= MaxCalls /\ net' = net \cup calls

-----------------------------------------------------------------------------
(* The user: React renders before the next event *)

Edit(next) == /\ OnTab /\ gw.edits < MaxEdits /\ next # ui.shown
              /\ ui' = [ui EXCEPT !.shown = next, !.queued = next]
              /\ gw' = [gw EXCEPT !.stored = next, !.edits = @ + 1]
              /\ UNCHANGED net
remove(r) == Edit(Without(ui.shown, r))
clearAll == Edit(<<>>)
fetchAndAdd(r) == gw.status[r] # "new" /\ Edit(upsert(ui.shown, r, "pending"))
send == /\ OnTab /\ ~Waiting("run") /\ gw.edits < MaxEdits
        /\ Send({Call("run", None)})
        /\ gw' = [gw EXCEPT !.edits = @ + 1]
        /\ UNCHANGED ui

-----------------------------------------------------------------------------
(* Continuations: they may run one after another before React renders *)

PendingOnly == {e.id : e \in {x \in Entries(ui.shown) : x.status = "pending"}}   \* mutant
live == {e.id : e \in {x \in Entries(ui.shown) : ~isTerminal(x.status)}}
Tick == /\ OnTab /\ live # {}
        /\ Send({Call("result", r) : r \in live})
        /\ UNCHANGED <<ui, gw>>

persist(next) == ui' = [ui EXCEPT !.queued = next] /\ gw' = [gw EXCEPT !.stored = next]
Render == OnTab /\ ui.shown # ui.queued /\ ui' = [ui EXCEPT !.shown = ui.queued] /\ UNCHANGED <<net, gw>>

\* What a continuation makes of history h: the request as it was when the poll
\* left, with the status of the answer, whatever has been removed since.
After(h, c) == IF c.op = "run" THEN IF c.at = "ok" THEN upsert(h, c.val, "pending") ELSE h
               ELSE upsert(h, c.arg, IF c.at = "ok" THEN c.val ELSE "unknown")
Silent(c) == c.op = "run" /\ c.at = "failed"   \* a notice, and no new history
Reply(c) == /\ c \in net /\ c.live /\ c.at # "sent"
            /\ IF Silent(c) THEN UNCHANGED <<ui, gw>> ELSE persist(After(ui.shown, c))
            /\ net' = net \ {c}
\* The component is gone, the storage is not.
LateReply(c) == /\ c \in net /\ ~c.live /\ c.at # "sent"
                /\ gw' = IF Silent(c) THEN gw ELSE [gw EXCEPT !.stored = After(ui.old, c)]
                /\ net' = net \ {c}
                /\ ui' = IF \A d \in net \ {c} : d.live THEN [ui EXCEPT !.old = <<>>] ELSE ui

-----------------------------------------------------------------------------
(* The gateway *)

\* normalizeStatus() of GET /result, which answers 404 for an id it does not know.
Result(r) == IF gw.status[r] = "absent" THEN "expired" ELSE gw.status[r]
Queue(r) == gw.status[r] = "new" /\ gw' = [gw EXCEPT !.status[r] = "pending"]
Serve(c) == /\ c \in net /\ c.at = "sent"
            /\ \/ c.op = "result" /\ net' = Answered(c, Result(c.arg)) /\ gw' = gw
               \/ c.op = "run" /\ \E r \in Reqs : Queue(r) /\ net' = Answered(c, r)
            /\ UNCHANGED ui
\* Refused, unreachable, or queued and the answer lost.
Fail(c) == /\ c \in net /\ c.at = "sent"
           /\ \/ c.op = "result" /\ gw.failures < MaxFailures /\ gw' = [gw EXCEPT !.failures = @ + 1]
              \/ c.op = "run" /\ (gw' = gw \/ \E r \in Reqs : Queue(r))
           /\ net' = Failed(c)
           /\ UNCHANGED ui
\* Requests of other clients, whose ids may be pasted.
OtherClient(r) == Queue(r) /\ UNCHANGED <<ui, net>>
End(r) == /\ gw.status[r] = "pending"
          /\ \E st \in Outcomes : gw' = [gw EXCEPT !.status[r] = st]
          /\ UNCHANGED <<ui, net>>

-----------------------------------------------------------------------------
TabStep == \/ OpenTab \/ LeaveTab \/ clearAll \/ send \/ Tick \/ Render
           \/ \E r \in Reqs : remove(r) \/ fetchAndAdd(r)
           \/ \E c \in net : Reply(c) \/ LateReply(c)
GatewayStep == \/ \E c \in net : Serve(c) \/ Fail(c)
               \/ \E r \in Reqs : OtherClient(r) \/ End(r)
Next == TabStep \/ GatewayStep
Spec == Init /\ [][Next]_vars

\* Timers fire, React renders, continuations run, and a gateway that is asked
\* answers.
Ticks == Tick
Answers == \E c \in net : Serve(c) \/ (c.op = "run" /\ Fail(c))
Replies == \E c \in net : Reply(c) \/ LateReply(c)

-----------------------------------------------------------------------------
(* Properties *)

Once(h) == \A i, j \in DOMAIN h : h[i].id = h[j].id => i = j
History == {h \in UNION {[1 .. n -> [id: Reqs, status: RequestStatus]] : n \in 0 .. MaxHistory} : Once(h)}
TypeOK == /\ ui \in [route: {"requests"}, shown: History, queued: History, old: History]
                    \cup [route: {"elsewhere"}, old: History]
          /\ net \subseteq [op: {"run", "result"}, arg: Reqs \cup {None}, at: {"sent", "ok", "failed"},
                            val: Reqs \cup RequestStatus \cup {None}, live: BOOLEAN]
          /\ gw \in [status: [Reqs -> Ended \cup {"new", "pending"}], stored: History,
                     edits: 0 .. MaxEdits, failures: 0 .. MaxFailures]

\* Once no request is pending at the gateway any more, every one tracked comes
\* to be shown as ended, or leaves the history, or the user leaves the tab:
\* lost updates, answers that overtake each other and failures only delay it.
Unsettled == /\ OnTab /\ \E e \in Entries(ui.shown) : ~isTerminal(e.status)
             /\ \A r \in Reqs : gw.status[r] \in Ended
TrackedRequestsSettle == Unsettled ~> ~Unsettled
=============================================================================
