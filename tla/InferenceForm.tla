--------------------------- MODULE InferenceForm ----------------------------
(***************************************************************************)
(* The form that creates an inference endpoint (inference-form.tsx) with   *)
(* the server action behind it (deployEndpoint) and the availability badge *)
(* of Availability.  A text is known by whether it is in range, the name   *)
(* and the model by whether they are there.                                *)
(***************************************************************************)
EXTENDS Availability, Integers, FiniteSets

CONSTANTS Gpus,            \* the catalogue, RunPod's: it does not change
          Counts, Tiers,   \* the other two parts of the choice
          Providers,       \* registered RunPod accounts
          Gpu1, Count1, Tier1,   \* what the form starts with
          MaxEdits         \* bound: inputs of the user

ConstantsOK == Gpu1 \in Gpus /\ Count1 \in Counts /\ Tier1 \in Tiers /\ MaxEdits \in Nat

\* The badge asks for the gateway's own account, whichever is chosen.
Choice(u) == [gpu |-> u.gpu, count |-> u.count, tier |-> u.tier]

AdvancedFields == {"gpu_memory_utilization", "integers"}   \* the three integers are alike
Fields == {"name or model", "idle", "disk", "volume"} \cup AdvancedFields

Form == [route |-> "newendpoint", gpu |-> Gpu1, count |-> Count1, tier |-> Tier1,
         provider |-> None, listed |-> FALSE, bad |-> {"name or model"}, advanced |-> FALSE,
         stock |-> Idle, looking |-> FALSE, pending |-> FALSE, modal |-> None,
         leaving |-> FALSE, edits |-> 0]
Init == ui = LookUp(Form, Choice(Form)) /\ net = {} /\ gw = {}

-----------------------------------------------------------------------------
(* Inputs: they stay enabled while a request is on its way *)

OnForm == ui.route = "newendpoint"
Settled(u, v) == IF Choice(u) = Choice(v) THEN v ELSE LookUp(v, Choice(v))
Kept(u, v) == {c \in net : Choice(u) = Choice(v) \/ ~Stale(c)}
React(v) == ui' = Settled(ui, v) /\ net' = Kept(ui, v) /\ UNCHANGED gw
Edit(u) == OnForm /\ ui.modal = None /\ u # ui /\ ui.edits < MaxEdits /\ React([u EXCEPT !.edits = @ + 1])
Retype(f) == Edit([ui EXCEPT !.bad = (@ \cup {f}) \ (@ \cap {f})])

ChooseGpu(g) == Edit([ui EXCEPT !.gpu = g])
ChooseCount(n) == Edit([ui EXCEPT !.count = n])
ChooseTier(t) == Edit([ui EXCEPT !.tier = t])
ProvidersArrive == OnForm /\ ~ui.listed /\ React([ui EXCEPT !.listed = TRUE])
ChooseProvider(p) == (p # None => ui.listed) /\ Edit([ui EXCEPT !.provider = p])
RetypeDisks(f) == f \in {"disk", "volume"} /\ Retype(f)
RetypeNames == Retype("name or model")
RetypeIdle == Retype("idle")
\* The advanced fields keep their texts while they are hidden.
ToggleAdvanced == Edit([ui EXCEPT !.advanced = ~@])
RetypeAdvanced(f) == ui.advanced /\ f \in AdvancedFields /\ Retype(f)

-----------------------------------------------------------------------------
(* Submission *)

\* The button is disabled for any of these but the names, which submit() checks.
OutOfRange == ui.bad # {} \/ ui.stock.status = "out"
Request == [choice |-> Choice(ui), provider |-> ui.provider]
Submit == /\ OnForm /\ ui.modal = None /\ ~ui.pending /\ ~OutOfRange
          /\ ui' = [ui EXCEPT !.pending = TRUE]
          /\ net' = net \cup {Call("create", Request)}
          /\ UNCHANGED gw
\* deployEndpoint returns: an endpoint, a refusal that names the GPU, an error.
\* Whether the button is free before the next page is there is React's choice.
Deployed(c) ==
  /\ Done(c, "create")
  /\ \/ /\ c.at = "ok" /\ c.val = "created"
        /\ \E busy \in BOOLEAN : ui' = [ui EXCEPT !.pending = busy, !.leaving = TRUE]
     \/ /\ c.at = "ok" /\ c.val = "unavailable"
        /\ ui' = [ui EXCEPT !.pending = FALSE, !.modal = c.arg.choice]
     \/ /\ c.at = "failed"
        /\ ui' = [ui EXCEPT !.pending = FALSE]
  /\ net' = net \ {c}
  /\ UNCHANGED gw
CloseModal == /\ OnForm /\ ui.modal # None
              /\ ui' = [ui EXCEPT !.modal = None]
              /\ UNCHANGED <<net, gw>>
Gone == ui' = [route |-> "gone"] /\ net' = {} /\ UNCHANGED gw
Leave == OnForm /\ (ui.leaving \/ (ui.modal = None /\ ~ui.pending)) /\ Gone

-----------------------------------------------------------------------------
(* The gateway *)

\* create_app answers 503 with a reason when the worker it tries to start at
\* once is refused; deployEndpoint tells that apart from the other errors.
Answers(c) == IF c.op = "create" THEN {"created", "unavailable"} ELSE {"available", "out"}
Serve(c) == /\ c \in net /\ c.at = "sent"
            /\ \E v \in Answers(c) : net' = Answered(c, v)
            /\ UNCHANGED <<ui, gw>>
Fail(c) == /\ c \in net /\ c.at = "sent"
           /\ net' = Failed(c)
           /\ UNCHANGED <<ui, gw>>

-----------------------------------------------------------------------------
UserStep == \/ Submit \/ CloseModal \/ Leave
            \/ OnForm /\ \/ RetypeNames \/ RetypeIdle \/ ToggleAdvanced
                         \/ \E g \in Gpus : ChooseGpu(g)
                         \/ \E n \in Counts : ChooseCount(n)
                         \/ \E t \in Tiers : ChooseTier(t)
                         \/ \E p \in Providers \cup {None} : ChooseProvider(p)
                         \/ \E f \in Fields : RetypeDisks(f) \/ RetypeAdvanced(f)
PageStep == \/ ProvidersArrive \/ (OnForm /\ AskStock(Choice(ui)))
            \/ \E c \in net : Stock(c) \/ StockRefused(c) \/ StockFails(c) \/ Deployed(c)
GatewayStep == \E c \in net : Serve(c) \/ Fail(c)

Next == UserStep \/ PageStep \/ GatewayStep
Spec == Init /\ [][Next]_vars

-----------------------------------------------------------------------------
(* Properties *)

UiType ==
  [route: {"newendpoint"}, gpu: Gpus, count: Counts, tier: Tiers, provider: Providers \cup {None},
   listed: BOOLEAN, bad: SUBSET Fields, advanced: BOOLEAN,
   stock: [status: {"loading", "available", "out", "error"},
           of: [gpu: Gpus, count: Counts, tier: Tiers] \cup {None}],
   looking: BOOLEAN, pending: BOOLEAN, modal: [gpu: Gpus, count: Counts, tier: Tiers] \cup {None},
   leaving: BOOLEAN, edits: 0 .. MaxEdits] \cup [route: {"gone"}]
TypeOK == ui \in UiType /\ \A c \in net : c.op \in {"stock", "create"}

\* The badge and the button that obeys it are about the GPU, count and tier
\* chosen now: an answer for an earlier choice neither blocks nor allows.
StockIsOfTheChoice == OnForm /\ Known(ui) => ui.stock.of = Choice(ui)
=============================================================================
