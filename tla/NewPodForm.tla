----------------------------- MODULE NewPodForm -----------------------------
(***************************************************************************)
(* The form that asks for a compute pod (new-pod-form.tsx), with the       *)
(* availability badge (use-gpu-availability.ts) and the number field.  The *)
(* lists it offers arrive late, depend on the kind of the provider chosen  *)
(* and are narrowed to what is in stock; effects keep what is chosen inside *)
(* the lists.  The name only gates the submission and is left out.         *)
(***************************************************************************)
EXTENDS Availability, Integers, FiniteSets

CONSTANTS Providers,    \* registered accounts
          ProviderKind, \* the kind of each
          Gpus,         \* Gpus[kind][version]: built-in and live catalogue
          AllImages, FallbackImages,  \* images of Prime Intellect
          InStock,      \* InStock[gpu]: those one can rent it with, maybe none
          Curated,      \* templates of RunPod shown without a search
          Found,        \* templates of RunPod a search may return
          Sizes, Size1, \* GPU count and cloud tier, and those a form starts with
          MaxEdits      \* bound: inputs of the user

\* A list: its entries, and the first, which stands for a default when there
\* are none.
Kinds == {"runpod", "pi"}
Loads == {"images"} \cup Kinds   \* asked for on mount (and the accounts, offered once they are there)
NoImages == [ids |-> {}, first |-> FallbackImages.first]

\* A catalogue, and the templates shown, begin with one of theirs; lists of
\* images, those in stock included, are of what there is or of the fallback.
ImageIds == AllImages.ids \cup FallbackImages.ids
ImageLists == [ids: SUBSET ImageIds, first: ImageIds]
ConstantsOK ==
  /\ ProviderKind \in [Providers -> Kinds]
  /\ \A k \in Kinds, v \in {"builtin", "live"} : Gpus[k][v].first \in Gpus[k][v].ids
  /\ {AllImages, FallbackImages} \subseteq ImageLists /\ Curated.first \in Curated.ids
  /\ \A v \in {"builtin", "live"} : \A g \in Gpus["pi"][v].ids : InStock[g] \in ImageLists
  /\ Size1 \in Sizes /\ MaxEdits \in Nat

KindOf(u) == IF u.provider = None THEN "runpod" ELSE ProviderKind[u.provider]
Catalog(u) == Gpus[KindOf(u)][u.catalog[KindOf(u)]]

\* What the effects depend on.
Choice(u) == [kind |-> KindOf(u), gpu |-> u.gpu, size |-> u.size, provider |-> u.provider]
Offers(u) == <<KindOf(u), u.images>>

-----------------------------------------------------------------------------
(* Effects *)

\* The GPU snaps to the active catalogue.
SnapGpu(u) == IF u.gpu \in Catalog(u).ids THEN u ELSE [u EXCEPT !.gpu = Catalog(u).first]
\* The template snaps to the kind's list when the kind or a list changes; a
\* template found by search goes with it, whatever the reason.
SnapKeepsImage(u) ==   \* mutant
  LET list == IF KindOf(u) = "pi" THEN u.images ELSE Curated
  IN  [u EXCEPT !.template = IF @ \in list.ids THEN @ ELSE list.first]
SnapTemplate(u) ==
  LET list == IF KindOf(u) = "pi" THEN u.images ELSE Curated
  IN  [u EXCEPT !.template = IF @ \in list.ids THEN @ ELSE list.first, !.image = None]
\* PiImagePicker: a selection that is not in the list snaps to its first entry.
SnapImage(u) == IF KindOf(u) = "pi" /\ u.images.ids # {} /\ u.template \notin u.images.ids
                THEN [u EXCEPT !.template = u.images.first] ELSE u
\* The image list is narrowed and the stock looked up again, after a pause.
Narrow(u) == IF KindOf(u) = "pi" THEN [u EXCEPT !.narrowing = TRUE]
                                 ELSE [u EXCEPT !.narrowing = FALSE, !.filtered = FALSE]
\* What React makes of u once the event has turned it into v.
Settled(u, v) ==
  LET a == SnapGpu(v)
      b == SnapImage(IF Offers(a) = Offers(u) THEN a ELSE SnapTemplate(a))
  IN  IF Choice(b) = Choice(u) THEN b ELSE LookUp(Narrow(b), Choice(b))

\* Effects that start again cancel their last run.
KeptAll(u, v) == net   \* mutant
Kept(u, v) == {c \in net : Choice(u) = Choice(v) \/ (c.op # "compatible" /\ ~Stale(c))}
React(v) == ui' = Settled(ui, v) /\ net' = Kept(ui, Settled(ui, v)) /\ UNCHANGED gw

-----------------------------------------------------------------------------
Form == [route |-> "newpod", gpu |-> Gpus["runpod"]["builtin"].first,
         catalog |-> [k \in Kinds |-> "builtin"], size |-> Size1, provider |-> None, loads |-> Loads, images |-> NoImages, filtered |-> FALSE,
         narrowing |-> FALSE, looking |-> FALSE, stock |-> Idle,
         template |-> Curated.first, image |-> None,
         submitting |-> FALSE, edits |-> 0]

Init == ui = LookUp(Form, Choice(Form)) /\ net = {} /\ gw = {}

OnForm == ui.route = "newpod"
\* The lists the form asks for when it is mounted.  A list that cannot be
\* had leaves the built-in one.
Loaded(l, u) == CASE l = "images" -> [u EXCEPT !.images = AllImages]
                  [] OTHER -> [u EXCEPT !.catalog[l] = "live"]
Unloaded(l, u) == IF l = "images" THEN [u EXCEPT !.images = FallbackImages] ELSE u
ListArrives(l) == /\ OnForm /\ l \in ui.loads
                  /\ \E u \in {Loaded(l, ui), Unloaded(l, ui)} : React([u EXCEPT !.loads = @ \ {l}])

Edit(u) == OnForm /\ u # ui /\ ui.edits < MaxEdits /\ React([u EXCEPT !.edits = @ + 1])
ChooseProvider(p) == Edit([ui EXCEPT !.provider = p])
ChooseGpu(g) == g \in Catalog(ui).ids /\ Edit([ui EXCEPT !.gpu = g])
\* The number field keeps whatever is typed to itself and hands on valid numbers.
Resize(z) == Edit([ui EXCEPT !.size = z])
PickImage(i) == KindOf(ui) = "pi" /\ i \in ui.images.ids /\ Edit([ui EXCEPT !.template = i])
PickTemplate(t) == KindOf(ui) = "runpod" /\ t \in Curated.ids /\ Edit([ui EXCEPT !.template = t, !.image = None])
PickFound(t) == KindOf(ui) = "runpod" /\ t \in Found /\ Edit([ui EXCEPT !.template = t, !.image = t])

-----------------------------------------------------------------------------
(* Calls of the effects *)

Ask(op) == net' = net \cup {Call(op, Choice(ui))} /\ UNCHANGED gw
AskCompatible == OnForm /\ ui.narrowing /\ ui' = [ui EXCEPT !.narrowing = FALSE] /\ Ask("compatible")
Compatible(c) == /\ Done(c, "compatible")
                 /\ LET v == IF c.at = "ok" /\ c.val.ids # {}
                             THEN [ui EXCEPT !.images = c.val, !.filtered = TRUE]
                             ELSE [ui EXCEPT !.filtered = FALSE]
                    IN  ui' = Settled(ui, v) /\ net' = Kept(ui, Settled(ui, v)) \ {c}
                 /\ UNCHANGED gw

-----------------------------------------------------------------------------
(* Submission *)

\* What is sent: what the form shows at that moment.
Request == [kind |-> KindOf(ui), gpu |-> ui.gpu, size |-> ui.size, provider |-> ui.provider, template |-> ui.template, image |-> ui.image]
Submit == /\ OnForm /\ ~ui.submitting
          /\ ui' = [ui EXCEPT !.submitting = TRUE]
          /\ net' = net \cup {Call("create", None)}
          /\ UNCHANGED gw
\* Success leaves the button busy until the page of the pod is there.
Created(c) == /\ Done(c, "create")
              /\ IF c.at = "ok" THEN ui' = [route |-> "gone"] /\ net' = {}
                                ELSE ui' = [ui EXCEPT !.submitting = FALSE] /\ net' = net \ {c}
              /\ UNCHANGED gw
Cancel == OnForm /\ ~ui.submitting /\ ui' = [route |-> "gone"] /\ net' = {} /\ UNCHANGED gw

-----------------------------------------------------------------------------
(* The gateway *)

Answer(c) == CASE c.op = "compatible" -> InStock[c.arg.gpu]
               [] c.op = "stock" -> "available"   \* or "out": only the badge's words differ
               [] OTHER -> None
\* The pod a request creates is on the pages of ComputePages; none is on this one.
Serve(c) == /\ c \in net /\ c.at = "sent"
            /\ net' = Answered(c, Answer(c))
            /\ UNCHANGED <<ui, gw>>
\* Refused, unreachable, or done and the answer lost.
Fail(c) == /\ c \in net /\ c.at = "sent"
           /\ net' = Failed(c)
           /\ UNCHANGED <<ui, gw>>

-----------------------------------------------------------------------------
UserStep == \/ Submit \/ Cancel
            \/ OnForm /\ \/ \E p \in Providers \cup {None} : ChooseProvider(p)
                         \/ \E g \in Catalog(ui).ids : ChooseGpu(g)
                         \/ \E z \in Sizes : Resize(z)
                         \/ \E i \in ui.images.ids : PickImage(i)
                         \/ \E t \in Curated.ids : PickTemplate(t)
                         \/ \E t \in Found : PickFound(t)
PageStep == \/ AskCompatible \/ (OnForm /\ AskStock(Choice(ui)))
            \/ \E l \in Loads : ListArrives(l)
            \/ \E c \in net : \/ Compatible(c) \/ Stock(c) \/ StockRefused(c) \/ StockFails(c) \/ Created(c)
GatewayStep == \E c \in net : Serve(c) \/ Fail(c)

Next == UserStep \/ PageStep \/ GatewayStep
Spec == Init /\ [][Next]_vars

-----------------------------------------------------------------------------
(* Properties *)

GpuIds == UNION {Gpus[k][v].ids : k \in Kinds, v \in {"builtin", "live"}}
Templates == Curated.ids \cup Found \cup AllImages.ids \cup FallbackImages.ids
ChoiceType == [kind: Kinds, gpu: GpuIds, size: Sizes, provider: Providers \cup {None}]
TypeOK == ui.route = "gone" \/
  /\ Choice(ui) \in ChoiceType
  /\ ui.catalog \in [Kinds -> {"builtin", "live"}] /\ ui.loads \subseteq Loads
  /\ ui.images.ids \subseteq Templates /\ ui.template \in Templates /\ ui.image \in Found \cup {None}
  /\ {ui.filtered, ui.narrowing, ui.looking, ui.submitting} \subseteq BOOLEAN /\ ui.edits \in 0 .. MaxEdits
  /\ ui.stock \in [status: {"loading", "available", "error"}, of: ChoiceType \cup {None}]
  /\ \A c \in net : c.op \in {"compatible", "stock", "create"} /\ c.live

\* The badge says "available" or "out of stock" of what is chosen now: however
\* the answers are delayed, none given for an earlier choice is on screen.
StockIsOfTheChoice == OnForm /\ Known(ui) => ui.stock.of = Choice(ui)

\* No request the form would send mixes two providers: its GPU is in the catalogue of the kind of
\* its account, its template in that kind's list or found by a search of it,
\* and an image of its own goes with the template it was found with.
Fits(r) == IF r.kind = "pi"
           THEN /\ r.gpu \in Gpus["pi"]["builtin"].ids \cup Gpus["pi"]["live"].ids
                /\ r.template \in AllImages.ids \cup FallbackImages.ids
                /\ r.image = None
           ELSE /\ r.gpu \in Gpus["runpod"]["builtin"].ids \cup Gpus["runpod"]["live"].ids
                /\ \/ r.template \in Curated.ids /\ r.image = None
                   \/ r.template \in Found /\ r.image = r.template
RequestsFitTheProvider == OnForm => Fits(Request)
=============================================================================
