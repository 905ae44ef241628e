------------------------- MODULE ConsoleFormProofs --------------------------
(***************************************************************************)
(* Proofs about the forms of the console: a provider, a pod, a benchmark.  *)
(* Each has an invariant over what the form holds and the calls on their   *)
(* way, from which follows that what is sent fits where it goes.           *)
(***************************************************************************)
EXTENDS ConsolePages, Integers, TLAPS

\* What every call is made of.
Shaped(c) == c \in [op: {c.op}, arg: {c.arg}, at: {c.at}, val: {c.val}, live: {c.live}]

LEMMA ShapedAnswer ==
  ASSUME NEW c, Shaped(c), NEW at, NEW val, NEW d, d = [c EXCEPT !.at = at, !.val = val]
  PROVE  Shaped(d) /\ d.op = c.op /\ d.arg = c.arg /\ d.at = at /\ d.val = val /\ d.live = c.live
BY DEF Shaped
LEMMA ShapedFailure ==
  ASSUME NEW c, Shaped(c), NEW d, d = [c EXCEPT !.at = "failed"]
  PROVE  Shaped(d) /\ d.op = c.op /\ d.arg = c.arg /\ d.at = "failed" /\ d.val = c.val /\ d.live = c.live
BY DEF Shaped
LEMMA ShapedOrphan ==
  ASSUME NEW c, Shaped(c), NEW d, d = [c EXCEPT !.live = FALSE]
  PROVE  Shaped(d) /\ d.op = c.op /\ d.arg = c.arg /\ d.at = c.at /\ d.val = c.val
BY DEF Shaped

-----------------------------------------------------------------------------
(* The providers *)

ProvidersCall(c) ==
  Shaped(c) /\ (c.op \in {"create", "try"} => c.arg.key # None /\ (c.arg.kind = "vm") = (c.arg.host # None))
ProvidersInv == \A c \in net : ProvidersCall(c)

LEMMA ProvidersNew ==
  ASSUME NEW op, NEW arg, op \in {"create", "try"} => arg.key # None /\ (arg.kind = "vm") = (arg.host # None)
  PROVE  ProvidersCall(Providers!Call(op, arg))
BY DEF ProvidersCall, Shaped, Providers!Call
LEMMA ProvidersAnswered ==
  ASSUME ProvidersInv, NEW c \in net, NEW v, NEW d \in Providers!Answered(c, v) \cup Providers!Failed(c)
  PROVE  ProvidersCall(d)
<1>1. CASE d \in net
  BY <1>1 DEF ProvidersInv
<1>2. CASE d = [c EXCEPT !.at = "ok", !.val = v]
  <2>1. Shaped(c) /\ ProvidersCall(c)
    BY DEF ProvidersInv, ProvidersCall
  <2>2. Shaped(d) /\ d.op = c.op /\ d.arg = c.arg
    BY <1>2, <2>1 DEF Shaped
  <2> QED BY <2>1, <2>2 DEF ProvidersCall
<1>3. CASE d = [c EXCEPT !.at = "failed"]
  BY <1>3, ShapedFailure DEF ProvidersInv, ProvidersCall
<1> QED BY <1>1, <1>2, <1>3 DEF Providers!Answered, Providers!Failed
LEMMA ProvidersLeft == ASSUME ProvidersInv, NEW c \in Providers!Left PROVE ProvidersCall(c)
<1>1. PICK d \in net : c = [d EXCEPT !.live = FALSE]
  BY DEF Providers!Left, Providers!Orphans
<1> QED BY <1>1, ShapedOrphan DEF ProvidersInv, ProvidersCall
LEMMA ProvidersAccount ==
  ASSUME Providers!Valid
  PROVE  Providers!Account.key # None /\ (Providers!Account.kind = "vm") = (Providers!Account.host # None)
BY DEF Providers!Valid, Providers!Account

LEMMA ProvidersInit == Providers!Init => ProvidersInv
BY ProvidersNew DEF Providers!Init, ProvidersInv
LEMMA ProvidersFit == ProvidersInv => Providers!RequestsFitTheProvider
BY DEF ProvidersInv, ProvidersCall, Providers!RequestsFitTheProvider

LEMMA ProvidersNext == ProvidersInv /\ Providers!Next => ProvidersInv'
<1> SUFFICES ASSUME ProvidersInv, Providers!Next, NEW d \in net' PROVE ProvidersCall(d)
  BY DEF ProvidersInv, ProvidersCall, Shaped
<1>1. CASE d \in net
  BY <1>1 DEF ProvidersInv
<1>2. CASE Providers!OpenList \/ Providers!OpenForm
  BY <1>2, ProvidersLeft DEF Providers!OpenList, Providers!OpenForm
<1>3. CASE Providers!OnTheForm
  <2>1. CASE Providers!Test
    BY <1>1, <2>1, ProvidersNew, ProvidersAccount DEF Providers!Test, Providers!Send, Providers!Stay
  <2>2. CASE Providers!Submit
    BY <1>1, <2>2, ProvidersNew, ProvidersAccount DEF Providers!Submit, Providers!Send
  <2>3. ASSUME NEW key \in ProvidersOf.keys, Providers!PickFile(key) PROVE ProvidersCall(d)
    BY <1>1, <2>3, ProvidersNew DEF Providers!PickFile, Providers!Send
  <2> QED BY <1>1, <1>3, <2>1, <2>2, <2>3
          DEF Providers!OnTheForm, Providers!Edit, Providers!PickKind, Providers!FileRead, Providers!Tried, Providers!Stay
<1>4. CASE Providers!OnTheList
  <2>1. d \in Providers!Refresh => ProvidersCall(d)
    BY ProvidersNew DEF Providers!Refresh
  <2>2. ASSUME NEW p, Providers!Retest(p) PROVE ProvidersCall(d)
    BY <1>1, <2>2, ProvidersNew DEF Providers!Retest, Providers!Send
  <2>3. CASE Providers!Delete
    BY <1>1, <2>3, ProvidersNew DEF Providers!Delete, Providers!Send
  <2>4. ASSUME NEW c \in net, Providers!Rendered(c) PROVE ProvidersCall(d)
    BY <1>1, <2>4, ProvidersLeft DEF Providers!Rendered
  <2> QED BY <1>1, <1>4, <2>1, <2>2, <2>3, <2>4
          DEF Providers!OnTheList, Providers!CopyPub, Providers!AskDelete, Providers!CloseDelete, Providers!Retested,
              Providers!Deleted, Providers!Stay
<1>5. ASSUME NEW c \in net, Providers!Created(c) PROVE ProvidersCall(d)
  BY <1>1, <1>5, ProvidersLeft DEF Providers!Created
<1>6. ASSUME NEW c \in net, NEW g, NEW v, Providers!Serves(c, g, v) PROVE ProvidersCall(d)
  BY <1>6, ProvidersAnswered DEF Providers!Serves
<1>7. ASSUME NEW c \in net, Providers!Refuse(c) PROVE ProvidersCall(d)
  BY <1>7, ProvidersAnswered DEF Providers!Refuse
<1>8. CASE Providers!Foreign
  BY <1>1, <1>8 DEF Providers!Foreign
<1> QED BY <1>2, <1>3, <1>4, <1>5, <1>6, <1>7, <1>8
        DEF Providers!Next, Providers!ServeCreate, Providers!ServeTry, Providers!ServeTest, Providers!ServeDelete

-----------------------------------------------------------------------------
(* The form of a pod *)

\* What a choice of account, GPU and template must be, and what the form keeps
\* to get back to one after every change: lists of images that are Prime
\* Intellect's, and a look-up that is only on its way for an account of theirs.
NewPodUi(u) ==
  u \in [route: {"newpod"}, gpu: {u.gpu}, catalog: [NewPod!Kinds -> {"builtin", "live"}], size: {u.size},
         provider: NewPodOf.providers \cup {None}, loads: {u.loads}, images: NewPod!ImageLists, filtered: {u.filtered},
         narrowing: BOOLEAN, looking: {u.looking}, stock: {u.stock}, template: {u.template}, image: {u.image},
         submitting: {u.submitting}, edits: {u.edits}]
NewPodTemplate(u) ==
  IF NewPod!KindOf(u) = "pi" THEN u.template \in NewPod!ImageIds /\ u.image = None
  ELSE \/ u.template \in NewPodOf.curated.ids /\ u.image = None
       \/ u.template \in NewPodOf.found /\ u.image = u.template
NewPodOK(u) == /\ NewPodUi(u) /\ NewPodTemplate(u) /\ u.gpu \in NewPod!Catalog(u).ids
               /\ u.narrowing => NewPod!KindOf(u) = "pi"
PiGpus == NewPodOf.gpus["pi"]["builtin"].ids \cup NewPodOf.gpus["pi"]["live"].ids
NewPodCall(c) == Shaped(c) /\ (c.op = "compatible" => c.arg.gpu \in PiGpus /\ (c.at = "ok" => c.val \in NewPod!ImageLists))
NewPodInv == /\ NewPodOK(ui) \/ (ui.route = "gone" /\ net = {})
             /\ \A c \in net : NewPodCall(c)

LEMMA NewPodKinds == ASSUME NEW u, NewPodUi(u) PROVE NewPod!KindOf(u) \in NewPod!Kinds
BY ConsoleAssumption DEF NewPodUi, NewPod!KindOf, NewPod!Kinds, NewPod!ConstantsOK

LEMMA NewPodFits == NewPodInv => NewPod!RequestsFitTheProvider
<1> SUFFICES ASSUME NewPodOK(ui) PROVE NewPod!Fits(NewPod!Request)
  BY DEF NewPodInv, NewPod!RequestsFitTheProvider, NewPod!OnForm
<1>1. NewPod!KindOf(ui) \in {"runpod", "pi"}
  BY NewPodKinds DEF NewPodOK, NewPod!Kinds
<1>2. ui.catalog[NewPod!KindOf(ui)] \in {"builtin", "live"}
  BY <1>1 DEF NewPodOK, NewPodUi, NewPod!Kinds
<1> QED BY <1>1, <1>2 DEF NewPodOK, NewPod!Fits, NewPod!Request, NewPodTemplate, NewPod!Catalog, NewPod!ImageIds

\* However an event changes the form, the effects leave it with a GPU of the
\* active catalogue and a template that goes with it.
LEMMA NewPodSettles ==
  ASSUME NEW u, NewPodOK(u), NEW v, NewPodUi(v), v.narrowing = u.narrowing,
         NewPod!Offers(v) = NewPod!Offers(u) => NewPodTemplate(v)
  PROVE  NewPodOK(NewPod!Settled(u, v))
<1>1. PICK a : a = NewPod!SnapGpu(v)
  OBVIOUS
<1>2. /\ NewPodUi(a) /\ a.gpu \in NewPod!Catalog(a).ids /\ NewPod!Offers(a) = NewPod!Offers(v)
      /\ a.template = v.template /\ a.image = v.image /\ a.narrowing = v.narrowing /\ a.provider = v.provider
  <2>1. CASE v.gpu \in NewPod!Catalog(v).ids
    BY <1>1, <2>1 DEF NewPod!SnapGpu
  <2>2. CASE v.gpu \notin NewPod!Catalog(v).ids
    <3>1. NewPodUi(a) /\ a.gpu = NewPod!Catalog(v).first /\ a.catalog = v.catalog /\ a.provider = v.provider
          /\ a.images = v.images /\ a.template = v.template /\ a.image = v.image /\ a.narrowing = v.narrowing
      BY <1>1, <2>2 DEF NewPod!SnapGpu, NewPodUi
    <3>2. NewPod!KindOf(v) \in NewPod!Kinds /\ v.catalog[NewPod!KindOf(v)] \in {"builtin", "live"}
      BY NewPodKinds DEF NewPodUi
    <3>3. NewPod!Catalog(v).first \in NewPod!Catalog(v).ids
      BY <3>2, ConsoleAssumption DEF NewPod!Catalog, NewPod!ConstantsOK
    <3> QED BY <3>1, <3>3 DEF NewPod!Catalog, NewPod!KindOf, NewPod!Offers
  <2> QED BY <2>1, <2>2
<1>3. PICK t : t = IF NewPod!Offers(a) = NewPod!Offers(u) THEN a ELSE NewPod!SnapTemplate(a)
  OBVIOUS
<1>4. /\ NewPodUi(t) /\ NewPodTemplate(t) /\ t.gpu \in NewPod!Catalog(t).ids
      /\ t.narrowing = a.narrowing /\ t.provider = a.provider /\ t.images = a.images
  <2>1. CASE NewPod!Offers(a) = NewPod!Offers(u)
    BY <1>2, <1>3, <2>1 DEF NewPodTemplate, NewPod!KindOf
  <2>2. CASE NewPod!Offers(a) # NewPod!Offers(u)
    <3>1. t = NewPod!SnapTemplate(a)
      BY <1>3, <2>2
    <3>2. /\ NewPodUi(t) /\ t.gpu = a.gpu /\ t.catalog = a.catalog /\ t.provider = a.provider /\ t.images = a.images
          /\ t.narrowing = a.narrowing /\ t.image = None
          /\ LET list == IF NewPod!KindOf(a) = "pi" THEN a.images ELSE NewPodOf.curated IN t.template \in list.ids \cup {list.first}
      BY <1>2, <3>1 DEF NewPod!SnapTemplate, NewPodUi
    <3>3. NewPodOf.curated.first \in NewPodOf.curated.ids
      BY ConsoleAssumption DEF NewPod!ConstantsOK
    <3>4. a.images.ids \cup {a.images.first} \subseteq NewPod!ImageIds
      BY <1>2 DEF NewPodUi, NewPod!ImageLists
    <3> QED BY <1>2, <3>2, <3>3, <3>4 DEF NewPodTemplate, NewPod!KindOf, NewPod!Catalog
  <2> QED BY <2>1, <2>2
<1>5. PICK b : b = NewPod!SnapImage(t)
  OBVIOUS
<1>6. NewPodUi(b) /\ NewPodTemplate(b) /\ b.gpu \in NewPod!Catalog(b).ids /\ b.narrowing = u.narrowing
  <2>1. t.images.first \in NewPod!ImageIds
    BY <1>4 DEF NewPodUi, NewPod!ImageLists
  <2>2. CASE b = t
    BY <1>2, <1>4, <2>2
  <2>3. CASE NewPod!KindOf(t) = "pi" /\ b = [t EXCEPT !.template = t.images.first]
    BY <1>2, <1>4, <2>1, <2>3 DEF NewPodUi, NewPodTemplate, NewPod!KindOf, NewPod!Catalog
  <2> QED BY <1>5, <2>2, <2>3 DEF NewPod!SnapImage
<1>7. NewPod!Settled(u, v) = IF NewPod!Choice(b) = NewPod!Choice(u) THEN b ELSE NewPod!LookUp(NewPod!Narrow(b), NewPod!Choice(b))
  BY <1>1, <1>3, <1>5 DEF NewPod!Settled
<1>8. CASE NewPod!Choice(b) = NewPod!Choice(u)
  BY <1>6, <1>7, <1>8 DEF NewPodOK, NewPod!Choice
<1>9. CASE NewPod!Choice(b) # NewPod!Choice(u)
  <2>1. PICK n : n = NewPod!Narrow(b)
    OBVIOUS
  <2>2. /\ NewPodUi(n) /\ n.gpu = b.gpu /\ n.catalog = b.catalog /\ n.provider = b.provider /\ n.template = b.template
        /\ n.image = b.image /\ (n.narrowing => NewPod!KindOf(b) = "pi")
    BY <1>6, <2>1 DEF NewPod!Narrow, NewPodUi
  <2>3. PICK l : l = NewPod!LookUp(n, NewPod!Choice(b))
    OBVIOUS
  <2>4. /\ NewPodUi(l) /\ l.gpu = n.gpu /\ l.catalog = n.catalog /\ l.provider = n.provider /\ l.template = n.template
        /\ l.image = n.image /\ l.narrowing = n.narrowing
    BY <2>2, <2>3 DEF NewPod!LookUp, NewPodUi
  <2>5. NewPodOK(l)
    BY <1>6, <2>2, <2>4 DEF NewPodOK, NewPodTemplate, NewPod!KindOf, NewPod!Catalog
  <2> QED BY <1>7, <1>9, <2>1, <2>3, <2>5
<1> QED BY <1>8, <1>9

LEMMA NewPodCalls ==
  /\ \A op, arg : op # "compatible" => NewPodCall(NewPod!Call(op, arg))
  /\ \A arg : arg.gpu \in PiGpus => NewPodCall(NewPod!Call("compatible", arg))
BY DEF NewPodCall, Shaped, NewPod!Call

LEMMA NewPodReacts ==
  ASSUME NewPodInv, ui.route = "newpod", NEW v, NewPodUi(v), v.narrowing = ui.narrowing,
         NewPod!Offers(v) = NewPod!Offers(ui) => NewPodTemplate(v),
         ui' = NewPod!Settled(ui, v), net' \subseteq net
  PROVE  NewPodInv'
<1>1. NewPodOK(ui)
  BY DEF NewPodInv
<1>2. NewPodOK(ui')
  BY <1>1, NewPodSettles
<1> QED BY <1>2 DEF NewPodInv

LEMMA NewPodEdits ==
  ASSUME NewPodInv, NEW u, NewPodUi(u), u.narrowing = ui.narrowing, NewPodTemplate(u), NewPod!Edit(u)
  PROVE  NewPodInv'
<1>1. PICK v : v = [u EXCEPT !.edits = @ + 1]
  OBVIOUS
<1>2. NewPodUi(v) /\ v.narrowing = ui.narrowing /\ NewPodTemplate(v)
  BY <1>1 DEF NewPodUi, NewPodTemplate, NewPod!KindOf
<1>3. NewPod!React(v) /\ ui.route = "newpod"
  BY <1>1 DEF NewPod!Edit, NewPod!OnForm
<1> QED BY <1>2, <1>3, NewPodReacts DEF NewPod!React, NewPod!Kept
LEMMA NewPodInit == NewPod!Init => NewPodInv
<1> SUFFICES ASSUME NewPod!Init PROVE NewPodOK(ui)
  BY DEF NewPod!Init, NewPodInv
<1>1. PICK f : f = NewPod!Form
  OBVIOUS
<1>2. ui = NewPod!LookUp(f, NewPod!Choice(f))
  BY <1>1 DEF NewPod!Init
<1>3. NewPodOf.fallback \in NewPod!ImageLists /\ NewPodOf.curated.first \in NewPodOf.curated.ids
      /\ NewPodOf.gpus["runpod"]["builtin"].first \in NewPodOf.gpus["runpod"]["builtin"].ids
  BY ConsoleAssumption DEF NewPod!ConstantsOK, NewPod!Kinds
<1>4. NewPod!NoImages \in NewPod!ImageLists
  BY <1>3 DEF NewPod!NoImages, NewPod!ImageLists
<1>5. NewPodOK(f)
  <2>1. NewPodUi(f) /\ f.narrowing = FALSE /\ NewPod!KindOf(f) = "runpod" /\ NewPodTemplate(f)
    BY <1>1, <1>3, <1>4 DEF NewPod!Form, NewPodUi, NewPod!KindOf, NewPodTemplate
  <2>2. NewPod!Catalog(f) = NewPodOf.gpus["runpod"]["builtin"]
    BY <1>1, <2>1 DEF NewPod!Catalog, NewPod!Form, NewPod!Kinds
  <2> QED BY <1>1, <1>3, <2>1, <2>2 DEF NewPodOK, NewPod!Form
<1>6. /\ NewPodUi(ui) /\ ui.gpu = f.gpu /\ ui.catalog = f.catalog /\ ui.provider = f.provider /\ ui.template = f.template
      /\ ui.image = f.image /\ ui.narrowing = f.narrowing
  BY <1>2, <1>5 DEF NewPod!LookUp, NewPodUi, NewPodOK
<1> QED BY <1>5, <1>6 DEF NewPodOK, NewPodTemplate, NewPod!KindOf, NewPod!Catalog

LEMMA NewPodUserStep == NewPodInv /\ NewPod!UserStep => NewPodInv'
<1> SUFFICES ASSUME NewPodInv, NewPod!UserStep PROVE NewPodInv'
  OBVIOUS
<1> USE DEF NewPod!OnForm
<1>1. CASE NewPod!Submit
  <2>1. NewPodOK(ui) /\ ui' = [ui EXCEPT !.submitting = TRUE] /\ net' = net \cup {NewPod!Call("create", None)}
    BY <1>1 DEF NewPod!Submit, NewPodInv
  <2>2. NewPodOK(ui')
    BY <2>1 DEF NewPodOK, NewPodUi, NewPodTemplate, NewPod!KindOf, NewPod!Catalog
  <2> QED BY <2>1, <2>2, NewPodCalls DEF NewPodInv
<1>2. CASE NewPod!Cancel
  BY <1>2 DEF NewPod!Cancel, NewPodInv
<1>3. ASSUME ui.route = "newpod" PROVE NewPodOK(ui)
  BY <1>3 DEF NewPodInv
<1>4. ASSUME ui.route = "newpod", NEW p \in NewPodOf.providers \cup {None}, NewPod!ChooseProvider(p) PROVE NewPodInv'
  <2>1. PICK v : v = [[ui EXCEPT !.provider = p] EXCEPT !.edits = @ + 1]
    OBVIOUS
  <2>2. NewPodUi(v) /\ v.narrowing = ui.narrowing /\ v.template = ui.template /\ v.image = ui.image
    BY <1>3, <1>4, <2>1 DEF NewPodUi, NewPodOK
  <2>3. NewPod!Offers(v) = NewPod!Offers(ui) => NewPodTemplate(v)
    BY <1>3, <1>4, <2>2 DEF NewPodOK, NewPod!Offers, NewPodTemplate
  <2>4. NewPod!React(v)
    BY <1>4, <2>1 DEF NewPod!ChooseProvider, NewPod!Edit
  <2> QED BY <1>4, <2>2, <2>3, <2>4, NewPodReacts DEF NewPod!React, NewPod!Kept
<1>5. ASSUME ui.route = "newpod", NEW u, NewPodUi(u), u.narrowing = ui.narrowing, NewPodTemplate(u), NewPod!Edit(u)
      PROVE  NewPodInv'
  BY <1>5, NewPodEdits
<1>6. ASSUME ui.route = "newpod", NEW g, NewPod!ChooseGpu(g) PROVE NewPodInv'
  <2>1. PICK u : u = [ui EXCEPT !.gpu = g]
    OBVIOUS
  <2>2. NewPodUi(u) /\ u.narrowing = ui.narrowing /\ NewPodTemplate(u)
    BY <1>3, <1>6, <2>1 DEF NewPodUi, NewPodOK, NewPodTemplate, NewPod!KindOf
  <2> QED BY <1>5, <1>6, <2>1, <2>2 DEF NewPod!ChooseGpu
<1>7. ASSUME ui.route = "newpod", NEW z, NewPod!Resize(z) PROVE NewPodInv'
  <2>1. PICK u : u = [ui EXCEPT !.size = z]
    OBVIOUS
  <2>2. NewPodUi(u) /\ u.narrowing = ui.narrowing /\ NewPodTemplate(u)
    BY <1>3, <1>7, <2>1 DEF NewPodUi, NewPodOK, NewPodTemplate, NewPod!KindOf
  <2> QED BY <1>5, <1>7, <2>1, <2>2 DEF NewPod!Resize
<1>8. ASSUME ui.route = "newpod", NEW i, NewPod!PickImage(i) PROVE NewPodInv'
  <2>1. PICK u : u = [ui EXCEPT !.template = i]
    OBVIOUS
  <2>2. NewPodUi(u) /\ u.narrowing = ui.narrowing /\ NewPodTemplate(u)
    BY <1>3, <1>8, <2>1 DEF NewPod!PickImage, NewPodUi, NewPodOK, NewPodTemplate, NewPod!KindOf, NewPod!ImageLists
  <2> QED BY <1>5, <1>8, <2>1, <2>2 DEF NewPod!PickImage
<1>9. ASSUME ui.route = "newpod", NEW t, NewPod!PickTemplate(t) PROVE NewPodInv'
  <2>1. PICK u : u = [ui EXCEPT !.template = t, !.image = None]
    OBVIOUS
  <2>2. NewPodUi(u) /\ u.narrowing = ui.narrowing /\ NewPodTemplate(u)
    BY <1>3, <1>9, <2>1 DEF NewPod!PickTemplate, NewPodUi, NewPodOK, NewPodTemplate, NewPod!KindOf
  <2> QED BY <1>5, <1>9, <2>1, <2>2 DEF NewPod!PickTemplate
<1>10. ASSUME ui.route = "newpod", NEW t, NewPod!PickFound(t) PROVE NewPodInv'
  <2>1. PICK u : u = [ui EXCEPT !.template = t, !.image = t]
    OBVIOUS
  <2>2. NewPodUi(u) /\ u.narrowing = ui.narrowing /\ NewPodTemplate(u)
    BY <1>3, <1>10, <2>1 DEF NewPod!PickFound, NewPodUi, NewPodOK, NewPodTemplate, NewPod!KindOf
  <2> QED BY <1>5, <1>10, <2>1, <2>2 DEF NewPod!PickFound
<1> QED BY <1>1, <1>2, <1>4, <1>6, <1>7, <1>8, <1>9, <1>10 DEF NewPod!UserStep

\* The lists of Prime Intellect's images come from the two answers that carry them.
LEMMA NewPodPageStep == NewPodInv /\ NewPod!PageStep => NewPodInv'
<1> SUFFICES ASSUME NewPodInv, NewPod!PageStep PROVE NewPodInv'
  OBVIOUS
<1> USE DEF NewPod!OnForm
<1>3. ASSUME ui.route = "newpod" PROVE NewPodOK(ui)
  BY <1>3 DEF NewPodInv
<1>1. CASE NewPod!AskCompatible
  <2>1. NewPodOK(ui) /\ ui.narrowing /\ ui' = [ui EXCEPT !.narrowing = FALSE]
        /\ net' = net \cup {NewPod!Call("compatible", NewPod!Choice(ui))}
    BY <1>1, <1>3 DEF NewPod!AskCompatible, NewPod!Ask
  <2>2. NewPodOK(ui')
    BY <2>1 DEF NewPodOK, NewPodUi, NewPodTemplate, NewPod!KindOf, NewPod!Catalog
  <2>3. NewPod!KindOf(ui) = "pi" /\ ui.catalog["pi"] \in {"builtin", "live"}
    BY <2>1 DEF NewPodOK, NewPodUi, NewPod!Kinds
  <2>4. NewPod!Choice(ui).gpu \in PiGpus
    BY <2>1, <2>3 DEF NewPodOK, NewPod!Catalog, NewPod!Choice, PiGpus
  <2> QED BY <2>1, <2>2, <2>4, NewPodCalls DEF NewPodInv
<1>2. CASE ui.route = "newpod" /\ NewPod!AskStock(NewPod!Choice(ui))
  <2>1. NewPodOK(ui) /\ ui' = [ui EXCEPT !.looking = FALSE] /\ net' = net \cup {NewPod!Call("stock", NewPod!Choice(ui))}
    BY <1>2, <1>3 DEF NewPod!AskStock
  <2>2. NewPodOK(ui')
    BY <2>1 DEF NewPodOK, NewPodUi, NewPodTemplate, NewPod!KindOf, NewPod!Catalog
  <2> QED BY <2>1, <2>2, NewPodCalls DEF NewPodInv
<1>4. ASSUME NEW l \in NewPod!Loads, NewPod!ListArrives(l) PROVE NewPodInv'
  <2>1. PICK u \in {NewPod!Loaded(l, ui), NewPod!Unloaded(l, ui)} : NewPod!React([u EXCEPT !.loads = @ \ {l}])
    BY <1>4 DEF NewPod!ListArrives
  <2>2. NewPodOK(ui) /\ ui.route = "newpod"
    BY <1>3, <1>4 DEF NewPod!ListArrives
  <2>3. \/ u = ui \/ \E i \in NewPod!ImageLists : u = [ui EXCEPT !.images = i]
        \/ \E k \in NewPod!Kinds : u = [ui EXCEPT !.catalog[k] = "live"]
    BY <1>4, <2>1, ConsoleAssumption DEF NewPod!Loaded, NewPod!Unloaded, NewPod!Loads, NewPod!ConstantsOK
  <2>4. /\ NewPodUi(u) /\ u.narrowing = ui.narrowing /\ u.provider = ui.provider /\ u.template = ui.template
        /\ u.image = ui.image
    BY <2>2, <2>3 DEF NewPodOK, NewPodUi
  <2>5. PICK v : v = [u EXCEPT !.loads = @ \ {l}]
    OBVIOUS
  <2>6. /\ NewPodUi(v) /\ v.narrowing = ui.narrowing /\ v.provider = ui.provider /\ v.template = ui.template
        /\ v.image = ui.image
    BY <2>4, <2>5 DEF NewPodUi
  <2>7. NewPodTemplate(v)
    BY <2>2, <2>6 DEF NewPodOK, NewPodTemplate, NewPod!KindOf
  <2> QED BY <2>1, <2>2, <2>5, <2>6, <2>7, NewPodReacts DEF NewPod!React, NewPod!Kept
<1>5. ASSUME NEW c \in net, NewPod!Compatible(c) PROVE NewPodInv'
  <2>1. c.op = "compatible" /\ NewPodCall(c)
    BY <1>5 DEF NewPod!Compatible, NewPod!Done, NewPodInv
  <2>3. NewPodOK(ui)
    BY DEF NewPodInv
  <2>4. PICK v : /\ v = IF c.at = "ok" /\ c.val.ids # {} THEN [ui EXCEPT !.images = c.val, !.filtered = TRUE]
                                                     ELSE [ui EXCEPT !.filtered = FALSE]
                 /\ ui' = NewPod!Settled(ui, v) /\ net' = NewPod!Kept(ui, NewPod!Settled(ui, v)) \ {c}
    BY <1>5 DEF NewPod!Compatible
  <2>5. /\ NewPodUi(v) /\ v.narrowing = ui.narrowing /\ v.provider = ui.provider /\ v.template = ui.template
        /\ v.image = ui.image
    BY <2>1, <2>3, <2>4 DEF NewPodOK, NewPodUi, NewPodCall
  <2>6. NewPodTemplate(v)
    BY <2>3, <2>5 DEF NewPodOK, NewPodTemplate, NewPod!KindOf
  <2>7. ui.route = "newpod" /\ net' \subseteq net
    BY <2>3, <2>4 DEF NewPodOK, NewPodUi, NewPod!Kept
  <2> QED BY <2>4, <2>5, <2>6, <2>7, NewPodReacts
<1>6. ASSUME NEW c \in net, NewPod!Stock(c) \/ NewPod!StockFails(c) \/ NewPod!StockRefused(c) PROVE NewPodInv'
  <2>1. ui' = ui \/ \E s : ui' = [ui EXCEPT !.stock = s]
    BY <1>6 DEF NewPod!Stock, NewPod!StockFails, NewPod!StockRefused
  <2>2. \A d \in net' : d \in net \/ (c.op = "stock" /\ d = [c EXCEPT !.at = "erring", !.arg = None])
    BY <1>6 DEF NewPod!Stock, NewPod!StockFails, NewPod!StockRefused, NewPod!Done
  <2>3. \A d \in net' : NewPodCall(d)
    BY <2>2 DEF NewPodInv, NewPodCall, Shaped
  <2>4. NewPodOK(ui')
    BY <2>1, ZenonT(60) DEF NewPodInv, NewPodOK, NewPodUi, NewPodTemplate, NewPod!KindOf, NewPod!Catalog
  <2> QED BY <2>3, <2>4 DEF NewPodInv
<1>7. ASSUME NEW c \in net, NewPod!Created(c) PROVE NewPodInv'
  <2>1. CASE ui' = [route |-> "gone"] /\ net' = {}
    BY <2>1 DEF NewPodInv
  <2>2. CASE ui' = [ui EXCEPT !.submitting = FALSE] /\ net' = net \ {c}
    <3>1. NewPodOK(ui')
      BY <2>2 DEF NewPodInv, NewPodOK, NewPodUi, NewPodTemplate, NewPod!KindOf, NewPod!Catalog
    <3> QED BY <2>2, <3>1 DEF NewPodInv
  <2> QED BY <1>7, <2>1, <2>2 DEF NewPod!Created
<1> QED BY <1>1, <1>2, <1>4, <1>5, <1>6, <1>7 DEF NewPod!PageStep

LEMMA NewPodGatewayStep == NewPodInv /\ NewPod!GatewayStep => NewPodInv'
<1> SUFFICES ASSUME NewPodInv, NEW c \in net, NewPod!Serve(c) \/ NewPod!Fail(c), NEW d \in net' PROVE NewPodCall(d)
  BY
     DEF NewPodInv, NewPod!GatewayStep, NewPod!Serve, NewPod!Fail, NewPodOK, NewPodUi, NewPodTemplate, NewPod!KindOf, NewPod!Catalog
<1>1. NewPodCall(c)
  BY DEF NewPodInv
<1>2. CASE d \in net
  BY <1>2 DEF NewPodInv
<1>3. CASE d = [c EXCEPT !.at = "ok", !.val = NewPod!Answer(c)]
  <2>1. Shaped(d) /\ d.op = c.op /\ d.arg = c.arg /\ d.val = NewPod!Answer(c)
    BY <1>1, <1>3 DEF NewPodCall, Shaped
  <2>2. ASSUME c.op = "compatible" PROVE NewPod!Answer(c) \in NewPod!ImageLists
    BY <1>1, <2>2, ConsoleAssumption DEF NewPodCall, PiGpus, NewPod!Answer, NewPod!ConstantsOK
  <2> QED BY <1>1, <2>1, <2>2 DEF NewPodCall
<1>4. CASE d = [c EXCEPT !.at = "failed"]
  BY <1>1, <1>4 DEF NewPodCall, Shaped
<1> QED BY <1>2, <1>3, <1>4 DEF NewPod!Serve, NewPod!Fail, NewPod!Answered, NewPod!Failed

LEMMA NewPodNext == NewPodInv /\ NewPod!Next => NewPodInv'
BY NewPodUserStep, NewPodPageStep, NewPodGatewayStep DEF NewPod!Next

-----------------------------------------------------------------------------
(* The form of a benchmark *)

\* The fields are what the form offers; texts and templates rent and run what
\* there is.
BenchFormOK(of, f) ==
  f \in [gpu: of.gpus, image: of.images \cup {None}, plain: of.plains, args: [of.keys -> of.nums \cup {None}],
         dtype: of.dtypes, extra: {f.extra}, sweep: {f.sweep}, len: of.lens, conc: of.concs, lens: SUBSET of.lens,
         concs: SUBSET of.concs]
BenchUi(of, u) ==
  /\ u \in [route: {"newbench"}, mode: {"form", "yaml"}, form: {u.form}, named: BOOLEAN, yaml: {u.yaml},
            target: {"cloud", "vm"}, vm: of.vms \cup of.accounts \cup {None}, account: of.accounts \cup {None},
            templates: {u.templates}, selected: of.templates \cup {None}, saving: BOOLEAN, stock: {u.stock}, looking: BOOLEAN,
            probe: {u.probe}, submitting: BOOLEAN, leaving: BOOLEAN, edits: 0 .. of.edits]
  /\ BenchFormOK(of, u.form) /\ BenchForm(of)!TextOK(u.yaml)
  /\ DOMAIN u.templates \subseteq of.templates /\ \A t \in DOMAIN u.templates : BenchForm(of)!TextOK(u.templates[t])
BenchCall(of, c) ==
  /\ Shaped(c) /\ c.op \in {"templates", "stock", "probe", "save", "delete", "create"}
  /\ c.op = "save" => BenchForm(of)!TextOK(c.arg) /\ (c.at = "ok" => c.val \in of.templates)
  /\ c.op = "templates" /\ c.at = "ok" => DOMAIN c.val \subseteq of.templates /\ \A t \in DOMAIN c.val : BenchForm(of)!TextOK(c.val[t])
\* In form mode an answer about the stock is on its way only while it is about
\* what is chosen, and the badge shows no other.
BenchBadge(of) ==
  ui.route = "newbench" /\ ui.mode = "form"
  => /\ BenchForm(of)!Known(ui) => ui.stock.of = BenchForm(of)!Choice(ui)
     /\ \A c \in net : BenchForm(of)!Stale(c) => c.arg = BenchForm(of)!Choice(ui)
BenchFormInv(of) == /\ BenchUi(of, ui) \/ (ui.route = "gone" /\ net = {})
                    /\ DOMAIN gw \subseteq of.templates /\ \A t \in DOMAIN gw : BenchForm(of)!TextOK(gw[t])
                    /\ \A c \in net : BenchCall(of, c)
                    /\ BenchBadge(of)
\* No step but the one back to the form leaves YAML mode.
ModeStays == ui'.route = "gone" \/ ui'.mode = ui.mode \/ ui'.mode = "yaml"

LEMMA BenchFormFits ==
  ASSUME NEW of, BenchForm(of)!ConstantsOK, BenchFormInv(of) PROVE BenchForm(of)!RequestsFitTheProvider
<1> SUFFICES ASSUME BenchForm(of)!InForm, BenchForm(of)!Ready(ui), ~(ui.target = "vm" /\ ui.vm \in of.accounts)
             PROVE  BenchForm(of)!Request(ui).config.rent = None <=> BenchForm(of)!Request(ui).provider \in of.vms
  BY DEF BenchForm!RequestsFitTheProvider
<1>1. BenchUi(of, ui) /\ ui.mode = "form"
  BY DEF BenchFormInv, BenchForm!InForm, BenchForm!OnPage
<1>2. BenchForm(of)!Request(ui).config = BenchForm(of)!renderYaml(ui.form, ui.target)
      /\ BenchForm(of)!Request(ui).provider = IF ui.target = "vm" THEN ui.vm ELSE ui.account
  BY <1>1 DEF BenchForm!Request, BenchForm!Shown
<1>3. CASE ui.target = "vm"
  BY <1>1, <1>2, <1>3 DEF BenchForm!renderYaml, BenchForm!Ready, BenchUi
<1>4. CASE ui.target = "cloud"
  <2>1. BenchForm(of)!renderYaml(ui.form, ui.target).rent \in [gpu: of.gpus, image: of.images]
    BY <1>1, <1>4 DEF BenchForm!renderYaml, BenchUi, BenchFormOK, BenchForm!ConstantsOK
  <2> QED BY <1>1, <1>2, <1>4, <2>1 DEF BenchUi, BenchForm!ConstantsOK
<1> QED BY <1>1, <1>3, <1>4 DEF BenchUi

LEMMA BenchFormRenders ==
  ASSUME NEW of, BenchForm(of)!ConstantsOK, NEW f, BenchFormOK(of, f), NEW target
  PROVE  BenchForm(of)!TextOK(BenchForm(of)!renderYaml(f, target))
<1>1. BenchForm(of)!renderBenchEntries(f) \subseteq of.lens \X of.concs
  BY DEF BenchFormOK, BenchForm!renderBenchEntries, BenchForm!SafeInputs, BenchForm!SafeConcs
<1>2. target = "cloud" => BenchForm(of)!renderYaml(f, target).rent \in [gpu: of.gpus, image: of.images]
  BY DEF BenchForm!renderYaml, BenchFormOK, BenchForm!ConstantsOK
<1>3. target # "cloud" => BenchForm(of)!renderYaml(f, target).rent = None
  BY DEF BenchForm!renderYaml
<1>4. BenchForm(of)!renderYaml(f, target).runs = BenchForm(of)!renderBenchEntries(f)
      /\ BenchForm(of)!renderYaml(f, target).plain \in of.plains
  BY DEF BenchForm!renderYaml, BenchFormOK
<1> QED BY <1>1, <1>2, <1>3, <1>4 DEF BenchForm!TextOK

\* What the effects make of v: the text follows, and the badge asks again if
\* the choice is another.
BenchSettled(of, u, v, s) ==
  /\ BenchUi(of, s) /\ s.mode = v.mode /\ s.form = v.form /\ s.target = v.target
  /\ BenchForm(of)!Choice(s) = BenchForm(of)!Choice(v)
  /\ IF BenchForm(of)!Choice(u) = BenchForm(of)!Choice(v) THEN s.stock = v.stock
     ELSE v.mode = "form" => s.stock = [status |-> "loading", of |-> BenchForm(of)!Choice(v)]

LEMMA BenchFormSettles ==
  ASSUME NEW of, BenchForm(of)!ConstantsOK, NEW u, NEW v, BenchUi(of, v), NEW s, s = BenchForm(of)!Settled(u, v)
  PROVE  BenchSettled(of, u, v, s)
<1>1. PICK a : a = BenchForm(of)!InStep(v)
  OBVIOUS
<1>2. BenchUi(of, a) /\ a.mode = v.mode /\ a.form = v.form /\ a.target = v.target /\ a.stock = v.stock
  <2>1. CASE v.mode = "form"
    <3>1. PICK y : y = BenchForm(of)!renderYaml(v.form, v.target)
      OBVIOUS
    <3>2. BenchForm(of)!TextOK(y)
      BY <3>1, BenchFormRenders DEF BenchUi
    <3>3. a = [v EXCEPT !.yaml = y]
      BY <1>1, <2>1, <3>1 DEF BenchForm!InStep
    <3> QED BY <3>2, <3>3 DEF BenchUi
  <2>2. CASE v.mode # "form"
    BY <1>1, <2>2 DEF BenchForm!InStep
  <2> QED BY <2>1, <2>2
<1>3. PICK b : b = BenchForm(of)!Badge(u, a)
  OBVIOUS
<1>4. PICK o : o = BenchForm(of)!Choice(v)
  OBVIOUS
<1>5. BenchForm(of)!Choice(a) = o
  BY <1>2, <1>4 DEF BenchForm!Choice
<1>6. /\ BenchUi(of, b) /\ b.mode = a.mode /\ b.form = a.form /\ b.target = a.target
      /\ IF BenchForm(of)!Choice(u) = o THEN b.stock = v.stock
         ELSE v.mode = "form" => b.stock = [status |-> "loading", of |-> o]
  <2>1. CASE BenchForm(of)!Choice(u) = o
    BY <1>2, <1>3, <1>5, <2>1 DEF BenchForm!Badge
  <2>2. CASE BenchForm(of)!Choice(u) # o
    <3>1. PICK x, i : x = [status |-> "loading", of |-> o] /\ i = BenchForm(of)!Idle
      OBVIOUS
    <3>2. b = IF v.mode = "form" THEN [a EXCEPT !.stock = x, !.looking = TRUE] ELSE [a EXCEPT !.stock = i, !.looking = FALSE]
      BY <1>2, <1>3, <1>5, <2>2, <3>1 DEF BenchForm!Badge, BenchForm!LookUp
    <3>3. BenchUi(of, b) /\ b.mode = a.mode /\ b.form = a.form /\ b.target = a.target /\ (v.mode = "form" => b.stock = x)
      <4>1. CASE b = [a EXCEPT !.stock = x, !.looking = TRUE]
        BY <1>2, <4>1 DEF BenchUi
      <4>2. CASE b = [a EXCEPT !.stock = i, !.looking = FALSE] /\ v.mode # "form"
        BY <1>2, <4>2 DEF BenchUi
      <4> QED BY <3>2, <4>1, <4>2
    <3> QED BY <2>2, <3>1, <3>3
  <2> QED BY <2>1, <2>2
<1>7. s = BenchForm(of)!Probe(u, b)
  BY <1>1, <1>3 DEF BenchForm!Settled
<1>8. BenchUi(of, s) /\ s.mode = b.mode /\ s.form = b.form /\ s.target = b.target /\ s.stock = b.stock
  <2>1. s = b \/ \E p : s = [b EXCEPT !.probe = p]
    BY <1>7 DEF BenchForm!Probe
  <2> QED BY <1>6, <2>1 DEF BenchUi
<1>9. BenchForm(of)!Choice(s) = o
  BY <1>2, <1>4, <1>6, <1>8 DEF BenchForm!Choice
<1> QED BY <1>2, <1>4, <1>6, <1>8, <1>9 DEF BenchSettled

LEMMA BenchFormCalls ==
  ASSUME NEW of
  PROVE  /\ \A op \in {"templates", "stock", "probe", "delete", "create"} : \A arg : BenchCall(of, BenchForm(of)!Call(op, arg))
         /\ \A arg : BenchForm(of)!TextOK(arg) => BenchCall(of, BenchForm(of)!Call("save", arg))
BY DEF BenchCall, Shaped, BenchForm!Call

\* A step that leaves the choice and the badge alone and asks about no other.
LEMMA BenchBadgeStays ==
  ASSUME NEW of, BenchUi(of, ui), BenchBadge(of), BenchUi(of, ui'), ui'.mode = ui.mode, ui'.form = ui.form,
         ui'.mode = "form" /\ BenchForm(of)!Known(ui') => ui'.stock = ui.stock \/ ui'.stock.of = BenchForm(of)!Choice(ui),
         \A c \in net' : ui.mode = "form" /\ BenchForm(of)!Stale(c) => c \in net \/ c.arg = BenchForm(of)!Choice(ui)
  PROVE  BenchBadge(of)'
<1>1. ui.route = "newbench" /\ BenchForm(of)!Choice(ui') = BenchForm(of)!Choice(ui)
  BY DEF BenchForm!Choice, BenchUi
<1> QED BY <1>1 DEF BenchBadge, BenchForm!Known

LEMMA BenchFormReacts ==
  ASSUME NEW of, BenchForm(of)!ConstantsOK, BenchFormInv(of), BenchUi(of, ui), NEW v, BenchUi(of, v), v.stock = ui.stock,
         BenchForm(of)!React(v)
  PROVE  BenchFormInv(of)' /\ ui'.mode = v.mode /\ ui'.form = v.form /\ ui'.target = v.target
<1>1. PICK s : s = BenchForm(of)!Settled(ui, v)
  OBVIOUS
<1>2. BenchSettled(of, ui, v, s) /\ ui' = s
  BY <1>1, BenchFormSettles DEF BenchForm!React
<1>3. BenchUi(of, ui') /\ ui'.mode = v.mode /\ ui'.form = v.form /\ ui'.target = v.target
  BY <1>2 DEF BenchSettled
<1>4. \A c \in net' : BenchCall(of, c)
  BY BenchFormCalls DEF BenchForm!React, BenchForm!Kept, BenchFormInv
<1>5. BenchBadge(of)'
  <2> SUFFICES ASSUME v.mode = "form"
               PROVE  /\ BenchForm(of)!Known(s) => s.stock.of = BenchForm(of)!Choice(s)
                      /\ \A c \in net' : BenchForm(of)!Stale(c) => c.arg = BenchForm(of)!Choice(s)
    BY <1>2, <1>3 DEF BenchBadge
  <2>1. PICK o : o = BenchForm(of)!Choice(v)
    OBVIOUS
  <2>2. BenchForm(of)!Choice(s) = o
    BY <1>2, <2>1 DEF BenchSettled
  <2>3. \A c \in net' : BenchForm(of)!Stale(c) => c \in net /\ BenchForm(of)!Choice(ui) = o
    BY <2>1 DEF BenchForm!React, BenchForm!Kept, BenchForm!Stale, BenchForm!Call
  <2>4. CASE BenchForm(of)!Choice(ui) = o
    <3>1. ui.mode = "form" /\ ui.route = "newbench"
      BY <2>1, <2>4 DEF BenchForm!Choice, BenchUi
    <3>2. s.stock = ui.stock
      BY <1>2, <2>1, <2>4 DEF BenchSettled
    <3> QED BY <2>2, <2>3, <2>4, <3>1, <3>2 DEF BenchFormInv, BenchBadge, BenchForm!Known
  <2>5. CASE BenchForm(of)!Choice(ui) # o
    <3>1. s.stock = [status |-> "loading", of |-> o]
      BY <1>2, <2>1, <2>5 DEF BenchSettled
    <3> QED BY <2>3, <2>5, <3>1 DEF BenchForm!Known
  <2> QED BY <2>4, <2>5
<1> QED BY <1>3, <1>4, <1>5 DEF BenchFormInv, BenchForm!React

LEMMA BenchFormEdits ==
  ASSUME NEW of, BenchForm(of)!ConstantsOK, BenchFormInv(of), BenchUi(of, ui), NEW u, BenchUi(of, u), u.stock = ui.stock,
         u.edits = ui.edits, BenchForm(of)!Edit(u)
  PROVE  BenchFormInv(of)' /\ ui'.mode = u.mode
<1>1. PICK v : v = [u EXCEPT !.edits = @ + 1]
  OBVIOUS
<1>2. u.edits + 1 \in 0 .. of.edits
  BY DEF BenchForm!Edit, BenchForm!ConstantsOK, BenchUi
<1>3. BenchUi(of, v) /\ v.mode = u.mode /\ v.stock = ui.stock
  BY <1>1, <1>2 DEF BenchUi
<1>4. BenchForm(of)!React(v)
  BY <1>1 DEF BenchForm!Edit
<1> QED BY <1>3, <1>4, BenchFormReacts
LEMMA BenchFormFills ==
  ASSUME NEW of, BenchForm(of)!ConstantsOK, BenchFormInv(of), BenchUi(of, ui), NEW f, BenchFormOK(of, f), BenchForm(of)!Fill(f)
  PROVE  BenchFormInv(of)' /\ ModeStays
<1>1. PICK u : u = [ui EXCEPT !.form = f]
  OBVIOUS
<1>2. BenchUi(of, u) /\ u.mode = ui.mode /\ u.stock = ui.stock /\ u.edits = ui.edits
  BY <1>1 DEF BenchUi
<1> QED BY <1>1, <1>2, BenchFormEdits DEF BenchForm!Fill, ModeStays

\* What the user fills in is what the form offers.
LEMMA BenchFormFields ==
  ASSUME NEW of, BenchForm(of)!ConstantsOK, BenchFormInv(of), BenchUi(of, ui)
  PROVE  /\ \A g \in of.gpus : BenchForm(of)!Rent(g) => BenchFormInv(of)' /\ ModeStays
         /\ \A i \in of.images \cup {None} : BenchForm(of)!PickImage(i) => BenchFormInv(of)' /\ ModeStays
         /\ \A p \in of.plains : BenchForm(of)!Retype(p) => BenchFormInv(of)' /\ ModeStays
         /\ \A k \in of.keys, n \in of.nums \cup {None} : BenchForm(of)!SetArg(k, n) => BenchFormInv(of)' /\ ModeStays
         /\ \A d \in of.dtypes : BenchForm(of)!SetDtype(d) => BenchFormInv(of)' /\ ModeStays
         /\ \A x : BenchForm(of)!SetExtras(x) => BenchFormInv(of)' /\ ModeStays
         /\ \A b : BenchForm(of)!Sweep(b) => BenchFormInv(of)' /\ ModeStays
         /\ \A ls \in SUBSET of.lens, cs \in SUBSET of.concs : BenchForm(of)!SweepOver(ls, cs) => BenchFormInv(of)' /\ ModeStays
         /\ \A l \in of.lens, n \in of.concs : BenchForm(of)!RunOnce(l, n) => BenchFormInv(of)' /\ ModeStays
<1>1. BenchFormOK(of, ui.form)
  BY DEF BenchUi
<1>2. ASSUME NEW f, BenchFormOK(of, f), BenchForm(of)!Fill(f) PROVE BenchFormInv(of)' /\ ModeStays
  BY <1>2, BenchFormFills
<1>3. ASSUME NEW g \in of.gpus, BenchForm(of)!Rent(g) PROVE BenchFormInv(of)' /\ ModeStays
  <2>1. BenchFormOK(of, [ui.form EXCEPT !.gpu = g])
    BY <1>1 DEF BenchFormOK
  <2> QED BY <1>2, <1>3, <2>1 DEF BenchForm!Rent
<1>4. ASSUME NEW i \in of.images \cup {None}, BenchForm(of)!PickImage(i) PROVE BenchFormInv(of)' /\ ModeStays
  <2>1. BenchFormOK(of, [ui.form EXCEPT !.image = i])
    BY <1>1 DEF BenchFormOK
  <2> QED BY <1>2, <1>4, <2>1 DEF BenchForm!PickImage
<1>5. ASSUME NEW p \in of.plains, BenchForm(of)!Retype(p) PROVE BenchFormInv(of)' /\ ModeStays
  <2>1. BenchFormOK(of, [ui.form EXCEPT !.plain = p])
    BY <1>1 DEF BenchFormOK
  <2> QED BY <1>2, <1>5, <2>1 DEF BenchForm!Retype
<1>6. ASSUME NEW k \in of.keys, NEW n \in of.nums \cup {None}, BenchForm(of)!SetArg(k, n) PROVE BenchFormInv(of)' /\ ModeStays
  <2>1. BenchFormOK(of, [ui.form EXCEPT !.args[k] = n])
    BY <1>1 DEF BenchFormOK
  <2> QED BY <1>2, <1>6, <2>1 DEF BenchForm!SetArg
<1>7. ASSUME NEW d \in of.dtypes, BenchForm(of)!SetDtype(d) PROVE BenchFormInv(of)' /\ ModeStays
  <2>1. BenchFormOK(of, [ui.form EXCEPT !.dtype = d])
    BY <1>1 DEF BenchFormOK
  <2> QED BY <1>2, <1>7, <2>1 DEF BenchForm!SetDtype
<1>8. ASSUME NEW x, BenchForm(of)!SetExtras(x) PROVE BenchFormInv(of)' /\ ModeStays
  <2>1. BenchFormOK(of, [ui.form EXCEPT !.extra = x])
    BY <1>1 DEF BenchFormOK
  <2> QED BY <1>2, <1>8, <2>1 DEF BenchForm!SetExtras
<1>9. ASSUME NEW b, BenchForm(of)!Sweep(b) PROVE BenchFormInv(of)' /\ ModeStays
  <2>1. BenchFormOK(of, [ui.form EXCEPT !.sweep = b])
    BY <1>1 DEF BenchFormOK
  <2> QED BY <1>2, <1>9, <2>1 DEF BenchForm!Sweep
<1>10. ASSUME NEW ls \in SUBSET of.lens, NEW cs \in SUBSET of.concs, BenchForm(of)!SweepOver(ls, cs)
       PROVE  BenchFormInv(of)' /\ ModeStays
  <2>1. BenchFormOK(of, [ui.form EXCEPT !.lens = ls, !.concs = cs])
    BY <1>1 DEF BenchFormOK
  <2> QED BY <1>2, <1>10, <2>1 DEF BenchForm!SweepOver
<1>11. ASSUME NEW l \in of.lens, NEW n \in of.concs, BenchForm(of)!RunOnce(l, n) PROVE BenchFormInv(of)' /\ ModeStays
  <2>1. BenchFormOK(of, [ui.form EXCEPT !.len = l, !.conc = n])
    BY <1>1 DEF BenchFormOK
  <2> QED BY <1>2, <1>11, <2>1 DEF BenchForm!RunOnce
<1> QED BY <1>3, <1>4, <1>5, <1>6, <1>7, <1>8, <1>9, <1>10, <1>11

\* What else the user turns, types or picks.
LEMMA BenchFormInputs ==
  ASSUME NEW of, BenchForm(of)!ConstantsOK, BenchFormInv(of), BenchUi(of, ui)
  PROVE  /\ BenchForm(of)!Rename \/ BenchForm(of)!ShowYaml \/ BenchForm(of)!Unselect => BenchFormInv(of)' /\ ModeStays
         /\ \A target \in {"cloud", "vm"} : BenchForm(of)!RunOn(target) => BenchFormInv(of)' /\ ModeStays
         /\ \A m \in of.vms : BenchForm(of)!ChooseVm(m) => BenchFormInv(of)' /\ ModeStays
         /\ \A a \in of.accounts \cup {None} : BenchForm(of)!ChooseAccount(a) => BenchFormInv(of)' /\ ModeStays
         /\ \A x \in of.texts \cup {BenchForm(of)!Broken} : BenchForm(of)!TypeYaml(x) => BenchFormInv(of)' /\ ModeStays
         /\ \A t \in of.templates : BenchForm(of)!loadTemplate(t) => BenchFormInv(of)' /\ ModeStays
<1>1. ASSUME NEW u, BenchUi(of, u), BenchForm(of)!Edit(u), u.mode = ui.mode \/ u.mode = "yaml", u.stock = ui.stock, u.edits = ui.edits
      PROVE  BenchFormInv(of)' /\ ModeStays
  BY <1>1, BenchFormEdits DEF ModeStays
<1>2. CASE BenchForm(of)!Rename
  <2>1. PICK b \in BOOLEAN : BenchForm(of)!Edit([ui EXCEPT !.named = b])
    BY <1>2 DEF BenchForm!Rename
  <2>2. PICK u : u = [ui EXCEPT !.named = b]
    OBVIOUS
  <2>3. BenchUi(of, u) /\ u.mode = ui.mode /\ u.stock = ui.stock /\ u.edits = ui.edits
    BY <2>2 DEF BenchUi
  <2> QED BY <1>1, <2>1, <2>2, <2>3
<1>3. CASE BenchForm(of)!ShowYaml
  <2>1. PICK u : u = [ui EXCEPT !.mode = "yaml"]
    OBVIOUS
  <2>2. BenchUi(of, u) /\ u.mode = "yaml" /\ u.stock = ui.stock /\ BenchForm(of)!React(u)
    BY <1>3, <2>1 DEF BenchUi, BenchForm!ShowYaml
  <2> QED BY <2>2, BenchFormReacts DEF ModeStays
<1>4. CASE BenchForm(of)!Unselect
  <2>1. PICK u : u = [ui EXCEPT !.selected = None]
    OBVIOUS
  <2>2. BenchUi(of, u) /\ u.mode = ui.mode /\ u.stock = ui.stock /\ u.edits = ui.edits
    BY <2>1 DEF BenchUi
  <2> QED BY <1>1, <1>4, <2>1, <2>2 DEF BenchForm!Unselect
<1>5. ASSUME NEW target \in {"cloud", "vm"}, BenchForm(of)!RunOn(target) PROVE BenchFormInv(of)' /\ ModeStays
  <2>1. PICK u : u = [ui EXCEPT !.target = target]
    OBVIOUS
  <2>2. BenchUi(of, u) /\ u.mode = ui.mode /\ u.stock = ui.stock /\ u.edits = ui.edits
    BY <2>1 DEF BenchUi
  <2> QED BY <1>1, <1>5, <2>1, <2>2 DEF BenchForm!RunOn
<1>6. ASSUME NEW m \in of.vms, BenchForm(of)!ChooseVm(m) PROVE BenchFormInv(of)' /\ ModeStays
  <2>1. PICK u : u = [ui EXCEPT !.vm = m]
    OBVIOUS
  <2>2. BenchUi(of, u) /\ u.mode = ui.mode /\ u.stock = ui.stock /\ u.edits = ui.edits
    BY <2>1 DEF BenchUi
  <2> QED BY <1>1, <1>6, <2>1, <2>2 DEF BenchForm!ChooseVm
<1>7. ASSUME NEW a \in of.accounts \cup {None}, BenchForm(of)!ChooseAccount(a) PROVE BenchFormInv(of)' /\ ModeStays
  <2>1. PICK u : u = [ui EXCEPT !.account = a]
    OBVIOUS
  <2>2. BenchUi(of, u) /\ u.mode = ui.mode /\ u.stock = ui.stock /\ u.edits = ui.edits
    BY <2>1 DEF BenchUi
  <2> QED BY <1>1, <1>7, <2>1, <2>2 DEF BenchForm!ChooseAccount
<1>8. ASSUME NEW x \in of.texts \cup {BenchForm(of)!Broken}, BenchForm(of)!TypeYaml(x)
      PROVE  BenchFormInv(of)' /\ ModeStays
  <2>1. BenchForm(of)!TextOK(x)
    BY DEF BenchForm!ConstantsOK, BenchForm!TextOK, BenchForm!Broken
  <2>2. PICK u : u = [ui EXCEPT !.yaml = x]
    OBVIOUS
  <2>3. BenchUi(of, u) /\ u.mode = ui.mode /\ u.stock = ui.stock /\ u.edits = ui.edits
    BY <2>1, <2>2 DEF BenchUi
  <2> QED BY <1>1, <1>8, <2>2, <2>3 DEF BenchForm!TypeYaml
<1>9. ASSUME NEW t \in of.templates, BenchForm(of)!loadTemplate(t) PROVE BenchFormInv(of)' /\ ModeStays
  <2>1. PICK u : u = [ui EXCEPT !.selected = t, !.yaml = ui.templates[t], !.mode = "yaml"]
    OBVIOUS
  <2>2. BenchForm(of)!TextOK(ui.templates[t])
    BY <1>9 DEF BenchForm!loadTemplate, BenchUi
  <2>3. BenchUi(of, u) /\ u.mode = "yaml" /\ u.stock = ui.stock /\ u.edits = ui.edits
    BY <2>1, <2>2 DEF BenchUi
  <2> QED BY <1>1, <1>9, <2>1, <2>3 DEF BenchForm!loadTemplate
<1> QED BY <1>2, <1>3, <1>4, <1>5, <1>6, <1>7, <1>8, <1>9

\* A text that parses fills the form with what the form offers.
LEMMA BenchFormParses ==
  ASSUME NEW of, BenchForm(of)!ConstantsOK, NEW f, BenchFormOK(of, f), NEW c, BenchForm(of)!TextOK(c), c.parses
  PROVE  BenchFormOK(of, BenchForm(of)!parseYamlToForm(c, f))
<1>1. PICK g : g = BenchForm(of)!ParseRent(c, f)
  OBVIOUS
<1>2. BenchFormOK(of, g)
  <2>1. CASE c.rent = None
    BY <1>1, <2>1 DEF BenchForm!ParseRent
  <2>2. CASE c.rent \in [gpu: of.gpus, image: of.images] /\ c.rent # None
    BY <1>1, <2>2 DEF BenchForm!ParseRent, BenchFormOK
  <2> QED BY <2>1, <2>2 DEF BenchForm!TextOK
<1>3. PICK h : h = BenchForm(of)!ParseWorkload(c.runs, g)
  OBVIOUS
<1>4. BenchForm(of)!Firsts(c.runs) \subseteq of.lens /\ BenchForm(of)!Seconds(c.runs) \subseteq of.concs
  BY DEF BenchForm!TextOK, BenchForm!Firsts, BenchForm!Seconds
<1>5. BenchFormOK(of, h)
  <2>1. CASE c.runs = {}
    BY <1>2, <1>3, <2>1 DEF BenchForm!ParseWorkload
  <2>2. CASE c.runs # {}
    <3>1. BenchForm(of)!Firsts(c.runs) # {} /\ BenchForm(of)!Seconds(c.runs) # {}
      BY <2>2 DEF BenchForm!Firsts, BenchForm!Seconds
    <3>2. PICK l, n : /\ l = (CHOOSE x \in BenchForm(of)!Firsts(c.runs) : TRUE)
                     /\ n = (CHOOSE x \in BenchForm(of)!Seconds(c.runs) : TRUE)
      OBVIOUS
    <3>3. l \in of.lens /\ n \in of.concs
      BY <1>4, <3>1, <3>2
    <3>4. h = [g EXCEPT !.sweep = TRUE, !.lens = BenchForm(of)!Firsts(c.runs), !.concs = BenchForm(of)!Seconds(c.runs)]
          \/ h = [g EXCEPT !.sweep = FALSE, !.len = l, !.conc = n]
      BY <1>3, <2>2, <3>2 DEF BenchForm!ParseWorkload
    <3> QED BY <1>2, <1>4, <3>3, <3>4, ZenonT(60) DEF BenchFormOK
  <2> QED BY <2>1, <2>2
<1>6. PICK a, d, x : a = BenchForm(of)!ParseArgs(c.serve, f) /\ d = BenchForm(of)!ParseDtype(c.serve, f)
                     /\ x = BenchForm(of)!ParseExtras(c.serve, f)
  OBVIOUS
<1>7. a \in [of.keys -> of.nums \cup {None}] /\ d \in of.dtypes /\ c.plain \in of.plains
  BY <1>6 DEF BenchForm!ParseArgs, BenchForm!ParseDtype, BenchFormOK, BenchForm!TextOK
<1>8. BenchForm(of)!parseYamlToForm(c, f) = [h EXCEPT !.plain = c.plain, !.args = a, !.dtype = d, !.extra = x]
  BY <1>1, <1>3, <1>6 DEF BenchForm!parseYamlToForm
<1> QED BY <1>5, <1>7, <1>8 DEF BenchFormOK

LEMMA BenchFormShows ==
  ASSUME NEW of, BenchForm(of)!ConstantsOK, BenchFormInv(of), BenchUi(of, ui), BenchForm(of)!ShowForm
  PROVE  BenchFormInv(of)' /\ ui'.form = BenchForm(of)!parseYamlToForm(ui.yaml, ui.form) /\ ui'.target = ui.target
         /\ ui'.mode = "form"
<1>1. PICK f : f = BenchForm(of)!parseYamlToForm(ui.yaml, ui.form)
  OBVIOUS
<1>2. BenchFormOK(of, f)
  BY <1>1, BenchFormParses DEF BenchUi, BenchForm!ShowForm
<1>3. PICK v : v = [ui EXCEPT !.mode = "form", !.form = f, !.named = TRUE]
  OBVIOUS
<1>4. BenchUi(of, v) /\ v.form = f /\ v.target = ui.target /\ v.mode = "form" /\ v.stock = ui.stock
  BY <1>2, <1>3 DEF BenchUi
<1>5. BenchForm(of)!React(v)
  BY <1>1, <1>3 DEF BenchForm!ShowForm
<1> QED BY <1>1, <1>4, <1>5, BenchFormReacts

\* Calls the user makes, and the ends of calls.
LEMMA BenchFormSends ==
  ASSUME NEW of, BenchForm(of)!ConstantsOK, BenchFormInv(of), BenchUi(of, ui), NEW u, BenchUi(of, u), u.mode = ui.mode,
         u.form = ui.form, u.stock = ui.stock, u.edits = ui.edits, NEW c, BenchCall(of, c), c.op # "stock",
         BenchForm(of)!Send(c, u)
  PROVE  BenchFormInv(of)' /\ ModeStays
<1>1. ui.edits < of.edits /\ ui' = [u EXCEPT !.edits = @ + 1] /\ net' = net \cup {c} /\ gw' = gw
  BY DEF BenchForm!Send
<1>2. u.edits + 1 \in 0 .. of.edits
  BY <1>1 DEF BenchForm!ConstantsOK, BenchUi
<1>3. BenchUi(of, ui') /\ ui'.mode = u.mode /\ ui'.form = u.form /\ ui'.stock = u.stock
  BY <1>1, <1>2 DEF BenchUi
<1>4. BenchBadge(of)'
  BY <1>1, <1>3, BenchBadgeStays DEF BenchFormInv, BenchForm!Stale
<1> QED BY <1>1, <1>3, <1>4 DEF BenchFormInv, ModeStays

LEMMA BenchFormUserStep ==
  ASSUME NEW of, BenchForm(of)!ConstantsOK, BenchFormInv(of), BenchForm(of)!UserStep, ~BenchForm(of)!ShowForm
  PROVE  BenchFormInv(of)' /\ ModeStays
<1>1. BenchForm(of)!OnPage => BenchUi(of, ui)
  BY DEF BenchForm!OnPage, BenchFormInv
<1>2. CASE BenchForm(of)!RefreshProbe
  <2>1. /\ ui' = [ui EXCEPT !.probe = [status |-> "loading", of |-> ui.vm]]
        /\ net' = net \cup {BenchForm(of)!Call("probe", ui.vm)} /\ gw' = gw /\ BenchUi(of, ui)
    BY <1>1, <1>2 DEF BenchForm!RefreshProbe
  <2>2. BenchUi(of, ui') /\ ui'.mode = ui.mode /\ ui'.form = ui.form /\ ui'.stock = ui.stock
    BY <2>1 DEF BenchUi
  <2>3. BenchBadge(of)'
    BY <2>1, <2>2, BenchBadgeStays DEF BenchFormInv, BenchForm!Stale, BenchForm!Call
  <2> QED BY <2>1, <2>2, <2>3, BenchFormCalls DEF BenchFormInv, ModeStays
<1>3. CASE BenchForm(of)!deleteTemplate
  <2>1. BenchUi(of, ui) /\ BenchForm(of)!Send(BenchForm(of)!Call("delete", ui.selected), ui)
    BY <1>1, <1>3 DEF BenchForm!deleteTemplate
  <2>2. BenchForm(of)!Call("delete", ui.selected).op # "stock"
    BY DEF BenchForm!Call
  <2> QED BY <2>1, <2>2, BenchFormCalls, BenchFormSends
<1>4. CASE BenchForm(of)!OpenSave \/ BenchForm(of)!CloseSave
  <2>1. PICK b \in BOOLEAN : ui' = [ui EXCEPT !.saving = b] /\ net' = net /\ gw' = gw /\ BenchUi(of, ui)
    BY <1>1, <1>4 DEF BenchForm!OpenSave, BenchForm!CloseSave
  <2>2. BenchUi(of, ui') /\ ui'.mode = ui.mode /\ ui'.form = ui.form /\ ui'.stock = ui.stock
    BY <2>1 DEF BenchUi
  <2>3. BenchBadge(of)'
    BY <2>1, <2>2, BenchBadgeStays DEF BenchFormInv
  <2> QED BY <2>1, <2>2, <2>3 DEF BenchFormInv, ModeStays
<1>5. CASE BenchForm(of)!handleSaveTemplate
  <2>1. BenchUi(of, ui)
    BY <1>1, <1>5 DEF BenchForm!handleSaveTemplate
  <2>2. BenchForm(of)!TextOK(BenchForm(of)!Shown(ui))
    BY <2>1, BenchFormRenders DEF BenchForm!Shown, BenchUi
  <2>3. BenchForm(of)!Call("save", BenchForm(of)!Shown(ui)).op # "stock"
    BY DEF BenchForm!Call
  <2> QED BY <1>5, <2>1, <2>2, <2>3, BenchFormCalls, BenchFormSends DEF BenchForm!handleSaveTemplate
<1>6. CASE BenchForm(of)!Submit
  <2>1. BenchUi(of, ui)
    BY <1>1, <1>6 DEF BenchForm!Submit
  <2>2. PICK u : u = [ui EXCEPT !.submitting = TRUE]
    OBVIOUS
  <2>3. BenchUi(of, u) /\ u.mode = ui.mode /\ u.form = ui.form /\ u.stock = ui.stock /\ u.edits = ui.edits
    BY <2>1, <2>2 DEF BenchUi
  <2>4. PICK r, c : r = BenchForm(of)!Request(ui) /\ c = BenchForm(of)!Call("create", r)
    OBVIOUS
  <2>5. BenchCall(of, c) /\ c.op # "stock"
    <3>1. c.op = "create"
      BY <2>4 DEF BenchForm!Call
    <3> QED BY <2>4, <3>1, BenchFormCalls
  <2> QED BY <1>6, <2>1, <2>2, <2>3, <2>4, <2>5, BenchFormSends DEF BenchForm!Submit
<1>7. CASE BenchForm(of)!Leave
  BY <1>7 DEF BenchForm!Leave, BenchFormInv, BenchBadge, ModeStays
<1>8. CASE BenchForm(of)!Rename \/ BenchForm(of)!ShowYaml \/ BenchForm(of)!Unselect
  <2>1. BenchForm(of)!OnPage
    BY <1>8, ZenonT(60) DEF BenchForm!Rename, BenchForm!ShowYaml, BenchForm!Unselect, BenchForm!Edit
  <2> QED BY <1>1, <1>8, <2>1, BenchFormInputs
<1> QED BY <1>1, <1>2, <1>3, <1>4, <1>5, <1>6, <1>7, <1>8, BenchFormFields, BenchFormInputs DEF BenchForm!UserStep

LEMMA BenchFormPageStep ==
  ASSUME NEW of, BenchFormInv(of), BenchForm(of)!PageStep
  PROVE  BenchFormInv(of)' /\ ModeStays
<1>1. CASE BenchForm(of)!OnPage /\ BenchForm(of)!AskStock(BenchForm(of)!Choice(ui))
  <2>1. BenchUi(of, ui) /\ ui' = [ui EXCEPT !.looking = FALSE] /\ gw' = gw
        /\ net' = net \cup {BenchForm(of)!Call("stock", BenchForm(of)!Choice(ui))}
    BY <1>1 DEF BenchForm!AskStock, BenchFormInv, BenchForm!OnPage
  <2>4. PICK o, d : o = BenchForm(of)!Choice(ui) /\ d = BenchForm(of)!Call("stock", o)
    OBVIOUS
  <2>5. d.arg = o /\ BenchCall(of, d) /\ net' = net \cup {d}
    BY <2>1, <2>4, BenchFormCalls DEF BenchForm!Call
  <2>2. BenchUi(of, ui') /\ ui'.mode = ui.mode /\ ui'.form = ui.form /\ ui'.stock = ui.stock
    BY <2>1 DEF BenchUi
  <2>3. BenchBadge(of)'
    BY <2>1, <2>2, <2>4, <2>5, BenchBadgeStays DEF BenchFormInv
  <2> QED BY <2>1, <2>2, <2>3, <2>5 DEF BenchFormInv, ModeStays
<1>2. ASSUME NEW c \in net, BenchUi(of, ui') /\ ui'.mode = ui.mode, ui'.form = ui.form, net' \subseteq net, gw' = gw,
             ui'.mode = "form" /\ BenchForm(of)!Known(ui') => ui'.stock = ui.stock \/ ui'.stock.of = BenchForm(of)!Choice(ui)
      PROVE  BenchFormInv(of)' /\ ModeStays
  <2>1. BenchUi(of, ui)
    BY DEF BenchFormInv
  <2>2. BenchBadge(of)'
    BY <1>2, <2>1, BenchBadgeStays DEF BenchFormInv
  <2> QED BY <1>2, <2>2 DEF BenchFormInv, ModeStays
<1>3. ASSUME NEW c \in net PROVE BenchUi(of, ui) /\ BenchCall(of, c)
  BY DEF BenchFormInv
<1>4. ASSUME NEW c \in net, BenchForm(of)!Stock(c) \/ BenchForm(of)!StockFails(c) PROVE BenchFormInv(of)' /\ ModeStays
  <2>1. PICK x : /\ ui' = [ui EXCEPT !.stock = x] /\ net' \subseteq net /\ gw' = gw
                 /\ \/ x = [status |-> "error", of |-> None]
                    \/ x = [status |-> c.val, of |-> c.arg] /\ BenchForm(of)!Stale(c)
    BY <1>4 DEF BenchForm!Stock, BenchForm!StockFails, BenchForm!Done, BenchForm!Stale
  <2>2. BenchUi(of, ui') /\ ui'.mode = ui.mode /\ ui'.form = ui.form /\ ui'.stock = x
    BY <1>3, <2>1 DEF BenchUi
  <2>3. ui.mode = "form" /\ x.status \in {"available", "out"} => x.of = BenchForm(of)!Choice(ui)
    BY <1>3, <2>1 DEF BenchFormInv, BenchBadge, BenchUi
  <2> QED BY <1>2, <2>1, <2>2, <2>3 DEF BenchForm!Known
<1>5. ASSUME NEW c \in net, BenchForm(of)!StockRefused(c) PROVE BenchFormInv(of)' /\ ModeStays
  <2>1. PICK d : /\ d = [c EXCEPT !.at = "erring", !.arg = None] /\ c.op = "stock"
                 /\ ui' = ui /\ gw' = gw /\ net' = (net \ {c}) \cup {d}
    BY <1>5 DEF BenchForm!StockRefused, BenchForm!Done
  <2>2. BenchCall(of, d) /\ ~BenchForm(of)!Stale(d)
    BY <1>3, <2>1 DEF BenchCall, Shaped, BenchForm!Stale
  <2>3. BenchBadge(of)'
    BY <1>3, <2>1, <2>2, BenchBadgeStays DEF BenchFormInv
  <2> QED BY <2>1, <2>2, <2>3 DEF BenchFormInv, ModeStays
<1>6. ASSUME NEW c \in net, BenchForm(of)!ProbeReply(c) PROVE BenchFormInv(of)' /\ ModeStays
  <2>1. (\E p : ui' = [ui EXCEPT !.probe = p]) /\ net' \subseteq net /\ gw' = gw
    BY <1>6 DEF BenchForm!ProbeReply
  <2>2. BenchUi(of, ui') /\ ui'.mode = ui.mode /\ ui'.form = ui.form /\ ui'.stock = ui.stock
    BY <1>3, <2>1 DEF BenchUi
  <2> QED BY <1>2, <2>1, <2>2
<1>7. ASSUME NEW c \in net, BenchForm(of)!TemplatesReply(c) PROVE BenchFormInv(of)' /\ ModeStays
  <2>1. ui' = (IF c.at = "ok" THEN [ui EXCEPT !.templates = c.val] ELSE ui) /\ net' \subseteq net /\ gw' = gw
        /\ c.op = "templates"
    BY <1>7 DEF BenchForm!TemplatesReply, BenchForm!Done
  <2>2. BenchUi(of, ui') /\ ui'.mode = ui.mode /\ ui'.form = ui.form /\ ui'.stock = ui.stock
    BY <1>3, <2>1 DEF BenchUi, BenchCall
  <2> QED BY <1>2, <2>1, <2>2
<1>8. ASSUME NEW c \in net, BenchForm(of)!Deleted(c) PROVE BenchFormInv(of)' /\ ModeStays
  <2>1. PICK ts : ts = [t \in DOMAIN ui.templates \ {c.arg} |-> ui.templates[t]]
    OBVIOUS
  <2>2. (ui' = ui \/ ui' = [ui EXCEPT !.selected = None, !.templates = ts]) /\ net' \subseteq net /\ gw' = gw
    BY <1>8, <2>1 DEF BenchForm!Deleted
  <2>3. DOMAIN ts \subseteq of.templates /\ \A t \in DOMAIN ts : BenchForm(of)!TextOK(ts[t])
    BY <1>3, <2>1 DEF BenchUi
  <2>4. BenchUi(of, ui') /\ ui'.mode = ui.mode /\ ui'.form = ui.form /\ ui'.stock = ui.stock
    BY <1>3, <2>2, <2>3, ZenonT(60) DEF BenchUi
  <2> QED BY <1>2, <2>2, <2>4
<1>9. ASSUME NEW c \in net, BenchForm(of)!Saved(c) PROVE BenchFormInv(of)' /\ ModeStays
  <2>1. PICK ts : ts = BenchForm(of)!Put(c.val, c.arg, ui.templates)
    OBVIOUS
  <2>2. (ui' = ui \/ ui' = [ui EXCEPT !.saving = FALSE, !.templates = ts]) /\ net' \subseteq net /\ gw' = gw /\ c.op = "save"
        /\ (c.at = "ok" \/ ui' = ui)
    BY <1>9, <2>1 DEF BenchForm!Saved, BenchForm!Done
  <2>3. c.at = "ok" => DOMAIN ts \subseteq of.templates /\ \A t \in DOMAIN ts : BenchForm(of)!TextOK(ts[t])
    BY <1>3, <2>1, <2>2 DEF BenchUi, BenchCall, BenchForm!Put, BenchForm!Over
  <2>4. BenchUi(of, ui') /\ ui'.mode = ui.mode /\ ui'.form = ui.form /\ ui'.stock = ui.stock
    BY <1>3, <2>2, <2>3 DEF BenchUi
  <2> QED BY <1>2, <2>2, <2>4
<1>10. ASSUME NEW c \in net, BenchForm(of)!Created(c) PROVE BenchFormInv(of)' /\ ModeStays
  <2>1. PICK l \in BOOLEAN : l = (ui.leaving \/ c.at = "ok")
    OBVIOUS
  <2>3. ui' = [ui EXCEPT !.submitting = FALSE, !.leaving = l] /\ net' \subseteq net /\ gw' = gw
    BY <1>10, <2>1 DEF BenchForm!Created
  <2>2. BenchUi(of, ui') /\ ui'.mode = ui.mode /\ ui'.form = ui.form /\ ui'.stock = ui.stock
    BY <1>3, <2>3 DEF BenchUi
  <2> QED BY <1>2, <2>2, <2>3
<1> QED BY <1>1, <1>4, <1>5, <1>6, <1>7, <1>8, <1>9, <1>10 DEF BenchForm!PageStep

LEMMA BenchFormGatewayStep ==
  ASSUME NEW of, BenchForm(of)!ConstantsOK, BenchFormInv(of), BenchForm(of)!GatewayStep
  PROVE  BenchFormInv(of)' /\ ModeStays
<1>1. PICK c \in net : BenchForm(of)!Serve(c) \/ BenchForm(of)!Fail(c)
  BY DEF BenchForm!GatewayStep
<1>2. BenchUi(of, ui) /\ BenchCall(of, c) /\ ui' = ui
  BY <1>1 DEF BenchFormInv, BenchForm!Serve, BenchForm!Fail
<1>3. ASSUME DOMAIN gw' \subseteq of.templates, \A t \in DOMAIN gw' : BenchForm(of)!TextOK(gw'[t]),
             NEW d, BenchCall(of, d), d.op = c.op, d.arg = c.arg, d.at # "erring", c.at = "sent",
             net' = (net \ {c}) \cup {d}
      PROVE  BenchFormInv(of)' /\ ModeStays
  <2>1. BenchForm(of)!Stale(d) = BenchForm(of)!Stale(c)
    BY <1>3 DEF BenchForm!Stale
  <2>2. BenchBadge(of)'
    BY <1>2, <1>3, <2>1, BenchBadgeStays DEF BenchFormInv, BenchBadge, BenchUi
  <2> QED BY <1>2, <1>3, <2>2 DEF BenchFormInv, ModeStays
<1>4. ASSUME NEW v, NEW d, d = [c EXCEPT !.at = "ok", !.val = v],
             c.op = "save" => v \in of.templates,
             c.op = "templates" => DOMAIN v \subseteq of.templates /\ \A t \in DOMAIN v : BenchForm(of)!TextOK(v[t])
      PROVE  BenchCall(of, d) /\ d.op = c.op /\ d.arg = c.arg /\ d.at = "ok"
  <2>1. Shaped(d) /\ d.op = c.op /\ d.arg = c.arg /\ d.at = "ok" /\ d.val = v
    BY <1>2, <1>4 DEF BenchCall, Shaped
  <2> QED BY <1>2, <1>4, <2>1 DEF BenchCall
<1>5. ASSUME NEW v, BenchForm(of)!Serve(c), net' = BenchForm(of)!Answered(c, v),
             c.op = "save" => v \in of.templates,
             c.op = "templates" => DOMAIN v \subseteq of.templates /\ \A t \in DOMAIN v : BenchForm(of)!TextOK(v[t]),
             DOMAIN gw' \subseteq of.templates, \A t \in DOMAIN gw' : BenchForm(of)!TextOK(gw'[t])
      PROVE  BenchFormInv(of)' /\ ModeStays
  <2>1. PICK d : d = [c EXCEPT !.at = "ok", !.val = v]
    OBVIOUS
  <2>2. BenchCall(of, d) /\ d.op = c.op /\ d.arg = c.arg /\ d.at = "ok"
    BY <1>4, <1>5, <2>1, ZenonT(60)
  <2>3. net' = (net \ {c}) \cup {d}
    BY <1>5, <2>1 DEF BenchForm!Answered
  <2>4. c.at = "sent"
    BY <1>5, ZenonT(60) DEF BenchForm!Serve
  <2> QED BY <1>3, <1>5, <2>2, <2>3, <2>4
<1>6. DOMAIN gw \subseteq of.templates /\ \A t \in DOMAIN gw : BenchForm(of)!TextOK(gw[t])
  BY DEF BenchFormInv
<1>7. CASE BenchForm(of)!Fail(c)
  <2>1. PICK d : d = [c EXCEPT !.at = "failed"]
    OBVIOUS
  <2>2. Shaped(d) /\ d.op = c.op /\ d.arg = c.arg /\ d.at = "failed"
    BY <1>2, <2>1 DEF BenchCall, Shaped
  <2>3. BenchCall(of, d)
    BY <1>2, <2>2 DEF BenchCall
  <2>4. c.at = "sent" /\ net' = (net \ {c}) \cup {d} /\ gw' = gw
    BY <1>7, <2>1 DEF BenchForm!Fail, BenchForm!Failed
  <2> QED BY <1>3, <1>6, <2>2, <2>3, <2>4
<1>8. CASE BenchForm(of)!Serve(c) /\ c.op = "templates"
  <2>1. gw' = gw /\ net' = BenchForm(of)!Answered(c, gw)
    BY <1>8 DEF BenchForm!Serve
  <2> QED BY <1>5, <1>6, <1>8, <2>1
<1>9. CASE BenchForm(of)!Serve(c) /\ c.op = "save"
  <2>1. PICK t \in of.templates : gw' = BenchForm(of)!Put(t, c.arg, gw) /\ net' = BenchForm(of)!Answered(c, t)
    BY <1>9 DEF BenchForm!Serve
  <2>2. DOMAIN gw' \subseteq of.templates /\ \A s \in DOMAIN gw' : BenchForm(of)!TextOK(gw'[s])
    BY <1>2, <1>6, <1>9, <2>1 DEF BenchCall, BenchForm!Put, BenchForm!Over
  <2> QED BY <1>5, <1>9, <2>1, <2>2
<1>10. CASE BenchForm(of)!Serve(c) /\ c.op = "delete"
  <2>1. gw' = [t \in DOMAIN gw \ {c.arg} |-> gw[t]] /\ net' = BenchForm(of)!Answered(c, None)
    BY <1>10 DEF BenchForm!Serve
  <2>2. DOMAIN gw' \subseteq of.templates /\ \A s \in DOMAIN gw' : BenchForm(of)!TextOK(gw'[s])
    BY <1>6, <2>1
  <2> QED BY <1>5, <1>10, <2>1, <2>2
<1>11. CASE BenchForm(of)!Serve(c) /\ c.op \notin {"templates", "save", "delete"}
  <2>1. gw' = gw /\ \E v : net' = BenchForm(of)!Answered(c, v)
    BY <1>11 DEF BenchForm!Serve
  <2> QED BY <1>5, <1>6, <1>11, <2>1
<1> QED BY <1>1, <1>7, <1>8, <1>9, <1>10, <1>11

LEMMA BenchFormNext ==
  ASSUME NEW of, BenchForm(of)!ConstantsOK, BenchFormInv(of), BenchForm(of)!Next
  PROVE  BenchFormInv(of)' /\ (ModeStays \/ BenchForm(of)!ShowForm)
<1>1. CASE BenchForm(of)!ShowForm
  <2>1. BenchUi(of, ui)
    BY <1>1 DEF BenchForm!ShowForm, BenchForm!OnPage, BenchFormInv
  <2> QED BY <1>1, <2>1, BenchFormShows
<1>2. CASE ~BenchForm(of)!ShowForm
  BY <1>2, BenchFormUserStep, BenchFormPageStep, BenchFormGatewayStep DEF BenchForm!Next
<1> QED BY <1>1, <1>2

LEMMA BenchFormInit ==
  ASSUME NEW of, BenchForm(of)!ConstantsOK, BenchForm(of)!Init
  PROVE  BenchFormInv(of)
<1>1. BenchFormOK(of, of.defaults)
  BY DEF BenchForm!ConstantsOK, BenchFormOK
<1>2. ASSUME NEW text, text = None \/ BenchForm(of)!TextOK(text), NEW p \in of.vms \cup of.accounts \cup {None}
      PROVE  BenchUi(of, BenchForm(of)!Page(text, p))
  <2>1. PICK y : y = IF text = None THEN BenchForm(of)!renderYaml(of.defaults, "cloud") ELSE text
    OBVIOUS
  <2>2. BenchForm(of)!TextOK(y)
    BY <1>1, <1>2, <2>1, BenchFormRenders
  <2>3. PICK u : u = BenchForm(of)!Page(text, p)
    OBVIOUS
  <2>4. u.form = of.defaults /\ u.yaml = y /\ u.templates = <<>>
    BY <2>1, <2>3 DEF BenchForm!Page
  <2>5. u.edits \in 0 .. of.edits
    BY <2>3 DEF BenchForm!Page, BenchForm!ConstantsOK
  <2>6. u \in [route: {"newbench"}, mode: {"form", "yaml"}, form: {u.form}, named: BOOLEAN, yaml: {u.yaml},
               target: {"cloud", "vm"}, vm: of.vms \cup of.accounts \cup {None}, account: of.accounts \cup {None},
               templates: {u.templates}, selected: of.templates \cup {None}, saving: BOOLEAN, stock: {u.stock}, looking: BOOLEAN,
               probe: {u.probe}, submitting: BOOLEAN, leaving: BOOLEAN, edits: {u.edits}]
    BY <2>3 DEF BenchForm!Page
  <2> QED BY <1>1, <2>2, <2>3, <2>4, <2>5, <2>6 DEF BenchUi
<1>3. DOMAIN gw \subseteq of.templates /\ \A t \in DOMAIN gw : BenchForm(of)!TextOK(gw[t])
  BY DEF BenchForm!Init, BenchForm!ConstantsOK
<1>4. \A c \in net : BenchCall(of, c)
  BY BenchFormCalls DEF BenchForm!Init
<1>5. BenchUi(of, BenchForm(of)!Blank)
  BY <1>2 DEF BenchForm!Blank
<1>6. BenchUi(of, ui)
  <2>1. CASE ui = BenchForm(of)!LookUp(BenchForm(of)!Blank, BenchForm(of)!Choice(BenchForm(of)!Blank))
    BY <1>5, <2>1 DEF BenchUi, BenchForm!LookUp
  <2>2. ASSUME NEW x \in of.texts, NEW p \in of.vms \cup of.accounts \cup {None},
               ui = BenchForm(of)!Probe(BenchForm(of)!Blank, BenchForm(of)!Page(x, p))
        PROVE  BenchUi(of, ui)
    <3>1. BenchUi(of, BenchForm(of)!Page(x, p))
      BY <1>2 DEF BenchForm!ConstantsOK
    <3> QED BY <2>2, <3>1 DEF BenchForm!Probe, BenchUi
  <2> QED BY <2>1, <2>2 DEF BenchForm!Init
<1>7. ~BenchForm(of)!Known(ui)
  <2>1. CASE ui = BenchForm(of)!LookUp(BenchForm(of)!Blank, BenchForm(of)!Choice(BenchForm(of)!Blank))
    <3>1. PICK b, x : b = BenchForm(of)!Blank /\ x = [status |-> "loading", of |-> BenchForm(of)!Choice(b)]
      OBVIOUS
    <3>2. ui = [b EXCEPT !.stock = x, !.looking = TRUE] /\ x.status = "loading"
      BY <2>1, <3>1 DEF BenchForm!LookUp
    <3> QED BY <1>5, <3>1, <3>2 DEF BenchForm!Known, BenchUi
  <2>2. ASSUME NEW x, NEW p, ui = BenchForm(of)!Probe(BenchForm(of)!Blank, BenchForm(of)!Page(x, p))
        PROVE  ~BenchForm(of)!Known(ui)
    <3>1. PICK v : v = BenchForm(of)!Page(x, p)
      OBVIOUS
    <3>2. v.stock = BenchForm(of)!Idle
      BY <3>1 DEF BenchForm!Page
    <3>3. ui.stock = v.stock
      BY <1>6, <2>2, <3>1 DEF BenchForm!Probe, BenchForm!Page
    <3> QED BY <3>2, <3>3 DEF BenchForm!Known, BenchForm!Idle
  <2> QED BY <2>1, <2>2 DEF BenchForm!Init
<1>8. \A c \in net : ~BenchForm(of)!Stale(c)
  BY DEF BenchForm!Init, BenchForm!Call, BenchForm!Stale
<1> QED BY <1>3, <1>4, <1>6, <1>7, <1>8 DEF BenchFormInv, BenchBadge

LEMMA BenchFormFaithful ==
  ASSUME NEW of, BenchForm(of)!ConstantsOK, BenchFormInv(of)
  PROVE  BenchForm(of)!TypeOK /\ BenchForm(of)!StockIsOfTheChoice
<1>1. BenchForm(of)!StockIsOfTheChoice
  BY DEF BenchForm!StockIsOfTheChoice, BenchForm!InForm, BenchForm!OnPage, BenchFormInv, BenchBadge
<1>2. ASSUME BenchUi(of, ui) PROVE BenchForm(of)!TypeOK
  <2>1. BenchForm(of)!FormType(ui.form)
    BY <1>2 DEF BenchForm!FormType, BenchUi, BenchFormOK
  <2>2. \A c \in net : c.op \in {"templates", "stock", "probe", "save", "delete", "create"}
    BY DEF BenchFormInv, BenchCall
  <2>3. DOMAIN ui.templates \cup DOMAIN gw \cup {ui.selected} \subseteq of.templates \cup {None}
    BY <1>2 DEF BenchFormInv, BenchUi
  <2>4. /\ {ui.named, ui.saving, ui.looking, ui.submitting, ui.leaving} \subseteq BOOLEAN
        /\ ui.mode \in {"form", "yaml"} /\ ui.target \in {"cloud", "vm"} /\ ui.edits \in 0 .. of.edits
        /\ ui.vm \in of.vms \cup of.accounts \cup {None} /\ ui.account \in of.accounts \cup {None}
    BY <1>2 DEF BenchUi
  <2> QED BY <2>1, <2>2, <2>3, <2>4 DEF BenchForm!TypeOK
<1> QED BY <1>1, <1>2 DEF BenchFormInv, BenchForm!TypeOK

\* The runs of a text are among those of the form it fills.
LEMMA BenchFormRunsKept ==
  ASSUME NEW of, BenchForm(of)!ConstantsOK, NEW f, BenchFormOK(of, f), NEW runs, runs \subseteq of.lens \X of.concs
  PROVE  runs \subseteq BenchForm(of)!renderBenchEntries(BenchForm(of)!ParseWorkload(runs, f))
<1>1. PICK g : g = BenchForm(of)!ParseWorkload(runs, f)
  OBVIOUS
<1>3. PICK ls, cs : ls = BenchForm(of)!Firsts(runs) /\ cs = BenchForm(of)!Seconds(runs)
  OBVIOUS
<1>4. \A r \in runs : r = <<r[1], r[2]>> /\ r[1] \in ls /\ r[2] \in cs
  BY <1>3 DEF BenchForm!Firsts, BenchForm!Seconds
<1>5. ASSUME NEW r \in runs, runs # {r} PROVE runs \subseteq BenchForm(of)!renderBenchEntries(g)
  <2>1. g = [f EXCEPT !.sweep = TRUE, !.lens = ls, !.concs = cs]
    BY <1>1, <1>3, <1>5 DEF BenchForm!ParseWorkload
  <2>2. g.sweep /\ g.lens = ls /\ g.concs = cs
    BY <2>1 DEF BenchFormOK
  <2>3. ls # {} /\ cs # {}
    BY <1>4, <1>5
  <2>4. BenchForm(of)!renderBenchEntries(g) = ls \X cs
    BY <2>2, <2>3 DEF BenchForm!renderBenchEntries, BenchForm!SafeInputs, BenchForm!SafeConcs
  <2> QED BY <1>4, <2>4
<1>6. ASSUME NEW r \in runs, \A s \in runs : runs = {s} PROVE runs \subseteq BenchForm(of)!renderBenchEntries(g)
  <2>1. runs = {r}
    BY <1>6
  <2>2. ls = {r[1]} /\ cs = {r[2]}
    BY <1>3, <2>1 DEF BenchForm!Firsts, BenchForm!Seconds
  <2>3. (CHOOSE l \in ls : TRUE) = r[1] /\ (CHOOSE n \in cs : TRUE) = r[2]
    BY <2>2
  <2>4. g = [f EXCEPT !.sweep = FALSE, !.len = r[1], !.conc = r[2]]
    BY <1>1, <1>3, <1>6, <2>3 DEF BenchForm!ParseWorkload
  <2>5. ~g.sweep /\ g.len = r[1] /\ g.conc = r[2]
    BY <2>4 DEF BenchFormOK
  <2>6. BenchForm(of)!renderBenchEntries(g) = {r[1]} \X {r[2]}
    BY <2>5 DEF BenchForm!renderBenchEntries, BenchForm!SafeInputs, BenchForm!SafeConcs
  <2> QED BY <1>4, <2>1, <2>6
<1> QED BY <1>1, <1>5, <1>6

\* What a text says and the form has a field for is in the text of the form it fills.
LEMMA BenchFormTextKept ==
  ASSUME NEW of, BenchForm(of)!ConstantsOK, NEW f, BenchFormOK(of, f), NEW c, BenchForm(of)!TextOK(c), c.parses, NEW target
  PROVE  BenchForm(of)!Keeps(BenchForm(of)!renderYaml(BenchForm(of)!parseYamlToForm(c, f), target), c)
<1>1. PICK g, h, p : /\ g = BenchForm(of)!ParseRent(c, f) /\ h = BenchForm(of)!ParseWorkload(c.runs, g)
                     /\ p = BenchForm(of)!parseYamlToForm(c, f)
  OBVIOUS
<1>2. BenchFormOK(of, g) /\ (c.rent # None => g.gpu = c.rent.gpu /\ g.image = c.rent.image)
  <2>1. CASE c.rent = None
    BY <1>1, <2>1 DEF BenchForm!ParseRent
  <2>2. CASE c.rent # None
    BY <1>1, <2>2 DEF BenchForm!ParseRent, BenchForm!TextOK, BenchFormOK
  <2> QED BY <2>1, <2>2
<1>3. /\ h \in [gpu: {g.gpu}, image: {g.image}, plain: {h.plain}, args: {h.args}, dtype: {h.dtype}, extra: {h.extra},
              sweep: {h.sweep}, len: {h.len}, conc: {h.conc}, lens: {h.lens}, concs: {h.concs}]
  BY <1>1, <1>2, ZenonT(60) DEF BenchForm!ParseWorkload, BenchFormOK
<1>4. p = [h EXCEPT !.plain = c.plain, !.args = BenchForm(of)!ParseArgs(c.serve, f), !.dtype = BenchForm(of)!ParseDtype(c.serve, f),
                    !.extra = BenchForm(of)!ParseExtras(c.serve, f)]
  BY <1>1 DEF BenchForm!parseYamlToForm
<1>5. /\ p.gpu = g.gpu /\ p.image = g.image /\ p.plain = c.plain /\ p.sweep = h.sweep
      /\ p.len = h.len /\ p.conc = h.conc /\ p.lens = h.lens /\ p.concs = h.concs
      /\ p.args = BenchForm(of)!ParseArgs(c.serve, f) /\ p.dtype = BenchForm(of)!ParseDtype(c.serve, f)
      /\ p.extra = BenchForm(of)!ParseExtras(c.serve, f)
  BY <1>3, <1>4
<1>6. PICK d : d = BenchForm(of)!renderYaml(p, target)
  OBVIOUS
<1>7. d.plain = c.plain
  BY <1>5, <1>6 DEF BenchForm!renderYaml
<1>8. c.runs \subseteq d.runs
  <2>1. c.runs \subseteq BenchForm(of)!renderBenchEntries(h)
    BY <1>1, <1>2, BenchFormRunsKept DEF BenchForm!TextOK
  <2>2. d.runs = BenchForm(of)!renderBenchEntries(p)
    BY <1>6 DEF BenchForm!renderYaml
  <2> QED BY <1>5, <2>1, <2>2 DEF BenchForm!renderBenchEntries, BenchForm!SafeInputs, BenchForm!SafeConcs
<1>9. c.rent # None /\ d.rent # None => d.rent = c.rent
  BY <1>2, <1>5, <1>6 DEF BenchForm!renderYaml, BenchForm!TextOK, BenchForm!ConstantsOK
<1>10. ASSUME NEW k \in DOMAIN c.serve, BenchForm(of)!Representable(c.serve, k)
       PROVE  k \in DOMAIN d.serve /\ d.serve[k] = c.serve[k]
  <2>1. d.serve = BenchForm(of)!Over(p.extra, BenchForm(of)!Structured(p))
    BY <1>6 DEF BenchForm!renderYaml, BenchForm!renderServeBlock
  <2>2. DOMAIN p.extra = {x \in DOMAIN c.serve \ BenchForm(of)!FormKeys : c.serve[x] # "false"}
    BY <1>5 DEF BenchForm!ParseExtras
  <2>3. CASE k \in of.keys
    <3>1. p.args[k] = c.serve[k] /\ p.args[k] # None /\ k # "dtype" /\ k \notin DOMAIN p.extra
      BY <1>5, <1>10, <2>2, <2>3
         DEF BenchForm!ParseArgs, BenchForm!Representable, BenchForm!ConstantsOK, BenchForm!FormKeys
    <3>2. k \in DOMAIN BenchForm(of)!Structured(p) /\ BenchForm(of)!Structured(p)[k] = c.serve[k]
      BY <2>3, <3>1 DEF BenchForm!Structured
    <3> QED BY <2>1, <3>1, <3>2 DEF BenchForm!Over
  <2>4. CASE k = "dtype"
    <3>1. p.dtype = c.serve[k] /\ p.dtype # "auto" /\ k \notin DOMAIN p.extra /\ k # None
      BY <1>5, <1>10, <2>2, <2>4
         DEF BenchForm!ParseDtype, BenchForm!Representable, BenchForm!ConstantsOK, BenchForm!FormKeys
    <3>2. k \in DOMAIN BenchForm(of)!Structured(p) /\ BenchForm(of)!Structured(p)[k] = c.serve[k]
      BY <2>4, <3>1 DEF BenchForm!Structured
    <3> QED BY <2>1, <3>1, <3>2 DEF BenchForm!Over
  <2>5. CASE k \notin of.keys \cup {"dtype"}
    <3>1. k \in DOMAIN p.extra /\ p.extra[k] = c.serve[k]
      BY <1>5, <1>10, <2>2, <2>5 DEF BenchForm!ParseExtras, BenchForm!Representable, BenchForm!FormKeys
    <3> QED BY <2>1, <3>1 DEF BenchForm!Over
  <2> QED BY <2>3, <2>4, <2>5
<1> QED BY <1>1, <1>6, <1>7, <1>8, <1>9, <1>10 DEF BenchForm!Keeps

LEMMA BenchFormYamlStays ==
  ASSUME NEW of, BenchForm(of)!ConstantsOK, BenchFormInv(of), BenchForm(of)!Next
  PROVE  BenchForm(of)!YamlStays
<1> SUFFICES ASSUME BenchForm(of)!OnPage, ui.mode = "yaml", BenchForm(of)!InForm'
             PROVE  BenchForm(of)!Keeps(BenchForm(of)!Shown(ui'), ui.yaml)
  BY DEF BenchForm!YamlStays
<1>1. BenchUi(of, ui)
  BY DEF BenchForm!OnPage, BenchFormInv
<1>2. BenchForm(of)!ShowForm
  BY BenchFormNext DEF ModeStays, BenchForm!InForm, BenchForm!OnPage
<1>3. ui'.form = BenchForm(of)!parseYamlToForm(ui.yaml, ui.form) /\ ui'.mode = "form"
  BY <1>1, <1>2, BenchFormShows
<1>4. BenchForm(of)!Shown(ui') = BenchForm(of)!renderYaml(BenchForm(of)!parseYamlToForm(ui.yaml, ui.form), ui'.target)
  BY <1>3 DEF BenchForm!Shown
<1> QED BY <1>1, <1>2, <1>4, BenchFormTextKept DEF BenchUi, BenchForm!ShowForm

-----------------------------------------------------------------------------
\* An answer about the stock is on its way only while it is about what is
\* chosen, and the badge shows no other.
NewPodStocks == [status: {"loading", "available", "error"}, of: NewPod!ChoiceType \cup {None}]
NewPodShown(u) ==
  /\ u.size \in NewPodOf.sizes /\ u.loads \subseteq NewPod!Loads /\ u.edits \in 0 .. NewPodOf.edits
  /\ u.filtered \in BOOLEAN /\ u.looking \in BOOLEAN /\ u.submitting \in BOOLEAN /\ u.stock \in NewPodStocks
NewPodBadge(u) == u.stock.status = "available" => u.stock.of = NewPod!Choice(u)
NewPodAsked(c, choice) ==
  /\ c.live /\ c.op \in {"compatible", "stock", "create"}
  /\ c.op = "stock" => (c.at # "erring" => c.arg = choice) /\ (c.at = "ok" => c.val = "available")
NewPodScreen == /\ NewPodInv
                /\ ui.route = "newpod" => NewPodShown(ui) /\ NewPodBadge(ui)
                /\ \A c \in net : NewPodAsked(c, NewPod!Choice(ui))

LEMMA NewPodChosen == ASSUME NEW u, NewPodOK(u), u.size \in NewPodOf.sizes PROVE NewPod!Choice(u) \in NewPod!ChoiceType
<1>1. NewPod!KindOf(u) \in NewPod!Kinds /\ u.provider \in NewPodOf.providers \cup {None}
  BY NewPodKinds DEF NewPodOK, NewPodUi
<1>2. u.catalog[NewPod!KindOf(u)] \in {"builtin", "live"}
  BY <1>1 DEF NewPodOK, NewPodUi
<1>3. u.gpu \in NewPod!GpuIds
  BY <1>1, <1>2 DEF NewPodOK, NewPod!Catalog, NewPod!GpuIds
<1> QED BY <1>1, <1>3 DEF NewPod!Choice, NewPod!ChoiceType

\* The effects leave the badge alone, or ask again for what they leave chosen.
NewPodAskedAgain(u, v, w) ==
  /\ NewPodUi(w) /\ w.size = v.size /\ w.loads = v.loads /\ w.submitting = v.submitting /\ w.edits = v.edits
  /\ w.filtered = v.filtered \/ w.filtered = FALSE
  /\ \/ NewPod!Choice(w) = NewPod!Choice(u) /\ w.stock = v.stock /\ w.looking = v.looking
     \/ /\ NewPod!Choice(w) # NewPod!Choice(u) /\ w.looking = TRUE
        /\ w.stock = [status |-> "loading", of |-> NewPod!Choice(w)]
LEMMA NewPodAsksAgain ==
  ASSUME NEW u, NEW v, NewPodUi(v), NEW w, w = NewPod!Settled(u, v) PROVE NewPodAskedAgain(u, v, w)
<1> DEFINE Same(x, y) == /\ NewPodUi(x) /\ x.size = y.size /\ x.loads = y.loads /\ x.submitting = y.submitting /\ x.edits = y.edits
                         /\ x.filtered = y.filtered /\ x.stock = y.stock /\ x.looking = y.looking
<1>1. PICK a : a = NewPod!SnapGpu(v)
  OBVIOUS
<1>2. Same(a, v)
  BY <1>1 DEF NewPod!SnapGpu, NewPodUi
<1>3. PICK t : t = IF NewPod!Offers(a) = NewPod!Offers(u) THEN a ELSE NewPod!SnapTemplate(a)
  OBVIOUS
<1>4. Same(t, a)
  <2>1. CASE t = a
    BY <1>2, <2>1
  <2>2. CASE t = NewPod!SnapTemplate(a)
    BY <1>2, <2>2 DEF NewPod!SnapTemplate, NewPodUi
  <2> QED BY <1>3, <2>1, <2>2
<1>5. PICK b : b = NewPod!SnapImage(t)
  OBVIOUS
<1>6. Same(b, t)
  BY <1>4, <1>5 DEF NewPod!SnapImage, NewPodUi
<1>7. Same(b, v)
  BY <1>2, <1>4, <1>6
<1>8. w = IF NewPod!Choice(b) = NewPod!Choice(u) THEN b ELSE NewPod!LookUp(NewPod!Narrow(b), NewPod!Choice(b))
  BY <1>1, <1>3, <1>5 DEF NewPod!Settled
<1>9. CASE NewPod!Choice(b) = NewPod!Choice(u)
  BY <1>7, <1>8, <1>9 DEF NewPodAskedAgain
<1>10. CASE NewPod!Choice(b) # NewPod!Choice(u)
  <2>1. PICK n : n = NewPod!Narrow(b)
    OBVIOUS
  <2>2. /\ NewPodUi(n) /\ n.size = b.size /\ n.loads = b.loads /\ n.submitting = b.submitting /\ n.edits = b.edits
        /\ n.filtered = b.filtered \/ n.filtered = FALSE
        /\ n.gpu = b.gpu /\ n.provider = b.provider
    BY <1>7, <2>1 DEF NewPod!Narrow, NewPodUi
  <2>3. w = [n EXCEPT !.stock = [status |-> "loading", of |-> NewPod!Choice(b)], !.looking = TRUE]
    BY <1>8, <1>10, <2>1 DEF NewPod!LookUp
  <2>4. PICK s : s = [status |-> "loading", of |-> NewPod!Choice(b)]
    OBVIOUS
  <2>5. /\ NewPodUi(w) /\ w.size = n.size /\ w.loads = n.loads /\ w.submitting = n.submitting /\ w.edits = n.edits
        /\ w.filtered = n.filtered /\ w.gpu = n.gpu /\ w.provider = n.provider /\ w.stock = s /\ w.looking = TRUE
    BY <2>2, <2>3, <2>4 DEF NewPodUi
  <2>6. NewPod!Choice(w) = NewPod!Choice(b)
    BY <2>2, <2>5 DEF NewPod!Choice, NewPod!KindOf
  <2> QED BY <1>7, <1>10, <2>2, <2>4, <2>5, <2>6 DEF NewPodAskedAgain
<1> QED BY <1>9, <1>10

LEMMA NewPodScreenReacts ==
  ASSUME NewPodScreen, NewPodInv', ui.route = "newpod", NEW v, NewPodUi(v), NewPodShown(v), v.stock = ui.stock,
         ui' = NewPod!Settled(ui, v), net' \subseteq NewPod!Kept(ui, ui')
  PROVE  NewPodScreen'
<1>10. PICK w : w = ui' /\ w = NewPod!Settled(ui, v)
  OBVIOUS
<1>11. NewPodAskedAgain(ui, v, w)
  BY <1>10, NewPodAsksAgain
<1>1. /\ NewPodUi(ui') /\ ui'.size = v.size /\ ui'.loads = v.loads /\ ui'.submitting = v.submitting /\ ui'.edits = v.edits
      /\ ui'.filtered = v.filtered \/ ui'.filtered = FALSE
      /\ \/ NewPod!Choice(ui') = NewPod!Choice(ui) /\ ui'.stock = ui.stock /\ ui'.looking = v.looking
         \/ /\ NewPod!Choice(ui') # NewPod!Choice(ui) /\ ui'.looking = TRUE
            /\ ui'.stock = [status |-> "loading", of |-> NewPod!Choice(ui')]
  BY <1>10, <1>11 DEF NewPodAskedAgain
<1>2. NewPod!Choice(ui') \in NewPod!ChoiceType
  <2>1. NewPodOK(ui')
    BY <1>1 DEF NewPodInv, NewPodUi
  <2> QED BY <1>1, <2>1, NewPodChosen DEF NewPodShown
<1>3. NewPodShown(ui')
  <2>1. CASE ui'.stock = ui.stock /\ ui'.looking = v.looking
    BY <1>1, <2>1 DEF NewPodShown
  <2>2. CASE ui'.looking = TRUE /\ ui'.stock = [status |-> "loading", of |-> NewPod!Choice(ui')]
    <3>1. PICK o : o = NewPod!Choice(ui')
      OBVIOUS
    <3>2. ui'.stock \in NewPodStocks
      BY <1>2, <2>2, <3>1 DEF NewPodStocks
    <3> QED BY <1>1, <2>2, <3>2 DEF NewPodShown
  <2> QED BY <1>1, <2>1, <2>2
<1>4. NewPodBadge(ui')
  BY <1>1 DEF NewPodScreen, NewPodBadge
<1>5. ASSUME NEW c \in net' PROVE NewPodAsked(c, NewPod!Choice(ui'))
  <2>1. NewPodAsked(c, NewPod!Choice(ui)) /\ (NewPod!Choice(ui') = NewPod!Choice(ui) \/ ~NewPod!Stale(c))
    BY DEF NewPod!Kept, NewPodScreen
  <2> QED BY <2>1 DEF NewPodAsked, NewPod!Stale
<1> QED BY <1>3, <1>4, <1>5 DEF NewPodScreen

LEMMA NewPodScreenEdits ==
  ASSUME NewPodScreen, NewPodInv', NEW u, NewPodUi(u), u.size \in NewPodOf.sizes, u.loads = ui.loads, u.submitting = ui.submitting,
         u.edits = ui.edits, u.filtered = ui.filtered, u.looking = ui.looking, u.stock = ui.stock, NewPod!Edit(u)
  PROVE  NewPodScreen'
<1>1. PICK v : v = [u EXCEPT !.edits = @ + 1]
  OBVIOUS
<1>2. ui.route = "newpod" /\ ui.edits < NewPodOf.edits /\ NewPod!React(v) /\ NewPodShown(ui)
  BY <1>1 DEF NewPod!Edit, NewPod!OnForm, NewPodScreen
<1>3. u.edits + 1 \in 0 .. NewPodOf.edits
  BY <1>2, ConsoleAssumption DEF NewPodShown, NewPod!ConstantsOK
<1>4. /\ NewPodUi(v) /\ v.size \in NewPodOf.sizes /\ v.loads = ui.loads /\ v.submitting = ui.submitting
      /\ v.edits \in 0 .. NewPodOf.edits /\ v.filtered = ui.filtered /\ v.looking = ui.looking /\ v.stock = ui.stock
  BY <1>1, <1>3 DEF NewPodUi
<1>5. NewPodShown(v)
  BY <1>2, <1>4 DEF NewPodShown
<1> QED BY <1>2, <1>4, <1>5, NewPodScreenReacts DEF NewPod!React

LEMMA NewPodScreenInit == NewPod!Init => NewPodScreen
<1> SUFFICES ASSUME NewPod!Init PROVE NewPodScreen
  OBVIOUS
<1>1. NewPodInv /\ net = {}
  BY NewPodInit DEF NewPod!Init
<1>2. PICK f : f = NewPod!Form
  OBVIOUS
<1>3. PICK s : s = [status |-> "loading", of |-> NewPod!Choice(f)]
  OBVIOUS
<1>4. ui = [f EXCEPT !.stock = s, !.looking = TRUE]
  BY <1>2, <1>3 DEF NewPod!Init, NewPod!LookUp
<1>5. f.size \in NewPodOf.sizes /\ f.loads = NewPod!Loads /\ f.edits \in 0 .. NewPodOf.edits /\ f.filtered = FALSE /\ f.submitting = FALSE
  BY <1>2, ConsoleAssumption DEF NewPod!Form, NewPod!ConstantsOK
<1>6. /\ ui.route = "newpod" /\ ui.size = f.size /\ ui.loads = f.loads /\ ui.edits = f.edits /\ ui.filtered = f.filtered
      /\ ui.submitting = f.submitting /\ ui.looking = TRUE /\ ui.stock = s /\ NewPod!Choice(ui) = NewPod!Choice(f)
  BY <1>2, <1>4 DEF NewPod!Form, NewPod!Choice, NewPod!KindOf
<1>7. NewPod!Choice(ui) \in NewPod!ChoiceType
  BY <1>1, <1>5, <1>6, NewPodChosen DEF NewPodInv
<1>8. NewPodShown(ui) /\ NewPodBadge(ui)
  <2>1. PICK o : o = NewPod!Choice(f)
    OBVIOUS
  <2>2. s \in NewPodStocks /\ s.status = "loading"
    BY <1>3, <1>6, <1>7, <2>1 DEF NewPodStocks
  <2> QED BY <1>5, <1>6, <2>2 DEF NewPodShown, NewPodBadge
<1> QED BY <1>1, <1>8 DEF NewPodScreen

LEMMA NewPodScreenUserStep == NewPodScreen /\ NewPod!UserStep => NewPodScreen'
<1> SUFFICES ASSUME NewPodScreen, NewPod!UserStep PROVE NewPodScreen'
  OBVIOUS
<1> USE DEF NewPod!OnForm
<1>0. NewPodInv'
  BY NewPodUserStep DEF NewPodScreen
<1>1. ASSUME ui.route = "newpod" PROVE NewPodOK(ui) /\ NewPodUi(ui) /\ NewPodShown(ui) /\ NewPodBadge(ui)
  BY <1>1 DEF NewPodScreen, NewPodInv, NewPodOK
<1>2. CASE NewPod!Submit
  <2>1. /\ ui'.size = ui.size /\ ui'.loads = ui.loads /\ ui'.edits = ui.edits /\ ui'.filtered = ui.filtered /\ ui'.looking = ui.looking
        /\ ui'.submitting = TRUE /\ ui'.stock = ui.stock /\ ui'.gpu = ui.gpu /\ ui'.provider = ui.provider
    BY <1>1, <1>2 DEF NewPod!Submit, NewPodUi
  <2>2. NewPodShown(ui') /\ NewPodBadge(ui') /\ NewPod!Choice(ui') = NewPod!Choice(ui)
    BY <1>1, <1>2, <2>1 DEF NewPod!Submit, NewPodShown, NewPodBadge, NewPod!Choice, NewPod!KindOf
  <2>3. NewPodAsked(NewPod!Call("create", None), NewPod!Choice(ui))
    BY DEF NewPodAsked, NewPod!Call
  <2> QED BY <1>0, <1>2, <2>2, <2>3 DEF NewPodScreen, NewPod!Submit
<1>3. CASE NewPod!Cancel
  BY <1>0, <1>3 DEF NewPod!Cancel, NewPodScreen
<1>4. ASSUME ui.route = "newpod", NEW u, NewPodUi(u), u.size \in NewPodOf.sizes, u.loads = ui.loads, u.submitting = ui.submitting,
             u.edits = ui.edits, u.filtered = ui.filtered, u.looking = ui.looking, u.stock = ui.stock, NewPod!Edit(u)
      PROVE  NewPodScreen'
  BY <1>0, <1>4, NewPodScreenEdits
<1>5. ui.route = "newpod" => ui.size \in NewPodOf.sizes
  BY <1>1 DEF NewPodShown
<1>6. ASSUME ui.route = "newpod", NEW p \in NewPodOf.providers \cup {None}, NewPod!ChooseProvider(p) PROVE NewPodScreen'
  <2>1. PICK u : u = [ui EXCEPT !.provider = p]
    OBVIOUS
  <2>2. /\ NewPodUi(u) /\ u.size = ui.size /\ u.loads = ui.loads /\ u.submitting = ui.submitting
        /\ u.edits = ui.edits /\ u.filtered = ui.filtered /\ u.looking = ui.looking /\ u.stock = ui.stock
    BY <1>1, <1>6, <2>1 DEF NewPodUi
  <2> QED BY <1>4, <1>5, <1>6, <2>1, <2>2 DEF NewPod!ChooseProvider
<1>7. ASSUME ui.route = "newpod", NEW g, NewPod!ChooseGpu(g) PROVE NewPodScreen'
  <2>1. PICK u : u = [ui EXCEPT !.gpu = g]
    OBVIOUS
  <2>2. /\ NewPodUi(u) /\ u.size = ui.size /\ u.loads = ui.loads /\ u.submitting = ui.submitting
        /\ u.edits = ui.edits /\ u.filtered = ui.filtered /\ u.looking = ui.looking /\ u.stock = ui.stock
    BY <1>1, <1>7, <2>1 DEF NewPodUi
  <2> QED BY <1>4, <1>5, <1>7, <2>1, <2>2 DEF NewPod!ChooseGpu
<1>8. ASSUME ui.route = "newpod", NEW z \in NewPodOf.sizes, NewPod!Resize(z) PROVE NewPodScreen'
  <2>1. PICK u : u = [ui EXCEPT !.size = z]
    OBVIOUS
  <2>2. /\ NewPodUi(u) /\ u.size = z /\ u.loads = ui.loads /\ u.submitting = ui.submitting
        /\ u.edits = ui.edits /\ u.filtered = ui.filtered /\ u.looking = ui.looking /\ u.stock = ui.stock
    BY <1>1, <1>8, <2>1 DEF NewPodUi
  <2> QED BY <1>4, <1>5, <1>8, <2>1, <2>2 DEF NewPod!Resize
<1>9. ASSUME ui.route = "newpod", NEW t, NewPod!PickImage(t) \/ NewPod!PickTemplate(t) \/ NewPod!PickFound(t) PROVE NewPodScreen'
  <2>1. PICK u : NewPod!Edit(u) /\ \/ u = [ui EXCEPT !.template = t]
                                   \/ u = [ui EXCEPT !.template = t, !.image = None]
                                   \/ u = [ui EXCEPT !.template = t, !.image = t]
    BY <1>9, ZenonT(60) DEF NewPod!PickImage, NewPod!PickTemplate, NewPod!PickFound
  <2>2. /\ NewPodUi(u) /\ u.size = ui.size /\ u.loads = ui.loads /\ u.submitting = ui.submitting
        /\ u.edits = ui.edits /\ u.filtered = ui.filtered /\ u.looking = ui.looking /\ u.stock = ui.stock
    BY <1>1, <1>9, <2>1 DEF NewPodUi
  <2> QED BY <1>4, <1>5, <1>9, <2>1, <2>2
<1> QED BY <1>2, <1>3, <1>6, <1>7, <1>8, <1>9 DEF NewPod!UserStep

LEMMA NewPodScreenPageStep == NewPodScreen /\ NewPod!PageStep => NewPodScreen'
<1> SUFFICES ASSUME NewPodScreen, NewPod!PageStep PROVE NewPodScreen'
  OBVIOUS
<1> USE DEF NewPod!OnForm
<1>0. NewPodInv'
  BY NewPodPageStep DEF NewPodScreen
<1>1. ASSUME ui.route = "newpod" \/ net # {} PROVE NewPodOK(ui) /\ NewPodUi(ui) /\ NewPodShown(ui) /\ NewPodBadge(ui) /\ ui.route = "newpod"
  BY <1>1 DEF NewPodScreen, NewPodInv, NewPodOK, NewPodUi
<1>2. ASSUME NewPod!AskCompatible \/ (ui.route = "newpod" /\ NewPod!AskStock(NewPod!Choice(ui))) PROVE NewPodScreen'
  <2>1. ui' = [ui EXCEPT !.narrowing = FALSE] \/ ui' = [ui EXCEPT !.looking = FALSE]
    BY <1>2 DEF NewPod!AskCompatible, NewPod!AskStock
  <2>2. /\ ui'.size = ui.size /\ ui'.loads = ui.loads /\ ui'.edits = ui.edits /\ ui'.filtered = ui.filtered
        /\ ui'.looking \in {ui.looking, FALSE} /\ ui'.submitting = ui.submitting /\ ui'.stock = ui.stock /\ ui'.gpu = ui.gpu
        /\ ui'.provider = ui.provider
    BY <1>1, <1>2, <2>1 DEF NewPod!AskCompatible, NewPodUi
  <2>3. NewPodShown(ui') /\ NewPodBadge(ui') /\ NewPod!Choice(ui') = NewPod!Choice(ui)
    BY <1>1, <1>2, <2>2 DEF NewPod!AskCompatible, NewPodShown, NewPodBadge, NewPod!Choice, NewPod!KindOf
  <2>4. \A op \in {"compatible", "stock"} : NewPodAsked(NewPod!Call(op, NewPod!Choice(ui)), NewPod!Choice(ui))
    BY DEF NewPodAsked, NewPod!Call
  <2>5. \A c \in net' : c \in net \/ \E op \in {"compatible", "stock"} : c = NewPod!Call(op, NewPod!Choice(ui))
    BY <1>2 DEF NewPod!AskCompatible, NewPod!Ask, NewPod!AskStock
  <2> QED BY <1>0, <2>3, <2>4, <2>5 DEF NewPodScreen
<1>3. ASSUME NEW l \in NewPod!Loads, NewPod!ListArrives(l) PROVE NewPodScreen'
  <2>1. PICK u \in {NewPod!Loaded(l, ui), NewPod!Unloaded(l, ui)} : NewPod!React([u EXCEPT !.loads = @ \ {l}])
    BY <1>3 DEF NewPod!ListArrives
  <2>2. NewPodOK(ui) /\ NewPodUi(ui) /\ NewPodShown(ui) /\ ui.route = "newpod"
    BY <1>1, <1>3 DEF NewPod!ListArrives
  <2>3. \/ u = ui \/ \E i \in NewPod!ImageLists : u = [ui EXCEPT !.images = i]
        \/ \E k \in NewPod!Kinds : u = [ui EXCEPT !.catalog[k] = "live"]
    BY <1>3, <2>1, ConsoleAssumption DEF NewPod!Loaded, NewPod!Unloaded, NewPod!Loads, NewPod!ConstantsOK
  <2>4. /\ NewPodUi(u) /\ u.size = ui.size /\ u.loads = ui.loads /\ u.submitting = ui.submitting
        /\ u.edits = ui.edits /\ u.filtered = ui.filtered /\ u.looking = ui.looking /\ u.stock = ui.stock
    BY <2>2, <2>3 DEF NewPodUi
  <2>5. PICK v : v = [u EXCEPT !.loads = @ \ {l}]
    OBVIOUS
  <2>6. /\ NewPodUi(v) /\ v.size = ui.size /\ v.loads = ui.loads \ {l} /\ v.submitting = ui.submitting
        /\ v.edits = ui.edits /\ v.filtered = ui.filtered /\ v.looking = ui.looking /\ v.stock = ui.stock
    BY <2>4, <2>5 DEF NewPodUi
  <2>7. NewPodShown(v)
    BY <2>2, <2>6 DEF NewPodShown
  <2> QED BY <1>0, <2>1, <2>2, <2>5, <2>6, <2>7, NewPodScreenReacts DEF NewPod!React
<1>4. ASSUME NEW c \in net, NewPod!Compatible(c) PROVE NewPodScreen'
  <2>1. c.op = "compatible" /\ NewPodCall(c)
    BY <1>4 DEF NewPod!Compatible, NewPod!Done, NewPodInv, NewPodScreen
  <2>2. NewPodOK(ui) /\ NewPodUi(ui) /\ NewPodShown(ui) /\ ui.route = "newpod"
    BY <1>1
  <2>3. PICK v : /\ v = IF c.at = "ok" /\ c.val.ids # {} THEN [ui EXCEPT !.images = c.val, !.filtered = TRUE]
                                                     ELSE [ui EXCEPT !.filtered = FALSE]
                 /\ ui' = NewPod!Settled(ui, v) /\ net' = NewPod!Kept(ui, NewPod!Settled(ui, v)) \ {c}
    BY <1>4 DEF NewPod!Compatible
  <2>4. /\ NewPodUi(v) /\ v.size = ui.size /\ v.loads = ui.loads /\ v.submitting = ui.submitting
        /\ v.edits = ui.edits /\ v.filtered \in BOOLEAN /\ v.looking = ui.looking /\ v.stock = ui.stock
    BY <2>1, <2>2, <2>3 DEF NewPodUi, NewPodCall
  <2>5. NewPodShown(v)
    BY <2>2, <2>4 DEF NewPodShown
  <2> QED BY <1>0, <2>2, <2>3, <2>4, <2>5, NewPodScreenReacts
<1>5. ASSUME NEW s, s \in NewPodStocks, s.status = "available" => s.of = NewPod!Choice(ui), net # {}, ui' = [ui EXCEPT !.stock = s]
      PROVE  NewPodShown(ui') /\ NewPodBadge(ui') /\ NewPod!Choice(ui') = NewPod!Choice(ui)
  <2>1. /\ ui'.size = ui.size /\ ui'.loads = ui.loads /\ ui'.edits = ui.edits /\ ui'.filtered = ui.filtered /\ ui'.looking = ui.looking
        /\ ui'.submitting = ui.submitting /\ ui'.stock = s /\ ui'.gpu = ui.gpu /\ ui'.provider = ui.provider
    BY <1>1, <1>5 DEF NewPodUi
  <2> QED BY <1>1, <1>5, <2>1 DEF NewPodShown, NewPodBadge, NewPod!Choice, NewPod!KindOf
<1>6. ASSUME NEW c \in net, NewPod!Stock(c) PROVE NewPodScreen'
  <2>1. NewPodAsked(c, NewPod!Choice(ui)) /\ c.op = "stock" /\ c.at = "ok"
    BY <1>6 DEF NewPod!Stock, NewPod!Done, NewPodScreen
  <2>2. PICK s : s = [status |-> c.val, of |-> c.arg]
    OBVIOUS
  <2>3. s \in NewPodStocks /\ s.of = NewPod!Choice(ui)
    BY <1>1, <2>1, <2>2, NewPodChosen DEF NewPodAsked, NewPodStocks, NewPodShown
  <2>4. ui' = [ui EXCEPT !.stock = s] /\ net' \subseteq net
    BY <1>6, <2>2 DEF NewPod!Stock
  <2> QED BY <1>0, <1>5, <2>3, <2>4 DEF NewPodScreen
<1>7. ASSUME NEW c \in net, NewPod!StockFails(c) PROVE NewPodScreen'
  <2>1. PICK s : s = [status |-> "error", of |-> None]
    OBVIOUS
  <2>2. s \in NewPodStocks /\ s.status = "error"
    BY <2>1 DEF NewPodStocks
  <2>3. ui' = [ui EXCEPT !.stock = s] /\ net' \subseteq net
    BY <1>7, <2>1 DEF NewPod!StockFails
  <2> QED BY <1>0, <1>5, <2>2, <2>3 DEF NewPodScreen
<1>8. ASSUME NEW c \in net, NewPod!StockRefused(c) PROVE NewPodScreen'
  <2>1. NewPodAsked(c, NewPod!Choice(ui)) /\ NewPodCall(c) /\ c.op = "stock"
    BY <1>8 DEF NewPod!StockRefused, NewPod!Done, NewPodScreen, NewPodInv
  <2>2. PICK d : d = [c EXCEPT !.at = "erring", !.arg = None]
    OBVIOUS
  <2>3. d.op = "stock" /\ d.at = "erring" /\ d.live = c.live
    BY <2>1, <2>2 DEF NewPodCall, Shaped
  <2>4. NewPodAsked(d, NewPod!Choice(ui))
    BY <2>1, <2>3 DEF NewPodAsked
  <2>5. ui' = ui /\ \A e \in net' : e \in net \/ e = d
    BY <1>8, <2>2 DEF NewPod!StockRefused
  <2> QED BY <1>0, <1>1, <2>4, <2>5 DEF NewPodScreen
<1>9. ASSUME NEW c \in net, NewPod!Created(c) PROVE NewPodScreen'
  <2>1. CASE ui' = [route |-> "gone"] /\ net' = {}
    BY <1>0, <2>1 DEF NewPodScreen
  <2>2. CASE ui' = [ui EXCEPT !.submitting = FALSE] /\ net' = net \ {c}
    <3>1. /\ ui'.size = ui.size /\ ui'.loads = ui.loads /\ ui'.edits = ui.edits /\ ui'.filtered = ui.filtered /\ ui'.looking = ui.looking
          /\ ui'.submitting = FALSE /\ ui'.stock = ui.stock /\ ui'.gpu = ui.gpu /\ ui'.provider = ui.provider
      BY <1>1, <2>2 DEF NewPodUi
    <3>2. NewPodShown(ui') /\ NewPodBadge(ui') /\ NewPod!Choice(ui') = NewPod!Choice(ui)
      BY <1>1, <3>1 DEF NewPodShown, NewPodBadge, NewPod!Choice, NewPod!KindOf
    <3> QED BY <1>0, <2>2, <3>2 DEF NewPodScreen
  <2> QED BY <1>9, <2>1, <2>2 DEF NewPod!Created
<1> QED BY <1>2, <1>3, <1>4, <1>6, <1>7, <1>8, <1>9 DEF NewPod!PageStep

LEMMA NewPodScreenGatewayStep == NewPodScreen /\ NewPod!GatewayStep => NewPodScreen'
<1> SUFFICES ASSUME NewPodScreen, NEW c \in net, NewPod!Serve(c) \/ NewPod!Fail(c) PROVE NewPodScreen'
  BY DEF NewPod!GatewayStep
<1>1. NewPodInv' /\ ui' = ui /\ c.at = "sent"
  BY NewPodGatewayStep DEF NewPodScreen, NewPod!GatewayStep, NewPod!Serve, NewPod!Fail
<1>2. NewPodCall(c) /\ NewPodAsked(c, NewPod!Choice(ui))
  BY DEF NewPodScreen, NewPodInv
<1>3. ASSUME NEW d, d = [c EXCEPT !.at = "ok", !.val = NewPod!Answer(c)] PROVE NewPodAsked(d, NewPod!Choice(ui))
  <2>1. d.op = c.op /\ d.arg = c.arg /\ d.val = NewPod!Answer(c) /\ d.live = c.live
    BY <1>2, <1>3 DEF NewPodCall, Shaped
  <2> QED BY <1>1, <1>2, <2>1 DEF NewPodAsked, NewPod!Answer
<1>4. ASSUME NEW d, d = [c EXCEPT !.at = "failed"] PROVE NewPodAsked(d, NewPod!Choice(ui))
  <2>1. d.op = c.op /\ d.arg = c.arg /\ d.at = "failed" /\ d.live = c.live
    BY <1>2, <1>4 DEF NewPodCall, Shaped
  <2> QED BY <1>1, <1>2, <2>1 DEF NewPodAsked
<1>5. \A d \in net' : d \in net \/ d = [c EXCEPT !.at = "ok", !.val = NewPod!Answer(c)] \/ d = [c EXCEPT !.at = "failed"]
  BY DEF NewPod!Serve, NewPod!Fail, NewPod!Answered, NewPod!Failed
<1>6. \A d \in net' : NewPodAsked(d, NewPod!Choice(ui))
  BY <1>3, <1>4, <1>5 DEF NewPodScreen
<1> QED BY <1>1, <1>6 DEF NewPodScreen

LEMMA NewPodScreenNext == NewPodScreen /\ NewPod!Next => NewPodScreen'
BY NewPodScreenUserStep, NewPodScreenPageStep, NewPodScreenGatewayStep DEF NewPod!Next

LEMMA NewPodFaithful == NewPodScreen => NewPod!TypeOK /\ NewPod!StockIsOfTheChoice
<1> SUFFICES ASSUME NewPodScreen, ui.route # "gone" PROVE NewPod!TypeOK /\ NewPod!StockIsOfTheChoice
  BY DEF NewPod!TypeOK, NewPod!StockIsOfTheChoice, NewPod!OnForm
<1>1. NewPodOK(ui) /\ NewPodUi(ui) /\ ui.route = "newpod" /\ NewPodShown(ui) /\ NewPodBadge(ui)
  BY DEF NewPodScreen, NewPodInv, NewPodOK, NewPodUi
<1>2. NewPod!Choice(ui) \in NewPod!ChoiceType
  BY <1>1, NewPodChosen DEF NewPodShown
<1>3. ui.template \in NewPod!Templates /\ ui.image \in NewPodOf.found \cup {None} /\ ui.images.ids \subseteq NewPod!Templates
  BY <1>1 DEF NewPodOK, NewPodTemplate, NewPodUi, NewPod!ImageIds, NewPod!ImageLists, NewPod!Templates
<1>4. NewPod!TypeOK
  BY <1>1, <1>2, <1>3 DEF NewPod!TypeOK, NewPodShown, NewPodUi, NewPodStocks, NewPodScreen, NewPodAsked
<1>5. NewPod!StockIsOfTheChoice
  BY <1>1 DEF NewPod!StockIsOfTheChoice, NewPod!Known, NewPodShown, NewPodStocks, NewPodBadge
<1> QED BY <1>4, <1>5

-----------------------------------------------------------------------------
(* The form of an endpoint *)

\* An answer on its way is about what is chosen, and so is what the badge shows.
EndpointChoices == [gpu: NewEndpointOf.gpus, count: NewEndpointOf.counts, tier: NewEndpointOf.tiers]
EndpointForm ==
  [route: {"newendpoint"}, gpu: NewEndpointOf.gpus, count: NewEndpointOf.counts, tier: NewEndpointOf.tiers,
   provider: NewEndpointOf.providers \cup {None}, listed: BOOLEAN, bad: SUBSET NewEndpoint!Fields, advanced: BOOLEAN,
   stock: [status: {"loading", "available", "out", "error"}, of: EndpointChoices \cup {None}],
   looking: BOOLEAN, pending: BOOLEAN, modal: EndpointChoices \cup {None}, leaving: BOOLEAN, edits: 0 .. NewEndpointOf.edits]
EndpointStock(u) == u.stock.status \in {"available", "out"} => u.stock.of = NewEndpoint!Choice(u)
EndpointCall(c, choice) ==
  /\ Shaped(c) /\ c.live /\ c.op \in {"stock", "create"}
  /\ c.op = "stock" => (c.at # "erring" => c.arg = choice) /\ (c.at = "ok" => c.val \in {"available", "out"})
  /\ c.op = "create" => c.arg.choice \in EndpointChoices
EndpointInv == \/ ui = [route |-> "gone"] /\ net = {}
               \/ /\ ui \in EndpointForm /\ EndpointStock(ui)
                  /\ \A c \in net : EndpointCall(c, NewEndpoint!Choice(ui))

LEMMA EndpointConstants == NewEndpoint!ConstantsOK
BY ConsoleAssumption

LEMMA EndpointChosen == ASSUME NEW u \in EndpointForm PROVE NewEndpoint!Choice(u) \in EndpointChoices
BY DEF EndpointForm, EndpointChoices, NewEndpoint!Choice

LEMMA EndpointLooksUp ==
  ASSUME NEW v \in EndpointForm, NEW choice \in EndpointChoices, NEW u, u = NewEndpoint!LookUp(v, choice)
  PROVE  u \in EndpointForm /\ EndpointStock(u) /\ NewEndpoint!Choice(u) = NewEndpoint!Choice(v)
<1>1. PICK s : s = [status |-> "loading", of |-> choice]
  OBVIOUS
<1>2. s \in [status: {"loading", "available", "out", "error"}, of: EndpointChoices \cup {None}] /\ s.status = "loading"
  BY <1>1
<1>3. u = [v EXCEPT !.stock = s, !.looking = TRUE]
  BY <1>1 DEF NewEndpoint!LookUp
<1>4. u \in EndpointForm /\ u.stock = s /\ u.gpu = v.gpu /\ u.count = v.count /\ u.tier = v.tier
  BY <1>2, <1>3 DEF EndpointForm
<1> QED BY <1>2, <1>4 DEF EndpointStock, NewEndpoint!Choice

LEMMA EndpointInit == NewEndpoint!Init => EndpointInv
<1> SUFFICES ASSUME NewEndpoint!Init PROVE EndpointInv
  OBVIOUS
<1>1. PICK f : f = NewEndpoint!Form
  OBVIOUS
<1>2. NewEndpoint!Idle \in [status: {"idle"}, of: {None}]
  BY DEF NewEndpoint!Idle
<1>3. PICK s : s = [status |-> "loading", of |-> NewEndpoint!Choice(f)]
  OBVIOUS
<1>4. ui = [f EXCEPT !.stock = s, !.looking = TRUE]
  BY <1>1, <1>3 DEF NewEndpoint!Init, NewEndpoint!LookUp
<1>5. NewEndpoint!Choice(f) \in EndpointChoices /\ 0 \in 0 .. NewEndpointOf.edits /\ {"name or model"} \subseteq NewEndpoint!Fields
  <2>1. f.gpu \in NewEndpointOf.gpus /\ f.count \in NewEndpointOf.counts /\ f.tier \in NewEndpointOf.tiers
    BY <1>1, EndpointConstants DEF NewEndpoint!Form, NewEndpoint!ConstantsOK
  <2>2. NewEndpointOf.edits \in Nat
    BY EndpointConstants DEF NewEndpoint!ConstantsOK
  <2> QED BY <2>1, <2>2 DEF NewEndpoint!Choice, EndpointChoices, NewEndpoint!Fields
<1>6. s \in [status: {"loading", "available", "out", "error"}, of: EndpointChoices \cup {None}] /\ s.status = "loading"
  BY <1>3, <1>5
<1>7. ui \in EndpointForm /\ ui.stock = s
  BY <1>1, <1>4, <1>5, <1>6, EndpointConstants DEF EndpointForm, NewEndpoint!Form, NewEndpoint!ConstantsOK
<1> QED BY <1>6, <1>7 DEF EndpointInv, EndpointStock, NewEndpoint!Init

\* Whatever a change makes of the form, answers about an earlier choice are given up.
LEMMA EndpointReacts ==
  ASSUME EndpointInv, ui.route = "newendpoint", NEW v \in EndpointForm, v.stock = ui.stock, NewEndpoint!React(v)
  PROVE  EndpointInv'
<1>1. ui \in EndpointForm /\ EndpointStock(ui) /\ \A c \in net : EndpointCall(c, NewEndpoint!Choice(ui))
  BY DEF EndpointInv
<1>2. CASE NewEndpoint!Choice(ui) = NewEndpoint!Choice(v)
  <2>1. ui' = v /\ net' \subseteq net
    BY <1>2 DEF NewEndpoint!React, NewEndpoint!Settled, NewEndpoint!Kept
  <2>2. EndpointStock(ui') /\ NewEndpoint!Choice(ui') = NewEndpoint!Choice(ui)
    BY <1>1, <1>2, <2>1 DEF EndpointStock
  <2> QED BY <1>1, <2>1, <2>2 DEF EndpointInv
<1>3. CASE NewEndpoint!Choice(ui) # NewEndpoint!Choice(v)
  <2>1. ui' = NewEndpoint!LookUp(v, NewEndpoint!Choice(v)) /\ \A c \in net' : c \in net /\ (c.op = "stock" => c.at = "erring")
    BY <1>3 DEF NewEndpoint!React, NewEndpoint!Settled, NewEndpoint!Kept, NewEndpoint!Stale
  <2>2. ui' \in EndpointForm /\ EndpointStock(ui')
    BY <2>1, EndpointLooksUp, EndpointChosen
  <2>3. ASSUME NEW c \in net' PROVE EndpointCall(c, NewEndpoint!Choice(ui'))
    BY <1>1, <2>1 DEF EndpointCall
  <2> QED BY <2>2, <2>3 DEF EndpointInv
<1> QED BY <1>2, <1>3

LEMMA EndpointEdits ==
  ASSUME EndpointInv, NEW u \in EndpointForm, u.stock = ui.stock, u.edits = ui.edits, NewEndpoint!Edit(u)
  PROVE  EndpointInv'
<1>1. PICK v : v = [u EXCEPT !.edits = @ + 1]
  OBVIOUS
<1>2. ui.edits < NewEndpointOf.edits /\ u.edits \in Nat /\ u.edits + 1 \in 0 .. NewEndpointOf.edits
  BY EndpointConstants DEF NewEndpoint!Edit, EndpointForm, NewEndpoint!ConstantsOK
<1>3. v \in EndpointForm /\ v.stock = ui.stock
  BY <1>1, <1>2 DEF EndpointForm
<1>4. NewEndpoint!React(v) /\ ui.route = "newendpoint"
  BY <1>1 DEF NewEndpoint!Edit, NewEndpoint!OnForm
<1> QED BY <1>3, <1>4, EndpointReacts

LEMMA EndpointUserStep == EndpointInv /\ NewEndpoint!UserStep => EndpointInv'
<1> SUFFICES ASSUME EndpointInv, NewEndpoint!UserStep PROVE EndpointInv'
  OBVIOUS
<1> USE DEF NewEndpoint!OnForm
<1>1. ui.route = "newendpoint" => ui \in EndpointForm /\ EndpointStock(ui)
                                  /\ \A c \in net : EndpointCall(c, NewEndpoint!Choice(ui))
  BY DEF EndpointInv
<1>2. CASE NewEndpoint!Submit
  <2>1. ui \in EndpointForm /\ ui' \in EndpointForm /\ ui'.stock = ui.stock /\ NewEndpoint!Choice(ui') = NewEndpoint!Choice(ui)
    BY <1>1, <1>2 DEF NewEndpoint!Submit, EndpointForm, NewEndpoint!Choice
  <2>2. EndpointCall(NewEndpoint!Call("create", NewEndpoint!Request), NewEndpoint!Choice(ui))
    BY <2>1, EndpointChosen DEF EndpointCall, NewEndpoint!Call, Shaped, NewEndpoint!Request
  <2> QED BY <1>1, <1>2, <2>1, <2>2 DEF EndpointInv, NewEndpoint!Submit, EndpointStock
<1>3. CASE NewEndpoint!CloseModal
  <2>1. ui' \in EndpointForm /\ ui'.stock = ui.stock /\ NewEndpoint!Choice(ui') = NewEndpoint!Choice(ui)
    BY <1>1, <1>3 DEF NewEndpoint!CloseModal, EndpointForm, NewEndpoint!Choice
  <2> QED BY <1>1, <1>3, <2>1 DEF EndpointInv, NewEndpoint!CloseModal, EndpointStock
<1>4. CASE NewEndpoint!Leave
  BY <1>4 DEF NewEndpoint!Leave, NewEndpoint!Gone, EndpointInv
<1>5. ASSUME ui.route = "newendpoint", NEW u, u \in EndpointForm, u.stock = ui.stock, u.edits = ui.edits, NewEndpoint!Edit(u)
      PROVE  EndpointInv'
  BY <1>5, EndpointEdits
<1>6. ASSUME ui.route = "newendpoint", NEW f \in NewEndpoint!Fields, NewEndpoint!Retype(f) PROVE EndpointInv'
  <2>1. PICK u : u = [ui EXCEPT !.bad = (@ \cup {f}) \ (@ \cap {f})]
    OBVIOUS
  <2>2. u \in EndpointForm /\ u.stock = ui.stock /\ u.edits = ui.edits
    BY <1>1, <1>6, <2>1 DEF EndpointForm
  <2> QED BY <1>5, <1>6, <2>1, <2>2 DEF NewEndpoint!Retype
<1>7. {"name or model", "idle"} \subseteq NewEndpoint!Fields
  BY DEF NewEndpoint!Fields
<1>8. CASE ui.route = "newendpoint" /\ NewEndpoint!ToggleAdvanced
  <2>1. PICK u : u = [ui EXCEPT !.advanced = ~@]
    OBVIOUS
  <2>2. u \in EndpointForm /\ u.stock = ui.stock /\ u.edits = ui.edits
    BY <1>1, <1>8, <2>1 DEF EndpointForm
  <2> QED BY <1>5, <1>8, <2>1, <2>2 DEF NewEndpoint!ToggleAdvanced
<1>9. ASSUME ui.route = "newendpoint", NEW g \in NewEndpointOf.gpus, NewEndpoint!ChooseGpu(g) PROVE EndpointInv'
  <2>1. PICK u : u = [ui EXCEPT !.gpu = g]
    OBVIOUS
  <2>2. u \in EndpointForm /\ u.stock = ui.stock /\ u.edits = ui.edits
    BY <1>1, <1>9, <2>1 DEF EndpointForm
  <2> QED BY <1>5, <1>9, <2>1, <2>2 DEF NewEndpoint!ChooseGpu
<1>10. ASSUME ui.route = "newendpoint", NEW n \in NewEndpointOf.counts, NewEndpoint!ChooseCount(n) PROVE EndpointInv'
  <2>1. PICK u : u = [ui EXCEPT !.count = n]
    OBVIOUS
  <2>2. u \in EndpointForm /\ u.stock = ui.stock /\ u.edits = ui.edits
    BY <1>1, <1>10, <2>1 DEF EndpointForm
  <2> QED BY <1>5, <1>10, <2>1, <2>2 DEF NewEndpoint!ChooseCount
<1>11. ASSUME ui.route = "newendpoint", NEW t \in NewEndpointOf.tiers, NewEndpoint!ChooseTier(t) PROVE EndpointInv'
  <2>1. PICK u : u = [ui EXCEPT !.tier = t]
    OBVIOUS
  <2>2. u \in EndpointForm /\ u.stock = ui.stock /\ u.edits = ui.edits
    BY <1>1, <1>11, <2>1 DEF EndpointForm
  <2> QED BY <1>5, <1>11, <2>1, <2>2 DEF NewEndpoint!ChooseTier
<1>12. ASSUME ui.route = "newendpoint", NEW p \in NewEndpointOf.providers \cup {None}, NewEndpoint!ChooseProvider(p)
       PROVE  EndpointInv'
  <2>1. PICK u : u = [ui EXCEPT !.provider = p]
    OBVIOUS
  <2>2. u \in EndpointForm /\ u.stock = ui.stock /\ u.edits = ui.edits
    BY <1>1, <1>12, <2>1 DEF EndpointForm
  <2> QED BY <1>5, <1>12, <2>1, <2>2 DEF NewEndpoint!ChooseProvider
<1> QED BY <1>2, <1>3, <1>4, <1>6, <1>7, <1>8, <1>9, <1>10, <1>11, <1>12
        DEF NewEndpoint!UserStep, NewEndpoint!RetypeNames, NewEndpoint!RetypeIdle, NewEndpoint!RetypeDisks,
            NewEndpoint!RetypeAdvanced

LEMMA EndpointPageStep == EndpointInv /\ NewEndpoint!PageStep => EndpointInv'
<1> SUFFICES ASSUME EndpointInv, NewEndpoint!PageStep PROVE EndpointInv'
  OBVIOUS
<1> USE DEF NewEndpoint!OnForm
<1>0. net # {} \/ ui.route = "newendpoint" => ui \in EndpointForm /\ EndpointStock(ui)
                                  /\ \A c \in net : EndpointCall(c, NewEndpoint!Choice(ui))
  BY DEF EndpointInv
<1>1. CASE NewEndpoint!ProvidersArrive
  <2>1. PICK u : u = [ui EXCEPT !.listed = TRUE]
    OBVIOUS
  <2>2. u \in EndpointForm /\ u.stock = ui.stock
    BY <1>0, <1>1, <2>1 DEF EndpointForm, NewEndpoint!ProvidersArrive
  <2> QED BY <1>1, <2>1, <2>2, EndpointReacts DEF NewEndpoint!ProvidersArrive
<1>2. CASE ui.route = "newendpoint" /\ NewEndpoint!AskStock(NewEndpoint!Choice(ui))
  <2>1. ui' \in EndpointForm /\ ui'.stock = ui.stock /\ NewEndpoint!Choice(ui') = NewEndpoint!Choice(ui)
    BY <1>0, <1>2 DEF NewEndpoint!AskStock, EndpointForm, NewEndpoint!Choice
  <2>2. EndpointCall(NewEndpoint!Call("stock", NewEndpoint!Choice(ui)), NewEndpoint!Choice(ui))
    BY DEF EndpointCall, NewEndpoint!Call, Shaped
  <2> QED BY <1>0, <1>2, <2>1, <2>2 DEF EndpointInv, NewEndpoint!AskStock, EndpointStock
<1>3. ASSUME NEW c \in net, NewEndpoint!Stock(c) PROVE EndpointInv'
  <2>1. EndpointCall(c, NewEndpoint!Choice(ui)) /\ c.op = "stock" /\ c.at = "ok"
    BY <1>0, <1>3 DEF NewEndpoint!Stock, NewEndpoint!Done
  <2>2. PICK s : s = [status |-> c.val, of |-> c.arg]
    OBVIOUS
  <2>3. s \in [status: {"loading", "available", "out", "error"}, of: EndpointChoices \cup {None}] /\ s.of = NewEndpoint!Choice(ui)
    BY <1>0, <2>1, <2>2, EndpointChosen DEF EndpointCall
  <2>4. ui' \in EndpointForm /\ ui'.stock = s /\ NewEndpoint!Choice(ui') = NewEndpoint!Choice(ui)
    BY <1>0, <1>3, <2>2, <2>3 DEF NewEndpoint!Stock, EndpointForm, NewEndpoint!Choice
  <2> QED BY <1>0, <1>3, <2>3, <2>4 DEF EndpointInv, NewEndpoint!Stock, EndpointStock
<1>4. ASSUME NEW c \in net, NewEndpoint!StockRefused(c) PROVE EndpointInv'
  <2>1. EndpointCall(c, NewEndpoint!Choice(ui)) /\ c.op = "stock"
    BY <1>0, <1>4 DEF NewEndpoint!StockRefused, NewEndpoint!Done
  <2>2. PICK d : d = [c EXCEPT !.at = "erring", !.arg = None]
    OBVIOUS
  <2>3. EndpointCall(d, NewEndpoint!Choice(ui))
    BY <2>1, <2>2 DEF EndpointCall, Shaped
  <2> QED BY <1>0, <1>4, <2>2, <2>3 DEF EndpointInv, NewEndpoint!StockRefused
<1>5. ASSUME NEW c \in net, NewEndpoint!StockFails(c) PROVE EndpointInv'
  <2>1. PICK s : s = [status |-> "error", of |-> None]
    OBVIOUS
  <2>2. s \in [status: {"loading", "available", "out", "error"}, of: EndpointChoices \cup {None}] /\ s.status = "error"
    BY <2>1
  <2>3. ui' \in EndpointForm /\ ui'.stock = s /\ NewEndpoint!Choice(ui') = NewEndpoint!Choice(ui)
    BY <1>0, <1>5, <2>1, <2>2 DEF NewEndpoint!StockFails, EndpointForm, NewEndpoint!Choice
  <2> QED BY <1>0, <1>5, <2>2, <2>3 DEF EndpointInv, NewEndpoint!StockFails, EndpointStock
<1>6. ASSUME NEW c \in net, NewEndpoint!Deployed(c) PROVE EndpointInv'
  <2>1. EndpointCall(c, NewEndpoint!Choice(ui)) /\ c.op = "create"
    BY <1>0, <1>6 DEF NewEndpoint!Deployed, NewEndpoint!Done
  <2> DEFINE Same == ui' \in EndpointForm /\ ui'.stock = ui.stock /\ NewEndpoint!Choice(ui') = NewEndpoint!Choice(ui)
  <2>2. Same
    <3>1. ASSUME NEW busy \in BOOLEAN, ui' = [ui EXCEPT !.pending = busy, !.leaving = TRUE] PROVE Same
      BY <1>0, <3>1 DEF EndpointForm, NewEndpoint!Choice
    <3>2. ASSUME ui' = [ui EXCEPT !.pending = FALSE, !.modal = c.arg.choice] PROVE Same
      BY <1>0, <2>1, <3>2 DEF EndpointForm, NewEndpoint!Choice, EndpointCall
    <3>3. ASSUME ui' = [ui EXCEPT !.pending = FALSE] PROVE Same
      BY <1>0, <3>3 DEF EndpointForm, NewEndpoint!Choice
    <3>4. \/ \E busy \in BOOLEAN : ui' = [ui EXCEPT !.pending = busy, !.leaving = TRUE]
          \/ ui' = [ui EXCEPT !.pending = FALSE, !.modal = c.arg.choice]
          \/ ui' = [ui EXCEPT !.pending = FALSE]
      BY <1>6, ZenonT(30) DEF NewEndpoint!Deployed
    <3> QED BY <3>1, <3>2, <3>3, <3>4
  <2> QED BY <1>0, <1>6, <2>2 DEF EndpointInv, NewEndpoint!Deployed, EndpointStock
<1> QED BY <1>1, <1>2, <1>3, <1>4, <1>5, <1>6 DEF NewEndpoint!PageStep

LEMMA EndpointGatewayStep == EndpointInv /\ NewEndpoint!GatewayStep => EndpointInv'
<1> SUFFICES ASSUME EndpointInv, NEW c \in net, NewEndpoint!Serve(c) \/ NewEndpoint!Fail(c) PROVE EndpointInv'
  BY DEF NewEndpoint!GatewayStep
<1>1. ui \in EndpointForm /\ EndpointStock(ui) /\ \A d \in net : EndpointCall(d, NewEndpoint!Choice(ui))
  BY DEF EndpointInv
<1>2. ASSUME c.at = "sent", NEW v \in NewEndpoint!Answers(c), NEW d, d = [c EXCEPT !.at = "ok", !.val = v]
      PROVE  EndpointCall(d, NewEndpoint!Choice(ui))
  <2>1. Shaped(d) /\ d.op = c.op /\ d.arg = c.arg /\ d.at = "ok" /\ d.val = v /\ d.live = c.live
    BY <1>1, <1>2 DEF EndpointCall, Shaped
  <2>2. v \in {"available", "out"} \/ c.op = "create"
    BY <1>2 DEF NewEndpoint!Answers
  <2> QED BY <1>1, <1>2, <2>1, <2>2 DEF EndpointCall
<1>3. ASSUME NEW d, d = [c EXCEPT !.at = "failed"], c.at = "sent" PROVE EndpointCall(d, NewEndpoint!Choice(ui))
  <2>1. Shaped(d) /\ d.op = c.op /\ d.arg = c.arg /\ d.at = "failed" /\ d.val = c.val /\ d.live = c.live
    BY <1>1, <1>3, ShapedFailure DEF EndpointCall
  <2> QED BY <1>1, <1>3, <2>1 DEF EndpointCall
<1>4. ASSUME c.at = "sent", NEW d \in net' PROVE EndpointCall(d, NewEndpoint!Choice(ui))
  BY <1>1, <1>2, <1>3, <1>4 DEF NewEndpoint!Serve, NewEndpoint!Fail, NewEndpoint!Answered, NewEndpoint!Failed
<1> QED BY <1>1, <1>4 DEF EndpointInv, NewEndpoint!Serve, NewEndpoint!Fail

LEMMA EndpointNext == EndpointInv /\ NewEndpoint!Next => EndpointInv'
BY EndpointUserStep, EndpointPageStep, EndpointGatewayStep DEF NewEndpoint!Next

LEMMA EndpointFaithful == EndpointInv => NewEndpoint!TypeOK /\ NewEndpoint!StockIsOfTheChoice
BY DEF EndpointInv, EndpointForm, EndpointChoices, EndpointStock, EndpointCall, NewEndpoint!TypeOK, NewEndpoint!UiType,
       NewEndpoint!StockIsOfTheChoice, NewEndpoint!OnForm, NewEndpoint!Known

-----------------------------------------------------------------------------
(* The providers' pages: what is said of an account holds for good *)

AccountsRow == [kind: ProvidersOf.kinds, key: ProvidersOf.keys, checked: BOOLEAN]
AccountsGw(g) ==
  /\ g \in [rows: [ProvidersOf.ids -> AccountsRow \cup {None}], used: SUBSET ProvidersOf.ids,
            opens: SUBSET (ProvidersOf.kinds \X ProvidersOf.keys), revoked: {g.revoked}, admin: BOOLEAN, events: {g.events}]
  /\ \A id \in ProvidersOf.ids : g.rows[id] # None => /\ id \in g.used
                                                      /\ g.rows[id].checked => <<g.rows[id].kind, g.rows[id].key>> \in g.opens
                                                      /\ g.rows[id].kind # "vm" => g.rows[id].checked
\* An id is used once: what has been found of it stays true.
AccountsOk(g, id) == id \in g.used /\ (g.rows[id] # None => g.rows[id].checked)
AccountsItems(g, u) ==
  /\ \A p \in u.items : /\ p.id \in g.used
                        /\ g.rows[p.id] # None => g.rows[p.id].kind = p.kind
                        /\ p.kind # "vm" => p.checked
                        /\ \A q \in u.items : q.id = p.id => q = p
  /\ \A id \in ProvidersOf.ids : u.result[id] = "ok" => AccountsOk(g, id)
AccountsForm ==
  [route: {"new"}, kind: ProvidersOf.kinds, name: BOOLEAN, host: ProvidersOf.hosts \cup {None},
   secret: ProvidersOf.keys \cup {None}, apiKey: ProvidersOf.keys \cup {None}, test: {"idle", "running", "ok", "fail"},
   submitting: BOOLEAN]
AccountsList ==
  [route: {"providers"}, items: SUBSET Providers!Items, target: ProvidersOf.ids \cup {None}, deleting: BOOLEAN,
   testing: ProvidersOf.ids \cup {None}, result: [ProvidersOf.ids -> {"none", "ok", "fail"}]]
AccountsUi(g, u) == u \in {Providers!Elsewhere} \cup AccountsForm \/ (u \in AccountsList /\ AccountsItems(g, u))
\* What stands there untested next to a test that went well is about to go.
AccountsFresh(u, n) ==
  u.route = "providers" => \A p \in u.items : u.result[p.id] = "ok" => p.checked \/ \E c \in n : c.op = "refresh" /\ c.live
AccountsArg == [kind: ProvidersOf.kinds, host: ProvidersOf.hosts \cup {None}, key: ProvidersOf.keys \cup {None}]
AccountsCall(g, r, c) ==
  /\ c \in [op: {"create", "try", "file", "test", "delete", "refresh"}, arg: {c.arg}, at: {"sent", "ok", "failed"},
            val: {c.val}, live: BOOLEAN]
  /\ c.op \in {"create", "try"} => c.arg \in AccountsArg /\ (c.live => r = "new")
  /\ c.op = "file" => c.arg \in ProvidersOf.keys /\ r = "new"
  /\ c.op = "test" => /\ c.arg \in [id: ProvidersOf.ids, kind: ProvidersOf.kinds] /\ (c.live => r = "providers")
                      /\ c.at = "ok" /\ c.val => AccountsOk(g, c.arg.id)
  /\ c.op = "delete" => c.arg \in [id: ProvidersOf.ids] /\ (c.live => r = "providers")
  /\ c.op = "refresh" => r = "providers"
AccountsInv == /\ AccountsGw(gw) /\ AccountsUi(gw, ui) /\ AccountsFresh(ui, net)
               /\ \A c \in net : AccountsCall(gw, ui.route, c)

LEMMA AccountsRoutes ==
  ASSUME NEW g, NEW u, AccountsUi(g, u)
  PROVE  /\ u.route = "new" => u \in AccountsForm
         /\ u.route = "providers" => u \in AccountsList /\ AccountsItems(g, u)
BY DEF AccountsUi, AccountsForm, AccountsList, Providers!Elsewhere

LEMMA AccountsTyped == AccountsInv => Providers!TypeOK /\ Providers!ResultsAreKept /\ Providers!TestedAccountsOpen
<1> SUFFICES ASSUME AccountsInv PROVE Providers!TypeOK /\ Providers!ResultsAreKept /\ Providers!TestedAccountsOpen
  OBVIOUS
<1>1. AccountsGw(gw) /\ AccountsUi(gw, ui) /\ AccountsFresh(ui, net)
  BY DEF AccountsInv
<1>2. Providers!TypeOK
  BY <1>1 DEF AccountsGw, AccountsRow, AccountsUi, AccountsForm, AccountsList, Providers!TypeOK
<1>3. Providers!TestedAccountsOpen
  BY <1>1 DEF AccountsGw, Providers!TestedAccountsOpen, Providers!Stored
<1>4. Providers!ResultsAreKept
  <2> SUFFICES ASSUME ui.route = "providers", NEW p \in ui.items, ui.result[p.id] = "ok"
               PROVE  (p.id \in Providers!Stored => gw.rows[p.id].checked) /\ (p.checked \/ Providers!Waiting("refresh"))
    BY DEF Providers!ResultsAreKept, Providers!OnList
  <2>1. ui \in AccountsList /\ AccountsItems(gw, ui)
    BY <1>1, AccountsRoutes
  <2>2. p.id \in ProvidersOf.ids
    BY <2>1 DEF AccountsList, Providers!Items
  <2>3. AccountsOk(gw, p.id)
    BY <2>1, <2>2 DEF AccountsItems
  <2>4. p.checked \/ \E c \in net : c.op = "refresh" /\ c.live
    BY <1>1 DEF AccountsFresh
  <2> QED BY <2>3, <2>4 DEF AccountsOk, Providers!Stored, Providers!Waiting, Providers!CallsOf
<1> QED BY <1>2, <1>3, <1>4

LEMMA AccountsInit == Providers!Init => AccountsInv
<1> SUFFICES ASSUME Providers!Init PROVE AccountsInv
  OBVIOUS
<1>1. ui = Providers!Elsewhere /\ net = {} /\ ui.route = "elsewhere"
  BY DEF Providers!Init, Providers!Elsewhere
<1>2. AccountsGw(gw)
  BY DEF Providers!Init, AccountsGw
<1> QED BY <1>1, <1>2 DEF AccountsInv, AccountsUi, AccountsFresh

-----------------------------------------------------------------------------
\* A page that is opened shows what there is; the calls of the one that is
\* left are nobody's.
LEMMA AccountsRowed ==
  ASSUME AccountsGw(gw), NEW items \in Providers!Lists
  PROVE  /\ items \in SUBSET Providers!Items
         /\ \A p \in items : /\ p.id \in ProvidersOf.ids /\ gw.rows[p.id] # None
                             /\ p.kind = gw.rows[p.id].kind /\ p.checked = gw.rows[p.id].checked
                             /\ \A q \in items : q.id = p.id => q = p
<1>1. ASSUME NEW id \in Providers!Stored, NEW p, p = Providers!Row(id)
      PROVE  /\ p \in Providers!Items /\ p.id = id /\ id \in ProvidersOf.ids /\ gw.rows[id] # None
             /\ p.kind = gw.rows[id].kind /\ p.checked = gw.rows[id].checked
  <2>1. id \in ProvidersOf.ids /\ gw.rows[id] # None
    BY DEF Providers!Stored
  <2>2. gw.rows[id] \in AccountsRow
    BY <2>1 DEF AccountsGw
  <2>3. p = [id |-> id, kind |-> gw.rows[id].kind, checked |-> gw.rows[id].checked]
    BY <1>1 DEF Providers!Row
  <2> QED BY <2>1, <2>2, <2>3 DEF AccountsRow, Providers!Items
<1>2. CASE items = {}
  BY <1>2
<1>3. CASE items = {Providers!Row(id) : id \in Providers!Stored}
  <2>1. \A p \in items : \E id \in Providers!Stored : p = Providers!Row(id)
    BY <1>3
  <2> QED BY <1>1, <2>1
<1> QED BY <1>2, <1>3 DEF Providers!Lists

LEMMA AccountsListing ==
  ASSUME AccountsGw(gw), NEW items \in Providers!Lists
  PROVE  AccountsUi(gw, Providers!Listing(items)) /\ \A n : AccountsFresh(Providers!Listing(items), n)
<1>1. PICK r : r = [id \in ProvidersOf.ids |-> "none"]
  OBVIOUS
<1>2. PICK u : u = Providers!Listing(items)
  OBVIOUS
<1>3. u = [route |-> "providers", items |-> items, target |-> None, deleting |-> FALSE, testing |-> None, result |-> r]
  BY <1>1, <1>2 DEF Providers!Listing
<1>4. /\ items \in SUBSET Providers!Items
      /\ \A p \in items : /\ p.id \in ProvidersOf.ids /\ gw.rows[p.id] # None
                          /\ p.kind = gw.rows[p.id].kind /\ p.checked = gw.rows[p.id].checked
                          /\ \A q \in items : q.id = p.id => q = p
  BY AccountsRowed
<1>5. r \in [ProvidersOf.ids -> {"none", "ok", "fail"}] /\ \A id \in ProvidersOf.ids : r[id] = "none"
  BY <1>1
<1>6. u \in AccountsList
  BY <1>3, <1>4, <1>5 DEF AccountsList
<1>7. u.items = items /\ u.result = r
  BY <1>3
<1>8. AccountsItems(gw, u)
  BY <1>4, <1>5, <1>7 DEF AccountsItems, AccountsGw
<1>9. \A n : AccountsFresh(u, n)
  BY <1>4, <1>5, <1>7 DEF AccountsFresh
<1> QED BY <1>2, <1>6, <1>8, <1>9 DEF AccountsUi

LEMMA AccountsShown ==
  ASSUME AccountsInv, gw' = gw, net' \subseteq Providers!Left,
         \/ ui' = Providers!Elsewhere \/ ui' = Providers!Blank \/ \E items \in Providers!Lists : ui' = Providers!Listing(items)
  PROVE  AccountsInv'
<1>1. AccountsGw(gw)
  BY DEF AccountsInv
<1>2. AccountsUi(gw, ui') /\ AccountsFresh(ui', net')
  <2>1. CASE ui' = Providers!Elsewhere
    BY <2>1 DEF AccountsUi, AccountsFresh, Providers!Elsewhere
  <2>2. CASE ui' = Providers!Blank
    <3>1. ui' \in AccountsForm
      BY <2>2, ConsoleAssumption DEF Providers!Blank, AccountsForm, Providers!ConstantsOK
    <3>2. ui'.route = "new"
      BY <2>2 DEF Providers!Blank
    <3> QED BY <3>1, <3>2 DEF AccountsUi, AccountsFresh
  <2>3. CASE \E items \in Providers!Lists : ui' = Providers!Listing(items)
    BY <1>1, <2>3, AccountsListing
  <2> QED BY <2>1, <2>2, <2>3
<1>3. ASSUME NEW c \in net' PROVE AccountsCall(gw, ui'.route, c)
  <2>1. PICK d \in net : c = [d EXCEPT !.live = FALSE] /\ c.op \notin {"refresh", "file"}
    BY DEF Providers!Left, Providers!Orphans
  <2>2. AccountsCall(gw, ui.route, d)
    BY DEF AccountsInv
  <2> QED BY <2>1, <2>2 DEF AccountsCall
<1> QED BY <1>1, <1>2, <1>3 DEF AccountsInv

-----------------------------------------------------------------------------
\* Accounts come under ids of their own, and what is found of one stays true.
AccountsMove(g, k) ==
  /\ AccountsGw(k) /\ g.used \subseteq k.used
  /\ \A id \in g.used : k.rows[id] # None => /\ g.rows[id] # None /\ k.rows[id].kind = g.rows[id].kind
                                             /\ g.rows[id].checked => k.rows[id].checked

LEMMA AccountsMoved ==
  ASSUME NEW g, NEW k, NEW u, AccountsGw(g), AccountsMove(g, k), AccountsUi(g, u)
  PROVE  /\ AccountsUi(k, u) /\ \A id : AccountsOk(g, id) => AccountsOk(k, id)
         /\ \A r, c : AccountsCall(g, r, c) => AccountsCall(k, r, c)
<1>1. \A id : AccountsOk(g, id) => AccountsOk(k, id)
  BY DEF AccountsOk, AccountsMove
<1>2. AccountsItems(g, u) => AccountsItems(k, u)
  BY <1>1 DEF AccountsItems, AccountsMove
<1>3. AccountsUi(k, u)
  BY <1>2 DEF AccountsUi
<1>4. \A r, c : AccountsCall(g, r, c) => AccountsCall(k, r, c)
  BY <1>1 DEF AccountsCall
<1> QED BY <1>1, <1>3, <1>4

LEMMA AccountsStays == ASSUME NEW g, NEW k, AccountsGw(g), AccountsGw(k), k.rows = g.rows, k.used = g.used PROVE AccountsMove(g, k)
BY DEF AccountsMove

LEMMA AccountsStores ==
  ASSUME AccountsGw(gw), NEW id \in ProvidersOf.ids, NEW a, a.kind \in ProvidersOf.kinds, a.key \in ProvidersOf.keys,
         Providers!Creates(a, id), NEW k, NEW e, k = [Providers!Stores(gw, a, id) EXCEPT !.events = e]
  PROVE  AccountsMove(gw, k)
<1>1. PICK b \in BOOLEAN : b = (a.kind # "vm")
  OBVIOUS
<1>2. PICK r : r = [kind |-> a.kind, key |-> a.key, checked |-> b]
  OBVIOUS
<1>3. r \in AccountsRow /\ r.kind = a.kind /\ r.key = a.key /\ r.checked = b
  BY <1>2 DEF AccountsRow
<1>4. PICK s, n : s = [gw.rows EXCEPT ![id] = r] /\ n = gw.used \cup {id}
  OBVIOUS
<1>5. k = [gw EXCEPT !.rows = s, !.used = n, !.events = e]
  BY <1>1, <1>2, <1>4 DEF Providers!Stores, AccountsGw
<1>6. k = [rows |-> s, used |-> n, opens |-> gw.opens, revoked |-> gw.revoked, admin |-> gw.admin, events |-> e]
  BY <1>5 DEF AccountsGw
<1>7. /\ s \in [ProvidersOf.ids -> AccountsRow \cup {None}] /\ s[id] = r
      /\ \A i \in ProvidersOf.ids \ {id} : s[i] = gw.rows[i]
  BY <1>3, <1>4 DEF AccountsGw
<1>8. /\ k.rows = s /\ k.used = n /\ k.opens = gw.opens /\ k.revoked = gw.revoked
      /\ k \in [rows: [ProvidersOf.ids -> AccountsRow \cup {None}], used: SUBSET ProvidersOf.ids,
                opens: SUBSET (ProvidersOf.kinds \X ProvidersOf.keys), revoked: {k.revoked}, admin: BOOLEAN, events: {k.events}]
  <2>1. k.rows = s /\ k.used = n /\ k.opens = gw.opens /\ k.revoked = gw.revoked /\ k.admin = gw.admin /\ k.events = e
    BY <1>6
  <2>2. n \in SUBSET ProvidersOf.ids /\ gw.opens \in SUBSET (ProvidersOf.kinds \X ProvidersOf.keys) /\ gw.admin \in BOOLEAN
    BY <1>4 DEF AccountsGw
  <2> QED BY <1>6, <1>7, <2>1, <2>2
<1>9. id \notin gw.used /\ (a.kind # "vm" => <<a.kind, a.key>> \in gw.opens)
  BY DEF Providers!Creates, Providers!Opens
<1>10. AccountsGw(k)
  <2> SUFFICES ASSUME NEW i \in ProvidersOf.ids, k.rows[i] # None
               PROVE  /\ i \in k.used /\ (k.rows[i].checked => <<k.rows[i].kind, k.rows[i].key>> \in k.opens)
                      /\ (k.rows[i].kind # "vm" => k.rows[i].checked)
    BY <1>8 DEF AccountsGw
  <2>1. CASE i = id
    BY <1>1, <1>3, <1>4, <1>7, <1>8, <1>9, <2>1
  <2>2. CASE i # id
    BY <1>4, <1>7, <1>8, <2>2 DEF AccountsGw
  <2> QED BY <2>1, <2>2
<1>11. \A i \in gw.used : k.rows[i] = gw.rows[i]
  BY <1>7, <1>8, <1>9 DEF AccountsGw
<1> QED BY <1>4, <1>8, <1>10, <1>11 DEF AccountsMove

LEMMA AccountsDrop ==
  ASSUME AccountsGw(gw), NEW id \in ProvidersOf.ids, NEW k, NEW e, k = [gw EXCEPT !.rows[id] = None, !.events = e]
  PROVE  AccountsMove(gw, k)
<1>1. PICK s : s = [gw.rows EXCEPT ![id] = None]
  OBVIOUS
<1>2. k = [gw EXCEPT !.rows = s, !.events = e]
  BY <1>1
<1>3. /\ s \in [ProvidersOf.ids -> AccountsRow \cup {None}] /\ s[id] = None
      /\ \A i \in ProvidersOf.ids \ {id} : s[i] = gw.rows[i]
  BY <1>1 DEF AccountsGw
<1>4. /\ k.rows = s /\ k.used = gw.used /\ k.opens = gw.opens /\ k.revoked = gw.revoked
      /\ k \in [rows: [ProvidersOf.ids -> AccountsRow \cup {None}], used: SUBSET ProvidersOf.ids,
                opens: SUBSET (ProvidersOf.kinds \X ProvidersOf.keys), revoked: {k.revoked}, admin: BOOLEAN, events: {k.events}]
  BY <1>2, <1>3 DEF AccountsGw
<1>5. \A i \in ProvidersOf.ids : s[i] # None => s[i] = gw.rows[i]
  BY <1>3
<1>6. AccountsGw(k)
  BY <1>4, <1>5 DEF AccountsGw
<1> QED BY <1>4, <1>5, <1>6 DEF AccountsMove, AccountsGw

LEMMA AccountsFinds ==
  ASSUME AccountsGw(gw), NEW id \in Providers!Stored, NEW ok \in Providers!Finds(gw.rows[id].kind, gw.rows[id].key),
         NEW k, k = Providers!Keeps(id, ok)
  PROVE  AccountsMove(gw, k) /\ (ok => AccountsOk(k, id))
<1>1. id \in ProvidersOf.ids /\ gw.rows[id] # None /\ gw.rows[id] \in AccountsRow
  BY DEF Providers!Stored, AccountsGw
<1>2. PICK o \in BOOLEAN : o = (<<gw.rows[id].kind, gw.rows[id].key>> \in gw.opens \ gw.revoked)
  <2>1. PICK p, s : p = <<gw.rows[id].kind, gw.rows[id].key>> /\ s = gw.opens \ gw.revoked
    OBVIOUS
  <2>2. \E o \in BOOLEAN : o = (p \in s)
    <3>1. CASE p \in s
      <4>1. TRUE = (p \in s)
        BY <3>1
      <4> QED BY <4>1
    <3>2. CASE p \notin s
      <4>1. FALSE = (p \in s)
        BY <3>2
      <4> QED BY <4>1
    <3> QED BY <3>1, <3>2
  <2> QED BY <2>1, <2>2
<1>3. o => <<gw.rows[id].kind, gw.rows[id].key>> \in gw.opens
  BY <1>2
<1>4. ok \in BOOLEAN /\ (ok => o)
  BY <1>2 DEF Providers!Finds, Providers!Opens
<1>5. PICK b \in BOOLEAN : b = (gw.rows[id].checked \/ ok)
  BY <1>1, <1>4
<1>6. b => <<gw.rows[id].kind, gw.rows[id].key>> \in gw.opens
  BY <1>1, <1>3, <1>4, <1>5 DEF AccountsGw
<1>7. (gw.rows[id].checked => b) /\ (ok => b)
  BY <1>5
<1>8. PICK r : r = [gw.rows[id] EXCEPT !.checked = b]
  OBVIOUS
<1>9. r \in AccountsRow /\ r.kind = gw.rows[id].kind /\ r.key = gw.rows[id].key /\ r.checked = b
  BY <1>1, <1>8 DEF AccountsRow
<1>10. PICK s : s = [gw.rows EXCEPT ![id] = r]
  OBVIOUS
<1>11. k = [gw EXCEPT !.rows = s]
  BY <1>5, <1>8, <1>10 DEF Providers!Keeps
<1>12. /\ s \in [ProvidersOf.ids -> AccountsRow \cup {None}] /\ s[id] = r
       /\ \A i \in ProvidersOf.ids \ {id} : s[i] = gw.rows[i]
  BY <1>1, <1>9, <1>10 DEF AccountsGw
<1>13. /\ k.rows = s /\ k.used = gw.used /\ k.opens = gw.opens /\ k.revoked = gw.revoked
       /\ k \in [rows: [ProvidersOf.ids -> AccountsRow \cup {None}], used: SUBSET ProvidersOf.ids,
                 opens: SUBSET (ProvidersOf.kinds \X ProvidersOf.keys), revoked: {k.revoked}, admin: BOOLEAN, events: {k.events}]
  BY <1>11, <1>12 DEF AccountsGw
<1>14. AccountsGw(k)
  <2> SUFFICES ASSUME NEW i \in ProvidersOf.ids, k.rows[i] # None
               PROVE  /\ i \in k.used /\ (k.rows[i].checked => <<k.rows[i].kind, k.rows[i].key>> \in k.opens)
                      /\ (k.rows[i].kind # "vm" => k.rows[i].checked)
    BY <1>13 DEF AccountsGw
  <2>1. CASE i = id
    BY <1>1, <1>6, <1>7, <1>9, <1>12, <1>13, <2>1 DEF AccountsGw
  <2>2. CASE i # id
    BY <1>12, <1>13, <2>2 DEF AccountsGw
  <2> QED BY <2>1, <2>2
<1>15. AccountsMove(gw, k)
  <2> SUFFICES ASSUME NEW i \in gw.used, k.rows[i] # None
               PROVE  gw.rows[i] # None /\ k.rows[i].kind = gw.rows[i].kind /\ (gw.rows[i].checked => k.rows[i].checked)
    BY <1>13, <1>14 DEF AccountsMove
  <2>1. i \in ProvidersOf.ids
    BY DEF AccountsGw
  <2>2. CASE i = id
    BY <1>1, <1>7, <1>9, <1>12, <1>13, <2>2
  <2>3. CASE i # id
    BY <1>12, <1>13, <2>1, <2>3
  <2> QED BY <2>2, <2>3
<1>16. ok => AccountsOk(k, id)
  BY <1>1, <1>7, <1>9, <1>12, <1>13 DEF AccountsOk, AccountsGw
<1> QED BY <1>15, <1>16

-----------------------------------------------------------------------------
\* The steps of the pages leave the accounts alone.
AccountsSame == gw' = gw \/ Providers!By(gw)
LEMMA AccountsTurn ==
  ASSUME AccountsInv, AccountsMove(gw, gw'), AccountsUi(gw', ui'), ui'.route = ui.route, AccountsFresh(ui', net'),
         \A c \in net' : c \in net \/ AccountsCall(gw', ui'.route, c)
  PROVE  AccountsInv'
<1>1. \A c \in net : AccountsCall(gw', ui'.route, c)
  BY AccountsMoved DEF AccountsInv
<1> QED BY <1>1 DEF AccountsInv, AccountsMove
LEMMA AccountsSameMoves == ASSUME AccountsInv, AccountsSame PROVE AccountsMove(gw, gw')
<1>1. AccountsGw(gw)
  BY DEF AccountsInv
<1>2. CASE gw' = gw
  BY <1>1, <1>2, AccountsStays
<1>3. CASE Providers!By(gw)
  <2>1. PICK e : gw' = [gw EXCEPT !.events = e]
    BY <1>3 DEF Providers!By
  <2>2. gw'.rows = gw.rows /\ gw'.used = gw.used /\ AccountsGw(gw')
    BY <1>1, <2>1 DEF AccountsGw
  <2> QED BY <1>1, <2>2, AccountsStays
<1> QED BY <1>2, <1>3 DEF AccountsSame
LEMMA AccountsNew ==
  ASSUME NEW g, NEW op \in {"create", "try", "file", "test", "delete", "refresh"}, NEW arg, NEW r,
         op \in {"create", "try"} => arg \in AccountsArg /\ r = "new",
         op = "file" => arg \in ProvidersOf.keys /\ r = "new",
         op = "test" => arg \in [id: ProvidersOf.ids, kind: ProvidersOf.kinds] /\ r = "providers",
         op = "delete" => arg \in [id: ProvidersOf.ids] /\ r = "providers",
         op = "refresh" => r = "providers"
  PROVE  AccountsCall(g, r, Providers!Call(op, arg))
<1>1. PICK c : c = Providers!Call(op, arg)
  OBVIOUS
<1>2. c = [op |-> op, arg |-> arg, at |-> "sent", val |-> None, live |-> TRUE]
  BY <1>1 DEF Providers!Call
<1> QED BY <1>1, <1>2 DEF AccountsCall

LEMMA AccountsFormTurn ==
  ASSUME AccountsInv, ui.route = "new", ui' \in AccountsForm, AccountsSame,
         \A c \in net' : c \in net \/ AccountsCall(gw', "new", c)
  PROVE  AccountsInv'
<1>1. ui'.route = "new"
  BY DEF AccountsForm
<1>2. AccountsUi(gw', ui') /\ AccountsFresh(ui', net')
  BY <1>1 DEF AccountsUi, AccountsFresh
<1> QED BY <1>1, <1>2, AccountsSameMoves, AccountsTurn

LEMMA AccountsAccount ==
  ASSUME ui \in AccountsForm PROVE Providers!Account \in AccountsArg
<1>1. CASE ui.kind = "vm"
  <2>1. Providers!Account = [kind |-> "vm", host |-> ui.host, key |-> ui.secret]
    BY <1>1 DEF Providers!Account
  <2> QED BY <1>1, <2>1 DEF AccountsForm, AccountsArg
<1>2. CASE ui.kind # "vm"
  <2>1. Providers!Account = [kind |-> ui.kind, host |-> None, key |-> ui.apiKey]
    BY <1>2 DEF Providers!Account
  <2> QED BY <2>1 DEF AccountsForm, AccountsArg
<1> QED BY <1>1, <1>2

LEMMA AccountsOnTheForm == AccountsInv /\ Providers!OnTheForm => AccountsInv'
<1> SUFFICES ASSUME AccountsInv, Providers!OnTheForm PROVE AccountsInv'
  OBVIOUS
<1>0. /\ ui.route = "new" => ui \in AccountsForm
      /\ \A c \in net : AccountsCall(gw, ui.route, c)
  BY AccountsRoutes DEF AccountsInv
<1>1. CASE Providers!Edit("name", TRUE)
  <2>1. ui.route = "new" /\ ui' = [ui EXCEPT !["name"] = TRUE] /\ net' = net /\ Providers!By(gw)
    BY <1>1 DEF Providers!Edit, Providers!OnForm, Providers!Stay
  <2>2. ui' \in AccountsForm
    BY <1>0, <2>1 DEF AccountsForm
  <2> QED BY <2>1, <2>2, AccountsFormTurn DEF AccountsSame
<1>2. ASSUME NEW h \in ProvidersOf.hosts \cup {None}, Providers!Edit("host", h) PROVE AccountsInv'
  <2>1. ui.route = "new" /\ ui' = [ui EXCEPT !["host"] = h] /\ net' = net /\ Providers!By(gw)
    BY <1>2 DEF Providers!Edit, Providers!OnForm, Providers!Stay
  <2>2. ui' \in AccountsForm
    BY <1>0, <2>1 DEF AccountsForm
  <2> QED BY <2>1, <2>2, AccountsFormTurn DEF AccountsSame
<1>3. ASSUME NEW key \in ProvidersOf.keys, Providers!Edit("secret", key) PROVE AccountsInv'
  <2>1. ui.route = "new" /\ ui' = [ui EXCEPT !["secret"] = key] /\ net' = net /\ Providers!By(gw)
    BY <1>3 DEF Providers!Edit, Providers!OnForm, Providers!Stay
  <2>2. ui' \in AccountsForm
    BY <1>0, <2>1 DEF AccountsForm
  <2> QED BY <2>1, <2>2, AccountsFormTurn DEF AccountsSame
<1>4. ASSUME NEW key \in ProvidersOf.keys, Providers!Edit("apiKey", key) PROVE AccountsInv'
  <2>1. ui.route = "new" /\ ui' = [ui EXCEPT !["apiKey"] = key] /\ net' = net /\ Providers!By(gw)
    BY <1>4 DEF Providers!Edit, Providers!OnForm, Providers!Stay
  <2>2. ui' \in AccountsForm
    BY <1>0, <2>1 DEF AccountsForm
  <2> QED BY <2>1, <2>2, AccountsFormTurn DEF AccountsSame
<1>5. ASSUME NEW key \in ProvidersOf.keys, Providers!PickFile(key) PROVE AccountsInv'
  <2>1. ui.route = "new" /\ ui' = ui /\ net' = net \cup {Providers!Call("file", key)} /\ Providers!By(gw)
    BY <1>5 DEF Providers!PickFile, Providers!OnForm, Providers!Send
  <2>2. AccountsCall(gw', "new", Providers!Call("file", key))
    BY AccountsNew
  <2> QED BY <1>0, <2>1, <2>2, AccountsFormTurn DEF AccountsSame
<1>6. ASSUME NEW kind \in ProvidersOf.kinds, Providers!PickKind(kind) PROVE AccountsInv'
  <2>1. ui.route = "new" /\ ui' = [ui EXCEPT !.kind = kind, !.test = "idle"] /\ net' = net /\ Providers!By(gw)
    BY <1>6 DEF Providers!PickKind, Providers!OnForm, Providers!Stay
  <2>2. ui' \in AccountsForm
    BY <1>0, <2>1 DEF AccountsForm
  <2> QED BY <2>1, <2>2, AccountsFormTurn DEF AccountsSame
<1>7. CASE Providers!Test
  <2>1. /\ ui.route = "new" /\ Providers!By(gw)
        /\ \/ ui' = [ui EXCEPT !.test = "running"] /\ net' = net \cup {Providers!Call("try", Providers!Account)}
           \/ ui' = [ui EXCEPT !.test = "fail"] /\ net' = net
    BY <1>7 DEF Providers!Test, Providers!Free, Providers!OnForm, Providers!Send, Providers!Stay
  <2>2. ui' \in AccountsForm
    BY <1>0, <2>1 DEF AccountsForm
  <2>3. AccountsCall(gw', "new", Providers!Call("try", Providers!Account))
    BY <1>0, <2>1, AccountsAccount, AccountsNew
  <2> QED BY <2>1, <2>2, <2>3, AccountsFormTurn DEF AccountsSame
<1>8. CASE Providers!Submit
  <2>1. /\ ui.route = "new" /\ Providers!By(gw) /\ ui' = [ui EXCEPT !.submitting = TRUE]
        /\ net' = net \cup {Providers!Call("create", Providers!Account)}
    BY <1>8 DEF Providers!Submit, Providers!Free, Providers!OnForm, Providers!Send
  <2>2. ui' \in AccountsForm
    BY <1>0, <2>1 DEF AccountsForm
  <2>3. AccountsCall(gw', "new", Providers!Call("create", Providers!Account))
    BY <1>0, <2>1, AccountsAccount, AccountsNew
  <2> QED BY <2>1, <2>2, <2>3, AccountsFormTurn DEF AccountsSame
<1>9. ASSUME NEW c \in net, Providers!FileRead(c) PROVE AccountsInv'
  <2>1. c.op = "file" /\ ui' = [ui EXCEPT !.secret = c.arg] /\ net' = net \ {c} /\ gw' = gw
    BY <1>9 DEF Providers!FileRead
  <2>2. ui.route = "new" /\ c.arg \in ProvidersOf.keys
    BY <1>0, <2>1 DEF AccountsCall
  <2>3. ui' \in AccountsForm
    BY <1>0, <2>1, <2>2 DEF AccountsForm
  <2> QED BY <2>1, <2>2, <2>3, AccountsFormTurn DEF AccountsSame
<1>10. ASSUME NEW c \in net, Providers!Tried(c) PROVE AccountsInv'
  <2>1. PICK t \in {"ok", "fail"} : c.op = "try" /\ c.live /\ ui' = [ui EXCEPT !.test = t] /\ net' = net \ {c} /\ gw' = gw
    BY <1>10 DEF Providers!Tried, Providers!Done
  <2>2. ui.route = "new"
    BY <1>0, <2>1 DEF AccountsCall
  <2>3. ui' \in AccountsForm
    BY <1>0, <2>1, <2>2 DEF AccountsForm
  <2> QED BY <2>1, <2>2, <2>3, AccountsFormTurn DEF AccountsSame
<1> QED BY <1>1, <1>2, <1>3, <1>4, <1>5, <1>6, <1>7, <1>8, <1>9, <1>10 DEF Providers!OnTheForm

-----------------------------------------------------------------------------
LEMMA AccountsListTurn ==
  ASSUME AccountsInv, ui.route = "providers", ui' \in AccountsList, AccountsItems(gw, ui'), AccountsSame, AccountsFresh(ui', net'),
         \A c \in net' : c \in net \/ AccountsCall(gw', "providers", c)
  PROVE  AccountsInv'
<1>1. ui'.route = "providers"
  BY DEF AccountsList
<1>2. AccountsGw(gw) /\ AccountsMove(gw, gw') /\ AccountsUi(gw, ui')
  BY AccountsSameMoves DEF AccountsInv, AccountsUi
<1>3. AccountsUi(gw', ui')
  BY <1>2, AccountsMoved
<1> QED BY <1>1, <1>2, <1>3, AccountsTurn

\* A test's outcome is put next to the account, or what its public key is.
AccountsPut(u, v, id, o) == /\ v \in AccountsList /\ AccountsItems(gw, v) /\ v.items = u.items /\ v.result[id] = o
                            /\ \A i \in ProvidersOf.ids \ {id} : v.result[i] = u.result[i]
LEMMA AccountsResult ==
  ASSUME AccountsInv, ui.route = "providers", NEW id \in ProvidersOf.ids, NEW o \in {"none", "ok", "fail"}, o = "ok" => AccountsOk(gw, id),
         NEW t \in ProvidersOf.ids \cup {None}, NEW v, v = [ui EXCEPT !.testing = t, !.result[id] = o]
  PROVE  AccountsPut(ui, v, id, o)
<1>1. ui \in AccountsList /\ AccountsItems(gw, ui)
  BY AccountsRoutes DEF AccountsInv
<1>2. PICK r : r = [ui.result EXCEPT ![id] = o]
  OBVIOUS
<1>3. /\ r \in [ProvidersOf.ids -> {"none", "ok", "fail"}] /\ r[id] = o
      /\ \A i \in ProvidersOf.ids \ {id} : r[i] = ui.result[i]
  BY <1>1, <1>2 DEF AccountsList
<1>4. v = [ui EXCEPT !.testing = t, !.result = r]
  BY <1>2
<1>5. v \in AccountsList /\ v.items = ui.items /\ v.result = r
  BY <1>1, <1>3, <1>4 DEF AccountsList
<1>6. AccountsItems(gw, v)
  BY <1>1, <1>3, <1>5 DEF AccountsItems
<1> QED BY <1>3, <1>5, <1>6 DEF AccountsPut

LEMMA AccountsOnTheList == AccountsInv /\ Providers!OnTheList => AccountsInv'
<1> SUFFICES ASSUME AccountsInv, Providers!OnTheList PROVE AccountsInv'
  OBVIOUS
<1>0. /\ ui.route = "providers" => ui \in AccountsList /\ AccountsItems(gw, ui)
      /\ AccountsGw(gw) /\ AccountsFresh(ui, net)
      /\ \A c \in net : AccountsCall(gw, ui.route, c)
  BY AccountsRoutes DEF AccountsInv
<1>1. ASSUME ui.route = "providers", NEW p \in ui.items, Providers!Retest(p) PROVE AccountsInv'
  <2>1. /\ ui' = [ui EXCEPT !.testing = p.id, !.result[p.id] = "none"] /\ Providers!By(gw)
        /\ net' = net \cup {Providers!Call("test", [id |-> p.id, kind |-> p.kind])}
    BY <1>1 DEF Providers!Retest, Providers!Send
  <2>2. p \in Providers!Items
    BY <1>0, <1>1 DEF AccountsList
  <2>3. p.id \in ProvidersOf.ids /\ p.kind \in ProvidersOf.kinds
    BY <2>2 DEF Providers!Items
  <2>4. /\ ui' \in AccountsList /\ AccountsItems(gw, ui') /\ ui'.items = ui.items /\ ui'.result[p.id] = "none"
        /\ \A i \in ProvidersOf.ids \ {p.id} : ui'.result[i] = ui.result[i]
    <3>1. AccountsPut(ui, ui', p.id, "none")
      BY <1>1, <2>1, <2>3, AccountsResult
    <3> QED BY <3>1 DEF AccountsPut
  <2>5. \A q \in ui.items : q.id \in ProvidersOf.ids
    BY <1>0, <1>1 DEF AccountsList, Providers!Items
  <2>6. AccountsFresh(ui', net')
    BY <1>0, <1>1, <2>1, <2>4, <2>5 DEF AccountsFresh
  <2>7. AccountsCall(gw', "providers", Providers!Call("test", [id |-> p.id, kind |-> p.kind]))
    BY <2>3, AccountsNew
  <2> QED BY <1>1, <2>1, <2>4, <2>6, <2>7, AccountsListTurn DEF AccountsSame
<1>2. ASSUME ui.route = "providers", NEW p \in ui.items, Providers!CopyPub(p) PROVE AccountsInv'
  <2>1. p.kind # "vm" /\ ui' = [ui EXCEPT !.result[p.id] = "ok"] /\ Providers!By(gw) /\ net' = net
    BY <1>2 DEF Providers!CopyPub, Providers!Stay
  <2>2. p \in Providers!Items /\ ui.testing \in ProvidersOf.ids \cup {None}
    BY <1>0, <1>2 DEF AccountsList
  <2>3. p.id \in ProvidersOf.ids /\ p.kind \in ProvidersOf.kinds
    BY <2>2 DEF Providers!Items
  <2>4. AccountsOk(gw, p.id)
    BY <1>0, <1>2, <2>1, <2>3 DEF AccountsItems, AccountsOk, AccountsGw
  <2>5. ui' = [ui EXCEPT !.testing = ui.testing, !.result[p.id] = "ok"]
    BY <1>0, <1>2, <2>1 DEF AccountsList
  <2>6. /\ ui' \in AccountsList /\ AccountsItems(gw, ui') /\ ui'.items = ui.items /\ ui'.result[p.id] = "ok"
        /\ \A i \in ProvidersOf.ids \ {p.id} : ui'.result[i] = ui.result[i]
    <3>1. AccountsPut(ui, ui', p.id, "ok")
      BY <1>2, <2>2, <2>3, <2>4, <2>5, AccountsResult
    <3> QED BY <3>1 DEF AccountsPut
  <2>7. \A q \in ui.items : q.id \in ProvidersOf.ids /\ (q.id = p.id => q.checked)
    <3>1. p.checked
      BY <1>0, <1>2, <2>1 DEF AccountsItems
    <3> QED BY <1>0, <1>2, <3>1 DEF AccountsList, AccountsItems, Providers!Items
  <2>8. AccountsFresh(ui', net')
    BY <1>0, <1>2, <2>1, <2>6, <2>7 DEF AccountsFresh
  <2> QED BY <1>2, <2>1, <2>6, <2>8, AccountsListTurn DEF AccountsSame
<1>3. ASSUME ui.route = "providers", AccountsSame, ui' \in AccountsList, ui'.items = ui.items, ui'.result = ui.result,
             \A c \in net : c \in net' \/ c.op # "refresh", \A c \in net' : c \in net \/ AccountsCall(gw', "providers", c)
      PROVE  AccountsInv'
  <2>1. AccountsItems(gw, ui')
    BY <1>0, <1>3 DEF AccountsItems
  <2>2. AccountsFresh(ui', net')
    BY <1>0, <1>3 DEF AccountsFresh
  <2> QED BY <1>3, <2>1, <2>2, AccountsListTurn
<1>4. ASSUME ui.route = "providers", NEW p \in ui.items, Providers!AskDelete(p) PROVE AccountsInv'
  <2>1. ui' = [ui EXCEPT !.target = p.id] /\ Providers!By(gw) /\ net' = net
    BY <1>4 DEF Providers!AskDelete, Providers!Stay
  <2>2. p.id \in ProvidersOf.ids
    BY <1>0, <1>4 DEF AccountsList, Providers!Items
  <2>3. ui' \in AccountsList /\ ui'.items = ui.items /\ ui'.result = ui.result
    BY <1>0, <1>4, <2>1, <2>2 DEF AccountsList
  <2> QED BY <1>3, <1>4, <2>1, <2>3 DEF AccountsSame
<1>5. CASE Providers!CloseDelete
  <2>1. ui.route = "providers" /\ ui' = [ui EXCEPT !.target = None] /\ Providers!By(gw) /\ net' = net
    BY <1>5 DEF Providers!CloseDelete, Providers!OnList, Providers!Stay
  <2>2. ui' \in AccountsList /\ ui'.items = ui.items /\ ui'.result = ui.result
    BY <1>0, <2>1 DEF AccountsList
  <2> QED BY <1>3, <2>1, <2>2 DEF AccountsSame
<1>6. CASE Providers!Delete
  <2>1. /\ ui.route = "providers" /\ ui.target # None /\ ui' = [ui EXCEPT !.deleting = TRUE] /\ Providers!By(gw)
        /\ net' = net \cup {Providers!Call("delete", [id |-> ui.target])}
    BY <1>6 DEF Providers!Delete, Providers!OnList, Providers!Send
  <2>2. ui' \in AccountsList /\ ui'.items = ui.items /\ ui'.result = ui.result /\ ui.target \in ProvidersOf.ids
    BY <1>0, <2>1 DEF AccountsList
  <2>3. AccountsCall(gw', "providers", Providers!Call("delete", [id |-> ui.target]))
    BY <2>2, AccountsNew
  <2> QED BY <1>3, <2>1, <2>2, <2>3 DEF AccountsSame
<1>7. ASSUME NEW c \in net, Providers!Rendered(c) PROVE AccountsInv'
  <2>1. /\ c.op = "refresh" /\ ui.route = "providers" /\ gw' = gw
        /\ net' = IF gw.admin /\ ui'.items # {} THEN net \ {c} ELSE Providers!Left
    BY <1>0, <1>7 DEF Providers!Rendered, AccountsCall
  <2>2. PICK items \in Providers!Lists :
          ui' = IF gw.admin THEN IF items = {} \/ ui.items = {} THEN Providers!Listing(items) ELSE [ui EXCEPT !.items = items]
                            ELSE Providers!Elsewhere
    BY <1>7 DEF Providers!Rendered, Providers!Shows
  <2>3. /\ items \in SUBSET Providers!Items
        /\ \A p \in items : /\ p.id \in ProvidersOf.ids /\ gw.rows[p.id] # None
                            /\ p.kind = gw.rows[p.id].kind /\ p.checked = gw.rows[p.id].checked
                            /\ \A q \in items : q.id = p.id => q = p
    BY <1>0, AccountsRowed
  <2>4. CASE ~gw.admin
    BY <2>1, <2>2, <2>4, AccountsShown
  <2>5. CASE gw.admin /\ items = {}
    <3>1. ui' = Providers!Listing(items)
      BY <2>2, <2>5
    <3>2. ui'.items = {}
      BY <2>5, <3>1 DEF Providers!Listing
    <3> QED BY <2>1, <2>5, <3>1, <3>2, AccountsShown
  <2>6. CASE gw.admin /\ items # {}
    <3>1. PICK v : v = IF ui.items = {} THEN Providers!Listing(items) ELSE [ui EXCEPT !.items = items]
      OBVIOUS
    <3>2. ui' = v
      BY <2>2, <2>6, <3>1
    <3>3. v \in AccountsList /\ v.items = items /\ AccountsItems(gw, v) /\ AccountsFresh(v, net')
      <4>1. CASE ui.items = {}
        <5>1. v.route = "providers" /\ v.items = items
          BY <3>1, <4>1 DEF Providers!Listing
        <5> QED BY <1>0, <3>1, <4>1, <5>1, AccountsListing, AccountsRoutes
      <4>2. CASE ui.items # {}
        <5>1. v = [ui EXCEPT !.items = items]
          BY <3>1, <4>2
        <5>2. v \in AccountsList /\ v.items = items /\ v.result = ui.result
          BY <1>0, <2>1, <2>3, <5>1 DEF AccountsList
        <5>3. AccountsItems(gw, v)
          BY <1>0, <2>1, <2>3, <5>2 DEF AccountsItems, AccountsGw
        <5>4. AccountsFresh(v, net')
          BY <1>0, <2>1, <2>3, <5>2 DEF AccountsItems, AccountsOk, AccountsFresh
        <5> QED BY <5>2, <5>3, <5>4
      <4> QED BY <4>1, <4>2
    <3>4. net' = net \ {c}
      BY <2>1, <2>6, <3>2, <3>3
    <3> QED BY <2>1, <3>2, <3>3, <3>4, AccountsListTurn DEF AccountsSame
  <2> QED BY <2>4, <2>5, <2>6
<1>8. ASSUME NEW c \in net, Providers!Retested(c) PROVE AccountsInv'
  <2>1. /\ c.op = "test" /\ gw' = gw /\ AccountsCall(gw, ui.route, c)
        /\ net' = (net \ {c}) \cup IF c.at = "ok" /\ c.val THEN Providers!Refresh ELSE {}
    BY <1>0, <1>8 DEF Providers!Retested
  <2>2. \A d \in net' : d \in net \/ (AccountsCall(gw', "providers", d) /\ ui.route = "providers")
    <3>1. \A d \in Providers!Refresh : ui.route = "providers" /\ d = Providers!Call("refresh", None)
      BY DEF Providers!Refresh, Providers!OnList
    <3>2. AccountsCall(gw', "providers", Providers!Call("refresh", None))
      BY AccountsNew
    <3> QED BY <2>1, <3>1, <3>2
  <2>3. CASE ~c.live
    <3>1. ui' = ui
      BY <1>8, <2>3 DEF Providers!Retested
    <3>2. AccountsFresh(ui', net')
      BY <1>0, <2>1, <3>1 DEF AccountsFresh
    <3>3. AccountsUi(gw', ui') /\ AccountsMove(gw, gw')
      BY <2>1, <3>1, AccountsSameMoves DEF AccountsInv, AccountsSame
    <3> QED BY <2>2, <3>1, <3>2, <3>3, AccountsTurn
  <2>4. CASE c.live
    <3>1. PICK o \in {"ok", "fail"} : o = IF c.at = "ok" /\ c.val THEN "ok" ELSE "fail"
      OBVIOUS
    <3>2. ui.route = "providers" /\ ui' = [ui EXCEPT !.testing = None, !.result[c.arg.id] = o]
      BY <1>8, <2>1, <2>4, <3>1 DEF Providers!Retested, AccountsCall
    <3>3. c.arg.id \in ProvidersOf.ids /\ (o = "ok" => AccountsOk(gw, c.arg.id) /\ c.at = "ok" /\ c.val)
      BY <2>1, <3>1 DEF AccountsCall
    <3>4. /\ ui' \in AccountsList /\ AccountsItems(gw, ui') /\ ui'.items = ui.items /\ ui'.result[c.arg.id] = o
          /\ \A i \in ProvidersOf.ids \ {c.arg.id} : ui'.result[i] = ui.result[i]
      <4>1. AccountsPut(ui, ui', c.arg.id, o)
        BY <3>2, <3>3, AccountsResult
      <4> QED BY <4>1 DEF AccountsPut
    <3>5. \A q \in ui.items : q.id \in ProvidersOf.ids
      BY <1>0, <3>2 DEF AccountsList, Providers!Items
    <3>6. AccountsFresh(ui', net')
      <4>1. CASE o = "ok"
        <5>1. Providers!Call("refresh", None) \in net'
          BY <2>1, <3>2, <3>3, <4>1 DEF Providers!Refresh, Providers!OnList
        <5> QED BY <5>1 DEF AccountsFresh, Providers!Call
      <4>2. CASE o # "ok"
        BY <1>0, <2>1, <3>2, <3>4, <3>5, <4>2 DEF AccountsFresh
      <4> QED BY <4>1, <4>2
    <3> QED BY <2>1, <2>2, <3>2, <3>4, <3>6, AccountsListTurn DEF AccountsSame
  <2> QED BY <2>3, <2>4
<1>9. ASSUME NEW c \in net, Providers!Deleted(c) PROVE AccountsInv'
  <2>1. /\ c.op = "delete" /\ gw' = gw /\ AccountsCall(gw, ui.route, c)
        /\ net' = (net \ {c}) \cup IF c.at = "ok" THEN Providers!Refresh ELSE {}
    BY <1>0, <1>9 DEF Providers!Deleted
  <2>2. \A d \in net' : d \in net \/ (AccountsCall(gw', "providers", d) /\ ui.route = "providers")
    <3>1. \A d \in Providers!Refresh : ui.route = "providers" /\ d = Providers!Call("refresh", None)
      BY DEF Providers!Refresh, Providers!OnList
    <3>2. AccountsCall(gw', "providers", Providers!Call("refresh", None))
      BY AccountsNew
    <3> QED BY <2>1, <3>1, <3>2
  <2>3. CASE ~c.live
    <3>1. ui' = ui
      BY <1>9, <2>3 DEF Providers!Deleted
    <3>2. AccountsFresh(ui', net')
      BY <1>0, <2>1, <3>1 DEF AccountsFresh
    <3>3. AccountsUi(gw', ui') /\ AccountsMove(gw, gw')
      BY <2>1, <3>1, AccountsSameMoves DEF AccountsInv, AccountsSame
    <3> QED BY <2>2, <3>1, <3>2, <3>3, AccountsTurn
  <2>4. CASE c.live
    <3>1. PICK t : t = IF c.at = "ok" THEN None ELSE ui.target
      OBVIOUS
    <3>2. ui.route = "providers" /\ ui' = [ui EXCEPT !.deleting = FALSE, !.target = t]
      BY <1>9, <2>1, <2>4, <3>1 DEF Providers!Deleted, AccountsCall
    <3>3. ui' \in AccountsList /\ ui'.items = ui.items /\ ui'.result = ui.result
      BY <1>0, <3>1, <3>2 DEF AccountsList
    <3> QED BY <1>3, <2>1, <2>2, <3>2, <3>3 DEF AccountsSame
  <2> QED BY <2>3, <2>4
<1> QED BY <1>1, <1>2, <1>4, <1>5, <1>6, <1>7, <1>8, <1>9 DEF Providers!OnTheList, Providers!OnList

-----------------------------------------------------------------------------
LEMMA AccountsServes ==
  ASSUME AccountsInv, NEW c \in net, AccountsMove(gw, gw'), NEW v, net' \in {Providers!Answered(c, v), Providers!Failed(c)}, ui' = ui,
         c.op \notin {"refresh", "file"}, c.op = "test" /\ v => AccountsOk(gw', c.arg.id)
  PROVE  AccountsInv'
<1>1. AccountsCall(gw', ui.route, c) /\ AccountsUi(gw', ui)
  BY AccountsMoved DEF AccountsInv
<1>2. PICK a, f : a = [c EXCEPT !.at = "ok", !.val = v] /\ f = [c EXCEPT !.at = "failed"]
  OBVIOUS
<1>3. AccountsCall(gw', ui.route, a)
  BY <1>1, <1>2 DEF AccountsCall
<1>4. AccountsCall(gw', ui.route, f)
  BY <1>1, <1>2 DEF AccountsCall
<1>5. \A d \in net' : d \in net \/ d = a \/ d = f
  BY <1>2 DEF Providers!Answered, Providers!Failed
<1>6. \A d \in net : d \in net' \/ d = c
  BY DEF Providers!Answered, Providers!Failed
<1>7. AccountsFresh(ui', net')
  BY <1>6 DEF AccountsInv, AccountsFresh
<1> QED BY <1>1, <1>3, <1>4, <1>5, <1>7, AccountsTurn

LEMMA AccountsGateway ==
  ASSUME AccountsInv, NEW c \in net,
         \/ Providers!ServeCreate(c) \/ Providers!ServeTry(c) \/ Providers!ServeTest(c) \/ Providers!ServeDelete(c) \/ Providers!Refuse(c)
  PROVE  AccountsInv'
<1>0. AccountsGw(gw) /\ AccountsCall(gw, ui.route, c) /\ AccountsMove(gw, gw)
  BY AccountsStays DEF AccountsInv
<1>1. CASE Providers!ServeCreate(c)
  <2>1. PICK id \in ProvidersOf.ids : Providers!Creates(c.arg, id) /\ Providers!Serves(c, Providers!Stores(gw, c.arg, id), None)
    BY <1>1 DEF Providers!ServeCreate
  <2>2. c.op = "create" /\ c.arg \in AccountsArg /\ c.arg.key # None
    BY <1>0, <1>1, <2>1 DEF Providers!ServeCreate, Providers!Creates, AccountsCall
  <2>3. c.arg.kind \in ProvidersOf.kinds /\ c.arg.key \in ProvidersOf.keys
    BY <2>2 DEF AccountsArg
  <2>4. gw' = [Providers!Stores(gw, c.arg, id) EXCEPT !.events = gw.events]
    BY <1>0, <2>1 DEF Providers!Serves, Providers!Stores, AccountsGw
  <2>5. AccountsMove(gw, gw')
    BY <1>0, <2>1, <2>3, <2>4, AccountsStores
  <2> QED BY <2>1, <2>2, <2>5, AccountsServes DEF Providers!Serves
<1>2. CASE Providers!ServeTry(c)
  <2>1. PICK ok : Providers!Serves(c, gw, ok)
    BY <1>2 DEF Providers!ServeTry
  <2>2. gw' = gw /\ c.op = "try"
    BY <1>2, <2>1 DEF Providers!Serves, Providers!ServeTry
  <2> QED BY <1>0, <2>1, <2>2, AccountsServes DEF Providers!Serves
<1>3. CASE Providers!ServeTest(c)
  <2>1. c.arg.id \in Providers!Stored /\ c.op = "test"
    BY <1>3 DEF Providers!ServeTest
  <2>2. PICK ok \in Providers!Finds(gw.rows[c.arg.id].kind, gw.rows[c.arg.id].key) : Providers!Serves(c, Providers!Keeps(c.arg.id, ok), ok)
    BY <1>3 DEF Providers!ServeTest
  <2>3. gw' = Providers!Keeps(c.arg.id, ok)
    BY <2>2 DEF Providers!Serves
  <2>4. AccountsMove(gw, gw') /\ (ok => AccountsOk(gw', c.arg.id))
    BY <1>0, <2>1, <2>3, AccountsFinds
  <2> QED BY <2>1, <2>2, <2>4, AccountsServes DEF Providers!Serves
<1>4. CASE Providers!ServeDelete(c)
  <2>1. c.arg.id \in ProvidersOf.ids /\ c.op = "delete" /\ Providers!Serves(c, [gw EXCEPT !.rows[c.arg.id] = None], None)
    BY <1>4 DEF Providers!ServeDelete, Providers!Stored
  <2>2. gw' = [gw EXCEPT !.rows[c.arg.id] = None, !.events = gw.events]
    BY <1>0, <2>1 DEF Providers!Serves, AccountsGw
  <2>3. AccountsMove(gw, gw')
    BY <1>0, <2>1, <2>2, AccountsDrop
  <2> QED BY <2>1, <2>3, AccountsServes DEF Providers!Serves
<1>5. CASE Providers!Refuse(c)
  <2>1. c.op \notin {"refresh", "file"} /\ net' = Providers!Failed(c) /\ ui' = ui /\ gw' = gw
    BY <1>5 DEF Providers!Refuse
  <2>2. net' \in {Providers!Answered(c, FALSE), Providers!Failed(c)}
    BY <2>1
  <2> QED BY <1>0, <2>1, <2>2, AccountsServes
<1> QED BY <1>1, <1>2, <1>3, <1>4, <1>5

LEMMA AccountsForeign == AccountsInv /\ Providers!Foreign => AccountsInv'
<1> SUFFICES ASSUME AccountsInv, Providers!Foreign PROVE AccountsInv'
  OBVIOUS
<1>0. AccountsGw(gw) /\ AccountsUi(gw, ui) /\ AccountsFresh(ui, net) /\ ui' = ui /\ net' = net
  BY DEF AccountsInv, Providers!Foreign
<1>1. AccountsMove(gw, gw')
  <2>1. ASSUME NEW a \in [kind: ProvidersOf.kinds, key: ProvidersOf.keys], NEW id \in ProvidersOf.ids, Providers!Creates(a, id),
               Providers!By(Providers!Stores(gw, a, id))
        PROVE  AccountsMove(gw, gw')
    BY <1>0, <2>1, AccountsStores DEF Providers!By
  <2>2. ASSUME NEW id \in Providers!Stored, Providers!By([gw EXCEPT !.rows[id] = None]) PROVE AccountsMove(gw, gw')
    <3>1. PICK e : gw' = [[gw EXCEPT !.rows[id] = None] EXCEPT !.events = e]
      BY <2>2 DEF Providers!By
    <3>2. gw' = [gw EXCEPT !.rows[id] = None, !.events = e]
      BY <3>1
    <3>3. id \in ProvidersOf.ids
      BY DEF Providers!Stored
    <3> QED BY <1>0, <3>2, <3>3, AccountsDrop
  <2>3. CASE Providers!By([gw EXCEPT !.admin = FALSE])
    <3>1. PICK e : gw' = [[gw EXCEPT !.admin = FALSE] EXCEPT !.events = e]
      BY <2>3 DEF Providers!By
    <3>2. AccountsGw(gw') /\ gw'.rows = gw.rows /\ gw'.used = gw.used
      BY <1>0, <3>1 DEF AccountsGw
    <3> QED BY <1>0, <3>2, AccountsStays
  <2>4. ASSUME NEW o, Providers!By([gw EXCEPT !.revoked = @ \cup {o}]) PROVE AccountsMove(gw, gw')
    <3>1. PICK e, r : gw' = [[gw EXCEPT !.revoked = r] EXCEPT !.events = e]
      BY <2>4 DEF Providers!By
    <3>2. AccountsGw(gw') /\ gw'.rows = gw.rows /\ gw'.used = gw.used
      BY <1>0, <3>1 DEF AccountsGw
    <3> QED BY <1>0, <3>2, AccountsStays
  <2> QED BY <2>1, <2>2, <2>3, <2>4 DEF Providers!Foreign
<1>2. AccountsUi(gw', ui)
  BY <1>0, <1>1, AccountsMoved
<1> QED BY <1>0, <1>1, <1>2, AccountsTurn

LEMMA AccountsCreated == ASSUME AccountsInv, NEW c \in net, Providers!Created(c) PROVE AccountsInv'
<1>1. c.op = "create" /\ gw' = gw /\ AccountsCall(gw, ui.route, c)
  BY DEF AccountsInv, Providers!Created
<1>2. CASE c.at = "ok"
  <2>1. net' \subseteq Providers!Left /\ \E items \in Providers!Lists : ui' = Providers!Listing(items) \/ ui' = Providers!Elsewhere
    BY <1>2 DEF Providers!Created, Providers!Shows
  <2> QED BY <1>1, <2>1, AccountsShown
<1>3. CASE c.at # "ok"
  <2>1. ui' = (IF c.live THEN [ui EXCEPT !.submitting = FALSE] ELSE ui) /\ net' = net \ {c}
    BY <1>3 DEF Providers!Created
  <2>2. CASE c.live
    <3>1. ui.route = "new" /\ ui' = [ui EXCEPT !.submitting = FALSE]
      BY <1>1, <2>1, <2>2 DEF AccountsCall
    <3>2. ui \in AccountsForm
      BY <3>1, AccountsRoutes DEF AccountsInv
    <3>3. ui' \in AccountsForm
      BY <3>1, <3>2 DEF AccountsForm
    <3> QED BY <1>1, <2>1, <3>1, <3>3, AccountsFormTurn DEF AccountsSame
  <2>3. CASE ~c.live
    <3>1. ui' = ui
      BY <2>1, <2>3
    <3>2. AccountsFresh(ui', net') /\ AccountsUi(gw', ui')
      BY <1>1, <2>1, <3>1 DEF AccountsInv, AccountsFresh
    <3>3. AccountsMove(gw, gw')
      BY <1>1, AccountsSameMoves DEF AccountsSame
    <3> QED BY <2>1, <3>1, <3>2, <3>3, AccountsTurn
  <2> QED BY <2>2, <2>3
<1> QED BY <1>2, <1>3

LEMMA AccountsNext == AccountsInv /\ Providers!Next => AccountsInv'
<1> SUFFICES ASSUME AccountsInv, Providers!Next PROVE AccountsInv'
  OBVIOUS
<1>1. CASE Providers!OpenList
  BY <1>1, AccountsShown DEF Providers!OpenList, Providers!Shows
<1>2. CASE Providers!OpenForm
  BY <1>2, AccountsShown DEF Providers!OpenForm, Providers!Shows
<1> QED BY <1>1, <1>2, AccountsOnTheForm, AccountsOnTheList, AccountsCreated, AccountsGateway, AccountsForeign DEF Providers!Next
=============================================================================
