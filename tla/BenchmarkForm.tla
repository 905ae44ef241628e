--------------------------- MODULE BenchmarkForm ----------------------------
(***************************************************************************)
(* The form that creates a benchmark (benchmark-form.tsx): its inputs, the *)
(* YAML they are rendered to, raw YAML and the way back into the form,     *)
(* templates, the choice of a virtual machine with its probe, submission.  *)
(*                                                                         *)
(* A YAML text is what it says: what the run is rented with, if anything,  *)
(* the arguments of the engine, the runs (pairs of an input length and a   *)
(* concurrency), and whether it says what the form has no field for.       *)
(* Fields that are rendered and parsed alike are one, plain.  An argument  *)
(* whose text is no number counts as empty.                                *)
(***************************************************************************)
EXTENDS Availability, Integers

CONSTANTS Gpus, Images, Presets,        \* GPU, count, tier and disk; images, those on offer
          Plains,                       \* version, model, rate and lengths of the workload
          Keys, Nums, Dtypes, Extras,   \* numeric arguments, numbers, data types, extra arguments
          Lens, Concs,                  \* input lengths and concurrencies
          Defaults,                     \* what the form starts with
          Vms, Accounts,                \* registered machines and RunPod accounts
          Templates,                    \* ids of templates
          Texts,                        \* YAML the user may type, or a template holds
          MaxEdits                      \* bound: inputs of the user

Broken == [parses |-> FALSE]
FormKeys == Keys \cup {"dtype"}

\* The entries of f, and those of g it does not have: f @@ g of TLC, which the
\* provers do not know.
Over(f, g) == [x \in DOMAIN f \cup DOMAIN g |-> IF x \in DOMAIN f THEN f[x] ELSE g[x]]
Put(x, y, g) == Over([z \in {x} |-> y], g)

\* A provider has one id and one kind; the form starts with an image and one
\* of everything it offers; a text rents what there is to be rented, if any.
TextOK(c) == c.parses => /\ c.rent \in {None} \cup [gpu: Gpus, image: Images]
                         /\ c.runs \subseteq Lens \X Concs /\ c.plain \in Plains
ConstantsOK ==
  /\ Vms \cap Accounts = {} /\ None \notin Vms \cup Nums \cup Images \cup FormKeys \cup [gpu: Gpus, image: Images]
  /\ "dtype" \notin Keys
  /\ Defaults \in [gpu: Gpus, image: Images, plain: Plains, args: [Keys -> Nums \cup {None}], dtype: Dtypes,
                   extra: {Defaults.extra}, sweep: BOOLEAN, len: Lens, conc: Concs, lens: SUBSET Lens, concs: SUBSET Concs]
  /\ (\A x \in Texts : TextOK(x)) /\ MaxEdits \in Nat

-----------------------------------------------------------------------------
(* From the form to YAML and back *)

\* Structured fields first, so that extra arguments override them.
Structured(f) == [k \in {k \in Keys : f.args[k] # None} \cup ({"dtype"} \ {IF f.dtype = "auto" THEN "dtype" ELSE None})
                  |-> IF k = "dtype" THEN f.dtype ELSE f.args[k]]
renderServeBlock(f) == Over(f.extra, Structured(f))

\* A sweep with an empty list falls back to the single value.
SafeInputs(f) == IF f.sweep /\ f.lens # {} THEN f.lens ELSE {f.len}
SafeConcs(f) == IF f.sweep /\ f.concs # {} THEN f.concs ELSE {f.conc}
renderBenchEntries(f) == SafeInputs(f) \X SafeConcs(f)

renderYaml(f, target) ==
  [parses |-> TRUE, plain |-> f.plain, foreign |-> {},
   rent |-> IF target = "cloud" THEN [gpu |-> f.gpu, image |-> IF f.image = None THEN Defaults.image ELSE f.image]
                                ELSE None,
   serve |-> renderServeBlock(f), runs |-> renderBenchEntries(f), percentiles |-> f.sweep]

\* What is not there keeps the form's value; what the form has no field for is
\* told to the user or dropped in silence, and lost either way.
ParseArgs(s, f) == [k \in Keys |-> IF k \in DOMAIN s /\ s[k] \in Nums THEN s[k] ELSE f.args[k]]
ParseDtype(s, f) == IF "dtype" \in DOMAIN s /\ s["dtype"] \in Dtypes THEN s["dtype"] ELSE f.dtype
ParseExtras(s, f) == [k \in {k \in DOMAIN s \ FormKeys : s[k] # "false"} |-> s[k]]

Firsts(runs) == {r[1] : r \in runs}
Seconds(runs) == {r[2] : r \in runs}
ParseWorkload(runs, f) ==
  IF runs = {} THEN f
  ELSE IF \E r \in runs : runs # {r}
       THEN [f EXCEPT !.sweep = TRUE, !.lens = Firsts(runs), !.concs = Seconds(runs)]
       ELSE [f EXCEPT !.sweep = FALSE, !.len = CHOOSE l \in Firsts(runs) : TRUE, !.conc = CHOOSE n \in Seconds(runs) : TRUE]

ParseRent(c, f) == IF c.rent = None THEN f ELSE [f EXCEPT !.gpu = c.rent.gpu, !.image = c.rent.image]
parseYamlToForm(c, f) ==
  [ParseWorkload(c.runs, ParseRent(c, f)) EXCEPT
     !.plain = c.plain, !.args = ParseArgs(c.serve, f), !.dtype = ParseDtype(c.serve, f),
     !.extra = ParseExtras(c.serve, f)]

-----------------------------------------------------------------------------
(* Effects *)

Choice(u) == [gpu |-> u.form.gpu, on |-> u.mode = "form"]
Machine(u) == IF u.target = "vm" THEN u.vm ELSE None

\* In form mode the text follows the form.
InStep(u) == IF u.mode = "form" THEN [u EXCEPT !.yaml = renderYaml(u.form, u.target)] ELSE u
\* The badge's hook is off in YAML mode; it does not make answers stale then.
Badge(u, v) == IF Choice(u) = Choice(v) THEN v
               ELSE IF v.mode = "form" THEN LookUp(v, Choice(v))
               ELSE [v EXCEPT !.stock = Idle, !.looking = FALSE]
\* A machine is probed when it is chosen; probes on their way are not recalled.
Probing(u, v) == Machine(u) # Machine(v) /\ Machine(v) # None
Probe(u, v) == IF Machine(u) = Machine(v) THEN v
               ELSE [v EXCEPT !.probe = [status |-> IF Machine(v) = None THEN "idle" ELSE "loading", of |-> Machine(v)]]
Settled(u, v) == Probe(u, Badge(u, InStep(v)))
Kept(u, v) == {c \in net : Choice(u) = Choice(v) \/ v.mode = "yaml" \/ ~Stale(c)}
              \cup {Call("probe", m) : m \in IF Probing(u, v) THEN {Machine(v)} ELSE {}}
React(v) == ui' = Settled(ui, v) /\ net' = Kept(ui, v) /\ UNCHANGED gw

\* A copy starts as the YAML of what it copies, and on a machine whatever kind
\* of account that one ran with.
Page(text, provider) ==
  [route |-> "newbench", mode |-> IF text = None THEN "form" ELSE "yaml", form |-> Defaults, named |-> TRUE,
   yaml |-> IF text = None THEN renderYaml(Defaults, "cloud") ELSE text,
   target |-> IF provider = None THEN "cloud" ELSE "vm", vm |-> provider, account |-> None,
   templates |-> <<>>, selected |-> None, saving |-> FALSE,
   stock |-> Idle, looking |-> FALSE, probe |-> [status |-> "idle", of |-> None],
   submitting |-> FALSE, leaving |-> FALSE, edits |-> 0]
Blank == Page(None, None)
Init == /\ \E i \in SUBSET Templates : gw \in [i -> Texts]
        /\ \/ ui = LookUp(Blank, Choice(Blank)) /\ net = {Call("templates", None)}
           \/ \E x \in Texts, p \in Vms \cup Accounts \cup {None} :
                /\ ui = Probe(Blank, Page(x, p))
                /\ net = {Call("templates", None)} \cup {Call("probe", m) : m \in {p} \ {None}}

-----------------------------------------------------------------------------
(* Inputs: they stay enabled while calls are on their way *)

OnPage == ui.route = "newbench"
Edit(u) == OnPage /\ ~ui.saving /\ u # ui /\ ui.edits < MaxEdits /\ React([u EXCEPT !.edits = @ + 1])
Fill(f) == ui.mode = "form" /\ Edit([ui EXCEPT !.form = f])
Rename == \E b \in BOOLEAN : Edit([ui EXCEPT !.named = b])

RunOn(target) == ui.mode = "form" /\ Edit([ui EXCEPT !.target = target])
\* The accounts are asked for on mount and on offer once they are there, at any time.
ChooseVm(m) == ui.mode = "form" /\ ui.target = "vm" /\ Edit([ui EXCEPT !.vm = m])
ChooseAccount(a) == ui.mode = "form" /\ ui.target = "cloud" /\ Edit([ui EXCEPT !.account = a])
Rent(g) == ui.target = "cloud" /\ Fill([ui.form EXCEPT !.gpu = g])
\* "Custom" empties a preset; the field for the image is there without one.
PickImage(i) == /\ ui.target = "cloud"
                /\ i \in Presets \/ ui.form.image \notin Presets \/ i = None
                /\ Fill([ui.form EXCEPT !.image = i])
Retype(p) == Fill([ui.form EXCEPT !.plain = p])
SetArg(k, n) == Fill([ui.form EXCEPT !.args[k] = n])
SetDtype(d) == Fill([ui.form EXCEPT !.dtype = d])
SetExtras(x) == Fill([ui.form EXCEPT !.extra = x])
Sweep(b) == Fill([ui.form EXCEPT !.sweep = b])
SweepOver(ls, cs) == ui.form.sweep /\ Fill([ui.form EXCEPT !.lens = ls, !.concs = cs]) /\ (ls = ui.form.lens \/ cs = ui.form.concs)
RunOnce(l, n) == ~ui.form.sweep /\ Fill([ui.form EXCEPT !.len = l, !.conc = n]) /\ (l = ui.form.len \/ n = ui.form.conc)

TypeYaml(x) == ui.mode = "yaml" /\ Edit([ui EXCEPT !.yaml = x])
ShowYaml == OnPage /\ ~ui.saving /\ ui.mode = "form" /\ React([ui EXCEPT !.mode = "yaml"])
\* A text that does not parse keeps the page in YAML mode.
ShowForm == /\ OnPage /\ ~ui.saving /\ ui.mode = "yaml" /\ ui.yaml.parses
            /\ React([ui EXCEPT !.mode = "form", !.form = parseYamlToForm(ui.yaml, ui.form), !.named = TRUE])

RefreshProbe == /\ OnPage /\ ~ui.saving /\ ui.mode = "form" /\ Machine(ui) # None /\ ui.probe.status \in {"ok", "error"}
                /\ ui' = [ui EXCEPT !.probe = [status |-> "loading", of |-> ui.vm]]
                /\ net' = net \cup {Call("probe", ui.vm)}
                /\ UNCHANGED gw
\* Whichever machine the answer is about.
ProbeReply(c) == /\ Done(c, "probe")
                 /\ ui' = [ui EXCEPT !.probe = [status |-> IF c.at = "ok" THEN "ok" ELSE "error", of |-> c.arg]]
                 /\ net' = net \ {c}
                 /\ UNCHANGED gw

-----------------------------------------------------------------------------
(* Templates *)

Send(c, u) == /\ ui.edits < MaxEdits
              /\ ui' = [u EXCEPT !.edits = @ + 1]
              /\ net' = net \cup {c}
              /\ UNCHANGED gw
\* The list asked for on mount, whatever has been saved or deleted since.
TemplatesReply(c) == /\ Done(c, "templates")
                     /\ ui' = IF c.at = "ok" THEN [ui EXCEPT !.templates = c.val] ELSE ui
                     /\ net' = net \ {c}
                     /\ UNCHANGED gw

loadTemplate(t) == /\ t \in DOMAIN ui.templates /\ t # ui.selected
                   /\ Edit([ui EXCEPT !.selected = t, !.yaml = ui.templates[t], !.mode = "yaml"])
Unselect == Edit([ui EXCEPT !.selected = None])
deleteTemplate == OnPage /\ ~ui.saving /\ ui.selected # None /\ Send(Call("delete", ui.selected), ui)
\* The selection compared is the one of the click: whichever is selected goes.
Deleted(c) == /\ Done(c, "delete")
              /\ ui' = IF c.at = "ok"
                       THEN [ui EXCEPT !.selected = None, !.templates = [t \in DOMAIN @ \ {c.arg} |-> @[t]]]
                       ELSE ui
              /\ net' = net \ {c}
              /\ UNCHANGED gw

OpenSave == OnPage /\ ~ui.saving /\ ui' = [ui EXCEPT !.saving = TRUE] /\ UNCHANGED <<net, gw>>
CloseSave == OnPage /\ ui.saving /\ ui' = [ui EXCEPT !.saving = FALSE] /\ UNCHANGED <<net, gw>>
Shown(u) == IF u.mode = "form" THEN renderYaml(u.form, u.target) ELSE u.yaml
\* Nothing holds the button while the call runs.
handleSaveTemplate == OnPage /\ ui.saving /\ Send(Call("save", Shown(ui)), ui)
Saved(c) == /\ Done(c, "save")
            /\ ui' = IF c.at = "ok" THEN [ui EXCEPT !.saving = FALSE, !.templates = Put(c.val, c.arg, @)] ELSE ui
            /\ net' = net \ {c}
            /\ UNCHANGED gw

-----------------------------------------------------------------------------
(* Submission *)

Ready(u) == u.named /\ (u.target = "vm" => u.vm # None)
Request(u) == [config |-> Shown(u), provider |-> IF u.target = "vm" THEN u.vm ELSE u.account]
\* Without a name, or a machine to run on, there is only a message.
Submit == /\ OnPage /\ ~ui.saving /\ ~ui.submitting /\ Ready(ui)
          /\ Send(Call("create", Request(ui)), [ui EXCEPT !.submitting = TRUE])
\* The button is free again before the page of the benchmark is there.
Created(c) == /\ Done(c, "create")
              /\ ui' = [ui EXCEPT !.submitting = FALSE, !.leaving = @ \/ c.at = "ok"]
              /\ net' = net \ {c}
              /\ UNCHANGED gw
Leave == OnPage /\ (ui.leaving \/ ~ui.saving) /\ ui' = [route |-> "gone"] /\ net' = {} /\ UNCHANGED gw

-----------------------------------------------------------------------------
(* The gateway *)

Serve(c) ==
  /\ c \in net /\ c.at = "sent"
  /\ CASE c.op = "templates" -> gw' = gw /\ net' = Answered(c, gw)
       [] c.op = "save" -> \E t \in Templates \ DOMAIN gw : gw' = Put(t, c.arg, gw) /\ net' = Answered(c, t)
       [] c.op = "delete" -> /\ c.arg \in DOMAIN gw
                             /\ gw' = [t \in DOMAIN gw \ {c.arg} |-> gw[t]]
                             /\ net' = Answered(c, None)
       [] c.op = "stock" -> gw' = gw /\ net' = Answered(c, "available")   \* or "out"
       [] OTHER -> gw' = gw /\ net' = Answered(c, None)
  /\ UNCHANGED ui
\* Refused or unreachable; that it may be done and the answer lost is, for the
\* page, the deletion or the template of another tab.
Fail(c) == c \in net /\ c.at = "sent" /\ net' = Failed(c) /\ UNCHANGED <<ui, gw>>

-----------------------------------------------------------------------------
UserStep == \/ Rename \/ ShowYaml \/ ShowForm \/ RefreshProbe \/ Unselect \/ deleteTemplate
            \/ OpenSave \/ CloseSave \/ handleSaveTemplate \/ Submit \/ Leave
            \/ OnPage /\ \/ \E target \in {"cloud", "vm"} : RunOn(target)
                         \/ \E m \in Vms : ChooseVm(m)
                         \/ \E a \in Accounts \cup {None} : ChooseAccount(a)
                         \/ \E g \in Gpus : Rent(g)
                         \/ \E i \in Images \cup {None} : PickImage(i)
                         \/ \E p \in Plains : Retype(p)
                         \/ \E k \in Keys, n \in Nums \cup {None} : SetArg(k, n)
                         \/ \E d \in Dtypes : SetDtype(d)
                         \/ \E x \in Extras : SetExtras(x)
                         \/ \E b \in BOOLEAN : Sweep(b)
                         \/ \E ls \in SUBSET Lens, cs \in SUBSET Concs : SweepOver(ls, cs)
                         \/ \E l \in Lens, n \in Concs : RunOnce(l, n)
                         \/ \E x \in Texts \cup {Broken} : TypeYaml(x)
                         \/ \E t \in Templates : loadTemplate(t)
PageStep == \/ (OnPage /\ AskStock(Choice(ui)))
            \/ \E c \in net : \/ Stock(c) \/ StockRefused(c) \/ StockFails(c) \/ ProbeReply(c)
                             \/ TemplatesReply(c) \/ Deleted(c) \/ Saved(c) \/ Created(c)
GatewayStep == \E c \in net : Serve(c) \/ Fail(c)

Next == UserStep \/ PageStep \/ GatewayStep
Spec == Init /\ [][Next]_vars

-----------------------------------------------------------------------------
(* Properties *)

InForm == OnPage /\ ui.mode = "form"
FormType(f) == /\ f.gpu \in Gpus /\ f.image \in Images \cup {None} /\ f.plain \in Plains
               /\ f.args \in [Keys -> Nums \cup {None}] /\ f.dtype \in Dtypes
               /\ f.lens \subseteq Lens /\ f.concs \subseteq Concs /\ f.len \in Lens /\ f.conc \in Concs
TypeOK == ui.route = "gone" \/
  /\ FormType(ui.form)
  /\ {ui.named, ui.saving, ui.looking, ui.submitting, ui.leaving} \subseteq BOOLEAN
  /\ ui.mode \in {"form", "yaml"} /\ ui.target \in {"cloud", "vm"} /\ ui.edits \in 0 .. MaxEdits
  /\ ui.vm \in Vms \cup Accounts \cup {None} /\ ui.account \in Accounts \cup {None}
  /\ DOMAIN ui.templates \cup DOMAIN gw \cup {ui.selected} \subseteq Templates \cup {None}
  /\ \A c \in net : c.op \in {"templates", "stock", "probe", "save", "delete", "create"}

\* The badge is about the GPU the form shows, also when it comes back from
\* YAML mode with answers of before on their way.
StockIsOfTheChoice == InForm /\ Known(ui) => ui.stock.of = Choice(ui)

\* What the form sends fits where it runs: a registered machine gets no
\* hardware to rent, a RunPod account does.  A copy of a benchmark that ran
\* on a registered RunPod account is taken for one of a machine: not there.
RequestsFitTheProvider ==
  InForm /\ Ready(ui) /\ ~(ui.target = "vm" /\ ui.vm \in Accounts)
  => (Request(ui).config.rent = None <=> Request(ui).provider \in Vms)

\* Turning back from YAML to the form keeps what the text says and the form
\* has a field for: hardware, version, numbers, type, extra flags and every
\* run (a sweep may gain some).  A key that is removed comes back, and a value
\* of another type is lost.
Representable(s, k) == CASE k \in Keys -> s[k] \in Nums
                         [] k = "dtype" -> s[k] \in Dtypes \ {"auto"}
                         [] OTHER -> s[k] # "false"
Keeps(d, c) == /\ d.plain = c.plain /\ c.runs \subseteq d.runs
               /\ (c.rent # None /\ d.rent # None => d.rent = c.rent)
               /\ \A k \in DOMAIN c.serve : Representable(c.serve, k) => k \in DOMAIN d.serve /\ d.serve[k] = c.serve[k]
YamlStays == OnPage /\ ui.mode = "yaml" /\ InForm' => Keeps(Shown(ui'), ui.yaml)
=============================================================================
