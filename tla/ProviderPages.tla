--------------------------- MODULE ProviderPages ----------------------------
(***************************************************************************)
(* Accounts the machines come from: the form of a new one                  *)
(* (provider-form.tsx), the list (providers-list.tsx), and the gateway's   *)
(* handlers behind both.  A virtual machine takes a host and a private     *)
(* key, the other kinds the key of an account.                             *)
(***************************************************************************)
EXTENDS Console, Integers, FiniteSets, TLC

CONSTANTS Kinds, Ids,              \* kinds of providers, "vm" one of them; ids of the accounts made
          Hosts, Keys,             \* host, port and user of a machine; private keys and keys of an account
          MaxEvents                \* bound: what is done on the pages, and by others

ConstantsOK == "vm" \in Kinds

Stored == {id \in Ids : gw.rows[id] # None}
Row(id) == [id |-> id, kind |-> gw.rows[id].kind, checked |-> gw.rows[id].checked]
Opens(kind, key) == <<kind, key>> \in gw.opens \ gw.revoked

Elsewhere == [route |-> "elsewhere"]
Listing(items) == [route |-> "providers", items |-> items, target |-> None, deleting |-> FALSE,
                   testing |-> None, result |-> [id \in Ids |-> "none"]]
Blank == [route |-> "new", kind |-> "vm", name |-> FALSE, host |-> None, secret |-> None, apiKey |-> None,
          test |-> "idle", submitting |-> FALSE]
OnList == ui.route = "providers"
OnForm == ui.route = "new"

By(g) == gw.events < MaxEvents /\ gw' = [g EXCEPT !.events = @ + 1]
Stay == By(gw) /\ UNCHANGED net
Send(op, arg) == By(gw) /\ net' = net \cup {Call(op, arg)}

-----------------------------------------------------------------------------
(* Pages.  Both are an admin's; a list that cannot be had is shown empty,   *)
(* and an empty list forgets its tests and its dialog                       *)

Left == {c \in Orphans(net) : c.op \notin {"refresh", "file"}}
Shows(page) == ui' = IF gw.admin THEN page ELSE Elsewhere
Lists == {{Row(id) : id \in Stored}, {}}
OpenList == ui.route # "providers" /\ (\E items \in Lists : Shows(Listing(items))) /\ net' = Left /\ UNCHANGED gw
OpenForm == ~OnForm /\ (OnList => ui.target = None) /\ Shows(Blank) /\ net' = Left /\ UNCHANGED gw
Refresh == IF OnList THEN {Call("refresh", None)} ELSE {}
Rendered(c) == /\ c \in net /\ c.op = "refresh"
               /\ \E items \in Lists : Shows(IF items = {} \/ ui.items = {} THEN Listing(items) ELSE [ui EXCEPT !.items = items])
               /\ net' = IF gw.admin /\ ui'.items # {} THEN net \ {c} ELSE Left
               /\ UNCHANGED gw

-----------------------------------------------------------------------------
(* The form *)

Edit(field, v) == OnForm /\ ui[field] # v /\ ui' = [ui EXCEPT ![field] = v] /\ Stay
\* A change of kind forgets the test, one on its way included.
PickKind(kind) == OnForm /\ kind # ui.kind /\ ui' = [ui EXCEPT !.kind = kind, !.test = "idle"] /\ Stay
PickFile(key) == OnForm /\ ui.kind = "vm" /\ Send("file", key) /\ UNCHANGED ui
FileRead(c) == /\ c \in net /\ c.op = "file"
               /\ ui' = [ui EXCEPT !.secret = c.arg]
               /\ net' = net \ {c} /\ UNCHANGED gw

Valid == /\ ui.name
         /\ IF ui.kind = "vm" THEN ui.host # None /\ ui.secret # None ELSE ui.apiKey # None
Account == IF ui.kind = "vm" THEN [kind |-> "vm", host |-> ui.host, key |-> ui.secret]
                             ELSE [kind |-> ui.kind, host |-> None, key |-> ui.apiKey]
Free == OnForm /\ ui.test # "running" /\ ~ui.submitting
Test == /\ Free
        /\ IF Valid THEN Send("try", Account) /\ ui' = [ui EXCEPT !.test = "running"]
                    ELSE Stay /\ ui' = [ui EXCEPT !.test = "fail"]
Tried(c) == /\ Done(c, "try")
            /\ ui' = [ui EXCEPT !.test = IF c.at = "ok" /\ c.val THEN "ok" ELSE "fail"]
            /\ net' = net \ {c} /\ UNCHANGED gw
Submit == Free /\ Valid /\ Send("create", Account) /\ ui' = [ui EXCEPT !.submitting = TRUE]
\* router.push("/providers"), from wherever the admin is by then.
Created(c) == /\ c \in net /\ c.op = "create" /\ c.at # "sent"
              /\ IF c.at = "ok" THEN /\ \E items \in Lists : Shows(Listing(items))
                                     /\ net' = Left \ Orphans({c})
                                ELSE /\ ui' = IF c.live THEN [ui EXCEPT !.submitting = FALSE] ELSE ui
                                     /\ net' = net \ {c}
              /\ UNCHANGED gw

-----------------------------------------------------------------------------
(* The list.  One id is marked as under test: the end of any test clears it *)

Item(p) == OnList /\ ui.target = None /\ p \in ui.items
Retest(p) == /\ Item(p) /\ ui.testing # p.id
             /\ ui' = [ui EXCEPT !.testing = p.id, !.result[p.id] = "none"]
             /\ Send("test", [id |-> p.id, kind |-> p.kind])
Retested(c) == /\ c \in net /\ c.op = "test" /\ c.at # "sent"
               /\ ui' = IF ~c.live THEN ui
                        ELSE [ui EXCEPT !.testing = None, !.result[c.arg.id] = IF c.at = "ok" /\ c.val THEN "ok" ELSE "fail"]
               /\ net' = (net \ {c}) \cup IF c.at = "ok" /\ c.val THEN Refresh ELSE {}
               /\ UNCHANGED gw
\* The public key is an account's; what is said of it stands where the test's
\* outcome does.
CopyPub(p) == Item(p) /\ p.kind # "vm" /\ ui' = [ui EXCEPT !.result[p.id] = "ok"] /\ Stay
AskDelete(p) == Item(p) /\ ui' = [ui EXCEPT !.target = p.id] /\ Stay
CloseDelete == OnList /\ ui.target # None /\ ~ui.deleting /\ ui' = [ui EXCEPT !.target = None] /\ Stay
Delete == /\ OnList /\ ui.target # None /\ ~ui.deleting
          /\ ui' = [ui EXCEPT !.deleting = TRUE]
          /\ Send("delete", [id |-> ui.target])
Deleted(c) == /\ c \in net /\ c.op = "delete" /\ c.at # "sent"
              /\ ui' = IF ~c.live THEN ui
                       ELSE [ui EXCEPT !.deleting = FALSE, !.target = IF c.at = "ok" THEN None ELSE @]
              /\ net' = (net \ {c}) \cup IF c.at = "ok" THEN Refresh ELSE {}
              /\ UNCHANGED gw

-----------------------------------------------------------------------------
(* The gateway.  The key of an account is tried before it is stored, and    *)
(* what a test of a stored one finds is kept with it                        *)

Stores(g, a, id) == [g EXCEPT !.rows[id] = [kind |-> a.kind, key |-> a.key, checked |-> a.kind # "vm"], !.used = @ \cup {id}]
Creates(a, id) == id \notin gw.used /\ a.key # None /\ (a.kind = "vm" \/ Opens(a.kind, a.key))
Finds(kind, key) == {Opens(kind, key)} \cup IF kind = "vm" THEN {FALSE} ELSE {}
Keeps(id, ok) == [gw EXCEPT !.rows[id].checked = @ \/ ok]

Serves(c, g, v) == c \in net /\ c.at = "sent" /\ gw' = g /\ net' \in {Answered(c, v), Failed(c)} /\ UNCHANGED ui
ServeCreate(c) == /\ c.op = "create" /\ gw.admin
                  /\ \E id \in Ids : Creates(c.arg, id) /\ Serves(c, Stores(gw, c.arg, id), None)
ServeTry(c) == c.op = "try" /\ \E ok \in Finds(c.arg.kind, c.arg.key) : Serves(c, gw, ok)
ServeTest(c) == /\ c.op = "test" /\ c.arg.id \in Stored /\ gw.rows[c.arg.id].kind = c.arg.kind
                /\ \E ok \in Finds(c.arg.kind, gw.rows[c.arg.id].key) : Serves(c, Keeps(c.arg.id, ok), ok)
ServeDelete(c) == c.op = "delete" /\ gw.admin /\ c.arg.id \in Stored /\ Serves(c, [gw EXCEPT !.rows[c.arg.id] = None], None)
\* Refused, or unreachable.
Refuse(c) == c \in net /\ c.op \notin {"refresh", "file"} /\ c.at = "sent" /\ net' = Failed(c) /\ UNCHANGED <<ui, gw>>

\* Another admin makes an account or deletes one, or demotes this admin; a
\* provider revokes a key.
Foreign == /\ \/ \E a \in [kind : Kinds, key : Keys], id \in Ids : Creates(a, id) /\ By(Stores(gw, a, id))
              \/ \E id \in Stored : By([gw EXCEPT !.rows[id] = None])
              \/ By([gw EXCEPT !.admin = FALSE])
              \/ \E o \in gw.opens \ gw.revoked : By([gw EXCEPT !.revoked = @ \cup {o}])
           /\ UNCHANGED <<ui, net>>

-----------------------------------------------------------------------------
Init == /\ ui = Elsewhere /\ net = {}
        /\ gw \in [rows : [Ids -> {None}], used : {{}}, opens : SUBSET (Kinds \X Keys), revoked : {{}}, admin : {TRUE}, events : {0}]

OnTheForm == \/ Edit("name", TRUE)
             \/ \E h \in Hosts \cup {None} : Edit("host", h)
             \/ \E key \in Keys : Edit("secret", key) \/ Edit("apiKey", key) \/ PickFile(key)
             \/ \E kind \in Kinds : PickKind(kind)
             \/ Test \/ Submit
             \/ \E c \in net : FileRead(c) \/ Tried(c)
OnTheList == \/ \E p \in IF OnList THEN ui.items ELSE {} : Retest(p) \/ CopyPub(p) \/ AskDelete(p)
             \/ CloseDelete \/ Delete
             \/ \E c \in net : Rendered(c) \/ Retested(c) \/ Deleted(c)
Next == \/ OpenList \/ OpenForm \/ OnTheForm \/ OnTheList
        \/ \E c \in net : Created(c) \/ ServeCreate(c) \/ ServeTry(c) \/ ServeTest(c) \/ ServeDelete(c) \/ Refuse(c)
        \/ Foreign

-----------------------------------------------------------------------------
Items == [id : Ids, kind : Kinds, checked : BOOLEAN]
TypeOK ==
  /\ gw.rows \in [Ids -> [kind : Kinds, key : Keys, checked : BOOLEAN] \cup {None}]
  /\ ui \in {Elsewhere}
       \cup [route : {"new"}, kind : Kinds, name : BOOLEAN, host : Hosts \cup {None}, secret : Keys \cup {None},
             apiKey : Keys \cup {None}, test : {"idle", "running", "ok", "fail"}, submitting : BOOLEAN]
       \cup [route : {"providers"}, items : SUBSET Items, target : Ids \cup {None}, deleting : BOOLEAN,
             testing : Ids \cup {None}, result : [Ids -> {"none", "ok", "fail"}]]
\* What says it has been tested opens what it is for, or did: a machine once
\* its test said so, any other account from the moment it is stored.
TestedAccountsOpen ==
  \A id \in Stored : LET row == gw.rows[id] IN /\ row.checked => <<row.kind, row.key>> \in gw.opens
                                               /\ row.kind # "vm" => row.checked
\* No account stands there untested next to a test that went well, unless the
\* list is about to be rendered anew.
ResultsAreKept ==
  OnList => \A p \in ui.items : ui.result[p.id] = "ok" => /\ p.id \in Stored => gw.rows[p.id].checked
                                                          /\ p.checked \/ Waiting("refresh")
\* A form's request has what its kind takes, whatever was typed for another.
RequestsFitTheProvider ==
  \A c \in net : c.op \in {"create", "try"} => c.arg.key # None /\ (c.arg.kind = "vm") = (c.arg.host # None)
=============================================================================
