------------------------------- MODULE ConsoleProofs ------------------------
(***************************************************************************)
(* Theorems about the console.  A behaviour is that of one page: the       *)
(* invariant of the console is, page by page, that of the page.  Those of  *)
(* the users, the roles and the sessions are here, the others in the two   *)
(* modules this one extends.                                               *)
(***************************************************************************)
EXTENDS ConsoleListProofs, ConsoleFormProofs

-----------------------------------------------------------------------------
(* Users and roles: a role that is attached is there, and the roles on      *)
(* screen are the stored ones, but for those strangers or lost answers have *)
(* to do with                                                               *)

OrgRole(of) == [name: of.names, sections: SUBSET of.sections]
OrgGw(of, g) ==
  /\ g \in [users: [of.users -> Organized(of)!UserRow \cup {None}], roles: [of.ids -> OrgRole(of) \cup {None}],
            strays: SUBSET of.ids, events: {g.events}]
  /\ \A id \in of.system : g.roles[id] # None
  /\ \A u \in of.users : g.users[u] # None /\ g.users[u].policy # None => g.roles[g.users[u].policy] # None
OrgDirectory(of) == [route: {"organization"}, users: SUBSET of.users]
OrgUser(of) == [route: {"user"}, user: of.users, row: Organized(of)!UserRow, choices: SUBSET of.ids, asked: BOOLEAN]
OrgDraft(of) == [name: of.names \cup {None}, id: of.ids \cup {None}, sections: SUBSET of.sections]
OrgRoles(of) == [route: {"roles"}, roles: SUBSET Organized(of)!RoleRows, asked: of.ids \cup {None}, open: BOOLEAN, draft: OrgDraft(of)]
OrgUi(of, u) == u \in {Organized(of)!Elsewhere} \cup OrgDirectory(of) \cup OrgUser(of) \cup OrgRoles(of)
\* What each call carries, and the page that waits for it.
OrgArg(of, c) ==
  /\ c.op = "tier" => c.arg \in [user: of.users, to: Organized(of)!Tiers]
  /\ c.op = "policy" => c.arg \in [user: of.users, to: of.ids \cup {None}]
  /\ c.op = "delete" => c.arg \in [user: of.users]
  /\ c.op = "refresh" => c.arg \in of.users
  /\ c.op = "drop" => c.arg \in [id: of.ids]
  /\ c.op = "create" => c.arg \in [id: of.ids, name: of.names, sections: SUBSET of.sections]
  /\ c.op = "update" => c.arg \in [id: of.ids, name: of.names \cup {None}, sections: (SUBSET of.sections) \cup {None}]
OrgOps == {"tier", "policy", "delete", "refresh", "drop", "create", "update"}
OrgCall(of, r, c) ==
  /\ c \in [op: OrgOps, arg: {c.arg}, at: {"sent", "ok", "failed"}, val: {c.val}, live: BOOLEAN]
  /\ OrgArg(of, c)
  /\ c.live => r = IF c.op \in {"drop", "create", "update"} THEN "roles" ELSE "user"
  /\ c.at = "ok" /\ c.op \in {"create", "update"} => c.val \in Organized(of)!RoleRows /\ c.val.id = c.arg.id

\* One call about a role at a time, of one that is there or of one to come.
OrgOfRole(c) == c.live /\ c.op \in {"drop", "create", "update"}
OrgAgree(of, g, u, id) ==
  /\ \A r \in u.roles : r.id = id => g.roles[id] # None /\ r = Organized(of)!Row(g, id)
  /\ g.roles[id] # None => \E r \in u.roles : r.id = id
\* What the answer of a call says of the role.
OrgSays(of, g, c) == /\ c.op = "drop" => g.roles[c.arg.id] = None
                     /\ c.op \in {"create", "update"} => g.roles[c.arg.id] # None /\ c.val = Organized(of)!Row(g, c.arg.id)
OrgAsked(u, n) ==
  u.asked # None => (\E r \in u.roles : r.id = u.asked) /\ \A c \in n : OrgOfRole(c) => c.arg.id # u.asked
OrgOnce(u, n) ==
  /\ \A r, s \in u.roles : r.id = s.id => r = s
  /\ \A c, d \in n : OrgOfRole(c) /\ OrgOfRole(d) /\ c.arg.id = d.arg.id => c = d
  /\ \A c \in n : OrgOfRole(c) => ((c.op # "create") <=> \E r \in u.roles : r.id = c.arg.id)
OrgShown(of, g, u, n) ==
  /\ \A c \in n : OrgOfRole(c) /\ c.at = "ok" /\ c.arg.id \notin g.strays => OrgSays(of, g, c)
  /\ \A id \in of.ids \ g.strays : (\A c \in n : OrgOfRole(c) /\ c.arg.id = id => c.at # "ok") => OrgAgree(of, g, u, id)
OrgPage(of, g, u, n) == u.route = "roles" => OrgAsked(u, n) /\ OrgOnce(u, n) /\ OrgShown(of, g, u, n)
OrgInv(of) == /\ OrgGw(of, gw) /\ OrgUi(of, ui) /\ \A c \in net : OrgCall(of, ui.route, c)
              /\ OrgPage(of, gw, ui, net)

LEMMA OrgRoutes ==
  ASSUME NEW of, NEW u, OrgUi(of, u)
  PROVE  /\ u.route = "organization" => u \in OrgDirectory(of)
         /\ u.route = "user" => u \in OrgUser(of)
         /\ u.route = "roles" => u \in OrgRoles(of)
BY DEF OrgUi, OrgDirectory, OrgUser, OrgRoles, Organized!Elsewhere

LEMMA OrgTyped == ASSUME NEW of, OrgInv(of) PROVE Organized(of)!TypeOK /\ Organized(of)!AttachedRolesExist
<1>1. OrgGw(of, gw) /\ OrgUi(of, ui)
  BY DEF OrgInv
<1>2. Organized(of)!TypeOK
  BY <1>1 DEF OrgGw, OrgRole, OrgUi, OrgDirectory, OrgUser, OrgRoles, OrgDraft, Organized!TypeOK
<1>3. ASSUME NEW u \in of.users, gw.users[u] # None PROVE gw.users[u].policy \in Organized(of)!Stored \cup {None}
  <2>1. gw.users[u] \in Organized(of)!UserRow
    BY <1>1, <1>3 DEF OrgGw
  <2> QED BY <1>1, <1>3, <2>1 DEF OrgGw, Organized!UserRow, Organized!Stored
<1> QED BY <1>2, <1>3 DEF Organized!AttachedRolesExist

LEMMA OrgFaithful == ASSUME NEW of, OrgInv(of) PROVE Organized(of)!RolesAsStored
<1> SUFFICES ASSUME ui.route = "roles" PROVE
             /\ \A r, s \in ui.roles : r.id = s.id => r = s
             /\ \A id \in of.ids \ gw.strays :
                  ~Organized(of)!Busy(id) /\ ~Organized(of)!Waiting("create")
                    => {r \in ui.roles : r.id = id} = {Organized(of)!Row(gw, i) : i \in {id} \cap Organized(of)!Stored}
  BY DEF Organized!RolesAsStored, Organized!OnRoles
<1>1. OrgOnce(ui, net) /\ OrgShown(of, gw, ui, net)
  BY DEF OrgInv, OrgPage
<1>2. ASSUME NEW id \in of.ids \ gw.strays, ~Organized(of)!Busy(id), ~Organized(of)!Waiting("create")
      PROVE  {r \in ui.roles : r.id = id} = {Organized(of)!Row(gw, i) : i \in {id} \cap Organized(of)!Stored}
  <2>1. \A c \in net : OrgOfRole(c) => c.arg.id # id
    BY <1>2 DEF Organized!Busy, Organized!Waiting, Organized!CallsOf, OrgOfRole
  <2>2. OrgAgree(of, gw, ui, id)
    BY <1>1, <2>1 DEF OrgShown
  <2>3. CASE gw.roles[id] = None
    <3>1. {id} \cap Organized(of)!Stored = {}
      BY <2>3 DEF Organized!Stored
    <3>2. {r \in ui.roles : r.id = id} = {}
      BY <2>2, <2>3 DEF OrgAgree
    <3> QED BY <3>1, <3>2
  <2>4. CASE gw.roles[id] # None
    <3>1. {id} \cap Organized(of)!Stored = {id}
      BY <2>4 DEF Organized!Stored
    <3>2. {r \in ui.roles : r.id = id} = {Organized(of)!Row(gw, id)}
      BY <2>2, <2>4 DEF OrgAgree
    <3> QED BY <3>1, <3>2
  <2> QED BY <2>3, <2>4
<1> QED BY <1>1, <1>2 DEF OrgOnce

LEMMA OrgInit == ASSUME NEW of, Organized(of)!ConstantsOK, Organized(of)!Init PROVE OrgInv(of)
<1>1. OrgGw(of, gw)
  <2>1. gw \in [users: [of.users -> Organized(of)!UserRow \cup {None}], roles: [of.ids -> OrgRole(of) \cup {None}],
                strays: SUBSET of.ids, events: {gw.events}]
    BY DEF Organized!Init, Organized!UserRow, OrgRole
  <2>2. \A id \in of.system : gw.roles[id] # None
    BY DEF Organized!Init, Organized!Stored
  <2>3. \A u \in of.users : gw.users[u].policy # None => gw.roles[gw.users[u].policy] # None
    BY DEF Organized!Init, Organized!Stored
  <2> QED BY <2>1, <2>2, <2>3 DEF OrgGw
<1>2. ui = Organized(of)!Elsewhere /\ net = {}
  BY DEF Organized!Init
<1>3. ui.route # "roles"
  BY <1>2 DEF Organized!Elsewhere
<1> QED BY <1>1, <1>2, <1>3 DEF OrgInv, OrgUi, OrgPage

-----------------------------------------------------------------------------
\* What the handlers make of the rows.
OrgEffect(of, g, k, c) ==
  /\ OrgGw(of, k) /\ k.strays = g.strays /\ k.events = g.events
  /\ \A id \in of.ids : id \notin Organized(of)!OfRole(c) => k.roles[id] = g.roles[id]
  /\ c.op = "drop" => k.roles[c.arg.id] = None
  /\ c.op \in {"create", "update"} => k.roles[c.arg.id] \in OrgRole(of) /\ k.roles[c.arg.id] # None

LEMMA OrgSetUser ==
  ASSUME NEW of, OrgGw(of, gw), NEW u \in of.users, NEW row \in Organized(of)!UserRow \cup {None},
         row # None /\ row.policy # None => gw.roles[row.policy] # None, NEW k, k = Organized(of)!SetUser(gw, u, row)
  PROVE  OrgGw(of, k) /\ k.strays = gw.strays /\ k.events = gw.events /\ k.roles = gw.roles
<1>1. PICK s : s = [gw.users EXCEPT ![u] = row]
  OBVIOUS
<1>2. k = [gw EXCEPT !.users = s]
  BY <1>1 DEF Organized!SetUser
<1>3. s \in [of.users -> Organized(of)!UserRow \cup {None}] /\ s[u] = row /\ \A v \in of.users \ {u} : s[v] = gw.users[v]
  BY <1>1 DEF OrgGw
<1>4. k.users = s /\ k.roles = gw.roles /\ k.strays = gw.strays /\ k.events = gw.events
  BY <1>2 DEF OrgGw
<1>5. k \in [users: [of.users -> Organized(of)!UserRow \cup {None}], roles: [of.ids -> OrgRole(of) \cup {None}],
             strays: SUBSET of.ids, events: {k.events}]
  BY <1>2, <1>3, <1>4 DEF OrgGw
<1>6. ASSUME NEW v \in of.users, s[v] # None, s[v].policy # None PROVE gw.roles[s[v].policy] # None
  BY <1>3, <1>6 DEF OrgGw
<1> QED BY <1>4, <1>5, <1>6 DEF OrgGw

LEMMA OrgSetRole ==
  ASSUME NEW of, Organized(of)!ConstantsOK, OrgGw(of, gw), NEW id \in of.ids, NEW role \in OrgRole(of),
         NEW k, k = Organized(of)!SetRole(gw, id, role)
  PROVE  /\ OrgGw(of, k) /\ k.strays = gw.strays /\ k.events = gw.events /\ k.roles[id] = role /\ role # None
         /\ \A i \in of.ids \ {id} : k.roles[i] = gw.roles[i]
<1>1. PICK s : s = [gw.roles EXCEPT ![id] = role]
  OBVIOUS
<1>2. k = [gw EXCEPT !.roles = s]
  BY <1>1 DEF Organized!SetRole
<1>3. role # None
  BY DEF Organized!ConstantsOK, OrgRole
<1>4. s \in [of.ids -> OrgRole(of) \cup {None}] /\ s[id] = role /\ \A i \in of.ids \ {id} : s[i] = gw.roles[i]
  BY <1>1 DEF OrgGw
<1>5. k.users = gw.users /\ k.roles = s /\ k.strays = gw.strays /\ k.events = gw.events
  BY <1>2 DEF OrgGw
<1>6. k \in [users: [of.users -> Organized(of)!UserRow \cup {None}], roles: [of.ids -> OrgRole(of) \cup {None}],
             strays: SUBSET of.ids, events: {k.events}]
  BY <1>2, <1>4, <1>5 DEF OrgGw
<1>7. \A i \in of.ids : gw.roles[i] # None => s[i] # None
  BY <1>3, <1>4
<1>8. \A i \in of.system : s[i] # None
  BY <1>7 DEF OrgGw, Organized!ConstantsOK
<1>9. ASSUME NEW v \in of.users, gw.users[v] # None, gw.users[v].policy # None PROVE s[gw.users[v].policy] # None
  <2>1. gw.users[v] \in Organized(of)!UserRow
    BY <1>9 DEF OrgGw
  <2>2. gw.users[v].policy \in of.ids /\ gw.roles[gw.users[v].policy] # None
    BY <1>9, <2>1 DEF OrgGw, Organized!UserRow
  <2> QED BY <1>7, <2>2
<1> QED BY <1>3, <1>4, <1>5, <1>6, <1>8, <1>9 DEF OrgGw

LEMMA OrgDropRole ==
  ASSUME NEW of, Organized(of)!ConstantsOK, OrgGw(of, gw), NEW id \in of.ids, id \notin of.system,
         NEW k, k = Organized(of)!DropRole(gw, id)
  PROVE  /\ OrgGw(of, k) /\ k.strays = gw.strays /\ k.events = gw.events /\ k.roles[id] = None
         /\ \A i \in of.ids \ {id} : k.roles[i] = gw.roles[i]
<1>1. PICK s : s = [gw.roles EXCEPT ![id] = None]
  OBVIOUS
<1>2. PICK w : w = [u \in of.users |-> IF gw.users[u] # None /\ gw.users[u].policy = id
                                        THEN [gw.users[u] EXCEPT !.policy = None] ELSE gw.users[u]]
  OBVIOUS
<1>3. k = [gw EXCEPT !.roles = s, !.users = w]
  BY <1>1, <1>2 DEF Organized!DropRole, Organized!SetRole, OrgGw
<1>4. s \in [of.ids -> OrgRole(of) \cup {None}] /\ s[id] = None /\ \A i \in of.ids \ {id} : s[i] = gw.roles[i]
  BY <1>1 DEF OrgGw
<1>5. ASSUME NEW u \in of.users
      PROVE  /\ w[u] \in Organized(of)!UserRow \cup {None}
             /\ w[u] # None /\ w[u].policy # None => gw.users[u] # None /\ w[u].policy = gw.users[u].policy /\ w[u].policy # id
  <2>1. gw.users[u] \in Organized(of)!UserRow \cup {None}
    BY DEF OrgGw
  <2>2. CASE gw.users[u] # None /\ gw.users[u].policy = id
    <3>1. w[u] = [gw.users[u] EXCEPT !.policy = None]
      BY <1>2, <2>2
    <3>2. w[u] \in Organized(of)!UserRow /\ w[u].policy = None
      BY <2>1, <2>2, <3>1 DEF Organized!UserRow
    <3> QED BY <3>2
  <2>3. CASE ~(gw.users[u] # None /\ gw.users[u].policy = id)
    BY <1>2, <2>1, <2>3
  <2> QED BY <2>2, <2>3
<1>6. w \in [of.users -> Organized(of)!UserRow \cup {None}]
  BY <1>2, <1>5
<1>7. k.users = w /\ k.roles = s /\ k.strays = gw.strays /\ k.events = gw.events
  BY <1>3 DEF OrgGw
<1>8. k \in [users: [of.users -> Organized(of)!UserRow \cup {None}], roles: [of.ids -> OrgRole(of) \cup {None}],
             strays: SUBSET of.ids, events: {k.events}]
  BY <1>3, <1>4, <1>6, <1>7 DEF OrgGw
<1>9. \A i \in of.system : s[i] # None
  BY <1>4 DEF OrgGw, Organized!ConstantsOK
<1>10. ASSUME NEW v \in of.users, w[v] # None, w[v].policy # None PROVE s[w[v].policy] # None
  <2>1. gw.users[v] # None /\ w[v].policy = gw.users[v].policy /\ w[v].policy # id /\ w[v] \in Organized(of)!UserRow
    BY <1>5, <1>10
  <2>2. w[v].policy \in of.ids /\ gw.roles[w[v].policy] # None
    BY <1>10, <2>1 DEF OrgGw, Organized!UserRow
  <2> QED BY <1>4, <2>1, <2>2
<1> QED BY <1>4, <1>7, <1>8, <1>9, <1>10 DEF OrgGw

LEMMA OrgEffects ==
  ASSUME NEW of, Organized(of)!ConstantsOK, OrgGw(of, gw), NEW c, c.op \in OrgOps, OrgArg(of, c),
         NEW actor, Organized(of)!Accepts(c, actor), NEW k, k = Organized(of)!Effect(c)
  PROVE  OrgEffect(of, gw, k, c)
<1>1. CASE c.op = "tier"
  <2>1. PICK row : row = gw.users[c.arg.user]
    OBVIOUS
  <2>2. c.arg.user \in of.users /\ c.arg.to \in Organized(of)!Tiers /\ row \in Organized(of)!UserRow
    BY <1>1, <2>1 DEF OrgArg, OrgGw, Organized!Accepts
  <2>3. PICK new : new = Organized(of)!Promoted(row, c.arg.to)
    OBVIOUS
  <2>4. new \in Organized(of)!UserRow /\ (new.policy = row.policy \/ new.policy = of.full)
    BY <2>2, <2>3 DEF Organized!Promoted, Organized!UserRow, Organized!ConstantsOK
  <2>5. new.policy # None => gw.roles[new.policy] # None
    BY <1>1, <2>1, <2>2, <2>4 DEF OrgGw, Organized!ConstantsOK, Organized!Accepts
  <2>6. k = Organized(of)!SetUser(gw, c.arg.user, new)
    BY <1>1, <2>1, <2>3 DEF Organized!Effect
  <2>7. OrgGw(of, k) /\ k.strays = gw.strays /\ k.events = gw.events /\ k.roles = gw.roles
    BY <2>2, <2>4, <2>5, <2>6, OrgSetUser
  <2> QED BY <1>1, <2>7 DEF OrgEffect
<1>2. CASE c.op = "policy"
  <2>1. PICK row : row = gw.users[c.arg.user]
    OBVIOUS
  <2>2. c.arg.user \in of.users /\ c.arg.to \in Organized(of)!Stored \cup {None} /\ row \in Organized(of)!UserRow
    BY <1>2, <2>1 DEF OrgArg, OrgGw, Organized!Accepts
  <2>3. PICK new : new = [row EXCEPT !.policy = c.arg.to]
    OBVIOUS
  <2>4. new \in Organized(of)!UserRow /\ new.policy = c.arg.to
    BY <2>2, <2>3 DEF Organized!UserRow, Organized!Stored
  <2>5. new.policy # None => gw.roles[new.policy] # None
    BY <2>2, <2>4 DEF Organized!Stored
  <2>6. k = Organized(of)!SetUser(gw, c.arg.user, new)
    BY <1>2, <2>1, <2>3 DEF Organized!Effect
  <2>7. OrgGw(of, k) /\ k.strays = gw.strays /\ k.events = gw.events /\ k.roles = gw.roles
    BY <2>2, <2>4, <2>5, <2>6, OrgSetUser
  <2> QED BY <1>2, <2>7 DEF OrgEffect
<1>3. CASE c.op = "delete"
  <2>1. c.arg.user \in of.users
    BY <1>3 DEF OrgArg
  <2>2. k = Organized(of)!SetUser(gw, c.arg.user, None)
    BY <1>3 DEF Organized!Effect
  <2>3. OrgGw(of, k) /\ k.strays = gw.strays /\ k.events = gw.events /\ k.roles = gw.roles
    BY <2>1, <2>2, OrgSetUser
  <2> QED BY <1>3, <2>3 DEF OrgEffect
<1>4. CASE c.op = "create"
  <2>1. PICK role : role = Organized(of)!Record(c.arg)
    OBVIOUS
  <2>2. c.arg.id \in of.ids /\ role \in OrgRole(of)
    BY <1>4, <2>1 DEF OrgArg, Organized!Record, OrgRole
  <2>3. k = Organized(of)!SetRole(gw, c.arg.id, role)
    BY <1>4, <2>1 DEF Organized!Effect
  <2>4. /\ OrgGw(of, k) /\ k.strays = gw.strays /\ k.events = gw.events /\ k.roles[c.arg.id] = role /\ role # None
        /\ \A i \in of.ids \ {c.arg.id} : k.roles[i] = gw.roles[i]
    BY <2>2, <2>3, OrgSetRole
  <2> QED BY <1>4, <2>2, <2>4 DEF OrgEffect, Organized!OfRole
<1>5. CASE c.op = "drop"
  <2>1. c.arg.id \in of.ids /\ c.arg.id \notin of.system
    BY <1>5 DEF OrgArg, Organized!Accepts, Organized!Stored
  <2>2. k = Organized(of)!DropRole(gw, c.arg.id)
    BY <1>5 DEF Organized!Effect
  <2>3. /\ OrgGw(of, k) /\ k.strays = gw.strays /\ k.events = gw.events /\ k.roles[c.arg.id] = None
        /\ \A i \in of.ids \ {c.arg.id} : k.roles[i] = gw.roles[i]
    BY <2>1, <2>2, OrgDropRole
  <2> QED BY <1>5, <2>3 DEF OrgEffect, Organized!OfRole
<1>6. CASE c.op = "update"
  <2>1. c.arg.id \in of.ids /\ c.arg.name \in of.names \cup {None} /\ c.arg.sections \in (SUBSET of.sections) \cup {None}
    BY <1>6 DEF OrgArg
  <2>2. gw.roles[c.arg.id] \in OrgRole(of)
    BY <1>6, <2>1 DEF OrgGw, Organized!Accepts, Organized!Stored
  <2>3. PICK n, s : /\ n = (IF c.arg.name = None THEN gw.roles[c.arg.id].name ELSE c.arg.name)
                    /\ s = (IF c.arg.sections = None THEN gw.roles[c.arg.id].sections ELSE c.arg.sections)
    OBVIOUS
  <2>4. PICK role : role = [name |-> n, sections |-> s]
    OBVIOUS
  <2>5. role \in OrgRole(of)
    <3>1. n \in of.names
      BY <2>1, <2>2, <2>3 DEF OrgRole
    <3>2. s \in SUBSET of.sections
      BY <2>1, <2>2, <2>3 DEF OrgRole
    <3> QED BY <2>4, <3>1, <3>2 DEF OrgRole
  <2>6. k = Organized(of)!SetRole(gw, c.arg.id, role)
    BY <1>6, <2>3, <2>4 DEF Organized!Effect
  <2>7. /\ OrgGw(of, k) /\ k.strays = gw.strays /\ k.events = gw.events /\ k.roles[c.arg.id] = role /\ role # None
        /\ \A i \in of.ids \ {c.arg.id} : k.roles[i] = gw.roles[i]
    BY <2>1, <2>5, <2>6, OrgSetRole
  <2> QED BY <1>6, <2>5, <2>7 DEF OrgEffect, Organized!OfRole
<1>7. c.op # "refresh"
  BY DEF Organized!Accepts
<1> QED BY <1>1, <1>2, <1>3, <1>4, <1>5, <1>6, <1>7 DEF OrgOps

-----------------------------------------------------------------------------
(* How the page of the roles keeps up *)

LEMMA OrgSameCalls ==
  ASSUME NEW of, NEW g, NEW u, NEW n, NEW m, OrgPage(of, g, u, n), \A c : OrgOfRole(c) => (c \in n <=> c \in m)
  PROVE  OrgPage(of, g, u, m)
<1> SUFFICES ASSUME u.route = "roles" PROVE OrgAsked(u, m) /\ OrgOnce(u, m) /\ OrgShown(of, g, u, m)
  BY DEF OrgPage
<1>1. OrgAsked(u, n) /\ OrgOnce(u, n) /\ OrgShown(of, g, u, n)
  BY DEF OrgPage
<1>2. OrgAsked(u, m)
  BY <1>1 DEF OrgAsked
<1>3. OrgOnce(u, m)
  BY <1>1 DEF OrgOnce
<1>4. OrgShown(of, g, u, m)
  BY <1>1 DEF OrgShown
<1> QED BY <1>2, <1>3, <1>4

\* Roles that change behind the page are strays.
LEMMA OrgStrays ==
  ASSUME NEW of, NEW g, NEW k, NEW u, NEW n, OrgPage(of, g, u, n), g.strays \subseteq k.strays,
         \A c \in n : OrgOfRole(c) => c.arg.id \in of.ids, \A id \in of.ids \ k.strays : k.roles[id] = g.roles[id]
  PROVE  OrgPage(of, k, u, n)
<1> SUFFICES ASSUME u.route = "roles" PROVE OrgAsked(u, n) /\ OrgOnce(u, n) /\ OrgShown(of, k, u, n)
  BY DEF OrgPage
<1>1. OrgAsked(u, n) /\ OrgOnce(u, n) /\ OrgShown(of, g, u, n)
  BY DEF OrgPage
<1>2. ASSUME NEW c \in n, OrgOfRole(c), c.at = "ok", c.arg.id \notin k.strays PROVE OrgSays(of, k, c)
  <2>1. OrgSays(of, g, c) /\ k.roles[c.arg.id] = g.roles[c.arg.id]
    BY <1>1, <1>2 DEF OrgShown
  <2> QED BY <2>1 DEF OrgSays, Organized!Row
<1>3. ASSUME NEW id \in of.ids \ k.strays, \A c \in n : OrgOfRole(c) /\ c.arg.id = id => c.at # "ok" PROVE OrgAgree(of, k, u, id)
  <2>1. OrgAgree(of, g, u, id) /\ k.roles[id] = g.roles[id]
    BY <1>1, <1>3 DEF OrgShown
  <2> QED BY <2>1 DEF OrgAgree, Organized!Row
<1> QED BY <1>1, <1>2, <1>3 DEF OrgShown

\* A call that leaves is about a role nothing else is about.
LEMMA OrgSends ==
  ASSUME NEW of, NEW g, NEW u, NEW n, OrgPage(of, g, u, n), NEW c, OrgOfRole(c), c.at = "sent",
         \A d \in n : OrgOfRole(d) => d.arg.id # c.arg.id, u.asked # c.arg.id,
         (c.op # "create") <=> \E r \in u.roles : r.id = c.arg.id
  PROVE  OrgPage(of, g, u, n \cup {c})
<1> SUFFICES ASSUME u.route = "roles" PROVE OrgAsked(u, n \cup {c}) /\ OrgOnce(u, n \cup {c}) /\ OrgShown(of, g, u, n \cup {c})
  BY DEF OrgPage
<1>1. OrgAsked(u, n) /\ OrgOnce(u, n) /\ OrgShown(of, g, u, n)
  BY DEF OrgPage
<1>2. OrgAsked(u, n \cup {c})
  BY <1>1 DEF OrgAsked
<1>3. OrgOnce(u, n \cup {c})
  BY <1>1 DEF OrgOnce
<1>4. OrgShown(of, g, u, n \cup {c})
  BY <1>1 DEF OrgShown
<1> QED BY <1>2, <1>3, <1>4

\* An answer takes the place of its call: the role is then what it says.
LEMMA OrgAnswers ==
  ASSUME NEW of, NEW g, NEW k, NEW u, NEW n, OrgPage(of, g, u, n), k.strays = g.strays,
         \A d \in n : OrgOfRole(d) => d.arg.id \in of.ids, NEW c \in n, OrgOfRole(c),
         NEW a, OrgOfRole(a), a.op = c.op, a.arg = c.arg, a.at = "ok", OrgSays(of, k, a),
         \A id \in of.ids \ {c.arg.id} : k.roles[id] = g.roles[id]
  PROVE  OrgPage(of, k, u, (n \ {c}) \cup {a})
<1> DEFINE m == (n \ {c}) \cup {a}
<1> SUFFICES ASSUME u.route = "roles" PROVE OrgAsked(u, m) /\ OrgOnce(u, m) /\ OrgShown(of, k, u, m)
  BY DEF OrgPage
<1>1. OrgAsked(u, n) /\ OrgOnce(u, n) /\ OrgShown(of, g, u, n)
  BY DEF OrgPage
<1>2. OrgAsked(u, m)
  BY <1>1 DEF OrgAsked
<1>3. \A d \in n \ {c} : OrgOfRole(d) => d.arg.id # c.arg.id
  BY <1>1 DEF OrgOnce
<1>4. OrgOnce(u, m)
  BY <1>1, <1>3 DEF OrgOnce
<1>5. ASSUME NEW d \in m, OrgOfRole(d), d.at = "ok", d.arg.id \notin k.strays PROVE OrgSays(of, k, d)
  <2>1. CASE d = a
    BY <2>1
  <2>2. CASE d # a
    <3>1. d \in n /\ d.arg.id # c.arg.id /\ d.arg.id \in of.ids
      BY <1>3, <1>5, <2>2
    <3>2. OrgSays(of, g, d) /\ k.roles[d.arg.id] = g.roles[d.arg.id]
      BY <1>1, <1>5, <3>1 DEF OrgShown
    <3> QED BY <3>2 DEF OrgSays, Organized!Row
  <2> QED BY <2>1, <2>2
<1>6. ASSUME NEW id \in of.ids \ k.strays, \A d \in m : OrgOfRole(d) /\ d.arg.id = id => d.at # "ok" PROVE OrgAgree(of, k, u, id)
  <2>1. id # c.arg.id
    BY <1>6
  <2>2. \A d \in n : OrgOfRole(d) /\ d.arg.id = id => d.at # "ok"
    BY <1>6, <2>1
  <2>3. OrgAgree(of, g, u, id) /\ k.roles[id] = g.roles[id]
    BY <1>1, <2>1, <2>2 DEF OrgShown
  <2> QED BY <2>3 DEF OrgAgree, Organized!Row
<1> QED BY <1>2, <1>4, <1>5, <1>6 DEF OrgShown

\* A failure leaves the page with what it shows.
LEMMA OrgFails ==
  ASSUME NEW of, NEW g, NEW u, NEW n, OrgPage(of, g, u, n), NEW c \in n, OrgOfRole(c), c.at = "sent",
         NEW f, OrgOfRole(f), f.op = c.op, f.arg = c.arg, f.at = "failed"
  PROVE  OrgPage(of, g, u, (n \ {c}) \cup {f})
<1> DEFINE m == (n \ {c}) \cup {f}
<1> SUFFICES ASSUME u.route = "roles" PROVE OrgAsked(u, m) /\ OrgOnce(u, m) /\ OrgShown(of, g, u, m)
  BY DEF OrgPage
<1>1. OrgAsked(u, n) /\ OrgOnce(u, n) /\ OrgShown(of, g, u, n)
  BY DEF OrgPage
<1>2. OrgAsked(u, m)
  BY <1>1 DEF OrgAsked
<1>3. \A d \in n \ {c} : OrgOfRole(d) => d.arg.id # c.arg.id
  BY <1>1 DEF OrgOnce
<1>4. OrgOnce(u, m)
  BY <1>1, <1>3 DEF OrgOnce
<1>5. OrgShown(of, g, u, m)
  BY <1>1 DEF OrgShown
<1> QED BY <1>2, <1>4, <1>5

\* A continuation shows what the answer said, or, after a failure, what was shown.
LEMMA OrgContinues ==
  ASSUME NEW of, NEW g, NEW u, NEW v, NEW n, OrgPage(of, g, u, n), u.route = "roles", NEW c \in n, OrgOfRole(c),
         v.asked = u.asked,
         \A r : r.id # c.arg.id => (r \in v.roles <=> r \in u.roles),
         c.at # "ok" => v.roles = u.roles,
         c.at = "ok" /\ c.op = "drop" => \A r \in v.roles : r.id # c.arg.id,
         c.at = "ok" /\ c.op # "drop" => c.val.id = c.arg.id /\ c.val \in v.roles /\ \A r \in v.roles : r.id = c.arg.id => r = c.val
  PROVE  OrgPage(of, g, v, n \ {c})
<1>1. OrgAsked(u, n) /\ OrgOnce(u, n) /\ OrgShown(of, g, u, n)
  BY DEF OrgPage
<1>2. \A d \in n \ {c} : OrgOfRole(d) => d.arg.id # c.arg.id
  BY <1>1 DEF OrgOnce
<1>3. OrgAsked(v, n \ {c})
  BY <1>1 DEF OrgAsked
<1>4. OrgOnce(v, n \ {c})
  <2>1. ASSUME NEW r \in v.roles, NEW s \in v.roles, r.id = s.id PROVE r = s
    <3>1. CASE r.id # c.arg.id
      BY <1>1, <2>1, <3>1 DEF OrgOnce
    <3>2. CASE r.id = c.arg.id
      BY <1>1, <2>1, <3>2 DEF OrgOnce
    <3> QED BY <3>1, <3>2
  <2>2. \A d \in n \ {c} : OrgOfRole(d) => ((d.op # "create") <=> \E r \in v.roles : r.id = d.arg.id)
    <3> SUFFICES ASSUME NEW d \in n \ {c}, OrgOfRole(d) PROVE (d.op # "create") <=> \E r \in v.roles : r.id = d.arg.id
      OBVIOUS
    <3>1. (d.op # "create") <=> \E r \in u.roles : r.id = d.arg.id
      BY <1>1 DEF OrgOnce
    <3>2. (\E r \in v.roles : r.id = d.arg.id) <=> \E r \in u.roles : r.id = d.arg.id
      BY <1>2
    <3> QED BY <3>1, <3>2
  <2> QED BY <1>1, <2>1, <2>2 DEF OrgOnce
<1>5. ASSUME NEW id \in of.ids \ g.strays, \A d \in n \ {c} : OrgOfRole(d) /\ d.arg.id = id => d.at # "ok" PROVE OrgAgree(of, g, v, id)
  <2>1. CASE id # c.arg.id \/ c.at # "ok"
    <3>1. OrgAgree(of, g, u, id)
      BY <1>1, <1>5, <2>1 DEF OrgShown
    <3> QED BY <2>1, <3>1 DEF OrgAgree
  <2>2. CASE id = c.arg.id /\ c.at = "ok"
    <3>1. OrgSays(of, g, c)
      BY <1>1, <1>5, <2>2 DEF OrgShown
    <3> QED BY <2>2, <3>1 DEF OrgAgree, OrgSays, OrgOfRole
  <2> QED BY <2>1, <2>2
<1>6. OrgShown(of, g, v, n \ {c})
  BY <1>1, <1>5 DEF OrgShown
<1> QED BY <1>3, <1>4, <1>6 DEF OrgPage

-----------------------------------------------------------------------------
(* The steps of the pages *)

\* A page that opens asks for nothing, and the calls of the one before are orphans.
LEMMA OrgOpens ==
  ASSUME NEW of, OrgInv(of), OrgGw(of, gw'), net' \subseteq Organized(of)!Left, OrgUi(of, ui'),
         ui'.route = "roles" => /\ ui'.asked = None /\ \A r, s \in ui'.roles : r.id = s.id => r = s
                                /\ \A id \in of.ids \ gw'.strays : OrgAgree(of, gw', ui', id)
  PROVE  OrgInv(of)'
<1>1. ASSUME NEW c \in net' PROVE OrgCall(of, ui'.route, c) /\ ~c.live
  <2>1. PICK d \in net : c = [d EXCEPT !.live = FALSE]
    BY DEF Organized!Left, Organized!Orphans
  <2>2. OrgCall(of, ui.route, d)
    BY DEF OrgInv
  <2>3. /\ c \in [op: OrgOps, arg: {c.arg}, at: {"sent", "ok", "failed"}, val: {c.val}, live: BOOLEAN]
        /\ c.op = d.op /\ c.arg = d.arg /\ c.at = d.at /\ c.val = d.val /\ c.live = FALSE
    BY <2>1, <2>2 DEF OrgCall
  <2> QED BY <2>2, <2>3 DEF OrgCall, OrgArg
<1>2. \A c \in net' : ~OrgOfRole(c)
  BY <1>1 DEF OrgOfRole
<1>3. OrgPage(of, gw', ui', net')
  BY <1>2 DEF OrgPage, OrgAsked, OrgOnce, OrgShown
<1> QED BY <1>1, <1>3 DEF OrgInv

\* What the pages do is counted, and nothing else of the rows is touched.
OrgSame(of) == gw' = gw \/ Organized(of)!By(gw)
LEMMA OrgSameGw ==
  ASSUME NEW of, OrgGw(of, gw), OrgSame(of) PROVE OrgGw(of, gw') /\ gw'.roles = gw.roles /\ gw'.strays = gw.strays
<1>1. CASE gw' = gw
  BY <1>1
<1>2. CASE Organized(of)!By(gw)
  <2>1. PICK e : gw' = [gw EXCEPT !.events = e]
    BY <1>2 DEF Organized!By
  <2>2. /\ gw'.users = gw.users /\ gw'.roles = gw.roles /\ gw'.strays = gw.strays
        /\ gw' \in [users: [of.users -> Organized(of)!UserRow \cup {None}], roles: [of.ids -> OrgRole(of) \cup {None}],
                   strays: SUBSET of.ids, events: {gw'.events}]
    BY <2>1 DEF OrgGw
  <2> QED BY <2>2 DEF OrgGw
<1> QED BY <1>1, <1>2 DEF OrgSame

LEMMA OrgTurn ==
  ASSUME NEW of, OrgInv(of), OrgSame(of), OrgUi(of, ui'), ui'.route = ui.route, OrgPage(of, gw, ui', net'),
         \A c \in net' : c \in net \/ OrgCall(of, ui.route, c)
  PROVE  OrgInv(of)'
<1>1. OrgGw(of, gw') /\ gw'.roles = gw.roles /\ gw'.strays = gw.strays
  BY OrgSameGw DEF OrgInv
<1>2. \A c \in net' : OrgCall(of, ui'.route, c)
  BY DEF OrgInv
<1>3. \A c \in net' : OrgOfRole(c) => c.arg.id \in of.ids
  BY <1>2 DEF OrgCall, OrgArg, OrgOfRole
<1>4. OrgPage(of, gw', ui', net')
  BY <1>1, <1>3, OrgStrays
<1> QED BY <1>1, <1>2, <1>4 DEF OrgInv

LEMMA OrgNew ==
  ASSUME NEW of, NEW op \in OrgOps, NEW arg, NEW r, NEW c, c = Organized(of)!Call(op, arg), OrgArg(of, c),
         r = IF op \in {"drop", "create", "update"} THEN "roles" ELSE "user"
  PROVE  OrgCall(of, r, c) /\ c.op = op /\ c.arg = arg /\ c.at = "sent" /\ c.live
<1>1. c = [op |-> op, arg |-> arg, at |-> "sent", val |-> None, live |-> TRUE]
  BY DEF Organized!Call
<1>2. /\ c \in [op: OrgOps, arg: {c.arg}, at: {"sent", "ok", "failed"}, val: {c.val}, live: BOOLEAN]
      /\ c.op = op /\ c.arg = arg /\ c.at = "sent" /\ c.live
  BY <1>1
<1> QED BY <1>2 DEF OrgCall

LEMMA OrgNavigate == ASSUME NEW of, OrgInv(of), Organized(of)!Navigate PROVE OrgInv(of)'
<1>0. OrgGw(of, gw) /\ OrgUi(of, ui)
  BY DEF OrgInv
<1>1. CASE Organized(of)!OpenDirectory
  <2>1. PICK users \in {{u \in of.users : gw.users[u] # None}, {}} :
          ui' = Organized(of)!Directory(users) \/ ui' = Organized(of)!Elsewhere
    BY <1>1 DEF Organized!OpenDirectory, Organized!Shows
  <2>2. ui' \in OrgDirectory(of) \cup {Organized(of)!Elsewhere}
    BY <2>1 DEF Organized!Directory, OrgDirectory
  <2>3. OrgUi(of, ui') /\ ui'.route # "roles"
    BY <2>2 DEF OrgUi, OrgDirectory, Organized!Elsewhere
  <2> QED BY <1>0, <1>1, <2>3, OrgOpens DEF Organized!OpenDirectory
<1>2. CASE Organized(of)!OpenRoles
  <2>1. PICK rows, s : /\ ui' = Organized(of)!RolesPage(rows) \/ ui' = Organized(of)!Elsewhere
                       /\ gw' = [gw EXCEPT !.strays = s]
                       /\ \/ rows = {Organized(of)!Row(gw, id) : id \in Organized(of)!Stored} /\ s = {}
                          \/ rows = {} /\ s = of.ids
    <3>1. CASE /\ Organized(of)!Shows(Organized(of)!RolesPage({Organized(of)!Row(gw, id) : id \in Organized(of)!Stored}))
               /\ gw' = [gw EXCEPT !.strays = {}]
      BY <3>1 DEF Organized!Shows
    <3>2. CASE Organized(of)!Shows(Organized(of)!RolesPage({})) /\ gw' = [gw EXCEPT !.strays = of.ids]
      BY <3>2 DEF Organized!Shows
    <3> QED BY <1>2, <3>1, <3>2 DEF Organized!OpenRoles
  <2>2. s \subseteq of.ids
    BY <2>1
  <2>3. gw'.users = gw.users /\ gw'.roles = gw.roles /\ gw'.strays = s /\ gw'.events = gw.events
    BY <1>0, <2>1 DEF OrgGw
  <2>4. OrgGw(of, gw')
    BY <1>0, <2>1, <2>2, <2>3 DEF OrgGw
  <2>5. ASSUME NEW id \in Organized(of)!Stored
        PROVE  Organized(of)!Row(gw, id) \in Organized(of)!RoleRows /\ Organized(of)!Row(gw, id).id = id
    <3>1. id \in of.ids /\ gw.roles[id] \in OrgRole(of)
      BY <1>0 DEF OrgGw, Organized!Stored
    <3> QED BY <3>1 DEF OrgRole, Organized!RoleRows, Organized!Row
  <2>6. rows \subseteq Organized(of)!RoleRows
    BY <2>1, <2>5
  <2>7. PICK p : p = Organized(of)!RolesPage(rows)
    OBVIOUS
  <2>8. PICK d : d = Organized(of)!NoDraft
    OBVIOUS
  <2>9. d \in OrgDraft(of)
    BY <2>8 DEF Organized!NoDraft, OrgDraft
  <2>10. p = [route |-> "roles", roles |-> rows, asked |-> None, open |-> FALSE, draft |-> d]
    BY <2>7, <2>8 DEF Organized!RolesPage
  <2>11. p \in OrgRoles(of) /\ p.asked = None /\ p.roles = rows
    BY <2>6, <2>9, <2>10 DEF OrgRoles
  <2>12. OrgUi(of, ui') /\ (ui'.route = "roles" => ui' = p)
    BY <2>1, <2>7, <2>11 DEF OrgUi, Organized!Elsewhere
  <2>13. \A q, r \in rows : q.id = r.id => q = r
    BY <2>1, <2>5
  <2>14. ASSUME NEW id \in of.ids \ gw'.strays PROVE OrgAgree(of, gw', p, id)
    <3>1. rows = {Organized(of)!Row(gw, i) : i \in Organized(of)!Stored}
      BY <2>1, <2>3
    <3>2. \A r \in rows : r.id = id => gw.roles[id] # None /\ r = Organized(of)!Row(gw, id)
      BY <2>5, <3>1 DEF Organized!Stored
    <3>3. gw.roles[id] # None => Organized(of)!Row(gw, id) \in rows /\ Organized(of)!Row(gw, id).id = id
      BY <2>5, <3>1 DEF Organized!Stored
    <3>4. Organized(of)!Row(gw', id) = Organized(of)!Row(gw, id)
      BY <2>3 DEF Organized!Row
    <3> QED BY <2>3, <2>11, <3>2, <3>3, <3>4 DEF OrgAgree
  <2> QED BY <1>2, <2>4, <2>11, <2>12, <2>13, <2>14, OrgOpens DEF Organized!OpenRoles
<1>3. ASSUME NEW u \in of.users, Organized(of)!OpenUser(u) PROVE OrgInv(of)'
  <2>1. PICK p \in Organized(of)!Profile(u) \cup {Organized(of)!Elsewhere} : ui' = p \/ ui' = Organized(of)!Elsewhere
    BY <1>3 DEF Organized!OpenUser, Organized!Shows
  <2>2. p \in OrgUser(of) \cup {Organized(of)!Elsewhere}
    <3> SUFFICES ASSUME p \in Organized(of)!Profile(u) PROVE p \in OrgUser(of)
      BY <2>1
    <3>1. PICK choices \in {Organized(of)!Stored, {}} : p = Organized(of)!UserPage(u, choices) /\ gw.users[u] # None
      BY DEF Organized!Profile
    <3>2. choices \subseteq of.ids /\ gw.users[u] \in Organized(of)!UserRow
      BY <1>0, <3>1 DEF OrgGw, Organized!Stored
    <3> QED BY <3>1, <3>2 DEF Organized!UserPage, OrgUser
  <2>3. OrgUi(of, ui') /\ ui'.route # "roles"
    BY <2>1, <2>2 DEF OrgUi, OrgUser, Organized!Elsewhere
  <2> QED BY <1>0, <1>3, <2>3, OrgOpens DEF Organized!OpenUser
<1> QED BY <1>1, <1>2, <1>3 DEF Organized!Navigate

\* The page of a user makes no call about a role.
LEMMA OrgUserTurn ==
  ASSUME NEW of, OrgInv(of), OrgSame(of), ui.route = "user", ui' \in OrgUser(of),
         \A c \in net' : c \in net \/ OrgCall(of, "user", c)
  PROVE  OrgInv(of)'
<1>1. OrgUi(of, ui') /\ ui'.route = "user"
  BY DEF OrgUi, OrgUser
<1>2. OrgPage(of, gw, ui', net')
  BY <1>1 DEF OrgPage
<1> QED BY <1>1, <1>2, OrgTurn

LEMMA OrgUserStep == ASSUME NEW of, OrgInv(of), Organized(of)!UserStep PROVE OrgInv(of)'
<1>0. /\ OrgGw(of, gw) /\ OrgUi(of, ui) /\ \A c \in net : OrgCall(of, ui.route, c)
      /\ ui.route = "user" => ui \in OrgUser(of)
  BY OrgRoutes DEF OrgInv
<1>1. ASSUME NEW tier \in Organized(of)!Tiers, Organized(of)!SetTier(tier) PROVE OrgInv(of)'
  <2>1. PICK c : c = Organized(of)!Call("tier", [user |-> ui.user, to |-> tier])
    OBVIOUS
  <2>2. ui.route = "user" /\ ui' = ui /\ net' = net \cup {c} /\ Organized(of)!By(gw)
    BY <1>1, <2>1 DEF Organized!SetTier, Organized!OnUser, Organized!Send
  <2>3. ui.user \in of.users
    BY <1>0, <2>2 DEF OrgUser
  <2>4. OrgArg(of, c)
    BY <2>1, <2>3 DEF Organized!Call, OrgArg
  <2>5. OrgCall(of, "user", c)
    BY <2>1, <2>4, OrgNew DEF OrgOps
  <2> QED BY <1>0, <2>2, <2>5, OrgUserTurn DEF OrgSame
<1>2. ASSUME NEW id \in of.ids \cup {None}, Organized(of)!SetPolicy(id) PROVE OrgInv(of)'
  <2>1. PICK c : c = Organized(of)!Call("policy", [user |-> ui.user, to |-> id])
    OBVIOUS
  <2>2. ui.route = "user" /\ ui' = ui /\ net' = net \cup {c} /\ Organized(of)!By(gw)
    BY <1>2, <2>1 DEF Organized!SetPolicy, Organized!OnUser, Organized!Send
  <2>3. ui.user \in of.users
    BY <1>0, <2>2 DEF OrgUser
  <2>4. OrgArg(of, c)
    BY <2>1, <2>3 DEF Organized!Call, OrgArg
  <2>5. OrgCall(of, "user", c)
    BY <2>1, <2>4, OrgNew DEF OrgOps
  <2> QED BY <1>0, <2>2, <2>5, OrgUserTurn DEF OrgSame
<1>3. ASSUME NEW ask \in BOOLEAN, Organized(of)!AskDelete(ask) PROVE OrgInv(of)'
  <2>1. ui.route = "user" /\ ui' = [ui EXCEPT !.asked = ask] /\ net' = net /\ Organized(of)!By(gw)
    BY <1>3 DEF Organized!AskDelete, Organized!OnUser, Organized!Stay
  <2>2. ui' \in OrgUser(of)
    BY <1>0, <2>1 DEF OrgUser
  <2> QED BY <2>1, <2>2, OrgUserTurn DEF OrgSame
<1>4. CASE Organized(of)!DeleteUser
  <2>1. PICK c : c = Organized(of)!Call("delete", [user |-> ui.user])
    OBVIOUS
  <2>2. ui.route = "user" /\ ui' = [ui EXCEPT !.asked = FALSE] /\ net' = net \cup {c} /\ Organized(of)!By(gw)
    BY <1>4, <2>1 DEF Organized!DeleteUser, Organized!OnUser, Organized!Send
  <2>3. ui.user \in of.users /\ ui' \in OrgUser(of)
    BY <1>0, <2>2 DEF OrgUser
  <2>4. OrgArg(of, c)
    BY <2>1, <2>3 DEF Organized!Call, OrgArg
  <2>5. OrgCall(of, "user", c)
    BY <2>1, <2>4, OrgNew DEF OrgOps
  <2> QED BY <2>2, <2>3, <2>5, OrgUserTurn DEF OrgSame
<1>5. ASSUME NEW c \in net, Organized(of)!UserChanged(c) PROVE OrgInv(of)'
  <2>1. c.op \in {"tier", "policy"} /\ c.live /\ ui' = ui /\ gw' = gw
    BY <1>5 DEF Organized!UserChanged, Organized!Done
  <2>2. ui.route = "user" /\ c.arg.user \in of.users
    BY <1>0, <2>1 DEF OrgCall, OrgArg
  <2>3. PICK d : d = Organized(of)!Call("refresh", c.arg.user)
    OBVIOUS
  <2>4. \A e \in net' : e \in net \/ e = d
    BY <1>5, <2>3 DEF Organized!UserChanged
  <2>5. OrgArg(of, d)
    BY <2>2, <2>3 DEF Organized!Call, OrgArg
  <2>6. OrgCall(of, "user", d)
    BY <2>3, <2>5, OrgNew DEF OrgOps
  <2> QED BY <1>0, <2>1, <2>2, <2>4, <2>6, OrgUserTurn DEF OrgSame
<1>6. ASSUME NEW c \in net, Organized(of)!Rendered(c) PROVE OrgInv(of)'
  <2>1. /\ c.op = "refresh" /\ c.live /\ gw' = gw /\ net' = IF ui'.route = "user" THEN net \ {c} ELSE Organized(of)!Left
    BY <1>6 DEF Organized!Rendered
  <2>2. ui.route = "user" /\ c.arg \in of.users
    BY <1>0, <2>1 DEF OrgCall, OrgArg
  <2>3. PICK p \in Organized(of)!Profile(c.arg) : ui' = [p EXCEPT !.asked = ui.asked] \/ ui' = Organized(of)!Elsewhere
    BY <1>6 DEF Organized!Rendered, Organized!Shows
  <2>4. PICK choices \in {Organized(of)!Stored, {}} : p = Organized(of)!UserPage(c.arg, choices) /\ gw.users[c.arg] # None
    BY DEF Organized!Profile
  <2>5. choices \subseteq of.ids /\ gw.users[c.arg] \in Organized(of)!UserRow
    BY <1>0, <2>2, <2>4 DEF OrgGw, Organized!Stored
  <2>6. p \in OrgUser(of)
    BY <2>2, <2>4, <2>5 DEF Organized!UserPage, OrgUser
  <2>7. ui.asked \in BOOLEAN
    BY <1>0, <2>2 DEF OrgUser
  <2>8. CASE ui' = [p EXCEPT !.asked = ui.asked]
    <3>1. ui' \in OrgUser(of)
      BY <2>6, <2>7, <2>8 DEF OrgUser
    <3>2. ui'.route = "user"
      BY <3>1 DEF OrgUser
    <3> QED BY <2>1, <2>2, <3>1, <3>2, OrgUserTurn DEF OrgSame
  <2>9. CASE ui' = Organized(of)!Elsewhere
    <3>1. OrgUi(of, ui') /\ ui'.route = "elsewhere"
      BY <2>9 DEF OrgUi, Organized!Elsewhere
    <3> QED BY <1>0, <2>1, <3>1, OrgOpens
  <2> QED BY <2>3, <2>8, <2>9
<1>7. ASSUME NEW c \in net, Organized(of)!UserDeleted(c) PROVE OrgInv(of)'
  <2>1. c.op = "delete" /\ gw' = gw
    BY <1>7 DEF Organized!UserDeleted
  <2>2. CASE c.at = "ok"
    <3>1. PICK users : /\ users = {u \in of.users : gw.users[u] # None} /\ net' \subseteq Organized(of)!Left
                       /\ ui' = Organized(of)!Directory(users) \/ ui' = Organized(of)!Elsewhere
      BY <1>7, <2>2 DEF Organized!UserDeleted, Organized!Shows
    <3>2. ui' \in OrgDirectory(of) \cup {Organized(of)!Elsewhere}
      BY <3>1 DEF Organized!Directory, OrgDirectory
    <3>3. OrgUi(of, ui') /\ ui'.route # "roles"
      BY <3>2 DEF OrgUi, OrgDirectory, Organized!Elsewhere
    <3> QED BY <1>0, <2>1, <3>1, <3>3, OrgOpens
  <2>3. CASE c.at # "ok"
    <3>1. ui' = ui /\ net' = net \ {c}
      BY <1>7, <2>3 DEF Organized!UserDeleted
    <3>2. \A d : OrgOfRole(d) => (d \in net <=> d \in net')
      BY <2>1, <3>1 DEF OrgOfRole
    <3>3. OrgPage(of, gw, ui', net')
      BY <3>1, <3>2, OrgSameCalls DEF OrgInv
    <3> QED BY <1>0, <2>1, <3>1, <3>3, OrgTurn DEF OrgSame
  <2> QED BY <2>2, <2>3
<1> QED BY <1>1, <1>2, <1>3, <1>4, <1>5, <1>6, <1>7 DEF Organized!UserStep

-----------------------------------------------------------------------------
\* The page of the roles without its calls.
LEMMA OrgQuiet ==
  ASSUME NEW of, NEW g, NEW u, NEW v, NEW n, OrgPage(of, g, u, n), u.route = "roles", v.route = "roles", v.roles = u.roles,
         v.asked = u.asked \/ v.asked = None \/ OrgAsked(v, n)
  PROVE  OrgPage(of, g, v, n)
<1>1. OrgAsked(u, n) /\ OrgOnce(u, n) /\ OrgShown(of, g, u, n)
  BY DEF OrgPage
<1>2. OrgAsked(v, n)
  BY <1>1 DEF OrgAsked
<1>3. OrgOnce(v, n)
  BY <1>1 DEF OrgOnce
<1>4. OrgShown(of, g, v, n)
  BY <1>1 DEF OrgShown, OrgAgree
<1> QED BY <1>2, <1>3, <1>4 DEF OrgPage

LEMMA OrgRoleTurn ==
  ASSUME NEW of, OrgInv(of), OrgSame(of), ui.route = "roles", ui' \in OrgRoles(of), OrgPage(of, gw, ui', net'),
         \A c \in net' : c \in net \/ OrgCall(of, "roles", c)
  PROVE  OrgInv(of)'
<1>1. OrgUi(of, ui') /\ ui'.route = "roles"
  BY DEF OrgUi, OrgRoles
<1> QED BY <1>1, OrgTurn

\* Nothing is about a role whose card is idle.
LEMMA OrgIdle ==
  ASSUME NEW of, OrgInv(of), NEW r, Organized(of)!Idle(r)
  PROVE  /\ ui.route = "roles" /\ ui.asked = None /\ ~ui.open /\ r \in ui.roles /\ r \in Organized(of)!RoleRows
         /\ \A c \in net : OrgOfRole(c) => c.arg.id # r.id
<1>1. ui.route = "roles" /\ ui.asked = None /\ ~ui.open /\ r \in ui.roles /\ ~Organized(of)!Busy(r.id)
  BY DEF Organized!Idle, Organized!OnRoles, Organized!NoDialog
<1>2. r \in Organized(of)!RoleRows
  BY <1>1, OrgRoutes DEF OrgInv, OrgRoles
<1>3. OrgOnce(ui, net)
  BY <1>1 DEF OrgInv, OrgPage
<1>4. ASSUME NEW c \in net, OrgOfRole(c) PROVE c.arg.id # r.id
  <2>1. CASE c.op = "create"
    BY <1>1, <1>3, <1>4, <2>1 DEF OrgOnce
  <2>2. CASE c.op \in {"update", "drop"}
    BY <1>1, <1>4, <2>2 DEF OrgOfRole, Organized!Busy, Organized!CallsOf
  <2> QED BY <1>4, <2>1, <2>2 DEF OrgOfRole
<1> QED BY <1>1, <1>2, <1>4

LEMMA OrgRoleSends ==
  ASSUME NEW of, OrgInv(of), OrgSame(of), ui.route = "roles", NEW c, OrgCall(of, "roles", c), OrgOfRole(c), c.at = "sent",
         ui' \in OrgRoles(of), OrgPage(of, gw, ui', net), ui'.asked = None \/ ui'.asked # c.arg.id, c.arg.id # None,
         \A d \in net : OrgOfRole(d) => d.arg.id # c.arg.id,
         (c.op # "create") <=> \E r \in ui'.roles : r.id = c.arg.id,
         net' = net \cup {c}
  PROVE  OrgInv(of)'
<1>1. OrgPage(of, gw, ui', net \cup {c})
  BY OrgSends
<1> QED BY <1>1, OrgRoleTurn

LEMMA OrgCards ==
  ASSUME NEW of, Organized(of)!ConstantsOK, OrgInv(of), NEW r,
         \/ \E s \in of.sections : Organized(of)!ToggleSection(r, s)
         \/ \E name \in of.names : Organized(of)!Rename(r, name)
         \/ Organized(of)!AskDrop(r)
  PROVE  OrgInv(of)'
<1>1. /\ ui.route = "roles" /\ ui.asked = None /\ ~ui.open /\ r \in ui.roles /\ r \in Organized(of)!RoleRows
      /\ \A c \in net : OrgOfRole(c) => c.arg.id # r.id
  BY OrgIdle DEF Organized!ToggleSection, Organized!Rename, Organized!AskDrop
<1>2. ui \in OrgRoles(of) /\ OrgPage(of, gw, ui, net)
  BY <1>1, OrgRoutes DEF OrgInv
<1>3. r.id \in of.ids /\ r.name \in of.names /\ r.sections \in SUBSET of.sections
  BY <1>1 DEF Organized!RoleRows
<1>4. ASSUME NEW name \in of.names \cup {None}, NEW sections \in (SUBSET of.sections) \cup {None}, ui' = ui, Organized(of)!By(gw),
             net' = net \cup {Organized(of)!Call("update", [id |-> r.id, name |-> name, sections |-> sections])}
      PROVE  OrgInv(of)'
  <2>1. PICK c : c = Organized(of)!Call("update", [id |-> r.id, name |-> name, sections |-> sections])
    OBVIOUS
  <2>2. OrgArg(of, c)
    BY <1>3, <1>4, <2>1 DEF Organized!Call, OrgArg
  <2>3. OrgCall(of, "roles", c) /\ c.op = "update" /\ c.arg = [id |-> r.id, name |-> name, sections |-> sections] /\ c.at = "sent" /\ c.live
    BY <2>1, <2>2, OrgNew DEF OrgOps
  <2>4. OrgOfRole(c) /\ c.arg.id = r.id
    BY <2>3 DEF OrgOfRole
  <2>5. OrgPage(of, gw, ui, net \cup {c})
    <3>1. (c.op # "create") <=> \E s \in ui.roles : s.id = c.arg.id
      BY <1>1, <2>3, <2>4
    <3>2. CASE r.id # None
      BY <1>1, <1>2, <2>3, <2>4, <3>1, <3>2, OrgSends
    <3>3. CASE r.id = None
      <4>1. OrgAsked(ui, net \cup {c})
        BY <1>1 DEF OrgAsked
      <4>2. OrgOnce(ui, net) /\ OrgShown(of, gw, ui, net)
        BY <1>1, <1>2 DEF OrgPage
      <4>3. OrgOnce(ui, net \cup {c})
        BY <1>1, <2>4, <3>1, <4>2 DEF OrgOnce
      <4>4. OrgShown(of, gw, ui, net \cup {c})
        BY <2>3, <4>2 DEF OrgShown
      <4> QED BY <4>1, <4>3, <4>4 DEF OrgPage
    <3> QED BY <3>2, <3>3
  <2> QED BY <1>1, <1>2, <1>4, <2>1, <2>3, <2>5, OrgRoleTurn DEF OrgSame
<1>5. ASSUME NEW s \in of.sections, Organized(of)!ToggleSection(r, s) PROVE OrgInv(of)'
  <2>1. PICK sections : sections = (r.sections \cup {s}) \ (r.sections \cap {s})
    OBVIOUS
  <2>2. sections \in (SUBSET of.sections) \cup {None}
    BY <1>3, <2>1
  <2> QED BY <1>4, <1>5, <2>1, <2>2 DEF Organized!ToggleSection, Organized!Send
<1>6. ASSUME NEW name \in of.names, Organized(of)!Rename(r, name) PROVE OrgInv(of)'
  BY <1>4, <1>6 DEF Organized!Rename, Organized!Send
<1>7. CASE Organized(of)!AskDrop(r)
  <2>1. ui' = [ui EXCEPT !.asked = r.id] /\ net' = net /\ Organized(of)!By(gw)
    BY <1>7 DEF Organized!AskDrop, Organized!Stay
  <2>2. ui' \in OrgRoles(of) /\ ui'.roles = ui.roles /\ ui'.asked = r.id /\ ui'.route = "roles"
    BY <1>2, <1>3, <2>1 DEF OrgRoles
  <2>3. OrgAsked(ui', net)
    BY <1>1, <2>2 DEF OrgAsked
  <2>4. OrgPage(of, gw, ui', net')
    BY <1>1, <1>2, <2>1, <2>2, <2>3, OrgQuiet
  <2> QED BY <1>1, <2>1, <2>2, <2>4, OrgRoleTurn DEF OrgSame
<1> QED BY <1>5, <1>6, <1>7

LEMMA OrgDialogs ==
  ASSUME NEW of, Organized(of)!ConstantsOK, OrgInv(of),
         \/ Organized(of)!CloseDrop \/ Organized(of)!OpenCreate \/ Organized(of)!Cancel \/ Organized(of)!Escape
         \/ \E name \in of.names : Organized(of)!TypeName(name)
         \/ \E id \in of.ids : Organized(of)!TypeId(id)
         \/ \E s \in of.sections : Organized(of)!PickSection(s)
  PROVE  OrgInv(of)'
<1>1. ui.route = "roles" /\ net' = net /\ Organized(of)!By(gw)
  BY DEF Organized!CloseDrop, Organized!OpenCreate, Organized!Cancel, Organized!Escape, Organized!TypeName, Organized!TypeId,
         Organized!PickSection, Organized!Writing, Organized!InDialog, Organized!OnRoles, Organized!Stay
<1>2. ui \in OrgRoles(of) /\ ui.draft \in OrgDraft(of) /\ OrgPage(of, gw, ui, net)
  BY <1>1, OrgRoutes DEF OrgInv, OrgRoles
<1>3. ASSUME ui' \in OrgRoles(of), ui'.roles = ui.roles, ui'.asked = ui.asked \/ ui'.asked = None PROVE OrgInv(of)'
  <2>1. ui'.route = "roles"
    BY <1>3 DEF OrgRoles
  <2>2. OrgPage(of, gw, ui', net)
    BY <1>1, <1>2, <1>3, <2>1, OrgQuiet
  <2> QED BY <1>1, <1>3, <2>2, OrgRoleTurn DEF OrgSame
<1>4. CASE Organized(of)!CloseDrop
  <2>1. ui' = [ui EXCEPT !.asked = None]
    BY <1>4 DEF Organized!CloseDrop
  <2> QED BY <1>2, <1>3, <2>1 DEF OrgRoles
<1>5. ASSUME NEW o \in BOOLEAN, ui' = [ui EXCEPT !.open = o] PROVE OrgInv(of)'
  BY <1>2, <1>3, <1>5 DEF OrgRoles
<1>6. CASE Organized(of)!OpenCreate
  BY <1>5, <1>6 DEF Organized!OpenCreate
<1>7. CASE Organized(of)!Cancel
  BY <1>5, <1>7 DEF Organized!Cancel
<1>8. CASE Organized(of)!Escape
  <2>1. PICK o \in BOOLEAN : o = Organized(of)!Waiting("create")
    <3>1. CASE Organized(of)!Waiting("create")
      <4>1. TRUE = Organized(of)!Waiting("create")
        BY <3>1
      <4> QED BY <4>1
    <3>2. CASE ~Organized(of)!Waiting("create")
      <4>1. FALSE = Organized(of)!Waiting("create")
        BY <3>2
      <4> QED BY <4>1
    <3> QED BY <3>1, <3>2
  <2>2. PICK d : d = Organized(of)!NoDraft
    OBVIOUS
  <2>3. d \in OrgDraft(of)
    BY <2>2 DEF Organized!NoDraft, OrgDraft
  <2>4. ui' = [ui EXCEPT !.open = o, !.draft = d]
    BY <1>8, <2>1, <2>2 DEF Organized!Escape
  <2> QED BY <1>2, <1>3, <2>3, <2>4 DEF OrgRoles
<1>9. ASSUME NEW d \in OrgDraft(of), ui' = [ui EXCEPT !.draft = d] PROVE OrgInv(of)'
  BY <1>2, <1>3, <1>9 DEF OrgRoles
<1>10. ASSUME NEW name \in of.names, Organized(of)!TypeName(name) PROVE OrgInv(of)'
  <2>1. PICK d : d = [ui.draft EXCEPT !.name = name]
    OBVIOUS
  <2>2. d \in OrgDraft(of)
    BY <1>2, <2>1 DEF OrgDraft
  <2> QED BY <1>9, <1>10, <2>1, <2>2 DEF Organized!TypeName
<1>11. ASSUME NEW id \in of.ids, Organized(of)!TypeId(id) PROVE OrgInv(of)'
  <2>1. PICK d : d = [ui.draft EXCEPT !.id = id]
    OBVIOUS
  <2>2. d \in OrgDraft(of)
    BY <1>2, <2>1 DEF OrgDraft
  <2> QED BY <1>9, <1>11, <2>1, <2>2 DEF Organized!TypeId
<1>12. ASSUME NEW s \in of.sections, Organized(of)!PickSection(s) PROVE OrgInv(of)'
  <2>1. PICK x : x = (ui.draft.sections \cup {s}) \ (ui.draft.sections \cap {s})
    OBVIOUS
  <2>2. x \in SUBSET of.sections
    BY <1>2, <2>1 DEF OrgDraft
  <2>3. PICK d : d = [ui.draft EXCEPT !.sections = x]
    OBVIOUS
  <2>4. d \in OrgDraft(of)
    BY <1>2, <2>2, <2>3 DEF OrgDraft
  <2> QED BY <1>9, <1>12, <2>1, <2>3, <2>4 DEF Organized!PickSection
<1> QED BY <1>4, <1>6, <1>7, <1>8, <1>10, <1>11, <1>12

LEMMA OrgDrop == ASSUME NEW of, OrgInv(of), Organized(of)!Drop PROVE OrgInv(of)'
<1>1. PICK c : c = Organized(of)!Call("drop", [id |-> ui.asked])
  OBVIOUS
<1>2. ui.route = "roles" /\ ui.asked # None /\ ui' = [ui EXCEPT !.asked = None] /\ net' = net \cup {c} /\ Organized(of)!By(gw)
  BY <1>1 DEF Organized!Drop, Organized!OnRoles, Organized!Send
<1>3. ui \in OrgRoles(of) /\ OrgPage(of, gw, ui, net) /\ OrgAsked(ui, net)
  BY <1>2, OrgRoutes DEF OrgInv, OrgPage
<1>4. /\ ui' \in OrgRoles(of) /\ ui'.asked = None /\ ui'.roles = ui.roles /\ ui'.route = "roles"
      /\ ui.asked \in of.ids
  BY <1>2, <1>3 DEF OrgRoles
<1>5. OrgArg(of, c)
  BY <1>1, <1>4 DEF Organized!Call, OrgArg
<1>6. OrgCall(of, "roles", c) /\ c.op = "drop" /\ c.arg = [id |-> ui.asked] /\ c.at = "sent" /\ c.live
  BY <1>1, <1>5, OrgNew DEF OrgOps
<1>7. OrgOfRole(c) /\ c.arg.id = ui.asked
  BY <1>6 DEF OrgOfRole
<1>8. OrgPage(of, gw, ui', net)
  BY <1>2, <1>3, <1>4, OrgQuiet
<1>9. (\A d \in net : OrgOfRole(d) => d.arg.id # c.arg.id) /\ \E r \in ui'.roles : r.id = c.arg.id
  BY <1>2, <1>3, <1>4, <1>7 DEF OrgAsked
<1> QED BY <1>2, <1>4, <1>6, <1>7, <1>8, <1>9, OrgRoleSends DEF OrgSame

LEMMA OrgCreate == ASSUME NEW of, OrgInv(of), Organized(of)!Create PROVE OrgInv(of)'
<1>1. PICK i : i = Organized(of)!EffectiveId
  OBVIOUS
<1>2. PICK c : c = Organized(of)!Call("create", [id |-> i, name |-> ui.draft.name, sections |-> ui.draft.sections])
  OBVIOUS
<1>3. /\ ui.route = "roles" /\ ~Organized(of)!Waiting("create") /\ ui.draft.name # None /\ i \in of.ids
      /\ \A r \in ui.roles : r.id # i
      /\ ui' = ui /\ net' = net \cup {c} /\ Organized(of)!By(gw)
  BY <1>1, <1>2 DEF Organized!Create, Organized!Writing, Organized!InDialog, Organized!OnRoles, Organized!Send
<1>4. ui \in OrgRoles(of) /\ OrgPage(of, gw, ui, net) /\ OrgAsked(ui, net) /\ OrgOnce(ui, net)
  BY <1>3, OrgRoutes DEF OrgInv, OrgPage
<1>5. ui.draft.name \in of.names /\ ui.draft.sections \in SUBSET of.sections
  BY <1>3, <1>4 DEF OrgRoles, OrgDraft
<1>6. OrgArg(of, c)
  BY <1>2, <1>3, <1>5 DEF Organized!Call, OrgArg
<1>7. /\ OrgCall(of, "roles", c) /\ c.op = "create" /\ c.at = "sent" /\ c.live
      /\ c.arg = [id |-> i, name |-> ui.draft.name, sections |-> ui.draft.sections]
  BY <1>2, <1>6, OrgNew DEF OrgOps
<1>8. OrgOfRole(c) /\ c.arg.id = i
  BY <1>7 DEF OrgOfRole
<1>9. \A d \in net : OrgOfRole(d) => d.arg.id # i
  BY <1>3, <1>4 DEF OrgOnce, OrgOfRole, Organized!Waiting, Organized!CallsOf
<1>10. ui.asked = None \/ ui.asked # i
  BY <1>3, <1>4 DEF OrgAsked
<1>11. OrgPage(of, gw, ui, net \cup {c})
  <2>1. OrgAsked(ui, net \cup {c})
    BY <1>4, <1>8, <1>10 DEF OrgAsked
  <2>2. OrgOnce(ui, net \cup {c})
    BY <1>3, <1>4, <1>7, <1>8, <1>9 DEF OrgOnce
  <2>3. OrgShown(of, gw, ui, net \cup {c})
    BY <1>3, <1>4, <1>7 DEF OrgPage, OrgShown
  <2> QED BY <2>1, <2>2, <2>3 DEF OrgPage
<1> QED BY <1>3, <1>4, <1>7, <1>11, OrgRoleTurn DEF OrgSame

LEMMA OrgContinue ==
  ASSUME NEW of, OrgInv(of), NEW c \in net,
         Organized(of)!RoleUpdated(c) \/ Organized(of)!RoleDropped(c) \/ Organized(of)!RoleCreated(c)
  PROVE  OrgInv(of)'
<1>1. OrgOfRole(c) /\ c.at # "sent" /\ net' = net \ {c} /\ gw' = gw
  BY DEF OrgOfRole, Organized!RoleUpdated, Organized!RoleDropped, Organized!RoleCreated, Organized!Done
<1>2. OrgCall(of, ui.route, c)
  BY DEF OrgInv
<1>3. ui.route = "roles"
  BY <1>1, <1>2 DEF OrgCall, OrgOfRole
<1>4. ui \in OrgRoles(of) /\ OrgPage(of, gw, ui, net) /\ OrgOnce(ui, net)
  BY <1>3, OrgRoutes DEF OrgInv, OrgPage
<1>5. ASSUME ui' \in OrgRoles(of), OrgPage(of, gw, ui', net') PROVE OrgInv(of)'
  BY <1>1, <1>3, <1>5, OrgRoleTurn DEF OrgSame
<1>6. CASE c.at # "ok"
  <2>1. ui' = ui
    BY <1>6 DEF Organized!RoleUpdated, Organized!RoleDropped, Organized!RoleCreated
  <2>2. OrgPage(of, gw, ui, net \ {c})
    BY <1>1, <1>3, <1>4, <1>6, OrgContinues
  <2> QED BY <1>1, <1>4, <1>5, <2>1, <2>2
<1>7. CASE c.at = "ok" /\ Organized(of)!RoleUpdated(c)
  <2>1. PICK rows : rows = {IF r.id = c.arg.id THEN c.val ELSE r : r \in ui.roles}
    OBVIOUS
  <2>2. ui' = [ui EXCEPT !.roles = rows] /\ c.op = "update"
    BY <1>7, <2>1 DEF Organized!RoleUpdated, Organized!Done
  <2>3. c.val \in Organized(of)!RoleRows /\ c.val.id = c.arg.id
    BY <1>2, <1>7, <2>2 DEF OrgCall
  <2>4. rows \subseteq Organized(of)!RoleRows
    BY <1>4, <2>1, <2>3 DEF OrgRoles
  <2>5. ui' \in OrgRoles(of) /\ ui'.asked = ui.asked /\ ui'.roles = rows
    BY <1>4, <2>2, <2>4 DEF OrgRoles
  <2>6. \E r \in ui.roles : r.id = c.arg.id
    BY <1>1, <1>4, <2>2 DEF OrgOnce
  <2>7. c.val \in rows /\ (\A r \in rows : r.id = c.arg.id => r = c.val) /\ \A r : r.id # c.arg.id => (r \in rows <=> r \in ui.roles)
    BY <2>1, <2>3, <2>6
  <2>8. OrgPage(of, gw, ui', net \ {c})
    BY <1>1, <1>3, <1>4, <1>7, <2>2, <2>3, <2>5, <2>7, OrgContinues
  <2> QED BY <1>1, <1>5, <2>5, <2>8
<1>8. CASE c.at = "ok" /\ Organized(of)!RoleDropped(c)
  <2>1. PICK rows : rows = {r \in ui.roles : r.id # c.arg.id}
    OBVIOUS
  <2>2. ui' = [ui EXCEPT !.roles = rows] /\ c.op = "drop"
    BY <1>8, <2>1 DEF Organized!RoleDropped, Organized!Done
  <2>3. rows \subseteq Organized(of)!RoleRows
    BY <1>4, <2>1 DEF OrgRoles
  <2>4. ui' \in OrgRoles(of) /\ ui'.asked = ui.asked /\ ui'.roles = rows
    BY <1>4, <2>2, <2>3 DEF OrgRoles
  <2>5. OrgPage(of, gw, ui', net \ {c})
    BY <1>1, <1>3, <1>4, <1>8, <2>1, <2>2, <2>4, OrgContinues
  <2> QED BY <1>1, <1>5, <2>4, <2>5
<1>9. CASE c.at = "ok" /\ Organized(of)!RoleCreated(c)
  <2>1. PICK rows, d : rows = ui.roles \cup {c.val} /\ d = Organized(of)!NoDraft
    OBVIOUS
  <2>2. ui' = [ui EXCEPT !.roles = rows, !.draft = d, !.open = FALSE] /\ c.op = "create"
    BY <1>9, <2>1 DEF Organized!RoleCreated, Organized!Done
  <2>3. c.val \in Organized(of)!RoleRows /\ c.val.id = c.arg.id
    BY <1>2, <1>9, <2>2 DEF OrgCall
  <2>4. rows \subseteq Organized(of)!RoleRows /\ d \in OrgDraft(of)
    BY <1>4, <2>1, <2>3 DEF OrgRoles, OrgDraft, Organized!NoDraft
  <2>5. ui' \in OrgRoles(of) /\ ui'.asked = ui.asked /\ ui'.roles = rows
    BY <1>4, <2>2, <2>4 DEF OrgRoles
  <2>6. \A r \in ui.roles : r.id # c.arg.id
    BY <1>1, <1>4, <2>2 DEF OrgOnce
  <2>7. OrgPage(of, gw, ui', net \ {c})
    BY <1>1, <1>3, <1>4, <1>9, <2>1, <2>2, <2>3, <2>5, <2>6, OrgContinues
  <2> QED BY <1>1, <1>5, <2>5, <2>7
<1> QED BY <1>6, <1>7, <1>8, <1>9

LEMMA OrgRoleStep == ASSUME NEW of, Organized(of)!ConstantsOK, OrgInv(of), Organized(of)!RoleStep PROVE OrgInv(of)'
BY OrgCards, OrgDialogs, OrgDrop, OrgCreate, OrgContinue DEF Organized!RoleStep

-----------------------------------------------------------------------------
(* The gateway *)

LEMMA OrgServe == ASSUME NEW of, Organized(of)!ConstantsOK, OrgInv(of), NEW c \in net, Organized(of)!Serve(c) PROVE OrgInv(of)'
<1>1. OrgGw(of, gw) /\ OrgUi(of, ui) /\ OrgCall(of, ui.route, c) /\ OrgPage(of, gw, ui, net) /\ \A d \in net : OrgCall(of, ui.route, d)
  BY DEF OrgInv
<1>2. PICK k : k = Organized(of)!Effect(c)
  OBVIOUS
<1>3. c.op \in OrgOps /\ OrgArg(of, c)
  BY <1>1 DEF OrgCall
<1>4. OrgEffect(of, gw, k, c)
  BY <1>1, <1>2, <1>3, OrgEffects DEF Organized!Serve
<1>5. PICK s : s = gw.strays \cup IF c.live THEN {} ELSE Organized(of)!OfRole(c)
  OBVIOUS
<1>6. s \subseteq of.ids /\ gw.strays \subseteq s /\ (c.live => s = gw.strays) /\ (~c.live => Organized(of)!OfRole(c) \subseteq s)
  BY <1>1, <1>3, <1>5 DEF OrgGw, OrgArg, Organized!OfRole
<1>7. gw' = [k EXCEPT !.strays = s] /\ ui' = ui
  BY <1>2, <1>4, <1>5 DEF Organized!Serve, OrgEffect, OrgGw
<1>8. gw'.users = k.users /\ gw'.roles = k.roles /\ gw'.strays = s /\ gw'.events = k.events
  BY <1>4, <1>7 DEF OrgEffect, OrgGw
<1>9. OrgGw(of, gw')
  BY <1>4, <1>6, <1>7, <1>8 DEF OrgEffect, OrgGw
<1>10. PICK v : v = Organized(of)!Reply(c, k)
  OBVIOUS
<1>11. PICK a : a = [c EXCEPT !.at = "ok", !.val = v]
  OBVIOUS
<1>12. c.op \in {"create", "update"} => v = Organized(of)!Row(k, c.arg.id) /\ v \in Organized(of)!RoleRows /\ v.id = c.arg.id
  BY <1>3, <1>4, <1>10 DEF OrgEffect, OrgArg, OrgRole, Organized!Reply, Organized!Row, Organized!RoleRows
<1>13. /\ a \in [op: OrgOps, arg: {a.arg}, at: {"sent", "ok", "failed"}, val: {a.val}, live: BOOLEAN]
       /\ a.op = c.op /\ a.arg = c.arg /\ a.at = "ok" /\ a.val = v /\ a.live = c.live
  BY <1>1, <1>11 DEF OrgCall
<1>14. OrgCall(of, ui.route, a)
  BY <1>1, <1>12, <1>13 DEF OrgCall, OrgArg
<1>15. net' = (net \ {c}) \cup {a} \/ (net' = net \ {c} /\ ~c.live)
  BY <1>2, <1>10, <1>11 DEF Organized!Serve, Organized!Answered
<1>16. \A d \in net : OrgOfRole(d) => d.arg.id \in of.ids
  BY <1>1 DEF OrgCall, OrgArg, OrgOfRole
<1>17. CASE OrgOfRole(c)
  <2>1. net' = (net \ {c}) \cup {a} /\ s = gw.strays
    BY <1>6, <1>15, <1>17 DEF OrgOfRole
  <2>2. OrgOfRole(a)
    BY <1>13, <1>17 DEF OrgOfRole
  <2>3. OrgSays(of, gw', a)
    BY <1>4, <1>8, <1>12, <1>13 DEF OrgSays, OrgEffect, Organized!Row
  <2>4. \A id \in of.ids \ {c.arg.id} : gw'.roles[id] = gw.roles[id]
    BY <1>4, <1>8 DEF OrgEffect, Organized!OfRole
  <2>5. OrgPage(of, gw', ui, net')
    BY <1>1, <1>8, <1>13, <1>16, <1>17, <2>1, <2>2, <2>3, <2>4, OrgAnswers
  <2> QED BY <1>1, <1>7, <1>9, <1>14, <2>1, <2>5 DEF OrgInv
<1>18. CASE ~OrgOfRole(c)
  <2>1. \A id \in of.ids \ s : gw'.roles[id] = gw.roles[id]
    BY <1>4, <1>6, <1>8, <1>18 DEF OrgEffect, OrgOfRole, Organized!OfRole
  <2>2. OrgPage(of, gw', ui, net)
    BY <1>1, <1>6, <1>8, <1>16, <2>1, OrgStrays
  <2>3. \A d : OrgOfRole(d) => (d \in net <=> d \in net')
    BY <1>13, <1>15, <1>18 DEF OrgOfRole
  <2>4. OrgPage(of, gw', ui, net')
    BY <2>2, <2>3, OrgSameCalls
  <2>5. \A d \in net' : OrgCall(of, ui.route, d)
    BY <1>1, <1>14, <1>15
  <2> QED BY <1>1, <1>7, <1>9, <2>4, <2>5 DEF OrgInv
<1> QED BY <1>17, <1>18

\* A change nobody on the page has heard of makes a stray of the role.
LEMMA OrgUnheard ==
  ASSUME NEW of, Organized(of)!ConstantsOK, OrgInv(of), NEW c, c.op \in OrgOps, OrgArg(of, c), NEW actor, Organized(of)!Accepts(c, actor),
         NEW e, NEW g, g = [Organized(of)!Effect(c) EXCEPT !.strays = @ \cup Organized(of)!OfRole(c), !.events = e]
  PROVE  OrgGw(of, g) /\ OrgPage(of, g, ui, net)
<1>1. OrgGw(of, gw) /\ OrgPage(of, gw, ui, net) /\ \A d \in net : OrgCall(of, ui.route, d)
  BY DEF OrgInv
<1>2. PICK k : k = Organized(of)!Effect(c)
  OBVIOUS
<1>3. OrgEffect(of, gw, k, c)
  BY <1>1, <1>2, OrgEffects
<1>4. PICK s : s = gw.strays \cup Organized(of)!OfRole(c)
  OBVIOUS
<1>5. s \subseteq of.ids
  BY <1>1, <1>4 DEF OrgGw, OrgArg, Organized!OfRole
<1>6. g = [k EXCEPT !.strays = s, !.events = e]
  BY <1>2, <1>3, <1>4 DEF OrgEffect, OrgGw
<1>7. g.users = k.users /\ g.roles = k.roles /\ g.strays = s /\ g.events = e
  BY <1>3, <1>6 DEF OrgEffect, OrgGw
<1>8. OrgGw(of, g)
  BY <1>3, <1>5, <1>6, <1>7 DEF OrgEffect, OrgGw
<1>9. \A d \in net : OrgOfRole(d) => d.arg.id \in of.ids
  BY <1>1 DEF OrgCall, OrgArg, OrgOfRole
<1>10. \A id \in of.ids \ s : g.roles[id] = gw.roles[id]
  BY <1>3, <1>4, <1>7 DEF OrgEffect
<1>11. OrgPage(of, g, ui, net)
  BY <1>1, <1>4, <1>7, <1>9, <1>10, OrgStrays
<1> QED BY <1>8, <1>11

LEMMA OrgFail == ASSUME NEW of, Organized(of)!ConstantsOK, OrgInv(of), NEW c \in net, Organized(of)!Fail(c) PROVE OrgInv(of)'
<1>1. OrgGw(of, gw) /\ OrgUi(of, ui) /\ OrgCall(of, ui.route, c) /\ OrgPage(of, gw, ui, net) /\ \A d \in net : OrgCall(of, ui.route, d)
  BY DEF OrgInv
<1>2. c.op \in OrgOps /\ OrgArg(of, c) /\ c.at = "sent" /\ ui' = ui
  BY <1>1 DEF OrgCall, Organized!Fail
<1>3. OrgGw(of, gw') /\ OrgPage(of, gw', ui, net)
  <2>1. CASE gw' = gw
    BY <1>1, <2>1
  <2>2. CASE Organized(of)!Accepts(c, of.self) /\ gw' = [Organized(of)!Effect(c) EXCEPT !.strays = @ \cup Organized(of)!OfRole(c)]
    <3>1. PICK k : k = Organized(of)!Effect(c)
      OBVIOUS
    <3>2. OrgEffect(of, gw, k, c)
      BY <1>1, <1>2, <2>2, <3>1, OrgEffects
    <3>3. gw' = [Organized(of)!Effect(c) EXCEPT !.strays = @ \cup Organized(of)!OfRole(c), !.events = k.events]
      BY <2>2, <3>1, <3>2 DEF OrgEffect, OrgGw
    <3> QED BY <1>2, <2>2, <3>3, OrgUnheard
  <2> QED BY <2>1, <2>2 DEF Organized!Fail
<1>4. PICK f : f = [c EXCEPT !.at = "failed"]
  OBVIOUS
<1>5. /\ f \in [op: OrgOps, arg: {f.arg}, at: {"sent", "ok", "failed"}, val: {f.val}, live: BOOLEAN]
      /\ f.op = c.op /\ f.arg = c.arg /\ f.at = "failed" /\ f.live = c.live
  BY <1>1, <1>4 DEF OrgCall
<1>6. OrgCall(of, ui.route, f)
  BY <1>1, <1>5 DEF OrgCall, OrgArg
<1>7. net' = (net \ {c}) \cup {f} \/ (net' = net \ {c} /\ ~c.live)
  BY <1>4 DEF Organized!Fail, Organized!Failed
<1>8. \A d \in net' : OrgCall(of, ui.route, d)
  BY <1>1, <1>6, <1>7
<1>9. OrgPage(of, gw', ui, net')
  <2>1. CASE OrgOfRole(c)
    <3>1. OrgOfRole(f) /\ net' = (net \ {c}) \cup {f}
      BY <1>5, <1>7, <2>1 DEF OrgOfRole
    <3> QED BY <1>2, <1>3, <1>5, <2>1, <3>1, OrgFails
  <2>2. CASE ~OrgOfRole(c)
    <3>1. \A d : OrgOfRole(d) => (d \in net <=> d \in net')
      BY <1>5, <1>7, <2>2 DEF OrgOfRole
    <3> QED BY <1>3, <3>1, OrgSameCalls
  <2> QED BY <2>1, <2>2
<1> QED BY <1>1, <1>2, <1>3, <1>8, <1>9 DEF OrgInv

LEMMA OrgForeign ==
  ASSUME NEW of, Organized(of)!ConstantsOK, OrgInv(of), NEW c \in Organized(of)!Theirs, Organized(of)!Foreign(c) PROVE OrgInv(of)'
<1>1. c.op \in OrgOps /\ OrgArg(of, c)
  BY DEF Organized!Theirs, Organized!Call, OrgOps, OrgArg
<1>2. PICK e : gw' = [[Organized(of)!Effect(c) EXCEPT !.strays = @ \cup Organized(of)!OfRole(c)] EXCEPT !.events = e]
  BY DEF Organized!Foreign, Organized!By
<1>3. gw' = [Organized(of)!Effect(c) EXCEPT !.strays = @ \cup Organized(of)!OfRole(c), !.events = e]
  BY <1>2
<1>4. Organized(of)!Accepts(c, None) /\ ui' = ui /\ net' = net
  BY DEF Organized!Foreign
<1>5. OrgGw(of, gw') /\ OrgPage(of, gw', ui, net)
  BY <1>1, <1>3, <1>4, OrgUnheard
<1> QED BY <1>4, <1>5 DEF OrgInv

LEMMA OrgNext == ASSUME NEW of, Organized(of)!ConstantsOK, OrgInv(of), Organized(of)!Next PROVE OrgInv(of)'
BY OrgNavigate, OrgUserStep, OrgRoleStep, OrgServe, OrgFail, OrgForeign DEF Organized!Next

-----------------------------------------------------------------------------
(* Signing in: a name goes with the token it was issued with wherever the   *)
(* two are kept, a state of GitHub's with the page it was asked for.        *)

SignNext == {"app", "keys"}
SignSession == [user: SessionOf.users, flow: Nat \cup {None}]
SignGw(g) ==
  /\ g \in [password: {g.password}, sessions: Seq(SignSession), live: SUBSET (1..Len(g.sessions)), asked: Seq(SignNext),
            spent: SUBSET (1..Len(g.asked)), events: {g.events}]
  /\ \A n \in 1..Len(g.sessions) : g.sessions[n].flow # None => g.sessions[n].flow \in g.spent
  /\ \A m, n \in 1..Len(g.sessions) : g.sessions[m].flow = g.sessions[n].flow /\ g.sessions[m].flow # None => m = n
\* What goes with a token, and with a state.
SignIssued(g, v) == v.token \in 1..Len(g.sessions) /\ v.user = g.sessions[v.token].user
SignPair(g, v) == (v.token = None /\ v.user = None) \/ SignIssued(g, v)
SignAsked(g, o) == o = None \/ (o \in [state: 1..Len(g.asked), next: SignNext] /\ o.next = g.asked[o.state])
SignJar(g, j) == j \in [token: {j.token}, user: {j.user}, oauth: {j.oauth}] /\ SignPair(g, j) /\ SignAsked(g, j.oauth)
SignKey(g, k) == k = None \/ SignIssued(g, k)
SignTab(g, b) ==
  /\ b \in [at: Session!AuthPages \cup Session!Inside \cup {"github"}, name: SessionOf.users \cup {None}, key: {b.key},
            next: SignNext, asking: BOOLEAN, leaving: BOOLEAN, flow: (1..Len(g.asked)) \cup {None}]
  /\ SignKey(g, b.key)
SignUi(g, u) == /\ u \in [route: {"session"}, jar: {u.jar}, tabs: [SessionOf.tabs -> {u.tabs[t] : t \in SessionOf.tabs}]]
                /\ SignJar(g, u.jar)
                /\ \A t \in SessionOf.tabs : SignTab(g, u.tabs[t])
SignTabs == SessionOf.tabs \cup {None}
SignArg(g, op, a) ==
  /\ op \in {"login", "register"} =>
       a \in [tab: SignTabs, token: {a.token}, user: SessionOf.users, password: {a.password}, next: SignNext]
  /\ op = "password" => a \in [tab: SignTabs, token: {a.token}, old: {a.old}, new: {a.new}]
  /\ op \in {"logout", "rotate"} => a \in [tab: SignTabs, token: {a.token}]
  /\ op = "token" => a \in [tab: SignTabs, token: {a.token}, user: {a.user}] /\ SignPair(g, a)
  /\ op = "callback" => /\ a \in [tab: SignTabs, flow: 1..Len(g.asked), stored: {a.stored}, user: SessionOf.users]
                        /\ SignAsked(g, a.stored)
SignVal(g, op, a, v) ==
  /\ op = "token" => SignIssued(g, v)
  /\ op \in {"login", "register"} => SignIssued(g, v)
  /\ op = "callback" => v = None \/ (SignIssued(g, v) /\ v.next = g.asked[a.flow])
SignOps == {"login", "register", "password", "logout", "rotate", "token", "callback"}
SignCall(g, c) ==
  /\ c \in [op: SignOps, arg: {c.arg}, at: {"sent", "ok", "failed"}, val: {c.val}, live: BOOLEAN]
  /\ SignArg(g, c.op, c.arg)
  /\ c.at = "ok" => SignVal(g, c.op, c.arg, c.val)
SignInv == SignGw(gw) /\ SignUi(gw, ui) /\ \A c \in net : SignCall(gw, c)

LEMMA SignConstants == Session!ConstantsOK
BY ConsoleAssumption

LEMMA SignTyped == ASSUME SignInv PROVE Session!TypeOK /\ Session!CookiesAgree /\ Session!FlowsLandWhereAsked
<1>1. SignGw(gw) /\ SignUi(gw, ui) /\ SignJar(gw, ui.jar) /\ None \notin Nat \cup SessionOf.users
  BY SignConstants DEF SignInv, SignUi, Session!ConstantsOK
<1>2. \A v : SignIssued(gw, v) => v.token \in 1..Len(gw.sessions) /\ v.user \in SessionOf.users /\ v.token # None /\ v.user # None
  <2>1. \A n \in 1..Len(gw.sessions) : gw.sessions[n] \in SignSession /\ n # None
    BY <1>1 DEF SignGw
  <2> QED BY <1>1, <2>1 DEF SignIssued, SignSession
<1>3. Session!TypeOK
  <2>1. Session!Jar.token \in Session!Tokens \cup {None} /\ Session!Jar.user \in SessionOf.users \cup {None}
    BY <1>1, <1>2 DEF SignJar, SignPair, Session!Jar, Session!Tokens
  <2>2. Session!Jar.oauth = None \/ Session!Jar.oauth.state \in 1..Len(gw.asked)
    BY <1>1 DEF SignJar, SignAsked, Session!Jar
  <2>3. \A t \in SessionOf.tabs : /\ Session!Tab(t).at \in Session!AuthPages \cup Session!Inside \cup {"github"}
                                  /\ Session!Tab(t).next \in {"app", "keys"} /\ Session!Tab(t).name \in SessionOf.users \cup {None}
    BY <1>1 DEF SignUi, SignTab, SignNext, Session!Tab
  <2>4. gw.live \subseteq Session!Tokens /\ gw.spent \subseteq 1..Len(gw.asked)
    BY <1>1 DEF SignGw, Session!Tokens
  <2> QED BY <2>1, <2>2, <2>3, <2>4 DEF Session!TypeOK
<1>4. Session!CookiesAgree
  <2>1. (Session!Jar.token = None) = (Session!Jar.user = None)
    BY <1>1, <1>2 DEF SignJar, SignPair, Session!Jar
  <2>2. Session!Jar.token # None => gw.sessions[Session!Jar.token].user = Session!Jar.user
    BY <1>1 DEF SignJar, SignPair, SignIssued, Session!Jar
  <2>3. \A t \in SessionOf.tabs : Session!Tab(t).key # None => gw.sessions[Session!Tab(t).key.token].user = Session!Tab(t).key.user
    BY <1>1 DEF SignUi, SignTab, SignKey, SignIssued, Session!Tab
  <2> QED BY <2>1, <2>2, <2>3 DEF Session!CookiesAgree
<1>5. Session!FlowsLandWhereAsked
  <2>1. \A c \in net : c.op = "callback" /\ c.at = "ok" /\ c.val # None => c.val.next = gw.asked[c.arg.flow]
    BY DEF SignInv, SignCall, SignVal
  <2> QED BY <1>1, <2>1 DEF SignGw, Session!FlowsLandWhereAsked, Session!Tokens
<1> QED BY <1>3, <1>4, <1>5

LEMMA SignInit == ASSUME Session!Init PROVE SignInv
<1>1. PICK j : j = [token |-> None, user |-> None, oauth |-> None]
  OBVIOUS
<1>2. ui \in [route: {"session"}, jar: {j}, tabs: [SessionOf.tabs -> Session!Blanks]] /\ net = {}
  BY <1>1 DEF Session!Init
<1>3. ui.jar = j /\ SignJar(gw, j)
  BY <1>1, <1>2 DEF SignJar, SignPair, SignAsked
<1>4. \A b \in Session!Blanks : SignTab(gw, b)
  BY DEF Session!Blanks, Session!Blank, SignTab, SignKey, SignNext, Session!AuthPages
<1>5. SignUi(gw, ui)
  <2>1. \A t \in SessionOf.tabs : SignTab(gw, ui.tabs[t])
    BY <1>2, <1>4
  <2>2. ui \in [route: {"session"}, jar: {ui.jar}, tabs: [SessionOf.tabs -> {ui.tabs[t] : t \in SessionOf.tabs}]]
    BY <1>2
  <2> QED BY <1>3, <2>1, <2>2 DEF SignUi
<1>6. gw \in [password: {gw.password}, sessions: {<<>>}, live: {{}}, asked: {<<>>}, spent: {{}}, events: {gw.events}]
  BY DEF Session!Init
<1>7. gw.sessions = <<>> /\ gw.asked = <<>> /\ gw.live = {} /\ gw.spent = {}
  BY <1>6
<1>8. <<>> \in Seq(SignSession) /\ <<>> \in Seq(SignNext) /\ 1..Len(gw.sessions) = {}
  BY <1>7
<1>9. SignGw(gw)
  BY <1>6, <1>7, <1>8 DEF SignGw
<1> QED BY <1>2, <1>5, <1>9 DEF SignInv

-----------------------------------------------------------------------------
(* The gateway gains sessions and states and never loses one                *)

SignGrows(g, h) ==
  /\ Len(g.sessions) \in Nat /\ Len(h.sessions) \in Nat /\ Len(g.sessions) <= Len(h.sessions)
  /\ \A n \in 1..Len(g.sessions) : h.sessions[n] = g.sessions[n]
  /\ Len(g.asked) \in Nat /\ Len(h.asked) \in Nat /\ Len(g.asked) <= Len(h.asked)
  /\ \A n \in 1..Len(g.asked) : h.asked[n] = g.asked[n]

LEMMA SignKept ==
  ASSUME NEW g, NEW h, SignGrows(g, h)
  PROVE  /\ \A v : SignIssued(g, v) => SignIssued(h, v)
         /\ \A v : SignPair(g, v) => SignPair(h, v)
         /\ \A o : SignAsked(g, o) => SignAsked(h, o)
         /\ \A c : SignCall(g, c) => SignCall(h, c)
         /\ \A u : SignUi(g, u) => SignUi(h, u)
<1>1. 1..Len(g.sessions) \subseteq 1..Len(h.sessions) /\ 1..Len(g.asked) \subseteq 1..Len(h.asked)
  BY DEF SignGrows
<1>2. \A v : SignIssued(g, v) => SignIssued(h, v)
  BY <1>1 DEF SignIssued, SignGrows
<1>3. \A v : SignPair(g, v) => SignPair(h, v)
  BY <1>2 DEF SignPair
<1>4. \A o : SignAsked(g, o) => SignAsked(h, o)
  BY <1>1 DEF SignAsked, SignGrows
<1>5. \A op, a : SignArg(g, op, a) => SignArg(h, op, a)
  BY <1>1, <1>3, <1>4 DEF SignArg
<1>6. \A op, a, v : SignArg(g, op, a) /\ SignVal(g, op, a, v) => SignVal(h, op, a, v)
  <2>1. TAKE op, a, v
  <2>2. HAVE SignArg(g, op, a) /\ SignVal(g, op, a, v)
  <2>3. op = "callback" => a.flow \in 1..Len(g.asked)
    BY <2>2 DEF SignArg
  <2>4. op = "callback" => h.asked[a.flow] = g.asked[a.flow]
    BY <2>3 DEF SignGrows
  <2> QED BY <1>2, <2>2, <2>4 DEF SignVal
<1>7. \A c : SignCall(g, c) => SignCall(h, c)
  BY <1>5, <1>6 DEF SignCall
<1>8. \A b : SignTab(g, b) => SignTab(h, b)
  BY <1>1, <1>2 DEF SignTab, SignKey
<1>9. \A u : SignUi(g, u) => SignUi(h, u)
  BY <1>3, <1>4, <1>8 DEF SignUi, SignJar
<1> QED BY <1>2, <1>3, <1>4, <1>7, <1>9

LEMMA SignSame == ASSUME NEW g, SignGw(g), NEW h, h.sessions = g.sessions, h.asked = g.asked PROVE SignGrows(g, h)
<1>1. g.sessions \in Seq(SignSession) /\ g.asked \in Seq(SignNext)
  BY DEF SignGw
<1>2. Len(g.sessions) \in Nat /\ Len(g.asked) \in Nat
  BY <1>1
<1> QED BY <1>2 DEF SignGrows

\* A step that only counts an event, ends sessions or changes passwords.
LEMMA SignQuietly ==
  ASSUME NEW g, SignGw(g), NEW h, NEW p, NEW l \in SUBSET g.live, NEW e, h = [g EXCEPT !.password = p, !.live = l, !.events = e]
  PROVE  SignGw(h) /\ SignGrows(g, h)
<1>1. /\ h.password = p /\ h.live = l /\ h.events = e
      /\ h.sessions = g.sessions /\ h.asked = g.asked /\ h.spent = g.spent
  BY DEF SignGw
<1>2. h \in [password: {h.password}, sessions: Seq(SignSession), live: SUBSET (1..Len(h.sessions)), asked: Seq(SignNext),
            spent: SUBSET (1..Len(h.asked)), events: {h.events}]
  BY <1>1 DEF SignGw
<1>3. SignGw(h)
  BY <1>1, <1>2 DEF SignGw
<1> QED BY <1>1, <1>3, SignSame

\* h is g with a session of u more, come of flow f if that is not None.
SignMinted(g, h, u, f, p, s) ==
  /\ u \in SessionOf.users /\ f \in Nat \cup {None} /\ s \in SUBSET (1..Len(g.asked))
  /\ g.spent \subseteq s /\ (f # None => f \in s /\ f \notin g.spent)
  /\ h = [g EXCEPT !.password = p, !.spent = s, !.sessions = Append(g.sessions, [user |-> u, flow |-> f]),
                   !.live = g.live \cup {Len(g.sessions) + 1}]

LEMMA SignMints ==
  ASSUME NEW g, SignGw(g), NEW h, NEW u, NEW f, NEW p, NEW s, SignMinted(g, h, u, f, p, s)
  PROVE  /\ SignGw(h) /\ SignGrows(g, h)
         /\ Len(g.sessions) + 1 \in 1..Len(h.sessions) /\ h.sessions[Len(g.sessions) + 1].user = u
         /\ h.asked = g.asked
<1>1. g.sessions \in Seq(SignSession) /\ g.asked \in Seq(SignNext) /\ g.live \subseteq 1..Len(g.sessions)
  BY DEF SignGw
<1> USE DEF SignMinted
<1>2. PICK n \in Nat : n = Len(g.sessions)
  BY <1>1
<1>3. PICK new : new = [user |-> u, flow |-> f]
  OBVIOUS
<1>4. new \in SignSession /\ new.user = u /\ new.flow = f
  BY <1>3 DEF SignSession
<1>5. PICK q : q = Append(g.sessions, new)
  OBVIOUS
<1>6. q \in Seq(SignSession) /\ Len(q) = n + 1 /\ q[n + 1] = new /\ \A i \in 1..n : q[i] = g.sessions[i]
  BY <1>1, <1>2, <1>4, <1>5
<1>7. /\ h.password = p /\ h.spent = s /\ h.sessions = q /\ h.live = g.live \cup {n + 1}
      /\ h.asked = g.asked /\ h.events = g.events
  BY <1>2, <1>3, <1>5 DEF SignGw
<1>8. h.live \subseteq 1..Len(h.sessions)
  BY <1>1, <1>2, <1>6, <1>7
<1>9. h \in [password: {h.password}, sessions: Seq(SignSession), live: SUBSET (1..Len(h.sessions)), asked: Seq(SignNext),
            spent: SUBSET (1..Len(h.asked)), events: {h.events}]
  BY <1>6, <1>7, <1>8 DEF SignGw
<1>10. ASSUME NEW i \in 1..Len(h.sessions) PROVE (i = n + 1 /\ h.sessions[i] = new) \/ (i \in 1..n /\ h.sessions[i] = g.sessions[i])
  <2>1. i \in 1..(n + 1) /\ h.sessions = q
    BY <1>6, <1>7
  <2>2. i = n + 1 \/ i \in 1..n
    BY <2>1
  <2> QED BY <1>6, <2>1, <2>2
<1>11. ASSUME NEW i \in 1..n PROVE g.sessions[i].flow # None => g.sessions[i].flow \in g.spent
  BY <1>2 DEF SignGw
<1>12. \A i \in 1..Len(h.sessions) : h.sessions[i].flow # None => h.sessions[i].flow \in h.spent
  BY <1>4, <1>7, <1>10, <1>11
<1>13. ASSUME NEW i \in 1..Len(h.sessions), NEW j \in 1..Len(h.sessions), h.sessions[i].flow = h.sessions[j].flow, h.sessions[i].flow # None
       PROVE i = j
  <2>1. CASE i = n + 1 /\ j = n + 1
    BY <2>1
  <2>2. CASE i \in 1..n /\ j \in 1..n /\ h.sessions[i] = g.sessions[i] /\ h.sessions[j] = g.sessions[j]
    BY <1>2, <1>13, <2>2 DEF SignGw
  <2>3. CASE i = n + 1 /\ h.sessions[i] = new /\ j \in 1..n /\ h.sessions[j] = g.sessions[j]
    BY <1>4, <1>11, <1>13, <2>3
  <2>4. CASE j = n + 1 /\ h.sessions[j] = new /\ i \in 1..n /\ h.sessions[i] = g.sessions[i]
    BY <1>4, <1>11, <1>13, <2>4
  <2> QED BY <1>10, <2>1, <2>2, <2>3, <2>4
<1>14. SignGw(h)
  BY <1>9, <1>12, <1>13 DEF SignGw
<1>15. SignGrows(g, h)
  <2>1. Len(g.asked) \in Nat
    BY <1>1
  <2> QED BY <1>2, <1>6, <1>7, <2>1 DEF SignGrows
<1> QED BY <1>2, <1>4, <1>6, <1>7, <1>14, <1>15

-----------------------------------------------------------------------------
(* The tabs and their calls                                                 *)

LEMMA SignTabbed ==
  ASSUME NEW g, NEW u, SignUi(g, u), NEW j, SignJar(g, j), NEW t \in SessionOf.tabs, NEW b, SignTab(g, b),
         NEW v, v = [u EXCEPT !.jar = j, !.tabs[t] = b]
  PROVE  SignUi(g, v)
<1>1. v.jar = j /\ v.tabs = [u.tabs EXCEPT ![t] = b] /\ v.route = "session" /\ v = [route |-> "session", jar |-> v.jar, tabs |-> v.tabs]
  BY DEF SignUi
<1>2. DOMAIN u.tabs = SessionOf.tabs
  BY DEF SignUi
<1>3. v.tabs = [x \in SessionOf.tabs |-> IF x = t THEN b ELSE u.tabs[x]]
  BY <1>1, <1>2
<1>4. \A x \in SessionOf.tabs : SignTab(g, v.tabs[x])
  BY <1>3 DEF SignUi
<1>5. v.tabs \in [SessionOf.tabs -> {v.tabs[x] : x \in SessionOf.tabs}]
  BY <1>3
<1> QED BY <1>1, <1>4, <1>5 DEF SignUi

LEMMA SignOrphan == ASSUME NEW g, NEW c, SignCall(g, c), NEW d, d = [c EXCEPT !.live = FALSE] PROVE SignCall(g, d)
<1>1. /\ d \in [op: SignOps, arg: {d.arg}, at: {"sent", "ok", "failed"}, val: {d.val}, live: BOOLEAN]
      /\ d.op = c.op /\ d.arg = c.arg /\ d.at = c.at /\ d.val = c.val
  BY DEF SignCall
<1> QED BY <1>1 DEF SignCall

LEMMA SignDetached == ASSUME NEW g, NEW c, SignCall(g, c), c.at = "sent", NEW d, d = [c EXCEPT !.arg.tab = None] PROVE SignCall(g, d)
<1>1. PICK a : a = [c.arg EXCEPT !.tab = None]
  OBVIOUS
<1>2. d = [c EXCEPT !.arg = a]
  BY <1>1
<1>3. /\ d \in [op: SignOps, arg: {d.arg}, at: {"sent", "ok", "failed"}, val: {d.val}, live: BOOLEAN]
      /\ d.op = c.op /\ d.arg = a /\ d.at = "sent"
  BY <1>2 DEF SignCall
<1>4. SignArg(g, c.op, c.arg)
  BY DEF SignCall
<1>5. c.op \in {"login", "register"} =>
        a \in [tab: SignTabs, token: {a.token}, user: SessionOf.users, password: {a.password}, next: SignNext]
  BY <1>1, <1>4 DEF SignArg, SignTabs
<1>6. c.op = "password" => a \in [tab: SignTabs, token: {a.token}, old: {a.old}, new: {a.new}]
  BY <1>1, <1>4 DEF SignArg, SignTabs
<1>7. c.op \in {"logout", "rotate"} => a \in [tab: SignTabs, token: {a.token}]
  BY <1>1, <1>4 DEF SignArg, SignTabs
<1>8. c.op = "token" =>
        a \in [tab: SignTabs, token: {a.token}, user: {a.user}] /\ a.token = c.arg.token /\ a.user = c.arg.user /\ SignPair(g, c.arg)
  BY <1>1, <1>4 DEF SignArg, SignTabs
<1>9. c.op = "callback" => /\ a \in [tab: SignTabs, flow: 1..Len(g.asked), stored: {a.stored}, user: SessionOf.users]
                           /\ a.stored = c.arg.stored /\ SignAsked(g, c.arg.stored)
  BY <1>1, <1>4 DEF SignArg, SignTabs
<1>10. SignArg(g, c.op, a)
  BY <1>5, <1>6, <1>7, <1>8, <1>9 DEF SignArg, SignPair, SignIssued
<1> QED BY <1>3, <1>10 DEF SignCall

LEMMA SignLeftBehind ==
  ASSUME NEW g, NEW t, NEW calls, \A c \in calls : SignCall(g, c)
  PROVE  (\A c \in Session!Kept(t, calls) : SignCall(g, c)) /\ (\A c \in Session!Forgotten(t, calls) : SignCall(g, c))
<1>1. ASSUME NEW s, \A c \in s : SignCall(g, c) PROVE \A c \in Session!Orphans(s) : SignCall(g, c)
  BY <1>1, SignOrphan DEF Session!Orphans
<1>2. PICK left : left = {c \in Session!Of(t, calls) : c.op # "token"}
  OBVIOUS
<1>3. \A c \in left : SignCall(g, c)
  BY <1>2 DEF Session!Of
<1>4. \A c \in Session!Orphans(left) : SignCall(g, c)
  BY <1>1, <1>3
<1>5. PICK gone : gone = {[c EXCEPT !.arg.tab = None] : c \in {d \in Session!Of(t, calls) : d.at = "sent"}}
  OBVIOUS
<1>6. \A c \in gone : SignCall(g, c)
  BY <1>5, SignDetached DEF Session!Of
<1>7. \A c \in Session!Orphans(gone) : SignCall(g, c)
  BY <1>1, <1>6
<1> QED BY <1>2, <1>4, <1>5, <1>7 DEF Session!Kept, Session!Forgotten

LEMMA SignNew ==
  ASSUME NEW g, NEW op \in SignOps, NEW arg, SignArg(g, op, arg), NEW c, c = Session!Call(op, arg)
  PROVE  SignCall(g, c)
<1>1. /\ c \in [op: SignOps, arg: {c.arg}, at: {"sent", "ok", "failed"}, val: {c.val}, live: BOOLEAN]
      /\ c.op = op /\ c.arg = arg /\ c.at = "sent"
  BY DEF Session!Call
<1> QED BY <1>1 DEF SignCall

SignPlaces == Session!AuthPages \cup Session!Inside \cup {"home"}

LEMMA SignPage ==
  ASSUME SignInv, NEW t \in SessionOf.tabs, NEW r \in SignPlaces, NEW next \in SignNext, NEW jar, SignJar(gw, jar),
         NEW me \in Session!Me(jar)
  PROVE  SignTab(gw, Session!Page(t, r, next, jar, me))
<1>1. SignGw(gw) /\ SignTab(gw, ui.tabs[t])
  BY DEF SignInv, SignUi
<1>2. \A n \in 1..Len(gw.sessions) : gw.sessions[n].user \in SessionOf.users
  <2>1. \A n \in 1..Len(gw.sessions) : gw.sessions[n] \in SignSession
    BY <1>1 DEF SignGw
  <2> QED BY <2>1 DEF SignSession
<1>3. me \in SessionOf.users \cup {None} /\ jar.user \in SessionOf.users \cup {None}
  BY <1>1, <1>2 DEF Session!Me, SignGw, SignJar, SignPair, SignIssued
<1>4. PICK at : at = Session!Landing(r, jar, me)
  OBVIOUS
<1>5. at \in Session!AuthPages \cup Session!Inside
  BY <1>4 DEF Session!Landing, SignPlaces, Session!AuthPages, Session!Inside
<1>6. PICK n : n = IF at = r THEN next ELSE "app"
  OBVIOUS
<1>7. PICK who : who = IF at \in Session!AuthPages THEN None ELSE IF at = "settings" THEN me ELSE jar.user
  OBVIOUS
<1>8. n \in SignNext /\ who \in SessionOf.users \cup {None}
  BY <1>3, <1>6, <1>7 DEF SignNext
<1>9. PICK b : b = [ui.tabs[t] EXCEPT !.at = at, !.next = n, !.key = None, !.asking = FALSE, !.name = who]
  OBVIOUS
<1>10. b = Session!Page(t, r, next, jar, me)
  BY <1>4, <1>6, <1>7, <1>9 DEF Session!Page, Session!Tab
<1>11. SignTab(gw, b)
  BY <1>1, <1>5, <1>8, <1>9 DEF SignTab, SignKey
<1> QED BY <1>10, <1>11

LEMMA SignGo ==
  ASSUME SignInv, NEW t \in SessionOf.tabs, NEW r \in SignPlaces, NEW next \in SignNext, NEW jar, SignJar(gw, jar),
         NEW calls, \A c \in calls : SignCall(gw, c), NEW hard \in BOOLEAN, Session!Go(t, r, next, jar, calls, hard)
  PROVE  SignUi(gw, ui') /\ \A c \in net' : SignCall(gw, c)
<1>1. PICK me \in Session!Me(jar) :
        /\ ui' = [ui EXCEPT !.jar = jar, !.tabs[t] = [Session!Page(t, r, next, jar, me) EXCEPT !.leaving = @ /\ ~hard]]
        /\ net' = (IF hard THEN Session!Forgotten(t, calls) ELSE Session!Kept(t, calls))
                    \cup (IF Session!Page(t, r, next, jar, me).at = "keys" THEN {Session!KeyCall(t, jar)} ELSE {})
  BY DEF Session!Go
<1>2. PICK p : p = Session!Page(t, r, next, jar, me)
  OBVIOUS
<1>3. SignTab(gw, p)
  BY <1>2, SignPage
<1>4. PICK l \in BOOLEAN : l = (p.leaving /\ ~hard)
  BY <1>3 DEF SignTab
<1>5. PICK b : b = [p EXCEPT !.leaving = l]
  OBVIOUS
<1>6. SignTab(gw, b)
  BY <1>3, <1>5 DEF SignTab, SignKey
<1>7. SignUi(gw, ui')
  BY <1>1, <1>2, <1>4, <1>5, <1>6, SignTabbed DEF SignInv
<1>8. PICK a : a = [tab |-> t, token |-> jar.token, user |-> jar.user]
  OBVIOUS
<1>9. a \in [tab: SignTabs, token: {a.token}, user: {a.user}] /\ a.token = jar.token /\ a.user = jar.user
  BY <1>8 DEF SignTabs
<1>10. SignPair(gw, jar)
  BY DEF SignJar
<1>11. SignPair(gw, a)
  BY <1>9, <1>10 DEF SignPair, SignIssued
<1>12. SignArg(gw, "token", a)
  BY <1>9, <1>11 DEF SignArg
<1>13. SignCall(gw, Session!KeyCall(t, jar))
  BY <1>8, <1>12, SignNew DEF Session!KeyCall, SignOps
<1>14. \A c \in net' : SignCall(gw, c)
  BY <1>1, <1>13, SignLeftBehind
<1> QED BY <1>7, <1>14

-----------------------------------------------------------------------------
(* What the user does: the gateway counts, and keeps the page a state is for *)

LEMMA SignFrame ==
  ASSUME SignGw(gw'), SignGrows(gw, gw'), SignUi(gw, ui'), \A c \in net' : SignCall(gw, c)
  PROVE  SignInv'
<1>1. SignUi(gw', ui') /\ \A c \in net' : SignCall(gw', c)
  BY SignKept
<1> QED BY <1>1 DEF SignInv

LEMMA SignCounts == ASSUME SignInv, Session!By(gw) PROVE SignGw(gw') /\ SignGrows(gw, gw')
<1>1. PICK e : gw' = [gw EXCEPT !.events = e]
  BY DEF Session!By
<1>2. SignGw(gw)
  BY DEF SignInv
<1>3. PICK p, l : p = gw.password /\ l = gw.live
  OBVIOUS
<1>4. gw' = [gw EXCEPT !.password = p, !.live = l, !.events = e]
  BY <1>1, <1>2, <1>3 DEF SignGw
<1> QED BY <1>2, <1>3, <1>4, SignQuietly

LEMMA SignIdle == ASSUME SignInv, gw' = gw PROVE SignGw(gw') /\ SignGrows(gw, gw')
BY SignSame DEF SignInv

LEMMA SignVisits ==
  ASSUME SignInv, NEW t \in SessionOf.tabs,
         (\E r \in SessionOf.visited : Session!Follow(t, r) \/ Session!Open(t, r)) \/ Session!Leave(t)
  PROVE  SignInv'
<1>1. SignJar(gw, ui.jar) /\ \A c \in net : SignCall(gw, c)
  BY DEF SignInv, SignUi
<1>2. ASSUME NEW r \in SignPlaces, NEW hard \in BOOLEAN, Session!Go(t, r, "app", ui.jar, net, hard), Session!By(gw) \/ gw' = gw
      PROVE  SignInv'
  <2>1. SignUi(gw, ui') /\ \A c \in net' : SignCall(gw, c)
    BY <1>1, <1>2, SignGo DEF SignNext
  <2> QED BY <1>2, <2>1, SignCounts, SignIdle, SignFrame
<1>3. \A r \in SessionOf.visited : r \in SignPlaces
  BY SignConstants DEF Session!ConstantsOK, SignPlaces
<1>4. CASE \E r \in SessionOf.visited : Session!Follow(t, r)
  BY <1>2, <1>3, <1>4 DEF Session!Follow, Session!Jar
<1>5. CASE \E r \in SessionOf.visited : Session!Open(t, r)
  BY <1>2, <1>3, <1>5 DEF Session!Open, Session!Jar
<1>6. CASE Session!Leave(t)
  <2>1. "login" \in SignPlaces
    BY DEF SignPlaces, Session!AuthPages
  <2>2. Session!Go(t, "login", "app", ui.jar, net, TRUE) /\ gw' = gw
    BY <1>6 DEF Session!Leave, Session!Jar
  <2> QED BY <1>2, <2>1, <2>2
<1> QED BY <1>4, <1>5, <1>6

LEMMA SignSends ==
  ASSUME SignInv, NEW t, NEW op \in SignOps, NEW arg, Session!Send(t, op, arg), SignArg(gw, op, arg), SignUi(gw, ui'), Session!By(gw)
  PROVE  SignInv'
<1>1. net' = net \cup {Session!Call(op, arg)}
  BY DEF Session!Send
<1>2. \A c \in net' : SignCall(gw, c)
  BY <1>1, SignNew DEF SignInv
<1> QED BY <1>2, SignCounts, SignFrame

LEMMA SignForms ==
  ASSUME SignInv, NEW t \in SessionOf.tabs,
         \/ \E u \in SessionOf.users, p \in SessionOf.passwords : Session!SubmitLogin(t, u, p) \/ Session!SubmitRegister(t, u, p)
         \/ \E p, q \in SessionOf.passwords : Session!SubmitPassword(t, p, q)
         \/ Session!Logout(t) \/ Session!Rotate(t) \/ \E ask \in BOOLEAN : Session!AskRotate(t, ask)
  PROVE  SignInv'
<1>1. SignUi(gw, ui) /\ SignJar(gw, ui.jar) /\ SignTab(gw, ui.tabs[t]) /\ t \in SignTabs
  BY DEF SignInv, SignUi, SignTabs
<1>2. PICK k : k = ui.jar.token
  OBVIOUS
<1>3. ASSUME NEW ask \in BOOLEAN, ui' = [ui EXCEPT !.tabs[t].asking = ask] PROVE SignUi(gw, ui')
  <2>1. PICK b, j : b = [ui.tabs[t] EXCEPT !.asking = ask] /\ j = ui.jar
    OBVIOUS
  <2>2. ui' = [ui EXCEPT !.jar = j, !.tabs[t] = b]
    BY <1>1, <1>3, <2>1 DEF SignUi
  <2>3. SignTab(gw, b)
    BY <1>1, <2>1 DEF SignTab, SignKey
  <2> QED BY <1>1, <2>1, <2>2, <2>3, SignTabbed
<1>4. ASSUME NEW u \in SessionOf.users, NEW p \in SessionOf.passwords, Session!SubmitLogin(t, u, p) PROVE SignInv'
  <2>1. PICK a : a = [tab |-> t, token |-> k, user |-> u, password |-> p, next |-> ui.tabs[t].next]
    OBVIOUS
  <2>2. SignArg(gw, "login", a)
    BY <1>1, <2>1 DEF SignArg, SignTab
  <2>3. Session!Send(t, "login", a) /\ Session!By(gw) /\ ui' = ui
    BY <1>2, <1>4, <2>1 DEF Session!SubmitLogin, Session!Tab, Session!Jar
  <2> QED BY <1>1, <2>2, <2>3, SignSends DEF SignOps
<1>5. ASSUME NEW u \in SessionOf.users, NEW p \in SessionOf.passwords, Session!SubmitRegister(t, u, p) PROVE SignInv'
  <2>1. PICK a : a = [tab |-> t, token |-> k, user |-> u, password |-> p, next |-> "app"]
    OBVIOUS
  <2>2. SignArg(gw, "register", a)
    BY <1>1, <2>1 DEF SignArg, SignNext
  <2>3. Session!Send(t, "register", a) /\ Session!By(gw) /\ ui' = ui
    BY <1>2, <1>5, <2>1 DEF Session!SubmitRegister, Session!Jar
  <2> QED BY <1>1, <2>2, <2>3, SignSends DEF SignOps
<1>6. ASSUME NEW p \in SessionOf.passwords, NEW q \in SessionOf.passwords, Session!SubmitPassword(t, p, q) PROVE SignInv'
  <2>1. PICK a : a = [tab |-> t, token |-> k, old |-> p, new |-> q]
    OBVIOUS
  <2>2. SignArg(gw, "password", a)
    BY <1>1, <2>1 DEF SignArg
  <2>3. Session!Send(t, "password", a) /\ Session!By(gw) /\ ui' = ui
    BY <1>2, <1>6, <2>1 DEF Session!SubmitPassword, Session!Jar
  <2> QED BY <1>1, <2>2, <2>3, SignSends DEF SignOps
<1>7. PICK a : a = [tab |-> t, token |-> k]
  OBVIOUS
<1>8. SignArg(gw, "logout", a) /\ SignArg(gw, "rotate", a)
  BY <1>1, <1>7 DEF SignArg
<1>9. CASE Session!Logout(t)
  <2>1. Session!Send(t, "logout", a) /\ Session!By(gw) /\ ui' = ui
    BY <1>2, <1>7, <1>9 DEF Session!Logout, Session!Jar
  <2> QED BY <1>1, <1>8, <2>1, SignSends DEF SignOps
<1>10. CASE Session!Rotate(t)
  <2>1. Session!Send(t, "rotate", a) /\ Session!By(gw) /\ ui' = [ui EXCEPT !.tabs[t].asking = FALSE]
    BY <1>2, <1>7, <1>10 DEF Session!Rotate, Session!Jar
  <2> QED BY <1>3, <1>8, <2>1, SignSends DEF SignOps
<1>11. ASSUME NEW ask \in BOOLEAN, Session!AskRotate(t, ask) PROVE SignInv'
  <2>1. SignUi(gw, ui') /\ Session!By(gw) /\ net' = net
    BY <1>3, <1>11 DEF Session!AskRotate
  <2> QED BY <2>1, SignCounts, SignFrame DEF SignInv
<1> QED BY <1>4, <1>5, <1>6, <1>9, <1>10, <1>11

LEMMA SignStarts == ASSUME SignInv, NEW t \in SessionOf.tabs, Session!StartGithub(t) PROVE SignInv'
<1>1. SignGw(gw) /\ SignUi(gw, ui) /\ SignJar(gw, ui.jar) /\ SignTab(gw, ui.tabs[t]) /\ \A c \in net : SignCall(gw, c)
  BY DEF SignInv, SignUi
<1>2. gw.sessions \in Seq(SignSession) /\ gw.asked \in Seq(SignNext) /\ ui.tabs[t].next \in SignNext
  BY <1>1 DEF SignGw, SignTab
<1>3. PICK n \in Nat : n = Len(gw.asked)
  BY <1>2
<1>4. PICK x \in SignNext : x = ui.tabs[t].next
  BY <1>2
<1>5. PICK q : q = Append(gw.asked, x)
  OBVIOUS
<1>6. q \in Seq(SignNext) /\ Len(q) = n + 1 /\ q[n + 1] = x /\ \A i \in 1..n : q[i] = gw.asked[i]
  BY <1>2, <1>3, <1>5
<1>7. PICK e : gw' = [gw EXCEPT !.asked = q, !.events = e]
  BY <1>4, <1>5 DEF Session!StartGithub, Session!By, Session!Tab
<1>8. gw'.asked = q /\ gw'.sessions = gw.sessions /\ gw'.live = gw.live /\ gw'.spent = gw.spent
  BY <1>1, <1>7 DEF SignGw
<1>9. SignGrows(gw, gw')
  <2>1. Len(gw.sessions) \in Nat
    BY <1>2
  <2> QED BY <1>3, <1>6, <1>8, <2>1 DEF SignGrows
<1>10. gw'.spent \subseteq 1..Len(gw'.asked)
  BY <1>1, <1>3, <1>6, <1>8 DEF SignGw
<1>11. gw' \in [password: {gw'.password}, sessions: Seq(SignSession), live: SUBSET (1..Len(gw'.sessions)), asked: Seq(SignNext),
               spent: SUBSET (1..Len(gw'.asked)), events: {gw'.events}]
  BY <1>1, <1>6, <1>7, <1>8, <1>10 DEF SignGw
<1>12. SignGw(gw')
  BY <1>1, <1>8, <1>11 DEF SignGw
<1>13. PICK o : o = [state |-> n + 1, next |-> x]
  OBVIOUS
<1>14. n + 1 \in 1..Len(gw'.asked)
  BY <1>3, <1>6, <1>8
<1>15. SignAsked(gw', o)
  BY <1>6, <1>8, <1>13, <1>14 DEF SignAsked
<1>16. PICK j, b : j = [ui.jar EXCEPT !.oauth = o] /\ b = [ui.tabs[t] EXCEPT !.at = "github", !.flow = n + 1, !.leaving = FALSE]
  OBVIOUS
<1>17. SignUi(gw', ui) /\ SignPair(gw', ui.jar)
  BY <1>1, <1>9, SignKept DEF SignJar
<1>18. SignTab(gw', ui.tabs[t])
  BY <1>17 DEF SignUi
<1>19. SignJar(gw', j)
  <2>1. j \in [token: {j.token}, user: {j.user}, oauth: {j.oauth}] /\ j.token = ui.jar.token /\ j.user = ui.jar.user /\ j.oauth = o
    BY <1>1, <1>16 DEF SignJar
  <2>2. SignPair(gw', j)
    BY <1>17, <2>1 DEF SignPair, SignIssued
  <2> QED BY <1>15, <2>1, <2>2 DEF SignJar
<1>20. SignTab(gw', b)
  BY <1>14, <1>16, <1>18 DEF SignTab, SignKey
<1>21. ui' = [ui EXCEPT !.jar = j, !.tabs[t] = b]
  BY <1>1, <1>3, <1>4, <1>13, <1>16 DEF Session!StartGithub, Session!Tab, Session!Jar, SignUi
<1>22. SignUi(gw', ui')
  BY <1>17, <1>19, <1>20, <1>21, SignTabbed
<1>23. net' = Session!Forgotten(t, net)
  BY DEF Session!StartGithub
<1>24. \A c \in net' : SignCall(gw', c)
  BY <1>1, <1>9, <1>23, SignKept, SignLeftBehind
<1> QED BY <1>12, <1>22, <1>24 DEF SignInv

LEMMA SignCallback == ASSUME SignInv, NEW t \in SessionOf.tabs, NEW u \in SessionOf.users, Session!Callback(t, u) PROVE SignInv'
<1>1. SignUi(gw, ui) /\ SignJar(gw, ui.jar) /\ SignTab(gw, ui.tabs[t]) /\ \A c \in net : SignCall(gw, c)
  BY DEF SignInv, SignUi
<1>2. PICK j, b : /\ j = ui.jar
                  /\ b = [ui.tabs[t] EXCEPT !.at = "github", !.name = None, !.key = None, !.asking = FALSE, !.leaving = FALSE]
  OBVIOUS
<1>3. ui' = [ui EXCEPT !.jar = j, !.tabs[t] = b]
  BY <1>1, <1>2 DEF Session!Callback, Session!Tab, SignUi
<1>4. SignTab(gw, b)
  BY <1>1, <1>2 DEF SignTab, SignKey
<1>5. SignUi(gw, ui')
  BY <1>1, <1>2, <1>3, <1>4, SignTabbed
<1>6. PICK a : a = [tab |-> t, flow |-> ui.tabs[t].flow, stored |-> ui.jar.oauth, user |-> u]
  OBVIOUS
<1>7. ui.tabs[t].flow \in 1..Len(gw.asked) /\ SignAsked(gw, ui.jar.oauth)
  BY <1>1 DEF Session!Callback, Session!Tab, SignTab, SignJar
<1>8. SignArg(gw, "callback", a)
  BY <1>6, <1>7 DEF SignArg, SignTabs
<1>9. net' = Session!Forgotten(t, net) \cup {Session!Call("callback", a)}
  BY <1>6 DEF Session!Callback, Session!Tab, Session!Jar
<1>10. \A c \in net' : SignCall(gw, c)
  BY <1>1, <1>8, <1>9, SignNew, SignLeftBehind DEF SignOps
<1>11. Session!By(gw)
  BY DEF Session!Callback
<1> QED BY <1>5, <1>10, <1>11, SignCounts, SignFrame

-----------------------------------------------------------------------------
(* The routes answer                                                        *)

\* A reply that fits its call, or none at all.
LEMMA SignReply ==
  ASSUME SignInv, NEW c \in net, SignGw(gw'), SignGrows(gw, gw'), ui' = ui, NEW v, Session!Replies(c, v), SignVal(gw', c.op, c.arg, v)
  PROVE  SignInv'
<1>1. SignUi(gw', ui) /\ \A d \in net : SignCall(gw', d)
  BY SignKept DEF SignInv
<1>2. PICK a, f : a = [c EXCEPT !.at = "ok", !.val = v] /\ f = [c EXCEPT !.at = "failed"]
  OBVIOUS
<1>3. SignCall(gw', c)
  BY <1>1
<1>4. SignCall(gw', a)
  <2>1. /\ a \in [op: SignOps, arg: {a.arg}, at: {"sent", "ok", "failed"}, val: {a.val}, live: BOOLEAN]
        /\ a.op = c.op /\ a.arg = c.arg /\ a.val = v
    BY <1>2, <1>3 DEF SignCall
  <2> QED BY <1>3, <2>1 DEF SignCall
<1>5. SignCall(gw', f)
  <2>1. /\ f \in [op: SignOps, arg: {f.arg}, at: {"sent", "ok", "failed"}, val: {f.val}, live: BOOLEAN]
        /\ f.op = c.op /\ f.arg = c.arg /\ f.at = "failed"
    BY <1>2, <1>3 DEF SignCall
  <2> QED BY <1>3, <2>1 DEF SignCall
<1>6. \A d \in net' : SignCall(gw', d)
  BY <1>1, <1>2, <1>4, <1>5 DEF Session!Replies, Session!Answered, Session!Failed
<1> QED BY <1>1, <1>6 DEF SignInv

\* A session for u, with the ticket that goes to the browser.
LEMMA SignTicket ==
  ASSUME SignInv, NEW c \in net, NEW u \in SessionOf.users, NEW f \in Nat \cup {None}, NEW p, NEW s \in SUBSET (1..Len(gw.asked)),
         gw.spent \subseteq s, f # None => f \in s /\ f \notin gw.spent,
         gw' = Session!Minted([gw EXCEPT !.password = p, !.spent = s], u, f),
         NEW x, Session!Replies(c, Session!Ticket(gw, u, x)), c.op = "callback" => x = gw.asked[c.arg.flow],
         c.op \in {"login", "register", "callback"}, ui' = ui
  PROVE  SignInv'
<1>1. SignGw(gw)
  BY DEF SignInv
<1>2. gw' = [gw EXCEPT !.password = p, !.spent = s, !.sessions = Append(gw.sessions, [user |-> u, flow |-> f]),
                       !.live = gw.live \cup {Len(gw.sessions) + 1}]
  BY <1>1 DEF Session!Minted, SignGw
<1>3. /\ SignGw(gw') /\ SignGrows(gw, gw')
      /\ Len(gw.sessions) + 1 \in 1..Len(gw'.sessions) /\ gw'.sessions[Len(gw.sessions) + 1].user = u
      /\ gw'.asked = gw.asked
  <2>1. SignMinted(gw, gw', u, f, p, s)
    BY <1>2 DEF SignMinted
  <2> QED BY <1>1, <2>1, SignMints
<1>4. PICK v : v = Session!Ticket(gw, u, x)
  OBVIOUS
<1>5. v.token = Len(gw.sessions) + 1 /\ v.user = u /\ v.next = x
  BY <1>4 DEF Session!Ticket
<1>6. SignIssued(gw', v)
  BY <1>3, <1>5 DEF SignIssued
<1>7. SignVal(gw', c.op, c.arg, v)
  BY <1>3, <1>5, <1>6 DEF SignVal
<1> QED BY <1>3, <1>4, <1>7, SignReply

LEMMA SignMinting ==
  ASSUME SignInv, NEW c \in net, Session!ServeLogin(c) \/ Session!ServeRegister(c) \/ Session!ServeCallback(c)
  PROVE  SignInv'
<1>1. SignGw(gw) /\ SignCall(gw, c) /\ SignArg(gw, c.op, c.arg) /\ gw.spent \in SUBSET (1..Len(gw.asked))
  BY DEF SignInv, SignCall, SignGw
<1>2. ui' = ui
  BY DEF Session!ServeLogin, Session!ServeRegister, Session!ServeCallback
<1>3. CASE Session!ServeLogin(c)
  <2>1. c.op = "login" /\ c.arg.user \in SessionOf.users
    BY <1>1, <1>3 DEF Session!ServeLogin, Session!Sent, SignArg
  <2>2. PICK p, s : p = gw.password /\ s = gw.spent
    OBVIOUS
  <2>3. gw = [gw EXCEPT !.password = p, !.spent = s]
    BY <1>1, <2>2 DEF SignGw
  <2>4. gw' = Session!Minted([gw EXCEPT !.password = p, !.spent = s], c.arg.user, None)
    BY <1>3, <2>3 DEF Session!ServeLogin
  <2>5. Session!Replies(c, Session!Ticket(gw, c.arg.user, c.arg.next))
    BY <1>3 DEF Session!ServeLogin
  <2> QED BY <1>1, <1>2, <2>1, <2>2, <2>4, <2>5, SignTicket
<1>4. CASE Session!ServeRegister(c)
  <2>1. c.op = "register" /\ c.arg.user \in SessionOf.users
    BY <1>1, <1>4 DEF Session!ServeRegister, Session!Sent, SignArg
  <2>2. PICK p, s : p = [gw.password EXCEPT ![c.arg.user] = c.arg.password] /\ s = gw.spent
    OBVIOUS
  <2>3. [gw EXCEPT !.password[c.arg.user] = c.arg.password] = [gw EXCEPT !.password = p, !.spent = s]
    BY <1>1, <2>2 DEF SignGw
  <2>4. gw' = Session!Minted([gw EXCEPT !.password = p, !.spent = s], c.arg.user, None)
    BY <1>4, <2>3 DEF Session!ServeRegister
  <2>5. Session!Replies(c, Session!Ticket(gw, c.arg.user, c.arg.next))
    BY <1>4 DEF Session!ServeRegister
  <2> QED BY <1>1, <1>2, <2>1, <2>2, <2>4, <2>5, SignTicket
<1>5. CASE Session!ServeCallback(c)
  <2>1. /\ c.op = "callback" /\ c.arg.user \in SessionOf.users /\ c.arg.flow \in 1..Len(gw.asked) /\ c.arg.flow \notin gw.spent
        /\ SignAsked(gw, c.arg.stored) /\ c.arg.stored # None /\ c.arg.stored.state = c.arg.flow
    BY <1>1, <1>5 DEF Session!ServeCallback, Session!Matches, Session!Sent, SignArg
  <2>2. c.arg.stored.next = gw.asked[c.arg.flow]
    BY <2>1 DEF SignAsked
  <2>3. PICK p, s : /\ p = [gw.password EXCEPT ![c.arg.user] = IF @ = None THEN SessionOf.random ELSE @]
                    /\ s = gw.spent \cup {c.arg.flow}
    OBVIOUS
  <2>4. [gw EXCEPT !.spent = @ \cup {c.arg.flow}, !.password[c.arg.user] = IF @ = None THEN SessionOf.random ELSE @]
          = [gw EXCEPT !.password = p, !.spent = s]
    BY <1>1, <2>3 DEF SignGw
  <2>5. gw' = Session!Minted([gw EXCEPT !.password = p, !.spent = s], c.arg.user, c.arg.flow)
    BY <1>5, <2>4 DEF Session!ServeCallback
  <2>6. Session!Replies(c, Session!Ticket(gw, c.arg.user, c.arg.stored.next))
    BY <1>5 DEF Session!ServeCallback
  <2>7. s \in SUBSET (1..Len(gw.asked)) /\ gw.spent \subseteq s /\ c.arg.flow \in s /\ c.arg.flow \in Nat
    BY <1>1, <2>1, <2>3
  <2> QED BY <1>2, <2>1, <2>2, <2>5, <2>6, <2>7, SignTicket
<1> QED BY <1>3, <1>4, <1>5

LEMMA SignOther ==
  ASSUME SignInv, NEW c \in net,
         \/ Session!ServeLogout(c) \/ Session!ServePassword(c) \/ Session!ServeKey(c) \/ Session!RefuseCallback(c) \/ Session!Refuse(c)
  PROVE  SignInv'
<1>1. SignGw(gw) /\ SignCall(gw, c) /\ SignArg(gw, c.op, c.arg) /\ \A d \in net : SignCall(gw, d)
  BY DEF SignInv, SignCall
<1>2. ui' = ui
  BY DEF Session!ServeLogout, Session!ServePassword, Session!ServeKey, Session!RefuseCallback, Session!Refuse
<1>3. ASSUME NEW p, NEW l \in SUBSET gw.live, gw' = [gw EXCEPT !.password = p, !.live = l] PROVE SignGw(gw') /\ SignGrows(gw, gw')
  <2>1. PICK e : e = gw.events
    OBVIOUS
  <2>2. gw' = [gw EXCEPT !.password = p, !.live = l, !.events = e]
    BY <1>1, <1>3, <2>1 DEF SignGw
  <2> QED BY <1>1, <2>2, SignQuietly
<1>4. gw' = gw => SignGw(gw') /\ SignGrows(gw, gw')
  BY SignIdle
<1>5. CASE Session!ServeLogout(c)
  <2>1. c.op \in {"logout", "rotate"} /\ Session!Replies(c, None)
    BY <1>5 DEF Session!ServeLogout, Session!Sent
  <2>2. SignVal(gw', c.op, c.arg, None)
    BY <2>1 DEF SignVal
  <2>3. PICK p, l : p = gw.password /\ l = gw.live \ {c.arg.token}
    OBVIOUS
  <2>4. gw' = gw \/ gw' = [gw EXCEPT !.password = p, !.live = l]
    BY <1>1, <1>5, <2>3 DEF Session!ServeLogout, SignGw
  <2>5. SignGw(gw') /\ SignGrows(gw, gw')
    <3>1. l \in SUBSET gw.live
      BY <2>3
    <3> QED BY <1>3, <1>4, <2>4, <3>1
  <2> QED BY <1>2, <2>1, <2>2, <2>5, SignReply
<1>6. CASE Session!ServePassword(c)
  <2>1. c.op = "password" /\ Session!Replies(c, None)
    BY <1>6 DEF Session!ServePassword, Session!Sent
  <2>2. SignVal(gw', c.op, c.arg, None)
    BY <2>1 DEF SignVal
  <2>3. PICK u : gw' = [gw EXCEPT !.password[u] = c.arg.new, !.live = @ \ {c.arg.token}]
    BY <1>6 DEF Session!ServePassword
  <2>4. PICK p, l : p = [gw.password EXCEPT ![u] = c.arg.new] /\ l = gw.live \ {c.arg.token}
    OBVIOUS
  <2>5. gw' = [gw EXCEPT !.password = p, !.live = l]
    BY <1>1, <2>3, <2>4 DEF SignGw
  <2>6. SignGw(gw') /\ SignGrows(gw, gw')
    BY <1>3, <2>4, <2>5
  <2> QED BY <1>2, <2>1, <2>2, <2>6, SignReply
<1>7. CASE Session!ServeKey(c)
  <2>1. PICK v : v = [token |-> c.arg.token, user |-> c.arg.user]
    OBVIOUS
  <2>2. c.op = "token" /\ c.arg.token # None /\ Session!Replies(c, v) /\ gw' = gw
    BY <1>7, <2>1 DEF Session!ServeKey, Session!Sent
  <2>3. SignIssued(gw, v)
    BY <1>1, <2>1, <2>2 DEF SignArg, SignPair, SignIssued
  <2>4. SignVal(gw', c.op, c.arg, v)
    BY <2>2, <2>3 DEF SignVal
  <2> QED BY <1>2, <1>4, <2>2, <2>4, SignReply
<1>8. CASE Session!RefuseCallback(c)
  <2>1. c.op = "callback" /\ Session!Replies(c, None)
    BY <1>8 DEF Session!RefuseCallback, Session!Sent
  <2>2. SignVal(gw', c.op, c.arg, None)
    BY <2>1 DEF SignVal
  <2>3. c.arg.flow \in 1..Len(gw.asked)
    BY <1>1, <2>1 DEF SignArg
  <2>4. CASE gw' = gw
    BY <1>2, <1>4, <2>1, <2>2, <2>4, SignReply
  <2>5. CASE gw' = [gw EXCEPT !.spent = @ \cup {c.arg.flow}]
    <3>1. PICK s : s = gw.spent \cup {c.arg.flow}
      OBVIOUS
    <3>2. s \in SUBSET (1..Len(gw.asked)) /\ gw.spent \subseteq s
      BY <1>1, <2>3, <3>1 DEF SignGw
    <3>3. gw' = [gw EXCEPT !.spent = s]
      BY <2>5, <3>1
    <3>4. gw'.spent = s /\ gw'.sessions = gw.sessions /\ gw'.asked = gw.asked /\ gw'.live = gw.live
      BY <1>1, <3>3 DEF SignGw
    <3>5. gw' \in [password: {gw'.password}, sessions: Seq(SignSession), live: SUBSET (1..Len(gw'.sessions)), asked: Seq(SignNext),
                   spent: SUBSET (1..Len(gw'.asked)), events: {gw'.events}]
      BY <1>1, <3>2, <3>3, <3>4 DEF SignGw
    <3>6. SignGw(gw')
      BY <1>1, <3>2, <3>4, <3>5 DEF SignGw
    <3> QED BY <1>1, <1>2, <2>1, <2>2, <3>4, <3>6, SignSame, SignReply
  <2>6. gw' = gw \/ gw' = [gw EXCEPT !.spent = @ \cup {c.arg.flow}]
    BY <1>8 DEF Session!RefuseCallback
  <2> QED BY <2>4, <2>5, <2>6
<1>9. CASE Session!Refuse(c)
  <2>1. PICK f : f = [c EXCEPT !.at = "failed"]
    OBVIOUS
  <2>2. /\ f \in [op: SignOps, arg: {f.arg}, at: {"sent", "ok", "failed"}, val: {f.val}, live: BOOLEAN]
        /\ f.op = c.op /\ f.arg = c.arg /\ f.at = "failed"
    BY <1>1, <2>1 DEF SignCall
  <2>3. SignCall(gw, f)
    BY <1>1, <2>2 DEF SignCall
  <2>4. gw' = gw /\ \A d \in net' : SignCall(gw, d)
    BY <1>1, <1>9, <2>1, <2>3 DEF Session!Refuse, Session!Failed
  <2> QED BY <1>2, <1>4, <2>4, SignFrame DEF SignInv
<1> QED BY <1>5, <1>6, <1>7, <1>8, <1>9

LEMMA SignExpires == ASSUME SignInv, NEW n, Session!Expire(n) PROVE SignInv'
<1>1. SignGw(gw)
  BY DEF SignInv
<1>2. PICK p, l, e : p = gw.password /\ l = gw.live \ {n} /\ e = gw.events
  OBVIOUS
<1>3. gw' = [gw EXCEPT !.password = p, !.live = l, !.events = e]
  BY <1>1, <1>2 DEF Session!Expire, SignGw
<1>4. SignGw(gw') /\ SignGrows(gw, gw')
  BY <1>1, <1>2, <1>3, SignQuietly
<1> QED BY <1>4, SignFrame DEF Session!Expire, SignInv

-----------------------------------------------------------------------------
(* The continuations set and clear the cookies                              *)

LEMMA SignCookies ==
  ASSUME SignInv
  PROVE  /\ \A v : SignIssued(gw, v) => SignJar(gw, Session!Cookies(v)) /\ SignJar(gw, [Session!Cookies(v) EXCEPT !.oauth = None])
         /\ SignJar(gw, Session!NoCookies) /\ SignJar(gw, [Session!Jar EXCEPT !.oauth = None])
<1>1. SignJar(gw, ui.jar)
  BY DEF SignInv, SignUi
<1>2. ASSUME NEW tok, NEW u, NEW o, NEW j, j = [token |-> tok, user |-> u, oauth |-> o],
             (tok = None /\ u = None) \/ (tok \in 1..Len(gw.sessions) /\ u = gw.sessions[tok].user), SignAsked(gw, o)
      PROVE  SignJar(gw, j)
  BY <1>2 DEF SignJar, SignPair, SignIssued
<1>3. SignAsked(gw, ui.jar.oauth) /\ SignAsked(gw, None) /\ ui.jar \in [token: {ui.jar.token}, user: {ui.jar.user}, oauth: {ui.jar.oauth}]
  BY <1>1 DEF SignJar, SignAsked
<1> DEFINE Put(j, tok, u) == [j EXCEPT !.token = tok, !.user = u]
<1>4. ASSUME NEW j, j \in [token: {j.token}, user: {j.user}, oauth: {j.oauth}], NEW tok, NEW u, NEW m, m = Put(j, tok, u)
      PROVE  m = [token |-> tok, user |-> u, oauth |-> j.oauth]
  <2>1. m.token = tok /\ m.user = u /\ m.oauth = j.oauth /\ m \in [token: {tok}, user: {u}, oauth: {j.oauth}]
    BY <1>4
  <2> QED BY <2>1
<1>5. ASSUME NEW v, SignIssued(gw, v)
      PROVE  SignJar(gw, Session!Cookies(v)) /\ SignJar(gw, [Session!Cookies(v) EXCEPT !.oauth = None])
  <2>1. Session!Cookies(v) = [token |-> v.token, user |-> v.user, oauth |-> ui.jar.oauth]
    BY <1>3, <1>4 DEF Session!Cookies, Session!Jar
  <2>2. [Session!Cookies(v) EXCEPT !.oauth = None] = [token |-> v.token, user |-> v.user, oauth |-> None]
    BY <2>1
  <2> QED BY <1>2, <1>3, <1>5, <2>1, <2>2 DEF SignIssued
<1>6. SignJar(gw, Session!NoCookies)
  <2>1. Session!NoCookies = [token |-> None, user |-> None, oauth |-> ui.jar.oauth]
    BY <1>3, <1>4 DEF Session!NoCookies, Session!Jar
  <2> QED BY <1>2, <1>3, <2>1
<1>7. SignJar(gw, [Session!Jar EXCEPT !.oauth = None])
  <2>1. [Session!Jar EXCEPT !.oauth = None] = [token |-> ui.jar.token, user |-> ui.jar.user, oauth |-> None]
    BY <1>3 DEF Session!Jar
  <2> QED BY <1>1, <1>2, <1>3, <2>1 DEF SignJar, SignPair, SignIssued
<1> QED BY <1>5, <1>6, <1>7

LEMMA SignContinues == ASSUME SignInv, NEW c \in net, Session!Continuing(c) PROVE SignInv'
<1>1. /\ SignGw(gw) /\ SignUi(gw, ui) /\ SignJar(gw, ui.jar) /\ SignCall(gw, c)
      /\ \A d \in net \ {c} : SignCall(gw, d)
  BY DEF SignInv, SignUi
<1>2. gw' = gw /\ SignGw(gw') /\ SignGrows(gw, gw')
  BY SignIdle DEF Session!Continuing, Session!SignedIn, Session!SignedOut, Session!Rotated, Session!PasswordChanged,
                  Session!KeyShown, Session!Returned
<1>3. PICK t : t = c.arg.tab
  OBVIOUS
<1>4. t \in SessionOf.tabs
  <2>1. c.op \in SignOps /\ SignArg(gw, c.op, c.arg)
    BY <1>1 DEF SignCall
  <2>2. c.arg.tab \in SignTabs
    BY <2>1 DEF SignOps, SignArg
  <2>3. c.arg.tab # None
    BY DEF Session!Continuing, Session!SignedIn, Session!SignedOut, Session!Rotated, Session!PasswordChanged,
           Session!KeyShown, Session!Returned, Session!Ended
  <2> QED BY <1>3, <2>2, <2>3 DEF SignTabs
<1>5. ASSUME NEW r \in {"login", "app", "keys"}, NEW next \in SignNext, NEW jar, SignJar(gw, jar), NEW hard \in BOOLEAN,
             Session!Go(t, r, next, jar, net \ {c}, hard)
      PROVE  SignInv'
  <2>1. r \in SignPlaces
    BY DEF SignPlaces, Session!AuthPages, Session!Inside
  <2>2. SignUi(gw, ui') /\ \A d \in net' : SignCall(gw, d)
    BY <1>1, <1>4, <1>5, <2>1, SignGo
  <2> QED BY <1>2, <2>2, SignFrame
<1>6. ASSUME SignUi(gw, ui'), net' = net \ {c} PROVE SignInv'
  BY <1>1, <1>2, <1>6, SignFrame
<1>7. CASE Session!SignedIn(c)
  <2>1. CASE c.at = "ok"
    <3>1. SignIssued(gw, c.val) /\ c.arg.next \in SignNext
      BY <1>1, <1>7, <2>1 DEF Session!SignedIn, Session!Ended, SignCall, SignVal, SignArg
    <3>2. Session!Go(t, c.arg.next, "app", Session!Cookies(c.val), net \ {c}, FALSE)
      BY <1>3, <1>7, <2>1 DEF Session!SignedIn
    <3> QED BY <1>5, <3>1, <3>2, SignCookies DEF SignNext
  <2>2. CASE c.at # "ok"
    BY <1>1, <1>6, <1>7, <2>2 DEF Session!SignedIn
  <2> QED BY <2>1, <2>2
<1>8. CASE Session!SignedOut(c)
  <2>1. PICK jar : jar = IF c.at = "ok" THEN Session!NoCookies ELSE ui.jar
    OBVIOUS
  <2>2. SignJar(gw, jar)
    BY <1>1, <2>1, SignCookies
  <2>3. Session!Go(t, "login", "app", jar, net \ {c}, FALSE)
    BY <1>3, <1>8, <2>1 DEF Session!SignedOut, Session!Jar
  <2> QED BY <1>5, <2>2, <2>3 DEF SignNext
<1>9. CASE Session!Rotated(c)
  <2>1. CASE c.at = "ok"
    <3>1. Session!Go(t, "login", "keys", Session!NoCookies, net \ {c}, TRUE)
      BY <1>3, <1>9, <2>1 DEF Session!Rotated
    <3> QED BY <1>5, <3>1, SignCookies DEF SignNext
  <2>2. CASE c.at # "ok"
    BY <1>1, <1>6, <1>9, <2>2 DEF Session!Rotated
  <2> QED BY <2>1, <2>2
<1>10. CASE Session!PasswordChanged(c)
  <2>1. PICK j, b : j = Session!NoCookies /\ b = [ui.tabs[t] EXCEPT !.leaving = TRUE]
    OBVIOUS
  <2>2. SignTab(gw, b)
    <3>1. SignTab(gw, ui.tabs[t])
      BY <1>1, <1>4 DEF SignUi
    <3> QED BY <2>1, <3>1 DEF SignTab, SignKey
  <2>3. ui' = ui \/ ui' = [ui EXCEPT !.jar = j, !.tabs[t] = b]
    BY <1>3, <1>10, <2>1 DEF Session!PasswordChanged
  <2>4. SignJar(gw, j)
    BY <2>1, SignCookies
  <2>5. SignUi(gw, ui')
    BY <1>1, <1>4, <2>2, <2>3, <2>4, SignTabbed
  <2> QED BY <1>6, <1>10, <2>5 DEF Session!PasswordChanged
<1>11. CASE Session!KeyShown(c)
  <2>1. CASE c.at = "ok"
    <3>1. SignIssued(gw, c.val)
      BY <1>1, <1>11, <2>1 DEF Session!KeyShown, Session!Ended, SignCall, SignVal
    <3>2. PICK j, b : j = ui.jar /\ b = [ui.tabs[t] EXCEPT !.key = c.val]
      OBVIOUS
    <3>3. SignTab(gw, b)
      <4>1. SignTab(gw, ui.tabs[t])
        BY <1>1, <1>4 DEF SignUi
      <4>2. b.key = c.val
        BY <3>2, <4>1 DEF SignTab
      <4>3. SignKey(gw, b.key)
        BY <3>1, <4>2 DEF SignKey
      <4> QED BY <3>2, <4>1, <4>3 DEF SignTab
    <3>4. ui' = [ui EXCEPT !.jar = j, !.tabs[t] = b]
      BY <1>1, <1>3, <1>11, <2>1, <3>2 DEF Session!KeyShown, SignUi
    <3>5. SignUi(gw, ui')
      BY <1>1, <1>4, <3>2, <3>3, <3>4, SignTabbed
    <3> QED BY <1>6, <1>11, <3>5 DEF Session!KeyShown
  <2>2. CASE c.at # "ok"
    BY <1>1, <1>6, <1>11, <2>2 DEF Session!KeyShown
  <2> QED BY <2>1, <2>2
<1>12. CASE Session!Returned(c)
  <2>1. c.op = "callback" /\ c.at \in {"ok", "failed"}
    BY <1>1, <1>12 DEF Session!Returned, Session!Ended, SignCall
  <2>2. CASE c.at = "failed"
    BY <1>1, <1>6, <1>12, <2>2 DEF Session!Returned
  <2>3. CASE c.at = "ok" /\ c.val = None
    <3>1. PICK jar : jar = [Session!Jar EXCEPT !.oauth = None]
      OBVIOUS
    <3>2. Session!Go(t, "login", "app", jar, net \ {c}, TRUE)
      BY <1>3, <1>12, <2>3, <3>1 DEF Session!Returned
    <3> QED BY <1>5, <3>1, <3>2, SignCookies DEF SignNext
  <2>4. CASE c.at = "ok" /\ c.val # None
    <3>1. PICK jar : jar = [Session!Cookies(c.val) EXCEPT !.oauth = None]
      OBVIOUS
    <3>2. Session!Go(t, c.val.next, "app", jar, net \ {c}, TRUE)
      BY <1>3, <1>12, <2>4, <3>1 DEF Session!Returned
    <3>3. SignIssued(gw, c.val) /\ c.val.next = gw.asked[c.arg.flow] /\ c.arg.flow \in 1..Len(gw.asked)
      BY <1>1, <2>1, <2>4 DEF SignCall, SignVal, SignArg
    <3>4. gw.asked \in Seq(SignNext)
      BY <1>1 DEF SignGw
    <3>5. c.val.next \in SignNext
      BY <3>3, <3>4
    <3> QED BY <1>5, <3>1, <3>2, <3>3, <3>5, SignCookies DEF SignNext
  <2> QED BY <2>1, <2>2, <2>3, <2>4
<1> QED BY <1>7, <1>8, <1>9, <1>10, <1>11, <1>12 DEF Session!Continuing

LEMMA SignNextStep == ASSUME SignInv, Session!Next PROVE SignInv'
<1>1. CASE \E t \in SessionOf.tabs : Session!Tabbing(t)
  BY <1>1, SignVisits, SignForms, SignStarts, SignCallback DEF Session!Tabbing
<1>2. CASE \E c \in net : Session!Serving(c)
  BY <1>2, SignMinting, SignOther DEF Session!Serving
<1>3. CASE \E c \in net : Session!Continuing(c)
  BY <1>3, SignContinues
<1>4. CASE \E n \in Session!Tokens : Session!Expire(n)
  BY <1>4, SignExpires
<1> QED BY <1>1, <1>2, <1>3, <1>4 DEF Session!Next

-----------------------------------------------------------------------------
(* The console: the page shown keeps its invariant *)

Pages == {"compute", "newpod", "newendpoint", "endpoints", "tabs", "history", "benchmarks", "benchlog", "newbench", "benchrun",
          "session", "users", "roles", "providers"}
ConsoleInv == /\ page \in Pages
              /\ page = "compute" => ComputeInv
              /\ page = "newpod" => NewPodScreen
              /\ page = "newendpoint" => EndpointInv
              /\ page = "endpoints" => EndpointsInv
              /\ page = "tabs" => ViewsInv
              /\ page = "history" => HistoryInv
              /\ page = "benchmarks" => BenchesInv
              /\ page = "benchlog" => BenchLogInv
              /\ page = "newbench" => BenchFormInv(NewBenchOf)
              /\ page = "benchrun" => BenchFormInv(BenchRunOf)
              /\ page = "session" => SignInv
              /\ page = "users" => OrgInv(UsersOf)
              /\ page = "roles" => OrgInv(RolesOf)
              /\ page = "providers" => ProvidersInv /\ AccountsInv

LEMMA ConsoleInit == Init => ConsoleInv
<1> SUFFICES ASSUME Init PROVE ConsoleInv
  OBVIOUS
<1>1. page \in Pages
  BY DEF Init, Pages
<1>2. /\ page = "compute" => ComputeInv
      /\ page = "endpoints" => EndpointsInv
      /\ page = "benchmarks" => BenchesInv
      /\ page = "benchlog" => BenchLogInv
      /\ page = "tabs" => ViewsInv
      /\ page = "history" => HistoryInv
  BY ComputeInit, EndpointsInit, BenchesInit, BenchLogInit, ViewsInit, HistoryInit DEF Init
<1>3. /\ page = "newpod" => NewPodScreen
      /\ page = "newendpoint" => EndpointInv
      /\ page = "newbench" => BenchFormInv(NewBenchOf)
      /\ page = "benchrun" => BenchFormInv(BenchRunOf)
  BY NewPodScreenInit, EndpointInit, BenchFormInit, ConsoleAssumption DEF Init
<1>4. /\ page = "session" => SignInv
      /\ page = "users" => OrgInv(UsersOf)
      /\ page = "roles" => OrgInv(RolesOf)
      /\ page = "providers" => ProvidersInv /\ AccountsInv
  BY SignInit, OrgInit, ProvidersInit, AccountsInit, ConsoleAssumption DEF Init
<1> QED BY <1>1, <1>2, <1>3, <1>4 DEF ConsoleInv

\* What a step leaves alone stays invariant.
LEMMA ConsoleStutters == ConsoleInv /\ UNCHANGED all => ConsoleInv'
<1> SUFFICES ASSUME ConsoleInv, UNCHANGED <<page, ui, net, gw>> PROVE ConsoleInv'
  BY DEF all, vars
<1>1. ComputeInv => ComputeInv'
  BY DEF ComputeInv, ComputeCall, Compute!TypeOK
<1>2. BenchesInv => BenchesInv'
  BY DEF BenchesInv, BenchesCall, Benchmarks!TypeOK
<1>3. EndpointsInv => EndpointsInv'
  BY DEF EndpointsInv, EndpointsCall, Endpoints!TypeOK
<1>4. NewPodScreen => NewPodScreen'
  BY DEF NewPodScreen, NewPodInv
<1>5. ASSUME NEW of PROVE BenchFormInv(of) => BenchFormInv(of)'
  BY DEF BenchFormInv, BenchBadge
<1>6. ProvidersInv => ProvidersInv'
  BY DEF ProvidersInv
<1>7. EndpointInv => EndpointInv'
  BY DEF EndpointInv
<1>8. ViewsInv => ViewsInv'
  BY DEF ViewsInv
<1>9. HistoryInv => HistoryInv'
  BY DEF HistoryInv
<1>10. BenchLogInv => BenchLogInv'
  BY DEF BenchLogInv
<1>11. SignInv => SignInv'
  BY DEF SignInv
<1>12. ASSUME NEW of PROVE OrgInv(of) => OrgInv(of)'
  BY DEF OrgInv
<1>13. AccountsInv => AccountsInv'
  BY DEF AccountsInv
<1> QED BY <1>1, <1>2, <1>3, <1>4, <1>5, <1>6, <1>7, <1>8, <1>9, <1>10, <1>11, <1>12, <1>13 DEF ConsoleInv

LEMMA ConsoleNext == ConsoleInv /\ Next => ConsoleInv'
<1> SUFFICES ASSUME ConsoleInv, Next PROVE ConsoleInv'
  OBVIOUS
<1>1. page' = page
  BY DEF Next
<1>2. CASE page = "compute" /\ Compute!Next
  BY <1>1, <1>2, ComputeNext DEF ConsoleInv
<1>3. CASE page = "benchmarks" /\ Benchmarks!Next
  BY <1>1, <1>3, BenchesNext DEF ConsoleInv
<1>4. CASE page = "endpoints" /\ Endpoints!Next
  BY <1>1, <1>4, EndpointsNext DEF ConsoleInv
<1>5. CASE page = "newpod" /\ NewPod!Next
  BY <1>1, <1>5, NewPodScreenNext DEF ConsoleInv
<1>6. CASE page = "newbench" /\ BenchForm(NewBenchOf)!Next
  BY <1>1, <1>6, BenchFormNext, ConsoleAssumption DEF ConsoleInv
<1>7. CASE page = "benchrun" /\ BenchForm(BenchRunOf)!Next
  BY <1>1, <1>7, BenchFormNext, ConsoleAssumption DEF ConsoleInv
<1>8. CASE page = "providers" /\ Providers!Next
  BY <1>1, <1>8, ProvidersNext, AccountsNext DEF ConsoleInv
<1>9. CASE page = "newendpoint" /\ NewEndpoint!Next
  BY <1>1, <1>9, EndpointNext DEF ConsoleInv
<1>10. CASE page = "tabs" /\ Views!Next
  BY <1>1, <1>10, ViewsNext DEF ConsoleInv
<1>11. CASE page = "history" /\ History!Next
  BY <1>1, <1>11, HistoryNext DEF ConsoleInv
<1>12. CASE page = "benchlog" /\ BenchLog!Next
  BY <1>1, <1>12, BenchLogNext DEF ConsoleInv
<1>13. CASE page = "session" /\ Session!Next
  BY <1>1, <1>13, SignNextStep DEF ConsoleInv
<1>14. CASE page = "users" /\ Organized(UsersOf)!Next
  BY <1>1, <1>14, OrgNext, ConsoleAssumption DEF ConsoleInv
<1>15. CASE page = "roles" /\ Organized(RolesOf)!Next
  BY <1>1, <1>15, OrgNext, ConsoleAssumption DEF ConsoleInv
<1> QED BY <1>2, <1>3, <1>4, <1>5, <1>6, <1>7, <1>8, <1>9, <1>10, <1>11, <1>12, <1>13, <1>14, <1>15 DEF Next

\* The invariants of the pages hold whenever their page is the one shown.
THEOREM ConsoleInvariance == Spec => []ConsoleInv
BY ConsoleInit, ConsoleStutters, ConsoleNext, PTL DEF Spec

\* What a screen shows beside a choice, a log, a cookie, a role or an account is
\* of it, whatever answers have come late, been lost or been overtaken, and
\* everything on screen, on its way and in the rows is of its kind: the badges
\* of the forms, log-tab.tsx, the cookies of app/api/auth, roles-manager.tsx,
\* user-profile.tsx and providers-list.tsx.
THEOREM ScreensStayFaithful == Spec => []ScreensAreFaithful
<1>1. ASSUME ConsoleInv PROVE ScreensAreFaithful
  <2>1. /\ page = "compute" => Compute!TypeOK
        /\ page = "endpoints" => Endpoints!TypeOK
        /\ page = "benchmarks" => Benchmarks!TypeOK
    BY <1>1 DEF ConsoleInv, ComputeInv, EndpointsInv, BenchesInv
  <2>2. /\ page = "tabs" => Views!TypeOK
        /\ page = "history" => History!TypeOK
        /\ page = "benchlog" => BenchLog!TypeOK /\ BenchLog!LogIsAPrefix
    BY <1>1, ViewsTyped, HistoryTyped, BenchLogFaithful DEF ConsoleInv
  <2>3. /\ page = "newpod" => NewPod!TypeOK /\ NewPod!StockIsOfTheChoice
        /\ page = "newendpoint" => NewEndpoint!TypeOK /\ NewEndpoint!StockIsOfTheChoice
    BY <1>1, NewPodFaithful, EndpointFaithful DEF ConsoleInv
  <2>4. /\ page = "newbench" => BenchForm(NewBenchOf)!TypeOK /\ BenchForm(NewBenchOf)!StockIsOfTheChoice
        /\ page = "benchrun" => BenchForm(BenchRunOf)!TypeOK /\ BenchForm(BenchRunOf)!StockIsOfTheChoice
    BY <1>1, BenchFormFaithful, ConsoleAssumption DEF ConsoleInv
  <2>5. /\ page = "session" => Session!TypeOK /\ Session!CookiesAgree /\ Session!FlowsLandWhereAsked
        /\ page = "providers" => Providers!TypeOK /\ Providers!ResultsAreKept /\ Providers!TestedAccountsOpen
    BY <1>1, SignTyped, AccountsTyped DEF ConsoleInv
  <2>6. /\ page = "users" => Organized(UsersOf)!TypeOK /\ Organized(UsersOf)!AttachedRolesExist
        /\ page = "roles" => /\ Organized(RolesOf)!TypeOK /\ Organized(RolesOf)!AttachedRolesExist
                             /\ Organized(RolesOf)!RolesAsStored
    BY <1>1, OrgTyped, OrgFaithful DEF ConsoleInv
  <2>7. TypeOK
    BY <1>1, <2>1, <2>2, <2>3, <2>4, <2>5, <2>6 DEF ConsoleInv, Pages, TypeOK
  <2> QED BY <2>2, <2>3, <2>4, <2>5, <2>6, <2>7 DEF ScreensAreFaithful
<1> QED BY <1>1, ConsoleInvariance, PTL

\* What a form sends is something the chosen account or machine can take,
\* whatever lists, stock, templates and texts have come and gone since the
\* choice was made: new-pod-form.tsx, benchmark-form.tsx, provider-form.tsx.
THEOREM RequestsFit == Spec => []RequestsFitTheProvider
<1>1. ConsoleInv => RequestsFitTheProvider
  BY NewPodFits, BenchFormFits, ProvidersFit, ConsoleAssumption DEF ConsoleInv, NewPodScreen, RequestsFitTheProvider
<1> QED BY <1>1, ConsoleInvariance, PTL

\* A pod waiting for the admin's decision never leaves the approvals page
\* undecided, whatever answers, fails, or is decided elsewhere: approvals-list.tsx.
THEOREM UndecidedStay == Spec => UndecidedStayListed
<1>1. ASSUME ConsoleInv, [Next]_all PROVE [page = "compute" => Compute!UndecidedStays]_all
  BY <1>1, ComputeUndecidedStays DEF ConsoleInv, Next
<1> QED BY <1>1, ConsoleInvariance, PTL DEF Spec, UndecidedStayListed

\* The selection of a bulk delete that ends without complaint is gone, all of
\* it: compute-list.tsx, benchmarks-list.tsx and endpoints-grid.tsx.
THEOREM BulkEnds == Spec => BulkEndsWithAllDeleted
<1>1. ASSUME ConsoleInv, [Next]_all
      PROVE  [/\ page = "compute" => Compute!BulkEndsWell
              /\ page = "endpoints" => Endpoints!BulkEndsWell
              /\ page = "benchmarks" => Benchmarks!BulkEndsWell]_all
  <2>1. CASE Next /\ page = "compute"
    BY <1>1, <2>1, ComputeBulkEndsWell DEF ConsoleInv, Next
  <2>2. CASE Next /\ page = "endpoints"
    BY <1>1, <2>2, EndpointsBulkEndsWell DEF ConsoleInv, Next
  <2>3. CASE Next /\ page = "benchmarks"
    BY <1>1, <2>3, BenchesBulkEndsWell DEF ConsoleInv, Next
  <2> QED BY <1>1, <2>1, <2>2, <2>3
<1> QED BY <1>1, ConsoleInvariance, PTL DEF Spec, BulkEndsWithAllDeleted

\* What the user typed into a card of an endpoint outlives the refreshes that
\* leave its value alone (overview.tsx), and turning back from YAML to the form
\* keeps what the text says and the form has a field for (benchmark-form.tsx).
THEOREM EditsAreKept == Spec => EditsSurvive
<1>1. ASSUME ConsoleInv, [Next]_all
      PROVE  [/\ page = "endpoints" => Endpoints!EditsStay
              /\ page = "newbench" => BenchForm(NewBenchOf)!YamlStays
              /\ page = "benchrun" => BenchForm(BenchRunOf)!YamlStays]_all
  <2>1. CASE Next /\ page = "endpoints"
    BY <1>1, <2>1, EndpointsEditsStay DEF ConsoleInv, Next
  <2>2. CASE Next /\ page = "newbench"
    BY <1>1, <2>2, BenchFormYamlStays, ConsoleAssumption DEF ConsoleInv, Next
  <2>3. CASE Next /\ page = "benchrun"
    BY <1>1, <2>3, BenchFormYamlStays, ConsoleAssumption DEF ConsoleInv, Next
  <2> QED BY <1>1, <2>1, <2>2, <2>3
<1> QED BY <1>1, ConsoleInvariance, PTL DEF Spec, EditsSurvive
=============================================================================
