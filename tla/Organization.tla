---------------------------- MODULE Organization ----------------------------
(***************************************************************************)
(* Users and the roles that open the sections to them: the page of a user  *)
(* (user-profile.tsx), the roles (roles-manager.tsx), and the gateway's    *)
(* handlers behind them.  Other admins change both meanwhile.  A card of a *)
(* role, and the page of a user, has one call on its way at a time.        *)
(***************************************************************************)
EXTENDS Console, Integers

CONSTANTS Self, Users,             \* the admin at the console, and everyone
          Ids, System,             \* ids of roles, those of the built-in ones
          FullAccess,              \* the role a promotion attaches
          Names, Slug,             \* names of roles, and the ids made of them
          Sections,
          Visited,                 \* the pages gone to: "organization", "roles"
          MaxEvents                \* bound: what is done on the pages, and by other admins

\* None is no role.
ConstantsOK == FullAccess \in System /\ System \subseteq Ids /\ None \notin [name : Names, sections : SUBSET Sections]

Tiers == {"user", "developer", "admin"}
Stored == {id \in Ids : gw.roles[id] # None}
Row(g, id) == [id |-> id, name |-> g.roles[id].name, sections |-> g.roles[id].sections]
Record(r) == [name |-> r.name, sections |-> r.sections]
\* auth.py require_admin()
Admin == gw.users[Self] # None /\ gw.users[Self].tier = "admin"

Elsewhere == [route |-> "elsewhere"]
Directory(users) == [route |-> "organization", users |-> users]
NoDraft == [name |-> None, id |-> None, sections |-> {}]      \* id None: made of the name
RolesPage(roles) == [route |-> "roles", roles |-> roles, asked |-> None, open |-> FALSE, draft |-> NoDraft]
UserPage(u, choices) == [route |-> "user", user |-> u, row |-> gw.users[u], choices |-> choices, asked |-> FALSE]

NoDialog == /\ ui.route = "roles" => ui.asked = None /\ ~ui.open
            /\ ui.route = "user" => ~ui.asked
By(g) == gw.events < MaxEvents /\ gw' = [g EXCEPT !.events = @ + 1]
Stay == By(gw) /\ UNCHANGED net
Send(op, arg) == By(gw) /\ net' = net \cup {Call(op, arg)}

-----------------------------------------------------------------------------
(* Pages.  One that cannot list the users, or the roles, shows none; one of *)
(* a user who is gone is not found; nobody but an admin sees any of them    *)

\* A refresh asked for by a page that is left is left out.
Left == {c \in Orphans(net) : c.op # "refresh" /\ (c.at = "sent" \/ c.op = "delete")}
Shows(page) == IF Admin THEN ui' \in {page, Elsewhere} ELSE ui' = Elsewhere
OpenDirectory == /\ NoDialog /\ "organization" \in Visited
                 /\ \E users \in {{u \in Users : gw.users[u] # None}, {}} : Shows(Directory(users))
                 /\ net' = Left /\ UNCHANGED gw
\* strays: roles that may be otherwise than shown, for what has come between.
OpenRoles == /\ NoDialog /\ "roles" \in Visited
             /\ \/ Shows(RolesPage({Row(gw, id) : id \in Stored})) /\ gw' = [gw EXCEPT !.strays = {}]
                \/ Shows(RolesPage({})) /\ gw' = [gw EXCEPT !.strays = Ids]
             /\ net' = Left
Profile(u) == {UserPage(u, choices) : choices \in IF gw.users[u] = None THEN {} ELSE {Stored, {}}}
OpenUser(u) == /\ ui.route = "organization" /\ u \in ui.users
               /\ \E page \in Profile(u) \cup {Elsewhere} : Shows(page)
               /\ net' = Left /\ UNCHANGED gw

-----------------------------------------------------------------------------
(* The page of a user: nobody changes the tier of his own, or deletes it    *)

OnUser == ui.route = "user"
IsSelf == ui.user = Self
Changing == \E op \in {"tier", "policy", "delete"} : Waiting(op)

SetTier(tier) == /\ OnUser /\ NoDialog /\ ~Changing /\ ~IsSelf /\ tier # ui.row.tier
                 /\ Send("tier", [user |-> ui.user, to |-> tier])
                 /\ UNCHANGED ui
SetPolicy(id) == /\ OnUser /\ NoDialog /\ ~Changing /\ ui.row.tier # "user" /\ id # ui.row.policy
                 /\ id \in ui.choices \cup {None}
                 /\ Send("policy", [user |-> ui.user, to |-> id])
                 /\ UNCHANGED ui
AskDelete(ask) == /\ OnUser /\ ui.asked # ask /\ ~Changing /\ ~IsSelf
                  /\ ui' = [ui EXCEPT !.asked = ask]
                  /\ Stay
DeleteUser == /\ OnUser /\ ui.asked /\ ~Changing
              /\ ui' = [ui EXCEPT !.asked = FALSE]
              /\ Send("delete", [user |-> ui.user])
\* Done: the page is rendered anew, in a call of its own.
UserChanged(c) == /\ Done(c, "tier") \/ Done(c, "policy")
                  /\ net' = (net \ {c}) \cup (IF c.at = "ok" THEN {Call("refresh", c.arg.user)} ELSE {})
                  /\ UNCHANGED <<ui, gw>>
Rendered(c) == /\ c \in net /\ c.op = "refresh" /\ c.live
               /\ \E page \in Profile(c.arg) : Shows([page EXCEPT !.asked = ui.asked]) \/ Shows(Elsewhere)
               /\ net' = IF ui'.route = "user" THEN net \ {c} ELSE Left
               /\ UNCHANGED gw
\* router.replace("/organization"), from wherever the admin is by then.
UserDeleted(c) == /\ c \in net /\ c.op = "delete" /\ c.at # "sent"
                  /\ IF c.at = "ok" THEN Shows(Directory({u \in Users : gw.users[u] # None})) /\ net' = Left \ Orphans({c})
                                    ELSE ui' = ui /\ net' = net \ {c}
                  /\ UNCHANGED gw

-----------------------------------------------------------------------------
(* The roles *)

OnRoles == ui.route = "roles"
Busy(id) == \E c \in CallsOf("update") \cup CallsOf("drop") : c.arg.id = id
Idle(r) == OnRoles /\ NoDialog /\ r \in ui.roles /\ ~Busy(r.id)

\* All sections are sent, as they are shown.
ToggleSection(r, s) == /\ Idle(r)
                       /\ Send("update", [id |-> r.id, name |-> None, sections |-> (r.sections \cup {s}) \ (r.sections \cap {s})])
                       /\ UNCHANGED ui
Rename(r, name) == /\ Idle(r) /\ name # r.name
                   /\ Send("update", [id |-> r.id, name |-> name, sections |-> None])
                   /\ UNCHANGED ui
AskDrop(r) == Idle(r) /\ r.id \notin System /\ ui' = [ui EXCEPT !.asked = r.id] /\ Stay
CloseDrop == OnRoles /\ ui.asked # None /\ ui' = [ui EXCEPT !.asked = None] /\ Stay
Drop == /\ OnRoles /\ ui.asked # None
        /\ Send("drop", [id |-> ui.asked])
        /\ ui' = [ui EXCEPT !.asked = None]
RoleUpdated(c) == /\ Done(c, "update")
                  /\ ui' = IF c.at = "ok" THEN [ui EXCEPT !.roles = {IF r.id = c.arg.id THEN c.val ELSE r : r \in @}] ELSE ui
                  /\ net' = net \ {c} /\ UNCHANGED gw
RoleDropped(c) == /\ Done(c, "drop")
                  /\ ui' = IF c.at = "ok" THEN [ui EXCEPT !.roles = {r \in @ : r.id # c.arg.id}] ELSE ui
                  /\ net' = net \ {c} /\ UNCHANGED gw

EffectiveId == IF ui.draft.id # None THEN ui.draft.id ELSE IF ui.draft.name # None THEN Slug[ui.draft.name] ELSE None
InDialog == OnRoles /\ ui.open
Writing == InDialog /\ ~Waiting("create")
OpenCreate == OnRoles /\ NoDialog /\ ui' = [ui EXCEPT !.open = TRUE] /\ Stay
TypeName(name) == Writing /\ ui' = [ui EXCEPT !.draft.name = name] /\ Stay
TypeId(id) == Writing /\ ui' = [ui EXCEPT !.draft.id = id] /\ Stay
PickSection(s) == Writing /\ ui' = [ui EXCEPT !.draft.sections = (@ \cup {s}) \ (@ \cap {s})] /\ Stay
\* Cancel keeps the draft.  Escape drops it, and closes nothing while the call runs.
Cancel == Writing /\ ui' = [ui EXCEPT !.open = FALSE] /\ Stay
Escape == InDialog /\ ui' = [ui EXCEPT !.open = Waiting("create"), !.draft = NoDraft] /\ Stay
Create == /\ Writing /\ ui.draft.name # None /\ EffectiveId \in Ids
          /\ \A r \in ui.roles : r.id # EffectiveId
          /\ Send("create", [id |-> EffectiveId, name |-> ui.draft.name, sections |-> ui.draft.sections])
          /\ UNCHANGED ui
RoleCreated(c) == /\ Done(c, "create")
                  /\ ui' = IF c.at = "ok" THEN [ui EXCEPT !.roles = @ \cup {c.val}, !.draft = NoDraft, !.open = FALSE] ELSE ui
                  /\ net' = net \ {c} /\ UNCHANGED gw

-----------------------------------------------------------------------------
(* The gateway.  Names of roles are unique; a role that goes leaves its     *)
(* users without one                                                        *)

Free(name, id) == \A other \in Stored \ {id} : gw.roles[other].name # name
SetRole(g, id, role) == [g EXCEPT !.roles[id] = role]
SetUser(g, u, row) == [g EXCEPT !.users[u] = row]
DropRole(g, id) == [SetRole(g, id, None) EXCEPT
  !.users = [u \in Users |-> IF @[u] # None /\ @[u].policy = id THEN [@[u] EXCEPT !.policy = None] ELSE @[u]]]
Promoted(row, tier) == [tier |-> tier, policy |-> IF tier # "user" /\ row.policy = None THEN FullAccess ELSE row.policy]

Accepts(c, actor) ==
  /\ actor = Self => Admin
  /\ \/ c.op = "tier" /\ gw.users[c.arg.user] # None /\ (c.arg.user = actor => c.arg.to = "admin")
     \/ c.op = "policy" /\ gw.users[c.arg.user] # None /\ c.arg.to \in Stored \cup {None}
     \/ c.op = "delete" /\ gw.users[c.arg.user] # None /\ c.arg.user # actor
     \/ c.op = "create" /\ c.arg.id \notin Stored /\ Free(c.arg.name, c.arg.id)
     \/ c.op = "drop" /\ c.arg.id \in Stored \ System
     \/ /\ c.op = "update" /\ c.arg.id \in Stored
        /\ c.arg.name # None => c.arg.name # gw.roles[c.arg.id].name /\ Free(c.arg.name, c.arg.id)
Effect(c) ==
  CASE c.op = "tier" -> SetUser(gw, c.arg.user, Promoted(gw.users[c.arg.user], c.arg.to))
    [] c.op = "policy" -> SetUser(gw, c.arg.user, [gw.users[c.arg.user] EXCEPT !.policy = c.arg.to])
    [] c.op = "delete" -> SetUser(gw, c.arg.user, None)
    [] c.op = "create" -> SetRole(gw, c.arg.id, Record(c.arg))
    [] c.op = "drop" -> DropRole(gw, c.arg.id)
    [] c.op = "update" -> SetRole(gw, c.arg.id,
                            [name |-> IF c.arg.name = None THEN gw.roles[c.arg.id].name ELSE c.arg.name,
                             sections |-> IF c.arg.sections = None THEN gw.roles[c.arg.id].sections ELSE c.arg.sections])
OfRole(c) == IF c.op \in {"create", "drop", "update"} THEN {c.arg.id} ELSE {}
Reply(c, g) == IF c.op \in {"create", "update"} THEN Row(g, c.arg.id) ELSE None

Serve(c) == /\ c \in net /\ c.at = "sent" /\ c.op # "refresh" /\ Accepts(c, Self)
            /\ gw' = [Effect(c) EXCEPT !.strays = @ \cup IF c.live THEN {} ELSE OfRole(c)]
            /\ net' = IF c.live \/ c.op = "delete" THEN Answered(c, Reply(c, Effect(c))) ELSE net \ {c}
            /\ UNCHANGED ui
\* Refused, unreachable, or done and the answer lost.
Fail(c) == /\ c \in net /\ c.at = "sent" /\ c.op # "refresh"
           /\ \/ UNCHANGED gw
              \/ Accepts(c, Self) /\ gw' = [Effect(c) EXCEPT !.strays = @ \cup OfRole(c)]
           /\ net' = IF c.live THEN Failed(c) ELSE net \ {c}
           /\ UNCHANGED ui

\* Another admin's call, through the same handlers.
Theirs == {Call("tier", [user |-> u, to |-> tier]) : u \in Users, tier \in Tiers}
          \cup {Call("policy", [user |-> u, to |-> id]) : u \in Users, id \in Ids}
          \cup {Call("drop", [id |-> id]) : id \in Ids}
          \cup {Call("update", [id |-> id, name |-> None, sections |-> {}]) : id \in Ids}
Foreign(c) == /\ Accepts(c, None)
              /\ By([Effect(c) EXCEPT !.strays = @ \cup OfRole(c)])
              /\ UNCHANGED <<ui, net>>

-----------------------------------------------------------------------------
Init == /\ gw \in [users : [Users -> [tier : Tiers, policy : Ids \cup {None}]],
                  roles : [Ids -> [name : Names, sections : SUBSET Sections] \cup {None}], strays : {{}}, events : {0}]
        /\ gw.users[Self].tier = "admin" /\ System \subseteq Stored
        /\ \A u \in Users : gw.users[u].policy \in Stored \cup {None}
        /\ \A i \in Stored : Free(gw.roles[i].name, i)
        /\ ui = Elsewhere /\ net = {}

Navigate == OpenDirectory \/ OpenRoles \/ \E u \in Users : OpenUser(u)
UserStep == \/ \E tier \in Tiers : SetTier(tier)
            \/ \E id \in Ids \cup {None} : SetPolicy(id)
            \/ \E ask \in BOOLEAN : AskDelete(ask)
            \/ DeleteUser
            \/ \E c \in net : UserChanged(c) \/ Rendered(c) \/ UserDeleted(c)
RoleStep == \/ \E r \in IF OnRoles THEN ui.roles ELSE {} : \/ \E s \in Sections : ToggleSection(r, s)
                                                       \/ \E name \in Names : Rename(r, name)
                                                       \/ AskDrop(r)
            \/ CloseDrop \/ Drop \/ OpenCreate \/ Cancel \/ Escape \/ Create
            \/ \E name \in Names : TypeName(name)
            \/ \E id \in Ids : TypeId(id)
            \/ \E s \in Sections : PickSection(s)
            \/ \E c \in net : RoleUpdated(c) \/ RoleDropped(c) \/ RoleCreated(c)
Next == \/ Navigate \/ UserStep \/ RoleStep
        \/ \E c \in net : Serve(c) \/ Fail(c)
        \/ \E c \in Theirs : Foreign(c)

-----------------------------------------------------------------------------
RoleRows == [id : Ids, name : Names, sections : SUBSET Sections]
UserRow == [tier : Tiers, policy : Ids \cup {None}]
TypeOK ==
  /\ gw.users \in [Users -> UserRow \cup {None}] /\ gw.roles \in [Ids -> [name : Names, sections : SUBSET Sections] \cup {None}]
  /\ ui \in {Elsewhere} \cup [route : {"organization"}, users : SUBSET Users]
           \cup [route : {"user"}, user : Users, row : UserRow, choices : SUBSET Ids, asked : BOOLEAN]
           \cup [route : {"roles"}, roles : SUBSET RoleRows, asked : Ids \cup {None}, open : BOOLEAN,
                 draft : [name : Names \cup {None}, id : Ids \cup {None}, sections : SUBSET Sections]]
\* A role is shown once, and as the gateway has it, unless another admin or a
\* lost answer has come between: a card's calls do not overtake each other.
RolesAsStored ==
  OnRoles => /\ \A r, s \in ui.roles : r.id = s.id => r = s
             /\ \A id \in Ids \ gw.strays :
                  ~Busy(id) /\ ~Waiting("create") => {r \in ui.roles : r.id = id} = {Row(gw, i) : i \in {id} \cap Stored}
\* Whoever has a role has one that exists, whichever of the built-in ones and
\* the made ones have been deleted (main.py set_user_role(), delete_policy_role()).
AttachedRolesExist == \A u \in Users : gw.users[u] # None => gw.users[u].policy \in Stored \cup {None}
=============================================================================
