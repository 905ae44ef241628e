------------------------------ MODULE Sessions ------------------------------
(***************************************************************************)
(* Signing in to the console and out of it: the tabs of one browser, the   *)
(* cookies they share, the routes of src/web/src/app/api/auth that set and *)
(* clear them, and the gateway's sessions behind them.  A response's       *)
(* cookies and the continuation of its call take effect in one step.  A    *)
(* tab that loads a new document forgets its calls, though the server goes *)
(* on with them (arg.tab = None); one that follows a link of the           *)
(* application runs their continuations all the same.                      *)
(***************************************************************************)
EXTENDS Console, Sequences, Integers

CONSTANTS Tabs, Users, Passwords,
          Random,                  \* the password of an account made by GitHub: nobody types it
          Visited,                 \* the pages gone to
          MaxSessions, MaxFlows,
          MaxEvents                \* what the user does, in all

AuthPages == {"login", "register"}
Inside == {"app", "settings", "keys"}    \* pages of the console: any but those two
\* What is not there is neither a token nor a name.
ConstantsOK == None \notin Nat \cup Users /\ Visited \subseteq AuthPages \cup Inside \cup {"home"}
Tokens == 1..Len(gw.sessions)
Jar == ui.jar
Tab(t) == ui.tabs[t]

Pending(t, op) == \E c \in CallsOf(op) : c.arg.tab = t

\* me.ts getMe(): nobody, when the gateway fails or does not know the token.
Me(jar) == {None} \cup {gw.sessions[n].user : n \in {jar.token} \cap gw.live}

\* proxy.ts, app/page.tsx and the redirects of the pages: where a visit of r ends.
Landing(r, jar, me) ==
  LET asked == CASE r = "home" -> IF jar.token # None THEN "app" ELSE "login"
                 [] r = "settings" /\ me = None -> "login"
                 [] OTHER -> r
  IN  IF jar.token # None /\ asked \in AuthPages THEN "app" ELSE asked

\* The page a visit of r shows: the name is the cookie's, on the settings the gateway's.
Page(t, r, next, jar, me) ==
  LET at == Landing(r, jar, me)
  IN  [Tab(t) EXCEPT !.at = at, !.next = IF at = r THEN next ELSE "app", !.key = None, !.asking = FALSE,
         !.name = IF at \in AuthPages THEN None ELSE IF at = "settings" THEN me ELSE jar.user]

\* The key page asks for its key when it opens, and gives the question up when
\* it closes: nothing else comes of it.
KeyCall(t, jar) == Call("token", [tab |-> t, token |-> jar.token, user |-> jar.user])
Of(t, calls) == {c \in calls : c.arg.tab = t}
Kept(t, calls) == (calls \ Of(t, calls)) \cup Orphans({c \in Of(t, calls) : c.op # "token"})
Forgotten(t, calls) == (calls \ Of(t, calls)) \cup Orphans({[c EXCEPT !.arg.tab = None] : c \in {d \in Of(t, calls) : d.at = "sent"}})
Go(t, r, next, jar, calls, hard) ==
  \E me \in Me(jar) : LET p == Page(t, r, next, jar, me)
                      IN  /\ ui' = [ui EXCEPT !.jar = jar, !.tabs[t] = [p EXCEPT !.leaving = @ /\ ~hard]]
                          /\ net' = (IF hard THEN Forgotten(t, calls) ELSE Kept(t, calls))
                                     \cup (IF p.at = "keys" THEN {KeyCall(t, jar)} ELSE {})

NoCookies == [Jar EXCEPT !.token = None, !.user = None]
Cookies(v) == [Jar EXCEPT !.token = v.token, !.user = v.user]

-----------------------------------------------------------------------------
(* What the user does *)

By(g) == gw.events < MaxEvents /\ gw' = [g EXCEPT !.events = @ + 1]

\* Links of the pages; "Sign in" is offered where no name is shown.
Follow(t, r) ==
  /\ \/ Tab(t).at \in AuthPages /\ r \in AuthPages
     \/ Tab(t).at \in Inside /\ r \in Inside
     \/ Tab(t).at \in Inside /\ Tab(t).name = None /\ r = "login"
  /\ Go(t, r, "app", Jar, net, FALSE)
  /\ By(gw)
\* The address bar, or a reload.
Open(t, r) == Go(t, r, "app", Jar, net, TRUE) /\ By(gw)

Send(t, op, arg) == /\ ~Pending(t, op)
                    /\ net' = net \cup {Call(op, arg)}

SubmitLogin(t, u, p) ==
  /\ Tab(t).at = "login"
  /\ Send(t, "login", [tab |-> t, token |-> Jar.token, user |-> u, password |-> p, next |-> Tab(t).next])
  /\ By(gw) /\ UNCHANGED ui
\* RegisterForm.submit() has checked the name, the address and the passwords.
SubmitRegister(t, u, p) ==
  /\ Tab(t).at = "register"
  /\ Send(t, "register", [tab |-> t, token |-> Jar.token, user |-> u, password |-> p, next |-> "app"])
  /\ By(gw) /\ UNCHANGED ui
SubmitPassword(t, old, new) ==
  /\ Tab(t).at = "settings"
  /\ Send(t, "password", [tab |-> t, token |-> Jar.token, old |-> old, new |-> new])
  /\ By(gw) /\ UNCHANGED ui
Logout(t) ==
  /\ Tab(t).name # None
  /\ Send(t, "logout", [tab |-> t, token |-> Jar.token])
  /\ By(gw) /\ UNCHANGED ui
AskRotate(t, ask) ==
  /\ Tab(t).key # None /\ (ask => ~Pending(t, "rotate"))
  /\ ui' = [ui EXCEPT !.tabs[t].asking = ask]
  /\ By(gw) /\ UNCHANGED net
Rotate(t) ==
  /\ Tab(t).asking
  /\ Send(t, "rotate", [tab |-> t, token |-> Jar.token])
  /\ ui' = [ui EXCEPT !.tabs[t].asking = FALSE]
  /\ By(gw)

\* github/start/route.ts: a new state in the cookie, then off to GitHub.
StartGithub(t) ==
  /\ Tab(t).at = "login" /\ Len(gw.asked) < MaxFlows
  /\ LET n == Len(gw.asked) + 1
     IN  /\ ui' = [ui EXCEPT !.jar.oauth = [state |-> n, next |-> Tab(t).next],
                             !.tabs[t] = [@ EXCEPT !.at = "github", !.flow = n, !.leaving = FALSE]]
         /\ By([gw EXCEPT !.asked = Append(@, Tab(t).next)])
  /\ net' = Forgotten(t, net)
\* GitHub sends the browser back; so does its history, to the same address.
Callback(t, u) ==
  /\ Tab(t).flow # None
  /\ net' = Forgotten(t, net) \cup {Call("callback", [tab |-> t, flow |-> Tab(t).flow, stored |-> Jar.oauth, user |-> u])}
  /\ ui' = [ui EXCEPT !.tabs[t] = [@ EXCEPT !.at = "github", !.name = None, !.key = None, !.asking = FALSE,
                                            !.leaving = FALSE]]
  /\ By(gw)

-----------------------------------------------------------------------------
(* The routes and the gateway: a reply may be lost when all has been done *)

Replies(c, v) == net' \in IF c.arg.tab # None THEN {Answered(c, v), Failed(c)} ELSE {net \ {c}}
Sent(c, op) == c \in net /\ c.op = op /\ c.at = "sent"

\* auth.py create_session()
Minted(g, u, flow) == [g EXCEPT !.sessions = Append(@, [user |-> u, flow |-> flow]), !.live = @ \cup {Len(g.sessions) + 1}]
Ticket(g, u, next) == [token |-> Len(g.sessions) + 1, user |-> u, next |-> next]
Room == Len(gw.sessions) < MaxSessions

ServeLogin(c) ==
  /\ Sent(c, "login") /\ Room
  /\ gw.password[c.arg.user] = c.arg.password
  /\ gw' = Minted(gw, c.arg.user, None)
  /\ Replies(c, Ticket(gw, c.arg.user, c.arg.next))
  /\ UNCHANGED ui
ServeRegister(c) ==
  /\ Sent(c, "register") /\ Room
  /\ gw.password[c.arg.user] = None
  /\ gw' = Minted([gw EXCEPT !.password[c.arg.user] = c.arg.password], c.arg.user, None)
  /\ Replies(c, Ticket(gw, c.arg.user, c.arg.next))
  /\ UNCHANGED ui
\* The session is revoked as well as may be; the cookies are cleared in any case.
ServeLogout(c) ==
  /\ Sent(c, "logout") \/ Sent(c, "rotate")
  /\ gw' \in {gw, [gw EXCEPT !.live = @ \ {c.arg.token}]}
  /\ Replies(c, None)
  /\ UNCHANGED ui
ServePassword(c) ==
  /\ Sent(c, "password") /\ c.arg.token \in gw.live
  /\ LET u == gw.sessions[c.arg.token].user
     IN  /\ gw.password[u] = c.arg.old
         /\ gw' = [gw EXCEPT !.password[u] = c.arg.new, !.live = @ \ {c.arg.token}]
  /\ Replies(c, None)
  /\ UNCHANGED ui
ServeKey(c) ==
  /\ Sent(c, "token") /\ c.arg.token # None
  /\ Replies(c, [token |-> c.arg.token, user |-> c.arg.user])
  /\ UNCHANGED <<ui, gw>>

\* github/callback/route.ts: the state, GitHub's code (good for once), the session.
Matches(c) == c.arg.stored # None /\ c.arg.stored.state = c.arg.flow
ServeCallback(c) ==
  /\ Sent(c, "callback") /\ Room
  /\ Matches(c) /\ c.arg.flow \notin gw.spent
  /\ gw' = Minted([gw EXCEPT !.spent = @ \cup {c.arg.flow},
                             !.password[c.arg.user] = IF @ = None THEN Random ELSE @], c.arg.user, c.arg.flow)
  /\ Replies(c, Ticket(gw, c.arg.user, c.arg.stored.next))
  /\ UNCHANGED ui
\* failRedirect(): a wrong state, or a later step that fails.
RefuseCallback(c) ==
  /\ Sent(c, "callback")
  /\ gw' \in {gw} \cup {[gw EXCEPT !.spent = @ \cup {n}] : n \in IF Matches(c) THEN {c.arg.flow} ELSE {}}
  /\ Replies(c, None)
  /\ UNCHANGED ui
\* Any call is refused, or fails.
Refuse(c) == /\ c \in net /\ c.at = "sent"
             /\ net' = IF c.arg.tab # None THEN Failed(c) ELSE net \ {c}
             /\ UNCHANGED <<ui, gw>>
\* A session runs out, or its user is deleted.
Expire(n) == /\ n \in gw.live
             /\ gw' = [gw EXCEPT !.live = @ \ {n}]
             /\ UNCHANGED <<ui, net>>

-----------------------------------------------------------------------------
(* Continuations *)

Ended(c, op) == c \in net /\ c.op = op /\ c.at # "sent" /\ c.arg.tab # None

\* LoginForm.submit(), RegisterForm.submit(): on, or an error on the form.
SignedIn(c) ==
  /\ Ended(c, "login") \/ Ended(c, "register")
  /\ IF c.at = "ok" THEN Go(c.arg.tab, c.arg.next, "app", Cookies(c.val), net \ {c}, FALSE)
                    ELSE net' = net \ {c} /\ UNCHANGED ui
  /\ UNCHANGED gw
\* UserMenu.logout(): to the sign-in page, whatever came of it.
SignedOut(c) ==
  /\ Ended(c, "logout")
  /\ Go(c.arg.tab, "login", "app", IF c.at = "ok" THEN NoCookies ELSE Jar, net \ {c}, FALSE)
  /\ UNCHANGED gw
Rotated(c) ==
  /\ Ended(c, "rotate")
  /\ IF c.at = "ok" THEN Go(c.arg.tab, "login", "keys", NoCookies, net \ {c}, TRUE)
                    ELSE net' = net \ {c} /\ UNCHANGED ui
  /\ UNCHANGED gw
\* ProfileForm.submit(): signed out; the timer takes the tab to the sign-in page.
PasswordChanged(c) ==
  /\ Ended(c, "password")
  /\ ui' = IF c.at = "ok" THEN [ui EXCEPT !.jar = NoCookies, !.tabs[c.arg.tab].leaving = TRUE] ELSE ui
  /\ net' = net \ {c}
  /\ UNCHANGED gw
Leave(t) == /\ Tab(t).leaving
            /\ Go(t, "login", "app", Jar, net, TRUE)
            /\ UNCHANGED gw
KeyShown(c) ==
  /\ Ended(c, "token")
  /\ ui' = IF c.at = "ok" THEN [ui EXCEPT !.tabs[c.arg.tab].key = c.val] ELSE ui
  /\ net' = net \ {c}
  /\ UNCHANGED gw
\* The callback's redirect: a session and the page asked for, or the sign-in
\* page, without the state either way; an error of the route leaves all as it is.
Returned(c) ==
  /\ Ended(c, "callback")
  /\ LET t == c.arg.tab
     IN  CASE c.at = "failed" -> net' = net \ {c} /\ UNCHANGED ui
           [] c.at = "ok" /\ c.val = None -> Go(t, "login", "app", [Jar EXCEPT !.oauth = None], net \ {c}, TRUE)
           [] OTHER -> Go(t, c.val.next, "app", [Cookies(c.val) EXCEPT !.oauth = None], net \ {c}, TRUE)
  /\ UNCHANGED gw

-----------------------------------------------------------------------------
Blank == [at |-> "login", name |-> None, key |-> None, next |-> "app", asking |-> FALSE, leaving |-> FALSE, flow |-> None]
\* The sign-in page as opened by itself, or with the page to go on to.
Blanks == {[Blank EXCEPT !.next = next] : next \in {"app", "keys"}}
Init == /\ ui \in [route : {"session"}, jar : {[token |-> None, user |-> None, oauth |-> None]}, tabs : [Tabs -> Blanks]]
        /\ net = {}
        /\ gw \in [password : [Users -> Passwords \cup {None}], sessions : {<<>>}, live : {{}}, asked : {<<>>}, spent : {{}},
                  events : {0}]

Tabbing(t) == \/ \E r \in Visited \ {"home"} : Follow(t, r)
              \/ \E r \in Visited : Open(t, r)
              \/ \E u \in Users, p \in Passwords : SubmitLogin(t, u, p) \/ SubmitRegister(t, u, p)
              \/ \E p, q \in Passwords : SubmitPassword(t, p, q)
              \/ Logout(t) \/ Rotate(t) \/ Leave(t) \/ StartGithub(t)
              \/ \E ask \in BOOLEAN : AskRotate(t, ask)
              \/ \E u \in Users : Callback(t, u)
Serving(c) == \/ ServeLogin(c) \/ ServeRegister(c) \/ ServeLogout(c) \/ ServePassword(c) \/ ServeKey(c)
              \/ ServeCallback(c) \/ RefuseCallback(c) \/ Refuse(c)
Continuing(c) == \/ SignedIn(c) \/ SignedOut(c) \/ Rotated(c) \/ PasswordChanged(c) \/ KeyShown(c) \/ Returned(c)
Next == \/ \E t \in Tabs : Tabbing(t)
        \/ \E c \in net : Serving(c) \/ Continuing(c)
        \/ \E n \in Tokens : Expire(n)

-----------------------------------------------------------------------------
TypeOK ==
  /\ Jar.token \in Tokens \cup {None} /\ Jar.user \in Users \cup {None}
  /\ Jar.oauth = None \/ Jar.oauth.state \in 1..Len(gw.asked)
  /\ \A t \in Tabs : /\ Tab(t).at \in AuthPages \cup Inside \cup {"github"}
                     /\ Tab(t).next \in {"app", "keys"} /\ Tab(t).name \in Users \cup {None}
  /\ gw.live \subseteq Tokens /\ gw.spent \subseteq 1..Len(gw.asked)
\* The two cookies come and go together: the name is the one the token was
\* issued to, and so is the name beside a key (auth-cookie.ts).
CookiesAgree == /\ (Jar.token = None) = (Jar.user = None)
                /\ Jar.token # None => gw.sessions[Jar.token].user = Jar.user
                /\ \A t \in Tabs : Tab(t).key # None => gw.sessions[Tab(t).key.token].user = Tab(t).key.user
\* A sign-in through GitHub makes one session and ends on the page it was
\* started for, whatever other tabs have started since (github/callback/route.ts).
FlowsLandWhereAsked ==
  /\ \A c \in net : c.op = "callback" /\ c.at = "ok" /\ c.val # None => c.val.next = gw.asked[c.arg.flow]
  /\ \A m, n \in Tokens : gw.sessions[m].flow = gw.sessions[n].flow /\ gw.sessions[m].flow # None => m = n
=============================================================================
