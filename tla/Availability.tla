---------------------------- MODULE Availability ----------------------------
(***************************************************************************)
(* useGpuAvailability (use-gpu-availability.ts), the hook behind the badge *)
(* of both forms: it looks the stock up, a pause after the choice changed, *)
(* and shows an answer only if no newer look-up has begun.  A form keeps   *)
(* ui.stock and ui.looking (the pause) and says what its choice is.        *)
(***************************************************************************)
EXTENDS Console

Idle == [status |-> "idle", of |-> None]
LookUp(u, choice) == [u EXCEPT !.stock = [status |-> "loading", of |-> choice], !.looking = TRUE]
Known(u) == u.stock.status \in {"available", "out"}

\* A look-up that begins makes the answers on their way stale, except one that
\* has passed the check of its number and waits for the body of a refusal.
Stale(c) == c.op = "stock" /\ c.at # "erring"

AskStock(choice) == /\ ui.looking
                    /\ ui' = [ui EXCEPT !.looking = FALSE]
                    /\ net' = net \cup {Call("stock", choice)}
                    /\ UNCHANGED gw
\* The answer is about what was asked: of is the choice of that moment.
Stock(c) == /\ Done(c, "stock") /\ c.at = "ok"
            /\ ui' = [ui EXCEPT !.stock = [status |-> c.val, of |-> c.arg]]
            /\ net' = net \ {c}
            /\ UNCHANGED gw
StockRefused(c) == /\ Done(c, "stock") /\ c.at = "failed"
                   /\ net' = (net \ {c}) \cup {[c EXCEPT !.at = "erring", !.arg = None]}
                   /\ UNCHANGED <<ui, gw>>
StockFails(c) == /\ c \in net /\ c.at = "erring"
                 /\ ui' = [ui EXCEPT !.stock = [status |-> "error", of |-> None]]
                 /\ net' = net \ {c}
                 /\ UNCHANGED gw
=============================================================================
