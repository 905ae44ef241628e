---------------------------- MODULE BenchmarkLog ----------------------------
(***************************************************************************)
(* The log of a benchmark on its page: the tab (tabs/logs.tsx) opens an    *)
(* event stream, keeps what arrives and closes it at the event "end"; the  *)
(* gateway's generator (bench.py, stream_logs) reads the log file to its   *)
(* end, looks at the status, and starts again.  A log that is only in the  *)
(* archive, or in what Redis keeps of an old run, is sent in one piece and *)
(* not followed: left out.  BenchmarkPages has the rest of the page; here  *)
(* it only shows a status, now or from before.                             *)
(***************************************************************************)
EXTENDS Console, Integers

CONSTANTS MaxLines, MaxOpens   \* bounds: lines of the log, connections of a page to it

ConstantsOK == MaxLines \in Nat /\ MaxOpens \in Nat \ {0}

Finished == {"done", "failed", "cancelled"}
Lines == 1 .. MaxLines

\* seen: the lines on screen; twice: one is there more than once.  at: where
\* the connection has read to; dry: it found nothing new and asks for the
\* status.  cleared: the user has emptied the screen.
LogTab(shown) == [route |-> "log", shown |-> shown, streaming |-> TRUE, at |-> 0, dry |-> FALSE,
                  seen |-> {}, cleared |-> FALSE, twice |-> FALSE, opens |-> 1]
Connected(u) == [u EXCEPT !.streaming = TRUE, !.at = 0, !.dry = FALSE, !.opens = @ + 1]
Closed(u) == [u EXCEPT !.streaming = FALSE, !.at = 0, !.dry = FALSE]

Init == /\ gw \in [status: {"queued", "running"} \cup Finished, log: 0 .. MaxLines]
        /\ ui = LogTab(gw.status)
        /\ net = {}

Stay == UNCHANGED <<net, gw>>
OnLog == ui.route = "log"
PageShows == OnLog /\ ui' = [ui EXCEPT !.shown = gw.status] /\ Stay

\* Only the tab on screen is mounted; one that comes back starts anew.
ShowTab(logs) == /\ IF logs THEN ui.route = "other" /\ ui.opens < MaxOpens ELSE OnLog
                 /\ ui' = IF logs THEN [LogTab(gw.status) EXCEPT !.opens = ui.opens + 1]
                                  ELSE [route |-> "other", opens |-> ui.opens]
                 /\ Stay
Pause == OnLog /\ ui.streaming /\ ui' = Closed(ui) /\ Stay
\* The lines are kept, and the log comes again from its start.
Resume == OnLog /\ ~ui.streaming /\ ui.shown \notin Finished /\ ui.opens < MaxOpens /\ ui' = Connected(ui) /\ Stay
\* The connection is lost: the browser opens another, and the gateway starts over.
Reconnect == OnLog /\ ui.streaming /\ ui.opens < MaxOpens /\ ui' = Connected(ui) /\ Stay
Clear == OnLog /\ ui' = [ui EXCEPT !.seen = {}, !.twice = FALSE, !.cleared = TRUE] /\ Stay

-----------------------------------------------------------------------------
(* The generator of the stream, one turn of its loop at a time *)

New == ui.at + 1 .. gw.log
Tail == /\ OnLog /\ ui.streaming /\ ~ui.dry
        /\ ui' = IF New = {} THEN [ui EXCEPT !.dry = TRUE]
                 ELSE [ui EXCEPT !.at = gw.log, !.seen = @ \cup New, !.twice = @ \/ ui.seen \cap New # {}]
        /\ Stay
\* What was written in between does not keep the stream of a run that is over.
\* The row of a deleted run is not there: its stream goes on.
CheckStatus == /\ OnLog /\ ui.streaming /\ ui.dry
               /\ ui' = IF gw.status \in Finished THEN Closed(ui) ELSE [ui EXCEPT !.dry = FALSE]
               /\ Stay

\* The runner writes while it runs and, with its last words, before it says it
\* is over; a termination says so first, and writes while it cleans up.
Written == gw.log < MaxLines /\ gw' = [gw EXCEPT !.log = @ + 1] /\ UNCHANGED <<ui, net>>
Write == gw.status \in {"queued", "running"} /\ Written
CleanUp == gw.status = "cancelled" /\ Written
Run == /\ \/ gw.status = "queued" /\ \E st \in {"running", "cancelled", "gone"} : gw' = [gw EXCEPT !.status = st]
          \/ gw.status = "running" /\ \E st \in Finished \cup {"gone"} : gw' = [gw EXCEPT !.status = st]
       /\ UNCHANGED <<ui, net>>

Next == \/ PageShows \/ Pause \/ Resume \/ Reconnect \/ Clear \/ Tail \/ CheckStatus \/ Write \/ CleanUp \/ Run
        \/ \E logs \in BOOLEAN : ShowTab(logs)
Spec == Init /\ [][Next]_vars
\* The generator of an open stream goes on.
Streams == Tail \/ CheckStatus

-----------------------------------------------------------------------------
(* Properties *)

UiType == [route: {"log"}, shown: {"queued", "running", "gone"} \cup Finished, streaming: BOOLEAN, at: 0 .. MaxLines,
           dry: BOOLEAN, seen: SUBSET Lines, cleared: BOOLEAN, twice: BOOLEAN, opens: 1 .. MaxOpens]
          \cup [route: {"other"}, opens: 1 .. MaxOpens]
TypeOK == /\ ui \in UiType /\ net = {}
          /\ gw \in [status: {"queued", "running", "gone"} \cup Finished, log: 0 .. MaxLines]

\* However often the stream is paused or lost, the lines on screen are the
\* first ones of the log, without a gap, up to where the user cleared it; one
\* comes twice only after the stream was opened again.
LogIsAPrefix == OnLog => /\ ~ui.cleared => \A n \in ui.seen, m \in 1 .. gw.log : m < n => m \in ui.seen
                         /\ ui.twice => ui.opens > 1

\* The stream of a run that is over ends by itself.
Tailing == OnLog /\ ui.streaming /\ gw.status \in Finished
StreamEnds == Tailing ~> ~Tailing
=============================================================================
