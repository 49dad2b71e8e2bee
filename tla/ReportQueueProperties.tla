----------------------- MODULE ReportQueueProperties -----------------------
(***************************************************************************)
(* What holds of every reported page, whatever fails between the form, the *)
(* list and the bot, and when the bot goes on for ever.                    *)
(***************************************************************************)
EXTENDS ReportQueue, FiniteSets

Queued(r) == \E i \in 1 .. Len(queue) : queue[i] = r

Past == {"pushed", "told", "failed"}

(* The variables keep their types, and the bot has a report exactly while it visits. *)
TypeOK ==
    /\ site \in Sites /\ valid \in [Report -> BOOLEAN]
    /\ web \in [Report -> {"form", "refused", "pushing"} \cup Past]
    /\ queue \in Seq(Report) /\ dump \in Seq(Report)
    /\ bot \in Stage \cup {"handle", "blpop", "check", "pause", "stuck", "dead"}
    /\ cur \in Report \cup {NoReport}
    /\ (cur # NoReport) <=> (bot \in Stage \cup {"check"})
    /\ open \in Nat
    /\ visited \in [Report -> Nat]
    /\ faults \in 0 .. MaxFaults /\ hurt \in BOOLEAN /\ forgot \in BOOLEAN
    /\ upload \in [Scores -> 1 .. Aborted] /\ torn \subseteq Scores /\ stale \subseteq Scores
    /\ score \in [Scores -> SUBSET Fields] /\ kept \in [Scores -> SUBSET Fields]

(* The bot never has two browsers: it arms itself for the next report only on paths on  *)
(* which the browser is closed, although most steps can throw past browser.close(); a   *)
(* bot that is stuck may have left one open.                                            *)
OneBrowser ==
    /\ bot \in {"handle", "blpop", "check", "launch", "pause", "dead"} => open = 0
    /\ bot \in {"open", "browse", "close", "quit"} => open = 1
    /\ bot = "stuck" => open <= 1

(* BLPOP takes a report off the list before the visit: whatever ends the visit or the   *)
(* bot, the page is not visited twice, unless redis forgot the removal.                 *)
AtMostOnce == ~forgot => \A r \in Report : visited[r] <= 1

(* The viewer takes a score with a link for a whole one (app.py:67) and fails without a  *)
(* title (app.py:70). HSETs that fail, requests that end between them and crashes of      *)
(* redis before or after them leave none with a link and without the rest: only a crash   *)
(* between two HSETs of the upload, of which redis had saved less than it had stored,     *)
(* does. And a report stays on the list only together with its whole score, as a crash    *)
(* takes both back to one dump, but for a crash that took fields before it was reported.  *)
ScoreWhole ==
    /\ \A r \in Scores \ torn : "link" \in score[r] => score[r] = Fields
    /\ \A r \in Scores \ (torn \cup stale) :
           site = scoreshare /\ Queued(r) => score[r] = Fields

-----------------------------------------------------------------------------
(* The inductive invariant, in parts *)

Distinct(q) == \A i, j \in 1 .. Len(q) : q[i] = q[j] => i = j

\* A report is in one place only: with its user, on the list, with the bot, or visited.
OnePlace ==
    ~forgot =>
        /\ Distinct(queue)
        /\ \A r \in Report : Queued(r) => web[r] \in Past /\ visited[r] = 0 /\ r # cur
        /\ cur # NoReport => web[cur] \in Past
        /\ cur # NoReport /\ bot \in {"check", "launch", "open", "browse"} => visited[cur] = 0
        /\ \A r \in Report : web[r] \notin Past => visited[r] = 0
        /\ \A r \in Report : visited[r] <= 1

Dumped(r) == \E i \in 1 .. Len(dump) : dump[i] = r

\* What is stored before call i.
Before(i) == {Order[j] : j \in 1 .. i - 1}

Linked(fields) == "link" \in fields => fields = Fields

\* How far an upload has got says what is stored; a dump that holds a report holds its score.
Upload(r) ==
    /\ Linked(score[r]) /\ Linked(kept[r])
    /\ upload[r] = 1 => score[r] = {} /\ kept[r] = {}
    /\ web[r] \in {"form", "pushing"} /\ upload[r] <= Stored => score[r] = Before(upload[r])
    /\ site = scoreshare =>
           /\ web[r] # "form" => upload[r] = Stored
           /\ Queued(r) => web[r] \in Past /\ score[r] = Fields
           /\ Dumped(r) => web[r] \in Past /\ kept[r] = Fields

Uploads == \A r \in Scores \ (torn \cup stale) : Upload(r)

\* What is left of a score that a crash took fields of once its upload was over.
Remains == \A r \in stale \ torn : upload[r] = Stored /\ Linked(score[r]) /\ Linked(kept[r])

(* All of it: what every step of form, bot, service and redis, and every fault, keeps.   *)
ReportInv == TypeOK /\ OneBrowser /\ OnePlace /\ Uploads /\ Remains

-----------------------------------------------------------------------------
(* Progress *)

(* Once the user has been told that the report is made, the bot takes it up, whatever    *)
(* failed, unless it was something the bot does not survive: a failing BLPOP, or a step  *)
(* of a visit that does not stand in a try block.                                       *)
TakenUp == \A r \in Report : (web[r] = "told" /\ Queued(r)) ~> (~Queued(r) \/ hurt)

(* report/app.py:39 "Admin will check it soon.": once the user has been told so, the    *)
(* report leaves the list again, because the bot takes it up.                           *)
CheckedSoon == \A r \in Report : (web[r] = "told" /\ Queued(r)) ~> ~Queued(r)
=============================================================================
