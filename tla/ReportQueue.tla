---------------------------- MODULE ReportQueue ----------------------------
(***************************************************************************)
(* The reporting pipeline of four web challenges: a form handler RPUSHes   *)
(* what a user reports on a redis list, and one bot BLPOPs reports and     *)
(* visits each with a browser of its own.                                  *)
(*   neko-note, plain-blog: bot/index.js    ringtone, scoreshare:          *)
(*   crawler/crawler.js                                                    *)
(* The bots differ only in which steps of a visit stand in a try block,    *)
(* and where they go on after a caught exception. In scoreshare the        *)
(* service keeps its scores in the same redis, one call per field.         *)
(***************************************************************************)
EXTENDS Naturals, Sequences

CONSTANTS
    Report,     \* the reports users make
    Scores,     \* the ones of a score the user has uploaded, in scoreshare
    Sites,      \* the services of a run
    Kinds,      \* the faults of a run
    MaxFaults   \* how many of them (bound)

NoReport == "none"

ASSUME ReportAssumption == NoReport \notin Report /\ Scores \subseteq Report
ASSUME FaultsAssumption == MaxFaults \in Nat

\* The steps of a visit: start the browser, open a page, use it, close it, quit.
Stage == {"launch", "open", "browse", "close", "quit"}

\* caught: where an exception does not leave the visit; resume: where it goes on then;
\* closes: the page is closed before the browser; strict: the form refuses an id that is
\* no note; checks: the bot does.
neko       == [caught |-> {"open", "browse", "close"}, resume |-> "quit", closes |-> TRUE,
               strict |-> TRUE, checks |-> TRUE]
plain      == [caught |-> {"open", "browse", "close"}, resume |-> "quit", closes |-> TRUE,
               strict |-> FALSE, checks |-> TRUE]
ringtone   == [caught |-> {}, resume |-> "quit", closes |-> FALSE,
               strict |-> FALSE, checks |-> FALSE]
scoreshare == [caught |-> {"browse"}, resume |-> "close", closes |-> TRUE,
               strict |-> FALSE, checks |-> FALSE]

ASSUME SitesAssumption == Sites \subseteq {neko, plain, ringtone, scoreshare}

VARIABLES
    site,       \* the service at work, one of the four records
    valid,      \* [Report -> BOOLEAN]: it has the form of an id
    web,        \* [Report -> state of its form handler]
    queue,      \* the list "report" in redis
    dump,       \* the list as redis saved it last
    bot,        \* where the bot is: handle, blpop, check, a stage, pause; stuck or dead
    cur,        \* the report it has popped
    open,       \* its browsers
    visited,    \* [Report -> Nat]: how often it was visited
    faults,     \* faults so far
    hurt,       \* one of them is among those the bot does not survive
    forgot,     \* redis, or the connection to it, has lost a change of the list
    upload,     \* [Scores -> the field stored next, by its number, Stored or Aborted]
    score,      \* [Scores -> its fields in redis]
    kept,       \* [Scores -> its fields as redis saved them last]
    torn,       \* the scores a crash of redis took a field of between two of their HSETs
    stale       \* the ones it took a field of between their upload and the report

trouble == <<faults, hurt>>
scoreVars == <<upload, score, kept, torn, stale>>
vars == <<site, valid, web, queue, dump, bot, cur, open, visited, trouble, forgot, scoreVars>>

Init ==
    /\ site \in Sites
    /\ valid \in [Report -> IF site.strict \/ site.checks THEN BOOLEAN ELSE {TRUE}]
    /\ web = [r \in Report |-> "form"]
    /\ queue = <<>> /\ dump = <<>>
    /\ bot = "handle" /\ cur = NoReport /\ open = 0
    /\ visited = [r \in Report |-> 0]
    /\ faults = 0 /\ hurt = FALSE /\ forgot = FALSE
    /\ upload = [r \in Scores |-> 1] /\ torn = {} /\ stale = {}
    /\ score = [r \in Scores |-> {}] /\ kept = [r \in Scores |-> {}]

\* After these the bot takes the next report all the same.
Survived == {"push", "hset", "ping", "lost", "crash", "redisCrash"} \cup site.caught

Fault(kind) ==
    /\ kind \in Kinds /\ faults < MaxFaults
    /\ faults' = faults + 1
    /\ hurt' = (hurt \/ kind \notin Survived)

-----------------------------------------------------------------------------
(* Uploading a score: three HSETs; only then its id is known to anybody *)

Order_LinkFirst == <<"link", "title", "abc">>

Order == <<"title", "abc", "link">>

Stored  == Len(Order) + 1
Aborted == Len(Order) + 2

Fields == {"title", "abc", "link"}

Uploading(r) == site = scoreshare /\ upload[r] \in 1 .. Len(Order)

NotScores == <<site, valid, web, queue, dump, bot, cur, open, visited, forgot, kept, torn, stale>>

SetField(r) ==
    /\ Uploading(r)
    /\ score' = [score EXCEPT ![r] = @ \cup {Order[upload[r]]}]
    /\ upload' = [upload EXCEPT ![r] = @ + 1]
    /\ UNCHANGED <<NotScores, trouble>>

\* An HSET fails, executed or not, and the request ends with an error.
FieldError(r) ==
    /\ Uploading(r) /\ Fault("hset")
    /\ \E more \in {{}, {Order[upload[r]]}} : score' = [score EXCEPT ![r] = @ \cup more]
    /\ upload' = [upload EXCEPT ![r] = Aborted]
    /\ UNCHANGED NotScores

-----------------------------------------------------------------------------
(* The form *)

Answer(r, from, to) ==
    /\ web[r] = from
    /\ web' = [web EXCEPT ![r] = to]
    /\ UNCHANGED <<site, valid, dump, bot, cur, open, visited, forgot, scoreVars>>

\* The checks before the push: of the id and of the captcha.
Submit(r) ==
    /\ site = scoreshare /\ r \in Scores => upload[r] = Stored
    /\ Answer(r, "form", IF site.strict /\ ~valid[r] THEN "refused" ELSE "pushing")
    /\ UNCHANGED <<queue, trouble>>

Pushed_TriesAgain == "pushing"

Pushed == "pushed"

Push(r) ==
    /\ Answer(r, "pushing", Pushed)
    /\ queue' = Append(queue, r)
    /\ UNCHANGED trouble

Told(r) ==
    /\ Answer(r, "pushed", "told")
    /\ UNCHANGED <<queue, trouble>>

\* The client reports an error, before or after redis has executed the RPUSH.
PushError(r) ==
    /\ Fault("push")
    /\ \E from \in {"pushing", "pushed"} : Answer(r, from, "failed")
    /\ UNCHANGED queue

-----------------------------------------------------------------------------
(* The bot: handle *)

Ping ==
    /\ bot = "handle"
    /\ bot' = "blpop"
    /\ UNCHANGED <<site, valid, web, queue, dump, cur, open, visited, trouble, forgot, scoreVars>>

\* A rejected ping is an unhandled rejection: the process ends.
PingError ==
    /\ bot = "handle" /\ Fault("ping")
    /\ bot' = "dead"
    /\ UNCHANGED <<site, valid, web, queue, dump, cur, open, visited, forgot, scoreVars>>

Rest_Peek(q) == q

Rest(q) == Tail(q)

Pop ==
    /\ bot = "blpop" /\ queue # <<>>
    /\ cur' = Head(queue) /\ queue' = Rest(queue)
    /\ bot' = "check"
    /\ UNCHANGED <<site, valid, web, dump, open, visited, trouble, forgot, scoreVars>>

\* Redis pops a report for a connection that is gone; the client sends BLPOP again.
PopLost ==
    /\ bot = "blpop" /\ queue # <<>> /\ Fault("lost")
    /\ queue' = Tail(queue) /\ forgot' = TRUE
    /\ UNCHANGED <<site, valid, web, dump, bot, cur, open, visited, scoreVars>>

\* BLPOP fails: message[1] throws within the try, and nothing arms handle again.
PopError ==
    /\ bot = "blpop" /\ Fault("pop")
    /\ bot' = "stuck"
    /\ UNCHANGED <<site, valid, web, queue, dump, cur, open, visited, forgot, scoreVars>>

Rearm ==
    /\ bot = "pause"
    /\ bot' = "handle"
    /\ UNCHANGED <<site, valid, web, queue, dump, cur, open, visited, trouble, forgot, scoreVars>>

-----------------------------------------------------------------------------
(* The bot: visit, crawl *)

Refused_Forgotten == "stuck"

Refused == "pause"

Check ==
    /\ bot = "check"
    /\ IF site.checks /\ ~valid[cur]
       THEN bot' = Refused /\ cur' = NoReport
       ELSE bot' = "launch" /\ UNCHANGED cur
    /\ UNCHANGED <<site, valid, web, queue, dump, open, visited, trouble, forgot, scoreVars>>

Visit(more) == visited' = [visited EXCEPT ![cur] = @ + more]

After == [launch |-> "open", open |-> "browse",
          browse |-> IF site.closes THEN "close" ELSE "quit",
          close |-> "quit", quit |-> "pause"]

Step ==
    /\ bot \in Stage
    /\ bot' = After[bot]
    /\ open' = CASE bot = "launch" -> open + 1
                 [] bot = "quit"   -> open - 1
                 [] OTHER          -> open
    /\ Visit(IF bot = "browse" THEN 1 ELSE 0)
    /\ cur' = IF bot = "quit" THEN NoReport ELSE cur
    /\ UNCHANGED <<site, valid, web, queue, dump, trouble, forgot, scoreVars>>

Escaped_ArmsAnyway == "pause"

\* catch in handle logs the exception; setTimeout(handle, 10) has been skipped.
Escaped == "stuck"

Throw ==
    /\ bot \in Stage /\ Fault(bot)
    /\ IF bot \in site.caught
       THEN bot' = site.resume /\ UNCHANGED cur
       ELSE bot' = Escaped /\ cur' = NoReport
    /\ IF bot = "browse" THEN Visit(0) \/ Visit(1) ELSE UNCHANGED visited
    /\ UNCHANGED <<site, valid, web, queue, dump, open, forgot, scoreVars>>

\* The container ends with its process, browsers included, and is started again.
Die ==
    /\ bot # "dead" /\ Fault("crash")
    /\ bot' = "dead" /\ cur' = NoReport /\ open' = 0
    /\ UNCHANGED <<site, valid, web, queue, dump, visited, forgot, scoreVars>>

Restart ==
    /\ bot = "dead"
    /\ bot' = "handle"
    /\ UNCHANGED <<site, valid, web, queue, dump, cur, open, visited, trouble, forgot, scoreVars>>

-----------------------------------------------------------------------------
(* Redis: "save" points, "appendonly no" *)

\* One dump holds the list and, in another database, the scores.
Save ==
    /\ <<dump, kept>> # <<queue, score>>
    /\ dump' = queue /\ kept' = score
    /\ UNCHANGED <<site, valid, web, queue, bot, cur, open, visited, trouble, forgot,
                   upload, score, torn, stale>>

RedisCrash ==
    /\ Fault("redisCrash")
    /\ queue' = dump /\ score' = kept /\ forgot' = TRUE
    /\ torn' = torn \cup {r \in Scores : upload[r] \in 1 .. Len(Order) /\ kept[r] # score[r]}
    /\ stale' = stale \cup {r \in Scores : /\ upload[r] = Stored /\ web[r] \in {"form", "pushing"}
                                           /\ kept[r] # score[r]}
    /\ UNCHANGED <<site, valid, web, dump, bot, cur, open, visited, upload, kept>>

-----------------------------------------------------------------------------

Service == \E r \in Scores : SetField(r)

Form == \E r \in Report : Submit(r) \/ Push(r) \/ Told(r) \/ PushError(r)

Bot == Ping \/ Pop \/ Rearm \/ Check \/ Step \/ Restart

Trouble == (\E r \in Scores : FieldError(r)) \/ PingError \/ PopLost \/ PopError \/ Throw \/ Die \/ RedisCrash

Next == Service \/ Form \/ Bot \/ Trouble \/ Save

Spec == Init /\ [][Next]_vars

\* The bot's event loop runs; users and redis's save points owe nothing.
FairSpec == Spec /\ WF_vars(Bot)
=============================================================================
