------------------------- MODULE ReportQueueProofs -------------------------
(***************************************************************************)
(* For any number of reports and scores and any number of faults of every  *)
(* kind, at each of the four services: no page is visited twice, the bot   *)
(* never has two browsers, and what is stored or reported of a score is    *)
(* whole.                                                                  *)
(***************************************************************************)
EXTENDS ReportQueueProperties, SequenceTheorems, TLAPS

(* What the services catch lies between launch and quit, and they go on before quit ends. *)
LEMMA SiteFacts ==
  ASSUME site \in Sites
  PROVE  /\ site.caught \subseteq {"open", "browse", "close"}
         /\ site.resume \in {"quit", "close"}
  <1>1. site \in {neko, plain, ringtone, scoreshare}
    BY SitesAssumption
  <1>2. CASE site = neko
    BY <1>2 DEF neko
  <1>3. CASE site = plain
    BY <1>3 DEF plain
  <1>4. CASE site = ringtone
    BY <1>4 DEF ringtone
  <1>5. CASE site = scoreshare
    BY <1>5 DEF scoreshare
  <1> QED BY <1>1, <1>2, <1>3, <1>4, <1>5

(* The steps of a visit, in their order. *)
LEMMA AfterFacts ==
  /\ After["launch"] = "open" /\ After["open"] = "browse"
  /\ After["browse"] \in {"close", "quit"}
  /\ After["close"] = "quit" /\ After["quit"] = "pause"
  BY DEF After

(* The three calls of an upload, in their order. *)
LEMMA OrderFacts ==
  /\ Len(Order) = 3 /\ Order[1] = "title" /\ Order[2] = "abc" /\ Order[3] = "link"
  /\ Stored = 4 /\ Aborted = 5
  BY DEF Order, Stored, Aborted

(* What is stored before each of them, and after the last. *)
LEMMA BeforeFacts ==
  /\ Before(1) = {} /\ Before(4) = Fields
  /\ \A i \in 1 .. 3 : Before(i + 1) = Before(i) \cup {Order[i]} /\ "link" \notin Before(i)
  <1>1. Before(1) = {}
    BY DEF Before
  <1>2. Before(2) = {"title"}
    BY OrderFacts DEF Before
  <1>3. Before(3) = {"title", "abc"}
    BY OrderFacts DEF Before
  <1>4. Before(4) = {"title", "abc", "link"}
    BY OrderFacts DEF Before
  <1>5. \A i \in 1 .. 3 : i = 1 \/ i = 2 \/ i = 3
    OBVIOUS
  <1> QED BY <1>1, <1>2, <1>3, <1>4, <1>5, OrderFacts DEF Fields

(* Every action keeps the types. *)
LEMMA TypeStep ==
  ASSUME TypeOK, OneBrowser, [Next]_vars
  PROVE  TypeOK'
  <1> USE ReportAssumption, FaultsAssumption DEF TypeOK, Past, Stage
  <1>1. ASSUME NEW r \in Scores, SetField(r) PROVE TypeOK'
    BY OrderFacts, <1>1 DEF SetField, Uploading, NotScores, trouble, Fields
  <1>2. ASSUME NEW r \in Scores, FieldError(r) PROVE TypeOK'
    BY OrderFacts, <1>2 DEF FieldError, Uploading, Fault, NotScores, Fields
  <1>3. ASSUME NEW r \in Report, Submit(r) PROVE TypeOK'
    BY <1>3 DEF Submit, Answer, scoreVars, trouble
  <1>4. ASSUME NEW r \in Report, Push(r) PROVE TypeOK'
    BY AppendProperties, <1>4 DEF Push, Answer, Pushed, scoreVars, trouble
  <1>5. ASSUME NEW r \in Report, Told(r) PROVE TypeOK'
    BY <1>5 DEF Told, Answer, scoreVars, trouble
  <1>6. ASSUME NEW r \in Report, PushError(r) PROVE TypeOK'
    BY <1>6 DEF PushError, Answer, Fault, scoreVars
  <1>7. CASE Ping
    BY <1>7 DEF Ping, scoreVars, trouble
  <1>8. CASE Pop
    BY HeadTailProperties, <1>8 DEF Pop, Rest, scoreVars, trouble
  <1>9. CASE Rearm
    BY <1>9 DEF Rearm, scoreVars, trouble
  <1>10. CASE Check
    BY <1>10 DEF Check, Refused, scoreVars, trouble
  <1>11. CASE Step
    <2>1. bot \in {"launch", "open", "browse", "close", "quit"}
      BY <1>11 DEF Step
    <2>2. cur \in Report
      BY <2>1
    <2>3. visited' \in [Report -> Nat]
      BY <1>11, <2>2 DEF Step, Visit
    <2>4. open' \in Nat
      BY <1>11, <2>1 DEF Step, OneBrowser
    <2>5. bot' \in Stage \cup {"pause"} /\ (bot' \in Stage <=> bot # "quit")
      BY <1>11, <2>1, AfterFacts DEF Step
    <2>6. cur' \in Report \cup {NoReport} /\ (cur' # NoReport <=> bot # "quit")
      BY <1>11, <2>2 DEF Step
    <2> QED BY <1>11, <2>3, <2>4, <2>5, <2>6 DEF Step, scoreVars, trouble
  <1>12. CASE Restart
    BY <1>12 DEF Restart, scoreVars, trouble
  <1>13. CASE PingError
    BY <1>13 DEF PingError, Fault, scoreVars
  <1>14. CASE PopLost
    BY HeadTailProperties, <1>14 DEF PopLost, Fault, scoreVars
  <1>15. CASE PopError
    BY <1>15 DEF PopError, Fault, scoreVars
  <1>16. CASE Throw
    <2>1. cur \in Report /\ faults < MaxFaults /\ faults' = faults + 1 /\ hurt' \in BOOLEAN
      BY <1>16 DEF Throw, Fault
    <2>2. visited' \in [Report -> Nat]
      <3>1. CASE bot = "browse"
        <4>1. \/ visited' = [visited EXCEPT ![cur] = @ + 0]
              \/ visited' = [visited EXCEPT ![cur] = @ + 1]
          BY <1>16, <3>1 DEF Throw, Visit
        <4>2. visited \in [Report -> Nat] /\ visited[cur] \in Nat
          BY <2>1
        <4> HIDE DEF TypeOK
        <4> QED BY <4>1, <4>2
      <3>2. CASE bot # "browse"
        BY <1>16, <2>1, <3>2 DEF Throw
      <3> QED BY <3>1, <3>2
    <2>3. /\ bot' \in {"quit", "close", "stuck"} /\ cur' \in Report \cup {NoReport}
          /\ cur' # NoReport <=> bot' # "stuck"
      BY <1>16, <2>1, SiteFacts DEF Throw, Escaped
    <2> QED BY <1>16, <2>1, <2>2, <2>3 DEF Throw, scoreVars
  <1>17. CASE Die
    BY <1>17 DEF Die, Fault, scoreVars
  <1>18. CASE RedisCrash
    BY <1>18 DEF RedisCrash, Fault
  <1>19. CASE Save
    BY <1>19 DEF Save, trouble
  <1>20. CASE UNCHANGED vars
    BY <1>20 DEF vars, scoreVars, trouble
  <1> QED BY <1>1, <1>2, <1>3, <1>4, <1>5, <1>6, <1>7, <1>8, <1>9, <1>10, <1>11, <1>12, <1>13,
             <1>14, <1>15, <1>16, <1>17, <1>18, <1>19, <1>20
          DEF Next, Service, Form, Bot, Trouble

(* Every action keeps OneBrowser: a caught exception goes on before quit, others leave the bot stuck. *)
LEMMA BrowserStep ==
  ASSUME TypeOK, OneBrowser, [Next]_vars
  PROVE  OneBrowser'
  <1> USE DEF TypeOK, OneBrowser, Stage
  <1>1. ASSUME NEW r \in Scores, SetField(r) PROVE OneBrowser'
    BY <1>1 DEF SetField, Uploading, NotScores
  <1>2. ASSUME NEW r \in Scores, FieldError(r) PROVE OneBrowser'
    BY <1>2 DEF FieldError, Uploading, Fault, NotScores
  <1>3. ASSUME NEW r \in Report, Submit(r) PROVE OneBrowser'
    BY <1>3 DEF Submit, Answer
  <1>4. ASSUME NEW r \in Report, Push(r) PROVE OneBrowser'
    BY <1>4 DEF Push, Answer, Pushed
  <1>5. ASSUME NEW r \in Report, Told(r) PROVE OneBrowser'
    BY <1>5 DEF Told, Answer
  <1>6. ASSUME NEW r \in Report, PushError(r) PROVE OneBrowser'
    BY <1>6 DEF PushError, Answer, Fault
  <1>7. CASE Ping
    BY <1>7 DEF Ping
  <1>8. CASE Pop
    BY <1>8 DEF Pop, Rest
  <1>9. CASE Rearm
    BY <1>9 DEF Rearm
  <1>10. CASE Check
    BY <1>10 DEF Check, Refused
  <1>11. CASE Step
    BY AfterFacts, <1>11 DEF Step, Visit
  <1>12. CASE Restart
    BY <1>12 DEF Restart
  <1>13. CASE PingError
    BY <1>13 DEF PingError, Fault
  <1>14. CASE PopLost
    BY <1>14 DEF PopLost, Fault
  <1>15. CASE PopError
    BY <1>15 DEF PopError, Fault
  <1>16. CASE Throw
    <2>1. open' = open /\ bot \in Stage /\ open <= 1
      BY <1>16 DEF Throw
    <2>2. CASE bot \in site.caught
      <3>1. bot \in {"open", "browse", "close"} /\ bot' \in {"quit", "close"}
        BY <1>16, <2>2, SiteFacts DEF Throw
      <3> QED BY <2>1, <3>1
    <2>3. CASE bot \notin site.caught
      <3>1. bot' = "stuck"
        BY <1>16, <2>3 DEF Throw, Escaped
      <3> QED BY <2>1, <3>1
    <2> QED BY <2>2, <2>3
  <1>17. CASE Die
    BY <1>17 DEF Die, Fault
  <1>18. CASE RedisCrash
    BY <1>18 DEF RedisCrash, Fault
  <1>19. CASE Save
    BY <1>19 DEF Save
  <1>20. CASE UNCHANGED vars
    BY <1>20 DEF vars
  <1> QED BY <1>1, <1>2, <1>3, <1>4, <1>5, <1>6, <1>7, <1>8, <1>9, <1>10, <1>11, <1>12, <1>13,
             <1>14, <1>15, <1>16, <1>17, <1>18, <1>19, <1>20
          DEF Next, Service, Form, Bot, Trouble

(* Every action keeps OnePlace. *)
LEMMA PlaceStep ==
  ASSUME TypeOK, OnePlace, [Next]_vars
  PROVE  OnePlace'
  <1> USE ReportAssumption DEF TypeOK, OnePlace, Distinct, Queued, Past, Stage
  <1>1. ASSUME NEW r \in Scores, SetField(r) PROVE OnePlace'
    BY <1>1 DEF SetField, Uploading, NotScores
  <1>2. ASSUME NEW r \in Scores, FieldError(r) PROVE OnePlace'
    BY <1>2 DEF FieldError, Uploading, Fault, NotScores
  <1>3. ASSUME NEW r \in Report, Submit(r) PROVE OnePlace'
    BY <1>3 DEF Submit, Answer
  <1>4. ASSUME NEW r \in Report, Push(r) PROVE OnePlace'
    <2> SUFFICES ASSUME ~forgot PROVE OnePlace'
      BY <1>4 DEF Push, Answer
    <2>1. /\ queue' = Append(queue, r) /\ web[r] = "pushing" /\ web' = [web EXCEPT ![r] = "pushed"]
          /\ UNCHANGED <<bot, cur, visited, forgot>>
      BY <1>4 DEF Push, Pushed, Answer
    <2>2. /\ Len(queue') = Len(queue) + 1 /\ queue'[Len(queue) + 1] = r
          /\ \A i \in 1 .. Len(queue) : queue'[i] = queue[i]
      BY <2>1, AppendProperties
    <2>3. /\ Len(queue) \in Nat
          /\ \A i \in 1 .. Len(queue') : i \in 1 .. Len(queue) \/ i = Len(queue) + 1
      BY <2>2
    <2>4. ~Queued(r) /\ r # cur /\ visited[r] = 0
      <3>1. web[r] \notin Past
        BY <2>1
      <3> QED BY <3>1
    <2>5. Distinct(queue')
      <3>1. \A i \in 1 .. Len(queue) : queue[i] # r
        BY <2>4
      <3> SUFFICES ASSUME NEW i \in 1 .. Len(queue'), NEW j \in 1 .. Len(queue'),
                          queue'[i] = queue'[j]
                   PROVE  i = j
        BY DEF Distinct
      <3>2. i \in 1 .. Len(queue) \/ i = Len(queue) + 1
        BY <2>3
      <3>3. j \in 1 .. Len(queue) \/ j = Len(queue) + 1
        BY <2>3
      <3>4. CASE i \in 1 .. Len(queue) /\ j \in 1 .. Len(queue)
        BY <2>2, <3>4
      <3> QED BY <2>2, <3>1, <3>2, <3>3, <3>4
    <2>6. \A t \in Report : Queued(t)' => Queued(t) \/ t = r
      <3> SUFFICES ASSUME NEW t \in Report, NEW i \in 1 .. Len(queue'), queue'[i] = t
                   PROVE  Queued(t) \/ t = r
        OBVIOUS
      <3> QED BY <2>2, <2>3
    <2>7. \A t \in Report : web[t] \in Past => web'[t] \in Past
      BY <2>1
    <2>8. web'[r] \in Past
      BY <2>1
    <2> HIDE DEF Distinct, Queued, Past
    <2> QED BY <2>1, <2>4, <2>5, <2>6, <2>7, <2>8 DEF OnePlace
  <1>5. ASSUME NEW r \in Report, Told(r) PROVE OnePlace'
    BY <1>5 DEF Told, Answer
  <1>6. ASSUME NEW r \in Report, PushError(r) PROVE OnePlace'
    <2>1. PICK from \in {"pushing", "pushed"} : Answer(r, from, "failed")
      BY <1>6 DEF PushError
    <2>2. /\ web[r] \in {"pushing", "pushed"} /\ web' = [web EXCEPT ![r] = "failed"]
          /\ UNCHANGED <<queue, bot, cur, visited, forgot>>
      BY <1>6, <2>1 DEF PushError, Answer
    <2> QED BY <2>2
  <1>7. CASE Ping
    BY <1>7 DEF Ping
  <1>8. CASE Pop
    BY <1>8 DEF Pop, Rest
  <1>9. CASE Rearm
    BY <1>9 DEF Rearm
  <1>10. CASE Check
    BY <1>10 DEF Check, Refused
  <1>11. CASE Step
    BY AfterFacts, <1>11 DEF Step, Visit
  <1>12. CASE Restart
    BY <1>12 DEF Restart
  <1>13. CASE PingError
    BY <1>13 DEF PingError, Fault
  <1>14. CASE PopLost
    BY <1>14 DEF PopLost, Fault
  <1>15. CASE PopError
    BY <1>15 DEF PopError, Fault
  <1>16. CASE Throw
    <2>1. /\ bot \in Stage /\ cur \in Report /\ UNCHANGED <<web, queue, forgot>>
      BY <1>16 DEF Throw
    <2>2. /\ bot' \in {"quit", "close", "stuck"} /\ cur' \in {cur, NoReport}
          /\ bot = "browse" \/ visited' = visited
          /\ visited' = [visited EXCEPT ![cur] = @ + 0] \/ visited' = [visited EXCEPT ![cur] = @ + 1]
             \/ visited' = visited
      BY <1>16, SiteFacts DEF Throw, Escaped, Visit
    <2>3. \A t \in Report : t # cur => visited'[t] = visited[t]
      BY <2>1, <2>2
    <2>4. ~forgot => visited'[cur] <= 1
      BY <2>1, <2>2
    <2> QED BY <2>1, <2>2, <2>3, <2>4
  <1>17. CASE Die
    BY <1>17 DEF Die, Fault
  <1>18. CASE RedisCrash
    BY <1>18 DEF RedisCrash, Fault
  <1>19. CASE Save
    BY <1>19 DEF Save
  <1>20. CASE UNCHANGED vars
    BY <1>20 DEF vars
  <1> QED BY <1>1, <1>2, <1>3, <1>4, <1>5, <1>6, <1>7, <1>8, <1>9, <1>10, <1>11, <1>12, <1>13,
             <1>14, <1>15, <1>16, <1>17, <1>18, <1>19, <1>20
          DEF Next, Service, Form, Bot, Trouble

(* Every action keeps Uploads. *)
LEMMA UploadStep ==
  ASSUME TypeOK, Uploads, [Next]_vars
  PROVE  Uploads'
  <1> USE ReportAssumption DEF TypeOK, Uploads, Upload, Queued, Dumped, Past
  <1>1. ASSUME NEW r \in Scores, SetField(r) PROVE Uploads'
    <2>1. /\ upload[r] \in 1 .. 3 /\ site = scoreshare
          /\ score' = [score EXCEPT ![r] = @ \cup {Order[upload[r]]}]
          /\ upload' = [upload EXCEPT ![r] = @ + 1]
          /\ UNCHANGED <<site, web, queue, dump, kept, torn, stale>>
      BY OrderFacts, <1>1 DEF SetField, Uploading, NotScores
    <2> SUFFICES ASSUME NEW t \in Scores \ (torn \cup stale) PROVE Upload(t)'
      BY <2>1
    <2>2. Upload(t)
      OBVIOUS
    <2>3. CASE t # r
      BY <2>1, <2>2, <2>3
    <2>4. CASE t = r
      <3>1. web[r] = "form" /\ score[r] = Before(upload[r])
        BY <2>1, <2>2, <2>4, OrderFacts
      <3>2. score'[r] = Before(upload'[r])
        BY <2>1, <3>1, BeforeFacts
      <3>3. Linked(score'[r])
        <4>1. CASE upload[r] = 3
          BY <2>1, <3>2, <4>1, BeforeFacts DEF Linked
        <4>2. CASE upload[r] # 3
          <5>1. upload'[r] \in 1 .. 3
            BY <2>1, <4>2
          <5> QED BY <5>1, <3>2, BeforeFacts DEF Linked
        <4> QED BY <4>1, <4>2
      <3>4. upload'[r] # 1
        BY <2>1
      <3> QED BY <2>1, <2>2, <2>4, <3>1, <3>2, <3>3, <3>4
    <2> QED BY <2>3, <2>4
  <1>2. ASSUME NEW r \in Scores, FieldError(r) PROVE Uploads'
    <2>1. PICK more \in {{}, {Order[upload[r]]}} : score' = [score EXCEPT ![r] = @ \cup more]
      BY <1>2 DEF FieldError
    <2>2. /\ upload[r] \in 1 .. 3 /\ site = scoreshare
          /\ upload' = [upload EXCEPT ![r] = Aborted]
          /\ UNCHANGED <<site, web, queue, dump, kept, torn, stale>>
      BY OrderFacts, <1>2 DEF FieldError, Uploading, NotScores
    <2> SUFFICES ASSUME NEW t \in Scores \ (torn \cup stale) PROVE Upload(t)'
      BY <2>2
    <2>3. Upload(t)
      OBVIOUS
    <2>4. CASE t # r
      BY <2>1, <2>2, <2>3, <2>4
    <2>5. CASE t = r
      <3>1. web[r] = "form" /\ score[r] = Before(upload[r])
        BY <2>2, <2>3, <2>5, OrderFacts
      <3>2. score'[r] = Before(upload[r]) \/ score'[r] = Before(upload[r] + 1)
        BY <2>1, <2>2, <3>1, BeforeFacts
      <3>3. \A i \in 1 .. 4 : Linked(Before(i))
        <4>1. \A i \in 1 .. 4 : i = 4 \/ i \in 1 .. 3
          OBVIOUS
        <4> QED BY <4>1, BeforeFacts DEF Linked
      <3>4. upload[r] \in 1 .. 4 /\ upload[r] + 1 \in 1 .. 4
        BY <2>2
      <3>5. Linked(score'[r])
        BY <3>2, <3>3, <3>4
      <3> QED BY <2>2, <2>3, <2>5, <3>1, <3>5, OrderFacts
    <2> QED BY <2>4, <2>5
  <1>3. ASSUME NEW r \in Report, Submit(r) PROVE Uploads'
    BY <1>3 DEF Submit, Answer, scoreVars
  <1>4. ASSUME NEW r \in Report, Push(r) PROVE Uploads'
    <2>1. /\ queue' = Append(queue, r) /\ web[r] = "pushing" /\ web' = [web EXCEPT ![r] = "pushed"]
          /\ UNCHANGED <<site, dump, upload, score, kept, torn, stale>>
      BY <1>4 DEF Push, Pushed, Answer, scoreVars
    <2>2. /\ Len(queue') = Len(queue) + 1 /\ queue'[Len(queue) + 1] = r
          /\ \A i \in 1 .. Len(queue) : queue'[i] = queue[i]
      BY <2>1, AppendProperties
    <2> SUFFICES ASSUME NEW t \in Scores \ (torn \cup stale) PROVE Upload(t)'
      BY <2>1
    <2>3. Upload(t) /\ t \in Report /\ Len(queue) \in Nat
      OBVIOUS
    <2>4. CASE t = r
      <3>1. site = scoreshare => upload[t] = 4 /\ score[t] = Fields
        BY <2>1, <2>3, <2>4, OrderFacts, BeforeFacts
      <3> QED BY <2>1, <2>3, <2>4, <3>1
    <2>5. CASE t # r
      <3>1. Queued(t)' => Queued(t)
        <4> SUFFICES ASSUME NEW i \in 1 .. Len(queue'), queue'[i] = t PROVE Queued(t)
          OBVIOUS
        <4>1. i \in 1 .. Len(queue) \/ i = Len(queue) + 1
          BY <2>2, <2>3
        <4> QED BY <2>2, <2>5, <4>1
      <3>2. web'[t] = web[t]
        BY <2>1, <2>3, <2>5
      <3> HIDE DEF Queued
      <3> QED BY <2>1, <2>3, <3>1, <3>2
    <2> QED BY <2>4, <2>5
  <1>5. ASSUME NEW r \in Report, Told(r) PROVE Uploads'
    BY <1>5 DEF Told, Answer, scoreVars
  <1>6. ASSUME NEW r \in Report, PushError(r) PROVE Uploads'
    BY <1>6 DEF PushError, Answer, Fault, scoreVars
  <1>7. CASE Ping
    BY <1>7 DEF Ping, scoreVars
  <1>8. CASE Pop
    <2>1. /\ queue # <<>> /\ queue' = Tail(queue)
          /\ UNCHANGED <<site, web, dump, upload, score, kept, torn, stale>>
      BY <1>8 DEF Pop, Rest, scoreVars
    <2> SUFFICES ASSUME NEW t \in Scores \ (torn \cup stale) PROVE Upload(t)'
      BY <2>1
    <2>2. Queued(t)' => Queued(t)
      <3>1. /\ Len(queue) \in Nat /\ Len(queue') = Len(queue) - 1
            /\ \A i \in 1 .. Len(queue') : queue'[i] = queue[i + 1]
        BY <2>1, HeadTailProperties
      <3> SUFFICES ASSUME NEW i \in 1 .. Len(queue'), queue'[i] = t PROVE Queued(t)
        OBVIOUS
      <3>2. i + 1 \in 1 .. Len(queue)
        BY <3>1
      <3> QED BY <3>1, <3>2
    <2>3. Upload(t)
      OBVIOUS
    <2> HIDE DEF Queued
    <2> QED BY <2>1, <2>2, <2>3
  <1>9. CASE Rearm
    BY <1>9 DEF Rearm, scoreVars
  <1>10. CASE Check
    BY <1>10 DEF Check, Refused, scoreVars
  <1>11. CASE Step
    BY <1>11 DEF Step, Visit, scoreVars
  <1>12. CASE Restart
    BY <1>12 DEF Restart, scoreVars
  <1>13. CASE PingError
    BY <1>13 DEF PingError, Fault, scoreVars
  <1>14. CASE PopLost
    BY <1>14 DEF PopLost, Fault, scoreVars
  <1>15. CASE PopError
    BY <1>15 DEF PopError, Fault, scoreVars
  <1>16. CASE Throw
    BY <1>16 DEF Throw, Escaped, Visit, Fault, scoreVars
  <1>17. CASE Die
    BY <1>17 DEF Die, Fault, scoreVars
  <1>18. CASE RedisCrash
    <2>1. /\ queue' = dump /\ score' = kept
          /\ torn' = torn \cup {r \in Scores : upload[r] \in 1 .. 3 /\ kept[r] # score[r]}
          /\ stale' = stale \cup {r \in Scores : /\ upload[r] = 4 /\ web[r] \in {"form", "pushing"}
                                                 /\ kept[r] # score[r]}
          /\ UNCHANGED <<site, web, dump, upload, kept>>
      BY OrderFacts, <1>18 DEF RedisCrash
    <2> SUFFICES ASSUME NEW t \in Scores \ (torn' \cup stale') PROVE Upload(t)'
      OBVIOUS
    <2>2. t \in Scores \ (torn \cup stale) /\ Upload(t)
      BY <2>1
    <2>3. web[t] \in {"form", "pushing"} /\ upload[t] <= 4 => kept[t] = score[t]
      BY <2>1, <2>2
    <2>4. Queued(t)' <=> Dumped(t)
      BY <2>1
    <2> QED BY <2>1, <2>2, <2>3, <2>4, OrderFacts
  <1>19. CASE Save
    <2>1. dump' = queue /\ kept' = score /\ UNCHANGED <<site, web, queue, upload, score, torn, stale>>
      BY <1>19 DEF Save
    <2> SUFFICES ASSUME NEW t \in Scores \ (torn \cup stale) PROVE Upload(t)'
      BY <2>1
    <2>2. Upload(t)
      OBVIOUS
    <2>3. upload[t] = 1 => score[t] = {}
      BY <2>2
    <2>4. Dumped(t)' <=> Queued(t)
      BY <2>1
    <2> QED BY <2>1, <2>2, <2>3, <2>4
  <1>20. CASE UNCHANGED vars
    BY <1>20 DEF vars, scoreVars
  <1> QED BY <1>1, <1>2, <1>3, <1>4, <1>5, <1>6, <1>7, <1>8, <1>9, <1>10, <1>11, <1>12, <1>13,
             <1>14, <1>15, <1>16, <1>17, <1>18, <1>19, <1>20
          DEF Next, Service, Form, Bot, Trouble

(* Every action keeps Remains. *)
LEMMA RemainsStep ==
  ASSUME TypeOK, Uploads, Remains, [Next]_vars
  PROVE  Remains'
  <1> USE DEF TypeOK, Remains
  <1>1. CASE UNCHANGED <<upload, score, kept, torn, stale>>
    BY <1>1
  <1>2. ASSUME NEW r \in Scores, SetField(r) \/ FieldError(r) PROVE Remains'
    <2>1. /\ upload[r] \in 1 .. 3 /\ UNCHANGED <<kept, torn, stale>>
          /\ \A t \in Scores : t # r => upload'[t] = upload[t] /\ score'[t] = score[t]
      BY OrderFacts, <1>2 DEF SetField, FieldError, Uploading, NotScores
    <2>2. r \notin stale \ torn
      BY <2>1, OrderFacts
    <2> SUFFICES ASSUME NEW t \in stale \ torn
                 PROVE  upload'[t] = Stored /\ Linked(score'[t]) /\ Linked(kept'[t])
      BY <2>1
    <2>3. t \in Scores /\ t # r
      BY <2>2
    <2>4. upload'[t] = upload[t] /\ score'[t] = score[t] /\ kept'[t] = kept[t]
      BY <2>1, <2>3
    <2> QED BY <2>4
  <1>3. CASE Save
    BY <1>3 DEF Save
  <1>4. CASE RedisCrash
    <2>1. /\ score' = kept /\ UNCHANGED <<upload, kept>>
          /\ torn \subseteq torn'
          /\ \A t \in stale' : t \in stale \/ (t \in Scores /\ upload[t] = Stored)
      BY <1>4 DEF RedisCrash
    <2> SUFFICES ASSUME NEW t \in stale' \ torn'
                 PROVE  upload[t] = Stored /\ Linked(kept[t])
      BY <2>1
    <2>2. t \in Scores \ torn
      BY <2>1
    <2>3. CASE t \in stale
      BY <2>2, <2>3
    <2>4. CASE t \notin stale
      BY <2>1, <2>2, <2>4 DEF Uploads, Upload
    <2> QED BY <2>3, <2>4
  <1>5. Form \/ Bot \/ PingError \/ PopLost \/ PopError \/ Throw \/ Die \/ UNCHANGED vars
        => UNCHANGED <<upload, score, kept, torn, stale>>
    BY DEF Form, Submit, Push, Told, PushError, Answer, Bot, Ping, Pop, Rearm, Check, Step, Restart,
           PingError, PopLost, PopError, Throw, Die, scoreVars, vars
  <1> QED BY <1>1, <1>2, <1>3, <1>4, <1>5 DEF Next, Service, Trouble

(* The invariant holds initially. *)
LEMMA InvInit == Init => ReportInv
  <1> SUFFICES ASSUME Init PROVE ReportInv
    OBVIOUS
  <1> USE ReportAssumption, FaultsAssumption, OrderFacts DEF Init
  <1>1. TypeOK
    <2>1. site \in Sites /\ valid \in [Report -> BOOLEAN]
      BY SitesAssumption DEF neko, plain, ringtone, scoreshare
    <2>2. queue \in Seq(Report) /\ dump \in Seq(Report)
      OBVIOUS
    <2>3. /\ upload \in [Scores -> 1 .. Aborted] /\ torn \subseteq Scores
          /\ stale \subseteq Scores
          /\ score \in [Scores -> SUBSET Fields] /\ kept \in [Scores -> SUBSET Fields]
      OBVIOUS
    <2>4. /\ web \in [Report -> {"form", "refused", "pushing"} \cup Past]
          /\ visited \in [Report -> Nat]
      OBVIOUS
    <2>5. /\ bot \in Stage \cup {"handle", "blpop", "check", "pause", "stuck", "dead"}
          /\ cur = NoReport /\ bot \notin Stage \cup {"check"}
      BY DEF Stage
    <2>6. open = 0 /\ faults = 0 /\ hurt = FALSE /\ forgot = FALSE
      BY DEF Init
    <2>7. open \in Nat /\ faults \in 0 .. MaxFaults
      BY <2>6, FaultsAssumption
    <2>8. hurt \in BOOLEAN /\ forgot \in BOOLEAN
      BY <2>6
    <2>9. cur \in Report \cup {NoReport}
      BY <2>5
    <2>10. (cur # NoReport) <=> (bot \in Stage \cup {"check"})
      BY <2>5
    <2> HIDE DEF Init
    <2> QED BY <2>1, <2>2, <2>3, <2>4, <2>5, <2>7, <2>8, <2>9, <2>10, Zenon DEF TypeOK
  <1>2. OneBrowser
    BY DEF OneBrowser
  <1>3. OnePlace
    BY DEF OnePlace, Distinct, Queued, Past
  <1>4. Uploads
    <2> SUFFICES ASSUME NEW r \in Scores PROVE Upload(r)
      BY DEF Uploads
    <2>1. /\ score[r] = {} /\ kept[r] = {} /\ upload[r] = 1 /\ web[r] = "form"
      BY DEF Init
    <2>2. ~Queued(r) /\ ~Dumped(r)
      BY DEF Queued, Dumped
    <2> QED BY <2>1, <2>2, BeforeFacts DEF Upload, Linked
  <1>5. Remains
    BY DEF Remains
  <1> QED BY <1>1, <1>2, <1>3, <1>4, <1>5 DEF ReportInv

(* The inductive invariant holds, whatever fails. *)
THEOREM ReportInvariant == Spec => []ReportInv
  <1>1. ReportInv /\ [Next]_vars => ReportInv'
    BY TypeStep, BrowserStep, PlaceStep, UploadStep, RemainsStep DEF ReportInv
  <1> QED BY InvInit, <1>1, PTL DEF Spec

(* The bot never has two browsers: every page it visits is closed with its browser before *)
(* the next is taken, or the bot takes no other.                                           *)
THEOREM NoBrowserLeft == Spec => []OneBrowser
  BY ReportInvariant, PTL DEF ReportInv

(* A report is visited at most once, unless redis lost a change of its list. *)
THEOREM VisitedOnce == Spec => []AtMostOnce
  <1>1. ReportInv => AtMostOnce
    BY DEF ReportInv, OnePlace, AtMostOnce
  <1> QED BY <1>1, ReportInvariant, PTL

(* What can be viewed of a score is whole, unless redis crashed between two HSETs of its    *)
(* upload and lost some; what is reported is whole, unless it lost some before the report. *)
THEOREM ScoresWhole == Spec => []ScoreWhole
  <1>1. ReportInv => ScoreWhole
    <2> SUFFICES ASSUME ReportInv, NEW r \in Scores \ torn
                 PROVE  /\ "link" \in score[r] => score[r] = Fields
                        /\ r \notin stale /\ site = scoreshare /\ Queued(r) => score[r] = Fields
      BY DEF ScoreWhole
    <2>1. CASE r \in stale
      BY <2>1 DEF ReportInv, Remains, Linked
    <2>2. CASE r \notin stale
      BY <2>2 DEF ReportInv, Uploads, Upload, Linked
    <2> QED BY <2>1, <2>2
  <1> QED BY <1>1, ReportInvariant, PTL

-----------------------------------------------------------------------------
(* No report goes missing. *)

\* A report that is still to be visited, has been visited, or is refused by the bot.
InHand(r) ==
    \/ Queued(r)
    \/ r = cur /\ bot \in {"check", "launch", "open", "browse"}
    \/ visited[r] = 1
    \/ site.checks /\ ~valid[r]

\* The user has been told, or is about to be told, that the report is made, but nobody will
\* look at it.
Missed(r) == web[r] \in {"pushed", "told"} /\ ~InHand(r)

(* A report is missed only from a step of these kinds on. *)
LEMMA MissedStep ==
  ASSUME TypeOK, OnePlace, [Next]_vars, NEW t \in Report, ~Missed(t), ~forgot', ~Die,
         ~(Throw /\ bot \in {"launch", "open", "browse"})
  PROVE  ~Missed(t)'
  <1> USE ReportAssumption DEF Missed, InHand, Queued
  <1>1. ASSUME NEW r \in Scores, SetField(r) PROVE ~Missed(t)'
    BY <1>1 DEF SetField, Uploading, NotScores
  <1>2. ASSUME NEW r \in Scores, FieldError(r) PROVE ~Missed(t)'
    BY <1>2 DEF FieldError, Uploading, Fault, NotScores
  <1>3. ASSUME NEW r \in Report, Submit(r) PROVE ~Missed(t)'
    BY <1>3 DEF Submit, Answer, TypeOK
  <1>4. ASSUME NEW r \in Report, Push(r) PROVE ~Missed(t)'
    <2>1. /\ queue' = Append(queue, r) /\ web[r] = "pushing" /\ web' = [web EXCEPT ![r] = "pushed"]
          /\ UNCHANGED <<site, valid, bot, cur, visited, forgot>>
      BY <1>4 DEF Push, Pushed, Answer
    <2>2. /\ Len(queue') = Len(queue) + 1 /\ queue'[Len(queue) + 1] = r
          /\ \A i \in 1 .. Len(queue) : queue'[i] = queue[i]
          /\ Len(queue) \in Nat
      BY <2>1, AppendProperties DEF TypeOK
    <2>3. Queued(t) \/ t = r => Queued(t)'
      BY <2>2
    <2>4. t # r => web'[t] = web[t]
      BY <2>1 DEF TypeOK
    <2> HIDE DEF Queued
    <2> QED BY <2>1, <2>3, <2>4
  <1>5. ASSUME NEW r \in Report, Told(r) PROVE ~Missed(t)'
    BY <1>5 DEF Told, Answer, TypeOK
  <1>6. ASSUME NEW r \in Report, PushError(r) PROVE ~Missed(t)'
    BY <1>6 DEF PushError, Answer, TypeOK
  <1>7. CASE Ping \/ Rearm \/ Restart \/ PingError \/ PopError
    BY <1>7 DEF Ping, Rearm, Restart, PingError, PopError
  <1>8. CASE Pop
    <2>1. /\ queue # <<>> /\ queue' = Tail(queue) /\ cur' = Head(queue) /\ bot = "blpop"
          /\ bot' = "check" /\ UNCHANGED <<site, valid, web, visited>>
      BY <1>8 DEF Pop, Rest
    <2>2. Queued(t) => Queued(t)' \/ t = cur'
      <3>1. /\ Len(queue) \in Nat /\ Len(queue') = Len(queue) - 1 /\ Head(queue) = queue[1]
            /\ \A i \in 1 .. Len(queue') : queue'[i] = queue[i + 1]
        BY <2>1, HeadTailProperties DEF TypeOK
      <3> SUFFICES ASSUME NEW i \in 1 .. Len(queue), queue[i] = t
                   PROVE  Queued(t)' \/ t = cur'
        OBVIOUS
      <3>2. CASE i = 1
        BY <2>1, <3>1, <3>2
      <3>3. CASE i # 1
        <4>1. i - 1 \in 1 .. Len(queue') /\ (i - 1) + 1 = i
          BY <3>1, <3>3
        <4>2. queue'[i - 1] = t
          BY <3>1, <4>1
        <4> QED BY <4>1, <4>2
      <3> QED BY <3>2, <3>3
    <2> HIDE DEF Queued
    <2> QED BY <2>1, <2>2
  <1>9. CASE Check
    BY <1>9 DEF Check, Refused, TypeOK
  <1>10. CASE Step
    <2>1. /\ bot \in Stage /\ bot' = After[bot] /\ cur \in Report
          /\ cur' = IF bot = "quit" THEN NoReport ELSE cur
          /\ visited' = [visited EXCEPT ![cur] = @ + IF bot = "browse" THEN 1 ELSE 0]
          /\ UNCHANGED <<site, valid, web, queue, forgot>>
      BY <1>10 DEF Step, Visit, TypeOK
    <2>2. t # cur => visited'[t] = visited[t]
      BY <2>1 DEF TypeOK
    <2>3. bot # "browse" => visited'[t] = visited[t]
      BY <2>1 DEF TypeOK
    <2>4. bot = "browse" => visited'[cur] = 1
      BY <2>1 DEF TypeOK, OnePlace
    <2>5. bot \in {"launch", "open"} => bot' \in {"open", "browse"} /\ cur' = cur
      BY <2>1, AfterFacts
    <2> HIDE DEF Queued
    <2>6. Queued(t)' <=> Queued(t)
      BY <2>1 DEF Queued
    <2>7. bot # "check" /\ web'[t] = web[t] /\ site' = site /\ valid' = valid
      BY <2>1 DEF Stage
    <2>8. CASE web[t] \notin {"pushed", "told"} \/ Queued(t) \/ (site.checks /\ ~valid[t])
      BY <2>6, <2>7, <2>8
    <2>9. CASE t = cur /\ bot \in {"launch", "open", "browse"}
      BY <2>4, <2>5, <2>9
    <2>10. CASE visited[t] = 1
      BY <2>2, <2>3, <2>4, <2>10
    <2> QED BY <2>7, <2>8, <2>9, <2>10
  <1>11. CASE Throw
    <2>1. bot \in Stage /\ bot \notin {"launch", "open", "browse"}
      BY <1>11 DEF Throw
    <2>2. UNCHANGED <<site, valid, web, queue, visited>>
      BY <1>11, <2>1 DEF Throw
    <2>3. bot \notin {"check", "launch", "open", "browse"}
      BY <2>1 DEF Stage
    <2> QED BY <2>2, <2>3
  <1>12. CASE PopLost \/ RedisCrash
    BY <1>12 DEF PopLost, RedisCrash
  <1>13. CASE Save
    BY <1>13 DEF Save
  <1>14. CASE UNCHANGED vars
    BY <1>14 DEF vars
  <1> QED BY <1>1, <1>2, <1>3, <1>4, <1>5, <1>6, <1>7, <1>8, <1>9, <1>10, <1>11, <1>12, <1>13,
             <1>14
          DEF Next, Service, Form, Bot, Trouble

\* The steps a report may go missing in: redis loses a change of its list, the process of the
\* bot ends, or a step of the visit before or at the page throws.
MayMiss == forgot' \/ Die \/ (Throw /\ bot \in {"launch", "open", "browse"})

(* Nobody but these faults makes a report go missing: not the form, not the order in which *)
(* users and the bot come, and no error of a client's call.                                *)
MissedByFault == \A r \in Report : Missed(r)' /\ ~Missed(r) => MayMiss

(* A report the user is told of stays in hand (listed, under way or visited, or refused by *)
(* the bot's own check) until one of these faults: every step that loses one is one.       *)
THEOREM MissedOnlyByFault == Spec => [][MissedByFault]_vars
  <1>1. ReportInv /\ [Next]_vars => [MissedByFault]_vars
    BY MissedStep DEF ReportInv, MissedByFault, MayMiss
  <1> QED BY <1>1, ReportInvariant, PTL DEF Spec

-----------------------------------------------------------------------------
(* Only what the bot does not survive stops it *)

\* An exception outside of the service's try block, or a BLPOP that fails, is among the
\* faults of the run and has happened.
StopsAtFault ==
    bot = "stuck" => hurt /\ Kinds \cap ({"pop"} \cup (Stage \ site.caught)) # {}

(* The safety half of TakenUp, in all four services: handle has been left without arming   *)
(* itself again only by a BLPOP that failed or an exception no try block of that service   *)
(* encloses; a refused id, a caught exception and an error of PING all lead back to it.    *)
THEOREM StopsOnlyAtFault == Spec => []StopsAtFault
  <1>1. Init => StopsAtFault
    BY DEF Init, StopsAtFault
  <1>2. ASSUME ReportInv, StopsAtFault, [Next]_vars PROVE StopsAtFault'
    <2>0. site \in Sites /\ site.caught \subseteq Stage /\ site.resume # "stuck"
      BY <1>2, SiteFacts DEF ReportInv, TypeOK, Stage
    <2>1. CASE UNCHANGED <<site, bot>> /\ (hurt => hurt')
      BY <1>2, <2>1 DEF StopsAtFault
    <2>2. CASE Service \/ Form \/ Save \/ RedisCrash \/ PopLost \/ UNCHANGED vars
      <3>1. UNCHANGED <<site, bot>>
        BY <2>2 DEF Service, SetField, NotScores, Form, Submit, Push, Told, PushError, Answer,
           Save, RedisCrash, PopLost, vars
      <3>2. UNCHANGED trouble \/ \E kind \in Kinds : Fault(kind)
        BY <2>2, Zenon DEF Service, SetField, Form, Submit, Push, Told, PushError, Fault,
           Save, RedisCrash, PopLost, vars
      <3>3. hurt => hurt'
        BY <3>2 DEF trouble, Fault
      <3> QED BY <2>1, <3>1, <3>3
    <2>3. CASE \E r \in Scores : FieldError(r)
      <3>1. UNCHANGED <<site, bot>> /\ (hurt => hurt')
        BY <2>3 DEF FieldError, NotScores, Fault
      <3> QED BY <2>1, <3>1
    <2>4. CASE Ping \/ Pop \/ Rearm \/ Check \/ Restart \/ PingError \/ Die
      BY <2>4 DEF Ping, Pop, Rearm, Check, Refused, Restart, PingError, Die, StopsAtFault
    <2>5. CASE Step
      <3>1. bot \in Stage /\ bot' = After[bot]
        BY <2>5 DEF Step
      <3>2. bot' # "stuck"
        BY <3>1, AfterFacts DEF Stage
      <3> QED BY <3>2 DEF StopsAtFault
    <2>6. CASE PopError
      <3>1. "pop" \in Kinds /\ hurt' = (hurt \/ "pop" \notin Survived)
        BY <2>6 DEF PopError, Fault
      <3>2. "pop" \notin Survived
        BY <2>0 DEF Survived, Stage
      <3> QED BY <3>1, <3>2 DEF StopsAtFault
    <2>7. CASE Throw
      <3>1. /\ bot \in Stage /\ bot \in Kinds /\ site' = site
            /\ hurt' = (hurt \/ bot \notin Survived)
        BY <2>7 DEF Throw, Fault
      <3>2. CASE bot \in site.caught
        BY <2>0, <2>7, <3>2 DEF Throw, StopsAtFault
      <3>3. CASE bot \notin site.caught
        <4>1. bot \notin Survived
          BY <3>1, <3>3 DEF Survived, Stage
        <4> QED BY <3>1, <3>3, <4>1 DEF StopsAtFault
      <3> QED BY <3>2, <3>3
    <2> QED
      BY <1>2, <2>2, <2>3, <2>4, <2>5, <2>6, <2>7 DEF Next, Bot, Trouble
  <1> QED BY <1>1, <1>2, ReportInvariant, PTL DEF Spec
=============================================================================
