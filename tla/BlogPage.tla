----------------------------- MODULE BlogPage ------------------------------
(***************************************************************************)
(* web/plain-blog, frontend/www/index.php: a page that fetches the posts   *)
(* its address lists one after the other and shows them together. Every    *)
(* change of the address starts renderPage again, next to the ones that    *)
(* still wait for an answer. The API it asks is BlogAPI. The page keeps    *)
(* the posts of a call in an object, whose prototype all calls share.      *)
(***************************************************************************)
EXTENDS BlogAPI, Sequences

CONSTANTS
    Proto,      \* the list entry "__proto__", no post's id but a name every object has
    Hash,       \* the addresses of a run: [ids : Seq(Id \cup {Proto}), admin : BOOLEAN]
    Run,        \* the calls of renderPage (bound)
    MaxActs     \* how often the users of page and API do something (bound)

Nothing == "nothing"

Name == Id \cup {Proto}

ASSUME PageAssumption == Nothing \notin Name \cup Run /\ Proto \notin Id /\ MaxActs \in Nat
ASSUME HashAssumption == Hash \subseteq [ids : Seq(Name), admin : BOOLEAN]

VARIABLES
    isAdmin,    \* shared by all calls: the admin flag of the latest address
    proto,      \* shared by all calls: the fields written into Object.prototype
    run,        \* [Run -> local variables of renderPage]
    acts,       \* what users have done so far
    content     \* what the element "content" shows: the call it is by, its posts, and how
                \* many likes their buttons add

pageVars == <<isAdmin, proto, run, content>>
vars == <<apiVars, pageVars, acts>>

\* The fields of a post a page shows: title and content together, and like.
Field == {"text", "like"}

\* What a request leads to: a post, an error of the API, or an exception. fits: whether the
\* field has the type the page expects.
NoReply == [kind |-> "pending", of |-> Nothing, fits |-> [f \in Field |-> FALSE]]
Failure == [NoReply EXCEPT !.kind = "failure"]
Missing == [NoReply EXCEPT !.kind = "missing"]
Reply(id) == [kind |-> "post", of |-> id,
              fits |-> [f \in Field |-> IF f = "text" THEN posts[id].string
                                                      ELSE posts[id].number]]

\* An object with fields of posts: for each field, whose it is. An entry of the object posts
\* is such an object, when it is made.
Object == [Field -> Id \cup {Nothing}]
Empty == [f \in Field |-> Nothing]
Entries == [Id -> [in : BOOLEAN, has : Object]]
NoEntries == [id \in Id |-> [in |-> FALSE, has |-> Empty]]

\* data is the latest post a request was answered with. For the properties: missed, the
\* names whose answer was that there is no such post, and got, the ids whose field came
\* with the type the page expects.
Blank == [at |-> "none", ids |-> <<>>, k |-> 1, reply |-> NoReply, data |-> NoReply,
          posts |-> NoEntries, missed |-> {}, got |-> [f \in Field |-> {}]]

Loading == [by |-> Nothing, posts |-> NoEntries, adds |-> 0]

Init ==
    /\ ApiInit
    /\ isAdmin = FALSE /\ proto = Empty
    /\ run = [r \in Run |-> Blank]
    /\ content = Loading
    /\ acts = 0

Act == acts < MaxActs /\ acts' = acts + 1

-----------------------------------------------------------------------------

\* A field the entry has not is its prototype's.
Read(entry, under) ==
    [entry EXCEPT !.has = [f \in Field |-> IF @[f] = Nothing THEN under[f] ELSE @[f]]]

Show(r, entries, admin) ==
    content' = [by    |-> r,
                posts |-> [id \in Id |-> Read(entries[id], proto')],
                adds  |-> IF admin THEN Thousand ELSE 1]

\* The page is loaded or its address changes; without ids it is the index, shown at once.
RenderPage(r) ==
    /\ run[r].at = "none" /\ Act
    /\ UNCHANGED <<apiVars, proto>>
    /\ \E h \in Hash :
         /\ isAdmin' = h.admin
         /\ run' = [run EXCEPT ![r].ids = h.ids,
                               ![r].at = IF h.ids = <<>> THEN "done" ELSE "asking"]
         /\ IF h.ids = <<>> THEN Show(r, NoEntries, h.admin)
                            ELSE UNCHANGED content

Id_Now(r) == run[r].ids[run[r].k]

\* The API handles the GET, or its answer does not arrive.
Get(r) ==
    /\ run[r].at = "asking" /\ run[r].reply = NoReply
    /\ LET id == Id_Now(r) IN
       run' = [run EXCEPT ![r].reply = IF id \in Id /\ posts[id].there THEN Reply(id) ELSE Missing]
    /\ UNCHANGED <<apiVars, isAdmin, proto, content, acts>>

NoAnswer(r) ==
    /\ run[r].at = "asking" /\ run[r].reply = NoReply
    /\ run' = [run EXCEPT ![r].reply = Failure]
    /\ UNCHANGED <<apiVars, isAdmin, proto, content, acts>>

Data_First(data, reply) == IF data = NoReply /\ reply.kind = "post" THEN reply ELSE data

Data(data, reply) == IF reply.kind = "post" THEN reply ELSE data

\* The fields of data with the right type replace the object's; without data, the loop over
\* its fields throws when the entry is made already. (Fields nobody reads are left out.)
Filled(object, data) == [f \in Field |-> IF data.fits[f] THEN data.of ELSE object[f]]

Noted(ids, id, is) == IF is THEN ids \cup {id} ELSE ids

\* One round of the loop, after its await; an exception is caught and forgotten. No entry
\* is made for a name that posts has from its prototype, whose fields are written instead.
Round(ran, data) ==
    LET id == ran.ids[ran.k] IN
    IF ran.reply = Failure
    THEN ran
    ELSE [ran EXCEPT
            !.data   = data,
            !.posts  = [i \in Id |-> IF i = id
                                     THEN [in |-> TRUE, has |-> Filled(@[i].has, data)]
                                     ELSE @[i]],
            !.missed = Noted(@, id, ran.reply = Missing),
            !.got    = [f \in Field |-> Noted(@[f], id, ran.reply.fits[f])]]

NextRound_Stops(ran, reply) ==
    IF reply = Failure THEN [ran EXCEPT !.at = "thrown"]
    ELSE IF ran.k = Len(ran.ids) THEN [ran EXCEPT !.at = "done"]
    ELSE [ran EXCEPT !.k = @ + 1]

NextRound(ran, reply) ==
    IF ran.k = Len(ran.ids) THEN [ran EXCEPT !.at = "done"] ELSE [ran EXCEPT !.k = @ + 1]

\* The page takes the answer, and after the last one shows all of them: no other task
\* runs in between, because the awaits of renderPost wait for nothing.
Receive(r) ==
    /\ run[r].at = "asking" /\ run[r].reply # NoReply
    /\ LET data == Data(run[r].data, run[r].reply)
           ran  == [NextRound(Round(run[r], data), run[r].reply) EXCEPT !.reply = NoReply]
       IN
       /\ run' = [run EXCEPT ![r] = ran]
       /\ proto' = IF Id_Now(r) = Proto /\ run[r].reply # Failure
                   THEN Filled(proto, data) ELSE proto
       /\ IF ran.at = "done" THEN Show(r, ran.posts, isAdmin) ELSE UNCHANGED content
    /\ UNCHANGED <<apiVars, isAdmin, acts>>

\* A click on a like button. (It is disabled until the answer comes, but whoever clicks
\* may also open the page again.)
Click(id, t, key) ==
    /\ content.posts[id].in /\ Act
    /\ Like(t, id, content.adds, key)
    /\ UNCHANGED pageVars

-----------------------------------------------------------------------------

\* Any client may use the API, too.
Others ==
    /\ Act
    /\ \E id \in Id :
         \/ Create(id) \/ Update(id)
         \/ \E t \in Thread, key \in BOOLEAN, n \in Amount : Like(t, id, n, key)
    /\ UNCHANGED pageVars

Puma == Serve /\ UNCHANGED <<pageVars, acts>>

Page(r) == RenderPage(r) \/ Get(r) \/ NoAnswer(r) \/ Receive(r)

Next ==
    \/ Others \/ Puma
    \/ \E r \in Run : Page(r)
    \/ \E id \in Id, t \in Thread, key \in BOOLEAN : Click(id, t, key)

Spec == Init /\ [][Next]_vars

\* A request is answered or fails, and the page goes on; nobody has to do anything.
FairSpec == Spec /\ \A r \in Run : WF_vars(Get(r) \/ NoAnswer(r)) /\ WF_vars(Receive(r))

-----------------------------------------------------------------------------

\* The object of name has been filled with a field of data, a post from earlier in the list.
Copied(ran, f, name, from) ==
    /\ from \in ran.got[f] /\ name \in ran.missed
    /\ \E i, j \in 1 .. Len(ran.ids) : i < j /\ ran.ids[i] = from /\ ran.ids[j] = name

\* Whose field the own object of name may have: where the API has had it, its own.
Own(ran, f, name, from) ==
    IF name \in ran.got[f] THEN from = name
    ELSE from = Nothing \/ Copied(ran, f, name, from)

\* Some call, this one or another, has filled the prototype with it.
Inherited(f, from) == \E r \in Run : Copied(run[r], f, Proto, from)

(* However calls of renderPage and answers interleave, a page shows posts of its own     *)
(* list only, and under an id the fields of this post, if the API had them with their    *)
(* types; and fields of another post only if it stood in a list before this id, when     *)
(* there was no such post, or in any call's list before the name of the prototype.       *)
ShowsOwnPost ==
    content.by # Nothing =>
        LET ran == run[content.by] IN
        \A id \in Id : content.posts[id].in =>
            /\ \E i \in 1 .. Len(ran.ids) : ran.ids[i] = id
            /\ \A f \in Field :
                 LET from == content.posts[id].has[f] IN
                 Own(ran, f, id, from) \/ (id \notin ran.got[f] /\ Inherited(f, from))

\* The inductive invariant behind it, for one call of renderPage.
Answers == [kind : {"pending", "post", "failure", "missing"}, of : Id \cup {Nothing},
            fits : [Field -> BOOLEAN]]

Call == [at : {"none", "asking", "done"}, ids : Seq(Name), k : Nat, reply : Answers,
         data : Answers, posts : Entries, missed : SUBSET Name, got : [Field -> SUBSET Id]]

\* The answer under way is about the name asked for, and data is an earlier post.
Asked(ran) ==
    /\ ran.k \in 1 .. Len(ran.ids)
    /\ ran.reply.kind = "post" => ran.reply.of = ran.ids[ran.k]
    /\ ran.reply = Missing => \A f \in Field : ran.ids[ran.k] \notin ran.got[f]
    /\ ran.data.of # Nothing => \E i \in 1 .. ran.k - 1 : ran.ids[i] = ran.data.of

Given(answer) ==
    \/ answer.kind = "post" /\ answer.of \in Id
    \/ answer \in {NoReply, Failure, Missing}

Listed(ran, id) ==
    /\ ran.posts[id].in => \E i \in 1 .. Len(ran.ids) : ran.ids[i] = id
    /\ \A f \in Field : Own(ran, f, id, ran.posts[id].has[f])

GoodCall(ran) ==
    /\ ran \in Call
    /\ ran.at = "none" => ran = Blank
    /\ ran.at = "asking" => Asked(ran)
    /\ Given(ran.reply) /\ Given(ran.data) /\ ran.data.kind \in {"post", "pending"}
    /\ \A f \in Field : ran.data.fits[f] => ran.data.of \in ran.got[f]
    /\ \A id \in Id : Listed(ran, id)

\* What the prototype has, it has from a call.
Under == proto \in Object /\ \A f \in Field : proto[f] # Nothing => Inherited(f, proto[f])

\* What a call has got, or is about to get, is there, and will be.
Served ==
    \A r \in Run : /\ run[r].reply.kind = "post" => posts[run[r].reply.of].there
                   /\ \A f \in Field : \A id \in run[r].got[f] : posts[id].there

Shown ==
    /\ content.by \in Run \cup {Nothing}
    /\ content.by = Nothing => content = Loading
    /\ content.by # Nothing =>
         /\ run[content.by].at = "done"
         /\ \A id \in Id :
              LET entry == run[content.by].posts[id] IN
              /\ content.posts[id].in = entry.in
              /\ \A f \in Field : \/ content.posts[id].has[f] = entry.has[f]
                                  \/ /\ entry.has[f] = Nothing
                                     /\ Inherited(f, content.posts[id].has[f])
         /\ content.adds \in {1, Thousand}

(* All of it: what every call, click, like and update keeps.                            *)
BlogInv ==
    /\ ApiInv /\ isAdmin \in BOOLEAN
    /\ DOMAIN run = Run /\ \A r \in Run : GoodCall(run[r])
    /\ Under /\ Served /\ Shown

(* A page is shown in the end, although any of its requests may fail.                   *)
RendersEnd == \A r \in Run : run[r].at = "asking" ~> (run[r].at = "done")
=============================================================================
