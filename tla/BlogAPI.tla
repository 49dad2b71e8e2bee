------------------------------ MODULE BlogAPI ------------------------------
(***************************************************************************)
(* web/plain-blog, api/app.rb: posts in memory and their likes, served by  *)
(* the threads of puma. Under the interpreter's lock threads switch only   *)
(* at branches, so that one statement with hash lookups is one step; a     *)
(* like has branches between its checks and the addition.                  *)
(***************************************************************************)
EXTENDS Integers, FiniteSets

CONSTANTS
    Id,         \* the ids of posts
    Sample,     \* the ones the server starts with
    Start,      \* the likes a sample may start with, 1000 to 10000
    Thread,     \* puma's threads
    MaxLikes,   \* MAX_LIKES, 5000, scaled down
    Thousand,   \* what the admin's button adds, 1000, scaled down
    Amount,     \* the likes a request may ask for: with the key, any integer
    Most,       \* no request asks for more
    Enough      \* the likes that set the flag, 10^12, scaled down

ASSUME SampleAssumption ==
    /\ Sample \subseteq Id /\ Id # {}
    /\ IsFiniteSet(Thread) /\ Thread # {}
ASSUME LikesAssumption ==
    /\ Start \subseteq Nat /\ MaxLikes \in Nat /\ Most \in Nat /\ Enough \in Nat
    /\ Amount \subseteq Int /\ {1, Thousand} \subseteq Amount
    /\ \A n \in Amount : n <= Most

VARIABLES
    posts,      \* [Id -> post]
    thread      \* [Thread -> the like it works on]

apiVars == <<posts, thread>>

\* there: the hash has the key; string, number: title and content, and like, have the types
\* the page expects; mayLike, flag: permission.
Post == [there : BOOLEAN, string : BOOLEAN, like : Int, number : BOOLEAN,
         mayLike : BOOLEAN, flag : BOOLEAN]

NoPost == [there |-> FALSE, string |-> TRUE, like |-> 0, number |-> TRUE,
           mayLike |-> FALSE, flag |-> FALSE]

\* at: the statement a like is before; key: its request has the admin's key.
Job == [at : {"idle", "limit", "add"}, id : Id, likes : Int, key : BOOLEAN]

Idle == [at |-> "idle", id |-> CHOOSE id \in Id : TRUE, likes |-> 0, key |-> FALSE]

\* A sample may start above the limit, and nobody may like it.
ApiInit ==
    /\ \E most \in Start :
         posts = [id \in Id |->
                    IF id \in Sample
                    THEN [NoPost EXCEPT !.there = TRUE, !.like = most]
                    ELSE NoPost]
    /\ thread = [t \in Thread |-> Idle]

-----------------------------------------------------------------------------

\* A parameter may also be an array, and it is a string that replaces a number.
Create(id) ==
    /\ ~posts[id].there
    /\ \E string \in BOOLEAN :
         posts' = [posts EXCEPT ![id] = [NoPost EXCEPT !.there = TRUE, !.mayLike = TRUE,
                                                       !.string = string]]
    /\ UNCHANGED thread

Merged_Anew(post, string, keeps) ==
    [NoPost EXCEPT !.there = TRUE, !.string = string, !.number = keeps,
                   !.mayLike = post.mayLike, !.flag = post.flag]

Merged(post, string, keeps) == [post EXCEPT !.string = string, !.number = @ /\ keeps]

\* The request's parameters replace fields of the post, like among them; only with the
\* key may permission be one of them.
Put(id) ==
    /\ posts[id].there
    /\ \E string, keeps \in BOOLEAN :
         \/ posts' = [posts EXCEPT ![id] = Merged(@, string, keeps)]
         \/ \E may, flag \in BOOLEAN :
              posts' = [posts EXCEPT ![id] = [Merged(@, string, keeps) EXCEPT
                                                !.mayLike = may, !.flag = flag]]
    /\ UNCHANGED thread

Update_Sample(id) == Put(id)

Update(id) == id \notin Sample /\ Put(id)

Exceeds_Already(now, likes) == now > MaxLikes

Exceeds(now, likes) == now + likes > MaxLikes

Move(t, to) ==
    thread' = [thread EXCEPT ![t] = IF to = "idle" THEN Idle ELSE [@ EXCEPT !.at = to]]

\* The checks of the id, the permission and the key; an error is the answer at once.
Like(t, id, likes, key) ==
    /\ thread[t] = Idle
    /\ posts[id].there /\ posts[id].mayLike
    /\ key \/ likes = 1
    /\ thread' = [thread EXCEPT ![t] = [at |-> "limit", id |-> id, likes |-> likes, key |-> key]]
    /\ UNCHANGED posts

\* With a string for like the addition raises a TypeError, which is answered with 500.
CheckLimit(t) ==
    /\ thread[t].at = "limit"
    /\ LET post == posts[thread[t].id] IN
       Move(t, IF ~post.number \/ Exceeds(post.like, thread[t].likes) THEN "idle" ELSE "add")
    /\ UNCHANGED posts

Add(t) ==
    /\ thread[t].at = "add"
    /\ LET id  == thread[t].id
           now == posts[id].like + thread[t].likes
       IN IF posts[id].number
          THEN posts' = [posts EXCEPT ![id].like = now,
                                      ![id].flag = @ \/ now >= Enough]
          ELSE UNCHANGED posts
    /\ Move(t, "idle")

Serve == \E t \in Thread : CheckLimit(t) \/ Add(t)

-----------------------------------------------------------------------------

(* Types; and a like is only under way for a post that is there and no sample.          *)
ApiTypeOK ==
    /\ posts \in [Id -> Post]
    /\ thread \in [Thread -> Job]
    /\ \A t \in Thread : thread[t].at # "idle" =>
          posts[thread[t].id].there /\ thread[t].id \notin Sample

\* What a post may reach: the threads but the last to pass the check may all have passed
\* it before any of them adds.
Limit == MaxLikes + (Cardinality(Thread) - 1) * Most

(* app.rb:124 checks MAX_LIKES and app.rb:127 adds, with other threads in between: a post *)
(* can pass MAX_LIKES, whatever amounts key holders ask for, but by no more than one      *)
(* request for each of the other threads, however many likes come and go.                 *)
LimitKept == \A id \in Id \ Sample : posts[id].like <= Limit

\* The threads whose likes have passed the check and will raise the number.
Adding(id) == {t \in Thread : thread[t].at = "add" /\ thread[t].id = id /\ thread[t].likes > 0}

\* One of them has its own likes to add, the others at most Most.
RoomFor(id) ==
    \/ Adding(id) = {} /\ posts[id].like <= Limit
    \/ \E t \in Adding(id) :
          posts[id].like + thread[t].likes + (Cardinality(Adding(id)) - 1) * Most <= Limit

Room == \A id \in Id \ Sample : RoomFor(id)

Permitted ==
    /\ \A t \in Thread : thread[t].at # "idle" =>
          thread[t].likes \in Amount /\ (thread[t].key \/ thread[t].likes = 1)
    /\ \A id \in Id : /\ ~posts[id].there => posts[id].like = 0
                      /\ id \in Sample => posts[id].there /\ ~posts[id].mayLike

(* The inductive invariant of the posts: what is there and under way fits together.     *)
ApiInv == ApiTypeOK /\ Room /\ Permitted

\* Thread t adds the likes it has checked, once: more than one, or fewer, only with the key.
Adds(t, id) ==
    /\ thread[t].at = "add" /\ thread[t].id = id /\ thread'[t] = Idle
    /\ posts'[id].like = posts[id].like + thread[t].likes
    /\ thread[t].key \/ thread[t].likes = 1

(* No overlap of requests takes a like away or gives one: no post vanishes, no sample    *)
(* changes, and the number of a post changes only by a like that was checked before, by  *)
(* what it asked for; an update leaves it or puts a string in its place for good.        *)
LikesAddUp ==
    [][\A id \in Id : posts[id].there =>
          /\ posts'[id].there
          /\ id \in Sample => posts'[id] = posts[id]
          /\ posts'[id].number => posts[id].number
          /\ posts'[id].like # posts[id].like => \E t \in Thread : Adds(t, id)]_posts
=============================================================================
