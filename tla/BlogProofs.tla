---------------------------- MODULE BlogProofs -----------------------------
(***************************************************************************)
(* What plain-blog keeps for every number of posts, threads, calls of      *)
(* renderPage and addresses, and whatever likes requests ask for. The API  *)
(* and the page are proved apart: no step of one changes what the other's  *)
(* invariant is about, but that a post the page has got stays there.       *)
(***************************************************************************)
EXTENDS BlogPage, FiniteSetTheorems, TLAPS

USE DEF apiVars, pageVars

-----------------------------------------------------------------------------
(* Arithmetic of the likes.                                                              *)

(* The limit is an integer, not below MaxLikes, as there is at least one thread.         *)
LEMMA LimitType ==
    /\ Limit \in Int /\ MaxLikes \in Nat /\ Most \in Nat
    /\ Cardinality(Thread) \in Nat \ {0} /\ MaxLikes <= Limit
<1>1. Cardinality(Thread) \in Nat \ {0}
  BY FS_CardinalityType, FS_EmptySet, SampleAssumption
<1>2. MaxLikes \in Nat /\ Most \in Nat
  BY LikesAssumption
<1>3. (Cardinality(Thread) - 1) * Most \in Nat
  BY <1>1, <1>2
<1> QED
  BY <1>1, <1>2, <1>3 DEF Limit

(* The requests of a set of threads, each of Most, one more of them and one less.        *)
LEMMA Times ==
    ASSUME NEW n \in Nat
    PROVE  /\ n * Most \in Nat
           /\ n # 0 => n * Most = (n - 1) * Most + Most
           /\ n <= Cardinality(Thread) => MaxLikes + (n - 1) * Most <= Limit
<1>1. MaxLikes \in Nat /\ Most \in Nat /\ Cardinality(Thread) \in Nat
  BY LimitType
<1>2. n <= Cardinality(Thread) => (n - 1) * Most <= (Cardinality(Thread) - 1) * Most
  BY <1>1
<1> QED
  BY <1>1, <1>2 DEF Limit

(* Any threads are finitely many.                                                        *)
LEMMA Counts ==
    ASSUME NEW S \in SUBSET Thread
    PROVE  /\ IsFiniteSet(S) /\ Cardinality(S) \in Nat /\ Cardinality(S) <= Cardinality(Thread)
           /\ S # {} => Cardinality(S) # 0
<1>1. IsFiniteSet(S) /\ Cardinality(S) <= Cardinality(Thread)
  BY FS_Subset, SampleAssumption
<1> QED
  BY <1>1, FS_CardinalityType, FS_EmptySet

-----------------------------------------------------------------------------
(* Room for the likes that have passed the check.                                        *)

(* A post is within the limit, whoever is about to add.                                  *)
LEMMA RoomLimits ==
    ASSUME NEW id, RoomFor(id), posts[id].like \in Int,
           \A t \in Thread : thread[t].likes \in Int
    PROVE  posts[id].like <= Limit
<1>1. CASE Adding(id) = {}
  BY <1>1 DEF RoomFor
<1>2. CASE Adding(id) # {}
  <2>1. PICK t \in Adding(id) :
          posts[id].like + thread[t].likes + (Cardinality(Adding(id)) - 1) * Most <= Limit
    BY <1>2 DEF RoomFor
  <2>2. thread[t].likes \in Int /\ thread[t].likes > 0
    BY DEF Adding
  <2>3. (Cardinality(Adding(id)) - 1) * Most \in Nat
    <3>1. Cardinality(Adding(id)) - 1 \in Nat
      BY <1>2, Counts DEF Adding
    <3> QED
      BY <3>1, Times
  <2> QED
    BY <2>1, <2>2, <2>3, LimitType
<1> QED
  BY <1>1, <1>2

(* Nobody more is about to add, and the number does not grow.                             *)
LEMMA RoomSame ==
    ASSUME NEW id, RoomFor(id), Adding(id)' = Adding(id),
           posts[id].like \in Int, posts'[id].like \in Int, posts'[id].like <= posts[id].like,
           \A t \in Adding(id) : thread'[t].likes = thread[t].likes /\ thread[t].likes \in Int
    PROVE  RoomFor(id)'
<1>1. CASE Adding(id) = {}
  BY <1>1, LimitType DEF RoomFor, Limit
<1>2. CASE Adding(id) # {}
  <2>1. PICK t \in Adding(id) :
          posts[id].like + thread[t].likes + (Cardinality(Adding(id)) - 1) * Most <= Limit
    BY <1>2 DEF RoomFor
  <2>2. (Cardinality(Adding(id)) - 1) * Most \in Int
    BY Counts, LimitType DEF Adding
  <2>3. posts'[id].like + thread'[t].likes + (Cardinality(Adding(id)) - 1) * Most <= Limit
    BY <2>1, <2>2, LimitType
  <2> QED
    BY <2>3 DEF RoomFor, Limit
<1> QED
  BY <1>1, <1>2

(* A thread passes the check: it has room of its own, and each other has Most.            *)
LEMMA RoomMore ==
    ASSUME NEW id, NEW v \in Adding(id)', posts'[id].like \in Int, thread'[v].likes \in Int,
           posts'[id].like + thread'[v].likes <= MaxLikes
    PROVE  RoomFor(id)'
<1> DEFINE n == Cardinality(Adding(id)')
<1>1. n \in Nat /\ n <= Cardinality(Thread)
  BY Counts DEF Adding
<1>2. MaxLikes + (n - 1) * Most <= Limit /\ (n - 1) * Most \in Int
  BY <1>1, Times, LimitType
<1>3. posts'[id].like + thread'[v].likes + (n - 1) * Most <= Limit
  BY <1>2, LimitType
<1> QED
  BY <1>3 DEF RoomFor, Limit

(* A thread has added what it was about to, or dropped it: what another one is about to   *)
(* add is at most the Most that was kept for it.                                          *)
LEMMA RoomLess ==
    ASSUME NEW id, RoomFor(id), NEW v \in Adding(id), Adding(id)' = Adding(id) \ {v},
           posts[id].like \in Int, posts'[id].like \in Int,
           \/ posts'[id].like = posts[id].like + thread[v].likes
           \/ posts'[id].like = posts[id].like,
           \A t \in Adding(id) : thread[t].likes \in 1 .. Most,
           \A t \in Adding(id)' : thread'[t].likes = thread[t].likes
    PROVE  RoomFor(id)'
<1> DEFINE n == Cardinality(Adding(id))
<1>1. /\ n \in Nat \ {0} /\ Cardinality(Adding(id)') = n - 1
      /\ (n - 1) * Most \in Nat
      /\ n - 1 # 0 => (n - 1) * Most = (n - 2) * Most + Most /\ (n - 2) * Most \in Nat
  <2>1. n \in Nat \ {0} /\ IsFiniteSet(Adding(id))
    BY Counts DEF Adding
  <2>2. Cardinality(Adding(id)') = n - 1
    BY <2>1, FS_RemoveElement
  <2>3. n - 1 \in Nat /\ (n - 1) - 1 = n - 2 /\ (n - 1 # 0 => n - 2 \in Nat)
    BY <2>1
  <2> QED
    BY <2>1, <2>2, <2>3, Times
<1>2. PICK t \in Adding(id) :
        posts[id].like + thread[t].likes + (n - 1) * Most <= Limit
  BY DEF RoomFor
<1>3. thread[t].likes \in 1 .. Most /\ thread[v].likes \in 1 .. Most /\ Limit \in Int
  BY LimitType
<1> HIDE DEF n
<1>4. CASE Adding(id)' = {}
  <2>1. v = t
    BY <1>4
  <2>2. posts'[id].like <= Limit
    BY <1>1, <1>2, <1>3, <2>1
  <2> QED
    BY <1>4, <2>2 DEF RoomFor, Limit
<1>5. CASE t # v
  <2>1. t \in Adding(id)' /\ thread'[t].likes = thread[t].likes
    BY <1>5
  <2>2. n - 1 # 0
    <3>1. Cardinality(Adding(id)') # 0
      BY <2>1, Counts DEF Adding
    <3> QED
      BY <1>1, <3>1
  <2>3. posts'[id].like + thread'[t].likes + (n - 2) * Most <= Limit
    BY <1>1, <1>2, <1>3, <2>1, <2>2, LimitType
  <2>4. n - 2 = Cardinality(Adding(id)') - 1
    BY <1>1
  <2> QED
    BY <2>1, <2>3, <2>4 DEF RoomFor, Limit
<1>6. CASE t = v /\ Adding(id)' # {}
  <2>1. PICK u \in Adding(id)' : TRUE
    BY <1>6
  <2>2. thread'[u].likes \in 1 .. Most
    OBVIOUS
  <2>3. n - 1 # 0
    <3>1. Cardinality(Adding(id)') # 0
      BY <2>1, Counts DEF Adding
    <3> QED
      BY <1>1, <3>1
  <2>4. posts'[id].like + (n - 1) * Most <= Limit
    BY <1>1, <1>2, <1>3, <1>6
  <2>5. posts'[id].like + thread'[u].likes + (n - 2) * Most <= Limit
    BY <1>1, <1>3, <2>2, <2>3, <2>4, LimitType
  <2>6. n - 2 = Cardinality(Adding(id)') - 1
    BY <1>1
  <2> QED
    BY <2>1, <2>5, <2>6 DEF RoomFor, Limit
<1> QED
  BY <1>4, <1>5, <1>6

-----------------------------------------------------------------------------
(* The API.                                                                              *)

(* Idle is a thread without a like.                                                      *)
LEMMA IdleType == Idle \in Job /\ Idle.at = "idle"
BY SampleAssumption DEF Idle, Job

(* A post before anybody has created it.                                                 *)
LEMMA NoPostType == NoPost \in Post /\ NoPost.like = 0
<1>1. 0 \in Int
  OBVIOUS
<1> QED
  BY <1>1 DEF NoPost, Post

(* The samples do not count: nothing is under way when the server starts.                *)
LEMMA ApiInitInv == ApiInit => ApiInv
<1> SUFFICES ASSUME ApiInit PROVE ApiInv
  OBVIOUS
<1>0. thread = [t \in Thread |-> Idle]
  BY DEF ApiInit
<1>1. ApiTypeOK
  <2> HIDE DEF NoPost
  <2>1. PICK most \in Start :
          posts = [id \in Id |-> IF id \in Sample
                                THEN [NoPost EXCEPT !.there = TRUE, !.like = most]
                                ELSE NoPost]
    BY Zenon DEF ApiInit
  <2>1a. most \in Int
    BY LikesAssumption
  <2>2. NoPost \in Post
    BY NoPostType
  <2>2a. [NoPost EXCEPT !.there = TRUE, !.like = most] \in Post
    BY <2>1a, <2>2 DEF Post
  <2>3. posts \in [Id -> Post]
    BY <2>1, <2>2, <2>2a
  <2> HIDE DEF Post
  <2> QED
    BY <1>0, <2>3, IdleType DEF ApiTypeOK
<1>2. Permitted
  BY <1>0, IdleType DEF ApiInit, Permitted, NoPost
<1>3. ASSUME NEW id \in Id \ Sample
      PROVE  RoomFor(id)
  <2>1. posts[id].like = 0
    BY <1>3 DEF ApiInit, NoPost
  <2>2. Adding(id) = {}
    BY <1>0, IdleType DEF Adding
  <2> QED
    BY <2>1, <2>2, LimitType DEF RoomFor
<1> QED
  BY <1>1, <1>2, <1>3 DEF ApiInv, Room

(* What the steps below use of the invariant.                                            *)
LEMMA ApiFacts ==
    ASSUME ApiInv
    PROVE  /\ posts \in [Id -> Post] /\ thread \in [Thread -> Job]
           /\ \A id \in Id : posts[id].like \in Int
           /\ \A t \in Thread : thread[t].likes \in Int
           /\ \A id : \A t \in Adding(id) : thread[t].likes \in 1 .. Most
           /\ \A id \in Id \ Sample : RoomFor(id)
<1>1. posts \in [Id -> Post] /\ thread \in [Thread -> Job]
  BY DEF ApiInv, ApiTypeOK
<1>2. (\A id \in Id : posts[id].like \in Int) /\ \A t \in Thread : thread[t].likes \in Int
  BY <1>1 DEF Post, Job
<1>3. ASSUME NEW id, NEW t \in Adding(id) PROVE thread[t].likes \in 1 .. Most
  <2>1. t \in Thread /\ thread[t].likes > 0 /\ thread[t].likes \in Amount
    BY DEF Adding, ApiInv, Permitted
  <2> QED
    BY <1>2, <2>1, LikesAssumption
<1> QED
  BY <1>1, <1>2, <1>3 DEF ApiInv, Room

(* A step that leaves likes under way and numbers alone keeps the room.                  *)
LEMMA RoomStays ==
    ASSUME ApiInv, \A id \in Id : Adding(id)' = Adding(id) /\ posts'[id].like = posts[id].like,
           \A id \in Id : \A t \in Adding(id) : thread'[t].likes = thread[t].likes
    PROVE  Room'
<1>1. ASSUME NEW id \in Id \ Sample PROVE RoomFor(id)'
  <2>1. /\ Adding(id)' = Adding(id) /\ posts'[id].like = posts[id].like
        /\ posts[id].like \in Int /\ RoomFor(id)
    BY ApiFacts
  <2>2. \A t \in Adding(id) : thread'[t].likes = thread[t].likes /\ thread[t].likes \in Int
    BY ApiFacts DEF Adding
  <2>3. posts'[id].like \in Int /\ posts'[id].like <= posts[id].like
    BY <2>1
  <2> QED
    BY <2>1, <2>2, <2>3, RoomSame
<1> QED
  BY <1>1 DEF Room

(* A request that replaces a post without touching its likes keeps what is under way.    *)
LEMMA PostReplaced ==
    ASSUME ApiInv, NEW id \in Id, NEW post \in Post,
           posts' = [posts EXCEPT ![id] = post], UNCHANGED thread,
           post.there, post.like = posts[id].like,
           id \in Sample => ~post.mayLike
    PROVE  ApiInv'
<1>1. ApiTypeOK'
  BY DEF ApiInv, ApiTypeOK
<1>2. Permitted'
  BY DEF ApiInv, ApiTypeOK, Permitted
<1>3. \A i \in Id : posts'[i].like = posts[i].like
  BY DEF ApiInv, ApiTypeOK
<1>4. \A i \in Id : Adding(i)' = Adding(i)
  BY DEF Adding
<1>5. Room'
  BY <1>3, <1>4, RoomStays
<1> QED
  BY <1>1, <1>2, <1>5 DEF ApiInv

(* A post is created with no likes.                                                      *)
LEMMA CreateKeeps ==
    ASSUME ApiInv, NEW id \in Id, Create(id)
    PROVE  ApiInv'
<1>1. PICK string \in BOOLEAN :
        posts' = [posts EXCEPT ![id] = [NoPost EXCEPT !.there = TRUE, !.mayLike = TRUE,
                                                      !.string = string]]
  BY DEF Create
<1>2. id \notin Sample /\ posts[id].like = 0
  <2>1. ~posts[id].there
    BY DEF Create
  <2>2. Permitted
    BY DEF ApiInv
  <2> QED
    BY <2>1, <2>2, Zenon DEF Permitted
<1> DEFINE post == [NoPost EXCEPT !.there = TRUE, !.mayLike = TRUE, !.string = string]
<1>3. post \in Post /\ post.there /\ post.like = 0
  BY NoPostType DEF Post
<1>4. posts' = [posts EXCEPT ![id] = post] /\ UNCHANGED thread
  BY <1>1 DEF Create
<1> HIDE DEF post
<1> QED
  BY <1>2, <1>3, <1>4, PostReplaced

(* An update leaves the number of likes alone, or puts a string in its place.            *)
LEMMA UpdateKeeps ==
    ASSUME ApiInv, NEW id \in Id, Update(id)
    PROVE  ApiInv'
<1>1. PICK string \in BOOLEAN, keeps \in BOOLEAN :
        \/ posts' = [posts EXCEPT ![id] = Merged(posts[id], string, keeps)]
        \/ \E may, flag \in BOOLEAN :
             posts' = [posts EXCEPT ![id] = [Merged(posts[id], string, keeps) EXCEPT
                                               !.mayLike = may, !.flag = flag]]
  BY DEF Update, Put
<1>2. id \notin Sample /\ posts[id].there /\ posts[id] \in Post /\ UNCHANGED thread
  BY DEF Update, Put, ApiInv, ApiTypeOK
<1>3. \E post \in Post : /\ posts' = [posts EXCEPT ![id] = post]
                         /\ post.there /\ post.like = posts[id].like
  <2>1. CASE posts' = [posts EXCEPT ![id] = Merged(posts[id], string, keeps)]
    <3> DEFINE post == Merged(posts[id], string, keeps)
    <3>1. post \in Post /\ post.there /\ post.like = posts[id].like
      BY <1>2 DEF Merged, Post
    <3> QED
      BY <2>1, <3>1
  <2>2. CASE \E may, flag \in BOOLEAN :
               posts' = [posts EXCEPT ![id] = [Merged(posts[id], string, keeps) EXCEPT
                                                 !.mayLike = may, !.flag = flag]]
    <3>1. PICK may \in BOOLEAN, flag \in BOOLEAN :
            posts' = [posts EXCEPT ![id] = [Merged(posts[id], string, keeps) EXCEPT
                                              !.mayLike = may, !.flag = flag]]
      BY <2>2
    <3> DEFINE post == [Merged(posts[id], string, keeps) EXCEPT !.mayLike = may, !.flag = flag]
    <3>2. post \in Post /\ post.there /\ post.like = posts[id].like
      BY <1>2 DEF Merged, Post
    <3> QED
      BY <3>1, <3>2
  <2> QED
    BY <1>1, <2>1, <2>2
<1> QED
  BY <1>2, <1>3, PostReplaced

(* A like under way has not passed the check and is not counted yet.                     *)
LEMMA LikeKeeps ==
    ASSUME ApiInv, NEW id \in Id, NEW t \in Thread, NEW likes \in Amount, NEW key \in BOOLEAN,
           Like(t, id, likes, key)
    PROVE  ApiInv'
<1> DEFINE new == [at |-> "limit", id |-> id, likes |-> likes, key |-> key]
<1>1. thread' = [thread EXCEPT ![t] = new] /\ UNCHANGED posts
  BY DEF Like
<1>2. posts[id].there /\ id \notin Sample /\ thread[t].at = "idle" /\ (key \/ likes = 1)
  BY IdleType DEF Like, ApiInv, Permitted
<1>3. likes \in Int
  BY LikesAssumption
<1>4. /\ new \in Job
      /\ new.at = "limit" /\ new.id = id /\ new.likes = likes /\ new.key = key
  BY <1>3 DEF Job
<1> HIDE DEF new
<1>5. ApiTypeOK'
  BY <1>1, <1>2, <1>4 DEF ApiInv, ApiTypeOK
<1>6. Permitted'
  BY <1>1, <1>2, <1>4 DEF ApiInv, ApiTypeOK, Permitted
<1>7. \A i \in Id : Adding(i)' = Adding(i) /\ \A u \in Adding(i) : thread'[u] = thread[u]
  BY <1>1, <1>2, <1>4 DEF Adding, ApiInv, ApiTypeOK
<1>8. Room'
  BY <1>1, <1>7, RoomStays
<1> QED
  BY <1>5, <1>6, <1>8 DEF ApiInv

(* A like passes the check only if it would be within the limit alone.                   *)
LEMMA CheckKeeps ==
    ASSUME ApiInv, NEW t \in Thread, CheckLimit(t)
    PROVE  ApiInv'
<1> DEFINE post == posts[thread[t].id]
           fails == ~post.number \/ Exceeds(post.like, thread[t].likes)
           new == IF fails THEN Idle ELSE [thread[t] EXCEPT !.at = "add"]
<1>1. UNCHANGED posts /\ thread[t].at = "limit"
  BY DEF CheckLimit
<1>2. thread' = [thread EXCEPT ![t] = new]
  BY DEF CheckLimit, Move
<1>3. thread[t] \in Job /\ thread \in [Thread -> Job]
  BY ApiFacts
<1>4. /\ new \in Job
      /\ new.at # "idle" => /\ new.id = thread[t].id /\ new.likes = thread[t].likes
                            /\ new.key = thread[t].key
      /\ new.at = "add" <=> ~fails
      /\ new.at \in {"idle", "add"}
  BY <1>3, IdleType DEF Job
<1> HIDE DEF new
<1>5. ApiTypeOK'
  BY <1>1, <1>2, <1>4 DEF ApiInv, ApiTypeOK
<1>6. Permitted'
  BY <1>1, <1>2, <1>4 DEF ApiInv, ApiTypeOK, Permitted
<1>7. ASSUME NEW id \in Id \ Sample
      PROVE  RoomFor(id)'
  <2>1. CASE t \in Adding(id)'
    <3>1. ~fails /\ thread[t].id = id /\ thread'[t].likes = thread[t].likes
      BY <1>2, <1>3, <1>4, <2>1 DEF Adding
    <3>2. posts[id].like \in Int /\ thread[t].likes \in Int
      BY ApiFacts
    <3>3. posts'[id].like + thread'[t].likes <= MaxLikes
      BY <1>1, <3>1, <3>2, LimitType DEF Exceeds
    <3> QED
      BY <1>1, <2>1, <3>1, <3>2, <3>3, RoomMore
  <2>2. CASE t \notin Adding(id)'
    <3>1. \A u \in Thread \ {t} : thread'[u] = thread[u]
      BY <1>2, <1>3
    <3>2. t \notin Adding(id)
      BY <1>1 DEF Adding
    <3>3. Adding(id)' = Adding(id) /\ \A u \in Adding(id) : thread'[u].likes = thread[u].likes
      BY <2>2, <3>1, <3>2 DEF Adding
    <3>4. /\ RoomFor(id) /\ posts[id].like \in Int
          /\ \A u \in Adding(id) : thread[u].likes \in Int
      BY ApiFacts DEF Adding
    <3>5. posts'[id].like \in Int /\ posts'[id].like <= posts[id].like
      BY <1>1, <3>4
    <3> QED
      BY <3>3, <3>4, <3>5, RoomSame
  <2> QED
    BY <2>1, <2>2
<1> QED
  BY <1>5, <1>6, <1>7 DEF ApiInv, Room

\* What an addition does, for the invariant and for LikesAddUp.
Added(t) ==
    LET own == thread[t].id IN
    /\ thread[t].at = "add" /\ thread' = [thread EXCEPT ![t] = Idle]
    /\ own \in Id \ Sample /\ posts[own].there
    /\ posts' \in [Id -> Post]
    /\ \A i \in Id : i # own => posts'[i] = posts[i]
    /\ \/ posts'[own].like = posts[own].like + thread[t].likes
       \/ posts'[own].like = posts[own].like
    /\ posts'[own].there = posts[own].there
    /\ posts'[own].mayLike = posts[own].mayLike
    /\ posts'[own].number = posts[own].number

(* That is what it does.                                                                 *)
LEMMA AddDoes ==
    ASSUME ApiInv, NEW t \in Thread, Add(t)
    PROVE  Added(t)
<1> DEFINE own == thread[t].id
           now == posts[own].like + thread[t].likes
<1>1. thread[t].at = "add" /\ thread' = [thread EXCEPT ![t] = Idle]
  BY DEF Add, Move
<1>2. own \in Id \ Sample /\ posts[own].there
  BY <1>1 DEF ApiInv, ApiTypeOK, Job
<1>3. posts \in [Id -> Post] /\ posts[own] \in Post /\ now \in Int
  BY <1>2, ApiFacts
<1>4. posts' = IF posts[own].number
               THEN [posts EXCEPT ![own].like = now,
                                  ![own].flag = posts[own].flag \/ now >= Enough]
               ELSE posts
  BY DEF Add
<1> HIDE DEF now, own
<1>5. CASE posts[own].number
  <2> DEFINE new == [posts[own] EXCEPT !.like = now,
                                       !.flag = posts[own].flag \/ now >= Enough]
  <2>1. posts' = [posts EXCEPT ![own] = new]
    BY <1>2, <1>3, <1>4, <1>5
  <2>2. /\ new \in Post /\ new.like = now /\ new.there = posts[own].there
        /\ new.mayLike = posts[own].mayLike /\ new.number = posts[own].number
    BY <1>3 DEF Post
  <2> HIDE DEF new
  <2> QED
    BY <1>1, <1>2, <1>3, <2>1, <2>2 DEF Added, own, now
<1>6. CASE ~posts[own].number
  BY <1>1, <1>2, <1>3, <1>4, <1>6 DEF Added, own
<1> QED
  BY <1>5, <1>6

(* The addition moves a like from what is under way to the post, or drops it.            *)
LEMMA AddKeeps ==
    ASSUME ApiInv, NEW t \in Thread, Add(t)
    PROVE  ApiInv'
<1> DEFINE own == thread[t].id
<1>1. Added(t)
  BY AddDoes
<1>2. /\ thread[t].at = "add" /\ thread' = [thread EXCEPT ![t] = Idle]
      /\ own \in Id \ Sample /\ posts' \in [Id -> Post]
      /\ \A i \in Id : /\ posts'[i].there = posts[i].there
                       /\ posts'[i].mayLike = posts[i].mayLike
                       /\ i # own => posts'[i].like = posts[i].like
  BY <1>1 DEF Added
<1>3. ApiTypeOK'
  <2>1. thread' \in [Thread -> Job] /\ \A u \in Thread : thread[u].id \in Id
    BY <1>2, ApiFacts, IdleType DEF Job
  <2>2. ASSUME NEW u \in Thread, thread'[u].at # "idle"
        PROVE  posts'[thread'[u].id].there /\ thread'[u].id \notin Sample
    <3>1. u # t /\ thread'[u] = thread[u]
      BY <1>2, <2>2, ApiFacts, IdleType
    <3> QED
      BY <1>2, <2>1, <2>2, <3>1 DEF ApiInv, ApiTypeOK
  <2> QED
    BY <1>2, <2>1, <2>2 DEF ApiTypeOK
<1>4. Permitted'
  BY <1>1, <1>2, IdleType DEF ApiInv, Permitted, Added
<1>5. ASSUME NEW id \in Id \ Sample
      PROVE  RoomFor(id)'
  <2>1. \A u \in Thread \ {t} : thread'[u] = thread[u]
    BY <1>2, ApiFacts
  <2>2. thread'[t].at = "idle"
    BY <1>2, ApiFacts, IdleType
  <2>3. /\ RoomFor(id) /\ posts[id].like \in Int /\ thread[t].likes \in Int
        /\ \A u \in Adding(id) : thread[u].likes \in 1 .. Most /\ thread[u].likes \in Int
    BY ApiFacts
  <2>4. posts'[id].like \in Int
    BY <1>2 DEF Post
  <2>5. Adding(id)' = Adding(id) \ {t}
    BY <2>1, <2>2 DEF Adding
  <2>6. \A u \in Adding(id) \ {t} : thread'[u].likes = thread[u].likes
    BY <2>1 DEF Adding
  <2>7. CASE t \in Adding(id)
    <3>1. \/ posts'[id].like = posts[id].like + thread[t].likes
          \/ posts'[id].like = posts[id].like
      BY <1>1, <2>7 DEF Added, Adding
    <3> QED
      BY <2>3, <2>4, <2>5, <2>6, <2>7, <3>1, RoomLess
  <2>8. CASE t \notin Adding(id)
    <3>1. Adding(id)' = Adding(id)
      BY <2>5, <2>8
    <3>2. posts'[id].like <= posts[id].like
      <4>1. CASE own = id
        <5>1. ~(thread[t].likes > 0)
          BY <1>2, <2>8, <4>1 DEF Adding
        <5> QED
          BY <1>1, <2>3, <2>4, <4>1, <5>1 DEF Added
      <4>2. CASE own # id
        BY <1>2, <2>3, <4>2
      <4> QED
        BY <4>1, <4>2
    <3> QED
      BY <2>3, <2>4, <2>6, <2>8, <3>1, <3>2, RoomSame
  <2> QED
    BY <2>7, <2>8
<1> QED
  BY <1>3, <1>4, <1>5 DEF ApiInv, Room

-----------------------------------------------------------------------------
(* The page, one call of renderPage at a time.                                           *)

PageInv ==
    /\ isAdmin \in BOOLEAN
    /\ DOMAIN run = Run /\ \A r \in Run : GoodCall(run[r])
    /\ Under /\ Shown

(* The answers a call knows.                                                             *)
LEMMA AnswerTypes ==
    /\ NoReply \in Answers /\ Failure \in Answers /\ Missing \in Answers
    /\ NoReply.kind = "pending" /\ Failure.kind = "failure" /\ Missing.kind = "missing"
    /\ NoReply.of = Nothing /\ Failure.of = Nothing /\ Missing.of = Nothing
    /\ \A f \in Field : ~NoReply.fits[f] /\ ~Failure.fits[f] /\ ~Missing.fits[f]
BY DEF NoReply, Failure, Missing, Answers

(* An answer that is no post has nothing.                                                *)
LEMMA GivenFacts ==
    ASSUME NEW answer, Given(answer)
    PROVE  /\ answer.kind \in {"post", "pending", "failure", "missing"}
           /\ answer.kind = "post" => answer.of \in Id
           /\ answer.kind = "pending" => answer = NoReply
           /\ answer.kind = "failure" => answer = Failure
           /\ answer.kind = "missing" => answer = Missing
           /\ answer.kind # "post" => /\ answer.of = Nothing
                                      /\ \A f \in Field : ~answer.fits[f]
BY AnswerTypes DEF Given

(* A call before its start has an empty list and shows nothing.                          *)
LEMMA BlankFacts ==
    /\ Blank \in Call /\ Blank.at = "none" /\ Blank.k = 1
    /\ Blank.reply = NoReply /\ Blank.data = NoReply
    /\ Blank.posts = NoEntries /\ \A f \in Field : Blank.got[f] = {}
<1>1. NoEntries \in Entries
  BY DEF NoEntries, Entries, Empty, Object
<1>2. [f \in Field |-> {}] \in [Field -> SUBSET Id]
  OBVIOUS
<1>3. <<>> \in Seq(Name)
  OBVIOUS
<1> QED
  BY <1>1, <1>2, <1>3, AnswerTypes DEF Blank, Call

(* Entries nobody has filled need no justification.                                      *)
LEMMA NothingListed ==
    ASSUME NEW ran, ran.posts = NoEntries, \A f \in Field : ran.got[f] = {}, NEW id \in Id
    PROVE  Listed(ran, id)
BY DEF Listed, Own, NoEntries, Empty

(* A call that has not started is a good one.                                            *)
LEMMA BlankGood == GoodCall(Blank)
BY BlankFacts, AnswerTypes, NothingListed DEF GoodCall, Given

(* So is one that starts with any address.                                               *)
LEMMA StartGood ==
    ASSUME NEW h \in Hash
    PROVE  GoodCall([Blank EXCEPT !.ids = h.ids,
                                  !.at = IF h.ids = <<>> THEN "done" ELSE "asking"])
<1> DEFINE ran == [Blank EXCEPT !.ids = h.ids,
                                !.at = IF h.ids = <<>> THEN "done" ELSE "asking"]
<1>1. h.ids \in Seq(Name)
  BY HashAssumption
<1>2. /\ ran \in Call /\ ran.ids = h.ids /\ ran.k = 1
      /\ ran.reply = NoReply /\ ran.data = NoReply
      /\ ran.at \in {"done", "asking"}
      /\ ran.at = "asking" => h.ids # <<>>
      /\ ran.posts = NoEntries /\ \A f \in Field : ran.got[f] = {}
  BY <1>1, BlankFacts DEF Call
<1> HIDE DEF ran
<1>3. ran.at = "asking" => Asked(ran)
  <2>1. h.ids # <<>> => 1 \in 1 .. Len(h.ids)
    BY <1>1
  <2> QED
    BY <1>2, <2>1, AnswerTypes DEF Asked
<1>4. \A id \in Id : Listed(ran, id)
  BY <1>2, NothingListed
<1>5. GoodCall(ran)
  BY <1>2, <1>3, <1>4, AnswerTypes DEF GoodCall, Given
<1> QED
  BY <1>5 DEF ran

(* An answer arrives: it is about the post the call asked for.                           *)
LEMMA AnswerGood ==
    ASSUME NEW ran, GoodCall(ran), ran.at = "asking",
           NEW answer \in Answers, Given(answer),
           answer.kind = "post" => answer.of = ran.ids[ran.k],
           answer = Missing => \A f \in Field : ran.ids[ran.k] \notin ran.got[f]
    PROVE  GoodCall([ran EXCEPT !.reply = answer])
<1> DEFINE new == [ran EXCEPT !.reply = answer]
<1>1. /\ new \in Call /\ new.at = ran.at /\ new.ids = ran.ids /\ new.k = ran.k
      /\ new.reply = answer /\ new.data = ran.data
      /\ new.posts = ran.posts /\ new.missed = ran.missed /\ new.got = ran.got
  BY DEF GoodCall, Call
<1> HIDE DEF new
<1>2. Asked(new)
  BY <1>1 DEF GoodCall, Asked
<1>3. \A id \in Id : Listed(new, id)
  BY <1>1 DEF GoodCall, Listed, Own, Copied
<1>4. GoodCall(new)
  BY <1>1, <1>2, <1>3 DEF GoodCall
<1> QED
  BY <1>4 DEF new

\* What a round leads to when its request was answered.
Answered(ran, new) ==
    LET own  == ran.ids[ran.k]
        data == Data(ran.data, ran.reply)
    IN /\ new.ids = ran.ids /\ new.data = data
       /\ new.posts = [i \in Id |-> IF i = own
                                    THEN [in |-> TRUE, has |-> Filled(ran.posts[i].has, data)]
                                    ELSE ran.posts[i]]
       /\ new.missed = Noted(ran.missed, own, ran.reply = Missing)
       /\ new.got = [f \in Field |-> Noted(ran.got[f], own, ran.reply.fits[f])]

\* Any call after its round, whether its request was answered or failed.
After(ran, new) ==
    /\ new \in Call /\ new.reply = NoReply
    /\ \/ ran.reply # Failure /\ Answered(ran, new)
       \/ /\ ran.reply = Failure
          /\ new.ids = ran.ids /\ new.data = ran.data /\ new.posts = ran.posts
          /\ new.missed = ran.missed /\ new.got = ran.got
    /\ \/ new.at = "done"
       \/ new.at = "asking" /\ new.k = ran.k + 1 /\ ran.k # Len(ran.ids)

(* What a call waiting for an answer is known to be.                                     *)
LEMMA AskingFacts ==
    ASSUME NEW ran, GoodCall(ran), ran.at = "asking"
    PROVE  /\ ran \in Call /\ Asked(ran) /\ Given(ran.reply) /\ Given(ran.data)
           /\ ran.data.kind \in {"post", "pending"}
           /\ ran.ids \in Seq(Name) /\ ran.k \in 1 .. Len(ran.ids)
           /\ ran.ids[ran.k] \in Name
           /\ ran.posts \in Entries /\ ran.got \in [Field -> SUBSET Id]
           /\ ran.missed \in SUBSET Name
           /\ \A f \in Field : ran.data.fits[f] => ran.data.of \in ran.got[f]
BY DEF GoodCall, Call, Asked

(* The latest post a call has got is one.                                                *)
LEMMA DataFacts ==
    ASSUME NEW ran, GoodCall(ran), ran.at = "asking"
    PROVE  LET data == Data(ran.data, ran.reply) IN
           data \in Answers /\ Given(data) /\ data.kind \in {"post", "pending"}
BY AskingFacts DEF Data, Call

(* A round ends the loop or moves on to the next name.                                   *)
LEMMA RoundDoes ==
    ASSUME NEW ran, GoodCall(ran), ran.at = "asking", ran.reply # NoReply
    PROVE  After(ran, [NextRound(Round(ran, Data(ran.data, ran.reply)), ran.reply)
                         EXCEPT !.reply = NoReply])
<1> DEFINE own  == ran.ids[ran.k]
           data == Data(ran.data, ran.reply)
           mid  == Round(ran, data)
           new  == [NextRound(mid, ran.reply) EXCEPT !.reply = NoReply]
<1>1. /\ ran \in Call /\ ran.posts \in Entries /\ ran.got \in [Field -> SUBSET Id]
      /\ ran.missed \in SUBSET Name /\ own \in Name /\ Given(ran.reply)
      /\ ran.reply.kind = "post" => ran.reply.of = own
      /\ ran.k \in 1 .. Len(ran.ids)
  BY AskingFacts DEF Asked
<1>2. data \in Answers
  BY DataFacts
<1>3. /\ mid \in Call /\ mid.at = "asking" /\ mid.ids = ran.ids /\ mid.k = ran.k
      /\ ran.reply # Failure => Answered(ran, mid)
      /\ ran.reply = Failure => mid = ran
  <2>1. CASE ran.reply = Failure
    BY <1>1, <2>1 DEF Round
  <2>2. CASE ran.reply # Failure
    <3> DEFINE entries == [i \in Id |-> IF i = own
                                        THEN [in |-> TRUE, has |-> Filled(ran.posts[i].has, data)]
                                        ELSE ran.posts[i]]
               missed == Noted(ran.missed, own, ran.reply = Missing)
               got    == [f \in Field |-> Noted(ran.got[f], own, ran.reply.fits[f])]
    <3>1. entries \in Entries
      <4>1. \A i \in Id : Filled(ran.posts[i].has, data) \in Object
        BY <1>1, <1>2 DEF Filled, Entries, Object, Answers
      <4>2. \A i \in Id : ran.posts[i] \in [in : BOOLEAN, has : Object]
        BY <1>1 DEF Entries
      <4> HIDE DEF data
      <4> QED
        BY <4>1, <4>2 DEF Entries
    <3>2. missed \in SUBSET Name
      BY <1>1 DEF Noted
    <3>3. got \in [Field -> SUBSET Id]
      <4>1. ASSUME NEW f \in Field PROVE Noted(ran.got[f], own, ran.reply.fits[f]) \in SUBSET Id
        <5>1. ran.reply.fits[f] => own \in Id
          BY <1>1, GivenFacts
        <5> QED
          BY <1>1, <5>1 DEF Noted
      <4> QED
        BY <4>1
    <3>4. mid = [ran EXCEPT !.data = data, !.posts = entries, !.missed = missed, !.got = got]
      BY <2>2 DEF Round
    <3> HIDE DEF mid, entries, missed, got, data
    <3>5. /\ mid \in Call /\ mid.at = "asking" /\ mid.ids = ran.ids /\ mid.k = ran.k
          /\ mid.data = data /\ mid.posts = entries /\ mid.missed = missed /\ mid.got = got
      BY <1>1, <1>2, <3>1, <3>2, <3>3, <3>4 DEF Call
    <3> QED
      BY <2>2, <3>5 DEF Answered, data, entries, missed, got
  <2> QED
    BY <2>1, <2>2
<1> HIDE DEF mid
<1>4. /\ new \in Call /\ new.reply = NoReply /\ new.ids = mid.ids /\ new.data = mid.data
      /\ new.posts = mid.posts /\ new.missed = mid.missed /\ new.got = mid.got
      /\ \/ new.at = "done"
         \/ new.at = "asking" /\ new.k = ran.k + 1 /\ ran.k # Len(ran.ids)
  <2> DEFINE next == NextRound(mid, ran.reply)
  <2>1. mid.k + 1 \in Nat
    BY <1>3 DEF Call
  <2>2. /\ next \in Call /\ next.ids = mid.ids /\ next.data = mid.data
        /\ next.posts = mid.posts /\ next.missed = mid.missed /\ next.got = mid.got
        /\ \/ next.at = "done"
           \/ next.at = "asking" /\ next.k = ran.k + 1 /\ ran.k # Len(ran.ids)
    <3>1. CASE mid.k = Len(mid.ids)
      BY <1>3, <3>1 DEF NextRound, Call
    <3>2. CASE mid.k # Len(mid.ids)
      BY <1>3, <2>1, <3>2 DEF NextRound, Call
    <3> QED
      BY <3>1, <3>2
  <2> HIDE DEF next
  <2>3. new = [next EXCEPT !.reply = NoReply]
    BY DEF next
  <2> QED
    BY <2>2, <2>3, AnswerTypes DEF Call
<1> HIDE DEF new
<1>5. After(ran, new)
  BY <1>3, <1>4 DEF After, Answered
<1> QED
  BY <1>5 DEF new, mid

(* What a call has copied it has copied for good.                                        *)
LEMMA CopiedKept ==
    ASSUME NEW ran, NEW new, After(ran, new),
           NEW f \in Field, NEW name, NEW from, Copied(ran, f, name, from)
    PROVE  Copied(new, f, name, from)
<1>1. /\ new.ids = ran.ids /\ ran.missed \subseteq new.missed
      /\ ran.got[f] \subseteq new.got[f]
  BY DEF After, Answered, Noted
<1> QED
  BY <1>1 DEF Copied

(* Without a post of its name, a round copies the fields of an earlier one.              *)
LEMMA MissingCopies ==
    ASSUME NEW ran, GoodCall(ran), ran.at = "asking", ran.reply = Missing,
           NEW new, After(ran, new), NEW f \in Field, ran.data.fits[f]
    PROVE  Copied(new, f, ran.ids[ran.k], ran.data.of)
<1>1. new.ids = ran.ids /\ ran.ids[ran.k] \in new.missed /\ ran.got[f] \subseteq new.got[f]
  <2>1. ran.reply # Failure
    BY AnswerTypes
  <2> QED
    BY <2>1 DEF After, Answered, Noted
<1>2. ran.data.of \in ran.got[f] /\ ran.data.of # Nothing
  <2>1. ran.data.of \in ran.got[f] /\ ran.data.of \in Id
    BY AskingFacts, GivenFacts
  <2> QED
    BY <2>1, PageAssumption DEF Name
<1>3. PICK i \in 1 .. ran.k - 1 : ran.ids[i] = ran.data.of
  BY <1>2, AskingFacts DEF Asked
<1>4. i \in 1 .. Len(ran.ids) /\ ran.k \in 1 .. Len(ran.ids) /\ i < ran.k
  BY AskingFacts
<1> QED
  BY <1>1, <1>2, <1>3, <1>4 DEF Copied

(* The data of a round is of a post the call has got with the types it uses.             *)
LEMMA DataGot ==
    ASSUME NEW ran, GoodCall(ran), ran.at = "asking", ran.reply # NoReply,
           NEW new, After(ran, new)
    PROVE  /\ Given(new.data) /\ new.data.kind \in {"post", "pending"}
           /\ \A f \in Field : new.data.fits[f] => new.data.of \in new.got[f]
           /\ new.data.of # Nothing => \E i \in 1 .. ran.k : ran.ids[i] = new.data.of
<1>1. /\ Asked(ran) /\ Given(ran.reply) /\ Given(ran.data)
      /\ ran.data.kind \in {"post", "pending"} /\ ran.k \in 1 .. Len(ran.ids)
      /\ \A f \in Field : ran.data.fits[f] => ran.data.of \in ran.got[f]
  BY AskingFacts
<1>2. \A f \in Field : ran.got[f] \subseteq new.got[f]
  BY DEF After, Answered, Noted
<1>3. ran.k \in 1 .. ran.k /\ \A i \in 1 .. ran.k - 1 : i \in 1 .. ran.k
  BY <1>1
<1>4. CASE ran.reply.kind = "post"
  <2>1. ran.reply # Failure
    BY <1>4, AnswerTypes
  <2>2. /\ new.data = ran.reply /\ ran.reply.of = ran.ids[ran.k]
        /\ \A f \in Field : ran.reply.fits[f] => ran.ids[ran.k] \in new.got[f]
    BY <1>1, <1>4, <2>1 DEF After, Answered, Data, Noted, Asked
  <2> QED
    BY <1>1, <1>3, <1>4, <2>2
<1>5. CASE ran.reply.kind # "post"
  <2>1. new.data = ran.data
    BY <1>5 DEF After, Answered, Data
  <2> QED
    BY <1>1, <1>2, <1>3, <2>1 DEF Asked
<1> QED
  BY <1>4, <1>5

(* What a round makes of the entry of its name: fields of that post, or of an earlier    *)
(* one of the list when the API had none of that name.                                   *)
LEMMA FilledOwn ==
    ASSUME NEW ran, GoodCall(ran), ran.at = "asking", ran.reply \notin {NoReply, Failure},
           NEW new, After(ran, new), NEW id \in Id
    PROVE  Listed(new, id)
<1> DEFINE own  == ran.ids[ran.k]
           data == Data(ran.data, ran.reply)
<1>1. /\ ran.k \in 1 .. Len(ran.ids) /\ Listed(ran, id) /\ Asked(ran) /\ Given(ran.reply)
      /\ Given(ran.data)
  BY AskingFacts DEF GoodCall
<1>2. Answered(ran, new) /\ new.ids = ran.ids
  BY DEF After, Answered
<1>3. ASSUME NEW f \in Field, NEW from, Copied(ran, f, id, from)
      PROVE  Copied(new, f, id, from)
  BY <1>3, CopiedKept
<1>4. CASE id # own
  <2>1. new.posts[id] = ran.posts[id] /\ \A f \in Field : id \in new.got[f] <=> id \in ran.got[f]
    BY <1>2, <1>4 DEF Answered, Noted
  <2> QED
    BY <1>1, <1>2, <1>3, <2>1 DEF Listed, Own
<1>5. CASE id = own
  <2> DEFINE old == ran.posts[id].has
  <2>1. new.posts[id].has = Filled(old, data)
    BY <1>2, <1>5 DEF Answered
  <2>2. ran.k \in 1 .. Len(new.ids) /\ new.ids[ran.k] = id
    BY <1>1, <1>2, <1>5
  <2>3. ASSUME NEW f \in Field
        PROVE  Own(new, f, id, new.posts[id].has[f])
    <3>1. Own(ran, f, id, old[f])
      BY <1>1 DEF Listed
    <3>2. new.posts[id].has[f] = IF data.fits[f] THEN data.of ELSE old[f]
      BY <2>1 DEF Filled
    <3>3. new.got[f] = Noted(ran.got[f], own, ran.reply.fits[f])
      BY <1>2 DEF Answered
    <3>4. CASE ran.reply.kind = "post"
      <4>1. data = ran.reply /\ data.of = id
        BY <1>1, <1>5, <3>4 DEF Data, Asked
      <4>2. CASE data.fits[f]
        <5>1. id \in new.got[f] /\ new.posts[id].has[f] = id
          BY <1>5, <3>2, <3>3, <4>1, <4>2 DEF Noted
        <5> QED
          BY <5>1 DEF Own
      <4>3. CASE ~data.fits[f]
        <5>1. new.got[f] = ran.got[f] /\ new.posts[id].has[f] = old[f]
          BY <3>2, <3>3, <4>1, <4>3 DEF Noted
        <5> QED
          BY <1>3, <3>1, <5>1 DEF Own
      <4> QED
        BY <4>2, <4>3
    <3>5. CASE ran.reply.kind # "post"
      <4>1. ran.reply = Missing /\ data = ran.data /\ ~ran.reply.fits[f]
        BY <1>1, <3>5, GivenFacts DEF Data
      <4>2. new.got[f] = ran.got[f] /\ id \notin new.got[f]
        BY <1>1, <1>5, <3>3, <4>1 DEF Noted, Asked
      <4>3. CASE data.fits[f]
        <5>1. Copied(new, f, id, data.of)
          BY <1>5, <4>1, <4>3, MissingCopies
        <5> QED
          BY <3>2, <4>2, <4>3, <5>1 DEF Own
      <4>4. CASE ~data.fits[f]
        BY <1>3, <3>1, <3>2, <4>2, <4>4 DEF Own
      <4> QED
        BY <4>3, <4>4
    <3> QED
      BY <3>4, <3>5
  <2> QED
    BY <2>2, <2>3 DEF Listed
<1> QED
  BY <1>4, <1>5

(* A round, whatever its answer was, leaves a good call.                                 *)
LEMMA ReceiveGood ==
    ASSUME NEW ran, GoodCall(ran), ran.at = "asking", ran.reply # NoReply,
           NEW new, After(ran, new)
    PROVE  GoodCall(new)
<1>1. ran.ids \in Seq(Name) /\ ran.k \in 1 .. Len(ran.ids)
  BY AskingFacts
<1>2. /\ new \in Call /\ new.reply = NoReply /\ new.at \in {"done", "asking"}
      /\ new.ids = ran.ids
  BY DEF After, Answered
<1>3. /\ Given(new.data) /\ new.data.kind \in {"post", "pending"}
      /\ \A f \in Field : new.data.fits[f] => new.data.of \in new.got[f]
      /\ new.data.of # Nothing => \E i \in 1 .. ran.k : ran.ids[i] = new.data.of
  BY DataGot
<1>4. new.at = "asking" => Asked(new)
  <2> SUFFICES ASSUME new.at = "asking" PROVE Asked(new)
    OBVIOUS
  <2>1. new.k = ran.k + 1 /\ ran.k # Len(ran.ids)
    BY DEF After
  <2>2. Len(ran.ids) \in Nat
    BY <1>1
  <2>3. new.k \in 1 .. Len(new.ids) /\ new.k - 1 = ran.k
    BY <1>1, <1>2, <2>1, <2>2
  <2>4. NoReply # Missing /\ NoReply.kind # "post"
    BY AnswerTypes
  <2> QED
    BY <1>2, <1>3, <2>3, <2>4 DEF Asked
<1>5. ASSUME NEW id \in Id PROVE Listed(new, id)
  <2>1. CASE ran.reply = Failure
    <3>1. new.ids = ran.ids /\ new.posts = ran.posts /\ new.missed = ran.missed
          /\ new.got = ran.got
      BY <2>1 DEF After
    <3>2. Listed(ran, id)
      BY DEF GoodCall
    <3> QED
      BY <3>1, <3>2 DEF Listed, Own, Copied
  <2>2. CASE ran.reply # Failure
    BY <2>2, FilledOwn
  <2> QED
    BY <2>1, <2>2
<1>6. Given(new.reply)
  BY <1>2 DEF Given
<1> QED
  BY <1>2, <1>3, <1>4, <1>5, <1>6 DEF GoodCall

(* A call that has copied what a call had before keeps what the calls inherit.           *)
LEMMA InheritedKept ==
    ASSUME PageInv, NEW r \in Run, NEW new, run' = [run EXCEPT ![r] = new],
           \A g \in Field : \A i : Copied(run[r], g, Proto, i) => Copied(new, g, Proto, i),
           NEW f \in Field, NEW from, Inherited(f, from)
    PROVE  Inherited(f, from)'
<1>1. PICK s \in Run : Copied(run[s], f, Proto, from)
  BY DEF Inherited
<1>2. run'[s] = IF s = r THEN new ELSE run[s]
  BY DEF PageInv
<1>3. Copied(run'[s], f, Proto, from)
  BY <1>1, <1>2
<1> QED
  BY <1>3 DEF Inherited, Copied

(* The entries that are shown have fields of their own or of the prototype.              *)
LEMMA ReadDoes ==
    ASSUME NEW entry \in [in : BOOLEAN, has : Object], NEW under, NEW f \in Field
    PROVE  /\ Read(entry, under).in = entry.in
           /\ \/ Read(entry, under).has[f] = entry.has[f]
              \/ entry.has[f] = Nothing /\ Read(entry, under).has[f] = under[f]
BY DEF Read

(* One call is replaced by a good one, which may have filled the prototype; the call     *)
(* that is shown has ended and stays.                                                    *)
LEMMA CallReplaced ==
    ASSUME PageInv, NEW r \in Run, NEW new, GoodCall(new),
           run' = [run EXCEPT ![r] = new], run[r].at # "done", isAdmin' \in BOOLEAN,
           \A g \in Field : \A i : Copied(run[r], g, Proto, i) => Copied(new, g, Proto, i),
           proto' \in Object,
           \A f \in Field : proto'[f] = proto[f] \/ Copied(new, f, Proto, proto'[f]),
           \/ UNCHANGED content
           \/ /\ new.at = "done"
              /\ \E admin \in BOOLEAN : Show(r, new.posts, admin)
    PROVE  PageInv'
<1>1. /\ DOMAIN run' = Run /\ run'[r] = new
      /\ \A s \in Run : s # r => run'[s] = run[s]
  BY DEF PageInv
<1>2. \A s \in Run : GoodCall(run'[s])
  BY <1>1 DEF PageInv
<1>3. \A s \in Run : GoodCall(run[s])'
  BY <1>2 DEF GoodCall, Call, Blank, Asked, Given, Listed, Own, Copied
<1>4. \A f \in Field : \A i : Inherited(f, i) => Inherited(f, i)'
  BY InheritedKept
<1>5. Under'
  <2>1. ASSUME NEW f \in Field, proto'[f] # Nothing
        PROVE  Inherited(f, proto[f])'
    <3>1. CASE proto'[f] = proto[f]
      <4>1. Inherited(f, proto[f])
        BY <2>1, <3>1 DEF PageInv, Under
      <4>2. PICK i : i = proto[f]
        OBVIOUS
      <4>3. Inherited(f, i)'
        BY <1>4, <4>1, <4>2
      <4> QED
        BY <3>1, <4>2, <4>3 DEF Inherited, Copied
    <3>2. CASE Copied(new, f, Proto, proto'[f])
      <4>1. Copied(run'[r], f, Proto, proto'[f])
        BY <1>1, <3>2
      <4> QED
        BY <4>1 DEF Inherited, Copied
    <3> QED
      BY <2>1, <3>1, <3>2
  <2> QED
    BY <2>1 DEF Under, Object
<1>6. Shown'
  <2>1. CASE UNCHANGED content
    <3>1. CASE content.by = Nothing
      BY <2>1, <3>1 DEF PageInv, Shown, Loading
    <3>2. CASE content.by # Nothing
      <4>1. content.by \in Run /\ content.by # r /\ run'[content.by] = run[content.by]
        BY <1>1, <3>2 DEF PageInv, Shown
      <4>2. ASSUME NEW id \in Id, NEW f \in Field,
                   Inherited(f, content.posts[id].has[f])
            PROVE  Inherited(f, content.posts[id].has[f])'
        <5>1. PICK i : i = content.posts[id].has[f]
          OBVIOUS
        <5>2. Inherited(f, i)'
          BY <1>4, <4>2, <5>1
        <5> QED
          BY <2>1, <5>1, <5>2 DEF Inherited, Copied
      <4> QED
        BY <2>1, <3>2, <4>1, <4>2 DEF PageInv, Shown
    <3> QED
      BY <3>1, <3>2
  <2>2. CASE new.at = "done" /\ \E admin \in BOOLEAN : Show(r, new.posts, admin)
    <3>1. /\ content'.by = r /\ content'.adds \in {1, Thousand}
          /\ content'.posts = [id \in Id |-> Read(new.posts[id], proto')]
      BY <2>2 DEF Show
    <3>2. r # Nothing
      BY PageAssumption
    <3>3. \A id \in Id : new.posts[id] \in [in : BOOLEAN, has : Object]
      BY DEF GoodCall, Call, Entries
    <3>4. ASSUME NEW id \in Id
          PROVE  /\ content'.posts[id].in = new.posts[id].in
                 /\ \A f \in Field : \/ content'.posts[id].has[f] = new.posts[id].has[f]
                                     \/ /\ new.posts[id].has[f] = Nothing
                                        /\ Inherited(f, content.posts[id].has[f])'
      <4>1. content'.posts[id] = Read(new.posts[id], proto')
        BY <3>1
      <4>2. content'.posts[id].in = new.posts[id].in
        BY <3>3, <4>1, ReadDoes DEF Field
      <4>3. ASSUME NEW f \in Field, content'.posts[id].has[f] # new.posts[id].has[f]
            PROVE  /\ new.posts[id].has[f] = Nothing
                   /\ Inherited(f, content.posts[id].has[f])'
        <5>1. new.posts[id].has[f] = Nothing /\ content'.posts[id].has[f] = proto'[f]
          BY <3>3, <4>1, <4>3, ReadDoes
        <5>2. Inherited(f, proto[f])'
          BY <1>5, <4>3, <5>1 DEF Under
        <5> QED
          BY <5>1, <5>2 DEF Inherited, Copied
      <4> QED
        BY <4>2, <4>3
    <3> QED
      BY <1>1, <2>2, <3>1, <3>2, <3>4 DEF Shown
  <2> QED
    BY <2>1, <2>2
<1> QED
  BY <1>1, <1>3, <1>5, <1>6 DEF PageInv

(* A new call of renderPage.                                                             *)
LEMMA RenderPageKeeps ==
    ASSUME PageInv, NEW r \in Run, RenderPage(r)
    PROVE  PageInv'
<1>1. PICK h \in Hash :
        /\ isAdmin' = h.admin
        /\ run' = [run EXCEPT ![r].ids = h.ids,
                              ![r].at = IF h.ids = <<>> THEN "done" ELSE "asking"]
        /\ IF h.ids = <<>> THEN Show(r, NoEntries, h.admin)
                           ELSE UNCHANGED content
  BY DEF RenderPage
<1> DEFINE new == [Blank EXCEPT !.ids = h.ids,
                                !.at = IF h.ids = <<>> THEN "done" ELSE "asking"]
<1>2. run[r] = Blank /\ DOMAIN run = Run /\ run[r].at # "done" /\ UNCHANGED proto
  BY DEF RenderPage, PageInv, GoodCall
<1>3. run' = [run EXCEPT ![r] = new]
  BY <1>1, <1>2
<1>4. /\ h.ids = <<>> => new.at = "done"
      /\ new.posts = NoEntries
  BY BlankFacts DEF Call
<1>5. GoodCall(new)
  BY StartGood
<1>6. h.admin \in BOOLEAN
  BY HashAssumption
<1> HIDE DEF new
<1>7. \A g \in Field : \A i : ~Copied(run[r], g, Proto, i)
  BY <1>2, BlankFacts DEF Copied
<1>8. proto' \in Object /\ \A f \in Field : proto'[f] = proto[f]
  BY <1>2 DEF PageInv, Under
<1>9. \/ UNCHANGED content
      \/ new.at = "done" /\ \E admin \in BOOLEAN : Show(r, new.posts, admin)
  BY <1>1, <1>4, <1>6
<1> QED
  BY <1>1, <1>2, <1>3, <1>5, <1>6, <1>7, <1>8, <1>9, CallReplaced

(* A request is answered.                                                                *)
LEMMA GetKeeps ==
    ASSUME PageInv, Served, ApiTypeOK, NEW r \in Run, Get(r)
    PROVE  PageInv'
<1> DEFINE id == Id_Now(r)
           answer == IF id \in Id /\ posts[id].there THEN Reply(id) ELSE Missing
           new == [run[r] EXCEPT !.reply = answer]
<1>1. /\ run[r].at = "asking" /\ UNCHANGED <<isAdmin, proto, content>>
      /\ run' = [run EXCEPT ![r].reply = answer]
  BY DEF Get
<1>2. /\ GoodCall(run[r]) /\ DOMAIN run = Run /\ isAdmin \in BOOLEAN
      /\ id = run[r].ids[run[r].k] /\ run[r].got \in [Field -> SUBSET Id]
  BY <1>1, AskingFacts DEF PageInv, Id_Now
<1>3. /\ answer \in Answers /\ Given(answer) /\ (answer.kind = "post" => answer.of = id)
      /\ answer = Missing => \A f \in Field : id \notin run[r].got[f]
  <2>1. CASE id \in Id /\ posts[id].there
    <3>1. posts[id].string \in BOOLEAN /\ posts[id].number \in BOOLEAN
      BY <2>1 DEF ApiTypeOK, Post
    <3>2. [f \in Field |-> IF f = "text" THEN posts[id].string ELSE posts[id].number]
            \in [Field -> BOOLEAN]
      BY <3>1
    <3>3. answer \in Answers /\ answer.kind = "post" /\ answer.of = id
      BY <2>1, <3>2 DEF Reply, Answers
    <3>4. answer # Missing
      BY <3>3, AnswerTypes
    <3> QED
      BY <2>1, <3>3, <3>4 DEF Given
  <2>2. CASE ~(id \in Id /\ posts[id].there)
    <3>1. \A f \in Field : id \notin run[r].got[f]
      BY <1>2, <2>2 DEF Served
    <3> QED
      BY <2>2, <3>1, AnswerTypes DEF Given
  <2> QED
    BY <2>1, <2>2
<1> HIDE DEF answer, id
<1>4. GoodCall(new)
  BY <1>1, <1>2, <1>3, AnswerGood
<1>5. run' = [run EXCEPT ![r] = new]
  BY <1>1, <1>2
<1>6. new.ids = run[r].ids /\ new.missed = run[r].missed /\ new.got = run[r].got
  BY <1>2 DEF GoodCall, Call
<1> HIDE DEF new
<1>7. \A g \in Field : \A i : Copied(run[r], g, Proto, i) => Copied(new, g, Proto, i)
  BY <1>6 DEF Copied
<1>8. proto' \in Object /\ \A f \in Field : proto'[f] = proto[f]
  BY <1>1 DEF PageInv, Under
<1> QED
  BY <1>1, <1>2, <1>4, <1>5, <1>7, <1>8, CallReplaced

(* A request fails.                                                                      *)
LEMMA NoAnswerKeeps ==
    ASSUME PageInv, NEW r \in Run, NoAnswer(r)
    PROVE  PageInv'
<1> DEFINE new == [run[r] EXCEPT !.reply = Failure]
<1>1. /\ run[r].at = "asking" /\ UNCHANGED <<isAdmin, proto, content>>
      /\ run' = [run EXCEPT ![r].reply = Failure]
  BY DEF NoAnswer
<1>2. GoodCall(run[r]) /\ DOMAIN run = Run /\ isAdmin \in BOOLEAN
  BY DEF PageInv
<1>3. Failure \in Answers /\ Given(Failure) /\ Failure.kind # "post" /\ Failure # Missing
  BY AnswerTypes DEF Given
<1>4. GoodCall(new)
  BY <1>1, <1>2, <1>3, AnswerGood
<1>5. run' = [run EXCEPT ![r] = new]
  BY <1>1, <1>2
<1>6. new.ids = run[r].ids /\ new.missed = run[r].missed /\ new.got = run[r].got
  BY <1>2 DEF GoodCall, Call
<1> HIDE DEF new
<1>7. \A g \in Field : \A i : Copied(run[r], g, Proto, i) => Copied(new, g, Proto, i)
  BY <1>6 DEF Copied
<1>8. proto' \in Object /\ \A f \in Field : proto'[f] = proto[f]
  BY <1>1 DEF PageInv, Under
<1> QED
  BY <1>1, <1>2, <1>4, <1>5, <1>7, <1>8, CallReplaced

(* The page takes an answer, and shows its posts after the last one.                     *)
LEMMA ReceiveKeeps ==
    ASSUME PageInv, NEW r \in Run, Receive(r)
    PROVE  PageInv'
<1> DEFINE data == Data(run[r].data, run[r].reply)
           new  == [NextRound(Round(run[r], data), run[r].reply) EXCEPT !.reply = NoReply]
<1>1. /\ run[r].at = "asking" /\ run[r].reply # NoReply /\ UNCHANGED isAdmin
      /\ run' = [run EXCEPT ![r] = new]
      /\ proto' = IF Id_Now(r) = Proto /\ run[r].reply # Failure
                  THEN Filled(proto, data) ELSE proto
      /\ (new.at = "done" /\ Show(r, new.posts, isAdmin)) \/ UNCHANGED content
  BY DEF Receive
<1>2. GoodCall(run[r]) /\ isAdmin \in BOOLEAN /\ proto \in Object
  BY DEF PageInv, Under
<1>3. After(run[r], new)
  BY <1>1, <1>2, RoundDoes
<1>4. data \in Answers
  BY <1>1, <1>2, DataFacts
<1> HIDE DEF new
<1>5. GoodCall(new)
  BY <1>1, <1>2, <1>3, ReceiveGood
<1>6. \A g \in Field : \A i : Copied(run[r], g, Proto, i) => Copied(new, g, Proto, i)
  BY <1>3, CopiedKept
<1>7. proto' \in Object
  <2> HIDE DEF data
  <2>1. Filled(proto, data) \in Object
    BY <1>2, <1>4 DEF Filled, Object, Answers
  <2> QED
    BY <1>1, <1>2, <2>1
<1>8. ASSUME NEW f \in Field, proto'[f] # proto[f]
      PROVE  Copied(new, f, Proto, proto'[f])
  <2>1. /\ Id_Now(r) = Proto /\ run[r].reply # Failure
        /\ data.fits[f] /\ proto'[f] = data.of
    BY <1>1, <1>8 DEF Filled
  <2>2. run[r].ids[run[r].k] = Proto /\ Proto \notin Id
    BY <2>1, PageAssumption DEF Id_Now
  <2>3. run[r].reply = Missing /\ data = run[r].data
    <3>1. Asked(run[r]) /\ Given(run[r].reply)
      BY <1>1, <1>2, AskingFacts
    <3> QED
      BY <1>1, <2>1, <2>2, <3>1, GivenFacts DEF Asked, Data
  <2> QED
    BY <1>1, <1>2, <1>3, <2>1, <2>2, <2>3, MissingCopies
<1>9. \/ UNCHANGED content
      \/ new.at = "done" /\ \E admin \in BOOLEAN : Show(r, new.posts, admin)
  BY <1>1, <1>2
<1>10. \A f \in Field : proto'[f] = proto[f] \/ Copied(new, f, Proto, proto'[f])
  BY <1>8
<1>11. run[r].at # "done" /\ isAdmin' \in BOOLEAN
  BY <1>1, <1>2
<1> HIDE DEF data
<1> QED
  BY <1>1, <1>5, <1>6, <1>7, <1>9, <1>10, <1>11, CallReplaced

(* What the page does not take part in.                                                  *)
LEMMA PageRests ==
    ASSUME PageInv, UNCHANGED pageVars
    PROVE  PageInv'
<1>1. /\ run' = run /\ proto' = proto /\ isAdmin' = isAdmin /\ content' = content
      /\ \A s \in Run : GoodCall(run'[s])
  BY DEF PageInv, pageVars
<1>2. \A s \in Run : GoodCall(run[s])'
  BY <1>1 DEF GoodCall, Call, Blank, Asked, Given, Listed, Own, Copied
<1>3. Under'
  BY <1>1 DEF PageInv, Under, Inherited, Copied
<1>4. Shown'
  BY <1>1 DEF PageInv, Shown, Loading, Inherited, Copied
<1> QED
  BY <1>1, <1>2, <1>3, <1>4 DEF PageInv

(* What the API does not take part in.                                                   *)
LEMMA ApiRests ==
    ASSUME ApiInv, UNCHANGED apiVars
    PROVE  ApiInv'
BY DEF ApiInv, ApiTypeOK, Room, RoomFor, Adding, Limit, Permitted

-----------------------------------------------------------------------------
(* Both together.                                                                        *)

(* The invariant is that of the API and that of the page.                                *)
LEMMA Both == BlogInv <=> ApiInv /\ PageInv /\ Served
BY DEF BlogInv, PageInv

(* The same of the next state.                                                           *)
LEMMA BothNext == BlogInv' <=> ApiInv' /\ PageInv' /\ Served'
BY Both, PTL

\* What LikesAddUp says of one post.
AddsUp(id) ==
    /\ posts'[id].there
    /\ id \in Sample => posts'[id] = posts[id]
    /\ posts'[id].number => posts[id].number
    /\ posts'[id].like # posts[id].like => \E t \in Thread : Adds(t, id)

(* A post is replaced by an update of it or by an addition only.                         *)
LEMMA StepAddsUp ==
    ASSUME ApiInv, [Next]_vars, NEW id \in Id, posts[id].there
    PROVE  AddsUp(id)
<1>1. posts \in [Id -> Post]
  BY ApiFacts
<1>2. ASSUME NEW i \in Id, Create(i)
      PROVE  AddsUp(id)
  <2>1. posts'[id] = posts[id]
    BY <1>1, <1>2 DEF Create
  <2> QED
    BY <2>1 DEF AddsUp
<1>3. ASSUME NEW i \in Id, Update(i)
      PROVE  AddsUp(id)
  <2>1. PICK string \in BOOLEAN, keeps \in BOOLEAN :
          \/ posts' = [posts EXCEPT ![i] = Merged(posts[i], string, keeps)]
          \/ \E may, flag \in BOOLEAN :
               posts' = [posts EXCEPT ![i] = [Merged(posts[i], string, keeps) EXCEPT
                                                !.mayLike = may, !.flag = flag]]
    BY <1>3 DEF Update, Put
  <2>2. i \notin Sample
    BY <1>3 DEF Update
  <2>3. CASE posts' = [posts EXCEPT ![i] = Merged(posts[i], string, keeps)]
    BY <1>1, <2>2, <2>3 DEF Merged, Post, AddsUp
  <2>4. CASE \E may, flag \in BOOLEAN :
               posts' = [posts EXCEPT ![i] = [Merged(posts[i], string, keeps) EXCEPT
                                                !.mayLike = may, !.flag = flag]]
    BY <1>1, <2>2, <2>4 DEF Merged, Post, AddsUp
  <2> QED
    BY <2>1, <2>3, <2>4
<1>4. ASSUME NEW t \in Thread, Add(t)
      PROVE  AddsUp(id)
  <2>1. Added(t)
    BY <1>4, AddDoes
  <2>2. thread'[t] = Idle
    BY <2>1, ApiFacts DEF Added
  <2>3. thread[t].key \/ thread[t].likes = 1
    BY <2>1 DEF Added, ApiInv, Permitted
  <2>4. CASE thread[t].id # id
    BY <2>1, <2>4 DEF Added, AddsUp
  <2>5. CASE thread[t].id = id
    <3>1. posts'[id].like # posts[id].like => Adds(t, id)
      BY <2>1, <2>2, <2>3, <2>5 DEF Added, Adds
    <3> QED
      BY <2>1, <2>5, <3>1 DEF Added, AddsUp
  <2> QED
    BY <2>4, <2>5
<1>5. CASE UNCHANGED posts
  BY <1>5 DEF AddsUp
<1>6. \/ \E i \in Id : Create(i) \/ Update(i)
      \/ \E t \in Thread : Add(t)
      \/ UNCHANGED posts
  BY DEF Next, vars, Others, Puma, Serve, Page, RenderPage, Get, NoAnswer, Receive, Click,
         Like, CheckLimit
<1> QED
  BY <1>2, <1>3, <1>4, <1>5, <1>6

(* What calls have got stays there.                                                      *)
LEMMA ServedKept ==
    ASSUME ApiInv, PageInv, Served, [Next]_vars
    PROVE  Served'
<1>1. \A id \in Id : posts[id].there => posts'[id].there
  BY StepAddsUp DEF AddsUp
<1>2. \A r \in Run : GoodCall(run[r]) /\ Given(run[r].reply) /\ run[r] \in Call
  BY DEF PageInv, GoodCall
<1>3. \A r \in Run : run[r].reply.kind = "post" => run[r].reply.of \in Id
  BY <1>2, GivenFacts
<1>4. \A r \in Run, f \in Field : run[r].got[f] \in SUBSET Id
  BY <1>2 DEF Call
\* A call serves what it had before, and what it now gets is there.
<1> DEFINE Good(ran) ==
             /\ ran.reply.kind = "post" => posts'[ran.reply.of].there
             /\ \A f \in Field : \A id \in ran.got[f] : posts'[id].there
<1>5. \A r \in Run : Good(run[r])
  BY <1>1, <1>3, <1>4 DEF Served
<1>6. ASSUME NEW r \in Run, NEW new, run' = [run EXCEPT ![r] = new], Good(new)
      PROVE  Served'
  <2>1. \A s \in Run : run'[s] = IF s = r THEN new ELSE run[s]
    BY <1>6 DEF PageInv
  <2>2. \A s \in Run : Good(run'[s])
    BY <1>5, <1>6, <2>1
  <2> QED
    BY <2>2 DEF Served
<1>7. CASE UNCHANGED run
  BY <1>5, <1>7 DEF Served
<1>8. ASSUME NEW r \in Run, RenderPage(r)
      PROVE  Served'
  <2>1. PICK h \in Hash :
          run' = [run EXCEPT ![r].ids = h.ids,
                             ![r].at = IF h.ids = <<>> THEN "done" ELSE "asking"]
    BY <1>8 DEF RenderPage
  <2> DEFINE new == [run[r] EXCEPT !.ids = h.ids,
                                   !.at = IF h.ids = <<>> THEN "done" ELSE "asking"]
  <2>2. run' = [run EXCEPT ![r] = new]
    BY <2>1 DEF PageInv
  <2>3. new.reply = run[r].reply /\ new.got = run[r].got
    BY <1>2 DEF Call
  <2> HIDE DEF new
  <2>4. Good(new)
    BY <1>5, <2>3
  <2> QED
    BY <1>6, <2>2, <2>4
<1>9. ASSUME NEW r \in Run, NEW answer, run' = [run EXCEPT ![r].reply = answer],
             answer.kind = "post" => posts'[answer.of].there
      PROVE  Served'
  <2> DEFINE new == [run[r] EXCEPT !.reply = answer]
  <2>1. run' = [run EXCEPT ![r] = new]
    BY <1>9 DEF PageInv
  <2>2. new.reply = answer /\ new.got = run[r].got
    BY <1>2 DEF Call
  <2> HIDE DEF new
  <2>3. Good(new)
    BY <1>5, <1>9, <2>2
  <2> QED
    BY <1>6, <2>1, <2>3
<1>10. ASSUME NEW r \in Run, Get(r)
       PROVE  Served'
  <2>1. PICK answer : /\ answer = IF Id_Now(r) \in Id /\ posts[Id_Now(r)].there
                                  THEN Reply(Id_Now(r)) ELSE Missing
                      /\ run' = [run EXCEPT ![r].reply = answer]
    BY <1>10 DEF Get
  <2>2. answer.kind = "post" => posts'[answer.of].there
    BY <1>1, <2>1, AnswerTypes DEF Reply
  <2> QED
    BY <1>9, <2>1, <2>2
<1>11. ASSUME NEW r \in Run, NoAnswer(r)
       PROVE  Served'
  <2>1. run' = [run EXCEPT ![r].reply = Failure] /\ Failure.kind # "post"
    BY <1>11, AnswerTypes DEF NoAnswer
  <2> QED
    BY <1>9, <2>1
<1>12. ASSUME NEW r \in Run, Receive(r)
       PROVE  Served'
  <2> DEFINE data == Data(run[r].data, run[r].reply)
             new  == [NextRound(Round(run[r], data), run[r].reply) EXCEPT !.reply = NoReply]
  <2>1. run' = [run EXCEPT ![r] = new] /\ run[r].at = "asking" /\ run[r].reply # NoReply
    BY <1>12 DEF Receive
  <2>2. After(run[r], new)
    BY <1>2, <2>1, RoundDoes
  <2> HIDE DEF new
  <2>3. new.reply.kind # "post"
    BY <2>2, AnswerTypes DEF After
  <2>4. ASSUME NEW f \in Field, NEW id \in new.got[f]
        PROVE  posts'[id].there
    <3>1. CASE id \in run[r].got[f]
      BY <1>5, <3>1
    <3>2. CASE id \notin run[r].got[f]
      <4>1. id = run[r].ids[run[r].k] /\ run[r].reply.fits[f]
        BY <2>2, <3>2 DEF After, Answered, Noted
      <4>2. run[r].reply.kind = "post"
        BY <1>2, <4>1, GivenFacts
      <4>3. run[r].reply.of = id
        BY <1>2, <2>1, <4>1, <4>2, AskingFacts DEF Asked
      <4> QED
        BY <1>5, <4>2, <4>3
    <3> QED
      BY <3>1, <3>2
  <2>5. Good(new)
    BY <2>3, <2>4
  <2> QED
    BY <1>6, <2>1, <2>5
<1>13. \/ UNCHANGED run
       \/ \E r \in Run : RenderPage(r) \/ Get(r) \/ NoAnswer(r) \/ Receive(r)
  BY DEF Next, vars, Others, Puma, Page, Click
<1> QED
  BY <1>7, <1>8, <1>10, <1>11, <1>12, <1>13

(* The start.                                                                            *)
LEMMA InitInv == Init => BlogInv
<1> SUFFICES ASSUME Init PROVE BlogInv
  OBVIOUS
<1>1. ApiInv
  BY ApiInitInv DEF Init
<1>2. PageInv
  <2>1. Shown
    BY DEF Init, Shown, Loading
  <2>2. Under
    BY DEF Init, Under, Empty, Object
  <2> QED
    BY <2>1, <2>2, BlankGood DEF Init, PageInv
<1>3. Served
  BY BlankFacts, AnswerTypes DEF Init, Served
<1> QED
  BY <1>1, <1>2, <1>3, Both

(* Every step.                                                                           *)
LEMMA StepInv == BlogInv /\ [Next]_vars => BlogInv'
<1> SUFFICES ASSUME ApiInv, PageInv, Served, [Next]_vars PROVE ApiInv' /\ PageInv'
  BY Both, BothNext, ServedKept
<1>1. CASE Others
  <2>1. UNCHANGED pageVars
    BY <1>1 DEF Others
  <2>2. ApiInv'
    <3>1. PICK id \in Id : \/ Create(id) \/ Update(id)
                           \/ \E t \in Thread, key \in BOOLEAN, n \in Amount : Like(t, id, n, key)
      BY <1>1 DEF Others
    <3> QED
      BY <3>1, CreateKeeps, UpdateKeeps, LikeKeeps
  <2> QED
    BY <2>1, <2>2, PageRests
<1>2. CASE Puma
  <2>1. UNCHANGED pageVars /\ Serve
    BY <1>2 DEF Puma
  <2>2. ApiInv'
    BY <2>1, CheckKeeps, AddKeeps DEF Serve
  <2> QED
    BY <2>1, <2>2, PageRests
<1>3. CASE \E r \in Run : Page(r)
  <2>1. PICK r \in Run : Page(r)
    BY <1>3
  <2>2. UNCHANGED apiVars
    BY <2>1 DEF Page, RenderPage, Get, NoAnswer, Receive
  <2>3. PageInv'
    BY <2>1, RenderPageKeeps, GetKeeps, NoAnswerKeeps, ReceiveKeeps DEF Page, ApiInv
  <2> QED
    BY <2>2, <2>3, ApiRests
<1>4. CASE \E id \in Id, t \in Thread, key \in BOOLEAN : Click(id, t, key)
  <2>1. PICK id \in Id, t \in Thread, key \in BOOLEAN : Click(id, t, key)
    BY <1>4
  <2>2. UNCHANGED pageVars
    BY <2>1 DEF Click
  <2>3. content.adds \in Amount
    <3>1. content.posts[id].in
      BY <2>1 DEF Click
    <3>2. content.by # Nothing
      BY <3>1 DEF PageInv, Shown, Loading, NoEntries
    <3> QED
      BY <3>2, LikesAssumption DEF PageInv, Shown
  <2>4. ApiInv'
    BY <2>1, <2>3, LikeKeeps DEF Click
  <2> QED
    BY <2>2, <2>4, PageRests
<1>5. CASE UNCHANGED vars
  BY <1>5, ApiRests, PageRests DEF vars
<1> QED
  BY <1>1, <1>2, <1>3, <1>4, <1>5 DEF Next

(* Whatever users of the page and the API do, posts, likes under way, calls, the         *)
(* prototype of their entries and content fit together.                                  *)
THEOREM BlogInvariant == Spec => []BlogInv
<1>1. Init => BlogInv
  BY InitInv
<1>2. BlogInv /\ [Next]_vars => BlogInv'
  BY StepInv
<1> QED
  BY <1>1, <1>2, PTL DEF Spec

(* Likes that overlap pass the limit by no more than what the other threads can have     *)
(* under way, for any amounts, also negative ones.                                       *)
THEOREM LimitIsKept == Spec => []LimitKept
<1>1. BlogInv => LimitKept
  <2> SUFFICES ASSUME ApiInv, NEW id \in Id \ Sample
               PROVE  posts[id].like <= Limit
    BY Both DEF LimitKept
  <2> QED
    BY ApiFacts, RoomLimits
<1> QED
  BY <1>1, BlogInvariant, PTL

(* A page shows posts of its own list only, each with its own fields where the API had   *)
(* them, and otherwise with those of a post that a list had before it, or before the     *)
(* name of the prototype.                                                                *)
THEOREM OwnPostsShown == Spec => []ShowsOwnPost
<1>1. BlogInv => ShowsOwnPost
  <2> SUFFICES ASSUME PageInv, content.by # Nothing, NEW id \in Id, content.posts[id].in
               PROVE  /\ \E i \in 1 .. Len(run[content.by].ids) : run[content.by].ids[i] = id
                      /\ \A f \in Field :
                           \/ Own(run[content.by], f, id, content.posts[id].has[f])
                           \/ /\ id \notin run[content.by].got[f]
                              /\ Inherited(f, content.posts[id].has[f])
    BY Both DEF ShowsOwnPost
  <2>1. content.by \in Run
    BY DEF PageInv, Shown
  <2>2. PICK ran : ran = run[content.by]
    OBVIOUS
  <2>3. /\ content.posts[id].in = ran.posts[id].in
        /\ \A f \in Field : \/ content.posts[id].has[f] = ran.posts[id].has[f]
                            \/ /\ ran.posts[id].has[f] = Nothing
                               /\ Inherited(f, content.posts[id].has[f])
    BY <2>2 DEF PageInv, Shown
  <2>4. Listed(ran, id)
    BY <2>1, <2>2 DEF PageInv, GoodCall
  <2>5. ASSUME NEW f \in Field
        PROVE  \/ Own(ran, f, id, content.posts[id].has[f])
               \/ id \notin ran.got[f] /\ Inherited(f, content.posts[id].has[f])
    <3>1. Own(ran, f, id, ran.posts[id].has[f])
      BY <2>4 DEF Listed
    <3>2. Own(ran, f, id, Nothing) => id \notin ran.got[f]
      BY PageAssumption DEF Own, Name
    <3> QED
      BY <2>3, <3>1, <3>2
  <2> QED
    BY <2>2, <2>3, <2>4, <2>5 DEF Listed
<1> QED
  BY <1>1, BlogInvariant, PTL

(* No step takes a post away or changes a sample, and the number of a post changes only  *)
(* by what a checked like asked for, whichever requests overlap.                         *)
THEOREM LikesCounted == Spec => LikesAddUp
<1>1. BlogInv /\ [Next]_vars =>
        [\A id \in Id : posts[id].there =>
           /\ posts'[id].there
           /\ id \in Sample => posts'[id] = posts[id]
           /\ posts'[id].number => posts[id].number
           /\ posts'[id].like # posts[id].like => \E t \in Thread : Adds(t, id)]_posts
  BY Both, StepAddsUp DEF AddsUp
<1> QED
  BY <1>1, BlogInvariant, PTL DEF Spec, LikesAddUp

=============================================================================
