---------------------------- MODULE Warmuprofile ----------------------------
(***************************************************************************)
(* web/warmuprofile/distfiles/app/index.js: accounts in an in-memory       *)
(* database, sessions in express-session's memory store.  A request is a   *)
(* record in a slot, from its start to its response:                       *)
(*   handler           its session is loaded, its handler runs next        *)
(*   find, found       User.findOne is under way, has its result           *)
(*   create, created   the same of User.create                             *)
(*   destroy, gone     the same of User.destroy                            *)
(* It works on a copy of its session, which express-session writes back at *)
(* the response when the handler has changed it, a flash message included. *)
(***************************************************************************)
EXTENDS Naturals, FiniteSets

CONSTANTS
    User,       \* usernames, "admin" among them
    Session,    \* session ids the server gives out between two starts (bound)
    Slot,       \* requests served at the same time (bound)
    MaxRows     \* accounts made between two starts (bound)

None   == "none"
Absent == "absent"

ASSUME UserAssumption == "admin" \in User /\ {None, Absent} \cap User = {}
ASSUME RowsAssumption == MaxRows \in Nat /\ MaxRows >= 1

VARIABLES
    rows,       \* the table User: records [id, name]
    made,       \* rows created since the start
    store,      \* [Session -> User, None or Absent], who is logged in
    issued,     \* the session ids given out
    known,      \* every name that has been in the table since the start
    req         \* [Slot -> request]

vars == <<rows, made, store, issued, known, req>>
table == <<rows, made, known>>

Idle == [kind |-> None, at |-> "idle"]
NoRow == [id |-> 0, name |-> None]
Admin == [id |-> 1, name |-> "admin"]

Init ==
    /\ rows = {Admin} /\ made = 1 /\ known = {"admin"}
    /\ store = [s \in Session |-> Absent] /\ issued = {}
    /\ req = [q \in Slot |-> Idle]

Named(n) == {r \in rows : r.name = n}

\* What User.findOne gives for a username.
FindOne(n) == IF Named(n) = {} THEN NoRow ELSE CHOOSE r \in Named(n) : TRUE

At(q, at, kinds) == req[q].at = at /\ req[q].kind \in kinds
GoOn(q, at) == req' = [req EXCEPT ![q].at = at]
Respond(q) == req' = [req EXCEPT ![q] = Idle]

\* The response writes the request's copy of the session, with who logged in.
Save(q, who) == store' = [store EXCEPT ![req[q].sess] = who] /\ Respond(q)

\* req.session.destroy()
End(q) == store' = [store EXCEPT ![req[q].sess] = Absent] /\ Respond(q)

-----------------------------------------------------------------------------
(* A request begins: its session is loaded, or a new one made *)

\* needAuth and the check of the owner; the other handlers that write have no such guard.
MayDelete(who, n) == who # None /\ (who = "admin" \/ who = n)

Kind == {"register", "login", "delete", "logout", "page"}

Begin(q, s, who, new) ==
    \E kind \in Kind, n \in User :
        /\ kind = "delete" => MayDelete(who, n)
        /\ kind = "logout" => who # None
        /\ req' = [req EXCEPT ![q] =
               [at |-> IF kind \in {"logout", "page"} THEN "handler" ELSE "find",
                kind |-> kind, sess |-> s, new |-> new, who |-> who, name |-> n, row |-> NoRow]]

Start(q) ==
    /\ req[q] = Idle
    /\ \E s \in Session :
           \/ store[s] # Absent /\ Begin(q, s, store[s], FALSE) /\ UNCHANGED issued
           \/ s \notin issued /\ Begin(q, s, None, TRUE) /\ issued' = issued \cup {s}
    /\ UNCHANGED <<table, store>>

\* The pages, and every refusal before a query: a flash message is set, or taken off, or
\* the session is left as it is, and then written only when it is new.
Page(q) ==
    /\ At(q, "handler", {"page"})
    /\ \/ Save(q, req[q].who)
       \/ ~req[q].new /\ Respond(q) /\ UNCHANGED store
    /\ UNCHANGED <<table, issued>>

Logout(q) ==
    /\ At(q, "handler", {"logout"})
    /\ End(q)
    /\ UNCHANGED <<table, issued>>

-----------------------------------------------------------------------------
(* Its queries, and where its handler goes on after each *)

Find(q) ==
    /\ At(q, "find", {"register", "login", "delete"})
    /\ req' = [req EXCEPT ![q].at = "found", ![q].row = FindOne(req[q].name)]
    /\ UNCHANGED <<table, store, issued>>

Register(q) ==
    /\ At(q, "found", {"register"})
    /\ IF req[q].row = NoRow THEN GoOn(q, "create") /\ UNCHANGED store
       ELSE Save(q, req[q].who)
    /\ UNCHANGED <<table, issued>>

\* The password is right or wrong; the admin's is a random UUID nobody enters.
Login(q) ==
    /\ At(q, "found", {"login"})
    /\ \/ req[q].row \notin {NoRow, Admin} /\ Save(q, req[q].name)
       \/ Save(q, req[q].who)
    /\ UNCHANGED <<table, issued>>

Delete(q) ==
    /\ At(q, "found", {"delete"})
    /\ GoOn(q, "destroy")
    /\ UNCHANGED <<table, store, issued>>

\* Without "unique: true" on the column.
Create_NotUnique(q) ==
    /\ At(q, "create", {"register"}) /\ made < MaxRows
    /\ rows' = rows \cup {[id |-> made + 1, name |-> req[q].name]}
    /\ made' = made + 1 /\ known' = known \cup {req[q].name}
    /\ GoOn(q, "created")
    /\ UNCHANGED <<store, issued>>

Create(q) ==
    /\ At(q, "create", {"register"}) /\ made < MaxRows
    /\ Named(req[q].name) = {}
    /\ rows' = rows \cup {[id |-> made + 1, name |-> req[q].name]}
    /\ made' = made + 1 /\ known' = known \cup {req[q].name}
    /\ GoOn(q, "created")
    /\ UNCHANGED <<store, issued>>

Created(q) ==
    /\ At(q, "created", {"register"})
    /\ Save(q, req[q].name)
    /\ UNCHANGED <<table, issued>>

\* The column is unique: User.create rejects, nobody handles it, node ends, and the
\* container starts again with a new database, session store and secret for its cookies.
CreateFails(q) ==
    /\ At(q, "create", {"register"})
    /\ Named(req[q].name) # {}
    /\ rows' = {Admin} /\ made' = 1 /\ known' = {"admin"}
    /\ store' = [s \in Session |-> Absent] /\ issued' = {}
    /\ req' = [p \in Slot |-> Idle]

Selected_ByName(r) == IF r = NoRow THEN {} ELSE Named(r.name)

\* The rows "where" selects: every column of the found row, and with no row nothing to
\* compare, which selects all of them.
Selected(r) == IF r = NoRow THEN rows ELSE rows \cap {r}

Destroy(q) ==
    /\ At(q, "destroy", {"delete"})
    /\ rows' = rows \ Selected(req[q].row)
    /\ GoOn(q, "gone")
    /\ UNCHANGED <<made, known, store, issued>>

Deleted(q) ==
    /\ At(q, "gone", {"delete"})
    /\ End(q)
    /\ UNCHANGED <<table, issued>>

Next ==
    \E q \in Slot :
        \/ Start(q) \/ Page(q) \/ Logout(q) \/ Find(q)
        \/ Register(q) \/ Create(q) \/ Created(q) \/ CreateFails(q)
        \/ Login(q)
        \/ Delete(q) \/ Destroy(q) \/ Deleted(q)

Spec == Init /\ [][Next]_vars

-----------------------------------------------------------------------------
(* Properties *)

Row == [id : 1 .. MaxRows, name : User]

Request == [at : {"handler", "find", "found", "create", "created", "destroy", "gone"},
            kind : Kind, sess : Session, new : BOOLEAN, who : User \cup {None}, name : User,
            row : Row \cup {NoRow}]

(* The variables keep their types, and names and ids are unique in the table. *)
TypeOK ==
    /\ rows \subseteq Row
    /\ \A r, t \in rows : r.id = t.id \/ r.name = t.name => r = t
    /\ made \in 1 .. MaxRows
    /\ store \in [Session -> User \cup {None, Absent}]
    /\ issued \subseteq Session
    /\ known \subseteq User
    /\ req \in [Slot -> Request \cup {Idle}]

(* Nobody is logged in under a name that was never an account: index.js:135 and 172     *)
(* come after the row was found or created, and a copy of a session that is written back *)
(* late holds a name from before, whatever other requests did meanwhile.                 *)
SessionKnown == \A s \in Session : store[s] \in User => store[s] \in known

\* Ids are given out in order, and names are remembered.
Rows == \A r \in rows : r.id <= made /\ r.name \in known /\ (r.id = 1 => r = Admin)

\* A request works on a name that was in its session, that it has found, or that it has
\* created.
Requests ==
    \A q \in Slot : req[q] # Idle =>
        /\ req[q].who \in known \cup {None}
        /\ req[q].row # NoRow => req[q].row.name = req[q].name /\ req[q].name \in known
        /\ req[q].at = "created" => req[q].name \in known

(* The inductive invariant behind SessionKnown and DeletesWhatItFound, types included.   *)
AccountInv == TypeOK /\ SessionKnown /\ Rows /\ Requests

Removed == rows \ rows'

(* A request that deletes one account deletes the one its handler found, and not one     *)
(* made under the same name since.                                                       *)
DeletesWhatItFound ==
    [][Cardinality(Removed) = 1 /\ made' = made /\ rows' # {} =>
           \E q \in Slot : At(q, "destroy", {"delete"}) /\ req[q].row \in Removed]_vars

(* index.js:213: 'general user can only delete itself': an account vanishes (unless the  *)
(* whole server starts again) only in a request of that user, or of admin.               *)
DeletesItself ==
    [][\A r \in Removed :
           \/ rows' = {Admin} /\ made' = 1
           \/ \E q \in Slot : At(q, "destroy", {"delete"}) /\ req[q].who \in {r.name, "admin"}]_vars

(* index.js:158: "make sure that the requested username does not exist": when User.create *)
(* runs, no account has the name.                                                        *)
NameIsFree == [][~\E q \in Slot : CreateFails(q)]_vars
=============================================================================
