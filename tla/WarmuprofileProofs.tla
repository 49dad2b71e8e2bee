------------------------ MODULE WarmuprofileProofs ------------------------
(***************************************************************************)
(* For any number of users, sessions and overlapping requests: whoever is  *)
(* logged in has had an account, and a request deletes only what it found. *)
(***************************************************************************)
EXTENDS Warmuprofile, FiniteSetTheorems, TLAPS

(* What findOne finds is a row of the name, or nothing. *)
LEMMA FindOneFacts ==
  ASSUME NEW n \in User
  PROVE  FindOne(n) = NoRow \/ (FindOne(n) \in rows /\ FindOne(n).name = n)
  BY DEF FindOne, Named

(* The fields of a request, and how its handler goes on. *)
LEMMA RequestFacts ==
  ASSUME NEW x \in Request
  PROVE  /\ x.sess \in Session /\ x.name \in User /\ x.who \in User \cup {None} /\ x # Idle
         /\ x.row \in Row \cup {NoRow}
         /\ \A at \in {"found", "create", "created", "destroy", "gone"} :
                [x EXCEPT !.at = at] \in Request
         /\ \A r \in Row \cup {NoRow} :
                [x EXCEPT !.at = "found", !.row = r] \in Request
  <1>1. /\ x.sess \in Session /\ x.name \in User /\ x.who \in User \cup {None}
        /\ x.row \in Row \cup {NoRow} /\ x.at # "idle"
    BY DEF Request
  <1>2. \A at \in {"found", "create", "created", "destroy", "gone"} :
            [x EXCEPT !.at = at] \in Request
    BY DEF Request
  <1>3. \A r \in Row \cup {NoRow} : [x EXCEPT !.at = "found", !.row = r] \in Request
    BY DEF Request
  <1>4. x # Idle
    <2>1. Idle.at = "idle"
      BY DEF Idle
    <2> QED BY <1>1, <2>1
  <1> QED BY <1>1, <1>2, <1>3, <1>4

(* A request that is under way is a record. *)
LEMMA UnderWay ==
  ASSUME TypeOK, NEW q \in Slot, NEW at, NEW kinds, At(q, at, kinds), at # "idle"
  PROVE  req[q] \in Request
  BY DEF TypeOK, At, Idle

(* What a request is when it begins. *)
LEMMA BeginFacts ==
  ASSUME TypeOK, NEW q \in Slot, NEW s \in Session, NEW who \in User \cup {None},
         NEW new \in BOOLEAN, Begin(q, s, who, new)
  PROVE  \E x \in Request : /\ req' = [req EXCEPT ![q] = x]
                            /\ x.who = who /\ x.row = NoRow /\ x.at \in {"handler", "find"}
  <1>1. PICK kind \in Kind, n \in User :
            req' = [req EXCEPT ![q] =
                      [at |-> IF kind \in {"logout", "page"} THEN "handler" ELSE "find",
                       kind |-> kind, sess |-> s, new |-> new, who |-> who, name |-> n,
                       row |-> NoRow]]
    BY DEF Begin
  <1> DEFINE x == [at |-> IF kind \in {"logout", "page"} THEN "handler" ELSE "find",
                   kind |-> kind, sess |-> s, new |-> new, who |-> who, name |-> n,
                   row |-> NoRow]
  <1>2. x \in Request
    BY DEF Request
  <1>3. x.who = who /\ x.row = NoRow /\ x.at \in {"handler", "find"}
    OBVIOUS
  <1> HIDE DEF x
  <1> WITNESS x \in Request
  <1> QED BY <1>1, <1>2, <1>3 DEF x

(* A new request has the user of a session that is there, or none. *)
LEMMA StartFacts ==
  ASSUME TypeOK, NEW q \in Slot, Start(q)
  PROVE  \E s \in Session, new \in BOOLEAN, who \in User \cup {None} :
            /\ Begin(q, s, who, new) /\ who \in {store[s], None}
            /\ issued' \in {issued, issued \cup {s}} /\ UNCHANGED <<table, store>>
  <1>1. PICK s \in Session :
            \/ store[s] # Absent /\ Begin(q, s, store[s], FALSE) /\ UNCHANGED issued
            \/ s \notin issued /\ Begin(q, s, None, TRUE) /\ issued' = issued \cup {s}
    BY DEF Start
  <1>2. UNCHANGED <<table, store>>
    BY DEF Start
  <1>3. store[s] \in User \cup {None, Absent}
    BY DEF TypeOK
  <1> QED BY <1>1, <1>2, <1>3

(* Every action keeps the types, and the names and ids unique. *)
LEMMA TypeStep ==
  ASSUME AccountInv, [Next]_vars
  PROVE  TypeOK'
  <1> USE UserAssumption, RowsAssumption DEF TypeOK
  <1>0. TypeOK /\ Rows
    BY DEF AccountInv
  <1>1. ASSUME NEW q \in Slot, Start(q) PROVE TypeOK'
    <2>1. PICK s \in Session, new \in BOOLEAN, who \in User \cup {None} :
              /\ Begin(q, s, who, new) /\ issued' \in {issued, issued \cup {s}}
              /\ UNCHANGED <<table, store>>
      BY <1>0, <1>1, StartFacts
    <2>2. PICK x \in Request : req' = [req EXCEPT ![q] = x]
      BY <1>0, <2>1, BeginFacts
    <2> QED BY <1>0, <2>1, <2>2 DEF table
  <1>2. ASSUME NEW q \in Slot, Page(q) PROVE TypeOK'
    <2>1. req[q] \in Request
      BY <1>0, <1>2, UnderWay DEF Page
    <2> QED BY <1>0, <1>2, <2>1, RequestFacts DEF Page, Save, Respond, table
  <1>3. ASSUME NEW q \in Slot, Logout(q) PROVE TypeOK'
    <2>1. req[q] \in Request
      BY <1>0, <1>3, UnderWay DEF Logout
    <2> QED BY <1>0, <1>3, <2>1, RequestFacts DEF Logout, End, Respond, table
  <1>4. ASSUME NEW q \in Slot, Find(q) PROVE TypeOK'
    <2>1. req[q] \in Request
      BY <1>0, <1>4, UnderWay DEF Find
    <2>2. FindOne(req[q].name) \in Row \cup {NoRow}
      BY <1>0, <2>1, RequestFacts, FindOneFacts
    <2>3. req' = [req EXCEPT ![q] = [req[q] EXCEPT !.at = "found", !.row = FindOne(req[q].name)]]
      BY <1>4 DEF Find
    <2>4. [req[q] EXCEPT !.at = "found", !.row = FindOne(req[q].name)] \in Request
      BY <2>1, <2>2, RequestFacts
    <2> QED BY <1>0, <1>4, <2>3, <2>4 DEF Find, table
  <1>5. ASSUME NEW q \in Slot, Register(q) PROVE TypeOK'
    <2>1. req[q] \in Request
      BY <1>0, <1>5, UnderWay DEF Register
    <2> QED BY <1>0, <1>5, <2>1, RequestFacts DEF Register, Save, Respond, GoOn, table
  <1>6. ASSUME NEW q \in Slot, Create(q) PROVE TypeOK'
    <2>1. req[q] \in Request
      BY <1>0, <1>6, UnderWay DEF Create
    <2>2. req[q].name \in User /\ [req[q] EXCEPT !.at = "created"] \in Request
      BY <2>1, RequestFacts
    <2>3. req' \in [Slot -> Request \cup {Idle}]
      BY <1>0, <1>6, <2>2 DEF Create, GoOn
    <2> DEFINE new == [id |-> made + 1, name |-> req[q].name]
    <2>4. /\ rows' = rows \cup {new} /\ made' = made + 1 /\ made < MaxRows
          /\ Named(req[q].name) = {}
      BY <1>6 DEF Create
    <2>5. made + 1 \in 1 .. MaxRows
      BY <1>0, <2>4
    <2>6. new \in Row
      BY <2>2, <2>5 DEF Row
    <2>7. \A r \in rows : r.id # new.id /\ r.name # new.name
      BY <1>0, <2>4 DEF Rows, Named, Row
    <2> HIDE DEF new
    <2>8. \A r, t \in rows' : r.id = t.id \/ r.name = t.name => r = t
      BY <1>0, <2>4, <2>7
    <2> QED BY <1>0, <1>6, <2>2, <2>3, <2>4, <2>5, <2>6, <2>8 DEF Create
  <1>7. ASSUME NEW q \in Slot, Created(q) PROVE TypeOK'
    <2>1. req[q] \in Request
      BY <1>0, <1>7, UnderWay DEF Created
    <2> QED BY <1>0, <1>7, <2>1, RequestFacts DEF Created, Save, Respond, table
  <1>8. ASSUME NEW q \in Slot, CreateFails(q) PROVE TypeOK'
    <2>1. Admin \in Row
      BY DEF Admin, Row
    <2>2. 1 \in 1 .. MaxRows
      OBVIOUS
    <2> QED BY <1>0, <1>8, <2>1, <2>2 DEF CreateFails
  <1>9. ASSUME NEW q \in Slot, Login(q) PROVE TypeOK'
    <2>1. req[q] \in Request
      BY <1>0, <1>9, UnderWay DEF Login
    <2> QED BY <1>0, <1>9, <2>1, RequestFacts DEF Login, Save, Respond, table
  <1>10. ASSUME NEW q \in Slot, Delete(q) PROVE TypeOK'
    <2>1. req[q] \in Request
      BY <1>0, <1>10, UnderWay DEF Delete
    <2> QED BY <1>0, <1>10, <2>1, RequestFacts DEF Delete, GoOn, table
  <1>11. ASSUME NEW q \in Slot, Destroy(q) PROVE TypeOK'
    <2>1. req[q] \in Request
      BY <1>0, <1>11, UnderWay DEF Destroy
    <2> QED BY <1>0, <1>11, <2>1, RequestFacts DEF Destroy, GoOn
  <1>12. ASSUME NEW q \in Slot, Deleted(q) PROVE TypeOK'
    <2>1. req[q] \in Request
      BY <1>0, <1>12, UnderWay DEF Deleted
    <2> QED BY <1>0, <1>12, <2>1, RequestFacts DEF Deleted, End, Respond, table
  <1>13. CASE UNCHANGED vars
    BY <1>0, <1>13 DEF vars
  <1> QED BY <1>1, <1>2, <1>3, <1>4, <1>5, <1>6, <1>7, <1>8, <1>9, <1>10, <1>11, <1>12, <1>13
          DEF Next

(* Every action keeps SessionKnown: what a response writes is a name that was known. *)
LEMMA SessionStep ==
  ASSUME AccountInv, [Next]_vars
  PROVE  SessionKnown'
  <1> USE UserAssumption DEF AccountInv, TypeOK, SessionKnown, Requests, Idle
  <1>1. ASSUME NEW q \in Slot, Start(q) PROVE SessionKnown'
    BY <1>1 DEF Start, Begin, table, Kind
  <1>2. ASSUME NEW q \in Slot, Page(q) PROVE SessionKnown'
    BY <1>2 DEF Page, At, Save, Respond, table
  <1>3. ASSUME NEW q \in Slot, Logout(q) PROVE SessionKnown'
    BY <1>3 DEF Logout, At, End, Respond, table
  <1>4. ASSUME NEW q \in Slot, Find(q) PROVE SessionKnown'
    BY <1>4 DEF Find, At, table
  <1>5. ASSUME NEW q \in Slot, Register(q) PROVE SessionKnown'
    BY <1>5 DEF Register, At, Save, Respond, GoOn, table
  <1>6. ASSUME NEW q \in Slot, Create(q) PROVE SessionKnown'
    BY <1>6 DEF Create, At, GoOn
  <1>7. ASSUME NEW q \in Slot, Created(q) PROVE SessionKnown'
    BY <1>7 DEF Created, At, Save, Respond, table
  <1>8. ASSUME NEW q \in Slot, CreateFails(q) PROVE SessionKnown'
    BY <1>8 DEF CreateFails, At
  <1>9. ASSUME NEW q \in Slot, Login(q) PROVE SessionKnown'
    BY <1>9 DEF Login, At, Save, Respond, table
  <1>10. ASSUME NEW q \in Slot, Delete(q) PROVE SessionKnown'
    BY <1>10 DEF Delete, At, GoOn, table
  <1>11. ASSUME NEW q \in Slot, Destroy(q) PROVE SessionKnown'
    BY <1>11 DEF Destroy, At, GoOn
  <1>12. ASSUME NEW q \in Slot, Deleted(q) PROVE SessionKnown'
    BY <1>12 DEF Deleted, At, End, Respond, table
  <1>13. CASE UNCHANGED vars
    BY <1>13 DEF vars
  <1> QED BY <1>1, <1>2, <1>3, <1>4, <1>5, <1>6, <1>7, <1>8, <1>9, <1>10, <1>11, <1>12, <1>13
          DEF Next

(* Every action keeps Rows. *)
LEMMA RowsStep ==
  ASSUME AccountInv, [Next]_vars
  PROVE  Rows'
  <1> USE RowsAssumption DEF AccountInv, TypeOK, Row, Rows, Admin, Idle
  <1>1. ASSUME NEW q \in Slot, Start(q) PROVE Rows'
    BY <1>1 DEF Start, Begin, table, Kind
  <1>2. ASSUME NEW q \in Slot, Page(q) PROVE Rows'
    BY <1>2 DEF Page, At, Save, Respond, table
  <1>3. ASSUME NEW q \in Slot, Logout(q) PROVE Rows'
    BY <1>3 DEF Logout, At, End, Respond, table
  <1>4. ASSUME NEW q \in Slot, Find(q) PROVE Rows'
    BY <1>4 DEF Find, At, table
  <1>5. ASSUME NEW q \in Slot, Register(q) PROVE Rows'
    BY <1>5 DEF Register, At, Save, Respond, GoOn, table
  <1>6. ASSUME NEW q \in Slot, Create(q) PROVE Rows'
    BY <1>6 DEF Create, At, GoOn
  <1>7. ASSUME NEW q \in Slot, Created(q) PROVE Rows'
    BY <1>7 DEF Created, At, Save, Respond, table
  <1>8. ASSUME NEW q \in Slot, CreateFails(q) PROVE Rows'
    BY <1>8 DEF CreateFails, At
  <1>9. ASSUME NEW q \in Slot, Login(q) PROVE Rows'
    BY <1>9 DEF Login, At, Save, Respond, table
  <1>10. ASSUME NEW q \in Slot, Delete(q) PROVE Rows'
    BY <1>10 DEF Delete, At, GoOn, table
  <1>11. ASSUME NEW q \in Slot, Destroy(q) PROVE Rows'
    BY <1>11 DEF Destroy, At, GoOn
  <1>12. ASSUME NEW q \in Slot, Deleted(q) PROVE Rows'
    BY <1>12 DEF Deleted, At, End, Respond, table
  <1>13. CASE UNCHANGED vars
    BY <1>13 DEF vars
  <1> QED BY <1>1, <1>2, <1>3, <1>4, <1>5, <1>6, <1>7, <1>8, <1>9, <1>10, <1>11, <1>12, <1>13
          DEF Next

(* Every action keeps Requests. *)
LEMMA RequestsStep ==
  ASSUME AccountInv, [Next]_vars
  PROVE  Requests'
  <1> USE UserAssumption DEF TypeOK, Requests
  <1>0. TypeOK /\ Rows /\ SessionKnown
    BY DEF AccountInv
  <1>14. Requests
    BY DEF AccountInv
  <1>1. ASSUME NEW q \in Slot, Start(q) PROVE Requests'
    <2>1. PICK s \in Session, new \in BOOLEAN, who \in User \cup {None} :
              /\ Begin(q, s, who, new) /\ who \in {store[s], None} /\ UNCHANGED <<table, store>>
      BY <1>0, <1>1, StartFacts
    <2>2. PICK x \in Request : /\ req' = [req EXCEPT ![q] = x]
                               /\ x.who = who /\ x.row = NoRow /\ x.at \in {"handler", "find"}
      BY <1>0, <2>1, BeginFacts
    <2>3. who \in known \cup {None}
      BY <1>0, <2>1 DEF SessionKnown
    <2> QED BY <1>0, <1>14, <2>1, <2>2, <2>3 DEF table
  <1>2. ASSUME NEW q \in Slot, Page(q) PROVE Requests'
    <2>1. req' = [req EXCEPT ![q] = Idle] /\ known' = known
      BY <1>2 DEF Page, Save, Respond, table
    <2> QED BY <1>0, <1>14, <2>1
  <1>3. ASSUME NEW q \in Slot, Logout(q) PROVE Requests'
    <2>1. req' = [req EXCEPT ![q] = Idle] /\ known' = known
      BY <1>3 DEF Logout, End, Respond, table
    <2> QED BY <1>0, <1>14, <2>1
  <1>4. ASSUME NEW q \in Slot, Find(q) PROVE Requests'
    <2>1. req[q] \in Request
      BY <1>0, <1>4, UnderWay DEF Find
    <2>2. /\ req' = [req EXCEPT ![q].at = "found", ![q].row = FindOne(req[q].name)]
          /\ known' = known
      BY <1>4 DEF Find, table
    <2>3. \A r \in rows : r.name \in known
      BY <1>0 DEF Rows
    <2>4. FindOne(req[q].name) # NoRow =>
              FindOne(req[q].name).name = req[q].name /\ req[q].name \in known
      BY <2>1, <2>3, RequestFacts, FindOneFacts
    <2>5. req[q] # Idle /\ req[q].who \in known \cup {None}
      BY <1>14, <2>1, RequestFacts
    <2>6. ASSUME NEW p \in Slot, p # q PROVE req'[p] = req[p]
      BY <1>0, <2>2, <2>6
    <2>7. /\ req'[q].who = req[q].who /\ req'[q].name = req[q].name
          /\ req'[q].row = FindOne(req[q].name) /\ req'[q].at = "found"
      BY <1>0, <2>1, <2>2 DEF Request
    <2>8. ASSUME NEW p \in Slot, req'[p] # Idle
          PROVE  /\ req'[p].who \in known \cup {None}
                 /\ req'[p].row # NoRow => req'[p].row.name = req'[p].name /\ req'[p].name \in known
                 /\ req'[p].at = "created" => req'[p].name \in known
      <3>1. CASE p = q
        BY <2>4, <2>5, <2>7, <3>1
      <3>2. CASE p # q
        BY <1>14, <2>6, <2>8, <3>2
      <3> QED BY <3>1, <3>2
    <2> QED BY <2>2, <2>8
  <1>5. ASSUME NEW q \in Slot, Register(q) PROVE Requests'
    <2>1. req[q] \in Request /\ known' = known
      BY <1>0, <1>5, UnderWay DEF Register, table
    <2>2. req' = [req EXCEPT ![q].at = "create"] \/ req' = [req EXCEPT ![q] = Idle]
      BY <1>5 DEF Register, Save, Respond, GoOn
    <2>3. ASSUME NEW p \in Slot, p # q PROVE req'[p] = req[p]
      BY <1>0, <2>2, <2>3
    <2>4. \/ req'[q] = Idle
          \/ /\ req'[q].who = req[q].who /\ req'[q].name = req[q].name
             /\ req'[q].row = req[q].row /\ req'[q].at # "created"
      BY <1>0, <2>1, <2>2 DEF Request
    <2>5. req[q] # Idle
      BY <2>1, RequestFacts
    <2> QED BY <1>14, <2>1, <2>3, <2>4, <2>5
  <1>6. ASSUME NEW q \in Slot, Create(q) PROVE Requests'
    <2>1. req[q] \in Request
      BY <1>0, <1>6, UnderWay DEF Create
    <2>2. /\ req' = [req EXCEPT ![q].at = "created"] /\ known' = known \cup {req[q].name}
      BY <1>6 DEF Create, GoOn
    <2>3. ASSUME NEW p \in Slot, p # q PROVE req'[p] = req[p]
      BY <1>0, <2>2, <2>3
    <2>4. /\ req'[q].who = req[q].who /\ req'[q].name = req[q].name /\ req'[q].row = req[q].row
      BY <1>0, <2>1, <2>2 DEF Request
    <2>5. req[q] # Idle
      BY <2>1, RequestFacts
    <2> QED BY <1>14, <2>2, <2>3, <2>4, <2>5
  <1>7. ASSUME NEW q \in Slot, Created(q) PROVE Requests'
    <2>1. req' = [req EXCEPT ![q] = Idle] /\ known' = known
      BY <1>7 DEF Created, Save, Respond, table
    <2> QED BY <1>0, <1>14, <2>1
  <1>8. ASSUME NEW q \in Slot, CreateFails(q) PROVE Requests'
    BY <1>0, <1>8 DEF CreateFails
  <1>9. ASSUME NEW q \in Slot, Login(q) PROVE Requests'
    <2>1. req' = [req EXCEPT ![q] = Idle] /\ known' = known
      BY <1>9 DEF Login, Save, Respond, table
    <2> QED BY <1>0, <1>14, <2>1
  <1>10. ASSUME NEW q \in Slot, Delete(q) PROVE Requests'
    <2>1. req[q] \in Request /\ known' = known
      BY <1>0, <1>10, UnderWay DEF Delete, table
    <2>2. req' = [req EXCEPT ![q].at = "destroy"] \/ req' = [req EXCEPT ![q] = Idle]
      BY <1>10 DEF Delete, GoOn
    <2>3. ASSUME NEW p \in Slot, p # q PROVE req'[p] = req[p]
      BY <1>0, <2>2, <2>3
    <2>4. \/ req'[q] = Idle
          \/ /\ req'[q].who = req[q].who /\ req'[q].name = req[q].name
             /\ req'[q].row = req[q].row /\ req'[q].at # "created"
      BY <1>0, <2>1, <2>2 DEF Request
    <2>5. req[q] # Idle
      BY <2>1, RequestFacts
    <2> QED BY <1>14, <2>1, <2>3, <2>4, <2>5
  <1>11. ASSUME NEW q \in Slot, Destroy(q) PROVE Requests'
    <2>1. req[q] \in Request /\ known' = known
      BY <1>0, <1>11, UnderWay DEF Destroy, table
    <2>2. req' = [req EXCEPT ![q].at = "gone"] \/ req' = [req EXCEPT ![q] = Idle]
      BY <1>11 DEF Destroy, GoOn
    <2>3. ASSUME NEW p \in Slot, p # q PROVE req'[p] = req[p]
      BY <1>0, <2>2, <2>3
    <2>4. \/ req'[q] = Idle
          \/ /\ req'[q].who = req[q].who /\ req'[q].name = req[q].name
             /\ req'[q].row = req[q].row /\ req'[q].at # "created"
      BY <1>0, <2>1, <2>2 DEF Request
    <2>5. req[q] # Idle
      BY <2>1, RequestFacts
    <2> QED BY <1>14, <2>1, <2>3, <2>4, <2>5
  <1>12. ASSUME NEW q \in Slot, Deleted(q) PROVE Requests'
    <2>1. req' = [req EXCEPT ![q] = Idle] /\ known' = known
      BY <1>12 DEF Deleted, End, Respond, table
    <2> QED BY <1>0, <1>14, <2>1
  <1>13. CASE UNCHANGED vars
    BY <1>14, <1>13 DEF vars
  <1> QED BY <1>1, <1>2, <1>3, <1>4, <1>5, <1>6, <1>7, <1>8, <1>9, <1>10, <1>11, <1>12, <1>13
          DEF Next

(* The invariant holds initially. *)
LEMMA InvInit == Init => AccountInv
  BY UserAssumption, RowsAssumption
  DEF Init, AccountInv, TypeOK, SessionKnown, Rows, Requests, Row, Admin, Idle, None, Absent

(* The inductive invariant holds, however many requests overlap. *)
THEOREM AccountInvariant == Spec => []AccountInv
  <1>1. AccountInv /\ [Next]_vars => AccountInv'
    BY TypeStep, SessionStep, RowsStep, RequestsStep DEF AccountInv
  <1> QED BY InvInit, <1>1, PTL DEF Spec

(* Nobody is logged in under a name that never was an account. *)
THEOREM OnlyKnownNames == Spec => []SessionKnown
  BY AccountInvariant, PTL DEF AccountInv

(* An account that vanishes alone is the one its request had found. *)
LEMMA RemovedStep ==
  ASSUME AccountInv, [Next]_vars, Cardinality(Removed) = 1, made' = made, rows' # {}
  PROVE  \E q \in Slot : At(q, "destroy", {"delete"}) /\ req[q].row \in Removed
  <1>1. Removed # {}
    BY FS_EmptySet
  <1>2. PICK r \in rows : r \notin rows'
    BY <1>1 DEF Removed
  <1>3. ASSUME NEW q \in Slot, CreateFails(q) PROVE FALSE
    <2>1. made = 1 /\ rows' = {Admin}
      BY <1>3 DEF CreateFails
    <2>2. r.id = 1
      BY <1>2, <2>1 DEF AccountInv, TypeOK, Row, Rows
    <2> QED BY <1>2, <2>1, <2>2 DEF AccountInv, Rows
  <1>4. ASSUME NEW q \in Slot, Destroy(q)
        PROVE  At(q, "destroy", {"delete"}) /\ req[q].row \in Removed
    <2>1. rows' = rows \ Selected(req[q].row)
      BY <1>4 DEF Destroy
    <2>2. req[q].row # NoRow
      BY <2>1 DEF Selected
    <2>3. r = req[q].row
      BY <1>2, <2>1, <2>2 DEF Selected
    <2> QED BY <1>2, <1>4, <2>3 DEF Destroy, Removed
  <1>5. ASSUME NEW q \in Slot, Create(q) PROVE FALSE
    BY <1>2, <1>5 DEF Create
  <1>6. ASSUME UNCHANGED rows PROVE FALSE
    BY <1>2, <1>6
  <1>7. \/ UNCHANGED rows
        \/ \E q \in Slot : Create(q) \/ CreateFails(q) \/ Destroy(q)
    BY DEF Next, vars, table, Start, Page, Logout, Find, Register, Created, Login, Delete, Deleted
  <1> QED BY <1>3, <1>4, <1>5, <1>6, <1>7

(* A request that deletes one account deletes the one its handler found. *)
THEOREM DeletesFound == Spec => DeletesWhatItFound
  BY AccountInvariant, RemovedStep, PTL DEF Spec, DeletesWhatItFound

-----------------------------------------------------------------------------
(* Who deletes what, and what takes overlapping requests. *)

\* A request to delete was allowed when it began.
Owners == \A q \in Slot : req[q].kind = "delete" => MayDelete(req[q].who, req[q].name)

(* A request stays what it was when it began, until its response. *)
LEMMA SameRequest ==
  ASSUME TypeOK, [Next]_vars, \A q \in Slot : ~Start(q), NEW p \in Slot
  PROVE  \/ req'[p] = Idle
         \/ /\ req'[p].kind = req[p].kind /\ req'[p].who = req[p].who
            /\ req'[p].name = req[p].name
  <1> USE DEF TypeOK
  <1>1. ASSUME NEW q \in Slot, req[q] \in Request, NEW at,
               \/ req' = [req EXCEPT ![q] = Idle] \/ req' = [req EXCEPT ![q].at = at]
               \/ req' = [req EXCEPT ![q].at = at, ![q].row = FindOne(req[q].name)]
        PROVE  \/ req'[p] = Idle
               \/ /\ req'[p].kind = req[p].kind /\ req'[p].who = req[p].who
                  /\ req'[p].name = req[p].name
    <2>1. req[q] \in [at : {"handler", "find", "found", "create", "created", "destroy", "gone"},
                      kind : Kind, sess : Session, new : BOOLEAN, who : User \cup {None},
                      name : User, row : Row \cup {NoRow}]
      BY <1>1 DEF Request
    <2>2. p # q => req'[p] = req[p]
      BY <1>1
    <2>3. CASE p = q
      BY <1>1, <2>1, <2>3
    <2> QED BY <2>2, <2>3
  <1>2. ASSUME NEW q \in Slot, Page(q) \/ Created(q) \/ Login(q) \/ Logout(q) \/ Deleted(q)
        PROVE  req[q] \in Request /\ req' = [req EXCEPT ![q] = Idle]
    <2>1. req' = [req EXCEPT ![q] = Idle]
      BY <1>2 DEF Page, Created, Login, Logout, Deleted, Save, End, Respond
    <2>2. req[q] \in Request
      BY <1>2, UnderWay DEF Page, Created, Login, Logout, Deleted
    <2> QED BY <2>1, <2>2
  <1>3. ASSUME NEW q \in Slot, Register(q)
        PROVE  /\ req[q] \in Request
               /\ req' = [req EXCEPT ![q] = Idle] \/ req' = [req EXCEPT ![q].at = "create"]
    <2>1. req[q] \in Request
      BY <1>3, UnderWay DEF Register
    <2> QED BY <1>3, <2>1 DEF Register, Save, Respond, GoOn
  <1>4. ASSUME NEW q \in Slot, Create(q) \/ Delete(q) \/ Destroy(q)
        PROVE  req[q] \in Request /\ \E at : req' = [req EXCEPT ![q].at = at]
    <2>1. req[q] \in Request
      BY <1>4, UnderWay DEF Create, Delete, Destroy
    <2> QED BY <1>4, <2>1 DEF Create, Delete, Destroy, GoOn
  <1>5. ASSUME NEW q \in Slot, Find(q)
        PROVE  /\ req[q] \in Request
               /\ req' = [req EXCEPT ![q].at = "found", ![q].row = FindOne(req[q].name)]
    <2>1. req[q] \in Request
      BY <1>5, UnderWay DEF Find
    <2> QED BY <1>5, <2>1 DEF Find
  <1>6. ASSUME NEW q \in Slot, CreateFails(q)
        PROVE  req'[p] = Idle
    BY <1>6 DEF CreateFails
  <1>7. CASE UNCHANGED vars
    BY <1>7 DEF vars
  <1> QED BY <1>1, <1>2, <1>3, <1>4, <1>5, <1>6, <1>7 DEF Next

(* Every action keeps Owners. *)
LEMMA OwnersStep == AccountInv /\ Owners /\ [Next]_vars => Owners'
  <1> SUFFICES ASSUME AccountInv, Owners, [Next]_vars
               PROVE  Owners'
    OBVIOUS
  <1>0. TypeOK
    BY DEF AccountInv
  <1>1. ASSUME NEW q \in Slot, Start(q) PROVE Owners'
    <2>1. PICK s \in Session, new \in BOOLEAN, who \in User \cup {None} : Begin(q, s, who, new)
      BY <1>0, <1>1, StartFacts
    <2>2. PICK kind \in Kind, n \in User :
              /\ kind = "delete" => MayDelete(who, n)
              /\ req' = [req EXCEPT ![q] =
                     [at |-> IF kind \in {"logout", "page"} THEN "handler" ELSE "find",
                      kind |-> kind, sess |-> s, new |-> new, who |-> who, name |-> n,
                      row |-> NoRow]]
      BY <2>1 DEF Begin
    <2>3. /\ req'[q].kind = kind /\ req'[q].who = who /\ req'[q].name = n
          /\ \A p \in Slot : p # q => req'[p] = req[p]
      BY <1>0, <2>2 DEF TypeOK
    <2> QED BY <2>2, <2>3 DEF Owners, MayDelete
  <1>2. CASE \A q \in Slot : ~Start(q)
    <2>1. ASSUME NEW p \in Slot, req'[p].kind = "delete"
          PROVE  MayDelete(req'[p].who, req'[p].name)
      <3>1. Idle.kind # "delete"
        BY DEF Idle, None
      <3>2. /\ req'[p].kind = req[p].kind /\ req'[p].who = req[p].who
            /\ req'[p].name = req[p].name
        BY <1>0, <1>2, <2>1, <3>1, SameRequest
      <3> QED BY <2>1, <3>2 DEF Owners
    <2> QED BY <2>1 DEF Owners, MayDelete
  <1> QED BY <1>1, <1>2

\* The row goes because its request had found it and its user may delete it, or because a
\* request had found nothing; or the server starts again.
Rightly(r) ==
    \/ \E q \in Slot : CreateFails(q)
    \/ \E q \in Slot : /\ Destroy(q)
                       /\ \/ req[q].row = r /\ MayDelete(req[q].who, r.name)
                          \/ req[q].row = NoRow

DeletesOwnOrNothingFound == [][\A r \in Removed : Rightly(r)]_vars

(* What vanishes in a step. *)
LEMMA VanishStep ==
  ASSUME AccountInv, Owners, [Next]_vars, NEW r \in Removed
  PROVE  Rightly(r)
  <1>1. r \in rows /\ r \notin rows'
    BY DEF Removed
  <1>2. ASSUME NEW q \in Slot, Destroy(q)
        PROVE  \/ req[q].row = r /\ MayDelete(req[q].who, r.name)
               \/ req[q].row = NoRow
    <2> SUFFICES ASSUME req[q].row # NoRow
                 PROVE  req[q].row = r /\ MayDelete(req[q].who, r.name)
      OBVIOUS
    <2>1. r = req[q].row
      BY <1>1, <1>2 DEF Destroy, Selected
    <2>2. req[q] \in Request /\ req[q].kind = "delete"
      BY <1>2, UnderWay DEF AccountInv, Destroy, At
    <2>3. req[q].row.name = req[q].name
      BY <2>2, RequestFacts DEF AccountInv, Requests
    <2> QED BY <2>1, <2>2, <2>3 DEF Owners
  <1>3. ASSUME NEW q \in Slot, Create(q) PROVE FALSE
    BY <1>1, <1>3 DEF Create
  <1>4. ASSUME UNCHANGED rows PROVE FALSE
    BY <1>1, <1>4
  <1>5. \/ UNCHANGED rows
        \/ \E q \in Slot : Create(q) \/ CreateFails(q) \/ Destroy(q)
    BY DEF Next, vars, table, Start, Page, Logout, Find, Register, Created, Login, Delete, Deleted
  <1> QED BY <1>2, <1>3, <1>4, <1>5 DEF Rightly

(* What index.js:213 says of deletions ("general user can only delete itself") holds, with *)
(* any number of overlapping requests and sessions of one user, but for the one case of a  *)
(* request that has found nothing, whose condition is empty: any other account vanishes    *)
(* only in a request of its user or of admin that had found this very row.                 *)
THEOREM DeletesOwn == Spec => DeletesOwnOrNothingFound
  <1>1. Init => Owners
    BY DEF Init, Owners, Idle, None
  <1>2. AccountInv /\ Owners /\ [Next]_vars => [\A r \in Removed : Rightly(r)]_vars
    BY VanishStep
  <1> QED BY <1>1, <1>2, AccountInvariant, OwnersStep, PTL DEF Spec, DeletesOwnOrNothingFound
=============================================================================
