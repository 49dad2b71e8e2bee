---------------------------- MODULE SharrProofs ----------------------------
(***************************************************************************)
(* For an array of any size and any contents, in every interleaving: the   *)
(* file stays as small as its layout says; the two processes of pwn/sharr  *)
(* keep in step and implement an array, whatever signals end either of     *)
(* them, until an access is done where the other has moved the offset.     *)
(***************************************************************************)
EXTENDS SharrProperties, TLAPS

(* The invariant holds initially. *)
LEMMA HandshakeInit == HistInit => Handshake
  BY SizeAssumption, WordAssumption
  DEF HistInit, Init, Handshake, TypeOK, FileBounded, Due, Usable, IfaceLine, CoreLine, InBounds, IfaceLocations,
      CoreLocations, Pair, Proc, Index, Limit, Serving, WAIT, EDIT, SHOW, EXIT

\* A read or write of this step is done where its process sought.
OnTarget == \A p \in alive' : sought[p] /\ ~sought'[p] => off = Offset[pc[p]]

(* Until an access goes astray, every one is on its target. *)
LEMMA NoneStray ==
  ASSUME Handshake, [HistNext]_hvars, stray' = 0
  PROVE  stray = 0 /\ OnTarget
  BY DEF Handshake, TypeOK, HistNext, hvars, vars, GoesAstray, OnTarget

(* A write leaves a file of words, no longer than Limit. *)
LEMMA PutKeeps ==
  ASSUME TypeOK, FileBounded, NEW p \in Proc, NEW loc, NEW n \in 1 .. 2, NEW data, NEW next,
         \A i \in 1 .. n : data[i] \in Word, Put(p, loc, n, data, next)
  PROVE  /\ file' \in [1 .. Limit -> Word] /\ size' \in 6 .. Limit /\ off' \in 0 .. size'
         /\ sought' \in [Proc -> BOOLEAN]
         /\ FileBounded'
<1> USE DEF Put, Limit
<1>1. off \in Nat /\ size \in Nat /\ off <= size /\ size \in 6 .. Limit /\ n \in Nat /\ n <= 2
  BY DEF TypeOK
<1>2. sought[p] /\ sought' \in [Proc -> BOOLEAN]
  BY DEF TypeOK
<1>3. sought' = [sought EXCEPT ![p] = FALSE]
  OBVIOUS
<1>4. off + n + Due("iface")' + Due("core")' <= Limit /\ Due("iface")' \in 0 .. 2 /\ Due("core")' \in 0 .. 2
  BY <1>1, <1>2, <1>3 DEF FileBounded, Due, Proc, TypeOK
<1>5. ASSUME NEW i \in 1 .. Limit PROVE file'[i] \in Word
  <2>1. CASE i \in off + 1 .. off + n
    <3>1. i - off \in 1 .. n
      BY <1>1, <2>1
    <3>2. file'[i] = data[i - off]
      BY <2>1
    <3> QED BY <3>1, <3>2
  <2>2. CASE i \notin off + 1 .. off + n
    BY <2>2 DEF TypeOK
  <2> QED BY <2>1, <2>2
<1>6. file' \in [1 .. Limit -> Word]
  BY <1>5
<1>7. off' = off + n /\ size' \in 6 .. Limit /\ off' \in 0 .. size'
  BY <1>1, <1>4
<1> QED BY <1>2, <1>4, <1>6, <1>7 DEF FileBounded

(* The same of a whole number, two words. *)
LEMMA PutPairKeeps ==
  ASSUME TypeOK, FileBounded, NEW p \in Proc, NEW loc, NEW data \in Pair, NEW next,
         Put(p, loc, 2, data, next)
  PROVE  /\ file' \in [1 .. Limit -> Word] /\ size' \in 6 .. Limit /\ off' \in 0 .. size'
         /\ sought' \in [Proc -> BOOLEAN]
         /\ FileBounded'
<1>1. 2 \in 1 .. 2 /\ \A i \in 1 .. 2 : data[i] \in Word
  BY DEF Pair
<1> QED BY <1>1, PutKeeps

(* A read moves the offset within the file. *)
LEMMA GetKeeps ==
  ASSUME TypeOK, FileBounded, NEW p \in Proc, NEW loc, NEW n \in 1 .. 2, NEW got,
         Get(p, loc, n, got)
  PROVE  /\ off' \in 0 .. size /\ sought' \in [Proc -> BOOLEAN] /\ UNCHANGED <<file, size>>
         /\ FileBounded'
<1> USE DEF Get, Limit
<1>1. off \in Nat /\ size \in Nat /\ off <= size /\ size \in 6 .. Limit /\ n \in Nat /\ n <= 2
  BY DEF TypeOK
<1>2. sought[p] /\ sought' \in [Proc -> BOOLEAN] /\ UNCHANGED <<file, size>>
  BY DEF TypeOK
<1>3. sought' = [sought EXCEPT ![p] = FALSE]
  OBVIOUS
<1>4. off + n + Due("iface")' + Due("core")' <= Limit /\ Due("iface")' \in 0 .. 2 /\ Due("core")' \in 0 .. 2
  BY <1>1, <1>2, <1>3 DEF FileBounded, Due, Proc, TypeOK
<1>5. off' <= off + n /\ off' \in 0 .. size
  BY <1>1
<1> QED BY <1>1, <1>2, <1>4, <1>5 DEF FileBounded

(* Every action keeps types and bounds, wherever the offset is when it reads or writes. *)
LEMMA TypesStep ==
  ASSUME TypeOK, FileBounded, Usable, [HistNext]_hvars
  PROVE  TypeOK' /\ FileBounded' /\ Usable'
<1> USE SizeAssumption, WordAssumption, ValueAssumption
<1>1. stray' \in Nat
  BY DEF TypeOK, HistNext, hvars
<1>2. [Next]_vars
  BY DEF HistNext, hvars
<1>3. CASE Menu
  <2>1. /\ pc["iface"] = "menu" /\ UNCHANGED <<sought, alive, file, size, off, answer, idx, arr>>
        /\ \E loc \in {"setIndex", "setCommand"} : pc' = [pc EXCEPT !["iface"] = loc]
    BY <1>3 DEF Menu, Goto
  <2>2. req' \in [cmd : {WAIT, EDIT, SHOW, EXIT}, idx : Index, val : Pair]
    <3>1. CASE \E i \in -1 .. Size, v \in Value : InRange(i) /\ req' = [cmd |-> EDIT, idx |-> i, val |-> v]
      BY <3>1 DEF InRange, Index, Pair
    <3>2. CASE \E i \in -1 .. Size : InRange(i) /\ req' = [req EXCEPT !.cmd = SHOW, !.idx = i]
      <4>1. PICK i \in -1 .. Size : InRange(i) /\ req' = [req EXCEPT !.cmd = SHOW, !.idx = i]
        BY <3>2
      <4>2. i \in Index
        BY <4>1 DEF InRange, Index
      <4> QED BY <4>1, <4>2 DEF TypeOK
    <3>3. CASE req' = [req EXCEPT !.cmd = EXIT]
      BY <3>3 DEF TypeOK
    <3> QED BY <1>3, <3>1, <3>2, <3>3 DEF Menu
  <2>3. DOMAIN pc' = Proc /\ pc'["iface"] \in IfaceLocations /\ pc'["core"] = pc["core"]
    BY <2>1 DEF TypeOK, Proc, IfaceLocations
  <2> QED BY <1>1, <2>1, <2>2, <2>3 DEF TypeOK, FileBounded, Due, Usable, Defined
<1>4. CASE SetIndex
  <2>1. Put("iface", "setIndex", 2, <<req.idx, 0>>, AfterIndex) /\ UNCHANGED <<alive, req, answer, idx, arr>>
    BY <1>4 DEF SetIndex
  <2>2. <<req.idx, 0>> \in Pair
    <3>1. req.idx \in Index
      BY DEF TypeOK
    <3>2. 0 \in 0 .. 3
      OBVIOUS
    <3>3. 0 \in Word /\ req.idx \in Word
      BY <3>1, <3>2
    <3> QED BY <3>3 DEF Pair
  <2>3. /\ file' \in [1 .. Limit -> Word] /\ size' \in 6 .. Limit /\ off' \in 0 .. size'
        /\ sought' \in [Proc -> BOOLEAN] /\ FileBounded'
    BY <2>1, <2>2, PutPairKeeps DEF Proc
  <2>4. DOMAIN pc' = Proc /\ pc'["iface"] \in IfaceLocations /\ pc'["core"] = pc["core"]
    BY <2>1 DEF Put, TypeOK, Proc, IfaceLocations, AfterIndex
  <2> QED BY <1>1, <2>1, <2>3, <2>4 DEF TypeOK, Usable, Defined
<1>5. CASE SetValue
  <2>1. Put("iface", "setValue", 2, req.val, "setCommand") /\ UNCHANGED <<alive, req, answer, idx, arr>>
    BY <1>5 DEF SetValue
  <2>2. req.val \in Pair
    BY DEF TypeOK
  <2>3. /\ file' \in [1 .. Limit -> Word] /\ size' \in 6 .. Limit /\ off' \in 0 .. size'
        /\ sought' \in [Proc -> BOOLEAN] /\ FileBounded'
    BY <2>1, <2>2, PutPairKeeps DEF Proc
  <2>4. DOMAIN pc' = Proc /\ pc'["iface"] \in IfaceLocations /\ pc'["core"] = pc["core"]
    BY <2>1 DEF Put, TypeOK, Proc, IfaceLocations
  <2> QED BY <1>1, <2>1, <2>3, <2>4 DEF TypeOK, Usable, Defined
<1>6. CASE SetCommand
  <2>1. /\ Put("iface", "setCommand", 1, <<req.cmd>>,
               IF req.cmd = EXIT THEN "gone" ELSE "waitResponse")
        /\ UNCHANGED <<alive, req, answer, idx, arr>>
    BY <1>6 DEF SetCommand
  <2>2. /\ \A i \in 1 .. 1 : <<req.cmd>>[i] \in Word
        /\ 1 \in 1 .. 2
    BY DEF TypeOK, WAIT, EDIT, SHOW, EXIT
  <2>5. PICK next \in {"gone", "waitResponse"} : Put("iface", "setCommand", 1, <<req.cmd>>, next)
    BY <2>1
  <2>3. /\ file' \in [1 .. Limit -> Word] /\ size' \in 6 .. Limit /\ off' \in 0 .. size'
        /\ sought' \in [Proc -> BOOLEAN] /\ FileBounded'
    BY <2>2, <2>5, PutKeeps DEF Proc
  <2>4. DOMAIN pc' = Proc /\ pc'["iface"] \in IfaceLocations /\ pc'["core"] = pc["core"]
    BY <2>1 DEF Put, TypeOK, Proc, IfaceLocations
  <2> QED BY <1>1, <2>1, <2>3, <2>4 DEF TypeOK, Usable, Defined
<1>7. CASE WaitResponse
  <2>1. PICK c \in Word :
          /\ Get("iface", "waitResponse", 1, <<c>>)
          /\ Goto("iface", IF ~Answered(c) THEN "waitResponse"
                           ELSE IF req.cmd = SHOW THEN "getResult" ELSE "menu")
    BY <1>7 DEF WaitResponse
  <2>2. UNCHANGED <<alive, req, answer, idx, arr>>
    BY <1>7 DEF WaitResponse
  <2>3. /\ off' \in 0 .. size /\ sought' \in [Proc -> BOOLEAN] /\ UNCHANGED <<file, size>>
        /\ FileBounded'
    BY <2>1, GetKeeps DEF Proc
  <2>4. DOMAIN pc' = Proc /\ pc'["iface"] \in IfaceLocations /\ pc'["core"] = pc["core"]
    BY <2>1 DEF Goto, TypeOK, Proc, IfaceLocations
  <2> QED BY <1>1, <2>2, <2>3, <2>4 DEF TypeOK, Usable, Defined
<1>8. CASE GetResult
  <2>1. /\ answer' \in Pair /\ Get("iface", "getResult", 2, answer') /\ Goto("iface", "menu")
        /\ UNCHANGED <<alive, req, idx, arr>>
    BY <1>8 DEF GetResult, Pair
  <2>2. /\ off' \in 0 .. size /\ sought' \in [Proc -> BOOLEAN] /\ UNCHANGED <<file, size>>
        /\ FileBounded'
    BY <2>1, GetKeeps DEF Proc
  <2>3. DOMAIN pc' = Proc /\ pc'["iface"] \in IfaceLocations /\ pc'["core"] = pc["core"]
    BY <2>1 DEF Goto, TypeOK, Proc, IfaceLocations
  <2> QED BY <1>1, <2>1, <2>2, <2>3 DEF TypeOK, Usable, Defined
<1>9. CASE Calloc \/ Reap
  <2>1. /\ UNCHANGED <<sought, alive, file, size, off, req, answer, idx, arr>>
        /\ \E loc \in {"waitRequest", "reap", "gone"} : pc' = [pc EXCEPT !["core"] = loc]
    BY <1>9 DEF Calloc, Reap, Goto
  <2>2. DOMAIN pc' = Proc /\ pc'["iface"] = pc["iface"] /\ pc'["core"] \in {"waitRequest", "reap", "gone"}
    BY <2>1 DEF TypeOK, Proc
  <2> QED BY <1>1, <2>1, <2>2 DEF TypeOK, FileBounded, Due, Usable, CoreLocations
<1>10. CASE WaitRequest
  <2>1. PICK c \in Word : /\ Get("core", "waitRequest", 1, <<c>>)
                          /\ Goto("core", IF c = WAIT THEN "waitRequest" ELSE "getCommand")
    BY <1>10 DEF WaitRequest
  <2>2. UNCHANGED <<alive, req, answer, idx, arr>>
    BY <1>10 DEF WaitRequest
  <2>3. /\ off' \in 0 .. size /\ sought' \in [Proc -> BOOLEAN] /\ UNCHANGED <<file, size>>
        /\ FileBounded'
    BY <2>1, GetKeeps DEF Proc
  <2>4. DOMAIN pc' = Proc /\ pc'["iface"] = pc["iface"] /\ pc'["core"] \in {"waitRequest", "getCommand"}
    BY <2>1 DEF Goto, TypeOK, Proc
  <2> QED BY <1>1, <2>2, <2>3, <2>4 DEF TypeOK, Usable, CoreLocations, Serving
<1>11. CASE GetCommand
  <2>1. PICK c \in Word : Get("core", "getCommand", 1, <<c>>) /\ Goto("core", Dispatch(c))
    BY <1>11 DEF GetCommand
  <2>2. UNCHANGED <<alive, req, answer, idx, arr>>
    BY <1>11 DEF GetCommand
  <2>3. /\ off' \in 0 .. size /\ sought' \in [Proc -> BOOLEAN] /\ UNCHANGED <<file, size>>
        /\ FileBounded'
    BY <2>1, GetKeeps DEF Proc
  <2>4. Dispatch(c) \in {"editIndex", "showIndex", "reap"}
    BY DEF Dispatch
  <2>5. DOMAIN pc' = Proc /\ pc'["iface"] = pc["iface"] /\ pc'["core"] \in {"editIndex", "showIndex", "reap"}
    BY <2>1, <2>4 DEF Goto, TypeOK, Proc
  <2> QED BY <1>1, <2>2, <2>3, <2>5 DEF TypeOK, Usable, CoreLocations, Serving
<1>12. CASE EditIndex
  <2>1. /\ idx' \in Pair /\ Get("core", "editIndex", 2, idx') /\ Goto("core", "editValue")
        /\ UNCHANGED <<alive, req, answer, arr>>
    BY <1>12 DEF EditIndex, Pair
  <2>2. /\ off' \in 0 .. size /\ sought' \in [Proc -> BOOLEAN] /\ UNCHANGED <<file, size>>
        /\ FileBounded'
    BY <2>1, GetKeeps DEF Proc
  <2>3. DOMAIN pc' = Proc /\ pc'["iface"] = pc["iface"] /\ pc'["core"] = "editValue"
    BY <2>1 DEF Goto, TypeOK, Proc
  <2> QED BY <1>1, <2>1, <2>2, <2>3 DEF TypeOK, Usable, CoreLocations, Serving
<1>13. CASE EditValue
  <2>1. PICK val \in Pair :
          /\ Get("core", "editValue", 2, val)
          /\ IF Defined(idx)
             THEN arr' = [arr EXCEPT ![idx[1]] = val] /\ Goto("core", "setWait")
             ELSE UNCHANGED arr /\ Goto("core", "undefined")
    BY <1>13 DEF EditValue, Pair
  <2>2. UNCHANGED <<alive, req, answer, idx>>
    BY <1>13 DEF EditValue
  <2>3. /\ off' \in 0 .. size /\ sought' \in [Proc -> BOOLEAN] /\ UNCHANGED <<file, size>>
        /\ FileBounded'
    BY <2>1, GetKeeps DEF Proc
  <2>4. arr' \in [Index -> Pair]
    BY <2>1 DEF TypeOK
  <2>5. DOMAIN pc' = Proc /\ pc'["iface"] = pc["iface"] /\ pc'["core"] \in {"setWait", "undefined"}
    BY <2>1 DEF Goto, TypeOK, Proc
  <2> QED BY <1>1, <2>2, <2>3, <2>4, <2>5 DEF TypeOK, Usable, CoreLocations, Serving
<1>14. CASE ShowIndex
  <2>1. /\ idx' \in Pair /\ Get("core", "showIndex", 2, idx')
        /\ Goto("core", IF Defined(idx') THEN "giveValue" ELSE "undefined")
        /\ UNCHANGED <<alive, req, answer, arr>>
    BY <1>14 DEF ShowIndex, Pair
  <2>2. /\ off' \in 0 .. size /\ sought' \in [Proc -> BOOLEAN] /\ UNCHANGED <<file, size>>
        /\ FileBounded'
    BY <2>1, GetKeeps DEF Proc
  <2>3. /\ DOMAIN pc' = Proc /\ pc'["iface"] = pc["iface"] /\ pc'["core"] \in {"giveValue", "undefined"}
        /\ pc'["core"] = "giveValue" => Defined(idx')
    BY <2>1 DEF Goto, TypeOK, Proc
  <2>4. Usable'
    BY <2>3 DEF Usable, Defined
  <2> QED BY <1>1, <2>1, <2>2, <2>3, <2>4 DEF TypeOK, CoreLocations, Serving
<1>15. CASE GiveValue
  <2>1. /\ Put("core", "giveValue", 2, arr[idx[1]], "setWait")
        /\ UNCHANGED <<alive, req, answer, idx, arr>>
    BY <1>15 DEF GiveValue
  <2>2. arr[idx[1]] \in Pair
    BY <2>1 DEF Put, Usable, Defined, TypeOK
  <2>3. /\ file' \in [1 .. Limit -> Word] /\ size' \in 6 .. Limit /\ off' \in 0 .. size'
        /\ sought' \in [Proc -> BOOLEAN] /\ FileBounded'
    BY <2>1, <2>2, PutPairKeeps DEF Proc
  <2>4. DOMAIN pc' = Proc /\ pc'["iface"] = pc["iface"] /\ pc'["core"] = "setWait"
    BY <2>1 DEF Put, TypeOK, Proc
  <2> QED BY <1>1, <2>1, <2>3, <2>4 DEF TypeOK, Usable, CoreLocations, Serving
<1>16. CASE SetWait
  <2>1. /\ Put("core", "setWait", 1, <<WAIT>>, AfterServing)
        /\ \A i \in 1 .. 1 : <<WAIT>>[i] \in Word
        /\ UNCHANGED <<alive, req, answer, idx, arr>>
    BY <1>16 DEF SetWait, WAIT
  <2>2. /\ file' \in [1 .. Limit -> Word] /\ size' \in 6 .. Limit /\ off' \in 0 .. size'
        /\ sought' \in [Proc -> BOOLEAN] /\ FileBounded'
    BY <2>1, PutKeeps DEF Proc
  <2>3. DOMAIN pc' = Proc /\ pc'["iface"] = pc["iface"] /\ pc'["core"] = "waitRequest"
    BY <2>1 DEF Put, AfterServing, TypeOK, Proc
  <2> QED BY <1>1, <2>1, <2>2, <2>3 DEF TypeOK, Usable, CoreLocations
<1>17. ASSUME NEW p \in Proc, Seek(p) PROVE TypeOK' /\ FileBounded' /\ Usable'
  <2>1. /\ off' = Offset[pc[p]] /\ sought' = [sought EXCEPT ![p] = TRUE]
        /\ UNCHANGED <<pc, alive, file, size, req, answer, idx, arr>>
    BY <1>17 DEF Seek
  <2>2. off' \in 0 .. 4
    BY <1>17 DEF Seek, Offset
  <2>3. off' \in 0 .. size /\ sought' \in [Proc -> BOOLEAN]
    BY <2>1, <2>2 DEF TypeOK
  <2>4. Due("iface")' \in 0 .. 2 /\ Due("core")' \in 0 .. 2
    BY DEF Due
  <2>5. FileBounded'
    BY <2>2, <2>4 DEF FileBounded, Limit
  <2> QED BY <1>1, <2>1, <2>3, <2>5 DEF TypeOK, Usable, Defined
<1>18. ASSUME NEW p \in Proc, Killed(p) PROVE TypeOK' /\ FileBounded' /\ Usable'
  <2>1. /\ sought' = [sought EXCEPT ![p] = FALSE] /\ alive' = alive \ {p}
        /\ UNCHANGED <<pc, file, size, off, req, answer, idx, arr>>
    BY <1>18 DEF Killed
  <2>2. sought' \in [Proc -> BOOLEAN]
    BY <2>1 DEF TypeOK
  <2>3. FileBounded'
    BY <2>1 DEF FileBounded, Due, TypeOK, Proc, Limit
  <2> QED BY <1>1, <2>1, <2>2, <2>3 DEF TypeOK, Usable, Defined
<1>19. CASE UNCHANGED vars
  BY <1>1, <1>19 DEF vars, TypeOK, FileBounded, Due, Usable, Defined
<1> QED
  BY <1>2, <1>3, <1>4, <1>5, <1>6, <1>7, <1>8, <1>9, <1>10, <1>11, <1>12, <1>13, <1>14, <1>15, <1>16,
     <1>17, <1>18, <1>19
  DEF Next, Iface, Core

(* Every action preserves IfaceLine. *)
LEMMA IfaceLineStep ==
  ASSUME TypeOK, IfaceLine, CoreLine, OnTarget, [Next]_vars
  PROVE  IfaceLine'
<1> USE SizeAssumption, WordAssumption, ValueAssumption
<1>0. TypeOK /\ OnTarget /\ IfaceLine /\ CoreLine
  OBVIOUS
<1>1. CASE Menu
  <2>1. CASE \E i \in -1 .. Size, v \in Value :
               /\ InRange(i)
               /\ req' = [cmd |-> EDIT, idx |-> i, val |-> v]
               /\ Goto("iface", "setIndex")
    <3>1. PICK i \in -1 .. Size, v \in Value :
               /\ InRange(i)
               /\ req' = [cmd |-> EDIT, idx |-> i, val |-> v]
               /\ Goto("iface", "setIndex")
      BY <2>1
    <3>2. i \in Index
      BY <3>1 DEF InRange, Index
    <3> QED BY <1>0, <1>1, <3>1, <3>2
      DEF Menu, InRange, Goto, TypeOK, OnTarget, IfaceLine, CoreLine, IndexSent,
          ValueSent, ValueGiven, Serving, Proc, Offset, Pair, Index, Limit, WAIT, EDIT,
          SHOW, EXIT
  <2>2. CASE \E i \in -1 .. Size :
               /\ InRange(i)
               /\ req' = [req EXCEPT !.cmd = SHOW, !.idx = i]
               /\ Goto("iface", "setIndex")
    <3>1. PICK i \in -1 .. Size :
               /\ InRange(i)
               /\ req' = [req EXCEPT !.cmd = SHOW, !.idx = i]
               /\ Goto("iface", "setIndex")
      BY <2>2
    <3>2. i \in Index
      BY <3>1 DEF InRange, Index
    <3> QED BY <1>0, <1>1, <3>1, <3>2
      DEF Menu, InRange, Goto, TypeOK, OnTarget, IfaceLine, CoreLine, IndexSent,
          ValueSent, ValueGiven, Serving, Proc, Offset, Pair, Index, Limit, WAIT, EDIT,
          SHOW, EXIT
  <2>3. CASE req' = [req EXCEPT !.cmd = EXIT] /\ Goto("iface", "setCommand")
    BY <1>0, <1>1, <2>3
    DEF Menu, InRange, Goto, TypeOK, OnTarget, IfaceLine, CoreLine, IndexSent, ValueSent,
        ValueGiven, Serving, Proc, Offset, Pair, Index, Limit, WAIT, EDIT, SHOW, EXIT
  <2> QED BY <1>1, <2>1, <2>2, <2>3 DEF Menu
<1>2. CASE SetIndex
  BY <1>0, <1>2
  DEF SetIndex, AfterIndex, Put, TypeOK, OnTarget, IfaceLine, CoreLine, IndexSent,
      ValueSent, ValueGiven, Serving, Proc, Offset, Pair, Index, Limit, WAIT, EDIT, SHOW,
      EXIT
<1>3. CASE SetValue
  BY <1>0, <1>3
  DEF SetValue, Put, TypeOK, OnTarget, IfaceLine, CoreLine, IndexSent, ValueSent,
      ValueGiven, Serving, Proc, Offset, Pair, Index, Limit, WAIT, EDIT, SHOW, EXIT
<1>4. CASE SetCommand
  BY <1>0, <1>4
  DEF SetCommand, Put, TypeOK, OnTarget, IfaceLine, CoreLine, IndexSent, ValueSent,
      ValueGiven, Serving, Proc, Offset, Pair, Index, Limit, WAIT, EDIT, SHOW, EXIT
<1>5. CASE WaitResponse
  BY <1>0, <1>5
  DEF WaitResponse, Answered, Goto, Get, TypeOK, OnTarget, IfaceLine, CoreLine, IndexSent,
      ValueSent, ValueGiven, Serving, Proc, Offset, Pair, Index, Limit, WAIT, EDIT, SHOW,
      EXIT
<1>6. CASE GetResult
  BY <1>0, <1>6
  DEF GetResult, Goto, Get, TypeOK, OnTarget, IfaceLine, CoreLine, IndexSent, ValueSent,
      ValueGiven, Serving, Proc, Offset, Pair, Index, Limit, WAIT, EDIT, SHOW, EXIT
<1>7. CASE Calloc
  BY <1>0, <1>7
  DEF Calloc, Goto, TypeOK, OnTarget, IfaceLine, CoreLine, IndexSent, ValueSent, ValueGiven,
      Serving, Proc, Offset, Pair, Index, Limit, WAIT, EDIT, SHOW, EXIT
<1>8. CASE WaitRequest
  BY <1>0, <1>8
  DEF WaitRequest, Goto, Get, TypeOK, OnTarget, IfaceLine, CoreLine, IndexSent, ValueSent,
      ValueGiven, Serving, Proc, Offset, Pair, Index, Limit, WAIT, EDIT, SHOW, EXIT
<1>9. CASE GetCommand
  BY <1>0, <1>9
  DEF GetCommand, Dispatch, Goto, Get, TypeOK, OnTarget, IfaceLine, CoreLine, IndexSent,
      ValueSent, ValueGiven, Serving, Proc, Offset, Pair, Index, Limit, WAIT, EDIT, SHOW,
      EXIT
<1>10. CASE EditIndex
  BY <1>0, <1>10
  DEF EditIndex, Goto, Get, TypeOK, OnTarget, IfaceLine, CoreLine, IndexSent, ValueSent,
      ValueGiven, Serving, Proc, Offset, Pair, Index, Limit, WAIT, EDIT, SHOW, EXIT
<1>11. CASE EditValue
  BY <1>0, <1>11
  DEF EditValue, Defined, Goto, Get, TypeOK, OnTarget, IfaceLine, CoreLine, IndexSent,
      ValueSent, ValueGiven, Serving, Proc, Offset, Pair, Index, Limit, WAIT, EDIT, SHOW,
      EXIT
<1>12. CASE ShowIndex
  BY <1>0, <1>12
  DEF ShowIndex, Defined, Goto, Get, TypeOK, OnTarget, IfaceLine, CoreLine, IndexSent,
      ValueSent, ValueGiven, Serving, Proc, Offset, Pair, Index, Limit, WAIT, EDIT, SHOW,
      EXIT
<1>13. CASE GiveValue
  BY <1>0, <1>13
  DEF GiveValue, Put, TypeOK, OnTarget, IfaceLine, CoreLine, IndexSent, ValueSent,
      ValueGiven, Serving, Proc, Offset, Pair, Index, Limit, WAIT, EDIT, SHOW, EXIT
<1>14. CASE SetWait
  BY <1>0, <1>14
  DEF SetWait, AfterServing, Put, TypeOK, OnTarget, IfaceLine, CoreLine, IndexSent,
      ValueSent, ValueGiven, Serving, Proc, Offset, Pair, Index, Limit, WAIT, EDIT, SHOW,
      EXIT
<1>15. CASE Reap
  BY <1>0, <1>15
  DEF Reap, Goto, TypeOK, OnTarget, IfaceLine, CoreLine, IndexSent, ValueSent, ValueGiven,
      Serving, Proc, Offset, Pair, Index, Limit, WAIT, EDIT, SHOW, EXIT
<1>16. ASSUME NEW p \in Proc, Seek(p) PROVE IfaceLine'
  BY <1>0, <1>16
  DEF Seek, TypeOK, OnTarget, IfaceLine, CoreLine, IndexSent, ValueSent, ValueGiven,
      Serving, Proc, Offset, Pair, Index, Limit, WAIT, EDIT, SHOW, EXIT
<1>17. ASSUME NEW p \in Proc, Killed(p) PROVE IfaceLine'
  BY <1>0, <1>17
  DEF Killed, TypeOK, OnTarget, IfaceLine, CoreLine, IndexSent, ValueSent, ValueGiven,
      Serving, Proc, Offset, Pair, Index, Limit, WAIT, EDIT, SHOW, EXIT
<1>18. CASE UNCHANGED vars
  BY <1>0, <1>18
  DEF vars, TypeOK, OnTarget, IfaceLine, CoreLine, IndexSent, ValueSent, ValueGiven,
      Serving, Proc, Offset, Pair, Index, Limit, WAIT, EDIT, SHOW, EXIT
<1> QED
  BY <1>1, <1>2, <1>3, <1>4, <1>5, <1>6, <1>7, <1>8, <1>9, <1>10, <1>11, <1>12, <1>13, <1>14, <1>15, <1>16, <1>17, <1>18
  DEF Next, Iface, Core

(* Every action preserves CoreLine. *)
LEMMA CoreLineStep ==
  ASSUME TypeOK, IfaceLine, CoreLine, OnTarget, [Next]_vars
  PROVE  CoreLine'
<1> USE SizeAssumption, WordAssumption, ValueAssumption
<1>0. TypeOK /\ OnTarget /\ IfaceLine /\ CoreLine
  OBVIOUS
<1>1. CASE Menu
  <2>1. CASE \E i \in -1 .. Size, v \in Value :
               /\ InRange(i)
               /\ req' = [cmd |-> EDIT, idx |-> i, val |-> v]
               /\ Goto("iface", "setIndex")
    <3>1. PICK i \in -1 .. Size, v \in Value :
               /\ InRange(i)
               /\ req' = [cmd |-> EDIT, idx |-> i, val |-> v]
               /\ Goto("iface", "setIndex")
      BY <2>1
    <3>2. i \in Index
      BY <3>1 DEF InRange, Index
    <3> QED BY <1>0, <1>1, <3>1, <3>2
      DEF Menu, InRange, Goto, TypeOK, OnTarget, IfaceLine, CoreLine, IndexSent,
          ValueSent, ValueGiven, Serving, Proc, Offset, Pair, Index, Limit, WAIT, EDIT,
          SHOW, EXIT
  <2>2. CASE \E i \in -1 .. Size :
               /\ InRange(i)
               /\ req' = [req EXCEPT !.cmd = SHOW, !.idx = i]
               /\ Goto("iface", "setIndex")
    <3>1. PICK i \in -1 .. Size :
               /\ InRange(i)
               /\ req' = [req EXCEPT !.cmd = SHOW, !.idx = i]
               /\ Goto("iface", "setIndex")
      BY <2>2
    <3>2. i \in Index
      BY <3>1 DEF InRange, Index
    <3> QED BY <1>0, <1>1, <3>1, <3>2
      DEF Menu, InRange, Goto, TypeOK, OnTarget, IfaceLine, CoreLine, IndexSent,
          ValueSent, ValueGiven, Serving, Proc, Offset, Pair, Index, Limit, WAIT, EDIT,
          SHOW, EXIT
  <2>3. CASE req' = [req EXCEPT !.cmd = EXIT] /\ Goto("iface", "setCommand")
    BY <1>0, <1>1, <2>3
    DEF Menu, InRange, Goto, TypeOK, OnTarget, IfaceLine, CoreLine, IndexSent, ValueSent,
        ValueGiven, Serving, Proc, Offset, Pair, Index, Limit, WAIT, EDIT, SHOW, EXIT
  <2> QED BY <1>1, <2>1, <2>2, <2>3 DEF Menu
<1>2. CASE SetIndex
  BY <1>0, <1>2
  DEF SetIndex, AfterIndex, Put, TypeOK, OnTarget, IfaceLine, CoreLine, IndexSent,
      ValueSent, ValueGiven, Serving, Proc, Offset, Pair, Index, Limit, WAIT, EDIT, SHOW,
      EXIT
<1>3. CASE SetValue
  BY <1>0, <1>3
  DEF SetValue, Put, TypeOK, OnTarget, IfaceLine, CoreLine, IndexSent, ValueSent,
      ValueGiven, Serving, Proc, Offset, Pair, Index, Limit, WAIT, EDIT, SHOW, EXIT
<1>4. CASE SetCommand
  BY <1>0, <1>4
  DEF SetCommand, Put, TypeOK, OnTarget, IfaceLine, CoreLine, IndexSent, ValueSent,
      ValueGiven, Serving, Proc, Offset, Pair, Index, Limit, WAIT, EDIT, SHOW, EXIT
<1>5. CASE WaitResponse
  BY <1>0, <1>5
  DEF WaitResponse, Answered, Goto, Get, TypeOK, OnTarget, IfaceLine, CoreLine, IndexSent,
      ValueSent, ValueGiven, Serving, Proc, Offset, Pair, Index, Limit, WAIT, EDIT, SHOW,
      EXIT
<1>6. CASE GetResult
  BY <1>0, <1>6
  DEF GetResult, Goto, Get, TypeOK, OnTarget, IfaceLine, CoreLine, IndexSent, ValueSent,
      ValueGiven, Serving, Proc, Offset, Pair, Index, Limit, WAIT, EDIT, SHOW, EXIT
<1>7. CASE Calloc
  BY <1>0, <1>7
  DEF Calloc, Goto, TypeOK, OnTarget, IfaceLine, CoreLine, IndexSent, ValueSent, ValueGiven,
      Serving, Proc, Offset, Pair, Index, Limit, WAIT, EDIT, SHOW, EXIT
<1>8. CASE WaitRequest
  <2>1. PICK c \in Word : /\ Get("core", "waitRequest", 1, <<c>>)
                        /\ Goto("core", IF c = WAIT THEN "waitRequest" ELSE "getCommand")
    BY <1>8 DEF WaitRequest
  <2>2. off = 0 /\ c = file[1]
    BY <1>0, <1>8, <2>1 DEF WaitRequest, Get, OnTarget, Proc, Offset, TypeOK
  <2>3. c # WAIT => pc["iface"] \in {"waitResponse", "gone"} /\ file[1] = req.cmd
    BY <1>0, <2>2 DEF IfaceLine, TypeOK, Proc, IfaceLocations
  <2> QED BY <1>0, <1>8, <2>1, <2>2, <2>3
    DEF WaitRequest, Goto, Get, TypeOK, OnTarget, IfaceLine, CoreLine, IndexSent, ValueSent,
        ValueGiven, Serving, Proc, Offset, Pair, Index, Limit, WAIT, EDIT, SHOW, EXIT
<1>9. CASE GetCommand
  <2>1. PICK c \in Word : Get("core", "getCommand", 1, <<c>>) /\ Goto("core", Dispatch(c))
    BY <1>9 DEF GetCommand
  <2>2. off = 0 /\ c = file[1] /\ file[1] = req.cmd
    BY <1>0, <1>9, <2>1 DEF GetCommand, Get, OnTarget, Proc, Offset, TypeOK, CoreLine, Serving
  <2>3. Dispatch(c) \in {"editIndex", "showIndex", "reap"}
    BY DEF Dispatch
  <2>4. Dispatch(c) = "editIndex" => c = EDIT
    BY DEF Dispatch, EDIT, SHOW
  <2>5. Dispatch(c) = "showIndex" => c = SHOW
    BY DEF Dispatch, EDIT, SHOW
  <2> QED BY <1>0, <1>9, <2>1, <2>2, <2>3, <2>4, <2>5
    DEF GetCommand, Goto, Get, TypeOK, OnTarget, IfaceLine, CoreLine, IndexSent, ValueSent,
        ValueGiven, Serving, Proc, Offset, Pair, Index, Limit, WAIT, EDIT, SHOW, EXIT
<1>10. CASE EditIndex
  BY <1>0, <1>10
  DEF EditIndex, Goto, Get, TypeOK, OnTarget, IfaceLine, CoreLine, IndexSent, ValueSent,
      ValueGiven, Serving, Proc, Offset, Pair, Index, Limit, WAIT, EDIT, SHOW, EXIT
<1>11. CASE EditValue
  BY <1>0, <1>11
  DEF EditValue, Defined, Goto, Get, TypeOK, OnTarget, IfaceLine, CoreLine, IndexSent,
      ValueSent, ValueGiven, Serving, Proc, Offset, Pair, Index, Limit, WAIT, EDIT, SHOW,
      EXIT
<1>12. CASE ShowIndex
  BY <1>0, <1>12
  DEF ShowIndex, Defined, Goto, Get, TypeOK, OnTarget, IfaceLine, CoreLine, IndexSent,
      ValueSent, ValueGiven, Serving, Proc, Offset, Pair, Index, Limit, WAIT, EDIT, SHOW,
      EXIT
<1>13. CASE GiveValue
  BY <1>0, <1>13
  DEF GiveValue, Put, TypeOK, OnTarget, IfaceLine, CoreLine, IndexSent, ValueSent,
      ValueGiven, Serving, Proc, Offset, Pair, Index, Limit, WAIT, EDIT, SHOW, EXIT
<1>14. CASE SetWait
  BY <1>0, <1>14
  DEF SetWait, AfterServing, Put, TypeOK, OnTarget, IfaceLine, CoreLine, IndexSent,
      ValueSent, ValueGiven, Serving, Proc, Offset, Pair, Index, Limit, WAIT, EDIT, SHOW,
      EXIT
<1>15. CASE Reap
  BY <1>0, <1>15
  DEF Reap, Goto, TypeOK, OnTarget, IfaceLine, CoreLine, IndexSent, ValueSent, ValueGiven,
      Serving, Proc, Offset, Pair, Index, Limit, WAIT, EDIT, SHOW, EXIT
<1>16. ASSUME NEW p \in Proc, Seek(p) PROVE CoreLine'
  BY <1>0, <1>16
  DEF Seek, TypeOK, OnTarget, IfaceLine, CoreLine, IndexSent, ValueSent, ValueGiven,
      Serving, Proc, Offset, Pair, Index, Limit, WAIT, EDIT, SHOW, EXIT
<1>17. ASSUME NEW p \in Proc, Killed(p) PROVE CoreLine'
  BY <1>0, <1>17
  DEF Killed, TypeOK, OnTarget, IfaceLine, CoreLine, IndexSent, ValueSent, ValueGiven,
      Serving, Proc, Offset, Pair, Index, Limit, WAIT, EDIT, SHOW, EXIT
<1>18. CASE UNCHANGED vars
  BY <1>0, <1>18
  DEF vars, TypeOK, OnTarget, IfaceLine, CoreLine, IndexSent, ValueSent, ValueGiven,
      Serving, Proc, Offset, Pair, Index, Limit, WAIT, EDIT, SHOW, EXIT
<1> QED
  BY <1>1, <1>2, <1>3, <1>4, <1>5, <1>6, <1>7, <1>8, <1>9, <1>10, <1>11, <1>12, <1>13, <1>14, <1>15, <1>16, <1>17, <1>18
  DEF Next, Iface, Core

(* The core leaves its array only after an access has gone astray. *)
LEMMA InBoundsStep ==
  ASSUME Handshake, [HistNext]_hvars
  PROVE  InBounds'
<1> USE DEF InBounds
<1> SUFFICES ASSUME pc'["core"] = "undefined", stray' = 0 PROVE FALSE
  BY TypesStep DEF Handshake, TypeOK
<1>1. stray = 0 /\ OnTarget /\ TypeOK /\ IfaceLine /\ CoreLine /\ [Next]_vars
  BY NoneStray DEF Handshake, HistNext, hvars
<1>2. pc["core"] # "undefined" /\ DOMAIN pc = Proc
  BY <1>1 DEF Handshake, TypeOK
<1>3. EditValue \/ ShowIndex
  <2>1. CASE Menu \/ SetIndex \/ SetValue \/ SetCommand \/ WaitResponse \/ GetResult
    BY <1>2, <2>1 DEF Menu, SetIndex, SetValue, SetCommand, WaitResponse, GetResult, Put, Goto, Proc
  <2>2. CASE Calloc \/ WaitRequest \/ GetCommand \/ EditIndex \/ GiveValue \/ SetWait \/ Reap
    BY <1>2, <2>2 DEF Calloc, WaitRequest, GetCommand, EditIndex, GiveValue, SetWait, Reap, Put, Goto,
                      Dispatch, AfterServing, Proc
  <2>3. CASE UNCHANGED pc
    BY <1>2, <2>3
  <2> QED BY <1>1, <2>1, <2>2, <2>3 DEF Next, Iface, Core, Seek, Killed, vars
<1>4. CASE EditValue
  <2>1. idx = <<req.idx, 0>> /\ req.idx \in Index
    BY <1>1, <1>4 DEF EditValue, Get, CoreLine, TypeOK
  <2>2. Defined(idx)
    BY <2>1 DEF Defined
  <2> QED BY <1>2, <1>4, <2>2 DEF EditValue, Goto, Proc
<1>5. CASE ShowIndex
  <2>1. /\ sought["core"] /\ pc["core"] = "showIndex" /\ Get("core", "showIndex", 2, idx') /\ idx' \in Word \X Word
        /\ alive' = alive /\ "core" \in alive
    BY <1>5 DEF ShowIndex, Get
  <2>2. off = 2
    BY <1>1, <2>1 DEF OnTarget, Get, TypeOK, Offset, Proc
  <2>3. req.cmd = SHOW /\ pc["iface"] \in {"waitResponse", "gone"}
    BY <1>1, <2>1 DEF CoreLine, Serving
  <2>4. file[3] = req.idx /\ file[4] = 0 /\ req.idx \in Index
    BY <1>1, <2>3 DEF IfaceLine, IndexSent, TypeOK, SHOW, EXIT
  <2>5. idx'[1] = file[3] /\ idx'[2] = file[4]
    BY <1>1, <2>1, <2>2 DEF Get, TypeOK, Limit
  <2>6. Defined(idx')
    BY <2>4, <2>5 DEF Defined
  <2> QED BY <1>2, <1>5, <2>6 DEF ShowIndex, Goto, Proc
<1> QED BY <1>3, <1>4, <1>5

(* Every action keeps the invariant of the handshake. *)
LEMMA HandshakeStep ==
  ASSUME Handshake, [HistNext]_hvars
  PROVE  Handshake'
<1>1. TypeOK' /\ FileBounded' /\ Usable'
  BY TypesStep DEF Handshake
<1>2. ASSUME stray' = 0 PROVE IfaceLine' /\ CoreLine'
  <2>1. TypeOK /\ IfaceLine /\ CoreLine /\ OnTarget /\ [Next]_vars
    BY <1>2, NoneStray DEF Handshake, HistNext, hvars
  <2> QED BY <2>1, IfaceLineStep, CoreLineStep
<1> QED BY <1>1, <1>2, InBoundsStep DEF Handshake

(* The invariant of the handshake, in every interleaving of lseek, read and write. *)
THEOREM HandshakeHolds == HistSpec => []Handshake
<1>1. Handshake /\ [HistNext]_hvars => Handshake'
  BY HandshakeStep
<1> QED BY <1>1, HandshakeInit, PTL DEF HistSpec

(* Wherever an access lands, the file never has more than Limit words. *)
THEOREM FileStaysSmall == HistSpec => []FileBounded
<1>1. Handshake => FileBounded
  BY DEF Handshake
<1> QED BY <1>1, HandshakeHolds, PTL

(* main.c:114: if the interface shows its menu and the core is not done, an access went astray. *)
THEOREM DoneUnlessStray == HistSpec => [](ServerDone \/ stray > 0)
<1>1. Handshake => ServerDone \/ stray > 0
  BY DEF Handshake, TypeOK, CoreLine, ServerDone
<1> QED BY <1>1, HandshakeHolds, PTL

(* Until then, the file holds the interface's request for as long as the core serves it. *)
THEOREM ServesTheRequest == HistSpec => []SameRequest
<1>1. Handshake => SameRequest
  <2> SUFFICES ASSUME Handshake, pc["core"] \in Serving, stray = 0 PROVE SameRequest
    BY DEF SameRequest
  <2>1. pc["iface"] = "waitResponse" \/ req.cmd = EXIT
    BY DEF Handshake, CoreLine, IfaceLine, Serving
  <2>2. CASE pc["iface"] = "waitResponse"
    BY <2>2, ValueAssumption
    DEF Handshake, TypeOK, Pair, IfaceLine, CoreLine, SameRequest, Serving, IndexSent, ValueSent,
        WAIT, EDIT, SHOW, EXIT
  <2>3. CASE req.cmd = EXIT
    BY <2>3 DEF Handshake, CoreLine, SameRequest, EDIT, EXIT
  <2> QED BY <2>1, <2>2, <2>3
<1> QED BY <1>1, HandshakeHolds, PTL

(* The core uses an index outside its array only after an access went astray: the check *)
(* in the other process (main.c:122, 138) is enough for every other interleaving.       *)
THEOREM IndexInBounds == HistSpec => []InBounds
<1>1. Handshake => InBounds
  BY DEF Handshake
<1> QED BY <1>1, HandshakeHolds, PTL

\* The step in which the core leaves its loop for wait(NULL).
Leaves == pc["core"] = "getCommand" /\ pc'["core"] = "reap"

(* CMD_EXIT: the core leaves its loop only behind an interface that has ended, so that no *)
(* request is entered that nobody is there to serve, unless an access has gone astray:    *)
(* then any word may have been taken for CMD_EXIT. This is the safety half of BothEnd.    *)
THEOREM CoreLast == HistSpec => [][Leaves => pc["iface"] = "gone" \/ stray' > 0]_hvars
<1>1. ASSUME Handshake, [HistNext]_hvars, Leaves, stray' = 0 PROVE pc["iface"] = "gone"
  <2>1. stray = 0 /\ OnTarget /\ TypeOK /\ IfaceLine /\ CoreLine /\ [Next]_vars
    BY <1>1, NoneStray DEF Handshake, HistNext, hvars
  <2>2. DOMAIN pc = Proc
    BY <2>1 DEF TypeOK
  <2>3. GetCommand
    <3>1. CASE Menu \/ SetIndex \/ SetValue \/ SetCommand \/ WaitResponse \/ GetResult
      BY <1>1, <2>2, <3>1 DEF Leaves, Menu, SetIndex, SetValue, SetCommand, WaitResponse, GetResult,
                              Put, Goto, Proc
    <3>2. CASE Calloc \/ WaitRequest \/ EditIndex \/ EditValue \/ ShowIndex \/ GiveValue \/ SetWait \/ Reap
      BY <1>1, <3>2 DEF Leaves, Calloc, WaitRequest, EditIndex, EditValue, ShowIndex, GiveValue, SetWait,
                        Reap, Put, Get
    <3>3. CASE UNCHANGED pc
      BY <1>1, <3>3 DEF Leaves
    <3> QED BY <2>1, <3>1, <3>2, <3>3 DEF Next, Iface, Core, Seek, Killed, vars
  <2>4. PICK c \in Word : Get("core", "getCommand", 1, <<c>>) /\ Goto("core", Dispatch(c))
    BY <2>3 DEF GetCommand
  <2>5. off = 0 /\ UNCHANGED alive
    BY <2>1, <2>3, <2>4 DEF GetCommand, Get, OnTarget, TypeOK, Offset, Proc
  <2>6. c = file[1] /\ file[1] = req.cmd /\ pc["iface"] \in {"waitResponse", "gone"}
    BY <2>1, <2>4, <2>5 DEF Get, TypeOK, CoreLine, Serving
  <2>7. Dispatch(c) = "reap"
    BY <1>1, <2>2, <2>4 DEF Leaves, Goto, Proc
  <2>8. req.cmd \notin {EDIT, SHOW}
    BY <2>6, <2>7 DEF Dispatch, EDIT, SHOW
  <2> QED BY <2>1, <2>6, <2>8 DEF IfaceLine
<1>2. Handshake /\ [HistNext]_hvars => [Leaves => pc["iface"] = "gone" \/ stray' > 0]_hvars
  <2> SUFFICES ASSUME Handshake, [HistNext]_hvars, Leaves, ~(stray' > 0) PROVE pc["iface"] = "gone"
    OBVIOUS
  <2>1. stray' = 0
    BY HandshakeStep DEF Handshake, TypeOK
  <2> QED BY <1>1, <2>1
<1> QED BY <1>2, HandshakeHolds, PTL DEF HistSpec

(* The array is initially idle and zero. *)
LEMMA ArrayInit == Init => Array!Init
<1> SUFFICES ASSUME Init PROVE Array!Init
  OBVIOUS
<1>1. ~Asking
  BY DEF Init, Asking, Proc
<1>2. Asked = Array!Idle
  BY <1>1 DEF Asked, Array!Idle
<1>3. Served = FALSE
  BY <1>1 DEF Served
<1>4. arr = [i \in Array!Index |-> Array!Zero] /\ answer = Array!Zero
  BY DEF Init, Index, Array!Index, Array!Zero
<1> QED BY <1>2, <1>3, <1>4 DEF Array!Init

(* A step that changes neither the request nor the array is a stutter of the array. *)
LEMMA Quiet ==
  ASSUME Asking' <=> Asking, UNCHANGED <<req, arr, answer>>, Served' <=> Served
  PROVE  UNCHANGED Array!vars
<1>1. Asked' = Asked
  BY DEF Asked
<1>2. Served' = Served
  BY DEF Served
<1> QED BY <1>1, <1>2 DEF Array!vars

(* A request that starts is a Call of the array. *)
LEMMA Calls ==
  ASSUME ~Asking, Asked' \in Array!Request, ~Served', UNCHANGED <<arr, answer>>
  PROVE  Array!Call
<1>1. Asked = Array!Idle
  BY DEF Asked, Array!Idle
<1>2. Served = FALSE /\ Served' = FALSE
  BY DEF Served
<1> QED BY <1>1, <1>2 DEF Array!Call

(* A request that takes effect is a Serve of the array. *)
LEMMA Serves ==
  ASSUME Asking, Asking', ~Served, Served', UNCHANGED <<req, answer>>,
         req.cmd = EDIT => arr' = [arr EXCEPT ![req.idx] = req.val],
         req.cmd # EDIT => arr' = arr
  PROVE  Array!Serve
<1>1. Served = FALSE /\ Served' = TRUE
  BY DEF Served
<1>2. Asked' = Asked
  BY DEF Asked
<1>3. CASE req.cmd = EDIT
  <2>1. Asked = [cmd |-> "edit", idx |-> req.idx, val |-> req.val]
    BY <1>3 DEF Asked
  <2>2. Asked # Array!Idle
    BY <2>1 DEF Array!Idle
  <2> QED BY <1>1, <1>2, <1>3, <2>1, <2>2 DEF Array!Serve
<1>4. CASE req.cmd # EDIT
  <2>1. Asked = [cmd |-> "show", idx |-> req.idx]
    BY <1>4 DEF Asked
  <2>2. Asked # Array!Idle
    BY <2>1 DEF Array!Idle
  <2> QED BY <1>1, <1>2, <1>4, <2>1, <2>2 DEF Array!Serve
<1> QED BY <1>3, <1>4

(* A request that is answered is a Return of the array. *)
LEMMA Returns ==
  ASSUME Asking, ~Asking', Served, UNCHANGED <<req, arr>>,
         req.cmd = EDIT => answer' = answer,
         req.cmd # EDIT => answer' = arr[req.idx]
  PROVE  Array!Return
<1>1. Served = TRUE /\ Served' = FALSE
  BY DEF Served
<1>2. Asked' = Array!Idle
  BY DEF Asked, Array!Idle
<1>3. CASE req.cmd = EDIT
  <2>1. Asked = [cmd |-> "edit", idx |-> req.idx, val |-> req.val]
    BY <1>3 DEF Asked
  <2> QED BY <1>1, <1>2, <1>3, <2>1 DEF Array!Return
<1>4. CASE req.cmd # EDIT
  <2>1. Asked = [cmd |-> "show", idx |-> req.idx]
    BY <1>4 DEF Asked
  <2> QED BY <1>1, <1>2, <1>4, <2>1 DEF Array!Return
<1> QED BY <1>3, <1>4

(* Every step of the two processes is a step of the array, or a stutter. *)
LEMMA ArrayStep ==
  ASSUME TypeOK, IfaceLine, CoreLine, OnTarget, [Next]_vars
  PROVE  [Array!Next]_(Array!vars)
<1> USE SizeAssumption, WordAssumption, ValueAssumption
<1>0. TypeOK /\ OnTarget /\ IfaceLine /\ CoreLine
  OBVIOUS
<1>1. CASE Menu
  <2>1. pc["iface"] = "menu" /\ pc["core"] # "setWait" /\ ~Asking /\ UNCHANGED <<arr, answer>>
    BY <1>0, <1>1 DEF Menu, CoreLine, Serving, Asking
  <2>2. CASE \E i \in -1 .. Size, v \in Value :
               /\ InRange(i)
               /\ req' = [cmd |-> EDIT, idx |-> i, val |-> v]
               /\ Goto("iface", "setIndex")
    <3>1. PICK i \in -1 .. Size, v \in Value :
               /\ InRange(i)
               /\ req' = [cmd |-> EDIT, idx |-> i, val |-> v]
               /\ Goto("iface", "setIndex")
      BY <2>2
    <3>2. i \in Array!Index /\ v \in Pair
      BY <3>1 DEF InRange, Array!Index, Pair
    <3>3. pc'["iface"] = "setIndex" /\ pc'["core"] = pc["core"]
      BY <1>0, <3>1 DEF Goto, TypeOK, Proc
    <3>4. Asking'
      BY <3>1, <3>3 DEF Asking, EDIT, EXIT
    <3>5. Asked' = [cmd |-> "edit", idx |-> i, val |-> v]
      BY <3>1, <3>4 DEF Asked
    <3>6. Asked' \in Array!Request
      BY <3>2, <3>5 DEF Array!Request
    <3>7. ~Served'
      BY <2>1, <3>3 DEF Served
    <3> QED BY <2>1, <3>6, <3>7, Calls DEF Array!Next
  <2>3. CASE \E i \in -1 .. Size :
               /\ InRange(i)
               /\ req' = [req EXCEPT !.cmd = SHOW, !.idx = i]
               /\ Goto("iface", "setIndex")
    <3>1. PICK i \in -1 .. Size :
               /\ InRange(i)
               /\ req' = [req EXCEPT !.cmd = SHOW, !.idx = i]
               /\ Goto("iface", "setIndex")
      BY <2>3
    <3>2. i \in Array!Index
      BY <3>1 DEF InRange, Array!Index
    <3>3. pc'["iface"] = "setIndex" /\ pc'["core"] = pc["core"]
      BY <1>0, <3>1 DEF Goto, TypeOK, Proc
    <3>4. req'.cmd = SHOW /\ req'.idx = i
      BY <1>0, <3>1 DEF TypeOK
    <3>5. Asking'
      BY <3>3, <3>4 DEF Asking, SHOW, EXIT
    <3>6. Asked' = [cmd |-> "show", idx |-> i]
      BY <3>4, <3>5 DEF Asked, SHOW, EDIT
    <3>7. Asked' \in Array!Request
      BY <3>2, <3>6 DEF Array!Request
    <3>8. ~Served'
      BY <2>1, <3>3 DEF Served
    <3> QED BY <2>1, <3>7, <3>8, Calls DEF Array!Next
  <2>4. CASE req' = [req EXCEPT !.cmd = EXIT] /\ Goto("iface", "setCommand")
    <3>1. req'.cmd = EXIT
      BY <1>0, <2>4 DEF TypeOK
    <3>2. ~Asking'
      BY <3>1 DEF Asking
    <3>3. Asked' = Asked
      BY <2>1, <3>2 DEF Asked
    <3>4. Served' = Served
      BY <2>1, <3>2 DEF Served
    <3> QED BY <2>1, <3>3, <3>4 DEF Array!vars
  <2> QED BY <1>1, <2>2, <2>3, <2>4 DEF Menu
<1>2. ASSUME SetIndex \/ SetValue \/ SetCommand PROVE UNCHANGED Array!vars
  <2>1. /\ pc["iface"] \in {"setIndex", "setValue", "setCommand"}
        /\ UNCHANGED <<req, arr, answer>>
    BY <1>2 DEF SetIndex, SetValue, SetCommand, Put
  <2>2. pc["core"] # "setWait"
    BY <1>0, <2>1 DEF CoreLine, Serving
  <2>3. /\ pc'["core"] = pc["core"]
        /\ pc'["iface"] \in {"setValue", "setCommand", "waitResponse", "gone"}
        /\ pc'["iface"] = "gone" => req.cmd = EXIT
        /\ pc'["iface"] = "waitResponse" => req.cmd # EXIT /\ pc["iface"] = "setCommand"
    BY <1>0, <1>2 DEF SetIndex, SetValue, SetCommand, Put, TypeOK, Proc, AfterIndex
  <2>4. pc'["iface"] = "waitResponse" => file'[1] = req.cmd /\ req.cmd \in {EDIT, SHOW}
    <3>1. pc["iface"] = "setCommand" => SetCommand
      BY <1>2 DEF SetIndex, SetValue, SetCommand, Put
    <3> QED BY <1>0, <2>3, <3>1
            DEF SetCommand, Put, IfaceLine, OnTarget, Proc, Offset, TypeOK, Limit
  <2>5. Asking' <=> Asking
    BY <2>1, <2>3 DEF Asking
  <2>6. ~Served
    BY <2>1, <2>2 DEF Served
  <2>7. ~Served'
    BY <2>2, <2>3, <2>4 DEF Served, WAIT, EDIT, SHOW
  <2> QED BY <2>1, <2>5, <2>6, <2>7, Quiet
<1>3. CASE WaitResponse
  <2>1. PICK c \in Word :
          /\ Get("iface", "waitResponse", 1, <<c>>)
          /\ Goto("iface", IF ~Answered(c) THEN "waitResponse"
                           ELSE IF req.cmd = SHOW THEN "getResult" ELSE "menu")
    BY <1>3 DEF WaitResponse
  <2>2. /\ c = file[1] /\ pc["iface"] = "waitResponse"
        /\ UNCHANGED <<file, req, arr, answer>>
    BY <1>0, <1>3, <2>1 DEF WaitResponse, Get, OnTarget, Proc, Offset, TypeOK
  <2>3. req.cmd \in {EDIT, SHOW}
    BY <1>0, <2>2 DEF IfaceLine
  <2>4. Asking
    BY <2>2, <2>3 DEF Asking, EDIT, SHOW, EXIT
  <2>5. pc'["core"] = pc["core"]
    BY <1>0, <2>1 DEF Goto, TypeOK, Proc
  <2>6. CASE ~Answered(c)
    <3>1. pc'["iface"] = "waitResponse"
      BY <1>0, <2>1, <2>6 DEF Goto, TypeOK, Proc
    <3>2. Asking' <=> Asking
      BY <2>2, <3>1 DEF Asking
    <3>3. Served' <=> Served
      BY <2>2, <2>5, <3>1, <3>2 DEF Served
    <3> QED BY <2>2, <3>2, <3>3, Quiet
  <2>7. CASE Answered(c) /\ req.cmd = SHOW
    <3>1. pc'["iface"] = "getResult"
      BY <1>0, <2>1, <2>7 DEF Goto, TypeOK, Proc
    <3>2. Asking'
      BY <2>2, <2>3, <3>1 DEF Asking, EDIT, SHOW, EXIT
    <3>3. Served
      BY <2>2, <2>4, <2>7 DEF Served, Answered
    <3>4. Served'
      BY <3>1, <3>2 DEF Served
    <3> QED BY <2>2, <2>4, <3>2, <3>3, <3>4, Quiet
  <2>8. CASE Answered(c) /\ req.cmd # SHOW
    <3>1. pc'["iface"] = "menu"
      BY <1>0, <2>1, <2>8 DEF Goto, TypeOK, Proc
    <3>2. ~Asking'
      BY <3>1 DEF Asking
    <3>3. Served
      BY <2>2, <2>4, <2>8 DEF Served, Answered
    <3> QED BY <2>2, <2>3, <2>4, <2>8, <3>2, <3>3, Returns DEF Array!Next
  <2> QED BY <2>6, <2>7, <2>8
<1>4. CASE GetResult
  <2>1. /\ pc["iface"] = "getResult" /\ off = 4 /\ UNCHANGED <<req, arr>>
        /\ answer' \in Word \X Word /\ Get("iface", "getResult", 2, answer')
    BY <1>0, <1>4 DEF GetResult, Get, OnTarget, Proc, Offset, TypeOK
  <2>2. req.cmd = SHOW /\ arr[req.idx] = <<file[5], file[6]>>
    BY <1>0, <2>1 DEF IfaceLine, ValueGiven
  <2>3. answer'[1] = file[5] /\ answer'[2] = file[6]
    BY <1>0, <2>1 DEF Get, TypeOK
  <2>4. answer' = arr[req.idx]
    BY <2>1, <2>2, <2>3
  <2>5. Asking /\ Served
    BY <2>1, <2>2 DEF Asking, Served, SHOW, EXIT
  <2>6. pc'["iface"] = "menu"
    BY <1>0, <1>4 DEF GetResult, Goto, TypeOK, Proc
  <2>7. ~Asking'
    BY <2>6 DEF Asking
  <2> QED BY <2>1, <2>2, <2>4, <2>5, <2>7, Returns DEF Array!Next, SHOW, EDIT
<1>5. ASSUME Calloc \/ WaitRequest \/ GetCommand \/ EditIndex \/ ShowIndex \/ Reap
      PROVE  UNCHANGED Array!vars
  <2>1. /\ pc["core"] # "setWait" /\ pc'["core"] # "setWait" /\ pc'["iface"] = pc["iface"]
        /\ UNCHANGED <<file, req, arr, answer>>
    BY <1>0, <1>5 DEF Calloc, WaitRequest, GetCommand, EditIndex, ShowIndex, Reap, Get, Goto,
                      Dispatch, TypeOK, Proc
  <2>2. Asking' <=> Asking
    BY <2>1 DEF Asking
  <2>3. Served' <=> Served
    BY <2>1, <2>2 DEF Served
  <2> QED BY <2>1, <2>2, <2>3, Quiet
<1>6. CASE EditValue
  <2>1. PICK val \in Word \X Word :
          /\ Get("core", "editValue", 2, val)
          /\ IF Defined(idx)
             THEN arr' = [arr EXCEPT ![idx[1]] = val] /\ Goto("core", "setWait")
             ELSE UNCHANGED arr /\ Goto("core", "undefined")
    BY <1>6 DEF EditValue
  <2>2. /\ pc["core"] = "editValue" /\ off = 4 /\ UNCHANGED <<file, req, answer>>
    BY <1>0, <1>6 DEF EditValue, Get, OnTarget, Proc, Offset, TypeOK
  <2>3. req.cmd = EDIT /\ idx = <<req.idx, 0>> /\ file[1] = EDIT /\ pc["iface"] = "waitResponse"
    BY <1>0, <2>2 DEF CoreLine, IfaceLine, Serving, EDIT, EXIT
  <2>4. val = req.val
    <3>1. val[1] = file[5] /\ val[2] = file[6]
      BY <1>0, <2>1, <2>2 DEF Get, TypeOK
    <3>2. file[5] = req.val[1] /\ file[6] = req.val[2]
      BY <1>0, <2>3 DEF IfaceLine, ValueSent
    <3>3. req.val \in Word \X Word
      BY <1>0 DEF TypeOK, Pair
    <3> QED BY <2>1, <3>1, <3>2, <3>3
  <2>5. Defined(idx)
    BY <1>0, <2>3 DEF Defined, TypeOK
  <2>6. arr' = [arr EXCEPT ![req.idx] = req.val]
    BY <2>1, <2>3, <2>4, <2>5
  <2>7. pc'["core"] = "setWait" /\ pc'["iface"] = "waitResponse"
    BY <1>0, <2>1, <2>3, <2>5 DEF Goto, TypeOK, Proc
  <2>8. Asking /\ Asking'
    BY <2>2, <2>3, <2>7 DEF Asking, EDIT, EXIT
  <2>9. ~Served /\ Served'
    BY <2>2, <2>3, <2>7, <2>8 DEF Served, EDIT, WAIT
  <2> QED BY <2>2, <2>3, <2>6, <2>8, <2>9, Serves DEF Array!Next
<1>7. CASE GiveValue
  <2>1. /\ pc["core"] = "giveValue" /\ off = 4 /\ UNCHANGED <<arr, req, answer>>
    BY <1>0, <1>7 DEF GiveValue, Put, OnTarget, Proc, Offset, TypeOK
  <2>2. req.cmd = SHOW /\ file[1] = SHOW /\ pc["iface"] = "waitResponse"
    BY <1>0, <2>1 DEF CoreLine, IfaceLine, Serving, SHOW, EXIT
  <2>3. pc'["core"] = "setWait" /\ pc'["iface"] = "waitResponse"
    BY <1>0, <1>7, <2>2 DEF GiveValue, Put, TypeOK, Proc
  <2>4. Asking /\ Asking'
    BY <2>1, <2>2, <2>3 DEF Asking, SHOW, EXIT
  <2>5. ~Served /\ Served'
    BY <2>1, <2>2, <2>3, <2>4 DEF Served, SHOW, WAIT
  <2> QED BY <2>1, <2>2, <2>4, <2>5, Serves DEF Array!Next, SHOW, EDIT
<1>8. CASE SetWait
  <2>1. /\ pc["core"] = "setWait" /\ off = 0 /\ UNCHANGED <<arr, req, answer>>
    BY <1>0, <1>8 DEF SetWait, Put, OnTarget, Proc, Offset, TypeOK
  <2>2. req.cmd \in {EDIT, SHOW} /\ pc["iface"] = "waitResponse"
    BY <1>0, <2>1 DEF CoreLine, IfaceLine, Serving, EDIT, SHOW, EXIT
  <2>3. pc'["iface"] = "waitResponse" /\ file'[1] = WAIT
    BY <1>0, <1>8, <2>1, <2>2 DEF SetWait, Put, TypeOK, Proc, Limit
  <2>4. Asking /\ Asking'
    BY <2>1, <2>2, <2>3 DEF Asking, EDIT, SHOW, EXIT
  <2>5. Served /\ Served'
    BY <2>1, <2>3, <2>4 DEF Served
  <2> QED BY <2>1, <2>4, <2>5, Quiet
<1>9. ASSUME NEW p \in Proc, Seek(p) \/ Killed(p) PROVE UNCHANGED Array!vars
  <2>1. UNCHANGED <<pc, file, req, arr, answer>>
    BY <1>9 DEF Seek, Killed
  <2>2. Asking' <=> Asking
    BY <2>1 DEF Asking
  <2>3. Served' <=> Served
    BY <2>1, <2>2 DEF Served
  <2> QED BY <2>1, <2>2, <2>3, Quiet
<1>10. CASE UNCHANGED vars
  <2>1. UNCHANGED <<pc, file, req, arr, answer>>
    BY <1>10 DEF vars
  <2>2. Asking' <=> Asking
    BY <2>1 DEF Asking
  <2>3. Served' <=> Served
    BY <2>1, <2>2 DEF Served
  <2> QED BY <2>1, <2>2, <2>3, Quiet
<1> QED
  BY <1>1, <1>2, <1>3, <1>4, <1>5, <1>6, <1>7, <1>8, <1>9, <1>10 DEF Next, Iface, Core

(* The two processes implement an array whose requests take effect one at a time, each *)
(* exactly once, and answer with what it holds, until an access goes astray.           *)
THEOREM ImplementsArray == HistSpec => ArraySpec
<1>1. Handshake /\ [HistNext]_hvars => [stray' > 0 \/ Array!Next]_(Array!vars)
  <2> SUFFICES ASSUME Handshake, [HistNext]_hvars, ~(stray' > 0)
               PROVE  [Array!Next]_(Array!vars)
    OBVIOUS
  <2>1. stray' = 0
    BY HandshakeStep DEF Handshake, TypeOK
  <2>2. TypeOK /\ IfaceLine /\ CoreLine /\ OnTarget /\ [Next]_vars
    BY <2>1, NoneStray DEF Handshake, HistNext, hvars
  <2> QED BY <2>2, ArrayStep
<1>2. HistInit => Array!Init
  BY ArrayInit DEF HistInit
<1> QED BY <1>1, <1>2, HandshakeHolds, PTL DEF HistSpec, ArraySpec

=============================================================================
