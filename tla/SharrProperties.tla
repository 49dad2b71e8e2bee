-------------------------- MODULE SharrProperties --------------------------
(***************************************************************************)
(* The array behind pwn/sharr's shared file.  Nothing in the code keeps an *)
(* lseek and the read or write behind it together, so the promises are     *)
(* stated with a history variable: what holds whatever the interleaving,   *)
(* and what holds until an access has gone astray.                         *)
(***************************************************************************)
EXTENDS Sharr

VARIABLE
    stray       \* how many reads and writes were done where their process did not seek

\* This step is one: between the lseek and it, the other process has moved the offset.
GoesAstray == \E p \in alive' : sought[p] /\ ~sought'[p] /\ off # Offset[pc[p]]

hvars == <<vars, stray>>

HistInit == Init /\ stray = 0
HistNext == Next /\ stray' = IF GoesAstray THEN stray + 1 ELSE stray
HistSpec == HistInit /\ [][HistNext]_hvars
HistFairSpec == HistSpec /\ Fairness

Pair == Word \X Word

IfaceLocations == {"menu", "setIndex", "setValue", "setCommand", "waitResponse", "getResult",
                   "gone"}
Serving == {"getCommand", "editIndex", "editValue", "showIndex", "giveValue", "setWait"}
CoreLocations == Serving \cup {"calloc", "waitRequest", "reap", "gone", "undefined"}

(* The variables keep their types, whatever the interleaving. *)
TypeOK ==
    /\ DOMAIN pc = Proc /\ pc["iface"] \in IfaceLocations /\ pc["core"] \in CoreLocations
    /\ sought \in [Proc -> BOOLEAN]
    /\ alive \subseteq Proc
    /\ file \in [1 .. Limit -> Word] /\ size \in 6 .. Limit
    /\ off \in 0 .. size
    /\ req \in [cmd : {WAIT, EDIT, SHOW, EXIT}, idx : Index, val : Pair]
    /\ answer \in Pair /\ idx \in Pair
    /\ arr \in [Index -> Pair]
    /\ stray \in Nat

\* The words p may still move the offset by before it seeks again.
Due(p) == IF sought[p] THEN 2 ELSE 0

(* However the two processes move the offset under each other, the shared file grows by *)
(* one value at most (main.c:92-100): where the offset stands, the Limit words have room *)
(* for every access that is between its lseek and its read or write.                     *)
FileBounded == off + Due("iface") + Due("core") <= Limit

(* main.c:114: whenever the interface shows its menu, the core process is done with the *)
(* previous request: it serves none.                                                     *)
ServerDone == pc["iface"] = "menu" => pc["core"] \notin Serving

(* The core never touches memory outside its array (main.c:122 and 138 check the index   *)
(* in the other process) before an access has gone astray.                               *)
InBounds == pc["core"] = "undefined" => stray > 0

(* While the core serves a request, the file holds the command and the index of exactly *)
(* the request the interface waits for, and of an edit the value too, wherever the two   *)
(* stand between their lseeks and their accesses, as long as none has gone astray.       *)
SameRequest ==
    pc["core"] \in Serving /\ stray = 0 =>
        /\ pc["iface"] \in {"waitResponse", "gone"}
        /\ file[1] = req.cmd
        /\ req.cmd # EXIT => <<file[3], file[4]>> = <<req.idx, 0>>
        /\ pc["core"] \in {"getCommand", "editIndex", "editValue"} /\ req.cmd = EDIT
               => <<file[5], file[6]>> = req.val

-----------------------------------------------------------------------------
(* The inductive invariant of the handshake, in parts. *)

IndexSent == file[3] = req.idx /\ file[4] = 0
ValueSent == file[5] = req.val[1] /\ file[6] = req.val[2]
ValueGiven == arr[req.idx] = <<file[5], file[6]>>

\* What the interface has sent so far, and what its being at a place says of the request.
IfaceLine ==
    /\ pc["iface"] \in {"menu", "setIndex", "setValue", "setCommand"} => file[1] = WAIT
    /\ pc["iface"] = "setIndex" => req.cmd \in {EDIT, SHOW}
    /\ pc["iface"] = "setValue" => req.cmd = EDIT /\ IndexSent
    /\ pc["iface"] = "setCommand" => /\ req.cmd \in {EDIT, SHOW, EXIT}
                                     /\ req.cmd # EXIT => IndexSent
                                     /\ req.cmd = EDIT => ValueSent
    /\ pc["iface"] = "waitResponse" => /\ req.cmd \in {EDIT, SHOW} /\ IndexSent
                                       /\ file[1] \in {WAIT, req.cmd}
                                       /\ req.cmd = EDIT => ValueSent
                                       /\ file[1] = WAIT /\ req.cmd = SHOW => ValueGiven
    /\ pc["iface"] = "getResult" => file[1] = WAIT /\ req.cmd = SHOW /\ ValueGiven
    /\ pc["iface"] = "gone" => file[1] = EXIT /\ req.cmd = EXIT

\* The core serves the request the interface waits for, with its index.
CoreLine ==
    /\ pc["core"] \in Serving => /\ pc["iface"] \in {"waitResponse", "gone"}
                                 /\ file[1] = req.cmd
    /\ pc["core"] \in {"editIndex", "editValue"} => req.cmd = EDIT
    /\ pc["core"] \in {"showIndex", "giveValue"} => req.cmd = SHOW
    /\ pc["core"] \in {"editValue", "giveValue"} => idx = <<req.idx, 0>>
    /\ pc["core"] = "setWait" => /\ req.cmd \in {EDIT, SHOW}
                                 /\ req.cmd = SHOW => ValueGiven

\* The value it prints from is the array's.
Usable == pc["core"] = "giveValue" => Defined(idx)

(* All of it: types and bounds hold in every interleaving, and the two processes keep in *)
(* step until an access goes astray, each between any two steps of the other.            *)
Handshake == /\ TypeOK /\ FileBounded /\ Usable
             /\ stray = 0 => IfaceLine /\ CoreLine
             /\ InBounds

-----------------------------------------------------------------------------
(* Refinement: a request is pending while the interface is away from its menu, and has  *)
(* been served from the assignment to arr (or, for show, to the file) until it returns. *)

Asking == pc["iface"] \notin {"menu", "gone"} /\ req.cmd # EXIT

\* What the interface asks the array for.
Asked == IF ~Asking THEN [cmd |-> "none"]
         ELSE IF req.cmd = EDIT THEN [cmd |-> "edit", idx |-> req.idx, val |-> req.val]
         ELSE [cmd |-> "show", idx |-> req.idx]

\* It has taken effect.
Served == /\ Asking
          /\ \/ pc["core"] = "setWait"
             \/ pc["iface"] = "getResult"
             \/ pc["iface"] = "waitResponse" /\ file[1] = WAIT

Array == INSTANCE SharedArray WITH Number <- Pair, req <- Asked, served <- Served

(* Until an access goes astray, the two processes implement an array with one request at *)
(* a time: nothing is lost, done twice or mixed up, and what "show" prints is the entry at *)
(* that time. The first step that is none of the array's comes with or after such an       *)
(* access, and with no other interleaving of the two.                                      *)
ArraySpec == Array!Init /\ [][stray' > 0 \/ Array!Next]_(Array!vars)

\* What the two promises below except: a signal, and an access that went astray.
Disturbed == alive # Proc \/ stray > 0

(* A request that the core is up for is answered and the interface is back at its menu *)
(* (WAIT_RESPONSE ends), unless a process is killed or an access goes astray.            *)
Answering == (Asking /\ pc["core"] \in Serving \cup {"waitRequest"})
                 ~> (pc["iface"] = "menu" \/ Disturbed)

(* After CMD_EXIT both processes end, the core last, unless a process is killed or an    *)
(* access goes astray.                                                                   *)
BothEnd == (req.cmd = EXIT) ~> ((pc["iface"] = "gone" /\ pc["core"] = "gone") \/ Disturbed)
=============================================================================
