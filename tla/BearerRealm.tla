----------------------------- MODULE BearerRealm -----------------------------
(***************************************************************************)
(* What the auth realm promises, seen from outside: a set of live bearer   *)
(* values and a gate.  A request is let in or refused in one step, on      *)
(* whether its value is live at that step.  There is no table, no hash, no *)
(* row that was read earlier and no worker here.                           *)
(***************************************************************************)
CONSTANTS
  Request, Raw,
  Seed,       \* the value that opens an unused realm
  NoRaw       \* the bearer value of a request that has none

VARIABLES
  issued,     \* values ever handed out
  live,       \* those that let in
  bearer,     \* the value a request presented
  gate        \* where a request is: out, asking, in, refused, or done: served, issued, revoked

realm == <<issued, live, bearer, gate>>

Init ==
  /\ issued = {} /\ live = {}
  /\ bearer = [r \in Request |-> NoRaw]
  /\ gate = [r \in Request |-> "out"]

Moves(r, from, to) == gate[r] = from /\ gate' = [gate EXCEPT ![r] = to]

Ask(r, v) ==
  /\ Moves(r, "out", "asking")
  /\ bearer' = [bearer EXCEPT ![r] = v]
  /\ UNCHANGED <<issued, live>>

AskWithoutBearer(r) == Moves(r, "out", "refused") /\ UNCHANGED <<issued, live, bearer>>

Decide(r) ==
  /\ Moves(r, "asking", IF bearer[r] \in live THEN "in" ELSE "refused")
  /\ UNCHANGED <<issued, live, bearer>>

Serve(r) == Moves(r, "in", "served") /\ UNCHANGED <<issued, live, bearer>>

(* A new value is live at once.                                            *)
Issue(r, v) ==
  /\ Moves(r, "in", "issued")
  /\ v \notin issued
  /\ issued' = issued \cup {v} /\ live' = live \cup {v}
  /\ UNCHANGED bearer

(* A revoked value is dead at once.                                        *)
Revoke(r, v) ==
  /\ Moves(r, "in", "revoked")
  /\ live' = live \ {v}
  /\ UNCHANGED <<issued, bearer>>

Leave(r) ==
  /\ gate[r] # "out"
  /\ gate' = [gate EXCEPT ![r] = "out"]
  /\ bearer' = [bearer EXCEPT ![r] = NoRaw]
  /\ UNCHANGED <<issued, live>>

(* The one value that nobody inside handed out.                            *)
Open ==
  /\ issued = {}
  /\ issued' = {Seed} /\ live' = {Seed}
  /\ UNCHANGED <<bearer, gate>>

(* Time kills values, and may turn away those it lets in that have not     *)
(* been served yet.                                                        *)
Expire(dead, late) ==
  /\ live' = live \ dead
  /\ \A r \in late : gate[r] = "in" /\ bearer[r] \notin live'
  /\ gate' = [r \in Request |-> IF r \in late THEN "refused" ELSE gate[r]]
  /\ UNCHANGED <<issued, bearer>>

Next ==
  \/ \E r \in Request : \/ AskWithoutBearer(r) \/ Decide(r) \/ Serve(r) \/ Leave(r)
                        \/ \E v \in Raw : Ask(r, v) \/ Issue(r, v)
                        \/ \E v \in issued : Revoke(r, v)
  \/ Open
  \/ \E dead \in SUBSET live, late \in SUBSET Request : Expire(dead, late)

Spec == Init /\ [][Next]_realm
=============================================================================
