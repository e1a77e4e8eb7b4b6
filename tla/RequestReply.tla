---------------------------- MODULE RequestReply ----------------------------
(***************************************************************************)
(* What a caller of MCPClient may rely on: a request is served at most     *)
(* once, and it ends once, with the outcome of its own serving or with a   *)
(* failure that says nothing of whether it was served.                     *)
(***************************************************************************)
CONSTANT Requests

VARIABLES
  asked,    \* the requests made
  served,   \* for each request what the server made of it
  ended     \* for each request how it ended for its caller

vars == <<asked, served, ended>>

Unserved == "unserved"
Open     == "open"
Servings == {"result", "error"}
Failures == {"transportClosed", "timeout", "cancelled"}

Init ==
  /\ asked = {}
  /\ served = [r \in Requests |-> Unserved]
  /\ ended = [r \in Requests |-> Open]

Ask(r) ==
  /\ r \notin asked
  /\ asked' = asked \cup {r}
  /\ UNCHANGED <<served, ended>>

\* The server's work on r is over; its caller may have given up long ago.
Serve(r) ==
  /\ r \in asked /\ served[r] = Unserved
  /\ \E s \in Servings : served' = [served EXCEPT ![r] = s]
  /\ UNCHANGED <<asked, ended>>

\* Several requests end at once when the client is closed.
End(rs) ==
  /\ rs \subseteq asked /\ \A r \in rs : ended[r] = Open
  /\ \E how \in [rs -> Servings \cup Failures] :
       /\ \A r \in rs : how[r] \in Servings => how[r] = served[r]
       /\ ended' = [r \in Requests |-> IF r \in rs THEN how[r] ELSE ended[r]]
  /\ UNCHANGED <<asked, served>>

Next == \/ \E r \in Requests : Ask(r) \/ Serve(r)
        \/ \E rs \in (SUBSET Requests) \ {{}} : End(rs)

Spec == Init /\ [][Next]_vars
=============================================================================
