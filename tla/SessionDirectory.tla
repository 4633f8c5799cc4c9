-------------------------- MODULE SessionDirectory --------------------------
(***************************************************************************)
(* What the proxy's session table promises to the RPCs that use it: a      *)
(* directory in which a session is opened, and reported complete, in one   *)
(* step each.  There is no lock, no ticket and no clock here.              *)
(*                                                                         *)
(* SessionManager implements this specification.                           *)
(***************************************************************************)
CONSTANTS Ids, Reports, Absent, Pending

VARIABLE state   \* Absent, Pending, or the report that completed a session

Init == state = [i \in Ids |-> Absent]

\* Opening an id that is in use starts it afresh.
Open(i) == state' = [state EXCEPT ![i] = Pending]

\* A report about a session that is not there changes nothing.
Report(i, r) ==
  /\ state[i] # Absent
  /\ state' = [state EXCEPT ![i] = r]

Next ==
  \E i \in Ids :
    \/ Open(i)
    \/ \E r \in Reports : Report(i, r)

Spec == Init /\ [][Next]_state
=============================================================================
