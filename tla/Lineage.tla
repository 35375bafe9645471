-------------------------------- MODULE Lineage --------------------------------
(***************************************************************************)
(* What a session is, with nothing of the keys it is kept in.  A login     *)
(* starts a family of tokens; of a family one token is good at a time; a   *)
(* renewal puts a new token in its place, which belongs to no family yet;  *)
(* and a family that has ended never has a good token again.               *)
(***************************************************************************)
CONSTANTS Families, Tokens

VARIABLES issued,  \* per family, the tokens it was ever given
          good     \* per family, the token that opens the session, if any

lineageVars == <<issued, good>>

Fresh(t) == \A f \in Families : t \notin issued[f]

Issue(f, t) ==
  /\ Fresh(t)
  /\ issued' = [issued EXCEPT ![f] = @ \cup {t}]
  /\ good' = [good EXCEPT ![f] = {t}]

Start(f, t) == issued[f] = {} /\ Issue(f, t)

Renew(f, t) == good[f] # {} /\ Issue(f, t)

End(f) ==
  /\ good' = [good EXCEPT ![f] = {}]
  /\ UNCHANGED issued

Init ==
  /\ issued = [f \in Families |-> {}]
  /\ good = [f \in Families |-> {}]

Next == \E f \in Families : End(f) \/ \E t \in Tokens : Start(f, t) \/ Renew(f, t)

Spec == Init /\ [][Next]_lineageVars

================================================================================
