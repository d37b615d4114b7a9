---------------------------- MODULE LoginLedger ----------------------------
(***************************************************************************)
(* What a sign-in promises (siwe-store: "a nonce is valid for exactly one  *)
(* consume()"): of the attempts that present a message one at most claims  *)
(* it, and a claim is worth one session.  A message may also be forgotten, *)
(* claimed or not: it expired, its attempt failed, the server restarted.   *)
(***************************************************************************)
EXTENDS Sequences

CONSTANT Messages

VARIABLES open, claimed, granted   \* granted: the messages of the sessions, in order

vars == <<open, claimed, granted>>

Init == open = {} /\ claimed = {} /\ granted = <<>>

Past == claimed \cup {granted[i] : i \in DOMAIN granted}

Offer(m) ==
  /\ m \notin open \cup Past
  /\ open' = open \cup {m} /\ UNCHANGED <<claimed, granted>>

Claim(m) ==
  /\ m \in open
  /\ open' = open \ {m} /\ claimed' = claimed \cup {m} /\ UNCHANGED granted

Grant(m) ==
  /\ m \in claimed
  /\ claimed' = claimed \ {m} /\ granted' = Append(granted, m) /\ UNCHANGED open

Forget ==
  /\ open' \subseteq open /\ claimed' \subseteq claimed
  /\ UNCHANGED granted

Next == Forget \/ \E m \in Messages : Offer(m) \/ Claim(m) \/ Grant(m)

Spec == Init /\ [][Next]_vars
=============================================================================
