-------------------------- MODULE AcceptedOutcome --------------------------
(***************************************************************************)
(* What the mail connector promises about the outcome document of a        *)
(* conversation.  The evidence of a conversation is numbered by its        *)
(* changes.  shown[t] is the evidence the document in the memory bank was  *)
(* written from (0: no document); accepted[t] is the evidence the ledger   *)
(* has accepted an outcome for (0: none yet).                              *)
(*                                                                         *)
(* The promise: between two acceptances the document is replaced at most   *)
(* once, always from evidence newer than anything accepted, and evidence   *)
(* is accepted in increasing order and only when the document agrees.  A   *)
(* late, repeated or restarted delivery can therefore never bring an old   *)
(* outcome back, nor write an accepted one a second time.                  *)
(***************************************************************************)
EXTENDS Naturals

CONSTANTS Thread,    \* conversations
          Evidence   \* the positive numbers evidence may have

VARIABLES shown, accepted

outcomeVars == <<shown, accepted>>

Init ==
  /\ shown = [t \in Thread |-> 0]
  /\ accepted = [t \in Thread |-> 0]

\* The document becomes the outcome of evidence nobody has accepted yet.
Replace(t) ==
  /\ shown[t] <= accepted[t]
  /\ \E v \in Evidence :
       /\ v > accepted[t]
       /\ shown' = [shown EXCEPT ![t] = v]
  /\ UNCHANGED accepted

\* The document is withdrawn by the connector or deleted by a user.
Remove(t) ==
  /\ shown' = [shown EXCEPT ![t] = 0]
  /\ UNCHANGED accepted

\* The ledger accepts evidence v: the document is its outcome, or the
\* decision left the accepted document (or its absence) as it was.
Accept(t) ==
  /\ \E v \in Evidence :
       /\ v >= accepted[t]
       /\ (shown[t] <= accepted[t]) \/ (shown[t] = v)
       /\ accepted' = [accepted EXCEPT ![t] = v]
  /\ UNCHANGED shown

Next == \E t \in Thread : Replace(t) \/ Remove(t) \/ Accept(t)

Spec == Init /\ [][Next]_outcomeVars
=============================================================================
