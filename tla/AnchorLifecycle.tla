--------------------------- MODULE AnchorLifecycle ---------------------------
(***************************************************************************)
(* What POST /anchor, POST /anchorWithWallet and the status endpoint       *)
(* promise to a client, with no handler, message or database update: a     *)
(* request is opened, a microblock for it reaches the chain, the request   *)
(* is completed with the hash of that microblock, and nothing but its      *)
(* deletion takes a completion back.                                       *)
(***************************************************************************)
EXTENDS Naturals

CONSTANTS Requests, NoRequest

VARIABLES
    status,   \* status[r]: what GET /anchor/status/:r answers
    recorded, \* recorded[r]: the microblock it names, 0 if none
    anchored  \* the microblocks on chain, each with the request it carries

lifecycleVars == <<status, recorded, anchored>>

Init ==
    /\ status = [r \in Requests |-> "unused"]
    /\ recorded = [r \in Requests |-> 0]
    /\ anchored = {}

\* POST /anchorWithWallet
Open(r) ==
    /\ status[r] = "unused"
    /\ status' = [status EXCEPT ![r] = "pending"]
    /\ UNCHANGED <<recorded, anchored>>

\* A new microblock, of a request or of a direct anchoring, is accepted on chain.
Anchor ==
    /\ \E m \in anchored' :
         /\ m.req \in Requests \cup {NoRequest}
         /\ \A n \in anchored : n.id # m.id
         /\ anchored' = anchored \cup {m}
    /\ UNCHANGED <<status, recorded>>

\* The request is completed with a microblock that was anchored for it.  The
\* wallet may have been served twice, and then the later hash is kept.
Complete(r, m) ==
    /\ status[r] \in {"pending", "completed"}
    /\ m.req = r
    /\ status' = [status EXCEPT ![r] = "completed"]
    /\ recorded' = [recorded EXCEPT ![r] = m.id]
    /\ UNCHANGED anchored

\* POST /anchor: the request appears when its microblock is on chain, and no
\* other request has that microblock.
OpenCompleted(r, m) ==
    /\ status[r] = "unused"
    /\ m.req = NoRequest
    /\ \A s \in Requests : recorded[s] # m.id
    /\ status' = [status EXCEPT ![r] = "completed"]
    /\ recorded' = [recorded EXCEPT ![r] = m.id]
    /\ UNCHANGED anchored

\* The requests of an application are deleted together.
Delete(R) ==
    /\ \A r \in R : status[r] \in {"pending", "completed"}
    /\ status' = [r \in Requests |-> IF r \in R THEN "deleted" ELSE status[r]]
    /\ recorded' = [r \in Requests |-> IF r \in R THEN 0 ELSE recorded[r]]
    /\ UNCHANGED anchored

Next ==
    \/ \E r \in Requests : Open(r)
    \/ Anchor
    \/ \E m \in anchored, r \in Requests : Complete(r, m) \/ OpenCompleted(r, m)
    \/ \E R \in SUBSET Requests : Delete(R)

Spec == Init /\ [][Next]_lifecycleVars
=============================================================================
