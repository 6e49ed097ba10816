--------------------------- MODULE LifecycleProofs ---------------------------
(***************************************************************************)
(* Anchoring implements AnchorLifecycle: every step opens, completes or    *)
(* deletes requests or anchors a microblock the way the life cycle does,   *)
(* or changes nothing the life cycle knows of.                             *)
(***************************************************************************)
EXTENDS AnchoringProofs

\* What the refinement needs beside IInv: a row holds nothing before it is
\* opened, and a hash only once it is completed.
LInv ==
    /\ \A r \in Requests : rows[r].status = "unused" => rows[r] = Unused
    /\ \A r \in Requests : ~IsCompleted(r) => rows[r].published = 0

\* A step as the life cycle sees it: for one request, for a set of deleted
\* ones, or for the chain.
Sees(r, status, published) ==
    /\ \A s \in Requests \ {r} :
         rows'[s].status = rows[s].status /\ rows'[s].published = rows[s].published
    /\ rows'[r].status = status /\ rows'[r].published = published
    /\ chain' = chain

SeesNothing ==
    /\ \A s \in Requests :
         rows'[s].status = rows[s].status /\ rows'[s].published = rows[s].published
    /\ chain' = chain

LEMMA SeesNothingStutters == SeesNothing => UNCHANGED Lifecycle!lifecycleVars
BY DEF SeesNothing, Lifecycle!lifecycleVars

LEMMA SeesOpen ==
    ASSUME NEW r \in Requests, Sees(r, "pending", 0), rows[r] = Unused
    PROVE  Lifecycle!Open(r)
<1>1. rows[r].status = "unused" /\ rows[r].published = 0
  BY DEF Unused
<1>2. \A s \in Requests : rows'[s].published = rows[s].published
  BY <1>1 DEF Sees
<1>3. \A s \in Requests : rows'[s].status = IF s = r THEN "pending" ELSE rows[s].status
  BY DEF Sees
<1>. QED
  BY <1>1, <1>2, <1>3 DEF Sees, Lifecycle!Open

LEMMA SeesComplete ==
    ASSUME NEW r \in Requests, NEW m, m \in chain, m.req = r, Sees(r, "completed", m.id), Exists(r)
    PROVE  Lifecycle!Next
<1>. DEFINE a == [id |-> m.id, req |-> m.req]
<1>1. a \in {[id |-> n.id, req |-> n.req] : n \in chain}
  OBVIOUS
<1>2. Lifecycle!Complete(r, a)
  BY DEF Sees, Lifecycle!Complete, Exists
<1>. HIDE DEF a
<1>. QED
  BY <1>1, <1>2 DEF Lifecycle!Next
LEMMA SeesOpenCompleted ==
    ASSUME NEW r \in Requests, NEW m, m \in chain, m.req = NoRequest,
           Sees(r, "completed", m.id), rows[r].status = "unused",
           \A s \in Requests : rows[s].published # m.id
    PROVE  Lifecycle!Next
<1>. DEFINE a == [id |-> m.id, req |-> m.req]
<1>1. a \in {[id |-> n.id, req |-> n.req] : n \in chain}
  OBVIOUS
<1>2. Lifecycle!OpenCompleted(r, a)
  BY DEF Sees, Lifecycle!OpenCompleted
<1>. HIDE DEF a
<1>. QED
  BY <1>1, <1>2 DEF Lifecycle!Next

LEMMA SeesAnchor ==
    ASSUME NEW m \in Microblock, chain' = chain \cup {m}, \A n \in chain : n.id # m.id,
           rows' = rows
    PROVE  Lifecycle!Anchor
<1>. DEFINE A(C) == {[id |-> n.id, req |-> n.req] : n \in C}
            a == [id |-> m.id, req |-> m.req]
<1>1. /\ A(chain') = A(chain) \cup {a} /\ a \in A(chain')
      /\ a.req \in Requests \cup {NoRequest}
      /\ \A b \in A(chain) : b.id # a.id
  BY DEF Microblock
<1>. QED
  BY <1>1 DEF Lifecycle!Anchor

LEMMA SeesDelete ==
    ASSUME NEW R \in SUBSET Requests, \A r \in R : Exists(r),
           \A r \in Requests : IF r \in R THEN rows'[r] = Deleted ELSE rows'[r] = rows[r],
           chain' = chain
    PROVE  Lifecycle!Delete(R)
<1>1. /\ \A r \in R : rows[r].status \in {"pending", "completed"}
      /\ \A r \in Requests : rows'[r].status = IF r \in R THEN "deleted" ELSE rows[r].status
      /\ \A r \in Requests : rows'[r].published = IF r \in R THEN 0 ELSE rows[r].published
  BY DEF Exists, Deleted, Unused
<1>. QED
  BY <1>1 DEF Lifecycle!Delete

(***************************************************************************)
(* Step by step.                                                           *)
(***************************************************************************)

\* The steps the life cycle does not see: they write at most the seed or the
\* built microblock of a row that exists.
Unseen(h) ==
    \/ Receive(h) \/ FindRequest(h) \/ FindApplicationByVbId(h) \/ LoadApplicationLedger(h)
    \/ ReadGenesisSeed(h) \/ SaveGeneratedSeed(h) \/ BuildMicroblock(h) \/ AskActorKey(h)
    \/ SealAndPublish(h) \/ MarkAsPublished(h) \/ Answer(h) \/ BuildAndPublish(h)
    \/ Throws(h) \/ Fails(h)

\* What such a step makes of the rows.
ColumnsOnly ==
    \/ rows' = rows
    \/ \E r \in Requests, seed \in Nat : SaveGenesisSeed(r, seed)
    \/ \E r \in Requests, mb \in Microblock : SaveMicroblock(r, mb)

LEMMA ColumnsOnlyIsUnseen ==
    ASSUME TypeInv, ColumnsOnly, chain' = chain
    PROVE  /\ SeesNothing
           /\ \A r \in Requests : rows[r].status = "unused" => rows'[r] = rows[r]
BY DEF TypeInv, TypeOK, Row, ColumnsOnly, SeesNothing, SaveGenesisSeed, SaveMicroblock, Exists

LEMMA UnseenWrites ==
    ASSUME TypeInv, NEW h \in Handlers, Unseen(h)
    PROVE  ColumnsOnly /\ chain' = chain
<1>1. call[h] \in Call /\ NamesARequest(call[h]) /\ nonce \in Nat
  BY DEF TypeInv, TypeOK, NamesRequest
<1>2. CASE SaveGeneratedSeed(h) \/ AskActorKey(h)
  <2>1. call[h].req \in Requests /\ call[h].prev \in Nat
    BY <1>1, <1>2 DEF SaveGeneratedSeed, AskActorKey, NamesARequest, WalletOps, WalletPcs, Call
  <2>2. \E seed \in Nat : SaveGenesisSeed(call[h].req, seed)
    BY <1>2, <2>1 DEF SaveGeneratedSeed, AskActorKey, Before
  <2>. QED
    BY <1>2, <2>1, <2>2 DEF ColumnsOnly, SaveGeneratedSeed, AskActorKey, chainVars
<1>3. CASE BuildMicroblock(h)
  <2>1. call[h].req \in Requests
    BY <1>1, <1>3 DEF BuildMicroblock, NamesARequest, WalletOps
  <2>2. \A b \in BOOLEAN : [id |-> nonce, req |-> call[h].req, vb |-> call[h].vb,
                            prev |-> call[h].prev, subscribes |-> b, signed |-> 0, sent |-> 0] \in Microblock
    BY <1>1, <2>1 DEF Microblock, Call
  <2>3. (call[h].op = "actorKey") \in BOOLEAN
    OBVIOUS
  <2>4. \E mb \in Microblock : SaveMicroblock(call[h].req, mb)
    BY <1>3, <2>2, <2>3, Zenon DEF BuildMicroblock
  <2>. QED
    BY <1>3, <2>1, <2>4 DEF ColumnsOnly, BuildMicroblock, chainVars
<1>4. CASE ~(SaveGeneratedSeed(h) \/ AskActorKey(h) \/ BuildMicroblock(h))
  BY <1>4
  DEF Unseen, ColumnsOnly, Receive, ClientSends, WalletSends, FindRequest, FindApplicationByVbId,
      LoadApplicationLedger, ReadGenesisSeed, SealAndPublish, MarkAsPublished, Answer,
      BuildAndPublish, Throws, Fails, dbVars, chainVars
<1>. QED
  BY <1>2, <1>3, <1>4
LEMMA LInvInit == Init => LInv
BY DEF Init, LInv, Unused, Idle, IsCompleted, AwaitsAnchor

LEMMA LInvUnseen ==
    ASSUME LInv, SeesNothing, \A r \in Requests : rows[r].status = "unused" => rows'[r] = rows[r]
    PROVE  LInv'
BY DEF LInv, SeesNothing, IsCompleted

\* Every step is a step of the life cycle or a stutter, and keeps LInv.
StepRefines == LInv' /\ [Lifecycle!Next]_(Lifecycle!lifecycleVars)

LEMMA UnseenRefines ==
    ASSUME IInv, LInv, NEW h \in Handlers, Unseen(h)
    PROVE  StepRefines
<1>1. SeesNothing /\ \A r \in Requests : rows[r].status = "unused" => rows'[r] = rows[r]
  BY UnseenWrites, ColumnsOnlyIsUnseen DEF IInv
<1>. QED
  BY <1>1, LInvUnseen, SeesNothingStutters DEF StepRefines

LEMMA StoreRefines ==
    ASSUME IInv, LInv, NEW h \in Handlers, NEW r \in Requests, StoreAnchorRequest(h, r)
    PROVE  StepRefines
<1>1. rows \in [Requests -> Row] /\ rows[r] = Unused
  BY DEF IInv, TypeInv, TypeOK, LInv, StoreAnchorRequest
<1>2. /\ \A s \in Requests \ {r} : rows'[s] = rows[s]
      /\ rows'[r].status = "pending" /\ rows'[r].published = 0
      /\ chain' = chain
  BY <1>1 DEF StoreAnchorRequest, Unused, chainVars
<1>3. LInv'
  BY <1>2 DEF LInv, IsCompleted
<1>4. Lifecycle!Next
  BY <1>1, <1>2, SeesOpen DEF Sees, Lifecycle!Next
<1>. QED
  BY <1>3, <1>4 DEF StepRefines

LEMMA AnchorSaveRefines ==
    ASSUME IInv, LInv, NEW h \in Handlers, NEW r \in Requests, SaveCompletedAnchorRequest(h, r)
    PROVE  StepRefines
<1>1. rows \in [Requests -> Row] /\ AwaitsAnchor(h) /\ CallFits(h)
  BY DEF IInv, TypeInv, TypeOK, SaveCompletedAnchorRequest, AwaitsAnchor
<1>2. PICK m \in chain : m = call[h].mb
  BY DEF SaveCompletedAnchorRequest
<1>3. /\ \A s \in Requests \ {r} : rows'[s] = rows[s]
      /\ rows'[r].status = "completed" /\ rows'[r].published = m.id
      /\ chain' = chain /\ rows[r].status = "unused"
  BY <1>1, <1>2 DEF SaveCompletedAnchorRequest, Unused, chainVars
<1>4. \A s \in Requests : rows[s].published # m.id
  BY <1>1, <1>2 DEF IInv, LInv, AnchorInv, CallFits, AwaitsAnchor
<1>5. m.req = NoRequest
  BY <1>1, <1>2 DEF CallFits, AwaitsAnchor
<1>6. LInv'
  BY <1>3 DEF LInv, IsCompleted
<1>7. Lifecycle!Next
  BY <1>3, <1>4, <1>5, SeesOpenCompleted DEF Sees
<1>. QED
  BY <1>6, <1>7 DEF StepRefines

LEMMA ApplyMarkRefines ==
    ASSUME IInv, LInv, NEW k \in marks, ApplyMark(k)
    PROVE  StepRefines
<1>1. /\ rows \in [Requests -> Row] /\ k.req \in Requests
      /\ k.mb \in chain /\ k.mb.req = k.req
  BY DEF IInv, TypeInv, TypeOK, MarkFits, Fits
<1>2. chain' = chain
  BY DEF ApplyMark, chainVars
<1>3. CASE ~Exists(k.req)
  <2>1. SeesNothing /\ rows' = rows
    BY <1>2, <1>3 DEF ApplyMark, SeesNothing
  <2>. QED
    BY <2>1, LInvUnseen, SeesNothingStutters DEF StepRefines
<1>4. CASE Exists(k.req)
  <2>1. /\ \A s \in Requests \ {k.req} : rows'[s] = rows[s]
        /\ rows'[k.req].status = "completed" /\ rows'[k.req].published = k.mb.id
    BY <1>1, <1>4 DEF ApplyMark, Row
  <2>2. LInv'
    BY <2>1 DEF LInv, IsCompleted
  <2>3. Lifecycle!Next
    BY <1>1, <1>2, <1>4, <2>1, SeesComplete DEF Sees
  <2>. QED
    BY <2>2, <2>3 DEF StepRefines
<1>. QED
  BY <1>3, <1>4

LEMMA NodeRefines ==
    ASSUME IInv, LInv, Node
    PROVE  StepRefines
<1>1. PICK m \in wire : NodeAccepts(m) \/ NodeRefuses(m)
  BY DEF Node
<1>2. rows' = rows /\ m \in Microblock
  BY <1>1 DEF NodeAccepts, NodeRefuses, dbVars, IInv, TypeInv, TypeOK
<1>3. LInv'
  BY <1>2 DEF LInv, IsCompleted
<1>4. CASE NodeAccepts(m)
  <2>1. Lifecycle!Anchor
    BY <1>2, <1>4, SeesAnchor DEF NodeAccepts, Extends
  <2>. QED
    BY <1>3, <2>1 DEF StepRefines, Lifecycle!Next
<1>5. CASE NodeRefuses(m)
  <2>1. SeesNothing
    BY <1>2, <1>5 DEF SeesNothing, NodeRefuses, chainVars
  <2>. QED
    BY <1>3, <2>1, SeesNothingStutters DEF StepRefines
<1>. QED
  BY <1>1, <1>4, <1>5

\* The administrator deletes the requests of a set R, which may be empty.
LEMMA DeleteRefines ==
    ASSUME LInv, NEW R \in SUBSET Requests, \A r \in R : Exists(r),
           \A r \in Requests : IF r \in R THEN rows'[r] = Deleted ELSE rows'[r] = rows[r],
           chain' = chain
    PROVE  StepRefines
<1>1. LInv'
  BY DEF LInv, IsCompleted, Deleted, Unused
<1>2. Lifecycle!Next
  BY SeesDelete DEF Lifecycle!Next
<1>. QED
  BY <1>1, <1>2 DEF StepRefines

LEMMA AdminRefines ==
    ASSUME IInv, LInv, Admin
    PROVE  StepRefines
<1>1. rows \in [Requests -> Row] /\ chain' = chain
  BY DEF IInv, TypeInv, TypeOK, Admin, DeleteAnchorRequest, DeleteApplications,
         CreateApplication, chainVars
<1>2. ASSUME NEW r \in Requests, DeleteAnchorRequest(r) PROVE StepRefines
  <2>1. Exists(r) /\ \A s \in Requests : IF s \in {r} THEN rows'[s] = Deleted ELSE rows'[s] = rows[s]
    BY <1>1, <1>2 DEF DeleteAnchorRequest
  <2>. QED
    BY <1>1, <2>1, DeleteRefines
<1>3. ASSUME NEW A \in SUBSET apps, DeleteApplications(A) PROVE StepRefines
  <2>. DEFINE R == {r \in Requests : Exists(r) /\ rows[r].app \in A}
  <2>1. /\ \A r \in R : Exists(r)
        /\ \A r \in Requests : IF r \in R THEN rows'[r] = Deleted ELSE rows'[r] = rows[r]
    BY <1>1, <1>3 DEF DeleteApplications
  <2>. HIDE DEF R
  <2>2. R \in SUBSET Requests
    BY DEF R
  <2>. QED
    BY <1>1, <2>1, <2>2, DeleteRefines
<1>4. ASSUME NEW a \in Apps, CreateApplication(a) PROVE StepRefines
  BY <1>1, <1>4, LInvUnseen, SeesNothingStutters DEF CreateApplication, SeesNothing, StepRefines
<1>. QED
  BY <1>2, <1>3, <1>4 DEF Admin

LEMMA NextRefines == IInv /\ LInv /\ [Next]_vars => StepRefines
<1>. SUFFICES ASSUME IInv, LInv, [Next]_vars PROVE StepRefines
  OBVIOUS
<1>1. ASSUME SeesNothing, rows' = rows PROVE StepRefines
  BY <1>1, LInvUnseen, SeesNothingStutters DEF StepRefines
<1>2. CASE UNCHANGED vars \/ Crash
  BY <1>1, <1>2 DEF vars, SeesNothing, Crash, chainVars
<1>3. ASSUME NEW h \in Handlers, Receive(h) \/ Step(h) \/ Fails(h) PROVE StepRefines
  BY <1>3, UnseenRefines, StoreRefines, AnchorSaveRefines DEF Step, Unseen
<1>4. ASSUME Next PROVE StepRefines
  BY <1>2, <1>3, <1>4, ApplyMarkRefines, NodeRefines, AdminRefines DEF Next
<1>. QED
  BY <1>2, <1>4

LEMMA LInvHolds == Spec => []LInv
<1>1. IInv /\ LInv /\ [Next]_vars => LInv'
  BY NextRefines DEF StepRefines
<1>. QED
  BY <1>1, LInvInit, IInvHolds, PTL DEF Spec

(***************************************************************************)
(* The theorems.                                                           *)
(***************************************************************************)

\* Anchoring implements the life cycle the API promises.
THEOREM LifecycleImplemented == Spec => ImplementsLifecycle
<1>1. Init => Lifecycle!Init
  BY DEF Init, Lifecycle!Init, Unused
<1>2. IInv /\ LInv /\ [Next]_vars => [Lifecycle!Next]_(Lifecycle!lifecycleVars)
  BY NextRefines DEF StepRefines
<1>. QED
  BY <1>1, <1>2, IInvHolds, LInvHolds, PTL DEF Spec, ImplementsLifecycle

\* What the life cycle says of one request.
LEMMA StatusMoves ==
    ASSUME IInv, LInv, [Next]_vars, NEW r \in Requests
    PROVE  /\ IsCompleted(r) => rows'[r].status \in {"completed", "deleted"}
           /\ rows[r].status = "deleted" => rows'[r].status = "deleted"
<1>1. [Lifecycle!Next]_(Lifecycle!lifecycleVars)
  BY NextRefines DEF StepRefines
<1>. DEFINE st == [s \in Requests |-> rows[s].status]
<1>2. \/ st' = st
      \/ \E s \in Requests : st[s] = "unused" /\ st' = [st EXCEPT ![s] = "pending"]
      \/ \E s \in Requests : st[s] # "deleted" /\ st' = [st EXCEPT ![s] = "completed"]
      \/ \E R \in SUBSET Requests :
           /\ \A s \in R : st[s] \in {"pending", "completed"}
           /\ st' = [s \in Requests |-> IF s \in R THEN "deleted" ELSE st[s]]
  BY <1>1 DEF Lifecycle!Next, Lifecycle!lifecycleVars, Lifecycle!Open, Lifecycle!Anchor,
              Lifecycle!Complete, Lifecycle!OpenCompleted, Lifecycle!Delete
<1>3. st[r] = rows[r].status /\ st'[r] = rows'[r].status
  OBVIOUS
<1>. QED
  BY <1>2, <1>3 DEF IsCompleted

\* A completed request stays completed until it is deleted.
THEOREM CompletionIsFinalHolds == Spec => CompletionIsFinal
<1>1. IInv /\ LInv /\ [Next]_vars =>
        [\A r \in Requests : IsCompleted(r) => rows'[r].status \in {"completed", "deleted"}]_vars
  BY StatusMoves
<1>. QED
  BY <1>1, IInvHolds, LInvHolds, PTL DEF Spec, CompletionIsFinal

\* A deleted request never comes back.
THEOREM DeletedStaysDeletedHolds == Spec => DeletedStaysDeleted
<1>1. IInv /\ LInv /\ [Next]_vars =>
        [\A r \in Requests : rows[r].status = "deleted" => rows'[r].status = "deleted"]_vars
  BY StatusMoves
<1>. QED
  BY <1>1, IInvHolds, LInvHolds, PTL DEF Spec, DeletedStaysDeleted
=============================================================================
