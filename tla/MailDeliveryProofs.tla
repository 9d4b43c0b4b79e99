------------------------- MODULE MailDeliveryProofs -------------------------
(***************************************************************************)
(* What delivery guarantees for every set of conversations, every queue    *)
(* capacity and every bound: types; the bound of its queue, the currency   *)
(* of idle rows, that one operation at a time may replace a document, and  *)
(* that delivery implements AcceptedOutcome, all under every combination   *)
(* of faults; that an accepted outcome stays available while nobody else   *)
(* deletes documents, and that labels are kept when users set them in      *)
(* quiet.  Each rests on the type invariant, the last three on one live    *)
(* operation too.                                                          *)
(***************************************************************************)
EXTENDS MailDelivery, FiniteSetTheorems, TLAPS

\* A coroutine between the first and the last await of _deliver.
Delivering == {"delete", "gone", "status", "current", "labels", "retain",
               "retaining", "retry", "poll", "verify", "relabel", "relabelled"}

\* A row with a payload names the operation that carries it, a delivery
\* works on a row with a payload, and what it sends has its tags.
RowShape(row, place) ==
  /\ row.payload # None => row.op \in OpId
  /\ place \in Delivering => row.payload # None
  /\ place = "retain" => row.payload.tags # None

Shape == \A t \in Thread : RowShape(threads[t], at[t])

TypeInv == TypeOK /\ Shape

-----------------------------------------------------------------------------
(* Rows *)

LEMMA NewRowIsRow == NewRow \in Row
  BY DeliveryAssumption DEF NewRow, Row, Version

LEMMA ErrorRowIsRow ==
  ASSUME NEW row \in Row
  PROVE  /\ [row EXCEPT !.state = "error"] \in Row
         /\ [row EXCEPT !.state = "error"].payload = row.payload
         /\ [row EXCEPT !.state = "error"].op = row.op
  BY DEF Row

LEMMA AcceptedIsRow ==
  ASSUME NEW row \in Row, NEW action, NEW ev \in Version, NEW revision \in Nat
  PROVE  /\ Accepted(row, action, ev, revision) \in Row
         /\ Accepted(row, action, ev, revision).payload = None
  BY DEF Row, Accepted

LEMMA BumpedIsRow ==
  ASSUME NEW row \in Row
  PROVE  /\ Bumped(row) \in Row
         /\ Bumped(row).payload = row.payload
         /\ Bumped(row).op = row.op
<1>1. row.revision + 1 \in Nat
  BY DEF Row
<1>2. CASE row.payload = None
  <2>1. Bumped(row) = [row EXCEPT !.revision = row.revision + 1, !.state = "dirty"]
    BY <1>2, Zenon DEF Bumped
  <2>2. QED BY <1>1, <2>1 DEF Row
<1>3. CASE row.payload # None
  <2>1. Bumped(row) = [row EXCEPT !.revision = row.revision + 1, !.state = row.state]
    BY <1>3, Zenon DEF Bumped
  <2>2. QED BY <1>1, <2>1 DEF Row
<1>4. QED BY <1>2, <1>3

LEMMA PreparedIsRow ==
  ASSUME NEW row \in Row, NEW action \in {"publish", "withdraw"}, NEW ev \in Version,
         NEW revision \in Nat, NEW op \in OpId
  PROVE  /\ Prepared(row, action, ev, revision, op) \in Row
         /\ Prepared(row, action, ev, revision, op).payload # None
         /\ Prepared(row, action, ev, revision, op).op = op
<1> DEFINE payload == [action |-> action, input |-> ev, tags |-> None, kept |-> None]
<1>1. payload \in Payload
  <2>1. ASSUME NEW A, NEW B, NEW C, NEW D, NEW a \in A, NEW b \in B, NEW c \in C, NEW d \in D
        PROVE  [action |-> a, input |-> b, tags |-> c, kept |-> d]
               \in [action : A, input : B, tags : C, kept : D]
    OBVIOUS
  <2>2. None \in {None} \cup SUBSET Label
    OBVIOUS
  <2>3. QED BY <2>1, <2>2, Zenon DEF Payload
<1>2. payload # None
  BY <1>1, NoneAssumption
<1>3. QED
  BY <1>1, <1>2 DEF Row, Prepared

-----------------------------------------------------------------------------
(* A step of one coroutine rewrites one row, one place and one local state. *)

\* The part of TypeInv' a coroutine's step can disturb.
CoroutineTyped ==
  /\ threads' \in [Thread -> Row]
  /\ at' \in [Thread -> Await]
  /\ local' \in [Thread -> Local]
  /\ Shape'
  /\ failed' \subseteq Thread

LEMMA CoroutineStepTyped ==
  ASSUME TypeInv, NEW t \in Thread, NEW row \in Row, NEW place \in Await,
         NEW own \in Local, RowShape(row, place),
         threads' = [threads EXCEPT ![t] = row],
         at' = [at EXCEPT ![t] = place],
         local' = [local EXCEPT ![t] = own]
  PROVE  /\ threads' \in [Thread -> Row]
         /\ at' \in [Thread -> Await]
         /\ local' \in [Thread -> Local]
         /\ Shape'
<1>1. threads \in [Thread -> Row] /\ at \in [Thread -> Await] /\ local \in [Thread -> Local]
  BY DEF TypeInv, TypeOK
<1>2. /\ threads' \in [Thread -> Row]
      /\ at' \in [Thread -> Await]
      /\ local' \in [Thread -> Local]
  BY <1>1
<1>3. ASSUME NEW u \in Thread PROVE RowShape(threads'[u], at'[u])
  <2>1. CASE u = t
    BY <2>1, <1>1
  <2>2. CASE u # t
    BY <2>2, <1>1 DEF TypeInv, Shape
  <2>3. QED BY <2>1, <2>2
<1>4. QED
  BY <1>2, <1>3 DEF Shape

LEMMA ErrorTyped ==
  ASSUME TypeInv, NEW t \in Thread, ThreadError(t)
  PROVE  CoroutineTyped
<1> DEFINE row == [threads[t] EXCEPT !.state = "error"]
<1>1. threads \in [Thread -> Row] /\ failed \subseteq Thread
  BY DEF TypeInv, TypeOK
<1>2. row \in Row /\ row.payload = threads[t].payload /\ row.op = threads[t].op
  BY <1>1, ErrorRowIsRow
<1>3. RowShape(row, "off")
  BY <1>2 DEF RowShape, TypeInv, Shape, Delivering
<1>4. NoLocal \in Local /\ "off" \in Await
  BY DeliveryAssumption DEF NoLocal, Local, Version, Status, Await
<1>5. threads' = [threads EXCEPT ![t] = row]
  BY <1>1 DEF ThreadError
<1>6. QED
  <2> HIDE DEF row
  <2>1. at' = [at EXCEPT ![t] = "off"] /\ local' = [local EXCEPT ![t] = NoLocal]
    BY DEF ThreadError, Leave
  <2>2. failed' \subseteq Thread
    BY <1>1 DEF ThreadError
  <2>3. QED BY <1>2, <1>3, <1>4, <1>5, <2>1, <2>2, CoroutineStepTyped DEF CoroutineTyped

LEMMA FinishTyped ==
  ASSUME TypeInv, NEW t \in Thread, NEW action, NEW ev \in Version, NEW revision \in Nat,
         Finish(t, action, ev, revision)
  PROVE  CoroutineTyped
<1> DEFINE row == Accepted(threads[t], action, ev, revision)
<1>1. CASE revision < threads[t].applied
  BY <1>1, ErrorTyped DEF Finish
<1>2. CASE ~(revision < threads[t].applied)
  <2>1. threads \in [Thread -> Row] /\ failed \subseteq Thread
    BY DEF TypeInv, TypeOK
  <2>2. row \in Row /\ row.payload = None
    BY <2>1, AcceptedIsRow
  <2>3. RowShape(row, "off")
    BY <2>2 DEF RowShape, Delivering
  <2>4. NoLocal \in Local /\ "off" \in Await
    BY DeliveryAssumption DEF NoLocal, Local, Version, Status, Await
  <2>5. /\ threads' = [threads EXCEPT ![t] = row]
        /\ at' = [at EXCEPT ![t] = "off"]
        /\ local' = [local EXCEPT ![t] = NoLocal]
        /\ failed' = failed
    BY <1>2 DEF Finish, Leave
  <2>6. QED
    <3> HIDE DEF row
    <3>1. QED BY <2>1, <2>2, <2>3, <2>4, <2>5, CoroutineStepTyped DEF CoroutineTyped
<1>3. QED BY <1>1, <1>2

\* A coroutine that only moves on to its next await.
LEMMA SuspendTyped ==
  ASSUME TypeInv, NEW t \in Thread, NEW place \in Await, NEW own \in Local,
         Suspend(t, place), UNCHANGED <<threads, failed>>,
         local' = [local EXCEPT ![t] = own], RowShape(threads[t], place)
  PROVE  CoroutineTyped
<1>1. threads \in [Thread -> Row] /\ failed \subseteq Thread
  BY DEF TypeInv, TypeOK
<1>2. threads' = [threads EXCEPT ![t] = threads[t]]
  BY <1>1
<1>3. QED
  BY <1>1, <1>2, CoroutineStepTyped DEF Suspend, CoroutineTyped

LEMMA FaultTyped ==
  ASSUME TypeInv, NEW kind, Fault(kind) \/ UNCHANGED faults
  PROVE  faults' \in Nat
  BY DEF Fault, TypeInv, TypeOK

\* What every step of a coroutine leaves alone.
Frame == UNCHANGED <<mail, whole, sources, gap, phase, window>>

LEMMA CoroutineTypeInv ==
  ASSUME TypeInv, CoroutineTyped, Frame, faults' \in Nat,
         minted' \in [Thread -> {0} \cup OpId],
         documents' \in [Thread -> Document],
         operations' \in [Thread -> [OpId -> Operation]],
         wire' \subseteq Request,
         wanted' \in [Thread -> (SUBSET Label) \cup {None}]
  PROVE  TypeInv'
  BY DEF TypeInv, TypeOK, CoroutineTyped, Frame

\* A step of a coroutine that does not touch the server or mint an id.
LEMMA LocalStepTypeInv ==
  ASSUME TypeInv, CoroutineTyped, Frame, faults' \in Nat,
         UNCHANGED <<minted, documents, operations, wire, wanted>>
  PROVE  TypeInv'
  BY DEF TypeInv, TypeOK, CoroutineTyped, Frame

-----------------------------------------------------------------------------
(* _prepare *)

LEMMA LocalFields ==
  ASSUME TypeInv, NEW t \in Thread
  PROVE  /\ local[t] \in Local
         /\ local[t].revision \in Nat
         /\ local[t].ev \in Version
         /\ threads[t] \in Row
         /\ threads[t].revision \in Nat
         /\ threads[t].target \in Nat
         /\ mail[t] \in Version
         /\ documents[t] \in Document
         /\ documents[t].labels \in SUBSET Label
         /\ RowShape(threads[t], at[t])
  BY DEF TypeInv, TypeOK, Shape, Local, Row, Document

LEMMA BeginTyped ==
  ASSUME TypeInv, NEW t \in Thread, Begin(t)
  PROVE  TypeInv'
<1>1. Frame /\ UNCHANGED <<minted, documents, operations, wire, wanted>>
  BY DEF Begin, Frame, service, mailbox
<1>2. faults' \in Nat
  BY DEF Begin, TypeInv, TypeOK
<1>3. CASE Refused(t)
  <2>1. CoroutineTyped
    BY <1>3, ErrorTyped DEF Begin
  <2>2. QED BY <1>1, <1>2, <2>1, LocalStepTypeInv
<1>4. CASE ~Refused(t)
  <2> DEFINE place == IF threads[t].payload # None THEN DeliveryStart(threads[t]) ELSE "source"
             own == [local[t] EXCEPT !.revision = threads[t].revision]
  <2>1. place \in Await
    BY DEF DeliveryStart, Await
  <2>2. own \in Local
    BY LocalFields DEF Local
  <2>3. RowShape(threads[t], place)
    BY LocalFields DEF RowShape, DeliveryStart, Delivering
  <2>4. local' = [local EXCEPT ![t] = own]
    BY <1>4 DEF Begin, TypeInv, TypeOK
  <2>5. Suspend(t, place) /\ UNCHANGED <<threads, failed>>
    BY <1>4 DEF Begin
  <2>6. CoroutineTyped
    <3> HIDE DEF place, own
    <3>1. QED BY <2>1, <2>2, <2>3, <2>4, <2>5, SuspendTyped
  <2>7. QED BY <1>1, <1>2, <2>6, LocalStepTypeInv
<1>5. QED BY <1>3, <1>4

LEMMA ReadThreadTyped ==
  ASSUME TypeInv, NEW t \in Thread, ReadThread(t)
  PROVE  TypeInv'
<1>1. Frame /\ UNCHANGED <<minted, documents, operations, wire, wanted>>
  BY DEF ReadThread, Frame, service, mailbox
<1>2. faults' \in Nat
  BY FaultTyped DEF ReadThread
<1>3. CoroutineTyped
  <2>1. CASE ThreadError(t)
    BY <2>1, ErrorTyped
  <2>2. CASE Finish(t, "unchanged", mail[t], local[t].revision)
    BY <2>2, FinishTyped, LocalFields
  <2>3. CASE /\ Suspend(t, "previous")
             /\ local' = [local EXCEPT ![t].ev = mail[t]]
             /\ UNCHANGED <<threads, failed>>
    <3> DEFINE own == [local[t] EXCEPT !.ev = mail[t]]
    <3>1. own \in Local
      BY LocalFields DEF Local
    <3>2. local' = [local EXCEPT ![t] = own]
      BY <2>3 DEF TypeInv, TypeOK
    <3>3. "previous" \in Await /\ RowShape(threads[t], "previous")
      BY LocalFields DEF Await, RowShape, Delivering
    <3>4. QED
      <4> HIDE DEF own
      <4>1. QED BY <2>3, <3>1, <3>2, <3>3, SuspendTyped
  <2>4. QED BY <2>1, <2>2, <2>3 DEF ReadThread
<1>4. QED BY <1>1, <1>2, <1>3, LocalStepTypeInv

LEMMA ReadPreviousTyped ==
  ASSUME TypeInv, NEW t \in Thread, ReadPrevious(t)
  PROVE  TypeInv'
<1>1. Frame /\ UNCHANGED <<minted, documents, operations, wire, wanted>>
  BY DEF ReadPrevious, Frame, service, mailbox
<1>2. faults' \in Nat
  BY FaultTyped DEF ReadPrevious
<1>3. CoroutineTyped
  <2>1. CASE ThreadError(t)
    BY <2>1, ErrorTyped
  <2>2. CASE /\ Suspend(t, "compose")
             /\ local' = [local EXCEPT ![t].previous = Exists(t)]
             /\ UNCHANGED <<threads, failed>>
    <3> DEFINE own == [local[t] EXCEPT !.previous = Exists(t)]
    <3>1. own \in Local
      <4>1. Exists(t) \in BOOLEAN
        BY LocalFields, DeliveryAssumption DEF Exists, Document, Version
      <4>2. ASSUME NEW known \in BOOLEAN PROVE [local[t] EXCEPT !.previous = known] \in Local
        BY LocalFields DEF Local
      <4>3. QED BY <4>1, <4>2
    <3>2. local' = [local EXCEPT ![t] = own]
      BY <2>2 DEF TypeInv, TypeOK
    <3>3. "compose" \in Await /\ RowShape(threads[t], "compose")
      BY LocalFields DEF Await, RowShape, Delivering
    <3>4. QED
      <4> HIDE DEF own
      <4>1. QED BY <2>2, <3>1, <3>2, <3>3, SuspendTyped
  <2>3. QED BY <2>1, <2>2 DEF ReadPrevious
<1>4. QED BY <1>1, <1>2, <1>3, LocalStepTypeInv

LEMMA PrepareTyped ==
  ASSUME TypeInv, NEW t \in Thread, NEW action \in {"publish", "withdraw"},
         Prepare(t, action)
  PROVE  CoroutineTyped /\ minted' \in [Thread -> {0} \cup OpId]
<1>1. minted \in [Thread -> {0} \cup OpId] /\ failed \subseteq Thread
  BY DEF TypeInv, TypeOK
<1>2. CASE Full
  BY <1>1, <1>2, ErrorTyped DEF Prepare
<1>3. CASE ~Full
  <2> DEFINE op == minted[t] + 1
             row == Prepared(threads[t], action, local[t].ev, local[t].revision, op)
  <2>1. /\ op \in OpId
        /\ minted' = [minted EXCEPT ![t] = op]
        /\ threads' = [threads EXCEPT ![t] = row]
        /\ at' = [at EXCEPT ![t] = DeliveryStart(row)]
        /\ failed' = failed
        /\ local' = local
    BY <1>3 DEF Prepare, Suspend
  <2>2. row \in Row /\ row.payload # None /\ row.op = op
    <3> HIDE DEF op
    <3>1. QED BY <2>1, LocalFields, PreparedIsRow
  <2>3. DeliveryStart(row) \in Await /\ RowShape(row, DeliveryStart(row))
    <3> HIDE DEF row
    <3>1. QED BY <2>1, <2>2 DEF DeliveryStart, Await, RowShape
  <2>4. local' = [local EXCEPT ![t] = local[t]]
    BY <2>1 DEF TypeInv, TypeOK
  <2>5. QED
    <3> HIDE DEF row, op
    <3>1. /\ threads' \in [Thread -> Row]
          /\ at' \in [Thread -> Await]
          /\ local' \in [Thread -> Local]
          /\ Shape'
      BY <2>1, <2>2, <2>3, <2>4, LocalFields, CoroutineStepTyped
    <3>2. QED BY <1>1, <2>1, <3>1 DEF CoroutineTyped
<1>4. QED BY <1>2, <1>3

LEMMA ComposeTyped ==
  ASSUME TypeInv, NEW t \in Thread, Compose(t)
  PROVE  TypeInv'
<1>1. Frame /\ UNCHANGED <<documents, operations, wire, wanted>>
  BY DEF Compose, Frame, service, mailbox
<1>2. faults' \in Nat
  BY FaultTyped DEF Compose
<1>3. CoroutineTyped /\ minted' \in [Thread -> {0} \cup OpId]
  <2>1. CASE ThreadError(t) /\ UNCHANGED minted
    BY <2>1, ErrorTyped DEF TypeInv, TypeOK
  <2>2. ASSUME NEW action, Finish(t, action, local[t].ev, local[t].revision),
               UNCHANGED minted
        PROVE  CoroutineTyped /\ minted' \in [Thread -> {0} \cup OpId]
    <3>1. CoroutineTyped
      BY <2>2, FinishTyped, LocalFields
    <3>2. QED BY <2>2, <3>1 DEF TypeInv, TypeOK
  <2>3. ASSUME NEW action \in {"publish", "withdraw"}, Prepare(t, action)
        PROVE  CoroutineTyped /\ minted' \in [Thread -> {0} \cup OpId]
    BY <2>3, PrepareTyped
  <2>4. QED BY <2>1, <2>2, <2>3 DEF Compose
<1>4. QED
  BY <1>1, <1>2, <1>3, CoroutineTypeInv DEF TypeInv, TypeOK

-----------------------------------------------------------------------------
(* _deliver *)

\* Suspend with the locals as they are.
LEMMA MoveTyped ==
  ASSUME TypeInv, NEW t \in Thread, NEW place \in Await,
         Suspend(t, place), UNCHANGED <<threads, failed, local>>,
         RowShape(threads[t], place)
  PROVE  CoroutineTyped
<1>1. local' = [local EXCEPT ![t] = local[t]]
  BY DEF TypeInv, TypeOK
<1>2. QED
  BY <1>1, LocalFields, SuspendTyped

\* A delivery works on a row that has a payload.
LEMMA PayloadFields ==
  ASSUME TypeInv, NEW t \in Thread, at[t] \in Delivering
  PROVE  /\ threads[t].payload \in Payload
         /\ threads[t].payload # None
         /\ threads[t].payload.input \in Version
         /\ threads[t].payload.tags \in {None} \cup SUBSET Label
         /\ threads[t].payload.kept \in {None} \cup SUBSET Label
         /\ threads[t].op \in OpId
         /\ \A place \in Delivering \ {"retain"} : RowShape(threads[t], place)
<1>1. threads[t].payload # None /\ threads[t].op \in OpId
  BY LocalFields DEF RowShape
<1>2. threads[t].payload \in Payload
  BY <1>1, LocalFields DEF Row
<1>3. QED
  BY <1>1, <1>2 DEF Payload, RowShape, Delivering

LEMMA DeleteDocumentTyped ==
  ASSUME TypeInv, NEW t \in Thread, DeleteDocument(t)
  PROVE  TypeInv'
<1>1. Frame /\ UNCHANGED <<minted, operations, wire>>
  BY DEF DeleteDocument, Frame, mailbox
<1>2. faults' \in Nat
  BY FaultTyped DEF DeleteDocument
<1>3. documents' \in [Thread -> Document] /\ wanted' \in [Thread -> (SUBSET Label) \cup {None}]
  <2>1. NoDocument \in Document
    BY DeliveryAssumption DEF NoDocument, Document, Version
  <2>2. QED BY <2>1 DEF DeleteDocument, TypeInv, TypeOK
<1>4. CoroutineTyped
  <2>1. CASE ThreadError(t)
    BY <2>1, ErrorTyped
  <2>2. CASE Suspend(t, "gone") /\ UNCHANGED <<threads, failed, local>>
    <3>1. at[t] \in Delivering /\ "gone" \in Await /\ "gone" \in Delivering \ {"retain"}
      BY DEF DeleteDocument, Delivering, Await
    <3>2. QED BY <2>2, <3>1, PayloadFields, MoveTyped
  <2>3. QED BY <2>1, <2>2 DEF DeleteDocument
<1>5. QED
  BY <1>1, <1>2, <1>3, <1>4, CoroutineTypeInv DEF TypeInv, TypeOK

LEMMA ConfirmGoneTyped ==
  ASSUME TypeInv, NEW t \in Thread, ConfirmGone(t)
  PROVE  TypeInv'
<1>1. Frame /\ UNCHANGED <<minted, documents, operations, wire, wanted>>
  BY DEF ConfirmGone, Frame, service, mailbox
<1>2. faults' \in Nat
  BY FaultTyped DEF ConfirmGone
<1>3. CoroutineTyped
  <2>1. CASE ThreadError(t)
    BY <2>1, ErrorTyped
  <2>2. CASE Finish(t, "withdraw", threads[t].payload.input, threads[t].target)
    <3>1. at[t] \in Delivering
      BY DEF ConfirmGone, Delivering
    <3>2. QED BY <2>2, <3>1, PayloadFields, LocalFields, FinishTyped
  <2>3. QED BY <2>1, <2>2 DEF ConfirmGone
<1>4. QED BY <1>1, <1>2, <1>3, LocalStepTypeInv

LEMMA OperationFields ==
  ASSUME TypeInv, NEW t \in Thread, NEW o \in OpId
  PROVE  /\ operations[t] \in [OpId -> Operation]
         /\ operations[t][o] \in Operation
         /\ operations[t][o].status \in Status
         /\ operations[t][o].ev \in Version
         /\ operations[t][o].tags \in SUBSET Label
<1>1. operations[t] \in [OpId -> Operation]
  BY DEF TypeInv, TypeOK
<1>2. operations[t][o] \in Operation
  BY <1>1
<1>3. QED BY <1>1, <1>2 DEF Operation

LEMMA ReadStatusTyped ==
  ASSUME TypeInv, NEW t \in Thread, ReadStatus(t)
  PROVE  TypeInv'
<1>1. Frame /\ UNCHANGED <<minted, documents, operations, wire, wanted>>
  BY DEF ReadStatus, Frame, service, mailbox
<1>2. faults' \in Nat
  BY FaultTyped DEF ReadStatus
<1>3. at[t] \in Delivering
  BY DEF ReadStatus, Delivering
<1>4. CoroutineTyped
  <2>1. CASE ThreadError(t)
    BY <2>1, ErrorTyped
  <2>2. CASE /\ Suspend(t, "current")
             /\ local' = [local EXCEPT ![t].status = OperationStatus(t)]
             /\ UNCHANGED <<threads, failed>>
    <3> DEFINE own == [local[t] EXCEPT !.status = OperationStatus(t)]
    <3>1. own \in Local
      <4>1. OperationStatus(t) \in Status
        BY <1>3, PayloadFields, OperationFields DEF OperationStatus
      <4>2. QED BY <4>1, LocalFields DEF Local
    <3>2. local' = [local EXCEPT ![t] = own]
      BY <2>2 DEF TypeInv, TypeOK
    <3>3. "current" \in Await /\ RowShape(threads[t], "current")
      BY <1>3, PayloadFields DEF Await, Delivering
    <3>4. QED
      <4> HIDE DEF own
      <4>1. QED BY <2>2, <3>1, <3>2, <3>3, SuspendTyped
  <2>3. QED BY <2>1, <2>2 DEF ReadStatus
<1>5. QED BY <1>1, <1>2, <1>4, LocalStepTypeInv

LEMMA RenewedIsRow ==
  ASSUME TypeInv, NEW t \in Thread, at[t] = "current", Renewed(t, threads[t]).op \in OpId
  PROVE  /\ Renewed(t, threads[t]) \in Row
         /\ Renewed(t, threads[t]).payload # None
<1> DEFINE row == threads[t]
           keeping == Exists(t) /\ local[t].status \notin {"completed", "faulty"}
           kept == IF keeping THEN [row EXCEPT !.payload.kept = documents[t].labels] ELSE row
<1>1. row \in Row /\ row.payload \in Payload /\ row.payload # None
  BY LocalFields, PayloadFields DEF Delivering
<1>2. kept \in Row /\ kept.payload # None
  <2>1. CASE keeping
    <3> DEFINE payload == [row.payload EXCEPT !.kept = documents[t].labels]
    <3>1. documents[t].labels \in {None} \cup SUBSET Label
      BY LocalFields
    <3>2. payload \in Payload
      BY <1>1, <3>1 DEF Payload
    <3>3. payload # None
      BY <3>2, NoneAssumption
    <3>4. kept = [row EXCEPT !.payload = payload]
      <4>1. kept = [row EXCEPT !.payload.kept = documents[t].labels]
        BY <2>1, Zenon
      <4>2. QED BY <4>1
    <3>5. QED
      <4> HIDE DEF payload, kept, row
      <4>1. QED BY <1>1, <3>2, <3>3, <3>4 DEF Row
  <2>2. CASE ~keeping
    <3>1. kept = row
      BY <2>2, Zenon
    <3>2. QED BY <1>1, <3>1, Zenon
  <2>3. QED BY <2>1, <2>2
<1>3. CASE local[t].status = "cancelled"
  <2> DEFINE op == minted[t] + 1
  <2>1. Renewed(t, threads[t]) = [kept EXCEPT !.op = op, !.state = "prepared"]
    BY <1>3, Zenon DEF Renewed
  <2>2. QED
    <3> HIDE DEF kept, op
    <3>1. Renewed(t, threads[t]).op = op
      BY <1>2, <2>1 DEF Row
    <3>2. QED BY <1>2, <2>1, <3>1 DEF Row
<1>4. CASE local[t].status # "cancelled"
  <2>1. Renewed(t, threads[t]) = kept
    BY <1>4, Zenon DEF Renewed
  <2>2. QED
    <3> HIDE DEF kept
    <3>1. QED BY <1>2, <2>1
<1>5. QED BY <1>3, <1>4

LEMMA ReadCurrentTyped ==
  ASSUME TypeInv, NEW t \in Thread, ReadCurrent(t)
  PROVE  TypeInv'
<1> DEFINE row == Renewed(t, threads[t])
           place == AfterStatus(local[t].status, row)
<1>1. Frame /\ UNCHANGED <<documents, operations, wire, wanted>>
  BY DEF ReadCurrent, Frame, service, mailbox
<1>2. faults' \in Nat
  BY FaultTyped DEF ReadCurrent
<1>3. CoroutineTyped /\ minted' \in [Thread -> {0} \cup OpId]
  <2>1. CASE ThreadError(t) /\ UNCHANGED minted
    BY <2>1, ErrorTyped DEF TypeInv, TypeOK
  <2>2. CASE /\ row.op \in OpId
             /\ threads' = [threads EXCEPT ![t] = row]
             /\ minted' = IF row.op = threads[t].op THEN minted
                          ELSE [minted EXCEPT ![t] = row.op]
             /\ Suspend(t, place)
             /\ UNCHANGED <<failed, local>>
    <3>1. row \in Row /\ row.payload # None
      BY <2>2, RenewedIsRow DEF ReadCurrent
    <3> HIDE DEF row
    <3>2. place \in Await /\ RowShape(row, place)
      BY <2>2, <3>1 DEF AfterStatus, Await, RowShape
    <3> HIDE DEF place
    <3>3. minted' \in [Thread -> {0} \cup OpId]
      BY <2>2 DEF TypeInv, TypeOK
    <3>4. local' = [local EXCEPT ![t] = local[t]] /\ failed' \subseteq Thread
      BY <2>2 DEF TypeInv, TypeOK
    <3>5. CoroutineTyped
      BY <2>2, <3>1, <3>2, <3>4, LocalFields, CoroutineStepTyped DEF Suspend, CoroutineTyped
    <3>6. QED BY <3>3, <3>5
  <2>3. QED BY <2>1, <2>2, Zenon DEF ReadCurrent
<1>4. QED
  BY <1>1, <1>2, <1>3, CoroutineTypeInv DEF TypeInv, TypeOK

LEMMA ReadLabelsTyped ==
  ASSUME TypeInv, NEW t \in Thread, ReadLabels(t)
  PROVE  TypeInv'
<1>1. Frame /\ UNCHANGED <<minted, documents, operations, wire, wanted>>
  BY DEF ReadLabels, Frame, service, mailbox
<1>2. faults' \in Nat
  BY FaultTyped DEF ReadLabels
<1>3. CoroutineTyped
  <2>1. CASE ThreadError(t)
    BY <2>1, ErrorTyped
  <2>2. CASE /\ threads' = [threads EXCEPT ![t].payload.tags = documents[t].labels]
             /\ Suspend(t, "retain")
             /\ UNCHANGED <<failed, local>>
    <3> DEFINE payload == [threads[t].payload EXCEPT !.tags = documents[t].labels]
               row == [threads[t] EXCEPT !.payload = payload]
    <3>1. threads[t] \in Row /\ threads[t].payload \in Payload /\ threads[t].op \in OpId
      BY LocalFields, PayloadFields DEF ReadLabels, Delivering
    <3>2. payload \in Payload /\ payload.tags = documents[t].labels
      BY <3>1, LocalFields DEF Payload
    <3>3. payload # None /\ payload.tags # None
      BY <3>2, LocalFields, NoneAssumption
    <3>4. threads' = [threads EXCEPT ![t] = row]
      BY <2>2, LocalFields DEF TypeInv, TypeOK
    <3>5. row \in Row /\ row.payload = payload /\ row.op \in OpId
      <4> HIDE DEF payload
      <4>1. QED BY <3>1, <3>2 DEF Row
    <3>6. "retain" \in Await /\ RowShape(row, "retain")
      <4> HIDE DEF row, payload
      <4>1. QED BY <3>3, <3>5 DEF Await, RowShape
    <3>7. local' = [local EXCEPT ![t] = local[t]] /\ failed' \subseteq Thread
      BY <2>2 DEF TypeInv, TypeOK
    <3>8. QED
      <4> HIDE DEF row, payload
      <4>1. QED BY <2>2, <3>4, <3>5, <3>6, <3>7, LocalFields, CoroutineStepTyped
                DEF Suspend, CoroutineTyped
  <2>3. QED BY <2>1, <2>2 DEF ReadLabels
<1>4. QED BY <1>1, <1>2, <1>3, LocalStepTypeInv

LEMMA RetainTyped ==
  ASSUME TypeInv, NEW t \in Thread, Retain(t)
  PROVE  TypeInv'
<1> DEFINE request == [thread |-> t, op |-> threads[t].op,
                       ev |-> threads[t].payload.input,
                       tags |-> threads[t].payload.tags]
<1>1. Frame /\ UNCHANGED <<minted, documents, operations, wanted>>
  BY DEF Retain, Frame, ledger, run, mailbox
<1>2. faults' \in Nat
  BY DEF Retain, TypeInv, TypeOK
<1>3. at[t] \in Delivering
  BY DEF Retain, Delivering
<1>4. wire' \subseteq Request
  <2>1. threads[t].payload.tags \in SUBSET Label
    BY <1>3, PayloadFields, LocalFields DEF RowShape, Retain
  <2>2. request \in Request
    BY <1>3, <2>1, PayloadFields DEF Request
  <2>3. wire' = wire \cup {request}
    BY DEF Retain
  <2>4. QED
    <3> HIDE DEF request
    <3>1. QED BY <2>2, <2>3 DEF TypeInv, TypeOK
<1>5. CoroutineTyped
  <2>1. Suspend(t, "retaining") /\ UNCHANGED <<threads, failed, local>>
    BY DEF Retain, ledger, run
  <2>2. "retaining" \in Await /\ "retaining" \in Delivering \ {"retain"}
    BY DEF Await, Delivering
  <2>3. QED BY <1>3, <2>1, <2>2, PayloadFields, MoveTyped
<1>6. QED
  BY <1>1, <1>2, <1>4, <1>5, CoroutineTypeInv DEF TypeInv, TypeOK

LEMMA RetainedTyped ==
  ASSUME TypeInv, NEW t \in Thread, Retained(t)
  PROVE  TypeInv'
<1>1. Frame /\ UNCHANGED <<minted, documents, operations, wire, wanted>>
  BY DEF Retained, Frame, service, mailbox
<1>2. faults' \in Nat
  BY FaultTyped DEF Retained
<1>3. CoroutineTyped
  <2>1. CASE ThreadError(t)
    BY <2>1, ErrorTyped
  <2>2. CASE /\ threads' = [threads EXCEPT ![t].state = "submitted"]
             /\ Suspend(t, "poll")
             /\ UNCHANGED <<failed, local>>
    <3> DEFINE row == [threads[t] EXCEPT !.state = "submitted"]
    <3>1. threads' = [threads EXCEPT ![t] = row]
      BY <2>2, LocalFields DEF TypeInv, TypeOK
    <3>2. row \in Row /\ row.payload # None /\ row.op \in OpId
      BY LocalFields, PayloadFields DEF Row, Retained, Delivering
    <3>3. "poll" \in Await /\ RowShape(row, "poll")
      <4> HIDE DEF row
      <4>1. QED BY <3>2 DEF Await, RowShape
    <3>4. local' = [local EXCEPT ![t] = local[t]] /\ failed' \subseteq Thread
      BY <2>2 DEF TypeInv, TypeOK
    <3>5. QED
      <4> HIDE DEF row
      <4>1. QED BY <2>2, <3>1, <3>2, <3>3, <3>4, LocalFields, CoroutineStepTyped
                DEF Suspend, CoroutineTyped
  <2>3. QED BY <2>1, <2>2 DEF Retained
<1>4. QED BY <1>1, <1>2, <1>3, LocalStepTypeInv

\* A change of one operation's status, or none.
LEMMA OperationsTyped ==
  ASSUME TypeInv, NEW t \in Thread, NEW o \in OpId, NEW status \in Status,
         operations' \in {operations, [operations EXCEPT ![t][o].status = status]}
  PROVE  operations' \in [Thread -> [OpId -> Operation]]
<1> DEFINE work == [operations[t][o] EXCEPT !.status = status]
           table == [operations[t] EXCEPT ![o] = work]
<1>1. operations \in [Thread -> [OpId -> Operation]]
  BY DEF TypeInv, TypeOK
<1>2. work \in Operation
  BY OperationFields DEF Operation
<1>3. table \in [OpId -> Operation]
  <2> HIDE DEF work
  <2>1. QED BY <1>2, OperationFields
<1>4. [operations EXCEPT ![t][o].status = status] = [operations EXCEPT ![t] = table]
  OBVIOUS
<1>5. QED
  <2> HIDE DEF table
  <2>1. QED BY <1>1, <1>3, <1>4

LEMMA RetryOperationTyped ==
  ASSUME TypeInv, NEW t \in Thread, RetryOperation(t)
  PROVE  TypeInv'
<1>1. Frame /\ UNCHANGED <<minted, documents, wire, wanted>>
  BY DEF RetryOperation, Frame, mailbox
<1>2. faults' \in Nat
  BY FaultTyped DEF RetryOperation
<1>3. at[t] \in Delivering
  BY DEF RetryOperation, Delivering
<1>4. operations' \in [Thread -> [OpId -> Operation]]
  <2>1. "pending" \in Status
    BY DEF Status
  <2>2. operations' \in {operations, [operations EXCEPT ![t][threads[t].op].status = "pending"]}
    BY DEF RetryOperation
  <2>3. QED BY <1>3, <2>1, <2>2, PayloadFields, OperationsTyped
<1>5. CoroutineTyped
  <2>1. CASE ThreadError(t)
    BY <2>1, ErrorTyped
  <2>2. CASE Suspend(t, "poll") /\ UNCHANGED <<threads, failed, local>>
    <3>1. "poll" \in Await /\ "poll" \in Delivering \ {"retain"}
      BY DEF Await, Delivering
    <3>2. QED BY <1>3, <2>2, <3>1, PayloadFields, MoveTyped
  <2>3. QED BY <2>1, <2>2 DEF RetryOperation
<1>6. QED
  BY <1>1, <1>2, <1>4, <1>5, CoroutineTypeInv DEF TypeInv, TypeOK

LEMMA PollTyped ==
  ASSUME TypeInv, NEW t \in Thread, Poll(t)
  PROVE  TypeInv'
<1>1. Frame /\ UNCHANGED <<minted, documents, operations, wire, wanted>>
  BY DEF Poll, Frame, service, mailbox
<1>2. faults' \in Nat
  BY FaultTyped DEF Poll
<1>3. CoroutineTyped
  <2>1. CASE ThreadError(t)
    BY <2>1, ErrorTyped
  <2>2. CASE Suspend(t, "verify") /\ UNCHANGED <<threads, failed, local>>
    <3>1. at[t] \in Delivering /\ "verify" \in Await /\ "verify" \in Delivering \ {"retain"}
      BY DEF Poll, Await, Delivering
    <3>2. QED BY <2>2, <3>1, PayloadFields, MoveTyped
  <2>3. QED BY <2>1, <2>2 DEF Poll
<1>4. QED BY <1>1, <1>2, <1>3, LocalStepTypeInv

LEMMA VerifyTyped ==
  ASSUME TypeInv, NEW t \in Thread, Verify(t)
  PROVE  TypeInv'
<1>1. Frame /\ UNCHANGED <<minted, documents, operations, wire, wanted>>
  BY DEF Verify, Frame, service, mailbox
<1>2. faults' \in Nat
  BY FaultTyped DEF Verify
<1>3. at[t] \in Delivering
  BY DEF Verify, Delivering
<1>4. CoroutineTyped
  <2>1. CASE ThreadError(t)
    BY <2>1, ErrorTyped
  <2>2. CASE Finish(t, "publish", threads[t].payload.input, threads[t].target)
    BY <1>3, <2>2, PayloadFields, LocalFields, FinishTyped
  <2>3. CASE /\ threads[t].payload.kept # None
             /\ Suspend(t, "relabel")
             /\ local' = [local EXCEPT ![t].labels = Reconciled(t)]
             /\ UNCHANGED <<threads, failed>>
    <3> DEFINE own == [local[t] EXCEPT !.labels = Reconciled(t)]
    <3>1. Reconciled(t) \in SUBSET Label
      BY <1>3, <2>3, PayloadFields, LocalFields DEF Reconciled
    <3>2. own \in Local
      BY <3>1, LocalFields DEF Local
    <3>3. local' = [local EXCEPT ![t] = own]
      BY <2>3 DEF TypeInv, TypeOK
    <3>4. "relabel" \in Await /\ RowShape(threads[t], "relabel")
      BY <1>3, PayloadFields DEF Await, Delivering
    <3>5. QED
      <4> HIDE DEF own
      <4>1. QED BY <2>3, <3>2, <3>3, <3>4, SuspendTyped
  <2>4. QED BY <2>1, <2>2, <2>3 DEF Verify
<1>5. QED BY <1>1, <1>2, <1>4, LocalStepTypeInv

LEMMA RelabelTyped ==
  ASSUME TypeInv, NEW t \in Thread, Relabel(t)
  PROVE  TypeInv'
<1>1. Frame /\ UNCHANGED <<minted, operations, wire, wanted>>
  BY DEF Relabel, Frame, mailbox
<1>2. faults' \in Nat
  BY FaultTyped DEF Relabel, TypeInv, TypeOK
<1>3. documents' \in [Thread -> Document]
  <2> DEFINE document == [documents[t] EXCEPT !.labels = local[t].labels]
  <2>1. documents \in [Thread -> Document] /\ local[t].labels \in SUBSET Label
    BY LocalFields DEF TypeInv, TypeOK, Local
  <2>2. document \in Document
    BY <2>1, LocalFields DEF Document
  <2>3. \/ documents' = [documents EXCEPT ![t] = document]
        \/ documents' = documents
    BY <2>1 DEF Relabel
  <2>4. QED
    <3> HIDE DEF document
    <3>1. QED BY <2>1, <2>2, <2>3
<1>4. CoroutineTyped
  <2>1. CASE ThreadError(t)
    BY <2>1, ErrorTyped
  <2>2. CASE Suspend(t, "relabelled") /\ UNCHANGED <<threads, failed, local>>
    <3>1. at[t] \in Delivering /\ "relabelled" \in Await /\ "relabelled" \in Delivering \ {"retain"}
      BY DEF Relabel, Await, Delivering
    <3>2. QED BY <2>2, <3>1, PayloadFields, MoveTyped
  <2>3. QED BY <2>1, <2>2 DEF Relabel
<1>5. QED
  BY <1>1, <1>2, <1>3, <1>4, CoroutineTypeInv DEF TypeInv, TypeOK

LEMMA RelabelledTyped ==
  ASSUME TypeInv, NEW t \in Thread, Relabelled(t)
  PROVE  TypeInv'
<1>1. Frame /\ UNCHANGED <<minted, documents, operations, wire, wanted>>
  BY DEF Relabelled, Frame, service, mailbox
<1>2. faults' \in Nat
  BY FaultTyped DEF Relabelled
<1>3. CoroutineTyped
  <2>1. CASE ThreadError(t)
    BY <2>1, ErrorTyped
  <2>2. CASE Finish(t, "publish", threads[t].payload.input, threads[t].target)
    <3>1. at[t] \in Delivering
      BY DEF Relabelled, Delivering
    <3>2. QED BY <2>2, <3>1, PayloadFields, LocalFields, FinishTyped
  <2>3. QED BY <2>1, <2>2 DEF Relabelled
<1>4. QED BY <1>1, <1>2, <1>3, LocalStepTypeInv

LEMMA CoroutineTyping ==
  ASSUME TypeInv, NEW t \in Thread, Coroutine(t)
  PROVE  TypeInv'
<1>1. CASE Prepares(t)
  BY <1>1, BeginTyped, ReadThreadTyped, ReadPreviousTyped, ComposeTyped DEF Prepares
<1>2. CASE Delivers(t)
  BY <1>2, DeleteDocumentTyped, ConfirmGoneTyped, ReadStatusTyped, ReadCurrentTyped,
     ReadLabelsTyped, RetainTyped, RetainedTyped, RetryOperationTyped, PollTyped,
     VerifyTyped, RelabelTyped, RelabelledTyped DEF Delivers
<1>3. QED BY <1>1, <1>2 DEF Coroutine

-----------------------------------------------------------------------------
(* The run, the server and the environment *)

LEMMA InitTypeInv == Init => TypeInv
<1> SUFFICES ASSUME Init PROVE TypeInv
  OBVIOUS
<1>1. NoLocal \in Local /\ NoDocument \in Document /\ NoOperation \in Operation /\ 0 \in Version
  BY DeliveryAssumption
     DEF NoLocal, Local, NoDocument, Document, NoOperation, Operation, Version, Status
<1>2. TypeOK
  BY <1>1, NewRowIsRow DEF Init, TypeOK, Await
<1>3. Shape
  BY DEF Init, Shape, RowShape, NewRow, Delivering
<1>4. QED
  BY <1>2, <1>3 DEF TypeInv

LEMMA RecordSourcesTyped ==
  ASSUME TypeInv, NEW t \in Thread, RecordSources(t)
  PROVE  TypeInv'
<1> DEFINE row == Bumped(threads[t])
<1>1. row \in Row /\ row.payload = threads[t].payload /\ row.op = threads[t].op
  BY LocalFields, BumpedIsRow
<1>2. threads' \in {threads, [threads EXCEPT ![t] = row]}
  BY DEF RecordSources
<1> HIDE DEF row
<1>3. threads' \in [Thread -> Row]
  BY <1>1, <1>2 DEF TypeInv, TypeOK
<1>4. Shape'
  <2> SUFFICES ASSUME NEW u \in Thread PROVE RowShape(threads'[u], at'[u])
    BY DEF Shape
  <2>1. /\ threads'[u].payload = threads[u].payload
        /\ threads'[u].op = threads[u].op
        /\ at' = at
    BY <1>1, <1>2 DEF RecordSources, TypeInv, TypeOK
  <2>2. QED BY <2>1, LocalFields DEF RowShape
<1>5. /\ gap' \in [Thread -> BOOLEAN]
      /\ sources' \in [Thread -> Version]
      /\ window' \subseteq Thread
  BY LocalFields DEF RecordSources, TypeInv, TypeOK
<1>6. UNCHANGED <<mail, whole, minted, phase, failed, at, local, documents, operations,
                  wire, wanted, faults>>
  BY DEF RecordSources, mailbox, service
<1>7. QED
  BY <1>3, <1>4, <1>5, <1>6 DEF TypeInv, TypeOK

\* The steps of the run that only queue or stop coroutines.
LEMMA QueueTyped ==
  ASSUME TypeInv, at' \in [Thread -> {"off", "queued"}], UNCHANGED threads
  PROVE  at' \in [Thread -> Await] /\ Shape'
<1>1. ASSUME NEW u \in Thread PROVE at'[u] \in Await /\ RowShape(threads'[u], at'[u])
  BY LocalFields DEF Await, RowShape, Delivering
<1>2. QED BY <1>1 DEF Shape

LEMMA RunTyped ==
  ASSUME TypeInv, Run
  PROVE  TypeInv'
<1>1. CASE StartRun
  BY <1>1 DEF StartRun, TypeInv, TypeOK, Shape, mailbox, ledger, service
<1>2. CASE StartDeliveries
  <2>1. at' \in [Thread -> {"off", "queued"}] /\ UNCHANGED threads
    BY <1>2 DEF StartDeliveries, ledger
  <2>2. QED
    BY <1>2, <2>1, QueueTyped DEF StartDeliveries, TypeInv, TypeOK, mailbox, ledger, service
<1>3. CASE StartProcessing
  <2>1. at' \in [Thread -> {"off", "queued"}] /\ UNCHANGED threads
    BY <1>3 DEF StartProcessing, ledger
  <2>2. QED
    BY <1>3, <2>1, QueueTyped DEF StartProcessing, TypeInv, TypeOK, mailbox, ledger, service
<1>4. CASE EndRun
  BY <1>4 DEF EndRun, TypeInv, TypeOK, Shape, mailbox, ledger, service
<1>5. CASE \E t \in Thread : RecordSources(t)
  BY <1>5, RecordSourcesTyped
<1>6. QED
  BY <1>1, <1>2, <1>3, <1>4, <1>5 DEF Run

LEMMA ServerAcceptsTyped ==
  ASSUME TypeInv, NEW r \in wire, ServerAccepts(r)
  PROVE  TypeInv'
<1> DEFINE work == [status |-> "pending", ev |-> r.ev, tags |-> r.tags]
           table == [operations[r.thread] EXCEPT ![r.op] = work]
<1>1. r.thread \in Thread /\ r.op \in OpId /\ work \in Operation
  BY DEF TypeInv, TypeOK, Request, Operation, Status
<1>2. operations \in [Thread -> [OpId -> Operation]]
  BY DEF TypeInv, TypeOK
<1>3. table \in [OpId -> Operation]
  <2> HIDE DEF work
  <2>1. QED BY <1>1, OperationFields
<1>4. operations' \in {operations, [operations EXCEPT ![r.thread] = table]}
  BY <1>2 DEF ServerAccepts
<1>5. operations' \in [Thread -> [OpId -> Operation]]
  <2> HIDE DEF table
  <2>1. QED BY <1>1, <1>2, <1>3, <1>4
<1>6. wire' \subseteq Request /\ faults' \in Nat
  BY FaultTyped DEF ServerAccepts, TypeInv, TypeOK
<1>7. UNCHANGED <<mailbox, ledger, run, at, local, documents, wanted>>
  BY DEF ServerAccepts
<1>8. QED
  BY <1>5, <1>6, <1>7 DEF TypeInv, TypeOK, Shape, mailbox, ledger, run

LEMMA ServerExecutesTyped ==
  ASSUME TypeInv, NEW t \in Thread, NEW o \in OpId, ServerExecutes(t, o)
  PROVE  TypeInv'
<1> DEFINE document == [ev |-> operations[t][o].ev, labels |-> operations[t][o].tags]
<1>1. operations' \in [Thread -> [OpId -> Operation]]
  <2>1. PICK status \in Status :
          operations' = [operations EXCEPT ![t][o].status = status]
    BY DEF ServerExecutes, Status
  <2>2. QED BY <2>1, OperationsTyped
<1>2. documents' \in [Thread -> Document]
  <2>1. document \in Document
    BY OperationFields DEF Document
  <2>2. documents' \in {documents, [documents EXCEPT ![t] = document]}
    BY DEF ServerExecutes
  <2>3. QED
    <3> HIDE DEF document
    <3>1. QED BY <2>1, <2>2 DEF TypeInv, TypeOK
<1>3. faults' \in Nat
  BY FaultTyped DEF ServerExecutes
<1>4. UNCHANGED <<mailbox, ledger, run, at, local, wire, wanted>>
  BY DEF ServerExecutes
<1>5. QED
  BY <1>1, <1>2, <1>3, <1>4 DEF TypeInv, TypeOK, Shape, mailbox, ledger, run

LEMMA MailChangesTyped ==
  ASSUME TypeInv, NEW t \in Thread, MailChanges(t)
  PROVE  TypeInv'
<1>1. mail' \in [Thread -> Version] /\ whole' \in [Thread -> BOOLEAN]
  <2>1. mail' = [mail EXCEPT ![t] = mail[t] + 1] /\ mail[t] < MaxMail
    BY DEF MailChanges
  <2>2. mail[t] + 1 \in Version
    BY <2>1, LocalFields, DeliveryAssumption DEF Version
  <2>3. whole' \in {[whole EXCEPT ![t] = TRUE], [whole EXCEPT ![t] = FALSE]}
    BY DEF MailChanges
  <2>4. QED
    BY <2>1, <2>2, <2>3 DEF TypeInv, TypeOK
<1>2. faults' \in Nat
  BY FaultTyped DEF MailChanges
<1>3. UNCHANGED <<ledger, run, at, local, service, wanted>>
  BY DEF MailChanges
<1>4. QED
  BY <1>1, <1>2, <1>3 DEF TypeInv, TypeOK, Shape, ledger, run, service

LEMMA UserLabelsTyped ==
  ASSUME TypeInv, NEW t \in Thread, UserLabels(t)
  PROVE  TypeInv'
<1>1. PICK labels \in SUBSET Label :
        /\ documents' = [documents EXCEPT ![t].labels = labels]
        /\ wanted' = [wanted EXCEPT ![t] = labels]
  BY DEF UserLabels
<1> DEFINE document == [documents[t] EXCEPT !.labels = labels]
<1>2. document \in Document
  BY LocalFields DEF Document
<1>3. documents' = [documents EXCEPT ![t] = document]
  BY <1>1 DEF TypeInv, TypeOK
<1>4. documents' \in [Thread -> Document] /\ wanted' \in [Thread -> (SUBSET Label) \cup {None}]
  <2> HIDE DEF document
  <2>1. QED BY <1>1, <1>2, <1>3 DEF TypeInv, TypeOK
<1>5. faults' \in Nat
  BY FaultTyped DEF UserLabels
<1>6. UNCHANGED <<mailbox, ledger, run, at, local, operations, wire>>
  BY DEF UserLabels
<1>7. QED
  BY <1>4, <1>5, <1>6 DEF TypeInv, TypeOK, Shape, mailbox, ledger, run

LEMMA UserDeletesTyped ==
  ASSUME TypeInv, NEW t \in Thread, UserDeletes(t)
  PROVE  TypeInv'
<1>1. NoDocument \in Document
  BY DeliveryAssumption DEF NoDocument, Document, Version
<1>2. documents' \in [Thread -> Document] /\ wanted' \in [Thread -> (SUBSET Label) \cup {None}]
  BY <1>1 DEF UserDeletes, TypeInv, TypeOK
<1>3. faults' \in Nat
  BY FaultTyped DEF UserDeletes
<1>4. UNCHANGED <<mailbox, ledger, run, at, local, operations, wire>>
  BY DEF UserDeletes
<1>5. QED
  BY <1>2, <1>3, <1>4 DEF TypeInv, TypeOK, Shape, mailbox, ledger, run

LEMMA UserCancelsTyped ==
  ASSUME TypeInv, NEW t \in Thread, UserCancels(t)
  PROVE  TypeInv'
<1>1. PICK o \in OpId : operations' = [operations EXCEPT ![t][o].status = "cancelled"]
  BY DEF UserCancels
<1>2. operations' \in [Thread -> [OpId -> Operation]]
  BY <1>1, OperationsTyped DEF Status
<1>3. faults' \in Nat
  BY FaultTyped DEF UserCancels
<1>4. UNCHANGED <<mailbox, ledger, run, at, local, documents, wire, wanted>>
  BY DEF UserCancels
<1>5. QED
  BY <1>2, <1>3, <1>4 DEF TypeInv, TypeOK, Shape, mailbox, ledger, run

LEMMA InterruptTyped ==
  ASSUME TypeInv, Interrupt
  PROVE  TypeInv'
<1>1. NoLocal \in Local
  BY DeliveryAssumption DEF NoLocal, Local, Version, Status
<1>2. at' \in [Thread -> {"off", "queued"}] /\ UNCHANGED threads
  BY DEF Interrupt, ledger
<1>3. at' \in [Thread -> Await] /\ Shape'
  BY <1>2, QueueTyped
<1>4. local' \in [Thread -> Local] /\ failed' \subseteq Thread
  BY <1>1 DEF Interrupt
<1>5. faults' \in Nat
  BY FaultTyped DEF Interrupt
<1>6. phase' = "stopped" /\ UNCHANGED <<mailbox, ledger, window, service, wanted>>
  BY DEF Interrupt
<1>7. QED
  BY <1>3, <1>4, <1>5, <1>6 DEF TypeInv, TypeOK, mailbox, ledger, service

LEMMA EnvironmentTyped ==
  ASSUME TypeInv, Environment
  PROVE  TypeInv'
<1>1. ASSUME NEW r \in wire, RequestLost(r) PROVE TypeInv'
  <2>1. faults' \in Nat
    BY <1>1, FaultTyped DEF RequestLost
  <2>2. QED
    BY <1>1, <2>1 DEF RequestLost, TypeInv, TypeOK, Shape, mailbox, ledger, run
<1>2. QED
  BY <1>1, MailChangesTyped, UserLabelsTyped, UserDeletesTyped, UserCancelsTyped,
     InterruptTyped DEF Environment

LEMMA TypeInvInvariant == TypeInv /\ [Next]_vars => TypeInv'
<1> SUFFICES ASSUME TypeInv, [Next]_vars PROVE TypeInv'
  OBVIOUS
<1>1. CASE Run
  BY <1>1, RunTyped
<1>2. CASE Server
  BY <1>2, ServerAcceptsTyped, ServerExecutesTyped DEF Server
<1>3. CASE Environment
  BY <1>3, EnvironmentTyped
<1>4. CASE \E t \in Thread : Coroutine(t)
  BY <1>4, CoroutineTyping
<1>5. CASE UNCHANGED vars
  BY <1>5 DEF vars, mailbox, ledger, run, service, TypeInv, TypeOK, Shape
<1>6. QED
  BY <1>1, <1>2, <1>3, <1>4, <1>5 DEF Next

\* Every reachable state of the ledger, of the coroutines and of the server
\* has the shape the code relies on: a stored payload has an operation id, a
\* delivery has a payload, and tags are known before a request is sent.
THEOREM TypeCorrect == Spec => [](TypeOK /\ Shape)
<1>1. TypeInv => TypeOK /\ Shape
  BY DEF TypeInv
<1>2. QED
  BY <1>1, InitTypeInv, TypeInvInvariant, PTL DEF Spec

-----------------------------------------------------------------------------

\* A step of a coroutine rewrites the row of its own conversation only.
Alone(t) == \A u \in Thread \ {t} : threads'[u] = threads[u]

\* No row gains a payload.
Shrinks == \A u \in Thread : threads'[u].payload # None => threads[u].payload # None

LEMMA ErrorAlone ==
  ASSUME TypeInv, NEW t \in Thread, ThreadError(t)
  PROVE  Alone(t) /\ threads'[t].payload = threads[t].payload
<1>1. threads \in [Thread -> Row]
  BY DEF TypeInv, TypeOK
<1>2. threads' = [threads EXCEPT ![t] = [threads[t] EXCEPT !.state = "error"]]
  BY <1>1 DEF ThreadError
<1>3. QED
  BY <1>1, <1>2, ErrorRowIsRow DEF Alone

LEMMA FinishAlone ==
  ASSUME TypeInv, NEW t \in Thread, NEW action, NEW ev \in Version, NEW revision \in Nat,
         Finish(t, action, ev, revision)
  PROVE  Alone(t) /\ (threads'[t].payload # None => threads[t].payload # None)
<1> DEFINE row == Accepted(threads[t], action, ev, revision)
<1>1. threads \in [Thread -> Row]
  BY DEF TypeInv, TypeOK
<1>2. CASE ThreadError(t)
  BY <1>2, ErrorAlone
<1>3. CASE threads' = [threads EXCEPT ![t] = row]
  <2>1. row.payload = None
    BY LocalFields, AcceptedIsRow
  <2> HIDE DEF row
  <2>2. QED BY <1>1, <1>3, <2>1 DEF Alone
<1>4. QED
  BY <1>2, <1>3 DEF Finish

LEMMA PrepareAlone ==
  ASSUME TypeInv, NEW t \in Thread, NEW action, Prepare(t, action)
  PROVE  /\ Alone(t)
         /\ Full => threads'[t].payload = threads[t].payload
<1>1. CASE Full
  BY <1>1, ErrorAlone DEF Prepare
<1>2. CASE ~Full
  <2> DEFINE row == Prepared(threads[t], action, local[t].ev, local[t].revision, minted[t] + 1)
  <2>1. threads' = [threads EXCEPT ![t] = row]
    BY <1>2 DEF Prepare
  <2> HIDE DEF row
  <2>2. QED BY <1>2, <2>1 DEF Alone, TypeInv, TypeOK
<1>3. QED BY <1>1, <1>2

\* Before the last await of _prepare no payload appears; _prepare adds one
\* only when the queue is not full.
LEMMA PreparesPending ==
  ASSUME TypeInv, NEW t \in Thread, Prepares(t)
  PROVE  Shrinks \/ (~Full /\ Alone(t))
<1>1. ASSUME ThreadError(t) PROVE Shrinks
  BY <1>1, ErrorAlone DEF Shrinks, Alone
<1>2. ASSUME NEW action, NEW ev \in Version, NEW revision \in Nat,
             Finish(t, action, ev, revision)
      PROVE  Shrinks
  BY <1>2, FinishAlone DEF Shrinks, Alone
<1>3. ASSUME UNCHANGED threads PROVE Shrinks
  BY <1>3 DEF Shrinks
<1>4. CASE Begin(t)
  BY <1>1, <1>3, <1>4 DEF Begin
<1>5. CASE ReadThread(t)
  BY <1>1, <1>2, <1>3, <1>5, LocalFields DEF ReadThread
<1>6. CASE ReadPrevious(t)
  BY <1>1, <1>3, <1>6 DEF ReadPrevious
<1>7. CASE Compose(t)
  <2>1. ASSUME NEW action \in {"publish", "withdraw"}, Prepare(t, action)
        PROVE  Shrinks \/ (~Full /\ Alone(t))
    BY <2>1, PrepareAlone DEF Shrinks, Alone
  <2>2. ASSUME NEW action, Finish(t, action, local[t].ev, local[t].revision)
        PROVE  Shrinks
    BY <1>2, <2>2, LocalFields
  <2>3. QED BY <1>1, <1>7, <2>1, <2>2 DEF Compose
<1>8. QED
  BY <1>4, <1>5, <1>6, <1>7 DEF Prepares

\* A delivery works on a row that already has a payload.
LEMMA DeliversAlone ==
  ASSUME TypeInv, NEW t \in Thread, Delivers(t)
  PROVE  Alone(t) /\ at[t] \in Delivering
<1>1. at[t] \in Delivering
  BY DEF Delivers, DeleteDocument, ConfirmGone, ReadStatus, ReadCurrent, ReadLabels, Retain,
         Retained, RetryOperation, Poll, Verify, Relabel, Relabelled, Delivering
<1> SUFFICES Alone(t)
  BY <1>1
<1>2. ASSUME ThreadError(t) PROVE Alone(t)
  BY <1>2, ErrorAlone
<1>3. ASSUME NEW action, Finish(t, action, threads[t].payload.input, threads[t].target)
      PROVE  Alone(t)
  BY <1>1, <1>3, FinishAlone, PayloadFields, LocalFields
<1>4. ASSUME UNCHANGED threads PROVE Alone(t)
  BY <1>4 DEF Alone
<1>5. ASSUME NEW row, threads' = [threads EXCEPT ![t] = row] PROVE Alone(t)
  BY <1>5 DEF Alone, TypeInv, TypeOK
<1>6. CASE DeleteDocument(t)
  BY <1>2, <1>4, <1>6 DEF DeleteDocument
<1>7. CASE ConfirmGone(t)
  BY <1>2, <1>3, <1>7 DEF ConfirmGone
<1>8. CASE ReadStatus(t)
  BY <1>2, <1>4, <1>8 DEF ReadStatus
<1>9. CASE ReadCurrent(t)
  BY <1>2, <1>5, <1>9 DEF ReadCurrent
<1>10. CASE ReadLabels(t)
  <2>1. threads \in [Thread -> Row]
    BY DEF TypeInv, TypeOK
  <2>2. CASE threads' = [threads EXCEPT ![t].payload.tags = documents[t].labels]
    BY <2>1, <2>2 DEF Alone
  <2>3. QED BY <1>2, <1>10, <2>2 DEF ReadLabels
<1>11. CASE Retain(t)
  BY <1>4, <1>11 DEF Retain, ledger
<1>12. CASE Retained(t)
  <2>1. threads \in [Thread -> Row]
    BY DEF TypeInv, TypeOK
  <2>2. CASE threads' = [threads EXCEPT ![t].state = "submitted"]
    BY <2>1, <2>2 DEF Alone
  <2>3. QED BY <1>2, <1>12, <2>2 DEF Retained
<1>13. CASE RetryOperation(t)
  BY <1>2, <1>4, <1>13 DEF RetryOperation
<1>14. CASE Poll(t)
  BY <1>2, <1>4, <1>14 DEF Poll
<1>15. CASE Verify(t)
  BY <1>2, <1>3, <1>4, <1>15 DEF Verify
<1>16. CASE Relabel(t)
  BY <1>2, <1>4, <1>16 DEF Relabel
<1>17. CASE Relabelled(t)
  BY <1>2, <1>3, <1>17 DEF Relabelled
<1>18. QED
  BY <1>6, <1>7, <1>8, <1>9, <1>10, <1>11, <1>12, <1>13, <1>14, <1>15, <1>16, <1>17
     DEF Delivers

\* What one step does to the set of prepared outcomes.
LEMMA PendingStep ==
  ASSUME TypeInv, [Next]_vars
  PROVE  Shrinks \/ \E t \in Thread : ~Full /\ Alone(t)
<1>1. ASSUME UNCHANGED threads PROVE Shrinks
  BY <1>1 DEF Shrinks
<1>2. CASE Run
  <2>1. ASSUME NEW t \in Thread, RecordSources(t) PROVE Shrinks
    <3> DEFINE row == Bumped(threads[t])
    <3>1. row.payload = threads[t].payload
      BY LocalFields, BumpedIsRow
    <3>2. threads' \in {threads, [threads EXCEPT ![t] = row]}
      BY <2>1 DEF RecordSources
    <3> HIDE DEF row
    <3>3. QED BY <3>1, <3>2 DEF Shrinks, TypeInv, TypeOK
  <2>2. QED
    BY <1>1, <1>2, <2>1 DEF Run, StartRun, StartDeliveries, StartProcessing, EndRun, ledger
<1>3. CASE Server
  BY <1>1, <1>3 DEF Server, ServerAccepts, ServerExecutes, ledger
<1>4. CASE Environment
  BY <1>1, <1>4 DEF Environment, MailChanges, UserLabels, UserDeletes, UserCancels,
     RequestLost, Interrupt, ledger
<1>5. ASSUME NEW t \in Thread, Coroutine(t)
      PROVE  Shrinks \/ (~Full /\ Alone(t))
  <2>1. CASE Prepares(t)
    BY <2>1, PreparesPending
  <2>2. CASE Delivers(t)
    <3>1. threads[t].payload # None
      BY <2>2, DeliversAlone, PayloadFields
    <3>2. QED BY <2>2, <3>1, DeliversAlone DEF Shrinks, Alone
  <2>3. QED BY <1>5, <2>1, <2>2 DEF Coroutine
<1>6. CASE UNCHANGED vars
  BY <1>1, <1>6 DEF vars, ledger
<1>7. QED
  BY <1>2, <1>3, <1>4, <1>5, <1>6 DEF Next

LEMMA PendingFinite == IsFiniteSet(Pending) /\ Cardinality(Pending) \in Nat
<1>1. Pending \in SUBSET Thread
  BY DEF Pending
<1>2. IsFiniteSet(Pending)
  BY <1>1, FS_Subset, DeliveryAssumption
<1>3. QED
  BY <1>2, FS_CardinalityType

\* The queue of prepared outcomes never exceeds its capacity, whatever the
\* number of conversations, workers and faults (sync.py checks it before and
\* after the awaits of _prepare).
THEOREM QueueBounded == Spec => []PreparedBound
<1>1. Init => PreparedBound
  <2> SUFFICES ASSUME Init PROVE PreparedBound
    OBVIOUS
  <2>1. Pending = {}
    BY DEF Init, Pending, NewRow
  <2>2. Cardinality(Pending) = 0
    BY <2>1, FS_EmptySet
  <2>3. QED BY <2>2, DeliveryAssumption DEF PreparedBound
<1>2. TypeInv /\ PreparedBound /\ [Next]_vars => PreparedBound'
  <2> SUFFICES ASSUME TypeInv, PreparedBound, [Next]_vars PROVE PreparedBound'
    OBVIOUS
  <2>1. CASE Shrinks
    <3>1. Pending' \in SUBSET Pending
      BY <2>1 DEF Shrinks, Pending
    <3>2. Cardinality(Pending') <= Cardinality(Pending) /\ IsFiniteSet(Pending')
      BY <3>1, PendingFinite, FS_Subset
    <3>3. Cardinality(Pending') \in Nat
      BY <3>2, FS_CardinalityType
    <3>4. QED BY <3>2, <3>3, PendingFinite, DeliveryAssumption DEF PreparedBound
  <2>2. ASSUME NEW t \in Thread, ~Full, Alone(t) PROVE PreparedBound'
    <3> DEFINE more == Pending \cup {t}
    <3>1. Pending' \in SUBSET more
      BY <2>2 DEF Alone, Pending
    <3>2. IsFiniteSet(more) /\ Cardinality(more) <= Cardinality(Pending) + 1
      BY PendingFinite, FS_AddElement
    <3>3. Cardinality(more) \in Nat
      BY <3>2, FS_CardinalityType
    <3>4. Cardinality(Pending') <= Cardinality(more) /\ IsFiniteSet(Pending')
      BY <3>1, <3>2, FS_Subset
    <3>5. Cardinality(Pending') \in Nat
      BY <3>4, FS_CardinalityType
    <3>6. Cardinality(Pending) + 1 <= MaxPrepared
      BY <2>2, PendingFinite, DeliveryAssumption DEF Full
    <3> HIDE DEF more
    <3>7. QED
      BY <3>2, <3>3, <3>4, <3>5, <3>6, PendingFinite, DeliveryAssumption DEF PreparedBound
  <2>3. QED BY <2>1, <2>2, PendingStep
<1>3. QED
  BY <1>1, <1>2, InitTypeInv, TypeInvInvariant, PTL DEF Spec

-----------------------------------------------------------------------------
(* IdleIsCurrent.  An accepted row is left idle only when its target is its *)
(* revision; a revision stands for everything the scan recorded, because    *)
(* the scan bumps it and no coroutine is between two awaits while the scan  *)
(* runs.  That is what the strengthening says.                              *)

\* What the row of a conversation promises about the recorded sources.
RowCurrent(row, recorded, missing) ==
  /\ row.state = "idle" => row.payload = None /\ row.input >= recorded /\ ~missing
  /\ row.payload # None =>
       /\ row.target <= row.revision
       /\ row.target = row.revision => row.payload.input >= recorded /\ ~missing

\* What the locals of a coroutine in _prepare promise about them.
WorkCurrent(place, own, row, recorded, missing, stage) ==
  /\ place \in {"source", "previous", "compose"} =>
       stage = "process" /\ own.revision = row.revision /\ ~missing
  /\ place \in {"previous", "compose"} => own.ev >= recorded
  /\ place = "queued" /\ stage = "deliver" => row.payload # None

CurrentInv ==
  /\ \A t \in Thread : sources[t] <= mail[t]
  /\ phase \in {"stopped", "scan"} => \A t \in Thread : at[t] = "off"
  /\ \A t \in Thread :
       /\ RowCurrent(threads[t], sources[t], gap[t])
       /\ WorkCurrent(at[t], local[t], threads[t], sources[t], gap[t], phase)

LEMMA Numbers ==
  ASSUME TypeInv, NEW t \in Thread
  PROVE  /\ sources[t] \in Int /\ mail[t] \in Int /\ threads[t].input \in Int
         /\ threads[t].revision \in Int /\ threads[t].target \in Int
         /\ threads[t].applied \in Int
         /\ local[t].ev \in Int /\ local[t].revision \in Int
         /\ threads[t].payload # None => threads[t].payload.input \in Int
<1>1. Version \subseteq Int
  BY DeliveryAssumption DEF Version
<1>2. QED
  BY <1>1 DEF TypeInv, TypeOK, Row, Local, Payload

LEMMA CurrentFields ==
  ASSUME CurrentInv, NEW t \in Thread
  PROVE  /\ RowCurrent(threads[t], sources[t], gap[t])
         /\ WorkCurrent(at[t], local[t], threads[t], sources[t], gap[t], phase)
         /\ sources[t] <= mail[t]
         /\ at[t] # "off" => phase \notin {"stopped", "scan"}
  BY DEF CurrentInv

\* A step of one coroutine, given what it leaves in its own row and locals.
LEMMA CoroutineCurrent ==
  ASSUME TypeInv, CurrentInv, NEW t \in Thread, NEW row, NEW place, NEW own,
         at[t] # "off",
         threads' = [threads EXCEPT ![t] = row],
         at' = [at EXCEPT ![t] = place],
         local' = [local EXCEPT ![t] = own],
         RowCurrent(row, sources[t], gap[t]),
         WorkCurrent(place, own, row, sources[t], gap[t], phase),
         UNCHANGED <<mail, sources, gap, phase>>
  PROVE  CurrentInv'
<1>1. threads \in [Thread -> Row] /\ at \in [Thread -> Await] /\ local \in [Thread -> Local]
  BY DEF TypeInv, TypeOK
<1>2. phase' \notin {"stopped", "scan"}
  BY CurrentFields
<1>3. ASSUME NEW u \in Thread
      PROVE  /\ sources'[u] <= mail'[u]
             /\ RowCurrent(threads'[u], sources'[u], gap'[u])
             /\ WorkCurrent(at'[u], local'[u], threads'[u], sources'[u], gap'[u], phase')
  <2>1. CASE u = t
    BY <1>1, <2>1, CurrentFields
  <2>2. CASE u # t
    BY <1>1, <2>2, CurrentFields
  <2>3. QED BY <2>1, <2>2
<1>4. QED
  BY <1>2, <1>3 DEF CurrentInv

LEMMA ErrorCurrent ==
  ASSUME TypeInv, CurrentInv, NEW t \in Thread, at[t] # "off", ThreadError(t),
         UNCHANGED <<mail, sources, gap, phase>>
  PROVE  CurrentInv'
<1> DEFINE row == [threads[t] EXCEPT !.state = "error"]
<1>1. threads' = [threads EXCEPT ![t] = row]
  BY DEF ThreadError, TypeInv, TypeOK
<1>2. RowCurrent(row, sources[t], gap[t])
  BY LocalFields, CurrentFields DEF RowCurrent, Row
<1> HIDE DEF row
<1>3. WorkCurrent("off", NoLocal, row, sources[t], gap[t], phase)
  BY DEF WorkCurrent
<1>4. QED
  BY <1>1, <1>2, <1>3, CoroutineCurrent DEF ThreadError, Leave

\* An accepted row: what is idle now covers what is recorded.
LEMMA FinishCurrent ==
  ASSUME TypeInv, CurrentInv, NEW t \in Thread, at[t] # "off",
         NEW action, NEW ev \in Version, NEW revision \in Nat,
         Finish(t, action, ev, revision),
         UNCHANGED <<mail, sources, gap, phase>>,
         threads[t].revision <= revision => ev >= sources[t] /\ ~gap[t]
  PROVE  CurrentInv'
<1> DEFINE row == Accepted(threads[t], action, ev, revision)
<1>1. CASE ThreadError(t)
  BY <1>1, ErrorCurrent
<1>2. CASE Leave(t) /\ threads' = [threads EXCEPT ![t] = row]
  <2>1. row \in Row /\ row.payload = None
    BY LocalFields, AcceptedIsRow
  <2>2. row.input = ev /\ (row.state = "idle" => ~(threads[t].revision > revision))
    BY LocalFields DEF Row, Accepted
  <2> HIDE DEF row
  <2>3. RowCurrent(row, sources[t], gap[t])
    BY <2>1, <2>2, Numbers DEF RowCurrent
  <2>4. WorkCurrent("off", NoLocal, row, sources[t], gap[t], phase)
    BY DEF WorkCurrent
  <2>5. QED
    BY <1>2, <2>3, <2>4, CoroutineCurrent DEF Leave
<1>3. QED
  BY <1>1, <1>2 DEF Finish

\* A coroutine that moves on and leaves its row alone.
LEMMA MoveCurrent ==
  ASSUME TypeInv, CurrentInv, NEW t \in Thread, NEW place, NEW own, at[t] # "off",
         Suspend(t, place), UNCHANGED threads, local' = [local EXCEPT ![t] = own],
         WorkCurrent(place, own, threads[t], sources[t], gap[t], phase),
         UNCHANGED <<mail, sources, gap, phase>>
  PROVE  CurrentInv'
<1>1. threads' = [threads EXCEPT ![t] = threads[t]]
  BY DEF TypeInv, TypeOK
<1>2. QED
  BY <1>1, CurrentFields, CoroutineCurrent DEF Suspend

LEMMA PreparesCurrent ==
  ASSUME TypeInv, CurrentInv, NEW t \in Thread, Prepares(t)
  PROVE  CurrentInv'
<1>1. at[t] # "off" /\ UNCHANGED <<mail, sources, gap, phase>>
  BY DEF Prepares, Begin, ReadThread, ReadPrevious, Compose, mailbox
<1>2. CASE ThreadError(t)
  BY <1>1, <1>2, ErrorCurrent
<1>3. CASE Begin(t) /\ ~Refused(t)
  <2> DEFINE place == IF threads[t].payload # None THEN DeliveryStart(threads[t]) ELSE "source"
             own == [local[t] EXCEPT !.revision = threads[t].revision]
  <2>1. /\ Suspend(t, place)
        /\ UNCHANGED threads
        /\ at[t] = "queued"
    BY <1>3 DEF Begin
  <2>2. local' = [local EXCEPT ![t] = own]
    BY <1>3 DEF Begin, TypeInv, TypeOK
  <2>3. own.revision = threads[t].revision
    BY LocalFields DEF Local
  <2>4. WorkCurrent(place, own, threads[t], sources[t], gap[t], phase)
    <3>1. CASE threads[t].payload # None
      <4>1. place \in {"delete", "status"}
        BY <3>1 DEF DeliveryStart
      <4>2. QED BY <4>1 DEF WorkCurrent
    <3>2. CASE threads[t].payload = None
      <4>1. place = "source"
        BY <3>2
      <4>2. phase \notin {"stopped", "scan", "deliver"}
        BY <2>1, <3>2, CurrentFields DEF WorkCurrent
      <4>3. phase = "process" /\ ~gap[t]
        BY <1>3, <4>2 DEF TypeInv, TypeOK, Refused
      <4>4. QED
        <5> HIDE DEF place, own
        <5>1. QED BY <2>3, <4>1, <4>3 DEF WorkCurrent
    <3>3. QED BY <3>1, <3>2
  <2>5. QED
    <3> HIDE DEF place, own
    <3>1. QED BY <1>1, <2>1, <2>2, <2>4, MoveCurrent
<1>4. CASE ReadThread(t) /\ ~ThreadError(t)
  <2>1. /\ phase = "process" /\ local[t].revision = threads[t].revision /\ ~gap[t]
        /\ sources[t] <= mail[t]
    BY <1>4, CurrentFields DEF ReadThread, WorkCurrent
  <2>2. CASE Finish(t, "unchanged", mail[t], local[t].revision)
    BY <1>1, <2>1, <2>2, LocalFields, Numbers, FinishCurrent
  <2>3. CASE /\ Suspend(t, "previous")
             /\ local' = [local EXCEPT ![t].ev = mail[t]]
             /\ UNCHANGED threads
    <3> DEFINE own == [local[t] EXCEPT !.ev = mail[t]]
    <3>1. local' = [local EXCEPT ![t] = own]
      BY <2>3 DEF TypeInv, TypeOK
    <3>2. own.ev = mail[t] /\ own.revision = local[t].revision
      BY LocalFields DEF Local
    <3>3. WorkCurrent("previous", own, threads[t], sources[t], gap[t], phase)
      <4> HIDE DEF own
      <4>1. QED BY <2>1, <3>2, Numbers DEF WorkCurrent
    <3>4. QED
      <4> HIDE DEF own
      <4>1. QED BY <1>1, <2>3, <3>1, <3>3, MoveCurrent
  <2>4. QED BY <1>4, <2>2, <2>3 DEF ReadThread
<1>5. CASE ReadPrevious(t) /\ ~ThreadError(t)
  <2> DEFINE own == [local[t] EXCEPT !.previous = Exists(t)]
  <2>1. Suspend(t, "compose") /\ UNCHANGED threads /\ at[t] = "previous"
    BY <1>5 DEF ReadPrevious
  <2>2. local' = [local EXCEPT ![t] = own]
    BY <1>5 DEF ReadPrevious, TypeInv, TypeOK
  <2>3. own.ev = local[t].ev /\ own.revision = local[t].revision
    BY LocalFields DEF Local
  <2> HIDE DEF own
  <2>4. WorkCurrent("compose", own, threads[t], sources[t], gap[t], phase)
    BY <2>1, <2>3, CurrentFields DEF WorkCurrent
  <2>5. QED
    BY <1>1, <2>1, <2>2, <2>4, MoveCurrent
<1>6. CASE Compose(t) /\ ~ThreadError(t)
  <2>1. /\ local[t].revision = threads[t].revision /\ ~gap[t]
        /\ local[t].ev >= sources[t]
    BY <1>6, CurrentFields DEF Compose, WorkCurrent
  <2>2. ASSUME NEW action, Finish(t, action, local[t].ev, local[t].revision)
        PROVE  CurrentInv'
    BY <1>1, <2>1, <2>2, LocalFields, FinishCurrent
  <2>3. ASSUME NEW action \in {"publish", "withdraw"}, Prepare(t, action)
        PROVE  CurrentInv'
    <3>1. ~Full
      BY <1>6, <2>3 DEF Prepare
    <3> DEFINE op == minted[t] + 1
               row == Prepared(threads[t], action, local[t].ev, local[t].revision, op)
    <3>2. /\ op \in OpId
          /\ threads' = [threads EXCEPT ![t] = row]
          /\ at' = [at EXCEPT ![t] = DeliveryStart(row)]
          /\ local' = local
      BY <2>3, <3>1 DEF Prepare, Suspend
    <3>3. /\ row.state = "prepared"
          /\ row.target = local[t].revision
          /\ row.revision = threads[t].revision
          /\ row.payload.input = local[t].ev
      BY LocalFields DEF Prepared, Row
    <3>4. local' = [local EXCEPT ![t] = local[t]]
      BY <3>2 DEF TypeInv, TypeOK
    <3> HIDE DEF row, op
    <3>5. RowCurrent(row, sources[t], gap[t])
      BY <2>1, <3>3, Numbers DEF RowCurrent
    <3>6. WorkCurrent(DeliveryStart(row), local[t], row, sources[t], gap[t], phase)
      BY DEF WorkCurrent, DeliveryStart
    <3>7. QED
      BY <1>1, <3>2, <3>4, <3>5, <3>6, CoroutineCurrent
  <2>4. QED BY <1>6, <2>2, <2>3 DEF Compose
<1>7. QED
  BY <1>2, <1>3, <1>4, <1>5, <1>6 DEF Prepares, Begin

\* What a delivery may do to its row and keep it current.
LEMMA RedeliveryCurrent ==
  ASSUME TypeInv, CurrentInv, NEW t \in Thread, at[t] \in Delivering, NEW row \in Row,
         row.state # "idle", row.target = threads[t].target,
         row.revision = threads[t].revision, row.payload.input = threads[t].payload.input,
         NEW place \in Delivering, Suspend(t, place),
         threads' = [threads EXCEPT ![t] = row], UNCHANGED local,
         UNCHANGED <<mail, sources, gap, phase>>
  PROVE  CurrentInv'
<1>1. threads[t].payload # None /\ at[t] # "off"
  BY PayloadFields DEF Delivering
<1>2. RowCurrent(row, sources[t], gap[t])
  BY <1>1, CurrentFields DEF RowCurrent
<1>3. WorkCurrent(place, local[t], row, sources[t], gap[t], phase)
  BY DEF WorkCurrent, Delivering
<1>4. local' = [local EXCEPT ![t] = local[t]]
  BY DEF TypeInv, TypeOK
<1>5. QED
  BY <1>1, <1>2, <1>3, <1>4, CoroutineCurrent DEF Suspend

LEMMA RenewedKeeps ==
  ASSUME TypeInv, NEW t \in Thread, at[t] = "current", Renewed(t, threads[t]).op \in OpId
  PROVE  LET row == Renewed(t, threads[t]) IN
         /\ row.state \in {"prepared", threads[t].state}
         /\ row.target = threads[t].target
         /\ row.revision = threads[t].revision
         /\ row.input = threads[t].input
         /\ row.outcome = threads[t].outcome
         /\ row.payload.tags = threads[t].payload.tags
         /\ row.payload.kept \in {threads[t].payload.kept, documents[t].labels}
         /\ row.payload.input = threads[t].payload.input
         /\ row.payload.action = threads[t].payload.action
         /\ local[t].status = "cancelled" => row.op = minted[t] + 1
         /\ local[t].status # "cancelled" => row.op = threads[t].op
<1> DEFINE row == threads[t]
           keeping == Exists(t) /\ local[t].status \notin {"completed", "faulty"}
           kept == IF keeping THEN [row EXCEPT !.payload.kept = documents[t].labels] ELSE row
<1>1. row \in Row /\ row.payload \in Payload
  BY LocalFields, PayloadFields DEF Delivering
<1>2. /\ kept.state = row.state /\ kept.target = row.target
      /\ kept.revision = row.revision /\ kept.payload.input = row.payload.input
      /\ kept.op = row.op /\ kept.payload.action = row.payload.action
      /\ kept.input = row.input /\ kept.outcome = row.outcome
      /\ kept.payload.tags = row.payload.tags
      /\ kept.payload.kept \in {row.payload.kept, documents[t].labels}
      /\ DOMAIN kept = DOMAIN row
  <2>1. CASE keeping
    <3>1. kept = [row EXCEPT !.payload.kept = documents[t].labels]
      BY <2>1, Zenon
    <3>2. QED
      <4> HIDE DEF kept, row
      <4>1. QED BY <1>1, <3>1 DEF Row, Payload
  <2>2. CASE ~keeping
    <3>1. kept = row
      BY <2>2, Zenon
    <3>2. QED BY <3>1, Zenon
  <2>3. QED BY <2>1, <2>2
<1>3. CASE local[t].status = "cancelled"
  <2>1. Renewed(t, threads[t]) = [kept EXCEPT !.op = minted[t] + 1, !.state = "prepared"]
    BY <1>3, Zenon DEF Renewed
  <2>2. kept \in [DOMAIN row -> {kept[f] : f \in DOMAIN row}]
    <3>1. CASE keeping
      <4>1. kept = [row EXCEPT !.payload.kept = documents[t].labels]
        BY <3>1, Zenon
      <4>2. QED
        <5> HIDE DEF kept, row
        <5>1. QED BY <1>1, <4>1 DEF Row, Payload
    <3>2. CASE ~keeping
      <4>1. kept = row
        BY <3>2, Zenon
      <4>2. QED
        <5> HIDE DEF kept, row
        <5>1. QED BY <1>1, <4>1 DEF Row
    <3>3. QED BY <3>1, <3>2
  <2>3. QED
    <3> HIDE DEF kept
    <3>1. QED BY <1>1, <1>2, <1>3, <2>1, <2>2 DEF Row
<1>4. CASE local[t].status # "cancelled"
  <2>1. Renewed(t, threads[t]) = kept
    BY <1>4, Zenon DEF Renewed
  <2>2. QED
    <3> HIDE DEF kept
    <3>1. QED BY <1>2, <1>4, <2>1
<1>5. QED BY <1>3, <1>4

LEMMA DeliversCurrent ==
  ASSUME TypeInv, CurrentInv, NEW t \in Thread, Delivers(t)
  PROVE  CurrentInv'
<1>1. at[t] \in Delivering /\ at[t] # "off"
  BY DeliversAlone DEF Delivering
<1>2. UNCHANGED <<mail, sources, gap, phase>>
  BY DEF Delivers, DeleteDocument, ConfirmGone, ReadStatus, ReadCurrent, ReadLabels, Retain,
         Retained, RetryOperation, Poll, Verify, Relabel, Relabelled, mailbox, ledger, run
<1>3. threads[t].state # "idle" /\ threads[t].payload # None
  BY <1>1, PayloadFields, CurrentFields DEF RowCurrent
<1>4. ASSUME ThreadError(t) PROVE CurrentInv'
  BY <1>1, <1>2, <1>4, ErrorCurrent
<1>5. ASSUME NEW action, Finish(t, action, threads[t].payload.input, threads[t].target)
      PROVE  CurrentInv'
  <2>1. threads[t].revision <= threads[t].target
        => threads[t].payload.input >= sources[t] /\ ~gap[t]
    BY <1>3, CurrentFields, Numbers DEF RowCurrent
  <2>2. QED
    BY <1>1, <1>2, <1>5, <2>1, PayloadFields, LocalFields, FinishCurrent
<1>6. ASSUME NEW place \in Delivering, NEW own, Suspend(t, place), UNCHANGED threads,
             local' = [local EXCEPT ![t] = own]
      PROVE  CurrentInv'
  <2>1. WorkCurrent(place, own, threads[t], sources[t], gap[t], phase)
    BY DEF WorkCurrent, Delivering
  <2>2. QED
    BY <1>1, <1>2, <1>6, <2>1, MoveCurrent
<1>7. ASSUME NEW place \in Delivering, Suspend(t, place), UNCHANGED <<threads, local>>
      PROVE  CurrentInv'
  <2>1. local' = [local EXCEPT ![t] = local[t]]
    BY <1>7 DEF TypeInv, TypeOK
  <2>2. QED
    BY <1>6, <1>7, <2>1
<1>8. CASE DeleteDocument(t)
  BY <1>4, <1>7, <1>8 DEF DeleteDocument, Delivering
<1>9. CASE ConfirmGone(t)
  BY <1>4, <1>5, <1>9 DEF ConfirmGone
<1>10. CASE ReadStatus(t)
  <2> DEFINE own == [local[t] EXCEPT !.status = OperationStatus(t)]
  <2>1. ThreadError(t) \/ (Suspend(t, "current") /\ UNCHANGED threads
                           /\ local' = [local EXCEPT ![t] = own])
    BY <1>10 DEF ReadStatus, TypeInv, TypeOK
  <2> HIDE DEF own
  <2>2. QED
    BY <1>4, <1>6, <2>1 DEF Delivering
<1>11. CASE ReadCurrent(t) /\ ~ThreadError(t)
  <2> DEFINE row == Renewed(t, threads[t])
             place == AfterStatus(local[t].status, row)
  <2>1. /\ row.op \in OpId
        /\ threads' = [threads EXCEPT ![t] = row]
        /\ Suspend(t, place)
        /\ UNCHANGED local
        /\ at[t] = "current"
    BY <1>11 DEF ReadCurrent
  <2>2. /\ row \in Row
        /\ row.state # "idle"
        /\ row.target = threads[t].target
        /\ row.revision = threads[t].revision
        /\ row.payload.input = threads[t].payload.input
    BY <1>3, <2>1, RenewedIsRow, RenewedKeeps
  <2> HIDE DEF row
  <2>3. place \in Delivering
    BY DEF AfterStatus, Delivering
  <2> HIDE DEF place
  <2>4. QED
    BY <1>1, <1>2, <2>1, <2>2, <2>3, RedeliveryCurrent
<1>12. CASE ReadLabels(t) /\ ~ThreadError(t)
  <2> DEFINE payload == [threads[t].payload EXCEPT !.tags = documents[t].labels]
             row == [threads[t] EXCEPT !.payload = payload]
  <2>1. threads' = [threads EXCEPT ![t] = row]
    BY <1>12 DEF ReadLabels, TypeInv, TypeOK
  <2>2. payload \in Payload /\ payload.input = threads[t].payload.input
    BY <1>1, PayloadFields, LocalFields DEF Payload
  <2>3. /\ row \in Row
        /\ row.state = threads[t].state
        /\ row.target = threads[t].target
        /\ row.revision = threads[t].revision
        /\ row.payload = payload
    <3> HIDE DEF payload
    <3>1. QED BY <2>2, LocalFields DEF Row
  <2> HIDE DEF row, payload
  <2>4. Suspend(t, "retain") /\ UNCHANGED local
    BY <1>12 DEF ReadLabels
  <2>5. QED
    BY <1>1, <1>2, <1>3, <2>1, <2>2, <2>3, <2>4, RedeliveryCurrent DEF Delivering
<1>13. CASE Retain(t)
  BY <1>7, <1>13 DEF Retain, Delivering, ledger
<1>14. CASE Retained(t) /\ ~ThreadError(t)
  <2> DEFINE row == [threads[t] EXCEPT !.state = "submitted"]
  <2>1. threads' = [threads EXCEPT ![t] = row] /\ Suspend(t, "poll") /\ UNCHANGED local
    BY <1>14 DEF Retained, TypeInv, TypeOK
  <2>2. /\ row \in Row
        /\ row.state = "submitted"
        /\ row.target = threads[t].target
        /\ row.revision = threads[t].revision
        /\ row.payload = threads[t].payload
    BY LocalFields DEF Row
  <2> HIDE DEF row
  <2>3. QED
    BY <1>1, <1>2, <2>1, <2>2, RedeliveryCurrent DEF Delivering
<1>15. CASE RetryOperation(t)
  BY <1>4, <1>7, <1>15 DEF RetryOperation, Delivering
<1>16. CASE Poll(t)
  BY <1>4, <1>7, <1>16 DEF Poll, Delivering
<1>17. CASE Verify(t)
  <2> DEFINE own == [local[t] EXCEPT !.labels = Reconciled(t)]
  <2>1. \/ ThreadError(t)
        \/ Finish(t, "publish", threads[t].payload.input, threads[t].target)
        \/ Suspend(t, "relabel") /\ UNCHANGED threads /\ local' = [local EXCEPT ![t] = own]
    BY <1>17 DEF Verify, TypeInv, TypeOK
  <2> HIDE DEF own
  <2>2. QED
    BY <1>4, <1>5, <1>6, <2>1 DEF Delivering
<1>18. CASE Relabel(t)
  BY <1>4, <1>7, <1>18 DEF Relabel, Delivering
<1>19. CASE Relabelled(t)
  BY <1>4, <1>5, <1>19 DEF Relabelled
<1>20. QED
  BY <1>4, <1>8, <1>9, <1>10, <1>11, <1>12, <1>13, <1>14, <1>15, <1>16, <1>17, <1>18, <1>19
     DEF Delivers

\* The scan bumps the revision whenever what it records changes.
LEMMA RecordSourcesCurrent ==
  ASSUME TypeInv, CurrentInv, NEW t \in Thread, RecordSources(t)
  PROVE  CurrentInv'
<1> DEFINE row == Bumped(threads[t])
<1>1. /\ phase = "scan" /\ \A u \in Thread : at[u] = "off"
      /\ UNCHANGED <<mail, phase, at, local>>
  BY DEF RecordSources, CurrentInv, mailbox
<1>2. /\ row \in Row
      /\ row.payload = threads[t].payload
      /\ row.revision = threads[t].revision + 1
      /\ row.target = threads[t].target
      /\ threads[t].payload = None => row.state = "dirty"
      /\ threads[t].payload # None => row.state = threads[t].state
  <2>1. CASE threads[t].payload = None
    <3>1. row = [threads[t] EXCEPT !.revision = threads[t].revision + 1, !.state = "dirty"]
      BY <2>1, Zenon DEF Bumped
    <3>2. QED
      <4> HIDE DEF row
      <4>1. row \in Row
        BY BumpedIsRow, LocalFields DEF row
      <4>2. QED BY <2>1, <3>1, <4>1, LocalFields DEF Row
  <2>2. CASE threads[t].payload # None
    <3>1. row = [threads[t] EXCEPT !.revision = threads[t].revision + 1, !.state = threads[t].state]
      BY <2>2, Zenon DEF Bumped
    <3>2. QED
      <4> HIDE DEF row
      <4>1. row \in Row
        BY BumpedIsRow, LocalFields DEF row
      <4>2. QED BY <2>2, <3>1, <4>1, LocalFields DEF Row
  <2>3. QED BY <2>1, <2>2
<1> HIDE DEF row
<1>3. RowCurrent(row, sources'[t], gap'[t])
  BY <1>2, CurrentFields, Numbers DEF RowCurrent
<1>4. threads' \in {threads, [threads EXCEPT ![t] = row]}
  BY DEF RecordSources, row
<1>5. threads' = threads =>
        /\ sources' = sources
        /\ \A u \in Thread : gap'[u] => gap[u]
  <2>1. CASE whole[t]
    <3>1. gap' = [gap EXCEPT ![t] = FALSE] /\ sources' = [sources EXCEPT ![t] = mail[t]]
      BY <2>1 DEF RecordSources
    <3>2. threads' = threads => sources[t] = mail[t]
      <4>1. row # threads[t]
        BY <1>2, Numbers
      <4>2. sources[t] # mail[t] => threads' = [threads EXCEPT ![t] = row]
        BY <2>1 DEF RecordSources, row
      <4>3. QED BY <4>1, <4>2 DEF TypeInv, TypeOK
    <3>3. QED BY <3>1, <3>2 DEF TypeInv, TypeOK
  <2>2. CASE ~whole[t]
    <3>1. gap' = [gap EXCEPT ![t] = TRUE] /\ sources' = sources
      BY <2>2 DEF RecordSources
    <3>2. threads' = threads => gap[t]
      <4>1. row # threads[t]
        BY <1>2, Numbers
      <4>2. ~gap[t] => threads' = [threads EXCEPT ![t] = row]
        BY <2>2 DEF RecordSources, row
      <4>3. QED BY <4>1, <4>2 DEF TypeInv, TypeOK
    <3>3. QED BY <3>1, <3>2 DEF TypeInv, TypeOK
  <2>3. QED BY <2>1, <2>2
<1>6. /\ \A u \in Thread \ {t} : sources'[u] = sources[u] /\ gap'[u] = gap[u]
      /\ sources'[t] \in {sources[t], mail[t]}
  BY DEF RecordSources, TypeInv, TypeOK
<1>7. ASSUME NEW u \in Thread
      PROVE  /\ sources'[u] <= mail'[u]
             /\ RowCurrent(threads'[u], sources'[u], gap'[u])
             /\ WorkCurrent(at'[u], local'[u], threads'[u], sources'[u], gap'[u], phase')
  <2>1. sources'[u] <= mail'[u]
    BY <1>1, <1>6, CurrentFields, Numbers
  <2>2. WorkCurrent(at'[u], local'[u], threads'[u], sources'[u], gap'[u], phase')
    BY <1>1 DEF WorkCurrent
  <2>3. RowCurrent(threads'[u], sources'[u], gap'[u])
    <3>1. CASE threads' = threads
      BY <1>5, <3>1, CurrentFields DEF RowCurrent
    <3>2. CASE threads' = [threads EXCEPT ![t] = row] /\ u = t
      BY <1>3, <3>2 DEF TypeInv, TypeOK
    <3>3. CASE threads' = [threads EXCEPT ![t] = row] /\ u # t
      BY <1>6, <3>3, CurrentFields DEF TypeInv, TypeOK
    <3>4. QED BY <1>4, <3>1, <3>2, <3>3
  <2>4. QED BY <2>1, <2>2, <2>3
<1>8. QED
  BY <1>1, <1>7 DEF CurrentInv

\* Steps that leave rows and what the scan recorded alone.
LEMMA QuietCurrent ==
  ASSUME TypeInv, CurrentInv, UNCHANGED <<threads, sources, gap>>,
         \A t \in Thread : mail[t] <= mail'[t] /\ mail'[t] \in Int,
         phase' \in {"stopped", "scan"} => \A t \in Thread : at'[t] = "off",
         \A t \in Thread :
           \/ at'[t] = "off"
           \/ at'[t] = "queued" /\ (phase' = "deliver" => threads[t].payload # None)
           \/ at'[t] = at[t] /\ local'[t] = local[t] /\ phase' = phase
  PROVE  CurrentInv'
<1>1. ASSUME NEW t \in Thread
      PROVE  /\ sources'[t] <= mail'[t]
             /\ RowCurrent(threads'[t], sources'[t], gap'[t])
             /\ WorkCurrent(at'[t], local'[t], threads'[t], sources'[t], gap'[t], phase')
  <2>1. sources'[t] <= mail'[t]
    BY CurrentFields, Numbers
  <2>2. RowCurrent(threads'[t], sources'[t], gap'[t])
    BY CurrentFields
  <2>3. WorkCurrent(at'[t], local'[t], threads'[t], sources'[t], gap'[t], phase')
    BY CurrentFields DEF WorkCurrent
  <2>4. QED BY <2>1, <2>2, <2>3
<1>2. QED
  BY <1>1 DEF CurrentInv

LEMMA RunCurrent ==
  ASSUME TypeInv, CurrentInv, Run
  PROVE  CurrentInv'
<1>1. UNCHANGED mail
  BY DEF Run, StartRun, StartDeliveries, StartProcessing, EndRun, RecordSources, mailbox
<1>2. \A t \in Thread : mail[t] <= mail'[t] /\ mail'[t] \in Int
  BY <1>1, Numbers
<1>3. CASE StartRun
  BY <1>2, <1>3, QuietCurrent DEF StartRun, CurrentInv, ledger
<1>4. CASE StartDeliveries
  BY <1>2, <1>4, QuietCurrent DEF StartDeliveries, Pending, ledger
<1>5. CASE StartProcessing
  BY <1>2, <1>5, QuietCurrent DEF StartProcessing, ledger
<1>6. CASE EndRun
  BY <1>2, <1>6, QuietCurrent DEF EndRun, ledger
<1>7. CASE \E t \in Thread : RecordSources(t)
  BY <1>7, RecordSourcesCurrent
<1>8. QED
  BY <1>3, <1>4, <1>5, <1>6, <1>7 DEF Run

LEMMA OthersCurrent ==
  ASSUME TypeInv, CurrentInv, Server \/ Environment
  PROVE  CurrentInv'
<1>1. UNCHANGED ledger
  BY DEF Server, ServerAccepts, ServerExecutes, Environment, MailChanges, UserLabels,
         UserDeletes, UserCancels, RequestLost, Interrupt
<1>2. \A t \in Thread : mail[t] <= mail'[t] /\ mail'[t] \in Int
  <2>1. CASE UNCHANGED mail
    BY <2>1, Numbers
  <2>2. CASE \E t \in Thread : mail' = [mail EXCEPT ![t] = mail[t] + 1]
    BY <2>2, Numbers DEF TypeInv, TypeOK
  <2>3. QED
    BY <2>1, <2>2 DEF Server, ServerAccepts, ServerExecutes, Environment, MailChanges,
       UserLabels, UserDeletes, UserCancels, RequestLost, Interrupt, mailbox
<1>3. CASE Interrupt
  BY <1>1, <1>2, <1>3, QuietCurrent DEF Interrupt, ledger
<1>4. CASE UNCHANGED <<run, at, local>>
  BY <1>1, <1>2, <1>4, QuietCurrent DEF ledger, run, CurrentInv
<1>5. QED
  BY <1>3, <1>4 DEF Server, ServerAccepts, ServerExecutes, Environment, MailChanges,
     UserLabels, UserDeletes, UserCancels, RequestLost

LEMMA InitCurrent == Init => CurrentInv
<1> SUFFICES ASSUME Init PROVE CurrentInv
  OBVIOUS
<1>1. ASSUME NEW t \in Thread
      PROVE  /\ sources[t] <= mail[t]
             /\ RowCurrent(threads[t], sources[t], gap[t])
             /\ WorkCurrent(at[t], local[t], threads[t], sources[t], gap[t], phase)
  BY DEF Init, NewRow, RowCurrent, WorkCurrent
<1>2. QED
  BY <1>1 DEF Init, CurrentInv

\* Whenever the ledger calls a conversation idle, the evidence it accepted
\* covers every change the scan recorded, however runs, deliveries, users
\* and failures were interleaved (_record_sources, _prepare, _finish).
THEOREM IdleCurrent == Spec => []IdleIsCurrent
<1>1. TypeInv /\ CurrentInv /\ [Next]_vars => CurrentInv'
  <2> SUFFICES ASSUME TypeInv, CurrentInv, [Next]_vars PROVE CurrentInv'
    OBVIOUS
  <2>1. CASE Run
    BY <2>1, RunCurrent
  <2>2. CASE Server \/ Environment
    BY <2>2, OthersCurrent
  <2>3. CASE \E t \in Thread : Coroutine(t)
    BY <2>3, PreparesCurrent, DeliversCurrent DEF Coroutine
  <2>4. CASE UNCHANGED vars
    BY <2>4 DEF vars, mailbox, ledger, run, CurrentInv
  <2>5. QED
    BY <2>1, <2>2, <2>3, <2>4 DEF Next
<1>2. CurrentInv => IdleIsCurrent
  BY DEF CurrentInv, RowCurrent, IdleIsCurrent
<1>3. QED
  BY <1>1, <1>2, InitCurrent, InitTypeInv, TypeInvInvariant, PTL DEF Spec

-----------------------------------------------------------------------------
(* OneLiveOperation.  An operation the server may still run is the one on   *)
(* the row of its conversation, because an id is replaced only after the    *)
(* server has called it cancelled, dropped only after it is completed, and  *)
(* never sent at all for a withdrawal.  What the server says of an          *)
(* operation must therefore not change between the answer and its use.      *)

\* The ids of a conversation's requests that are on their way.
Sent(t) == {r.op : r \in {q \in wire : q.thread = t}}

\* Below, ops are the operations of one conversation and sent its requests.
Unknown(ops, sent, o) == ops[o].status = "not_found" /\ o \notin sent
Alive(ops, sent, o) == \/ ops[o].status = "pending"
                       \/ ops[o].status = "not_found" /\ o \in sent

\* What the row of a conversation promises about its operations.
RowLive(row, top, ops, sent) ==
  /\ \A o \in OpId : o > top => Unknown(ops, sent, o)
  /\ \A o \in OpId : Alive(ops, sent, o) => row.payload # None /\ row.op = o
  /\ row.payload # None =>
       /\ row.op <= top
       /\ row.payload.action = "withdraw" => Unknown(ops, sent, row.op)

\* What the place of a coroutine promises about them.
PlaceLive(row, place, status, ops) ==
  /\ place \in {"source", "previous", "compose"} => row.payload = None
  /\ place \in {"delete", "gone"} => row.payload.action = "withdraw"
  /\ place \in Delivering \ {"delete", "gone"} => row.payload.action = "publish"
  /\ place = "current" /\ status = "cancelled" => ops[row.op].status = "cancelled"
  /\ place \in {"verify", "relabel", "relabelled"} => ops[row.op].status = "completed"

ThreadLive(t) == /\ RowLive(threads[t], minted[t], operations[t], Sent(t))
                 /\ PlaceLive(threads[t], at[t], local[t].status, operations[t])

LiveInv == \A t \in Thread : ThreadLive(t)

LEMMA LiveTypes ==
  ASSUME TypeInv, NEW t \in Thread
  PROVE  /\ minted[t] \in Int
         /\ OpId \subseteq Int
         /\ operations[t] \in [OpId -> Operation]
         /\ threads[t].payload # None => threads[t].op \in OpId
         /\ threads[t].payload # None =>
              threads[t].payload.action \in {"publish", "withdraw"}
<1>1. OpId \subseteq Int
  BY DeliveryAssumption DEF OpId
<1>2. threads[t].payload # None => threads[t].payload \in Payload
  BY LocalFields DEF Row
<1>3. threads[t].payload # None => threads[t].payload.action \in {"publish", "withdraw"}
  BY <1>2 DEF Payload
<1>4. threads[t].payload # None => threads[t].op \in OpId
  BY LocalFields DEF RowShape
<1>5. operations[t] \in [OpId -> Operation]
  BY DEF TypeInv, TypeOK
<1>6. minted[t] \in Int
  <2>1. minted[t] = 0 \/ minted[t] \in OpId
    BY DEF TypeInv, TypeOK
  <2>2. QED BY <2>1 DEF OpId
<1>7. QED
  BY <1>1, <1>3, <1>4, <1>5, <1>6, Zenon

\* A step of one coroutine, given what it leaves of its own conversation.
LEMMA CoroutineLive ==
  ASSUME TypeInv, LiveInv, NEW t \in Thread, NEW row, NEW top, NEW place, NEW own,
         NEW ops, NEW sent,
         threads' = [threads EXCEPT ![t] = row],
         minted' = [minted EXCEPT ![t] = top],
         at' = [at EXCEPT ![t] = place],
         local' = [local EXCEPT ![t] = own],
         operations' = [operations EXCEPT ![t] = ops],
         Sent(t)' = sent,
         \A u \in Thread \ {t} : Sent(u)' = Sent(u),
         RowLive(row, top, ops, sent),
         PlaceLive(row, place, own.status, ops)
  PROVE  LiveInv'
<1>1. /\ threads \in [Thread -> Row] /\ at \in [Thread -> Await]
      /\ local \in [Thread -> Local] /\ minted \in [Thread -> {0} \cup OpId]
      /\ operations \in [Thread -> [OpId -> Operation]]
  BY DEF TypeInv, TypeOK
<1>2. ASSUME NEW u \in Thread
      PROVE  ThreadLive(u)'
  <2>1. CASE u = t
    <3>1. /\ threads'[u] = row /\ minted'[u] = top /\ at'[u] = place
          /\ local'[u] = own /\ operations'[u] = ops /\ Sent(u)' = sent
      BY <1>1, <2>1
    <3>2. QED BY <3>1 DEF ThreadLive
  <2>2. CASE u # t
    <3>1. /\ threads'[u] = threads[u] /\ minted'[u] = minted[u] /\ at'[u] = at[u]
          /\ local'[u] = local[u] /\ operations'[u] = operations[u]
          /\ Sent(u)' = Sent(u)
      BY <1>1, <2>2
    <3>2. ThreadLive(u)
      BY DEF LiveInv
    <3>3. QED BY <3>1, <3>2 DEF ThreadLive
  <2>3. QED BY <2>1, <2>2
<1>3. QED
  BY <1>2 DEF LiveInv

\* The same when the server and the wire are left alone.
LEMMA SilentLive ==
  ASSUME TypeInv, LiveInv, NEW t \in Thread, NEW row, NEW top, NEW place, NEW own,
         threads' = [threads EXCEPT ![t] = row],
         minted' = [minted EXCEPT ![t] = top],
         at' = [at EXCEPT ![t] = place],
         local' = [local EXCEPT ![t] = own],
         UNCHANGED <<operations, wire>>,
         RowLive(row, top, operations[t], Sent(t)),
         PlaceLive(row, place, own.status, operations[t])
  PROVE  LiveInv'
<1>1. operations' = [operations EXCEPT ![t] = operations[t]]
  BY DEF TypeInv, TypeOK
<1>2. \A u \in Thread : Sent(u)' = Sent(u)
  BY DEF Sent
<1>3. QED
  BY <1>1, <1>2, CoroutineLive

LEMMA ErrorLive ==
  ASSUME TypeInv, LiveInv, NEW t \in Thread, ThreadError(t),
         UNCHANGED <<minted, operations, wire>>
  PROVE  LiveInv'
<1> DEFINE row == [threads[t] EXCEPT !.state = "error"]
<1>1. threads' = [threads EXCEPT ![t] = row] /\ minted' = [minted EXCEPT ![t] = minted[t]]
  BY DEF ThreadError, TypeInv, TypeOK
<1>2. row.payload = threads[t].payload /\ row.op = threads[t].op
  BY LocalFields, ErrorRowIsRow
<1> HIDE DEF row
<1>3. RowLive(row, minted[t], operations[t], Sent(t))
  BY <1>2 DEF RowLive, LiveInv, ThreadLive
<1>4. PlaceLive(row, "off", NoLocal.status, operations[t])
  BY DEF PlaceLive, Delivering
<1>5. QED
  BY <1>1, <1>3, <1>4, SilentLive DEF ThreadError, Leave

\* An accepted row forgets its operation, which must not be alive then.
LEMMA FinishLive ==
  ASSUME TypeInv, LiveInv, NEW t \in Thread,
         NEW action, NEW ev \in Version, NEW revision \in Nat,
         Finish(t, action, ev, revision),
         UNCHANGED <<minted, operations, wire>>,
         threads[t].payload # None => ~Alive(operations[t], Sent(t), threads[t].op)
  PROVE  LiveInv'
<1> DEFINE row == Accepted(threads[t], action, ev, revision)
<1>1. CASE ThreadError(t)
  BY <1>1, ErrorLive
<1>2. CASE Leave(t) /\ threads' = [threads EXCEPT ![t] = row]
  <2>1. row.payload = None
    BY LocalFields, AcceptedIsRow
  <2>2. minted' = [minted EXCEPT ![t] = minted[t]]
    BY DEF TypeInv, TypeOK
  <2> HIDE DEF row
  <2>3. RowLive(row, minted[t], operations[t], Sent(t))
    BY <2>1 DEF RowLive, LiveInv, ThreadLive
  <2>4. PlaceLive(row, "off", NoLocal.status, operations[t])
    BY DEF PlaceLive, Delivering
  <2>5. QED
    BY <1>2, <2>2, <2>3, <2>4, SilentLive DEF Leave
<1>3. QED
  BY <1>1, <1>2 DEF Finish

\* A coroutine that moves on and leaves its row alone.
LEMMA MoveLive ==
  ASSUME TypeInv, LiveInv, NEW t \in Thread, NEW place, NEW own,
         Suspend(t, place), local' = [local EXCEPT ![t] = own],
         UNCHANGED <<threads, minted, operations, wire>>,
         PlaceLive(threads[t], place, own.status, operations[t])
  PROVE  LiveInv'
<1>1. /\ threads' = [threads EXCEPT ![t] = threads[t]]
      /\ minted' = [minted EXCEPT ![t] = minted[t]]
  BY DEF TypeInv, TypeOK
<1>2. RowLive(threads[t], minted[t], operations[t], Sent(t))
  BY DEF LiveInv, ThreadLive
<1>3. QED
  BY <1>1, <1>2, SilentLive DEF Suspend

LEMMA PreparesLive ==
  ASSUME TypeInv, LiveInv, NEW t \in Thread, Prepares(t)
  PROVE  LiveInv'
<1>1. UNCHANGED <<operations, wire>> /\ (UNCHANGED minted \/ Compose(t))
  BY DEF Prepares, Begin, ReadThread, ReadPrevious, Compose, service
<1>2. ASSUME ThreadError(t), UNCHANGED minted PROVE LiveInv'
  BY <1>1, <1>2, ErrorLive
<1>3. PlaceLive(threads[t], at[t], local[t].status, operations[t])
  BY DEF LiveInv, ThreadLive
<1>4. CASE Begin(t) /\ ~Refused(t)
  <2> DEFINE place == IF threads[t].payload # None THEN DeliveryStart(threads[t]) ELSE "source"
             own == [local[t] EXCEPT !.revision = threads[t].revision]
  <2>1. Suspend(t, place) /\ UNCHANGED <<threads, minted>>
    BY <1>4 DEF Begin
  <2>2. local' = [local EXCEPT ![t] = own]
    BY <1>4 DEF Begin, TypeInv, TypeOK
  <2>3. \/ threads[t].payload = None /\ place = "source"
        \/ threads[t].payload.action = "withdraw" /\ place = "delete"
        \/ threads[t].payload.action = "publish" /\ place = "status"
    BY LiveTypes DEF DeliveryStart
  <2> HIDE DEF place, own
  <2>4. PlaceLive(threads[t], place, own.status, operations[t])
    BY <2>3 DEF PlaceLive, Delivering
  <2>5. QED
    BY <1>1, <2>1, <2>2, <2>4, MoveLive
<1>5. CASE ReadThread(t) /\ ~ThreadError(t)
  <2>1. threads[t].payload = None /\ UNCHANGED minted
    BY <1>3, <1>5 DEF ReadThread, PlaceLive
  <2>2. CASE Finish(t, "unchanged", mail[t], local[t].revision)
    BY <1>1, <2>1, <2>2, LocalFields, FinishLive
  <2>3. CASE /\ Suspend(t, "previous")
             /\ local' = [local EXCEPT ![t].ev = mail[t]]
             /\ UNCHANGED threads
    <3> DEFINE own == [local[t] EXCEPT !.ev = mail[t]]
    <3>1. local' = [local EXCEPT ![t] = own]
      BY <2>3 DEF TypeInv, TypeOK
    <3> HIDE DEF own
    <3>2. PlaceLive(threads[t], "previous", own.status, operations[t])
      BY <2>1 DEF PlaceLive, Delivering
    <3>3. QED
      BY <1>1, <2>1, <2>3, <3>1, <3>2, MoveLive
  <2>4. QED BY <1>5, <2>2, <2>3 DEF ReadThread
<1>6. CASE ReadPrevious(t) /\ ~ThreadError(t)
  <2> DEFINE own == [local[t] EXCEPT !.previous = Exists(t)]
  <2>1. /\ Suspend(t, "compose")
        /\ UNCHANGED <<threads, minted>>
        /\ threads[t].payload = None
    BY <1>3, <1>6 DEF ReadPrevious, PlaceLive
  <2>2. local' = [local EXCEPT ![t] = own]
    BY <1>6 DEF ReadPrevious, TypeInv, TypeOK
  <2> HIDE DEF own
  <2>3. PlaceLive(threads[t], "compose", own.status, operations[t])
    BY <2>1 DEF PlaceLive, Delivering
  <2>4. QED
    BY <1>1, <2>1, <2>2, <2>3, MoveLive
<1>7. CASE Compose(t)
  <2>1. threads[t].payload = None
    BY <1>3, <1>7 DEF Compose, PlaceLive
  <2>2. ASSUME NEW action, Finish(t, action, local[t].ev, local[t].revision), UNCHANGED minted
        PROVE  LiveInv'
    BY <1>1, <2>1, <2>2, LocalFields, FinishLive
  <2>3. ASSUME NEW action \in {"publish", "withdraw"}, Prepare(t, action)
        PROVE  LiveInv'
    <3>1. CASE Full
      BY <1>2, <2>3, <3>1 DEF Prepare
    <3> SUFFICES ASSUME ~Full PROVE LiveInv'
      BY <3>1
    <3> DEFINE op == minted[t] + 1
               row == Prepared(threads[t], action, local[t].ev, local[t].revision, op)
    <3>2. /\ op \in OpId
          /\ minted' = [minted EXCEPT ![t] = op]
          /\ threads' = [threads EXCEPT ![t] = row]
          /\ at' = [at EXCEPT ![t] = DeliveryStart(row)]
          /\ local' = local
      BY <2>3 DEF Prepare, Suspend
    <3>3. row.op = op /\ row.payload.action = action /\ row.payload # None
      <4> HIDE DEF op
      <4>1. row.op = op /\ row.payload # None
        BY <3>2, LocalFields, PreparedIsRow
      <4>2. row.payload.action = action
        BY LocalFields DEF Prepared, Row
      <4>3. QED BY <4>1, <4>2
    <3>4. local' = [local EXCEPT ![t] = local[t]]
      BY <3>2 DEF TypeInv, TypeOK
    <3> HIDE DEF row
    <3>5. RowLive(row, op, operations[t], Sent(t))
      <4>1. /\ \A o \in OpId : o > minted[t] => Unknown(operations[t], Sent(t), o)
            /\ \A o \in OpId : ~Alive(operations[t], Sent(t), o)
        BY <2>1 DEF LiveInv, ThreadLive, RowLive
      <4>2. \A o \in OpId : o >= op => Unknown(operations[t], Sent(t), o)
        BY <4>1, LiveTypes
      <4>3. op \in Int
        BY LiveTypes
      <4> HIDE DEF op
      <4>4. QED BY <3>2, <3>3, <4>1, <4>2, <4>3, LiveTypes DEF RowLive
    <3> HIDE DEF op
    <3>6. PlaceLive(row, DeliveryStart(row), local[t].status, operations[t])
      BY <2>3, <3>3 DEF PlaceLive, DeliveryStart, Delivering
    <3>7. QED
      BY <1>1, <3>2, <3>4, <3>5, <3>6, SilentLive
  <2>4. QED BY <1>2, <1>7, <2>2, <2>3 DEF Compose
<1>8. CASE ThreadError(t) /\ ~Compose(t)
  BY <1>1, <1>2, <1>8
<1>9. QED
  BY <1>4, <1>5, <1>6, <1>7, <1>8 DEF Prepares, Begin

\* What a delivery may do to its row: keep its operation, or replace one the
\* server called cancelled by an id that was never used.
LEMMA RedeliveryLive ==
  ASSUME TypeInv, LiveInv, NEW t \in Thread, at[t] \in Delivering \ {"delete", "gone"},
         NEW row, NEW top, NEW place \in {"labels", "retain", "retry", "poll"},
         row.payload # None, row.payload.action = threads[t].payload.action,
         \/ row.op = threads[t].op /\ top = minted[t]
         \/ /\ row.op = minted[t] + 1 /\ row.op \in OpId /\ top = row.op
            /\ operations[t][threads[t].op].status = "cancelled",
         Suspend(t, place), threads' = [threads EXCEPT ![t] = row],
         minted' = [minted EXCEPT ![t] = top],
         UNCHANGED <<local, operations, wire>>
  PROVE  LiveInv'
<1>1. /\ RowLive(threads[t], minted[t], operations[t], Sent(t))
      /\ PlaceLive(threads[t], at[t], local[t].status, operations[t])
  BY DEF LiveInv, ThreadLive
<1>2. threads[t].payload # None /\ threads[t].payload.action = "publish"
  BY <1>1, PayloadFields DEF PlaceLive
<1>3. RowLive(row, top, operations[t], Sent(t))
  <2>1. CASE row.op = threads[t].op /\ top = minted[t]
    BY <1>1, <1>2, <2>1 DEF RowLive
  <2>2. CASE /\ row.op = minted[t] + 1 /\ row.op \in OpId /\ top = row.op
             /\ operations[t][threads[t].op].status = "cancelled"
    <3>1. \A o \in OpId : ~Alive(operations[t], Sent(t), o)
      BY <1>1, <2>2 DEF RowLive, Alive
    <3>2. \A o \in OpId : o > top => Unknown(operations[t], Sent(t), o)
      BY <1>1, <2>2, LiveTypes DEF RowLive
    <3>3. row.op <= top
      BY <2>2, LiveTypes
    <3>4. QED BY <1>2, <3>1, <3>2, <3>3 DEF RowLive
  <2>3. QED BY <2>1, <2>2
<1>4. PlaceLive(row, place, local[t].status, operations[t])
  BY <1>2 DEF PlaceLive
<1>5. local' = [local EXCEPT ![t] = local[t]]
  BY DEF TypeInv, TypeOK
<1>6. QED
  BY <1>3, <1>4, <1>5, SilentLive DEF Suspend

LEMMA RetainLive ==
  ASSUME TypeInv, LiveInv, NEW t \in Thread, Retain(t)
  PROVE  LiveInv'
<1> DEFINE sent == Sent(t) \cup {threads[t].op}
<1>1. /\ threads' = [threads EXCEPT ![t] = threads[t]]
      /\ minted' = [minted EXCEPT ![t] = minted[t]]
      /\ local' = [local EXCEPT ![t] = local[t]]
      /\ operations' = [operations EXCEPT ![t] = operations[t]]
      /\ at' = [at EXCEPT ![t] = "retaining"]
  BY DEF Retain, Suspend, ledger, TypeInv, TypeOK
<1>2. PICK r : /\ wire' = wire \cup {r}
               /\ r.thread = t /\ r.op = threads[t].op
  <2> DEFINE request == [thread |-> t, op |-> threads[t].op,
                         ev |-> threads[t].payload.input,
                         tags |-> threads[t].payload.tags]
  <2>1. wire' = wire \cup {request}
    BY DEF Retain
  <2>2. request.thread = t /\ request.op = threads[t].op
    OBVIOUS
  <2> HIDE DEF request
  <2>3. QED BY <2>1, <2>2
<1>3. Sent(t)' = sent /\ \A u \in Thread \ {t} : Sent(u)' = Sent(u)
  BY <1>2 DEF Sent
<1>4. /\ RowLive(threads[t], minted[t], operations[t], Sent(t))
      /\ PlaceLive(threads[t], "retain", local[t].status, operations[t])
  BY DEF LiveInv, ThreadLive, Retain
<1>5. threads[t].payload # None /\ threads[t].payload.action = "publish"
  BY <1>4, PayloadFields DEF PlaceLive, Retain, Delivering
<1>6. RowLive(threads[t], minted[t], operations[t], sent)
  <2>1. \A o \in OpId : o > minted[t] => Unknown(operations[t], sent, o)
    BY <1>4, <1>5, LiveTypes DEF RowLive, Unknown
  <2>2. \A o \in OpId : Alive(operations[t], sent, o) => threads[t].op = o
    BY <1>4 DEF RowLive, Alive
  <2>3. QED BY <1>4, <1>5, <2>1, <2>2 DEF RowLive
<1>7. PlaceLive(threads[t], "retaining", local[t].status, operations[t])
  BY <1>5 DEF PlaceLive
<1> HIDE DEF sent
<1>8. QED
  BY <1>1, <1>3, <1>6, <1>7, CoroutineLive

LEMMA RetryOperationLive ==
  ASSUME TypeInv, LiveInv, NEW t \in Thread, RetryOperation(t)
  PROVE  LiveInv'
<1>1. CASE UNCHANGED operations /\ ThreadError(t)
  BY <1>1, ErrorLive DEF RetryOperation
<1>2. CASE UNCHANGED operations /\ ~ThreadError(t)
  <2>1. local' = [local EXCEPT ![t] = local[t]]
    BY <1>2 DEF RetryOperation, TypeInv, TypeOK
  <2>2. PlaceLive(threads[t], "poll", local[t].status, operations[t])
    BY DEF LiveInv, ThreadLive, PlaceLive, RetryOperation, Delivering
  <2>3. QED
    BY <1>2, <2>1, <2>2, MoveLive DEF RetryOperation
<1>3. CASE ~UNCHANGED operations
  <2> DEFINE op == threads[t].op
             ops == [operations[t] EXCEPT ![op].status = "pending"]
  <2>1. /\ operations[t][op].status = "failed"
        /\ operations' = [operations EXCEPT ![t][op].status = "pending"]
    BY <1>3 DEF RetryOperation, OperationStatus
  <2>2. operations' = [operations EXCEPT ![t] = ops]
    BY <2>1 DEF TypeInv, TypeOK
  <2>3. /\ RowLive(threads[t], minted[t], operations[t], Sent(t))
        /\ PlaceLive(threads[t], "retry", local[t].status, operations[t])
    BY DEF LiveInv, ThreadLive, RetryOperation
  <2>4. threads[t].payload # None /\ threads[t].payload.action = "publish" /\ op \in OpId
    BY <2>3, PayloadFields, LiveTypes DEF PlaceLive, RetryOperation, Delivering
  <2>5. \A o \in OpId : o # op => ops[o] = operations[t][o]
    BY <2>4, LiveTypes
  <2> HIDE DEF ops
  <2>6. ASSUME NEW row, row.payload = threads[t].payload, row.op = op
        PROVE  RowLive(row, minted[t], ops, Sent(t))
    <3>1. \A o \in OpId : o > minted[t] => Unknown(ops, Sent(t), o)
      BY <2>3, <2>4, <2>5, LiveTypes DEF RowLive, Unknown
    <3>2. \A o \in OpId : Alive(ops, Sent(t), o) => op = o
      BY <2>3, <2>5 DEF RowLive, Alive
    <3>3. QED BY <2>3, <2>4, <2>6, <3>1, <3>2 DEF RowLive
  <2>7. UNCHANGED <<minted, wire>>
    BY DEF RetryOperation
  <2>8. /\ minted' = [minted EXCEPT ![t] = minted[t]]
        /\ \A u \in Thread : Sent(u)' = Sent(u)
    BY <2>7 DEF Sent, TypeInv, TypeOK
  <2>9. CASE ThreadError(t)
    <3> DEFINE row == [threads[t] EXCEPT !.state = "error"]
    <3>1. threads' = [threads EXCEPT ![t] = row]
      BY <2>9 DEF ThreadError, TypeInv, TypeOK
    <3>2. row.payload = threads[t].payload /\ row.op = op
      BY LocalFields, ErrorRowIsRow
    <3> HIDE DEF row, op
    <3>3. PlaceLive(row, "off", NoLocal.status, ops)
      BY DEF PlaceLive, Delivering
    <3>4. QED
      BY <2>2, <2>6, <2>8, <2>9, <3>1, <3>2, <3>3, CoroutineLive DEF ThreadError, Leave
  <2>10. CASE Suspend(t, "poll") /\ UNCHANGED <<threads, local>>
    <3>1. /\ threads' = [threads EXCEPT ![t] = threads[t]]
          /\ local' = [local EXCEPT ![t] = local[t]]
      BY <2>10 DEF TypeInv, TypeOK
    <3>2. PlaceLive(threads[t], "poll", local[t].status, ops)
      BY <2>4 DEF PlaceLive
    <3>3. RowLive(threads[t], minted[t], ops, Sent(t))
      BY <2>6
    <3> HIDE DEF op
    <3>4. QED
      BY <2>2, <2>8, <2>10, <3>1, <3>2, <3>3, CoroutineLive DEF Suspend
  <2>11. QED BY <2>9, <2>10 DEF RetryOperation
<1>4. QED BY <1>1, <1>2, <1>3

LEMMA DeliversLive ==
  ASSUME TypeInv, LiveInv, NEW t \in Thread, Delivers(t)
  PROVE  LiveInv'
<1>1. CASE Retain(t)
  BY <1>1, RetainLive
<1>2. CASE RetryOperation(t)
  BY <1>2, RetryOperationLive
<1> SUFFICES ASSUME ~Retain(t), ~RetryOperation(t) PROVE LiveInv'
  BY <1>1, <1>2
<1>3. at[t] \in Delivering /\ threads[t].payload # None /\ threads[t].op \in OpId
  BY DeliversAlone, PayloadFields, LiveTypes DEF Delivering
<1>4. UNCHANGED <<operations, wire>> /\ (UNCHANGED minted \/ ReadCurrent(t))
  BY DEF Delivers, DeleteDocument, ConfirmGone, ReadStatus, ReadCurrent, ReadLabels,
         Retained, Poll, Verify, Relabel, Relabelled, service
<1>5. ASSUME ThreadError(t), UNCHANGED minted PROVE LiveInv'
  BY <1>4, <1>5, ErrorLive
<1>6. /\ RowLive(threads[t], minted[t], operations[t], Sent(t))
      /\ PlaceLive(threads[t], at[t], local[t].status, operations[t])
  BY DEF LiveInv, ThreadLive
<1>7. ASSUME NEW action, Finish(t, action, threads[t].payload.input, threads[t].target),
             at[t] \in {"gone", "verify", "relabelled"}, UNCHANGED minted
      PROVE  LiveInv'
  <2>1. ~Alive(operations[t], Sent(t), threads[t].op)
    BY <1>3, <1>6, <1>7 DEF RowLive, PlaceLive, Alive, Unknown
  <2>2. QED
    BY <1>3, <1>4, <1>7, <2>1, PayloadFields, LocalFields, FinishLive
<1>8. ASSUME NEW place, NEW own, Suspend(t, place), UNCHANGED <<threads, minted>>,
             local' = [local EXCEPT ![t] = own],
             PlaceLive(threads[t], place, own.status, operations[t])
      PROVE  LiveInv'
  BY <1>4, <1>8, MoveLive
<1>9. ASSUME NEW place, Suspend(t, place), UNCHANGED <<threads, minted, local>>,
             PlaceLive(threads[t], place, local[t].status, operations[t])
      PROVE  LiveInv'
  <2>1. local' = [local EXCEPT ![t] = local[t]]
    BY <1>9 DEF TypeInv, TypeOK
  <2>2. QED
    BY <1>8, <1>9, <2>1
<1>10. CASE DeleteDocument(t)
  <2>1. PlaceLive(threads[t], "gone", local[t].status, operations[t])
    BY <1>6, <1>10 DEF DeleteDocument, PlaceLive, Delivering
  <2>2. QED
    BY <1>5, <1>9, <1>10, <2>1 DEF DeleteDocument
<1>11. CASE ConfirmGone(t)
  BY <1>5, <1>7, <1>11 DEF ConfirmGone
<1>12. CASE ReadStatus(t)
  <2> DEFINE own == [local[t] EXCEPT !.status = OperationStatus(t)]
  <2>1. UNCHANGED minted /\ (ThreadError(t) \/ (Suspend(t, "current") /\ UNCHANGED threads
                                               /\ local' = [local EXCEPT ![t] = own]))
    BY <1>12 DEF ReadStatus, TypeInv, TypeOK
  <2>2. own.status = operations[t][threads[t].op].status
    BY LocalFields DEF Local, OperationStatus
  <2> HIDE DEF own
  <2>3. PlaceLive(threads[t], "current", own.status, operations[t])
    BY <1>6, <1>12, <2>2 DEF ReadStatus, PlaceLive, Delivering
  <2>4. QED
    BY <1>5, <1>8, <2>1, <2>3
<1>13. CASE ReadCurrent(t)
  <2>1. CASE ThreadError(t) /\ UNCHANGED minted
    BY <1>5, <2>1
  <2> DEFINE row == Renewed(t, threads[t])
             place == AfterStatus(local[t].status, row)
             top == IF row.op = threads[t].op THEN minted[t] ELSE row.op
  <2>2. CASE /\ row.op \in OpId
             /\ threads' = [threads EXCEPT ![t] = row]
             /\ minted' = IF row.op = threads[t].op THEN minted
                          ELSE [minted EXCEPT ![t] = row.op]
             /\ Suspend(t, place)
             /\ UNCHANGED local
    <3>1. at[t] = "current"
      BY <1>13 DEF ReadCurrent
    <3>2. /\ row.payload # None
          /\ row.payload.action = threads[t].payload.action
          /\ local[t].status = "cancelled" => row.op = minted[t] + 1
          /\ local[t].status # "cancelled" => row.op = threads[t].op
      BY <2>2, <3>1, RenewedIsRow, RenewedKeeps
    <3> HIDE DEF row
    <3>3. minted' = [minted EXCEPT ![t] = top]
      BY <2>2 DEF TypeInv, TypeOK
    <3>4. \/ row.op = threads[t].op /\ top = minted[t]
          \/ /\ row.op = minted[t] + 1 /\ row.op \in OpId /\ top = row.op
             /\ operations[t][threads[t].op].status = "cancelled"
      BY <1>6, <2>2, <3>1, <3>2 DEF PlaceLive
    <3>5. place \in {"labels", "retain", "retry", "poll"}
      BY DEF AfterStatus
    <3> HIDE DEF place, top
    <3>6. QED
      BY <1>4, <2>2, <3>1, <3>2, <3>3, <3>4, <3>5, RedeliveryLive DEF Delivering
  <2>3. QED BY <1>13, <2>1, <2>2 DEF ReadCurrent
<1>14. CASE ReadLabels(t) /\ ~ThreadError(t)
  <2> DEFINE payload == [threads[t].payload EXCEPT !.tags = documents[t].labels]
             row == [threads[t] EXCEPT !.payload = payload]
  <2>1. /\ threads' = [threads EXCEPT ![t] = row]
        /\ minted' = [minted EXCEPT ![t] = minted[t]]
    BY <1>14 DEF ReadLabels, TypeInv, TypeOK
  <2>2. payload \in Payload /\ payload.action = threads[t].payload.action
    BY <1>3, PayloadFields, LocalFields DEF Payload
  <2>3. row.payload = payload /\ row.op = threads[t].op
    <3> HIDE DEF payload
    <3>1. QED BY LocalFields DEF Row
  <2> HIDE DEF row, payload
  <2>4. row.payload # None
    BY <2>2, <2>3, NoneAssumption
  <2>5. Suspend(t, "retain") /\ UNCHANGED local /\ at[t] = "labels"
    BY <1>14 DEF ReadLabels
  <2>6. QED
    BY <1>4, <2>1, <2>2, <2>3, <2>4, <2>5, RedeliveryLive DEF Delivering
<1>15. CASE Retained(t) /\ ~ThreadError(t)
  <2> DEFINE row == [threads[t] EXCEPT !.state = "submitted"]
  <2>1. /\ threads' = [threads EXCEPT ![t] = row] /\ Suspend(t, "poll") /\ UNCHANGED local
        /\ minted' = [minted EXCEPT ![t] = minted[t]]
        /\ at[t] = "retaining"
    BY <1>15 DEF Retained, TypeInv, TypeOK
  <2>2. row.payload = threads[t].payload /\ row.op = threads[t].op
    BY LocalFields DEF Row
  <2> HIDE DEF row
  <2>3. QED
    BY <1>3, <1>4, <2>1, <2>2, RedeliveryLive DEF Delivering
<1>16. CASE Poll(t) /\ ~ThreadError(t)
  <2>1. operations[t][threads[t].op].status = "completed"
    BY <1>16 DEF Poll, OperationStatus
  <2>2. PlaceLive(threads[t], "verify", local[t].status, operations[t])
    BY <1>6, <1>16, <2>1 DEF Poll, PlaceLive, Delivering
  <2>3. QED
    BY <1>9, <1>16, <2>2 DEF Poll
<1>17. CASE Verify(t)
  <2> DEFINE own == [local[t] EXCEPT !.labels = Reconciled(t)]
  <2>1. \/ ThreadError(t)
        \/ Finish(t, "publish", threads[t].payload.input, threads[t].target)
        \/ Suspend(t, "relabel") /\ UNCHANGED threads /\ local' = [local EXCEPT ![t] = own]
    BY <1>17 DEF Verify, TypeInv, TypeOK
  <2> HIDE DEF own
  <2>2. PlaceLive(threads[t], "relabel", own.status, operations[t])
    BY <1>6, <1>17 DEF Verify, PlaceLive, Delivering
  <2>3. QED
    BY <1>5, <1>7, <1>8, <1>17, <2>1, <2>2 DEF Verify
<1>18. CASE Relabel(t) /\ ~ThreadError(t)
  <2>1. PlaceLive(threads[t], "relabelled", local[t].status, operations[t])
    BY <1>6, <1>18 DEF Relabel, PlaceLive, Delivering
  <2>2. QED
    BY <1>9, <1>18, <2>1 DEF Relabel
<1>19. CASE Relabelled(t)
  BY <1>5, <1>7, <1>19 DEF Relabelled
<1>20. CASE ThreadError(t) /\ ~ReadCurrent(t)
  BY <1>4, <1>5, <1>20
<1>21. QED
  BY <1>10, <1>11, <1>12, <1>13, <1>14, <1>15, <1>16, <1>17, <1>18, <1>19, <1>20 DEF Delivers

\* What the server, the network and the users may do to the operations of a
\* conversation: no unknown id becomes known, no operation comes alive again,
\* and what is completed or cancelled stays so.
Calm(ops, sent, later, left) ==
  \A o \in OpId :
    /\ Unknown(ops, sent, o) => Unknown(later, left, o)
    /\ Alive(later, left, o) => Alive(ops, sent, o)
    /\ ops[o].status \in {"completed", "cancelled"} => later[o].status = ops[o].status

LEMMA KeptLive ==
  ASSUME TypeInv, LiveInv, UNCHANGED minted,
         \A t \in Thread : /\ threads'[t].payload = threads[t].payload
                           /\ threads'[t].op = threads[t].op,
         \A t \in Thread : \/ at'[t] \in {"off", "queued"}
                           \/ at'[t] = at[t] /\ local'[t] = local[t],
         \A t \in Thread : Calm(operations[t], Sent(t), operations'[t], Sent(t)')
  PROVE  LiveInv'
<1>1. ASSUME NEW t \in Thread
      PROVE  ThreadLive(t)'
  <2> DEFINE row == threads[t]
             ops == operations[t]
             sent == Sent(t)
             later == operations'[t]
             left == Sent(t)'
  <2>1. /\ RowLive(row, minted[t], ops, sent)
        /\ PlaceLive(row, at[t], local[t].status, ops)
    BY DEF LiveInv, ThreadLive
  <2>2. Calm(ops, sent, later, left)
    OBVIOUS
  <2>3. row.payload # None => row.op \in OpId
    BY LiveTypes
  <2>4. at[t] \in Delivering => row.payload # None
    BY LocalFields DEF RowShape
  <2>5. threads'[t].payload = row.payload /\ threads'[t].op = row.op /\ minted'[t] = minted[t]
    OBVIOUS
  <2> HIDE DEF row, ops, sent, later, left
  <2>6. RowLive(threads'[t], minted'[t], later, left)
    BY <2>1, <2>2, <2>3, <2>5 DEF RowLive, Calm
  <2>7. PlaceLive(threads'[t], at'[t], local'[t].status, later)
    <3>1. CASE at'[t] \in {"off", "queued"}
      BY <3>1 DEF PlaceLive, Delivering
    <3>2. CASE at'[t] = at[t] /\ local'[t] = local[t]
      <4>1. at[t] \in Delivering => row.op \in OpId
        BY <2>3, <2>4
      <4>2. QED
        BY <2>1, <2>2, <2>5, <3>2, <4>1 DEF PlaceLive, Calm, Delivering
    <3>3. QED BY <3>1, <3>2
  <2>8. QED BY <2>6, <2>7 DEF ThreadLive, later, left
<1>2. QED
  BY <1>1 DEF LiveInv

LEMMA RunLive ==
  ASSUME TypeInv, LiveInv, Run
  PROVE  LiveInv'
<1>1. UNCHANGED <<minted, operations, wire, local>>
  BY DEF Run, StartRun, StartDeliveries, StartProcessing, EndRun, RecordSources, ledger, service
<1>2. \A t \in Thread : Calm(operations[t], Sent(t), operations'[t], Sent(t)')
  BY <1>1 DEF Calm, Sent
<1>3. \A t \in Thread : \/ at'[t] \in {"off", "queued"}
                        \/ at'[t] = at[t] /\ local'[t] = local[t]
  BY <1>1 DEF Run, StartRun, StartDeliveries, StartProcessing, EndRun, RecordSources
<1>4. \A t \in Thread : /\ threads'[t].payload = threads[t].payload
                        /\ threads'[t].op = threads[t].op
  <2>1. CASE UNCHANGED threads
    BY <2>1
  <2>2. ASSUME NEW u \in Thread, RecordSources(u)
        PROVE  \A t \in Thread : /\ threads'[t].payload = threads[t].payload
                                 /\ threads'[t].op = threads[t].op
    <3> DEFINE row == Bumped(threads[u])
    <3>1. row.payload = threads[u].payload /\ row.op = threads[u].op
      BY LocalFields, BumpedIsRow
    <3>2. threads' \in {threads, [threads EXCEPT ![u] = row]}
      BY <2>2 DEF RecordSources
    <3> HIDE DEF row
    <3>3. QED BY <3>1, <3>2 DEF TypeInv, TypeOK
  <2>3. QED
    BY <2>1, <2>2 DEF Run, StartRun, StartDeliveries, StartProcessing, EndRun, ledger
<1>5. QED
  BY <1>1, <1>2, <1>3, <1>4, KeptLive

LEMMA ServerAcceptsCalm ==
  ASSUME TypeInv, NEW r \in wire, ServerAccepts(r), NEW t \in Thread
  PROVE  Calm(operations[t], Sent(t), operations'[t], Sent(t)')
<1>1. /\ r.thread \in Thread /\ r.op \in OpId
      /\ operations \in [Thread -> [OpId -> Operation]]
  BY DEF TypeInv, TypeOK, Request
<1>2. wire' = wire \/ wire' = wire \ {r}
  BY DEF ServerAccepts
<1>3. CASE r.thread # t
  <2>1. operations'[t] = operations[t]
    BY <1>1, <1>3 DEF ServerAccepts
  <2>2. Sent(t)' = Sent(t)
    BY <1>2, <1>3 DEF Sent
  <2>3. QED BY <2>1, <2>2 DEF Calm
<1>4. CASE r.thread = t
  <2>1. r.op \in Sent(t) /\ Sent(t)' \subseteq Sent(t)
    BY <1>2, <1>4 DEF Sent
  <2>2. \A o \in OpId \ {r.op} : operations'[t][o] = operations[t][o]
    BY <1>1, <1>4 DEF ServerAccepts
  <2>3. operations'[t][r.op].status = IF operations[t][r.op].status = "not_found"
                                      THEN "pending" ELSE operations[t][r.op].status
    BY <1>1, <1>4 DEF ServerAccepts
  <2>4. ASSUME NEW o \in OpId
        PROVE  /\ Unknown(operations[t], Sent(t), o) => Unknown(operations'[t], Sent(t)', o)
               /\ Alive(operations'[t], Sent(t)', o) => Alive(operations[t], Sent(t), o)
               /\ operations[t][o].status \in {"completed", "cancelled"}
                  => operations'[t][o].status = operations[t][o].status
    <3>1. CASE o = r.op
      BY <2>1, <2>3, <3>1 DEF Unknown, Alive
    <3>2. CASE o # r.op
      BY <2>1, <2>2, <3>2 DEF Unknown, Alive
    <3>3. QED BY <3>1, <3>2
  <2>5. QED BY <2>4 DEF Calm
<1>5. QED BY <1>3, <1>4

\* An operation that was running ends, and nothing else changes.
LEMMA EndsCalm ==
  ASSUME TypeInv, NEW u \in Thread, NEW o \in OpId,
         NEW status \in {"completed", "failed", "faulty", "cancelled"},
         operations[u][o].status = "pending", UNCHANGED wire,
         operations' = [operations EXCEPT ![u][o].status = status],
         NEW t \in Thread
  PROVE  Calm(operations[t], Sent(t), operations'[t], Sent(t)')
<1>1. Sent(t)' = Sent(t)
  BY DEF Sent
<1>2. operations \in [Thread -> [OpId -> Operation]]
  BY DEF TypeInv, TypeOK
<1>3. CASE t # u
  BY <1>1, <1>2, <1>3 DEF Calm
<1>4. CASE t = u
  <2>1. \A q \in OpId \ {o} : operations'[t][q] = operations[t][q]
    BY <1>2, <1>4
  <2>2. operations'[t][o].status = status
    BY <1>2, <1>4 DEF Operation
  <2>3. ASSUME NEW q \in OpId
        PROVE  /\ Unknown(operations[t], Sent(t), q) => Unknown(operations'[t], Sent(t)', q)
               /\ Alive(operations'[t], Sent(t)', q) => Alive(operations[t], Sent(t), q)
               /\ operations[t][q].status \in {"completed", "cancelled"}
                  => operations'[t][q].status = operations[t][q].status
    <3>1. CASE q = o
      BY <1>1, <1>4, <2>2, <3>1 DEF Unknown, Alive
    <3>2. CASE q # o
      BY <1>1, <2>1, <3>2 DEF Unknown, Alive
    <3>3. QED BY <3>1, <3>2
  <2>4. QED BY <2>3 DEF Calm
<1>5. QED BY <1>3, <1>4

LEMMA OthersLive ==
  ASSUME TypeInv, LiveInv, Server \/ Environment
  PROVE  LiveInv'
<1>1. UNCHANGED <<threads, minted>>
  BY DEF Server, ServerAccepts, ServerExecutes, Environment, MailChanges, UserLabels,
         UserDeletes, UserCancels, RequestLost, Interrupt, ledger
<1>2. \A t \in Thread : \/ at'[t] \in {"off", "queued"}
                        \/ at'[t] = at[t] /\ local'[t] = local[t]
  BY DEF Server, ServerAccepts, ServerExecutes, Environment, MailChanges, UserLabels,
         UserDeletes, UserCancels, RequestLost, Interrupt
<1>3. ASSUME NEW t \in Thread
      PROVE  Calm(operations[t], Sent(t), operations'[t], Sent(t)')
  <2>1. CASE UNCHANGED <<operations, wire>>
    BY <2>1 DEF Calm, Sent
  <2>2. ASSUME NEW r \in wire, ServerAccepts(r)
        PROVE  Calm(operations[t], Sent(t), operations'[t], Sent(t)')
    BY <2>2, ServerAcceptsCalm
  <2>3. ASSUME NEW u \in Thread, NEW o \in OpId, ServerExecutes(u, o)
        PROVE  Calm(operations[t], Sent(t), operations'[t], Sent(t)')
    <3>1. UNCHANGED wire /\ operations[u][o].status = "pending"
      BY <2>3 DEF ServerExecutes
    <3>2. PICK status \in {"completed", "failed", "faulty"} :
            operations' = [operations EXCEPT ![u][o].status = status]
      BY <2>3 DEF ServerExecutes
    <3>3. QED BY <3>1, <3>2, EndsCalm
  <2>4. ASSUME NEW u \in Thread, UserCancels(u)
        PROVE  Calm(operations[t], Sent(t), operations'[t], Sent(t)')
    BY <2>4, EndsCalm DEF UserCancels
  <2>5. ASSUME NEW r \in wire, RequestLost(r)
        PROVE  Calm(operations[t], Sent(t), operations'[t], Sent(t)')
    <3>1. Sent(t)' \subseteq Sent(t) /\ UNCHANGED operations
      BY <2>5 DEF RequestLost, Sent
    <3>2. QED BY <3>1 DEF Calm, Unknown, Alive
  <2>6. QED
    BY <2>1, <2>2, <2>3, <2>4, <2>5 DEF Server, Environment, MailChanges, UserLabels,
       UserDeletes, Interrupt, service
<1>4. QED
  BY <1>1, <1>2, <1>3, KeptLive

LEMMA InitLive == Init => LiveInv
<1> SUFFICES ASSUME Init, NEW t \in Thread PROVE ThreadLive(t)
  BY DEF LiveInv
<1>1. /\ Sent(t) = {}
      /\ threads[t].payload = None
      /\ at[t] = "off"
      /\ \A o \in OpId : operations[t][o].status = "not_found"
  BY DEF Init, Sent, NewRow, NoOperation
<1>2. RowLive(threads[t], minted[t], operations[t], Sent(t))
  BY <1>1 DEF RowLive, Unknown, Alive
<1>3. PlaceLive(threads[t], at[t], local[t].status, operations[t])
  BY <1>1 DEF PlaceLive, Delivering
<1>4. QED BY <1>2, <1>3 DEF ThreadLive

LEMMA LiveInvariant == TypeInv /\ LiveInv /\ [Next]_vars => LiveInv'
<1> SUFFICES ASSUME TypeInv, LiveInv, [Next]_vars PROVE LiveInv'
  OBVIOUS
<1>1. CASE Run
  BY <1>1, RunLive
<1>2. CASE Server \/ Environment
  BY <1>2, OthersLive
<1>3. CASE \E t \in Thread : Coroutine(t)
  BY <1>3, PreparesLive, DeliversLive DEF Coroutine
<1>4. CASE UNCHANGED vars
  BY <1>4 DEF vars, ledger, service, LiveInv, ThreadLive, Sent
<1>5. QED
  BY <1>1, <1>2, <1>3, <1>4 DEF Next

\* However often a delivery is retried, its answers lost, its operation
\* cancelled or its run interrupted, at most one operation may still replace
\* the document of a conversation, and it is the one on the row (_deliver:
\* a stored operation_id is sent again and replaced only once cancelled).
THEOREM OneLive == Spec => []OneLiveOperation
<1>1. LiveInv => OneLiveOperation
  <2> SUFFICES ASSUME LiveInv, NEW t \in Thread, NEW o \in Live(t)
               PROVE  threads[t].payload # None /\ Live(t) = {threads[t].op}
    BY DEF OneLiveOperation
  <2>1. \A q \in Live(t) : q \in OpId /\ Alive(operations[t], Sent(t), q)
    BY DEF Live, Alive, Sent
  <2>2. \A q \in Live(t) : threads[t].payload # None /\ threads[t].op = q
    BY <2>1 DEF LiveInv, ThreadLive, RowLive
  <2>3. QED BY <2>2
<1>2. QED
  BY <1>1, LiveInvariant, InitLive, InitTypeInv, TypeInvInvariant, PTL DEF Spec

-----------------------------------------------------------------------------
(* OutcomePromise and AcceptedAvailable.  A row with a payload holds newer  *)
(* evidence than the accepted one, its operation and every request for it   *)
(* carry that evidence, and the document shows it at most once the          *)
(* operation has ended: so an operation that is alive replaces an accepted  *)
(* or older outcome, and what is accepted is what the document shows.       *)

Requests(t) == {r \in wire : r.thread = t}

\* What a row promises about changes, operations, requests and document.
RowEvidence(row, changes, ops, requests, shown) ==
  /\ row.input <= changes
  /\ row.payload = None => shown <= row.input
  /\ row.payload # None =>
       /\ row.input < row.payload.input
       /\ row.payload.input <= changes
       /\ ops[row.op].status # "not_found" => ops[row.op].ev = row.payload.input
       /\ \A r \in requests : r.op = row.op => r.ev = row.payload.input
       /\ \/ shown <= row.input
          \/ shown = row.payload.input /\ ops[row.op].status \in {"completed", "faulty"}

\* What a coroutine in _prepare promises about the evidence it has read.
WorkEvidence(place, ev, input, changes) ==
  place \in {"previous", "compose"} => input < ev /\ ev <= changes

ThreadEvidence(t) ==
  /\ RowEvidence(threads[t], mail[t], operations[t], Requests(t), documents[t].ev)
  /\ WorkEvidence(at[t], local[t].ev, threads[t].input, mail[t])

EvidenceInv == \A t \in Thread : ThreadEvidence(t)

\* An outcome that was accepted is shown until its withdrawal is prepared.
ThreadAvailable(t) ==
  /\ threads[t].outcome => \/ documents[t].ev > 0
                           \/ threads[t].payload # None /\ threads[t].payload.action = "withdraw"
  /\ at[t] \in {"relabel", "relabelled"} => documents[t].ev > 0

AvailableInv == \A t \in Thread : ThreadAvailable(t)

\* A step of AcceptedOutcome, or of nobody it sees.
OutcomeStep == [Outcome!Next]_(Outcome!outcomeVars)

Keeps == EvidenceInv' /\ OutcomeStep

LEMMA Evidences ==
  ASSUME TypeInv, NEW t \in Thread
  PROVE  /\ documents[t].ev \in Int /\ threads[t].input \in Int /\ mail[t] \in Int
         /\ local[t].ev \in Int
         /\ threads[t].payload # None => threads[t].payload.input \in Int
  BY LocalFields, Numbers, DeliveryAssumption DEF Document, Version

LEMMA InvisibleStep ==
  ASSUME \A t \in Thread : /\ documents'[t].ev = documents[t].ev
                           /\ threads'[t].input = threads[t].input
  PROVE  OutcomeStep
  BY DEF OutcomeStep, Outcome!outcomeVars

LEMMA ReplaceStep ==
  ASSUME NEW t \in Thread, NEW v \in 1..MaxMail,
         threads[t].input < v, documents[t].ev <= threads[t].input,
         documents'[t].ev = v,
         \A u \in Thread \ {t} : documents'[u].ev = documents[u].ev,
         \A u \in Thread : threads'[u].input = threads[u].input
  PROVE  OutcomeStep
<1>1. Outcome!Replace(t)
  BY DeliveryAssumption DEF Outcome!Replace
<1>2. QED
  BY <1>1 DEF OutcomeStep, Outcome!Next

LEMMA RemoveStep ==
  ASSUME NEW t \in Thread,
         documents'[t].ev = 0,
         \A u \in Thread \ {t} : documents'[u].ev = documents[u].ev,
         \A u \in Thread : threads'[u].input = threads[u].input
  PROVE  OutcomeStep
<1>1. Outcome!Remove(t)
  BY DEF Outcome!Remove
<1>2. QED
  BY <1>1 DEF OutcomeStep, Outcome!Next

LEMMA AcceptStep ==
  ASSUME NEW t \in Thread, NEW v \in 1..MaxMail,
         threads[t].input <= v,
         documents[t].ev <= threads[t].input \/ documents[t].ev = v,
         \A u \in Thread : documents'[u].ev = documents[u].ev,
         threads'[t].input = v,
         \A u \in Thread \ {t} : threads'[u].input = threads[u].input
  PROVE  OutcomeStep
<1>1. Outcome!Accept(t)
  BY DEF Outcome!Accept
<1>2. QED
  BY <1>1 DEF OutcomeStep, Outcome!Next

LEMMA EvidenceFields ==
  ASSUME EvidenceInv, NEW t \in Thread
  PROVE  /\ RowEvidence(threads[t], mail[t], operations[t], Requests(t), documents[t].ev)
         /\ WorkEvidence(at[t], local[t].ev, threads[t].input, mail[t])
  BY DEF EvidenceInv, ThreadEvidence

\* A step of one coroutine, given what it leaves of its own conversation.
LEMMA CoroutineEvidence ==
  ASSUME TypeInv, EvidenceInv, NEW t \in Thread, NEW row, NEW place, NEW own,
         NEW ops, NEW requests, NEW shown,
         threads' = [threads EXCEPT ![t] = row],
         at' = [at EXCEPT ![t] = place],
         local' = [local EXCEPT ![t] = own],
         operations' = [operations EXCEPT ![t] = ops],
         Requests(t)' = requests,
         \A u \in Thread \ {t} : Requests(u)' = Requests(u),
         documents'[t].ev = shown,
         \A u \in Thread \ {t} : documents'[u].ev = documents[u].ev,
         UNCHANGED mail,
         RowEvidence(row, mail[t], ops, requests, shown),
         WorkEvidence(place, own.ev, row.input, mail[t])
  PROVE  EvidenceInv'
<1>1. /\ threads \in [Thread -> Row] /\ at \in [Thread -> Await]
      /\ local \in [Thread -> Local]
      /\ operations \in [Thread -> [OpId -> Operation]]
  BY DEF TypeInv, TypeOK
<1>2. ASSUME NEW u \in Thread
      PROVE  ThreadEvidence(u)'
  <2>1. CASE u = t
    <3>1. /\ threads'[u] = row /\ at'[u] = place /\ local'[u] = own /\ mail'[u] = mail[t]
          /\ operations'[u] = ops /\ Requests(u)' = requests /\ documents'[u].ev = shown
      BY <1>1, <2>1
    <3>2. QED BY <3>1 DEF ThreadEvidence
  <2>2. CASE u # t
    <3>1. /\ threads'[u] = threads[u] /\ at'[u] = at[u] /\ local'[u] = local[u]
          /\ mail'[u] = mail[u] /\ operations'[u] = operations[u]
          /\ Requests(u)' = Requests(u) /\ documents'[u].ev = documents[u].ev
      BY <1>1, <2>2
    <3>2. ThreadEvidence(u)
      BY DEF EvidenceInv
    <3>3. QED BY <3>1, <3>2 DEF ThreadEvidence
  <2>3. QED BY <2>1, <2>2
<1>3. QED
  BY <1>2 DEF EvidenceInv

\* What most steps of a coroutine leave alone.
Silent == UNCHANGED <<mail, operations, wire, documents>>

LEMMA SilentEvidence ==
  ASSUME TypeInv, EvidenceInv, NEW t \in Thread, NEW row, NEW place, NEW own,
         threads' = [threads EXCEPT ![t] = row],
         at' = [at EXCEPT ![t] = place],
         local' = [local EXCEPT ![t] = own],
         Silent,
         RowEvidence(row, mail[t], operations[t], Requests(t), documents[t].ev),
         WorkEvidence(place, own.ev, row.input, mail[t])
  PROVE  EvidenceInv'
<1>1. operations' = [operations EXCEPT ![t] = operations[t]]
  BY DEF TypeInv, TypeOK, Silent
<1>2. /\ \A u \in Thread : Requests(u)' = Requests(u)
      /\ \A u \in Thread : documents'[u].ev = documents[u].ev
      /\ UNCHANGED mail
  BY DEF Requests, Silent
<1>3. QED
  BY <1>1, <1>2, CoroutineEvidence

\* A rewritten row that says the same of its operation keeps the invariant,
\* and nothing of it is seen outside.
LEMMA SameKeeps ==
  ASSUME TypeInv, EvidenceInv, NEW t \in Thread, NEW row, NEW place, NEW own, Silent,
         row.input = threads[t].input, row.op = threads[t].op,
         row.payload = None <=> threads[t].payload = None,
         row.payload # None => row.payload.input = threads[t].payload.input,
         threads' = [threads EXCEPT ![t] = row],
         at' = [at EXCEPT ![t] = place],
         local' = [local EXCEPT ![t] = own],
         WorkEvidence(place, own.ev, row.input, mail[t])
  PROVE  Keeps
<1>1. RowEvidence(row, mail[t], operations[t], Requests(t), documents[t].ev)
  BY EvidenceFields DEF RowEvidence
<1>2. EvidenceInv'
  BY <1>1, SilentEvidence
<1>3. OutcomeStep
  BY InvisibleStep DEF Silent, TypeInv, TypeOK
<1>4. QED BY <1>2, <1>3 DEF Keeps

LEMMA ErrorKeeps ==
  ASSUME TypeInv, EvidenceInv, NEW t \in Thread, ThreadError(t), Silent
  PROVE  Keeps
<1> DEFINE row == [threads[t] EXCEPT !.state = "error"]
<1>1. threads' = [threads EXCEPT ![t] = row]
  BY DEF ThreadError, TypeInv, TypeOK
<1>2. row.payload = threads[t].payload /\ row.op = threads[t].op
  BY LocalFields, ErrorRowIsRow
<1>3. row.input = threads[t].input
  BY LocalFields DEF Row
<1> HIDE DEF row
<1>4. WorkEvidence("off", NoLocal.ev, row.input, mail[t])
  BY DEF WorkEvidence
<1>5. QED
  BY <1>1, <1>2, <1>3, <1>4, SameKeeps DEF ThreadError, Leave

\* What is accepted is what the document shows, or newer than that.
LEMMA FinishKeeps ==
  ASSUME TypeInv, EvidenceInv, NEW t \in Thread,
         NEW action, NEW ev \in Version, NEW revision \in Nat,
         Finish(t, action, ev, revision), Silent,
         threads[t].input <= ev, ev <= mail[t],
         documents[t].ev <= threads[t].input \/ documents[t].ev = ev
  PROVE  Keeps
<1> DEFINE row == Accepted(threads[t], action, ev, revision)
<1>1. CASE ThreadError(t)
  BY <1>1, ErrorKeeps
<1>2. CASE Leave(t) /\ threads' = [threads EXCEPT ![t] = row]
  <2>1. row.payload = None
    BY LocalFields, AcceptedIsRow
  <2>2. row.input = ev
    BY LocalFields DEF Row, Accepted
  <2> HIDE DEF row
  <2>3. ev \in Int
    BY DeliveryAssumption DEF Version
  <2>4. RowEvidence(row, mail[t], operations[t], Requests(t), documents[t].ev)
    BY <2>1, <2>2, <2>3, Evidences DEF RowEvidence
  <2>5. WorkEvidence("off", NoLocal.ev, row.input, mail[t])
    BY DEF WorkEvidence
  <2>6. EvidenceInv'
    BY <1>2, <2>4, <2>5, SilentEvidence DEF Leave
  <2>7. /\ threads'[t].input = ev
        /\ \A u \in Thread \ {t} : threads'[u].input = threads[u].input
        /\ \A u \in Thread : documents'[u].ev = documents[u].ev
    BY <1>2, <2>2 DEF Silent, TypeInv, TypeOK
  <2>8. CASE ev = 0
    <3>1. threads[t].input = 0
      BY <2>8, LocalFields, DeliveryAssumption DEF Row, Version
    <3>2. QED BY <2>6, <2>7, <2>8, <3>1, InvisibleStep DEF Keeps
  <2>9. CASE ev # 0
    <3>1. ev \in 1..MaxMail
      BY <2>9, DeliveryAssumption DEF Version
    <3>2. QED BY <2>6, <2>7, <3>1, AcceptStep DEF Keeps
  <2>10. QED BY <2>8, <2>9
<1>3. QED
  BY <1>1, <1>2 DEF Finish

\* A coroutine that moves on and leaves its row alone.
LEMMA MoveKeeps ==
  ASSUME TypeInv, EvidenceInv, NEW t \in Thread, NEW place, NEW own, Silent,
         Suspend(t, place), UNCHANGED threads, local' = [local EXCEPT ![t] = own],
         WorkEvidence(place, own.ev, threads[t].input, mail[t])
  PROVE  Keeps
<1>1. threads' = [threads EXCEPT ![t] = threads[t]]
  BY DEF TypeInv, TypeOK
<1>2. QED
  BY <1>1, SameKeeps DEF Suspend

LEMMA PreparesKeeps ==
  ASSUME TypeInv, LiveInv, EvidenceInv, NEW t \in Thread, Prepares(t)
  PROVE  Keeps
<1>1. Silent
  BY DEF Prepares, Begin, ReadThread, ReadPrevious, Compose, service, mailbox, Silent
<1>2. CASE ThreadError(t)
  BY <1>1, <1>2, ErrorKeeps
<1>3. /\ RowEvidence(threads[t], mail[t], operations[t], Requests(t), documents[t].ev)
      /\ WorkEvidence(at[t], local[t].ev, threads[t].input, mail[t])
      /\ PlaceLive(threads[t], at[t], local[t].status, operations[t])
  BY EvidenceFields DEF LiveInv, ThreadLive
<1>4. CASE Begin(t) /\ ~Refused(t)
  <2> DEFINE place == IF threads[t].payload # None THEN DeliveryStart(threads[t]) ELSE "source"
             own == [local[t] EXCEPT !.revision = threads[t].revision]
  <2>1. Suspend(t, place) /\ UNCHANGED threads
    BY <1>4 DEF Begin
  <2>2. local' = [local EXCEPT ![t] = own]
    BY <1>4 DEF Begin, TypeInv, TypeOK
  <2>3. place \notin {"previous", "compose"}
    BY DEF DeliveryStart
  <2> HIDE DEF place, own
  <2>4. WorkEvidence(place, own.ev, threads[t].input, mail[t])
    BY <2>3 DEF WorkEvidence
  <2>5. QED
    BY <1>1, <2>1, <2>2, <2>4, MoveKeeps
<1>5. CASE ReadThread(t) /\ ~ThreadError(t)
  <2>1. /\ threads[t].input <= mail[t]
        /\ documents[t].ev <= threads[t].input
    BY <1>3, <1>5 DEF ReadThread, PlaceLive, RowEvidence
  <2>2. CASE Finish(t, "unchanged", mail[t], local[t].revision)
    BY <1>1, <2>1, <2>2, LocalFields, Evidences, FinishKeeps
  <2>3. CASE /\ Suspend(t, "previous")
             /\ mail[t] # threads[t].input
             /\ local' = [local EXCEPT ![t].ev = mail[t]]
             /\ UNCHANGED threads
    <3> DEFINE own == [local[t] EXCEPT !.ev = mail[t]]
    <3>1. local' = [local EXCEPT ![t] = own]
      BY <2>3 DEF TypeInv, TypeOK
    <3>2. own.ev = mail[t]
      BY LocalFields DEF Local
    <3> HIDE DEF own
    <3>3. WorkEvidence("previous", own.ev, threads[t].input, mail[t])
      BY <2>1, <2>3, <3>2, Evidences DEF WorkEvidence
    <3>4. QED
      BY <1>1, <2>3, <3>1, <3>3, MoveKeeps
  <2>4. QED BY <1>5, <2>2, <2>3 DEF ReadThread
<1>6. CASE ReadPrevious(t) /\ ~ThreadError(t)
  <2> DEFINE own == [local[t] EXCEPT !.previous = Exists(t)]
  <2>1. Suspend(t, "compose") /\ UNCHANGED threads /\ at[t] = "previous"
    BY <1>6 DEF ReadPrevious
  <2>2. local' = [local EXCEPT ![t] = own]
    BY <1>6 DEF ReadPrevious, TypeInv, TypeOK
  <2>3. own.ev = local[t].ev
    BY LocalFields DEF Local
  <2> HIDE DEF own
  <2>4. WorkEvidence("compose", own.ev, threads[t].input, mail[t])
    BY <1>3, <2>1, <2>3 DEF WorkEvidence
  <2>5. QED
    BY <1>1, <2>1, <2>2, <2>4, MoveKeeps
<1>7. CASE Compose(t) /\ ~ThreadError(t)
  <2>1. /\ threads[t].payload = None
        /\ documents[t].ev <= threads[t].input
        /\ threads[t].input < local[t].ev /\ local[t].ev <= mail[t]
    BY <1>3, <1>7 DEF Compose, PlaceLive, RowEvidence, WorkEvidence
  <2>2. ASSUME NEW action, Finish(t, action, local[t].ev, local[t].revision)
        PROVE  Keeps
    BY <1>1, <2>1, <2>2, LocalFields, Evidences, FinishKeeps
  <2>3. ASSUME NEW action \in {"publish", "withdraw"}, Prepare(t, action)
        PROVE  Keeps
    <3>1. ~Full
      BY <1>7, <2>3 DEF Prepare
    <3> DEFINE op == minted[t] + 1
               row == Prepared(threads[t], action, local[t].ev, local[t].revision, op)
    <3>2. /\ op \in OpId
          /\ threads' = [threads EXCEPT ![t] = row]
          /\ at' = [at EXCEPT ![t] = DeliveryStart(row)]
          /\ local' = local
      BY <2>3, <3>1 DEF Prepare, Suspend
    <3>3. row.op = op /\ row.payload # None
      <4> HIDE DEF op
      <4>1. QED BY <2>3, <3>2, LocalFields, PreparedIsRow
    <3>4. row.input = threads[t].input /\ row.payload.input = local[t].ev
      BY LocalFields DEF Prepared, Row
    <3>5. local' = [local EXCEPT ![t] = local[t]]
      BY <3>2 DEF TypeInv, TypeOK
    <3>6. Unknown(operations[t], Sent(t), op)
      <4>1. op > minted[t]
        BY LiveTypes
      <4> HIDE DEF op
      <4>2. QED BY <3>2, <4>1 DEF LiveInv, ThreadLive, RowLive
    <3> HIDE DEF row, op
    <3>7. /\ operations[t][op].status = "not_found"
          /\ \A r \in Requests(t) : r.op # op
      BY <3>6 DEF Unknown, Sent, Requests
    <3>8. RowEvidence(row, mail[t], operations[t], Requests(t), documents[t].ev)
      BY <2>1, <3>3, <3>4, <3>7, Evidences DEF RowEvidence
    <3>9. WorkEvidence(DeliveryStart(row), local[t].ev, row.input, mail[t])
      BY DEF WorkEvidence, DeliveryStart
    <3>10. EvidenceInv'
      BY <1>1, <3>2, <3>5, <3>8, <3>9, SilentEvidence
    <3>11. OutcomeStep
      BY <1>1, <3>2, <3>4, InvisibleStep DEF Silent, TypeInv, TypeOK
    <3>12. QED BY <3>10, <3>11 DEF Keeps
  <2>4. QED BY <1>7, <2>2, <2>3 DEF Compose
<1>8. QED
  BY <1>2, <1>4, <1>5, <1>6, <1>7 DEF Prepares, Begin

LEMMA RetainKeeps ==
  ASSUME TypeInv, EvidenceInv, NEW t \in Thread, Retain(t)
  PROVE  Keeps
<1> DEFINE request == [thread |-> t, op |-> threads[t].op,
                       ev |-> threads[t].payload.input,
                       tags |-> threads[t].payload.tags]
           requests == Requests(t) \cup {request}
<1>1. /\ threads' = [threads EXCEPT ![t] = threads[t]]
      /\ local' = [local EXCEPT ![t] = local[t]]
      /\ operations' = [operations EXCEPT ![t] = operations[t]]
      /\ at' = [at EXCEPT ![t] = "retaining"]
      /\ UNCHANGED <<mail, documents>>
  BY DEF Retain, Suspend, ledger, mailbox, TypeInv, TypeOK
<1>2. wire' = wire \cup {request}
  BY DEF Retain
<1>3. request.thread = t /\ request.op = threads[t].op /\ request.ev = threads[t].payload.input
  OBVIOUS
<1> HIDE DEF request
<1>4. Requests(t)' = requests /\ \A u \in Thread \ {t} : Requests(u)' = Requests(u)
  BY <1>2, <1>3 DEF Requests
<1>5. threads[t].payload # None
  BY PayloadFields DEF Retain, Delivering
<1>6. RowEvidence(threads[t], mail[t], operations[t], requests, documents[t].ev)
  BY <1>3, <1>5, EvidenceFields DEF RowEvidence
<1>7. WorkEvidence("retaining", local[t].ev, threads[t].input, mail[t])
  BY DEF WorkEvidence
<1>8. \A u \in Thread : documents'[u].ev = documents[u].ev
  BY <1>1
<1> HIDE DEF requests
<1>9. EvidenceInv'
  BY <1>1, <1>4, <1>6, <1>7, <1>8, CoroutineEvidence
<1>10. OutcomeStep
  BY <1>8, InvisibleStep DEF Retain, ledger
<1>11. QED BY <1>9, <1>10 DEF Keeps

LEMMA RetryOperationKeeps ==
  ASSUME TypeInv, EvidenceInv, NEW t \in Thread, RetryOperation(t)
  PROVE  Keeps
<1>1. /\ UNCHANGED <<mail, documents, wire>> /\ at[t] = "retry"
      /\ threads[t].payload # None /\ threads[t].op \in OpId
  BY PayloadFields, LiveTypes DEF RetryOperation, mailbox, Delivering
<1>2. CASE UNCHANGED operations /\ ThreadError(t)
  BY <1>1, <1>2, ErrorKeeps DEF Silent
<1>3. CASE UNCHANGED operations /\ ~ThreadError(t)
  <2>1. local' = [local EXCEPT ![t] = local[t]]
    BY <1>3 DEF RetryOperation, TypeInv, TypeOK
  <2>2. WorkEvidence("poll", local[t].ev, threads[t].input, mail[t])
    BY DEF WorkEvidence
  <2>3. QED
    BY <1>1, <1>3, <2>1, <2>2, MoveKeeps DEF RetryOperation, Silent
<1>4. CASE ~UNCHANGED operations
  <2> DEFINE op == threads[t].op
             ops == [operations[t] EXCEPT ![op].status = "pending"]
  <2>1. /\ operations[t][op].status = "failed"
        /\ operations' = [operations EXCEPT ![t][op].status = "pending"]
    BY <1>4 DEF RetryOperation, OperationStatus
  <2>2. operations' = [operations EXCEPT ![t] = ops]
    BY <2>1 DEF TypeInv, TypeOK
  <2>3. ops[op].ev = operations[t][op].ev /\ ops[op].status = "pending"
    BY <1>1, LiveTypes DEF Operation
  <2>4. /\ \A u \in Thread : Requests(u)' = Requests(u)
        /\ \A u \in Thread : documents'[u].ev = documents[u].ev
    BY <1>1 DEF Requests
  <2> HIDE DEF ops
  <2>5. ASSUME NEW row, row.payload = threads[t].payload, row.op = op,
               row.input = threads[t].input
        PROVE  RowEvidence(row, mail[t], ops, Requests(t), documents[t].ev)
    BY <1>1, <2>1, <2>3, <2>5, EvidenceFields DEF RowEvidence
  <2>6. CASE ThreadError(t)
    <3> DEFINE row == [threads[t] EXCEPT !.state = "error"]
    <3>1. threads' = [threads EXCEPT ![t] = row]
      BY <2>6 DEF ThreadError, TypeInv, TypeOK
    <3>2. row.payload = threads[t].payload /\ row.op = op
      BY LocalFields, ErrorRowIsRow
    <3>3. row.input = threads[t].input
      BY LocalFields DEF Row
    <3> HIDE DEF row, op
    <3>4. WorkEvidence("off", NoLocal.ev, row.input, mail[t])
      BY DEF WorkEvidence
    <3>5. EvidenceInv'
      BY <1>1, <2>2, <2>4, <2>5, <2>6, <3>1, <3>2, <3>3, <3>4, CoroutineEvidence
         DEF ThreadError, Leave
    <3>6. OutcomeStep
      BY <2>4, <3>1, <3>3, InvisibleStep DEF TypeInv, TypeOK
    <3>7. QED BY <3>5, <3>6 DEF Keeps
  <2>7. CASE Suspend(t, "poll") /\ UNCHANGED <<threads, local>>
    <3>1. /\ threads' = [threads EXCEPT ![t] = threads[t]]
          /\ local' = [local EXCEPT ![t] = local[t]]
      BY <2>7 DEF TypeInv, TypeOK
    <3>2. WorkEvidence("poll", local[t].ev, threads[t].input, mail[t])
      BY DEF WorkEvidence
    <3>3. RowEvidence(threads[t], mail[t], ops, Requests(t), documents[t].ev)
      BY <2>5
    <3> HIDE DEF op
    <3>4. EvidenceInv'
      BY <1>1, <2>2, <2>4, <2>7, <3>1, <3>2, <3>3, CoroutineEvidence DEF Suspend
    <3>5. OutcomeStep
      BY <2>4, <2>7, InvisibleStep
    <3>6. QED BY <3>4, <3>5 DEF Keeps
  <2>8. QED BY <2>6, <2>7 DEF RetryOperation
<1>5. QED BY <1>2, <1>3, <1>4

\* A deletion, or a change of labels, and then the coroutine goes on or fails.
LEMMA DocumentKeeps ==
  ASSUME TypeInv, EvidenceInv, NEW t \in Thread, NEW shown \in {0, documents[t].ev},
         NEW place \in Delivering,
         \/ ThreadError(t)
         \/ Suspend(t, place) /\ UNCHANGED <<threads, local>>,
         documents'[t].ev = shown,
         \A u \in Thread \ {t} : documents'[u].ev = documents[u].ev,
         UNCHANGED <<mail, operations, wire>>
  PROVE  Keeps
<1>1. /\ operations' = [operations EXCEPT ![t] = operations[t]]
      /\ Requests(t)' = Requests(t)
      /\ \A u \in Thread \ {t} : Requests(u)' = Requests(u)
      /\ UNCHANGED mail
  BY DEF TypeInv, TypeOK, Requests
<1>2. ASSUME NEW row, row.payload = threads[t].payload, row.op = threads[t].op,
             row.input = threads[t].input
      PROVE  RowEvidence(row, mail[t], operations[t], Requests(t), shown)
  <2>1. 0 <= row.input
    BY <1>2, LocalFields, DeliveryAssumption DEF Row, Version
  <2>2. QED BY <1>2, <2>1, EvidenceFields DEF RowEvidence
<1>3. EvidenceInv' /\ \A u \in Thread : threads'[u].input = threads[u].input
  <2>1. CASE ThreadError(t)
    <3> DEFINE row == [threads[t] EXCEPT !.state = "error"]
    <3>1. threads' = [threads EXCEPT ![t] = row]
      BY <2>1 DEF ThreadError, TypeInv, TypeOK
    <3>2. row.payload = threads[t].payload /\ row.op = threads[t].op
      BY LocalFields, ErrorRowIsRow
    <3>3. row.input = threads[t].input
      BY LocalFields DEF Row
    <3> HIDE DEF row
    <3>4. WorkEvidence("off", NoLocal.ev, row.input, mail[t])
      BY DEF WorkEvidence
    <3>5. RowEvidence(row, mail[t], operations[t], Requests(t), shown)
      BY <1>2, <3>2, <3>3
    <3>6. at' = [at EXCEPT ![t] = "off"] /\ local' = [local EXCEPT ![t] = NoLocal]
      BY <2>1 DEF ThreadError, Leave
    <3>7. EvidenceInv'
      BY <1>1, <3>1, <3>4, <3>5, <3>6, CoroutineEvidence
    <3>8. QED BY <3>1, <3>3, <3>7 DEF TypeInv, TypeOK
  <2>2. CASE Suspend(t, place) /\ UNCHANGED <<threads, local>>
    <3>1. /\ threads' = [threads EXCEPT ![t] = threads[t]]
          /\ local' = [local EXCEPT ![t] = local[t]]
          /\ at' = [at EXCEPT ![t] = place]
      BY <2>2 DEF TypeInv, TypeOK, Suspend
    <3>2. WorkEvidence(place, local[t].ev, threads[t].input, mail[t])
      BY DEF WorkEvidence, Delivering
    <3>3. RowEvidence(threads[t], mail[t], operations[t], Requests(t), shown)
      BY <1>2
    <3>4. EvidenceInv'
      BY <1>1, <3>1, <3>2, <3>3, CoroutineEvidence
    <3>5. QED BY <2>2, <3>4
  <2>3. QED BY <2>1, <2>2
<1>4. OutcomeStep
  <2>1. CASE shown = documents[t].ev
    BY <1>3, <2>1, InvisibleStep
  <2>2. CASE shown = 0
    BY <1>3, <2>2, RemoveStep
  <2>3. QED BY <2>1, <2>2
<1>5. QED BY <1>3, <1>4 DEF Keeps

LEMMA ReadCurrentKeeps ==
  ASSUME TypeInv, LiveInv, EvidenceInv, NEW t \in Thread, ReadCurrent(t)
  PROVE  Keeps
<1> DEFINE row == Renewed(t, threads[t])
           place == AfterStatus(local[t].status, row)
<1>1. Silent /\ at[t] = "current"
  BY DEF ReadCurrent, service, mailbox, Silent
<1>2. CASE ThreadError(t)
  BY <1>1, <1>2, ErrorKeeps
<1>3. CASE ~ThreadError(t)
  <2>1. /\ row.op \in OpId
        /\ threads' = [threads EXCEPT ![t] = row]
        /\ at' = [at EXCEPT ![t] = place]
        /\ local' = [local EXCEPT ![t] = local[t]]
    BY <1>3 DEF ReadCurrent, Suspend, TypeInv, TypeOK
  <2>2. /\ row.payload # None
        /\ row.payload.input = threads[t].payload.input
        /\ local[t].status = "cancelled" => row.op = minted[t] + 1
        /\ local[t].status # "cancelled" => row.op = threads[t].op
    BY <1>1, <2>1, RenewedIsRow, RenewedKeeps
  <2>3. row.input = threads[t].input
    BY <1>1, <2>1, RenewedKeeps
  <2> HIDE DEF row
  <2>4. place \in Delivering
    BY DEF AfterStatus, Delivering
  <2>5. WorkEvidence(place, local[t].ev, row.input, mail[t])
    BY <2>4 DEF WorkEvidence, Delivering
  <2> HIDE DEF place
  <2>6. threads[t].payload # None
    BY <1>1, PayloadFields DEF Delivering
  <2>7. CASE local[t].status # "cancelled"
    BY <1>1, <2>1, <2>2, <2>3, <2>5, <2>6, <2>7, SameKeeps
  <2>8. CASE local[t].status = "cancelled"
    <3>1. operations[t][threads[t].op].status = "cancelled"
      BY <1>1, <2>8 DEF LiveInv, ThreadLive, PlaceLive
    <3>2. row.op > minted[t]
      BY <2>2, <2>8, LiveTypes
    <3>3. Unknown(operations[t], Sent(t), row.op)
      BY <2>1, <3>2 DEF LiveInv, ThreadLive, RowLive
    <3>4. /\ operations[t][row.op].status = "not_found"
          /\ \A r \in Requests(t) : r.op # row.op
      BY <3>3 DEF Unknown, Sent, Requests
    <3>5. RowEvidence(row, mail[t], operations[t], Requests(t), documents[t].ev)
      BY <2>2, <2>3, <2>6, <3>1, <3>4, EvidenceFields DEF RowEvidence
    <3>6. EvidenceInv'
      BY <1>1, <2>1, <2>5, <3>5, SilentEvidence
    <3>7. OutcomeStep
      BY <1>1, <2>1, <2>3, InvisibleStep DEF Silent, TypeInv, TypeOK
    <3>8. QED BY <3>6, <3>7 DEF Keeps
  <2>9. QED BY <2>7, <2>8
<1>4. QED BY <1>2, <1>3

LEMMA DeliversKeeps ==
  ASSUME TypeInv, LiveInv, EvidenceInv, NEW t \in Thread, Delivers(t)
  PROVE  Keeps
<1>1. CASE Retain(t)
  BY <1>1, RetainKeeps
<1>2. CASE RetryOperation(t)
  BY <1>2, RetryOperationKeeps
<1>3. CASE ReadCurrent(t)
  BY <1>3, ReadCurrentKeeps
<1>4. CASE DeleteDocument(t)
  <2>1. /\ UNCHANGED <<mail, operations, wire>>
        /\ ThreadError(t) \/ (Suspend(t, "gone") /\ UNCHANGED <<threads, local>>)
    BY <1>4 DEF DeleteDocument, mailbox
  <2>2. /\ documents'[t].ev \in {0, documents[t].ev}
        /\ \A u \in Thread \ {t} : documents'[u].ev = documents[u].ev
    BY <1>4 DEF DeleteDocument, NoDocument, TypeInv, TypeOK
  <2>3. QED
    BY <2>1, <2>2, DocumentKeeps DEF Delivering
<1>5. CASE Relabel(t)
  <2>1. /\ UNCHANGED <<mail, operations, wire>>
        /\ ThreadError(t) \/ (Suspend(t, "relabelled") /\ UNCHANGED <<threads, local>>)
    BY <1>5 DEF Relabel, mailbox
  <2>2. \A u \in Thread : documents'[u].ev = documents[u].ev
    BY <1>5, LocalFields DEF Relabel, TypeInv, TypeOK, Document
  <2>3. QED
    BY <2>1, <2>2, DocumentKeeps DEF Delivering
<1> SUFFICES ASSUME ~Retain(t), ~RetryOperation(t), ~ReadCurrent(t), ~DeleteDocument(t),
                    ~Relabel(t)
             PROVE  Keeps
  BY <1>1, <1>2, <1>3, <1>4, <1>5
<1>6. Silent /\ at[t] \in Delivering /\ threads[t].payload # None
  BY DeliversAlone, PayloadFields
     DEF Delivers, ConfirmGone, ReadStatus, ReadLabels, Retained, Poll, Verify, Relabelled,
         service, mailbox, Silent, Delivering
<1>7. CASE ThreadError(t)
  BY <1>6, <1>7, ErrorKeeps
<1>8. RowEvidence(threads[t], mail[t], operations[t], Requests(t), documents[t].ev)
  BY EvidenceFields
<1>9. ASSUME NEW action, Finish(t, action, threads[t].payload.input, threads[t].target)
      PROVE  Keeps
  <2>1. /\ threads[t].input <= threads[t].payload.input
        /\ threads[t].payload.input <= mail[t]
        /\ \/ documents[t].ev <= threads[t].input
           \/ documents[t].ev = threads[t].payload.input
    BY <1>6, <1>8, Evidences DEF RowEvidence
  <2>2. QED
    BY <1>6, <1>9, <2>1, PayloadFields, LocalFields, FinishKeeps
<1>10. ASSUME NEW place \in Delivering, NEW own, Suspend(t, place), UNCHANGED threads,
              local' = [local EXCEPT ![t] = own]
       PROVE  Keeps
  <2>1. WorkEvidence(place, own.ev, threads[t].input, mail[t])
    BY DEF WorkEvidence, Delivering
  <2>2. QED
    BY <1>6, <1>10, <2>1, MoveKeeps
<1>11. ASSUME NEW row, NEW place \in Delivering, Suspend(t, place), UNCHANGED local,
              threads' = [threads EXCEPT ![t] = row],
              row.input = threads[t].input, row.op = threads[t].op, row.payload # None,
              row.payload.input = threads[t].payload.input
       PROVE  Keeps
  <2>1. WorkEvidence(place, local[t].ev, row.input, mail[t])
    BY DEF WorkEvidence, Delivering
  <2>2. local' = [local EXCEPT ![t] = local[t]]
    BY <1>11 DEF TypeInv, TypeOK
  <2>3. QED
    BY <1>6, <1>11, <2>1, <2>2, SameKeeps DEF Suspend
<1>12. CASE ConfirmGone(t)
  BY <1>7, <1>9, <1>12 DEF ConfirmGone
<1>13. CASE ReadStatus(t)
  <2> DEFINE own == [local[t] EXCEPT !.status = OperationStatus(t)]
  <2>1. ThreadError(t) \/ (Suspend(t, "current") /\ UNCHANGED threads
                           /\ local' = [local EXCEPT ![t] = own])
    BY <1>13 DEF ReadStatus, TypeInv, TypeOK
  <2> HIDE DEF own
  <2>2. QED
    BY <1>7, <1>10, <2>1 DEF Delivering
<1>14. CASE ReadLabels(t) /\ ~ThreadError(t)
  <2> DEFINE payload == [threads[t].payload EXCEPT !.tags = documents[t].labels]
             row == [threads[t] EXCEPT !.payload = payload]
  <2>1. threads' = [threads EXCEPT ![t] = row]
    BY <1>14 DEF ReadLabels, TypeInv, TypeOK
  <2>2. payload \in Payload /\ payload.input = threads[t].payload.input
    BY <1>6, PayloadFields, LocalFields DEF Payload
  <2>3. row.payload = payload /\ row.op = threads[t].op /\ row.input = threads[t].input
    <3> HIDE DEF payload
    <3>1. QED BY LocalFields DEF Row
  <2> HIDE DEF row, payload
  <2>4. row.payload # None
    BY <2>2, <2>3, NoneAssumption
  <2>5. Suspend(t, "retain") /\ UNCHANGED local
    BY <1>14 DEF ReadLabels
  <2>6. QED
    BY <1>11, <2>1, <2>2, <2>3, <2>4, <2>5 DEF Delivering
<1>15. CASE Retained(t) /\ ~ThreadError(t)
  <2> DEFINE row == [threads[t] EXCEPT !.state = "submitted"]
  <2>1. threads' = [threads EXCEPT ![t] = row] /\ Suspend(t, "poll") /\ UNCHANGED local
    BY <1>15 DEF Retained, TypeInv, TypeOK
  <2>2. /\ row.payload = threads[t].payload /\ row.op = threads[t].op
        /\ row.input = threads[t].input
    BY LocalFields DEF Row
  <2> HIDE DEF row
  <2>3. QED
    BY <1>6, <1>11, <2>1, <2>2 DEF Delivering
<1>16. CASE Poll(t) /\ ~ThreadError(t)
  <2>1. local' = [local EXCEPT ![t] = local[t]]
    BY <1>16 DEF Poll, TypeInv, TypeOK
  <2>2. QED
    BY <1>10, <1>16, <2>1 DEF Poll, Delivering
<1>17. CASE Verify(t)
  <2> DEFINE own == [local[t] EXCEPT !.labels = Reconciled(t)]
  <2>1. \/ ThreadError(t)
        \/ Finish(t, "publish", threads[t].payload.input, threads[t].target)
        \/ Suspend(t, "relabel") /\ UNCHANGED threads /\ local' = [local EXCEPT ![t] = own]
    BY <1>17 DEF Verify, TypeInv, TypeOK
  <2> HIDE DEF own
  <2>2. QED
    BY <1>7, <1>9, <1>10, <2>1 DEF Delivering
<1>18. CASE Relabelled(t)
  BY <1>7, <1>9, <1>18 DEF Relabelled
<1>19. QED
  BY <1>7, <1>12, <1>13, <1>14, <1>15, <1>16, <1>17, <1>18 DEF Delivers

\* A step of the server, the network, a user or the run.
LEMMA KeptEvidence ==
  ASSUME TypeInv, EvidenceInv,
         \A t \in Thread : \/ at'[t] \in {"off", "queued"}
                           \/ at'[t] = at[t] /\ local'[t] = local[t],
         \A t \in Thread : mail[t] <= mail'[t] /\ mail'[t] \in Int,
         \A t \in Thread : /\ threads'[t].payload = threads[t].payload
                           /\ threads'[t].op = threads[t].op
                           /\ threads'[t].input = threads[t].input,
         \A t \in Thread :
           RowEvidence(threads[t], mail[t], operations'[t], Requests(t)', documents'[t].ev)
  PROVE  EvidenceInv'
<1>1. ASSUME NEW t \in Thread
      PROVE  ThreadEvidence(t)'
  <2>1. RowEvidence(threads[t], mail[t], operations'[t], Requests(t)', documents'[t].ev)
    OBVIOUS
  <2>2. RowEvidence(threads'[t], mail'[t], operations'[t], Requests(t)', documents'[t].ev)
    BY <2>1, Evidences DEF RowEvidence
  <2>3. WorkEvidence(at'[t], local'[t].ev, threads'[t].input, mail'[t])
    BY EvidenceFields, Evidences DEF WorkEvidence
  <2>4. QED BY <2>2, <2>3 DEF ThreadEvidence
<1>2. QED
  BY <1>1 DEF EvidenceInv

LEMMA RunKeeps ==
  ASSUME TypeInv, EvidenceInv, Run
  PROVE  Keeps
<1>1. UNCHANGED <<mail, operations, wire, documents, local>>
  BY DEF Run, StartRun, StartDeliveries, StartProcessing, EndRun, RecordSources, mailbox, service
<1>2. \A t \in Thread : \/ at'[t] \in {"off", "queued"}
                        \/ at'[t] = at[t] /\ local'[t] = local[t]
  BY <1>1 DEF Run, StartRun, StartDeliveries, StartProcessing, EndRun, RecordSources
<1>3. \A t \in Thread : /\ threads'[t].payload = threads[t].payload
                        /\ threads'[t].op = threads[t].op
                        /\ threads'[t].input = threads[t].input
  <2>1. CASE UNCHANGED threads
    BY <2>1
  <2>2. ASSUME NEW u \in Thread, RecordSources(u)
        PROVE  \A t \in Thread : /\ threads'[t].payload = threads[t].payload
                                 /\ threads'[t].op = threads[t].op
                                 /\ threads'[t].input = threads[t].input
    <3> DEFINE row == Bumped(threads[u])
    <3>1. row.payload = threads[u].payload /\ row.op = threads[u].op
      BY LocalFields, BumpedIsRow
    <3>2. row.input = threads[u].input
      BY LocalFields DEF Bumped, Row
    <3>3. threads' \in {threads, [threads EXCEPT ![u] = row]}
      BY <2>2 DEF RecordSources
    <3> HIDE DEF row
    <3>4. QED BY <3>1, <3>2, <3>3 DEF TypeInv, TypeOK
  <2>3. QED
    BY <2>1, <2>2 DEF Run, StartRun, StartDeliveries, StartProcessing, EndRun, ledger
<1>4. \A t \in Thread :
        RowEvidence(threads[t], mail[t], operations'[t], Requests(t)', documents'[t].ev)
  BY <1>1, EvidenceFields DEF Requests
<1>5. \A t \in Thread : mail[t] <= mail'[t] /\ mail'[t] \in Int
  BY <1>1, Numbers
<1>6. EvidenceInv'
  BY <1>2, <1>3, <1>4, <1>5, KeptEvidence
<1>7. OutcomeStep
  BY <1>1, <1>3, InvisibleStep
<1>8. QED BY <1>6, <1>7 DEF Keeps

LEMMA MailChangesKeeps ==
  ASSUME TypeInv, EvidenceInv, NEW t \in Thread, MailChanges(t)
  PROVE  Keeps
<1>1. UNCHANGED <<operations, wire, documents, threads, at, local>>
  BY DEF MailChanges, ledger, service
<1>2. \A u \in Thread :
        RowEvidence(threads[u], mail[u], operations'[u], Requests(u)', documents'[u].ev)
  BY <1>1, EvidenceFields DEF Requests
<1>3. \A u \in Thread : mail[u] <= mail'[u] /\ mail'[u] \in Int
  BY Numbers DEF MailChanges, TypeInv, TypeOK
<1>4. EvidenceInv'
  BY <1>1, <1>2, <1>3, KeptEvidence
<1>5. OutcomeStep
  BY <1>1, InvisibleStep
<1>6. QED BY <1>4, <1>5 DEF Keeps

\* What the server works on is the operation of the row, with its evidence.
LEMMA ServerExecutesKeeps ==
  ASSUME TypeInv, LiveInv, EvidenceInv, NEW t \in Thread, NEW o \in OpId, ServerExecutes(t, o)
  PROVE  Keeps
<1>1. UNCHANGED <<mail, wire, threads, at, local>> /\ operations[t][o].status = "pending"
  BY DEF ServerExecutes, mailbox, ledger
<1>2. threads[t].payload # None /\ threads[t].op = o
  BY <1>1 DEF LiveInv, ThreadLive, RowLive, Alive
<1>3. PICK status \in {"completed", "failed", "faulty"} :
        /\ operations' = [operations EXCEPT ![t][o].status = status]
        /\ \/ UNCHANGED documents
           \/ /\ status # "failed"
              /\ documents' = [documents EXCEPT ![t] = [ev |-> operations[t][o].ev,
                                                        labels |-> operations[t][o].tags]]
  BY DEF ServerExecutes
<1>4. /\ operations'[t][o].status = status
      /\ operations'[t][o].ev = operations[t][o].ev
      /\ \A u \in Thread \ {t} : operations'[u] = operations[u]
  BY <1>3 DEF TypeInv, TypeOK, Operation
<1>5. /\ \A u \in Thread \ {t} : documents'[u].ev = documents[u].ev
      /\ \/ documents'[t].ev = documents[t].ev
         \/ status # "failed" /\ documents'[t].ev = operations[t][o].ev
  BY <1>3 DEF TypeInv, TypeOK
<1>6. /\ operations[t][o].ev = threads[t].payload.input
      /\ documents[t].ev <= threads[t].input
      /\ threads[t].input < threads[t].payload.input
  BY <1>1, <1>2, EvidenceFields DEF RowEvidence
<1>7. ASSUME NEW u \in Thread
      PROVE  RowEvidence(threads[u], mail[u], operations'[u], Requests(u)', documents'[u].ev)
  <2>1. Requests(u)' = Requests(u)
    BY <1>1 DEF Requests
  <2>2. CASE u = t
    BY <1>2, <1>4, <1>5, <1>6, <2>1, <2>2, EvidenceFields DEF RowEvidence
  <2>3. CASE u # t
    BY <1>4, <1>5, <2>1, <2>3, EvidenceFields
  <2>4. QED BY <2>2, <2>3
<1>8. \A u \in Thread : mail[u] <= mail'[u] /\ mail'[u] \in Int
  BY <1>1, Numbers
<1>9. EvidenceInv'
  BY <1>1, <1>7, <1>8, KeptEvidence
<1>10. OutcomeStep
  <2>1. CASE documents'[t].ev = documents[t].ev
    BY <1>1, <1>5, <2>1, InvisibleStep
  <2>2. CASE documents'[t].ev = operations[t][o].ev
    <3> DEFINE v == threads[t].payload.input
    <3>1. threads[t].payload \in Payload /\ threads[t].input \in Version
      BY <1>2, LocalFields DEF Row
    <3>2. v \in Version
      BY <3>1 DEF Payload
    <3> HIDE DEF v
    <3>3. v \in 1..MaxMail
      BY <1>6, <3>1, <3>2, DeliveryAssumption DEF Version, v
    <3>4. QED
      BY <1>1, <1>5, <1>6, <2>2, <3>3, ReplaceStep DEF v
  <2>3. QED BY <1>5, <2>1, <2>2
<1>11. QED BY <1>9, <1>10 DEF Keeps

LEMMA ServerAcceptsKeeps ==
  ASSUME TypeInv, EvidenceInv, NEW r \in wire, ServerAccepts(r)
  PROVE  Keeps
<1>1. /\ UNCHANGED <<mail, threads, at, local, documents>>
      /\ wire' \in {wire, wire \ {r}}
  BY DEF ServerAccepts, mailbox, ledger
<1>2. /\ r.thread \in Thread /\ r.op \in OpId
      /\ operations \in [Thread -> [OpId -> Operation]]
  BY DEF TypeInv, TypeOK, Request
<1>3. ASSUME NEW u \in Thread
      PROVE  RowEvidence(threads[u], mail[u], operations'[u], Requests(u)', documents'[u].ev)
  <2>1. Requests(u)' \subseteq Requests(u)
    BY <1>1 DEF Requests
  <2>2. RowEvidence(threads[u], mail[u], operations[u], Requests(u), documents[u].ev)
    BY EvidenceFields
  <2>3. CASE operations'[u][threads[u].op] = operations[u][threads[u].op]
    BY <1>1, <2>1, <2>2, <2>3 DEF RowEvidence
  <2>4. CASE operations'[u][threads[u].op] # operations[u][threads[u].op]
    <3>1. threads[u].payload # None => threads[u].op \in OpId
      BY LiveTypes
    <3>2. CASE threads[u].payload = None
      BY <1>1, <2>2, <3>2 DEF RowEvidence
    <3>3. CASE threads[u].payload # None
      <4>1. /\ u = r.thread /\ threads[u].op = r.op
            /\ operations[u][r.op].status = "not_found"
            /\ operations'[u][r.op] = [status |-> "pending", ev |-> r.ev, tags |-> r.tags]
        BY <1>2, <2>4, <3>1, <3>3 DEF ServerAccepts
      <4>2. r \in Requests(u)
        BY <4>1 DEF Requests
      <4>3. QED BY <1>1, <2>1, <2>2, <4>1, <4>2 DEF RowEvidence
    <3>4. QED BY <3>2, <3>3
  <2>5. QED BY <2>3, <2>4
<1>4. \A u \in Thread : mail[u] <= mail'[u] /\ mail'[u] \in Int
  BY <1>1, Numbers
<1>5. EvidenceInv'
  BY <1>1, <1>3, <1>4, KeptEvidence
<1>6. OutcomeStep
  BY <1>1, InvisibleStep
<1>7. QED BY <1>5, <1>6 DEF Keeps

LEMMA UserKeeps ==
  ASSUME TypeInv, EvidenceInv, NEW t \in Thread,
         UserLabels(t) \/ UserDeletes(t) \/ UserCancels(t)
  PROVE  Keeps
<1>1. UNCHANGED <<mail, threads, at, local, wire>>
  BY DEF UserLabels, UserDeletes, UserCancels, mailbox, ledger
<1>2. /\ documents'[t].ev \in {0, documents[t].ev}
      /\ \A u \in Thread \ {t} : documents'[u].ev = documents[u].ev
  <2>1. CASE UNCHANGED documents
    BY <2>1
  <2>2. CASE UserLabels(t)
    <3>1. PICK labels : documents' = [documents EXCEPT ![t].labels = labels]
      BY <2>2 DEF UserLabels
    <3>2. documents'[t].ev = documents[t].ev
      BY <3>1 DEF TypeInv, TypeOK, Document
    <3>3. QED BY <3>1, <3>2 DEF TypeInv, TypeOK
  <2>3. CASE documents' = [documents EXCEPT ![t] = NoDocument]
    BY <2>3 DEF NoDocument, TypeInv, TypeOK
  <2>4. QED BY <2>1, <2>2, <2>3 DEF UserDeletes, UserCancels
<1>3. ASSUME NEW u \in Thread, NEW o \in OpId
      PROVE  \/ operations'[u][o] = operations[u][o]
             \/ /\ operations[u][o].status = "pending"
                /\ operations'[u][o].status = "cancelled"
                /\ operations'[u][o].ev = operations[u][o].ev
  <2>1. CASE UNCHANGED operations
    BY <2>1
  <2>2. CASE UserCancels(t)
    <3>1. PICK q \in OpId :
            /\ operations[t][q].status = "pending"
            /\ operations' = [operations EXCEPT ![t][q].status = "cancelled"]
      BY <2>2 DEF UserCancels
    <3>2. CASE u = t /\ o = q
      BY <3>1, <3>2 DEF TypeInv, TypeOK, Operation
    <3>3. CASE ~(u = t /\ o = q)
      BY <3>1, <3>3 DEF TypeInv, TypeOK
    <3>4. QED BY <3>2, <3>3
  <2>3. QED BY <2>1, <2>2 DEF UserLabels, UserDeletes
<1>4. ASSUME NEW u \in Thread
      PROVE  RowEvidence(threads[u], mail[u], operations'[u], Requests(u)', documents'[u].ev)
  <2>1. Requests(u)' = Requests(u)
    BY <1>1 DEF Requests
  <2>2. threads[u].payload # None => threads[u].op \in OpId
    BY LiveTypes
  <2>3. documents'[u].ev \in {0, documents[u].ev} /\ 0 <= threads[u].input
    BY <1>2, LocalFields, DeliveryAssumption DEF Row, Version
  <2>4. QED BY <1>3, <2>1, <2>2, <2>3, EvidenceFields DEF RowEvidence
<1>5. \A u \in Thread : mail[u] <= mail'[u] /\ mail'[u] \in Int
  BY <1>1, Numbers
<1>6. EvidenceInv'
  BY <1>1, <1>4, <1>5, KeptEvidence
<1>7. OutcomeStep
  BY <1>1, <1>2, InvisibleStep, RemoveStep
<1>8. QED BY <1>6, <1>7 DEF Keeps

LEMMA OthersKeep ==
  ASSUME TypeInv, EvidenceInv, Interrupt \/ \E r \in wire : RequestLost(r)
  PROVE  Keeps
<1>1. UNCHANGED <<mail, threads, documents, operations>> /\ wire' \subseteq wire
  BY DEF Interrupt, RequestLost, mailbox, ledger, service
<1>2. \A t \in Thread : \/ at'[t] \in {"off", "queued"}
                        \/ at'[t] = at[t] /\ local'[t] = local[t]
  BY DEF Interrupt, RequestLost
<1>3. ASSUME NEW u \in Thread
      PROVE  RowEvidence(threads[u], mail[u], operations'[u], Requests(u)', documents'[u].ev)
  <2>1. Requests(u)' \subseteq Requests(u)
    BY <1>1 DEF Requests
  <2>2. QED BY <1>1, <2>1, EvidenceFields DEF RowEvidence
<1>4. \A u \in Thread : mail[u] <= mail'[u] /\ mail'[u] \in Int
  BY <1>1, Numbers
<1>5. EvidenceInv'
  BY <1>1, <1>2, <1>3, <1>4, KeptEvidence
<1>6. OutcomeStep
  BY <1>1, InvisibleStep
<1>7. QED BY <1>5, <1>6 DEF Keeps

LEMMA InitEvidence == Init => EvidenceInv /\ Outcome!Init
<1> SUFFICES ASSUME Init PROVE EvidenceInv /\ Outcome!Init
  OBVIOUS
<1>1. ASSUME NEW t \in Thread PROVE ThreadEvidence(t)
  BY <1>1 DEF Init, ThreadEvidence, RowEvidence, WorkEvidence, NewRow, NoDocument
<1>2. Outcome!Init
  BY DEF Init, Outcome!Init, NewRow, NoDocument
<1>3. QED BY <1>1, <1>2 DEF EvidenceInv

LEMMA NextKeeps == TypeInv /\ LiveInv /\ EvidenceInv /\ [Next]_vars => Keeps
<1> SUFFICES ASSUME TypeInv, LiveInv, EvidenceInv, [Next]_vars PROVE Keeps
  OBVIOUS
<1>1. CASE Run
  BY <1>1, RunKeeps
<1>2. CASE Server
  BY <1>2, ServerAcceptsKeeps, ServerExecutesKeeps DEF Server
<1>3. CASE Environment
  BY <1>3, MailChangesKeeps, UserKeeps, OthersKeep DEF Environment
<1>4. CASE \E t \in Thread : Coroutine(t)
  BY <1>4, PreparesKeeps, DeliversKeeps DEF Coroutine
<1>5. CASE UNCHANGED vars
  <2>1. OutcomeStep
    BY <1>5, InvisibleStep DEF vars, ledger, service
  <2>2. QED
    BY <1>5, <2>1 DEF vars, mailbox, ledger, service, EvidenceInv, ThreadEvidence, Requests, Keeps
<1>6. QED
  BY <1>1, <1>2, <1>3, <1>4, <1>5 DEF Next

\* Delivery implements AcceptedOutcome: whatever is lost, late, repeated,
\* interrupted or restarted, the document is replaced at most once between
\* two acceptances, from evidence newer than any accepted, and what the
\* ledger accepts is what the document shows (_deliver, _finish).
THEOREM PromiseKept == Spec => OutcomePromise
<1>1. Keeps <=> EvidenceInv' /\ OutcomeStep
  BY DEF Keeps
<1>2. QED
  BY <1>1, NextKeeps, LiveInvariant, InitLive, InitEvidence, InitTypeInv, TypeInvInvariant, PTL
     DEF Spec, OutcomePromise, Outcome!Spec, OutcomeStep

-----------------------------------------------------------------------------
(* AcceptedAvailable, unless somebody else deletes documents.               *)

\* A step of one coroutine, given the row and the place it leaves.
LEMMA CoroutineAvailable ==
  ASSUME TypeInv, AvailableInv, NEW t \in Thread, NEW row, NEW place,
         threads' = [threads EXCEPT ![t] = row],
         at' = [at EXCEPT ![t] = place],
         \A u \in Thread \ {t} : documents'[u].ev = documents[u].ev,
         row.outcome => \/ documents'[t].ev > 0
                        \/ row.payload # None /\ row.payload.action = "withdraw",
         place \in {"relabel", "relabelled"} => documents'[t].ev > 0
  PROVE  AvailableInv'
<1>1. threads \in [Thread -> Row] /\ at \in [Thread -> Await]
  BY DEF TypeInv, TypeOK
<1>2. ASSUME NEW u \in Thread PROVE ThreadAvailable(u)'
  <2>1. CASE u = t
    BY <1>1, <2>1 DEF ThreadAvailable
  <2>2. CASE u # t
    <3>1. /\ threads'[u] = threads[u] /\ at'[u] = at[u]
          /\ documents'[u].ev = documents[u].ev
      BY <1>1, <2>2
    <3>2. QED BY <3>1 DEF ThreadAvailable, AvailableInv
  <2>3. QED BY <2>1, <2>2
<1>3. QED BY <1>2 DEF AvailableInv

\* A rewritten row with the same outcome and the same delivery.
LEMMA SameAvailable ==
  ASSUME TypeInv, AvailableInv, NEW t \in Thread, NEW row, NEW place,
         threads' = [threads EXCEPT ![t] = row],
         at' = [at EXCEPT ![t] = place],
         row.outcome = threads[t].outcome,
         threads[t].payload # None => /\ row.payload # None
                                      /\ row.payload.action = threads[t].payload.action,
         \A u \in Thread : documents'[u].ev = documents[u].ev,
         place \in {"relabel", "relabelled"} => documents[t].ev > 0
  PROVE  AvailableInv'
  BY CoroutineAvailable DEF AvailableInv, ThreadAvailable

LEMMA ErrorAvailable ==
  ASSUME TypeInv, AvailableInv, NEW t \in Thread, ThreadError(t),
         \A u \in Thread : documents'[u].ev = documents[u].ev
  PROVE  AvailableInv'
<1> DEFINE row == [threads[t] EXCEPT !.state = "error"]
<1>1. threads' = [threads EXCEPT ![t] = row] /\ at' = [at EXCEPT ![t] = "off"]
  BY DEF ThreadError, Leave, TypeInv, TypeOK
<1>2. row.payload = threads[t].payload /\ row.outcome = threads[t].outcome
  BY LocalFields DEF Row
<1> HIDE DEF row
<1>3. QED
  BY <1>1, <1>2, SameAvailable

LEMMA FinishAvailable ==
  ASSUME TypeInv, AvailableInv, NEW t \in Thread, NEW action, NEW ev \in Version,
         NEW revision \in Nat, Finish(t, action, ev, revision), UNCHANGED documents,
         action = "publish" => documents[t].ev > 0,
         action \notin {"publish", "withdraw"} => threads[t].payload = None
  PROVE  AvailableInv'
<1> DEFINE row == Accepted(threads[t], action, ev, revision)
<1>1. CASE ThreadError(t)
  BY <1>1, ErrorAvailable
<1>2. CASE Leave(t) /\ threads' = [threads EXCEPT ![t] = row]
  <2>1. row.outcome = IF action = "publish" THEN TRUE
                      ELSE IF action = "withdraw" THEN FALSE ELSE threads[t].outcome
    BY LocalFields DEF Row, Accepted
  <2>2. row.outcome => documents[t].ev > 0
    <3> HIDE DEF row
    <3>1. QED BY <2>1 DEF AvailableInv, ThreadAvailable
  <2> HIDE DEF row
  <2>3. QED
    BY <1>2, <2>2, CoroutineAvailable DEF Leave
<1>3. QED
  BY <1>1, <1>2 DEF Finish

\* Steps of the server, the network, the users and the run.
LEMMA KeptAvailable ==
  ASSUME AvailableInv,
         \A t \in Thread : /\ threads'[t].payload = threads[t].payload
                           /\ threads'[t].outcome = threads[t].outcome,
         \A t \in Thread : documents[t].ev > 0 => documents'[t].ev > 0,
         \A t \in Thread : at'[t] \in {"off", "queued", at[t]}
  PROVE  AvailableInv'
<1>1. ASSUME NEW t \in Thread PROVE ThreadAvailable(t)'
  BY DEF AvailableInv, ThreadAvailable
<1>2. QED BY <1>1 DEF AvailableInv

LEMMA PreparesAvailable ==
  ASSUME TypeInv, LiveInv, AvailableInv, NEW t \in Thread, Prepares(t)
  PROVE  AvailableInv'
<1>1. UNCHANGED documents
  BY DEF Prepares, Begin, ReadThread, ReadPrevious, Compose, service
<1>2. CASE ThreadError(t)
  BY <1>1, <1>2, ErrorAvailable
<1>3. ASSUME NEW place, Suspend(t, place), UNCHANGED threads,
             place \notin {"relabel", "relabelled"}
      PROVE  AvailableInv'
  <2>1. threads' = [threads EXCEPT ![t] = threads[t]]
    BY <1>3 DEF TypeInv, TypeOK
  <2>2. QED
    BY <1>1, <1>3, <2>1, SameAvailable DEF Suspend
<1>4. ASSUME at[t] \in {"source", "previous", "compose"} PROVE threads[t].payload = None
  BY <1>4 DEF LiveInv, ThreadLive, PlaceLive
<1>5. ASSUME NEW action \in {"unchanged", "withdraw"}, NEW ev \in Version,
             NEW revision \in Nat, Finish(t, action, ev, revision), threads[t].payload = None
      PROVE  AvailableInv'
  BY <1>1, <1>5, FinishAvailable
<1>6. CASE Begin(t)
  BY <1>2, <1>3, <1>6 DEF Begin, DeliveryStart
<1>7. CASE ReadThread(t)
  BY <1>2, <1>3, <1>4, <1>5, <1>7, LocalFields DEF ReadThread
<1>8. CASE ReadPrevious(t)
  BY <1>2, <1>3, <1>8 DEF ReadPrevious
<1>9. CASE Compose(t)
  <2>1. threads[t].payload = None
    BY <1>4, <1>9 DEF Compose
  <2>2. ASSUME NEW action \in {"publish", "withdraw"}, Prepare(t, action)
        PROVE  AvailableInv'
    <3>1. CASE Full
      BY <1>2, <2>2, <3>1 DEF Prepare
    <3>2. CASE ~Full
      <4> DEFINE op == minted[t] + 1
                 row == Prepared(threads[t], action, local[t].ev, local[t].revision, op)
      <4>1. /\ threads' = [threads EXCEPT ![t] = row]
            /\ at' = [at EXCEPT ![t] = DeliveryStart(row)]
        BY <2>2, <3>2 DEF Prepare, Suspend
      <4>2. row.outcome = threads[t].outcome
        BY LocalFields DEF Prepared, Row
      <4> HIDE DEF row
      <4>3. DeliveryStart(row) \notin {"relabel", "relabelled"}
        BY DEF DeliveryStart
      <4>4. QED
        BY <1>1, <2>1, <4>1, <4>2, <4>3, SameAvailable
    <3>3. QED BY <3>1, <3>2
  <2>3. ASSUME NEW action \in {"unchanged", "withdraw"},
               Finish(t, action, local[t].ev, local[t].revision)
        PROVE  AvailableInv'
    BY <1>5, <2>1, <2>3, LocalFields
  <2>4. QED BY <1>2, <1>9, <2>2, <2>3 DEF Compose
<1>10. QED
  BY <1>6, <1>7, <1>8, <1>9 DEF Prepares

LEMMA DeliversAvailable ==
  ASSUME TypeInv, LiveInv, EvidenceInv, AvailableInv, NEW t \in Thread, Delivers(t)
  PROVE  AvailableInv'
<1>1. at[t] \in Delivering /\ threads[t].payload # None
  BY DeliversAlone, PayloadFields DEF Delivering
<1>2. CASE DeleteDocument(t)
  <2>1. threads[t].payload.action = "withdraw"
    BY <1>2 DEF DeleteDocument, LiveInv, ThreadLive, PlaceLive
  <2>2. \A u \in Thread \ {t} : documents'[u].ev = documents[u].ev
    BY <1>2 DEF DeleteDocument, TypeInv, TypeOK
  <2>3. CASE ThreadError(t)
    <3> DEFINE row == [threads[t] EXCEPT !.state = "error"]
    <3>1. threads' = [threads EXCEPT ![t] = row] /\ at' = [at EXCEPT ![t] = "off"]
      BY <2>3 DEF ThreadError, Leave, TypeInv, TypeOK
    <3>2. row.payload = threads[t].payload
      BY LocalFields, ErrorRowIsRow
    <3> HIDE DEF row
    <3>3. QED BY <1>1, <2>1, <2>2, <3>1, <3>2, CoroutineAvailable
  <2>4. CASE Suspend(t, "gone") /\ UNCHANGED threads
    <3>1. threads' = [threads EXCEPT ![t] = threads[t]] /\ at' = [at EXCEPT ![t] = "gone"]
      BY <2>4 DEF Suspend, TypeInv, TypeOK
    <3>2. QED BY <1>1, <2>1, <2>2, <3>1, CoroutineAvailable
  <2>5. QED BY <1>2, <2>3, <2>4 DEF DeleteDocument
<1> SUFFICES ASSUME ~DeleteDocument(t) PROVE AvailableInv'
  BY <1>2
<1>3. \A u \in Thread : documents'[u].ev = documents[u].ev
  <2>1. CASE UNCHANGED documents
    BY <2>1
  <2>2. CASE Relabel(t)
    <3>1. CASE documents' = [documents EXCEPT ![t].labels = local[t].labels]
      BY <3>1, LocalFields DEF TypeInv, TypeOK, Document
    <3>2. QED BY <2>1, <2>2, <3>1 DEF Relabel
  <2>3. QED
    BY <2>1, <2>2 DEF Delivers, ConfirmGone, ReadStatus, ReadCurrent, ReadLabels, Retain,
       Retained, RetryOperation, Poll, Verify, Relabelled, service
<1>4. CASE ThreadError(t)
  BY <1>3, <1>4, ErrorAvailable
<1>5. ASSUME NEW place, Suspend(t, place), UNCHANGED threads,
             place \in {"relabel", "relabelled"} => documents[t].ev > 0
      PROVE  AvailableInv'
  <2>1. threads' = [threads EXCEPT ![t] = threads[t]]
    BY <1>5 DEF TypeInv, TypeOK
  <2>2. QED
    BY <1>3, <1>5, <2>1, SameAvailable DEF Suspend
<1>6. ASSUME NEW row, NEW place, Suspend(t, place), threads' = [threads EXCEPT ![t] = row],
             place \notin {"relabel", "relabelled"}, row.outcome = threads[t].outcome,
             row.payload # None, row.payload.action = threads[t].payload.action
      PROVE  AvailableInv'
  BY <1>3, <1>6, SameAvailable DEF Suspend
<1>7. CASE ConfirmGone(t)
  <2>1. UNCHANGED documents
    BY <1>7 DEF ConfirmGone, service
  <2>2. QED
    BY <1>1, <1>4, <1>7, <2>1, PayloadFields, LocalFields, FinishAvailable DEF ConfirmGone
<1>8. CASE ReadStatus(t)
  BY <1>4, <1>5, <1>8 DEF ReadStatus
<1>9. CASE ReadCurrent(t) /\ ~ThreadError(t)
  <2> DEFINE row == Renewed(t, threads[t])
             place == AfterStatus(local[t].status, row)
  <2>1. /\ row.op \in OpId
        /\ at[t] = "current"
        /\ threads' = [threads EXCEPT ![t] = row]
        /\ Suspend(t, place)
    BY <1>9 DEF ReadCurrent
  <2>2. /\ row.payload # None
        /\ row.payload.action = threads[t].payload.action
        /\ row.outcome = threads[t].outcome
    BY <2>1, RenewedIsRow, RenewedKeeps
  <2> HIDE DEF row
  <2>3. place \notin {"relabel", "relabelled"}
    BY DEF AfterStatus
  <2> HIDE DEF place
  <2>4. QED
    BY <1>6, <2>1, <2>2, <2>3
<1>10. CASE ReadLabels(t) /\ ~ThreadError(t)
  <2> DEFINE payload == [threads[t].payload EXCEPT !.tags = documents[t].labels]
             row == [threads[t] EXCEPT !.payload = payload]
  <2>1. threads' = [threads EXCEPT ![t] = row] /\ Suspend(t, "retain")
    BY <1>10 DEF ReadLabels, TypeInv, TypeOK
  <2>2. payload \in Payload /\ payload.action = threads[t].payload.action
    BY <1>1, PayloadFields, LocalFields DEF Payload
  <2>3. row.payload = payload /\ row.outcome = threads[t].outcome
    <3> HIDE DEF payload
    <3>1. QED BY LocalFields DEF Row
  <2> HIDE DEF row, payload
  <2>4. row.payload # None
    BY <2>2, <2>3, NoneAssumption
  <2>5. QED
    BY <1>6, <2>1, <2>2, <2>3, <2>4
<1>11. CASE Retain(t)
  BY <1>5, <1>11 DEF Retain, ledger
<1>12. CASE Retained(t) /\ ~ThreadError(t)
  <2> DEFINE row == [threads[t] EXCEPT !.state = "submitted"]
  <2>1. threads' = [threads EXCEPT ![t] = row] /\ Suspend(t, "poll")
    BY <1>12 DEF Retained, TypeInv, TypeOK
  <2>2. row.payload = threads[t].payload /\ row.outcome = threads[t].outcome
    BY LocalFields DEF Row
  <2> HIDE DEF row
  <2>3. QED
    BY <1>1, <1>6, <2>1, <2>2
<1>13. CASE RetryOperation(t)
  BY <1>4, <1>5, <1>13 DEF RetryOperation
<1>14. CASE Poll(t)
  BY <1>4, <1>5, <1>14 DEF Poll
<1>15. CASE Verify(t)
  <2>1. UNCHANGED documents
    BY <1>15 DEF Verify, service
  <2>2. documents[t].ev = threads[t].payload.input => documents[t].ev > 0
    <3>1. threads[t].input < threads[t].payload.input /\ 0 <= threads[t].input
      BY <1>1, EvidenceFields, LocalFields, DeliveryAssumption DEF RowEvidence, Row, Version
    <3>2. QED BY <1>1, <3>1, Evidences
  <2>3. \/ ThreadError(t)
        \/ /\ documents[t].ev = threads[t].payload.input
           /\ \/ Finish(t, "publish", threads[t].payload.input, threads[t].target)
              \/ Suspend(t, "relabel") /\ UNCHANGED threads
    BY <1>15 DEF Verify
  <2>4. QED
    BY <1>1, <1>4, <1>5, <2>1, <2>2, <2>3, PayloadFields, LocalFields, FinishAvailable
<1>16. CASE Relabel(t)
  BY <1>4, <1>5, <1>16 DEF Relabel, AvailableInv, ThreadAvailable
<1>17. CASE Relabelled(t)
  <2>1. UNCHANGED documents /\ documents[t].ev > 0
    BY <1>17 DEF Relabelled, service, AvailableInv, ThreadAvailable
  <2>2. QED
    BY <1>1, <1>4, <1>17, <2>1, PayloadFields, LocalFields, FinishAvailable DEF Relabelled
<1>18. QED
  BY <1>4, <1>7, <1>8, <1>9, <1>10, <1>11, <1>12, <1>13, <1>14, <1>15, <1>16, <1>17
     DEF Delivers

LEMMA OthersAvailable ==
  ASSUME "delete" \notin Faults, TypeInv, LiveInv, EvidenceInv, AvailableInv,
         Run \/ Server \/ Environment
  PROVE  AvailableInv'
<1>1. \A t \in Thread : at'[t] \in {"off", "queued", at[t]}
  BY DEF Run, StartRun, StartDeliveries, StartProcessing, EndRun, RecordSources,
         Server, ServerAccepts, ServerExecutes, Environment, MailChanges, UserLabels,
         UserDeletes, UserCancels, RequestLost, Interrupt
<1>2. \A t \in Thread : /\ threads'[t].payload = threads[t].payload
                        /\ threads'[t].outcome = threads[t].outcome
  <2>1. CASE UNCHANGED threads
    BY <2>1
  <2>2. ASSUME NEW u \in Thread, RecordSources(u)
        PROVE  \A t \in Thread : /\ threads'[t].payload = threads[t].payload
                                 /\ threads'[t].outcome = threads[t].outcome
    <3> DEFINE row == Bumped(threads[u])
    <3>1. row.payload = threads[u].payload /\ row.outcome = threads[u].outcome
      BY LocalFields DEF Bumped, Row
    <3>2. threads' \in {threads, [threads EXCEPT ![u] = row]}
      BY <2>2 DEF RecordSources
    <3> HIDE DEF row
    <3>3. QED BY <3>1, <3>2 DEF TypeInv, TypeOK
  <2>3. QED
    BY <2>1, <2>2 DEF Run, StartRun, StartDeliveries, StartProcessing, EndRun, Server,
       ServerAccepts, ServerExecutes, Environment, MailChanges, UserLabels, UserDeletes,
       UserCancels, RequestLost, Interrupt, ledger
<1>3. \A t \in Thread : documents[t].ev > 0 => documents'[t].ev > 0
  <2>1. CASE UNCHANGED documents
    BY <2>1
  <2>2. ASSUME NEW t \in Thread, UserLabels(t)
        PROVE  \A u \in Thread : documents'[u].ev = documents[u].ev
    <3>1. PICK labels : documents' = [documents EXCEPT ![t].labels = labels]
      BY <2>2 DEF UserLabels
    <3>2. QED BY <3>1, LocalFields DEF TypeInv, TypeOK, Document
  <2>3. ASSUME NEW t \in Thread, NEW o \in OpId, ServerExecutes(t, o)
        PROVE  \A u \in Thread : documents[u].ev > 0 => documents'[u].ev > 0
    <3>1. operations[t][o].status = "pending"
      BY <2>3 DEF ServerExecutes
    <3>2. threads[t].payload # None /\ threads[t].op = o
      BY <3>1 DEF LiveInv, ThreadLive, RowLive, Alive
    <3>3. /\ operations[t][o].ev = threads[t].payload.input
          /\ threads[t].input < threads[t].payload.input
      BY <3>1, <3>2, EvidenceFields DEF RowEvidence
    <3>4. operations[t][o].ev > 0
      BY <3>2, <3>3, Evidences, LocalFields, DeliveryAssumption DEF Row, Version
    <3>5. \/ UNCHANGED documents
          \/ documents' = [documents EXCEPT ![t] = [ev |-> operations[t][o].ev,
                                                    labels |-> operations[t][o].tags]]
      BY <2>3 DEF ServerExecutes
    <3>6. QED BY <3>4, <3>5 DEF TypeInv, TypeOK
  <2>4. ASSUME NEW t \in Thread, UserDeletes(t) PROVE FALSE
    BY <2>4 DEF UserDeletes, Fault
  <2>5. QED
    BY <2>1, <2>2, <2>3, <2>4 DEF Run, StartRun, StartDeliveries, StartProcessing, EndRun,
       RecordSources, Server, ServerAccepts, Environment, MailChanges, UserCancels,
       RequestLost, Interrupt, service
<1>4. QED
  BY <1>1, <1>2, <1>3, KeptAvailable

\* Unless somebody else deletes documents, an accepted outcome stays in the
\* memory bank until a withdrawal of it is prepared, through every failed,
\* repeated, cancelled or interrupted attempt to replace it (_deliver).
THEOREM AvailableHolds ==
  ASSUME "delete" \notin Faults
  PROVE  Spec => []AcceptedAvailable
<1>1. Init => AvailableInv
  BY DEF Init, AvailableInv, ThreadAvailable, NewRow
<1>2. TypeInv /\ LiveInv /\ EvidenceInv /\ AvailableInv /\ [Next]_vars => AvailableInv'
  <2> SUFFICES ASSUME TypeInv, LiveInv, EvidenceInv, AvailableInv, [Next]_vars
               PROVE  AvailableInv'
    OBVIOUS
  <2>1. CASE Run \/ Server \/ Environment
    BY <2>1, OthersAvailable
  <2>2. CASE \E t \in Thread : Coroutine(t)
    BY <2>2, PreparesAvailable, DeliversAvailable DEF Coroutine
  <2>3. CASE UNCHANGED vars
    BY <2>3 DEF vars, ledger, service, AvailableInv, ThreadAvailable
  <2>4. QED BY <2>1, <2>2, <2>3 DEF Next
<1>3. AvailableInv => AcceptedAvailable
  BY LocalFields DEF AvailableInv, ThreadAvailable, AcceptedAvailable, Exists
<1>4. Keeps => EvidenceInv'
  BY DEF Keeps
<1>5. QED
  BY <1>1, <1>2, <1>3, <1>4, NextKeeps, LiveInvariant, InitLive, InitEvidence, InitTypeInv,
     TypeInvInvariant, PTL DEF Spec

-----------------------------------------------------------------------------
(* LabelsKept, when users set labels only while no replacement is prepared. *)
(* Once an operation may be known to the server its tags are those on the   *)
(* row, which are computed once; tags and kept labels are read from a       *)
(* document that carries what users want.                                   *)

\* What a row promises about the labels that are wanted and the document's.
RowLabels(row, wants, ops, requests, labels) ==
  /\ row.payload # None =>
       /\ ops[row.op].status # "not_found" => ops[row.op].tags = row.payload.tags
       /\ \A r \in requests : r.op = row.op => r.tags = row.payload.tags
       /\ row.payload.action = "withdraw" => row.payload.tags = None /\ row.payload.kept = None
  /\ wants # None =>
       /\ labels = wants
       /\ row.payload # None => /\ row.payload.tags \in {None, wants}
                                /\ row.payload.kept \in {None, wants}

\* Tags are computed only when there are none; what is written back is wanted.
WorkLabels(place, row, own, wants) ==
  /\ place = "labels" => row.payload.tags = None
  /\ place = "relabel" /\ wants # None => own.labels = wants

ThreadLabels(t) ==
  /\ RowLabels(threads[t], wanted[t], operations[t], Requests(t), documents[t].labels)
  /\ WorkLabels(at[t], threads[t], local[t], wanted[t])

LabelsInv == \A t \in Thread : ThreadLabels(t)

LEMMA LabelFields ==
  ASSUME LabelsInv, NEW t \in Thread
  PROVE  /\ RowLabels(threads[t], wanted[t], operations[t], Requests(t), documents[t].labels)
         /\ WorkLabels(at[t], threads[t], local[t], wanted[t])
  BY DEF LabelsInv, ThreadLabels

\* A step of one coroutine, given what it leaves of its own conversation.
LEMMA CoroutineLabels ==
  ASSUME TypeInv, LabelsInv, NEW t \in Thread, NEW row, NEW place, NEW own,
         NEW ops, NEW requests,
         threads' = [threads EXCEPT ![t] = row],
         at' = [at EXCEPT ![t] = place],
         local' = [local EXCEPT ![t] = own],
         operations' = [operations EXCEPT ![t] = ops],
         Requests(t)' = requests,
         \A u \in Thread \ {t} : /\ Requests(u)' = Requests(u)
                                 /\ wanted'[u] = wanted[u]
                                 /\ documents'[u].labels = documents[u].labels,
         RowLabels(row, wanted'[t], ops, requests, documents'[t].labels),
         WorkLabels(place, row, own, wanted'[t])
  PROVE  LabelsInv'
<1>1. /\ threads \in [Thread -> Row] /\ at \in [Thread -> Await]
      /\ local \in [Thread -> Local]
      /\ operations \in [Thread -> [OpId -> Operation]]
  BY DEF TypeInv, TypeOK
<1>2. ASSUME NEW u \in Thread
      PROVE  ThreadLabels(u)'
  <2>1. CASE u = t
    <3>1. /\ threads'[u] = row /\ at'[u] = place /\ local'[u] = own
          /\ operations'[u] = ops /\ Requests(u)' = requests
      BY <1>1, <2>1
    <3>2. QED BY <2>1, <3>1 DEF ThreadLabels
  <2>2. CASE u # t
    <3>1. /\ threads'[u] = threads[u] /\ at'[u] = at[u] /\ local'[u] = local[u]
          /\ operations'[u] = operations[u] /\ Requests(u)' = Requests(u)
          /\ wanted'[u] = wanted[u] /\ documents'[u].labels = documents[u].labels
      BY <1>1, <2>2
    <3>2. ThreadLabels(u)
      BY DEF LabelsInv
    <3>3. QED BY <3>1, <3>2 DEF ThreadLabels
  <2>3. QED BY <2>1, <2>2
<1>3. QED
  BY <1>2 DEF LabelsInv

\* What most steps of a coroutine leave alone.
Unlabelled == UNCHANGED <<operations, wire, documents, wanted>>

LEMMA SilentLabels ==
  ASSUME TypeInv, LabelsInv, NEW t \in Thread, NEW row, NEW place, NEW own,
         threads' = [threads EXCEPT ![t] = row],
         at' = [at EXCEPT ![t] = place],
         local' = [local EXCEPT ![t] = own],
         Unlabelled,
         RowLabels(row, wanted[t], operations[t], Requests(t), documents[t].labels),
         WorkLabels(place, row, own, wanted[t])
  PROVE  LabelsInv'
<1>1. operations' = [operations EXCEPT ![t] = operations[t]]
  BY DEF TypeInv, TypeOK, Unlabelled
<1>2. /\ Requests(t)' = Requests(t)
      /\ \A u \in Thread \ {t} : /\ Requests(u)' = Requests(u)
                                 /\ wanted'[u] = wanted[u]
                                 /\ documents'[u].labels = documents[u].labels
      /\ wanted'[t] = wanted[t] /\ documents'[t].labels = documents[t].labels
  BY DEF Requests, Unlabelled
<1>3. QED
  BY <1>1, <1>2, CoroutineLabels

LEMMA SameLabels ==
  ASSUME TypeInv, LabelsInv, NEW t \in Thread, NEW row, NEW place, NEW own, Unlabelled,
         row.op = threads[t].op, row.payload = threads[t].payload,
         threads' = [threads EXCEPT ![t] = row],
         at' = [at EXCEPT ![t] = place],
         local' = [local EXCEPT ![t] = own],
         WorkLabels(place, row, own, wanted[t])
  PROVE  LabelsInv'
<1>1. RowLabels(row, wanted[t], operations[t], Requests(t), documents[t].labels)
  BY LabelFields DEF RowLabels
<1>2. QED BY <1>1, SilentLabels

LEMMA ErrorLabels ==
  ASSUME TypeInv, LabelsInv, NEW t \in Thread, ThreadError(t), Unlabelled
  PROVE  LabelsInv'
<1> DEFINE row == [threads[t] EXCEPT !.state = "error"]
<1>1. threads' = [threads EXCEPT ![t] = row]
  BY DEF ThreadError, TypeInv, TypeOK
<1>2. row.payload = threads[t].payload /\ row.op = threads[t].op
  BY LocalFields, ErrorRowIsRow
<1> HIDE DEF row
<1>3. WorkLabels("off", row, NoLocal, wanted[t])
  BY DEF WorkLabels
<1>4. QED
  BY <1>1, <1>2, <1>3, SameLabels DEF ThreadError, Leave

LEMMA FinishLabels ==
  ASSUME TypeInv, LabelsInv, NEW t \in Thread,
         NEW action, NEW ev \in Version, NEW revision \in Nat,
         Finish(t, action, ev, revision), Unlabelled
  PROVE  LabelsInv'
<1> DEFINE row == Accepted(threads[t], action, ev, revision)
<1>1. CASE ThreadError(t)
  BY <1>1, ErrorLabels
<1>2. CASE Leave(t) /\ threads' = [threads EXCEPT ![t] = row]
  <2>1. row.payload = None
    BY LocalFields, AcceptedIsRow
  <2> HIDE DEF row
  <2>2. RowLabels(row, wanted[t], operations[t], Requests(t), documents[t].labels)
    BY <2>1, LabelFields DEF RowLabels
  <2>3. WorkLabels("off", row, NoLocal, wanted[t])
    BY DEF WorkLabels
  <2>4. QED
    BY <1>2, <2>2, <2>3, SilentLabels DEF Leave
<1>3. QED
  BY <1>1, <1>2 DEF Finish

\* A coroutine that moves on and leaves its row alone.
LEMMA MoveLabels ==
  ASSUME TypeInv, LabelsInv, NEW t \in Thread, NEW place, NEW own, Unlabelled,
         Suspend(t, place), UNCHANGED threads, local' = [local EXCEPT ![t] = own],
         WorkLabels(place, threads[t], own, wanted[t])
  PROVE  LabelsInv'
<1>1. threads' = [threads EXCEPT ![t] = threads[t]] /\ at' = [at EXCEPT ![t] = place]
  BY DEF TypeInv, TypeOK, Suspend
<1>2. QED
  BY <1>1, SameLabels

LEMMA PreparesLabels ==
  ASSUME TypeInv, LiveInv, LabelsInv, NEW t \in Thread, Prepares(t)
  PROVE  LabelsInv'
<1>1. Unlabelled
  BY DEF Prepares, Begin, ReadThread, ReadPrevious, Compose, service, Unlabelled
<1>2. CASE ThreadError(t)
  BY <1>1, <1>2, ErrorLabels
<1>3. ASSUME NEW place, NEW own, Suspend(t, place), UNCHANGED threads,
             local' = [local EXCEPT ![t] = own], place \notin {"labels", "relabel"}
      PROVE  LabelsInv'
  <2>1. WorkLabels(place, threads[t], own, wanted[t])
    BY <1>3 DEF WorkLabels
  <2>2. QED BY <1>1, <1>3, <2>1, MoveLabels
<1>4. CASE Begin(t) /\ ~Refused(t)
  <2> DEFINE place == IF threads[t].payload # None THEN DeliveryStart(threads[t]) ELSE "source"
             own == [local[t] EXCEPT !.revision = threads[t].revision]
  <2>1. Suspend(t, place) /\ UNCHANGED threads
    BY <1>4 DEF Begin
  <2>2. local' = [local EXCEPT ![t] = own]
    BY <1>4 DEF Begin, TypeInv, TypeOK
  <2>3. place \notin {"labels", "relabel"}
    BY DEF DeliveryStart
  <2> HIDE DEF place, own
  <2>4. QED
    BY <1>3, <2>1, <2>2, <2>3
<1>5. CASE ReadThread(t) /\ ~ThreadError(t)
  <2>1. CASE Finish(t, "unchanged", mail[t], local[t].revision)
    BY <1>1, <2>1, LocalFields, FinishLabels
  <2>2. CASE /\ Suspend(t, "previous")
             /\ local' = [local EXCEPT ![t].ev = mail[t]]
             /\ UNCHANGED threads
    <3> DEFINE own == [local[t] EXCEPT !.ev = mail[t]]
    <3>1. local' = [local EXCEPT ![t] = own]
      BY <2>2 DEF TypeInv, TypeOK
    <3> HIDE DEF own
    <3>2. QED
      BY <1>3, <2>2, <3>1
  <2>3. QED BY <1>5, <2>1, <2>2 DEF ReadThread
<1>6. CASE ReadPrevious(t) /\ ~ThreadError(t)
  <2> DEFINE own == [local[t] EXCEPT !.previous = Exists(t)]
  <2>1. Suspend(t, "compose") /\ UNCHANGED threads
    BY <1>6 DEF ReadPrevious
  <2>2. local' = [local EXCEPT ![t] = own]
    BY <1>6 DEF ReadPrevious, TypeInv, TypeOK
  <2> HIDE DEF own
  <2>3. QED
    BY <1>3, <2>1, <2>2
<1>7. CASE Compose(t) /\ ~ThreadError(t)
  <2>1. threads[t].payload = None
    BY <1>7 DEF Compose, LiveInv, ThreadLive, PlaceLive
  <2>2. ASSUME NEW action, Finish(t, action, local[t].ev, local[t].revision)
        PROVE  LabelsInv'
    BY <1>1, <2>2, LocalFields, FinishLabels
  <2>3. ASSUME NEW action \in {"publish", "withdraw"}, Prepare(t, action)
        PROVE  LabelsInv'
    <3>1. ~Full
      BY <1>7, <2>3 DEF Prepare
    <3> DEFINE op == minted[t] + 1
               row == Prepared(threads[t], action, local[t].ev, local[t].revision, op)
    <3>2. /\ op \in OpId
          /\ threads' = [threads EXCEPT ![t] = row]
          /\ at' = [at EXCEPT ![t] = DeliveryStart(row)]
          /\ local' = local
      BY <2>3, <3>1 DEF Prepare, Suspend
    <3>3. row.op = op
      <4> HIDE DEF op
      <4>1. QED BY <2>3, <3>2, LocalFields, PreparedIsRow
    <3>4. row.payload.tags = None /\ row.payload.kept = None
      BY LocalFields DEF Prepared, Row
    <3>5. local' = [local EXCEPT ![t] = local[t]]
      BY <3>2 DEF TypeInv, TypeOK
    <3>6. Unknown(operations[t], Sent(t), op)
      <4>1. op > minted[t]
        BY LiveTypes
      <4> HIDE DEF op
      <4>2. QED BY <3>2, <4>1 DEF LiveInv, ThreadLive, RowLive
    <3> HIDE DEF row, op
    <3>7. /\ operations[t][op].status = "not_found"
          /\ \A r \in Requests(t) : r.op # op
      BY <3>6 DEF Unknown, Sent, Requests
    <3>8. RowLabels(row, wanted[t], operations[t], Requests(t), documents[t].labels)
      BY <3>3, <3>4, <3>7, LabelFields DEF RowLabels
    <3>9. WorkLabels(DeliveryStart(row), row, local[t], wanted[t])
      BY DEF WorkLabels, DeliveryStart
    <3>10. QED
      BY <1>1, <3>2, <3>5, <3>8, <3>9, SilentLabels
  <2>4. QED BY <1>7, <2>2, <2>3 DEF Compose
<1>8. QED
  BY <1>2, <1>4, <1>5, <1>6, <1>7 DEF Prepares, Begin

LEMMA LabelTypes ==
  ASSUME TypeInv, NEW t \in Thread
  PROVE  /\ documents[t].labels # None
         /\ \A o \in OpId : operations[t][o].tags # None
         /\ \A r \in Requests(t) : r.tags # None
  BY LocalFields, LiveTypes, NoneAssumption
     DEF Operation, Requests, Request, TypeInv, TypeOK

LEMMA RetainLabels ==
  ASSUME TypeInv, LabelsInv, NEW t \in Thread, Retain(t)
  PROVE  LabelsInv'
<1> DEFINE request == [thread |-> t, op |-> threads[t].op,
                       ev |-> threads[t].payload.input,
                       tags |-> threads[t].payload.tags]
           requests == Requests(t) \cup {request}
<1>1. /\ threads' = [threads EXCEPT ![t] = threads[t]]
      /\ local' = [local EXCEPT ![t] = local[t]]
      /\ operations' = [operations EXCEPT ![t] = operations[t]]
      /\ at' = [at EXCEPT ![t] = "retaining"]
      /\ UNCHANGED <<wanted, documents>>
  BY DEF Retain, Suspend, ledger, TypeInv, TypeOK
<1>2. wire' = wire \cup {request}
  BY DEF Retain
<1>3. request.thread = t /\ request.op = threads[t].op /\ request.tags = threads[t].payload.tags
  OBVIOUS
<1> HIDE DEF request
<1>4. /\ Requests(t)' = requests
      /\ \A u \in Thread \ {t} : /\ Requests(u)' = Requests(u)
                                 /\ wanted'[u] = wanted[u]
                                 /\ documents'[u].labels = documents[u].labels
  BY <1>1, <1>2, <1>3 DEF Requests
<1>5. RowLabels(threads[t], wanted'[t], operations[t], requests, documents'[t].labels)
  BY <1>1, <1>3, LabelFields DEF RowLabels
<1>6. WorkLabels("retaining", threads[t], local[t], wanted'[t])
  BY DEF WorkLabels
<1> HIDE DEF requests
<1>7. QED
  BY <1>1, <1>4, <1>5, <1>6, CoroutineLabels

LEMMA RetryOperationLabels ==
  ASSUME TypeInv, LabelsInv, NEW t \in Thread, RetryOperation(t)
  PROVE  LabelsInv'
<1>1. /\ UNCHANGED <<wanted, documents, wire>>
      /\ threads[t].payload # None /\ threads[t].op \in OpId
  BY PayloadFields, LiveTypes DEF RetryOperation, Delivering
<1>2. CASE UNCHANGED operations /\ ThreadError(t)
  BY <1>1, <1>2, ErrorLabels DEF Unlabelled
<1>3. CASE UNCHANGED operations /\ ~ThreadError(t)
  <2>1. local' = [local EXCEPT ![t] = local[t]]
    BY <1>3 DEF RetryOperation, TypeInv, TypeOK
  <2>2. WorkLabels("poll", threads[t], local[t], wanted[t])
    BY DEF WorkLabels
  <2>3. QED
    BY <1>1, <1>3, <2>1, <2>2, MoveLabels DEF RetryOperation, Unlabelled
<1>4. CASE ~UNCHANGED operations
  <2> DEFINE op == threads[t].op
             ops == [operations[t] EXCEPT ![op].status = "pending"]
  <2>1. /\ operations[t][op].status = "failed"
        /\ operations' = [operations EXCEPT ![t][op].status = "pending"]
    BY <1>4 DEF RetryOperation, OperationStatus
  <2>2. operations' = [operations EXCEPT ![t] = ops]
    BY <2>1 DEF TypeInv, TypeOK
  <2>3. ops[op].tags = operations[t][op].tags
    BY <1>1, LiveTypes DEF Operation
  <2>4. /\ Requests(t)' = Requests(t)
        /\ \A u \in Thread \ {t} : /\ Requests(u)' = Requests(u)
                                   /\ wanted'[u] = wanted[u]
                                   /\ documents'[u].labels = documents[u].labels
    BY <1>1 DEF Requests
  <2> HIDE DEF ops
  <2>5. ASSUME NEW row, row.payload = threads[t].payload, row.op = op
        PROVE  RowLabels(row, wanted'[t], ops, Requests(t), documents'[t].labels)
    BY <1>1, <2>1, <2>3, <2>5, LabelFields DEF RowLabels
  <2>6. CASE ThreadError(t)
    <3> DEFINE row == [threads[t] EXCEPT !.state = "error"]
    <3>1. /\ threads' = [threads EXCEPT ![t] = row]
          /\ at' = [at EXCEPT ![t] = "off"]
          /\ local' = [local EXCEPT ![t] = NoLocal]
      BY <2>6 DEF ThreadError, Leave, TypeInv, TypeOK
    <3>2. row.payload = threads[t].payload /\ row.op = op
      BY LocalFields, ErrorRowIsRow
    <3> HIDE DEF row, op
    <3>3. WorkLabels("off", row, NoLocal, wanted'[t])
      BY DEF WorkLabels
    <3>4. RowLabels(row, wanted'[t], ops, Requests(t), documents'[t].labels)
      BY <2>5, <3>2
    <3>5. QED
      BY <2>2, <2>4, <3>1, <3>3, <3>4, CoroutineLabels
  <2>7. CASE Suspend(t, "poll") /\ UNCHANGED <<threads, local>>
    <3>1. /\ threads' = [threads EXCEPT ![t] = threads[t]]
          /\ local' = [local EXCEPT ![t] = local[t]]
          /\ at' = [at EXCEPT ![t] = "poll"]
      BY <2>7 DEF Suspend, TypeInv, TypeOK
    <3>2. WorkLabels("poll", threads[t], local[t], wanted'[t])
      BY DEF WorkLabels
    <3>3. RowLabels(threads[t], wanted'[t], ops, Requests(t), documents'[t].labels)
      BY <2>5
    <3> HIDE DEF op
    <3>4. QED
      BY <2>2, <2>4, <3>1, <3>2, <3>3, CoroutineLabels
  <2>8. QED BY <2>6, <2>7 DEF RetryOperation
<1>5. QED BY <1>2, <1>3, <1>4

\* A withdrawal leaves no document and no labels to want.
LEMMA DeleteDocumentLabels ==
  ASSUME TypeInv, LiveInv, LabelsInv, NEW t \in Thread, DeleteDocument(t)
  PROVE  LabelsInv'
<1>1. threads[t].payload # None /\ threads[t].payload.action = "withdraw"
  BY PayloadFields DEF DeleteDocument, LiveInv, ThreadLive, PlaceLive, Delivering
<1>2. /\ operations' = [operations EXCEPT ![t] = operations[t]]
      /\ Requests(t)' = Requests(t)
  BY DEF DeleteDocument, Requests, TypeInv, TypeOK
<1>3. \A u \in Thread \ {t} : /\ Requests(u)' = Requests(u)
                              /\ wanted'[u] = wanted[u]
                              /\ documents'[u].labels = documents[u].labels
  BY DEF DeleteDocument, Requests, TypeInv, TypeOK
<1>4. \/ wanted'[t] = wanted[t] /\ documents'[t].labels = documents[t].labels
      \/ wanted'[t] = {} /\ documents'[t].labels = {}
  BY DEF DeleteDocument, NoDocument, TypeInv, TypeOK
<1>5. ASSUME NEW row, row.payload = threads[t].payload, row.op = threads[t].op
      PROVE  RowLabels(row, wanted'[t], operations[t], Requests(t), documents'[t].labels)
  BY <1>1, <1>4, <1>5, LabelFields DEF RowLabels
<1>6. CASE ThreadError(t)
  <2> DEFINE row == [threads[t] EXCEPT !.state = "error"]
  <2>1. /\ threads' = [threads EXCEPT ![t] = row]
        /\ at' = [at EXCEPT ![t] = "off"]
        /\ local' = [local EXCEPT ![t] = NoLocal]
    BY <1>6 DEF ThreadError, Leave, TypeInv, TypeOK
  <2>2. row.payload = threads[t].payload /\ row.op = threads[t].op
    BY LocalFields, ErrorRowIsRow
  <2> HIDE DEF row
  <2>3. WorkLabels("off", row, NoLocal, wanted'[t])
    BY DEF WorkLabels
  <2>4. RowLabels(row, wanted'[t], operations[t], Requests(t), documents'[t].labels)
    BY <1>5, <2>2
  <2>5. QED
    BY <1>2, <1>3, <2>1, <2>3, <2>4, CoroutineLabels
<1>7. CASE Suspend(t, "gone") /\ UNCHANGED <<threads, local>>
  <2>1. /\ threads' = [threads EXCEPT ![t] = threads[t]]
        /\ local' = [local EXCEPT ![t] = local[t]]
        /\ at' = [at EXCEPT ![t] = "gone"]
    BY <1>7 DEF Suspend, TypeInv, TypeOK
  <2>2. WorkLabels("gone", threads[t], local[t], wanted'[t])
    BY DEF WorkLabels
  <2>3. RowLabels(threads[t], wanted'[t], operations[t], Requests(t), documents'[t].labels)
    BY <1>5
  <2>4. QED
    BY <1>2, <1>3, <2>1, <2>2, <2>3, CoroutineLabels
<1>8. QED BY <1>6, <1>7 DEF DeleteDocument

\* Labels are written back as they are wanted.
LEMMA RelabelLabels ==
  ASSUME TypeInv, LabelsInv, NEW t \in Thread, Relabel(t)
  PROVE  LabelsInv'
<1>1. CASE ThreadError(t) /\ UNCHANGED documents
  BY <1>1, ErrorLabels DEF Relabel, Unlabelled
<1>2. CASE /\ documents' = [documents EXCEPT ![t].labels = local[t].labels]
           /\ Suspend(t, "relabelled")
           /\ UNCHANGED <<threads, local>>
  <2>1. /\ threads' = [threads EXCEPT ![t] = threads[t]]
        /\ local' = [local EXCEPT ![t] = local[t]]
        /\ at' = [at EXCEPT ![t] = "relabelled"]
        /\ operations' = [operations EXCEPT ![t] = operations[t]]
    BY <1>2 DEF Relabel, Suspend, TypeInv, TypeOK
  <2>2. UNCHANGED <<wire, wanted>> /\ at[t] = "relabel"
    BY DEF Relabel
  <2>3. /\ documents'[t].labels = local[t].labels
        /\ \A u \in Thread \ {t} : documents'[u].labels = documents[u].labels
    BY <1>2, LocalFields DEF TypeInv, TypeOK, Document
  <2>4. /\ Requests(t)' = Requests(t)
        /\ \A u \in Thread \ {t} : /\ Requests(u)' = Requests(u)
                                   /\ wanted'[u] = wanted[u]
                                   /\ documents'[u].labels = documents[u].labels
    BY <2>2, <2>3 DEF Requests
  <2>5. RowLabels(threads[t], wanted'[t], operations[t], Requests(t), documents'[t].labels)
    BY <2>2, <2>3, LabelFields DEF RowLabels, WorkLabels
  <2>6. WorkLabels("relabelled", threads[t], local[t], wanted'[t])
    BY DEF WorkLabels
  <2>7. QED
    BY <2>1, <2>4, <2>5, <2>6, CoroutineLabels
<1>3. QED BY <1>1, <1>2 DEF Relabel

\* A new id has no request and no operation yet; labels are kept as found.
LEMMA ReadCurrentLabels ==
  ASSUME TypeInv, LiveInv, LabelsInv, NEW t \in Thread, ReadCurrent(t)
  PROVE  LabelsInv'
<1> DEFINE row == Renewed(t, threads[t])
           place == AfterStatus(local[t].status, row)
<1>1. Unlabelled /\ at[t] = "current"
  BY DEF ReadCurrent, service, Unlabelled
<1>2. CASE ThreadError(t)
  BY <1>1, <1>2, ErrorLabels
<1>3. CASE ~ThreadError(t)
  <2>1. /\ row.op \in OpId
        /\ threads' = [threads EXCEPT ![t] = row]
        /\ at' = [at EXCEPT ![t] = place]
        /\ local' = [local EXCEPT ![t] = local[t]]
    BY <1>3 DEF ReadCurrent, Suspend, TypeInv, TypeOK
  <2>2. /\ row.payload # None
        /\ row.payload.action = threads[t].payload.action
        /\ row.payload.tags = threads[t].payload.tags
        /\ row.payload.kept \in {threads[t].payload.kept, documents[t].labels}
        /\ local[t].status = "cancelled" => row.op = minted[t] + 1
        /\ local[t].status # "cancelled" => row.op = threads[t].op
    BY <1>1, <2>1, RenewedIsRow, RenewedKeeps
  <2> HIDE DEF row
  <2>3. WorkLabels(place, row, local[t], wanted[t])
    BY DEF WorkLabels, AfterStatus
  <2> HIDE DEF place
  <2>4. threads[t].payload # None /\ threads[t].payload.action = "publish"
    BY <1>1, PayloadFields DEF LiveInv, ThreadLive, PlaceLive, Delivering
  <2>5. CASE local[t].status # "cancelled"
    <3>1. RowLabels(row, wanted[t], operations[t], Requests(t), documents[t].labels)
      BY <2>2, <2>4, <2>5, LabelFields DEF RowLabels
    <3>2. QED BY <1>1, <2>1, <2>3, <3>1, SilentLabels
  <2>6. CASE local[t].status = "cancelled"
    <3>1. row.op > minted[t]
      BY <2>2, <2>6, LiveTypes
    <3>2. Unknown(operations[t], Sent(t), row.op)
      BY <2>1, <3>1 DEF LiveInv, ThreadLive, RowLive
    <3>3. /\ operations[t][row.op].status = "not_found"
          /\ \A r \in Requests(t) : r.op # row.op
      BY <3>2 DEF Unknown, Sent, Requests
    <3>4. RowLabels(row, wanted[t], operations[t], Requests(t), documents[t].labels)
      BY <2>2, <2>4, <3>3, LabelFields DEF RowLabels
    <3>5. QED BY <1>1, <2>1, <2>3, <3>4, SilentLabels
  <2>7. QED BY <2>5, <2>6
<1>4. QED BY <1>2, <1>3

\* Tags are computed while no request for the operation has been sent.
LEMMA ReadLabelsLabels ==
  ASSUME TypeInv, LiveInv, LabelsInv, NEW t \in Thread, ReadLabels(t), ~ThreadError(t)
  PROVE  LabelsInv'
<1> DEFINE payload == [threads[t].payload EXCEPT !.tags = documents[t].labels]
           row == [threads[t] EXCEPT !.payload = payload]
<1>1. /\ threads' = [threads EXCEPT ![t] = row] /\ at' = [at EXCEPT ![t] = "retain"]
      /\ local' = [local EXCEPT ![t] = local[t]]
  BY DEF ReadLabels, Suspend, TypeInv, TypeOK
<1>2. Unlabelled /\ at[t] = "labels"
  BY DEF ReadLabels, service, Unlabelled
<1>3. threads[t].payload # None /\ threads[t].payload.action = "publish"
  BY <1>2, PayloadFields DEF LiveInv, ThreadLive, PlaceLive, Delivering
<1>4. /\ payload.tags = documents[t].labels
      /\ payload.kept = threads[t].payload.kept
      /\ payload.action = threads[t].payload.action
  BY <1>2, PayloadFields DEF Payload, Delivering
<1>5. row.payload = payload /\ row.op = threads[t].op
  <2> HIDE DEF payload
  <2>1. QED BY LocalFields DEF Row
<1> HIDE DEF row, payload
<1>6. threads[t].payload.tags = None /\ threads[t].op \in OpId
  BY <1>2, <1>3, LabelFields, LiveTypes DEF WorkLabels
<1>7. /\ operations[t][threads[t].op].status = "not_found"
      /\ \A r \in Requests(t) : r.op # threads[t].op
  BY <1>3, <1>6, LabelFields, LabelTypes DEF RowLabels
<1>8. RowLabels(row, wanted[t], operations[t], Requests(t), documents[t].labels)
  BY <1>3, <1>4, <1>5, <1>7, LabelFields DEF RowLabels
<1>9. WorkLabels("retain", row, local[t], wanted[t])
  BY DEF WorkLabels
<1>10. QED
  BY <1>1, <1>2, <1>8, <1>9, SilentLabels

LEMMA DeliversLabels ==
  ASSUME TypeInv, LiveInv, LabelsInv, NEW t \in Thread, Delivers(t)
  PROVE  LabelsInv'
<1>1. CASE DeleteDocument(t) \/ ReadCurrent(t) \/ Retain(t) \/ RetryOperation(t) \/ Relabel(t)
  BY <1>1, DeleteDocumentLabels, ReadCurrentLabels, RetainLabels, RetryOperationLabels,
     RelabelLabels
<1> SUFFICES ASSUME ~(DeleteDocument(t) \/ ReadCurrent(t) \/ Retain(t) \/ RetryOperation(t)
                      \/ Relabel(t))
             PROVE  LabelsInv'
  BY <1>1
<1>2. Unlabelled /\ at[t] \in Delivering /\ threads[t].payload # None
  BY DeliversAlone, PayloadFields
     DEF Delivers, ConfirmGone, ReadStatus, ReadLabels, Retained, Poll, Verify, Relabelled,
         service, Unlabelled, Delivering
<1>3. CASE ThreadError(t)
  BY <1>2, <1>3, ErrorLabels
<1>4. ASSUME NEW action, Finish(t, action, threads[t].payload.input, threads[t].target)
      PROVE  LabelsInv'
  BY <1>2, <1>4, PayloadFields, LocalFields, FinishLabels
<1>5. CASE ConfirmGone(t)
  BY <1>3, <1>4, <1>5 DEF ConfirmGone
<1>6. CASE ReadStatus(t)
  <2> DEFINE own == [local[t] EXCEPT !.status = OperationStatus(t)]
  <2>1. ThreadError(t) \/ (Suspend(t, "current") /\ UNCHANGED threads
                           /\ local' = [local EXCEPT ![t] = own])
    BY <1>6 DEF ReadStatus, TypeInv, TypeOK
  <2> HIDE DEF own
  <2>2. WorkLabels("current", threads[t], own, wanted[t])
    BY DEF WorkLabels
  <2>3. QED
    BY <1>2, <1>3, <2>1, <2>2, MoveLabels
<1>7. CASE ReadLabels(t)
  BY <1>3, <1>7, ReadLabelsLabels
<1>8. CASE Retained(t) /\ ~ThreadError(t)
  <2> DEFINE row == [threads[t] EXCEPT !.state = "submitted"]
  <2>1. /\ threads' = [threads EXCEPT ![t] = row]
        /\ at' = [at EXCEPT ![t] = "poll"]
        /\ local' = [local EXCEPT ![t] = local[t]]
    BY <1>8 DEF Retained, Suspend, TypeInv, TypeOK
  <2>2. row.payload = threads[t].payload /\ row.op = threads[t].op
    BY LocalFields DEF Row
  <2> HIDE DEF row
  <2>3. WorkLabels("poll", row, local[t], wanted[t])
    BY DEF WorkLabels
  <2>4. QED
    BY <1>2, <2>1, <2>2, <2>3, SameLabels
<1>9. CASE Poll(t) /\ ~ThreadError(t)
  <2>1. local' = [local EXCEPT ![t] = local[t]]
    BY <1>9 DEF Poll, TypeInv, TypeOK
  <2>2. WorkLabels("verify", threads[t], local[t], wanted[t])
    BY DEF WorkLabels
  <2>3. QED
    BY <1>2, <1>9, <2>1, <2>2, MoveLabels DEF Poll
<1>10. CASE Verify(t)
  <2> DEFINE own == [local[t] EXCEPT !.labels = Reconciled(t)]
  <2>1. \/ ThreadError(t)
        \/ Finish(t, "publish", threads[t].payload.input, threads[t].target)
        \/ /\ threads[t].payload.kept # None
           /\ Suspend(t, "relabel") /\ UNCHANGED threads /\ local' = [local EXCEPT ![t] = own]
    BY <1>10 DEF Verify, TypeInv, TypeOK
  <2>2. own.labels = Reconciled(t)
    BY LocalFields DEF Local
  <2> HIDE DEF own
  <2>3. threads[t].payload.kept # None => WorkLabels("relabel", threads[t], own, wanted[t])
    BY <1>2, <2>2, LabelFields DEF WorkLabels, RowLabels, Reconciled
  <2>4. QED
    BY <1>2, <1>3, <1>4, <2>1, <2>3, MoveLabels
<1>11. CASE Relabelled(t)
  BY <1>3, <1>4, <1>11 DEF Relabelled
<1>12. QED
  BY <1>5, <1>6, <1>7, <1>8, <1>9, <1>10, <1>11, <1>3 DEF Delivers

\* A step of the server, the network, a user or the run.
LEMMA KeptLabels ==
  ASSUME TypeInv, LabelsInv,
         \A t \in Thread : \/ at'[t] \in {"off", "queued"}
                           \/ at'[t] = at[t] /\ local'[t] = local[t],
         \A t \in Thread : /\ threads'[t].payload = threads[t].payload
                           /\ threads'[t].op = threads[t].op,
         \A t \in Thread : \/ wanted'[t] = wanted[t]
                           \/ wanted'[t] = None
                           \/ threads[t].payload = None,
         \A t \in Thread :
           RowLabels(threads[t], wanted'[t], operations'[t], Requests(t)', documents'[t].labels)
  PROVE  LabelsInv'
<1>1. ASSUME NEW t \in Thread
      PROVE  ThreadLabels(t)'
  <2>1. RowLabels(threads[t], wanted'[t], operations'[t], Requests(t)', documents'[t].labels)
    OBVIOUS
  <2>2. RowLabels(threads'[t], wanted'[t], operations'[t], Requests(t)', documents'[t].labels)
    BY <2>1 DEF RowLabels
  <2>3. at[t] = "relabel" => threads[t].payload # None
    BY PayloadFields DEF Delivering
  <2>4. WorkLabels(at'[t], threads'[t], local'[t], wanted'[t])
    BY <2>3, LabelFields DEF WorkLabels
  <2>5. QED BY <2>2, <2>4 DEF ThreadLabels
<1>2. QED
  BY <1>1 DEF LabelsInv

LEMMA RunLabels ==
  ASSUME TypeInv, LabelsInv, Run
  PROVE  LabelsInv'
<1>1. UNCHANGED <<operations, wire, documents, local, wanted>>
  BY DEF Run, StartRun, StartDeliveries, StartProcessing, EndRun, RecordSources, service
<1>2. \A t \in Thread : \/ at'[t] \in {"off", "queued"}
                        \/ at'[t] = at[t] /\ local'[t] = local[t]
  BY <1>1 DEF Run, StartRun, StartDeliveries, StartProcessing, EndRun, RecordSources
<1>3. \A t \in Thread : /\ threads'[t].payload = threads[t].payload
                        /\ threads'[t].op = threads[t].op
  <2>1. CASE UNCHANGED threads
    BY <2>1
  <2>2. ASSUME NEW u \in Thread, RecordSources(u)
        PROVE  \A t \in Thread : /\ threads'[t].payload = threads[t].payload
                                 /\ threads'[t].op = threads[t].op
    <3> DEFINE row == Bumped(threads[u])
    <3>1. row.payload = threads[u].payload /\ row.op = threads[u].op
      BY LocalFields, BumpedIsRow
    <3>2. threads' \in {threads, [threads EXCEPT ![u] = row]}
      BY <2>2 DEF RecordSources
    <3> HIDE DEF row
    <3>3. QED BY <3>1, <3>2 DEF TypeInv, TypeOK
  <2>3. QED
    BY <2>1, <2>2 DEF Run, StartRun, StartDeliveries, StartProcessing, EndRun, ledger
<1>4. \A t \in Thread :
        RowLabels(threads[t], wanted'[t], operations'[t], Requests(t)', documents'[t].labels)
  BY <1>1, LabelFields DEF Requests
<1>5. QED
  BY <1>1, <1>2, <1>3, <1>4, KeptLabels

\* The server runs the operation of the row, with the tags on the row.
LEMMA ServerExecutesLabels ==
  ASSUME TypeInv, LiveInv, LabelsInv, NEW t \in Thread, NEW o \in OpId, ServerExecutes(t, o)
  PROVE  LabelsInv'
<1>1. UNCHANGED <<wire, threads, at, local, wanted>> /\ operations[t][o].status = "pending"
  BY DEF ServerExecutes, ledger
<1>2. threads[t].payload # None /\ threads[t].op = o
  BY <1>1 DEF LiveInv, ThreadLive, RowLive, Alive
<1>3. PICK status \in {"completed", "failed", "faulty"} :
        /\ operations' = [operations EXCEPT ![t][o].status = status]
        /\ \/ UNCHANGED documents
           \/ documents' = [documents EXCEPT ![t] = [ev |-> operations[t][o].ev,
                                                     labels |-> operations[t][o].tags]]
  BY DEF ServerExecutes
<1>4. /\ operations'[t][o].tags = operations[t][o].tags
      /\ \A u \in Thread \ {t} : operations'[u] = operations[u]
  BY <1>3 DEF TypeInv, TypeOK, Operation
<1>5. /\ \A u \in Thread \ {t} : documents'[u].labels = documents[u].labels
      /\ documents'[t].labels \in {documents[t].labels, operations[t][o].tags}
  BY <1>3 DEF TypeInv, TypeOK
<1>6. /\ operations[t][o].tags = threads[t].payload.tags
      /\ operations[t][o].tags # None
  BY <1>1, <1>2, LabelFields, LabelTypes DEF RowLabels
<1>7. ASSUME NEW u \in Thread
      PROVE  RowLabels(threads[u], wanted'[u], operations'[u], Requests(u)', documents'[u].labels)
  <2>1. Requests(u)' = Requests(u) /\ wanted'[u] = wanted[u]
    BY <1>1 DEF Requests
  <2>2. CASE u = t
    BY <1>2, <1>4, <1>5, <1>6, <2>1, <2>2, LabelFields DEF RowLabels
  <2>3. CASE u # t
    BY <1>4, <1>5, <2>1, <2>3, LabelFields
  <2>4. QED BY <2>2, <2>3
<1>8. QED
  BY <1>1, <1>7, KeptLabels

LEMMA ServerAcceptsLabels ==
  ASSUME TypeInv, LabelsInv, NEW r \in wire, ServerAccepts(r)
  PROVE  LabelsInv'
<1>1. /\ UNCHANGED <<threads, at, local, documents, wanted>>
      /\ wire' \in {wire, wire \ {r}}
  BY DEF ServerAccepts, ledger
<1>2. /\ r.thread \in Thread /\ r.op \in OpId
      /\ operations \in [Thread -> [OpId -> Operation]]
  BY DEF TypeInv, TypeOK, Request
<1>3. ASSUME NEW u \in Thread
      PROVE  RowLabels(threads[u], wanted'[u], operations'[u], Requests(u)', documents'[u].labels)
  <2>1. Requests(u)' \subseteq Requests(u)
    BY <1>1 DEF Requests
  <2>2. RowLabels(threads[u], wanted[u], operations[u], Requests(u), documents[u].labels)
    BY LabelFields
  <2>3. CASE operations'[u][threads[u].op] = operations[u][threads[u].op]
    BY <1>1, <2>1, <2>2, <2>3 DEF RowLabels
  <2>4. CASE operations'[u][threads[u].op] # operations[u][threads[u].op]
    <3>1. threads[u].payload # None => threads[u].op \in OpId
      BY LiveTypes
    <3>2. CASE threads[u].payload = None
      BY <1>1, <2>2, <3>2 DEF RowLabels
    <3>3. CASE threads[u].payload # None
      <4>1. /\ u = r.thread /\ threads[u].op = r.op
            /\ operations'[u][r.op] = [status |-> "pending", ev |-> r.ev, tags |-> r.tags]
        BY <1>2, <2>4, <3>1, <3>3 DEF ServerAccepts
      <4>2. r \in Requests(u)
        BY <4>1 DEF Requests
      <4>3. QED BY <1>1, <2>1, <2>2, <4>1, <4>2 DEF RowLabels
    <3>4. QED BY <3>2, <3>3
  <2>5. QED BY <2>3, <2>4
<1>4. QED
  BY <1>1, <1>3, KeptLabels

\* Users set labels while nothing is prepared.
LEMMA UserLabelsLabels ==
  ASSUME "label" \notin Faults, TypeInv, LabelsInv, NEW t \in Thread, UserLabels(t)
  PROVE  LabelsInv'
<1>1. UNCHANGED <<threads, at, local, wire, operations>> /\ threads[t].payload = None
  BY DEF UserLabels, Fault, ledger
<1>2. PICK labels : /\ documents' = [documents EXCEPT ![t].labels = labels]
                    /\ wanted' = [wanted EXCEPT ![t] = labels]
  BY DEF UserLabels
<1>3. /\ wanted'[t] = labels
      /\ \A u \in Thread \ {t} : wanted'[u] = wanted[u]
  BY <1>2 DEF TypeInv, TypeOK
<1>4. /\ documents'[t].labels = labels
      /\ \A u \in Thread \ {t} : documents'[u].labels = documents[u].labels
  BY <1>2, LocalFields DEF TypeInv, TypeOK, Document
<1>5. ASSUME NEW u \in Thread
      PROVE  RowLabels(threads[u], wanted'[u], operations'[u], Requests(u)', documents'[u].labels)
  <2>1. Requests(u)' = Requests(u) /\ operations'[u] = operations[u]
    BY <1>1 DEF Requests
  <2>2. CASE u = t
    BY <1>1, <1>3, <1>4, <2>2 DEF RowLabels
  <2>3. CASE u # t
    BY <1>3, <1>4, <2>1, <2>3, LabelFields
  <2>4. QED BY <2>2, <2>3
<1>6. \A u \in Thread : wanted'[u] = wanted[u] \/ threads[u].payload = None
  BY <1>1, <1>3
<1>7. QED
  BY <1>1, <1>5, <1>6, KeptLabels

LEMMA EnvironmentLabels ==
  ASSUME "label" \notin Faults, TypeInv, LabelsInv, Environment
  PROVE  LabelsInv'
<1>1. CASE \E t \in Thread : UserLabels(t)
  BY <1>1, UserLabelsLabels
<1> SUFFICES ASSUME ~\E t \in Thread : UserLabels(t) PROVE LabelsInv'
  BY <1>1
<1>2. UNCHANGED threads /\ wire' \subseteq wire
  BY DEF Environment, MailChanges, UserDeletes, UserCancels, RequestLost, Interrupt, ledger, service
<1>3. \A t \in Thread : \/ at'[t] \in {"off", "queued"}
                        \/ at'[t] = at[t] /\ local'[t] = local[t]
  BY DEF Environment, MailChanges, UserDeletes, UserCancels, RequestLost, Interrupt
<1>4. ASSUME NEW u \in Thread
      PROVE  \/ wanted'[u] = wanted[u] /\ documents'[u].labels = documents[u].labels
             \/ wanted'[u] = None
  <2>1. CASE UNCHANGED <<wanted, documents>>
    BY <2>1
  <2>2. ASSUME NEW t \in Thread, UserDeletes(t)
        PROVE  \/ wanted'[u] = wanted[u] /\ documents'[u].labels = documents[u].labels
               \/ wanted'[u] = None
    BY <2>2 DEF UserDeletes, TypeInv, TypeOK
  <2>3. QED
    BY <2>1, <2>2 DEF Environment, MailChanges, UserCancels, RequestLost, Interrupt, service
<1>5. ASSUME NEW u \in Thread, NEW o \in OpId
      PROVE  \/ operations'[u][o] = operations[u][o]
             \/ /\ operations[u][o].status # "not_found"
                /\ operations'[u][o].tags = operations[u][o].tags
  <2>1. CASE UNCHANGED operations
    BY <2>1
  <2>2. ASSUME NEW t \in Thread, UserCancels(t)
        PROVE  \/ operations'[u][o] = operations[u][o]
               \/ /\ operations[u][o].status # "not_found"
                  /\ operations'[u][o].tags = operations[u][o].tags
    <3>1. PICK q \in OpId :
            /\ operations[t][q].status = "pending"
            /\ operations' = [operations EXCEPT ![t][q].status = "cancelled"]
      BY <2>2 DEF UserCancels
    <3>2. CASE u = t /\ o = q
      BY <3>1, <3>2 DEF TypeInv, TypeOK, Operation
    <3>3. CASE ~(u = t /\ o = q)
      BY <3>1, <3>3 DEF TypeInv, TypeOK
    <3>4. QED BY <3>2, <3>3
  <2>3. QED
    BY <2>1, <2>2 DEF Environment, MailChanges, UserDeletes, RequestLost, Interrupt, service
<1>6. ASSUME NEW u \in Thread
      PROVE  RowLabels(threads[u], wanted'[u], operations'[u], Requests(u)', documents'[u].labels)
  <2>1. Requests(u)' \subseteq Requests(u)
    BY <1>2 DEF Requests
  <2>2. threads[u].payload # None => threads[u].op \in OpId
    BY LiveTypes
  <2>3. QED BY <1>4, <1>5, <2>1, <2>2, LabelFields DEF RowLabels
<1>7. QED
  BY <1>2, <1>3, <1>4, <1>6, KeptLabels

\* An accepted document carries the labels its users gave it, whatever became
\* of the attempts to deliver it, if they set labels only while no replacement
\* is prepared (_deliver stores tags and kept labels with the outcome; what
\* happens otherwise is the disagreement of the run mail_label_race).
THEOREM LabelsHold ==
  ASSUME "label" \notin Faults
  PROVE  Spec => []LabelsKept
<1>1. Init => LabelsInv
  <2> SUFFICES ASSUME Init, NEW t \in Thread PROVE ThreadLabels(t)
    BY DEF LabelsInv
  <2>1. QED
    BY DEF Init, ThreadLabels, RowLabels, WorkLabels, NewRow, NoDocument
<1>2. TypeInv /\ LiveInv /\ LabelsInv /\ [Next]_vars => LabelsInv'
  <2> SUFFICES ASSUME TypeInv, LiveInv, LabelsInv, [Next]_vars
               PROVE  LabelsInv'
    OBVIOUS
  <2>1. CASE Run
    BY <2>1, RunLabels
  <2>2. CASE Server
    BY <2>2, ServerAcceptsLabels, ServerExecutesLabels DEF Server
  <2>3. CASE Environment
    BY <2>3, EnvironmentLabels
  <2>4. CASE \E t \in Thread : Coroutine(t)
    BY <2>4, PreparesLabels, DeliversLabels DEF Coroutine
  <2>5. CASE UNCHANGED vars
    BY <2>5 DEF vars, ledger, service, LabelsInv, ThreadLabels, Requests
  <2>6. QED BY <2>1, <2>2, <2>3, <2>4, <2>5 DEF Next
<1>3. LabelsInv => LabelsKept
  BY DEF LabelsInv, ThreadLabels, RowLabels, LabelsKept
<1>4. QED
  BY <1>1, <1>2, <1>3, LiveInvariant, InitLive, InitTypeInv, TypeInvInvariant, PTL DEF Spec

=============================================================================
