------------------------ MODULE CollaborationProofs ------------------------
(***************************************************************************)
(* Why no edit that the server took is left without a save, for any        *)
(* browsers, edits and authors. What a consumer is at is a record, and     *)
(* most steps change the record of one consumer: the lemmas are about the  *)
(* records.                                                                *)
(***************************************************************************)
EXTENDS Collaboration, TLAPS

WellFormed(k) == k \in Consumer /\ (k.task = "saving") = (k.writing # Nothing)

\* The consumer k saves, or will, the edit e of its document, or saved has it.
\* saved: what was in the database, or in a write that failed for good.
Covers(k, e, saved) ==
    k.writer /\ e \in k.doc =>
        \/ e \in saved
        \/ k.due
        \/ k.task = "sleeping"
        \/ k.task = "failed" /\ k.status = "open"
        \/ k.writing # Nothing /\ e \in k.writing
        \/ k.forced # Nothing /\ e \in k.forced

CoversAll(k, saved) == \A e \in Edits : Covers(k, e, saved)

Settled == kept \cup failed

\* Until its client is admitted, a consumer has what it read; a forced write keeps
\* it from its other messages.
Steady(k, saved) ==
    /\ k.status = "loading" => k.doc \subseteq saved
    /\ k.forced # Nothing => k.status \in {"busy", "closing"}

\* The invariant: a consumer that connects has nothing that was never saved.
IInv ==
    /\ TypeOK
    /\ stored \subseteq kept
    /\ story => \A c \in Clients : CoversAll(consumer[c], Settled)
    /\ \A c \in Clients : Steady(consumer[c], kept)

LEMMA InvariantSuffices == IInv => NothingIsForgotten
  BY DEF IInv, NothingIsForgotten, CoversAll, Covers, Settled, Accepted, SaveIsDue, TypeOK, Consumer

LEMMA NoConsumerFacts ==
    /\ WellFormed(NoConsumer)
    /\ \A saved : CoversAll(NoConsumer, saved) /\ Steady(NoConsumer, saved)
  BY NothingAssumption DEF NoConsumer, WellFormed, Consumer, Documents, CoversAll, Covers, Steady

LEMMA EndedFacts ==
    ASSUME NEW k, WellFormed(k), NEW saved, CoversAll(k, saved)
    PROVE  WellFormed(Ended(k)) /\ CoversAll(Ended(k), saved)
  BY NoConsumerFacts DEF Ended

\* Cancelling keeps what covers an edit, but for the write that is cancelled.
LEMMA CancelledFacts ==
    ASSUME NEW k, WellFormed(k)
    PROVE  /\ WellFormed(Cancelled(k))
           /\ Cancelled(k).doc = k.doc
           /\ Cancelled(k).writer = k.writer
           /\ Cancelled(k).status = k.status
           /\ Cancelled(k).forced = k.forced
  BY DEF Cancelled, WellFormed, Consumer

LEMMA ForceFacts ==
    ASSUME NEW k, WellFormed(k), NEW status \in {"busy", "closing"}, NEW saved
    PROVE  /\ WellFormed(Forced(k, status))
           /\ CoversAll(Forced(k, status), saved)
           /\ Forced(k, status).status = status
  <1>1. /\ WellFormed(Cancelled(k))
        /\ Cancelled(k).doc = k.doc
    BY CancelledFacts
  <1>2. k.doc \in Documents /\ k.doc # Nothing
    BY NothingAssumption DEF WellFormed, Consumer, Documents
  <1>3. /\ WellFormed(Forced(k, status))
        /\ Forced(k, status).forced = k.doc
        /\ Forced(k, status).status = status
        /\ Forced(k, status).doc = k.doc
    BY <1>1, <1>2 DEF Forced, WellFormed, Consumer
  <1> QED BY <1>2, <1>3 DEF CoversAll, Covers

\* Only the consumer of c changes, the database may take a document.
LEMMA OneConsumer ==
    ASSUME IInv, NEW c \in Clients, NEW k,
           WellFormed(k),
           consumer' = [consumer EXCEPT ![c] = k],
           kept \subseteq kept', kept' \in Documents,
           failed \subseteq failed', failed' \in Documents,
           stored' \in Documents, stored' \subseteq kept',
           story' => CoversAll(k, Settled'),
           Steady(k, kept'),
           local' \in [Clients -> Documents], made' \in Documents,
           story' \in BOOLEAN, story' => story, stopped' \in BOOLEAN
    PROVE  IInv'
  <1>1. TypeOK'
    BY DEF IInv, TypeOK, WellFormed
  <1>2. ASSUME story', NEW d \in Clients
        PROVE  CoversAll(consumer'[d], Settled')
    BY <1>2 DEF IInv, TypeOK, CoversAll, Covers, Settled
  <1>3. ASSUME NEW d \in Clients
        PROVE  Steady(consumer'[d], kept')
    BY DEF IInv, TypeOK, Steady
  <1> QED BY <1>1, <1>2, <1>3 DEF IInv

\* What ends a write, made or not.
Written(doc) == Store(doc) \/ \E last \in BOOLEAN : Fail(doc, last)

LEMMA WriteFacts ==
    ASSUME IInv, NEW doc \in Documents, Written(doc)
    PROVE  /\ kept \subseteq kept' /\ kept' \in Documents
           /\ failed \subseteq failed' /\ failed' \in Documents
           /\ stored' \in Documents /\ stored' \subseteq kept'
           /\ Settled \subseteq Settled'
  <1>1. CASE Store(doc)
    BY <1>1 DEF IInv, TypeOK, Store, Documents, Settled
  <1>2. ASSUME NEW last \in BOOLEAN, Fail(doc, last)
        PROVE  /\ kept \subseteq kept' /\ kept' \in Documents
               /\ failed \subseteq failed' /\ failed' \in Documents
               /\ stored' \in Documents /\ stored' \subseteq kept'
               /\ Settled \subseteq Settled'
    BY <1>2 DEF IInv, TypeOK, Fail, Documents, Settled
  <1> QED BY <1>1, <1>2 DEF Written

\* After a write that is made, or that nothing follows, its document is settled.
LEMMA SettledFacts ==
    ASSUME NEW doc, story, Store(doc) \/ Fail(doc, TRUE)
    PROVE  doc \subseteq Settled'
  BY DEF Store, Fail, Settled

LEMMA InitHolds == Init => IInv
  BY NoConsumerFacts DEF Init, IInv, TypeOK, WellFormed, Documents, Settled

-----------------------------------------------------------------------------
(* The steps.                                                              *)

LEMMA ConsumerType ==
    ASSUME IInv, NEW c \in Clients
    PROVE  /\ WellFormed(consumer[c])
           /\ story => CoversAll(consumer[c], Settled)
           /\ Steady(consumer[c], kept)
  BY DEF IInv, TypeOK, WellFormed

LEMMA ConnectStep ==
    ASSUME IInv, NEW c \in Clients, Connect(c)
    PROVE  IInv'
  <1> DEFINE k == [NoConsumer EXCEPT !.status = "loading", !.doc = stored]
  <1>1. WellFormed(k)
    BY NothingAssumption DEF NoConsumer, WellFormed, Consumer, Documents, IInv, TypeOK
  <1>2. CoversAll(k, Settled) /\ Steady(k, kept)
    BY DEF NoConsumer, CoversAll, Covers, Steady, IInv, TypeOK
  <1>3. consumer' = [consumer EXCEPT ![c] = k]
    BY DEF Connect
  <1> HIDE DEF k
  <1> QED BY <1>1, <1>2, <1>3, OneConsumer DEF Connect, IInv, TypeOK, Settled

\* What the client gets was read from the database.
LEMMA AdmitStep ==
    ASSUME IInv, NEW c \in Clients, NEW writer \in BOOLEAN, Admit(c, writer)
    PROVE  IInv'
  <1> DEFINE k == [consumer[c] EXCEPT !.status = "open", !.writer = writer]
  <1>1. WellFormed(k)
    BY ConsumerType DEF WellFormed, Consumer
  <1>2. CoversAll(k, Settled) /\ Steady(k, kept)
    BY ConsumerType DEF Admit, CoversAll, Covers, Steady, Settled, WellFormed, Consumer
  <1>3. local' \in [Clients -> Documents]
    BY ConsumerType DEF Admit, IInv, TypeOK, Documents, WellFormed, Consumer
  <1>4. consumer' = [consumer EXCEPT ![c] = k]
    BY DEF Admit, IInv, TypeOK
  <1> HIDE DEF k
  <1> QED BY <1>1, <1>2, <1>3, <1>4, OneConsumer DEF Admit, IInv, TypeOK, Settled

LEMMA RefuseStep ==
    ASSUME IInv, NEW c \in Clients, Refuse(c)
    PROVE  IInv'
  BY NoConsumerFacts, OneConsumer DEF Refuse, IInv, TypeOK, Settled

LEMMA EditStep ==
    ASSUME IInv, NEW e \in Edits, Edit(e)
    PROVE  IInv'
  <1>1. TypeOK'
    BY AuthorAssumption DEF Edit, IInv, TypeOK, Documents
  <1> QED BY <1>1 DEF Edit, IInv, CoversAll, Covers, Steady, Settled

\* A consumer that takes an update from elsewhere is made to save it too.
LEMMA ReceiveStep ==
    ASSUME IInv, NEW c \in Clients, NEW edits \in Documents, Receive(c, edits)
    PROVE  IInv'
  <1> DEFINE With(k) == [k EXCEPT !.doc = @ \cup edits, !.due = k.writer]
  <1>1. ASSUME NEW k, WellFormed(k)
        PROVE  /\ WellFormed(With(k))
               /\ \A saved : CoversAll(k, saved) => CoversAll(With(k), saved)
               /\ With(k).status = k.status /\ With(k).forced = k.forced
    BY <1>1 DEF WellFormed, Consumer, Documents, CoversAll, Covers
  <1> HIDE DEF With
  <1>2. ASSUME NEW d \in Clients
        PROVE  \/ consumer'[d] = With(consumer[d]) /\ consumer[d].status = "open"
               \/ consumer'[d] = consumer[d]
    BY DEF Receive, With, IsOpen
  <1>3. \A d \in Clients : WellFormed(consumer'[d])
    BY <1>1, <1>2, ConsumerType
  <1>4. UNCHANGED <<story, stored, made, kept, failed, stopped, Settled>>
    BY DEF Receive, Settled
  <1>5. ASSUME story, NEW d \in Clients
        PROVE  CoversAll(consumer'[d], Settled')
    BY <1>1, <1>2, <1>4, <1>5, ConsumerType
  <1>6. ASSUME NEW d \in Clients
        PROVE  Steady(consumer'[d], kept')
    BY <1>1, <1>2, <1>4, ConsumerType DEF Steady
  <1>7. /\ DOMAIN consumer' = Clients
        /\ consumer' = [d \in Clients |-> consumer'[d]]
        /\ local' \in [Clients -> Documents]
    BY DEF Receive, IInv, TypeOK, Documents
  <1>8. TypeOK'
    BY <1>3, <1>4, <1>7 DEF IInv, TypeOK, WellFormed
  <1> QED BY <1>4, <1>5, <1>6, <1>8 DEF IInv

LEMMA ScheduleSaveStep ==
    ASSUME IInv, NEW c \in Clients, ScheduleSave(c)
    PROVE  IInv'
  <1> DEFINE again == consumer[c].task = "sleeping" /\ ~consumer[c].again
             k == [Cancelled(consumer[c]) EXCEPT !.due = FALSE, !.task = "sleeping",
                                                 !.again = again]
  <1>1. /\ WellFormed(Cancelled(consumer[c])) /\ Cancelled(consumer[c]).writing = Nothing
        /\ Cancelled(consumer[c]).status = consumer[c].status
        /\ Cancelled(consumer[c]).forced = consumer[c].forced
        /\ Cancelled(consumer[c]).doc = consumer[c].doc
    BY CancelledFacts, ConsumerType DEF Cancelled, WellFormed, Consumer
  <1>2. again \in BOOLEAN
    BY ConsumerType DEF WellFormed, Consumer
  <1> HIDE DEF again
  <1>3. /\ WellFormed(k) /\ k.task = "sleeping"
        /\ k.status = consumer[c].status /\ k.forced = consumer[c].forced
        /\ k.doc = consumer[c].doc
    BY <1>1, <1>2 DEF WellFormed, Consumer
  <1>4. CoversAll(k, Settled)
    BY <1>3 DEF CoversAll, Covers
  <1>5. Steady(k, kept)
    BY <1>3, ConsumerType DEF Steady
  <1>6. consumer' = [consumer EXCEPT ![c] = k]
    BY DEF ScheduleSave, again
  <1> HIDE DEF k
  <1> QED BY <1>3, <1>4, <1>5, <1>6, OneConsumer DEF ScheduleSave, IInv, TypeOK, Settled

LEMMA BeginSaveStep ==
    ASSUME IInv, NEW c \in Clients, NEW again \in BOOLEAN, BeginSave(c, again)
    PROVE  IInv'
  <1> DEFINE k == [consumer[c] EXCEPT !.task = "saving", !.again = FALSE,
                                      !.writing = consumer[c].doc]
  <1>1. WellFormed(k) /\ k.writing # Nothing /\ k.writing = k.doc
    <2>1. consumer[c] \in Consumer /\ consumer[c].doc \in SUBSET Edits
      BY ConsumerType DEF WellFormed, Consumer, Documents
    <2>2. consumer[c].doc # Nothing
      BY <2>1, NothingAssumption
    <2> QED BY <2>1, <2>2 DEF WellFormed, Consumer, Documents
  <1>2. CoversAll(k, Settled)
    BY <1>1 DEF CoversAll, Covers
  <1>3. Steady(k, kept)
    BY ConsumerType DEF Steady, WellFormed, Consumer
  <1>4. consumer' = [consumer EXCEPT ![c] = k]
    BY DEF BeginSave
  <1> HIDE DEF k
  <1> QED BY <1>1, <1>2, <1>3, <1>4, OneConsumer DEF BeginSave, IInv, TypeOK, Settled

\* Once a write is over, what it held is saved, or stays in _save_task, or is
\* settled: nothing else covers less.
LEMMA EndSaveStep ==
    ASSUME IInv, NEW c \in Clients, EndSave(c)
    PROVE  IInv'
  <1> DEFINE doc == consumer[c].writing
  <1>1. WellFormed(consumer[c]) /\ doc \in Documents
    BY ConsumerType DEF EndSave, WellFormed, Consumer
  <1>2. PICK task \in {"none", "failed"} :
          /\ IF task = "none" THEN Store(doc) ELSE Fail(doc, ~IsOpen(c))
          /\ consumer' = [consumer EXCEPT ![c] =
               Ended([consumer[c] EXCEPT !.task = task, !.writing = Nothing])]
    BY DEF EndSave
  <1> DEFINE k == [consumer[c] EXCEPT !.task = task, !.writing = Nothing]
  <1>3. Written(doc)
    BY <1>2 DEF Written
  <1>4. /\ kept \subseteq kept' /\ kept' \in Documents
        /\ failed \subseteq failed' /\ failed' \in Documents
        /\ stored' \in Documents /\ stored' \subseteq kept'
        /\ Settled \subseteq Settled'
    BY <1>1, <1>3, WriteFacts
  <1>5. story => doc \subseteq Settled' \/ (task = "failed" /\ IsOpen(c))
    BY <1>2, SettledFacts DEF Fail
  <1>6. WellFormed(k) /\ Steady(k, kept')
    BY <1>1, <1>2, <1>4, ConsumerType DEF Steady, WellFormed, Consumer
  <1>7. story => CoversAll(k, Settled')
    <2> SUFFICES ASSUME story, NEW e \in Edits, k.writer, e \in k.doc
                 PROVE  \/ e \in Settled'
                        \/ k.due
                        \/ k.task = "failed" /\ k.status = "open"
      BY DEF CoversAll, Covers
    <2>1. Covers(consumer[c], e, Settled) /\ consumer[c].writer /\ e \in consumer[c].doc
      BY <1>1, ConsumerType DEF CoversAll, WellFormed, Consumer
    <2>2. e \in Settled \/ consumer[c].due \/ e \in doc
      BY <2>1 DEF Covers, EndSave
    <2> QED BY <1>1, <1>4, <1>5, <2>2 DEF IsOpen, WellFormed, Consumer
  <1> HIDE DEF k
  <1>8. /\ WellFormed(Ended(k))
        /\ story => CoversAll(Ended(k), Settled')
        /\ Steady(Ended(k), kept')
    BY <1>6, <1>7, EndedFacts, NoConsumerFacts DEF Ended
  <1>9. consumer' = [consumer EXCEPT ![c] = Ended(k)]
    BY <1>2 DEF k
  <1> QED BY <1>4, <1>8, <1>9, OneConsumer DEF EndSave, IInv, TypeOK

LEMMA EndLateSaveStep ==
    ASSUME IInv, NEW c \in Clients, EndLateSave(c)
    PROVE  IInv'
  <1> DEFINE k == [consumer[c] EXCEPT !.late = Nothing]
  <1>1. WellFormed(consumer[c]) /\ consumer[c].late \in Documents
    BY ConsumerType DEF EndLateSave, WellFormed, Consumer
  <1>2. Written(consumer[c].late)
    BY DEF EndLateSave, Written
  <1>3. /\ kept \subseteq kept' /\ kept' \in Documents
        /\ failed \subseteq failed' /\ failed' \in Documents
        /\ stored' \in Documents /\ stored' \subseteq kept'
        /\ Settled \subseteq Settled'
    BY <1>1, <1>2, WriteFacts
  <1>4. WellFormed(k) /\ Steady(k, kept')
    BY <1>1, <1>3, ConsumerType DEF Steady, WellFormed, Consumer
  <1>5. story => CoversAll(k, Settled')
    BY <1>1, <1>3, ConsumerType DEF CoversAll, Covers, WellFormed, Consumer
  <1> HIDE DEF k
  <1>6. /\ WellFormed(Ended(k))
        /\ story => CoversAll(Ended(k), Settled')
        /\ Steady(Ended(k), kept')
    BY <1>4, <1>5, EndedFacts, NoConsumerFacts DEF Ended
  <1>7. consumer' = [consumer EXCEPT ![c] = Ended(k)]
    BY DEF EndLateSave, k
  <1> QED BY <1>3, <1>6, <1>7, OneConsumer DEF EndLateSave, IInv, TypeOK

LEMMA SaveNowStep ==
    ASSUME IInv, NEW c \in Clients, SaveNow(c)
    PROVE  IInv'
  <1> DEFINE k == Forced(consumer[c], "busy")
  <1>1. WellFormed(k) /\ CoversAll(k, Settled) /\ k.status = "busy"
    BY ForceFacts, ConsumerType
  <1>2. consumer' = [consumer EXCEPT ![c] = k] /\ Steady(k, kept)
    BY <1>1 DEF SaveNow, Steady
  <1> HIDE DEF k
  <1> QED BY <1>1, <1>2, OneConsumer DEF SaveNow, IInv, TypeOK, Settled

\* A consumer with nothing to save has nothing that is not saved.
LEMMA DisconnectStep ==
    ASSUME IInv, NEW c \in Clients, Disconnect(c)
    PROVE  IInv'
  <1> DEFINE closed == [consumer[c] EXCEPT !.status = "closed"]
             forced == Forced(consumer[c], "closing")
  <1>1. CASE consumer[c].task = "none"
    <2>1. WellFormed(closed) /\ (story => CoversAll(closed, Settled)) /\ Steady(closed, kept)
      BY <1>1, ConsumerType DEF Disconnect, IsOpen, WellFormed, Consumer, CoversAll, Covers, Steady
    <2>2. consumer' = [consumer EXCEPT ![c] = Ended(closed)]
      BY <1>1 DEF Disconnect
    <2> HIDE DEF closed
    <2>3. /\ WellFormed(Ended(closed))
          /\ story => CoversAll(Ended(closed), Settled)
          /\ Steady(Ended(closed), kept)
      BY <2>1, EndedFacts, NoConsumerFacts DEF Ended
    <2> QED BY <2>2, <2>3, OneConsumer DEF Disconnect, IInv, TypeOK, Settled
  <1>2. CASE consumer[c].task # "none"
    <2>1. WellFormed(forced) /\ CoversAll(forced, Settled) /\ forced.status = "closing"
      BY ForceFacts, ConsumerType
    <2>2. consumer' = [consumer EXCEPT ![c] = forced] /\ Steady(forced, kept)
      BY <1>2, <2>1 DEF Disconnect, Steady
    <2> HIDE DEF forced
    <2> QED BY <2>1, <2>2, OneConsumer DEF Disconnect, IInv, TypeOK, Settled
  <1> QED BY <1>1, <1>2

LEMMA EndForceStep ==
    ASSUME IInv, NEW c \in Clients, EndForce(c)
    PROVE  IInv'
  <1> DEFINE doc == consumer[c].forced
             status(written) ==
               IF written /\ consumer[c].status = "busy" THEN "open" ELSE "closed"
  <1>1. WellFormed(consumer[c]) /\ doc \in Documents
    BY ConsumerType DEF EndForce, WellFormed, Consumer
  <1>2. PICK written \in BOOLEAN :
          /\ IF written THEN Store(doc) ELSE Fail(doc, TRUE)
          /\ consumer' = [consumer EXCEPT ![c] =
               Ended([consumer[c] EXCEPT !.status = status(written), !.forced = Nothing])]
    BY DEF EndForce
  <1> DEFINE k == [consumer[c] EXCEPT !.status = status(written), !.forced = Nothing]
  <1>3. Written(doc)
    BY <1>2 DEF Written
  <1>4. /\ kept \subseteq kept' /\ kept' \in Documents
        /\ failed \subseteq failed' /\ failed' \in Documents
        /\ stored' \in Documents /\ stored' \subseteq kept'
        /\ Settled \subseteq Settled'
    BY <1>1, <1>3, WriteFacts
  <1>5. story => doc \subseteq Settled'
    BY <1>2, SettledFacts
  <1>6. WellFormed(k) /\ Steady(k, kept')
    BY <1>1 DEF Steady, WellFormed, Consumer
  <1>7. story => CoversAll(k, Settled')
    <2> SUFFICES ASSUME story, NEW e \in Edits, k.writer, e \in k.doc
                 PROVE  \/ e \in Settled'
                        \/ k.due
                        \/ k.task = "sleeping"
                        \/ k.task = "failed" /\ k.status = "open"
                        \/ k.writing # Nothing /\ e \in k.writing
      BY DEF CoversAll, Covers
    <2>1. Covers(consumer[c], e, Settled) /\ consumer[c].writer /\ e \in consumer[c].doc
      BY <1>1, ConsumerType DEF CoversAll, WellFormed, Consumer
    <2>2. \/ e \in Settled \/ consumer[c].due \/ e \in doc
          \/ consumer[c].task = "sleeping"
          \/ consumer[c].writing # Nothing /\ e \in consumer[c].writing
      BY <2>1, ConsumerType DEF Covers, EndForce, Steady
    <2> QED BY <1>1, <1>4, <1>5, <2>2 DEF WellFormed, Consumer
  <1> HIDE DEF k
  <1>8. /\ WellFormed(Ended(k))
        /\ story => CoversAll(Ended(k), Settled')
        /\ Steady(Ended(k), kept')
    BY <1>6, <1>7, EndedFacts, NoConsumerFacts DEF Ended
  <1>9. consumer' = [consumer EXCEPT ![c] = Ended(k)]
    BY <1>2 DEF k
  <1> QED BY <1>4, <1>8, <1>9, OneConsumer DEF EndForce, IInv, TypeOK

LEMMA DeleteStoryStep == ASSUME IInv, DeleteStory PROVE IInv'
  BY DEF DeleteStory, IInv, TypeOK, Settled

LEMMA StopStep == ASSUME IInv, Stop PROVE IInv'
  BY NoConsumerFacts DEF Stop, IInv, TypeOK, WellFormed, Settled

LEMMA StutteringStep == ASSUME IInv, UNCHANGED vars PROVE IInv'
  BY DEF vars, IInv, TypeOK, CoversAll, Covers, Steady, Settled

LEMMA StepHolds == IInv /\ [Next]_vars => IInv'
  <1> SUFFICES ASSUME IInv, [Next]_vars PROVE IInv'
    OBVIOUS
  <1>1. ASSUME NEW c \in Clients, MessageStep(c) PROVE IInv'
    BY <1>1, ConnectStep, AdmitStep, RefuseStep, ReceiveStep, SaveNowStep, DisconnectStep
       DEF MessageStep
  <1>2. ASSUME NEW c \in Clients, TaskStep(c) PROVE IInv'
    BY <1>2, ScheduleSaveStep, BeginSaveStep, EndSaveStep, EndLateSaveStep, EndForceStep
       DEF TaskStep
  <1> QED BY <1>1, <1>2, EditStep, DeleteStoryStep, StopStep, StutteringStep DEF Next

-----------------------------------------------------------------------------

\* The states of the consumers are what the code can leave them in.
THEOREM CollaborationTypeCorrect == Spec => []TypeOK
  <1>1. IInv => TypeOK
    BY DEF IInv
  <1> QED BY <1>1, InitHolds, StepHolds, PTL DEF Spec

\* At every moment, an edit that the server took from a client that can write is
\* in the database or in a save to come (schedule_save, force_save, disconnect), or
\* was in a write that failed and that nothing follows, however many browsers write,
\* leave and come back.
THEOREM NoEditForgotten == Spec => []NothingIsForgotten
  <1> QED BY InvariantSuffices, InitHolds, StepHolds, PTL DEF Spec
=============================================================================
