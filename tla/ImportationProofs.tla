-------------------------- MODULE ImportationProofs --------------------------
(***************************************************************************)
(* The import of a project, for any file, any number of requests and any   *)
(* stories created or deleted meanwhile: the references of the stories     *)
(* stay unique, and an import that says it is over is complete. A finished *)
(* import has a job that ended, which is why no late write can take it     *)
(* back; a project is created once, which is why a reference that is drawn *)
(* cannot outlive the sequence it was drawn from. Then the safety behind   *)
(* the two liveness properties: nothing that is someone's is lost on its   *)
(* way to them, and an import that is not over has a job.                  *)
(***************************************************************************)
EXTENDS Importation, TLAPS

-----------------------------------------------------------------------------
(* The records.                                                            *)

LEMMA GotoFacts ==
    ASSUME NEW t \in Task, NEW step \in Steps
    PROVE  LET n == [t EXCEPT !.step = step] IN
           n \in Task /\ n.step = step /\ n.next = t.next /\ n.last = t.last /\ n.people = t.people
  BY DEF Task

LEMMA StatusFacts ==
    ASSUME NEW i \in Importation, NEW status \in Statuses
    PROVE  LET n == [i EXCEPT !.status = status] IN
           n \in Importation /\ n.status = status /\ n.linked = i.linked
  BY DEF Importation

LEMMA LinkFacts ==
    ASSUME NEW i \in Importation
    PROVE  LET n == [i EXCEPT !.linked = TRUE] IN
           n \in Importation /\ n.status = i.status /\ n.linked
  BY DEF Importation

LEMMA PendingFacts ==
    ASSUME NEW i \in Importation, NEW people \in Invites
    PROVE  LET n == [i EXCEPT !.pending = people] IN
           n \in Importation /\ n.status = i.status /\ n.linked = i.linked
  BY DEF Importation

LEMMA InvitesType ==
    ASSUME NEW f
    PROVE  f \in Invites <=> \E P \in SUBSET Addresses : f \in [P -> SUBSET File]
  BY DEF Invites

\* What a step of the job that writes the row leaves.
LEMMA UpdateFacts ==
    ASSUME TypeOK, NEW row, NEW next \in Task, Exists => row \in Importation, Update(row, next)
    PROVE  /\ importation' \in Importation \cup {Nothing} /\ task' \in Task /\ broken' \in BOOLEAN
           /\ \/ Exists /\ importation' = row /\ task' = next
              \/ /\ ~Exists /\ ~Exists'
                 /\ task'.step = "ended" /\ task'.next = task.next /\ task'.last = task.last
  <1>1. CASE Exists
    BY <1>1 DEF Update, TypeOK
  <1>2. CASE ~Exists
    <2>1. task' = [task EXCEPT !.step = "ended"]
      BY <1>2 DEF Update, Goto
    <2>2. task \in Task /\ "ended" \in Steps
      BY DEF TypeOK, Steps
    <2> QED BY <1>2, <2>1, <2>2, GotoFacts DEF Update, TypeOK, Exists
  <1> QED BY <1>1, <1>2

LEMMA BreakFacts ==
    ASSUME TypeOK, Break
    PROVE  /\ task' \in Task /\ broken' \in BOOLEAN /\ importation' = importation
           /\ task'.step = "ended" /\ task'.next = task.next /\ task'.last = task.last
  <1>1. task' = [task EXCEPT !.step = "ended"]
    BY DEF Break, Goto
  <1>2. task \in Task /\ "ended" \in Steps
    BY DEF TypeOK, Steps
  <1> QED BY <1>1, <1>2, GotoFacts DEF Break

-----------------------------------------------------------------------------
(* The job and the requests: what is finished stays so.                    *)

BeforeProject == {"none", "queued", "invalid", "valid", "creating"}

\* The status says how the import ended; the file may have to be written yet.
Closed == task.step \in {"rewriting", "ended"}

\* An action may be under way when the file cannot be written, and the import that
\* had no stories is a failure; it ends as a success nevertheless.
ImportInv ==
    /\ project # "none" => task.step \notin BeforeProject
    /\ task.next >= 1
    /\ At("closing") => task.next > task.last
    /\ At("rewriting") => task.last = 0 /\ (Exists => HasEnded(importation))
    /\ Exists /\ importation.linked => project = "there"
    /\ Exists /\ task.step \in {"users", "stories", "closing", "rewriting"} => importation.linked
    /\ Exists /\ HasEnded(importation) =>
         Closed /\ importation.linked /\ task.next > task.last
    /\ \A r \in Requests : request[r] # Nothing /\ request[r].op = "act" =>
         /\ Closed
         /\ Exists => /\ importation.linked /\ task.next > task.last
                      /\ HasEnded(importation) \/ task.last = 0

\* A step of the job.
LEMMA TaskStepHolds ==
    ASSUME TypeOK, ImportInv, TaskStep \/ SaveProgress \/ Fail \/ FailWithoutRetry \/ Abort
    PROVE  ImportInv' /\ importation' \in Importation \cup {Nothing} /\ task' \in Task /\ broken' \in BOOLEAN
           /\ project' \in {"none", "there", "gone"}
  <1> DEFINE Typed == /\ importation' \in Importation \cup {Nothing} /\ task' \in Task
                      /\ broken' \in BOOLEAN /\ project' \in {"none", "there", "gone"}
  <1>0. /\ task \in Task /\ broken \in BOOLEAN /\ importation \in Importation \cup {Nothing}
        /\ project \in {"none", "there", "gone"}
        /\ task.people \in Invites /\ task.next \in Nat /\ task.last \in {0, FileSize}
    BY DEF TypeOK, Task
  <1>1. CASE ImportTaigaProject
    <2>1. ASSUME NEW step \in {"ended", "invalid"}, Goto(step)
          PROVE  /\ task' \in Task /\ task'.step = step
                 /\ task'.next = task.next /\ task'.last = task.last
      <3>1. step \in Steps /\ task' = [task EXCEPT !.step = step]
        BY <2>1 DEF Goto, Steps
      <3> QED BY <1>0, <3>1, GotoFacts
    <2>2. ASSUME NEW file \in Files,
                 task' = [step |-> "valid", people |-> [a \in file.people |-> {}], next |-> 1,
                          last |-> IF file.kanban THEN FileSize ELSE 0]
          PROVE  task' \in Task /\ task'.step = "valid" /\ task'.next = 1
      <3>1. file.people \in SUBSET Addresses
        BY ImportationAssumption
      <3>2. [a \in file.people |-> {}] \in Invites
        BY <3>1, InvitesType
      <3> QED BY <2>2, <3>2 DEF Task, Steps
    <2>3. /\ task' \in Task /\ task'.step \in {"ended", "invalid", "valid"} /\ task'.next >= 1
          /\ broken' \in BOOLEAN
      <3>1. \/ Goto("ended") /\ broken' = TRUE
            \/ Goto("invalid") /\ broken' = broken
            \/ /\ broken' = broken
               /\ \E file \in Files :
                    task' = [step |-> "valid", people |-> [a \in file.people |-> {}], next |-> 1,
                             last |-> IF file.kanban THEN FileSize ELSE 0]
        BY <1>1 DEF ImportTaigaProject
      <3>2. task.next >= 1
        BY DEF ImportInv
      <3>3. CASE Goto("ended") /\ broken' = TRUE
        BY <2>1, <3>2, <3>3
      <3>4. CASE Goto("invalid") /\ broken' = broken
        BY <1>0, <2>1, <3>2, <3>4
      <3>5. ASSUME NEW file \in Files,
                   task' = [step |-> "valid", people |-> [a \in file.people |-> {}], next |-> 1,
                            last |-> IF file.kanban THEN FileSize ELSE 0]
            PROVE  task' \in Task /\ task'.step \in {"ended", "invalid", "valid"} /\ task'.next >= 1
        <4>1. task' \in Task /\ task'.step = "valid" /\ task'.next = 1
          BY <2>2, <3>5, Zenon
        <4> QED BY <4>1
      <3> QED BY <1>0, <3>1, <3>3, <3>4, <3>5
    <2>4. task.step = "queued" /\ UNCHANGED <<importation, project, request>>
      BY <1>1 DEF ImportTaigaProject, At, userVars
    <2> QED BY <1>0, <2>3, <2>4 DEF ImportInv, Closed, At, Exists, HasEnded, BeforeProject
  <1>2. CASE RejectFile
    <2> DEFINE row == [importation EXCEPT !.status = "failure"]
               next == [task EXCEPT !.step = "ended"]
    <2>1. /\ next \in Task /\ next.step = "ended" /\ next.next = task.next
          /\ Exists => row \in Importation /\ row.status = "failure" /\ row.linked = importation.linked
      BY <1>0, GotoFacts, StatusFacts DEF Steps, Statuses, Exists
    <2>2. Update(row, next)
      BY <1>2 DEF RejectFile
    <2> HIDE DEF row, next
    <2>3. /\ task' \in Task /\ task'.step \in {"ended", "ended"} /\ task'.next = task.next
          /\ importation' \in Importation \cup {Nothing} /\ broken' \in BOOLEAN
          /\ Exists' => Exists /\ importation'.status = "failure" /\ importation'.linked = importation.linked
      BY <2>1, <2>2, UpdateFacts
    <2>4. UNCHANGED <<project, request>> /\ task.step \in {"invalid"}
      BY <1>2 DEF RejectFile, At, userVars
    <2> QED BY <1>0, <2>3, <2>4 DEF ImportInv, Closed, At, HasEnded, BeforeProject
  <1>3. CASE Start
    <2> DEFINE row == [importation EXCEPT !.status = "ongoing"]
               next == [task EXCEPT !.step = "creating"]
    <2>1. /\ next \in Task /\ next.step = "creating" /\ next.next = task.next
          /\ Exists => row \in Importation /\ row.status = "ongoing" /\ row.linked = importation.linked
      BY <1>0, GotoFacts, StatusFacts DEF Steps, Statuses, Exists
    <2>2. Update(row, next)
      BY <1>3 DEF Start
    <2> HIDE DEF row, next
    <2>3. /\ task' \in Task /\ task'.step \in {"creating", "ended"} /\ task'.next = task.next
          /\ importation' \in Importation \cup {Nothing} /\ broken' \in BOOLEAN
          /\ Exists' => Exists /\ importation'.status = "ongoing" /\ importation'.linked = importation.linked
      BY <2>1, <2>2, UpdateFacts
    <2>4. UNCHANGED <<project, request>> /\ task.step \in {"valid"}
      BY <1>3 DEF Start, At, userVars
    <2> QED BY <1>0, <2>3, <2>4 DEF ImportInv, Closed, At, HasEnded, BeforeProject
  <1>4. CASE CreateProject
    <2>1. task' \in Task /\ task'.step = "linking" /\ task'.next = task.next /\ task'.last = task.last
      BY <1>0, <1>4, GotoFacts DEF CreateProject, Goto, Steps
    <2> QED BY <1>0, <1>4, <2>1
        DEF CreateProject, ImportInv, Closed, At, Exists, HasEnded, BeforeProject, userVars
  <1>5. ASSUME Break, UNCHANGED <<project, request>>, ~At("ended")
        PROVE  ImportInv' /\ Typed
    BY <1>0, <1>5, BreakFacts DEF ImportInv, Closed, At, Exists, HasEnded, BeforeProject
  <1>6. CASE LinkProject /\ project = "there"
    <2> DEFINE row == [importation EXCEPT !.linked = TRUE]
               next == [task EXCEPT !.step = "users"]
    <2>1. next \in Task /\ next.step = "users" /\ next.next = task.next
      BY <1>0, GotoFacts DEF Steps
    <2>5. Exists => row \in Importation /\ row.status = importation.status /\ row.linked
      BY <1>0, LinkFacts DEF Exists
    <2>2. Update(row, next)
      BY <1>6 DEF LinkProject
    <2> HIDE DEF row, next
    <2>3. /\ task' \in Task /\ task'.step \in {"users", "ended"} /\ task'.next = task.next
          /\ importation' \in Importation \cup {Nothing} /\ broken' \in BOOLEAN
          /\ Exists' => Exists /\ importation'.status = importation.status /\ importation'.linked
      BY <2>1, <2>2, <2>5, UpdateFacts
    <2>4. UNCHANGED <<project, request>> /\ task.step = "linking" /\ project = "there"
      BY <1>6 DEF LinkProject, At, userVars
    <2> QED BY <1>0, <2>3, <2>4 DEF ImportInv, Closed, At, HasEnded, BeforeProject
  <1>7. CASE ImportUsers \/ SaveProgress
    <2> DEFINE row == [importation EXCEPT !.pending = task.people]
    <2>1. Exists => /\ row \in Importation /\ row.status = importation.status
                    /\ row.linked = importation.linked
      BY <1>0, PendingFacts DEF Exists
    <2>2. PICK step \in {"closing", "stories"} :
            /\ Update(row, [task EXCEPT !.step = step])
            /\ step = "closing" => task.next > task.last
      <3>1. CASE ImportUsers
        <4>1. task.next > 0
          BY <1>0 DEF ImportInv
        <4> QED BY <3>1, <4>1 DEF ImportUsers
      <3>2. CASE SaveProgress /\ task.next > task.last
        BY <3>2 DEF SaveProgress
      <3>3. CASE SaveProgress /\ ~(task.next > task.last)
        <4>1. task.step = "stories"
          BY <3>3 DEF SaveProgress, At
        <4>2. [task EXCEPT !.step = @] = [task EXCEPT !.step = "stories"]
          BY <4>1
        <4> QED BY <3>3, <4>2 DEF SaveProgress
      <3> QED BY <1>7, <3>1, <3>2, <3>3
    <2> DEFINE next == [task EXCEPT !.step = step]
    <2>3. next \in Task /\ next.step = step /\ next.next = task.next /\ next.last = task.last
      <3>1. step \in Steps
        BY DEF Steps
      <3> QED BY <1>0, <3>1, GotoFacts
    <2>4. Update(row, next)
      BY <2>2
    <2> HIDE DEF row, next
    <2>5. UNCHANGED <<project, request>> /\ task.step \in {"users", "stories"}
      BY <1>7 DEF ImportUsers, SaveProgress, At, userVars
    <2> QED BY <1>0, <2>1, <2>2, <2>3, <2>4, <2>5, UpdateFacts DEF ImportInv, Closed, At, HasEnded, BeforeProject
  <1>8. CASE BulkCreateAll /\ project = "there"
    <2> DEFINE people == WithBatch(task.people, task.next..BatchEnd)
               k == [task EXCEPT !.people = people]
               n == [k EXCEPT !.next = BatchEnd + 1]
    <2>1. BatchEnd \in Nat /\ task.next <= BatchEnd /\ BatchEnd <= FileSize /\ task.next >= 1
      BY <1>0, <1>8, ImportationAssumption DEF BulkCreateAll, BatchEnd, ImportInv
    <2>2. people \in Invites
      <3>1. PICK P \in SUBSET Addresses : task.people \in [P -> SUBSET File]
        BY <1>0, InvitesType
      <3>2. task.next..BatchEnd \subseteq File
        BY <2>1, <1>0, ImportationAssumption DEF File
      <3>3. people \in [P -> SUBSET File]
        BY <3>1, <3>2 DEF WithBatch
      <3> QED BY <3>3, InvitesType
    <2>3. k \in Task /\ k.step = task.step /\ k.last = task.last
      <3> HIDE DEF people
      <3> QED BY <1>0, <2>2 DEF Task
    <2>4. n \in Task /\ n.step = task.step /\ n.last = task.last /\ n.next = BatchEnd + 1
      <3> HIDE DEF k
      <3> QED BY <1>0, <2>1, <2>3 DEF Task
    <2>5. task' = [task EXCEPT !.people = people, !.next = BatchEnd + 1]
      BY <1>8 DEF BulkCreateAll
    <2>6. [task EXCEPT !.people = people, !.next = BatchEnd + 1] = n
      <3> HIDE DEF people
      <3> QED BY <1>0 DEF Task
    <2>7. task' = n
      BY <2>5, <2>6
    <2>8. UNCHANGED <<importation, project, request, broken>> /\ task.step = "stories"
      BY <1>8 DEF BulkCreateAll, At, userVars
    <2>9. task' \in Task /\ task'.step = "stories" /\ task'.next >= 1
      <3> HIDE DEF n
      <3> QED BY <2>1, <2>4, <2>7, <2>8
    <2> QED BY <1>0, <2>8, <2>9 DEF ImportInv, Closed, At, Exists, HasEnded, BeforeProject
  <1>9. CASE CloseImportation
    <2> DEFINE status == IF DOMAIN task.people # {} THEN "action needed" ELSE "success"
               row == [importation EXCEPT !.status = status]
               step == IF task.last = 0 THEN "rewriting" ELSE "ended"
               next == [task EXCEPT !.step = step]
    <2>1. next \in Task /\ next.step = step /\ next.next = task.next /\ next.last = task.last
      <3>1. step \in Steps
        BY DEF Steps
      <3> HIDE DEF step
      <3> QED BY <1>0, <3>1, GotoFacts
    <2>4. Exists => row \in Importation /\ row.linked = importation.linked /\ HasEnded(row)
      <3>1. status \in Statuses /\ status \in {"action needed", "success"}
        BY DEF Statuses
      <3> HIDE DEF status
      <3> QED BY <1>0, <3>1, StatusFacts DEF Exists, HasEnded
    <2>2. Update(row, next)
      BY <1>9 DEF CloseImportation
    <2>3. \A r \in Requests : request[r] # Nothing => request[r].op # "act"
      BY <1>9 DEF CloseImportation, At, ImportInv, Closed
    <2> HIDE DEF row, next
    <2>5. /\ task' = next \/ (~Exists' /\ task'.step = "ended" /\ task'.next = task.next)
          /\ task' \in Task /\ importation' \in Importation \cup {Nothing} /\ broken' \in BOOLEAN
          /\ Exists' => Exists /\ task' = next /\ importation'.linked = importation.linked
                        /\ HasEnded(importation')
      BY <2>1, <2>2, <2>4, UpdateFacts
    <2>6. UNCHANGED <<project, request>> /\ task.step = "closing"
      BY <1>9 DEF CloseImportation, At, userVars
    <2> QED BY <1>0, <2>1, <2>3, <2>5, <2>6 DEF ImportInv, Closed, At, HasEnded, BeforeProject
  <1>10. CASE Fail
    <2> DEFINE row == [importation EXCEPT !.status = "failure"]
               next == [task EXCEPT !.step = "ended"]
    <2>1. /\ next \in Task /\ next.step = "ended" /\ next.next = task.next /\ next.last = task.last
          /\ Exists => row \in Importation /\ row.status = "failure" /\ row.linked = importation.linked
      BY <1>0, GotoFacts, StatusFacts DEF Steps, Statuses, Exists
    <2>2. Update(row, next)
      BY <1>10 DEF Fail
    <2> HIDE DEF row, next
    <2>3. /\ task' \in Task /\ task'.step = "ended" /\ task'.next = task.next /\ task'.last = task.last
          /\ importation' \in Importation \cup {Nothing} /\ broken' \in BOOLEAN
          /\ Exists' => Exists /\ importation'.status = "failure" /\ importation'.linked = importation.linked
      BY <2>1, <2>2, UpdateFacts
    <2>4. /\ UNCHANGED <<project, request>>
          /\ task.step \in {"creating", "linking", "users", "stories", "rewriting"} \/ task.step = "closing"
      BY <1>10 DEF Fail, MayFail, At, userVars
    <2>5. ASSUME NEW r \in Requests, request[r] # Nothing, request[r].op = "act"
          PROVE  task.last = 0 /\ (Exists => importation.linked /\ task.next > task.last)
      BY <2>4, <2>5 DEF ImportInv, Closed, At
    <2> QED BY <1>0, <2>3, <2>4, <2>5 DEF ImportInv, Closed, At, HasEnded, BeforeProject
  <1>14. CASE RewriteFile
    <2>1. /\ task' \in Task /\ task'.step = "ended" /\ task'.next = task.next /\ task'.last = task.last
          /\ UNCHANGED <<importation, project, request, broken>> /\ task.step = "rewriting"
      BY <1>0, <1>14, GotoFacts DEF RewriteFile, Goto, At, Steps, userVars
    <2> QED BY <1>0, <2>1 DEF ImportInv, Closed, At, Exists, HasEnded, BeforeProject
  <1>11. LinkProject /\ project # "there" => Break /\ UNCHANGED <<project, request>> /\ ~At("ended")
    BY DEF LinkProject, At, userVars
  <1>12. BulkCreateAll /\ project # "there" => Break /\ UNCHANGED <<project, request>> /\ ~At("ended")
    BY DEF BulkCreateAll, At, userVars
  <1>13. FailWithoutRetry \/ Abort => Break /\ UNCHANGED <<project, request>> /\ ~At("ended")
    BY DEF FailWithoutRetry, Abort, Running, At, userVars
  <1> QED BY <1>1, <1>2, <1>3, <1>4, <1>5, <1>6, <1>7, <1>8, <1>9, <1>10, <1>11, <1>12, <1>13, <1>14
          DEF TaskStep

-----------------------------------------------------------------------------
(* The references.                                                         *)

\* Of the stories that are there or about to be.
RefsAreDistinct ==
    \A s, t \in Stories :
        /\ refs[s] # NoRef => refs[s] <= Last
        /\ drawn[s] # NoRef => drawn[s] <= Last
        /\ refs[s] # NoRef /\ drawn[t] # NoRef => refs[s] # drawn[t]
        /\ s # t /\ refs[s] # NoRef => refs[s] # refs[t]
        /\ s # t /\ drawn[s] # NoRef => drawn[s] # drawn[t]

RefInv ==
    /\ project # "there" => \A s \in Stories : refs[s] = NoRef
    /\ project = "none" => \A s \in Stories : drawn[s] = NoRef
    /\ project = "there" => RefsAreDistinct

LEMMA LastType == ReferencesTypeOK => Last \in Nat
  BY StoriesAssumption DEF ReferencesTypeOK, Last

LEMMA DropKeeps ==
    ASSUME ReferencesTypeOK, DropSequence, project' = "gone"
    PROVE  ReferencesTypeOK' /\ RefInv'
  BY DEF ReferencesTypeOK, DropSequence, RefInv

LEMMA CreateKeeps ==
    ASSUME ReferencesTypeOK, RefInv, project = "none", CreateSequence, UNCHANGED <<refs, drawn>>,
           project' = "there"
    PROVE  ReferencesTypeOK' /\ RefInv'
  BY DEF ReferencesTypeOK, CreateSequence, RefInv, RefsAreDistinct

LEMMA DrawKeeps ==
    ASSUME ReferencesTypeOK, RefInv, project # "none", UNCHANGED project,
           NEW s \in Stories, DrawReference(s)
    PROVE  ReferencesTypeOK' /\ RefInv'
  <1>1. Last \in Nat /\ Last' = Last + 1
    BY LastType, StoriesAssumption DEF DrawReference, Last
  <1>2. ReferencesTypeOK'
    BY <1>1 DEF ReferencesTypeOK, DrawReference
  <1>3. \A t \in Stories : /\ drawn'[t] = IF t = s THEN Last + 1 ELSE drawn[t]
                           /\ refs'[t] = refs[t]
                           /\ refs[t] \in Nat \cup {NoRef} /\ drawn[t] \in Nat \cup {NoRef}
    BY DEF ReferencesTypeOK, DrawReference
  <1>4. RefsAreDistinct => RefsAreDistinct'
    BY <1>1, <1>3, StoriesAssumption DEF RefsAreDistinct
  <1> QED BY <1>2, <1>3, <1>4 DEF RefInv

LEMMA InsertKeeps ==
    ASSUME ReferencesTypeOK, RefInv, project = "there", UNCHANGED project,
           NEW s \in Stories, InsertStory(s)
    PROVE  ReferencesTypeOK' /\ RefInv'
  <1>1. ReferencesTypeOK'
    BY DEF ReferencesTypeOK, InsertStory
  <1>2. \A t \in Stories : /\ refs'[t] = IF t = s THEN drawn[s] ELSE refs[t]
                           /\ drawn'[t] = IF t = s THEN NoRef ELSE drawn[t]
    BY DEF ReferencesTypeOK, InsertStory
  <1>3. Last' = Last
    BY DEF Last, InsertStory
  <1>4. drawn[s] # NoRef
    BY DEF InsertStory
  <1>5. RefsAreDistinct'
    BY <1>2, <1>3, <1>4 DEF RefInv, RefsAreDistinct
  <1> QED BY <1>1, <1>5 DEF RefInv

\* A story that is deleted, or whose creation fails.
LEMMA LessKeeps ==
    ASSUME ReferencesTypeOK, RefInv, UNCHANGED <<project, sequence>>,
           \A s \in Stories : refs'[s] \in {refs[s], NoRef} /\ drawn'[s] \in {drawn[s], NoRef}
    PROVE  RefInv'
  <1>1. Last' = Last
    BY DEF Last
  <1>2. RefsAreDistinct => RefsAreDistinct'
    BY <1>1 DEF RefsAreDistinct
  <1> QED BY <1>2 DEF RefInv

LEMMA BatchKeeps ==
    ASSUME ReferencesTypeOK, RefInv, UNCHANGED project, NEW first \in Nat, NEW last \in Nat,
           first <= last, NextValues(first, last),
           IF project = "there" THEN InsertStories(first, last) ELSE refs' = refs
    PROVE  ReferencesTypeOK' /\ RefInv'
  <1>1. Last \in Nat /\ Last' = Last + (last + 1 - first) /\ last + 1 - first \in Nat /\ sequence' \in Nat
    <2>1. Last \in Nat /\ last + 1 - first \in Nat
      BY LastType
    <2>2. sequence' = Last + (last + 1 - first)
      BY DEF NextValues
    <2> HIDE DEF Last
    <2>3. sequence' \in Nat
      BY <2>1, <2>2
    <2>4. Last' = sequence'
      BY <2>3, StoriesAssumption DEF Last
    <2> QED BY <2>1, <2>2, <2>3, <2>4
  <1>2. \A s \in Stories : refs[s] \in Nat \cup {NoRef} /\ drawn[s] \in Nat \cup {NoRef} /\ s \in Nat
    BY StoriesAssumption DEF ReferencesTypeOK
  <1>3. CASE project # "there"
    BY <1>1, <1>3 DEF ReferencesTypeOK, RefInv, NextValues
  <1>4. CASE project = "there"
    <2>1. \A s \in Stories : /\ drawn'[s] = drawn[s]
                             /\ refs'[s] = IF s \in first..last THEN Last + (s + 1 - first) ELSE refs[s]
      BY <1>4 DEF InsertStories, NextValues
    <2>2. \A s \in Stories : s \in first..last =>
            s + 1 - first \in Nat /\ s + 1 - first >= 1 /\ s + 1 - first <= last + 1 - first
      BY <1>2
    <2>3. ReferencesTypeOK'
      BY <1>1, <1>2, <1>4, <2>2 DEF ReferencesTypeOK, InsertStories, NextValues
    <2>4. RefsAreDistinct
      BY <1>4 DEF RefInv
    <2>5. ASSUME NEW s \in Stories
          PROVE  /\ (refs[s] # NoRef => refs[s] <= Last)' /\ (drawn[s] # NoRef => drawn[s] <= Last)'
                 /\ s \in first..last => refs'[s] > Last /\ refs'[s] # NoRef
      BY <1>1, <1>2, <2>1, <2>2, <2>4, StoriesAssumption DEF RefsAreDistinct
    <2>6. ASSUME NEW s \in Stories, NEW t \in Stories
          PROVE  /\ (refs[s] # NoRef /\ drawn[t] # NoRef => refs[s] # drawn[t])'
                 /\ (s # t /\ drawn[s] # NoRef => drawn[s] # drawn[t])'
      BY <1>1, <1>2, <2>1, <2>4, <2>5 DEF RefsAreDistinct
    <2>7. ASSUME NEW s \in Stories, NEW t \in Stories, s # t, refs'[s] # NoRef
          PROVE  refs'[s] # refs'[t]
      BY <1>1, <1>2, <2>1, <2>4, <2>5, <2>7, StoriesAssumption DEF RefsAreDistinct
    <2> QED BY <1>4, <2>3, <2>5, <2>6, <2>7 DEF RefInv, RefsAreDistinct
  <1> QED BY <1>3, <1>4

LEMMA RefHolds ==
    ASSUME TypeOK, ImportInv, RefInv, [Next]_vars
    PROVE  ReferencesTypeOK' /\ RefInv'
  <1>0. ReferencesTypeOK
    BY DEF TypeOK
  <1>1. CASE UNCHANGED <<referenceVars, project>>
    BY <1>0, <1>1 DEF referenceVars, ReferencesTypeOK, RefInv, RefsAreDistinct, Last
  <1>2. CASE CreateProject
    <2>1. project = "none"
      BY <1>2 DEF CreateProject, ImportInv, At, BeforeProject
    <2> QED BY <1>0, <1>2, <2>1, CreateKeeps DEF CreateProject
  <1>3. CASE BulkCreateAll
    <2>1. task.next \in Nat /\ task.last \in {0, FileSize} /\ task.next <= task.last
      BY <1>3 DEF BulkCreateAll, TypeOK, Task
    <2>2. BatchEnd \in Nat /\ task.next <= BatchEnd
      BY <2>1, ImportationAssumption DEF BatchEnd, ImportInv
    <2> QED BY <1>0, <1>3, <2>1, <2>2, BatchKeeps DEF BulkCreateAll
  <1>4. CASE DropProject
    BY <1>0, <1>4, DropKeeps DEF DropProject
  <1>5. ASSUME NEW s \in Stories, BeginStory(s) PROVE ReferencesTypeOK' /\ RefInv'
    BY <1>0, <1>5, DrawKeeps DEF BeginStory
  <1>6. ASSUME NEW s \in Stories, EndStory(s) PROVE ReferencesTypeOK' /\ RefInv'
    <2>1. CASE project = "there"
      BY <1>0, <1>6, <2>1, InsertKeeps DEF EndStory
    <2>2. CASE project # "there"
      BY <1>0, <1>6, <2>2, LessKeeps DEF EndStory, ReferencesTypeOK
    <2> QED BY <2>1, <2>2
  <1>7. ASSUME NEW s \in Stories, DeleteStory(s) PROVE ReferencesTypeOK' /\ RefInv'
    BY <1>0, <1>7, LessKeeps DEF DeleteStory, ReferencesTypeOK
  <1>8. ASSUME NEW r \in Requests, RequestStep(r)
        PROVE  DropProject \/ UNCHANGED <<referenceVars, project>>
    BY <1>8 DEF RequestStep, ReadDeletion, DeleteImportation, ReadInvitation, ReadAction, Invite, Refuse,
       Read, KeepProject
  <1>9. TaskStep \/ SaveProgress \/ Fail \/ FailWithoutRetry \/ Abort =>
          CreateProject \/ BulkCreateAll \/ UNCHANGED <<referenceVars, project>>
    BY DEF TaskStep, ImportTaigaProject, RejectFile, Start, LinkProject, ImportUsers, SaveProgress,
       CloseImportation, RewriteFile, Fail, FailWithoutRetry, Abort
  <1>10. ImportProject \/ (\E p \in People : InvitationStep(p) \/ SyncStep(p)) \/ UNCHANGED vars
           => UNCHANGED <<referenceVars, project>>
    BY DEF ImportProject, InvitationStep, AcceptInvitation, DeletePendingInvitation, SyncStep,
       FindPendingObjects, SyncPendingObjects, FailToSync, vars
  <1> QED BY <1>1, <1>2, <1>3, <1>4, <1>5, <1>6, <1>7, <1>8, <1>9, <1>10 DEF Next, DeleteProject, StoryStep

-----------------------------------------------------------------------------
(* The requests.                                                           *)

JobTypeOK ==
    /\ importation \in Importation \cup {Nothing}
    /\ project \in {"none", "there", "gone"}
    /\ task \in Task
    /\ broken \in BOOLEAN

UsersTypeOK ==
    /\ aborted \in BOOLEAN
    /\ request \in [Requests -> Request \cup {Nothing}]
    /\ invitation \in [People -> Invitation \cup {Nothing}]
    /\ syncs \in [People -> SUBSET File]
    /\ found \in [People -> (SUBSET File) \cup {Nothing}]
    /\ credited \in [People -> SUBSET File]
    /\ lost \subseteq People

LEMMA TypeParts == TypeOK <=> ReferencesTypeOK /\ JobTypeOK /\ UsersTypeOK
  BY DEF TypeOK, JobTypeOK, UsersTypeOK

LEMMA ReadKeeps ==
    ASSUME JobTypeOK, UsersTypeOK, ImportInv, NEW r \in Requests,
           NEW op \in {"delete", "invite", "act"}, NEW p \in People \cup {Nothing},
           NEW row \in Importation \cup {Nothing}, Read(r, op, p, row),
           op = "act" => Exists /\ HasEnded(importation)
    PROVE  JobTypeOK' /\ UsersTypeOK' /\ ImportInv'
  <1> DEFINE q == [op |-> op, person |-> p, row |-> row]
  <1>1. q \in Request /\ q.op = op
    BY DEF Request
  <1>2. request' = [request EXCEPT ![r] = q]
    BY DEF Read
  <1> HIDE DEF q
  <1>3. request' \in [Requests -> Request \cup {Nothing}]
    BY <1>1, <1>2 DEF UsersTypeOK
  <1>4. \A s \in Requests : request'[s] = IF s = r THEN q ELSE request[s]
    BY <1>2 DEF UsersTypeOK
  <1>5. UNCHANGED <<importation, task, broken, project, aborted, invitation, syncVars, lost>>
    BY DEF Read, taskVars
  <1> QED BY <1>1, <1>3, <1>4, <1>5 DEF JobTypeOK, UsersTypeOK, syncVars, ImportInv, Closed, At, Exists, HasEnded

\* What a request does to the others and to what they read when it ends.
LEMMA FinishKeeps ==
    ASSUME UsersTypeOK, NEW r \in Requests, Finish(r)
    PROVE  /\ request' \in [Requests -> Request \cup {Nothing}]
           /\ \A s \in Requests : request'[s] # Nothing => request'[s] = request[s]
  BY DEF UsersTypeOK, Finish

LEMMA DeleteImportationKeeps ==
    ASSUME JobTypeOK, UsersTypeOK, ImportInv, NEW r \in Requests, DeleteImportation(r)
    PROVE  JobTypeOK' /\ UsersTypeOK' /\ ImportInv'
  <1>1. /\ task' \in Task /\ aborted' \in BOOLEAN /\ task'.next = task.next /\ task'.last = task.last
        /\ \/ task' = task
           \/ At("queued") /\ task'.step = "ended"
    <2>1. CASE UNCHANGED <<task, aborted>>
      BY <2>1 DEF JobTypeOK, UsersTypeOK
    <2>2. CASE Cancel
      <3>1. task \in Task /\ "ended" \in Steps
        BY DEF JobTypeOK, Steps
      <3>2. task' = task \/ (At("queued") /\ task' = [task EXCEPT !.step = "ended"])
        <4>1. CASE At("queued")
          BY <2>2, <4>1 DEF Cancel, Goto
        <4>2. CASE ~At("queued")
          BY <2>2, <4>2 DEF Cancel
        <4> QED BY <4>1, <4>2
      <3>3. aborted' \in BOOLEAN
        BY <2>2 DEF Cancel
      <3>4. /\ [task EXCEPT !.step = "ended"] \in Task /\ [task EXCEPT !.step = "ended"].step = "ended"
            /\ [task EXCEPT !.step = "ended"].next = task.next /\ [task EXCEPT !.step = "ended"].last = task.last
        BY <3>1, GotoFacts
      <3> QED BY <3>1, <3>2, <3>3, <3>4
    <2> QED BY <2>1, <2>2 DEF DeleteImportation
  <1>2. \/ UNCHANGED <<importation, project, invitation>>
        \/ importation' = Nothing /\ UNCHANGED <<project, invitation>>
        \/ project = "there" /\ DropProject
    BY DEF DeleteImportation, KeepProject
  <1>3. /\ project' \in {"none", "there", "gone"}
        /\ importation' \in {importation, Nothing}
        /\ invitation' \in [People -> Invitation \cup {Nothing}]
        /\ project' = project \/ (project = "there" /\ project' = "gone" /\ (Exists' => ~importation.linked))
    <2>1. CASE project = "there" /\ DropProject
      <3>2. /\ project' = "gone" /\ invitation' = [p \in People |-> Nothing]
            /\ importation' = IF Exists /\ importation.linked THEN Nothing ELSE importation
        BY <2>1 DEF DropProject
      <3> QED BY <2>1, <3>2 DEF Exists
    <2>2. CASE UNCHANGED <<project, invitation>> /\ importation' \in {importation, Nothing}
      BY <2>2 DEF JobTypeOK, UsersTypeOK
    <2> QED BY <1>2, <2>1, <2>2
  <1>4. UNCHANGED <<syncVars, broken, lost>>
    BY DEF DeleteImportation
  <1>5. Finish(r)
    BY DEF DeleteImportation
  <1>6. JobTypeOK' /\ UsersTypeOK'
    BY <1>1, <1>3, <1>4, <1>5, FinishKeeps DEF JobTypeOK, UsersTypeOK, syncVars
  <1>7. Exists' => Exists /\ importation' = importation
    BY <1>3 DEF Exists
  <1>8. project # "none" => ~At("queued")
    BY DEF ImportInv, At, BeforeProject
  <1>9. At("queued") => \A s \in Requests : request[s] # Nothing => request[s].op # "act"
    BY DEF ImportInv, Closed, At
  <1>10. ImportInv'
    BY <1>1, <1>3, <1>5, <1>7, <1>8, <1>9, FinishKeeps DEF ImportInv, Closed, At, HasEnded, BeforeProject
  <1> QED BY <1>6, <1>10

\* The row that an invitation or an action writes.
LEMMA InviteRow ==
    ASSUME JobTypeOK, UsersTypeOK, ImportInv, NEW r \in Requests, Invite(r)
    PROVE  /\ importation' \in Importation \cup {Nothing}
           /\ Exists' => Exists /\ importation'.linked = importation.linked
           /\ Exists /\ HasEnded(importation) => HasEnded(importation)'
           /\ Exists' /\ HasEnded(importation)' => HasEnded(importation) \/ request[r].op = "act"
  <1> DEFINE row == request[r].row
             p == request[r].person
             isNew == p # Nothing /\ invitation[p] = Nothing
             people == IF p = Nothing THEN importation.pending
                       ELSE IF isNew THEN WithoutPerson(row, p) ELSE row.pending
             status == IF request[r].op = "act" THEN "success" ELSE importation.status
             k == [importation EXCEPT !.pending = people]
             n == [k EXCEPT !.status = status]
  <1>1. row \in Importation \cup {Nothing}
    BY DEF UsersTypeOK, Request, Invite, Free
  <1>2. CASE row = Nothing
    <2>1. importation' = importation
      BY <1>2 DEF Invite
    <2> QED BY <2>1 DEF JobTypeOK, Exists, HasEnded
  <1>3. CASE row # Nothing
    <2>1. Exists /\ importation \in Importation /\ row \in Importation
      BY <1>1, <1>3 DEF Invite, JobTypeOK, Exists
    <2>2. people \in Invites
      <3>1. PICK P \in SUBSET Addresses : row.pending \in [P -> SUBSET File]
        BY <2>1, InvitesType DEF Importation
      <3>2. WithoutPerson(row, p) \in [P \ {p} -> SUBSET File]
        BY <3>1 DEF WithoutPerson
      <3>3. WithoutPerson(row, p) \in Invites
        BY <3>2, InvitesType
      <3>4. row.pending \in Invites /\ importation.pending \in Invites
        BY <2>1 DEF Importation
      <3> QED BY <3>3, <3>4
    <2>3. status \in Statuses
      BY <2>1 DEF Importation, Statuses
    <2>4. k \in Importation /\ k.status = importation.status /\ k.linked = importation.linked
      BY <2>1, <2>2, PendingFacts
    <2>5. n \in Importation /\ n.status = status /\ n.linked = importation.linked
      <3> HIDE DEF k, status
      <3> QED BY <2>3, <2>4, StatusFacts
    <2>6. importation' = [importation EXCEPT !.pending = people, !.status = status]
      BY <1>3, <2>1 DEF Invite
    <2>7. importation' = n
      BY <2>1, <2>6 DEF Importation
    <2> HIDE DEF n
    <2> QED BY <2>1, <2>5, <2>7 DEF HasEnded
  <1> QED BY <1>2, <1>3

LEMMA InviteKeeps ==
    ASSUME JobTypeOK, UsersTypeOK, ImportInv, NEW r \in Requests, Invite(r)
    PROVE  JobTypeOK' /\ UsersTypeOK' /\ ImportInv'
  <1> DEFINE row == request[r].row
             p == request[r].person
  <1>1. row \in Importation \cup {Nothing} /\ p \in People \cup {Nothing}
    BY DEF UsersTypeOK, Request, Invite, Free
  <1>2. Carried(row, p) \in SUBSET File
    <2>1. CASE row # Nothing /\ p \in DOMAIN row.pending
      <3>1. PICK P \in SUBSET Addresses : row.pending \in [P -> SUBSET File]
        BY <1>1, <2>1, InvitesType DEF Importation
      <3> QED BY <2>1, <3>1 DEF Carried
    <2> QED BY <2>1 DEF Carried
  <1>3. invitation' \in [People -> Invitation \cup {Nothing}]
    <2>1. [status |-> "pending", carries |-> Carried(row, p)] \in Invitation
      BY <1>2 DEF Invitation
    <2>2. \/ invitation' = invitation
          \/ invitation' = [invitation EXCEPT ![p] = [status |-> "pending", carries |-> Carried(row, p)]]
      BY DEF Invite
    <2> QED BY <2>1, <2>2 DEF UsersTypeOK
  <1>4. lost' \subseteq People
    BY <1>1 DEF Invite, UsersTypeOK
  <1>5. UNCHANGED <<project, task, aborted, broken, syncVars>> /\ Finish(r)
    BY DEF Invite
  <1>6. JobTypeOK' /\ UsersTypeOK'
    BY <1>3, <1>4, <1>5, FinishKeeps, InviteRow DEF JobTypeOK, UsersTypeOK, syncVars
  <1>7. ImportInv'
    <2>1. At("closing")' = At("closing") /\ At("rewriting")' = At("rewriting") /\ Closed' = Closed
      BY <1>5 DEF At, Closed
    <2>2. request[r].op = "act" => Closed /\ (Exists => importation.linked /\ task.next > task.last)
      BY DEF ImportInv, Invite, Free
    <2> QED BY <1>5, <2>1, <2>2, FinishKeeps, InviteRow DEF ImportInv
  <1> QED BY <1>6, <1>7

LEMMA RequestKeeps ==
    ASSUME JobTypeOK, UsersTypeOK, ImportInv, NEW r \in Requests, RequestStep(r)
    PROVE  JobTypeOK' /\ UsersTypeOK' /\ ImportInv'
  <1>1. CASE ReadDeletion(r)
    <2> DEFINE row == [importation EXCEPT !.pending = NoInvites]
    <2>1. row \in Importation
      <3>1. importation \in Importation /\ NoInvites \in Invites
        BY <1>1, InvitesType DEF ReadDeletion, JobTypeOK, Exists, NoInvites
      <3> QED BY <3>1, PendingFacts
    <2>2. Read(r, "delete", Nothing, row)
      BY <1>1 DEF ReadDeletion
    <2> HIDE DEF row
    <2> QED BY <2>1, <2>2, ReadKeeps
  <1>2. ASSUME NEW p \in People, ReadInvitation(r, p) PROVE JobTypeOK' /\ UsersTypeOK' /\ ImportInv'
    <2>1. Linked \in Importation \cup {Nothing}
      BY DEF Linked, JobTypeOK
    <2> QED BY <1>2, <2>1, ReadKeeps DEF ReadInvitation
  <1>3. ASSUME NEW p \in People \cup {Nothing}, ReadAction(r, p)
        PROVE  JobTypeOK' /\ UsersTypeOK' /\ ImportInv'
    <2>1. HasEnded(importation)
      BY <1>3 DEF ReadAction, HasEnded
    <2> QED BY <1>3, <2>1, ReadKeeps DEF ReadAction, JobTypeOK
  <1>4. CASE Refuse(r)
    <2>1. /\ UNCHANGED <<importation, task, broken, project, aborted, invitation, syncVars, lost>>
          /\ Finish(r)
      BY <1>4 DEF Refuse, taskVars
    <2> QED BY <2>1, FinishKeeps
            DEF JobTypeOK, UsersTypeOK, syncVars, ImportInv, Closed, At, Exists, HasEnded
  <1> QED BY <1>1, <1>2, <1>3, <1>4, DeleteImportationKeeps, InviteKeeps DEF RequestStep

-----------------------------------------------------------------------------
IInv == TypeOK /\ ImportInv /\ RefInv

LEMMA InitHolds == Init => IInv
  <1> SUFFICES ASSUME Init PROVE IInv
    OBVIOUS
  <1>1. task \in Task
    <2>1. NoInvites \in Invites
      BY InvitesType DEF NoInvites
    <2> QED BY <2>1 DEF Init, Task, Steps
  <1>2. JobTypeOK /\ UsersTypeOK /\ ReferencesTypeOK
    BY <1>1 DEF Init, ReferencesInit, JobTypeOK, UsersTypeOK, ReferencesTypeOK
  <1>3. ImportInv
    BY DEF Init, ImportInv, Closed, At, Exists, BeforeProject
  <1>4. RefInv
    BY DEF Init, ReferencesInit, RefInv
  <1> QED BY <1>2, <1>3, <1>4, TypeParts DEF IInv

LEMMA StepHolds == IInv /\ [Next]_vars => IInv'
  <1> SUFFICES ASSUME IInv, [Next]_vars PROVE IInv'
    OBVIOUS
  <1>0. TypeOK /\ JobTypeOK /\ UsersTypeOK /\ ImportInv
    BY TypeParts DEF IInv
  <1>1. ASSUME TaskStep \/ SaveProgress \/ Fail \/ FailWithoutRetry \/ Abort
        PROVE  JobTypeOK' /\ UsersTypeOK' /\ ImportInv'
    <2>1. UNCHANGED <<aborted, userVars>>
      BY <1>1 DEF TaskStep, ImportTaigaProject, RejectFile, Start, CreateProject, LinkProject,
         ImportUsers, SaveProgress, BulkCreateAll, CloseImportation, RewriteFile, Fail,
         FailWithoutRetry, Abort
    <2>2. UsersTypeOK'
      BY <1>0, <2>1 DEF UsersTypeOK, userVars, syncVars
    <2> QED BY <1>0, <1>1, <2>2, TaskStepHolds DEF JobTypeOK
  <1>2. ASSUME ImportProject PROVE JobTypeOK' /\ UsersTypeOK' /\ ImportInv'
    <2>1. importation' \in Importation
      <3>1. NoInvites \in Invites
        BY InvitesType DEF NoInvites
      <3> QED BY <1>2, <3>1 DEF ImportProject, Importation, Statuses
    <2>2. task' \in Task /\ task'.step = "queued" /\ task'.next = task.next /\ task.step = "none"
      BY <1>0, <1>2, GotoFacts DEF ImportProject, Goto, At, JobTypeOK, Steps
    <2>3. importation'.status = "pending" /\ importation'.linked = FALSE
      BY <1>2 DEF ImportProject
    <2>4. UNCHANGED <<project, aborted, broken, userVars>>
      BY <1>2 DEF ImportProject
    <2>5. JobTypeOK' /\ UsersTypeOK'
      BY <1>0, <2>1, <2>2, <2>4 DEF JobTypeOK, UsersTypeOK, userVars, syncVars
    <2>6. ImportInv'
      BY <1>0, <2>2, <2>3, <2>4 DEF ImportInv, Closed, At, HasEnded, BeforeProject, userVars
    <2> QED BY <2>5, <2>6
  <1>3. ASSUME NEW r \in Requests, RequestStep(r) PROVE JobTypeOK' /\ UsersTypeOK' /\ ImportInv'
    BY <1>0, <1>3, RequestKeeps
  <1>4. ASSUME NEW p \in People, AcceptInvitation(p) PROVE JobTypeOK' /\ UsersTypeOK' /\ ImportInv'
    <2>1. invitation[p] \in Invitation
      BY <1>0, <1>4 DEF AcceptInvitation, UsersTypeOK
    <2>2. [invitation[p] EXCEPT !.status = "accepted"] \in Invitation /\ invitation[p].carries \in SUBSET File
      BY <2>1 DEF Invitation
    <2>3. invitation' = [invitation EXCEPT ![p] = [invitation[p] EXCEPT !.status = "accepted"]]
      BY <1>4 DEF AcceptInvitation
    <2>4. invitation' \in [People -> Invitation \cup {Nothing}]
      <3> DEFINE i == [invitation[p] EXCEPT !.status = "accepted"]
      <3>1. i \in Invitation /\ invitation' = [invitation EXCEPT ![p] = i]
        BY <2>2, <2>3
      <3> HIDE DEF i
      <3> QED BY <1>0, <3>1 DEF UsersTypeOK
    <2> QED BY <1>0, <1>4, <2>2, <2>4
        DEF AcceptInvitation, JobTypeOK, UsersTypeOK, ImportInv, Closed, At, Exists, HasEnded, taskVars
  <1>12. ASSUME NEW p \in People, DeletePendingInvitation(p)
         PROVE  JobTypeOK' /\ UsersTypeOK' /\ ImportInv'
    <2>1. /\ invitation' \in [People -> Invitation \cup {Nothing}] /\ lost' \subseteq People
          /\ UNCHANGED <<importation, task, broken, project, aborted, request, syncs, found, credited>>
      BY <1>0, <1>12 DEF DeletePendingInvitation, UsersTypeOK, taskVars, syncVars
    <2> QED BY <1>0, <2>1 DEF JobTypeOK, UsersTypeOK, ImportInv, Closed, At, Exists, HasEnded
  <1>5. ASSUME NEW p \in People, SyncStep(p) PROVE JobTypeOK' /\ UsersTypeOK' /\ ImportInv'
    <2>1. /\ syncs' \in [People -> SUBSET File] /\ credited' \in [People -> SUBSET File]
          /\ found' \in [People -> (SUBSET File) \cup {Nothing}] /\ lost' \subseteq People
          /\ UNCHANGED <<importation, task, broken, project, aborted, request, invitation>>
      <3>1. CASE FindPendingObjects(p)
        BY <1>0, <3>1 DEF FindPendingObjects, UsersTypeOK, taskVars
      <3>2. CASE SyncPendingObjects(p)
        BY <1>0, <3>2 DEF SyncPendingObjects, UsersTypeOK, taskVars
      <3>3. CASE FailToSync(p)
        BY <1>0, <3>3 DEF FailToSync, UsersTypeOK, taskVars
      <3> QED BY <1>5, <3>1, <3>2, <3>3 DEF SyncStep
    <2> QED BY <1>0, <2>1 DEF JobTypeOK, UsersTypeOK, ImportInv, Closed, At, Exists, HasEnded
  <1>6. ASSUME DeleteProject PROVE JobTypeOK' /\ UsersTypeOK' /\ ImportInv'
    <2>1. /\ UNCHANGED <<task, aborted, request, syncs, found, credited, broken, lost>>
          /\ project = "there" /\ project' = "gone"
          /\ importation' = IF Exists /\ importation.linked THEN Nothing ELSE importation
          /\ invitation' = [q \in People |-> Nothing]
      BY <1>6 DEF DeleteProject, DropProject, syncVars
    <2>2. Exists' => Exists /\ importation' = importation /\ ~importation.linked
      BY <2>1 DEF Exists
    <2>3. JobTypeOK' /\ UsersTypeOK'
      BY <1>0, <2>1 DEF JobTypeOK, UsersTypeOK
    <2>4. ImportInv'
      BY <1>0, <2>1, <2>2 DEF ImportInv, Closed, At, HasEnded
    <2> QED BY <2>3, <2>4
  <1>7. ASSUME UNCHANGED <<taskVars, project, aborted, userVars>>
        PROVE  JobTypeOK' /\ UsersTypeOK' /\ ImportInv'
    BY <1>0, <1>7
    DEF taskVars, userVars, syncVars, JobTypeOK, UsersTypeOK, ImportInv, Closed, At, Exists, HasEnded
  <1>8. StoryStep \/ UNCHANGED vars => UNCHANGED <<taskVars, project, aborted, userVars>>
    BY DEF StoryStep, BeginStory, EndStory, DeleteStory, vars, taskVars, userVars, syncVars
  <1>9. JobTypeOK' /\ UsersTypeOK' /\ ImportInv'
    BY <1>1, <1>2, <1>3, <1>4, <1>5, <1>6, <1>7, <1>8, <1>12 DEF Next, InvitationStep
  <1>10. ReferencesTypeOK' /\ RefInv'
    BY <1>0, RefHolds DEF IInv
  <1>11. TypeOK'
    BY <1>9, <1>10, TypeParts, PTL
  <1> QED BY <1>9, <1>10, <1>11 DEF IInv

LEMMA Invariance == Spec => []IInv
  BY InitHolds, StepHolds, PTL DEF Spec

\* The rows, the job and what the requests read keep their shape.
THEOREM ImportsAreTyped == Spec => []TypeOK
  BY Invariance, PTL DEF IInv

\* For any number of stories created and deleted while a file of any size is
\* imported, two stories of a project never have the same reference
\* (base/db/sequences.py, projects/references).
THEOREM ReferencesAreAlwaysUnique == Spec => []ReferencesAreUnique
  <1>1. IInv => ReferencesAreUnique
    BY DEF IInv, RefInv, RefsAreDistinct, ReferencesAreUnique, Rows
  <1> QED BY <1>1, Invariance, PTL

\* Whatever is cancelled, deleted or invited meanwhile, an import that says it is
\* over has created all that was in its file, and its project is there
\* (import_export/services).
THEOREM FinishedImportsAreAlwaysComplete == Spec => []FinishedImportsAreComplete
  <1>1. IInv => FinishedImportsAreComplete
    BY DEF IInv, ImportInv, FinishedImportsAreComplete
  <1> QED BY <1>1, Invariance, PTL

-----------------------------------------------------------------------------
(* What is theirs: what InviteesAreCredited promises is done, or a job that*)
(* was queued holds it. Before someone is invited, every row that says the *)
(* import has ended, and that a request may write back, has what is theirs.*)

\* Those whose data was neither written over, nor deleted, nor failed to be synced.
InTime == People \ lost

\* A row that says so holds what is theirs for all those who have no invitation.
HoldsTheirs(row) ==
    row # Nothing /\ HasEnded(row) =>
        /\ Closed
        /\ project = "there" =>
             \A p \in InTime : invitation[p] = Nothing => Theirs(p) \subseteq Carried(row, p)

RowsHoldTheirs ==
    /\ HoldsTheirs(importation)
    /\ \A r \in Requests : request[r] # Nothing /\ request[r].op # "delete" =>
         HoldsTheirs(request[r].row)

\* An import without kanban has nothing that is theirs.
NothingToCarry == task.last = 0 => \A a \in DOMAIN task.people : task.people[a] = {}

\* The last thing the job writes before it closes the import is what it knows.
LastSaveIsWhole ==
    At("closing") /\ Exists /\ InTime # {} => importation.pending = task.people

InvitationsCarryTheirs ==
    \A p \in InTime :
        /\ invitation[p] # Nothing => Closed
        /\ invitation[p] # Nothing /\ invitation[p].status = "pending" =>
             Theirs(p) \subseteq invitation[p].carries

NothingIsLost ==
    \A p \in InTime :
        invitation[p] # Nothing /\ invitation[p].status = "accepted" =>
            Theirs(p) \subseteq credited[p] \cup syncs[p]

TheirsInv ==
    NothingIsLost /\ InvitationsCarryTheirs /\ RowsHoldTheirs /\ LastSaveIsWhole /\ NothingToCarry

\* What adds nothing to what is theirs, to the invitations or to the rows.
LEMMA LessIsTheirs ==
    ASSUME TheirsInv,
           Closed => /\ Closed'
                     /\ project' = "there" => project = "there"
                     /\ \A p \in People : Theirs(p)' \subseteq Theirs(p),
           UNCHANGED <<lost, syncs, credited>>,
           invitation' = invitation
             \/ (project' # "there" /\ \A p \in People : invitation'[p] = Nothing),
           importation' \in {importation, Nothing},
           \A r \in Requests : request'[r] # Nothing =>
             request'[r].row \in {Nothing, importation} \/ request'[r].op = "delete"
               \/ (request[r] # Nothing /\ request'[r] = request[r]),
           At("closing")' => At("closing"),
           task'.people = task.people /\ task'.last = task.last
    PROVE  TheirsInv'
  <1>1. InTime' = InTime
    BY DEF InTime
  <1>2. ASSUME NEW row, HoldsTheirs(row) PROVE HoldsTheirs(row)'
    <2> SUFFICES ASSUME row # Nothing, HasEnded(row)
                 PROVE  /\ Closed'
                        /\ project' = "there" =>
                             \A p \in InTime : invitation'[p] = Nothing => Theirs(p)' \subseteq Carried(row, p)
      BY <1>1 DEF HoldsTheirs, HasEnded, Carried
    <2>1. Closed /\ Closed'
      BY <1>2 DEF HoldsTheirs
    <2>2. ASSUME project' = "there", NEW p \in InTime, invitation'[p] = Nothing
          PROVE  Theirs(p)' \subseteq Carried(row, p)
      <3>1. Theirs(p)' \subseteq Theirs(p) /\ project = "there" /\ invitation[p] = Nothing
        BY <2>1, <2>2 DEF InTime
      <3> QED BY <1>2, <2>2, <3>1 DEF HoldsTheirs
    <2> QED BY <2>1, <2>2
  <1>3. HoldsTheirs(importation) /\ HoldsTheirs(Nothing)
    BY DEF TheirsInv, RowsHoldTheirs, HoldsTheirs
  <1>4. HoldsTheirs(importation)'
    BY <1>2, <1>3 DEF HoldsTheirs
  <1>5. ASSUME NEW r \in Requests, request'[r] # Nothing, request'[r].op # "delete"
        PROVE  HoldsTheirs(request[r].row)'
    <2>1. HoldsTheirs(request'[r].row)
      BY <1>3, <1>5 DEF TheirsInv, RowsHoldTheirs
    <2> QED BY <1>2, <2>1 DEF HoldsTheirs
  <1>6. LastSaveIsWhole'
    BY <1>1 DEF TheirsInv, LastSaveIsWhole, Exists
  <1>7. NothingIsLost' /\ InvitationsCarryTheirs'
    <2>1. CASE \A p \in People : invitation'[p] = Nothing
      BY <1>1, <2>1 DEF NothingIsLost, InvitationsCarryTheirs, InTime
    <2>2. ASSUME invitation' = invitation, NEW p \in InTime, invitation[p] # Nothing
          PROVE  /\ Closed'
                 /\ invitation[p].status = "pending" => Theirs(p)' \subseteq invitation[p].carries
                 /\ invitation[p].status = "accepted" => Theirs(p)' \subseteq credited[p] \cup syncs[p]
      <3>1. Closed
        BY <2>2 DEF TheirsInv, InvitationsCarryTheirs
      <3>2. Closed' /\ Theirs(p)' \subseteq Theirs(p)
        BY <3>1 DEF InTime
      <3> QED BY <2>2, <3>2 DEF TheirsInv, InvitationsCarryTheirs, NothingIsLost
    <2> QED BY <1>1, <2>1, <2>2 DEF NothingIsLost, InvitationsCarryTheirs
  <1>8. NothingToCarry'
    BY DEF TheirsInv, NothingToCarry
  <1> QED BY <1>4, <1>5, <1>6, <1>7, <1>8 DEF TheirsInv, RowsHoldTheirs

\* The same when nothing of the job or of the rows moves.
LEMMA TheirsSame ==
    ASSUME UNCHANGED <<task, refs>>
    PROVE  Closed' = Closed /\ At("closing")' = At("closing")
           /\ \A p : Theirs(p)' = Theirs(p)
  BY DEF Closed, At, Theirs, Rows

\* An import without kanban is given nothing to carry.
LEMMA JobCarriesNothing ==
    ASSUME TypeOK, ImportInv, NothingToCarry,
           ImportProject \/ TaskStep \/ SaveProgress \/ Fail \/ FailWithoutRetry \/ Abort
    PROVE  NothingToCarry'
  <1>0. task \in Task
    BY DEF TypeOK
  <1>1. ASSUME NEW step, task' = [task EXCEPT !.step = step]
        PROVE  NothingToCarry'
    <2>1. task'.people = task.people /\ task'.last = task.last
      BY <1>0, <1>1 DEF Task
    <2> QED BY <2>1 DEF NothingToCarry
  <1>2. ASSUME NEW row, NEW step, Update(row, [task EXCEPT !.step = step])
        PROVE  NothingToCarry'
    BY <1>1, <1>2 DEF Update, Goto
  <1>3. Break \/ ImportProject \/ CreateProject \/ RewriteFile => NothingToCarry'
    BY <1>1 DEF Break, ImportProject, CreateProject, RewriteFile, Goto
  <1>4. RejectFile \/ Start \/ ImportUsers \/ SaveProgress \/ CloseImportation \/ Fail => NothingToCarry'
    <2>1. SaveProgress => \E row, step : Update(row, [task EXCEPT !.step = step])
      BY DEF SaveProgress
    <2> QED BY <1>2, <2>1 DEF RejectFile, Start, ImportUsers, CloseImportation, Fail
  <1>5. LinkProject => NothingToCarry'
    BY <1>2, <1>3 DEF LinkProject
  <1>6. CASE ImportTaigaProject
    <2>1. ASSUME NEW file \in Files,
                 task' = [step |-> "valid", people |-> [a \in file.people |-> {}], next |-> 1,
                          last |-> IF file.kanban THEN FileSize ELSE 0]
          PROVE  NothingToCarry'
      BY <2>1 DEF NothingToCarry
    <2> QED BY <1>1, <1>6, <2>1 DEF ImportTaigaProject, Goto
  <1>7. CASE BulkCreateAll /\ project = "there"
    <2>1. task.last # 0 /\ task'.last = task.last
      <3>1. task.next \in Nat /\ task.last \in {0, FileSize} /\ FileSize \in Nat
        BY <1>0, ImportationAssumption DEF Task
      <3>2. task.last # 0
        BY <1>7, <3>1 DEF BulkCreateAll, ImportInv
      <3>3. task'.last = task.last
        <4> DEFINE people == WithBatch(task.people, task.next..BatchEnd)
        <4>1. task' = [task EXCEPT !.people = people, !.next = BatchEnd + 1]
          BY <1>7 DEF BulkCreateAll
        <4> HIDE DEF people
        <4> QED BY <1>0, <4>1 DEF Task
      <3> QED BY <3>2, <3>3
    <2> QED BY <2>1 DEF NothingToCarry
  <1> QED BY <1>3, <1>4, <1>5, <1>6, <1>7 DEF TaskStep, BulkCreateAll, FailWithoutRetry, Abort

\* A step of the job: it has not ended, so nobody was invited in time and no row
\* says that the import has ended but the one it closes.
LEMMA JobKeepsTheirs ==
    ASSUME TheirsInv, ~Closed, UNCHANGED userVars, NothingToCarry',
           Exists' /\ HasEnded(importation)' =>
             Closed' /\ (InTime # {} => importation'.pending = task'.people),
           At("closing")' /\ Exists' => importation'.pending = task'.people
    PROVE  TheirsInv'
  <1>1. InTime' = InTime /\ UNCHANGED <<request, invitation, lost>>
    BY DEF InTime, userVars
  <1>2. \A p \in InTime : invitation[p] = Nothing
    BY DEF TheirsInv, InvitationsCarryTheirs
  <1>3. \A r \in Requests : request[r] # Nothing /\ request[r].op # "delete" =>
          request[r].row = Nothing \/ ~HasEnded(request[r].row)
    BY DEF TheirsInv, RowsHoldTheirs, HoldsTheirs
  <1>4. NothingIsLost' /\ InvitationsCarryTheirs'
    BY <1>1, <1>2 DEF NothingIsLost, InvitationsCarryTheirs
  <1>5. HoldsTheirs(importation)'
    BY <1>1 DEF HoldsTheirs, Exists, Carried, Theirs
  <1>6. \A r \in Requests : request'[r] # Nothing /\ request'[r].op # "delete" =>
          HoldsTheirs(request[r].row)'
    BY <1>1, <1>3 DEF HoldsTheirs
  <1>7. LastSaveIsWhole'
    BY DEF LastSaveIsWhole
  <1> QED BY <1>1, <1>4, <1>5, <1>6, <1>7 DEF TheirsInv, RowsHoldTheirs

\* Nor is anything theirs in an import that can still fail once it is closed.
LEMMA RewritingKeepsTheirs ==
    ASSUME TheirsInv, task.last = 0, At("ended")', UNCHANGED userVars, NothingToCarry',
           task'.last = task.last
    PROVE  TheirsInv'
  <1>1. \A p : Theirs(p)' = {}
    BY DEF NothingToCarry, Theirs
  <1>2. Closed' /\ ~At("closing")'
    BY DEF Closed, At
  <1>3. NothingIsLost' /\ InvitationsCarryTheirs'
    BY <1>1, <1>2 DEF NothingIsLost, InvitationsCarryTheirs
  <1>4. \A row : HoldsTheirs(row)'
    BY <1>1, <1>2 DEF HoldsTheirs
  <1>5. RowsHoldTheirs'
    BY <1>4 DEF RowsHoldTheirs, HoldsTheirs
  <1> QED BY <1>2, <1>3, <1>5 DEF TheirsInv, LastSaveIsWhole

\* What the row is after a step of the job that writes it.
LEMMA UpdatedRow ==
    ASSUME TypeOK, NEW row, NEW next, Update(row, next)
    PROVE  \/ Exists /\ importation' = row /\ task' = next
           \/ ~Exists /\ ~Exists'
  BY DEF Update, Exists

LEMMA EndedJob ==
    ASSUME task' = [task EXCEPT !.step = "ended"], task \in Task
    PROVE  ~At("closing")'
  BY DEF At, Task

LEMMA TaskKeepsTheirs ==
    ASSUME TypeOK, ImportInv, TheirsInv,
           ImportProject \/ TaskStep \/ SaveProgress \/ Fail \/ FailWithoutRetry \/ Abort
    PROVE  TheirsInv'
  <1>0. task \in Task /\ importation \in Importation \cup {Nothing}
    BY DEF TypeOK
  <1>a. UNCHANGED userVars /\ NothingToCarry'
    <2>1. UNCHANGED userVars
      BY DEF ImportProject, TaskStep, ImportTaigaProject, RejectFile, Start, CreateProject, LinkProject,
         ImportUsers, SaveProgress, BulkCreateAll, CloseImportation, RewriteFile, Fail,
         FailWithoutRetry, Abort
    <2>2. NothingToCarry
      BY DEF TheirsInv
    <2> QED BY <2>1, <2>2, JobCarriesNothing
  <1>b. CASE At("rewriting")
    <2>1. RewriteFile \/ Fail \/ Break
      BY <1>b DEF ImportProject, TaskStep, ImportTaigaProject, RejectFile, Start, CreateProject,
         LinkProject, ImportUsers, SaveProgress, BulkCreateAll, CloseImportation, FailWithoutRetry,
         Abort, At
    <2>2. task' = [task EXCEPT !.step = "ended"]
      BY <2>1 DEF RewriteFile, Fail, Break, Update, Goto
    <2>3. task'.step = "ended" /\ task'.last = task.last
      BY <1>0, <2>2 DEF Task
    <2>4. task.last = 0
      BY <1>b DEF ImportInv
    <2> QED BY <1>a, <2>3, <2>4, RewritingKeepsTheirs DEF At
  <1>c. SUFFICES ASSUME ~At("rewriting") PROVE TheirsInv'
    BY <1>b
  <1>1. UNCHANGED userVars /\ NothingToCarry' /\ ~Closed /\ ~RewriteFile
    <2>1. ~At("ended")
      BY DEF ImportProject, TaskStep, ImportTaigaProject, RejectFile, Start, CreateProject, LinkProject,
         ImportUsers, SaveProgress, BulkCreateAll, CloseImportation, RewriteFile, Fail, MayFail,
         FailWithoutRetry, Abort, Running, At
    <2> QED BY <1>a, <1>c, <2>1 DEF RewriteFile, Closed, At
  <1>2. ~(Exists /\ HasEnded(importation))
    BY <1>1 DEF ImportInv
  <1>3. ASSUME NEW status \in {"failure", "ongoing"}, NEW step \in Steps \ {"closing"},
               Update([importation EXCEPT !.status = status], [task EXCEPT !.step = step])
        PROVE  TheirsInv'
    <2>1. Exists' => ~HasEnded(importation)' /\ ~At("closing")'
      <3>1. [task EXCEPT !.step = step].step = step
        BY <1>0, GotoFacts
      <3>2. Exists => [importation EXCEPT !.status = status].status = status
        BY <1>0, StatusFacts DEF Exists, Statuses
      <3> QED BY <1>3, <3>1, <3>2, UpdatedRow DEF At, HasEnded
    <2> QED BY <1>1, <2>1, JobKeepsTheirs
  <1>4. ASSUME UNCHANGED importation, ~At("closing")'
        PROVE  TheirsInv'
    BY <1>1, <1>2, <1>4, JobKeepsTheirs DEF Exists, HasEnded
  <1>5. Break => UNCHANGED importation /\ ~At("closing")'
    BY <1>0, BreakFacts DEF At
  <1>6. CASE ImportProject
    <2>1. task'.step = "queued" /\ ~HasEnded(importation)'
      BY <1>0, <1>6, GotoFacts DEF ImportProject, Goto, Steps, HasEnded
    <2> QED BY <1>1, <2>1, JobKeepsTheirs DEF At
  <1>7. CASE ImportTaigaProject
    <2>1. UNCHANGED importation
      BY <1>7 DEF ImportTaigaProject
    <2>2. task'.step \in {"ended", "invalid", "valid"}
      <3>1. \A step \in {"ended", "invalid"} : Goto(step) => task'.step = step
        BY <1>0, GotoFacts DEF Goto, Steps
      <3> QED BY <1>7, <3>1 DEF ImportTaigaProject
    <2> QED BY <1>4, <2>1, <2>2 DEF At
  <1>8. CASE CreateProject
    <2>1. UNCHANGED importation /\ task'.step = "linking"
      BY <1>0, <1>8, GotoFacts DEF CreateProject, Goto, Steps
    <2> QED BY <1>4, <2>1 DEF At
  <1>9. CASE LinkProject /\ project = "there"
    <2>1. Update([importation EXCEPT !.linked = TRUE], [task EXCEPT !.step = "users"])
      BY <1>9 DEF LinkProject
    <2>2. Exists' => ~HasEnded(importation)' /\ ~At("closing")'
      <3>1. [task EXCEPT !.step = "users"].step = "users"
        BY <1>0, GotoFacts DEF Steps
      <3>2. Exists => [importation EXCEPT !.linked = TRUE].status = importation.status
        BY <1>0, LinkFacts DEF Exists
      <3> QED BY <1>2, <2>1, <3>1, <3>2, UpdatedRow DEF At, HasEnded
    <2> QED BY <1>1, <2>2, JobKeepsTheirs
  <1>10. CASE ImportUsers \/ SaveProgress
    <2> DEFINE row == [importation EXCEPT !.pending = task.people]
    <2>1. PICK step : Update(row, [task EXCEPT !.step = step])
      <3>1. CASE ImportUsers
        BY <3>1 DEF ImportUsers
      <3>2. CASE SaveProgress
        BY <3>2 DEF SaveProgress
      <3> QED BY <1>10, <3>1, <3>2
    <2> DEFINE next == [task EXCEPT !.step = step]
    <2>2. Update(row, next)
      BY <2>1
    <2>3. next.people = task.people
      BY <1>0 DEF Task
    <2>4. Exists => row.pending = task.people /\ row.status = importation.status
      BY <1>0 DEF Importation, Exists
    <2> HIDE DEF row, next
    <2>5. Exists' => ~HasEnded(importation)' /\ importation'.pending = task'.people
      BY <1>2, <2>2, <2>3, <2>4, UpdatedRow DEF HasEnded
    <2> QED BY <1>1, <2>5, JobKeepsTheirs
  <1>11. CASE BulkCreateAll /\ project = "there"
    <2>1. UNCHANGED importation /\ task'.step = "stories"
      BY <1>0, <1>11 DEF BulkCreateAll, At, Task
    <2> QED BY <1>4, <2>1 DEF At
  <1>12. CASE CloseImportation
    <2> DEFINE status == IF DOMAIN task.people # {} THEN "action needed" ELSE "success"
               row == [importation EXCEPT !.status = status]
               step == IF task.last = 0 THEN "rewriting" ELSE "ended"
               next == [task EXCEPT !.step = step]
    <2>1. Update(row, next) /\ At("closing")
      BY <1>12 DEF CloseImportation
    <2>2. next.step = step /\ next.people = task.people /\ step \in {"rewriting", "ended"}
      <3>1. step \in Steps /\ step \in {"rewriting", "ended"}
        BY DEF Steps
      <3> HIDE DEF step
      <3> QED BY <1>0, <3>1, GotoFacts
    <2>3. Exists => row.pending = importation.pending
      <3> HIDE DEF status
      <3> QED BY <1>0 DEF Importation, Exists
    <2> HIDE DEF row, next, step
    <2>4. Exists' => /\ Exists /\ importation'.pending = importation.pending
                     /\ task'.people = task.people /\ task'.step \in {"rewriting", "ended"}
      BY <2>1, <2>2, <2>3, UpdatedRow
    <2>5. Exists' /\ InTime # {} => importation'.pending = task'.people
      BY <2>1, <2>4 DEF TheirsInv, LastSaveIsWhole
    <2> QED BY <1>1, <2>4, <2>5, JobKeepsTheirs DEF At, Closed
  <1>13. LinkProject /\ project # "there" => Break
    BY DEF LinkProject
  <1>14. BulkCreateAll /\ project # "there" => Break
    BY DEF BulkCreateAll
  <1>15. RejectFile \/ Start \/ Fail => TheirsInv'
    BY <1>3 DEF RejectFile, Start, Fail, Steps
  <1> QED BY <1>1, <1>4, <1>5, <1>6, <1>7, <1>8, <1>9, <1>10, <1>11, <1>12, <1>13, <1>14, <1>15
          DEF TaskStep, FailWithoutRetry, Abort

-----------------------------------------------------------------------------

LEMMA CarriedType ==
    ASSUME NEW row \in Importation \cup {Nothing}, NEW p
    PROVE  Carried(row, p) \in SUBSET File
  <1>1. CASE row # Nothing /\ p \in DOMAIN row.pending
    <2>1. PICK P \in SUBSET Addresses : row.pending \in [P -> SUBSET File]
      BY <1>1, InvitesType DEF Importation
    <2> QED BY <1>1, <2>1 DEF Carried
  <1> QED BY <1>1 DEF Carried

LEMMA OtherStoriesAreNotTheirs ==
    ASSUME TypeOK, UNCHANGED task, \A s \in File : refs[s] = NoRef => refs'[s] = NoRef,
           NEW p \in People
    PROVE  Theirs(p)' \subseteq Theirs(p)
  <1>1. p \in DOMAIN task.people => task.people[p] \subseteq File
    <2>1. PICK P \in SUBSET Addresses : task.people \in [P -> SUBSET File]
      BY InvitesType DEF TypeOK, Task
    <2> QED BY <2>1
  <1> QED BY <1>1 DEF Theirs, Rows

LEMMA DropKeepsTheirs ==
    ASSUME TypeOK, TheirsInv, DropProject, UNCHANGED <<lost, syncs, credited>>,
           \A r \in Requests : request'[r] # Nothing => request'[r] = request[r],
           task'.people = task.people /\ task'.last = task.last,
           Closed => Closed', At("closing")' => At("closing")
    PROVE  TheirsInv'
  <1>1. /\ project' = "gone" /\ importation' \in {importation, Nothing}
        /\ \A p \in People : invitation'[p] = Nothing
        /\ \A s \in Stories : refs'[s] = NoRef
    BY DEF DropProject, DropSequence
  <1>2. \A p \in People : Theirs(p)' \subseteq Theirs(p)
    BY <1>1 DEF Theirs, Rows
  <1> QED BY <1>1, <1>2, LessIsTheirs

LEMMA DeletionKeepsTheirs ==
    ASSUME TypeOK, TheirsInv, NEW r \in Requests, DeleteImportation(r)
    PROVE  TheirsInv'
  <1>1. /\ UNCHANGED <<syncs, credited, lost>>
        /\ \A s \in Requests : request'[s] # Nothing => request'[s] = request[s]
    BY TypeParts, FinishKeeps DEF DeleteImportation, syncVars
  <1>2. /\ task'.people = task.people /\ task'.last = task.last
        /\ Closed => Closed'
        /\ At("closing")' => At("closing")
    <2>1. task \in Task
      BY DEF TypeOK
    <2>2. task' = task \/ (At("queued") /\ Goto("ended"))
      BY DEF DeleteImportation, Cancel
    <2>3. Goto("ended") =>
            task'.people = task.people /\ task'.last = task.last /\ task'.step = "ended"
      BY <2>1, GotoFacts DEF Goto, Steps
    <2> QED BY <2>2, <2>3 DEF At, Closed
  <1>3. CASE DropProject
    BY <1>1, <1>2, <1>3, DropKeepsTheirs
  <1>4. CASE KeepProject
    <2>1. importation' \in {importation, Nothing} /\ UNCHANGED <<project, invitation, refs>>
      BY <1>4 DEF DeleteImportation, KeepProject, referenceVars, DropProject
    <2>2. \A p \in People : Theirs(p)' \subseteq Theirs(p)
      BY <1>2, <2>1 DEF Theirs, Rows
    <2> QED BY <1>1, <1>2, <2>1, <2>2, LessIsTheirs
  <1> QED BY <1>3, <1>4 DEF DeleteImportation

\* Who is invited has what the row of the request holds, and the row that is
\* written back holds what is theirs for the others.
LEMMA InviteKeepsTheirs ==
    ASSUME TypeOK, ImportInv, TheirsInv, NEW r \in Requests, Invite(r)
    PROVE  TheirsInv'
  <1> DEFINE row == request[r].row
             q == request[r].person
             isNew == q # Nothing /\ invitation[q] = Nothing
             ended == row # Nothing /\ HasEnded(row)
  <1>1. /\ row \in Importation \cup {Nothing} /\ q \in People \cup {Nothing}
        /\ request[r].op # "delete" /\ HoldsTheirs(row) /\ project = "there"
        /\ UNCHANGED <<project, task, syncs, credited, refs>>
        /\ \A s \in Requests : request'[s] # Nothing => request'[s] = request[s]
    BY TypeParts, FinishKeeps
    DEF UsersTypeOK, Request, Invite, Free, TheirsInv, RowsHoldTheirs, referenceVars, syncVars
  <1>2. /\ Closed' = Closed /\ At("closing")' = At("closing")
        /\ \A p : Theirs(p)' = Theirs(p)
    BY <1>1, TheirsSame
  <1>3. /\ invitation' = IF isNew THEN [invitation EXCEPT ![q] =
                                          [status |-> "pending", carries |-> Carried(row, q)]]
                         ELSE invitation
        /\ lost' = IF ended THEN lost
                   ELSE IF row # Nothing THEN People
                   ELSE IF isNew THEN lost \cup {q} ELSE lost
    BY DEF Invite
  <1>4. /\ row = Nothing => importation' = importation
        /\ row # Nothing => /\ Exists
                            /\ q = Nothing => importation'.pending = importation.pending
                            /\ isNew => importation'.pending = WithoutPerson(row, q)
                            /\ q # Nothing /\ ~isNew => importation'.pending = row.pending
    <2>1. CASE row = Nothing
      BY <2>1 DEF Invite
    <2>2. CASE row # Nothing
      <3> DEFINE people == IF q = Nothing THEN importation.pending
                           ELSE IF isNew THEN WithoutPerson(row, q) ELSE row.pending
                 status == IF request[r].op = "act" THEN "success" ELSE importation.status
      <3>1. Exists /\ importation \in Importation
        BY <2>2 DEF Invite, TypeOK, Exists
      <3>2. importation' = [importation EXCEPT !.pending = people, !.status = status]
        BY <2>2, <3>1 DEF Invite
      <3>3. importation'.pending = people
        <4> HIDE DEF people, status
        <4> QED BY <3>1, <3>2 DEF Importation
      <3> QED BY <2>2, <3>1, <3>3
    <2> QED BY <2>1, <2>2
  <1>5. Exists' /\ HasEnded(importation)' =>
          Exists /\ Closed /\ (HasEnded(importation) \/ \A p : Theirs(p) = {})
    <2>1. Exists' /\ HasEnded(importation)' => Exists /\ (HasEnded(importation) \/ request[r].op = "act")
      BY InviteRow, TypeParts
    <2>2. request[r].op = "act" => Closed /\ (Exists => HasEnded(importation) \/ task.last = 0)
      BY DEF ImportInv, Invite, Free
    <2>3. task.last = 0 => \A p : Theirs(p) = {}
      BY DEF TheirsInv, NothingToCarry, Theirs
    <2> QED BY <2>1, <2>2, <2>3 DEF ImportInv
  <1>6. \A p \in InTime' : p \in InTime /\ (isNew /\ p = q => ended)
    BY <1>3 DEF InTime
  <1> HIDE DEF row, q, isNew, ended
  <1>7. \A p \in People : invitation'[p] = IF isNew /\ p = q
                                           THEN [status |-> "pending", carries |-> Carried(row, q)]
                                           ELSE invitation[p]
    BY <1>3 DEF TypeOK
  <1>8. InvitationsCarryTheirs' /\ NothingIsLost'
    <2>1. ASSUME NEW p \in InTime', isNew /\ p = q
          PROVE  Closed /\ Theirs(p) \subseteq Carried(row, q)
      BY <1>1, <1>6, <2>1 DEF HoldsTheirs, ended, isNew
    <2> QED BY <1>1, <1>2, <1>6, <1>7, <2>1
            DEF InvitationsCarryTheirs, NothingIsLost, TheirsInv, InTime
  <1>9. \A p \in InTime' : invitation'[p] = Nothing =>
          /\ p \in People /\ p \in InTime /\ invitation[p] = Nothing
          /\ ~(isNew /\ p = q)
    <2>1. ASSUME isNew PROVE [status |-> "pending", carries |-> Carried(row, q)] # Nothing
      <3>1. Carried(row, q) \in SUBSET File
        BY <1>1, <2>1, CarriedType DEF isNew
      <3> QED BY <3>1, InvitationAssumption DEF Invitation
    <2> QED BY <1>6, <1>7, <2>1 DEF InTime
  <1>10. \A w : HoldsTheirs(w) => HoldsTheirs(w)'
    BY <1>1, <1>2, <1>9 DEF HoldsTheirs, HasEnded, Carried
  <1>11. HoldsTheirs(importation)'
    <2>1. CASE row = Nothing
      <3>1. HoldsTheirs(importation)
        BY DEF TheirsInv, RowsHoldTheirs
      <3> QED BY <1>4, <1>10, <2>1, <3>1 DEF HoldsTheirs
    <2>2. CASE row # Nothing /\ ~ended
      <3>1. InTime' = {}
        BY <1>3, <2>2 DEF InTime
      <3> QED BY <1>2, <1>5, <3>1 DEF HoldsTheirs, Exists
    <2>3. CASE ended
      <3>1. row # Nothing /\ HasEnded(row) /\ Exists
        BY <1>4, <2>3 DEF ended
      <3>2. ASSUME Exists', HasEnded(importation)', NEW p \in InTime', invitation'[p] = Nothing
            PROVE  Theirs(p) \subseteq Carried(importation', p)
        <4>1. p \in InTime /\ invitation[p] = Nothing /\ ~(isNew /\ p = q) /\ p \in People
          BY <1>9, <3>2
        <4>2. Theirs(p) \subseteq Carried(row, p)
          BY <1>1, <3>1, <4>1 DEF HoldsTheirs
        <4>3. Theirs(p) \subseteq Carried(importation, p)
          BY <1>1, <1>5, <3>2, <4>1 DEF HoldsTheirs, TheirsInv, RowsHoldTheirs, Exists
        <4>4. CASE q = Nothing
          BY <1>4, <3>1, <3>2, <4>3, <4>4 DEF Carried, Exists
        <4>5. CASE q # Nothing
          BY <1>1, <1>4, <3>1, <3>2, <4>1, <4>2, <4>5 DEF Carried, WithoutPerson, Exists
        <4> QED BY <4>4, <4>5
      <3>3. Closed'
        BY <1>1, <1>2, <3>1 DEF HoldsTheirs
      <3> QED BY <1>2, <3>2, <3>3 DEF HoldsTheirs, Exists
    <2> QED BY <2>1, <2>2, <2>3
  <1>12. \A s \in Requests : request'[s] # Nothing /\ request'[s].op # "delete" =>
           HoldsTheirs(request[s].row)'
    <2>1. \A s \in Requests : request[s] # Nothing /\ request[s].op # "delete" =>
            HoldsTheirs(request[s].row)
      BY DEF TheirsInv, RowsHoldTheirs
    <2> QED BY <1>1, <1>10, <2>1 DEF HoldsTheirs
  <1>13. LastSaveIsWhole'
    <2>1. CASE row = Nothing
      BY <1>1, <1>2, <1>4, <1>6, <2>1 DEF LastSaveIsWhole, TheirsInv, Exists
    <2>2. CASE row # Nothing /\ ~ended
      BY <1>3, <2>2 DEF LastSaveIsWhole, InTime
    <2>3. CASE ended
      BY <1>1, <1>2, <2>3 DEF LastSaveIsWhole, HoldsTheirs, ended, Closed, At
    <2> QED BY <2>1, <2>2, <2>3
  <1>14. NothingToCarry'
    BY <1>1 DEF TheirsInv, NothingToCarry
  <1> QED BY <1>1, <1>8, <1>11, <1>12, <1>13, <1>14 DEF TheirsInv, RowsHoldTheirs

\* The invitations and the jobs that sync what they carried.
LEMMA AcceptKeepsTheirs ==
    ASSUME TypeOK, TheirsInv, NEW q \in People, InvitationStep(q) \/ SyncStep(q)
    PROVE  TheirsInv'
  <1>1. /\ UNCHANGED <<refs, task, importation, project, request>>
        /\ lost \subseteq lost' /\ lost \subseteq People
    BY DEF InvitationStep, SyncStep, AcceptInvitation, DeletePendingInvitation, FindPendingObjects,
       SyncPendingObjects, FailToSync, referenceVars, taskVars, TypeOK
  <1>2. /\ Closed' = Closed /\ At("closing")' = At("closing")
        /\ \A p : Theirs(p)' = Theirs(p)
    BY <1>1, TheirsSame
  <1>3. InTime' \subseteq InTime /\ InTime \subseteq People
    BY <1>1 DEF InTime
  <1>4. ASSUME NEW p \in InTime'
        PROVE  /\ invitation'[p] = Nothing => invitation[p] = Nothing \/ Theirs(p) = {}
               /\ invitation'[p] # Nothing => invitation[p] # Nothing
               /\ invitation'[p] # Nothing /\ invitation'[p].status = "pending" =>
                    Theirs(p) \subseteq invitation'[p].carries
               /\ invitation'[p] # Nothing /\ invitation'[p].status = "accepted" =>
                    Theirs(p) \subseteq credited'[p] \cup syncs'[p]
    <2>1. /\ p \in People /\ p \in InTime
          /\ invitation[p] # Nothing /\ invitation[p].status = "pending" =>
               Theirs(p) \subseteq invitation[p].carries
          /\ invitation[p] # Nothing /\ invitation[p].status = "accepted" =>
               Theirs(p) \subseteq credited[p] \cup syncs[p]
      BY <1>3, <1>4 DEF TheirsInv, InvitationsCarryTheirs, NothingIsLost
    <2>2. CASE AcceptInvitation(q)
      <3>1. /\ invitation'[p].status = IF p = q THEN "accepted" ELSE invitation[p].status
            /\ invitation'[p].carries = invitation[p].carries
            /\ syncs'[p] = IF p = q THEN invitation[p].carries ELSE syncs[p]
            /\ credited'[p] = credited[p]
        BY <2>1, <2>2 DEF AcceptInvitation, TypeOK, Invitation
      <3>2. (invitation'[p] = Nothing) = (invitation[p] = Nothing)
        <4>1. [invitation[q] EXCEPT !.status = "accepted"] \in Invitation
          BY <2>2 DEF AcceptInvitation, TypeOK, Invitation
        <4> QED BY <2>1, <2>2, <4>1, InvitationAssumption DEF AcceptInvitation, TypeOK
      <3> QED BY <2>1, <2>2, <3>1, <3>2 DEF AcceptInvitation
    <2>3. CASE DeletePendingInvitation(q)
      <3>1. /\ invitation'[p] = IF p = q THEN Nothing ELSE invitation[p]
            /\ UNCHANGED <<syncs, credited>>
            /\ invitation[q] # Nothing /\ invitation[q].status = "pending"
            /\ p = q => invitation[q].carries = {}
        BY <1>4, <2>1, <2>3 DEF DeletePendingInvitation, TypeOK, InTime, syncVars
      <3> QED BY <2>1, <3>1
    <2>4. CASE FindPendingObjects(q)
      BY <2>1, <2>4 DEF FindPendingObjects
    <2>5. CASE SyncPendingObjects(q)
      <3>1. /\ syncs'[p] = IF p = q THEN {} ELSE syncs[p]
            /\ credited'[p] = IF p = q THEN credited[p] \cup (syncs[p] \cap Rows) ELSE credited[p]
            /\ invitation' = invitation
        BY <2>1, <2>5 DEF SyncPendingObjects, TypeOK
      <3>2. Theirs(p) \subseteq Rows
        BY DEF Theirs
      <3> QED BY <2>1, <3>1, <3>2
    <2>6. CASE FailToSync(q)
      <3>1. p # q /\ syncs'[p] = syncs[p] /\ UNCHANGED <<invitation, credited>>
        BY <1>4, <2>1, <2>6 DEF FailToSync, InTime, TypeOK
      <3> QED BY <2>1, <3>1
    <2> QED BY <2>2, <2>3, <2>4, <2>5, <2>6 DEF InvitationStep, SyncStep
  <1>5. InvitationsCarryTheirs' /\ NothingIsLost'
    BY <1>2, <1>3, <1>4 DEF InvitationsCarryTheirs, NothingIsLost, TheirsInv
  <1>6. \A row : HoldsTheirs(row) => HoldsTheirs(row)'
    BY <1>1, <1>2, <1>3, <1>4 DEF HoldsTheirs, HasEnded, Carried
  <1>7. RowsHoldTheirs'
    BY <1>1, <1>6 DEF RowsHoldTheirs, TheirsInv, HoldsTheirs
  <1>8. LastSaveIsWhole' /\ NothingToCarry'
    BY <1>1, <1>2, <1>3 DEF LastSaveIsWhole, NothingToCarry, TheirsInv, Exists
  <1> QED BY <1>5, <1>7, <1>8 DEF TheirsInv

LEMMA RequestKeepsTheirs ==
    ASSUME TypeOK, ImportInv, TheirsInv, NEW r \in Requests, RequestStep(r)
    PROVE  TheirsInv'
  <1>1. ASSUME NEW op, NEW p, NEW row, Read(r, op, p, row),
               row \in {importation, Nothing} \/ op = "delete"
        PROVE  TheirsInv'
    <2> DEFINE query == [op |-> op, person |-> p, row |-> row]
    <2>1. /\ UNCHANGED <<refs, task, importation, project, invitation, syncs, credited, lost>>
          /\ request' = [request EXCEPT ![r] = query] /\ query.row = row /\ query.op = op
      BY <1>1 DEF Read, referenceVars, taskVars, syncVars
    <2> HIDE DEF query
    <2>2. \A s \in Requests : request'[s] = IF s = r THEN query ELSE request[s]
      BY <2>1 DEF TypeOK
    <2>3. /\ Closed' = Closed /\ At("closing")' = At("closing")
          /\ \A q : Theirs(q)' = Theirs(q)
      BY <2>1, TheirsSame
    <2> QED BY <1>1, <2>1, <2>2, <2>3, LessIsTheirs
  <1>2. CASE Refuse(r)
    <2>1. /\ UNCHANGED <<refs, task, importation, project, invitation, syncs, credited, lost>>
          /\ \A s \in Requests : request'[s] # Nothing => request'[s] = request[s]
      BY <1>2, TypeParts, FinishKeeps DEF Refuse, referenceVars, taskVars, syncVars
    <2>2. /\ Closed' = Closed /\ At("closing")' = At("closing")
          /\ \A q : Theirs(q)' = Theirs(q)
      BY <2>1, TheirsSame
    <2> QED BY <2>1, <2>2, LessIsTheirs
  <1>3. ReadDeletion(r) \/ (\E p \in People : ReadInvitation(r, p))
          \/ (\E p \in People \cup {Nothing} : ReadAction(r, p)) => TheirsInv'
    <2>1. Linked \in {importation, Nothing}
      BY DEF Linked
    <2> QED BY <1>1, <2>1 DEF ReadDeletion, ReadInvitation, ReadAction
  <1> QED BY <1>2, <1>3, DeletionKeepsTheirs, InviteKeepsTheirs DEF RequestStep

LEMMA TheirsHolds == IInv /\ TheirsInv /\ [Next]_vars => TheirsInv'
  <1> SUFFICES ASSUME IInv, TheirsInv, [Next]_vars PROVE TheirsInv'
    OBVIOUS
  <1>0. TypeOK /\ ImportInv
    BY DEF IInv
  <1>1. ASSUME UNCHANGED <<taskVars, project, userVars>>,
               \A s \in File : refs[s] = NoRef => refs'[s] = NoRef
        PROVE  TheirsInv'
    <2>1. UNCHANGED <<task, importation, project, request, invitation, syncs, credited, lost>>
      BY <1>1 DEF taskVars, userVars, syncVars
    <2>2. \A p \in People : Theirs(p)' \subseteq Theirs(p)
      BY <1>0, <1>1, <2>1, OtherStoriesAreNotTheirs
    <2> QED BY <2>1, <2>2, LessIsTheirs DEF At, Closed
  <1>2. StoryStep => TheirsInv'
    <2>1. ASSUME NEW s \in Stories \ File, BeginStory(s) \/ EndStory(s) PROVE TheirsInv'
      <3>1. \A t \in File : refs'[t] = refs[t]
        BY <1>0, <2>1, ImportationAssumption
        DEF BeginStory, EndStory, DrawReference, InsertStory, TypeOK, ReferencesTypeOK
      <3> QED BY <1>1, <2>1, <3>1 DEF BeginStory, EndStory
    <2>2. ASSUME NEW s \in Stories, DeleteStory(s) PROVE TheirsInv'
      <3>1. \A t \in File : refs[t] = NoRef => refs'[t] = NoRef
        BY <1>0, <2>2, ImportationAssumption DEF DeleteStory, TypeOK, ReferencesTypeOK
      <3> QED BY <1>1, <2>2, <3>1 DEF DeleteStory
    <2> QED BY <2>1, <2>2 DEF StoryStep
  <1>3. UNCHANGED vars => TheirsInv'
    BY <1>1 DEF vars, referenceVars, taskVars, userVars, syncVars
  <1>4. DeleteProject => TheirsInv'
    BY <1>0, DropKeepsTheirs DEF DeleteProject, At, Closed, syncVars
  <1> QED BY <1>0, <1>2, <1>3, <1>4, TaskKeepsTheirs, RequestKeepsTheirs, AcceptKeepsTheirs DEF Next

\* However requests overlap with the import and with each other, who accepted an
\* invitation has been credited with all the stories that are there and were theirs
\* under their address in lower case, or the job that does it was queued with them,
\* unless what was theirs is known to be lost: an invitation was made while the
\* import ran, one that had it was deleted, or the job failed. Nothing else loses it,
\* not even a row that is written back as it was read (import_export/services,
\* projects/invitations/services). With the fairness of the worker, that is
\* InviteesAreCredited.
THEOREM NothingIsEverLost == Spec => []NothingIsLost
  <1>1. Init => TheirsInv
    BY DEF Init, TheirsInv, NothingIsLost, InvitationsCarryTheirs, RowsHoldTheirs, HoldsTheirs,
       LastSaveIsWhole, NothingToCarry, NoInvites, At, InTime
  <1>2. Spec => []TheirsInv
    BY <1>1, TheirsHolds, Invariance, PTL DEF Spec
  <1> QED BY <1>2, PTL DEF TheirsInv

-----------------------------------------------------------------------------
(* What ImportsEnd asks of the worker.                                     *)

\* An import that is not over has a job, or its job broke off.
UnfinishedImportsHaveJobs ==
    Exists /\ importation.status \in {"pending", "ongoing"} =>
        broken \/ task.step \notin {"none", "ended"}

LEMMA JobsHold == IInv /\ UnfinishedImportsHaveJobs /\ [Next]_vars => UnfinishedImportsHaveJobs'
  <1> SUFFICES ASSUME IInv, UnfinishedImportsHaveJobs, [Next]_vars PROVE UnfinishedImportsHaveJobs'
    OBVIOUS
  <1>0. /\ TypeOK /\ ImportInv /\ task \in Task /\ JobTypeOK /\ UsersTypeOK
        /\ importation \in Importation \cup {Nothing}
    BY TypeParts DEF IInv, TypeOK
  <1>1. ASSUME importation' \in {importation, Nothing},
               task'.step = task.step \/ task'.step \notin {"none", "ended"} \/ broken',
               broken => broken'
        PROVE  UnfinishedImportsHaveJobs'
    BY <1>1 DEF UnfinishedImportsHaveJobs, Exists
  <1>2. Break => UnfinishedImportsHaveJobs'
    BY DEF Break, UnfinishedImportsHaveJobs
  <1>3. ASSUME NEW status \in Statuses \ {"pending", "ongoing"}, NEW next,
               Update([importation EXCEPT !.status = status], next)
        PROVE  UnfinishedImportsHaveJobs'
    BY <1>0, <1>3, StatusFacts, UpdatedRow DEF UnfinishedImportsHaveJobs, Exists
  <1>4. ASSUME NEW row, NEW step \in Steps \ {"none", "ended"},
               Update(row, [task EXCEPT !.step = step])
        PROVE  UnfinishedImportsHaveJobs'
    <2>1. [task EXCEPT !.step = step].step = step
      BY <1>0, GotoFacts
    <2> QED BY <1>0, <1>4, <2>1, UpdatedRow DEF UnfinishedImportsHaveJobs
  <1>5. ImportProject => UnfinishedImportsHaveJobs'
    BY <1>0, GotoFacts DEF ImportProject, Goto, Steps, UnfinishedImportsHaveJobs
  <1>6. CASE ImportTaigaProject
    <2>1. Goto("invalid") => task'.step = "invalid"
      BY <1>0, GotoFacts DEF Goto, Steps
    <2>2. \/ broken' = TRUE
          \/ task'.step \in {"invalid", "valid"} /\ broken' = broken
      BY <1>6, <2>1 DEF ImportTaigaProject
    <2> QED BY <1>1, <1>6, <2>2 DEF ImportTaigaProject
  <1>7. RejectFile \/ Fail \/ CloseImportation => UnfinishedImportsHaveJobs'
    BY <1>3 DEF RejectFile, Fail, CloseImportation, Statuses
  <1>8. Start => UnfinishedImportsHaveJobs'
    BY <1>4 DEF Start, Steps
  <1>9. CASE CreateProject
    <2>1. task'.step = "linking" /\ UNCHANGED <<importation, broken>>
      BY <1>0, <1>9, GotoFacts DEF CreateProject, Goto, Steps
    <2> QED BY <1>1, <2>1
  <1>10. LinkProject => UnfinishedImportsHaveJobs'
    BY <1>2, <1>4 DEF LinkProject, Steps
  <1>11. ImportUsers => UnfinishedImportsHaveJobs'
    BY <1>4 DEF ImportUsers, Steps
  <1>12. CASE SaveProgress
    <2>1. task.step = "stories"
      BY <1>12 DEF SaveProgress, At
    <2> QED BY <1>4, <1>12, <2>1 DEF SaveProgress, Steps
  <1>13. CASE BulkCreateAll
    <2>1. CASE project = "there"
      <3>1. task'.step = task.step /\ UNCHANGED <<importation, broken>>
        BY <1>0, <1>13, <2>1 DEF BulkCreateAll, Task
      <3> QED BY <1>1, <3>1
    <2> QED BY <1>2, <1>13, <2>1 DEF BulkCreateAll
  <1>14. ASSUME NEW r \in Requests, RequestStep(r) PROVE UnfinishedImportsHaveJobs'
    <2>1. CASE DeleteImportation(r)
      <3>1. importation' \in {importation, Nothing} /\ UNCHANGED broken
        BY <2>1 DEF DeleteImportation, DropProject
      <3>2. task' = task \/ At("queued")
        BY <2>1 DEF DeleteImportation, Cancel
      <3>3. CASE At("queued") /\ task' # task
        <4>1. project = "none"
          BY <1>0, <3>3 DEF ImportInv, At, BeforeProject, TypeOK
        <4>2. importation' = Nothing
          BY <2>1, <3>3, <4>1 DEF DeleteImportation
        <4> QED BY <4>2 DEF UnfinishedImportsHaveJobs, Exists
      <3> QED BY <1>1, <3>1, <3>2, <3>3
    <2>2. CASE Invite(r)
      <3>1. /\ Exists' => Exists /\ importation'.status \in {importation.status, "success"}
            /\ UNCHANGED <<task, broken>>
        <4>1. CASE request[r].row = Nothing
          BY <2>2, <4>1 DEF Invite, Exists
        <4>2. CASE request[r].row # Nothing
          <5> DEFINE people == IF request[r].person = Nothing THEN importation.pending
                               ELSE IF invitation[request[r].person] = Nothing
                                    THEN WithoutPerson(request[r].row, request[r].person)
                                    ELSE request[r].row.pending
                     status == IF request[r].op = "act" THEN "success" ELSE importation.status
          <5>1. importation \in Importation /\ Exists
            BY <1>0, <2>2, <4>2 DEF Invite, Exists
          <5>2. importation' = [importation EXCEPT !.pending = people, !.status = status]
            BY <2>2, <4>2, <5>1 DEF Invite
          <5>3. importation'.status = status
            <6> HIDE DEF people, status
            <6> QED BY <5>1, <5>2 DEF Importation
          <5> QED BY <2>2, <5>1, <5>3 DEF Invite
        <4> QED BY <4>1, <4>2
      <3> QED BY <3>1 DEF UnfinishedImportsHaveJobs
    <2>3. RequestStep(r) /\ ~DeleteImportation(r) /\ ~Invite(r) => UNCHANGED taskVars
      BY DEF RequestStep, ReadDeletion, ReadInvitation, ReadAction, Refuse, Read
    <2> QED BY <1>1, <1>14, <2>1, <2>2, <2>3 DEF taskVars
  <1>15. DeleteProject => UnfinishedImportsHaveJobs'
    BY <1>1 DEF DeleteProject, DropProject
  <1>16. StoryStep \/ (\E p \in People : InvitationStep(p) \/ SyncStep(p)) \/ UNCHANGED vars
           => UNCHANGED taskVars
    BY DEF StoryStep, BeginStory, EndStory, DeleteStory, InvitationStep, AcceptInvitation,
       DeletePendingInvitation, SyncStep, FindPendingObjects, SyncPendingObjects, FailToSync,
       vars, taskVars
  <1>17. UNCHANGED taskVars => UnfinishedImportsHaveJobs'
    BY <1>1 DEF taskVars
  <1>18. FailWithoutRetry \/ Abort => UnfinishedImportsHaveJobs'
    BY <1>2 DEF FailWithoutRetry, Abort
  <1>19. CASE RewriteFile
    <2>1. UNCHANGED importation /\ (Exists => HasEnded(importation))
      BY <1>0, <1>19 DEF RewriteFile, ImportInv
    <2> QED BY <2>1 DEF UnfinishedImportsHaveJobs, HasEnded, Exists
  <1> QED BY <1>5, <1>6, <1>7, <1>8, <1>9, <1>10, <1>11, <1>12, <1>13, <1>14, <1>15, <1>16, <1>17, <1>18, <1>19
          DEF Next, TaskStep

\* Whatever is cancelled, deleted or invited meanwhile, an import that still says it
\* waits or goes on has a job that is queued or runs, unless that job broke off with
\* no say on the status (import_export/services, import_export/tasks).
THEOREM UnfinishedImportsAlwaysHaveJobs == Spec => []UnfinishedImportsHaveJobs
  <1>1. Init => UnfinishedImportsHaveJobs
    BY DEF Init, UnfinishedImportsHaveJobs, Exists
  <1> QED BY <1>1, JobsHold, Invariance, PTL DEF Spec
=============================================================================
