------------------------------ MODULE JobsProofs ------------------------------
(***************************************************************************)
(* What the job table promises for any number of jobs and sessions.        *)
(***************************************************************************)
EXTENDS Jobs, TLAPS

LEMMA JobFact == seq \in 0..MaxJobs /\ seq < MaxJobs => seq + 1 \in Job
  BY MaxJobsAssumption, SMT DEF Job

-----------------------------------------------------------------------------
(* Types.  A note carries a verdict only if one was taken: TypeOK alone is *)
(* not inductive.                                                          *)

VerdictTaken ==
  \A j \in Job : pc[j] \in {"decided", "recorded", "published", "exited"}
                   => outcome[j] \in Terminal

TypeInv == TypeOK /\ VerdictTaken

LEMMA TypeInit == Init => TypeInv
  BY MaxJobsAssumption, SMT
  DEF Init, TypeInv, TypeOK, VerdictTaken, Owner, Status, Terminal, PC, Note,
      Delivery

(* The goroutine of a job, and its monitor. *)
LEMMA TypeGoroutine ==
  ASSUME TypeInv, NEW j \in Job,
         Return(j) \/ Goroutine(j) \/ MonitorStall(j) \/ Monitor(j)
  PROVE  TypeInv'
<1> USE DEF TypeInv, TypeOK, VerdictTaken, tableVars, noteVars, sessionVars
<1>1. CASE Launch(j)
  BY <1>1, SMT DEF Launch, PC
<1>2. CASE Return(j)
  BY <1>2, SMT DEF Return, PC
<1>3. CASE Decide(j)
  <2>1. Verdict(j) \in Terminal
    BY DEF Verdict, Terminal
  <2> QED BY <1>3, <2>1, SMT DEF Decide, PC, Status
<1>4. CASE Record(j)
  <2>1. Summary(j) \in Note
    BY <1>4, SMT DEF Record, Summary, Note
  <2>2. pc' \in [Job -> PC] /\ discarded' \subseteq Job /\ completed' \subseteq Note
    BY <1>4, <2>1, SMT DEF Record, PC
  <2> QED BY <1>4, <2>2, SMT DEF Record
<1>5. CASE Publish(j)
  BY <1>5, SMT DEF Publish, Published, PC, Status, Terminal
<1>6. CASE Exit(j)
  BY <1>6, SMT DEF Exit, PC
<1>7. CASE MonitorStall(j)
  BY <1>7, SMT DEF MonitorStall
<1>8. CASE RecordStalled(j)
  <2>1. [job |-> j, what |-> "stalled", session |-> home[j]] \in Note
    BY SMT DEF Note
  <2>2. completed' \subseteq Note /\ monitor' \in [Job -> {"off", "armed", "stalled", "gone"}]
    BY <1>8, <2>1, SMT DEF RecordStalled
  <2> QED BY <1>8, <2>2, SMT DEF RecordStalled
<1>9. CASE MonitorExit(j)
  BY <1>9, SMT DEF MonitorExit
<1> QED BY <1>1, <1>2, <1>3, <1>4, <1>5, <1>6, <1>7, <1>8, <1>9
        DEF Goroutine, Monitor

LEMMA TypeCallers ==
  ASSUME TypeInv,
         \/ \E s \in StartIn : Start(s)
         \/ \E s \in Owner : Drain(s)
         \/ \E s \in Owner, j \in Job : Kill(s, j)
         \/ \E j \in Job : Cancel(j)
         \/ \E s \in Sessions : Bind(s) \/ Adopt(s)
  PROVE  TypeInv'
<1> USE DEF TypeInv, TypeOK, VerdictTaken, jobVars, tableVars, noteVars, sessionVars
<1>1. CASE \E s \in StartIn : Start(s)
  <2>1. PICK s \in StartIn : Start(s)
    BY <1>1
  <2>2. s \in Owner /\ seq + 1 \in Job
    BY <2>1, StartInAssumption, JobFact, SMT DEF Owner, Start
  <2>3. seq' \in 0..MaxJobs /\ table' \subseteq Job
    BY <2>1, <2>2, MaxJobsAssumption, SMT DEF Start
  <2>4. pc' = [pc EXCEPT ![seq + 1] = "registered"]
    BY <2>1, <2>2 DEF Start
  <2>5. owner' \in [Job -> Owner] /\ home' \in [Job -> Owner]
    BY <2>1, <2>2, SMT DEF Start
  <2>6. pc' \in [Job -> PC] /\ VerdictTaken'
    BY <2>1, <2>2, <2>4, SMT DEF Start, PC
  <2> QED BY <2>1, <2>3, <2>5, <2>6, SMT DEF Start
<1>2. CASE \E s \in Owner : Drain(s)
  <2>1. PICK s \in Owner : Drain(s)
    BY <1>2
  <2>2. NotesFor(s) \subseteq Note
    BY SMT DEF NotesFor
  <2>3. delivered' \subseteq Delivery
    BY <2>1, <2>2, SMT DEF Drain, Delivery
  <2>4. completed' \subseteq Note
    BY <2>1, SMT DEF Drain, Kept
  <2> QED BY <2>1, <2>3, <2>4, SMT DEF Drain
<1>3. CASE \E s \in Owner, j \in Job : Kill(s, j)
  BY <1>3, SMT DEF Kill, Status, Terminal
<1>4. CASE \E j \in Job : Cancel(j)
  BY <1>4, SMT DEF Cancel
<1>5. CASE \E s \in Sessions : Bind(s)
  BY <1>5, SMT DEF Bind
<1>6. CASE \E s \in Sessions : Adopt(s)
  <2>1. PICK s \in Sessions : Adopt(s)
    BY <1>6
  <2>2. ASSUME NEW n \in completed
        PROVE  [n EXCEPT !.session = s] \in Note
    BY SMT DEF Note, Owner
  <2>3. completed' \subseteq Note
    BY <2>1, <2>2, SMT DEF Adopt
  <2>4. owner' \in [Job -> Owner]
    BY <2>1, SMT DEF Adopt, Owner
  <2> QED BY <2>1, <2>3, <2>4, SMT DEF Adopt
<1> QED BY <1>1, <1>2, <1>3, <1>4, <1>5, <1>6

LEMMA TypeTeardown ==
  ASSUME TypeInv,
         \/ \E s \in Sessions : BeginDestroy(s) \/ FinishDestroy(s)
         \/ CloseCancel \/ CloseMark \/ RemoveTempRoot
  PROVE  TypeInv'
<1> USE DEF TypeInv, TypeOK, VerdictTaken, jobVars, tableVars, noteVars, sessionVars
<1>1. CASE \E s \in Sessions : BeginDestroy(s)
  <2>1. PICK s \in Sessions : BeginDestroy(s)
    BY <1>1
  <2>2. Visible(s) \subseteq Job /\ Running(s) \subseteq Job
    BY DEF Visible, Running
  <2>3. NotesFor(s) \subseteq Note
    BY DEF NotesFor
  <2>4. discarded' \subseteq Job
    BY <2>1, <2>3, SMT DEF BeginDestroy, Note
  <2>5. completed' \subseteq Note
    BY <2>1, SMT DEF BeginDestroy, Kept
  <2>6. status' \in [Job -> Status]
    BY <2>1, SMT DEF BeginDestroy, Status, Terminal
  <2>7. targets' \in [Sessions -> SUBSET Job] /\ cancelling' \subseteq Job
    BY <2>1, <2>2, SMT DEF BeginDestroy
  <2> QED BY <2>1, <2>4, <2>5, <2>6, <2>7, SMT DEF BeginDestroy
<1>2. CASE \E s \in Sessions : FinishDestroy(s)
  BY <1>2, SMT DEF FinishDestroy
<1>3. CASE CloseCancel
  BY <1>3, SMT DEF CloseCancel
<1>4. CASE CloseMark
  BY <1>4, SMT DEF CloseMark, Status, Terminal
<1>5. CASE RemoveTempRoot
  BY <1>5, SMT DEF RemoveTempRoot
<1> QED BY <1>1, <1>2, <1>3, <1>4, <1>5

LEMMA TypeStep == TypeInv /\ [Next]_vars => TypeInv'
<1> SUFFICES ASSUME TypeInv, [Next]_vars PROVE TypeInv'
  OBVIOUS
<1>1. CASE UNCHANGED vars
  BY <1>1 DEF vars, jobVars, tableVars, noteVars, sessionVars, TypeInv, TypeOK,
              VerdictTaken
<1>2. CASE Next
  BY <1>2, TypeGoroutine, TypeCallers, TypeTeardown DEF Next
<1> QED BY <1>1, <1>2

THEOREM TypeCorrect == Spec => []TypeOK
<1>1. Spec => []TypeInv
  BY TypeInit, TypeStep, PTL DEF Spec
<1>2. TypeInv => TypeOK
  BY DEF TypeInv
<1> QED BY <1>1, <1>2, PTL

-----------------------------------------------------------------------------
(* Notes.  The goroutine records before it publishes and publishes before  *)
(* it closes j.done, so the program counter tells whether the completion   *)
(* has been queued; from there on the note is queued, drained or lost to a *)
(* destroy, and there is one of it.                                        *)

Recorded(j) == pc[j] \in {"recorded", "published", "exited"}

RecordedIsNoted == \A j \in Job : Recorded(j) => Noted(j)

UnrecordedIsUntold ==
  \A j \in Job : ~Recorded(j) =>
    /\ \A n \in CompletionNotes : n.job # j
    /\ \A d \in CompletionsDelivered : d.note.job # j

EndIsPublished ==
  \A j \in Job :
    /\ status[j] \in {"done", "failed"} => pc[j] \in {"published", "exited"}
    /\ pc[j] \in {"published", "exited"} => status[j] # "running"

FreshIsFree == \A j \in Job : j > seq => pc[j] = "free"

NoteInv == /\ TypeInv
           /\ FreshIsFree
           /\ RecordedIsNoted
           /\ UnrecordedIsUntold
           /\ EndIsPublished
           /\ CompletionToldOnce

LEMMA NoteInit == Init => NoteInv
<1> SUFFICES ASSUME Init PROVE NoteInv
  OBVIOUS
<1>1. TypeInv
  BY TypeInit
<1>2. CompletionNotes = {} /\ CompletionsDelivered = {}
  BY DEF Init, CompletionNotes, CompletionsDelivered
<1>3. \A j \in Job : pc[j] = "free" /\ status[j] = "running"
  BY DEF Init
<1>4. RecordedIsNoted /\ UnrecordedIsUntold /\ EndIsPublished
  BY <1>2, <1>3, SMT DEF RecordedIsNoted, UnrecordedIsUntold, EndIsPublished, Recorded
<1>5. CompletionToldOnce
  BY <1>2, SMT DEF CompletionToldOnce
<1>6. FreshIsFree
  BY <1>3 DEF FreshIsFree
<1> QED BY <1>1, <1>4, <1>5, <1>6 DEF NoteInv

(* A step that leaves the completion notes and the set of recorded jobs as *)
(* they are leaves the statements about notes as they are.                 *)
LEMMA NotesUntouched ==
  ASSUME NoteInv,
         CompletionNotes' = CompletionNotes,
         CompletionsDelivered' = CompletionsDelivered,
         discarded' = discarded,
         \A j \in Job : Recorded(j)' = Recorded(j)
  PROVE  RecordedIsNoted' /\ UnrecordedIsUntold' /\ CompletionToldOnce'
<1>1. \A j \in Job : Noted(j)' = Noted(j)
  BY DEF Noted
<1>2. RecordedIsNoted'
  BY <1>1 DEF NoteInv, RecordedIsNoted
<1>3. UnrecordedIsUntold'
  BY SMT DEF NoteInv, UnrecordedIsUntold
<1>4. CompletionToldOnce'
  BY DEF NoteInv, CompletionToldOnce
<1> QED BY <1>2, <1>3, <1>4

LEMMA NoteGoroutine ==
  ASSUME NoteInv, TypeInv', NEW j \in Job,
         Return(j) \/ Goroutine(j) \/ MonitorStall(j) \/ Monitor(j)
  PROVE  NoteInv'
<1> USE DEF NoteInv, TypeInv, TypeOK
<1>0. FreshIsFree'
  BY SMT DEF FreshIsFree, Job, Goroutine, Monitor, Launch, Return, Decide, Record,
     Publish, Exit, MonitorStall, RecordStalled, MonitorExit, tableVars
<1>1. CASE Launch(j) \/ Return(j) \/ Decide(j) \/ Publish(j) \/ Exit(j)
  <2>1. CompletionNotes' = CompletionNotes /\ CompletionsDelivered' = CompletionsDelivered
        /\ discarded' = discarded
    BY <1>1 DEF Launch, Return, Decide, Publish, Exit, noteVars, CompletionNotes,
                CompletionsDelivered
  <2>2. \A k \in Job : Recorded(k)' = Recorded(k)
    BY <1>1, SMT DEF Launch, Return, Decide, Publish, Exit, Recorded
  <2>3. EndIsPublished'
    <3>1. CASE Publish(j)
      BY <3>1, SMT DEF Publish, Published, EndIsPublished, VerdictTaken, Terminal
    <3>2. CASE Launch(j) \/ Return(j) \/ Decide(j) \/ Exit(j)
      BY <3>2, SMT DEF Launch, Return, Decide, Exit, EndIsPublished
    <3> QED BY <1>1, <3>1, <3>2
  <2> QED BY <1>0, <2>1, <2>2, <2>3, NotesUntouched
<1>2. CASE Record(j)
  <2>1. /\ pc[j] = "decided" /\ ~Recorded(j)
        /\ Recorded(j)' /\ \A k \in Job \ {j} : Recorded(k)' = Recorded(k)
    BY <1>2, SMT DEF Record, Recorded
  <2>2. EndIsPublished'
    BY <1>2, SMT DEF Record, EndIsPublished
  <2>3. CompletionsDelivered' = CompletionsDelivered
    BY <1>2 DEF Record, CompletionsDelivered
  <2>4. CASE Refuses(home[j])
    <3>1. CompletionNotes' = CompletionNotes /\ discarded' = discarded \cup {j}
      BY <1>2, <2>4 DEF Record, CompletionNotes
    <3>2. RecordedIsNoted'
      BY <2>1, <2>3, <3>1 DEF RecordedIsNoted, Noted
    <3>3. UnrecordedIsUntold'
      BY <2>1, <2>3, <3>1 DEF UnrecordedIsUntold
    <3>4. CompletionToldOnce'
      BY <2>3, <3>1 DEF CompletionToldOnce
    <3> QED BY <1>0, <2>2, <3>2, <3>3, <3>4
  <2>5. CASE ~Refuses(home[j])
    <3>1. IsCompletion(Summary(j)) /\ Summary(j).job = j
      BY <2>1, SMT DEF IsCompletion, Summary, VerdictTaken, Terminal
    <3>2. CompletionNotes' = CompletionNotes \cup {Summary(j)} /\ discarded' = discarded
      BY <1>2, <2>5, <3>1 DEF Record, CompletionNotes, IsCompletion
    <3>3. RecordedIsNoted'
      BY <2>1, <2>3, <3>1, <3>2 DEF RecordedIsNoted, Noted
    <3>4. UnrecordedIsUntold'
      BY <2>1, <2>3, <3>1, <3>2 DEF UnrecordedIsUntold
    <3>5. CompletionToldOnce'
      BY <2>1, <2>3, <3>1, <3>2 DEF CompletionToldOnce, UnrecordedIsUntold
    <3> QED BY <1>0, <2>2, <3>3, <3>4, <3>5
  <2> QED BY <2>4, <2>5
<1>3. CASE MonitorStall(j) \/ RecordStalled(j) \/ MonitorExit(j)
  <2>1. CompletionNotes' = CompletionNotes
    BY <1>3 DEF MonitorStall, RecordStalled, MonitorExit, noteVars, CompletionNotes,
                IsCompletion
  <2>2. CompletionsDelivered' = CompletionsDelivered /\ discarded' = discarded
    BY <1>3 DEF MonitorStall, RecordStalled, MonitorExit, noteVars,
                CompletionsDelivered
  <2>3. pc' = pc /\ status' = status
    BY <1>3 DEF MonitorStall, RecordStalled, MonitorExit
  <2>4. EndIsPublished'
    BY <2>3 DEF EndIsPublished
  <2> QED BY <1>0, <2>1, <2>2, <2>3, <2>4, NotesUntouched DEF Recorded
<1> QED BY <1>1, <1>2, <1>3 DEF Goroutine, Monitor

(* Moving notes out of the queue keeps the story straight as long as each  *)
(* completion taken out is accounted for.                                  *)
LEMMA NoteCallers ==
  ASSUME NoteInv, TypeInv',
         \/ \E s \in StartIn : Start(s)
         \/ \E s \in Owner : Drain(s)
         \/ \E s \in Owner, j \in Job : Kill(s, j)
         \/ \E j \in Job : Cancel(j)
         \/ \E s \in Sessions : Bind(s) \/ Adopt(s)
  PROVE  NoteInv'
<1> USE DEF NoteInv, TypeInv, TypeOK
<1>1. CASE \E s \in StartIn : Start(s)
  <2>1. PICK s \in StartIn : Start(s)
    BY <1>1
  <2>2. seq \in 0..MaxJobs /\ seq < MaxJobs /\ seq + 1 \in Job
    BY <2>1, JobFact DEF Start
  <2>3. pc[seq + 1] = "free"
    BY <2>2, MaxJobsAssumption, SMT DEF FreshIsFree, Job
  <2>4. pc' = [pc EXCEPT ![seq + 1] = "registered"] /\ seq' = seq + 1 /\ status' = status
    BY <2>1 DEF Start
  <2>5. FreshIsFree'
    BY <2>2, <2>4, MaxJobsAssumption, SMT DEF FreshIsFree, Job
  <2>6. EndIsPublished'
    BY <2>2, <2>3, <2>4, SMT DEF EndIsPublished
  <2>7. \A j \in Job : Recorded(j)' = Recorded(j)
    BY <2>2, <2>3, <2>4, SMT DEF Recorded
  <2>8. CompletionNotes' = CompletionNotes /\ CompletionsDelivered' = CompletionsDelivered
        /\ discarded' = discarded
    BY <2>1 DEF Start, noteVars, CompletionNotes, CompletionsDelivered
  <2> QED BY <2>5, <2>6, <2>7, <2>8, NotesUntouched
<1>2. CASE \E s \in Owner : Drain(s)
  <2>1. PICK s \in Owner : Drain(s)
    BY <1>2
  <2>2. pc' = pc /\ status' = status /\ seq' = seq /\ discarded' = discarded
    BY <2>1 DEF Drain, jobVars, tableVars
  <2> DEFINE Taken == {n \in NotesFor(s) : IsCompletion(n)}
  <2>3. Taken \subseteq CompletionNotes /\ CompletionNotes' = CompletionNotes \ Taken
    BY <2>1 DEF Drain, Kept, CompletionNotes, NotesFor, IsCompletion
  <2>4. CompletionsDelivered' =
          CompletionsDelivered \cup {[note |-> n, to |-> s] : n \in Taken}
    <3>1. delivered' = delivered \cup {[note |-> n, to |-> s] : n \in NotesFor(s)}
      BY <2>1 DEF Drain
    <3> QED BY <3>1, SMT DEF CompletionsDelivered, IsCompletion
  <2>5. FreshIsFree' /\ EndIsPublished'
    BY <2>2 DEF FreshIsFree, EndIsPublished
  <2> HIDE DEF Taken
  <2>6. RecordedIsNoted'
    <3> SUFFICES ASSUME NEW j \in Job, Recorded(j) PROVE Noted(j)'
      BY <2>2 DEF RecordedIsNoted, Recorded
    <3>1. CASE \E n \in CompletionNotes : n.job = j
      <4>1. PICK n \in CompletionNotes : n.job = j
        BY <3>1
      <4>2. CASE n \in Taken
        <5>1. [note |-> n, to |-> s] \in CompletionsDelivered'
          BY <2>4, <4>2
        <5>2. [note |-> n, to |-> s].note.job = j
          BY <4>1
        <5> QED BY <5>1, <5>2 DEF Noted
      <4>3. CASE n \notin Taken
        BY <2>3, <4>1, <4>3 DEF Noted
      <4> QED BY <4>2, <4>3
    <3>2. CASE \E d \in CompletionsDelivered : d.note.job = j
      BY <2>4, <3>2 DEF Noted
    <3>3. CASE j \in discarded
      BY <2>2, <3>3 DEF Noted
    <3> QED BY <3>1, <3>2, <3>3 DEF RecordedIsNoted, Noted
  <2>7. UnrecordedIsUntold'
    BY <2>2, <2>3, <2>4, SMT DEF UnrecordedIsUntold, Recorded
  <2>8. CompletionToldOnce'
    <3> SUFFICES ASSUME NEW j \in Job
                 PROVE  /\ \A n1, n2 \in {n \in CompletionNotes' : n.job = j} : n1 = n2
                        /\ \A d1, d2 \in {d \in CompletionsDelivered' : d.note.job = j} : d1 = d2
                        /\ \A n \in CompletionNotes', d \in CompletionsDelivered' :
                             ~(n.job = j /\ d.note.job = j)
      BY DEF CompletionToldOnce
    <3> QED BY <2>3, <2>4, SMT DEF CompletionToldOnce
  <2> QED BY <2>5, <2>6, <2>7, <2>8
<1>3. CASE \E s \in Owner, j \in Job : Kill(s, j)
  <2>1. PICK s \in Owner, j \in Job : Kill(s, j)
    BY <1>3
  <2>2. pc' = pc /\ seq' = seq /\ CompletionNotes' = CompletionNotes
        /\ CompletionsDelivered' = CompletionsDelivered /\ discarded' = discarded
    BY <2>1 DEF Kill, noteVars, tableVars, CompletionNotes, CompletionsDelivered
  <2>3. EndIsPublished'
    BY <2>1, <2>2, SMT DEF Kill, EndIsPublished
  <2> QED BY <2>2, <2>3, NotesUntouched DEF FreshIsFree, Recorded
<1>4. CASE (\E j \in Job : Cancel(j)) \/ \E s \in Sessions : Bind(s)
  <2>1. pc' = pc /\ status' = status /\ seq' = seq /\ CompletionNotes' = CompletionNotes
        /\ CompletionsDelivered' = CompletionsDelivered /\ discarded' = discarded
    BY <1>4 DEF Cancel, Bind, jobVars, noteVars, tableVars, CompletionNotes,
                CompletionsDelivered
  <2>2. EndIsPublished' /\ FreshIsFree'
    BY <2>1 DEF FreshIsFree, EndIsPublished
  <2> QED BY <2>1, <2>2, NotesUntouched DEF Recorded
<1>5. CASE \E s \in Sessions : Adopt(s)
  <2>1. PICK s \in Sessions : Adopt(s)
    BY <1>5
  <2>2. pc' = pc /\ status' = status /\ seq' = seq /\ discarded' = discarded
        /\ CompletionsDelivered' = CompletionsDelivered
    BY <2>1 DEF Adopt, jobVars, CompletionsDelivered
  <2> DEFINE Readdress(n) == IF n.session = NoSession THEN [n EXCEPT !.session = s] ELSE n
  <2>3. ASSUME NEW n \in completed
        PROVE  Readdress(n).job = n.job /\ Readdress(n).what = n.what
    BY SMT DEF Note
  <2>4. completed' = {Readdress(n) : n \in completed}
    BY <2>1 DEF Adopt
  <2> HIDE DEF Readdress
  <2>5. CompletionNotes' = {Readdress(n) : n \in CompletionNotes}
    BY <2>3, <2>4 DEF CompletionNotes, IsCompletion
  <2>6. CompletionNotes \subseteq completed
    BY DEF CompletionNotes
  <2>7. FreshIsFree' /\ EndIsPublished'
    BY <2>2 DEF FreshIsFree, EndIsPublished
  <2>8. RecordedIsNoted'
    BY <2>2, <2>3, <2>5, <2>6 DEF RecordedIsNoted, Noted, Recorded
  <2>9. UnrecordedIsUntold'
    BY <2>2, <2>3, <2>5, <2>6 DEF UnrecordedIsUntold, Recorded
  <2>10. CompletionToldOnce'
    <3> SUFFICES ASSUME NEW j \in Job
                 PROVE  /\ \A n1, n2 \in {n \in CompletionNotes' : n.job = j} : n1 = n2
                        /\ \A n \in CompletionNotes', d \in CompletionsDelivered :
                             ~(n.job = j /\ d.note.job = j)
      BY <2>2 DEF NoteInv, CompletionToldOnce
    <3> QED BY <2>3, <2>5, <2>6 DEF CompletionToldOnce
  <2> QED BY <2>7, <2>8, <2>9, <2>10
<1> QED BY <1>1, <1>2, <1>3, <1>4, <1>5

LEMMA NoteTeardown ==
  ASSUME NoteInv, TypeInv',
         \/ \E s \in Sessions : BeginDestroy(s) \/ FinishDestroy(s)
         \/ CloseCancel \/ CloseMark \/ RemoveTempRoot
  PROVE  NoteInv'
<1> USE DEF NoteInv, TypeInv, TypeOK
<1>1. CASE \E s \in Sessions : BeginDestroy(s)
  <2>1. PICK s \in Sessions : BeginDestroy(s)
    BY <1>1
  <2>2. pc' = pc /\ seq' = seq /\ CompletionsDelivered' = CompletionsDelivered
    BY <2>1 DEF BeginDestroy, tableVars, CompletionsDelivered
  <2> DEFINE Dropped == {n \in NotesFor(s) : IsCompletion(n)}
  <2>3. CompletionNotes' = CompletionNotes \ Dropped
    BY <2>1 DEF BeginDestroy, Kept, CompletionNotes, NotesFor, IsCompletion
  <2>4. discarded' = discarded \cup {n.job : n \in Dropped}
    BY <2>1 DEF BeginDestroy
  <2> HIDE DEF Dropped
  <2>5. FreshIsFree'
    BY <2>2 DEF FreshIsFree
  <2>6. EndIsPublished'
    BY <2>1, <2>2, SMT DEF BeginDestroy, EndIsPublished
  <2>7. RecordedIsNoted'
    BY <2>2, <2>3, <2>4 DEF RecordedIsNoted, Recorded, Noted
  <2>8. UnrecordedIsUntold'
    BY <2>2, <2>3 DEF UnrecordedIsUntold, Recorded
  <2>9. CompletionToldOnce'
    BY <2>2, <2>3 DEF CompletionToldOnce
  <2> QED BY <2>5, <2>6, <2>7, <2>8, <2>9
<1>2. CASE (\E s \in Sessions : FinishDestroy(s)) \/ CloseCancel \/ CloseMark \/ RemoveTempRoot
  <2>1. pc' = pc /\ seq' = seq /\ CompletionNotes' = CompletionNotes
        /\ CompletionsDelivered' = CompletionsDelivered /\ discarded' = discarded
    BY <1>2 DEF FinishDestroy, CloseCancel, CloseMark, RemoveTempRoot, jobVars, noteVars,
                tableVars, CompletionNotes, CompletionsDelivered
  <2>2. \A j \in Job : status'[j] = status[j] \/ status'[j] = "killed"
    BY <1>2, SMT DEF FinishDestroy, CloseCancel, CloseMark, RemoveTempRoot, jobVars
  <2>3. EndIsPublished' /\ FreshIsFree'
    BY <2>1, <2>2, SMT DEF EndIsPublished, FreshIsFree
  <2> QED BY <2>1, <2>3, NotesUntouched DEF Recorded
<1> QED BY <1>1, <1>2

LEMMA NoteStep == NoteInv /\ [Next]_vars => NoteInv'
<1> SUFFICES ASSUME NoteInv, [Next]_vars PROVE NoteInv'
  OBVIOUS
<1>1. TypeInv'
  BY TypeStep DEF NoteInv
<1>2. CASE UNCHANGED vars
  <2>1. pc' = pc /\ status' = status /\ seq' = seq /\ CompletionNotes' = CompletionNotes
        /\ CompletionsDelivered' = CompletionsDelivered /\ discarded' = discarded
    BY <1>2 DEF vars, jobVars, noteVars, tableVars, CompletionNotes, CompletionsDelivered
  <2>2. EndIsPublished' /\ FreshIsFree'
    BY <2>1 DEF FreshIsFree, EndIsPublished, NoteInv
  <2> QED BY <1>1, <2>1, <2>2, NotesUntouched DEF Recorded, NoteInv
<1>3. CASE Next
  BY <1>1, <1>3, NoteGoroutine, NoteCallers, NoteTeardown DEF Next
<1> QED BY <1>2, <1>3

(* Whatever kills, drains, adoptions and destroys do in between, a job     *)
(* whose done channel is closed has a terminal status and is accounted for *)
(* by one note.                                                            *)
THEOREM SettledAndToldOnce == Spec => [](DoneClosedImpliesSettled /\ CompletionToldOnce)
<1>1. Spec => []NoteInv
  BY NoteInit, NoteStep, PTL DEF Spec
<1>2. NoteInv => DoneClosedImpliesSettled /\ CompletionToldOnce
  BY DEF NoteInv, RecordedIsNoted, Recorded, EndIsPublished, DoneClosedImpliesSettled
<1> QED BY <1>1, <1>2, PTL

(* A job seen as done or failed is accounted for by its note: publishing   *)
(* after recording is what makes it so.                                    *)
THEOREM NaturalEndIsNoted == Spec => []NaturalEndNoted
<1>1. Spec => []NoteInv
  BY NoteInit, NoteStep, PTL DEF Spec
<1>2. NoteInv => NaturalEndNoted
  BY DEF NoteInv, RecordedIsNoted, Recorded, EndIsPublished, NaturalEndNoted
<1> QED BY <1>1, <1>2, PTL

(* No step changes a terminal status.                                      *)
THEOREM StatusIsFinal == Spec => TerminalStatusFinal
<1>1. NoteInv /\ [Next]_vars => [\A j \in Job : status[j] # "running" => status'[j] = status[j]]_vars
  <2> SUFFICES ASSUME NoteInv, Next, NEW j \in Job, status[j] # "running"
               PROVE  status'[j] = status[j]
    OBVIOUS
  <2> USE DEF NoteInv, TypeInv, TypeOK
  <2>1. ASSUME NEW k \in Job, Return(k) \/ Goroutine(k) \/ MonitorStall(k) \/ Monitor(k)
        PROVE  status'[j] = status[j]
    <3>1. CASE Publish(k)
      <4>1. j = k => status[j] = "killed"
        BY <3>1, SMT DEF Publish, EndIsPublished, Status, Terminal
      <4> QED BY <3>1, <4>1, SMT DEF Publish, Published
    <3>2. CASE ~Publish(k)
      BY <2>1, <3>2 DEF Goroutine, Monitor, Launch, Return, Decide, Record, Exit,
                        MonitorStall, RecordStalled, MonitorExit
    <3> QED BY <3>1, <3>2
  <2>2. ASSUME NEW s \in Owner, NEW k \in Job, Kill(s, k)
        PROVE  status'[j] = status[j]
    BY <2>2, SMT DEF Kill, Running
  <2>3. ASSUME NEW s \in Sessions, BeginDestroy(s)
        PROVE  status'[j] = status[j]
    BY <2>3, SMT DEF BeginDestroy, Running
  <2>4. CASE CloseMark
    BY <2>4, SMT DEF CloseMark
  <2>5. CASE \/ \E s \in StartIn : Start(s)
             \/ \E s \in Owner : Drain(s)
             \/ \E k \in Job : Cancel(k)
             \/ \E s \in Sessions : Bind(s) \/ Adopt(s) \/ FinishDestroy(s)
             \/ CloseCancel \/ RemoveTempRoot
    BY <2>5 DEF Start, Drain, Cancel, Bind, Adopt, FinishDestroy, CloseCancel,
                RemoveTempRoot, jobVars
  <2> QED BY <2>1, <2>2, <2>3, <2>4, <2>5 DEF Next
<1>2. Spec => []NoteInv
  BY NoteInit, NoteStep, PTL DEF Spec
<1> QED BY <1>1, <1>2, PTL DEF Spec, TerminalStatusFinal

-----------------------------------------------------------------------------
(* The destroy window.  A note is addressed to the session its job was     *)
(* started in, unless that was none and the job was adopted; and a window  *)
(* that opened without notes of its own jobs stays without them.           *)

NotesAreHome ==
  \A n \in CompletionNotes : n.session = home[n.job] \/ home[n.job] = NoSession

WindowIsClean ==
  \A s \in destroying : \A n \in CompletionNotes : ~(n.session = s /\ home[n.job] = s)

WindowInv == NotesAreHome /\ WindowIsClean

(* A step that queues no completion, moves no job and opens no window.     *)
LEMMA WindowUntouched ==
  ASSUME WindowInv,
         CompletionNotes' \subseteq CompletionNotes,
         \A n \in CompletionNotes : home'[n.job] = home[n.job],
         destroying' \subseteq destroying
  PROVE  WindowInv'
<1>1. NotesAreHome'
  BY DEF WindowInv, NotesAreHome
<1>2. WindowIsClean'
  BY DEF WindowInv, WindowIsClean
<1> QED BY <1>1, <1>2 DEF WindowInv

LEMMA WindowStep ==
  ASSUME NoteInv, WindowInv, [Next]_vars
  PROVE  WindowInv'
<1> USE DEF NoteInv, TypeInv, TypeOK
<1>1. \A n \in CompletionNotes : n \in Note /\ n.job \in Job
  BY SMT DEF CompletionNotes, Note
<1>2. ASSUME home' = home, destroying' = destroying,
             \A n \in completed' : n \in completed \/ ~IsCompletion(n)
      PROVE  WindowInv'
  <2>1. CompletionNotes' \subseteq CompletionNotes
    BY <1>2 DEF CompletionNotes, IsCompletion
  <2> QED BY <1>2, <2>1, WindowUntouched
<1>3. ASSUME NEW s \in StartIn, Start(s) PROVE WindowInv'
  <2>1. seq + 1 \in Job /\ pc[seq + 1] = "free"
    BY <1>3, JobFact, SMT DEF Start, FreshIsFree, Job
  <2>2. \A n \in CompletionNotes : n.job # seq + 1
    BY <2>1, SMT DEF UnrecordedIsUntold, Recorded
  <2>3. \A n \in CompletionNotes : home'[n.job] = home[n.job]
    BY <1>1, <1>3, <2>2, SMT DEF Start
  <2>4. CompletionNotes' = CompletionNotes /\ destroying' = destroying
    BY <1>3 DEF Start, CompletionNotes, IsCompletion, noteVars, sessionVars
  <2> QED BY <2>3, <2>4, WindowUntouched
<1>4. ASSUME NEW j \in Job, Record(j) PROVE WindowInv'
  <2>1. home' = home /\ destroying' = destroying
    BY <1>4 DEF Record, tableVars, sessionVars
  <2>2. CASE Refuses(home[j]) /\ UNCHANGED completed
    BY <1>2, <2>1, <2>2
  <2>3. CASE ~Refuses(home[j]) /\ completed' = completed \cup {Summary(j)}
    <3>1. \A n \in CompletionNotes' : n \in CompletionNotes \/ n = Summary(j)
      BY <2>3 DEF CompletionNotes, IsCompletion
    <3>2. Summary(j).job = j /\ Summary(j).session = home[j] /\ home[j] \notin destroying
      BY <2>3 DEF Summary, Refuses
    <3>3. NotesAreHome'
      BY <2>1, <3>1, <3>2 DEF NotesAreHome, WindowInv
    <3>4. WindowIsClean'
      BY <2>1, <3>1, <3>2 DEF WindowIsClean, WindowInv
    <3> QED BY <3>3, <3>4 DEF WindowInv
  <2> QED BY <1>4, <2>2, <2>3 DEF Record
<1>5. ASSUME NEW j \in Job, RecordStalled(j) PROVE WindowInv'
  BY <1>2, <1>5, SMT DEF RecordStalled, tableVars, sessionVars, IsCompletion
<1>6. ASSUME NEW s \in Sessions, Adopt(s) PROVE WindowInv'
  <2>1. home' = home /\ destroying' = destroying
    BY <1>6 DEF Adopt
  <2>2. ASSUME NEW n \in CompletionNotes'
        PROVE  \E m \in CompletionNotes :
                 /\ n.job = m.job
                 /\ \/ n.session = m.session
                    \/ m.session = NoSession
    <3>1. PICK m \in completed :
             n = IF m.session = NoSession THEN [m EXCEPT !.session = s] ELSE m
      BY <1>6, <2>2 DEF Adopt, CompletionNotes
    <3>2. m \in Note
      OBVIOUS
    <3>3. n.job = m.job /\ n.what = m.what
          /\ (n.session = m.session \/ m.session = NoSession)
      BY <3>1, <3>2, SMT DEF Note
    <3>4. n.what # "stalled"
      BY <2>2 DEF CompletionNotes, IsCompletion
    <3> QED BY <3>3, <3>4 DEF CompletionNotes, IsCompletion
  <2>3. NotesAreHome'
    BY <2>1, <2>2 DEF NotesAreHome, WindowInv
  <2>4. WindowIsClean'
    <3> SUFFICES ASSUME NEW r \in destroying, NEW n \in CompletionNotes',
                        n.session = r, home[n.job] = r
                 PROVE  FALSE
      BY <2>1 DEF WindowIsClean
    <3>1. PICK m \in CompletionNotes :
             n.job = m.job /\ (n.session = m.session \/ m.session = NoSession)
      BY <2>2
    <3>2. r # NoSession
      BY NoSessionAssumption
    <3>3. m.session = r
      BY <3>1, <3>2 DEF NotesAreHome, WindowInv
    <3> QED BY <3>1, <3>3 DEF WindowIsClean, WindowInv
  <2> QED BY <2>3, <2>4 DEF WindowInv
<1>7. ASSUME NEW s \in Sessions, BeginDestroy(s) PROVE WindowInv'
  <2>1. home' = home /\ destroying' = destroying \cup {s}
    BY <1>7 DEF BeginDestroy, tableVars
  <2>2. \A n \in CompletionNotes' : n \in CompletionNotes /\ n.session # s
    BY <1>7 DEF BeginDestroy, CompletionNotes, IsCompletion, Kept, NotesFor
  <2>3. NotesAreHome'
    BY <2>1, <2>2 DEF NotesAreHome, WindowInv
  <2>4. WindowIsClean'
    BY <2>1, <2>2 DEF WindowIsClean, WindowInv
  <2> QED BY <2>3, <2>4 DEF WindowInv
<1>8. ASSUME NEW s \in Sessions, FinishDestroy(s) PROVE WindowInv'
  <2>1. CompletionNotes' = CompletionNotes /\ home' = home /\ destroying' \subseteq destroying
    BY <1>8 DEF FinishDestroy, CompletionNotes, IsCompletion, noteVars
  <2> QED BY <2>1, WindowUntouched
<1>9. ASSUME NEW s \in Owner, Drain(s) PROVE WindowInv'
  BY <1>2, <1>9 DEF Drain, Kept, tableVars, sessionVars
<1>10. ASSUME UNCHANGED <<completed, home, destroying>> PROVE WindowInv'
  BY <1>2, <1>10
<1>11. CASE UNCHANGED vars
  BY <1>10, <1>11 DEF vars, noteVars, tableVars, sessionVars
<1>12. ASSUME NEW j \in Job, Return(j) \/ Goroutine(j) \/ MonitorStall(j) \/ Monitor(j)
       PROVE  WindowInv'
  BY <1>4, <1>5, <1>10, <1>12
  DEF Goroutine, Monitor, Launch, Return, Decide, Publish, Exit, MonitorStall,
      MonitorExit, noteVars, tableVars, sessionVars
<1>13. ASSUME NEW s \in Owner, NEW j \in Job, Kill(s, j) PROVE WindowInv'
  BY <1>10, <1>13 DEF Kill, noteVars, tableVars, sessionVars
<1>14. ASSUME NEW j \in Job, Cancel(j) PROVE WindowInv'
  BY <1>10, <1>14 DEF Cancel, noteVars, tableVars, sessionVars
<1>15. ASSUME NEW s \in Sessions, Bind(s) PROVE WindowInv'
  BY <1>10, <1>15 DEF Bind, noteVars, tableVars
<1>16. CASE CloseCancel \/ CloseMark \/ RemoveTempRoot
  BY <1>10, <1>16 DEF CloseCancel, CloseMark, RemoveTempRoot, noteVars, tableVars, sessionVars
<1> QED
  <2>1. CASE Next
    BY <2>1, <1>3, <1>6, <1>7, <1>8, <1>9, <1>12, <1>13, <1>14, <1>15, <1>16 DEF Next
  <2> QED BY <1>11, <2>1

(* A destroy window that closes leaves no completion note behind of a job  *)
(* the teardown waited for: the window refused it while the job ended.     *)
THEOREM TeardownIsClean == Spec => TeardownLeavesNoNote
<1>1. Init => WindowInv
  BY DEF Init, WindowInv, NotesAreHome, WindowIsClean, CompletionNotes
<1>2. WindowInv =>
        \A s \in Sessions : FinishDestroy(s) =>
          ~\E n \in CompletionNotes :
             n.job \in targets[s] /\ n.session = s /\ home[n.job] = s
  BY DEF WindowInv, WindowIsClean, FinishDestroy
<1>3. WindowInv /\ [Next]_vars =>
        [\A s \in Sessions : FinishDestroy(s) =>
          ~\E n \in CompletionNotes :
             n.job \in targets[s] /\ n.session = s /\ home[n.job] = s]_vars
  BY <1>2
<1> QED BY <1>1, <1>3, NoteInit, NoteStep, WindowStep, PTL DEF Spec, TeardownLeavesNoNote

=============================================================================
