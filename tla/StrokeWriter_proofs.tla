------------------------- MODULE StrokeWriter_proofs -------------------------
(***************************************************************************)
(* For lanes of any length, any number of strokes, edits and saves, and    *)
(* whatever fails: strokes settle in the order they closed (SettledInOrder),*)
(* what is shown is what was saved (ShownWasDurable), a clean artwork is   *)
(* the exported one (CleanIsExported), and a close that reports no error   *)
(* lost nothing (NothingLostByClosing).                                    *)
(*                                                                         *)
(* The strokes are followed by number, never by place: Carries says which  *)
(* strokes a sequence holds, in order, so that the project, the writer's   *)
(* hand, the FIFO and the backlog are consecutive ranges up to closed.     *)
(***************************************************************************)
EXTENDS StrokeWriter, SequenceTheorems, TLAPS

USE DEF vars, input, desk, traffic, report, writer, disk

Kinds     == {"stroke", "edit", "export", "closing_export"}
Requests  == [kind : Kinds, n : Nat]
Stages    == {"idle", "waiting", "queued", "running", "current", "failed"}
Statuses  == [stage : Stages, generation : Nat]
Jobs      == [state : {"none", "queued", "done", "rejected", "fatal"}, seen : Seq(Nat)]
Ended     == {"stopped", "finished", "gone"}
Settling  == {"publish", "full", "settle"}
Exporting == {"export", "encoding", "replaced"}

(* The steps of the close once the display has retired, once the canvas is *)
(* sealed, and once the image of the close has been asked for              *)
Sent    == {"sent", "drop", "join", "joined"}
Sealed  == Sent \cup {"fill", "filled", "reserve", "check", "send"}
Retired == Sealed \cup {"close_flush", "close_drain", "close_input", "close_reflush", "seal"}

TypeOK ==
  /\ closed \in Nat /\ taken \in Nat /\ saving \in Nat /\ latest \in Nat
  /\ png \in Nat /\ receipt \in Nat /\ pending \in Int
  /\ backlog \in Seq(Nat \ {Edit}) /\ channel \in Seq(Requests)
  /\ lane \in Seq(Nat) /\ shown \in Seq(Nat) /\ durable \in Seq(Nat)
  /\ job \in Jobs
  /\ export \in Statuses
  /\ at \in {"idle", "stroke", "edit"} \cup Settling \cup Exporting \cup Ended
  /\ on \in Requests \cup {NoRequest}

-----------------------------------------------------------------------------
(* Types *)

(* A published status is a status, whichever of the two it is.             *)
LEMMA PublishedTyped ==
  ASSUME export \in Statuses, NEW s \in Stages, NEW g \in Nat
  PROVE  Published(Status(s, g)) \in Statuses
  BY DEF Published, Status, Statuses

(* So is an abandoned one.                                                 *)
LEMMA AbandonedTyped ==
  ASSUME export \in Statuses
  PROVE  Abandoned \in Statuses
  BY DEF Abandoned, Status, Statuses, Stages

(* What is sent, taken and answered has the type it needs.                 *)
LEMMA SentTyped ==
  ASSUME TypeOK, NEW n \in Nat
  PROVE  /\ Append(channel, Request("stroke", n)) \in Seq(Requests)
         /\ Append(channel, Request("edit", n)) \in Seq(Requests)
         /\ Append(channel, Request("export", n)) \in Seq(Requests)
         /\ Append(channel, Request("closing_export", n)) \in Seq(Requests)
  <1>1. /\ Request("stroke", n) \in Requests /\ Request("edit", n) \in Requests
        /\ Request("export", n) \in Requests /\ Request("closing_export", n) \in Requests
    BY DEF Request, Requests, Kinds
  <1>2. QED
    BY <1>1 DEF TypeOK

(* What a take or an append leaves has the type it needs.                  *)
LEMMA TakenTyped ==
  ASSUME TypeOK
  PROVE  /\ backlog # <<>> => /\ Head(backlog) \in Nat \ {Edit}
                              /\ Tail(backlog) \in Seq(Nat \ {Edit})
         /\ channel # <<>> => /\ Head(channel) \in Requests
                              /\ Tail(channel) \in Seq(Requests)
         /\ on.n \in Nat
         /\ Append(durable, on.n) \in Seq(Nat) /\ Append(lane, on.n) \in Seq(Nat)
         /\ Append(durable, Edit) \in Seq(Nat) /\ shown \o lane \in Seq(Nat)
  <1>1. on.n \in Nat /\ Edit \in Nat
    BY DEF TypeOK, Requests, NoRequest, Edit
  <1>2. QED
    BY <1>1 DEF TypeOK

(* The answers the writer gives are answers.                               *)
LEMMA AnswerTyped ==
  ASSUME NEW q \in Seq(Nat)
  PROVE  /\ NoJob \in Jobs /\ Job("queued", <<>>) \in Jobs /\ Job("done", q) \in Jobs
         /\ Job("rejected", <<>>) \in Jobs /\ Job("fatal", <<>>) \in Jobs
         /\ \A j \in Jobs : j.seen \in Seq(Nat)
  BY DEF Job, Jobs, NoJob

(* A writer just started is well typed.                                    *)
LEMMA InitTyped == Init => TypeOK
  <1>1. Status("idle", 0) \in Statuses /\ NoJob \in Jobs
    BY DEF Status, Statuses, Stages, NoJob, Jobs
  <1>2. QED
    BY <1>1 DEF Init, TypeOK

(* The steps of a frame keep the types.                                    *)
LEMMA RenderingTyped ==
  ASSUME TypeOK, Rendering
  PROVE  TypeOK'
  <1> USE DEF TypeOK
  <1>1. CASE Adopt
    BY TakenTyped, <1>1 DEF Adopt
  <1>2. CASE Poll
    BY AnswerTyped, <1>2 DEF Poll, PollDone, PollRejected, PollFatal, PollNothing
  <1>3. CASE StartDrain
    BY <1>3 DEF StartDrain
  <1>4. CASE FlushOne
    BY TakenTyped, SentTyped, <1>4 DEF FlushOne
  <1>5. CASE FlushDone
    BY <1>5 DEF FlushDone
  <1>6. CASE BeginStroke
    BY <1>6 DEF BeginStroke, Draining
  <1>7. CASE BeginRefused
    BY <1>7 DEF BeginRefused, Draining
  <1>8. CASE CancelStroke
    BY <1>8 DEF CancelStroke, Draining
  <1>9. CASE EndGesture
    BY <1>9 DEF EndGesture, Draining
  <1>10. CASE EndStroke
    <2>1. channel' \in Seq(Requests) /\ backlog' \in Seq(Nat \ {Edit}) /\ pending' \in Int
      <3>1. closed + 1 \in Nat \ {Edit}
        BY DEF Edit
      <3>2. /\ Append(channel, Request("stroke", closed + 1)) \in Seq(Requests)
            /\ Append(backlog, closed + 1) \in Seq(Nat \ {Edit})
        BY <3>1, SentTyped
      <3>3. channel' \in Seq(Requests) /\ backlog' \in Seq(Nat \ {Edit})
        BY Zenon, <3>2, <1>10 DEF EndStroke, TypeOK
      <3>4. pending' \in Int
        BY <1>10 DEF EndStroke
      <3>5. QED
        BY <3>3, <3>4
    <2>2. QED
      BY <2>1, <1>10 DEF EndStroke, Draining
  <1>11. CASE StopInput
    BY <1>11 DEF StopInput
  <1>12. CASE Sync
    BY <1>12, AbandonedTyped DEF Sync, Synchronize
  <1>13. CASE EndCommands
    BY <1>13, AbandonedTyped DEF EndCommands, Synchronize
  <1>14. CASE Settle
    BY TakenTyped, <1>14 DEF Settle
  <1>15. CASE RequestEdit
    <2>1. channel' \in Seq(Requests) /\ job' \in Jobs
      <3>1. CASE UNCHANGED <<job, channel>>
        BY <3>1
      <3>2. CASE channel' = Append(channel, Request("edit", Edit)) /\ job' = Job("queued", <<>>)
        <4>1. Edit \in Nat /\ <<>> \in Seq(Nat)
          BY DEF Edit
        <4>2. QED
          BY <3>2, <4>1, SentTyped, AnswerTyped
      <3>3. QED
        BY <3>1, <3>2, <1>15 DEF RequestEdit
    <2>2. QED
      BY <2>1, <1>15, TakenTyped DEF RequestEdit
  <1>16. CASE Save
    BY <1>16, PublishedTyped DEF Save, Reserve, Stages
  <1>17. CASE FlushSave
    <2>1. Append(channel, Request("export", saving)) \in Seq(Requests)
      BY SentTyped
    <2>2. Published(Status("failed", saving)) \in Statuses
      BY PublishedTyped DEF Stages
    <2>3. channel' \in Seq(Requests) /\ export' \in Statuses
      BY Zenon, <2>1, <2>2, <1>17 DEF FlushSave, TypeOK
    <2>4. saving' \in Nat
      BY <1>17 DEF FlushSave
    <2>5. UNCHANGED <<closed, taken, latest, png, receipt, pending, backlog, lane, shown, durable,
                      job, at, on>>
      BY <1>17 DEF FlushSave
    <2>6. QED
      BY <2>3, <2>5, <2>4
  <1>18. CASE SaveQueued
    BY <1>18, PublishedTyped DEF SaveQueued, Stages
  <1>19. CASE SaveWaits
    BY <1>19, PublishedTyped DEF SaveWaits, Stages
  <1>20. QED
    BY <1>1, <1>2, <1>3, <1>4, <1>5, <1>6, <1>7, <1>8, <1>9, <1>10, <1>11, <1>12, <1>13, <1>14,
       <1>15, <1>16, <1>17, <1>18, <1>19 DEF Rendering, Drain

(* So do those of a close.                                                 *)
LEMMA RetiringTyped ==
  ASSUME TypeOK, Retiring
  PROVE  TypeOK'
  <1> USE DEF TypeOK
  <1>1. CASE BeginClose
    BY <1>1 DEF BeginClose
  <1>2. CASE EndLastCommands
    BY <1>2 DEF EndLastCommands
  <1>3. CASE Retire
    BY <1>3 DEF Retire
  <1>4. CASE CloseFlushed
    BY <1>4 DEF CloseFlushed
  <1>5. CASE NothingToSeal
    BY <1>5 DEF NothingToSeal
  <1>6. CASE CloseFlush
    <2>1. /\ Tail(backlog) \in Seq(Nat \ {Edit})
          /\ Append(channel, Request("stroke", Head(backlog))) \in Seq(Requests)
      BY <1>6, TakenTyped, SentTyped DEF CloseFlush
    <2>2. channel' \in Seq(Requests) /\ backlog' \in Seq(Nat \ {Edit})
      BY Zenon, <2>1, <1>6 DEF CloseFlush, TypeOK
    <2>3. pending' \in Int
      BY <1>6 DEF CloseFlush
    <2>4. UNCHANGED <<closed, taken, saving, latest, png, receipt, lane, shown, durable, job,
                      export, at, on>>
      BY <1>6 DEF CloseFlush
    <2>5. QED
      BY <2>2, <2>3, <2>4
  <1>7. CASE Seal
    <2>1. Append(channel, Request("stroke", closed + 1)) \in Seq(Requests)
      BY SentTyped
    <2>2. channel' \in Seq(Requests)
      BY Zenon, <2>1, <1>7 DEF Seal, SealActive, SealRefused, TypeOK
    <2>3. closed' \in Nat /\ pending' \in Int
      BY <1>7 DEF Seal, SealActive, SealRefused
    <2>4. UNCHANGED <<taken, saving, latest, png, receipt, backlog, lane, shown, durable, job,
                      export, at, on>>
      BY <1>7 DEF Seal
    <2>5. QED
      BY <2>2, <2>4, <2>3
  <1>8. CASE SendFill
    <2>1. Edit \in Nat /\ <<>> \in Seq(Nat)
      BY DEF Edit
    <2>2. Append(channel, Request("edit", Edit)) \in Seq(Requests) /\ Job("queued", <<>>) \in Jobs
      BY <2>1, SentTyped, AnswerTyped
    <2>3. channel' \in Seq(Requests) /\ job' \in Jobs
      BY <2>2, <1>8 DEF SendFill
    <2>4. UNCHANGED <<closed, taken, saving, latest, png, receipt, pending, backlog, lane, shown,
                      durable, export, at, on>>
      BY <1>8 DEF SendFill
    <2>5. QED
      BY <2>3, <2>4
  <1>9. CASE Filled
    BY AnswerTyped, <1>9 DEF Filled
  <1>10. CASE ReserveClosing
    BY <1>10, PublishedTyped DEF ReserveClosing, Reserve, Stages
  <1>11. CASE NothingToFill
    BY <1>11 DEF NothingToFill
  <1>12. CASE NothingToReserve
    BY <1>12 DEF NothingToReserve
  <1>13. CASE DropSender
    BY <1>13 DEF DropSender
  <1>14. CASE CheckClosing
    BY <1>14, AbandonedTyped DEF CheckClosing
  <1>15. CASE SendClosing
    BY SentTyped, <1>15, PublishedTyped DEF SendClosing, Stages
  <1>16. CASE Join
    BY <1>16 DEF Join
  <1>17. CASE Joined
    BY <1>17 DEF Joined
  <1>18. QED
    BY <1>1, <1>2, <1>3, <1>4, <1>5, <1>6, <1>7, <1>8, <1>9, <1>10, <1>11, <1>12, <1>13, <1>14,
       <1>15, <1>16, <1>17 DEF Retiring

(* And those of the writer.                                                *)
LEMMA WritingTyped ==
  ASSUME TypeOK, Writing
  PROVE  TypeOK'
  <1> USE DEF TypeOK, Ended, Settling, Exporting
  <1>1. CASE Receive
    <2>1. Head(channel) \in Requests /\ Tail(channel) \in Seq(Requests)
      BY <1>1, TakenTyped DEF Receive
    <2>2. Head(channel).kind \in Kinds
      BY <2>1 DEF Requests
    <2>3. at' \in {"stroke", "edit", "export"}
      BY <2>2, <1>1 DEF Receive, Kinds
    <2>4. QED
      BY <2>1, <2>3, <1>1 DEF Receive
  <1>2. CASE HangUp
    BY <1>2 DEF HangUp
  <1>3. CASE Vanish
    BY <1>3 DEF Vanish
  <1>4. CASE CommitStroke
    BY TakenTyped, <1>4 DEF CommitStroke
  <1>5. CASE StrokeFails
    <2>1. durable' \in Seq(Nat)
      BY <1>5, TakenTyped DEF StrokeFails
    <2>2. QED
      BY <2>1, <1>5 DEF StrokeFails
  <1>6. CASE Publish
    BY TakenTyped, <1>6 DEF Publish
  <1>7. CASE PublishFull
    BY <1>7 DEF PublishFull
  <1>8. CASE SettleStroke
    BY <1>8 DEF SettleStroke
  <1>9. CASE EditCommits
    BY TakenTyped, AnswerTyped, <1>9 DEF EditCommits
  <1>10. CASE EditRejected
    BY AnswerTyped, <1>10 DEF EditRejected
  <1>11. CASE EditFails
    BY TakenTyped, AnswerTyped, <1>11 DEF EditFails
  <1>12. CASE StartExport
    BY TakenTyped, <1>12, PublishedTyped DEF StartExport, Stages
  <1>13. CASE ReplaceImage
    BY <1>13 DEF ReplaceImage
  <1>14. CASE ExportFails
    BY TakenTyped, <1>14, PublishedTyped DEF ExportFails, Stages
  <1>15. CASE ReportImage
    BY TakenTyped, <1>15, PublishedTyped DEF ReportImage, Stages
  <1>16. CASE Finish
    BY <1>16, AbandonedTyped DEF Finish
  <1>17. QED
    BY <1>1, <1>2, <1>3, <1>4, <1>5, <1>6, <1>7, <1>8, <1>9, <1>10, <1>11, <1>12, <1>13, <1>14,
       <1>15, <1>16 DEF Writing

(* Every step keeps the types.                                             *)
LEMMA NextTyped ==
  ASSUME TypeOK, [Next]_vars
  PROVE  TypeOK'
  <1>1. CASE UNCHANGED vars
    BY <1>1 DEF TypeOK
  <1>2. QED
    BY <1>1, RenderingTyped, RetiringTyped, WritingTyped DEF Next

-----------------------------------------------------------------------------
(* Who changes what *)

(* The writer touches nothing of the owner's but the answer to an edit,    *)
(* and only while it carries one out.                                      *)
LEMMA WriterLeaves ==
  ASSUME Writing
  PROVE  /\ UNCHANGED <<pc, input, dirty, saving, shown, closing, retired, latest>>
         /\ at # "edit" => UNCHANGED job
  BY DEF Writing, Receive, HangUp, CommitStroke, StrokeFails, Publish, PublishFull, SettleStroke,
         EditCommits, EditRejected, EditFails, StartExport, ReplaceImage, ExportFails, ReportImage,
         Finish, Vanish

(* The owner touches nothing of the writer's.                              *)
LEMMA OwnerLeaves ==
  ASSUME Rendering \/ Retiring
  PROVE  UNCHANGED <<writer, disk>>
  <1>1. CASE Rendering
    BY <1>1
    DEF Rendering, Drain, Adopt, Poll, StartDrain, FlushOne, FlushDone, BeginStroke, BeginRefused,
        CancelStroke, EndGesture, EndStroke, StopInput, Sync, EndCommands, Settle, RequestEdit,
        Save, FlushSave, SaveQueued, SaveWaits
  <1>2. CASE Retiring
    BY <1>2
    DEF Retiring, BeginClose, EndLastCommands, Retire, CloseFlush, CloseFlushed, Seal,
        NothingToSeal, SendFill, NothingToFill, Filled, ReserveClosing, NothingToReserve,
        CheckClosing, SendClosing, DropSender, Join, Joined
  <1>3. QED
    BY <1>1, <1>2

(* An error stays, and so does a failure seen.                             *)
LEMMA ErrorsStay ==
  ASSUME Next
  PROVE  /\ error => error'
         /\ healthy' => healthy
  <1>1. CASE Rendering
    <2> USE <1>1
        DEF Rendering, Drain, Adopt, Poll, PollDone, PollRejected, PollFatal, PollNothing,
            StartDrain, FlushOne, FlushDone, BeginStroke, BeginRefused, CancelStroke, EndGesture,
            EndStroke, StopInput, Sync, EndCommands, Synchronize, Settle, RequestEdit, Save,
            FlushSave, SaveQueued, SaveWaits
    <2>1. error => error'
      OBVIOUS
    <2>2. healthy' => healthy
      OBVIOUS
    <2>3. QED
      BY <2>1, <2>2
  <1>2. CASE Retiring
    <2> USE <1>2
        DEF Retiring, BeginClose, EndLastCommands, Retire, CloseFlush, CloseFlushed, Seal,
            SealActive, SealRefused, NothingToSeal, SendFill, NothingToFill, Filled,
            ReserveClosing, NothingToReserve, CheckClosing, SendClosing, DropSender, Join, Joined
    <2>1. error => error'
      OBVIOUS
    <2>2. healthy' => healthy
      OBVIOUS
    <2>3. QED
      BY <2>1, <2>2
  <1>3. CASE Writing
    <2> USE <1>3
        DEF Writing, Receive, HangUp, CommitStroke, StrokeFails, Publish, PublishFull, SettleStroke,
            EditCommits, EditRejected, EditFails, StartExport, ReplaceImage, ExportFails, ReportImage,
            Finish, Vanish
    <2>1. error => error'
      OBVIOUS
    <2>2. healthy' => healthy
      OBVIOUS
    <2>3. QED
      BY <2>1, <2>2
  <1>4. QED
    BY <1>1, <1>2, <1>3 DEF Next

-----------------------------------------------------------------------------
(* The course of a close, and of a writer that stops *)

Control ==
  /\ retired <=> pc \in Retired
  /\ exit \in {"running", "drained", "failstop"}
  /\ exit = "running" <=> at \notin Ended
  /\ exit = "drained" => pc \in {"join", "joined"}
  /\ exit = "drained" \/ at = "gone" => channel = <<>>
  /\ fatal => error
  /\ Lost => error \/ job.state = "fatal"
  /\ pc = "joined" => at = "gone" /\ (error \/ exit = "drained")

(* One edit at a time is under way, and its answer is awaited.             *)
Edits ==
  /\ \A i, j \in DOMAIN channel : channel[i].kind = "edit" /\ channel[j].kind = "edit" => i = j
  /\ \A i \in DOMAIN channel : channel[i].kind = "edit" => job.state = "queued" /\ at # "edit"
  /\ at = "edit" => job.state = "queued"
  /\ fill => job = NoJob /\ retired
  /\ pc = "filled" => job # NoJob
  /\ job.state = "none" => job = NoJob

(* The owner retires its display once, and joins a writer that is gone.    *)
LEMMA OwnerControl ==
  ASSUME TypeOK, Control, Edits, Rendering \/ Retiring
  PROVE  Control'
  <1>1. /\ retired' <=> pc' \in Retired
        /\ pc \in {"join", "joined"} => pc' \in {"join", "joined"} /\ channel' = channel
        /\ fatal' => error'
        /\ error => error'
        /\ channel # channel' => at # "gone"
    <2>1. CASE Rendering
      <3> USE <2>1
          DEF Rendering, Drain, Adopt, Poll, PollDone, PollRejected, PollFatal, PollNothing,
              StartDrain, FlushOne, FlushDone, BeginStroke, BeginRefused, CancelStroke, EndGesture,
              EndStroke, StopInput, Sync, EndCommands, Synchronize, Settle, RequestEdit, Save,
              FlushSave, SaveQueued, SaveWaits, Draining, Commanding
      <3>1. /\ retired' <=> pc' \in Retired
            /\ pc \notin {"join", "joined"}
        BY DEF Control, Retired, Sealed, Sent
      <3>2. error => error'
        OBVIOUS
      <3>3. fatal' => error'
        <4>1. fatal' => fatal \/ error'
          BY <3>2
        <4>2. QED
          BY <3>2, <4>1 DEF Control
      <3>4. channel # channel' => at # "gone"
        BY DEF Room, ReceiverGone
      <3>5. QED
        BY <3>1, <3>2, <3>4, <3>3
    <2>2. CASE Retiring
      <3> USE <2>2
          DEF Retiring, BeginClose, EndLastCommands, Retire, CloseFlush, CloseFlushed, Seal,
              SealActive, SealRefused, NothingToSeal, SendFill, NothingToFill, Filled,
              ReserveClosing, Reserve, NothingToReserve, CheckClosing, SendClosing, DropSender,
              Join, Joined
      <3>1. /\ retired' <=> pc' \in Retired
            /\ pc \in {"join", "joined"} => pc' \in {"join", "joined"} /\ channel' = channel
        BY DEF Control, Retired, Sealed, Sent
      <3>2. error => error'
        OBVIOUS
      <3>3. fatal' => error'
        <4>1. fatal' => fatal \/ error'
          BY <3>2
        <4>2. QED
          BY <3>2, <4>1 DEF Control
      <3>4. channel # channel' => at # "gone"
        BY DEF Room, ReceiverGone
      <3>5. QED
        BY <3>1, <3>2, <3>4, <3>3
    <2>3. QED
      BY <2>1, <2>2
  <1>2. Lost => error' \/ job'.state = "fatal"
    <2>1. SUFFICES ASSUME Lost, ~error, job.state = "fatal"
                   PROVE  error' \/ job' = job
      BY <1>1 DEF Control
    <2>2. job # NoJob /\ ~fill
      BY <2>1 DEF NoJob, Edits
    <2>3. CASE Rendering
      BY <2>1, <2>2, <2>3
      DEF Rendering, Drain, Adopt, Poll, PollDone, PollRejected,
          PollFatal, PollNothing, StartDrain, FlushOne, FlushDone, BeginStroke, BeginRefused,
          CancelStroke, EndGesture, EndStroke, StopInput, Sync, EndCommands, Settle,
          RequestEdit, Idle, Save, FlushSave, SaveQueued, SaveWaits
    <2>4. CASE Retiring
      BY <2>1, <2>2, <2>4
      DEF Retiring, BeginClose, EndLastCommands, Retire, CloseFlush, CloseFlushed, Seal,
          NothingToSeal, SendFill, NothingToFill, Filled, ReserveClosing, NothingToReserve,
          CheckClosing, SendClosing, DropSender, Join, Joined
    <2>5. QED
      BY <2>3, <2>4
  <1>3. pc' = "joined" => at' = "gone" /\ (error' \/ exit' = "drained")
    <2>1. pc' = "joined" => Join \/ Joined
      <3>1. CASE Rendering
        BY <3>1
        DEF Rendering, Drain, Adopt, Poll, StartDrain, FlushOne, FlushDone, BeginStroke,
            BeginRefused, CancelStroke, EndGesture, EndStroke, StopInput, Sync, EndCommands, Settle,
            RequestEdit, Save, FlushSave, SaveQueued, SaveWaits, Draining, Commanding
      <3>2. CASE Retiring
        BY <3>2
        DEF Retiring, BeginClose, EndLastCommands, Retire, CloseFlush, CloseFlushed, Seal,
            NothingToSeal, SendFill, NothingToFill, Filled, ReserveClosing, NothingToReserve,
            CheckClosing, SendClosing, DropSender
      <3>3. QED
        BY <3>1, <3>2
    <2>2. QED
      BY <2>1, OwnerLeaves DEF Join, Joined, Control
  <1>4. QED
    BY <1>1, <1>2, <1>3, OwnerLeaves DEF Control, Lost

(* The writer stops for a reason that someone else can see.                *)
LEMMA WriterControl ==
  ASSUME TypeOK, Control, Edits, Writing
  PROVE  Control'
  <1>1. /\ exit' \in {"running", "drained", "failstop"}
        /\ exit' = "running" <=> at' \notin Ended
        /\ exit' = "drained" => pc \in {"join", "joined"}
        /\ exit' = "drained" \/ at' = "gone" => channel' = <<>>
        /\ error => error'
        /\ at = "gone" => at' = "gone" /\ UNCHANGED <<exit, error>>
    <2> USE DEF Writing, Receive, HangUp, CommitStroke, StrokeFails, Publish, PublishFull,
                SettleStroke, EditCommits, EditRejected, EditFails, StartExport, ReplaceImage,
                ExportFails, ReportImage, Finish, Vanish
    <2>1. exit' \in {"running", "drained", "failstop"}
      BY DEF Control
    <2>2. exit' = "running" <=> at' \notin Ended
      <3>1. exit \in {"running", "drained", "failstop"} /\ (exit = "running" <=> at \notin Ended)
        BY DEF Control
      <3>2. CASE Receive
        BY <3>1, <3>2, TakenTyped DEF Requests, Kinds, Ended
      <3>3. CASE ~Receive
        BY <3>1, <3>3 DEF Ended
      <3>4. QED
        BY <3>2, <3>3
    <2>3. exit' = "drained" => pc \in {"join", "joined"}
      BY DEF Control, SenderGone
    <2>4. exit' = "drained" \/ at' = "gone" => channel' = <<>>
      BY <2>2 DEF Control, Ended
    <2>5. error => error'
      OBVIOUS
    <2>6. at = "gone" => at' = "gone" /\ UNCHANGED <<exit, error>>
      OBVIOUS
    <2>7. QED
      BY <2>1, <2>2, <2>3, <2>4, <2>5, <2>6
  <1>2. exit' = "failstop" => error' \/ job'.state = "fatal"
    <2>1. CASE EditFails
      BY <2>1 DEF EditFails, Job
    <2>2. CASE StrokeFails
      BY <2>2 DEF StrokeFails
    <2>3. CASE PublishFull
      BY <2>3 DEF PublishFull, Control, Ended
    <2>4. CASE ~(EditFails \/ StrokeFails \/ PublishFull)
      <3>1. exit' = "failstop" => exit = "failstop"
        BY <2>4
        DEF Writing, Receive, HangUp, CommitStroke, Publish, SettleStroke, EditCommits,
            EditRejected, StartExport, ReplaceImage, ExportFails, ReportImage, Finish, Vanish
      <3>2. exit = "failstop" => at # "edit"
        BY DEF Control, Ended
      <3>3. QED
        BY <1>1, <3>1, <3>2, WriterLeaves DEF Control, Lost
    <2>5. QED
      BY <2>1, <2>2, <2>3, <2>4
  <1>3. QED
    BY <1>1, <1>2, WriterLeaves DEF Control, Lost

-----------------------------------------------------------------------------
(* Edits *)

(* What a send puts at the end of the FIFO; only two of them ask for edits. *)
LEMMA OwnerSends ==
  ASSUME TypeOK, Rendering \/ Retiring, ~(RequestEdit \/ SendFill)
  PROVE  \/ UNCHANGED channel
         \/ \E k \in Kinds \ {"edit"}, n \in Nat : channel' = Append(channel, Request(k, n))
  <1>1. CASE FlushOne \/ CloseFlush
    <2>1. backlog # <<>>
      BY <1>1 DEF FlushOne, CloseFlush
    <2>2. Head(backlog) \in Nat
      BY <2>1, TakenTyped
    <2>3. UNCHANGED channel \/ channel' = Append(channel, Request("stroke", Head(backlog)))
      BY <1>1 DEF FlushOne, CloseFlush
    <2>4. QED
      BY <2>2, <2>3 DEF Kinds
  <1>2. CASE EndStroke \/ Seal
    <2>1. closed + 1 \in Nat
      BY DEF TypeOK
    <2>2. UNCHANGED channel \/ channel' = Append(channel, Request("stroke", closed + 1))
      BY Zenon, <1>2 DEF EndStroke, Seal, SealActive, SealRefused
    <2>3. QED
      BY Zenon, <2>1, <2>2 DEF Kinds
  <1>3. CASE FlushSave \/ SendClosing
    <2>1. \/ UNCHANGED channel
          \/ channel' = Append(channel, Request("export", saving))
          \/ channel' = Append(channel, Request("closing_export", saving))
      BY Zenon, <1>3 DEF FlushSave, SendClosing
    <2>2. saving \in Nat
      BY DEF TypeOK
    <2>3. QED
      BY Zenon, <2>1, <2>2 DEF Kinds
  <1>4. CASE ~(FlushOne \/ CloseFlush \/ EndStroke \/ Seal \/ FlushSave \/ SendClosing)
    <2>1. CASE Rendering
      BY <1>4, <2>1
      DEF Rendering, Drain, Adopt, Poll, StartDrain, FlushDone, BeginStroke, BeginRefused,
          CancelStroke, EndGesture, StopInput, Sync, EndCommands, Settle, Save, SaveQueued, SaveWaits
    <2>2. CASE Retiring
      BY <1>4, <2>2
      DEF Retiring, BeginClose, EndLastCommands, Retire, CloseFlushed, NothingToSeal,
          NothingToFill, Filled, ReserveClosing, NothingToReserve, CheckClosing, DropSender, Join,
          Joined
    <2>3. QED
      BY <2>1, <2>2
  <1>5. QED
    BY <1>1, <1>2, <1>3, <1>4

(* An edit is asked for when none is under way.                            *)
LEMMA AskingKeepsEdits ==
  ASSUME TypeOK, Control, Edits, RequestEdit \/ SendFill
  PROVE  Edits'
  <1>1. CASE job' = job /\ channel' = channel
    <2>1. RequestEdit \/ (SendFill /\ pc' = "reserve" /\ ~fill')
      BY <1>1 DEF SendFill, Edits, Job, NoJob
    <2>2. UNCHANGED <<retired, at>>
      BY DEF RequestEdit, SendFill
    <2>3. (fill' => fill) /\ pc' # "filled"
      BY <2>1 DEF RequestEdit, SendFill, Commanding
    <2>4. QED
      BY <1>1, <2>2, <2>3 DEF Edits
  <1>2. CASE channel' = Append(channel, Request("edit", Edit)) /\ job' = Job("queued", <<>>)
    <2>1. job = NoJob /\ ~fill' /\ at' = at
      BY <1>2 DEF RequestEdit, SendFill, Idle, Edits, Control, Retired, Sealed, Sent, Commanding
    <2>2. job.state # "queued"
      BY <2>1 DEF NoJob
    <2>3. at # "edit" /\ \A i \in DOMAIN channel : channel[i].kind # "edit"
      BY <2>2 DEF Edits
    <2>4. job'.state = "queued" /\ job' # NoJob
      BY <1>2 DEF Job, NoJob
    <2>5. \A i \in DOMAIN channel' : channel'[i].kind = "edit" => i = Len(channel) + 1
      BY <1>2, <2>3 DEF TypeOK
    <2>6. QED
      BY <2>1, <2>3, <2>4, <2>5 DEF Edits
  <1>3. QED
    BY <1>1, <1>2 DEF RequestEdit, SendFill

(* No other step of the owner asks for an edit, or stops waiting for one.  *)
LEMMA OwnerKeepsEdits ==
  ASSUME TypeOK, Control, Edits, Rendering \/ Retiring
  PROVE  Edits'
  <1>1. CASE RequestEdit \/ SendFill
    BY <1>1, AskingKeepsEdits
  <1>2. CASE ~(RequestEdit \/ SendFill)
    <2>1. \A i \in DOMAIN channel' :
            channel'[i].kind = "edit" => i \in DOMAIN channel /\ channel'[i] = channel[i]
      <3>1. CASE UNCHANGED channel
        BY <3>1
      <3>2. ASSUME NEW k \in Kinds \ {"edit"}, NEW n \in Nat,
                   channel' = Append(channel, Request(k, n))
            PROVE  \A i \in DOMAIN channel' :
                     channel'[i].kind = "edit" => i \in DOMAIN channel /\ channel'[i] = channel[i]
        <4>1. Request(k, n).kind # "edit"
          BY DEF Request
        <4> DEFINE r == Request(k, n)
        <4> HIDE DEF r
        <4>2. QED
          BY <3>2, <4>1 DEF TypeOK, r
      <3>3. QED
        BY <1>2, <3>1, <3>2, OwnerSends
    <2>2. \/ job' = job
          \/ job' = NoJob /\ (job.state # "queued" \/ at = "gone")
      <3>1. CASE Poll
        BY <3>1 DEF Poll, PollDone, PollRejected, PollFatal, PollNothing
      <3>2. CASE Filled
        BY <3>2 DEF Filled, ReceiverGone
      <3>3. CASE ~(Poll \/ Filled)
        BY <1>2, <3>3
        DEF Rendering, Drain, Adopt, StartDrain, FlushOne, FlushDone, BeginStroke,
            BeginRefused, CancelStroke, EndGesture, EndStroke, StopInput, Sync, EndCommands, Settle,
            Save, FlushSave, SaveQueued, SaveWaits,
            Retiring, BeginClose, EndLastCommands, Retire, CloseFlush, CloseFlushed, Seal,
            NothingToSeal, NothingToFill, ReserveClosing, NothingToReserve,
            CheckClosing, SendClosing, DropSender, Join, Joined
      <3>4. QED
        BY <3>1, <3>2, <3>3
    <2>3. fill' => (fill \/ job = NoJob) /\ retired'
      <3>1. CASE Rendering
        BY <1>2, <3>1
        DEF Control, Edits, Retired, Sealed, Sent, Rendering, Drain, Adopt, Poll, StartDrain,
            FlushOne, FlushDone, BeginStroke, BeginRefused, CancelStroke, EndGesture, EndStroke,
            StopInput, Sync, EndCommands, Settle, Save, FlushSave, SaveQueued, SaveWaits, Draining
      <3>2. CASE Retiring
        BY <1>2, <3>2
        DEF Edits, Retiring, BeginClose, EndLastCommands, Retire, CloseFlush, CloseFlushed, Seal,
            NothingToSeal, NothingToFill, Filled, ReserveClosing, NothingToReserve,
            CheckClosing, SendClosing, DropSender, Join, Joined
      <3>3. QED
        BY <3>1, <3>2
    <2>4. pc' = "filled" => pc = "filled" /\ job' = job
      <3>1. CASE Rendering
        BY <1>2, <3>1
        DEF Rendering, Drain, Adopt, Poll, StartDrain,
            FlushOne, FlushDone, BeginStroke, BeginRefused, CancelStroke, EndGesture, EndStroke,
            StopInput, Sync, EndCommands, Settle, Save, FlushSave, SaveQueued, SaveWaits, Draining,
            Commanding
      <3>2. CASE Retiring
        BY <1>2, <3>2
        DEF Retiring, BeginClose, EndLastCommands, Retire, CloseFlush, CloseFlushed, Seal,
            NothingToSeal, NothingToFill, Filled, ReserveClosing, NothingToReserve,
            CheckClosing, SendClosing, DropSender, Join, Joined
      <3>3. QED
        BY <3>1, <3>2
    <2>5. at' = at
      BY OwnerLeaves
    <2>6. job' # job => at # "edit" /\ \A i \in DOMAIN channel : channel[i].kind # "edit"
      BY <2>2 DEF Edits, Control, Ended
    <2>7. QED
      BY <2>1, <2>2, <2>3, <2>4, <2>5, <2>6 DEF Edits, NoJob
  <1>3. QED
    BY <1>1, <1>2

(* The writer takes the one edit of the FIFO and answers it.               *)
LEMMA WriterKeepsEdits ==
  ASSUME TypeOK, Control, Edits, Writing
  PROVE  Edits'
  <1>1. CASE Receive
    <2>1. /\ channel \in Seq(Requests) /\ channel # <<>> /\ channel' = Tail(channel)
          /\ job' = job /\ UNCHANGED <<fill, retired, pc>>
          /\ at' = "edit" <=> channel[1].kind = "edit"
      BY <1>1 DEF Receive, TypeOK
    <2>2. /\ 1 \in DOMAIN channel
          /\ \A i \in DOMAIN channel' : i + 1 \in DOMAIN channel /\ channel'[i] = channel[i + 1]
                                        /\ i + 1 # 1
      BY <2>1
    <2>3. QED
      BY <2>1, <2>2 DEF Edits
  <1>2. CASE EditCommits \/ EditRejected \/ EditFails
    <2>1. /\ at = "edit" /\ at' # "edit" /\ channel' = channel /\ UNCHANGED <<fill, retired, pc>>
          /\ job'.state \in {"done", "rejected", "fatal"}
      <3>1. CASE EditCommits
        BY <3>1 DEF EditCommits, Job
      <3>2. CASE EditRejected
        BY <3>2 DEF EditRejected, Job
      <3>3. CASE EditFails
        BY <3>3 DEF EditFails, Job
      <3>4. QED
        BY <1>2, <3>1, <3>2, <3>3
    <2>2. /\ \A i \in DOMAIN channel : channel[i].kind # "edit"
          /\ job # NoJob /\ job' # NoJob
      BY <2>1 DEF Edits, NoJob
    <2>3. QED
      BY <2>1, <2>2 DEF Edits
  <1>3. CASE ~(Receive \/ EditCommits \/ EditRejected \/ EditFails)
    <2>1. at # "edit" /\ at' # "edit" /\ (channel' = channel \/ channel' = <<>>)
      BY <1>3
      DEF Writing, HangUp, CommitStroke, StrokeFails, Publish, PublishFull, SettleStroke,
          StartExport, ReplaceImage, ExportFails, ReportImage, Finish, Vanish
    <2>2. QED
      BY <2>1, WriterLeaves DEF Edits
  <1>4. QED
    BY <1>1, <1>2, <1>3

-----------------------------------------------------------------------------
(* The backlog of a close *)

(* Each drain of the close empties the backlog before it and after it, so  *)
(* that what a drain defers is no more than it has read; and a sealed      *)
(* canvas draws nothing.                                                   *)
Closed ==
  /\ pc \in Sealed => ~active
  /\ pc \in Sealed \cup {"seal", "close_drain"} /\ ~Lost => backlog = <<>>
  /\ pc = "close_input" /\ ~Lost => Len(backlog) <= taken

(* A writer that fails stays failed, and one the owner can miss has failed. *)
LEMMA FailureIsFinal ==
  ASSUME TypeOK, Control, Next
  PROVE  /\ Lost => Lost'
         /\ at = "gone" /\ pc \notin {"join", "joined"} => Lost
  <1>1. CASE Writing
    BY <1>1
    DEF Control, Ended, Lost, Writing, Receive, HangUp, CommitStroke, StrokeFails, Publish,
        PublishFull, SettleStroke, EditCommits, EditRejected, EditFails, StartExport, ReplaceImage,
        ExportFails, ReportImage, Finish, Vanish
  <1>2. CASE Rendering \/ Retiring
    BY <1>2, OwnerLeaves DEF Control, Ended, Lost
  <1>3. QED
    BY <1>1, <1>2 DEF Next

(* A send that ends a flush early has met a writer that failed.            *)
LEMMA NextClosed ==
  ASSUME TypeOK, Control, Closed, Next
  PROVE  Closed'
  <1>1. CASE Writing
    BY <1>1, WriterLeaves, FailureIsFinal DEF Closed
  <1>2. CASE Rendering
    <2> USE <1>2
        DEF Rendering, Drain, Adopt, Poll, StartDrain, FlushOne, FlushDone, BeginStroke,
            BeginRefused, CancelStroke, EndGesture, EndStroke, StopInput, Sync, EndCommands, Settle,
            RequestEdit, Save, FlushSave, SaveQueued, SaveWaits, Draining, Commanding
    <2>1. pc' \notin Sealed \cup {"seal", "close_drain"} \/ (pc = "sent" /\ UNCHANGED <<active, backlog>>)
      BY DEF Sealed, Sent
    <2>2. pc' = "close_input" =>
            \/ pc = "close_drain" /\ backlog' = backlog /\ taken' = 0
            \/ pc = "close_input" /\ taken' = taken + 1
               /\ (backlog' = backlog \/ backlog' = Append(backlog, closed + 1))
      <3>1. pc' = "close_input" => StartDrain \/ Drain
        OBVIOUS
      <3>2. CASE StartDrain
        BY <3>2
      <3>3. CASE EndStroke
        BY <3>3
      <3>4. CASE BeginStroke \/ BeginRefused \/ CancelStroke \/ EndGesture
        BY <3>4
      <3>5. QED
        BY <3>1, <3>2, <3>3, <3>4
    <2>3. Lost' = Lost
      BY OwnerLeaves DEF Lost
    <2> HIDE DEF Rendering
    <2>4. pc' = "close_input" /\ ~Lost' => Len(backlog') <= taken'
      BY <2>2, <2>3 DEF Closed, TypeOK
    <2>5. QED
      BY <2>1, <2>3, <2>4 DEF Closed, Sealed, Sent
  <1>3. CASE Retiring
    <2>1. Lost' = Lost
      BY <1>3, OwnerLeaves DEF Lost
    <2>2. pc' # "close_input" \/ UNCHANGED vars
      BY <1>3
      DEF Retiring, BeginClose, EndLastCommands, Retire, CloseFlush, CloseFlushed, Seal,
          NothingToSeal, SendFill, NothingToFill, Filled, ReserveClosing, NothingToReserve,
          CheckClosing, SendClosing, DropSender, Join, Joined
    <2>3. pc' \in Sealed => ~active'
      BY <1>3
      DEF Closed, Sealed, Sent, Retiring, BeginClose, EndLastCommands, Retire, CloseFlush,
          CloseFlushed, Seal, NothingToSeal, SendFill, NothingToFill, Filled, ReserveClosing,
          NothingToReserve, CheckClosing, SendClosing, DropSender, Join, Joined
    <2>4. pc' \in Sealed \cup {"seal", "close_drain"} /\ ~Lost => backlog' = <<>>
      <3>1. CASE CloseFlush
        <4>1. pc' \in {"close_flush", "close_reflush"} \/ at = "gone"
          BY <3>1 DEF CloseFlush, ReceiverGone
        <4>2. pc \notin {"join", "joined"} /\ pc' \notin {"join", "joined"}
          BY <3>1 DEF CloseFlush
        <4>3. QED
          BY <1>3, <4>1, <4>2, FailureIsFinal DEF Next, Sealed, Sent
      <3>2. CASE CloseFlushed
        BY <3>2 DEF CloseFlushed
      <3>3. CASE ~(CloseFlush \/ CloseFlushed)
        BY <1>3, <3>3
        DEF Closed, Sealed, Sent, Retiring, BeginClose, EndLastCommands, Retire, Seal,
            NothingToSeal, SendFill, NothingToFill, Filled, ReserveClosing, NothingToReserve,
            CheckClosing, SendClosing, DropSender, Join, Joined
      <3>4. QED
        BY <3>1, <3>2, <3>3
    <2>5. QED
      BY <2>1, <2>2, <2>3, <2>4 DEF Closed
  <1>4. QED
    BY <1>1, <1>2, <1>3 DEF Next

-----------------------------------------------------------------------------
(* Strokes in a line *)

(* An empty line carries nothing.                                          *)
LEMMA CarriesNothing ==
  ASSUME NEW n \in Nat
  PROVE  Carries(<<>>, n, n)
  BY DEF Carries

(* A line with no stroke ends where it begins.                             *)
LEMMA CarriesNone ==
  ASSUME NEW q, NEW lo \in Nat, NEW hi \in Nat, lo <= hi, Carries(q, lo, hi),
         \A i \in DOMAIN q : q[i] = Edit
  PROVE  lo = hi
  <1>1. SUFFICES ASSUME lo < hi PROVE FALSE
    OBVIOUS
  <1>2. hi \in lo + 1 .. hi
    BY <1>1
  <1>3. QED
    BY <1>2 DEF Carries

(* The next stroke goes to the end, and other work goes anywhere.          *)
LEMMA CarriesNext ==
  ASSUME NEW q \in Seq(Nat), NEW lo \in Nat, NEW hi \in Nat, lo <= hi, Carries(q, lo, hi)
  PROVE  /\ Carries(Append(q, hi + 1), lo, hi + 1)
         /\ Carries(Append(q, Edit), lo, hi)
  <1>1. \A i \in DOMAIN q : q[i] # Edit => q[i] \in lo + 1 .. hi
    BY DEF Carries
  <1>2. \A i, j \in DOMAIN q : i < j /\ Edit \notin {q[i], q[j]} => q[i] < q[j]
    BY DEF Carries
  <1>3. \A n \in lo + 1 .. hi : \E i \in DOMAIN q : q[i] = n
    BY DEF Carries
  <1>4. Carries(Append(q, hi + 1), lo, hi + 1)
    <2> DEFINE p == Append(q, hi + 1)
    <2>1. /\ DOMAIN p = DOMAIN q \cup {Len(q) + 1} /\ DOMAIN q = 1..Len(q)
          /\ p[Len(q) + 1] = hi + 1 /\ \A i \in DOMAIN q : p[i] = q[i]
      OBVIOUS
    <2> HIDE DEF p
    <2>2. {p[i] : i \in DOMAIN p} \ {Edit} = lo + 1 .. hi + 1
      <3>1. \A i \in DOMAIN p : p[i] # Edit => p[i] \in lo + 1 .. hi + 1
        BY <1>1, <2>1
      <3>2. \A n \in lo + 1 .. hi + 1 : n # Edit /\ \E i \in DOMAIN p : p[i] = n
        <4>1. TAKE n \in lo + 1 .. hi + 1
        <4>2. CASE n = hi + 1
          BY <2>1, <4>2 DEF Edit
        <4>3. CASE n # hi + 1
          BY <1>3, <2>1, <4>3 DEF Edit
        <4>4. QED
          BY <4>2, <4>3
      <3>3. QED
        BY <3>1, <3>2
    <2>3. \A i, j \in DOMAIN p : i < j /\ Edit \notin {p[i], p[j]} => p[i] < p[j]
      <3>1. TAKE i, j \in DOMAIN p
      <3>2. CASE j = Len(q) + 1
        BY <1>1, <2>1, <3>2
      <3>3. CASE j # Len(q) + 1
        BY <1>2, <2>1, <3>3
      <3>4. QED
        BY <3>2, <3>3
    <2>4. QED
      BY <2>2, <2>3 DEF Carries, p
  <1>5. Carries(Append(q, Edit), lo, hi)
    <2> DEFINE p == Append(q, Edit)
    <2>1. /\ DOMAIN p = DOMAIN q \cup {Len(q) + 1} /\ DOMAIN q = 1..Len(q)
          /\ p[Len(q) + 1] = Edit /\ \A i \in DOMAIN q : p[i] = q[i]
      BY DEF Edit
    <2> HIDE DEF p
    <2>2. {p[i] : i \in DOMAIN p} \ {Edit} = {q[i] : i \in DOMAIN q} \ {Edit}
      BY <2>1
    <2>3. \A i, j \in DOMAIN p : i < j /\ Edit \notin {p[i], p[j]} => p[i] < p[j]
      BY <1>2, <2>1
    <2>4. QED
      BY <2>2, <2>3 DEF Carries, p
  <1>6. QED
    BY <1>4, <1>5

(* The first of a line is the next stroke, or no stroke.                   *)
LEMMA CarriesRest ==
  ASSUME NEW q \in Seq(Nat), q # <<>>, NEW lo \in Nat, NEW hi \in Nat, lo <= hi,
         Carries(q, lo, hi)
  PROVE  /\ Head(q) # Edit => Head(q) = lo + 1 /\ lo < hi /\ Carries(Tail(q), lo + 1, hi)
         /\ Head(q) = Edit => Carries(Tail(q), lo, hi)
  <1> DEFINE p == Tail(q)
             l == Len(q)
  <1>1. /\ l \in Nat \ {0} /\ DOMAIN q = 1..l /\ DOMAIN p = 1..(l - 1)
        /\ \A i \in 1..(l - 1) : p[i] = q[i + 1]
        /\ Head(q) = q[1]
    OBVIOUS
  <1> HIDE DEF p, l
  <1>2. \A i \in 1..l : q[i] # Edit => q[i] \in lo + 1 .. hi
    BY <1>1 DEF Carries
  <1>3. \A i, j \in 1..l : i < j /\ Edit \notin {q[i], q[j]} => q[i] < q[j]
    BY <1>1 DEF Carries
  <1>4. \A n \in lo + 1 .. hi : \E i \in 1..l : q[i] = n
    BY <1>1 DEF Carries
  <1>5. \A i, j \in DOMAIN p : i < j /\ Edit \notin {p[i], p[j]} => p[i] < p[j]
    <2>1. TAKE i, j \in DOMAIN p
    <2>2. i \in 1..(l - 1) /\ j \in 1..(l - 1) /\ l \in Nat
      BY <1>1
    <2>3. i + 1 \in 1..l /\ j + 1 \in 1..l /\ (i < j => i + 1 < j + 1)
      BY <2>2
    <2>4. p[i] = q[i + 1] /\ p[j] = q[j + 1]
      BY <1>1, <2>2
    <2>5. i + 1 < j + 1 /\ Edit \notin {q[i + 1], q[j + 1]} => q[i + 1] < q[j + 1]
      BY <1>3, <2>3
    <2>6. QED
      BY <2>3, <2>4, <2>5
  <1>6. ASSUME NEW n \in lo + 1 .. hi, n # Head(q)
        PROVE  n \in {p[i] : i \in DOMAIN p} \ {Edit}
    <2>1. PICK i \in 1..l : q[i] = n
      BY <1>4
    <2>2. i - 1 \in DOMAIN p /\ p[i - 1] = n
      BY <1>1, <1>6, <2>1
    <2>3. n # Edit
      BY DEF Edit
    <2>4. QED
      BY <2>2, <2>3
  <1>7. ASSUME NEW i \in DOMAIN p, p[i] # Edit
        PROVE  /\ p[i] \in lo + 1 .. hi
               /\ Head(q) # Edit => p[i] > Head(q)
    <2>1. i \in Nat /\ i + 1 \in 1..l /\ p[i] = q[i + 1] /\ 1 \in 1..l /\ 1 < i + 1
      BY <1>1
    <2>2. p[i] \in lo + 1 .. hi
      BY <1>2, <1>7, <2>1
    <2>3. Head(q) # Edit => q[1] < q[i + 1]
      BY <1>1, <1>3, <1>7, <2>1
    <2>4. QED
      BY <1>1, <1>2, <2>1, <2>2, <2>3
  <1>8. CASE Head(q) = Edit
    <2>1. {p[i] : i \in DOMAIN p} \ {Edit} = lo + 1 .. hi
      <3>1. \A n \in lo + 1 .. hi : n # Head(q)
        BY <1>8 DEF Edit
      <3>2. QED
        BY <1>6, <1>7, <3>1
    <2>2. QED
      BY <1>5, <1>8, <2>1 DEF Carries, p
  <1>9. CASE Head(q) # Edit
    <2>1. Head(q) \in lo + 1 .. hi
      BY <1>1, <1>2, <1>9
    <2>2. Head(q) = lo + 1
      <3>1. SUFFICES ASSUME lo + 1 # Head(q) PROVE FALSE
        OBVIOUS
      <3>2. lo + 1 \in lo + 1 .. hi
        BY <2>1
      <3>3. PICK i \in DOMAIN p : p[i] = lo + 1 /\ p[i] # Edit
        BY <1>6, <3>1, <3>2
      <3>4. p[i] > Head(q)
        BY <1>7, <1>9, <3>3
      <3>5. QED
        BY <2>1, <3>3, <3>4
    <2>3. {p[i] : i \in DOMAIN p} \ {Edit} = lo + 2 .. hi
      <3>1. \A n \in lo + 2 .. hi : n \in lo + 1 .. hi /\ n # Head(q)
        BY <2>2
      <3>2. \A i \in DOMAIN p : p[i] # Edit => p[i] \in lo + 2 .. hi
        BY <1>7, <1>9, <2>2
      <3>3. QED
        BY <1>6, <3>1, <3>2
    <2>4. QED
      BY <1>5, <1>9, <2>1, <2>2, <2>3 DEF Carries, p
  <1>10. QED
    BY <1>8, <1>9

(* One line after another                                                  *)
LEMMA CarriesBoth ==
  ASSUME NEW q \in Seq(Nat), NEW p \in Seq(Nat), NEW lo \in Nat, NEW m \in Nat, NEW hi \in Nat,
         lo <= m, m <= hi, Carries(q, lo, m), Carries(p, m, hi)
  PROVE  Carries(q \o p, lo, hi)
  <1> DEFINE r == q \o p
  <1>1. /\ DOMAIN q = 1..Len(q) /\ DOMAIN p = 1..Len(p) /\ Len(q) \in Nat /\ Len(p) \in Nat
        /\ DOMAIN r = 1..(Len(q) + Len(p))
        /\ \A i \in DOMAIN r : r[i] = IF i <= Len(q) THEN q[i] ELSE p[i - Len(q)]
    OBVIOUS
  <1> HIDE DEF r
  <1>2. /\ \A i \in DOMAIN q : q[i] # Edit => q[i] \in lo + 1 .. m
        /\ \A i, j \in DOMAIN q : i < j /\ Edit \notin {q[i], q[j]} => q[i] < q[j]
        /\ \A n \in lo + 1 .. m : \E i \in DOMAIN q : q[i] = n
    BY DEF Carries
  <1>3. /\ \A i \in DOMAIN p : p[i] # Edit => p[i] \in m + 1 .. hi
        /\ \A i, j \in DOMAIN p : i < j /\ Edit \notin {p[i], p[j]} => p[i] < p[j]
        /\ \A n \in m + 1 .. hi : \E i \in DOMAIN p : p[i] = n
    BY DEF Carries
  <1>4. \A i \in DOMAIN r : \/ i \in DOMAIN q /\ r[i] = q[i]
                            \/ i > Len(q) /\ i - Len(q) \in DOMAIN p /\ r[i] = p[i - Len(q)]
    BY <1>1
  <1>5. {r[i] : i \in DOMAIN r} \ {Edit} = lo + 1 .. hi
    <2>1. ASSUME NEW i \in DOMAIN r, r[i] # Edit
          PROVE  r[i] \in lo + 1 .. hi
      BY <1>2, <1>3, <1>4, <2>1
    <2>2. ASSUME NEW n \in lo + 1 .. hi
          PROVE  n # Edit /\ \E i \in DOMAIN r : r[i] = n
      <3>1. CASE n <= m
        <4>1. PICK i \in DOMAIN q : q[i] = n
          BY <1>2, <3>1
        <4>2. i \in DOMAIN r /\ r[i] = n
          BY <1>1, <4>1
        <4>3. QED
          BY <4>2 DEF Edit
      <3>2. CASE n > m
        <4>1. PICK i \in DOMAIN p : p[i] = n
          BY <1>3, <3>2
        <4>2. i + Len(q) \in DOMAIN r /\ r[i + Len(q)] = n
          BY <1>1, <4>1
        <4>3. QED
          BY <4>2 DEF Edit
      <3>3. QED
        BY <3>1, <3>2
    <2>3. QED
      BY <2>1, <2>2
  <1>6. ASSUME NEW i \in DOMAIN r, NEW j \in DOMAIN r, i < j, Edit \notin {r[i], r[j]}
        PROVE  r[i] < r[j]
    <2>1. CASE j <= Len(q)
      BY <1>1, <1>2, <1>4, <1>6, <2>1
    <2>2. CASE i <= Len(q) /\ j > Len(q)
      <3>1. r[i] \in lo + 1 .. m
        BY <1>1, <1>2, <1>4, <1>6, <2>2
      <3>2. r[j] \in m + 1 .. hi
        BY <1>1, <1>3, <1>4, <1>6, <2>2
      <3>3. QED
        BY <3>1, <3>2
    <2>3. CASE i > Len(q)
      <3>1. i \in Nat /\ j \in Nat /\ j > Len(q) /\ Len(q) \in Nat
        BY <1>1, <1>6, <2>3
      <3>2. r[i] = p[i - Len(q)] /\ r[j] = p[j - Len(q)]
        BY <1>1, <2>3, <3>1
      <3>3. i - Len(q) \in DOMAIN p /\ j - Len(q) \in DOMAIN p
        BY <1>1, <2>3, <3>1
      <3>4. i - Len(q) < j - Len(q)
        BY <1>6, <3>1
      <3>5. QED
        BY <1>3, <1>6, <3>2, <3>3, <3>4
    <2>4. QED
      BY <1>1, <2>1, <2>2, <2>3
  <1>7. QED
    BY <1>5, <1>6 DEF Carries, r

-----------------------------------------------------------------------------
(* The strokes from the project to the backlog *)

Numbers(q) == [i \in DOMAIN q |-> Number(q[i])]
Hand == IF at = "stroke" THEN 1 ELSE 0

(* The project holds the strokes up to a, the writer's hand the next, the  *)
(* FIFO those up to b and the backlog the others; the counter counts those *)
(* on their way and the one not settled yet.                               *)
Settled(a, b) ==
  /\ a + Hand <= b
  /\ Carries(durable, 0, a)
  /\ at = "stroke" => on.n = a + 1
  /\ Carries(Numbers(channel), a + Hand, b)
  /\ \A i \in DOMAIN channel : channel[i].kind = "stroke" => channel[i].n # Edit
  /\ Carries(backlog, b, closed)
  /\ pending = (b - a) + (IF at \in Settling THEN 1 ELSE 0)

Lines ==
  /\ \E n \in 0..closed : Carries(durable, 0, n)
  /\ ~Lost => \E a, b \in 0..closed : Settled(a, b)

(* A request sent adds its number at the end.                              *)
LEMMA NumbersSent ==
  ASSUME NEW q \in Seq(Requests), NEW k \in Kinds, NEW n \in Nat
  PROVE  /\ Numbers(q) \in Seq(Nat)
         /\ Numbers(Append(q, Request(k, n)))
              = Append(Numbers(q), IF k = "stroke" THEN n ELSE Edit)
  <1>1. \A r \in Requests : Number(r) \in Nat
    BY DEF Number, Requests, Edit
  <1>2. /\ DOMAIN q = 1..Len(q) /\ Len(q) \in Nat /\ \A i \in 1..Len(q) : q[i] \in Requests
    OBVIOUS
  <1>3. Numbers(q) \in [1..Len(q) -> Nat]
    BY <1>1, <1>2 DEF Numbers
  <1>4. Numbers(q) \in Seq(Nat) /\ Len(Numbers(q)) = Len(q)
    BY <1>2, <1>3, IsASeq
  <1>5. Number(Request(k, n)) = IF k = "stroke" THEN n ELSE Edit
    BY DEF Number, Request
  <1> DEFINE r == Request(k, n)
             m == Number(r)
             p == Append(q, r)
  <1>6. r \in Requests /\ m \in Nat
    BY <1>1 DEF Request, Requests
  <1> HIDE DEF r, m
  <1>7. /\ p \in Seq(Requests) /\ Len(p) = Len(q) + 1
        /\ \A i \in 1..Len(q) : p[i] = q[i]
        /\ p[Len(q) + 1] = r
    BY <1>6
  <1> HIDE DEF p
  <1>8. Numbers(p) \in Seq(Nat) /\ Len(Numbers(p)) = Len(q) + 1
    <2>1. Numbers(p) \in [1..Len(p) -> Nat]
      BY <1>1, <1>7 DEF Numbers
    <2>2. QED
      BY <1>7, <2>1, IsASeq
  <1>9. \A i \in 1..(Len(q) + 1) : Numbers(p)[i] = Append(Numbers(q), m)[i]
    <2>1. TAKE i \in 1..(Len(q) + 1)
    <2>2. Numbers(p)[i] = Number(p[i])
      BY <1>7 DEF Numbers
    <2>3. CASE i = Len(q) + 1
      BY <1>4, <1>6, <1>7, <2>2, <2>3 DEF m
    <2>4. CASE i # Len(q) + 1
      <3>1. i \in 1..Len(q) /\ Numbers(q)[i] = Number(q[i])
        BY <1>2, <2>4 DEF Numbers
      <3>2. QED
        BY <1>4, <1>6, <1>7, <2>2, <3>1
    <2>5. QED
      BY <2>3, <2>4
  <1>10. Append(Numbers(q), m) \in Seq(Nat) /\ Len(Append(Numbers(q), m)) = Len(q) + 1
    BY <1>4, <1>6
  <1>11. Numbers(p) = Append(Numbers(q), m)
    BY <1>8, <1>9, <1>10, SeqEqual
  <1>12. QED
    BY <1>4, <1>5, <1>11 DEF p, m, r

(* A request taken removes its number from the front.                      *)
LEMMA NumbersTaken ==
  ASSUME NEW q \in Seq(Requests), q # <<>>
  PROVE  /\ Numbers(q) \in Seq(Nat) /\ Numbers(q) # <<>>
         /\ Head(Numbers(q)) = Number(Head(q))
         /\ Numbers(Tail(q)) = Tail(Numbers(q))
  <1>1. \A r \in Requests : Number(r) \in Nat
    BY DEF Number, Requests, Edit
  <1>2. \A s \in Seq(Requests) : Numbers(s) \in Seq(Nat) /\ Len(Numbers(s)) = Len(s)
    <2>1. TAKE s \in Seq(Requests)
    <2>2. Numbers(s) \in [1..Len(s) -> Nat]
      BY <1>1 DEF Numbers
    <2>3. QED
      BY <2>2, IsASeq
  <1> DEFINE p == Tail(q)
  <1>3. /\ p \in Seq(Requests) /\ Len(q) \in Nat \ {0} /\ Len(p) = Len(q) - 1
        /\ DOMAIN p = 1..(Len(q) - 1) /\ DOMAIN q = 1..Len(q)
        /\ \A i \in 1..(Len(q) - 1) : p[i] = q[i + 1]
        /\ Head(q) = q[1]
    OBVIOUS
  <1> HIDE DEF p
  <1>4. /\ Numbers(q) \in Seq(Nat) /\ Len(Numbers(q)) = Len(q)
        /\ Numbers(p) \in Seq(Nat) /\ Len(Numbers(p)) = Len(q) - 1
    BY <1>2, <1>3
  <1>5. Numbers(q)[1] = Number(q[1])
    BY <1>3 DEF Numbers
  <1>6. \A i \in 1..(Len(q) - 1) : Numbers(p)[i] = Numbers(q)[i + 1]
    BY <1>3 DEF Numbers
  <1> DEFINE t == Numbers(q)
             u == Numbers(p)
  <1> HIDE DEF t, u
  <1>7. t # <<>> /\ Head(t) = t[1] /\ Tail(t) \in Seq(Nat) /\ Len(Tail(t)) = Len(t) - 1
        /\ \A i \in 1..(Len(t) - 1) : Tail(t)[i] = t[i + 1]
    BY <1>3, <1>4 DEF t
  <1>8. u = Tail(t)
    <2>1. u \in Seq(Nat) /\ Len(u) = Len(Tail(t))
          /\ \A i \in 1..Len(u) : u[i] = Tail(t)[i]
      BY <1>3, <1>4, <1>6, <1>7 DEF t, u
    <2>2. QED
      BY <1>7, <2>1, SeqEqual
  <1>9. QED
    BY <1>3, <1>4, <1>5, <1>7, <1>8 DEF t, u, p

(* What the owner does to the strokes: it moves the oldest of the backlog  *)
(* into the FIFO, closes one into the FIFO or into the backlog, asks for   *)
(* something else, or leaves them alone.                                   *)
Flushes ==
  /\ backlog # <<>>
  /\ channel' = Append(channel, Request("stroke", Head(backlog)))
  /\ backlog' = Tail(backlog)
  /\ closed' = closed /\ pending' = pending + 1
Queues ==
  /\ backlog = <<>>
  /\ channel' = Append(channel, Request("stroke", closed + 1))
  /\ backlog' = backlog
  /\ closed' = closed + 1 /\ pending' = pending + 1
Defers ==
  /\ backlog' = Append(backlog, closed + 1)
  /\ closed' = closed + 1 /\ UNCHANGED <<channel, pending>>
Asks ==
  /\ UNCHANGED <<backlog, closed, pending>>
  /\ \/ UNCHANGED channel
     \/ \E k \in Kinds \ {"stroke"}, n \in Nat : channel' = Append(channel, Request(k, n))

(* The owner does nothing else to the strokes.                             *)
LEMMA OwnerLines ==
  ASSUME TypeOK, Control, Closed, ~Lost, Rendering \/ Retiring
  PROVE  Flushes \/ Queues \/ Defers \/ Asks
  <1>1. at = "gone" => pc \in {"join", "joined"}
    BY FailureIsFinal DEF Next
  <1>2. CASE FlushOne \/ CloseFlush
    <2>1. pc \notin {"join", "joined"}
      BY <1>2 DEF FlushOne, CloseFlush
    <2>2. QED
      BY <1>1, <1>2, <2>1 DEF FlushOne, CloseFlush, Flushes, ReceiverGone
  <1>3. CASE EndStroke
    <2>1. CASE backlog = <<>> /\ Room
      BY Zenon, <1>3, <2>1 DEF EndStroke, Queues
    <2>2. CASE ~(backlog = <<>> /\ Room)
      BY Zenon, <1>3, <2>2 DEF EndStroke, Defers
    <2>3. QED
      BY <2>1, <2>2
  <1>4. CASE Seal
    <2>1. at # "gone" /\ backlog = <<>>
      BY <1>1, <1>4 DEF Seal, Closed
    <2>2. CASE fatal \/ SealRefused
      <3>1. UNCHANGED <<closed, channel, pending>>
        BY <1>4, <2>2 DEF Seal, SealActive, SealRefused
      <3>2. QED
        BY <1>4, <3>1 DEF Seal, Asks
    <2>3. CASE SealActive
      BY Zenon, <1>4, <2>1, <2>3 DEF Seal, SealActive, Queues, ReceiverGone
    <2>4. QED
      BY <1>4, <2>2, <2>3 DEF Seal
  <1>5. CASE RequestEdit \/ SendFill
    <2>1. UNCHANGED <<backlog, closed, pending>>
      BY <1>5 DEF RequestEdit, SendFill
    <2>2. UNCHANGED channel \/ channel' = Append(channel, Request("edit", Edit))
      BY <1>5 DEF RequestEdit, SendFill
    <2>3. "edit" \in Kinds \ {"stroke"} /\ Edit \in Nat
      BY DEF Kinds, Edit
    <2>4. QED
      BY Zenon, <2>1, <2>2, <2>3 DEF Asks
  <1>6. CASE FlushSave \/ SendClosing
    <2>1. UNCHANGED <<backlog, closed, pending>>
      BY <1>6 DEF FlushSave, SendClosing
    <2>2. \/ UNCHANGED channel
          \/ channel' = Append(channel, Request("export", saving))
          \/ channel' = Append(channel, Request("closing_export", saving))
      BY Zenon, <1>6 DEF FlushSave, SendClosing
    <2>3. {"export", "closing_export"} \subseteq Kinds \ {"stroke"} /\ saving \in Nat
      BY DEF Kinds, TypeOK
    <2>4. QED
      BY Zenon, <2>1, <2>2, <2>3 DEF Asks
  <1>7. CASE ~(FlushOne \/ CloseFlush \/ EndStroke \/ Seal \/ RequestEdit \/ SendFill
               \/ FlushSave \/ SendClosing)
    <2>1. UNCHANGED <<channel, backlog, closed, pending>>
      <3>1. CASE Rendering
        BY <1>7, <3>1
        DEF Rendering, Drain, Adopt, Poll, StartDrain, FlushDone, BeginStroke, BeginRefused,
            CancelStroke, EndGesture, StopInput, Sync, EndCommands, Settle, Save, SaveQueued,
            SaveWaits
      <3>2. CASE Retiring
        BY <1>7, <3>2
        DEF Retiring, BeginClose, EndLastCommands, Retire, CloseFlushed, NothingToSeal,
            NothingToFill, Filled, ReserveClosing, NothingToReserve, CheckClosing, DropSender, Join,
            Joined
      <3>3. QED
        BY <3>1, <3>2
    <2>2. QED
      BY <2>1 DEF Asks
  <1>8. QED
    BY <1>2, <1>3, <1>4, <1>5, <1>6, <1>7

(* The parts of the line are sequences of numbers.                         *)
LEMMA SettledTyped ==
  ASSUME TypeOK
  PROVE  /\ Numbers(channel) \in Seq(Nat) /\ backlog \in Seq(Nat) /\ durable \in Seq(Nat)
         /\ Hand \in {0, 1} /\ closed \in Nat
  <1>1. Numbers(channel) \in Seq(Nat)
    BY NumbersSent DEF TypeOK, Kinds
  <1>2. QED
    BY <1>1 DEF TypeOK, Hand

(* Each of these keeps the ranges together.                                *)
LEMMA OwnerKeepsLines ==
  ASSUME TypeOK, Control, Closed, Lines, Rendering \/ Retiring
  PROVE  Lines'
  <1>1. closed' >= closed /\ closed' \in Nat
    <2>1. CASE EndStroke \/ Seal
      <3>1. closed \in Nat
        BY DEF TypeOK
      <3>2. closed' \in {closed, closed + 1}
        <4>1. CASE EndStroke
          BY <4>1 DEF EndStroke
        <4>2. CASE Seal
          BY <4>2 DEF Seal, SealActive, SealRefused
        <4>3. QED
          BY <2>1, <4>1, <4>2
      <3>3. QED
        BY <3>1, <3>2
    <2>2. CASE ~(EndStroke \/ Seal)
      <3>1. closed' = closed
        <4>1. CASE Rendering
          BY <2>2, <4>1
          DEF Rendering, Drain, Adopt, Poll, StartDrain, FlushOne, FlushDone, BeginStroke,
              BeginRefused, CancelStroke, EndGesture, StopInput, Sync, EndCommands, Settle,
              RequestEdit, Save, FlushSave, SaveQueued, SaveWaits
        <4>2. CASE Retiring
          BY <2>2, <4>2
          DEF Retiring, BeginClose, EndLastCommands, Retire, CloseFlush, CloseFlushed,
              NothingToSeal, SendFill, NothingToFill, Filled, ReserveClosing, NothingToReserve,
              CheckClosing, SendClosing, DropSender, Join, Joined
        <4>3. QED
          BY <4>1, <4>2
      <3>2. QED
        BY <3>1 DEF TypeOK
    <2>3. QED
      BY <2>1, <2>2
  <1>2. durable' = durable /\ at' = at /\ on' = on /\ Lost' = Lost
    BY OwnerLeaves DEF Lost
  <1>3. \E n \in 0..closed' : Carries(durable', 0, n)
    <2>1. PICK n \in 0..closed : Carries(durable, 0, n)
      BY DEF Lines
    <2>2. n \in 0..closed'
      BY <1>1 DEF TypeOK
    <2>3. QED
      BY <1>2, <2>1, <2>2
  <1>4. ASSUME ~Lost
        PROVE  \E a, b \in 0..closed' : Settled(a, b)'
    <2>1. PICK a \in 0..closed, b \in 0..closed : Settled(a, b)
      BY <1>4 DEF Lines
    <2>2. /\ a \in Nat /\ b \in Nat /\ a + Hand \in Nat /\ a + Hand <= b /\ b <= closed
          /\ Hand' = Hand /\ pending \in Int
      <3>1. a + Hand <= b
        BY <2>1 DEF Settled
      <3>2. Hand' = Hand
        BY <1>2 DEF Hand
      <3>3. pending \in Int
        BY DEF TypeOK
      <3>4. QED
        BY <2>1, <3>1, <3>2, <3>3, SettledTyped
    <2>3. /\ Carries(durable, 0, a) /\ (at = "stroke" => on.n = a + 1)
          /\ Carries(Numbers(channel), a + Hand, b) /\ Carries(backlog, b, closed)
          /\ \A i \in DOMAIN channel : channel[i].kind = "stroke" => channel[i].n # Edit
          /\ pending = (b - a) + (IF at \in Settling THEN 1 ELSE 0)
      BY <2>1 DEF Settled
    <2> DEFINE new == \A i \in DOMAIN channel' :
                        channel'[i].kind = "stroke" => channel'[i].n # Edit
    <2>4. ASSUME NEW m \in Nat, NEW k \in Kinds, k = "stroke" => m # Edit,
                 channel' = Append(channel, Request(k, m))
          PROVE  new
      <3> DEFINE r == Request(k, m)
      <3>1. r.kind = "stroke" => r.n # Edit
        BY <2>4 DEF Request
      <3> HIDE DEF r
      <3>2. channel' = Append(channel, r) /\ channel \in Seq(Requests)
        BY <2>4 DEF r, TypeOK
      <3>3. QED
        BY <2>3, <3>1, <3>2
    <2> HIDE DEF new
    <2>5. CASE Flushes
      <3>1. /\ Head(backlog) \in Nat \ {Edit} /\ backlog # <<>>
            /\ channel' = Append(channel, Request("stroke", Head(backlog)))
            /\ backlog' = Tail(backlog) /\ closed' = closed /\ pending' = pending + 1
        BY <2>5, TakenTyped DEF Flushes
      <3>2. Head(backlog) = b + 1 /\ b < closed /\ Carries(backlog', b + 1, closed)
        BY <2>2, <2>3, <3>1, CarriesRest, SettledTyped
      <3>3. Numbers(channel') = Append(Numbers(channel), b + 1)
        BY <3>1, <3>2, NumbersSent DEF TypeOK, Kinds
      <3>4. Carries(Numbers(channel'), a + Hand, b + 1)
        BY <2>2, <2>3, <3>3, CarriesNext, SettledTyped
      <3>5. new
        BY <2>4, <3>1 DEF Kinds
      <3>6. pending' = ((b + 1) - a) + (IF at \in Settling THEN 1 ELSE 0)
        BY <2>2, <2>3, <3>1
      <3>7. Settled(a, b + 1)'
        <4>1. a + Hand' <= b + 1 /\ (at' = "stroke" => on'.n = a + 1) /\ Carries(durable', 0, a)
          BY <1>2, <2>2, <2>3
        <4>2. Carries(Numbers(channel'), a + Hand', b + 1) /\ Carries(backlog', b + 1, closed')
          BY <2>2, <3>1, <3>2, <3>4
        <4>3. pending' = ((b + 1) - a) + (IF at' \in Settling THEN 1 ELSE 0)
          BY <1>2, <3>6
        <4>4. QED
          BY <3>5, <4>1, <4>2, <4>3 DEF Settled, new
      <3>8. a \in 0..closed' /\ b + 1 \in 0..closed'
        BY <2>2, <3>1, <3>2, SettledTyped
      <3>9. QED
        BY <3>7, <3>8
    <2>6. CASE Queues
      <3>1. /\ backlog = <<>> /\ backlog' = <<>>
            /\ channel' = Append(channel, Request("stroke", closed + 1))
            /\ closed' = closed + 1 /\ pending' = pending + 1
        BY <2>6 DEF Queues
      <3>2. b = closed
        <4>1. \A i \in DOMAIN backlog : backlog[i] = Edit
          BY <3>1
        <4>2. QED
          BY <2>2, <2>3, <4>1, CarriesNone, SettledTyped
      <3>3. Numbers(channel') = Append(Numbers(channel), b + 1)
        BY <2>2, <3>1, <3>2, NumbersSent DEF TypeOK, Kinds
      <3>4. Carries(Numbers(channel'), a + Hand, b + 1)
        BY <2>2, <2>3, <3>3, CarriesNext, SettledTyped
      <3>5. new
        <4>1. closed + 1 \in Nat /\ closed + 1 # Edit
          BY SettledTyped DEF Edit
        <4>2. QED
          BY <2>4, <3>1, <4>1 DEF Kinds
      <3>6. Carries(backlog', b + 1, closed')
        BY <2>2, <3>1, <3>2, CarriesNothing
      <3>7. pending' = ((b + 1) - a) + (IF at \in Settling THEN 1 ELSE 0)
        BY <2>2, <2>3, <3>1
      <3>8. Settled(a, b + 1)'
        BY <1>2, <2>2, <2>3, <3>4, <3>5, <3>6, <3>7 DEF Settled, new
      <3>9. a \in 0..closed' /\ b + 1 \in 0..closed'
        BY <2>2, <3>1, <3>2, SettledTyped
      <3>10. QED
        BY <3>8, <3>9
    <2>7. CASE Defers
      <3>1. /\ backlog' = Append(backlog, closed + 1) /\ closed' = closed + 1
            /\ UNCHANGED <<channel, pending>>
        BY <2>7 DEF Defers
      <3>2. Carries(backlog', b, closed')
        BY <2>2, <2>3, <3>1, CarriesNext, SettledTyped
      <3>3. Settled(a, b)'
        BY <1>2, <2>2, <2>3, <3>1, <3>2 DEF Settled
      <3>4. a \in 0..closed' /\ b \in 0..closed'
        BY <2>2, <3>1, SettledTyped
      <3>5. QED
        BY <3>3, <3>4
    <2>8. CASE Asks
      <3>1. UNCHANGED <<backlog, closed, pending>>
        BY <2>8 DEF Asks
      <3>2. Carries(Numbers(channel'), a + Hand, b) /\ new
        <4>1. CASE UNCHANGED channel
          BY <2>3, <4>1 DEF new
        <4>2. ASSUME NEW k \in Kinds \ {"stroke"}, NEW m \in Nat,
                     channel' = Append(channel, Request(k, m))
              PROVE  Carries(Numbers(channel'), a + Hand, b) /\ new
          <5>1. Numbers(channel') = Append(Numbers(channel), Edit)
            BY <4>2, NumbersSent DEF TypeOK
          <5>2. Carries(Numbers(channel'), a + Hand, b)
            BY <2>2, <2>3, <5>1, CarriesNext, SettledTyped
          <5>3. new
            BY <2>4, <4>2
          <5>4. QED
            BY <5>2, <5>3
        <4>3. QED
          BY <2>8, <4>1, <4>2 DEF Asks
      <3>3. Settled(a, b)'
        BY <1>2, <2>2, <2>3, <3>1, <3>2 DEF Settled, new
      <3>4. QED
        BY <3>1, <3>3
    <2>9. QED
      BY <1>4, <2>5, <2>6, <2>7, <2>8, OwnerLines
  <1>5. QED
    BY <1>2, <1>3, <1>4 DEF Lines

(* What the writer does to them: it takes one, makes it durable, settles   *)
(* it, and works on other requests in between.                             *)
LEMMA WriterKeepsLines ==
  ASSUME TypeOK, Control, Edits, Lines, Writing
  PROVE  Lines'
  <1>1. closed' = closed /\ backlog' = backlog /\ (Lost => Lost') /\ closed \in Nat
    BY WriterLeaves, FailureIsFinal DEF Next, TypeOK
  <1>2. CASE CommitStroke \/ StrokeFails
    <2>1. ~Lost /\ at = "stroke"
      BY <1>2 DEF Control, Ended, Lost, CommitStroke, StrokeFails
    <2>2. PICK a \in 0..closed, b \in 0..closed : Settled(a, b)
      BY <2>1 DEF Lines
    <2>3. /\ a + 1 <= b /\ a \in Nat /\ b \in Nat /\ on.n = a + 1
          /\ Carries(durable, 0, a) /\ Carries(Numbers(channel), a + 1, b)
          /\ pending = b - a
      BY <2>1, <2>2 DEF Settled, Hand, Settling
    <2>4. Carries(Append(durable, on.n), 0, a + 1)
      BY <2>3, CarriesNext, SettledTyped
    <2>5. a + 1 \in 0..closed
      <3>1. b <= closed
        BY <1>1, <2>2
      <3>2. QED
        BY <1>1, <2>3, <3>1
    <2>6. CASE StrokeFails
      <3>1. Lost' /\ durable' \in {durable, Append(durable, on.n)}
        BY <2>6 DEF StrokeFails, Lost
      <3>2. QED
        BY <1>1, <2>2, <2>3, <2>4, <2>5, <3>1 DEF Lines
    <2>7. CASE CommitStroke
      <3>1. /\ durable' = Append(durable, on.n) /\ at' = "publish"
            /\ UNCHANGED <<channel, pending>>
        BY <2>7 DEF CommitStroke
      <3>2. (pending = (b - (a + 1)) + 1) /\ a + 1 \in Nat /\ (a + 1) + 0 = a + 1
        BY <2>3
      <3>3. Settled(a + 1, b)'
        BY <1>1, <2>2, <2>3, <2>4, <3>1, <3>2 DEF Settled, Hand, Settling
      <3>4. QED
        BY <1>1, <2>2, <2>4, <2>5, <3>1, <3>3 DEF Lines
    <2>8. QED
      BY <1>2, <2>6, <2>7
  <1>3. CASE EditCommits \/ EditFails
    <2>1. ~Lost /\ at = "edit"
      BY <1>3 DEF Control, Ended, Lost, EditCommits, EditFails
    <2>2. PICK a \in 0..closed, b \in 0..closed : Settled(a, b)
      BY <2>1 DEF Lines
    <2>3. Carries(durable, 0, a) /\ Carries(Append(durable, Edit), 0, a) /\ a \in Nat
      <3>1. Carries(durable, 0, a) /\ a \in Nat /\ durable \in Seq(Nat)
        BY <2>2, SettledTyped DEF Settled
      <3>2. QED
        BY <3>1, CarriesNext
    <2>4. CASE EditFails
      <3>1. Lost' /\ durable' \in {durable, Append(durable, Edit)}
        BY <2>4 DEF EditFails, Lost
      <3>2. QED
        BY <1>1, <2>2, <2>3, <3>1 DEF Lines
    <2>5. CASE EditCommits
      <3>1. /\ durable' = Append(durable, Edit) /\ at' = "idle"
            /\ UNCHANGED <<channel, pending>>
        BY <2>5 DEF EditCommits
      <3>2. Settled(a, b)'
        BY <1>1, <2>1, <2>2, <2>3, <3>1 DEF Settled, Hand, Settling
      <3>3. QED
        BY <1>1, <2>2, <2>3, <3>1, <3>2 DEF Lines
    <2>6. QED
      BY <1>3, <2>4, <2>5
  <1>4. CASE ~(CommitStroke \/ StrokeFails \/ EditCommits \/ EditFails)
    <2>1. durable' = durable
      BY <1>4
      DEF Writing, Receive, HangUp, Publish, PublishFull, SettleStroke, EditRejected, StartExport,
          ReplaceImage, ExportFails, ReportImage, Finish, Vanish
    <2>2. ASSUME ~Lost'
          PROVE  \E a, b \in 0..closed' : Settled(a, b)'
      <3>1. PICK a \in 0..closed, b \in 0..closed : Settled(a, b)
        BY <1>1, <2>2 DEF Lines
      <3>2. /\ Carries(durable, 0, a) /\ (at = "stroke" => on.n = a + 1)
            /\ Carries(Numbers(channel), a + Hand, b) /\ Carries(backlog, b, closed)
            /\ \A i \in DOMAIN channel : channel[i].kind = "stroke" => channel[i].n # Edit
            /\ pending = (b - a) + (IF at \in Settling THEN 1 ELSE 0)
            /\ a + Hand <= b /\ a \in Nat /\ b \in Nat
        BY <3>1 DEF Settled
      <3>3. CASE Receive
        <4>1. /\ channel # <<>> /\ channel' = Tail(channel) /\ on' = Head(channel) /\ at = "idle"
              /\ pending' = pending /\ channel \in Seq(Requests) /\ Head(channel) = channel[1]
              /\ 1 \in DOMAIN channel /\ Head(channel).kind \in Kinds
          <5>1. /\ channel # <<>> /\ channel' = Tail(channel) /\ on' = Head(channel) /\ at = "idle"
                /\ pending' = pending /\ channel \in Seq(Requests)
            BY <3>3 DEF Receive, TypeOK
          <5>2. Head(channel) = channel[1] /\ 1 \in DOMAIN channel
            BY <5>1
          <5>3. Head(channel) \in Requests
            BY <5>1, TakenTyped
          <5>4. QED
            BY <5>1, <5>2, <5>3 DEF Requests
        <4>2. at' = IF Head(channel).kind = "closing_export" THEN "export" ELSE Head(channel).kind
          BY <3>3 DEF Receive
        <4>3. Hand = 0 /\ at' \notin Settling /\ (at' = "stroke" <=> Head(channel).kind = "stroke")
              /\ at \notin Settling
          BY <4>1, <4>2 DEF Hand, Kinds, Settling
        <4>4. \A i \in DOMAIN channel' : channel'[i].kind = "stroke" => channel'[i].n # Edit
          <5>1. \A i \in DOMAIN channel' : i + 1 \in DOMAIN channel /\ channel'[i] = channel[i + 1]
            BY <4>1
          <5>2. QED
            BY <3>2, <5>1
        <4>5. /\ Numbers(channel) # <<>> /\ Head(Numbers(channel)) = Number(Head(channel))
              /\ Numbers(channel') = Tail(Numbers(channel))
          BY <4>1, NumbersTaken
        <4>6. Carries(Numbers(channel), a, b) /\ a <= b
          BY <3>2, <4>3
        <4>7. CASE Head(channel).kind = "stroke"
          <5>1. Number(Head(channel)) = on'.n /\ on'.n # Edit
            BY <3>2, <4>1, <4>7 DEF Number
          <5>2. on'.n = a + 1 /\ a < b /\ Carries(Numbers(channel'), a + 1, b)
            BY <3>2, <4>5, <4>6, <5>1, CarriesRest, SettledTyped
          <5>3. Hand' = 1 /\ a + 1 <= b
            BY <3>2, <4>3, <4>7, <5>2 DEF Hand
          <5>4. Settled(a, b)'
            BY <1>1, <2>1, <3>2, <4>1, <4>3, <4>4, <5>2, <5>3 DEF Settled
          <5>5. QED
            BY <1>1, <5>4
        <4>8. CASE Head(channel).kind # "stroke"
          <5>1. Number(Head(channel)) = Edit
            BY <4>8 DEF Number
          <5>2. Carries(Numbers(channel'), a, b)
            BY <3>2, <4>5, <4>6, <5>1, CarriesRest, SettledTyped
          <5>3. Hand' = 0 /\ a + 0 = a
            BY <3>2, <4>3, <4>8 DEF Hand
          <5>4. Settled(a, b)'
            BY <1>1, <2>1, <3>2, <4>1, <4>3, <4>4, <4>8, <5>2, <5>3 DEF Settled
          <5>5. QED
            BY <1>1, <5>4
        <4>9. QED
          BY <4>7, <4>8
      <3>4. CASE SettleStroke
        <4>1. /\ at = "settle" /\ at' = "idle" /\ pending' = pending - 1 /\ channel' = channel
          BY <3>4 DEF SettleStroke
        <4>2. Hand = 0 /\ Hand' = 0 /\ pending' = (b - a) + 0
          BY <3>2, <4>1 DEF Hand, Settling
        <4>3. Settled(a, b)'
          BY <1>1, <2>1, <3>2, <4>1, <4>2 DEF Settled, Settling
        <4>4. QED
          BY <1>1, <4>3
      <3>5. CASE ~(Receive \/ SettleStroke)
        <4>1. /\ at # "stroke" /\ at' # "stroke" /\ (at \in Settling <=> at' \in Settling)
              /\ pending' = pending
          BY <1>4, <2>2, <3>5
          DEF Lost, Settling, Writing, HangUp, Publish, PublishFull, EditRejected, StartExport,
              ReplaceImage, ExportFails, ReportImage, Finish, Vanish
        <4>2. channel' = channel
          <5>1. CASE Vanish
            <6>1. at = "finished" /\ exit' = exit /\ channel' = <<>>
              BY <5>1 DEF Vanish
            <6>2. exit = "drained"
              BY <2>2, <6>1 DEF Lost, Control, Ended
            <6>3. QED
              BY <6>1, <6>2 DEF Control
          <5>2. CASE ~Vanish
            BY <1>4, <3>5, <5>2
            DEF Writing, HangUp, Publish, PublishFull, EditRejected, StartExport,
                ReplaceImage, ExportFails, ReportImage, Finish
          <5>3. QED
            BY <5>1, <5>2
        <4>3. Hand' = Hand
          BY <4>1 DEF Hand
        <4>4. Settled(a, b)'
          BY <1>1, <2>1, <3>2, <4>1, <4>2, <4>3 DEF Settled
        <4>5. QED
          BY <1>1, <4>4
      <3>6. QED
        BY <3>3, <3>4, <3>5
    <2>3. QED
      BY <1>1, <2>1, <2>2 DEF Lines
  <1>5. QED
    BY <1>2, <1>3, <1>4


(* A stroke is begun only while the backlog has room for its end.          *)
Waits == active => Len(backlog) < Backlog

(* The end of a stroke is what takes the place kept for it.                *)
LEMMA NextWaits ==
  ASSUME TypeOK, Waits, Next
  PROVE  Waits'
  <1>1. active' => \/ UNCHANGED backlog /\ (active \/ Len(backlog) < Backlog)
                   \/ active /\ backlog # <<>> /\ backlog' = Tail(backlog)
    <2>1. CASE Rendering
      <3>1. CASE EndStroke
        BY <3>1 DEF EndStroke
      <3>2. CASE FlushOne
        BY <3>2 DEF FlushOne
      <3>3. CASE ~(EndStroke \/ FlushOne)
        BY <2>1, <3>3
        DEF Rendering, Drain, Adopt, Poll, StartDrain, FlushDone, BeginStroke, BeginRefused,
            CancelStroke, EndGesture, StopInput, Sync, EndCommands, Synchronize, Settle,
            RequestEdit, Save, FlushSave, SaveQueued, SaveWaits
      <3>4. QED
        BY <3>1, <3>2, <3>3
    <2>2. CASE Retiring
      BY <2>2
      DEF Retiring, BeginClose, EndLastCommands, Retire, CloseFlush, CloseFlushed, Seal,
          NothingToSeal, SendFill, NothingToFill, Filled, ReserveClosing, NothingToReserve,
          CheckClosing, SendClosing, DropSender, Join, Joined
    <2>3. CASE Writing
      BY <2>3, WriterLeaves
    <2>4. QED
      BY <2>1, <2>2, <2>3 DEF Next
  <1>2. backlog # <<>> => Len(Tail(backlog)) = Len(backlog) - 1 /\ Len(backlog) \in Nat
    BY DEF TypeOK
  <1>3. Backlog \in Nat
    BY WriterAssumption
  <1>4. QED
    BY <1>1, <1>2, <1>3 DEF Waits

(* The ranges of Settled make one line.                                    *)
LEMMA LinesInOrder ==
  ASSUME TypeOK, Lines, Waits
  PROVE  StrokesSettleInOrder
  <1>1. ASSUME ~Lost
        PROVE  Carries(Line, 0, closed)
    <2>1. PICK a \in 0..closed, b \in 0..closed : Settled(a, b)
      BY <1>1 DEF Lines
    <2>2. /\ a \in Nat /\ b \in Nat /\ closed \in Nat /\ b <= closed
          /\ a + Hand \in Nat /\ a <= a + Hand /\ a + Hand <= b /\ Hand \in {0, 1}
      BY <2>1, SettledTyped DEF Settled
    <2>3. /\ Carries(durable, 0, a) /\ (at = "stroke" => on.n = a + 1)
          /\ Carries(Numbers(channel), a + Hand, b) /\ Carries(backlog, b, closed)
      BY <2>1 DEF Settled
    <2> DEFINE hand == IF at = "stroke" THEN <<on.n>> ELSE <<>>
    <2>4. hand \in Seq(Nat) /\ Carries(hand, a, a + Hand)
      <3>1. CASE at = "stroke"
        <4>1. Append(<<>>, a + 1) = <<a + 1>> /\ <<>> \in Seq(Nat) /\ <<a + 1>> \in Seq(Nat)
          BY <2>2
        <4>2. Carries(<<>>, a, a)
          BY <2>2, CarriesNothing
        <4>3. Carries(<<a + 1>>, a, a + 1)
          <5>1. a <= a
            BY <2>2
          <5>2. Carries(Append(<<>>, a + 1), a, a + 1)
            BY Zenon, <2>2, <4>1, <4>2, <5>1, CarriesNext
          <5>3. QED
            BY Zenon, <4>1, <5>2
        <4>4. QED
          BY <2>3, <3>1, <4>1, <4>3 DEF Hand
      <3>2. CASE at # "stroke"
        BY <2>2, <3>2, CarriesNothing DEF Hand
      <3>3. QED
        BY <3>1, <3>2
    <2> HIDE DEF hand
    <2> DEFINE d == durable \o hand
    <2>5. d \in Seq(Nat) /\ Carries(d, 0, a + Hand)
      BY <2>2, <2>3, <2>4, CarriesBoth, SettledTyped
    <2> HIDE DEF d
    <2> DEFINE c == d \o Numbers(channel)
    <2>6. c \in Seq(Nat) /\ Carries(c, 0, b)
      BY <2>2, <2>3, <2>5, CarriesBoth, SettledTyped
    <2> HIDE DEF c
    <2>7. Carries(c \o backlog, 0, closed)
      BY <2>2, <2>3, <2>6, CarriesBoth, SettledTyped
    <2>8. Line = c \o backlog
      BY DEF Line, c, d, hand, Numbers
    <2>9. QED
      BY <2>7, <2>8
  <1>2. QED
    BY <1>1 DEF StrokesSettleInOrder, Lines, Waits

-----------------------------------------------------------------------------
(* A counter at zero *)

Strokeless == \A i \in DOMAIN channel : channel[i].kind # "stroke"

(* When nothing is pending and no stroke is deferred, none is on its way.  *)
LEMMA NothingPending ==
  ASSUME TypeOK, Lines, ~Lost, backlog = <<>>, pending = 0
  PROVE  at \notin {"stroke"} \cup Settling /\ Strokeless
  <1>1. PICK a \in 0..closed, b \in 0..closed : Settled(a, b)
    BY DEF Lines
  <1>2. /\ a \in Nat /\ b \in Nat /\ a + Hand <= b /\ Hand \in {0, 1}
        /\ 0 = (b - a) + (IF at \in Settling THEN 1 ELSE 0)
        /\ Carries(Numbers(channel), a + Hand, b)
        /\ \A i \in DOMAIN channel : channel[i].kind = "stroke" => channel[i].n # Edit
    BY <1>1, SettledTyped DEF Settled
  <1>3. at \notin Settling /\ Hand = 0 /\ a = b
    BY <1>2
  <1>4. at # "stroke"
    BY <1>3 DEF Hand
  <1>5. Strokeless
    <2>1. SUFFICES ASSUME NEW i \in DOMAIN channel, channel[i].kind = "stroke"
                   PROVE  FALSE
      BY DEF Strokeless
    <2>2. Numbers(channel)[i] = channel[i].n /\ channel[i].n # Edit
      BY <1>2, <2>1 DEF Numbers, Number
    <2>3. i \in DOMAIN Numbers(channel)
      BY <2>1 DEF Numbers
    <2>4. Numbers(channel)[i] \in a + Hand + 1 .. b
      BY <1>2, <2>2, <2>3 DEF Carries
    <2>5. QED
      BY <1>2, <1>3, <2>4
  <1>6. QED
    BY <1>3, <1>4, <1>5

(* When none is on its way, every stroke closed is in the project.         *)
LEMMA NothingOnItsWay ==
  ASSUME TypeOK, Lines, ~Lost, backlog = <<>>, at # "stroke", Strokeless
  PROVE  Carries(durable, 0, closed) /\ pending = IF at \in Settling THEN 1 ELSE 0
  <1>1. PICK a \in 0..closed, b \in 0..closed : Settled(a, b)
    BY DEF Lines
  <1>2. /\ a \in Nat /\ b \in Nat /\ closed \in Nat /\ a <= b /\ b <= closed /\ Hand = 0
        /\ pending = (b - a) + (IF at \in Settling THEN 1 ELSE 0)
        /\ Carries(durable, 0, a) /\ Carries(Numbers(channel), a, b)
        /\ Carries(backlog, b, closed)
    BY <1>1, SettledTyped DEF Settled, Hand
  <1>3. b = closed
    <2>1. \A i \in DOMAIN backlog : backlog[i] = Edit
      OBVIOUS
    <2>2. QED
      BY <1>2, <2>1, CarriesNone
  <1>4. a = b
    <2>1. \A i \in DOMAIN Numbers(channel) : Numbers(channel)[i] = Edit
      BY DEF Numbers, Number, Strokeless
    <2>2. QED
      BY <1>2, <2>1, CarriesNone
  <1>5. QED
    BY <1>2, <1>3, <1>4

-----------------------------------------------------------------------------
(* What is shown *)

(* While an edit is under way no stroke is: it was asked for when none was *)
(* pending, and none is begun.                                             *)
Alone ==
  ~retired /\ job # NoJob =>
    /\ ~active /\ backlog = <<>> /\ Strokeless /\ lane = <<>>
    /\ at \notin {"stroke"} \cup Settling

(* No stroke comes under way while an edit is.                             *)
LEMMA NextAlone ==
  ASSUME TypeOK, Control, Edits, Lines, Alone, Next
  PROVE  Alone'
  <1>1. SUFFICES ASSUME ~retired', job' # NoJob
                 PROVE  /\ ~active' /\ backlog' = <<>> /\ Strokeless' /\ lane' = <<>>
                        /\ at' \notin {"stroke"} \cup Settling
    BY DEF Alone
  <1>2. CASE Writing
    <2>1. UNCHANGED <<active, backlog, retired>> /\ job # NoJob
      <3>1. UNCHANGED <<active, backlog, retired>> /\ (at # "edit" => job' = job)
        BY <1>2, WriterLeaves
      <3>2. at = "edit" => job # NoJob
        BY DEF Edits, NoJob
      <3>3. QED
        BY <1>1, <3>1, <3>2
    <2>2. /\ ~active /\ backlog = <<>> /\ Strokeless /\ lane = <<>>
          /\ at \notin {"stroke"} \cup Settling
      BY <1>1, <2>1 DEF Alone
    <2>3. Strokeless' /\ lane' = <<>> /\ at' \notin {"stroke"} \cup Settling
      <3>1. CASE Receive
        <4>1. /\ channel \in Seq(Requests) /\ channel # <<>> /\ channel' = Tail(channel)
              /\ lane' = lane
              /\ at' = IF Head(channel).kind = "closing_export" THEN "export"
                       ELSE Head(channel).kind
          BY <3>1 DEF Receive, TypeOK
        <4>2. /\ 1 \in DOMAIN channel /\ Head(channel) = channel[1]
              /\ \A i \in DOMAIN channel' : i + 1 \in DOMAIN channel /\ channel'[i] = channel[i + 1]
          BY <4>1
        <4>3. Head(channel).kind \in Kinds \ {"stroke"}
          BY <2>2, <4>1, <4>2, TakenTyped DEF Strokeless, Requests
        <4>4. Strokeless'
          BY <2>2, <4>2 DEF Strokeless
        <4>5. QED
          BY <2>2, <4>1, <4>3, <4>4 DEF Kinds, Settling
      <3>2. CASE ~Receive
        <4>1. channel' = channel \/ channel' = <<>>
          BY <1>2, <3>2
          DEF Writing, HangUp, CommitStroke, StrokeFails, Publish, PublishFull, SettleStroke,
              EditCommits, EditRejected, EditFails, StartExport, ReplaceImage, ExportFails,
              ReportImage, Finish, Vanish
        <4>2. lane' = lane /\ at' \notin {"stroke"} \cup Settling
          BY <1>2, <2>2, <3>2
          DEF Settling, Writing, HangUp, CommitStroke, StrokeFails, Publish, PublishFull,
              SettleStroke, EditCommits, EditRejected, EditFails, StartExport, ReplaceImage,
              ExportFails, ReportImage, Finish, Vanish
        <4>3. QED
          BY <2>2, <4>1, <4>2 DEF Strokeless
      <3>3. QED
        BY <3>1, <3>2
    <2>4. QED
      BY <2>1, <2>2, <2>3
  <1>3. CASE RequestEdit
    <2>1. /\ job = NoJob /\ ~active /\ backlog = <<>> /\ pending = 0 /\ ~error
          /\ lane' = <<>> /\ UNCHANGED <<active, backlog, retired, at>>
          /\ channel' = Append(channel, Request("edit", Edit))
      BY <1>1, <1>3 DEF RequestEdit, Commanding, Idle
    <2>2. ~Lost
      BY <2>1 DEF Control, NoJob
    <2>3. at \notin {"stroke"} \cup Settling /\ Strokeless
      BY <2>1, <2>2, NothingPending
    <2>4. Strokeless'
      <3> DEFINE r == Request("edit", Edit)
      <3>1. r.kind # "stroke"
        BY DEF Request
      <3>2. channel' = Append(channel, r) /\ channel \in Seq(Requests)
        BY <2>1 DEF TypeOK
      <3> HIDE DEF r
      <3>3. QED
        BY <2>3, <3>1, <3>2 DEF Strokeless
    <2>5. QED
      BY <2>1, <2>3, <2>4
  <1>4. CASE (Rendering \/ Retiring) /\ ~RequestEdit
    <2>1. job # NoJob /\ ~retired /\ at' = at
      <3>1. CASE Rendering
        <4> USE <1>1, <1>4, <3>1
            DEF Rendering, Drain, Adopt, Poll, PollDone, PollRejected, PollFatal, PollNothing,
                StartDrain, FlushOne, FlushDone, BeginStroke, BeginRefused, CancelStroke,
                EndGesture, EndStroke, StopInput, Sync, EndCommands, Settle, Save, FlushSave,
                SaveQueued, SaveWaits
        <4>1. job # NoJob
          OBVIOUS
        <4>2. ~retired
          OBVIOUS
        <4>3. at' = at
          BY OwnerLeaves DEF writer
        <4>4. QED
          BY <4>1, <4>2, <4>3
      <3>2. CASE Retiring
        BY <1>1, <1>4, <3>2, OwnerLeaves
        DEF Control, Retired, Sealed, Retiring, BeginClose, EndLastCommands, Retire, CloseFlush,
            CloseFlushed, Seal, NothingToSeal, SendFill, NothingToFill, Filled, ReserveClosing,
            NothingToReserve, CheckClosing, SendClosing, DropSender, Join, Joined
      <3>3. QED
        BY <1>4, <3>1, <3>2
    <2>2. /\ ~active /\ backlog = <<>> /\ Strokeless /\ lane = <<>>
          /\ at \notin {"stroke"} \cup Settling
      BY <2>1 DEF Alone
    <2>3. ~active' /\ backlog' = <<>> /\ channel' = channel /\ lane' = <<>>
      <3>1. CASE Rendering
        <4>1. ~(EndStroke \/ FlushOne \/ BeginStroke \/ FlushSave)
          BY <2>1, <2>2 DEF EndStroke, FlushOne, BeginStroke, FlushSave, CanFlushSave, Draining
        <4> USE <1>4, <3>1, <4>1
            DEF Rendering, Drain, Adopt, Poll, StartDrain, FlushDone, BeginRefused, CancelStroke,
                EndGesture, StopInput, Sync, EndCommands, Synchronize, Settle, Save, SaveQueued,
                SaveWaits
        <4>2. active' => active
          OBVIOUS
        <4>3. UNCHANGED <<backlog, channel>>
          OBVIOUS
        <4>4. lane' \in {lane, <<>>}
          OBVIOUS
        <4>5. QED
          BY <2>2, <4>2, <4>3, <4>4
      <3>2. CASE Retiring
        BY <2>1, <2>2, <3>2
        DEF Control, Retired, Sealed, Sent, Retiring, BeginClose, EndLastCommands, Retire,
            CloseFlush, CloseFlushed, Seal, NothingToSeal, SendFill, NothingToFill, Filled,
            ReserveClosing, NothingToReserve, CheckClosing, SendClosing, DropSender, Join, Joined
      <3>3. QED
        BY <1>4, <3>1, <3>2
    <2>4. QED
      BY <2>1, <2>2, <2>3 DEF Strokeless
  <1>5. QED
    BY <1>2, <1>3, <1>4 DEF Next

(* What was a prefix stays one when an operation is added, and a whole is  *)
(* a prefix of itself.                                                     *)
LEMMA PrefixGrows ==
  ASSUME NEW s \in Seq(Nat), NEW t \in Seq(Nat), NEW x \in Nat
  PROVE  /\ IsPrefix(s, s) /\ IsPrefix(s, Append(s, x))
         /\ IsPrefix(s, t) => IsPrefix(s, Append(t, x))
  <1>1. ASSUME NEW u \in Seq(Nat)
        PROVE  IsPrefix(s, u) <=> (Len(s) <= Len(u) /\ \A i \in 1..Len(s) : s[i] = u[i])
    <2>1. /\ SubSeq(s, 1, Len(s)) = s /\ Len(s) \in Nat /\ Len(u) \in Nat
          /\ DOMAIN s = 1..Len(s) /\ DOMAIN u = 1..Len(u)
      BY SubSeqFull, LenProperties
    <2>2. ASSUME Len(s) <= Len(u)
          PROVE  s = SubSeq(u, 1, Len(s)) <=> \A i \in 1..Len(s) : s[i] = u[i]
      <3>1. \A i \in 1..Len(s) : u[i] \in Nat
        BY <2>1, <2>2, ElementOfSeq
      <3>2. /\ SubSeq(u, 1, Len(s)) \in Seq(Nat)
            /\ Len(SubSeq(u, 1, Len(s))) = Len(s)
            /\ \A i \in 1..Len(s) : SubSeq(u, 1, Len(s))[i] = u[i]
        BY <2>1, <3>1
      <3>3. QED
        BY <3>2, SeqEqual
    <2>3. QED
      BY <2>1, <2>2 DEF IsPrefix
  <1>2. ASSUME NEW u \in Seq(Nat), IsPrefix(s, u)
        PROVE  IsPrefix(s, Append(u, x))
    <2> DEFINE p == Append(u, x)
    <2>1. p \in Seq(Nat) /\ Len(p) = Len(u) + 1 /\ \A i \in 1..Len(u) : p[i] = u[i]
      OBVIOUS
    <2>2. Len(s) <= Len(u) /\ \A i \in 1..Len(s) : s[i] = u[i]
      BY <1>1, <1>2
    <2> HIDE DEF p
    <2>3. Len(s) <= Len(p) /\ \A i \in 1..Len(s) : s[i] = p[i]
      BY <2>1, <2>2, LenProperties
    <2>4. QED
      BY <1>1, <2>1, <2>3 DEF p
  <1>3. IsPrefix(s, s)
    BY <1>1, LenProperties
  <1>4. QED
    BY <1>2, <1>3

(* The canvas and the completions it has not read are the project, or all  *)
(* but the stroke the writer is about to publish, or but the edit whose    *)
(* answer waits; behind a writer that failed they are still a prefix.      *)
Displayed ==
  /\ IsPrefix(shown \o lane, durable)
  /\ ~retired /\ job.state = "done" => job.seen = durable
  /\ ~retired /\ ~Lost /\ at \in {"publish", "full"} => durable = Append(shown \o lane, on.n)
  /\ ~retired /\ ~Lost /\ at \notin {"publish", "full"} /\ job.state # "done"
       => durable = shown \o lane

(* The owner moves completions to the canvas, or shows the answer of an    *)
(* edit.                                                                   *)
LEMMA OwnerKeepsDisplayed ==
  ASSUME TypeOK, Control, Edits, Alone, Displayed, Alone', Control', Rendering \/ Retiring
  PROVE  Displayed'
  <1>1. durable' = durable /\ at' = at /\ on' = on /\ Lost' = Lost
    BY OwnerLeaves DEF Lost
  <1>2. retired => retired'
    <2>1. CASE Rendering
      BY <2>1
      DEF Rendering, Drain, Adopt, Poll, StartDrain, FlushOne, FlushDone, BeginStroke,
          BeginRefused, CancelStroke, EndGesture, EndStroke, StopInput, Sync, EndCommands, Settle,
          RequestEdit, Save, FlushSave, SaveQueued, SaveWaits
    <2>2. CASE Retiring
      BY <2>2
      DEF Retiring, BeginClose, EndLastCommands, Retire, CloseFlush, CloseFlushed, Seal,
          NothingToSeal, SendFill, NothingToFill, Filled, ReserveClosing, NothingToReserve,
          CheckClosing, SendClosing, DropSender, Join, Joined
    <2>3. QED
      BY <2>1, <2>2
  <1>3. CASE PollDone /\ pc = "poll" /\ UNCHANGED lane
    <2>1. /\ ~retired /\ job.state = "done" /\ job' = NoJob /\ shown' = job.seen
          /\ job # NoJob
      BY <1>3 DEF PollDone, Control, Retired, Sealed, Sent, NoJob
    <2>2. lane = <<>> /\ at \notin Settling /\ shown' = durable /\ job'.state = "none"
      BY <2>1 DEF Alone, Displayed, NoJob
    <2>3. durable \in Seq(Nat) /\ shown' \o lane' = durable
      BY <1>3, <2>2 DEF TypeOK
    <2>4. IsPrefix(shown' \o lane', durable)
      BY <2>3, PrefixGrows
    <2>5. QED
      BY <1>1, <2>2, <2>3, <2>4 DEF Displayed, Settling
  <1>4. CASE ~(PollDone /\ pc = "poll" /\ UNCHANGED lane)
    <2>1. shown' \o lane' = shown \o lane
      <3>1. UNCHANGED <<shown, lane>> \/ (shown' = shown \o lane /\ lane' = <<>>)
        <4>1. CASE Rendering
          <5>1. CASE Poll
            BY <1>4, <5>1 DEF Poll, PollRejected, PollFatal, PollNothing
          <5>2. CASE ~Poll
            BY <4>1, <5>2
            DEF Rendering, Drain, Adopt, StartDrain, FlushOne, FlushDone, BeginStroke,
                BeginRefused, CancelStroke, EndGesture, EndStroke, StopInput, Sync, EndCommands,
                Settle, RequestEdit, Save, FlushSave, SaveQueued, SaveWaits
          <5>3. QED
            BY <5>1, <5>2
        <4>2. CASE Retiring
          BY <4>2
          DEF Retiring, BeginClose, EndLastCommands, Retire, CloseFlush, CloseFlushed, Seal,
              NothingToSeal, SendFill, NothingToFill, Filled, ReserveClosing, NothingToReserve,
              CheckClosing, SendClosing, DropSender, Join, Joined
        <4>3. QED
          BY <4>1, <4>2
      <3>2. CASE shown' = shown \o lane /\ lane' = <<>>
        <4>1. (shown \o lane) \o <<>> = shown \o lane
          BY TakenTyped, ConcatEmptySeq
        <4>2. QED
          BY Zenon, <3>2, <4>1
      <3>3. QED
        BY <3>1, <3>2
    <2>2. ~retired' => job' = job \/ (job.state # "done" /\ job'.state # "done")
      <3>1. CASE Rendering
        <4>1. CASE Poll
          BY <1>4, <4>1 DEF Poll, PollDone, PollRejected, PollFatal, PollNothing, NoJob
        <4>2. CASE RequestEdit
          BY <4>2 DEF RequestEdit, Idle, NoJob, Job
        <4>3. CASE ~(Poll \/ RequestEdit)
          BY <3>1, <4>3
          DEF Rendering, Drain, Adopt, StartDrain, FlushOne, FlushDone, BeginStroke,
              BeginRefused, CancelStroke, EndGesture, EndStroke, StopInput, Sync, EndCommands,
              Settle, Save, FlushSave, SaveQueued, SaveWaits
        <4>4. QED
          BY <4>1, <4>2, <4>3
      <3>2. CASE Retiring
        <4>1. CASE SendFill \/ Filled
          BY <1>2, <4>1 DEF SendFill, Filled, Control, Retired, Sealed
        <4>2. CASE ~(SendFill \/ Filled)
          BY <3>2, <4>2
          DEF Retiring, BeginClose, EndLastCommands, Retire, CloseFlush, CloseFlushed, Seal,
              NothingToSeal, NothingToFill, ReserveClosing, NothingToReserve,
              CheckClosing, SendClosing, DropSender, Join, Joined
        <4>3. QED
          BY <4>1, <4>2
      <3>3. QED
        BY <3>1, <3>2
    <2>3. QED
      BY <1>1, <1>2, <2>1, <2>2 DEF Displayed
  <1>5. QED
    BY <1>3, <1>4

(* The writer publishes what it has just made durable, or fails.           *)
LEMMA WriterKeepsDisplayed ==
  ASSUME TypeOK, Control, Edits, Alone, Displayed, Writing
  PROVE  Displayed'
  <1>1. UNCHANGED <<shown, retired>> /\ (at # "edit" => UNCHANGED job) /\ (Lost => Lost')
    BY WriterLeaves, FailureIsFinal DEF Next
  <1>2. /\ shown \o lane \in Seq(Nat) /\ durable \in Seq(Nat) /\ on.n \in Nat /\ Edit \in Nat
        /\ shown \in Seq(Nat) /\ lane \in Seq(Nat)
    BY TakenTyped DEF TypeOK, Edit
  <1>3. IsPrefix(shown \o lane, durable)
    BY DEF Displayed
  <1>4. /\ IsPrefix(shown \o lane, Append(durable, on.n))
        /\ IsPrefix(shown \o lane, Append(durable, Edit))
    BY <1>2, <1>3, PrefixGrows
  <1>5. CASE CommitStroke \/ StrokeFails
    <2>1. at = "stroke" /\ ~Lost /\ UNCHANGED <<lane, job>>
      BY <1>1, <1>5 DEF CommitStroke, StrokeFails, Control, Ended, Lost
    <2>2. ~retired => job = NoJob
      BY <2>1 DEF Alone
    <2>3. ~retired => job.state # "done" /\ durable = shown \o lane
      BY <2>1, <2>2 DEF Displayed, NoJob
    <2>4. CASE StrokeFails
      <3>1. Lost' /\ durable' \in {durable, Append(durable, on.n)}
        BY <2>4 DEF StrokeFails, Lost
      <3>2. IsPrefix(shown' \o lane', durable')
        BY <1>1, <1>3, <1>4, <2>1, <3>1
      <3>3. QED
        BY <1>1, <2>1, <2>3, <3>1, <3>2 DEF Displayed
    <2>5. CASE CommitStroke
      BY <1>1, <1>4, <2>1, <2>3, <2>5 DEF Displayed, CommitStroke
    <2>6. QED
      BY <1>5, <2>4, <2>5
  <1>6. CASE EditCommits \/ EditRejected \/ EditFails
    <2>1. at = "edit" /\ ~Lost /\ UNCHANGED lane /\ job.state = "queued"
      BY <1>6 DEF EditCommits, EditRejected, EditFails, Control, Edits, Ended, Lost
    <2>2. ~retired => durable = shown \o lane
      BY <2>1 DEF Displayed
    <2>3. CASE EditCommits
      BY <1>1, <1>4, <2>1, <2>3 DEF Displayed, EditCommits, Job
    <2>4. CASE EditRejected
      BY <1>1, <1>3, <2>1, <2>2, <2>4 DEF Displayed, EditRejected, Job
    <2>5. CASE EditFails
      BY <1>1, <1>3, <1>4, <2>1, <2>5 DEF Displayed, EditFails, Job, Lost
    <2>6. QED
      BY <1>6, <2>3, <2>4, <2>5
  <1>7. CASE Publish
    <2>1. at = "publish" /\ UNCHANGED <<job, on, exit, durable>>
      BY <1>1, <1>7 DEF Publish
    <2>2. CASE retired \/ Len(lane) >= Completions
      BY <1>1, <1>3, <1>7, <2>1, <2>2 DEF Publish, Displayed, Lost
    <2>3. CASE ~(retired \/ Len(lane) >= Completions)
      <3>1. at' = "settle" /\ lane' = Append(lane, on.n)
        BY <1>7, <2>3 DEF Publish
      <3>2. ~Lost
        BY <2>1 DEF Control, Ended, Lost
      <3>3. durable = Append(shown \o lane, on.n)
        BY <2>1, <2>3, <3>2 DEF Displayed
      <3>4. shown' \o lane' = durable
        <4>1. shown' = shown /\ shown \in Seq(Nat) /\ lane \in Seq(Nat) /\ <<on.n>> \in Seq(Nat)
          BY <1>1, <1>2
        <4>2. lane' = lane \o <<on.n>> /\ durable = (shown \o lane) \o <<on.n>>
          BY <1>2, <3>1, <3>3, <4>1, AppendIsConcat
        <4>3. QED
          BY <4>1, <4>2, ConcatAssociative
      <3>5. IsPrefix(shown' \o lane', durable')
        BY <1>2, <2>1, <3>4, PrefixGrows
      <3>6. ~retired => (job.state = "done" => job.seen = durable)
        BY DEF Displayed
      <3>7. QED
        BY <1>1, <2>1, <3>1, <3>4, <3>5, <3>6 DEF Displayed
    <2>4. QED
      BY <2>2, <2>3
  <1>8. CASE PublishFull
    <2>1. at = "full" /\ UNCHANGED <<job, lane, durable>>
      BY <1>1, <1>8 DEF PublishFull
    <2>2. retired \/ Lost'
      BY <1>8 DEF PublishFull, Lost
    <2>3. QED
      BY <1>1, <1>3, <2>1, <2>2 DEF Displayed
  <1>9. CASE ~(CommitStroke \/ StrokeFails \/ EditCommits \/ EditRejected \/ EditFails \/ Publish
               \/ PublishFull)
    <2>1. UNCHANGED <<durable, lane>>
      BY <1>9
      DEF Writing, Receive, HangUp, SettleStroke, StartExport, ReplaceImage, ExportFails,
          ReportImage, Finish, Vanish
    <2>2. UNCHANGED job
      BY <1>9
      DEF Writing, Receive, HangUp, SettleStroke, StartExport, ReplaceImage, ExportFails,
          ReportImage, Finish, Vanish
    <2>3. at \notin {"publish", "full"} /\ at' \notin {"publish", "full"}
      <3>1. CASE Receive
        BY <3>1, TakenTyped DEF Receive, Requests, Kinds
      <3>2. CASE ~Receive
        BY <1>9, <3>2
        DEF Writing, HangUp, SettleStroke, StartExport, ReplaceImage, ExportFails, ReportImage,
            Finish, Vanish
      <3>3. QED
        BY <3>1, <3>2
    <2>4. QED
      BY <1>1, <1>3, <2>1, <2>2, <2>3 DEF Displayed
  <1>10. QED
    BY <1>5, <1>6, <1>7, <1>8, <1>9

(* The canvas of a frame that has asked for an edit is the whole project.  *)
LEMMA DisplayedIsDurable ==
  ASSUME TypeOK, Control, Edits, Alone, Displayed
  PROVE  ShownIsDurable
  <1>1. ASSUME at = "edit", pc \in Frame
        PROVE  shown = durable
    <2>1. ~retired /\ ~Lost
      BY <1>1 DEF Control, Frame, Retired, Sealed, Sent, Ended, Lost
    <2>2. job.state = "queued" /\ job # NoJob
      BY <1>1 DEF Edits, NoJob
    <2>3. lane = <<>> /\ durable = shown \o lane
      BY <1>1, <2>1, <2>2 DEF Alone, Displayed
    <2>4. QED
      BY <2>3 DEF TypeOK
  <1>2. QED
    BY <1>1 DEF ShownIsDurable, Displayed

-----------------------------------------------------------------------------
(* Generations *)

IsExport(r) == r.kind \in {"export", "closing_export"}
Unflushed == saving # 0 /\ pc \notin {"saved", "sent"}

(* The export status is that of the latest generation, the only one a save *)
(* may wait for, and no image of it is under way before its request goes   *)
(* out.  The image and the receipt are never ahead of the project.         *)
Generations ==
  /\ saving \in {0, latest} /\ export.generation = latest
  /\ \A i \in DOMAIN channel : IsExport(channel[i]) => channel[i].n \in 1..latest
  /\ at \in Exporting => on.n \in 1..latest
  /\ pc \in {"saved", "check", "send", "sent"} => saving # 0
  /\ Unflushed => /\ \A i \in DOMAIN channel : IsExport(channel[i]) => channel[i].n # latest
                  /\ at \in Exporting => on.n # latest
                  /\ export.stage # "current"
  /\ latest = 0 => export.stage # "current"
  /\ receipt <= png /\ png <= Len(durable)
  /\ at = "replaced" => png = Len(durable)

(* What a status becomes when one is published: an older generation is not *)
(* heard, a newer one is, and an end of the same one is final.             *)
LEMMA StatusOf ==
  ASSUME export \in Statuses, latest \in Nat, export.generation = latest,
         NEW s \in Stages, NEW g \in Nat
  PROVE  /\ g < latest => Published(Status(s, g)) = export
         /\ g = latest + 1 => Published(Status(s, g)) = Status(s, latest + 1)
         /\ g = latest => /\ Published(Status(s, g)) \in {export, Status(s, latest)}
                          /\ s \in {"current", "failed"} =>
                               Published(Status(s, g)) = Status(s, latest)
                          /\ s \in {"queued", "running"} /\ export.stage = "current" =>
                               Published(Status(s, g)) = export
         /\ Status(s, g).stage = s /\ Status(s, g).generation = g
  <1>1. Rank(s) \in 0..4 /\ Rank(export.stage) \in 0..4
    BY DEF Statuses, Stages, Rank
  <1>2. /\ s \in {"current", "failed"} => Rank(s) = 4
        /\ s \in {"queued", "running"} => Rank(s) \in {2, 3}
        /\ export.stage = "current" => Rank(export.stage) = 4
    BY DEF Rank
  <1>3. Status(s, g).stage = s /\ Status(s, g).generation = g
    BY DEF Status
  <1>4. QED
    BY <1>1, <1>2, <1>3 DEF Published

(* An abandoned generation is still the same one.                          *)
LEMMA AbandonedOf ==
  ASSUME export \in Statuses
  PROVE  Abandoned.generation = export.generation
         /\ (Abandoned.stage = "current" => export.stage = "current")
  BY DEF Abandoned, Status

(* What the owner does to generations: it reserves one, sends the request  *)
(* for one, or does neither.                                               *)
Reserves ==
  /\ latest' = latest + 1 /\ saving' = latest + 1 /\ UNCHANGED channel
  /\ export' = Published(Status("waiting", latest + 1))
  /\ pc' \notin {"saved", "sent"}
SendsExport ==
  /\ Unflushed /\ pc' \in {"saved", "sent"} /\ UNCHANGED <<latest, saving, export>>
  /\ \E k \in {"export", "closing_export"} : channel' = Append(channel, Request(k, saving))
SavesNothing ==
  /\ UNCHANGED latest /\ saving' \in {0, saving}
  /\ Unflushed' => Unflushed
  /\ pc' \in {"saved", "check", "send", "sent"} => saving' # 0
  /\ \/ UNCHANGED channel
     \/ \E k \in {"stroke", "edit"}, n \in Nat : channel' = Append(channel, Request(k, n))
  /\ \/ export' \in {export, Abandoned}
     \/ saving # 0 /\ \E s \in {"queued", "failed"} : export' = Published(Status(s, saving))

(* The owner does nothing else to generations.                             *)
LEMMA OwnerSaves ==
  ASSUME TypeOK, Generations, Rendering \/ Retiring
  PROVE  Reserves \/ SendsExport \/ SavesNothing
  <1>1. CASE Save \/ ReserveClosing
    BY <1>1 DEF Save, ReserveClosing, Reserve, Commanding, Reserves
  <1>2. CASE FlushSave
    <2>1. saving # 0 /\ pc = "save" /\ Unflushed
      BY <1>2 DEF FlushSave, CanFlushSave, Unflushed
    <2>2. CASE ReceiverGone
      <3>1. /\ UNCHANGED <<latest, channel>> /\ saving' = 0 /\ pc' = "adopt"
            /\ export' = Published(Status("failed", saving))
        BY <1>2, <2>2 DEF FlushSave
      <3>2. QED
        BY Zenon, <2>1, <3>1 DEF SavesNothing, Unflushed
    <2>3. CASE ~ReceiverGone
      <3>1. /\ UNCHANGED <<latest, saving, export>> /\ pc' = "saved"
            /\ channel' = Append(channel, Request("export", saving))
        BY Zenon, <1>2, <2>3 DEF FlushSave
      <3>2. QED
        BY Zenon, <2>1, <3>1 DEF SendsExport
    <2>4. QED
      BY <2>2, <2>3
  <1>3. CASE SendClosing
    <2>1. saving # 0 /\ pc = "send" /\ Unflushed
      BY <1>3 DEF SendClosing, Generations, Unflushed
    <2>2. \/ /\ channel' = Append(channel, Request("closing_export", saving))
             /\ pc' = "sent" /\ export' = export
          \/ /\ export' = Published(Status("failed", saving))
             /\ pc' = "drop" /\ channel' = channel
      BY Zenon, <1>3 DEF SendClosing
    <2>3. UNCHANGED <<latest, saving>>
      BY <1>3 DEF SendClosing
    <2>4. QED
      BY Zenon, <2>1, <2>2, <2>3 DEF SendsExport, SavesNothing, Unflushed
  <1>4. CASE SaveQueued
    <2>1. saving # 0
      BY <1>4 DEF SaveQueued, Generations
    <2>2. QED
      BY <1>4, <2>1 DEF SaveQueued, SavesNothing, Unflushed
  <1>5. CASE ~(Save \/ ReserveClosing \/ FlushSave \/ SendClosing \/ SaveQueued)
    <2>1. /\ UNCHANGED <<latest, saving>> /\ export' \in {export, Abandoned}
          /\ pc' \notin {"saved", "sent"}
          /\ pc \notin {"saved", "sent"}
          /\ pc' \in {"check", "send"} => saving # 0
      <3>1. CASE Rendering
        BY <1>5, <3>1
        DEF Rendering, Drain, Draining, Commanding, Adopt, Poll, StartDrain, FlushOne, FlushDone,
            BeginStroke, BeginRefused, CancelStroke, EndGesture, EndStroke, StopInput, Sync,
            EndCommands, Synchronize, Settle, RequestEdit, SaveWaits
      <3>2. CASE Retiring
        BY <1>5, <3>2
        DEF Generations, Retiring, BeginClose, EndLastCommands, Retire, CloseFlush, CloseFlushed,
            Seal, NothingToSeal, SendFill, NothingToFill, Filled, NothingToReserve, CheckClosing,
            DropSender, Join, Joined
      <3>3. QED
        BY <3>1, <3>2
    <2>2. \/ UNCHANGED channel
          \/ \E k \in {"stroke", "edit"}, n \in Nat : channel' = Append(channel, Request(k, n))
      <3>1. CASE FlushOne \/ CloseFlush
        <4>1. backlog # <<>>
          BY <3>1 DEF FlushOne, CloseFlush
        <4>2. Head(backlog) \in Nat
          BY <4>1, TakenTyped
        <4>3. UNCHANGED channel \/ channel' = Append(channel, Request("stroke", Head(backlog)))
          BY <3>1 DEF FlushOne, CloseFlush
        <4>4. QED
          BY <4>2, <4>3
      <3>2. CASE EndStroke \/ Seal
        <4>1. closed + 1 \in Nat
          BY DEF TypeOK
        <4>2. UNCHANGED channel \/ channel' = Append(channel, Request("stroke", closed + 1))
          BY Zenon, <3>2 DEF EndStroke, Seal, SealActive, SealRefused
        <4>3. QED
          BY Zenon, <4>1, <4>2
      <3>3. CASE RequestEdit \/ SendFill
        <4>1. Edit \in Nat
          BY DEF Edit
        <4>2. UNCHANGED channel \/ channel' = Append(channel, Request("edit", Edit))
          BY <3>3 DEF RequestEdit, SendFill
        <4>3. QED
          BY Zenon, <4>1, <4>2
      <3>4. CASE ~(FlushOne \/ CloseFlush \/ EndStroke \/ Seal \/ RequestEdit \/ SendFill)
        <4>1. CASE Rendering
          BY <1>5, <3>4, <4>1
          DEF Rendering, Drain, Adopt, Poll, StartDrain, FlushDone, BeginStroke, BeginRefused,
              CancelStroke, EndGesture, StopInput, Sync, EndCommands, Settle, SaveWaits
        <4>2. CASE Retiring
          BY <1>5, <3>4, <4>2
          DEF Retiring, BeginClose, EndLastCommands, Retire, CloseFlushed, NothingToSeal,
              NothingToFill, Filled, NothingToReserve, CheckClosing, DropSender, Join, Joined
        <4>3. QED
          BY <4>1, <4>2
      <3>5. QED
        BY <3>1, <3>2, <3>3, <3>4
    <2>3. QED
      BY <2>1, <2>2 DEF SavesNothing, Unflushed
  <1>6. QED
    BY <1>1, <1>2, <1>3, <1>4, <1>5

(* A generation reserved is new, and its request goes out once.            *)
LEMMA OwnerKeepsGenerations ==
  ASSUME TypeOK, Generations, Rendering \/ Retiring
  PROVE  Generations'
  <1>1. UNCHANGED <<at, on, durable, png, receipt>>
    BY OwnerLeaves
  <1>2. /\ export \in Statuses /\ latest \in Nat /\ saving \in {0, latest}
        /\ export.generation = latest /\ on.n \in Nat /\ channel \in Seq(Requests)
        /\ \A i \in DOMAIN channel : IsExport(channel[i]) => channel[i].n \in 1..latest
        /\ at \in Exporting => on.n \in 1..latest
    BY TakenTyped DEF TypeOK, Generations
  <1>3. /\ receipt' <= png' /\ png' <= Len(durable') /\ (at' = "replaced" => png' = Len(durable'))
    BY <1>1 DEF Generations
  <1>4. CASE Reserves
    <2>1. latest' = latest + 1 /\ saving' = latest' /\ channel' = channel
      BY <1>4 DEF Reserves
    <2>2. export' = Status("waiting", latest + 1)
      BY <1>2, <1>4, StatusOf DEF Reserves, Stages
    <2>3. export'.generation = latest' /\ export'.stage # "current"
      BY <2>1, <2>2 DEF Status
    <2>4. \A i \in DOMAIN channel' :
            IsExport(channel'[i]) => channel'[i].n \in 1..latest' /\ channel'[i].n # latest'
      BY <1>2, <2>1
    <2>5. at' \in Exporting => on'.n \in 1..latest' /\ on'.n # latest'
      BY <1>1, <1>2, <2>1
    <2>6. saving' # 0
      BY <1>2, <2>1
    <2>7. QED
      BY <1>3, <2>1, <2>3, <2>4, <2>5, <2>6 DEF Generations
  <1>5. CASE SendsExport
    <2>1. /\ UNCHANGED <<latest, saving, export>> /\ saving # 0 /\ ~Unflushed'
          /\ saving = latest /\ latest \in 1..latest
      BY <1>2, <1>5 DEF SendsExport, Unflushed
    <2>2. \A i \in DOMAIN channel' : IsExport(channel'[i]) => channel'[i].n \in 1..latest
      <3>1. PICK k \in {"export", "closing_export"} : channel' = Append(channel, Request(k, saving))
        BY <1>5 DEF SendsExport
      <3> DEFINE r == Request(k, saving)
      <3>2. r.n = latest
        BY <2>1 DEF Request
      <3>3. channel' = Append(channel, r)
        BY <3>1
      <3> HIDE DEF r
      <3>4. QED
        BY <1>2, <2>1, <3>2, <3>3
    <2>3. at' \in Exporting => on'.n \in 1..latest
      BY <1>1, <1>2
    <2>4. QED
      BY <1>3, <2>1, <2>2, <2>3 DEF Generations
  <1>6. CASE SavesNothing
    <2>1. latest' = latest /\ saving' \in {0, latest'}
      BY <1>2, <1>6 DEF SavesNothing
    <2>2. export'.generation = latest /\ (export'.stage = "current" => export.stage = "current")
      <3>1. CASE export' \in {export, Abandoned}
        BY <1>2, <3>1, AbandonedOf
      <3>2. ASSUME saving # 0, NEW s \in {"queued", "failed"}, export' = Published(Status(s, saving))
            PROVE  export'.generation = latest
                   /\ (export'.stage = "current" => export.stage = "current")
        <4>1. saving = latest /\ s \in Stages
          BY <1>2, <3>2 DEF Stages
        <4>2. export' \in {export, Status(s, latest)}
          BY <1>2, <3>2, <4>1, StatusOf
        <4>3. QED
          BY <1>2, <3>2, <4>2 DEF Status
      <3>3. QED
        BY <1>6, <3>1, <3>2 DEF SavesNothing
    <2>3. \A i \in DOMAIN channel' : IsExport(channel'[i]) =>
            i \in DOMAIN channel /\ channel'[i] = channel[i]
      <3>1. CASE UNCHANGED channel
        BY <3>1
      <3>2. ASSUME NEW k \in {"stroke", "edit"}, NEW n \in Nat,
                   channel' = Append(channel, Request(k, n))
            PROVE  \A i \in DOMAIN channel' : IsExport(channel'[i]) =>
                     i \in DOMAIN channel /\ channel'[i] = channel[i]
        <4> DEFINE r == Request(k, n)
        <4>1. ~IsExport(r)
          BY <3>2 DEF Request, IsExport
        <4>2. channel' = Append(channel, r)
          BY <3>2
        <4> HIDE DEF r
        <4>3. QED
          BY <1>2, <4>1, <4>2
      <3>3. QED
        BY <1>6, <3>1, <3>2 DEF SavesNothing
    <2>4. /\ Unflushed' => Unflushed
          /\ pc' \in {"saved", "check", "send", "sent"} => saving' # 0
      BY <1>6 DEF SavesNothing
    <2>5. Unflushed =>
            /\ \A i \in DOMAIN channel : IsExport(channel[i]) => channel[i].n # latest
            /\ at \in Exporting => on.n # latest
            /\ export.stage # "current"
      BY DEF Generations
    <2>6. Unflushed' =>
            /\ \A i \in DOMAIN channel' : IsExport(channel'[i]) => channel'[i].n # latest'
            /\ at' \in Exporting => on'.n # latest'
            /\ export'.stage # "current"
      BY <1>1, <2>1, <2>2, <2>3, <2>4, <2>5
    <2>7. \A i \in DOMAIN channel' : IsExport(channel'[i]) => channel'[i].n \in 1..latest'
      BY <1>2, <2>1, <2>3
    <2>8. at' \in Exporting => on'.n \in 1..latest'
      BY <1>1, <1>2, <2>1
    <2>9. latest' = 0 => export'.stage # "current"
      BY <2>1, <2>2 DEF Generations
    <2>10. QED
      BY <1>3, <2>1, <2>2, <2>4, <2>6, <2>7, <2>8, <2>9 DEF Generations
  <1>7. QED
    BY <1>4, <1>5, <1>6, OwnerSaves

(* The writer works on generations that were asked for, and its image on   *)
(* the project as it is.                                                   *)
LEMMA WriterKeepsGenerations ==
  ASSUME TypeOK, Generations, Writing
  PROVE  Generations'
  <1>1. UNCHANGED <<pc, saving, latest>> /\ (Unflushed' <=> Unflushed)
    BY WriterLeaves DEF Unflushed
  <1>2. /\ export \in Statuses /\ latest \in Nat /\ saving \in {0, latest}
        /\ export.generation = latest /\ on.n \in Nat /\ channel \in Seq(Requests)
        /\ \A i \in DOMAIN channel : IsExport(channel[i]) => channel[i].n \in 1..latest
        /\ at \in Exporting => on.n \in 1..latest
        /\ durable \in Seq(Nat) /\ Len(durable) \in Nat /\ png \in Nat /\ receipt \in Nat
        /\ receipt <= png /\ png <= Len(durable)
    BY TakenTyped DEF TypeOK, Generations
  <1>3. Unflushed =>
          /\ \A i \in DOMAIN channel : IsExport(channel[i]) => channel[i].n # latest
          /\ at \in Exporting => on.n # latest
          /\ export.stage # "current"
    BY DEF Generations
  (* The requests in the FIFO, and the one in hand *)
  <1>4. /\ \A i \in DOMAIN channel' : \E j \in DOMAIN channel : channel'[i] = channel[j]
        /\ at' \in Exporting => \/ at \in Exporting /\ on' = on
                                \/ \E j \in DOMAIN channel : IsExport(channel[j]) /\ on' = channel[j]
    <2>1. CASE Receive
      <3>1. /\ channel # <<>> /\ channel' = Tail(channel) /\ on' = Head(channel)
            /\ at' = IF Head(channel).kind = "closing_export" THEN "export" ELSE Head(channel).kind
        BY <2>1 DEF Receive
      <3>2. /\ 1 \in DOMAIN channel /\ Head(channel) = channel[1]
            /\ \A i \in DOMAIN channel' : i + 1 \in DOMAIN channel /\ channel'[i] = channel[i + 1]
        BY <1>2, <3>1
      <3>3. Head(channel).kind \in Kinds
        BY <3>1, TakenTyped DEF Requests
      <3>4. at' \in Exporting => IsExport(channel[1])
        BY <3>1, <3>2, <3>3 DEF Kinds, Exporting, IsExport
      <3>5. QED
        BY <3>1, <3>2, <3>4
    <2>2. CASE ~Receive
      <3>1. channel' = channel \/ channel' = <<>>
        BY <2>2
        DEF Writing, HangUp, CommitStroke, StrokeFails, Publish, PublishFull, SettleStroke,
            EditCommits, EditRejected, EditFails, StartExport, ReplaceImage, ExportFails,
            ReportImage, Finish, Vanish
      <3>2. at' \in Exporting => at \in Exporting /\ on' = on
        BY <2>2
        DEF Exporting, Writing, HangUp, CommitStroke, StrokeFails, Publish, PublishFull,
            SettleStroke, EditCommits, EditRejected, EditFails, StartExport, ReplaceImage,
            ExportFails, ReportImage, Finish, Vanish
      <3>3. QED
        BY <3>1, <3>2
    <2>3. QED
      BY <2>1, <2>2
  <1>5. /\ \A i \in DOMAIN channel' : IsExport(channel'[i]) => channel'[i].n \in 1..latest'
        /\ at' \in Exporting => on'.n \in 1..latest'
    BY <1>1, <1>2, <1>4
  <1>6. Unflushed' =>
          /\ \A i \in DOMAIN channel' : IsExport(channel'[i]) => channel'[i].n # latest'
          /\ at' \in Exporting => on'.n # latest'
    BY <1>1, <1>3, <1>4
  (* The status *)
  <1>7. /\ export'.generation = latest
        /\ export'.stage = "current" =>
             export.stage = "current" \/ (at \in Exporting /\ on.n = latest)
    <2>1. CASE StartExport \/ ExportFails \/ ReportImage
      <3>1. at \in Exporting
        BY <2>1 DEF StartExport, ExportFails, ReportImage, Exporting
      <3>2. \/ export' = export
            \/ \E s \in {"current", "running", "failed"} : export' = Published(Status(s, on.n))
        BY <2>1 DEF StartExport, ExportFails, ReportImage
      <3>3. ASSUME NEW s \in {"current", "running", "failed"}, export' = Published(Status(s, on.n))
            PROVE  export' = export \/ (export'.generation = latest /\ on.n = latest)
        <4>1. s \in Stages
          BY DEF Stages
        <4>2. CASE on.n = latest
          BY <1>2, <3>3, <4>1, <4>2, StatusOf
        <4>3. CASE on.n # latest
          <5>1. on.n < latest
            BY <1>2, <3>1, <4>3
          <5>2. QED
            BY <1>2, <3>3, <4>1, <5>1, StatusOf
        <4>4. QED
          BY <4>2, <4>3
      <3>4. QED
        BY <1>2, <3>1, <3>2, <3>3
    <2>2. CASE Finish
      BY <1>2, <2>2, AbandonedOf DEF Finish
    <2>3. CASE ~(StartExport \/ ExportFails \/ ReportImage \/ Finish)
      <3>1. export' = export
        BY <2>3
        DEF Writing, Receive, HangUp, CommitStroke, StrokeFails, Publish, PublishFull,
            SettleStroke, EditCommits, EditRejected, EditFails, ReplaceImage, Vanish
      <3>2. QED
        BY <1>2, <3>1
    <2>4. QED
      BY <2>1, <2>2, <2>3
  <1>8. Unflushed' => export'.stage # "current"
    BY <1>1, <1>3, <1>7
  <1>9. latest' = 0 => export'.stage # "current"
    BY <1>1, <1>2, <1>7 DEF Generations
  (* The image *)
  <1>10. /\ receipt' <= png' /\ png' <= Len(durable')
         /\ at' = "replaced" => png' = Len(durable')
    <2>1. CASE CommitStroke \/ StrokeFails \/ EditCommits \/ EditFails
      <3>1. UNCHANGED <<png, receipt>> /\ at' # "replaced"
        BY <2>1 DEF CommitStroke, StrokeFails, EditCommits, EditFails
      <3>2. durable' \in {durable, Append(durable, on.n), Append(durable, Edit)}
        BY <2>1 DEF CommitStroke, StrokeFails, EditCommits, EditFails
      <3>3. Len(Append(durable, on.n)) = Len(durable) + 1 /\ Len(Append(durable, Edit)) = Len(durable) + 1
        BY <1>2 DEF Edit
      <3>4. Len(durable') >= Len(durable)
        BY <1>2, <3>2, <3>3
      <3>5. QED
        BY <1>2, <3>1, <3>4, TakenTyped DEF Edit
    <2>2. CASE ReplaceImage
      BY <1>2, <2>2 DEF ReplaceImage
    <2>3. CASE ReportImage
      BY <1>2, <2>3 DEF ReportImage, Generations
    <2>4. CASE ~(CommitStroke \/ StrokeFails \/ EditCommits \/ EditFails \/ ReplaceImage \/ ReportImage)
      <3>1. UNCHANGED <<png, receipt, durable>>
        BY <2>4
        DEF Writing, Receive, HangUp, Publish, PublishFull, SettleStroke, EditRejected,
            StartExport, ExportFails, Finish, Vanish
      <3>2. at' # "replaced"
        <4>1. CASE Receive
          BY <4>1, TakenTyped DEF Receive, Requests, Kinds
        <4>2. CASE ~Receive
          BY <2>4, <4>2
          DEF Writing, HangUp, Publish, PublishFull, SettleStroke, EditRejected,
              StartExport, ExportFails, Finish, Vanish
        <4>3. QED
          BY <4>1, <4>2
      <3>3. QED
        BY <1>2, <3>1, <3>2
    <2>5. QED
      BY <2>1, <2>2, <2>3, <2>4
  <1>11. QED
    <2>1. saving' \in {0, latest'} /\ export'.generation = latest'
          /\ (pc' \in {"saved", "check", "send", "sent"} => saving' # 0)
      BY <1>1, <1>7 DEF Generations
    <2>2. QED
      BY <1>5, <1>6, <1>8, <1>9, <1>10, <2>1 DEF Generations

-----------------------------------------------------------------------------
(* What an image covers *)

(* An artwork is clean when nothing has failed and no change awaits a save: *)
(* in a frame the dirty flag says so, once the drain's own strokes have set *)
(* it and the answer of an edit has been read; in a close, the request for  *)
(* the last image has gone out.                                             *)
Fresh == newly /\ pc \in {"flush", "input", "sync", "retry", "settle"}
Clean ==
  /\ ~error /\ ~Lost
  /\ IF retired THEN closing /\ pc \in Sent
     ELSE ~dirty /\ ~Fresh /\ job.state \in {"none", "queued", "rejected"}

(* What may follow the request for the latest image: no stroke, and no edit *)
(* once the canvas has retired; before, an edit in the FIFO will make the   *)
(* artwork dirty when it is answered.                                       *)
Later(r) == r.kind # "stroke" /\ (retired => r.kind # "edit")
AllLater == \A j \in DOMAIN channel : Later(channel[j])

(* The request for the latest image stands behind every stroke, wherever it *)
(* is; and an image reported current shows the whole project.               *)
Covered ==
  Clean =>
    /\ \A i \in DOMAIN channel : IsExport(channel[i]) /\ channel[i].n = latest =>
         backlog = <<>> /\ \A j \in DOMAIN channel : j > i => Later(channel[j])
    /\ at \in Exporting /\ on.n = latest => backlog = <<>> /\ AllLater
    /\ export.stage = "current" =>
         /\ backlog = <<>> /\ AllLater
         /\ at # "stroke" /\ (retired => at # "edit")
         /\ png = Len(durable)

(* The owner makes an artwork clean only by sending the request for its    *)
(* image, which finds no stroke deferred.                                  *)
LEMMA OwnerCleans ==
  ASSUME TypeOK, Control, Edits, Closed, Clean', Rendering \/ Retiring
  PROVE  \/ FlushSave \/ SendClosing
         \/ Clean /\ (retired' <=> retired)
  <1>1. ~error /\ ~Lost
    <2>1. error => error'
      BY ErrorsStay DEF Next
    <2>2. Lost' = Lost
      BY OwnerLeaves DEF Lost
    <2>3. QED
      BY <2>1, <2>2 DEF Clean
  <1>2. SUFFICES ASSUME ~FlushSave, ~SendClosing
                 PROVE  Clean /\ (retired' <=> retired)
    OBVIOUS
  <1>3. CASE retired'
    <2>1. closing' /\ pc' \in Sent /\ ~error'
      BY <1>3 DEF Clean
    <2>2. closing /\ pc \in Sent
      <3>1. CASE Rendering
        BY <1>2, <2>1, <3>1
        DEF Sent, Rendering, Drain, Draining, Commanding, Adopt, Poll, StartDrain, FlushOne,
            FlushDone, BeginStroke, BeginRefused, CancelStroke, EndGesture, EndStroke, StopInput,
            Sync, EndCommands, Settle, RequestEdit, Save, SaveQueued, SaveWaits
      <3>2. CASE Retiring
        BY <1>1, <1>2, <2>1, <3>2
        DEF Sent, Retiring, BeginClose, EndLastCommands, Retire, CloseFlush, CloseFlushed, Seal,
            NothingToSeal, SendFill, NothingToFill, Filled, ReserveClosing, NothingToReserve,
            CheckClosing, DropSender, Join, Joined
      <3>3. QED
        BY <3>1, <3>2
    <2>3. retired
      BY <2>2 DEF Control, Retired, Sealed
    <2>4. QED
      BY <1>1, <1>3, <2>2, <2>3 DEF Clean, Control
  <1>4. CASE ~retired'
    <2>1. ~dirty' /\ ~Fresh' /\ job'.state \in {"none", "queued", "rejected"} /\ ~error'
      BY <1>4 DEF Clean
    <2>2. ~retired
      BY <1>4, <1>3
      DEF Rendering, Drain, Adopt, Poll, StartDrain, FlushOne, FlushDone, BeginStroke,
          BeginRefused, CancelStroke, EndGesture, EndStroke, StopInput, Sync, EndCommands, Settle,
          RequestEdit, Save, FlushSave, SaveQueued, SaveWaits,
          Retiring, BeginClose, EndLastCommands, Retire, CloseFlush, CloseFlushed, Seal,
          NothingToSeal, SendFill, NothingToFill, Filled, ReserveClosing, NothingToReserve,
          CheckClosing, SendClosing, DropSender, Join, Joined
    <2>3. ~dirty
      <3>1. CASE Rendering
        BY <1>1, <1>2, <2>1, <3>1
        DEF Rendering, Drain, Adopt, Poll, PollDone, PollRejected, PollFatal, PollNothing,
            StartDrain, FlushOne, FlushDone, BeginStroke, BeginRefused, CancelStroke, EndGesture,
            EndStroke, StopInput, Sync, EndCommands, Synchronize, Settle, RequestEdit, Save,
            SaveQueued, SaveWaits
      <3>2. CASE Retiring
        BY <1>2, <2>1, <3>2
        DEF Retiring, BeginClose, EndLastCommands, Retire, CloseFlush, CloseFlushed, Seal,
            NothingToSeal, SendFill, NothingToFill, Filled, ReserveClosing, NothingToReserve,
            CheckClosing, SendClosing, DropSender, Join, Joined
      <3>3. QED
        BY <3>1, <3>2
    <2>4. ~Fresh
      <3>1. CASE Rendering
        BY <1>1, <1>2, <2>1, <3>1
        DEF Fresh, Rendering, Drain, Draining, Commanding, Adopt, Poll, StartDrain, FlushOne,
            FlushDone, BeginStroke, BeginRefused, CancelStroke, EndGesture, EndStroke, StopInput,
            Sync, EndCommands, Synchronize, Settle, RequestEdit, Save, SaveQueued, SaveWaits
      <3>2. CASE Retiring
        BY <1>2, <2>1, <3>2
        DEF Fresh, Retiring, BeginClose, EndLastCommands, Retire, CloseFlush, CloseFlushed, Seal,
            NothingToSeal, SendFill, NothingToFill, Filled, ReserveClosing, NothingToReserve,
            CheckClosing, SendClosing, DropSender, Join, Joined
      <3>3. QED
        BY <3>1, <3>2
    <2>5. job.state \in {"none", "queued", "rejected"}
      <3>1. CASE Rendering
        <4>1. CASE Poll
          BY <2>1, <4>1 DEF Poll, PollDone, PollRejected, PollFatal, PollNothing
        <4>2. CASE RequestEdit
          BY <2>1, <4>2 DEF RequestEdit, Idle, NoJob
        <4>3. CASE ~(Poll \/ RequestEdit)
          BY <1>2, <2>1, <3>1, <4>3
          DEF Rendering, Drain, Adopt, StartDrain, FlushOne, FlushDone, BeginStroke, BeginRefused,
              CancelStroke, EndGesture, EndStroke, StopInput, Sync, EndCommands, Settle, Save,
              SaveQueued, SaveWaits
        <4>4. QED
          BY <4>1, <4>2, <4>3
      <3>2. CASE Retiring
        <4>1. CASE SendFill \/ Filled
          BY <2>2, <4>1 DEF SendFill, Filled, Control, Retired, Sealed
        <4>2. CASE ~(SendFill \/ Filled)
          BY <1>2, <2>1, <3>2, <4>2
          DEF Retiring, BeginClose, EndLastCommands, Retire, CloseFlush, CloseFlushed, Seal,
              NothingToSeal, NothingToFill, ReserveClosing, NothingToReserve, CheckClosing,
              SendClosing, DropSender, Join, Joined
        <4>3. QED
          BY <4>1, <4>2
      <3>3. QED
        BY <3>1, <3>2
    <2>6. QED
      BY <1>1, <1>4, <2>2, <2>3, <2>4, <2>5 DEF Clean
  <1>5. QED
    BY <1>3, <1>4

(* What is sent behind the request of a clean artwork may follow it.       *)
LEMMA OwnerKeepsCovered ==
  ASSUME TypeOK, Control, Edits, Closed, Generations, Generations', Covered, Rendering \/ Retiring
  PROVE  Covered'
  <1>1. UNCHANGED <<at, on, durable, png, receipt>> /\ Lost' = Lost
    BY OwnerLeaves DEF Lost
  <1>2. SUFFICES ASSUME Clean'
                 PROVE  /\ \A i \in DOMAIN channel' :
                             IsExport(channel'[i]) /\ channel'[i].n = latest' =>
                               backlog' = <<>> /\ \A j \in DOMAIN channel' : j > i => Later(channel[j])'
                        /\ at \in Exporting /\ on.n = latest' => backlog' = <<>> /\ AllLater'
                        /\ export'.stage = "current" =>
                             /\ backlog' = <<>> /\ AllLater'
                             /\ at # "stroke" /\ (retired' => at # "edit")
                             /\ png = Len(durable)
    BY <1>1 DEF Covered, IsExport
  <1>3. at = "gone" => pc \in {"join", "joined"}
    <2>1. ~Lost
      BY <1>1, <1>2 DEF Clean
    <2>2. QED
      BY <2>1, FailureIsFinal DEF Next
  <1>4. channel \in Seq(Requests) /\ latest \in Nat /\ saving \in {0, latest}
    BY DEF TypeOK, Generations
  <1>5. Unflushed => /\ \A i \in DOMAIN channel : IsExport(channel[i]) => channel[i].n # latest
                     /\ at \in Exporting => on.n # latest
                     /\ export.stage # "current"
    BY DEF Generations
  <1>6. CASE FlushSave \/ SendClosing
    <2>1. pc \notin {"join", "joined"} /\ at # "gone" /\ ~Lost
      BY <1>1, <1>2, <1>3, <1>6 DEF FlushSave, SendClosing, Clean
    <2>2. backlog = <<>> /\ Unflushed
      BY <1>6, <2>1 DEF FlushSave, CanFlushSave, SendClosing, Closed, Sealed, Unflushed, Generations
    <2>3. /\ UNCHANGED <<backlog, latest, export>>
          /\ \E k \in {"export", "closing_export"} : channel' = Append(channel, Request(k, saving))
      <3>1. CASE FlushSave
        BY Zenon, <2>1, <3>1 DEF FlushSave, ReceiverGone
      <3>2. CASE SendClosing
        BY Zenon, <2>1, <3>2 DEF SendClosing, ReceiverGone
      <3>3. QED
        BY <1>6, <3>1, <3>2
    <2>4. PICK k \in {"export", "closing_export"} : channel' = Append(channel, Request(k, saving))
      BY <2>3
    <2> DEFINE r == Request(k, saving)
    <2>5. channel' = Append(channel, r)
      BY <2>4
    <2> HIDE DEF r
    <2>6. /\ DOMAIN channel' = DOMAIN channel \cup {Len(channel) + 1}
          /\ \A i \in DOMAIN channel : channel'[i] = channel[i] /\ i \in Nat /\ i <= Len(channel)
      BY <1>4, <2>5
    <2>7. \A i \in DOMAIN channel' :
            IsExport(channel'[i]) /\ channel'[i].n = latest' => i = Len(channel) + 1
      BY <1>5, <2>2, <2>3, <2>6
    <2>8. \A i, j \in DOMAIN channel' : i = Len(channel) + 1 => ~(j > i)
      BY <1>4, <2>6
    <2>9. QED
      BY <1>5, <2>2, <2>3, <2>7, <2>8
  <1>7. CASE ~(FlushSave \/ SendClosing)
    <2>1. Clean /\ (retired' <=> retired)
      BY <1>2, <1>7, OwnerCleans
    <2>2. /\ \A i \in DOMAIN channel : IsExport(channel[i]) /\ channel[i].n = latest =>
               backlog = <<>> /\ \A j \in DOMAIN channel : j > i => Later(channel[j])
          /\ at \in Exporting /\ on.n = latest => backlog = <<>> /\ AllLater
          /\ export.stage = "current" =>
               /\ backlog = <<>> /\ AllLater
               /\ at # "stroke" /\ (retired => at # "edit")
               /\ png = Len(durable)
      BY <2>1 DEF Covered
    <2>3. CASE Unflushed'
      <3>1. /\ \A i \in DOMAIN channel' : IsExport(channel'[i]) => channel'[i].n # latest'
            /\ at \in Exporting => on.n # latest'
            /\ export'.stage # "current"
        BY <1>1, <2>3 DEF Generations, IsExport
      <3>2. QED
        BY <3>1
    <2>4. CASE ~Unflushed'
      <3>1. SavesNothing
        <4>1. Reserves => Unflushed'
          BY <1>4 DEF Reserves, Unflushed
        <4>2. ~SendsExport
          BY <1>7
          DEF SendsExport, Unflushed, Rendering, Drain, Draining, Commanding, Adopt, Poll,
              StartDrain, FlushOne, FlushDone, BeginStroke, BeginRefused, CancelStroke, EndGesture,
              EndStroke, StopInput, Sync, EndCommands, Settle, RequestEdit, Save, SaveQueued,
              SaveWaits, Retiring, BeginClose, EndLastCommands, Retire, CloseFlush, CloseFlushed,
              Seal, NothingToSeal, SendFill, NothingToFill, Filled, ReserveClosing,
              NothingToReserve, CheckClosing, DropSender, Join, Joined
        <4>3. QED
          BY <2>4, <4>1, <4>2, OwnerSaves
      <3>2. latest' = latest /\ (export'.stage = "current" => export.stage = "current")
        <4>1. export \in Statuses /\ export.generation = latest
          BY DEF TypeOK, Generations
        <4>2. CASE export' \in {export, Abandoned}
          BY <3>1, <4>1, <4>2, AbandonedOf DEF SavesNothing
        <4>3. ASSUME saving # 0, NEW s \in {"queued", "failed"}, export' = Published(Status(s, saving))
              PROVE  export'.stage = "current" => export.stage = "current"
          <5>1. saving = latest /\ s \in Stages
            BY <1>4, <4>3 DEF Stages
          <5>2. export' \in {export, Status(s, latest)}
            BY <1>4, <4>1, <4>3, <5>1, StatusOf
          <5>3. QED
            BY <4>3, <5>2 DEF Status
        <4>4. QED
          BY <3>1, <4>2, <4>3 DEF SavesNothing
      <3>3. \/ UNCHANGED <<channel, backlog>>
            \/ /\ ~retired /\ UNCHANGED backlog
               /\ channel' = Append(channel, Request("edit", Edit))
            \/ /\ backlog # <<>>
               /\ channel' = Append(channel, Request("stroke", Head(backlog)))
        <4>1. CASE FlushOne
          BY <4>1 DEF FlushOne
        <4>2. CASE RequestEdit
          BY <4>2 DEF RequestEdit, Commanding, Control, Retired, Sealed, Sent
        <4>3. ~(EndStroke \/ CloseFlush \/ Seal \/ SendFill)
          <5>1. retired' => pc' \in Sent
            BY <1>2 DEF Clean
          <5>2. ~retired' => ~Fresh'
            BY <1>2 DEF Clean
          <5>3. ~EndStroke
            BY <2>1, <5>1, <5>2 DEF EndStroke, Draining, Fresh, Control, Retired, Sealed, Sent
          <5>4. ~(CloseFlush \/ Seal \/ SendFill)
            BY <2>1 DEF Clean, CloseFlush, Seal, SendFill, Control, Retired, Sealed, Sent
          <5>5. QED
            BY <5>3, <5>4
        <4>4. CASE ~(FlushOne \/ RequestEdit)
          <5>1. CASE Rendering
            BY <1>7, <4>3, <4>4, <5>1
            DEF Rendering, Drain, Adopt, Poll, StartDrain, FlushDone, BeginStroke, BeginRefused,
                CancelStroke, EndGesture, StopInput, Sync, EndCommands, Settle, Save, SaveQueued,
                SaveWaits
          <5>2. CASE Retiring
            BY <1>7, <4>3, <5>2
            DEF Retiring, BeginClose, EndLastCommands, Retire, CloseFlushed, NothingToSeal,
                NothingToFill, Filled, ReserveClosing, NothingToReserve, CheckClosing, DropSender,
                Join, Joined
          <5>3. QED
            BY <5>1, <5>2
        <4>5. QED
          BY <4>1, <4>2, <4>4
      <3>4. CASE UNCHANGED <<channel, backlog>>
        <4>1. AllLater => AllLater'
          BY <2>1, <3>4 DEF AllLater, Later
        <4>2. \A j \in DOMAIN channel : Later(channel[j]) => Later(channel[j])'
          BY <2>1, <3>4 DEF Later
        <4>3. QED
          BY <2>1, <2>2, <3>2, <3>4, <4>1, <4>2
      <3>5. CASE /\ ~retired /\ UNCHANGED backlog
                 /\ channel' = Append(channel, Request("edit", Edit))
        <4> DEFINE r == Request("edit", Edit)
        <4>1. r.kind = "edit" /\ channel' = Append(channel, r)
          BY <3>5 DEF Request
        <4> HIDE DEF r
        <4>2. /\ DOMAIN channel' = DOMAIN channel \cup {Len(channel) + 1}
              /\ \A i \in DOMAIN channel : channel'[i] = channel[i] /\ i \in Nat /\ i <= Len(channel)
              /\ channel'[Len(channel) + 1] = r
          BY <1>4, <4>1
        <4>3. /\ ~IsExport(r)
              /\ \A j \in DOMAIN channel' :
                   (j \in DOMAIN channel => Later(channel[j])) => Later(channel[j])'
          <5>1. ~IsExport(r)
            BY <4>1 DEF IsExport
          <5>2. ASSUME NEW j \in DOMAIN channel', j \in DOMAIN channel => Later(channel[j])
                PROVE  Later(channel[j])'
            <6>1. CASE j \in DOMAIN channel
              BY <2>1, <4>2, <5>2, <6>1 DEF Later
            <6>2. CASE j \notin DOMAIN channel
              <7>1. channel'[j] = r
                BY <4>2, <6>2
              <7>2. QED
                BY <2>1, <3>5, <4>1, <7>1 DEF Later
            <6>3. QED
              BY <6>1, <6>2
          <5>3. QED
            BY <5>1, <5>2
        <4>4. AllLater => AllLater'
          BY <4>2, <4>3 DEF AllLater
        <4>5. ASSUME NEW i \in DOMAIN channel', IsExport(channel'[i]), channel'[i].n = latest'
              PROVE  backlog' = <<>> /\ \A j \in DOMAIN channel' : j > i => Later(channel[j])'
          <5>1. i \in DOMAIN channel /\ channel'[i] = channel[i]
            BY <4>2, <4>3, <4>5
          <5>2. backlog = <<>> /\ \A j \in DOMAIN channel : j > i => Later(channel[j])
            BY <2>2, <3>2, <4>5, <5>1
          <5>3. ASSUME NEW j \in DOMAIN channel', j > i
                PROVE  Later(channel[j])'
            BY <4>3, <5>2, <5>3
          <5>4. QED
            BY <3>5, <5>2, <5>3
        <4>6. QED
          BY <2>1, <2>2, <3>2, <3>5, <4>4, <4>5
      <3>6. CASE /\ backlog # <<>>
                 /\ channel' = Append(channel, Request("stroke", Head(backlog)))
        <4> DEFINE r == Request("stroke", Head(backlog))
        <4>1. ~IsExport(r) /\ channel' = Append(channel, r)
          BY <3>6 DEF Request, IsExport
        <4> HIDE DEF r
        <4>2. \A i \in DOMAIN channel' :
                IsExport(channel'[i]) => i \in DOMAIN channel /\ channel'[i] = channel[i]
          BY <1>4, <4>1
        <4>3. QED
          BY <2>2, <3>2, <3>6, <4>2
      <3>7. QED
        BY <3>3, <3>4, <3>5, <3>6
    <2>5. QED
      BY <2>3, <2>4
  <1>8. QED
    BY <1>6, <1>7

(* An image under way is reported current only if it is still the latest,  *)
(* and it shows what stood before its request in the FIFO.                 *)
LEMMA WriterKeepsCovered ==
  ASSUME TypeOK, Control, Edits, Generations, Covered, Writing
  PROVE  Covered'
  <1>1. /\ UNCHANGED <<pc, backlog, newly, dirty, closing, retired, latest>>
        /\ at # "edit" => UNCHANGED job
    BY WriterLeaves
  <1>2. SUFFICES ASSUME Clean'
                 PROVE  /\ \A i \in DOMAIN channel' :
                             IsExport(channel'[i]) /\ channel'[i].n = latest =>
                               backlog = <<>> /\ \A j \in DOMAIN channel' : j > i => Later(channel'[j])
                        /\ at' \in Exporting /\ on'.n = latest =>
                             backlog = <<>> /\ \A j \in DOMAIN channel' : Later(channel'[j])
                        /\ export'.stage = "current" =>
                             /\ backlog = <<>> /\ \A j \in DOMAIN channel' : Later(channel'[j])
                             /\ at' # "stroke" /\ (retired => at' # "edit")
                             /\ png' = Len(durable')
    BY <1>1 DEF Covered, AllLater, Later, IsExport
  <1>3. Clean /\ ~Lost'
    <2>1. ~Lost' /\ ~error'
      BY <1>2 DEF Clean
    <2>2. ~Lost
      BY <2>1, FailureIsFinal DEF Next
    <2>3. ~error
      BY <2>1, ErrorsStay DEF Next
    <2>4. at = "edit" => job.state = "queued"
      BY DEF Edits
    <2>5. Fresh' <=> Fresh
      BY <1>1 DEF Fresh
    <2>6. CASE retired
      BY <1>1, <1>2, <2>1, <2>2, <2>3, <2>6 DEF Clean
    <2>7. CASE ~retired
      BY <1>1, <1>2, <2>1, <2>2, <2>3, <2>4, <2>5, <2>7 DEF Clean
    <2>8. QED
      BY <2>1, <2>6, <2>7
  <1>4. /\ \A i \in DOMAIN channel : IsExport(channel[i]) /\ channel[i].n = latest =>
             backlog = <<>> /\ \A j \in DOMAIN channel : j > i => Later(channel[j])
        /\ at \in Exporting /\ on.n = latest =>
             backlog = <<>> /\ \A j \in DOMAIN channel : Later(channel[j])
        /\ export.stage = "current" =>
             /\ backlog = <<>> /\ \A j \in DOMAIN channel : Later(channel[j])
             /\ at # "stroke" /\ (retired => at # "edit")
             /\ png = Len(durable)
    BY <1>3 DEF Covered, AllLater
  <1>5. channel \in Seq(Requests) /\ export \in Statuses /\ latest \in Nat /\ on.n \in Nat
        /\ export.generation = latest
    BY TakenTyped DEF TypeOK, Generations
  <1>6. CASE Receive
    <2>1. /\ channel # <<>> /\ channel' = Tail(channel) /\ on' = Head(channel)
          /\ at' = IF Head(channel).kind = "closing_export" THEN "export" ELSE Head(channel).kind
          /\ UNCHANGED <<export, png, durable>>
      BY <1>6 DEF Receive
    <2>2. /\ 1 \in DOMAIN channel /\ Head(channel) = channel[1]
          /\ \A i \in DOMAIN channel' : /\ i + 1 \in DOMAIN channel /\ channel'[i] = channel[i + 1]
                                        /\ i \in Nat /\ i + 1 > 1
      BY <1>5, <2>1
    <2>3. Head(channel).kind \in Kinds
      BY <2>1, TakenTyped DEF Requests
    <2>4. at' \in Exporting => IsExport(channel[1])
      BY <2>1, <2>2, <2>3 DEF Kinds, Exporting, IsExport
    <2>5. ASSUME \A j \in DOMAIN channel : Later(channel[j])
          PROVE  /\ \A j \in DOMAIN channel' : Later(channel'[j])
                 /\ at' # "stroke" /\ (retired => at' # "edit")
      <3>1. Later(channel[1])
        BY <2>2, <2>5
      <3>2. QED
        BY <2>1, <2>2, <2>3, <2>5, <3>1 DEF Later, Kinds
    <2>6. ASSUME NEW i \in DOMAIN channel', IsExport(channel'[i]), channel'[i].n = latest
          PROVE  backlog = <<>> /\ \A j \in DOMAIN channel' : j > i => Later(channel'[j])
      <3>1. backlog = <<>> /\ \A j \in DOMAIN channel : j > i + 1 => Later(channel[j])
        BY <1>4, <2>2, <2>6
      <3>2. QED
        BY <2>2, <3>1
    <2>7. ASSUME at' \in Exporting, on'.n = latest
          PROVE  backlog = <<>> /\ \A j \in DOMAIN channel' : Later(channel'[j])
      <3>1. backlog = <<>> /\ \A j \in DOMAIN channel : j > 1 => Later(channel[j])
        BY <1>4, <2>1, <2>2, <2>4, <2>7
      <3>2. QED
        BY <2>2, <3>1
    <2>8. QED
      BY <1>4, <2>1, <2>5, <2>6, <2>7
  <1>7. CASE ~Receive
    <2>1. channel' = channel \/ channel' = <<>>
      BY <1>7
      DEF Writing, HangUp, CommitStroke, StrokeFails, Publish, PublishFull, SettleStroke,
          EditCommits, EditRejected, EditFails, StartExport, ReplaceImage, ExportFails,
          ReportImage, Finish, Vanish
    <2>2. /\ at' \in Exporting => at \in Exporting /\ on' = on
          /\ at' \notin {"stroke", "edit"} \/ at' = at
      BY <1>7
      DEF Exporting, Writing, HangUp, CommitStroke, StrokeFails, Publish, PublishFull, SettleStroke,
          EditCommits, EditRejected, EditFails, StartExport, ReplaceImage, ExportFails,
          ReportImage, Finish, Vanish
    <2>3. /\ \A i \in DOMAIN channel' :
               IsExport(channel'[i]) /\ channel'[i].n = latest =>
                 backlog = <<>> /\ \A j \in DOMAIN channel' : j > i => Later(channel'[j])
          /\ at' \in Exporting /\ on'.n = latest =>
               backlog = <<>> /\ \A j \in DOMAIN channel' : Later(channel'[j])
      BY <1>4, <2>1, <2>2
    <2>4. ASSUME export'.stage = "current"
          PROVE  /\ backlog = <<>> /\ \A j \in DOMAIN channel' : Later(channel'[j])
                 /\ at' # "stroke" /\ (retired => at' # "edit")
                 /\ png' = Len(durable')
      <3>1. CASE StartExport
        <4>1. at = "export" /\ at' \notin {"stroke", "edit"} /\ UNCHANGED <<png, durable, channel>>
          BY <3>1 DEF StartExport
        <4>2. CASE export' = export
          BY <1>4, <2>4, <4>1, <4>2
        <4>3. CASE export' # export
          <5>1. /\ on.n = latest
                /\ \/ export' = Published(Status("running", on.n))
                   \/ export' = Published(Status("current", on.n)) /\ receipt = Len(durable)
            BY <3>1, <4>3 DEF StartExport
          <5>2. Published(Status("running", on.n)) \in {export, Status("running", latest)}
            BY <1>5, <5>1, StatusOf DEF Stages
          <5>3. export' # Published(Status("running", on.n))
            BY <2>4, <4>3, <5>2 DEF Status
          <5>4. png = Len(durable)
            <6>1. receipt = Len(durable) /\ receipt <= png /\ png <= Len(durable)
              BY <5>1, <5>3 DEF Generations
            <6>2. QED
              BY <6>1 DEF TypeOK
          <5>5. QED
            BY <1>4, <4>1, <5>1, <5>4 DEF Exporting
        <4>4. QED
          BY <4>2, <4>3
      <3>2. CASE ExportFails
        <4>1. at = "encoding" /\ at' = "idle" /\ UNCHANGED <<png, durable, channel>>
              /\ export' = Published(Status("failed", on.n))
          BY <3>2 DEF ExportFails
        <4>2. export' = export
          <5>1. on.n <= latest
            BY <1>5, <4>1 DEF Generations, Exporting
          <5>2. CASE on.n = latest
            <6>1. export' = Status("failed", latest) /\ Status("failed", latest).stage = "failed"
              BY <1>5, <4>1, <5>2, StatusOf DEF Stages
            <6>2. QED
              BY <2>4, <6>1
          <5>3. CASE on.n # latest
            BY <1>5, <4>1, <5>1, <5>3, StatusOf DEF Stages
          <5>4. QED
            BY <5>2, <5>3
        <4>3. QED
          BY <1>4, <2>4, <4>1, <4>2
      <3>3. CASE ReportImage
        <4>1. at = "replaced" /\ at' = "idle" /\ UNCHANGED <<png, durable, channel>>
              /\ export' = Published(Status("current", on.n))
          BY <3>3 DEF ReportImage
        <4>2. CASE on.n = latest
          BY <1>4, <4>1, <4>2 DEF Generations, Exporting
        <4>3. CASE on.n # latest
          <5>1. on.n < latest
            BY <1>5, <4>1, <4>3 DEF Generations, Exporting
          <5>2. export' = export
            BY <1>5, <4>1, <5>1, StatusOf DEF Stages
          <5>3. QED
            BY <1>4, <2>4, <4>1, <5>2
        <4>4. QED
          BY <4>2, <4>3
      <3>4. CASE ~(StartExport \/ ExportFails \/ ReportImage)
        <4>1. export.stage = "current"
          <5>1. CASE Finish
            BY <2>4, <5>1, <1>5, AbandonedOf DEF Finish
          <5>2. CASE ~Finish
            BY <1>7, <2>4, <3>4, <5>2
            DEF Writing, HangUp, CommitStroke, StrokeFails, Publish, PublishFull, SettleStroke,
                EditCommits, EditRejected, EditFails, ReplaceImage, Vanish
          <5>3. QED
            BY <5>1, <5>2
        <4>2. png' = Len(durable')
          <5>1. CASE CommitStroke \/ StrokeFails
            BY <1>4, <4>1, <5>1 DEF CommitStroke, StrokeFails
          <5>2. CASE EditCommits \/ EditFails
            <6>1. at = "edit" /\ job'.state \in {"done", "fatal"}
              <7>1. at = "edit" /\ job' \in {Job("done", durable'), Job("fatal", <<>>)}
                BY <5>2 DEF EditCommits, EditFails
              <7>2. Job("done", durable').state = "done" /\ Job("fatal", <<>>).state = "fatal"
                BY DEF Job
              <7>3. QED
                BY <7>1, <7>2
            <6>2. ~retired
              BY <1>4, <4>1, <6>1
            <6>3. QED
              BY <1>1, <1>2, <6>1, <6>2 DEF Clean
          <5>3. CASE ReplaceImage
            BY <1>4, <4>1, <5>3 DEF ReplaceImage
          <5>4. CASE ~(CommitStroke \/ StrokeFails \/ EditCommits \/ EditFails \/ ReplaceImage)
            BY <1>4, <1>7, <3>4, <4>1, <5>4
            DEF Writing, HangUp, Publish, PublishFull, SettleStroke, EditRejected, Finish, Vanish
          <5>5. QED
            BY <5>1, <5>2, <5>3, <5>4
        <4>3. QED
          BY <1>4, <2>1, <2>2, <4>1, <4>2
      <3>5. QED
        BY <3>1, <3>2, <3>3, <3>4
    <2>5. QED
      BY <2>3, <2>4
  <1>8. QED
    BY <1>6, <1>7

(* So an artwork that is not dirty is the one in the image.                *)
LEMMA CoveredIsExported ==
  ASSUME TypeOK, Control, Lines, Covered
  PROVE  CleanMeansExported
  <1>1. SUFFICES ASSUME pc = "adopt", ~dirty, ~error, job = NoJob,
                        export = Status("current", latest)
                 PROVE  Carries(durable, 0, closed) /\ png = Len(durable)
    BY DEF CleanMeansExported
  <1>2. ~retired /\ job.state = "none" /\ export.stage = "current"
    BY <1>1 DEF Control, Retired, Sealed, Sent, NoJob, Status
  <1>3. ~Lost
    BY <1>1, <1>2 DEF Control
  <1>4. Clean
    BY <1>1, <1>2, <1>3 DEF Clean, Fresh
  <1>5. backlog = <<>> /\ AllLater /\ at # "stroke" /\ png = Len(durable)
    BY <1>2, <1>4 DEF Covered
  <1>6. Strokeless
    BY <1>5 DEF AllLater, Later, Strokeless
  <1>7. QED
    BY <1>3, <1>5, <1>6, NothingOnItsWay

-----------------------------------------------------------------------------
(* A healthy close *)

(* While nothing has failed since a close found no error, there is none;   *)
(* and the image of the close is asked for, under way or reported.         *)
Wanted ==
  \/ \E i \in DOMAIN channel : IsExport(channel[i]) /\ channel[i].n = latest
  \/ at \in Exporting /\ on.n = latest
  \/ export.stage = "current"
Healthy ==
  /\ retired /\ healthy => ~error /\ ~Lost
  /\ job.state = "fatal" => ~healthy
  /\ Lost /\ healthy => error
  /\ pc \in Sent /\ closing /\ healthy => Wanted

(* A close has no step of its own that fails: its drain defers no more     *)
(* than it reads, its sends find the writer, its edit is answered, and the *)
(* writer it joins has settled everything.                                 *)
LEMMA CloseMeetsNoError ==
  ASSUME TypeOK, Control, Edits, Closed, Lines, Healthy, Rendering \/ Retiring,
         retired, healthy'
  PROVE  healthy /\ ~error'
  <1>1. healthy
    BY ErrorsStay DEF Next
  <1>2. SUFFICES ~error'
    BY <1>1
  <1>3. ~error /\ ~Lost /\ job.state # "fatal" /\ pc \in Retired
    BY <1>1 DEF Healthy, Control
  <1>4. at = "gone" => pc \in {"join", "joined"}
    BY <1>3, FailureIsFinal DEF Next
  <1>5. CASE BeginRefused
    <2>1. pc = "close_input" /\ taken < Backlog /\ Len(backlog) >= Backlog
      BY <1>3, <1>5 DEF BeginRefused, Draining, Retired, Sealed, Sent
    <2>2. Len(backlog) <= taken /\ Len(backlog) \in Nat /\ taken \in Nat /\ Backlog \in Nat
      BY <1>3, <2>1, WriterAssumption DEF Closed, TypeOK
    <2>3. QED
      BY <2>1, <2>2
  <1>6. CASE Seal
    <2>1. at # "gone"
      BY <1>4, <1>6 DEF Seal
    <2>2. QED
      BY <1>3, <1>6, <2>1 DEF Seal, SealActive, SealRefused, ReceiverGone
  <1>7. CASE SendFill
    <2>1. at # "gone"
      BY <1>4, <1>7 DEF SendFill
    <2>2. QED
      BY <1>3, <1>7, <2>1 DEF SendFill, ReceiverGone
  <1>8. CASE Filled
    <2>1. /\ at # "gone" /\ job # NoJob /\ job.state # "queued" /\ job.state # "rejected"
          /\ error' = (error \/ job.state # "done")
      BY <1>1, <1>4, <1>8 DEF Filled, ReceiverGone, Edits
    <2>2. job.state # "none"
      BY <2>1 DEF Edits
    <2>3. job.state \in {"none", "queued", "done", "rejected", "fatal"}
      BY DEF TypeOK, Jobs
    <2>4. QED
      BY <1>3, <2>1, <2>2, <2>3
  <1>9. CASE Join
    <2>1. at = "gone" /\ pc = "join" /\ error' = (error \/ exit # "drained" \/ pending # 0)
      BY <1>9 DEF Join
    <2>2. exit = "drained" /\ channel = <<>>
      BY <1>3, <2>1 DEF Control, Ended, Lost
    <2>3. backlog = <<>> /\ Strokeless
      BY <1>3, <2>1, <2>2 DEF Closed, Sealed, Sent, Strokeless
    <2>4. pending = 0
      BY <1>3, <2>1, <2>3, NothingOnItsWay DEF Settling
    <2>5. QED
      BY <1>3, <2>1, <2>2, <2>4
  <1>10. CASE ~(BeginRefused \/ Seal \/ SendFill \/ Filled \/ Join)
    <2>1. CASE Rendering
      <3>1. ~Poll
        BY <1>3 DEF Poll, Retired, Sealed, Sent
      <3>2. error' = error
        BY <1>10, <2>1, <3>1
        DEF Rendering, Drain, Adopt, StartDrain, FlushOne, FlushDone, BeginStroke,
            CancelStroke, EndGesture, EndStroke, StopInput, Sync, EndCommands, Settle,
            RequestEdit, Save, FlushSave, SaveQueued, SaveWaits
      <3>3. QED
        BY <1>3, <3>2
    <2>2. CASE Retiring
      BY <1>3, <1>10, <2>2
      DEF Retiring, BeginClose, EndLastCommands, Retire, CloseFlush, CloseFlushed,
          NothingToSeal, NothingToFill, ReserveClosing, NothingToReserve, CheckClosing,
          SendClosing, DropSender, Joined
    <2>3. QED
      BY <2>1, <2>2
  <1>11. QED
    BY <1>5, <1>6, <1>7, <1>8, <1>9, <1>10

(* The owner finds no error of its own, and asks for the last image.       *)
LEMMA OwnerKeepsHealthy ==
  ASSUME TypeOK, Control, Edits, Closed, Lines, Generations, Healthy, Rendering \/ Retiring
  PROVE  Healthy'
  <1>1. /\ UNCHANGED <<at, on>> /\ (Lost' <=> Lost)
        /\ (error => error') /\ (healthy' => healthy)
    BY OwnerLeaves, ErrorsStay DEF Lost, Next
  <1>2. job'.state = "fatal" => job.state = "fatal"
    <2>1. CASE Poll
      BY <2>1 DEF Poll, PollDone, PollRejected, PollFatal, PollNothing, NoJob
    <2>2. CASE RequestEdit \/ SendFill \/ Filled
      BY <2>2 DEF RequestEdit, SendFill, Filled, Job, NoJob
    <2>3. CASE ~(Poll \/ RequestEdit \/ SendFill \/ Filled)
      <3>1. job' = job
        <4>1. CASE Rendering
          BY <2>3, <4>1
          DEF Rendering, Drain, Adopt, StartDrain, FlushOne, FlushDone, BeginStroke, BeginRefused,
              CancelStroke, EndGesture, EndStroke, StopInput, Sync, EndCommands, Settle, Save,
              FlushSave, SaveQueued, SaveWaits
        <4>2. CASE Retiring
          BY <2>3, <4>2
          DEF Retiring, BeginClose, EndLastCommands, Retire, CloseFlush, CloseFlushed, Seal,
              NothingToSeal, NothingToFill, ReserveClosing, NothingToReserve, CheckClosing,
              SendClosing, DropSender, Join, Joined
        <4>3. QED
          BY <4>1, <4>2
      <3>2. QED
        BY <3>1
    <2>4. QED
      BY <2>1, <2>2, <2>3
  <1>3. retired' /\ healthy' => ~error' /\ ~Lost'
    <2>1. CASE retired
      BY <1>1, <2>1, CloseMeetsNoError DEF Healthy
    <2>2. CASE Retire
      <3>1. error' = error /\ healthy' = (healthy /\ ~error)
        BY <2>2 DEF Retire
      <3>2. QED
        BY <1>1, <3>1 DEF Healthy
    <2>3. CASE ~retired /\ ~Retire
      <3>1. ~retired'
        <4>1. CASE Rendering
          BY <2>3, <4>1
          DEF Rendering, Drain, Adopt, Poll, StartDrain, FlushOne, FlushDone, BeginStroke,
              BeginRefused, CancelStroke, EndGesture, EndStroke, StopInput, Sync, EndCommands,
              Settle, RequestEdit, Save, FlushSave, SaveQueued, SaveWaits
        <4>2. CASE Retiring
          BY <2>3, <4>2
          DEF Retiring, BeginClose, EndLastCommands, CloseFlush, CloseFlushed, Seal,
              NothingToSeal, SendFill, NothingToFill, Filled, ReserveClosing, NothingToReserve,
              CheckClosing, SendClosing, DropSender, Join, Joined
        <4>3. QED
          BY <4>1, <4>2
      <3>2. QED
        BY <3>1
    <2>4. QED
      BY <2>1, <2>2, <2>3
  <1>4. ASSUME pc' \in Sent, closing', healthy'
        PROVE  Wanted'
    <2>1. healthy
      BY <1>1, <1>4
    <2>2. CASE SendClosing
      <3>1. pc = "send" /\ retired
        BY <2>2 DEF SendClosing, Control, Retired, Sealed
      <3>2. ~Lost
        BY <2>1, <3>1 DEF Healthy
      <3>3. at # "gone"
        BY <3>1, <3>2, FailureIsFinal DEF Next
      <3>4. channel' = Append(channel, Request("closing_export", saving)) /\ latest' = latest
        BY Zenon, <2>2, <3>3 DEF SendClosing, ReceiverGone
      <3>5. saving = latest
        BY <3>1 DEF Generations
      <3> DEFINE r == Request("closing_export", saving)
      <3>6. r.kind = "closing_export" /\ r.n = latest /\ channel' = Append(channel, r)
        BY <3>4, <3>5 DEF Request
      <3> HIDE DEF r
      <3>7. Len(channel) + 1 \in DOMAIN channel' /\ channel'[Len(channel) + 1] = r
        BY <3>6 DEF TypeOK
      <3>8. QED
        BY <3>4, <3>6, <3>7 DEF Wanted, IsExport
    <2>3. CASE ~SendClosing
      <3>1. pc \in Sent /\ closing /\ UNCHANGED <<channel, latest>>
            /\ (export' = export \/ SaveQueued)
        <4>1. CASE Rendering
          BY <1>4, <4>1
          DEF Sent, Rendering, Drain, Draining, Commanding, Adopt, Poll, StartDrain, FlushOne,
              FlushDone, BeginStroke, BeginRefused, CancelStroke, EndGesture, EndStroke, StopInput,
              Sync, EndCommands, Settle, RequestEdit, Save, FlushSave, SaveQueued, SaveWaits
        <4>2. CASE Retiring
          <5>1. ~CheckClosing
            <6>1. SUFFICES ASSUME CheckClosing PROVE FALSE
              OBVIOUS
            <6>2. pc = "check" /\ error
              BY <1>4, <6>1 DEF CheckClosing, Sent
            <6>3. retired
              BY <6>2 DEF Control, Retired, Sealed
            <6>4. QED
              BY <2>1, <6>2, <6>3 DEF Healthy
          <5>2. QED
            BY <1>4, <2>3, <4>2, <5>1
            DEF Sent, Retiring, BeginClose, EndLastCommands, Retire, CloseFlush, CloseFlushed,
                Seal, NothingToSeal, SendFill, NothingToFill, Filled, ReserveClosing,
                NothingToReserve, DropSender, Join, Joined
        <4>3. QED
          BY <4>1, <4>2
      <3>2. export.stage = "current" => export'.stage = "current"
        <4>1. CASE SaveQueued
          <5>1. saving = latest /\ export' = Published(Status("queued", saving))
            BY <4>1 DEF SaveQueued, Generations
          <5>2. export \in Statuses /\ latest \in Nat /\ export.generation = latest
            BY DEF TypeOK, Generations
          <5>3. QED
            BY <5>1, <5>2, StatusOf DEF Stages
        <4>2. QED
          BY <3>1, <4>1
      <3>3. Wanted
        BY <2>1, <3>1 DEF Healthy
      <3>4. QED
        BY <1>1, <3>1, <3>2, <3>3 DEF Wanted, IsExport
    <2>4. QED
      BY <2>2, <2>3
  <1>5. QED
    BY <1>1, <1>2, <1>3, <1>4 DEF Healthy

(* A failure of the writer is seen, and the image asked for is made.       *)
LEMMA WriterKeepsHealthy ==
  ASSUME TypeOK, Control, Edits, Generations, Healthy, Writing
  PROVE  Healthy'
  <1>1. /\ UNCHANGED <<pc, closing, retired, latest>> /\ (error => error') /\ (healthy' => healthy)
        /\ (at # "edit" => UNCHANGED job) /\ (Lost => Lost')
    BY WriterLeaves, ErrorsStay, FailureIsFinal DEF Next
  <1>2. healthy' => ~(StrokeFails \/ EditFails \/ ExportFails)
    BY DEF StrokeFails, EditFails, ExportFails
  <1>3. job'.state = "fatal" => ~healthy'
    <2>1. CASE EditCommits \/ EditRejected
      BY <2>1 DEF EditCommits, EditRejected, Job
    <2>2. CASE EditFails
      BY <1>2, <2>2
    <2>3. CASE ~(EditCommits \/ EditRejected \/ EditFails)
      <3>1. job' = job
        BY <2>3
        DEF Writing, Receive, HangUp, CommitStroke, StrokeFails, Publish, PublishFull,
            SettleStroke, StartExport, ReplaceImage, ExportFails, ReportImage, Finish, Vanish
      <3>2. QED
        BY <1>1, <3>1 DEF Healthy
    <2>4. QED
      BY <2>1, <2>2, <2>3
  <1>4. /\ Lost' /\ healthy' => error'
        /\ retired' /\ healthy' => ~error' /\ ~Lost'
    <2>1. CASE PublishFull
      <3>1. CASE retired
        BY <1>1, <2>1, <3>1 DEF PublishFull, Healthy, Lost
      <3>2. CASE ~retired
        BY <1>1, <2>1, <3>2 DEF PublishFull
      <3>3. QED
        BY <3>1, <3>2
    <2>2. CASE StrokeFails \/ EditFails
      BY <1>2, <2>2
    <2>3. CASE ~(PublishFull \/ StrokeFails \/ EditFails)
      <3>1. error' = error /\ (Lost' => Lost)
        BY <2>3
        DEF Lost, Writing, Receive, HangUp, CommitStroke, Publish, SettleStroke, EditCommits,
            EditRejected, StartExport, ReplaceImage, ExportFails, ReportImage, Finish, Vanish
      <3>2. QED
        BY <1>1, <3>1 DEF Healthy
    <2>4. QED
      BY <2>1, <2>2, <2>3
  <1>5. ASSUME pc' \in Sent, closing', healthy'
        PROVE  Wanted'
    <2>1. Wanted /\ ~Lost /\ ~Lost'
      <3>1. retired
        BY <1>1, <1>5 DEF Control, Retired, Sealed
      <3>2. QED
        BY <1>1, <1>4, <1>5, <3>1 DEF Healthy
    <2>2. CASE Receive
      <3>1. /\ channel # <<>> /\ channel' = Tail(channel) /\ on' = Head(channel)
            /\ at = "idle" /\ channel \in Seq(Requests)
            /\ at' = IF Head(channel).kind = "closing_export" THEN "export" ELSE Head(channel).kind
            /\ export' = export
        BY <2>2 DEF Receive, TypeOK
      <3>2. CASE export.stage = "current"
        BY <3>1, <3>2 DEF Wanted
      <3>3. CASE export.stage # "current"
        <4>1. PICK i \in DOMAIN channel : IsExport(channel[i]) /\ channel[i].n = latest
          BY <2>1, <3>1, <3>3 DEF Wanted, Exporting
        <4>2. CASE i = 1
          <5>1. on' = channel[1] /\ IsExport(on') /\ on'.n = latest'
            BY <1>1, <3>1, <4>1, <4>2
          <5>2. at' = "export"
            BY <3>1, <5>1 DEF IsExport
          <5>3. QED
            BY <5>1, <5>2 DEF Wanted, Exporting
        <4>3. CASE i # 1
          <5>1. i - 1 \in DOMAIN channel' /\ channel'[i - 1] = channel[i]
            BY <3>1, <4>1, <4>3
          <5>2. QED
            BY <1>1, <4>1, <5>1 DEF Wanted, IsExport
        <4>4. QED
          BY <4>2, <4>3
      <3>4. QED
        BY <3>2, <3>3
    <2>3. CASE ~Receive
      <3>1. channel' = channel
        <4>1. CASE Vanish
          <5>1. at = "finished" /\ channel' = <<>>
            BY <4>1 DEF Vanish
          <5>2. exit = "drained"
            BY <2>1, <5>1 DEF Lost, Control, Ended
          <5>3. QED
            BY <5>1, <5>2 DEF Control
        <4>2. CASE ~Vanish
          BY <2>3, <4>2
          DEF Writing, HangUp, CommitStroke, StrokeFails, Publish, PublishFull,
              SettleStroke, EditCommits, EditRejected, EditFails, StartExport, ReplaceImage,
              ExportFails, ReportImage, Finish
        <4>3. QED
          BY <4>1, <4>2
      <3>2. /\ export \in Statuses /\ latest \in Nat /\ on.n \in Nat /\ export.generation = latest
            /\ at \in Exporting => on.n \in 1..latest
        BY TakenTyped DEF TypeOK, Generations
      <3>3. export.stage = "current" => export'.stage = "current"
        <4>1. CASE StartExport \/ ReportImage
          <5>1. at \in Exporting
            BY <4>1 DEF StartExport, ReportImage, Exporting
          <5>2. \/ export' = export
                \/ \E s \in {"running", "current"} : export' = Published(Status(s, on.n))
            BY <4>1 DEF StartExport, ReportImage
          <5>3. ASSUME NEW s \in {"running", "current"}, export' = Published(Status(s, on.n)),
                       export.stage = "current"
                PROVE  export'.stage = "current"
            <6>1. s \in Stages
              BY DEF Stages
            <6>2. CASE on.n < latest
              BY <3>2, <5>3, <6>1, <6>2, StatusOf
            <6>3. CASE on.n = latest
              BY <3>2, <5>3, <6>1, <6>3, StatusOf
            <6>4. QED
              BY <3>2, <5>1, <6>2, <6>3
          <5>4. QED
            BY <5>2, <5>3
        <4>2. CASE ~(StartExport \/ ReportImage)
          BY <1>2, <1>5, <2>1, <2>3, <4>2
          DEF Lost, Writing, HangUp, CommitStroke, StrokeFails, Publish, PublishFull,
              SettleStroke, EditCommits, EditRejected, EditFails, ReplaceImage, ExportFails,
              Finish, Vanish
        <4>3. QED
          BY <4>1, <4>2
      <3>4. ASSUME at \in Exporting, on.n = latest
            PROVE  \/ at' \in Exporting /\ on' = on
                   \/ export'.stage = "current"
        <4>1. CASE StartExport
          <5>1. \/ at' = "encoding" /\ on' = on
                \/ export' = Published(Status("current", latest))
            BY <3>4, <4>1 DEF StartExport
          <5>2. QED
            BY <3>2, <5>1, StatusOf DEF Exporting, Stages
        <4>2. CASE ReplaceImage
          BY <3>4, <4>2 DEF ReplaceImage, Exporting
        <4>3. CASE ReportImage
          <5>1. export' = Published(Status("current", latest))
            BY <3>4, <4>3 DEF ReportImage
          <5>2. QED
            BY <3>2, <5>1, StatusOf DEF Stages
        <4>4. CASE ~(StartExport \/ ReplaceImage \/ ReportImage)
          BY <1>2, <1>5, <2>3, <3>4, <4>4
          DEF Exporting, Writing, HangUp, CommitStroke, StrokeFails, Publish, PublishFull,
              SettleStroke, EditCommits, EditRejected, EditFails, ExportFails, Finish, Vanish
        <4>5. QED
          BY <4>1, <4>2, <4>3, <4>4
      <3>5. QED
        BY <1>1, <2>1, <3>1, <3>3, <3>4 DEF Wanted, IsExport
    <2>4. QED
      BY <2>2, <2>3
  <1>6. QED
    BY <1>1, <1>3, <1>4, <1>5 DEF Healthy

(* What a joined close has done                                            *)
LEMMA JoinedLosesNothing ==
  ASSUME TypeOK, Control, Closed, Lines, Generations, Covered, Healthy
  PROVE  CloseLosesNothing
  <1>1. ASSUME pc = "joined", ~error
        PROVE  /\ ~active /\ Carries(durable, 0, closed)
               /\ (closing /\ export.stage = "current") => png = Len(durable)
    <2>1. at = "gone" /\ exit = "drained" /\ channel = <<>> /\ retired /\ ~Lost
      BY <1>1 DEF Control, Lost, Retired, Sealed, Sent
    <2>2. ~active /\ backlog = <<>> /\ Strokeless
      BY <1>1, <2>1 DEF Closed, Sealed, Sent, Strokeless
    <2>3. Carries(durable, 0, closed)
      BY <2>1, <2>2, NothingOnItsWay
    <2>4. closing => Clean
      BY <1>1, <2>1 DEF Clean, Sent
    <2>5. QED
      BY <2>2, <2>3, <2>4 DEF Covered
  <1>2. ASSUME pc = "joined", healthy
        PROVE  ~error /\ (closing => export = Status("current", latest))
    <2>1. ~error
      BY <1>2 DEF Control, Healthy, Retired, Sealed, Sent
    <2>2. at = "gone" /\ channel = <<>>
      BY <1>2 DEF Control
    <2>3. closing => export.stage = "current"
      BY <1>2, <2>2 DEF Healthy, Wanted, Sent, Exporting
    <2>4. export \in Statuses /\ export.generation = latest
      BY DEF TypeOK, Generations
    <2>5. QED
      BY <2>1, <2>3, <2>4 DEF Statuses, Status
  <1>3. QED
    BY <1>1, <1>2 DEF CloseLosesNothing

-----------------------------------------------------------------------------
(* The theorems *)

IInv ==
  /\ TypeOK /\ Control /\ Edits /\ Closed /\ Lines /\ Waits
  /\ Alone /\ Displayed
  /\ Generations /\ Covered /\ Healthy

(* A project just opened has nothing closed, nothing asked for and nothing *)
(* under way.                                                              *)
LEMMA InitIInv == Init => IInv
  <1> SUFFICES ASSUME Init PROVE IInv
    OBVIOUS
  <1>1. /\ pc = "adopt" /\ active = FALSE /\ closed = 0 /\ backlog = <<>> /\ fatal = FALSE
        /\ fill = FALSE /\ saving = 0 /\ job = NoJob /\ shown = <<>> /\ channel = <<>>
        /\ lane = <<>> /\ pending = 0 /\ retired = FALSE /\ latest = 0 /\ export = Status("idle", 0)
        /\ error = FALSE /\ at = "idle" /\ exit = "running" /\ durable = <<>> /\ png = 0
        /\ receipt = 0 /\ healthy = TRUE
    BY DEF Init
  <1>2. TypeOK
    BY InitTyped
  <1>3. Control /\ Edits /\ Closed
    BY <1>1 DEF Control, Edits, Closed, Retired, Sealed, Sent, Ended, Lost, NoJob
  <1>4. Waits /\ Alone
    BY <1>1 DEF Waits, Alone
  <1>5. Lines
    <2>1. Carries(<<>>, 0, 0) /\ Numbers(channel) = <<>>
      BY <1>1, CarriesNothing DEF Numbers
    <2>2. Settled(0, 0)
      BY <1>1, <2>1 DEF Settled, Hand, Settling
    <2>3. QED
      BY <1>1, <2>1, <2>2 DEF Lines
  <1>6. Displayed
    <2>1. <<>> \in Seq(Nat) /\ <<>> \o <<>> = <<>>
      OBVIOUS
    <2>2. IsPrefix(<<>>, <<>>)
      BY <2>1, PrefixGrows
    <2>3. QED
      BY <1>1, <2>1, <2>2 DEF Displayed, NoJob
  <1>7. Generations
    BY <1>1 DEF Generations, Unflushed, Exporting, Status
  <1>8. Covered /\ Healthy
    BY <1>1 DEF Covered, Healthy, Exporting, Status, Lost, NoJob, Sent
  <1>9. QED
    BY <1>2, <1>3, <1>4, <1>5, <1>6, <1>7, <1>8 DEF IInv

(* Every step of either thread keeps them all.                             *)
LEMMA NextIInv == IInv /\ [Next]_vars => IInv'
  <1> SUFFICES ASSUME IInv, [Next]_vars PROVE IInv'
    OBVIOUS
  <1>1. CASE UNCHANGED vars
    <2>1. TypeOK' /\ Control' /\ Edits' /\ Closed' /\ Waits' /\ Alone'
      BY <1>1
      DEF IInv, TypeOK, Control, Edits, Closed, Waits, Alone, Lost, Strokeless
    <2>2. Lines'
      BY <1>1 DEF IInv, Lines, Lost, Settled, Hand, Numbers
    <2>3. Displayed' /\ Healthy'
      BY <1>1 DEF IInv, Displayed, Healthy, Wanted, Lost
    <2>4. Generations'
      BY <1>1 DEF IInv, Generations, Unflushed
    <2>5. Covered'
      BY <1>1 DEF IInv, Covered, Clean, Fresh, Lost, AllLater, Later
    <2>6. QED
      BY <2>1, <2>2, <2>3, <2>4, <2>5 DEF IInv
  <1>2. CASE Next
    <2> USE DEF IInv
    <2>1. TypeOK'
      BY NextTyped
    <2>2. Closed' /\ Waits'
      BY <1>2, NextClosed, NextWaits
    <2>3. CASE Writing
      <3>1. Control' /\ Edits' /\ Lines'
        BY <2>3, WriterControl, WriterKeepsEdits, WriterKeepsLines
      <3>2. Alone' /\ Displayed'
        BY <1>2, <2>3, NextAlone, WriterKeepsDisplayed
      <3>3. Generations' /\ Covered' /\ Healthy'
        BY <2>3, WriterKeepsGenerations, WriterKeepsCovered, WriterKeepsHealthy
      <3>4. QED
        BY <2>1, <2>2, <3>1, <3>2, <3>3
    <2>4. CASE Rendering \/ Retiring
      <3>1. Control' /\ Edits' /\ Lines'
        BY <2>4, OwnerControl, OwnerKeepsEdits, OwnerKeepsLines
      <3>2. Alone' /\ Displayed'
        BY <1>2, <2>4, <3>1, NextAlone, OwnerKeepsDisplayed
      <3>3. Generations' /\ Covered' /\ Healthy'
        BY <2>4, OwnerKeepsGenerations, OwnerKeepsCovered, OwnerKeepsHealthy
      <3>4. QED
        BY <2>1, <2>2, <3>1, <3>2, <3>3
    <2>5. QED
      BY <1>2, <2>3, <2>4 DEF Next
  <1>3. QED
    BY <1>1, <1>2

(* The invariant holds in every state of every behaviour.                  *)
THEOREM Inductive == Spec => []IInv
  BY InitIInv, NextIInv, PTL DEF Spec

(* Strokes settle in the order they closed: each is in the project, in the *)
(* writer's hands or waiting, whatever slot frees while a drain runs; a    *)
(* writer that fails leaves no gap; and defer_materialization finds room.  *)
THEOREM SettledInOrder == Spec => []StrokesSettleInOrder
  <1>1. IInv => StrokesSettleInOrder
    BY LinesInOrder DEF IInv
  <1>2. QED
    BY <1>1, Inductive, PTL

(* The canvas shows the project as it was at some earlier moment, and an   *)
(* edit finds it as it was shown when it was asked for.                    *)
THEOREM ShownWasDurable == Spec => []ShownIsDurable
  <1>1. IInv => ShownIsDurable
    BY DisplayedIsDurable DEF IInv
  <1>2. QED
    BY <1>1, Inductive, PTL

(* An artwork that is not dirty, and whose latest save is reported current,*)
(* is the one in the image.                                                *)
THEOREM CleanIsExported == Spec => []CleanMeansExported
  <1>1. IInv => CleanMeansExported
    BY CoveredIsExported DEF IInv
  <1>2. QED
    BY <1>1, Inductive, PTL

(* A close that reports no error has made every stroke durable, and one of *)
(* a healthy project reports none.                                         *)
THEOREM NothingLostByClosing == Spec => []CloseLosesNothing
  <1>1. IInv => CloseLosesNothing
    BY JoinedLosesNothing DEF IInv
  <1>2. QED
    BY <1>1, Inductive, PTL
=============================================================================
