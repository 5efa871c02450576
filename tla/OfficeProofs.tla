------------------------------- MODULE OfficeProofs -------------------------
(***************************************************************************)
(* Proofs about Office, for all values of its constants.  Mail never finds *)
(* a sleeping `omo wait` that nobody wakes, and agent.input implements the *)
(* queue that InputFIFO promises; for naming, incidents, shutdown, the     *)
(* CEO, alarms and transcripts, what the part is promised, and the         *)
(* inductive invariant it takes; then the branches and worktrees: their    *)
(* types, with which those of all parts are complete, and that no          *)
(* committed work is lost.                                                 *)
(***************************************************************************)
EXTENDS Office, SequenceTheorems, FiniteSetTheorems, WellFoundedInduction, TLAPS

\* The bounds are numbers.
LEMMA Numbers ==
  /\ MaxMail \in Nat /\ MaxEvents \in Nat
  /\ MaxAlarms \in Nat /\ MaxAlarmEvents \in Nat /\ PerRound \in Nat
  /\ MaxIncidents \in Nat /\ MaxFirefighters \in Nat /\ MaxFireEvents \in Nat
  /\ MaxStopEvents \in Nat /\ MaxNamers \in Nat
  /\ MaxNames \in Nat \ {0} /\ MaxTreeEvents \in Nat
  /\ MaxCEOs \in Nat \ {0} /\ MaxRestarts \in Nat /\ MaxRetries \in Nat
  /\ MaxCEOEvents \in Nat
  BY OfficeConstants

\* A step of the office is one of AgentIO, or leaves that part alone.
LEMMA IOMoves ==
  ASSUME [Next]_vars
  PROVE  IO!Next \/ UNCHANGED ioVars
  BY DEF Next, vars, Others, IO!Next

-----------------------------------------------------------------------------
(* The types of flags.                                                      *)

\* x is a truth value.
Flag(x) == x = TRUE \/ x = FALSE

Flags ==
  /\ Flag(told) /\ Flag(missed) /\ Flag(waiter) /\ Flag(token)
  /\ Flag(pendingMail) /\ Flag(mailFlush) /\ Flag(flushing) /\ Flag(inputFlush)
  /\ Flag(inputTimer) /\ Flag(typing) /\ Flag(recent) /\ Flag(debounce)

\* Every step of AgentIO sets flags to truth values.
LEMMA FlagsStep ==
  ASSUME Flags, IO!Next
  PROVE  Flags'
<1> USE DEF Flag, Flags, IO!mailVars, IO!waitVars, IO!noticeVars, IO!inputVars, IO!userVars
<1>1. CASE IO!MailStep
  BY <1>1 DEF IO!MailStep, IO!Send, IO!Deliver, IO!Read, IO!Notice, IO!WaitBegins, IO!WaitStep,
     IO!WaitBlocks, IO!WaitWakes, IO!WaitLeaves, IO!WaitTimesOut, IO!Release
<1>2. CASE IO!InputStep
  BY <1>2 DEF IO!InputStep, IO!Accept, IO!FlushStep, IO!FlushEmpty, IO!FlushBusy,
     IO!FlushDelayed, IO!FlushTakes, IO!Write, IO!PutBack, IO!Finish, IO!TimerFires
<1>3. CASE IO!SessionStep
  BY <1>3 DEF IO!SessionStep, IO!Registered, IO!Ends, IO!WatchExit
<1>4. CASE IO!UserStep
  BY <1>4 DEF IO!UserStep, IO!Types, IO!Pauses, IO!Sits, IO!Reload
<1> QED
  BY <1>1, <1>2, <1>3, <1>4 DEF IO!Next

-----------------------------------------------------------------------------
(* Mail and waits.                                                          *)

\* The types of what mail and waits use, and what bounds the counters: a
\* message is unread once and has one notifier at most.
MailTypes ==
  /\ mails \in 0 .. MaxMail /\ unread \in 0 .. mails /\ notifiers \in 0 .. mails
  /\ events \in 0 .. MaxEvents
  /\ terminal \in {"starting", "up", "ended", "gone"}
  /\ wait \in {"idle", "registered", "blocked", "leaving"}

MailInv == MailTypes /\ IO!SleeperIsWoken

mailPart == <<terminal, unread, notifiers, told, missed, mails, wait, waiter, token,
              pendingMail, mailFlush, typing, recent, debounce, events>>

\* No step of AgentIO lets a counter pass its bound, or mail find a blocked wait
\* that nobody will signal: waitVerb registers before it looks into the inbox,
\* and Send commits before it looks for a waiter.
LEMMA MailStep ==
  ASSUME MailInv, IO!Next
  PROVE  MailInv'
<1> USE Numbers DEF MailInv, MailTypes, IO!SleeperIsWoken
<1>1. CASE IO!Send
  BY <1>1 DEF IO!Send, IO!waitVars, IO!noticeVars, IO!userVars
<1>2. CASE IO!Deliver
  BY <1>2 DEF IO!Deliver, IO!noticeVars, IO!userVars
<1>3. CASE IO!Read
  BY <1>3 DEF IO!Read, IO!waitVars, IO!noticeVars, IO!userVars
<1>4. CASE IO!Notice
  BY <1>4 DEF IO!Notice, IO!waitVars, IO!noticeVars, IO!userVars
<1>5. CASE IO!WaitBegins
  BY <1>5 DEF IO!WaitBegins, IO!Event, IO!mailVars, IO!noticeVars, IO!userVars
<1>6. CASE IO!WaitBlocks
  BY <1>6 DEF IO!WaitBlocks, IO!mailVars, IO!noticeVars, IO!userVars
<1>7. CASE IO!WaitWakes
  BY <1>7 DEF IO!WaitWakes, IO!noticeVars, IO!userVars
<1>8. CASE IO!WaitLeaves
  BY <1>8 DEF IO!WaitLeaves, IO!noticeVars, IO!userVars
<1>9. CASE IO!WaitTimesOut
  BY <1>9 DEF IO!WaitTimesOut, IO!Event, IO!mailVars, IO!noticeVars, IO!userVars
<1>10. CASE IO!Release
  BY <1>10 DEF IO!Release, IO!Event, IO!mailVars, IO!noticeVars, IO!userVars
<1>11. CASE IO!InputStep
  <2>1. UNCHANGED mailPart
    BY <1>11 DEF IO!InputStep, IO!Accept, IO!FlushStep, IO!FlushEmpty, IO!FlushBusy,
       IO!FlushDelayed, IO!FlushTakes, IO!Write, IO!PutBack, IO!Finish, IO!TimerFires,
       IO!mailVars, IO!waitVars, IO!noticeVars, IO!userVars, mailPart
  <2> QED
    BY <2>1 DEF mailPart
<1>12. CASE IO!SessionStep
  BY <1>12 DEF IO!SessionStep, IO!Registered, IO!Ends, IO!WatchExit, IO!mailVars,
     IO!waitVars, IO!noticeVars, IO!userVars
<1>13. CASE IO!UserStep
  BY <1>13 DEF IO!UserStep, IO!Types, IO!Pauses, IO!Sits, IO!Reload, IO!Event,
     IO!mailVars, IO!waitVars, IO!noticeVars, IO!userVars
<1> QED
  BY <1>1, <1>2, <1>3, <1>4, <1>5, <1>6, <1>7, <1>8, <1>9, <1>10, <1>11, <1>12, <1>13
  DEF IO!Next, IO!MailStep, IO!WaitStep

\* MailInv holds in every behaviour of the office.
LEMMA MailCorrect == Spec => []MailInv
<1>1. Init => MailInv
  <2> SUFFICES ASSUME Init PROVE MailInv
    OBVIOUS
  <2>1. IO!Init
    BY DEF Init
  <2>2. MailTypes
    BY <2>1, Numbers DEF IO!Init, MailTypes
  <2>3. IO!SleeperIsWoken
    BY <2>1 DEF IO!Init, IO!SleeperIsWoken
  <2> QED
    BY <2>2, <2>3 DEF MailInv
<1>2. MailInv /\ [Next]_vars => MailInv'
  <2> SUFFICES ASSUME MailInv, [Next]_vars PROVE MailInv'
    OBVIOUS
  <2>1. CASE UNCHANGED ioVars
    BY <2>1 DEF ioVars, MailInv, MailTypes, IO!SleeperIsWoken
  <2> QED
    BY <2>1, IOMoves, MailStep
<1> QED
  BY <1>1, <1>2, PTL DEF Spec

\* An `omo wait` that is blocked while mail is unread has been signalled or is
\* about to be (waitVerb against Send and Notify), whatever timeouts, releases
\* and exits of its session come between.
THEOREM SleepersWoken == Spec => []IO!SleeperIsWoken
<1>1. MailInv => IO!SleeperIsWoken
  BY DEF MailInv
<1> QED
  BY MailCorrect, <1>1, PTL

-----------------------------------------------------------------------------
(* Inputs.                                                                  *)

InputTypes ==
  /\ terminal \in {"starting", "up", "ended", "gone"}
  /\ pendingInput \in Seq(Requests) /\ screen \in Seq(Requests)
  /\ sending \in Requests \cup {NoRequest}
  /\ step \in {"none", "taken", "written", "held", "failed"}
  /\ answers \in [Requests -> 0 .. 1] /\ Flag(flushing)

\* An input that a flush has taken is the first of the queue, and the queue is
\* locked for it, until watchExit empties the queue for good.
Taken ==
  /\ step # "none" => sending \in Requests /\ answers[sending] = 0
  /\ step = "none" => sending = NoRequest
  /\ terminal = "gone" => pendingInput = <<>> /\ ~flushing
  /\ terminal # "gone" => (flushing <=> step # "none")
  /\ terminal # "gone" /\ step # "none" => IO!IsHead

\* What is queued is queued once and not answered; what was typed is answered,
\* but for the input whose flush has not come back from writing it.
Queued ==
  /\ \A i \in 1 .. Len(pendingInput) : answers[pendingInput[i]] = 0
  /\ \A i, j \in 1 .. Len(pendingInput) : pendingInput[i] = pendingInput[j] => i = j
Typed ==
  /\ \A i \in 1 .. Len(screen) :
       answers[screen[i]] = 1 \/ (step = "written" /\ screen[i] = sending)
  /\ step = "written" => \E i \in 1 .. Len(screen) : screen[i] = sending

InputInv == InputTypes /\ Taken /\ Queued /\ Typed

queuePart == <<terminal, pendingInput, flushing, sending, step, screen, answers>>

\* All but eight kinds of step leave the queue and the input that was taken alone.
LEMMA QueueMoves ==
  ASSUME InputInv, IO!Next
  PROVE  \/ UNCHANGED queuePart
         \/ \E r \in Requests : IO!Accept(r)
         \/ IO!FlushTakes \/ IO!Write \/ IO!PutBack \/ IO!Finish
         \/ IO!Registered \/ IO!Ends \/ IO!WatchExit
<1> USE DEF queuePart, IO!mailVars, IO!waitVars, IO!noticeVars, IO!inputVars, IO!userVars
<1>1. CASE IO!MailStep
  BY <1>1 DEF IO!MailStep, IO!Send, IO!Deliver, IO!Read, IO!Notice, IO!WaitBegins,
     IO!WaitStep, IO!WaitBlocks, IO!WaitWakes, IO!WaitLeaves, IO!WaitTimesOut, IO!Release
<1>2. CASE IO!UserStep
  BY <1>2 DEF IO!UserStep, IO!Types, IO!Pauses, IO!Sits, IO!Reload
<1>3. CASE IO!FlushEmpty
  <2>1. ~flushing
    BY <1>3 DEF IO!FlushEmpty, InputInv, InputTypes, Taken, IO!IsHead
  <2> QED
    BY <1>3, <2>1 DEF IO!FlushEmpty, InputInv, InputTypes, Flag
<1>4. CASE IO!FlushBusy \/ IO!FlushDelayed \/ IO!TimerFires
  BY <1>4 DEF IO!FlushBusy, IO!FlushDelayed, IO!TimerFires
<1> QED
  BY <1>1, <1>2, <1>3, <1>4 DEF IO!Next, IO!InputStep, IO!FlushStep, IO!SessionStep

\* What is in a sequence.
LEMMA InSeqIs ==
  ASSUME NEW S, NEW s \in Seq(S)
  PROVE  IO!InSeq(s) = {s[i] : i \in 1 .. Len(s)}
  BY DEF IO!InSeq

\* The first input of a queue and the others.
LEMMA HeadAndTail ==
  ASSUME NEW S, NEW s \in Seq(S), s # <<>>
  PROVE  /\ Len(s) \in Nat \ {0} /\ Head(s) = s[1]
         /\ Tail(s) \in Seq(S) /\ Len(Tail(s)) = Len(s) - 1
         /\ \A i \in 1 .. Len(Tail(s)) : Tail(s)[i] = s[i + 1]
  BY HeadTailProperties, EmptySeq

\* A queue with one more input.
LEMMA Appended ==
  ASSUME NEW S, NEW s \in Seq(S), NEW x \in S
  PROVE  /\ Append(s, x) \in Seq(S) /\ Len(Append(s, x)) = Len(s) + 1 /\ Len(s) \in Nat
         /\ Append(s, x)[Len(s) + 1] = x
         /\ \A i \in 1 .. Len(s) : Append(s, x)[i] = s[i]
  OBVIOUS

-----------------------------------------------------------------------------
(* Each kind of step keeps InputInv.                                        *)

\* agent.input queues an input that is neither queued nor taken.
LEMMA AcceptKeeps ==
  ASSUME InputInv, NEW r \in Requests, IO!Accept(r)
  PROVE  InputInv'
<1> USE DEF InputInv, InputTypes
<1>1. /\ r # sending /\ answers[r] = 0 /\ terminal \in {"up", "ended"}
      /\ \A i \in 1 .. Len(pendingInput) : pendingInput[i] # r
      /\ pendingInput' = Append(pendingInput, r)
      /\ UNCHANGED <<terminal, flushing, sending, step, screen, answers>>
  BY InSeqIs DEF IO!Accept, IO!userVars
<1>2. InputTypes'
  BY <1>1, Appended
<1>3. Taken'
  <2>1. ASSUME step # "none" PROVE IO!IsHead'
    <3>1. pendingInput # <<>> /\ Head(pendingInput) = sending
      BY <1>1, <2>1 DEF Taken, IO!IsHead
    <3>2. pendingInput' # <<>> /\ Head(pendingInput') = pendingInput'[1]
      BY <1>1, <1>2, Appended, HeadAndTail, EmptySeq
    <3> QED
      BY <1>1, <3>1, <3>2, Appended, HeadAndTail DEF IO!IsHead
  <2> QED
    BY <1>1, <2>1 DEF Taken
<1>4. Queued'
  BY <1>1, Appended DEF Queued
<1>5. Typed'
  BY <1>1 DEF Typed
<1> QED
  BY <1>2, <1>3, <1>4, <1>5

\* A flush takes the first input of a queue that is not locked.
LEMMA TakeKeeps ==
  ASSUME InputInv, IO!FlushTakes
  PROVE  InputInv'
<1> USE DEF InputInv, InputTypes
<1>1. /\ pendingInput # <<>> /\ step = "none" /\ terminal # "gone"
      /\ sending' = Head(pendingInput) /\ step' = "taken" /\ flushing' = TRUE
      /\ UNCHANGED <<terminal, pendingInput, screen, answers>>
  BY DEF IO!FlushTakes, Taken, IO!userVars
<1>2. Head(pendingInput) = pendingInput[1] /\ 1 \in 1 .. Len(pendingInput)
      /\ pendingInput[1] \in Requests
  BY <1>1, HeadAndTail, ElementOfSeq
<1>3. InputTypes'
  BY <1>1, <1>2 DEF Flag
<1>4. Taken'
  BY <1>1, <1>2 DEF Taken, Queued, IO!IsHead
<1>5. Queued' /\ Typed'
  BY <1>1 DEF Queued, Typed
<1> QED
  BY <1>3, <1>4, <1>5

\* The write, which may be held back or fail.
LEMMA WriteKeeps ==
  ASSUME InputInv, IO!Write
  PROVE  InputInv'
<1> USE DEF InputInv, InputTypes
<1>1. /\ step = "taken" /\ sending \in Requests
      /\ UNCHANGED <<terminal, pendingInput, flushing, sending, answers>>
      /\ \/ step' \in {"held", "failed"} /\ screen' = screen
         \/ step' = "written" /\ screen' = Append(screen, sending)
  BY DEF IO!Write, Taken, IO!userVars
<1>2. InputTypes'
  <2>1. Append(screen, sending) \in Seq(Requests)
    BY <1>1
  <2>2. screen' \in Seq(Requests) /\ step' \in {"held", "failed", "written"}
    BY <1>1, <2>1
  <2> QED
    BY <1>1, <2>2 DEF Flag
<1>3. Taken' /\ Queued'
  BY <1>1 DEF Taken, Queued, IO!IsHead
<1>4. Typed'
  <2>1. CASE step' # "written"
    BY <1>1, <2>1 DEF Typed
  <2>2. CASE step' = "written"
    BY <1>1, <2>2, Appended DEF Typed
  <2> QED
    BY <2>1, <2>2
<1> QED
  BY <1>2, <1>3, <1>4

\* An input that was held back goes on waiting, or is given up with its session.
LEMMA PutBackKeeps ==
  ASSUME InputInv, IO!PutBack
  PROVE  InputInv'
<1> USE DEF InputInv, InputTypes
<1>1. /\ step = "held" /\ step' = "none" /\ sending' = NoRequest
      /\ sending \in Requests /\ answers[sending] = 0
      /\ UNCHANGED <<terminal, pendingInput, screen>>
  BY DEF IO!PutBack, Taken, IO!userVars
<1>2. CASE IO!IsHead
  <2>1. flushing' = FALSE /\ answers' = answers /\ terminal # "gone"
    BY <1>2 DEF IO!PutBack, Taken, IO!IsHead, IO!userVars
  <2> QED
    BY <1>1, <2>1 DEF Taken, Queued, Typed, Flag
<1>3. CASE ~IO!IsHead
  <2>1. /\ flushing' = flushing /\ terminal = "gone" /\ pendingInput = <<>>
        /\ answers' = [answers EXCEPT ![sending] = @ + 1]
    BY <1>1, <1>3 DEF IO!PutBack, Taken
  <2>2. InputTypes' /\ Taken'
    BY <1>1, <2>1 DEF Taken, Flag
  <2>3. Queued' /\ Typed'
    BY <1>1, <2>1 DEF Taken, Queued, Typed
  <2> QED
    BY <2>2, <2>3
<1> QED
  BY <1>2, <1>3

\* The input leaves the queue, which is still its own, and is answered.
LEMMA FinishKeeps ==
  ASSUME InputInv, IO!Finish
  PROVE  InputInv'
<1> USE DEF InputInv, InputTypes
<1>1. /\ step \in {"written", "failed"} /\ step' = "none" /\ sending' = NoRequest
      /\ sending \in Requests /\ answers[sending] = 0 /\ flushing' = FALSE
      /\ answers' = [answers EXCEPT ![sending] = @ + 1]
      /\ pendingInput' = IF IO!IsHead THEN Tail(pendingInput) ELSE pendingInput
      /\ UNCHANGED <<terminal, screen>>
  BY DEF IO!Finish, Taken, IO!userVars
<1>2. ASSUME IO!IsHead
      PROVE  /\ pendingInput # <<>> /\ pendingInput[1] = sending
             /\ pendingInput' = Tail(pendingInput) /\ terminal # "gone"
  BY <1>1, <1>2, HeadAndTail DEF Taken, IO!IsHead
<1>3. ASSUME ~IO!IsHead
      PROVE  terminal = "gone" /\ pendingInput' = pendingInput /\ pendingInput = <<>>
  BY <1>1, <1>3 DEF Taken
<1>4. InputTypes'
  BY <1>1, <1>2, <1>3, HeadAndTail DEF Flag
<1>5. Taken'
  BY <1>1, <1>2, <1>3 DEF Taken
<1>6. Queued'
  <2>1. CASE IO!IsHead
    BY <1>1, <1>2, <2>1, HeadAndTail DEF Queued
  <2>2. CASE ~IO!IsHead
    BY <1>1, <1>3, <2>2, EmptySeq DEF Queued
  <2> QED
    BY <2>1, <2>2
<1>7. Typed'
  BY <1>1, ElementOfSeq DEF Typed
<1> QED
  BY <1>4, <1>5, <1>6, <1>7

\* What watchExit gives up when it empties the queue: all of it, but for the
\* input that a flush has taken.
LEMMA GivenUp ==
  ASSUME InputInv, terminal # "gone"
  PROVE  IO!InSeq(IO!Abandoned) =
           {pendingInput[i] : i \in (IF step = "none" THEN 1 ELSE 2) .. Len(pendingInput)}
<1> USE DEF InputInv, InputTypes
<1>1. CASE step = "none"
  <2>1. IO!Abandoned = pendingInput
    BY <1>1 DEF IO!Abandoned, Taken
  <2> QED
    BY <1>1, <2>1, InSeqIs
<1>2. CASE step # "none"
  <2>1. IO!Abandoned = Tail(pendingInput) /\ pendingInput # <<>>
    BY <1>2 DEF IO!Abandoned, Taken, IO!IsHead
  <2>2. IO!InSeq(Tail(pendingInput)) = {Tail(pendingInput)[i] : i \in 1 .. Len(pendingInput) - 1}
    <3>1. Tail(pendingInput) \in Seq(Requests) /\ Len(Tail(pendingInput)) = Len(pendingInput) - 1
      BY <2>1, HeadAndTail
    <3>2. IO!InSeq(Tail(pendingInput)) =
            {Tail(pendingInput)[i] : i \in 1 .. Len(Tail(pendingInput))}
      BY <3>1, InSeqIs
    <3> QED
      BY <3>1, <3>2
  <2>3. ASSUME NEW i \in 2 .. Len(pendingInput)
        PROVE  i - 1 \in 1 .. Len(pendingInput) - 1 /\ Tail(pendingInput)[i - 1] = pendingInput[i]
    BY <2>1, HeadAndTail
  <2>4. ASSUME NEW i \in 1 .. Len(pendingInput) - 1
        PROVE  i + 1 \in 2 .. Len(pendingInput) /\ Tail(pendingInput)[i] = pendingInput[i + 1]
    BY <2>1, HeadAndTail
  <2>5. \A r : r \in IO!InSeq(IO!Abandoned) <=>
               r \in {pendingInput[i] : i \in 2 .. Len(pendingInput)}
    <3>1. ASSUME NEW r \in IO!InSeq(IO!Abandoned)
          PROVE  r \in {pendingInput[i] : i \in 2 .. Len(pendingInput)}
      <4>1. PICK i \in 1 .. Len(pendingInput) - 1 : r = Tail(pendingInput)[i]
        BY <2>1, <2>2, <3>1
      <4> QED
        BY <2>4, <4>1
    <3>2. ASSUME NEW i \in 2 .. Len(pendingInput)
          PROVE  pendingInput[i] \in IO!InSeq(IO!Abandoned)
      <4>1. \E k \in 1 .. Len(pendingInput) - 1 : Tail(pendingInput)[k] = pendingInput[i]
        BY <2>3
      <4> QED
        BY <2>1, <2>2, <4>1
    <3> QED
      BY <3>1, <3>2
  <2> QED
    BY <1>2, <2>5
<1> QED
  BY <1>1, <1>2

\* watchExit empties the queue and answers whom nobody else will.
LEMMA WatchExitKeeps ==
  ASSUME InputInv, IO!WatchExit
  PROVE  InputInv'
<1> USE DEF InputInv, InputTypes
<1>1. /\ terminal = "ended" /\ terminal' = "gone" /\ pendingInput' = <<>> /\ flushing' = FALSE
      /\ answers' = [r \in Requests |->
                       answers[r] + IF r \in IO!InSeq(IO!Abandoned) THEN 1 ELSE 0]
      /\ UNCHANGED <<sending, step, screen>>
  BY DEF IO!WatchExit
<1>2. ASSUME NEW r \in Requests, r \in IO!InSeq(IO!Abandoned)
      PROVE  answers[r] = 0 /\ r # sending
  <2>1. PICK i \in (IF step = "none" THEN 1 ELSE 2) .. Len(pendingInput) : r = pendingInput[i]
    BY <1>1, <1>2, GivenUp
  <2>2. i \in 1 .. Len(pendingInput)
    BY <2>1
  <2>3. CASE step = "none"
    BY <2>1, <2>2, <2>3, OfficeConstants DEF Taken, Queued
  <2>4. CASE step # "none"
    <3>1. pendingInput # <<>> /\ sending = pendingInput[1]
      BY <1>1, <2>4, HeadAndTail DEF Taken, IO!IsHead
    <3> QED
      BY <2>1, <2>2, <2>4, <3>1, HeadAndTail DEF Queued
  <2> QED
    BY <2>3, <2>4
<1>3. InputTypes'
  BY <1>1, <1>2, EmptySeq DEF Flag
<1>4. Taken'
  BY <1>1, <1>2 DEF Taken
<1>5. Queued'
  BY <1>1, EmptySeq DEF Queued
<1>6. Typed'
  BY <1>1, <1>2, ElementOfSeq DEF Typed
<1> QED
  BY <1>3, <1>4, <1>5, <1>6

\* Nothing is queued, taken or typed that should not be, in every behaviour.
LEMMA InputsCorrect == Spec => []InputInv
<1>1. Init => InputInv
  <2> SUFFICES ASSUME Init PROVE InputInv
    OBVIOUS
  <2>1. IO!Init
    BY DEF Init
  <2> QED
    BY <2>1, EmptySeq DEF IO!Init, InputInv, InputTypes, Taken, Queued, Typed, Flag, IO!IsHead
<1>2. InputInv /\ [Next]_vars => InputInv'
  <2> SUFFICES ASSUME InputInv, [Next]_vars PROVE InputInv'
    OBVIOUS
  <2>1. CASE UNCHANGED queuePart
    BY <2>1 DEF queuePart, InputInv, InputTypes, Taken, Queued, Typed, IO!IsHead
  <2>2. CASE IO!Registered \/ IO!Ends
    BY <2>2 DEF IO!Registered, IO!Ends, IO!inputVars, InputInv, InputTypes, Taken, Queued,
       Typed, IO!IsHead
  <2>3. CASE UNCHANGED ioVars
    BY <2>1, <2>3 DEF ioVars, queuePart
  <2> QED
    BY <2>1, <2>2, <2>3, IOMoves, QueueMoves, AcceptKeeps, TakeKeeps, WriteKeeps,
       PutBackKeeps, FinishKeeps, WatchExitKeeps
<1> QED
  BY <1>1, <1>2, PTL DEF Spec
-----------------------------------------------------------------------------
(* The queue that InputFIFO promises.                                       *)

\* What waits, as the refinement mapping says it, in the states there are.
WaitingIs ==
  /\ terminal # "gone" =>
       IO!Waiting = IF step = "written" THEN Tail(pendingInput) ELSE pendingInput
  /\ terminal = "gone" =>
       IO!Waiting = IF step \in {"taken", "held", "failed"} THEN <<sending>> ELSE <<>>

\* InputInv says what waits.
LEMMA WaitingNow ==
  ASSUME InputInv
  PROVE  WaitingIs
<1> USE DEF InputInv, InputTypes, Taken
<1>1. CASE terminal # "gone"
  <2>1. step # "none" => IO!IsHead
    BY <1>1
  <2> QED
    BY <1>1, <2>1 DEF WaitingIs, IO!Waiting
<1>2. CASE terminal = "gone"
  <2>1. pendingInput = <<>> /\ ~IO!IsHead
    BY <1>2 DEF IO!IsHead
  <2>2. <<sending>> \o <<>> = <<sending>>
    BY ConcatEmptySeq
  <2> QED
    BY <1>2, <2>1, <2>2 DEF WaitingIs, IO!Waiting
<1> QED
  BY <1>1, <1>2

\* What waits is a queue of inputs that nobody has answered.
LEMMA WaitingQueue ==
  ASSUME InputInv, WaitingIs
  PROVE  /\ IO!Waiting \in Seq(Requests)
         /\ \A i \in 1 .. Len(IO!Waiting) : answers[IO!Waiting[i]] = 0
<1> USE DEF InputInv, InputTypes, Taken, Queued, WaitingIs
<1>1. CASE terminal # "gone" /\ step = "written"
  <2>1. pendingInput # <<>>
    BY <1>1 DEF IO!IsHead
  <2>2. ASSUME NEW i \in 1 .. Len(Tail(pendingInput))
        PROVE  i + 1 \in 1 .. Len(pendingInput) /\ Tail(pendingInput)[i] = pendingInput[i + 1]
    BY <2>1, HeadAndTail
  <2>3. IO!Waiting = Tail(pendingInput) /\ Tail(pendingInput) \in Seq(Requests)
    BY <1>1, <2>1, HeadAndTail
  <2>4. \A i \in 1 .. Len(Tail(pendingInput)) : answers[Tail(pendingInput)[i]] = 0
    BY <2>2
  <2> QED
    BY <2>3, <2>4
<1>2. CASE terminal # "gone" /\ step # "written"
  BY <1>2
<1>3. CASE terminal = "gone" /\ step \in {"taken", "held", "failed"}
  <2>1. sending \in Requests /\ answers[sending] = 0 /\ IO!Waiting = <<sending>>
    BY <1>3
  <2>2. <<sending>> \in Seq(Requests) /\ Len(<<sending>>) = 1 /\ <<sending>>[1] = sending
    BY <2>1
  <2> QED
    BY <2>1, <2>2
<1>4. CASE terminal = "gone" /\ step \notin {"taken", "held", "failed"}
  <2>1. IO!Waiting = <<>>
    BY <1>4
  <2> QED
    BY <2>1, EmptySeq
<1> QED
  BY <1>1, <1>2, <1>3, <1>4

\* The end of a queue, from its first or its second input on.
LEMMA EndOfQueue ==
  ASSUME NEW S, NEW w \in Seq(S), NEW m \in 1 .. 2, m <= Len(w)
  PROVE  /\ IO!FIFO!InSeq(SubSeq(w, m, Len(w))) = {w[i] : i \in m .. Len(w)}
         /\ SubSeq(w, 1, m - 1) \o SubSeq(w, Len(w) + 1, Len(w))
              = IF m = 1 THEN <<>> ELSE <<w[1]>>
<1> DEFINE e == SubSeq(w, m, Len(w))
<1>1. /\ e \in Seq(S) /\ Len(e) = Len(w) - m + 1 /\ Len(w) \in Nat
      /\ \A i \in 1 .. Len(w) - m + 1 : e[i] = w[m + i - 1]
  <2>1. \A i \in m .. Len(w) : w[i] \in S
    BY ElementOfSeq
  <2> QED
    BY <2>1, SubSeqProperties
<1> HIDE DEF e
<1>2. IO!FIFO!InSeq(e) = {e[i] : i \in 1 .. Len(e)}
  <2>1. DOMAIN e = 1 .. Len(e)
    BY <1>1
  <2> QED
    BY <2>1 DEF IO!FIFO!InSeq
<1>3. ASSUME NEW i \in 1 .. Len(e) PROVE m + i - 1 \in m .. Len(w) /\ e[i] = w[m + i - 1]
  BY <1>1
<1>4. ASSUME NEW i \in m .. Len(w) PROVE i - m + 1 \in 1 .. Len(e) /\ e[i - m + 1] = w[i]
  BY <1>1
<1>5. \A x : x \in IO!FIFO!InSeq(e) <=> x \in {w[i] : i \in m .. Len(w)}
  <2>1. ASSUME NEW x \in IO!FIFO!InSeq(e) PROVE x \in {w[i] : i \in m .. Len(w)}
    <3>1. PICK i \in 1 .. Len(e) : x = e[i]
      BY <1>2, <2>1
    <3> QED
      BY <1>3, <3>1
  <2>2. ASSUME NEW i \in m .. Len(w) PROVE w[i] \in IO!FIFO!InSeq(e)
    <3>1. \E k \in 1 .. Len(e) : e[k] = w[i]
      BY <1>4
    <3> QED
      BY <1>2, <3>1
  <2> QED
    BY <2>1, <2>2
<1>6. SubSeq(w, Len(w) + 1, Len(w)) = <<>>
  BY <1>1, SubSeqEmpty
<1>7. CASE m = 1
  <2>1. SubSeq(w, 1, m - 1) = <<>>
    BY <1>7, SubSeqEmpty
  <2> QED
    BY <1>5, <1>6, <1>7, <2>1, ConcatEmptySeq DEF e
<1>8. CASE m = 2
  <2>1. SubSeq(w, 1, m - 1) = <<w[1]>>
    <3>1. SubSeq(w, 1, 1) = <<w[1]>> \o SubSeq(w, 2, 1)
      BY <1>1, <1>8, SubSeqRecursiveFirst
    <3>2. SubSeq(w, 2, 1) = <<>>
      BY SubSeqEmpty
    <3>3. <<w[1]>> \o <<>> = <<w[1]>>
      BY ConcatEmptySeq
    <3>4. SubSeq(w, 1, 1) = <<w[1]>>
      BY <3>1, <3>2, <3>3
    <3>5. m - 1 = 1
      BY <1>8
    <3> QED
      BY <3>4, <3>5
  <2>2. <<w[1]>> \o <<>> = <<w[1]>>
    BY ConcatEmptySeq
  <2>3. IO!FIFO!InSeq(e) = {w[i] : i \in m .. Len(w)}
    BY <1>5
  <2>4. m - 1 = 1 /\ m # 1
    BY <1>8
  <2>5. SubSeq(w, 1, m - 1) \o SubSeq(w, Len(w) + 1, Len(w)) = <<w[1]>>
    BY <1>6, <2>1, <2>2
  <2> QED
    BY <2>3, <2>4, <2>5 DEF e
<1> QED
  BY <1>7, <1>8

\* A step that answers the end of the queue, and takes it away, gives it up.
LEMMA GivesUp ==
  ASSUME InputInv, WaitingIs, NEW m \in 1 .. 2, m <= Len(IO!Waiting),
         IO!Waiting' = (IF m = 1 THEN <<>> ELSE <<IO!Waiting[1]>>),
         answers' = [r \in Requests |->
                       IF r \in {IO!Waiting[i] : i \in m .. Len(IO!Waiting)} THEN 1
                                                                            ELSE answers[r]],
         screen' = screen
  PROVE  IO!FIFO!Next
<1> DEFINE w == IO!Waiting
           n == Len(IO!Waiting)
<1>1. w \in Seq(Requests) /\ n \in Nat /\ \A i \in 1 .. n : answers[w[i]] = 0 /\ w[i] \in Requests
  BY WaitingQueue, ElementOfSeq
<1>2. /\ IO!FIFO!InSeq(SubSeq(w, m, n)) = {w[i] : i \in m .. n}
      /\ SubSeq(w, 1, m - 1) \o SubSeq(w, n + 1, n) = IF m = 1 THEN <<>> ELSE <<w[1]>>
  BY <1>1, EndOfQueue
<1>3. IO!FIFO!InSeq(SubSeq(w, m, n)) \subseteq IO!FIFO!Unanswered
  BY <1>1, <1>2 DEF IO!FIFO!Unanswered
<1>4. IO!FIFO!GiveUp(m, n)
  BY <1>2, <1>3 DEF IO!FIFO!GiveUp, IO!FIFO!Answer
<1>5. n \in 1 .. Len(w) /\ m \in 1 .. n
  BY <1>1
<1> QED
  BY <1>4, <1>5 DEF IO!FIFO!Next

\* An answer to one caller.
LEMMA AnsweredOnce ==
  ASSUME NEW f \in [Requests -> 0 .. 1], NEW r \in Requests, f[r] = 0
  PROVE  [f EXCEPT ![r] = @ + 1] = [x \in Requests |-> IF x \in {r} THEN 1 ELSE f[x]]
<1>1. [f EXCEPT ![r] = @ + 1] = [f EXCEPT ![r] = 1]
  OBVIOUS
<1> QED
  BY <1>1

\* A step that answers the oldest input that waits, and takes it away, gives it up.
LEMMA FirstGivenUp ==
  ASSUME InputInv, WaitingIs, IO!Waiting # <<>>, NEW r \in Requests, r = Head(IO!Waiting),
         IO!Waiting' = Tail(IO!Waiting), answers' = [answers EXCEPT ![r] = @ + 1],
         screen' = screen
  PROVE  IO!FIFO!Next
<1> DEFINE w == IO!Waiting
<1>1. w \in Seq(Requests) /\ Len(w) \in Nat \ {0} /\ r = w[1] /\ answers[r] = 0
  BY WaitingQueue, HeadAndTail
<1>2. SubSeq(w, 1, 1) = <<r>>
  <2>1. SubSeq(w, 1, 1) = <<w[1]>> \o SubSeq(w, 2, 1)
    BY <1>1, SubSeqRecursiveFirst
  <2>2. SubSeq(w, 2, 1) = <<>>
    BY SubSeqEmpty
  <2>3. <<w[1]>> \o <<>> = <<w[1]>>
    BY ConcatEmptySeq
  <2> QED
    BY <1>1, <2>1, <2>2, <2>3
<1>3. IO!FIFO!InSeq(SubSeq(w, 1, 1)) = {r}
  BY <1>2 DEF IO!FIFO!InSeq
<1>4. SubSeq(w, 1, 0) \o SubSeq(w, 2, Len(w)) = Tail(w)
  <2>1. SubSeq(w, 1, 0) = <<>>
    BY SubSeqEmpty
  <2>2. SubSeq(w, 2, Len(w)) = Tail(w) /\ Tail(w) \in Seq(Requests)
    BY <1>1, TailIsSubSeq, HeadAndTail
  <2> QED
    BY <2>1, <2>2, ConcatEmptySeq
<1>5. answers' = [x \in Requests |-> IF x \in {r} THEN 1 ELSE answers[x]]
  BY <1>1, AnsweredOnce DEF InputInv, InputTypes
<1>6. IO!FIFO!GiveUp(1, 1)
  <2>1. {r} \subseteq IO!FIFO!Unanswered
    BY <1>1 DEF IO!FIFO!Unanswered
  <2>2. IO!FIFO!Answer({r})
    BY <1>5 DEF IO!FIFO!Answer
  <2>3. IO!Waiting' = SubSeq(w, 1, 1 - 1) \o SubSeq(w, 1 + 1, Len(w))
    BY <1>4
  <2>4. 1 \in 1 .. 1 /\ 1 <= Len(w)
    BY <1>1
  <2>5. IO!FIFO!InSeq(SubSeq(w, 1, 1)) \subseteq IO!FIFO!Unanswered
    BY ONLY <1>3, <2>1
  <2>6. IO!FIFO!Answer(IO!FIFO!InSeq(SubSeq(w, 1, 1)))
    BY ONLY <1>3, <2>2
  <2> QED
    BY ONLY <2>3, <2>4, <2>5, <2>6, screen' = screen DEF IO!FIFO!GiveUp
<1> QED
  BY <1>1, <1>6 DEF IO!FIFO!Next

\* agent.input: the queue accepts the input.
LEMMA AcceptQueues ==
  ASSUME InputInv, WaitingIs, WaitingIs', NEW r \in Requests, IO!Accept(r)
  PROVE  IO!FIFO!Next
<1> USE DEF InputInv, InputTypes
<1>1. /\ answers[r] = 0 /\ r # sending /\ terminal \in {"up", "ended"} /\ terminal' = terminal
      /\ r \notin IO!InSeq(pendingInput)
      /\ pendingInput' = Append(pendingInput, r)
      /\ UNCHANGED <<step, screen, answers>>
  BY DEF IO!Accept, IO!userVars
<1>2. r \notin IO!FIFO!InSeq(IO!Waiting)
  <2>1. IO!FIFO!InSeq(pendingInput) = IO!InSeq(pendingInput)
    BY DEF IO!FIFO!InSeq, IO!InSeq
  <2>2. CASE step # "written"
    BY <1>1, <2>1, <2>2 DEF WaitingIs
  <2>3. CASE step = "written"
    <3>1. pendingInput # <<>> /\ IO!Waiting = Tail(pendingInput)
      BY <1>1, <2>3 DEF WaitingIs, Taken, IO!IsHead
    <3>2. ASSUME NEW i \in 1 .. Len(Tail(pendingInput)) PROVE Tail(pendingInput)[i] # r
      <4>1. i + 1 \in 1 .. Len(pendingInput) /\ Tail(pendingInput)[i] = pendingInput[i + 1]
        BY <3>1, HeadAndTail
      <4> QED
        BY <1>1, <4>1, InSeqIs
    <3>3. DOMAIN Tail(pendingInput) = 1 .. Len(Tail(pendingInput))
      BY <3>1, HeadAndTail
    <3> QED
      BY <3>1, <3>2, <3>3 DEF IO!FIFO!InSeq
  <2> QED
    BY <2>2, <2>3
<1>3. r \notin IO!FIFO!InSeq(screen)
  BY <1>1 DEF Typed, IO!FIFO!InSeq
<1>4. IO!Waiting' = Append(IO!Waiting, r)
  <2>1. CASE step # "written"
    BY <1>1, <2>1 DEF WaitingIs
  <2>2. CASE step = "written"
    <3>1. pendingInput # <<>> /\ IO!Waiting = Tail(pendingInput)
          /\ IO!Waiting' = Tail(Append(pendingInput, r))
      BY <1>1, <2>2 DEF WaitingIs, Taken, IO!IsHead
    <3> QED
      BY <3>1
  <2> QED
    BY <2>1, <2>2
<1>5. IO!FIFO!Accept(r)
  BY <1>1, <1>2, <1>3, <1>4 DEF IO!FIFO!Accept, IO!FIFO!Unanswered
<1> QED
  BY <1>5 DEF IO!FIFO!Next

\* A write that succeeds types the oldest input that waits, also when watchExit
\* has emptied the queue meanwhile; the others change nothing.
LEMMA WriteTypes ==
  ASSUME InputInv, WaitingIs, WaitingIs', IO!Write
  PROVE  IO!FIFO!Next \/ UNCHANGED IO!FIFO!fifo
<1> USE DEF InputInv, InputTypes
<1>1. /\ step = "taken" /\ sending \in Requests
      /\ UNCHANGED <<terminal, pendingInput, sending, answers>>
      /\ \/ step' \in {"held", "failed"} /\ screen' = screen
         \/ step' = "written" /\ screen' = Append(screen, sending) /\ terminal # "gone"
  BY DEF IO!Write, Taken, IO!userVars
<1>2. CASE step' \in {"held", "failed"} /\ screen' = screen
  BY <1>1, <1>2 DEF WaitingIs, IO!FIFO!fifo
<1>3. CASE step' = "written" /\ screen' = Append(screen, sending) /\ terminal # "gone"
  <2>1. pendingInput # <<>> /\ Head(pendingInput) = sending
    BY <1>1, <1>3 DEF Taken, IO!IsHead
  <2>2. IO!Waiting = pendingInput /\ IO!Waiting' = Tail(pendingInput)
    BY <1>1, <1>3 DEF WaitingIs
  <2> QED
    BY <1>1, <1>3, <2>1, <2>2 DEF IO!FIFO!Next, IO!FIFO!Type
<1> QED
  BY <1>1, <1>2, <1>3

\* The caller of an input that was held back is answered once its session is
\* forgotten.
LEMMA PutBackGivesUp ==
  ASSUME InputInv, WaitingIs, WaitingIs', IO!PutBack
  PROVE  IO!FIFO!Next \/ UNCHANGED IO!FIFO!fifo
<1> USE DEF InputInv, InputTypes
<1>1. /\ step = "held" /\ step' = "none" /\ sending \in Requests
      /\ UNCHANGED <<terminal, pendingInput, screen>>
  BY DEF IO!PutBack, Taken, IO!userVars
<1>2. CASE IO!IsHead
  <2>1. answers' = answers /\ terminal # "gone"
    BY <1>2 DEF IO!PutBack, Taken, IO!IsHead, IO!userVars
  <2> QED
    BY <1>1, <2>1 DEF WaitingIs, IO!FIFO!fifo
<1>3. CASE ~IO!IsHead
  <2>1. terminal = "gone" /\ answers' = [answers EXCEPT ![sending] = @ + 1]
    BY <1>1, <1>3 DEF IO!PutBack, Taken
  <2>2. IO!Waiting = <<sending>> /\ IO!Waiting' = <<>> /\ answers[sending] = 0
    BY <1>1, <2>1 DEF WaitingIs, Taken
  <2>3. IO!Waiting # <<>> /\ sending = Head(IO!Waiting) /\ Tail(IO!Waiting) = <<>>
    BY <2>2
  <2> QED
    BY <1>1, <2>1, <2>2, <2>3, FirstGivenUp
<1> QED
  BY <1>2, <1>3

\* The end of a flush confirms an input that was typed, and gives one up whose
\* write failed.
LEMMA FinishAnswers ==
  ASSUME InputInv, WaitingIs, WaitingIs', IO!Finish
  PROVE  IO!FIFO!Next
<1> USE DEF InputInv, InputTypes
<1>1. /\ step \in {"written", "failed"} /\ step' = "none"
      /\ sending \in Requests /\ answers[sending] = 0
      /\ answers' = [answers EXCEPT ![sending] = @ + 1]
      /\ pendingInput' = IF IO!IsHead THEN Tail(pendingInput) ELSE pendingInput
      /\ UNCHANGED <<terminal, screen>>
  BY DEF IO!Finish, Taken, IO!userVars
<1>2. answers' = [r \in Requests |-> IF r \in {sending} THEN 1 ELSE answers[r]]
  BY <1>1, AnsweredOnce
<1>3. CASE step = "written"
  <2>1. IO!Waiting' = IO!Waiting
    BY <1>1, <1>3 DEF WaitingIs, Taken
  <2>2. sending \in IO!FIFO!InSeq(screen) \cap IO!FIFO!Unanswered
    BY <1>1, <1>3 DEF Typed, IO!FIFO!InSeq, IO!FIFO!Unanswered
  <2> QED
    BY <1>1, <1>2, <2>1, <2>2 DEF IO!FIFO!Next, IO!FIFO!Confirm, IO!FIFO!Answer
<1>4. CASE step = "failed" /\ terminal = "gone"
  <2>1. IO!Waiting = <<sending>> /\ IO!Waiting' = <<>>
    BY <1>1, <1>4 DEF WaitingIs
  <2>2. IO!Waiting # <<>> /\ sending = Head(IO!Waiting) /\ Tail(IO!Waiting) = <<>>
    BY <2>1
  <2> QED
    BY <1>1, <2>1, <2>2, FirstGivenUp
<1>5. CASE step = "failed" /\ terminal # "gone"
  <2>1. /\ pendingInput # <<>> /\ Head(pendingInput) = sending
        /\ IO!Waiting = pendingInput /\ IO!Waiting' = Tail(IO!Waiting)
    BY <1>1, <1>5 DEF WaitingIs, Taken, IO!IsHead
  <2> QED
    BY <1>1, <2>1, FirstGivenUp
<1> QED
  BY <1>1, <1>3, <1>4, <1>5

\* watchExit gives up everything that is queued, but for the input that a flush has
\* taken, which its flush answers.
LEMMA WatchExitGivesUp ==
  ASSUME InputInv, WaitingIs, WaitingIs', IO!WatchExit
  PROVE  IO!FIFO!Next \/ UNCHANGED IO!FIFO!fifo
<1> USE DEF InputInv, InputTypes
<1> DEFINE A == IO!InSeq(IO!Abandoned)
<1>1. /\ terminal = "ended" /\ terminal' = "gone"
      /\ answers' = [r \in Requests |-> answers[r] + IF r \in A THEN 1 ELSE 0]
      /\ UNCHANGED <<sending, step, screen>>
  BY DEF IO!WatchExit
<1>2. IO!Waiting' = IF step \in {"taken", "held", "failed"} THEN <<sending>> ELSE <<>>
  BY <1>1 DEF WaitingIs
<1>3. A = {pendingInput[i] : i \in (IF step = "none" THEN 1 ELSE 2) .. Len(pendingInput)}
  BY <1>1, GivenUp
<1>4. \A r \in A : answers[r] = 0
  <2>1. Len(pendingInput) \in Nat
    OBVIOUS
  <2> QED
    BY <1>3, <2>1 DEF Queued
<1> HIDE DEF A
<1>5. answers' = [r \in Requests |-> IF r \in A THEN 1 ELSE answers[r]]
  <2>1. ASSUME NEW r \in Requests
        PROVE  answers[r] + (IF r \in A THEN 1 ELSE 0) = IF r \in A THEN 1 ELSE answers[r]
    BY <1>4
  <2> QED
    BY <1>1, <2>1
<1>6. CASE A = {}
  <2>1. answers' = answers
    BY <1>5, <1>6
  <2>2. IO!Waiting' = IO!Waiting
    <3>1. Len(pendingInput) \in Nat /\ (Len(pendingInput) >= 1 => pendingInput # <<>>)
          /\ (Len(pendingInput) = 0 => pendingInput = <<>>)
      BY EmptySeq
    <3>2. CASE step = "none"
      <4>1. ASSUME 1 <= Len(pendingInput) PROVE pendingInput[1] \in A
        BY <1>3, <3>1, <3>2, <4>1
      <4>2. pendingInput = <<>>
        BY <1>6, <3>1, <4>1
      <4> QED
        BY <1>1, <1>2, <3>2, <4>2 DEF WaitingIs
    <3>3. CASE step # "none"
      <4>1. pendingInput # <<>> /\ Head(pendingInput) = sending
        BY <1>1, <3>3 DEF Taken, IO!IsHead
      <4>2. ASSUME 2 <= Len(pendingInput) PROVE pendingInput[2] \in A
        BY <1>3, <3>1, <3>3, <4>2
      <4>3. Len(pendingInput) = 1
        <5>1. ~(2 <= Len(pendingInput))
          BY <1>6, <4>2
        <5>2. Len(pendingInput) # 0
          BY <3>1, <4>1
        <5>3. Len(pendingInput) \in Nat
          BY <3>1
        <5> QED
          BY ONLY <5>1, <5>2, <5>3, \A n \in Nat : n # 0 /\ ~(2 <= n) => n = 1
      <4>4. pendingInput = <<sending>>
        BY <4>1, <4>3
      <4>5. Tail(pendingInput) = <<>>
        BY <4>4
      <4> QED
        BY <1>1, <1>2, <3>3, <4>4, <4>5 DEF WaitingIs
    <3> QED
      BY <3>2, <3>3
  <2> QED
    BY <1>1, <2>1, <2>2 DEF IO!FIFO!fifo
<1>7. CASE A # {} /\ step = "none"
  <2>1. IO!Waiting = pendingInput /\ IO!Waiting' = <<>>
    BY <1>1, <1>2, <1>7 DEF WaitingIs
  <2>2. 1 <= Len(IO!Waiting) /\ A = {IO!Waiting[i] : i \in 1 .. Len(IO!Waiting)}
    BY <1>3, <1>7, <2>1
  <2> QED
    BY <1>1, <1>5, <2>1, <2>2, GivesUp
<1>8. CASE A # {} /\ step \in {"taken", "held", "failed"}
  <2>1. IO!Waiting = pendingInput /\ IO!Waiting' = <<sending>>
        /\ pendingInput # <<>> /\ sending = pendingInput[1]
    BY <1>1, <1>2, <1>8, HeadAndTail DEF WaitingIs, Taken, IO!IsHead
  <2>2. 2 <= Len(IO!Waiting) /\ A = {IO!Waiting[i] : i \in 2 .. Len(IO!Waiting)}
    BY <1>3, <1>8, <2>1
  <2> QED
    BY <1>1, <1>5, <2>1, <2>2, GivesUp
<1>9. CASE A # {} /\ step = "written"
  <2>1. IO!Waiting = Tail(pendingInput) /\ IO!Waiting' = <<>> /\ pendingInput # <<>>
    BY <1>1, <1>2, <1>9 DEF WaitingIs, Taken, IO!IsHead
  <2>2. Len(IO!Waiting) = Len(pendingInput) - 1 /\ Len(pendingInput) \in Nat
        /\ \A i \in 1 .. Len(IO!Waiting) : IO!Waiting[i] = pendingInput[i + 1]
    BY <2>1, HeadAndTail
  <2>3. \A r : r \in A <=> r \in {IO!Waiting[i] : i \in 1 .. Len(IO!Waiting)}
    <3>1. ASSUME NEW r \in A PROVE r \in {IO!Waiting[i] : i \in 1 .. Len(IO!Waiting)}
      <4>1. PICK i \in 2 .. Len(pendingInput) : r = pendingInput[i]
        BY <1>3, <1>9, <3>1
      <4>2. i - 1 \in 1 .. Len(IO!Waiting) /\ IO!Waiting[i - 1] = r
        BY <2>2, <4>1
      <4> QED
        BY <4>2
    <3>2. ASSUME NEW i \in 1 .. Len(IO!Waiting) PROVE IO!Waiting[i] \in A
      <4>1. i + 1 \in 2 .. Len(pendingInput) /\ IO!Waiting[i] = pendingInput[i + 1]
        BY <2>2
      <4> QED
        BY <1>3, <1>9, <4>1
    <3> QED
      BY <3>1, <3>2
  <2>4. A = {IO!Waiting[i] : i \in 1 .. Len(IO!Waiting)}
    BY <2>3
  <2>5. 1 <= Len(IO!Waiting)
    BY <1>9, <2>2, <2>4
  <2> QED
    BY <1>1, <1>5, <2>1, <2>4, <2>5, GivesUp
<1> QED
  BY <1>6, <1>7, <1>8, <1>9

\* Every step of the office is a step of the queue, or leaves it alone.
LEMMA QueueStep ==
  ASSUME InputInv, WaitingIs, WaitingIs', [Next]_vars
  PROVE  IO!FIFO!Next \/ UNCHANGED IO!FIFO!fifo
<1>1. CASE UNCHANGED queuePart
  <2>1. UNCHANGED <<terminal, pendingInput, sending, step, screen, answers>>
    BY <1>1 DEF queuePart
  <2>2. IO!Waiting' = IO!Waiting
    <3>1. CASE terminal = "gone"
      <4>1. <<sending'>> = <<sending>>
        BY <2>1
      <4>2. IO!Waiting' = IF step' \in {"taken", "held", "failed"} THEN <<sending'>> ELSE <<>>
        BY <2>1, <3>1 DEF WaitingIs
      <4>3. IO!Waiting = IF step \in {"taken", "held", "failed"} THEN <<sending>> ELSE <<>>
        BY <3>1 DEF WaitingIs
      <4> QED
        BY ONLY <2>1, <4>1, <4>2, <4>3
    <3>2. CASE terminal # "gone"
      BY <2>1, <3>2 DEF WaitingIs
    <3> QED
      BY <3>1, <3>2
  <2> QED
    BY <2>1, <2>2 DEF IO!FIFO!fifo
<1>2. CASE UNCHANGED ioVars
  BY <1>1, <1>2 DEF ioVars, queuePart
<1>3. CASE IO!FlushTakes
  <2>1. step = "none" /\ step' = "taken" /\ terminal # "gone"
        /\ UNCHANGED <<terminal, pendingInput, screen, answers>>
    BY <1>3 DEF IO!FlushTakes, InputInv, Taken, IO!userVars
  <2> QED
    BY <2>1 DEF WaitingIs, IO!FIFO!fifo
<1>4. CASE IO!Registered \/ IO!Ends
  <2>1. UNCHANGED <<pendingInput, sending, step, screen, answers>>
        /\ terminal # "gone" /\ terminal' # "gone"
    BY <1>4 DEF IO!Registered, IO!Ends, IO!inputVars
  <2>2. IO!Waiting' = IO!Waiting
    BY <2>1 DEF WaitingIs
  <2> QED
    BY <2>1, <2>2 DEF IO!FIFO!fifo
<1> QED
  BY <1>1, <1>2, <1>3, <1>4, IOMoves, QueueMoves, AcceptQueues, WriteTypes, PutBackGivesUp,
     FinishAnswers, WatchExitGivesUp

\* agent.input, flushAgentInput and watchExit implement the queue of InputFIFO: what
\* is accepted is typed in that order, and every caller is answered at most once,
\* with success only after its input was typed.
THEOREM InputsRefine == Spec => InputsInOrder
<1>1. InputInv => WaitingIs
  BY WaitingNow
<1>2. Init => IO!FIFO!Init
  BY DEF Init, IO!Init, IO!FIFO!Init, IO!Waiting, IO!IsHead
<1>3. InputInv /\ WaitingIs /\ WaitingIs' /\ [Next]_vars => [IO!FIFO!Next]_(IO!FIFO!fifo)
  BY QueueStep
<1> QED
  BY InputsCorrect, <1>1, <1>2, <1>3, PTL DEF Spec, InputsInOrder, IO!InputsInOrder, IO!FIFO!Spec

\* Truth values.
LEMMA FlagIs ==
  ASSUME NEW x, Flag(x)
  PROVE  x \in BOOLEAN
  BY DEF Flag

-----------------------------------------------------------------------------
(* Branch naming.                                                           *)

\* A step of the office is one of BranchNaming, or leaves that part alone.
LEMMA NamerMoves ==
  ASSUME [Next]_vars
  PROVE  Namer!Next \/ UNCHANGED namerVars
  BY DEF Next, vars, Others, Namer!Next

NamerTypes ==
  /\ asking \in {"no", "asked", "waiting", "late", "over"}
  /\ Flag(waiting) /\ Flag(retry) /\ Flag(jobCancelled)
  /\ result \in ValidNames \cup {NoName, Failed}
  /\ chosen \in ValidNames \cup {NoName, Failed, Fallback}
  /\ namer \in [Namer!Namers -> {"none", "living", "done", "dead"}]
  /\ by \in 0 .. MaxNamers /\ exits \subseteq Namer!Namers /\ accepted \subseteq ValidNames

\* The one name that was accepted is what the channel holds; nothing is accepted
\* before the channel is taken away or after the timeout took it; no naming agent
\* is there before the channel; and what was accepted is chosen in the end.
Answered ==
  /\ accepted \subseteq {result}
  /\ waiting => asking \in {"asked", "waiting"} /\ result = NoName
  /\ waiting \/ asking \in {"no", "asked", "late"} => accepted = {}
  /\ asking \in {"no", "asked"} =>
       exits = {} /\ ~retry /\ \A n \in Namer!Namers : namer[n] = "none"
  /\ asking = "no" => result = NoName
  /\ asking = "over" /\ accepted # {} => chosen = result

NamerInv == NamerTypes /\ Answered

\* deliverBranchNameResult takes the channel away, or does nothing.
LEMMA Delivers ==
  ASSUME NamerInv, NEW r \in ValidNames \cup {Failed}, NEW n \in 0 .. MaxNamers,
         Namer!Deliver(r, n)
  PROVE  /\ Flag(waiting') /\ result' \in ValidNames \cup {NoName, Failed} /\ by' \in 0 .. MaxNamers
         /\ \/ waiting' = waiting /\ result' = result
            \/ waiting /\ ~waiting' /\ result' = r /\ accepted = {}
  BY DEF NamerInv, NamerTypes, Answered, Flag, Namer!Deliver

\* What a naming agent does, or what becomes of it, once there is one: the rows and
\* the exits change, and a result may be delivered.
LEMMA NamerActs ==
  ASSUME NamerInv, asking \notin {"no", "asked"}, NEW r \in ValidNames \cup {Failed},
         NEW n \in 0 .. MaxNamers,
         Namer!Deliver(r, n) \/ UNCHANGED <<result, by, waiting>>,
         UNCHANGED <<asking, chosen>>,
         \/ accepted' = accepted
         \/ Namer!Deliver(r, n) /\ r \in ValidNames /\ waiting /\ accepted' = accepted \cup {r},
         namer' \in [Namer!Namers -> {"none", "living", "done", "dead"}],
         exits' \subseteq Namer!Namers, Flag(retry'), Flag(jobCancelled')
  PROVE  NamerInv'
<1>1. /\ Flag(waiting') /\ result' \in ValidNames \cup {NoName, Failed} /\ by' \in 0 .. MaxNamers
      /\ \/ waiting' = waiting /\ result' = result
         \/ waiting /\ ~waiting' /\ result' = r /\ accepted = {}
  BY Delivers DEF NamerInv, NamerTypes
<1>2. accepted' \in {accepted, accepted \cup {r}} /\ (accepted' # accepted => waiting /\ result' = r /\ ~waiting' /\ r \in ValidNames)
  BY DEF Namer!Deliver
<1>3. NamerTypes'
  BY <1>1, <1>2 DEF NamerInv, NamerTypes
<1>4. Answered'
  <2>1. CASE accepted' = accepted
    BY <1>1, <2>1 DEF NamerInv, Answered
  <2>2. CASE accepted' # accepted
    <3>1. accepted' = {r} /\ result' = r /\ ~waiting' /\ asking' = "waiting"
      BY <1>2, <2>2 DEF NamerInv, Answered
    <3> QED
      BY <3>1 DEF Answered
  <2> QED
    BY <2>1, <2>2
<1> QED
  BY <1>3, <1>4 DEF NamerInv

\* What agents do, or what is done to them, while the dispatcher waits.
LEMMA NamerStepKeeps ==
  ASSUME NamerInv, Namer!NamerStep \/ Namer!RetryHandshake
  PROVE  NamerInv'
<1> USE DEF Namer!Namers
<1>1. /\ Flag(retry) /\ Flag(jobCancelled) /\ exits \subseteq Namer!Namers
      /\ namer \in [Namer!Namers -> {"none", "living", "done", "dead"}]
      /\ 0 \in 0 .. MaxNamers /\ Failed \in ValidNames \cup {Failed} /\ Namer!Namers \subseteq 0 .. MaxNamers
  BY Numbers DEF NamerInv, NamerTypes
<1>2. ASSUME NEW n \in Namer!Namers, namer[n] # "none" \/ n \in exits
      PROVE  asking \notin {"no", "asked"}
  BY <1>2 DEF NamerInv, Answered
<1>3. ASSUME NEW n \in Namer!Namers, NEW name \in ValidNames, Namer!Answer(n, name)
      PROVE  NamerInv'
  <2>1. asking \notin {"no", "asked"}
    BY <1>2, <1>3 DEF Namer!Answer
  <2>2. Namer!Deliver(name, n) /\ UNCHANGED <<asking, chosen, namer, exits, retry, jobCancelled>>
        /\ (accepted' = accepted \/ (waiting /\ accepted' = accepted \cup {name}))
    BY <1>3 DEF Namer!Answer
  <2>3. name \in ValidNames \cup {Failed} /\ n \in 0 .. MaxNamers
    BY <1>1
  <2> QED
    BY <1>1, <2>1, <2>2, <2>3, NamerActs
<1>4. ASSUME NEW n \in Namer!Namers,
             \/ Namer!DoneWithoutName(n) \/ Namer!Killed(n) \/ Namer!Exits(n)
             \/ Namer!HandshakeFails(n)
      PROVE  NamerInv'
  <2>1. asking \notin {"no", "asked"}
    BY <1>2, <1>4 DEF Namer!DoneWithoutName, Namer!Killed, Namer!Exits, Namer!HandshakeFails,
       Namer!Living
  <2>2. /\ Namer!Deliver(Failed, 0) \/ UNCHANGED <<result, by, waiting>>
        /\ UNCHANGED <<asking, chosen, accepted>>
    BY <1>4 DEF Namer!DoneWithoutName, Namer!Killed, Namer!Exits, Namer!HandshakeFails
  <2>3. /\ namer' \in [Namer!Namers -> {"none", "living", "done", "dead"}]
        /\ exits' \subseteq Namer!Namers /\ Flag(retry') /\ Flag(jobCancelled')
    BY <1>1, <1>4 DEF Namer!DoneWithoutName, Namer!Killed, Namer!Exits, Namer!HandshakeFails, Flag
  <2> QED
    BY <1>1, <2>1, <2>2, <2>3, NamerActs
<1>5. CASE Namer!RetryHandshake
  <2>1. asking \notin {"no", "asked"}
    BY <1>5 DEF Namer!RetryHandshake, NamerInv, Answered
  <2>2. /\ Namer!Deliver(Failed, 0) \/ UNCHANGED <<result, by, waiting>>
        /\ UNCHANGED <<asking, chosen, accepted, exits, jobCancelled>> /\ Flag(retry')
        /\ namer' \in [Namer!Namers -> {"none", "living", "done", "dead"}]
    BY <1>1, <1>5 DEF Namer!RetryHandshake, Namer!StartNamer, Flag
  <2> QED
    BY <1>1, <2>1, <2>2, NamerActs
<1> QED
  BY <1>3, <1>4, <1>5 DEF Namer!NamerStep

\* The dispatcher takes what the channel holds.
LEMMA AnswerUsed ==
  ASSUME NamerInv, asking = "waiting", ~waiting, result # NoName, Namer!Finish,
         UNCHANGED <<waiting, result, by, retry, accepted, jobCancelled>>
  PROVE  NamerInv'
<1>1. /\ asking' = "over" /\ chosen' = result /\ exits' \subseteq Namer!Namers
      /\ namer' \in [Namer!Namers -> {"none", "living", "done", "dead"}]
  BY DEF Namer!Finish, NamerInv, NamerTypes, Namer!Living
<1>2. NamerTypes'
  BY <1>1 DEF NamerInv, NamerTypes
<1>3. Answered'
  BY <1>1 DEF NamerInv, Answered
<1> QED
  BY <1>2, <1>3 DEF NamerInv

\* What the dispatcher does in branchNameForJob, and the end of its job.
LEMMA DispatcherStepKeeps ==
  ASSUME NamerInv, Namer!DispatcherStep \/ Namer!CancelJob
  PROVE  NamerInv'
<1> USE DEF NamerInv, NamerTypes, Answered, Flag, Namer!Living, Namer!Namers
<1>1. CASE Namer!Ask
  BY <1>1 DEF Namer!Ask
<1>2. CASE Namer!SpawnSucceeds
  BY <1>2 DEF Namer!SpawnSucceeds, Namer!StartNamer
<1>3. CASE Namer!SpawnFails
  BY <1>3 DEF Namer!SpawnFails
<1>4. CASE Namer!Receive
  <2>1. ~waiting
    BY <1>4 DEF Namer!Receive
  <2> QED
    BY <1>4, <2>1, AnswerUsed DEF Namer!Receive
<1>5. CASE Namer!Timeout
  <2>1. CASE waiting
    BY <1>5, <2>1 DEF Namer!Timeout
  <2>2. CASE ~waiting
    BY <1>5, <2>2, AnswerUsed DEF Namer!Timeout
  <2> QED
    BY <2>1, <2>2
<1>6. CASE Namer!UseFallback
  BY <1>6 DEF Namer!UseFallback
<1>7. CASE Namer!CancelJob
  BY <1>7 DEF Namer!CancelJob
<1> QED
  BY <1>1, <1>2, <1>3, <1>4, <1>5, <1>6, <1>7 DEF Namer!DispatcherStep

\* NamerInv holds in every behaviour of the office.
LEMMA NamerCorrect == Spec => []NamerInv
<1>1. Init => NamerInv
  BY OfficeConstants, Numbers
  DEF Init, Namer!Init, NamerInv, NamerTypes, Answered, Flag, Namer!Namers
<1>2. NamerInv /\ [Next]_vars => NamerInv'
  <2> SUFFICES ASSUME NamerInv, [Next]_vars PROVE NamerInv'
    OBVIOUS
  <2>1. CASE UNCHANGED namerVars
    BY <2>1 DEF namerVars, NamerInv, NamerTypes, Answered, Namer!Namers
  <2> QED
    BY <2>1, NamerMoves, NamerStepKeeps, DispatcherStepKeeps DEF Namer!Next
<1> QED
  BY <1>1, <1>2, PTL DEF Spec

\* The types of the part.
LEMMA NamerTyped ==
  ASSUME NamerInv
  PROVE  Namer!TypeOK
<1>1. waiting \in BOOLEAN /\ retry \in BOOLEAN /\ jobCancelled \in BOOLEAN
  BY FlagIs DEF NamerInv, NamerTypes
<1> QED
  BY <1>1 DEF NamerInv, NamerTypes, Namer!TypeOK

\* The one name a naming agent was told is accepted is the branch of the job
\* (branch.name and deliverBranchNameResult against the timeout of
\* branchNameForJob), however many agents answer and whenever they end.
THEOREM NameKept == Spec => [](part = "namer" => Namer!AcceptedNameIsUsed)
<1>1. NamerInv => Namer!AcceptedNameIsUsed
  <2> SUFFICES ASSUME NamerInv PROVE Namer!AcceptedNameIsUsed
    OBVIOUS
  <2>1. accepted = {} \/ accepted = {result}
    BY DEF NamerInv, Answered
  <2>2. Cardinality(accepted) <= 1
    <3>1. Cardinality({}) = 0 /\ Cardinality({result}) = 1
      BY FS_EmptySet, FS_Singleton
    <3> QED
      BY <2>1, <3>1
  <2>3. asking = "over" /\ accepted # {} => chosen \in accepted
    BY <2>1 DEF NamerInv, Answered
  <2>4. Namer!Cardinality(accepted) = Cardinality(accepted)
    BY DEF Namer!Cardinality, Cardinality
  <2> QED
    BY <2>2, <2>3, <2>4 DEF Namer!AcceptedNameIsUsed
<1> QED
  BY NamerCorrect, <1>1, PTL
-----------------------------------------------------------------------------
(* Incidents and firefighters.                                              *)

\* A step of the office is one of Incidents, or leaves that part alone.
LEMMA FireMoves ==
  ASSUME [Next]_vars
  PROVE  Fire!Next \/ UNCHANGED fireVars
  BY DEF Next, vars, Others, Fire!Next

FirePicks == [from : {0} \cup Fire!Firefighters, id : Fire!IncidentIDs,
              at : {"count", "read", "spawn"}]

FireTypes ==
  /\ Flag(stranded)
  /\ incident \in [Fire!IncidentIDs -> {"none", "open", "resolved"}]
  /\ firefighter \in [Fire!Firefighters -> {"none", "living", "over", "exited", "gone"}]
  /\ fights \in [Fire!Firefighters -> {0} \cup Fire!IncidentIDs]
  /\ replacing \in [Fire!Firefighters -> {"no", "restart", "retry"}]
  /\ picks \subseteq FirePicks
  /\ fireEvents \in 0 .. MaxFireEvents

FireInv == FireTypes /\ Fire!IncidentAttended

\* Some number of a set of numbers is the smallest.
LEMMA Smallest ==
  ASSUME NEW T, T \subseteq Nat, T # {}
  PROVE  \E k \in T : \A l \in T : k <= l
<1>1. PICK k \in T : \A l \in T : ~(<<l, k>> \in OpToRel(<, Nat))
  BY NatLessThanWellFounded, WFMin, Zenon
<1>2. \A l \in T : ~(l < k)
  BY <1>1 DEF OpToRel
<1>3. \A l \in T : l \in Nat /\ k \in Nat
  OBVIOUS
<1>4. \A l \in T : k <= l
  BY <1>2, <1>3
<1> QED
  BY <1>4

\* What happens to incidents.
LEMMA IncidentStepKeeps ==
  ASSUME FireInv, Fire!IncidentStep
  PROVE  FireInv'
<1> USE DEF FireInv, FireTypes, FirePicks
<1>1. ASSUME NEW i \in Fire!IncidentIDs, Fire!AlarmFiles(i) \/ Fire!FirefighterFiles(i)
      PROVE  FireInv'
  <2>1. /\ incident' = [incident EXCEPT ![i] = "open"] /\ picks' = picks \cup {Fire!Pick(0, i)}
        /\ UNCHANGED <<firefighter, fights, replacing, stranded, fireEvents>>
    BY <1>1 DEF Fire!AlarmFiles, Fire!FirefighterFiles, Fire!File
  <2>2. Fire!Pick(0, i) \in FirePicks
    BY DEF Fire!Pick
  <2>3. FireTypes'
    BY <2>1, <2>2 DEF Flag
  <2>4. picks' # {}
    BY <2>1
  <2> QED
    BY <2>3, <2>4 DEF Fire!IncidentAttended
<1>2. ASSUME NEW i \in Fire!IncidentIDs, Fire!Resolve(i)
      PROVE  FireInv'
  <2>1. /\ incident' = [incident EXCEPT ![i] = "resolved"] /\ i \in Fire!Open
        /\ UNCHANGED <<firefighter, fights, replacing, picks, stranded, fireEvents>>
    BY <1>2 DEF Fire!Resolve
  <2> QED
    BY <2>1 DEF Fire!IncidentAttended, Fire!Open
<1> QED
  BY <1>1, <1>2 DEF Fire!IncidentStep

\* What the goroutines do that are on their way to a firefighter.
LEMMA PickStepKeeps ==
  ASSUME FireInv, Fire!PickStep
  PROVE  FireInv'
<1> USE DEF FireInv, FireTypes, FirePicks, Flag
<1> SUFFICES ASSUME NEW p \in picks,
                    \/ Fire!Count(p) \/ Fire!Reread(p) \/ Fire!SpawnFirefighter(p)
                    \/ Fire!SpawnFails(p)
             PROVE  FireInv'
  BY DEF Fire!PickStep
<1>1. p \in FirePicks
  OBVIOUS
<1>2. CASE Fire!Count(p)
  <2>1. UNCHANGED <<incident, firefighter, fights, replacing, stranded, fireEvents>>
        /\ picks' \subseteq FirePicks
    BY <1>1, <1>2 DEF Fire!Count
  <2>2. CASE Fire!Fighting = {}
    <3>1. [p EXCEPT !.at = "read"] \in picks'
      BY <1>2, <2>2 DEF Fire!Count
    <3> QED
      BY <2>1, <3>1 DEF Fire!IncidentAttended
  <2>3. CASE Fire!Fighting # {}
    <3>1. \E f \in Fire!Firefighters : firefighter'[f] \in {"living", "over", "exited"}
      BY <2>1, <2>3 DEF Fire!Fighting
    <3> QED
      BY <2>1, <3>1 DEF Fire!IncidentAttended
  <2> QED
    BY <2>2, <2>3
<1>3. CASE Fire!Reread(p)
  BY <1>1, <1>3 DEF Fire!Reread, Fire!IncidentAttended, Fire!Open
<1>4. CASE Fire!SpawnFirefighter(p)
  <2>1. PICK f \in Fire!Firefighters : Fire!StartFirefighter(f, p.id)
    BY <1>4 DEF Fire!SpawnFirefighter
  <2>2. UNCHANGED <<incident, replacing, fireEvents>> /\ picks' = picks \ {p}
    BY <1>4 DEF Fire!SpawnFirefighter
  <2>3. FireTypes'
    BY <1>1, <2>1, <2>2 DEF Fire!StartFirefighter
  <2>4. firefighter'[f] = "living"
    BY <2>1 DEF Fire!StartFirefighter
  <2> QED
    BY <2>3, <2>4 DEF Fire!IncidentAttended
<1>5. CASE Fire!SpawnFails(p)
  BY <1>5, Numbers DEF Fire!SpawnFails, Fire!FireEvent, Fire!IncidentAttended
<1> QED
  BY <1>2, <1>3, <1>4, <1>5

\* What firefighters do and what becomes of them.
LEMMA FirefighterStepKeeps ==
  ASSUME FireInv, Fire!FirefighterStep
  PROVE  FireInv'
<1> USE DEF FireInv, FireTypes, Flag
<1>1. ASSUME NEW f \in Fire!Firefighters, NEW why \in {"no", "restart", "retry"},
             Fire!FirefighterEnds(f, why)
      PROVE  FireInv'
  <2>1. PICK s \in {"over", "exited"} : firefighter' = [firefighter EXCEPT ![f] = s]
    BY <1>1 DEF Fire!FirefighterEnds
  <2>2. replacing' = [replacing EXCEPT ![f] = why]
        /\ UNCHANGED <<incident, fights, picks, stranded, fireEvents>>
    BY <1>1 DEF Fire!FirefighterEnds
  <2>3. firefighter'[f] \in {"living", "over", "exited"}
    BY <2>1
  <2>4. FireTypes'
    BY <2>1, <2>2
  <2> QED
    BY <2>3, <2>4 DEF Fire!IncidentAttended
<1>2. ASSUME NEW f \in Fire!Firefighters, Fire!ProcessEnds(f)
      PROVE  FireInv'
  <2>1. firefighter' = [firefighter EXCEPT ![f] = "exited"]
        /\ UNCHANGED <<incident, fights, replacing, picks, stranded, fireEvents>>
    BY <1>2 DEF Fire!ProcessEnds
  <2>2. firefighter'[f] \in {"living", "over", "exited"}
    BY <2>1
  <2> QED
    BY <2>1, <2>2 DEF Fire!IncidentAttended
<1>3. ASSUME NEW f \in Fire!Firefighters, Fire!Replace(f)
      PROVE  FireInv'
  <2>1. replacing' = [replacing EXCEPT ![f] = "no"] /\ UNCHANGED <<incident, picks, fireEvents>>
    BY <1>3 DEF Fire!Replace
  <2>2. CASE UNCHANGED <<firefighter, fights, stranded>>
    BY <2>1, <2>2 DEF Fire!IncidentAttended, Fire!Open
  <2>3. ASSUME NEW g \in Fire!Firefighters, Fire!StartFirefighter(g, fights[f])
        PROVE  FireInv'
    <3>1. FireTypes'
      BY <2>1, <2>3 DEF Fire!StartFirefighter
    <3>2. firefighter'[g] = "living"
      BY <2>3 DEF Fire!StartFirefighter
    <3> QED
      BY <3>1, <3>2 DEF Fire!IncidentAttended
  <2> QED
    BY <1>3, <2>2, <2>3 DEF Fire!Replace
<1>4. ASSUME NEW f \in Fire!Firefighters, Fire!HandsOver(f)
      PROVE  FireInv'
  <2> DEFINE P == {Fire!Pick(f, i) : i \in {j \in Fire!Open : \A k \in Fire!Open : j <= k}}
  <2>1. /\ firefighter' = [firefighter EXCEPT ![f] = "gone"] /\ picks' = picks \cup P
        /\ UNCHANGED <<incident, fights, replacing, stranded, fireEvents>>
    BY <1>4 DEF Fire!HandsOver
  <2>2. P \subseteq FirePicks
    BY DEF Fire!Pick, Fire!Open, FirePicks
  <2>3. ASSUME Fire!Open # {} PROVE picks' # {}
    <3>1. Fire!Open \subseteq Nat
      BY Numbers DEF Fire!Open, Fire!IncidentIDs
    <3>2. PICK i \in Fire!Open : \A k \in Fire!Open : i <= k
      BY <2>3, <3>1, Smallest
    <3>3. Fire!Pick(f, i) \in P
      BY <3>2
    <3> QED
      BY <2>1, <3>3
  <2>4. FireTypes'
    BY <2>1, <2>2
  <2>5. Fire!Open' = Fire!Open
    BY <2>1 DEF Fire!Open
  <2> QED
    BY <2>3, <2>4, <2>5 DEF Fire!IncidentAttended
<1> QED
  BY <1>1, <1>2, <1>3, <1>4 DEF Fire!FirefighterStep

\* FireInv holds in every behaviour of the office.
LEMMA FireCorrect == Spec => []FireInv
<1>1. Init => FireInv
  <2> SUFFICES ASSUME Init PROVE FireInv
    OBVIOUS
  <2>1. Fire!Init
    BY DEF Init
  <2>2. Fire!Open = {}
    BY <2>1 DEF Fire!Init, Fire!Open
  <2> QED
    BY <2>1, <2>2, Numbers DEF Fire!Init, FireInv, FireTypes, Flag, Fire!IncidentAttended
<1>2. FireInv /\ [Next]_vars => FireInv'
  <2> SUFFICES ASSUME FireInv, [Next]_vars PROVE FireInv'
    OBVIOUS
  <2>1. CASE UNCHANGED fireVars
    BY <2>1 DEF fireVars, FireInv, FireTypes, Fire!IncidentAttended, Fire!Open
  <2>2. CASE Fire!OfficeRestarts
    <3>1. Fire!Open' = {}
      BY <2>2 DEF Fire!OfficeRestarts, Fire!Open
    <3> QED
      BY <2>2, <3>1, Numbers DEF Fire!OfficeRestarts, Fire!FireEvent, FireInv, FireTypes, Flag,
         Fire!IncidentAttended
  <2> QED
    BY <2>1, <2>2, FireMoves, IncidentStepKeeps, PickStepKeeps, FirefighterStepKeeps
    DEF Fire!Next
<1> QED
  BY <1>1, <1>2, PTL DEF Spec

\* The types of the part.
LEMMA FireTyped ==
  ASSUME FireInv
  PROVE  Fire!TypeOK
<1>1. stranded \in BOOLEAN
  BY FlagIs DEF FireInv, FireTypes
<1> QED
  BY <1>1 DEF FireInv, FireTypes, FirePicks, Fire!TypeOK

\* An open incident has a firefighter that hands over when it ends, or somebody is
\* about to start one, or what kept one from starting was reported (onIncident,
\* watchExit and nextOpenIncident against kills, restarts and retries).
THEOREM FiresFought == Spec => [](part = "fire" => Fire!IncidentAttended)
<1>1. FireInv => Fire!IncidentAttended
  BY DEF FireInv
<1> QED
  BY FireCorrect, <1>1, PTL
-----------------------------------------------------------------------------
(* Safe shutdown, emergency stop and Close.                                 *)

\* A step of the office is one of OfficeStop, or leaves that part alone.
LEMMA StopMoves ==
  ASSUME [Next]_vars
  PROVE  Stop!Next \/ UNCHANGED stopVars
  BY DEF Next, vars, Others, Stop!Next

StopTypes ==
  /\ row \in [Agents -> {"none", "spawning", "ready", "over"}]
  /\ running \subseteq Agents /\ handoff \subseteq Agents \cup Stop!Earlier /\ finished \subseteq Agents
  /\ Flag(shutdownInProgress) /\ Flag(emergencyStop) /\ Flag(stopping)
  /\ beginning \in {"no", "tell", "list", "over"}
  /\ targets \subseteq Agents /\ polled \subseteq Agents
  /\ awaiting \in {"no", "poll", "ready", "expired"}
  /\ lifecycle \in {"unset", "safe", "ordinary"}
  /\ toldPlugins \in {"unset", "safe", "ordinary"}
  /\ read \in {"unset", "safe", "ordinary"}
  /\ closing \in {"open", "emit", "claim", "cancel", "loops", "kill", "closed"}
  /\ loops \in {"run", "busy", "ended"}
  /\ stopEvents \in 0 .. MaxStopEvents

\* A post has one agent at a time, which has not saved a handoff before it was ready:
\* so the agent that a handoff is given to is never the one whose acknowledgement
\* it is.
Posted ==
  /\ \A a, b \in Agents : Stop!Post(a) = Stop!Post(b) /\ row[a] \in {"spawning", "ready"}
                            /\ row[b] \in {"spawning", "ready"} => a = b
  /\ \A a \in Agents : a \in handoff => row[a] \in {"ready", "over"}

\* Whoever was polled acknowledged, and whoever is asked was there; a safe shutdown
\* asks once.
Heard ==
  /\ \A a \in targets : row[a] # "none"
  /\ polled \subseteq targets
  /\ \A a \in polled : row[a] = "over" \/ a \in finished \/ a \in handoff
  /\ awaiting = "ready" => polled = targets
  /\ beginning # "over" => awaiting = "no" /\ targets = {}
  /\ ~shutdownInProgress => beginning = "no"

\* What plugins are told was fixed when the stop began.
Fixed ==
  /\ toldPlugins # "unset" => toldPlugins = lifecycle
  /\ lifecycle = "ordinary" => toldPlugins = "ordinary"
  /\ lifecycle = "safe" => shutdownInProgress
  /\ shutdownInProgress => lifecycle # "unset"
  /\ beginning = "tell" => shutdownInProgress
  /\ read = "safe" => shutdownInProgress
  /\ closing = "claim" => read # "unset"

StopInv == StopTypes /\ Posted /\ Heard /\ Fixed

stopRest == <<shutdownInProgress, beginning, targets, awaiting, polled, lifecycle, toldPlugins,
              read, emergencyStop, stopping, closing, loops, stopEvents>>

\* What agents do: a handoff is taken by the next agent of the post only.
LEMMA StopAgentKeeps ==
  ASSUME StopInv, Stop!AgentStep
  PROVE  StopInv'
<1> USE DEF StopInv, StopTypes
<1> SUFFICES ASSUME NEW a \in Agents,
                    \/ Stop!Insert(a) \/ Stop!Register(a) \/ Stop!Ready(a) \/ Stop!Save(a)
                    \/ Stop!Completes(a) \/ Stop!Ends(a)
             PROVE  StopInv'
  BY DEF Stop!AgentStep
<1>1. UNCHANGED stopRest
  BY DEF stopRest, Stop!Insert, Stop!Register, Stop!Ready, Stop!Save, Stop!Completes, Stop!Ends,
     Stop!shutdownVars, Stop!tellVars, Stop!closeVars
<1>2. Fixed'
  BY <1>1 DEF stopRest, Fixed
<1>3. CASE Stop!Insert(a)
  <2>1. /\ row[a] = "none" /\ row' = [row EXCEPT ![a] = "spawning"]
        /\ \A b \in Agents : row[b] \in {"spawning", "ready"} => Stop!Post(b) # Stop!Post(a)
        /\ UNCHANGED <<running, handoff, finished>>
    BY <1>3 DEF Stop!Insert, Stop!Alive
  <2>2. StopTypes'
    BY <1>1, <2>1 DEF stopRest
  <2>3. Posted'
    BY <2>1 DEF Posted
  <2>4. Heard'
    BY <1>1, <2>1 DEF stopRest, Heard
  <2> QED
    BY <1>2, <2>2, <2>3, <2>4
<1>4. CASE Stop!Register(a)
  <2>1. /\ row[a] = "spawning" /\ (row' = row \/ row' = [row EXCEPT ![a] = "over"])
        /\ running' \subseteq Agents /\ UNCHANGED <<handoff, finished>>
    BY <1>4 DEF Stop!Register
  <2>2. StopTypes'
    BY <1>1, <2>1 DEF stopRest
  <2>3. Posted'
    BY <2>1 DEF Posted
  <2>4. Heard'
    BY <1>1, <2>1 DEF stopRest, Heard
  <2> QED
    BY <1>2, <2>2, <2>3, <2>4
<1>5. CASE Stop!Ready(a)
  <2>1. /\ row[a] = "spawning" /\ row' = [row EXCEPT ![a] = "ready"]
        /\ UNCHANGED <<running, finished>>
    BY <1>5 DEF Stop!Ready
  <2>2. \/ handoff' = handoff
        \/ \E b \in handoff : Stop!Post(b) = Stop!Post(a) /\ handoff' = handoff \ {b}
    BY <1>5 DEF Stop!Ready
  <2>3. StopTypes'
    BY <1>1, <2>1, <2>2 DEF stopRest
  <2>4. Posted'
    BY <2>1, <2>2 DEF Posted
  <2>5. ASSUME NEW b \in Agents, b \in handoff \ handoff'
        PROVE  row[b] = "over" /\ row'[b] = "over"
    BY <2>1, <2>2, <2>5 DEF Posted
  <2>6. Heard'
    <3>1. \A b \in targets : row'[b] # "none"
      BY <2>1 DEF Heard
    <3>2. ASSUME NEW b \in polled
          PROVE  row'[b] = "over" \/ b \in finished' \/ b \in handoff'
      BY <2>1, <2>5 DEF Heard
    <3> QED
      BY <1>1, <3>1, <3>2 DEF stopRest, Heard
  <2> QED
    BY <1>2, <2>3, <2>4, <2>6
<1>6. CASE Stop!Save(a)
  <2>1. row[a] = "ready" /\ handoff' = handoff \cup {a} /\ UNCHANGED <<row, running, finished>>
    BY <1>6 DEF Stop!Save
  <2> QED
    BY <1>1, <1>2, <2>1 DEF stopRest, Posted, Heard
<1>7. CASE Stop!Completes(a)
  <2>1. finished' = finished \cup {a} /\ UNCHANGED <<row, running, handoff>>
    BY <1>7 DEF Stop!Completes
  <2> QED
    BY <1>1, <1>2, <2>1 DEF stopRest, Posted, Heard
<1>8. CASE Stop!Ends(a)
  <2>1. /\ running' = running \ {a} /\ row' = [row EXCEPT ![a] = "over"]
        /\ UNCHANGED <<handoff, finished>>
    BY <1>8 DEF Stop!Ends
  <2>2. StopTypes'
    BY <1>1, <2>1 DEF stopRest
  <2>3. Posted' /\ Heard'
    BY <1>1, <2>1 DEF stopRest, Posted, Heard
  <2> QED
    BY <1>2, <2>2, <2>3
<1> QED
  BY <1>3, <1>4, <1>5, <1>6, <1>7, <1>8

\* What the shutdown does: it looks at one target after the other, and an
\* acknowledgement it has seen stays one.
LEMMA ShutdownKeeps ==
  ASSUME StopInv, Stop!ShutdownStep \/ Stop!Begin \/ Stop!EmergencyStop \/ Stop!Exit
  PROVE  StopInv'
<1> USE Numbers DEF StopInv, StopTypes, Posted, Heard, Fixed, Flag, Stop!agentVars, Stop!tellVars,
        Stop!closeVars, Stop!shutdownVars
<1>1. CASE Stop!Announce
  BY <1>1 DEF Stop!Announce, Stop!Claim
<1>2. CASE Stop!List
  BY <1>2 DEF Stop!List, Stop!Alive
<1>3. CASE Stop!Poll
  BY <1>3 DEF Stop!Poll, Stop!Acknowledged
<1>4. CASE Stop!AllAcknowledged \/ Stop!Expires
  BY <1>4 DEF Stop!AllAcknowledged, Stop!Expires
<1>5. CASE Stop!Begin
  BY <1>5 DEF Stop!Begin, Stop!StopEvent
<1>6. CASE Stop!EmergencyStop
  BY <1>6 DEF Stop!EmergencyStop, Stop!StopEvent
<1>7. CASE Stop!Exit
  <2>1. stopEvents' \in 0 .. MaxStopEvents /\ closing' = "emit"
    BY <1>7 DEF Stop!Exit, Stop!StopEvent, Stop!CloseStep
  <2> QED
    BY <1>7, <2>1 DEF Stop!Exit
<1> QED
  BY <1>1, <1>2, <1>3, <1>4, <1>5, <1>6, <1>7 DEF Stop!ShutdownStep

\* What Close does, and the next run of the office.
LEMMA CloseKeeps ==
  ASSUME StopInv, Stop!CloseStepTaken \/ Stop!LoopStep \/ Stop!Restart
  PROVE  StopInv'
<1> USE Numbers DEF StopInv, StopTypes, Posted, Heard, Fixed, Flag, Stop!agentVars, Stop!tellVars,
        Stop!closeVars, Stop!shutdownVars, Stop!CloseStep
<1>1. CASE Stop!EmitReads
  BY <1>1 DEF Stop!EmitReads
<1>2. CASE Stop!EmitClaims
  BY <1>2 DEF Stop!EmitClaims, Stop!Claim
<1>3. CASE Stop!Cancel \/ Stop!Closed
  BY <1>3 DEF Stop!Cancel, Stop!Closed
<1>4. CASE Stop!LoopsJoined
  BY <1>4 DEF Stop!LoopsJoined, Stop!Alive
<1>5. CASE Stop!LoopStep
  BY <1>5 DEF Stop!LoopStep, Stop!AwaitsNamer, Stop!NamerAnswers, Stop!NamerTimesOut, Stop!LoopsEnd
<1>6. CASE Stop!Restart
  BY <1>6 DEF Stop!Restart, Stop!Alive, Stop!StopEvent
<1> QED
  BY <1>1, <1>2, <1>3, <1>4, <1>5, <1>6 DEF Stop!CloseStepTaken

\* StopInv holds in every behaviour of the office.
LEMMA StopCorrect == Spec => []StopInv
<1>1. Init => StopInv
  <2> SUFFICES ASSUME Init PROVE StopInv
    OBVIOUS
  <2>1. Stop!Init
    BY DEF Init
  <2>2. \A a \in Agents : a \notin Stop!Earlier
    BY OfficeConstants DEF Stop!Earlier, Stop!Post
  <2> QED
    BY <2>1, <2>2, Numbers DEF Stop!Init, StopInv, StopTypes, Posted, Heard, Fixed, Flag
<1>2. StopInv /\ [Next]_vars => StopInv'
  <2> SUFFICES ASSUME StopInv, [Next]_vars PROVE StopInv'
    OBVIOUS
  <2>1. CASE UNCHANGED stopVars
    BY <2>1 DEF stopVars, StopInv, StopTypes, Posted, Heard, Fixed
  <2> QED
    BY <2>1, StopMoves, StopAgentKeeps, ShutdownKeeps, CloseKeeps DEF Stop!Next
<1> QED
  BY <1>1, <1>2, PTL DEF Spec

\* The types of the part.
LEMMA StopTyped ==
  ASSUME StopInv
  PROVE  Stop!TypeOK
<1>1. shutdownInProgress \in BOOLEAN /\ emergencyStop \in BOOLEAN /\ stopping \in BOOLEAN
  BY FlagIs DEF StopInv, StopTypes
<1> QED
  BY <1>1 DEF StopInv, StopTypes, Stop!TypeOK

\* Whatever plugins are told of a stop is what it is at that moment.
LEMMA ToldTruly ==
  ASSUME StopInv, [Next]_vars, toldPlugins' # toldPlugins, toldPlugins' # "unset"
  PROVE  (toldPlugins' = "safe") = shutdownInProgress
<1> USE DEF StopInv, StopTypes, Fixed, Flag
<1>1. CASE Stop!Announce
  BY <1>1 DEF Stop!Announce, Stop!Claim
<1>2. CASE Stop!EmitClaims
  BY <1>2 DEF Stop!EmitClaims, Stop!Claim, Stop!CloseStep
<1>3. Stop!Announce \/ Stop!EmitClaims
  BY StopMoves DEF Stop!Next, stopVars, Stop!AgentStep, Stop!ShutdownStep, Stop!CloseStepTaken,
     Stop!LoopStep, Stop!Insert, Stop!Register, Stop!Ready, Stop!Save, Stop!Completes, Stop!Ends,
     Stop!List, Stop!Poll, Stop!AllAcknowledged, Stop!Expires, Stop!Begin, Stop!EmergencyStop,
     Stop!Exit, Stop!EmitReads, Stop!Cancel, Stop!LoopsJoined, Stop!Closed, Stop!AwaitsNamer,
     Stop!NamerAnswers, Stop!NamerTimesOut, Stop!LoopsEnd, Stop!Restart, Stop!tellVars
<1> QED
  BY <1>1, <1>2, <1>3

\* A safe shutdown is over before its deadline only when every agent it asked has
\* acknowledged, although handoffs are given away meanwhile; and plugins are told
\* of a stop as it is, whichever of BeginSafeShutdown and Close comes first.
THEOREM ShutdownSafe == Spec => Stop!SafeShutdownKept
<1>1. StopInv => Stop!AgentsHeard
  BY DEF StopInv, Heard, Stop!AgentsHeard, Stop!Acknowledged
<1>2. StopInv /\ [Next]_vars => [toldPlugins' # toldPlugins /\ toldPlugins' # "unset" =>
                                   (toldPlugins' = "safe") = shutdownInProgress]_(Stop!vars)
  BY ToldTruly
<1> QED
  BY StopCorrect, <1>1, <1>2, PTL DEF Spec, Stop!SafeShutdownKept, Stop!ToldAsItIs
-----------------------------------------------------------------------------
(* The CEO.                                                                 *)

\* A step of the office is one of CEORestart, or leaves that part alone.
LEMMA CEOMoves ==
  ASSUME [Next]_vars
  PROVE  CEO!Next \/ UNCHANGED ceoVars
  BY DEF Next, vars, Others, CEO!Next

\* Who died, and was not ended: his death is still to be counted.
Mourned == {c \in CEO!CEOs : exit[c] = "unexpected" \/ (exit[c] = "exited" /\ ceo[c] # "dead")}
Started == {c \in CEO!CEOs : ceo[c] # "none"}

CEOTypes ==
  /\ ceo \in [CEO!CEOs -> {"none", "spawning", "working", "dead"}]
  /\ exit \in [CEO!CEOs -> {"none", "runs", "exited", "unexpected", "backoff", "over"}]
  /\ hand \in [CEO!CEOs -> {"none", "watches", "expired", "retry", "over"}]
  /\ attempt \in [CEO!CEOs -> 0 .. MaxRetries]
  /\ order \in [action : {"none", "kill", "restart"}, agent : CEO!CEOs,
                step : {"read", "killed", "over"}]
  /\ Flag(ceoYoung) /\ Flag(overlapped)
  /\ noCEO \in {"none", "killed", "told", "lost"}
  /\ ceoEvents \in 0 .. MaxCEOEvents /\ ceoFailures \in Nat /\ burst \in Nat
  /\ \A c \in CEO!CEOs : hand[c] = "retry" => attempt[c] < MaxRetries
  /\ \A c \in CEO!CEOs : ceo[c] = "none" => exit[c] = "none"

\* What counts deaths and starts: a death is counted once.
Counts ==
  /\ ceoFailures + Cardinality(Mourned) <= ceoEvents
  /\ burst <= Cardinality(Started)

\* Who is the CEO, or is about to start the next one: a living one, one whose death
\* was counted, one that was not ready in time, one that is to be replaced.
Claims == {x \in {"lives", "backoff", "retry", "order"} \X CEO!CEOs :
             \/ x[1] = "lives" /\ ceo[x[2]] \in {"spawning", "working"}
             \/ x[1] = "backoff" /\ exit[x[2]] = "backoff"
             \/ x[1] = "retry" /\ hand[x[2]] = "retry"
             \/ x[1] = "order" /\ order.step = "killed" /\ order.agent = x[2]}

\* There is one of these at a time, unless a CEO's end was decided on twice.
OneClaim ==
  ~overlapped => /\ \A x, y \in Claims : x = y
                 /\ \A c \in CEO!CEOs : exit[c] = "unexpected" =>
                                          ceo[c] \in {"spawning", "working"}

\* So many starts are the most that f counted deaths account for.
StartsFor(f) == f * (MaxRetries + 1)

\* What the starts of a burst are owed to: the deaths counted, each of them followed by
\* missed handshakes; whoever may start the next one leaves room for it.
Paced ==
  ~overlapped => /\ burst <= StartsFor(MaxRestarts + 1)
                 /\ ~ceoYoung => burst = 0
                 /\ \A x \in Claims : /\ ceoFailures <= MaxRestarts
                                      /\ x[1] \in {"lives", "retry"} =>
                                           burst <= StartsFor(ceoFailures) + attempt[x[2]] + 1
                                      /\ x[1] = "backoff" => burst <= StartsFor(ceoFailures)

CEOInv == CEOTypes /\ Counts /\ OneClaim /\ Paced

\* What is known of StartsFor.
LEMMA StartsGrow ==
  ASSUME NEW f \in Nat, NEW g \in Nat
  PROVE  /\ StartsFor(f) \in Nat
         /\ StartsFor(f + 1) = StartsFor(f) + MaxRetries + 1
         /\ f <= g => StartsFor(f) <= StartsFor(g)
<1> DEFINE k == MaxRetries + 1
<1>1. k \in Nat
  BY Numbers
<1>2. f * k \in Nat /\ (f + 1) * k = f * k + k
  BY <1>1
<1>3. ASSUME f <= g PROVE f * k <= g * k
  <2>1. PICK d \in Nat : g = f + d
    <3>1. g - f \in Nat /\ g = f + (g - f)
      BY <1>3
    <3> QED
      BY <3>1
  <2>2. g * k = f * k + d * k /\ d * k \in Nat /\ f * k \in Nat
    BY <1>1, <2>1
  <2> QED
    BY <2>2
<1>4. (f + 1) * k = f * k + MaxRetries + 1
  BY <1>1, <1>2, Numbers
<1> QED
  BY <1>2, <1>3, <1>4 DEF StartsFor

\* A step that makes no claim, or passes the only one on, keeps OneClaim.
LEMMA ClaimsPassed ==
  ASSUME OneClaim, NEW x, NEW y, ~overlapped' => ~overlapped,
         ~overlapped' => Claims' \subseteq Claims \/ (x \in Claims /\ Claims' \subseteq (Claims \ {x}) \cup {y}),
         ~overlapped' => \A c \in CEO!CEOs : exit'[c] = "unexpected" =>
                                               ceo'[c] \in {"spawning", "working"}
  PROVE  OneClaim'
  BY DEF OneClaim

\* How many CEOs there are in two sets of them.
LEMMA Counting ==
  ASSUME NEW S \in SUBSET CEO!CEOs, NEW T \in SUBSET CEO!CEOs
  PROVE  /\ Cardinality(S) \in Nat /\ Cardinality(S) <= MaxCEOs
         /\ T \subseteq S => Cardinality(T) <= Cardinality(S)
         /\ \A c \in CEO!CEOs : T \subseteq S \cup {c} => Cardinality(T) <= Cardinality(S) + 1
         /\ \A c \in S : T \subseteq S \ {c} => Cardinality(T) + 1 <= Cardinality(S)
         /\ \A c \in T : S \subseteq T \ {c} => Cardinality(S) + 1 <= Cardinality(T)
<1>1. IsFiniteSet(CEO!CEOs) /\ Cardinality(CEO!CEOs) = MaxCEOs
  BY Numbers, FS_Interval DEF CEO!CEOs
<1>2. /\ IsFiniteSet(S) /\ IsFiniteSet(T) /\ Cardinality(S) <= MaxCEOs
      /\ Cardinality(S) \in Nat /\ Cardinality(T) \in Nat
  BY <1>1, FS_Subset, FS_CardinalityType
<1>3. T \subseteq S => Cardinality(T) <= Cardinality(S)
  BY <1>2, FS_Subset
<1>4. ASSUME NEW c \in CEO!CEOs, T \subseteq S \cup {c}
      PROVE  Cardinality(T) <= Cardinality(S) + 1
  <2>1. IsFiniteSet(S \cup {c}) /\ Cardinality(S \cup {c}) <= Cardinality(S) + 1
    BY <1>2, FS_AddElement
  <2>2. Cardinality(T) <= Cardinality(S \cup {c}) /\ Cardinality(S \cup {c}) \in Nat
    BY <1>4, <2>1, FS_Subset, FS_CardinalityType
  <2> QED
    BY <1>2, <2>1, <2>2
<1>5. ASSUME NEW c \in S, T \subseteq S \ {c}
      PROVE  Cardinality(T) + 1 <= Cardinality(S)
  <2>1. IsFiniteSet(S \ {c}) /\ Cardinality(S \ {c}) = Cardinality(S) - 1
    BY <1>2, FS_RemoveElement
  <2>2. Cardinality(T) <= Cardinality(S \ {c})
    BY <1>5, <2>1, FS_Subset
  <2> QED
    BY <1>2, <2>1, <2>2
<1>6. ASSUME NEW c \in T, S \subseteq T \ {c}
      PROVE  Cardinality(S) + 1 <= Cardinality(T)
  <2>1. IsFiniteSet(T \ {c}) /\ Cardinality(T \ {c}) = Cardinality(T) - 1
    BY <1>2, FS_RemoveElement
  <2>2. Cardinality(S) <= Cardinality(T \ {c})
    BY <1>6, <2>1, FS_Subset
  <2> QED
    BY <1>2, <2>1, <2>2
<1> QED
  BY <1>2, <1>3, <1>4, <1>5, <1>6

\* A step that starts no CEO and of which nobody dies keeps the counts.
LEMMA CountsStay ==
  ASSUME CEOTypes, Counts, Mourned' \subseteq Mourned, Started \subseteq Started',
         UNCHANGED <<ceoFailures, burst, ceoEvents>>
  PROVE  Counts'
<1>1. Mourned \subseteq CEO!CEOs /\ Mourned' \subseteq CEO!CEOs
      /\ Started \subseteq CEO!CEOs /\ Started' \subseteq CEO!CEOs
  BY DEF Mourned, Started
<1>2. /\ Cardinality(Mourned) \in Nat /\ Cardinality(Mourned') \in Nat
      /\ Cardinality(Started) \in Nat /\ Cardinality(Started') \in Nat
      /\ Cardinality(Mourned') <= Cardinality(Mourned)
      /\ Cardinality(Started) <= Cardinality(Started')
  BY <1>1, Counting
<1> QED
  BY <1>2 DEF Counts, CEOTypes

\* A step that leaves Paced's numbers alone and makes no claim keeps it.
LEMMA PacedStays ==
  ASSUME CEOInv, ~overlapped' => ~overlapped, Claims' \subseteq Claims,
         UNCHANGED <<burst, attempt, ceoFailures>>, ceoYoung' = ceoYoung \/ ceoYoung'
  PROVE  Paced'
  BY DEF Paced, StartsFor, CEOInv

\* What becomes of counts and claims when a goroutine that has the claim x starts a
\* CEO, or fails to; ends and hands are what it leaves.
LEMMA StartKeeps ==
  ASSUME CEOInv, NEW n \in 0 .. MaxRetries, NEW ends, NEW hands, NEW x \in Claims,
         NEW why \in {"lost", "told"},
         CEO!SpawnOrFail(n, ends, hands, why),
         ends \in [CEO!CEOs -> {"none", "runs", "exited", "unexpected", "backoff", "over"}],
         hands \in [CEO!CEOs -> {"none", "watches", "expired", "retry", "over"}],
         \A c \in CEO!CEOs : ends[c] # exit[c] => ends[c] = "over" /\ x = <<"backoff", c>>,
         \A c \in CEO!CEOs : hands[c] # hand[c] => hands[c] = "over" /\ x = <<"retry", c>>,
         x[1] = "backoff" => ends[x[2]] = "over",
         x[1] = "retry" => hands[x[2]] = "over" /\ n = attempt[x[2]] + 1,
         x[1] = "order" => order'.step = "over",
         order' = order \/ order' = CEO!NoOrder,
         UNCHANGED <<ceoFailures, overlapped, ceoEvents>>,
         IF ceo' = ceo THEN burst' = burst
         ELSE burst' = IF x[1] = "order" THEN 1 ELSE burst + 1,
         x[1] # "lives"
  PROVE  CEOInv'
<1>0. 1 \in CEO!CEOs /\ CEO!NoOrder \in [action : {"none", "kill", "restart"},
                                        agent : CEO!CEOs, step : {"read", "killed", "over"}]
  BY Numbers DEF CEO!CEOs, CEO!NoOrder
<1>1. CASE CEO!SpawnFails(ends, hands, why)
  <2>1. exit' = ends /\ hand' = hands /\ noCEO' = why /\ burst' = burst
        /\ UNCHANGED <<ceo, attempt, ceoYoung>>
    BY <1>1 DEF CEO!SpawnFails
  <2>2. CEOTypes /\ CEO!CEOs' = CEO!CEOs
    BY DEF CEOInv, CEO!CEOs
  <2>3. \A c \in CEO!CEOs : /\ ceo'[c] = "none" => exit'[c] = "none"
                            /\ hand'[c] = "retry" => attempt'[c] < MaxRetries
    <3>1. ASSUME NEW c \in CEO!CEOs, ceo[c] = "none" PROVE ends[c] = exit[c]
      BY <3>1, <2>2 DEF CEOTypes, Claims
    <3>2. ASSUME NEW c \in CEO!CEOs, hands[c] = "retry" PROVE hand[c] = "retry"
      BY <3>2, <2>2
    <3> QED
      BY <2>1, <2>2, <3>1, <3>2 DEF CEOTypes
  <2>4. order' \in [action : {"none", "kill", "restart"}, agent : CEO!CEOs,
                    step : {"read", "killed", "over"}]
    BY <1>0, <2>2 DEF CEOTypes
  <2>5. CEOTypes'
    BY <2>1, <2>2, <2>3, <2>4 DEF CEOTypes, Flag
  <2>6. Mourned' \subseteq Mourned /\ Started' = Started
    BY <2>1, <2>2 DEF Mourned, Started, CEOTypes
  <2>7. Counts'
    BY <2>1, <2>2, <2>6, CountsStay DEF CEOInv
  <2>8. Claims' \subseteq Claims
    BY <2>1, <2>2 DEF Claims, CEO!NoOrder
  <2>9. OneClaim'
    BY <2>1, <2>2, <2>8 DEF OneClaim, CEOInv
  <2>10. Paced'
    BY <2>1, <2>8, PacedStays
  <2> QED
    BY <2>5, <2>7, <2>9, <2>10 DEF CEOInv
<1>2. ASSUME NEW c \in CEO!CEOs, CEO!Free(c),
             ceo' = [ceo EXCEPT ![c] = "spawning"], exit' = [ends EXCEPT ![c] = "runs"],
             hand' = [hands EXCEPT ![c] = "watches"], attempt' = [attempt EXCEPT ![c] = n],
             ceoYoung' = TRUE, noCEO' = "none"
      PROVE  CEOInv'
  <2>1. CEOTypes /\ CEO!CEOs' = CEO!CEOs
    BY DEF CEOInv, CEO!CEOs
  <2>2. ceo[c] = "none" /\ ceo' # ceo /\ burst' = IF x[1] = "order" THEN 1 ELSE burst + 1
    BY <1>2, <2>1 DEF CEO!Free, CEOTypes
  <2>3. \A d \in CEO!CEOs : /\ ceo'[d] = "none" => exit'[d] = "none"
                            /\ hand'[d] = "retry" => attempt'[d] < MaxRetries
    <3>1. ASSUME NEW d \in CEO!CEOs, ceo[d] = "none" PROVE ends[d] = exit[d]
      BY <3>1, <2>1 DEF CEOTypes, Claims
    <3>2. ASSUME NEW d \in CEO!CEOs, hands[d] = "retry" PROVE hand[d] = "retry"
      BY <3>2, <2>1
    <3> QED
      BY <1>2, <2>1, <3>1, <3>2 DEF CEOTypes
  <2>4. order' \in [action : {"none", "kill", "restart"}, agent : CEO!CEOs,
                    step : {"read", "killed", "over"}]
    BY <1>0, <2>1 DEF CEOTypes
  <2>5. CEOTypes'
    <3>1. /\ ceo' \in [CEO!CEOs -> {"none", "spawning", "working", "dead"}]
          /\ exit' \in [CEO!CEOs -> {"none", "runs", "exited", "unexpected", "backoff", "over"}]
          /\ hand' \in [CEO!CEOs -> {"none", "watches", "expired", "retry", "over"}]
          /\ attempt' \in [CEO!CEOs -> 0 .. MaxRetries]
      BY <1>2, <2>1 DEF CEOTypes
    <3>2. burst' \in Nat
      BY <2>1, <2>2 DEF CEOTypes
    <3> QED
      BY <1>2, <2>1, <2>3, <2>4, <3>1, <3>2 DEF CEOTypes, Flag
  <2>6. Mourned' \subseteq Mourned
    BY <1>2, <2>1, <2>2 DEF Mourned, CEOTypes
  <2>7. c \in Started' /\ Started \subseteq Started' \ {c}
    BY <1>2, <2>1, <2>2 DEF Started, CEOTypes
  <2>8. Counts'
    <3>1. Mourned \subseteq CEO!CEOs /\ Mourned' \subseteq CEO!CEOs
          /\ Started \subseteq CEO!CEOs /\ Started' \subseteq CEO!CEOs
      BY <2>1 DEF Mourned, Started
    <3>2. /\ Cardinality(Mourned) \in Nat /\ Cardinality(Mourned') \in Nat
          /\ Cardinality(Started) \in Nat /\ Cardinality(Started') \in Nat
          /\ Cardinality(Mourned') <= Cardinality(Mourned)
          /\ Cardinality(Started) + 1 <= Cardinality(Started')
      BY <2>6, <2>7, <3>1, Counting
    <3> QED
      BY <2>1, <2>2, <3>2 DEF Counts, CEOInv, CEOTypes
  <2>9. Claims' \subseteq (Claims \ {x}) \cup {<<"lives", c>>}
    <3>1. ASSUME NEW y \in Claims', y # <<"lives", c>>
          PROVE  y \in Claims /\ y # x
      <4>1. y[2] \in CEO!CEOs /\ y = <<y[1], y[2]>> /\ x = <<x[1], x[2]>> /\ x[2] \in CEO!CEOs
        BY <2>1, <3>1 DEF Claims
      <4>2. CASE y[1] = "lives"
        BY <1>2, <2>1, <3>1, <4>1, <4>2 DEF Claims, CEOTypes
      <4>3. CASE y[1] = "backoff"
        BY <1>2, <2>1, <3>1, <4>1, <4>3 DEF Claims, CEOTypes
      <4>4. CASE y[1] = "retry"
        BY <1>2, <2>1, <3>1, <4>1, <4>4 DEF Claims, CEOTypes
      <4>5. CASE y[1] = "order"
        BY <1>2, <2>1, <3>1, <4>1, <4>5 DEF Claims, CEO!NoOrder
      <4> QED
        BY <2>1, <3>1, <4>2, <4>3, <4>4, <4>5 DEF Claims
    <3> QED
      BY <3>1
  <2>10. ~overlapped => \A d \in CEO!CEOs : exit'[d] = "unexpected" => ceo'[d] \in {"spawning", "working"}
    BY <1>2, <2>1, <2>2 DEF OneClaim, CEOInv, CEOTypes
  <2>11. OneClaim'
    BY <2>1, <2>9, <2>10, ClaimsPassed DEF CEOInv
  <2>12. ASSUME ~overlapped
         PROVE  /\ Claims' \subseteq {<<"lives", c>>} /\ ceoFailures <= MaxRestarts
                /\ burst' <= StartsFor(ceoFailures) + n + 1
    <3>1. Claims' \subseteq {<<"lives", c>>}
      BY <2>9, <2>12 DEF OneClaim, CEOInv
    <3>2. StartsFor(ceoFailures) \in Nat
      BY <2>1, StartsGrow DEF CEOTypes
    <3>3. x[1] \in {"backoff", "retry", "order"} /\ x[2] \in CEO!CEOs
      BY DEF Claims
    <3>4. burst' <= StartsFor(ceoFailures) + n + 1
      BY <2>1, <2>2, <2>12, <3>2, <3>3, Numbers DEF Paced, CEOInv, CEOTypes
    <3> QED
      BY <2>12, <3>1, <3>4 DEF Paced, CEOInv
  <2>13. Paced'
    <3> SUFFICES ASSUME ~overlapped PROVE Paced'
      BY DEF Paced
    <3>1. /\ StartsFor(ceoFailures) \in Nat /\ StartsFor(MaxRestarts + 1) \in Nat
          /\ StartsFor(ceoFailures) + MaxRetries + 1 <= StartsFor(MaxRestarts + 1)
      <4>1. ceoFailures \in Nat /\ MaxRestarts \in Nat /\ ceoFailures + 1 \in Nat
            /\ MaxRestarts + 1 \in Nat /\ ceoFailures + 1 <= MaxRestarts + 1
        BY <2>1, <2>12, Numbers DEF CEOTypes
      <4>2. StartsFor(ceoFailures + 1) = StartsFor(ceoFailures) + MaxRetries + 1
        BY <4>1, StartsGrow
      <4>3. StartsFor(ceoFailures + 1) <= StartsFor(MaxRestarts + 1)
        BY <4>1, StartsGrow
      <4> QED
        BY <4>1, <4>2, <4>3, StartsGrow
    <3>2. burst' <= StartsFor(MaxRestarts + 1)
      BY <2>5, <2>12, <3>1, Numbers DEF CEOTypes
    <3>3. attempt'[c] = n
      BY <1>2, <2>1 DEF CEOTypes
    <3>4. StartsFor(ceoFailures)' = StartsFor(ceoFailures) /\ StartsFor(MaxRestarts + 1)' = StartsFor(MaxRestarts + 1)
      BY DEF StartsFor
    <3> QED
      BY <1>2, <2>12, <3>2, <3>3, <3>4 DEF Paced
  <2> QED
    BY <2>5, <2>8, <2>11, <2>13 DEF CEOInv
<1> QED
  BY <1>1, <1>2 DEF CEO!SpawnOrFail, CEO!Spawn

\* A CEO that becomes ready, one that dies, and the end of the restart window.
LEMMA CEOStepsKeep ==
  ASSUME CEOInv, \/ \E c \in CEO!CEOs : CEO!Ready(c) \/ CEO!Dies(c) \/ CEO!WatchExit(c)
                 \/ CEO!GrowsUp
  PROVE  CEOInv'
<1>0. CEOTypes /\ Counts /\ OneClaim /\ Paced /\ CEO!CEOs' = CEO!CEOs
  BY DEF CEOInv, CEO!CEOs
<1>1. ASSUME NEW c \in CEO!CEOs, CEO!Ready(c) PROVE CEOInv'
  <2>1. CEOTypes'
    BY <1>0, <1>1 DEF CEO!Ready, CEOTypes, Flag
  <2>2. Mourned' \subseteq Mourned /\ Started' = Started /\ Claims' = Claims
    BY <1>0, <1>1 DEF CEO!Ready, CEOTypes, Mourned, Started, Claims
  <2>3. Counts'
    BY <1>0, <1>1, <2>2, CountsStay DEF CEO!Ready
  <2>4. OneClaim'
    BY <1>0, <1>1, <2>2 DEF CEO!Ready, OneClaim, CEOTypes
  <2>5. Paced'
    BY <1>1, <2>2, PacedStays DEF CEO!Ready
  <2> QED
    BY <2>1, <2>3, <2>4, <2>5 DEF CEOInv
<1>2. ASSUME NEW c \in CEO!CEOs, CEO!Dies(c) PROVE CEOInv'
  <2>1. CEOTypes'
    BY <1>0, <1>2, Numbers DEF CEO!Dies, CEO!Happens, CEOTypes, Flag
  <2>2. Mourned' \subseteq Mourned \cup {c} /\ Started' = Started /\ Claims' = Claims
    BY <1>0, <1>2 DEF CEO!Dies, CEOTypes, Mourned, Started, Claims
  <2>3. Counts'
    <3>1. Mourned \subseteq CEO!CEOs /\ Mourned' \subseteq CEO!CEOs
      BY <1>0 DEF Mourned
    <3>2. Cardinality(Mourned) \in Nat /\ Cardinality(Mourned') \in Nat
          /\ Cardinality(Mourned') <= Cardinality(Mourned) + 1
      BY <2>2, <3>1, Counting
    <3> QED
      BY <1>0, <1>2, <2>2, <3>2 DEF Counts, CEOTypes, CEO!Dies, CEO!Happens
  <2>4. OneClaim'
    BY <1>0, <1>2, <2>2 DEF CEO!Dies, OneClaim, CEOTypes
  <2>5. Paced'
    BY <1>2, <2>2, PacedStays DEF CEO!Dies
  <2> QED
    BY <2>1, <2>3, <2>4, <2>5 DEF CEOInv
<1>3. ASSUME NEW c \in CEO!CEOs, CEO!WatchExit(c) PROVE CEOInv'
  <2>1. CEOTypes'
    BY <1>0, <1>3 DEF CEO!WatchExit, CEOTypes, Flag
  <2>2. Mourned' \subseteq Mourned /\ Started' = Started /\ Claims' \subseteq Claims
    BY <1>0, <1>3 DEF CEO!WatchExit, CEO!Expected, CEOTypes, Mourned, Started, Claims
  <2>3. Counts'
    BY <1>0, <1>3, <2>2, CountsStay DEF CEO!WatchExit
  <2>4. ceo[c] # "none"
    BY <1>0, <1>3 DEF CEO!WatchExit, CEOTypes
  <2>5. OneClaim'
    BY <1>0, <1>3, <2>2, <2>4 DEF CEO!WatchExit, CEO!Expected, OneClaim, CEOTypes
  <2>6. Paced'
    BY <1>3, <2>2, PacedStays DEF CEO!WatchExit
  <2> QED
    BY <2>1, <2>3, <2>5, <2>6 DEF CEOInv
<1>4. CASE CEO!GrowsUp
  <2>1. CEOTypes'
    BY <1>0, <1>4 DEF CEO!GrowsUp, CEOTypes, Flag
  <2>2. Mourned' = Mourned /\ Started' = Started /\ Claims' = Claims
    BY <1>4 DEF CEO!GrowsUp, Mourned, Started, Claims
  <2>3. Counts'
    <3>1. Mourned \subseteq CEO!CEOs /\ Started \subseteq CEO!CEOs
      BY DEF Mourned, Started
    <3>2. Cardinality(Started) \in Nat
      BY <3>1, Counting
    <3> QED
      BY <1>0, <1>4, <2>2, <3>2 DEF Counts, CEO!GrowsUp
  <2>4. OneClaim'
    BY <1>0, <1>4, <2>2 DEF CEO!GrowsUp, OneClaim
  <2>5. Paced'
    <3>1. burst' = 0 /\ UNCHANGED <<overlapped, attempt, ceoFailures>>
      BY <1>4 DEF CEO!GrowsUp
    <3>2. StartsFor(ceoFailures) \in Nat /\ StartsFor(MaxRestarts + 1) \in Nat
      BY <1>0, StartsGrow, Numbers DEF CEOTypes
    <3>3. \A x \in Claims : attempt[x[2]] \in Nat
      BY <1>0, Numbers DEF Claims, CEOTypes
    <3>4. StartsFor(ceoFailures)' = StartsFor(ceoFailures) /\ StartsFor(MaxRestarts + 1)' = StartsFor(MaxRestarts + 1)
      BY <3>1 DEF StartsFor
    <3>5. \A x \in Claims : 0 <= StartsFor(ceoFailures) + attempt[x[2]] + 1
      BY <3>2, <3>3
    <3> QED
      BY <1>0, <2>2, <3>1, <3>2, <3>4, <3>5 DEF Paced
  <2> QED
    BY <2>1, <2>3, <2>4, <2>5 DEF CEOInv
<1> QED
  BY <1>1, <1>2, <1>3, <1>4

\* A death that nobody expected is counted, and the dead CEO's claim becomes that of
\* the backoff, or nobody's.
LEMMA RespawnKeeps ==
  ASSUME CEOInv, NEW c \in CEO!CEOs, CEO!RespawnCEO(c)
  PROVE  CEOInv'
<1>0. CEOTypes /\ Counts /\ OneClaim /\ Paced /\ CEO!CEOs' = CEO!CEOs
  BY DEF CEOInv, CEO!CEOs
<1>1. /\ exit[c] = "unexpected" /\ ceo' = [ceo EXCEPT ![c] = "dead"]
      /\ ceoFailures' = IF ceoYoung THEN ceoFailures + 1 ELSE 1
      /\ \/ ceoFailures' > MaxRestarts /\ exit' = [exit EXCEPT ![c] = "over"] /\ noCEO' = "told"
         \/ ~(ceoFailures' > MaxRestarts) /\ exit' = [exit EXCEPT ![c] = "backoff"] /\ noCEO' = noCEO
      /\ UNCHANGED <<hand, attempt, order, ceoYoung, burst, overlapped, ceoEvents>>
  BY DEF CEO!RespawnCEO, CEO!FailuresAfter
<1>2. CEOTypes'
  BY <1>0, <1>1 DEF CEOTypes, Flag
<1>3. Counts'
  <2>1. Mourned' \subseteq Mourned \ {c} /\ c \in Mourned /\ Started' = Started
    BY <1>0, <1>1 DEF Mourned, Started, CEOTypes
  <2>2. Mourned \subseteq CEO!CEOs /\ Mourned' \subseteq CEO!CEOs
    BY <1>0 DEF Mourned
  <2>3. Cardinality(Mourned) \in Nat /\ Cardinality(Mourned') \in Nat
        /\ Cardinality(Mourned') + 1 <= Cardinality(Mourned)
    BY <2>1, <2>2, Counting
  <2>4. ceoFailures \in Nat /\ ceoEvents \in Nat /\ ceoFailures' <= ceoFailures + 1 /\ ceoFailures' \in Nat
    BY <1>0, <1>1, Numbers DEF CEOTypes
  <2> QED
    BY <1>0, <1>1, <2>1, <2>3, <2>4 DEF Counts
<1>4. ~overlapped => /\ <<"lives", c>> \in Claims
                     /\ Claims' \subseteq {<<"backoff", c>>}
                     /\ ceoFailures' > MaxRestarts => Claims' = {}
  <2> SUFFICES ASSUME ~overlapped
               PROVE  /\ <<"lives", c>> \in Claims
                      /\ Claims' \subseteq {<<"backoff", c>>}
                      /\ ceoFailures' > MaxRestarts => Claims' = {}
    OBVIOUS
  <2>1. <<"lives", c>> \in Claims
    BY <1>0, <1>1 DEF OneClaim, Claims
  <2>2. \A x \in Claims : x = <<"lives", c>>
    BY <1>0, <2>1 DEF OneClaim
  <2>3. ASSUME NEW y \in Claims'
        PROVE  y = <<"backoff", c>> /\ ~(ceoFailures' > MaxRestarts)
    <3>1. y[2] \in CEO!CEOs /\ y[1] \in {"lives", "backoff", "retry", "order"} /\ y = <<y[1], y[2]>>
      BY <1>0, <2>3 DEF Claims
    <3>2. y \in Claims \/ (y = <<"backoff", c>> /\ ~(ceoFailures' > MaxRestarts))
      BY <1>0, <1>1, <2>3, <3>1 DEF Claims, CEOTypes
    <3>3. y # <<"lives", c>>
      BY <1>0, <1>1, <2>3 DEF Claims, CEOTypes
    <3> QED
      BY <2>2, <3>2, <3>3
  <2> QED
    BY <2>1, <2>3
<1>5. OneClaim'
  BY <1>0, <1>1, <1>4 DEF OneClaim, CEOTypes
<1>6. Paced'
  <2> SUFFICES ASSUME ~overlapped PROVE Paced'
    BY <1>1 DEF Paced
  <2>1. /\ StartsFor(MaxRestarts + 1)' = StartsFor(MaxRestarts + 1) /\ burst' = burst
        /\ StartsFor(ceoFailures)' = StartsFor(ceoFailures')
    BY <1>1 DEF StartsFor
  <2>2. burst <= StartsFor(ceoFailures) + attempt[c] + 1 /\ (~ceoYoung => burst = 0)
    BY <1>0, <1>4 DEF Paced
  <2>3. burst <= StartsFor(ceoFailures')
    <3>1. StartsFor(ceoFailures + 1) = StartsFor(ceoFailures) + MaxRetries + 1
          /\ StartsFor(ceoFailures) \in Nat /\ StartsFor(1) \in Nat
      BY <1>0, StartsGrow DEF CEOTypes
    <3>2. attempt[c] \in 0 .. MaxRetries /\ MaxRetries \in Nat /\ burst \in Nat
      BY <1>0, Numbers DEF CEOTypes
    <3>3. CASE ceoYoung
      BY <1>1, <2>2, <3>1, <3>2, <3>3
    <3>4. CASE ~ceoYoung
      BY <1>1, <2>2, <3>1, <3>2, <3>4
    <3> QED
      BY <3>3, <3>4
  <2>4. ceoFailures' \in Nat /\ MaxRestarts \in Nat
    BY <1>2, Numbers DEF CEOTypes
  <2>5. burst' <= StartsFor(MaxRestarts + 1) /\ (~ceoYoung' => burst' = 0)
    BY <1>0, <1>1, <2>1 DEF Paced
  <2>6. \A x \in Claims' : x[1] = "backoff" /\ ceoFailures' <= MaxRestarts
    BY <1>4, <2>4
  <2> QED
    BY <1>1, <2>1, <2>3, <2>5, <2>6 DEF Paced
<1> QED
  BY <1>2, <1>3, <1>5, <1>6 DEF CEOInv

\* What a goroutine with a claim does: after the backoff, after a missed handshake, and
\* in place of a CEO that was ended.
LEMMA StartersKeep ==
  ASSUME CEOInv, \/ \E c \in CEO!CEOs : CEO!BackoffEnds(c) \/ CEO!HandshakeRetry(c)
                 \/ CEO!OrderReplaces
  PROVE  CEOInv'
<1>0. CEOTypes
  BY DEF CEOInv
<1>1. ASSUME NEW c \in CEO!CEOs, CEO!BackoffEnds(c) PROVE CEOInv'
  <2> DEFINE x == <<"backoff", c>>
             ends == [exit EXCEPT ![c] = "over"]
  <2>1. x \in Claims /\ x[1] = "backoff" /\ x[2] = c
    BY <1>1 DEF CEO!BackoffEnds, Claims
  <2>2. /\ ends \in [CEO!CEOs -> {"none", "runs", "exited", "unexpected", "backoff", "over"}]
        /\ hand \in [CEO!CEOs -> {"none", "watches", "expired", "retry", "over"}]
        /\ \A d \in CEO!CEOs : ends[d] # exit[d] => ends[d] = "over" /\ x = <<"backoff", d>>
        /\ ends[x[2]] = "over"
    BY <1>0 DEF CEOTypes
  <2>3. 0 \in 0 .. MaxRetries
    BY Numbers
  <2>4. CEO!SpawnOrFail(0, ends, hand, "lost") /\ UNCHANGED <<order, ceoFailures, overlapped, ceoEvents>>
        /\ burst' = IF ceo' = ceo THEN burst ELSE burst + 1
    BY <1>1 DEF CEO!BackoffEnds, CEO!Counted
  <2> HIDE DEF x, ends
  <2> QED
    BY <2>1, <2>2, <2>3, <2>4, StartKeeps
<1>2. ASSUME NEW c \in CEO!CEOs, CEO!HandshakeRetry(c) PROVE CEOInv'
  <2> DEFINE x == <<"retry", c>>
             hands == [hand EXCEPT ![c] = "over"]
             n == attempt[c] + 1
  <2>1. x \in Claims /\ x[1] = "retry" /\ x[2] = c
    BY <1>2 DEF CEO!HandshakeRetry, Claims
  <2>2. /\ exit \in [CEO!CEOs -> {"none", "runs", "exited", "unexpected", "backoff", "over"}]
        /\ hands \in [CEO!CEOs -> {"none", "watches", "expired", "retry", "over"}]
        /\ \A d \in CEO!CEOs : hands[d] # hand[d] => hands[d] = "over" /\ x = <<"retry", d>>
        /\ hands[x[2]] = "over"
    BY <1>0 DEF CEOTypes
  <2>3. n \in 0 .. MaxRetries /\ n = attempt[x[2]] + 1
    BY <1>0, <1>2, Numbers DEF CEOTypes, CEO!HandshakeRetry
  <2>4. CEO!SpawnOrFail(n, exit, hands, "lost") /\ UNCHANGED <<order, ceoFailures, overlapped, ceoEvents>>
        /\ burst' = IF ceo' = ceo THEN burst ELSE burst + 1
    BY <1>2 DEF CEO!HandshakeRetry, CEO!Counted
  <2> HIDE DEF x, hands, n
  <2> QED
    BY <2>1, <2>2, <2>3, <2>4, StartKeeps
<1>3. CASE CEO!OrderReplaces
  <2> DEFINE x == <<"order", order.agent>>
  <2>1. x \in Claims /\ x[1] = "order" /\ order'.step = "over" /\ order' = CEO!NoOrder
    BY <1>0, <1>3 DEF CEO!OrderReplaces, Claims, CEOTypes, CEO!NoOrder
  <2>2. /\ exit \in [CEO!CEOs -> {"none", "runs", "exited", "unexpected", "backoff", "over"}]
        /\ hand \in [CEO!CEOs -> {"none", "watches", "expired", "retry", "over"}]
    BY <1>0 DEF CEOTypes
  <2>3. 0 \in 0 .. MaxRetries
    BY Numbers
  <2>4. CEO!SpawnOrFail(0, exit, hand, "told") /\ UNCHANGED <<ceoFailures, overlapped, ceoEvents>>
        /\ burst' = IF ceo' = ceo THEN burst ELSE 1
    BY <1>3 DEF CEO!OrderReplaces
  <2> HIDE DEF x
  <2> QED
    BY <2>1, <2>2, <2>3, <2>4, StartKeeps
<1> QED
  BY <1>1, <1>2, <1>3

\* What the end of a CEO that somebody decided on does.
LEMMA KillCounts ==
  ASSUME CEOInv, NEW c \in CEO!CEOs, CEO!Kill(c)
  PROVE  /\ ceo' \in [CEO!CEOs -> {"none", "spawning", "working", "dead"}]
         /\ exit' \in [CEO!CEOs -> {"none", "runs", "exited", "unexpected", "backoff", "over"}]
         /\ Flag(overlapped)' /\ (~overlapped' => ~overlapped /\ <<"lives", c>> \in Claims)
         /\ ceo'[c] = "dead"
         /\ \A d \in CEO!CEOs : ceo'[d] = "none" => exit'[d] = "none"
         /\ \A d \in CEO!CEOs : /\ ceo'[d] \in {"spawning", "working"} => ceo[d] \in {"spawning", "working"}
                                /\ exit'[d] = "backoff" => exit[d] = "backoff"
         /\ ~overlapped' => \A d \in CEO!CEOs : exit'[d] = "unexpected" =>
                                                  ceo'[d] \in {"spawning", "working"}
         /\ Mourned' \subseteq Mourned /\ Started \subseteq Started'
<1>0. CEOTypes /\ OneClaim /\ CEO!CEOs' = CEO!CEOs
  BY DEF CEOInv, CEO!CEOs
<1>1. /\ ceo' = [ceo EXCEPT ![c] = "dead"]
      /\ exit' = [exit EXCEPT ![c] = IF exit[c] = "runs" THEN "exited" ELSE exit[c]]
      /\ overlapped' = (overlapped \/ c \notin CEO!Living \/ exit[c] \notin {"runs", "exited"})
  BY DEF CEO!Kill
<1>2. /\ ceo' \in [CEO!CEOs -> {"none", "spawning", "working", "dead"}]
      /\ exit' \in [CEO!CEOs -> {"none", "runs", "exited", "unexpected", "backoff", "over"}]
      /\ ceo'[c] = "dead"
  BY <1>0, <1>1 DEF CEOTypes
<1>3. Flag(overlapped)'
  BY <1>1 DEF Flag
<1>4. ~overlapped' => ~overlapped /\ <<"lives", c>> \in Claims /\ exit[c] \in {"runs", "exited"}
  BY <1>1 DEF CEO!Living, Claims
<1>5. \A d \in CEO!CEOs : ceo'[d] = "none" => exit'[d] = "none"
  BY <1>0, <1>1 DEF CEOTypes
<1>6. \A d \in CEO!CEOs : /\ ceo'[d] \in {"spawning", "working"} => ceo[d] \in {"spawning", "working"}
                          /\ exit'[d] = "backoff" => exit[d] = "backoff"
  BY <1>0, <1>1 DEF CEOTypes
<1>7. ~overlapped' => \A d \in CEO!CEOs : exit'[d] = "unexpected" =>
                                            ceo'[d] \in {"spawning", "working"}
  BY <1>0, <1>1, <1>4 DEF OneClaim, CEOTypes
<1>8. Mourned' \subseteq Mourned /\ Started \subseteq Started'
  BY <1>0, <1>1 DEF Mourned, Started, CEOTypes
<1> QED
  BY <1>2, <1>3, <1>4, <1>5, <1>6, <1>7, <1>8

\* A claim that passes from the CEO c, who is ended, to whoever replaces him.
LEMMA EndedKeeps ==
  ASSUME CEOInv, CEOTypes', NEW c \in CEO!CEOs, CEO!Kill(c), NEW y,
         y \in {<<"retry", c>>, <<"order", c>>},
         Claims' \subseteq (Claims \ {<<"lives", c>>}) \cup {y},
         UNCHANGED <<attempt, ceoFailures, ceoYoung, burst, ceoEvents>>
  PROVE  CEOInv'
<1>1. Counts'
  BY KillCounts, CountsStay DEF CEOInv
<1>2. OneClaim'
  BY KillCounts, ClaimsPassed DEF CEOInv
<1>3. Paced'
  <2> SUFFICES ASSUME ~overlapped' PROVE Paced'
    BY DEF Paced
  <2>1. ~overlapped /\ <<"lives", c>> \in Claims
    BY KillCounts
  <2>2. Claims' \subseteq {y}
    BY <2>1 DEF CEOInv, OneClaim
  <2>3. /\ StartsFor(MaxRestarts + 1)' = StartsFor(MaxRestarts + 1)
        /\ StartsFor(ceoFailures)' = StartsFor(ceoFailures)
    BY DEF StartsFor
  <2>4. /\ burst <= StartsFor(ceoFailures) + attempt[c] + 1 /\ ceoFailures <= MaxRestarts
        /\ burst <= StartsFor(MaxRestarts + 1) /\ (~ceoYoung => burst = 0)
    BY <2>1 DEF CEOInv, Paced
  <2>5. \A x \in Claims' : x[2] = c /\ x[1] # "backoff"
    BY <2>2
  <2> QED
    BY <2>3, <2>4, <2>5 DEF Paced
<1> QED
  BY <1>1, <1>2, <1>3 DEF CEOInv

\* A deadline, an order, and the ends they bring.
LEMMA EndersKeep ==
  ASSUME CEOInv, \/ \E c \in CEO!CEOs : CEO!Deadline(c) \/ CEO!HandshakeKills(c) \/ CEO!Order(c)
                 \/ CEO!OrderKills
  PROVE  CEOInv'
<1>0. CEOTypes /\ Counts /\ OneClaim /\ Paced /\ CEO!CEOs' = CEO!CEOs
  BY DEF CEOInv, CEO!CEOs
<1>1. ASSUME NEW c \in CEO!CEOs, CEO!Deadline(c) PROVE CEOInv'
  <2>1. CEOTypes'
    BY <1>0, <1>1, Numbers DEF CEO!Deadline, CEO!Happens, CEOTypes, Flag
  <2>2. Mourned' = Mourned /\ Started' = Started /\ Claims' \subseteq Claims
    BY <1>0, <1>1 DEF CEO!Deadline, CEOTypes, Mourned, Started, Claims
  <2>3. Counts'
    <3>1. Mourned \subseteq CEO!CEOs
      BY DEF Mourned
    <3>2. Cardinality(Mourned) \in Nat
      BY <3>1, Counting
    <3> QED
      BY <1>0, <1>1, <2>2, <3>2 DEF Counts, CEOTypes, CEO!Deadline, CEO!Happens
  <2>4. OneClaim'
    BY <1>0, <1>1, <2>2 DEF CEO!Deadline, OneClaim
  <2>5. Paced'
    BY <1>1, <2>2, PacedStays DEF CEO!Deadline
  <2> QED
    BY <2>1, <2>3, <2>4, <2>5 DEF CEOInv
<1>2. ASSUME NEW c \in CEO!CEOs, CEO!HandshakeKills(c) PROVE CEOInv'
  <2>1. /\ CEO!Kill(c) /\ hand[c] = "expired"
        /\ \/ attempt[c] < MaxRetries /\ hand' = [hand EXCEPT ![c] = "retry"] /\ noCEO' = noCEO
           \/ hand' = [hand EXCEPT ![c] = "over"] /\ noCEO' = "told"
        /\ UNCHANGED <<attempt, order, ceoFailures, ceoYoung, burst, ceoEvents>>
    BY <1>2 DEF CEO!HandshakeKills, CEO!OnceSpent
  <2>2. CEOTypes'
    <3>1. hand' \in [CEO!CEOs -> {"none", "watches", "expired", "retry", "over"}]
          /\ \A d \in CEO!CEOs : hand'[d] = "retry" => attempt'[d] < MaxRetries
      BY <1>0, <2>1 DEF CEOTypes
    <3>2. /\ ceo' \in [CEO!CEOs -> {"none", "spawning", "working", "dead"}]
          /\ exit' \in [CEO!CEOs -> {"none", "runs", "exited", "unexpected", "backoff", "over"}]
          /\ Flag(overlapped)'
          /\ \A d \in CEO!CEOs : ceo'[d] = "none" => exit'[d] = "none"
      BY <2>1, KillCounts
    <3>3. noCEO' \in {"none", "killed", "told", "lost"} /\ Flag(ceoYoung)'
      BY <1>0, <2>1 DEF CEOTypes, Flag
    <3> QED
      BY <1>0, <2>1, <3>1, <3>2, <3>3 DEF CEOTypes
  <2>3. Claims' \subseteq (Claims \ {<<"lives", c>>}) \cup {<<"retry", c>>}
    <3> SUFFICES ASSUME NEW y \in Claims'
                 PROVE  y = <<"retry", c>> \/ (y \in Claims /\ y # <<"lives", c>>)
      OBVIOUS
    <3>1. y[2] \in CEO!CEOs /\ y[1] \in {"lives", "backoff", "retry", "order"} /\ y = <<y[1], y[2]>>
      BY <1>0 DEF Claims
    <3>2. CASE y[1] = "lives"
      <4>1. ceo'[y[2]] \in {"spawning", "working"}
        BY <3>2 DEF Claims
      <4>2. ceo[y[2]] \in {"spawning", "working"} /\ y[2] # c
        BY <2>1, <3>1, <4>1, KillCounts
      <4> QED
        BY <3>1, <3>2, <4>2 DEF Claims
    <3>3. CASE y[1] = "backoff"
      <4>1. exit[y[2]] = "backoff"
        BY <2>1, <3>1, <3>3, KillCounts DEF Claims
      <4> QED
        BY <3>1, <3>3, <4>1 DEF Claims
    <3>4. CASE y[1] = "retry"
      BY <1>0, <2>1, <3>1, <3>4 DEF Claims, CEOTypes
    <3>5. CASE y[1] = "order"
      BY <2>1, <3>1, <3>5 DEF Claims
    <3> QED
      BY <3>1, <3>2, <3>3, <3>4, <3>5
  <2> QED
    BY <2>1, <2>2, <2>3, EndedKeeps
<1>3. ASSUME NEW c \in CEO!CEOs, CEO!Order(c) PROVE CEOInv'
  <2>0. PICK a \in {"kill", "restart"} : order' = [action |-> a, agent |-> c, step |-> "read"]
    BY <1>3 DEF CEO!Order
  <2>1. CEOTypes'
    <3>1. order' \in [action : {"none", "kill", "restart"}, agent : CEO!CEOs,
                      step : {"read", "killed", "over"}]
      BY <1>0, <2>0
    <3> QED
      BY <1>0, <1>3, <3>1, Numbers DEF CEO!Order, CEO!Happens, CEOTypes, Flag
  <2>2. Mourned' = Mourned /\ Started' = Started /\ Claims' \subseteq Claims
    BY <1>0, <1>3, <2>0 DEF CEO!Order, CEOTypes, Mourned, Started, Claims
  <2>3. Counts'
    <3>1. Mourned \subseteq CEO!CEOs
      BY DEF Mourned
    <3>2. Cardinality(Mourned) \in Nat
      BY <3>1, Counting
    <3> QED
      BY <1>0, <1>3, <2>2, <3>2 DEF Counts, CEOTypes, CEO!Order, CEO!Happens
  <2>4. OneClaim'
    BY <1>0, <1>3, <2>2 DEF CEO!Order, OneClaim
  <2>5. Paced'
    BY <1>3, <2>2, PacedStays DEF CEO!Order
  <2> QED
    BY <2>1, <2>3, <2>4, <2>5 DEF CEOInv
<1>4. CASE CEO!OrderKills
  <2> DEFINE c == order.agent
  <2>1. /\ c \in CEO!CEOs /\ CEO!Kill(c) /\ order.step = "read"
        /\ \/ order' = CEO!NoOrder /\ noCEO' = "killed"
           \/ order' = [order EXCEPT !.step = "killed"] /\ noCEO' = noCEO
        /\ UNCHANGED <<hand, attempt, ceoFailures, ceoYoung, burst, ceoEvents>>
    BY <1>0, <1>4 DEF CEO!OrderKills, CEOTypes
  <2>2. order'.step = "killed" => order'.agent = c
    BY <1>0, <2>1 DEF CEOTypes, CEO!NoOrder
  <2>3. CEOTypes'
    <3>1. order' \in [action : {"none", "kill", "restart"}, agent : CEO!CEOs,
                      step : {"read", "killed", "over"}]
      <4>1. 1 \in CEO!CEOs
        BY Numbers DEF CEO!CEOs
      <4> QED
        BY <1>0, <2>1, <4>1 DEF CEOTypes, CEO!NoOrder
    <3>2. /\ ceo' \in [CEO!CEOs -> {"none", "spawning", "working", "dead"}]
          /\ exit' \in [CEO!CEOs -> {"none", "runs", "exited", "unexpected", "backoff", "over"}]
          /\ Flag(overlapped)'
          /\ \A d \in CEO!CEOs : ceo'[d] = "none" => exit'[d] = "none"
      BY <2>1, KillCounts
    <3>3. noCEO' \in {"none", "killed", "told", "lost"} /\ Flag(ceoYoung)'
      BY <1>0, <2>1 DEF CEOTypes, Flag
    <3> QED
      BY <1>0, <2>1, <3>1, <3>2, <3>3 DEF CEOTypes
  <2>4. Claims' \subseteq (Claims \ {<<"lives", c>>}) \cup {<<"order", c>>}
    <3> SUFFICES ASSUME NEW y \in Claims'
                 PROVE  y = <<"order", c>> \/ (y \in Claims /\ y # <<"lives", c>>)
      OBVIOUS
    <3>1. y[2] \in CEO!CEOs /\ y[1] \in {"lives", "backoff", "retry", "order"} /\ y = <<y[1], y[2]>>
      BY <1>0 DEF Claims
    <3>2. CASE y[1] = "lives"
      <4>1. ceo'[y[2]] \in {"spawning", "working"}
        BY <3>2 DEF Claims
      <4>2. ceo[y[2]] \in {"spawning", "working"} /\ y[2] # c
        BY <2>1, <3>1, <4>1, KillCounts
      <4> QED
        BY <3>1, <3>2, <4>2 DEF Claims
    <3>3. CASE y[1] = "backoff"
      <4>1. exit[y[2]] = "backoff"
        BY <2>1, <3>1, <3>3, KillCounts DEF Claims
      <4> QED
        BY <3>1, <3>3, <4>1 DEF Claims
    <3>4. CASE y[1] = "retry"
      BY <2>1, <3>1, <3>4 DEF Claims
    <3>5. CASE y[1] = "order"
      BY <2>2, <3>1, <3>5 DEF Claims
    <3> QED
      BY <3>1, <3>2, <3>3, <3>4, <3>5
  <2> HIDE DEF c
  <2> QED
    BY <2>1, <2>3, <2>4, EndedKeeps
<1> QED
  BY <1>1, <1>2, <1>3, <1>4

\* The starts and the end of the CEOs, whatever goroutine takes the step.
LEMMA CEOStepKeeps ==
  ASSUME CEOInv, CEO!Next
  PROVE  CEOInv'
  BY CEOStepsKeep, RespawnKeeps, StartersKeep, EndersKeep
  DEF CEO!Next, CEO!ExitStep, CEO!HandshakeStep, CEO!OrderStep, CEO!CEOStep

\* The first CEO is the only one.
LEMMA CEOInit ==
  ASSUME Init
  PROVE  CEOInv
<1>1. /\ ceo = [c \in CEO!CEOs |-> IF c = 1 THEN "spawning" ELSE "none"]
      /\ exit = [c \in CEO!CEOs |-> IF c = 1 THEN "runs" ELSE "none"]
      /\ hand = [c \in CEO!CEOs |-> IF c = 1 THEN "watches" ELSE "none"]
      /\ attempt = [c \in CEO!CEOs |-> 0] /\ order = CEO!NoOrder
      /\ ceoFailures = 0 /\ ceoYoung = TRUE /\ burst = 1 /\ noCEO = "none"
      /\ overlapped = FALSE /\ ceoEvents = 0 /\ 1 \in CEO!CEOs
  BY Numbers DEF Init, CEO!Init, CEO!CEOs
<1>2. CEOTypes
  <2>1. order \in [action : {"none", "kill", "restart"}, agent : CEO!CEOs,
                   step : {"read", "killed", "over"}]
    BY <1>1 DEF CEO!NoOrder
  <2> QED
    BY <1>1, <2>1, Numbers DEF CEOTypes, Flag
<1>3. Mourned = {} /\ Started = {1}
  BY <1>1 DEF Mourned, Started
<1>4. Counts
  <2>1. Cardinality(Mourned) = 0 /\ Cardinality(Started) = 1
    BY <1>3, FS_EmptySet, FS_Singleton
  <2> QED
    BY <1>1, <2>1 DEF Counts
<1>5. Claims \subseteq {<<"lives", 1>>}
  BY <1>1 DEF Claims, CEO!NoOrder
<1>6. OneClaim
  BY <1>1, <1>5 DEF OneClaim
<1>7. Paced
  <2>1. /\ StartsFor(0) = 0
        /\ StartsFor(MaxRestarts + 1) \in Nat /\ StartsFor(0) <= StartsFor(MaxRestarts)
        /\ StartsFor(MaxRestarts + 1) = StartsFor(MaxRestarts) + MaxRetries + 1
        /\ MaxRestarts \in Nat /\ MaxRetries \in Nat
    <3>1. MaxRestarts \in Nat /\ MaxRetries \in Nat /\ MaxRestarts + 1 \in Nat /\ 0 <= MaxRestarts
      BY Numbers
    <3>2. StartsFor(0) = 0
      BY <3>1 DEF StartsFor
    <3> QED
      BY <3>1, <3>2, StartsGrow
  <2>2. StartsFor(MaxRestarts) \in Nat /\ 1 <= StartsFor(MaxRestarts + 1)
    BY <2>1, StartsGrow
  <2>3. \A x \in Claims : x[1] = "lives" /\ x[2] = 1 /\ attempt[x[2]] = 0
    BY <1>1, <1>5
  <2> QED
    BY <1>1, <2>1, <2>2, <2>3 DEF Paced
<1> QED
  BY <1>2, <1>4, <1>6, <1>7 DEF CEOInv

\* CEOInv holds in every state.
LEMMA CEOCorrect == Spec => []CEOInv
<1>1. ASSUME CEOInv, UNCHANGED ceoVars PROVE CEOInv'
  BY <1>1 DEF ceoVars, CEOInv, CEOTypes, Counts, OneClaim, Paced, Mourned, Started,
              Claims, Flag, StartsFor, CEO!CEOs
<1>2. CEOInv /\ [Next]_vars => CEOInv'
  BY <1>1, CEOMoves, CEOStepKeeps
<1> QED
  BY CEOInit, <1>2, PTL DEF Spec

\* What CEOInv says of one CEO at a time, and of the starts.
LEMMA CEOKept ==
  ASSUME CEOInv
  PROVE  CEO!TypeOK /\ CEO!OneCEO /\ CEO!RestartsBounded
<1>1. CEOTypes /\ Counts /\ OneClaim /\ Paced
  BY DEF CEOInv
<1>2. CEO!TypeOK
  <2>1. Mourned \subseteq CEO!CEOs /\ Started \subseteq CEO!CEOs
    BY DEF Mourned, Started
  <2>2. Cardinality(Mourned) \in Nat /\ Cardinality(Started) \in Nat /\ Cardinality(Started) <= MaxCEOs
    BY <2>1, Counting
  <2>3. ceoFailures \in 0 .. MaxCEOEvents /\ burst \in 0 .. MaxCEOs
    BY <1>1, <2>2, Numbers DEF CEOTypes, Counts
  <2>4. {ceoYoung, overlapped} \subseteq BOOLEAN
    BY <1>1, FlagIs DEF CEOTypes
  <2> QED
    BY <1>1, <2>3, <2>4 DEF CEO!TypeOK, CEOTypes
<1>3. CEO!OneCEO
  <2> SUFFICES ASSUME ~overlapped PROVE CEO!Cardinality(CEO!Living) <= 1
    BY DEF CEO!OneCEO
  <2>1. \A c, d \in CEO!Living : c = d
    <3>1. ASSUME NEW c \in CEO!Living, NEW d \in CEO!Living PROVE c = d
      <4>1. <<"lives", c>> \in Claims /\ <<"lives", d>> \in Claims
        BY <3>1 DEF CEO!Living, Claims
      <4> QED
        BY <1>1, <4>1 DEF OneClaim
    <3> QED
      BY <3>1
  <2>2. CEO!Cardinality(CEO!Living) = Cardinality(CEO!Living)
    BY DEF CEO!Cardinality, Cardinality
  <2>3. CASE CEO!Living = {}
    BY <2>2, <2>3, FS_EmptySet
  <2>4. ASSUME NEW c \in CEO!Living PROVE Cardinality(CEO!Living) = 1
    <3>1. CEO!Living = {c}
      BY <2>1, <2>4
    <3> QED
      BY <3>1, FS_Singleton
  <2> QED
    BY <2>2, <2>3, <2>4
<1>4. CEO!RestartsBounded
  BY <1>1 DEF CEO!RestartsBounded, Paced, StartsFor
<1> QED
  BY <1>2, <1>3, <1>4

\* There is one CEO, and one that cannot start is not started for ever, unless a CEO's
\* end was decided on twice (respawnCEO, watchHandshake, StopAgent): what CEOIsReplaced
\* says of every state.
THEOREM OneCEOAtATime == Spec => [](part = "ceo" => CEO!OneCEO /\ CEO!RestartsBounded)
<1>1. CEOInv => (part = "ceo" => CEO!OneCEO /\ CEO!RestartsBounded)
  BY CEOKept
<1> QED
  BY CEOCorrect, <1>1, PTL
-----------------------------------------------------------------------------
(* Smoke alarms, and the types of the other parts.                          *)

\* A step of the office is one of SmokeRounds, or leaves that part alone.
LEMMA SmokeMoves ==
  ASSUME [Next]_vars
  PROVE  Smoke!Next \/ UNCHANGED smokeVars
  BY DEF Next, vars, Others, Smoke!Next

\* Alarms that are dead: one that is to be replaced is among them.
DeadAlarms == {a \in Smoke!Alarms : alarm[a] = "dead"}

\* What SmokeLoop's local variables hold.
LoopTypes ==
  loop \in [at : {"select", "gate", "start", "survey", "spawn", "late", "due"},
            by : {"tick", "due", "late"}, todo : 0 .. PerRound,
            fresh : SUBSET Smoke!Alarms, left : SUBSET Smoke!Alarms,
            expired : SUBSET Smoke!Alarms, incomplete : {TRUE, FALSE}]

SmokeTypes ==
  /\ alarm \in [Smoke!Alarms -> {"none", "spawning", "working", "done", "dead"}]
  /\ LoopTypes
  /\ round \subseteq Smoke!Alarms
  /\ Flag(armed) /\ Flag(timedOut) /\ Flag(due) /\ Flag(smokeResumeWake)
  /\ Flag(halted) /\ Flag(alert)
  /\ alarmEvents \in 0 .. MaxAlarmEvents

\* A watcher replaces the alarm that it killed.
SmokeInv == SmokeTypes /\ retries \in Nat /\ retries <= Cardinality(DeadAlarms)

\* No step of the loop leaves these types.
LEMMA LoopKeepsTypes ==
  ASSUME SmokeTypes, Smoke!Next
  PROVE  LoopTypes'
<1>0. Smoke!Alarms' = Smoke!Alarms /\ 0 \in 0 .. PerRound
  BY Numbers DEF Smoke!Alarms
<1>1. CASE Smoke!Tick
  BY <1>0, <1>1 DEF SmokeTypes, LoopTypes, Smoke!Tick, Smoke!Idle
<1>2. CASE Smoke!TimeoutFires
  BY <1>0, <1>2 DEF SmokeTypes, LoopTypes, Smoke!TimeoutFires, Smoke!Goto
<1>3. CASE Smoke!Wake
  BY <1>0, <1>3 DEF SmokeTypes, LoopTypes, Smoke!Wake, Smoke!Goto
<1>4. CASE Smoke!Gate
  <2>1. CASE \E s \in {"select", "due"} : Smoke!Goto(s)
    BY <1>0, <2>1 DEF SmokeTypes, LoopTypes, Smoke!Goto
  <2>2. CASE loop' = [Smoke!Idle EXCEPT !.at = "late", !.by = "late", !.left = round,
                                        !.expired = round]
    <3>1. round \in SUBSET Smoke!Alarms /\ {} \in SUBSET Smoke!Alarms
      BY DEF SmokeTypes
    <3>2. loop' = [at |-> "late", by |-> "late", todo |-> 0, fresh |-> {}, left |-> round,
                   expired |-> round, incomplete |-> FALSE]
      BY <2>2 DEF Smoke!Idle
    <3> QED
      BY <1>0, <3>1, <3>2 DEF LoopTypes
  <2> QED
    BY <1>4, <2>1, <2>2 DEF Smoke!Gate
<1>5. CASE Smoke!Due
  BY <1>0, <1>5 DEF SmokeTypes, LoopTypes, Smoke!Due, Smoke!Idle
<1>6. CASE Smoke!Start \/ Smoke!RoundDone
  <2>1. Smoke!AfterRound(loop.by) \in {"gate", "select", "due"}
    BY DEF SmokeTypes, LoopTypes, Smoke!AfterRound
  <2>2. \E s \in {"gate", "select", "due", "survey"} : loop' = [loop EXCEPT !.at = s]
    BY <1>6, <2>1 DEF Smoke!Start, Smoke!RoundDone, Smoke!Goto
  <2> QED
    BY <1>0, <2>2 DEF SmokeTypes, LoopTypes
<1>7. CASE Smoke!Survey
  BY <1>0, <1>7 DEF SmokeTypes, LoopTypes, Smoke!Survey, Smoke!Goto
<1>8. CASE Smoke!Spawn
  <2>1. loop.todo \in 0 .. PerRound /\ loop.todo > 0
    BY <1>8 DEF SmokeTypes, LoopTypes, Smoke!Spawn
  <2>2. loop.todo - 1 \in 0 .. PerRound
    BY <2>1, Numbers
  <2>3. CASE \E a \in Smoke!Alarms : loop' = [loop EXCEPT !.todo = @ - 1, !.fresh = @ \cup {a}]
    <3>1. PICK a \in Smoke!Alarms : loop' = [loop EXCEPT !.todo = @ - 1, !.fresh = @ \cup {a}]
      BY <2>3
    <3>2. loop.fresh \cup {a} \in SUBSET Smoke!Alarms
      BY DEF SmokeTypes, LoopTypes
    <3> QED
      BY <1>0, <2>2, <3>1, <3>2 DEF SmokeTypes, LoopTypes
  <2>4. CASE loop' = [loop EXCEPT !.todo = @ - 1]
    BY <1>0, <2>2, <2>4 DEF SmokeTypes, LoopTypes
  <2> QED
    BY <1>8, <2>3, <2>4 DEF Smoke!Spawn
<1>9. CASE Smoke!Late
  <2>1. ASSUME NEW a \in loop.left,
               loop' = [loop EXCEPT !.left = @ \ {a}, !.incomplete = @ \/ alarm[a] # "done"]
        PROVE  LoopTypes'
    <3>1. (loop.incomplete \/ alarm[a] # "done") \in {TRUE, FALSE}
      OBVIOUS
    <3> QED
      BY <1>0, <2>1, <3>1 DEF SmokeTypes, LoopTypes
  <2>2. CASE \E s \in {"spawn", "survey"} : Smoke!Goto(s)
    BY <1>0, <2>2 DEF SmokeTypes, LoopTypes, Smoke!Goto
  <2> QED
    BY <1>9, <2>1, <2>2 DEF Smoke!Late
<1>10. CASE loop' = loop
  BY <1>0, <1>10 DEF SmokeTypes, LoopTypes
<1> QED
  BY <1>1, <1>2, <1>3, <1>4, <1>5, <1>6, <1>7, <1>8, <1>9, <1>10
  DEF Smoke!Next, Smoke!LoopStep, Smoke!AlarmStep, Smoke!RetryAlarm, Smoke!Ready,
      Smoke!AlarmEnds, Smoke!HandshakeFails, Smoke!Halt, Smoke!Resume, Smoke!Alert,
      Smoke!roundVars

\* Nor does any step leave the types of the rows and the flags.
LEMMA SmokeKeepsTypes ==
  ASSUME SmokeTypes, Smoke!Next
  PROVE  SmokeTypes'
<1>0. LoopTypes' /\ Smoke!Alarms' = Smoke!Alarms /\ MaxAlarmEvents \in Nat
  BY LoopKeepsTypes, Numbers DEF Smoke!Alarms
<1> USE DEF SmokeTypes, Flag, Smoke!roundVars, Smoke!alarmVars, Smoke!controlVars, Smoke!AlarmEvent
<1>1. CASE Smoke!Tick \/ Smoke!Halt \/ Smoke!Resume \/ Smoke!Alert \/ Smoke!TimeoutFires
  BY <1>0, <1>1 DEF Smoke!Tick, Smoke!Halt, Smoke!Resume, Smoke!Alert, Smoke!TimeoutFires
<1>2. CASE Smoke!Wake \/ Smoke!Gate \/ Smoke!Due \/ Smoke!Start \/ Smoke!Survey
  BY <1>0, <1>2 DEF Smoke!Wake, Smoke!Gate, Smoke!Due, Smoke!Start, Smoke!Survey, Smoke!spawnAllowed
<1>3. CASE Smoke!RoundDone
  <2>1. loop.fresh \subseteq Smoke!Alarms /\ loop.expired \subseteq Smoke!Alarms
    BY DEF LoopTypes
  <2> QED
    BY <1>0, <1>3, <2>1 DEF Smoke!RoundDone, Smoke!spawnAllowed
<1>4. CASE Smoke!Spawn
  BY <1>0, <1>4 DEF Smoke!Spawn
<1>5. CASE Smoke!Late
  <2>1. alarm' \in [Smoke!Alarms -> {"none", "spawning", "working", "done", "dead"}]
    BY <1>5 DEF Smoke!Late
  <2> QED
    BY <1>0, <1>5, <2>1 DEF Smoke!Late
<1>6. CASE Smoke!AlarmStep
  <2>1. alarm' \in [Smoke!Alarms -> {"none", "spawning", "working", "done", "dead"}]
    BY <1>6 DEF Smoke!AlarmStep, Smoke!RetryAlarm, Smoke!Ready, Smoke!AlarmEnds, Smoke!HandshakeFails
  <2> QED
    BY <1>0, <1>6, <2>1 DEF Smoke!AlarmStep, Smoke!RetryAlarm, Smoke!Ready, Smoke!AlarmEnds,
       Smoke!HandshakeFails
<1> QED
  BY <1>1, <1>2, <1>3, <1>4, <1>5, <1>6 DEF Smoke!Next, Smoke!LoopStep

\* The dead stay dead, and one who missed the handshake joins them.
LEMMA SmokeStep ==
  ASSUME SmokeInv, Smoke!Next
  PROVE  SmokeInv'
<1>1. SmokeTypes' /\ Smoke!Alarms' = Smoke!Alarms
  BY SmokeKeepsTypes DEF SmokeInv, Smoke!Alarms
<1>2. /\ IsFiniteSet(DeadAlarms) /\ IsFiniteSet(DeadAlarms')
      /\ Cardinality(DeadAlarms) \in Nat /\ Cardinality(DeadAlarms') \in Nat
      /\ Cardinality(DeadAlarms') <= MaxAlarms
  <2>1. IsFiniteSet(Smoke!Alarms) /\ Cardinality(Smoke!Alarms) = MaxAlarms
    BY Numbers, FS_Interval DEF Smoke!Alarms
  <2>2. DeadAlarms \subseteq Smoke!Alarms /\ DeadAlarms' \subseteq Smoke!Alarms
    BY <1>1 DEF DeadAlarms
  <2> QED
    BY <2>1, <2>2, FS_Subset, FS_CardinalityType
<1>3. ASSUME NEW a \in Smoke!Alarms, Smoke!HandshakeFails(a)
      PROVE  retries' \in Nat /\ retries' <= Cardinality(DeadAlarms')
  <2>1. DeadAlarms' = DeadAlarms \cup {a} /\ a \notin DeadAlarms
    BY <1>1, <1>3 DEF DeadAlarms, Smoke!HandshakeFails, SmokeInv, SmokeTypes
  <2>2. Cardinality(DeadAlarms') = Cardinality(DeadAlarms) + 1
    BY <1>2, <2>1, FS_AddElement
  <2> QED
    BY <1>2, <1>3, <2>2 DEF Smoke!HandshakeFails, SmokeInv
<1>4. ASSUME ~\E a \in Smoke!Alarms : Smoke!HandshakeFails(a)
      PROVE  retries' \in Nat /\ retries' <= Cardinality(DeadAlarms')
  <2>1. DeadAlarms \subseteq DeadAlarms'
    BY <1>1, <1>4 DEF DeadAlarms, SmokeInv, SmokeTypes, Smoke!Next, Smoke!LoopStep,
       Smoke!Tick, Smoke!TimeoutFires, Smoke!Wake, Smoke!Gate, Smoke!Due, Smoke!Start, Smoke!Survey,
       Smoke!Spawn, Smoke!RoundDone, Smoke!Late, Smoke!AlarmStep, Smoke!RetryAlarm, Smoke!Ready,
       Smoke!AlarmEnds, Smoke!Halt, Smoke!Resume, Smoke!Alert, Smoke!alarmVars, Smoke!NextAlarm,
       Smoke!Living
  <2>2. Cardinality(DeadAlarms) <= Cardinality(DeadAlarms')
    BY <1>2, <2>1, FS_Subset
  <2>3. retries' = retries \/ (retries > 0 /\ retries' = retries - 1)
    BY <1>4 DEF Smoke!Next, Smoke!LoopStep,
       Smoke!Tick, Smoke!TimeoutFires, Smoke!Wake, Smoke!Gate, Smoke!Due, Smoke!Start, Smoke!Survey,
       Smoke!Spawn, Smoke!RoundDone, Smoke!Late, Smoke!AlarmStep, Smoke!RetryAlarm, Smoke!Ready,
       Smoke!AlarmEnds, Smoke!Halt, Smoke!Resume, Smoke!Alert, Smoke!alarmVars
  <2> QED
    BY <1>2, <2>2, <2>3 DEF SmokeInv
<1> QED
  BY <1>1, <1>3, <1>4 DEF SmokeInv

\* SmokeInv holds in every state.
LEMMA SmokeCorrect == Spec => []SmokeInv
<1>1. Init => SmokeInv
  <2> SUFFICES ASSUME Init PROVE SmokeInv
    OBVIOUS
  <2>1. /\ alarm = [a \in Smoke!Alarms |-> "none"] /\ retries = 0
        /\ loop \in {Smoke!Idle, [Smoke!Idle EXCEPT !.at = "start"]}
        /\ round = {} /\ armed = FALSE /\ timedOut = FALSE /\ due = FALSE
        /\ smokeResumeWake = FALSE /\ halted = FALSE /\ alert = FALSE /\ alarmEvents = 0
    BY DEF Init, Smoke!Init
  <2>2. SmokeTypes
    <3>1. 0 \in 0 .. PerRound /\ 0 \in 0 .. MaxAlarmEvents /\ {} \in SUBSET Smoke!Alarms
      BY Numbers
    <3>2. LoopTypes
      <4>1. \E s \in {"select", "start"} :
              loop = [at |-> s, by |-> "tick", todo |-> 0, fresh |-> {}, left |-> {},
                      expired |-> {}, incomplete |-> FALSE]
        BY <2>1 DEF Smoke!Idle
      <4> QED
        BY <3>1, <4>1 DEF LoopTypes
    <3> QED
      BY <2>1, <3>1, <3>2 DEF SmokeTypes, Flag
  <2>3. DeadAlarms = {}
    BY <2>1 DEF DeadAlarms
  <2> QED
    BY <2>1, <2>2, <2>3, FS_EmptySet DEF SmokeInv
<1>2. ASSUME SmokeInv, UNCHANGED smokeVars PROVE SmokeInv'
  BY <1>2 DEF smokeVars, SmokeInv, SmokeTypes, LoopTypes, DeadAlarms, Smoke!Alarms, Flag
<1>3. SmokeInv /\ [Next]_vars => SmokeInv'
  BY <1>2, SmokeMoves, SmokeStep
<1> QED
  BY <1>1, <1>3, PTL DEF Spec

\* What SmokeInv says of types.
LEMMA SmokeTyped ==
  ASSUME SmokeInv
  PROVE  Smoke!TypeOK
<1>1. retries \in 0 .. MaxAlarms
  <2>1. IsFiniteSet(Smoke!Alarms) /\ Cardinality(Smoke!Alarms) = MaxAlarms
    BY Numbers, FS_Interval DEF Smoke!Alarms
  <2>2. DeadAlarms \subseteq Smoke!Alarms
    BY DEF DeadAlarms
  <2>3. Cardinality(DeadAlarms) <= MaxAlarms /\ Cardinality(DeadAlarms) \in Nat
    BY <2>1, <2>2, FS_Subset, FS_CardinalityType
  <2> QED
    BY <2>3, Numbers DEF SmokeInv
<1>2. loop.incomplete \in BOOLEAN
  BY FlagIs DEF SmokeInv, SmokeTypes, LoopTypes, Flag
<1>3. {armed, timedOut, due, smokeResumeWake, halted, alert} \subseteq BOOLEAN
  BY FlagIs DEF SmokeInv, SmokeTypes
<1>4. loop \in [at : {"select", "gate", "start", "survey", "spawn", "late", "due"},
               by : {"tick", "due", "late"}, todo : 0 .. PerRound,
               fresh : SUBSET Smoke!Alarms, left : SUBSET Smoke!Alarms,
               expired : SUBSET Smoke!Alarms, incomplete : BOOLEAN]
  BY <1>2 DEF SmokeInv, SmokeTypes, LoopTypes
<1> QED
  BY <1>1, <1>3, <1>4 DEF Smoke!TypeOK, SmokeInv, SmokeTypes

\* The types of agent input, which MailInv, InputInv and Flags hold.
LEMMA IOTyped ==
  ASSUME MailInv, InputInv, Flags
  PROVE  IO!TypeOK
<1>1. {told, missed, waiter, token, pendingMail, mailFlush, flushing, inputFlush,
       inputTimer, typing, recent, debounce} \subseteq BOOLEAN
  BY FlagIs DEF Flags
<1>2. /\ pendingInput \in Seq(Requests) /\ screen \in Seq(Requests)
      /\ sending \in Requests \cup {NoRequest}
      /\ step \in {"none", "taken", "written", "held", "failed"}
      /\ answers \in [Requests -> 0 .. 2]
  BY DEF InputInv, InputTypes
<1>3. /\ terminal \in {"starting", "up", "ended", "gone"}
      /\ unread \in 0 .. MaxMail /\ notifiers \in 0 .. MaxMail
      /\ mails \in 0 .. MaxMail /\ events \in 0 .. MaxEvents
      /\ wait \in {"idle", "registered", "blocked", "leaving"}
  BY Numbers DEF MailInv, MailTypes
<1> QED
  BY <1>1, <1>2, <1>3 DEF IO!TypeOK
-----------------------------------------------------------------------------
(* The transcript of a session.                                             *)

\* A step of the office is one of SessionLog, or leaves that part alone.
LEMMA LogMoves ==
  ASSUME [Next]_vars
  PROVE  Log!Next \/ UNCHANGED logVars
  BY DEF Next, vars, Others, Log!Next

\* Files of writes.
Files == Seq(Seq(SUBSET Lines))

LogTypes ==
  /\ limit \in Limits /\ shown \subseteq Lines /\ logLines \subseteq Lines
  /\ logSeen \subseteq Log!Keys /\ delta \subseteq Lines
  /\ logMu \in {"nobody", "pump", "tail"}
  /\ segments \in Files /\ segments # <<>> /\ logged \in Files /\ logged # <<>>
  /\ Flag(open) /\ pump \in {"reading", "due", "final", "waiting", "done"}
  /\ tail \in {"idle", "asked"}

\* Who holds logMu is between his snapshot and its write.
LogHeld ==
  /\ logMu = "pump" => pump \in {"due", "final"}
  /\ logMu = "tail" => tail = "asked"
  /\ logMu = "nobody" => delta = {}
  /\ open <=> pump # "done"
  /\ logMu = "pump" /\ pump = "final" => logLines = shown

\* A line with the key k was written, or is in the holder's hands.
WrittenKey(k) == \E t \in 1 .. Len(logged) : \E i \in 1 .. Len(logged[t]) :
                    \E m \in logged[t][i] : Log!KeyOf(m) = k
HeldKey(k) == \E m \in delta : Log!KeyOf(m) = k

\* While the log is open, what counts as logged is, or will be as soon as logMu is
\* given back; after the last snapshot, so is the whole screen.
KeysLogged ==
  /\ open => \A k \in Log!Keys : (\/ k \in logSeen
                                  \/ \E l \in logLines : Log!KeyOf(l) = k)
                                   => WrittenKey(k) \/ HeldKey(k)
  /\ pump \in {"waiting", "done"} => \A l \in shown : WrittenKey(Log!KeyOf(l))

LogInv == LogTypes /\ LogHeld /\ KeysLogged /\ Log!Retained

\* A rotation opens a new file and renames the others, as many as are kept.
LEMMA RotatedIs ==
  ASSUME LogTypes
  PROVE  /\ Log!keep \in Int /\ Log!Rotated \in Files
         /\ Len(Log!Rotated) = 1 + IF Log!keep < 0 \/ Log!keep > Len(segments)
                                  THEN Len(segments) ELSE Log!keep
         /\ Log!Rotated[1] = <<>>
         /\ \A i \in 2 .. Len(Log!Rotated) : /\ i - 1 \in 1 .. Len(segments)
                                            /\ Log!Rotated[i] = segments[i - 1]
<1> DEFINE S == Seq(SUBSET Lines)
           kept == IF Log!keep < 0 \/ Log!keep > Len(segments) THEN segments
                   ELSE SubSeq(segments, 1, Log!keep)
<1>1. segments \in Seq(S) /\ Limits \subseteq Int \X Nat /\ limit \in Limits
  BY OfficeConstants DEF LogTypes, Files
<1>2. Log!keep \in Int
  BY <1>1 DEF Log!keep
<1>3. <<<<>>>> \in Seq(S) /\ Len(<<<<>>>>) = 1 /\ <<<<>>>>[1] = <<>>
  OBVIOUS
<1>4. /\ kept \in Seq(S)
      /\ Len(kept) = IF Log!keep < 0 \/ Log!keep > Len(segments) THEN Len(segments) ELSE Log!keep
      /\ \A i \in 1 .. Len(kept) : i \in 1 .. Len(segments) /\ kept[i] = segments[i]
  <2>1. CASE Log!keep < 0 \/ Log!keep > Len(segments)
    BY <1>1, <2>1
  <2>2. CASE ~(Log!keep < 0 \/ Log!keep > Len(segments))
    <3>1. Log!keep \in 0 .. Len(segments) /\ Len(segments) \in Nat
      BY <1>1, <1>2, <2>2, LenProperties
    <3>2. /\ SubSeq(segments, 1, Log!keep) \in Seq(S)
          /\ Len(SubSeq(segments, 1, Log!keep)) = Log!keep
          /\ \A i \in 1 .. Log!keep : SubSeq(segments, 1, Log!keep)[i] = segments[i]
      BY <1>1, <3>1, SubSeqProperties
    <3> QED
      BY <2>2, <3>1, <3>2
  <2> QED
    BY <2>1, <2>2
<1>5. Log!Rotated = <<<<>>>> \o kept
  BY DEF Log!Rotated
<1> HIDE DEF kept
<1>6. Len(kept) \in Nat
  BY <1>4, LenProperties
<1>7. /\ Log!Rotated \in Seq(S) /\ Len(Log!Rotated) = 1 + Len(kept)
      /\ \A i \in 1 .. 1 + Len(kept) :
           Log!Rotated[i] = IF i <= 1 THEN <<<<>>>>[i] ELSE kept[i - 1]
  BY <1>3, <1>4, <1>5, ConcatProperties
<1>8. Log!Rotated[1] = <<>>
  BY <1>3, <1>6, <1>7
<1>9. \A i \in 2 .. Len(Log!Rotated) : /\ i - 1 \in 1 .. Len(segments)
                                      /\ Log!Rotated[i] = segments[i - 1]
  <2> TAKE i \in 2 .. Len(Log!Rotated)
  <2>1. i - 1 \in 1 .. Len(kept) /\ i \in 1 .. 1 + Len(kept) /\ ~(i <= 1)
    BY <1>6, <1>7
  <2>2. Log!Rotated[i] = kept[i - 1]
    BY <1>7, <2>1
  <2> QED
    BY <1>4, <2>1, <2>2
<1> QED
  BY <1>2, <1>4, <1>7, <1>8, <1>9 DEF Files

\* A write appends to the live file, and to what is known of it.
LEMMA WrittenIs ==
  ASSUME LogTypes, NEW s \in Files, s # <<>>, NEW h \in Files, h # <<>>, Log!Written(s, h)
  PROVE  /\ segments' \in Files /\ Len(segments') = Len(s) /\ Len(s) \in Nat \ {0}
         /\ segments'[1] = Append(s[1], delta) /\ \A i \in 2 .. Len(s) : segments'[i] = s[i]
         /\ logged' \in Files /\ Len(logged') = Len(h) /\ Len(h) \in Nat \ {0}
         /\ logged'[Len(h)] = Append(h[Len(h)], delta)
         /\ \A i \in 1 .. Len(h) - 1 : logged'[i] = h[i]
<1>1. delta \in SUBSET Lines
  BY DEF LogTypes
<1>2. /\ Len(s) \in Nat \ {0} /\ 1 \in 1 .. Len(s)
      /\ Len(h) \in Nat \ {0} /\ Len(h) \in 1 .. Len(h)
  BY EmptySeq, LenProperties DEF Files
<1>3. /\ segments' = [s EXCEPT ![1] = Append(s[1], delta)]
      /\ logged' = [h EXCEPT ![Len(h)] = Append(h[Len(h)], delta)]
  BY DEF Log!Written
<1>4. /\ segments' \in Files /\ Len(segments') = Len(s) /\ segments'[1] = Append(s[1], delta)
      /\ \A i \in 1 .. Len(s) : i # 1 => segments'[i] = s[i]
  <2>1. s[1] \in Seq(SUBSET Lines)
    BY <1>2, ElementOfSeq DEF Files
  <2>2. Append(s[1], delta) \in Seq(SUBSET Lines)
    BY <1>1, <2>1, AppendProperties
  <2> QED
    BY <1>2, <1>3, <2>2, ExceptSeq DEF Files
<1>5. /\ logged' \in Files /\ Len(logged') = Len(h) /\ logged'[Len(h)] = Append(h[Len(h)], delta)
      /\ \A i \in 1 .. Len(h) : i # Len(h) => logged'[i] = h[i]
  <2>1. h[Len(h)] \in Seq(SUBSET Lines)
    BY <1>2, ElementOfSeq DEF Files
  <2>2. Append(h[Len(h)], delta) \in Seq(SUBSET Lines)
    BY <1>1, <2>1, AppendProperties
  <2> QED
    BY <1>2, <1>3, <2>2, ExceptSeq DEF Files
<1> QED
  BY <1>2, <1>4, <1>5

\* What was written stays written, and so does what is written now.
LEMMA WrittenLogs ==
  ASSUME LogTypes, NEW s \in Files, s # <<>>, NEW h \in Files, h # <<>>, Log!Written(s, h),
         Len(logged) <= Len(h), \A t \in 1 .. Len(logged) : h[t] = logged[t]
  PROVE  /\ \A k : WrittenKey(k) => WrittenKey(k)'
         /\ \A k : HeldKey(k) => WrittenKey(k)'
<1> DEFINE n == Len(h)
<1>1. /\ n \in Nat \ {0} /\ Len(logged') = n /\ logged'[n] = Append(h[n], delta)
      /\ \A i \in 1 .. n - 1 : logged'[i] = h[i]
  BY WrittenIs
<1>2. h[n] \in Seq(SUBSET Lines) /\ delta \in SUBSET Lines /\ Len(logged) \in Nat
  BY <1>1, ElementOfSeq, LenProperties DEF Files, LogTypes
<1>3. /\ Len(logged'[n]) = Len(h[n]) + 1 /\ Len(h[n]) \in Nat
      /\ logged'[n][Len(h[n]) + 1] = delta
      /\ \A i \in 1 .. Len(h[n]) : logged'[n][i] = h[n][i]
  BY <1>1, <1>2, AppendProperties, LenProperties
<1>4. ASSUME NEW t \in 1 .. Len(logged), NEW i \in 1 .. Len(logged[t])
      PROVE  t \in 1 .. Len(logged') /\ i \in 1 .. Len(logged'[t]) /\ logged'[t][i] = logged[t][i]
  <2>1. t \in 1 .. n /\ h[t] = logged[t]
    BY <1>1, <1>2
  <2>2. CASE t = n
    BY <1>1, <1>3, <2>1, <2>2
  <2>3. CASE t # n
    <3>1. t \in 1 .. n - 1
      BY <1>1, <2>1, <2>3
    <3> QED
      BY <1>1, <2>1, <3>1
  <2> QED
    BY <2>2, <2>3
<1>5. ASSUME NEW k, WrittenKey(k) PROVE WrittenKey(k)'
  <2>0. PICK t \in 1 .. Len(logged) :
          \E i \in 1 .. Len(logged[t]) : \E m \in logged[t][i] : Log!KeyOf(m) = k
    BY <1>5 DEF WrittenKey
  <2>1. PICK i \in 1 .. Len(logged[t]) : \E m \in logged[t][i] : Log!KeyOf(m) = k
    BY <2>0
  <2>2. t \in 1 .. Len(logged') /\ i \in 1 .. Len(logged'[t]) /\ logged'[t][i] = logged[t][i]
    BY <1>4
  <2>3. PICK m \in logged'[t][i] : Log!KeyOf(m) = k
    BY <2>1, <2>2
  <2> QED
    BY <2>2, <2>3 DEF WrittenKey, Log!KeyOf
<1>6. ASSUME NEW k, HeldKey(k) PROVE WrittenKey(k)'
  <2>1. n \in 1 .. Len(logged') /\ Len(h[n]) + 1 \in 1 .. Len(logged'[n])
    BY <1>1, <1>3
  <2> QED
    BY <1>3, <1>6, <2>1 DEF WrittenKey, HeldKey, Log!KeyOf
<1> QED
  BY <1>5, <1>6

\* What a write does to the files and to what was logged: no file is overwritten,
\* nothing is forgotten, and what was held while the log is open is written.
LEMMA WriteLogs ==
  ASSUME LogInv, NEW who, Log!Write(who)
  PROVE  /\ segments' \in Files /\ segments' # <<>> /\ logged' \in Files /\ logged' # <<>>
         /\ Log!Retained'
         /\ \A k : WrittenKey(k) => WrittenKey(k)'
         /\ open => \A k : HeldKey(k) => WrittenKey(k)'
<1>0. LogTypes /\ Log!Retained
  BY DEF LogInv
<1>1. Log!Appended /\ limit' = limit
  BY DEF Log!Write
<1>2. /\ segments \in Files /\ segments # <<>> /\ Len(segments) \in Nat \ {0}
      /\ logged \in Files /\ logged # <<>> /\ Len(logged) \in Nat \ {0}
      /\ Log!keep \in Int /\ Log!keep' = Log!keep
  BY <1>0, <1>1, RotatedIs, EmptySeq, LenProperties DEF LogTypes, Files, Log!keep
<1>3. CASE UNCHANGED <<segments, logged>> /\ (delta = {} \/ ~open)
  <2>1. Log!Retained'
    BY <1>0, <1>2, <1>3 DEF Log!Retained
  <2> QED
    BY <1>2, <1>3, <2>1 DEF WrittenKey, HeldKey
<1>4. CASE Log!Written(segments, logged)
  <2>1. /\ segments' \in Files /\ Len(segments') = Len(segments)
        /\ segments'[1] = Append(segments[1], delta)
        /\ \A i \in 2 .. Len(segments) : segments'[i] = segments[i]
        /\ logged' \in Files /\ Len(logged') = Len(logged)
        /\ logged'[Len(logged)] = Append(logged[Len(logged)], delta)
        /\ \A i \in 1 .. Len(logged) - 1 : logged'[i] = logged[i]
    BY <1>0, <1>2, <1>4, WrittenIs
  <2>2. Log!Retained'
    <3>1. Len(segments) = IF Log!keep < 0 \/ Log!keep >= Len(logged) THEN Len(logged) ELSE Log!keep + 1
      BY <1>0 DEF Log!Retained
    <3>2. \A i \in 1 .. Len(segments) : segments[i] = logged[Len(logged) + 1 - i]
      BY <1>0 DEF Log!Retained
    <3>3. \A i \in 1 .. Len(segments) : segments'[i] = logged'[Len(logged) + 1 - i]
      <4> TAKE i \in 1 .. Len(segments)
      <4>1. CASE i = 1
        <5>1. 1 \in 1 .. Len(segments) /\ Len(logged) + 1 - 1 = Len(logged)
          BY <1>2
        <5>2. segments[1] = logged[Len(logged)]
          BY <3>2, <5>1
        <5> QED
          BY <2>1, <4>1, <5>1, <5>2
      <4>2. CASE i # 1
        <5>1. i \in 2 .. Len(segments) /\ Len(logged) + 1 - i \in 1 .. Len(logged) - 1
          BY <1>2, <3>1, <4>2
        <5> QED
          BY <2>1, <3>2, <5>1
      <4> QED
        BY <4>1, <4>2
    <3> QED
      BY <1>2, <2>1, <3>1, <3>3 DEF Log!Retained
  <2>3. \A k : (WrittenKey(k) => WrittenKey(k)') /\ (HeldKey(k) => WrittenKey(k)')
    BY <1>0, <1>2, <1>4, WrittenLogs
  <2> QED
    BY <1>2, <2>1, <2>2, <2>3, EmptySeq
<1>5. CASE Log!Written(Log!Rotated, Append(logged, <<>>))
  <2> DEFINE s == Log!Rotated
             h == Append(logged, <<>>)
  <2>1. /\ s \in Files /\ s[1] = <<>>
        /\ Len(s) = 1 + IF Log!keep < 0 \/ Log!keep > Len(segments) THEN Len(segments) ELSE Log!keep
        /\ \A i \in 2 .. Len(s) : i - 1 \in 1 .. Len(segments) /\ s[i] = segments[i - 1]
    BY <1>0, RotatedIs
  <2>2. <<>> \in Seq(SUBSET Lines)
    OBVIOUS
  <2>3. /\ h \in Files /\ Len(h) = Len(logged) + 1 /\ h[Len(logged) + 1] = <<>>
        /\ \A i \in 1 .. Len(logged) : h[i] = logged[i]
    BY <1>2, <2>2, AppendProperties DEF Files
  <2>4. Log!Written(s, h)
    BY <1>5
  <2> HIDE DEF s, h
  <2>5. s # <<>> /\ h # <<>>
    BY <1>2, <2>1, <2>3, EmptySeq
  <2>6. /\ segments' \in Files /\ Len(segments') = Len(s) /\ Len(s) \in Nat \ {0}
        /\ segments'[1] = Append(s[1], delta)
        /\ \A i \in 2 .. Len(s) : segments'[i] = s[i]
        /\ logged' \in Files /\ Len(logged') = Len(h)
        /\ logged'[Len(h)] = Append(h[Len(h)], delta)
        /\ \A i \in 1 .. Len(h) - 1 : logged'[i] = h[i]
    BY <1>0, <2>1, <2>3, <2>4, <2>5, WrittenIs
  <2>7. Log!Retained'
    <3>1. Len(segments) = IF Log!keep < 0 \/ Log!keep >= Len(logged) THEN Len(logged) ELSE Log!keep + 1
      BY <1>0 DEF Log!Retained
    <3>2. \A i \in 1 .. Len(segments) : segments[i] = logged[Len(logged) + 1 - i]
      BY <1>0 DEF Log!Retained
    <3>3. Len(s) = IF Log!keep < 0 \/ Log!keep >= Len(h) THEN Len(h) ELSE Log!keep + 1
      BY <1>2, <2>1, <2>3, <3>1
    <3>4. \A i \in 1 .. Len(s) : segments'[i] = logged'[Len(h) + 1 - i]
      <4> TAKE i \in 1 .. Len(s)
      <4>1. CASE i = 1
        <5>1. Len(h) + 1 - 1 = Len(h) /\ h[Len(h)] = <<>>
          BY <1>2, <2>3
        <5> QED
          BY <2>1, <2>6, <4>1, <5>1
      <4>2. CASE i # 1
        <5>1. /\ i \in 2 .. Len(s) /\ i - 1 \in 1 .. Len(segments)
              /\ Len(h) + 1 - i \in 1 .. Len(h) - 1 /\ Len(h) + 1 - i \in 1 .. Len(logged)
              /\ Len(logged) + 1 - (i - 1) = Len(h) + 1 - i
          BY <1>2, <2>1, <2>3, <3>1, <4>2
        <5>2. segments'[i] = segments[i - 1]
          BY <2>1, <2>6, <5>1
        <5>3. segments[i - 1] = logged[Len(logged) + 1 - (i - 1)]
          BY <3>2, <5>1
        <5>4. logged'[Len(h) + 1 - i] = logged[Len(h) + 1 - i]
          BY <2>3, <2>6, <5>1
        <5> QED
          BY <5>1, <5>2, <5>3, <5>4
      <4> QED
        BY <4>1, <4>2
    <3> QED
      BY <1>2, <2>6, <3>3, <3>4 DEF Log!Retained
  <2>8. \A k : (WrittenKey(k) => WrittenKey(k)') /\ (HeldKey(k) => WrittenKey(k)')
    BY <1>0, <1>2, <2>1, <2>3, <2>4, <2>5, WrittenLogs
  <2> QED
    BY <1>2, <2>3, <2>6, <2>7, <2>8, EmptySeq
<1> QED
  BY <1>1, <1>3, <1>4, <1>5 DEF Log!Appended

\* A snapshot takes the lines that are new, and leaves none of the screen behind.
LEMMA TakeCovers ==
  ASSUME LogInv, NEW who \in {"pump", "tail"}, Log!Take(who)
  PROVE  /\ logSeen' \subseteq Log!Keys /\ delta' \subseteq Lines /\ logLines' = shown
         /\ open => \A k \in Log!Keys : (\/ k \in logSeen'
                                         \/ \E l \in shown : Log!KeyOf(l) = k)
                                          => WrittenKey(k) \/ HeldKey(k)'
<1> DEFINE fresh == {l \in shown \ logLines : Log!KeyOf(l) \notin logSeen}
<1>0. LogTypes /\ delta = {}
  BY DEF LogInv, LogHeld, Log!Take
<1>1. PICK D \in SUBSET fresh :
        /\ \A k \in {Log!KeyOf(l) : l \in fresh} :
             Log!Cardinality({l \in D : Log!KeyOf(l) = k}) = 1
        /\ delta' = D /\ logSeen' = logSeen \cup {Log!KeyOf(l) : l \in D}
  BY DEF Log!Take, Log!Deltas
<1>2. fresh \subseteq Lines /\ D \subseteq Lines
  BY <1>0 DEF LogTypes
<1>3. logSeen' \subseteq Log!Keys
  BY <1>0, <1>1, <1>2 DEF LogTypes, Log!Keys
<1>4. ASSUME NEW l \in fresh PROVE \E m \in D : Log!KeyOf(m) = Log!KeyOf(l)
  <2> DEFINE same == {m \in D : Log!KeyOf(m) = Log!KeyOf(l)}
  <2>1. Log!Cardinality(same) = 1
    BY <1>1
  <2>2. Log!Cardinality(same) = Cardinality(same)
    BY DEF Log!Cardinality, Cardinality
  <2>3. same # {}
    BY <2>1, <2>2, FS_EmptySet
  <2> QED
    BY <2>3
<1>5. ASSUME open, NEW k \in Log!Keys,
             k \in logSeen' \/ \E l \in shown : Log!KeyOf(l) = k
      PROVE  WrittenKey(k) \/ HeldKey(k)'
  <2>1. ~HeldKey(k)
    BY <1>0 DEF HeldKey
  <2>2. CASE k \in logSeen \/ \E l \in logLines : Log!KeyOf(l) = k
    BY <1>5, <2>1, <2>2 DEF LogInv, KeysLogged
  <2>3. CASE \E l \in D : Log!KeyOf(l) = k
    BY <1>1, <2>3 DEF HeldKey, Log!KeyOf
  <2>4. CASE \E l \in fresh : Log!KeyOf(l) = k
    BY <1>4, <2>3, <2>4
  <2> QED
    BY <1>1, <1>5, <2>2, <2>3, <2>4
<1>6. logLines' = shown
  BY DEF Log!Take
<1> HIDE DEF fresh
<1> QED
  BY <1>1, <1>2, <1>3, <1>5, <1>6

\* Every step of the pump, of a tail and of time keeps LogInv.
LEMMA LogStepKeeps ==
  ASSUME LogInv, Log!Next
  PROVE  LogInv'
<1>0. LogTypes /\ LogHeld /\ KeysLogged /\ Log!Keys' = Log!Keys
  BY DEF LogInv, Log!Keys, Log!KeyOf
<1>1. CASE \/ Log!Output \/ Log!ReadFails \/ Log!CloseLog \/ Log!AskTail \/ Log!Forget
  <2>1. UNCHANGED <<limit, logLines, logMu, delta, segments, logged>>
        /\ logSeen' \subseteq logSeen
    BY <1>1 DEF Log!Output, Log!ReadFails, Log!CloseLog, Log!AskTail, Log!Forget
  <2>2. \A k : (WrittenKey(k) <=> WrittenKey(k)') /\ (HeldKey(k) <=> HeldKey(k)')
    BY <2>1 DEF WrittenKey, HeldKey, Log!KeyOf
  <2>3. LogTypes'
    BY <1>0, <1>1, <2>1 DEF LogTypes, Flag, Log!Output, Log!ReadFails, Log!AtEnd, Log!CloseLog,
       Log!AskTail, Log!Forget
  <2>4. LogHeld'
    BY <1>0, <1>1, <2>1 DEF LogTypes, LogHeld, Log!Output, Log!ReadFails, Log!AtEnd, Log!CloseLog,
       Log!AskTail, Log!Forget
  <2>5. open' => open
    BY <1>1 DEF Log!Output, Log!ReadFails, Log!CloseLog, Log!AskTail, Log!Forget
  <2>6. pump' \in {"waiting", "done"} => pump \in {"waiting", "done"} /\ shown' = shown
    BY <1>0, <1>1 DEF LogTypes, Log!Output, Log!ReadFails, Log!AtEnd, Log!CloseLog, Log!AskTail,
       Log!Forget
  <2>7. KeysLogged'
    BY <1>0, <2>1, <2>2, <2>5, <2>6 DEF KeysLogged, Log!KeyOf
  <2> QED
    BY <2>1, <2>3, <2>4, <2>7 DEF LogInv, Log!Retained, Log!keep
<1>2. ASSUME NEW who \in {"pump", "tail"}, Log!Take(who), UNCHANGED <<pump, tail>>,
             who = "pump" => pump \in {"due", "final"}, who = "tail" => tail = "asked"
      PROVE  LogInv'
  <2>1. /\ UNCHANGED <<limit, shown, segments, open, logged>> /\ logMu' = who
        /\ logMu = "nobody"
    BY <1>2 DEF Log!Take
  <2>2. /\ logSeen' \subseteq Log!Keys /\ delta' \subseteq Lines /\ logLines' = shown
        /\ open => \A k \in Log!Keys : (k \in logSeen' \/ \E l \in shown : Log!KeyOf(l) = k)
                                         => WrittenKey(k) \/ HeldKey(k)'
    BY <1>2, TakeCovers
  <2>3. LogTypes'
    BY <1>0, <1>2, <2>1, <2>2 DEF LogTypes, Flag
  <2>4. LogHeld'
    BY <1>0, <1>2, <2>1, <2>2 DEF LogHeld
  <2>5. \A k : WrittenKey(k) <=> WrittenKey(k)'
    BY <2>1 DEF WrittenKey, Log!KeyOf
  <2>6. KeysLogged'
    BY <1>0, <1>2, <2>1, <2>2, <2>5 DEF KeysLogged, Log!KeyOf
  <2> QED
    BY <2>1, <2>3, <2>4, <2>6 DEF LogInv, Log!Retained, Log!keep
<1>3. CASE Log!PumpWrites \/ Log!TailWrites
  <2>0. PICK who \in {"pump", "tail"} :
          /\ Log!Write(who)
          /\ who = "pump" => pump' = (IF pump = "due" THEN "reading" ELSE "waiting") /\ tail' = tail
          /\ who = "tail" => tail' = "idle" /\ pump' = pump
    BY <1>3 DEF Log!PumpWrites, Log!TailWrites
  <2>1. /\ logMu = who /\ logMu' = "nobody" /\ delta' = {}
        /\ UNCHANGED <<limit, shown, logLines, logSeen, open>>
    BY <2>0 DEF Log!Write
  <2>2. /\ segments' \in Files /\ segments' # <<>> /\ logged' \in Files /\ logged' # <<>>
        /\ Log!Retained'
        /\ \A k : WrittenKey(k) => WrittenKey(k)'
        /\ open => \A k : HeldKey(k) => WrittenKey(k)'
    BY <2>0, WriteLogs
  <2>3. LogTypes'
    BY <1>0, <2>0, <2>1, <2>2 DEF LogTypes, Flag
  <2>4. who = "pump" => pump \in {"due", "final"} /\ open
    BY <1>0, <2>1 DEF LogHeld
  <2>5. LogHeld'
    BY <1>0, <2>0, <2>1, <2>4 DEF LogHeld
  <2>6. open' => \A k \in Log!Keys' : (k \in logSeen' \/ \E l \in logLines' : Log!KeyOf(l) = k)
                                        => WrittenKey(k)'
    BY <1>0, <2>1, <2>2 DEF KeysLogged
  <2>7. ASSUME pump' \in {"waiting", "done"}, NEW l \in shown' PROVE WrittenKey(Log!KeyOf(l))'
    <3>1. CASE pump \in {"waiting", "done"}
      BY <1>0, <2>1, <2>2, <2>7, <3>1 DEF KeysLogged, Log!KeyOf
    <3>2. CASE pump = "final" /\ who = "pump"
      <4>1. l \in logLines' /\ Log!KeyOf(l) \in Log!Keys' /\ open'
        BY <1>0, <2>1, <2>4, <2>7, <3>2 DEF LogHeld, LogTypes, Log!Keys
      <4> QED
        BY <2>6, <4>1
    <3> QED
      BY <1>0, <2>0, <2>4, <2>7, <3>1, <3>2 DEF LogTypes
  <2>8. KeysLogged'
    BY <2>6, <2>7 DEF KeysLogged, Log!KeyOf
  <2> QED
    BY <2>2, <2>3, <2>5, <2>8 DEF LogInv
<1>4. CASE Log!PumpTakes \/ Log!TailTakes
  <2>1. UNCHANGED <<pump, tail>>
    BY <1>4 DEF Log!PumpTakes, Log!TailTakes, Log!Take
  <2> QED
    BY <1>2, <1>4, <2>1 DEF Log!PumpTakes, Log!TailTakes
<1> QED
  BY <1>1, <1>3, <1>4 DEF Log!Next, Log!LogStep

\* LogInv holds in every state.
LEMMA LogCorrect == Spec => []LogInv
<1>1. Init => LogInv
  <2> SUFFICES ASSUME Init PROVE LogInv
    OBVIOUS
  <2>1. /\ limit \in Limits /\ shown = {} /\ logLines = {} /\ logSeen = {}
        /\ logMu = "nobody" /\ delta = {} /\ segments = <<<<>>>> /\ open = TRUE
        /\ pump = "reading" /\ tail = "idle" /\ logged = <<<<>>>>
    BY DEF Init, Log!Init
  <2>2. /\ segments \in Files /\ segments # <<>> /\ Len(segments) = 1 /\ segments[1] = <<>>
        /\ logged \in Files /\ logged # <<>> /\ Len(logged) = 1 /\ logged[1] = <<>>
    BY <2>1 DEF Files
  <2>3. LogTypes
    BY <2>1, <2>2 DEF LogTypes, Flag
  <2>4. Log!Retained
    BY <2>2, <2>3, RotatedIs DEF Log!Retained
  <2> QED
    BY <2>1, <2>2, <2>3, <2>4 DEF LogInv, LogTypes, LogHeld, KeysLogged, Flag
<1>2. ASSUME LogInv, UNCHANGED logVars PROVE LogInv'
  BY <1>2 DEF logVars, LogInv, LogTypes, LogHeld, KeysLogged, WrittenKey, HeldKey, Log!Keys,
     Log!KeyOf, Log!Retained, Log!keep, Flag
<1>3. LogInv /\ [Next]_vars => LogInv'
  BY <1>2, LogMoves, LogStepKeeps
<1> QED
  BY <1>1, <1>3, PTL DEF Spec

\* What LogInv says of types.
LEMMA LogTyped ==
  ASSUME LogInv
  PROVE  Log!TypeOK
<1>1. open \in BOOLEAN
  BY FlagIs DEF LogInv, LogTypes
<1> QED
  BY <1>1 DEF LogInv, LogTypes, Files, LogHeld, Log!TypeOK

\* The files of a session hold exactly the writes since the rotations that are kept,
\* and a closed log has had every line of the last screen, or one with its key, whatever
\* snapshots of the pump and of `omo logs` race for it (pump, TailLog, rotate, Close).
THEOREM TranscriptsKept == Spec => []SessionsAreTrue
<1>1. LogInv => SessionsAreTrue
  <2> SUFFICES ASSUME LogInv PROVE Log!Retained /\ Log!LastScreenLogged
    BY DEF SessionsAreTrue, Log!TranscriptKept
  <2> QED
    BY DEF LogInv, LogHeld, KeysLogged, WrittenKey, LogTypes, Log!LastScreenLogged
<1> QED
  BY LogCorrect, <1>1, PTL

-----------------------------------------------------------------------------
(* Branches and worktrees.                                                  *)

\* A step of the office is one of Worktrees, or leaves that part alone.
LEMMA TreesMove ==
  ASSUME [Next]_vars
  PROVE  Trees!Next \/ UNCHANGED treeVars
  BY DEF Next, vars, Others, Trees!Next

\* What is a tree and whose: a job has one of its own, which is no other job's.
LEMMA TreeFacts ==
  /\ Lead \notin Kids /\ Lead \in Trees!Jobs /\ Kids \subseteq Trees!Jobs
  /\ \A j \in Trees!Jobs : RepoOf[j] \in Repos /\ Trees!OwnTree(j) \in Trees!Trees
  /\ \A r \in Repos : <<Lead, r>> \in Trees!Trees
  /\ \A t \in Trees!Trees : t[1] \in Trees!Jobs /\ t[2] \in Repos /\ t = <<t[1], t[2]>>
  /\ \A t \in Trees!Trees : t[1] \in Kids => t = Trees!OwnTree(t[1])
  /\ \A t \in Trees!Trees, n \in Trees!Names : <<t, n>> \in Trees!Branches /\ <<t, n>> # Trees!NoBranch
  /\ \A b \in Trees!Branches : b # Trees!NoBranch /\ b = <<b[1], b[2]>>
                               /\ b[1] \in Trees!Trees /\ b[2] \in Trees!Names
  /\ 1 \in Trees!Names
<1>1. Lead \notin Kids /\ Lead \in Trees!Jobs /\ Kids \subseteq Trees!Jobs
  BY OfficeConstants DEF Trees!Jobs
<1>2. \A j \in Trees!Jobs : RepoOf[j] \in Repos /\ Trees!OwnTree(j) \in Trees!Trees
  BY OfficeConstants DEF Trees!Jobs, Trees!OwnTree, Trees!Trees
<1>3. \A r \in Repos : <<Lead, r>> \in Trees!Trees
  BY DEF Trees!Trees
<1>4. \A t \in Trees!Trees : t[1] \in Trees!Jobs /\ t[2] \in Repos /\ t = <<t[1], t[2]>>
  BY <1>1, <1>2 DEF Trees!Trees, Trees!OwnTree
<1>5. \A t \in Trees!Trees : t[1] \in Kids => t = Trees!OwnTree(t[1])
  BY <1>1 DEF Trees!Trees, Trees!OwnTree
<1>6. \A t \in Trees!Trees, n \in Trees!Names : <<t, n>> \in Trees!Branches /\ <<t, n>> # Trees!NoBranch
  BY DEF Trees!Branches, Trees!NoBranch
<1>7. \A b \in Trees!Branches : b # Trees!NoBranch /\ b = <<b[1], b[2]>>
                               /\ b[1] \in Trees!Trees /\ b[2] \in Trees!Names
  BY DEF Trees!Branches, Trees!NoBranch
<1>8. 1 \in Trees!Names
  BY Numbers DEF Trees!Names
<1> QED
  BY <1>1, <1>2, <1>3, <1>4, <1>5, <1>6, <1>7, <1>8

GitTypes ==
  /\ head \in [Trees!Trees -> Trees!Branches \cup {Trees!NoBranch}]
  /\ files \in [Trees!Trees -> {"none", "here", "aside"}]
  /\ DOMAIN branch \subseteq Trees!Branches
  /\ \A b \in DOMAIN branch : branch[b] \subseteq Trees!Jobs
  /\ landed \in [Repos -> SUBSET Trees!Jobs]
  /\ lostTrees \subseteq Trees!Trees

TreeTypes ==
  /\ policy \in [Repos -> {"automerge", "asis"}]
  /\ leadRole \in {"developer", "freelancer", "product_manager"}
  /\ naming \in {"generated", "ai"}
  /\ job \in [Trees!Jobs -> {"none", "queued", "active", "merging"} \cup Trees!Terminal]
  /\ exiting \subseteq Trees!Jobs
  /\ crew \in [Trees!Jobs -> SUBSET {"worker", "reviewer"}]
  /\ recorded \in [Trees!Trees -> Trees!Branches \cup {Trees!NoBranch}]
  /\ GitTypes
  /\ dispatch \in {<<>>} \cup (Trees!Jobs \X (Trees!Branches \cup {Trees!NoBranch}))
  /\ making \subseteq Trees!Trees /\ \A t, u \in making : t = u
  /\ merge \in [Trees!Jobs -> [at : {"idle", "merge", "clean"}, left : SUBSET Repos]]
  /\ cleaning \subseteq Trees!Jobs \X {"done", "cancelled"}
  /\ boot \in {"up", "recover", "moved", "registered", "reconcile", "failed"}
  /\ wrote \subseteq Trees!Jobs /\ excused \subseteq Trees!Jobs
  /\ treeEvents \in 0 .. MaxTreeEvents

\* What an event costs.
LEMMA TreeEventTypes ==
  ASSUME TreeTypes, Trees!Event \/ Trees!NoEvent
  PROVE  treeEvents' \in 0 .. MaxTreeEvents
  BY Numbers DEF TreeTypes, Trees!Event, Trees!NoEvent

\* A worktree that git adds, or removes, has the types of the others.
LEMMA WorktreeTypes ==
  ASSUME GitTypes, NEW t \in Trees!Trees, NEW b,
         \/ b \in Trees!Branches /\ \E base \in SUBSET Trees!Jobs : Trees!AddWorktree(t, b, base)
         \/ \E keep \in BOOLEAN : Trees!RemoveWorktree(t, b, keep)
  PROVE  GitTypes'
<1>1. ASSUME b \in Trees!Branches, NEW base \in SUBSET Trees!Jobs, Trees!AddWorktree(t, b, base)
      PROVE  GitTypes'
  BY <1>1 DEF GitTypes, Trees!AddWorktree, Trees!Jobs, Trees!Branches, Trees!Trees, Trees!OwnTree, Trees!Names
<1>2. ASSUME NEW keep \in BOOLEAN, Trees!RemoveWorktree(t, b, keep)
      PROVE  GitTypes'
  BY <1>2 DEF GitTypes, Trees!RemoveWorktree, Trees!Restrict
<1> QED
  BY <1>1, <1>2

\* The names that assign chooses from.
LEMMA NewNamesAre ==
  ASSUME NEW t \in Trees!Trees
  PROVE  Trees!NewNames(t) \subseteq {t} \X Trees!Names /\ Trees!NewNames(t) \subseteq Trees!Branches
  BY TreeFacts DEF Trees!NewNames, Trees!Branches

\* The steps that leave git alone.
Calm(j) == \/ Trees!ReviewBegins(j) \/ Trees!Finish(j) \/ Trees!Finalize(j) \/ Trees!CleanEnds(j)
           \/ Trees!KilledExit(j) \/ Trees!Cancel(j) \/ Trees!Requeue(j)
           \/ \E a \in {"worker", "reviewer"} : Trees!AgentExits(j, a)

\* The steps that do something to branches and worktrees.
LEMMA GitMoves ==
  ASSUME Trees!Next
  PROVE  \/ UNCHANGED <<head, files, branch, landed, lostTrees>>
         \/ \E j \in Trees!Jobs : \/ Trees!Assign(j) \/ Trees!Commits(j)
                                  \/ \E r \in Repos : \/ Trees!MergeRepo(j, r) \/ Trees!CleanRepo(j, r)
                                                      \/ Trees!Reconcile(j, r)
                                  \/ \E s \in {"done", "cancelled"} : Trees!CleanTerminal(j, s)
         \/ \E k \in Kids : Trees!MakeIntegration(k)
         \/ \E t \in {Lead} \X Repos : Trees!RecordIntegration(t)
         \/ Trees!Restart \/ Trees!Recover
<1>1. ASSUME NEW j \in Trees!Jobs, Calm(j)
      PROVE  UNCHANGED <<head, files, branch, landed, lostTrees>>
  BY <1>1 DEF Calm, Trees!gitVars, Trees!ReviewBegins, Trees!Finish, Trees!Finalize, Trees!CleanEnds,
     Trees!KilledExit, Trees!Cancel, Trees!Requeue, Trees!AgentExits
<1>2. CASE Trees!JobStep
  BY <1>1, <1>2 DEF Trees!JobStep, Calm
<1>3. CASE Trees!AssignRecords
  BY <1>3 DEF Trees!AssignRecords, Trees!gitVars
<1>4. CASE Trees!PMStep
  BY <1>4 DEF Trees!PMStep, Trees!CreateKid, Trees!gitVars
<1>5. CASE Trees!BootStep
  BY <1>5 DEF Trees!BootStep, Trees!Recovered, Trees!Started, Trees!gitVars
<1> QED
  BY <1>2, <1>3, <1>4, <1>5 DEF Trees!Next

\* Every step keeps the types of what git has.
LEMMA GitKeepsTypes ==
  ASSUME TreeTypes, Trees!Next
  PROVE  GitTypes'
<1> USE TreeFacts
<1>0. GitTypes /\ Trees!Jobs' = Trees!Jobs /\ Trees!Trees' = Trees!Trees /\ Trees!Branches' = Trees!Branches
  BY DEF TreeTypes, Trees!Jobs, Trees!Trees, Trees!Branches, Trees!OwnTree, Trees!Names
<1>1. CASE UNCHANGED <<head, files, branch, landed, lostTrees>>
  BY <1>0, <1>1 DEF GitTypes
<1>2. ASSUME NEW j \in Trees!Jobs, Trees!Assign(j) PROVE GitTypes'
  <2> DEFINE t == Trees!OwnTree(j)
             base == IF j \in Kids THEN branch[recorded[Trees!KidTree(j)]] ELSE landed[RepoOf[j]]
             names == IF recorded[t] # Trees!NoBranch THEN {recorded[t]} ELSE Trees!NewNames(t)
  <2>1. base \subseteq Trees!Jobs
    BY <1>0, <1>2 DEF Trees!Assign, GitTypes
  <2>2. names \subseteq Trees!Branches
    BY NewNamesAre DEF TreeTypes
  <2>3. CASE UNCHANGED Trees!gitVars
    BY <1>1, <2>3 DEF Trees!gitVars
  <2>4. ASSUME NEW b \in names, Trees!AddWorktree(t, b, base) PROVE GitTypes'
    <3>1. b \in Trees!Branches /\ base \in SUBSET Trees!Jobs /\ t \in Trees!Trees
      BY <2>1, <2>2
    <3> HIDE DEF base, t, names
    <3> QED
      BY <1>0, <2>4, <3>1, WorktreeTypes
  <2> QED
    BY <1>2, <2>3, <2>4 DEF Trees!Assign
<1>3. ASSUME NEW j \in Trees!Jobs, Trees!Commits(j) PROVE GitTypes'
  BY <1>0, <1>3 DEF Trees!Commits, GitTypes
<1>4. ASSUME NEW j \in Trees!Jobs, NEW r \in Repos, Trees!MergeRepo(j, r) PROVE GitTypes'
  <2> DEFINE b == recorded[Trees!TreeOf(j, r)]
             into == recorded[Trees!KidTree(j)]
  <2>1. CASE b \in DOMAIN branch /\ into \in DOMAIN branch /\ UNCHANGED <<head, files, landed, lostTrees>>
             /\ branch' = [branch EXCEPT ![into] = @ \cup branch[b]]
    BY <1>0, <2>1 DEF GitTypes
  <2>2. CASE b \in DOMAIN branch /\ landed' = [landed EXCEPT ![r] = @ \cup branch[b]]
             /\ UNCHANGED <<head, files, branch, lostTrees>>
    BY <1>0, <2>2 DEF GitTypes
  <2> HIDE DEF b, into
  <2>3. \/ UNCHANGED <<head, files, branch, landed, lostTrees>>
        \/ /\ b \in DOMAIN branch /\ into \in DOMAIN branch /\ UNCHANGED <<head, files, landed, lostTrees>>
           /\ branch' = [branch EXCEPT ![into] = @ \cup branch[b]]
        \/ /\ b \in DOMAIN branch /\ landed' = [landed EXCEPT ![r] = @ \cup branch[b]]
           /\ UNCHANGED <<head, files, branch, lostTrees>>
    BY <1>4 DEF Trees!MergeRepo, Trees!gitVars, b, into
  <2> QED
    BY <1>1, <2>1, <2>2, <2>3
<1>5. ASSUME NEW t \in Trees!Trees, NEW b, NEW keep \in BOOLEAN, Trees!RemoveWorktree(t, b, keep)
      PROVE  GitTypes'
  BY <1>0, <1>5, WorktreeTypes
<1>6. ASSUME NEW j \in Trees!Jobs, NEW r \in Repos, Trees!CleanRepo(j, r) PROVE GitTypes'
  <2>1. CASE UNCHANGED Trees!gitVars
    BY <1>1, <2>1 DEF Trees!gitVars
  <2>2. CASE Trees!RemoveWorktree(Trees!TreeOf(j, r), recorded[Trees!TreeOf(j, r)], Trees!Retains(j, r))
    BY <1>0, <2>2 DEF GitTypes, Trees!RemoveWorktree, Trees!Restrict
  <2> QED
    BY <1>6, <2>1, <2>2 DEF Trees!CleanRepo
<1>7. ASSUME NEW j \in Trees!Jobs, NEW s, Trees!CleanTerminal(j, s) PROVE GitTypes'
  BY <1>5, <1>7 DEF Trees!CleanTerminal, Trees!Remove
<1>8. ASSUME NEW k \in Kids, Trees!MakeIntegration(k) PROVE GitTypes'
  <2> DEFINE t == Trees!KidTree(k)
  <2>1. t \in Trees!Trees /\ landed[RepoOf[k]] \in SUBSET Trees!Jobs
    BY <1>0 DEF GitTypes, Trees!KidTree
  <2>2. PICK b \in Trees!NewNames(t) : Trees!AddWorktree(t, b, landed[RepoOf[k]])
    BY <1>8 DEF Trees!MakeIntegration
  <2> HIDE DEF t
  <2> QED
    BY <1>0, <2>1, <2>2, NewNamesAre, WorktreeTypes
<1>9. ASSUME NEW t \in {Lead} \X Repos, Trees!RecordIntegration(t) PROVE GitTypes'
  <2>1. t \in Trees!Trees
    BY DEF Trees!Trees
  <2> QED
    BY <1>1, <1>5, <1>9, <2>1 DEF Trees!RecordIntegration, Trees!gitVars
<1>10. CASE Trees!Restart
  BY <1>0, <1>10 DEF Trees!Restart, GitTypes, Trees!IntegrationTrees, Trees!Trees
<1>11. CASE Trees!Recover
  <2>1. PICK t \in {Lead} \X Repos :
          Trees!MoveAside(t) \/ Trees!Reregister(t) \/ Trees!MoveBack(t) \/ Trees!Readd(t)
    BY <1>11 DEF Trees!Recover
  <2>2. t \in Trees!Trees /\ recorded[t] \in Trees!Branches \cup {Trees!NoBranch}
    BY DEF Trees!Trees, TreeTypes
  <2>3. CASE Trees!MoveAside(t)
    BY <1>0, <2>2, <2>3 DEF GitTypes, Trees!MoveAside
  <2>4. CASE Trees!Reregister(t)
    BY <1>0, <2>2, <2>4 DEF GitTypes, Trees!Reregister
  <2>5. CASE Trees!MoveBack(t)
    BY <1>0, <2>2, <2>5 DEF GitTypes, Trees!MoveBack
  <2>6. CASE Trees!Readd(t)
    BY <1>0, <2>2, <2>6 DEF GitTypes, Trees!Readd
  <2> QED
    BY <2>1, <2>3, <2>4, <2>5, <2>6
<1>12. ASSUME NEW j \in Trees!Jobs, NEW r \in Repos, Trees!Reconcile(j, r) PROVE GitTypes'
  BY <1>5, <1>12 DEF Trees!Reconcile, Trees!Remove
<1> QED
  BY <1>1, <1>2, <1>3, <1>4, <1>6, <1>7, <1>8, <1>9, <1>10, <1>11, <1>12, GitMoves

\* What a step does to the jobs' rows and to what the office does has the right types.
RowTypes ==
  /\ job \in [Trees!Jobs -> {"none", "queued", "active", "merging"} \cup Trees!Terminal]
  /\ exiting \subseteq Trees!Jobs
  /\ crew \in [Trees!Jobs -> SUBSET {"worker", "reviewer"}]
  /\ recorded \in [Trees!Trees -> Trees!Branches \cup {Trees!NoBranch}]
  /\ wrote \subseteq Trees!Jobs /\ excused \subseteq Trees!Jobs
OpTypes ==
  /\ dispatch \in {<<>>} \cup (Trees!Jobs \X (Trees!Branches \cup {Trees!NoBranch}))
  /\ making \subseteq Trees!Trees /\ \A t, u \in making : t = u
  /\ merge \in [Trees!Jobs -> [at : {"idle", "merge", "clean"}, left : SUBSET Repos]]
  /\ cleaning \subseteq Trees!Jobs \X {"done", "cancelled"}
  /\ boot \in {"up", "recover", "moved", "registered", "reconcile", "failed"}
  /\ treeEvents \in 0 .. MaxTreeEvents

\* Every step keeps the types of the rows.
LEMMA RowsKeepTypes ==
  ASSUME TreeTypes, Trees!Next
  PROVE  RowTypes'
<1> USE TreeFacts DEF RowTypes
<1>0. RowTypes /\ GitTypes /\ Trees!Jobs' = Trees!Jobs /\ Trees!Trees' = Trees!Trees /\ Trees!Branches' = Trees!Branches
      /\ Trees!Terminal' = Trees!Terminal
  BY DEF TreeTypes, Trees!Jobs, Trees!Trees, Trees!Branches, Trees!OwnTree, Trees!Names, Trees!Terminal
<1>1. ASSUME UNCHANGED <<job, exiting, crew, recorded, wrote, excused>> PROVE RowTypes'
  BY <1>0, <1>1
<1>2. ASSUME NEW j \in Trees!Jobs,
             Trees!Assign(j) \/ Trees!CleanEnds(j) \/ \E r \in Repos : Trees!CleanRepo(j, r)
      PROVE  RowTypes'
  BY <1>1, <1>2 DEF Trees!Assign, Trees!CleanEnds, Trees!CleanRepo
<1>16. ASSUME NEW j \in Trees!Jobs, NEW a \in {"worker", "reviewer"},
             \/ crew' = crew \/ crew' = [crew EXCEPT ![j] = @ \cup {a}]
             \/ crew' = [crew EXCEPT ![j] = @ \ {a}] \/ crew' = [crew EXCEPT ![j] = {}]
      PROVE  crew' \in [Trees!Jobs -> SUBSET {"worker", "reviewer"}]
  <2>1. /\ crew[j] \cup {a} \in SUBSET {"worker", "reviewer"} /\ crew[j] \ {a} \in SUBSET {"worker", "reviewer"}
        /\ {} \in SUBSET {"worker", "reviewer"}
    BY <1>0
  <2> QED
    BY <1>0, <1>16, <2>1
<1>3. ASSUME NEW j \in Trees!Jobs, Trees!Commits(j) \/ Trees!Finish(j) \/ Trees!KilledExit(j)
      PROVE  RowTypes'
  BY <1>0, <1>3 DEF Trees!Commits, Trees!Finish, Trees!KilledExit
<1>17. ASSUME NEW j \in Trees!Jobs, Trees!ReviewBegins(j)
      PROVE  RowTypes'
  <2>1. crew' = [crew EXCEPT ![j] = @ \cup {"reviewer"}]
        /\ UNCHANGED <<job, exiting, recorded, wrote, excused>>
    BY <1>17 DEF Trees!ReviewBegins
  <2> QED
    BY <1>0, <1>16, <2>1
<1>4. ASSUME NEW j \in Trees!Jobs, Trees!Finalize(j) PROVE RowTypes'
  <2>1. /\ crew' = crew \/ crew' = [crew EXCEPT ![j] = @ \ {"worker"}]
        /\ exiting' = exiting \/ exiting' = exiting \cup {j}
        /\ job' = job \/ job' = [job EXCEPT ![j] = "done"]
        /\ UNCHANGED <<recorded, wrote, excused>>
    BY <1>4 DEF Trees!Finalize
  <2>2. crew' \in [Trees!Jobs -> SUBSET {"worker", "reviewer"}]
    BY <1>16, <2>1
  <2>3. job' \in [Trees!Jobs -> {"none", "queued", "active", "merging"} \cup Trees!Terminal]
    BY <1>0, <2>1 DEF Trees!Terminal
  <2> QED
    BY <1>0, <2>1, <2>2, <2>3
<1>5. ASSUME NEW j \in Trees!Jobs, Trees!Cancel(j) PROVE RowTypes'
  BY <1>0, <1>5 DEF Trees!Cancel, Trees!Terminal
<1>6. ASSUME NEW j \in Trees!Jobs, Trees!Requeue(j) PROVE RowTypes'
  BY <1>0, <1>6 DEF Trees!Requeue
<1>7. ASSUME NEW j \in Trees!Jobs, NEW r \in Repos, Trees!MergeRepo(j, r) PROVE RowTypes'
  <2>1. UNCHANGED <<crew, exiting, recorded, wrote>>
        /\ (job' = job \/ job' = [job EXCEPT ![j] = "active"])
        /\ (excused' = excused \/ excused' = excused \cup {j})
    BY <1>7 DEF Trees!MergeRepo
  <2> QED
    BY <1>0, <2>1
<1>8. ASSUME NEW j \in Trees!Jobs, NEW a \in {"worker", "reviewer"}, Trees!AgentExits(j, a) PROVE RowTypes'
  <2>1. /\ crew' = [crew EXCEPT ![j] = @ \ {a}]
        /\ job' = job \/ \E z \in {"queued", "failed"} : job' = [job EXCEPT ![j] = z]
        /\ UNCHANGED <<exiting, recorded, wrote, excused>>
    BY <1>8 DEF Trees!AgentExits
  <2>2. crew' \in [Trees!Jobs -> SUBSET {"worker", "reviewer"}]
    BY <1>16, <2>1
  <2>3. job' \in [Trees!Jobs -> {"none", "queued", "active", "merging"} \cup Trees!Terminal]
    BY <1>0, <2>1 DEF Trees!Terminal
  <2> QED
    BY <1>0, <2>1, <2>2, <2>3
<1>9. ASSUME NEW j \in Trees!Jobs, NEW s, Trees!CleanTerminal(j, s) \/ \E r \in Repos : Trees!Reconcile(j, r)
      PROVE  RowTypes'
  BY <1>0, <1>9 DEF Trees!CleanTerminal, Trees!Reconcile, Trees!Remove
<1>10. CASE Trees!AssignRecords
  <2>1. dispatch[1] \in Trees!Jobs /\ dispatch[2] \in Trees!Branches \cup {Trees!NoBranch}
    BY <1>10 DEF Trees!AssignRecords, TreeTypes
  <2>2. /\ job' = job \/ job' = [job EXCEPT ![dispatch[1]] = "active"]
        /\ crew' = crew \/ crew' = [crew EXCEPT ![dispatch[1]] = @ \cup {"worker"}]
        /\ recorded' = recorded \/ recorded' = [recorded EXCEPT ![Trees!OwnTree(dispatch[1])] = dispatch[2]]
        /\ UNCHANGED <<exiting, wrote, excused>>
    BY <1>10 DEF Trees!AssignRecords
  <2>3. crew' \in [Trees!Jobs -> SUBSET {"worker", "reviewer"}]
    BY <1>16, <2>1, <2>2
  <2>4. job' \in [Trees!Jobs -> {"none", "queued", "active", "merging"} \cup Trees!Terminal]
    BY <1>0, <2>1, <2>2
  <2>5. recorded' \in [Trees!Trees -> Trees!Branches \cup {Trees!NoBranch}]
    BY <1>0, <2>1, <2>2
  <2> QED
    BY <1>0, <2>2, <2>3, <2>4, <2>5
<1>11. CASE Trees!PMStep
  <2>1. ASSUME NEW k \in Kids, Trees!CreateKid(k) \/ Trees!MakeIntegration(k) PROVE RowTypes'
    BY <1>0, <2>1 DEF Trees!CreateKid, Trees!MakeIntegration
  <2>2. ASSUME NEW t \in {Lead} \X Repos, Trees!RecordIntegration(t) PROVE RowTypes'
    <3>1. t \in Trees!Trees /\ head[t] \in Trees!Branches \cup {Trees!NoBranch}
      BY <1>0 DEF GitTypes, Trees!Trees
    <3> QED
      BY <1>0, <2>2, <3>1 DEF Trees!RecordIntegration
  <2> QED
    BY <1>11, <2>1, <2>2 DEF Trees!PMStep
<1>12. CASE Trees!Restart
  <2>1. crew' \in [Trees!Jobs -> SUBSET {"worker", "reviewer"}]
    BY <1>12 DEF Trees!Restart
  <2>2. job' \in [Trees!Jobs -> {"none", "queued", "active", "merging"} \cup Trees!Terminal]
    BY <1>0, <1>12 DEF Trees!Restart
  <2> QED
    BY <1>0, <1>12, <2>1, <2>2 DEF Trees!Restart
<1>13. CASE Trees!Recover \/ Trees!Recovered \/ Trees!Started
  BY <1>1, <1>13 DEF Trees!Recover, Trees!Recovered, Trees!Started
<1>14. CASE Trees!JobStep
  BY <1>2, <1>3, <1>4, <1>5, <1>6, <1>7, <1>8, <1>9, <1>14, <1>17 DEF Trees!JobStep
<1>15. CASE Trees!BootStep
  BY <1>9, <1>12, <1>13, <1>15 DEF Trees!BootStep
<1> QED
  BY <1>10, <1>11, <1>14, <1>15 DEF Trees!Next

\* Every step keeps the types of what the office is doing.
LEMMA OpsKeepTypes ==
  ASSUME TreeTypes, Trees!Next
  PROVE  OpTypes'
<1> USE TreeFacts DEF OpTypes
<1>0. OpTypes /\ Trees!Jobs' = Trees!Jobs /\ Trees!Trees' = Trees!Trees /\ Trees!Branches' = Trees!Branches
  BY DEF TreeTypes, Trees!Jobs, Trees!Trees, Trees!Branches, Trees!OwnTree, Trees!Names
<1>1. ASSUME UNCHANGED <<dispatch, making, merge, cleaning, boot>>, Trees!Event \/ Trees!NoEvent
      PROVE  OpTypes'
  <2>1. treeEvents' \in 0 .. MaxTreeEvents
    BY <1>1, TreeEventTypes
  <2> QED
    BY <1>0, <1>1, <2>1
<1>2. ASSUME NEW j \in Trees!Jobs,
             Trees!Commits(j) \/ Trees!ReviewBegins(j) \/ Trees!Cancel(j) \/ Trees!Requeue(j)
      PROVE  OpTypes'
  BY <1>1, <1>2 DEF Trees!Commits, Trees!ReviewBegins, Trees!Cancel, Trees!Requeue, Trees!opVars, Trees!NoEvent
<1>3. ASSUME NEW j \in Trees!Jobs, Trees!Assign(j) PROVE OpTypes'
  <2> DEFINE t == Trees!OwnTree(j)
             names == IF recorded[t] # Trees!NoBranch THEN {recorded[t]} ELSE Trees!NewNames(t)
  <2>1. names \subseteq Trees!Branches
    BY NewNamesAre DEF TreeTypes
  <2>2. dispatch' = <<j, Trees!NoBranch>> \/ \E b \in names : dispatch' = <<j, b>>
    BY <1>3 DEF Trees!Assign
  <2>3. dispatch' \in Trees!Jobs \X (Trees!Branches \cup {Trees!NoBranch})
    BY <2>1, <2>2
  <2> QED
    BY <1>0, <1>3, <2>3 DEF Trees!Assign
<1>4. ASSUME NEW j \in Trees!Jobs, NEW at \in {"idle", "merge", "clean"}, NEW left \in SUBSET Repos,
             \/ merge' = merge \/ merge' = [merge EXCEPT ![j] = [at |-> at, left |-> left]]
             \/ merge' = [merge EXCEPT ![j].left = left],
             UNCHANGED <<dispatch, making, cleaning, boot>>, Trees!Event \/ Trees!NoEvent
      PROVE  OpTypes'
  <2>1. treeEvents' \in 0 .. MaxTreeEvents
    BY <1>4, TreeEventTypes
  <2>2. [at |-> at, left |-> left] \in [at : {"idle", "merge", "clean"}, left : SUBSET Repos]
    OBVIOUS
  <2>3. merge' \in [Trees!Jobs -> [at : {"idle", "merge", "clean"}, left : SUBSET Repos]]
    <3>1. [merge[j] EXCEPT !.left = left] \in [at : {"idle", "merge", "clean"}, left : SUBSET Repos]
      <4>1. merge[j] \in [at : {"idle", "merge", "clean"}, left : SUBSET Repos]
        BY <1>0
      <4> QED
        BY <4>1
    <3>2. \/ merge' = merge \/ merge' = [merge EXCEPT ![j] = [at |-> at, left |-> left]]
          \/ merge' = [merge EXCEPT ![j] = [merge[j] EXCEPT !.left = left]]
      BY <1>4
    <3>3. ASSUME NEW v \in [at : {"idle", "merge", "clean"}, left : SUBSET Repos],
                 merge' = [merge EXCEPT ![j] = v]
          PROVE  merge' \in [Trees!Jobs -> [at : {"idle", "merge", "clean"}, left : SUBSET Repos]]
      <4> DEFINE Merges == [at : {"idle", "merge", "clean"}, left : SUBSET Repos]
      <4>1. merge \in [Trees!Jobs -> Merges] /\ v \in Merges
        BY <1>0
      <4> HIDE DEF Merges
      <4>2. merge' \in [Trees!Jobs -> Merges]
        BY <3>3, <4>1
      <4> QED
        BY <4>2 DEF Merges
    <3> QED
      BY <1>0, <2>2, <3>1, <3>2, <3>3
  <2> QED
    BY <1>0, <1>4, <2>1, <2>3
<1>5. \A j \in Trees!Jobs : Trees!ReposOf(j) \in SUBSET Repos
  BY DEF Trees!ReposOf
<1>6. ASSUME NEW j \in Trees!Jobs, Trees!Finish(j) \/ Trees!Finalize(j) \/ Trees!CleanEnds(j) PROVE OpTypes'
  <2>1. /\ UNCHANGED <<dispatch, making, cleaning, boot>> /\ Trees!NoEvent
        /\ \/ merge' = [merge EXCEPT ![j] = [at |-> "merge", left |-> Trees!ReposOf(j)]]
           \/ merge' = [merge EXCEPT ![j] = [at |-> "clean", left |-> Trees!ReposOf(j)]]
           \/ merge' = [merge EXCEPT ![j] = [at |-> "idle", left |-> {}]]
    BY <1>6 DEF Trees!Finish, Trees!Finalize, Trees!CleanEnds, Trees!NoEvent, Trees!Idle
  <2>2. {} \in SUBSET Repos
    OBVIOUS
  <2> QED
    BY <1>4, <1>5, <2>1, <2>2
<1>7. ASSUME NEW j \in Trees!Jobs, NEW r \in Repos, Trees!MergeRepo(j, r) \/ Trees!CleanRepo(j, r)
      PROVE  OpTypes'
  <2> DEFINE rest == merge[j].left \ {r}
  <2>1. rest \in SUBSET Repos /\ {} \in SUBSET Repos
    BY <1>0
  <2>2. /\ UNCHANGED <<dispatch, making, cleaning, boot>> /\ (Trees!Event \/ Trees!NoEvent)
        /\ \/ merge' = [merge EXCEPT ![j].left = rest]
           \/ merge' = [merge EXCEPT ![j] = [at |-> "idle", left |-> {}]]
    BY <1>7 DEF Trees!MergeRepo, Trees!CleanRepo, Trees!Idle
  <2> HIDE DEF rest
  <2> QED
    BY <1>4, <2>1, <2>2
<1>8. ASSUME NEW j \in Trees!Jobs, NEW living, Trees!CheckClean(j, living)
      PROVE  cleaning' \subseteq Trees!Jobs \X {"done", "cancelled"}
  BY <1>0, <1>8 DEF Trees!CheckClean, Trees!MayClean
<1>9. ASSUME NEW j \in Trees!Jobs,
             \/ Trees!KilledExit(j) \/ \E a \in {"worker", "reviewer"} : Trees!AgentExits(j, a)
             \/ \E s \in {"done", "cancelled"} : Trees!CleanTerminal(j, s)
      PROVE  OpTypes'
  <2>1. UNCHANGED <<dispatch, making, merge, boot>> /\ (Trees!Event \/ Trees!NoEvent)
    BY <1>9 DEF Trees!KilledExit, Trees!AgentExits, Trees!CleanTerminal, Trees!NoEvent
  <2>2. cleaning' \subseteq Trees!Jobs \X {"done", "cancelled"}
    <3>1. CASE \E s : cleaning' = cleaning \ {<<j, s>>}
      BY <1>0, <3>1
    <3>2. CASE \E living : Trees!CheckClean(j, living)
      BY <1>8, <3>2
    <3> QED
      BY <1>9, <3>1, <3>2 DEF Trees!KilledExit, Trees!AgentExits, Trees!CleanTerminal
  <2>3. treeEvents' \in 0 .. MaxTreeEvents
    BY <2>1, TreeEventTypes
  <2> QED
    BY <1>0, <2>1, <2>2, <2>3
<1>10. CASE Trees!AssignRecords
  BY <1>0, <1>10 DEF Trees!AssignRecords
<1>11. CASE Trees!PMStep
  <2>1. ASSUME NEW k \in Kids, Trees!CreateKid(k) PROVE OpTypes'
    BY <1>1, <2>1 DEF Trees!CreateKid, Trees!opVars, Trees!NoEvent
  <2>2. ASSUME NEW k \in Kids, Trees!MakeIntegration(k) PROVE OpTypes'
    BY <1>0, <2>2 DEF Trees!MakeIntegration, Trees!KidTree
  <2>3. ASSUME NEW t \in {Lead} \X Repos, Trees!RecordIntegration(t) PROVE OpTypes'
    <3>1. treeEvents' \in 0 .. MaxTreeEvents
      BY <2>3, TreeEventTypes DEF Trees!RecordIntegration
    <3> QED
      BY <1>0, <2>3, <3>1 DEF Trees!RecordIntegration
  <2> QED
    BY <1>11, <2>1, <2>2, <2>3 DEF Trees!PMStep
<1>12. CASE Trees!Restart
  <2>1. merge' \in [Trees!Jobs -> [at : {"idle", "merge", "clean"}, left : SUBSET Repos]]
    BY <1>12 DEF Trees!Restart, Trees!Idle
  <2>2. treeEvents' \in 0 .. MaxTreeEvents
    BY <1>12, TreeEventTypes DEF Trees!Restart
  <2> QED
    BY <1>12, <2>1, <2>2 DEF Trees!Restart
<1>13. CASE Trees!Recover \/ Trees!Recovered \/ Trees!Started
  <2>1. UNCHANGED <<dispatch, making, merge, cleaning>>
    BY <1>13 DEF Trees!Recover, Trees!Recovered, Trees!Started
  <2>2. boot' \in {"up", "recover", "moved", "registered", "reconcile", "failed"}
        /\ (Trees!Event \/ Trees!NoEvent)
    BY <1>0, <1>13 DEF Trees!Recover, Trees!Recovered, Trees!Started, Trees!MoveAside, Trees!Reregister,
       Trees!MoveBack, Trees!Readd, Trees!NoEvent
  <2>3. treeEvents' \in 0 .. MaxTreeEvents
    BY <2>2, TreeEventTypes
  <2> QED
    BY <1>0, <2>1, <2>2, <2>3
<1>14. ASSUME NEW j \in Trees!Jobs, NEW r \in Repos, Trees!Reconcile(j, r) PROVE OpTypes'
  BY <1>1, <1>14 DEF Trees!Reconcile, Trees!opVars, Trees!NoEvent
<1>15. CASE Trees!JobStep
  BY <1>2, <1>3, <1>6, <1>7, <1>9, <1>15 DEF Trees!JobStep
<1>16. CASE Trees!BootStep
  BY <1>12, <1>13, <1>14, <1>16 DEF Trees!BootStep
<1> QED
  BY <1>10, <1>11, <1>15, <1>16 DEF Trees!Next

\* No step changes what was chosen at the start.
LEMMA ChoicesStay ==
  ASSUME Trees!Next
  PROVE  UNCHANGED <<policy, leadRole, naming>>
<1>1. CASE Trees!JobStep
  <2>1. PICK j \in Trees!Jobs :
          \/ Calm(j) \/ Trees!Assign(j) \/ Trees!Commits(j)
          \/ \E r \in Repos : Trees!MergeRepo(j, r) \/ Trees!CleanRepo(j, r)
          \/ \E s \in {"done", "cancelled"} : Trees!CleanTerminal(j, s)
    BY <1>1 DEF Trees!JobStep, Calm
  <2>2. Calm(j) => UNCHANGED <<policy, leadRole, naming>>
    BY DEF Calm, Trees!jobVars, Trees!ReviewBegins, Trees!Finish, Trees!Finalize, Trees!CleanEnds,
       Trees!KilledExit, Trees!Cancel, Trees!Requeue, Trees!AgentExits
  <2> QED
    BY <2>1, <2>2 DEF Trees!jobVars, Trees!Assign, Trees!Commits, Trees!MergeRepo,
       Trees!CleanRepo, Trees!CleanTerminal
<1>2. CASE Trees!AssignRecords \/ Trees!PMStep
  BY <1>2 DEF Trees!AssignRecords, Trees!PMStep, Trees!CreateKid, Trees!MakeIntegration,
     Trees!RecordIntegration, Trees!jobVars
<1>3. CASE Trees!BootStep
  BY <1>3 DEF Trees!BootStep, Trees!Restart, Trees!Recover, Trees!Recovered, Trees!Started,
     Trees!Reconcile, Trees!jobVars
<1> QED
  BY <1>1, <1>2, <1>3 DEF Trees!Next

\* Every step keeps the types.
LEMMA TreesKeepTypes ==
  ASSUME TreeTypes, Trees!Next
  PROVE  TreeTypes'
<1>1. GitTypes' /\ RowTypes' /\ OpTypes'
  BY GitKeepsTypes, RowsKeepTypes, OpsKeepTypes
<1> QED
  BY <1>1, ChoicesStay DEF TreeTypes, RowTypes, OpTypes

\* The office starts with the types of the part.
LEMMA TreesStart ==
  ASSUME Init
  PROVE  TreeTypes
<1> USE DEF Trees!Terminal
<1>1. Trees!Init
  BY DEF Init
<1>2. GitTypes
  BY <1>1 DEF Trees!Init, GitTypes
<1>3. merge \in [Trees!Jobs -> [at : {"idle", "merge", "clean"}, left : SUBSET Repos]]
  <2>1. Trees!Idle \in [at : {"idle", "merge", "clean"}, left : SUBSET Repos]
    BY DEF Trees!Idle
  <2> HIDE DEF Trees!Idle
  <2> QED
    BY <1>1, <2>1 DEF Trees!Init
<1> QED
  BY <1>1, <1>2, <1>3, Numbers DEF Trees!Init, TreeTypes

\* TreeTypes holds in every state.
LEMMA TreesCorrect == Spec => []TreeTypes
<1>1. Init => TreeTypes
  BY TreesStart
<1>2. ASSUME TreeTypes, UNCHANGED treeVars PROVE TreeTypes'
  BY <1>2 DEF treeVars, TreeTypes, GitTypes, Trees!Jobs, Trees!Trees, Trees!OwnTree, Trees!Branches,
     Trees!Names, Trees!NoBranch, Trees!Terminal
<1>3. TreeTypes /\ [Next]_vars => TreeTypes'
  BY <1>2, TreesMove, TreesKeepTypes
<1> QED
  BY <1>1, <1>3, PTL DEF Spec

\* What TreeTypes says of types.
LEMMA TreesTyped ==
  ASSUME TreeTypes
  PROVE  Trees!TypeOK
<1>1. Trees!Cardinality(making) <= 1
  <2>1. Trees!Cardinality(making) = Cardinality(making)
    BY DEF Trees!Cardinality, Cardinality
  <2>2. CASE making = {}
    BY <2>1, <2>2, FS_EmptySet
  <2>3. ASSUME NEW t \in making PROVE Cardinality(making) = 1
    <3>1. making = {t}
      BY <2>3 DEF TreeTypes
    <3> QED
      BY <3>1, FS_Singleton
  <2> QED
    BY <2>1, <2>2, <2>3
<1> QED
  BY <1>1 DEF TreeTypes, GitTypes, Trees!TypeOK

\* The flags of agent input are truth values in every state.
LEMMA FlagsCorrect == Spec => []Flags
<1>1. Init => Flags
  BY DEF Init, IO!Init, Flags, Flag
<1>2. Flags /\ [Next]_vars => Flags'
  BY IOMoves, FlagsStep DEF ioVars, Flags, Flag
<1> QED
  BY <1>1, <1>2, PTL DEF Spec

\* Every variable of every part has its type in every state, whatever the bounds.
THEOREM TypesCorrect == Spec => []TypesOK
<1>1. /\ MailInv /\ InputInv /\ Flags /\ SmokeInv /\ FireInv /\ StopInv /\ NamerInv
      /\ TreeTypes /\ CEOInv /\ LogInv
      => TypesOK
  BY IOTyped, SmokeTyped, FireTyped, StopTyped, NamerTyped, TreesTyped, CEOKept, LogTyped
  DEF TypesOK
<1> QED
  BY MailCorrect, InputsCorrect, FlagsCorrect, SmokeCorrect, FireCorrect, StopCorrect, NamerCorrect,
     TreesCorrect, CEOCorrect, LogCorrect, <1>1, PTL
-----------------------------------------------------------------------------
(* The work on branches.                                                    *)

\* The jobs that have a worktree of their own: children of a product manager, or the
\* one job there is.
Workers == IF Trees!LeadIsPM THEN Kids ELSE {Lead}

\* What can concern which job.
Roles ==
  /\ \A k \in Kids : k \notin Workers => job[k] = "none" /\ merge[k] = Trees!Idle
  /\ wrote \subseteq Workers
  /\ \A c \in cleaning : c[1] \in Workers
  /\ \A j \in Workers : merge[j].left \subseteq {RepoOf[j]}
  /\ ~Trees!LeadIsPM => making = {}
  /\ making \subseteq {Lead} \X Repos
  /\ dispatch # <<>> => (dispatch[2] # Trees!NoBranch <=> dispatch[1] \in Workers)

\* How far a job is when something is done for it.
Stages ==
  /\ \A j \in Trees!Jobs : merge[j].at = "clean" => job[j] = "done"
  /\ \A c \in cleaning : c[2] = job[c[1]] \/ (c[2] = "cancelled" /\ c[1] \in excused)
  /\ \A j \in wrote : job[j] \notin {"none", "cancelled"}

\* The workers are the same ones for ever.
LEMMA WorkersStay ==
  ASSUME Trees!Next
  PROVE  /\ Workers' = Workers /\ (Trees!LeadIsPM <=> Trees!LeadIsPM')
         /\ Workers \subseteq Trees!Jobs
         /\ \A j \in Trees!Jobs \ Workers : IF Trees!LeadIsPM THEN j = Lead ELSE j \in Kids
  BY ChoicesStay, TreeFacts DEF Workers, Trees!LeadIsPM, Trees!Jobs

\* What two kinds of assignment do to merge.
LEMMA MergeBecomes ==
  ASSUME TreeTypes, NEW j \in Trees!Jobs
  PROVE  /\ \A left \in SUBSET Repos : merge' = [merge EXCEPT ![j].left = left] =>
              \A i \in Trees!Jobs : /\ merge'[i].at = merge[i].at
                                    /\ merge'[i].left = IF i = j THEN left ELSE merge[i].left
                                    /\ i # j => merge'[i] = merge[i]
         /\ \A v : merge' = [merge EXCEPT ![j] = v] =>
              \A i \in Trees!Jobs : merge'[i] = IF i = j THEN v ELSE merge[i]
<1>1. ASSUME NEW left \in SUBSET Repos, merge' = [merge EXCEPT ![j].left = left], NEW i \in Trees!Jobs
      PROVE  /\ merge'[i].at = merge[i].at
             /\ merge'[i].left = IF i = j THEN left ELSE merge[i].left
             /\ i # j => merge'[i] = merge[i]
  <2>1. merge[i] \in [at : {"idle", "merge", "clean"}, left : SUBSET Repos] /\ DOMAIN merge = Trees!Jobs
    BY DEF TreeTypes
  <2>2. merge'[i] = IF i = j THEN [merge[i] EXCEPT !.left = left] ELSE merge[i]
    BY <1>1, <2>1
  <2> QED
    BY <2>1, <2>2
<1>2. DOMAIN merge = Trees!Jobs
  BY DEF TreeTypes
<1>3. ASSUME NEW v, merge' = [merge EXCEPT ![j] = v], NEW i \in Trees!Jobs
      PROVE  merge'[i] = IF i = j THEN v ELSE merge[i]
  BY <1>2, <1>3
<1> QED
  BY <1>1, <1>3

\* Steps keep Roles.
LEMMA RolesKept ==
  ASSUME TreeTypes, Roles, Trees!Next
  PROVE  Roles'
<1>0. /\ Workers' = Workers /\ (Trees!LeadIsPM <=> Trees!LeadIsPM') /\ Workers \subseteq Trees!Jobs
      /\ \A j \in Trees!Jobs \ Workers : IF Trees!LeadIsPM THEN j = Lead ELSE j \in Kids
  BY WorkersStay
<1> USE TreeFacts
<1>1. ASSUME UNCHANGED <<merge, cleaning, making, dispatch>>, wrote' \subseteq wrote,
             \A k \in Kids : job[k] = "none" => job'[k] = "none"
      PROVE  Roles'
  BY <1>0, <1>1 DEF Roles, Trees!Idle
<1>2. ASSUME NEW j \in Trees!Jobs, Trees!ReviewBegins(j) \/ Trees!Cancel(j) \/ Trees!Requeue(j) PROVE Roles'
  BY <1>1, <1>2 DEF TreeTypes, Trees!ReviewBegins, Trees!Cancel, Trees!Requeue, Trees!opVars
<1>3. ASSUME NEW j \in Trees!Jobs, Trees!Commits(j) PROVE Roles'
  <2>1. j \in Workers
    BY <1>0, <1>3 DEF Trees!Commits, Roles
  <2> QED
    BY <1>0, <1>3, <2>1 DEF Trees!Commits, Trees!opVars, Roles, Trees!Idle
<1>4. ASSUME NEW j \in Trees!Jobs, Trees!Assign(j) PROVE Roles'
  <2> DEFINE t == Trees!OwnTree(j)
             names == IF recorded[t] # Trees!NoBranch THEN {recorded[t]} ELSE Trees!NewNames(t)
  <2>1. UNCHANGED <<merge, cleaning, making, wrote, job>>
    BY <1>4 DEF Trees!Assign
  <2>2. \A b \in names : b # Trees!NoBranch
    BY NewNamesAre
  <2>3. IF j = Lead /\ Trees!LeadIsPM THEN dispatch' = <<j, Trees!NoBranch>>
        ELSE \E b \in names : dispatch' = <<j, b>>
    BY <1>4 DEF Trees!Assign
  <2>4. j \in Workers <=> ~(j = Lead /\ Trees!LeadIsPM)
    BY <1>0, <1>4 DEF Trees!Assign, Roles, Workers
  <2>5. dispatch' # <<>> => (dispatch'[2] # Trees!NoBranch <=> dispatch'[1] \in Workers)
    BY <2>2, <2>3, <2>4
  <2> QED
    BY <1>0, <2>1, <2>5 DEF Roles, Trees!Idle
<1>5. ASSUME NEW j \in Trees!Jobs, NEW left \in SUBSET Repos,
             \/ merge' = [merge EXCEPT ![j] = Trees!Idle] \/ merge' = merge
             \/ /\ merge[j] # Trees!Idle \/ j = Lead \/ j \in Workers
                /\ j \in Workers => left \subseteq {RepoOf[j]}
                /\ \/ \E at : merge' = [merge EXCEPT ![j] = [at |-> at, left |-> left]]
                   \/ merge' = [merge EXCEPT ![j].left = left],
             UNCHANGED <<dispatch, making, cleaning, wrote>>,
             \A k \in Kids : job[k] = "none" => job'[k] = "none"
      PROVE  Roles'
  <2>1. \A k \in Kids : k \notin Workers => merge'[k] = Trees!Idle
    BY <1>0, <1>5 DEF Roles, TreeTypes, Workers
  <2>2. \A i \in Workers : merge'[i].left \subseteq {RepoOf[i]}
    <3>1. CASE merge' = [merge EXCEPT ![j] = Trees!Idle]
      BY <1>0, <3>1, MergeBecomes DEF Roles, Trees!Idle
    <3>2. CASE merge' = merge
      BY <3>2 DEF Roles
    <3>3. ASSUME NEW at, merge' = [merge EXCEPT ![j] = [at |-> at, left |-> left]],
                 j \in Workers => left \subseteq {RepoOf[j]}
          PROVE  \A i \in Workers : merge'[i].left \subseteq {RepoOf[i]}
      BY <1>0, <3>3, MergeBecomes DEF Roles
    <3>4. ASSUME merge' = [merge EXCEPT ![j].left = left], j \in Workers => left \subseteq {RepoOf[j]}
          PROVE  \A i \in Workers : merge'[i].left \subseteq {RepoOf[i]}
      BY <1>0, <3>4, MergeBecomes DEF Roles
    <3> QED
      BY <1>5, <3>1, <3>2, <3>3, <3>4
  <2> QED
    BY <1>0, <1>5, <2>1, <2>2 DEF Roles
<1>6. \A j \in Workers : Trees!ReposOf(j) \subseteq {RepoOf[j]}
  BY DEF Trees!ReposOf, Workers
<1>7. \A j \in Trees!Jobs : Trees!ReposOf(j) \in SUBSET Repos
  BY DEF Trees!ReposOf
<1>8. ASSUME NEW j \in Trees!Jobs, Trees!Finish(j) \/ Trees!Finalize(j) \/ Trees!CleanEnds(j) PROVE Roles'
  <2>1. /\ \/ merge' = [merge EXCEPT ![j] = Trees!Idle]
           \/ \E at : merge' = [merge EXCEPT ![j] = [at |-> at, left |-> Trees!ReposOf(j)]]
        /\ UNCHANGED <<dispatch, making, cleaning, wrote>>
    BY <1>8 DEF Trees!Finish, Trees!Finalize, Trees!CleanEnds
  <2>2. \A k \in Kids : job[k] = "none" => job'[k] = "none"
    BY <1>8 DEF TreeTypes, Trees!Finish, Trees!Finalize, Trees!CleanEnds
  <2>3. merge[j] # Trees!Idle \/ j = Lead \/ j \in Workers
    BY <1>0, <1>8 DEF Trees!Finish, Trees!Finalize, Trees!CleanEnds, Trees!Idle, Roles, Trees!Jobs
  <2> QED
    BY <1>5, <1>6, <1>7, <2>1, <2>2, <2>3
<1>9. ASSUME NEW j \in Trees!Jobs, NEW r \in Repos, Trees!MergeRepo(j, r) \/ Trees!CleanRepo(j, r)
      PROVE  Roles'
  <2> DEFINE rest == merge[j].left \ {r}
  <2>1. /\ merge' = [merge EXCEPT ![j] = Trees!Idle] \/ merge' = [merge EXCEPT ![j].left = rest]
        /\ UNCHANGED <<dispatch, making, cleaning, wrote>>
    BY <1>9 DEF Trees!MergeRepo, Trees!CleanRepo
  <2>2. \A k \in Kids : job[k] = "none" => job'[k] = "none"
    BY <1>9 DEF TreeTypes, Trees!MergeRepo, Trees!CleanRepo
  <2>3. rest \in SUBSET Repos /\ (j \in Workers => rest \subseteq {RepoOf[j]}) /\ merge[j] # Trees!Idle
    BY <1>9 DEF Roles, TreeTypes, Trees!MergeRepo, Trees!CleanRepo, Trees!Idle
  <2> HIDE DEF rest
  <2> QED
    BY <1>5, <2>1, <2>2, <2>3
<1>10. ASSUME NEW j \in Trees!Jobs,
              \/ Trees!KilledExit(j) \/ \E a \in {"worker", "reviewer"} : Trees!AgentExits(j, a)
              \/ \E s \in {"done", "cancelled"} : Trees!CleanTerminal(j, s)
       PROVE  Roles'
  <2>1. UNCHANGED <<merge, making, dispatch, wrote>>
    BY <1>10 DEF Trees!KilledExit, Trees!AgentExits, Trees!CleanTerminal
  <2>2. \A k \in Kids : job[k] = "none" => job'[k] = "none"
    BY <1>10 DEF TreeTypes, Trees!KilledExit, Trees!AgentExits, Trees!CleanTerminal
  <2>3. ASSUME NEW living, Trees!CheckClean(j, living) PROVE \A c \in cleaning' : c[1] \in Workers
    <3>1. CASE Trees!MayClean(j, living)
      <4>1. (j \in Kids \/ ~Trees!LeadIsPM) /\ job[j] \in {"done", "cancelled"}
        BY <3>1 DEF Trees!MayClean
      <4>2. j \in Workers
        BY <1>0, <4>1 DEF Roles
      <4> QED
        BY <2>3, <4>2 DEF Trees!CheckClean, Roles
    <3> QED
      BY <2>3, <3>1 DEF Trees!CheckClean, Roles
  <2>4. \A c \in cleaning' : c[1] \in Workers
    BY <1>10, <2>3 DEF Trees!KilledExit, Trees!AgentExits, Trees!CleanTerminal, Roles
  <2> QED
    BY <1>0, <2>1, <2>2, <2>4 DEF Roles
<1>11. CASE Trees!AssignRecords
  <2>1. job' = job \/ (job' = [job EXCEPT ![dispatch[1]] = "active"] /\ job[dispatch[1]] = "queued")
    BY <1>11 DEF Trees!AssignRecords
  <2>2. \A k \in Kids : job[k] = "none" => job'[k] = "none"
    BY <2>1 DEF TreeTypes
  <2> QED
    BY <1>0, <1>11, <2>2 DEF Trees!AssignRecords, Roles
<1>12. CASE Trees!PMStep
  <2>1. ASSUME NEW k \in Kids, Trees!CreateKid(k) PROVE Roles'
    <3>1. Trees!LeadIsPM
      BY <2>1 DEF Trees!CreateKid
    <3>2. \A i \in Kids : i \in Workers
      BY <3>1 DEF Workers
    <3> QED
      BY <1>0, <2>1, <3>2 DEF Trees!CreateKid, Roles, Trees!opVars
  <2>2. ASSUME NEW k \in Kids, Trees!MakeIntegration(k) PROVE Roles'
    <3>1. making' = {<<Lead, RepoOf[k]>>} /\ UNCHANGED <<job, dispatch, merge, cleaning, wrote>>
          /\ job[k] = "queued"
      BY <2>2 DEF Trees!MakeIntegration, Trees!KidTree
    <3>2. k \in Workers
      BY <3>1 DEF Roles
    <3>3. Trees!LeadIsPM /\ RepoOf[k] \in Repos
      BY <3>2 DEF Workers
    <3> QED
      BY <1>0, <3>1, <3>3 DEF Roles
  <2>3. ASSUME NEW t \in {Lead} \X Repos, Trees!RecordIntegration(t) PROVE Roles'
    BY <1>0, <2>3 DEF Trees!RecordIntegration, Roles
  <2> QED
    BY <1>12, <2>1, <2>2, <2>3 DEF Trees!PMStep
<1>13. CASE Trees!Restart
  <2>1. \A k \in Kids : job[k] = "none" => job'[k] = "none"
    BY <1>13 DEF Trees!Restart
  <2> QED
    BY <1>0, <1>13, <2>1 DEF Trees!Restart, Roles, Trees!Idle
<1>14. ASSUME \/ Trees!Recover \/ Trees!Recovered \/ Trees!Started
              \/ \E j \in Trees!Jobs, r \in Repos : Trees!Reconcile(j, r)
       PROVE  Roles'
  BY <1>1, <1>14 DEF Trees!Recover, Trees!Recovered, Trees!Started, Trees!Reconcile, Trees!opVars
<1>15. CASE Trees!JobStep
  BY <1>2, <1>3, <1>4, <1>8, <1>9, <1>10, <1>15 DEF Trees!JobStep
<1>16. CASE Trees!BootStep
  BY <1>13, <1>14, <1>16 DEF Trees!BootStep
<1> QED
  BY <1>11, <1>12, <1>15, <1>16 DEF Trees!Next

\* Steps keep Stages: what is done stays done, and a clean-up of a cancelled job that is
\* queued again while it runs excuses the job.
LEMMA StagesKept ==
  ASSUME TreeTypes, Roles, Stages, Trees!Next
  PROVE  Stages'
<1> USE TreeFacts
<1>0. Trees!Jobs' = Trees!Jobs /\ Workers' = Workers /\ Workers \subseteq Trees!Jobs
      /\ wrote \subseteq Workers /\ \A c \in cleaning : c[1] \in Workers
  BY WorkersStay DEF Trees!Jobs, Roles
<1>1. ASSUME UNCHANGED <<merge, cleaning>>, wrote' \subseteq wrote, excused \subseteq excused',
             \A j \in Trees!Jobs : /\ job[j] \in {"done", "cancelled"} => job'[j] = job[j]
                                   /\ j \in wrote => job'[j] \notin {"none", "cancelled"}
      PROVE  Stages'
  BY <1>0, <1>1 DEF Stages, TreeTypes
<1>2. ASSUME NEW j \in Trees!Jobs, Trees!Assign(j) \/ Trees!ReviewBegins(j) PROVE Stages'
  BY <1>1, <1>2 DEF Trees!Assign, Trees!ReviewBegins, Trees!opVars, Stages
<1>3. ASSUME NEW j \in Trees!Jobs, Trees!Commits(j) PROVE Stages'
  BY <1>0, <1>3 DEF Trees!Commits, Trees!opVars, Stages
<1>4. ASSUME NEW j \in Trees!Jobs, Trees!Cancel(j) PROVE Stages'
  <2>1. job[j] \notin {"done", "cancelled"} /\ job' = [job EXCEPT ![j] = "cancelled"]
        /\ UNCHANGED <<merge, cleaning, excused>> /\ wrote' \subseteq wrote /\ j \notin wrote'
    <3>1. j \in Kids \/ j = Lead
      BY DEF Trees!Jobs
    <3> QED
      BY <1>4 DEF Trees!Cancel, Trees!opVars, Trees!Terminal
  <2>2. \A i \in Trees!Jobs : job'[i] = IF i = j THEN "cancelled" ELSE job[i]
    BY <2>1 DEF TreeTypes
  <2> QED
    BY <1>0, <2>1, <2>2 DEF Stages, TreeTypes
<1>5. ASSUME NEW j \in Trees!Jobs, Trees!Requeue(j) PROVE Stages'
  <2>1. /\ job[j] \in {"failed", "cancelled"} /\ job' = [job EXCEPT ![j] = "queued"]
        /\ UNCHANGED <<merge, cleaning>> /\ wrote' \subseteq wrote /\ excused \subseteq excused'
        /\ (\E c \in cleaning : c[1] = j) => j \in excused'
    BY <1>5 DEF Trees!Requeue, Trees!opVars
  <2>2. \A i \in Trees!Jobs : job'[i] = IF i = j THEN "queued" ELSE job[i]
    BY <2>1 DEF TreeTypes
  <2>3. \A c \in cleaning : c[2] = "done" \/ c[2] = "cancelled"
    BY DEF TreeTypes
  <2>4. \A c \in cleaning' : c[2] = job'[c[1]] \/ (c[2] = "cancelled" /\ c[1] \in excused')
    BY <1>0, <2>1, <2>2, <2>3 DEF Stages
  <2> QED
    BY <1>0, <2>1, <2>2, <2>4 DEF Stages
<1>6. ASSUME NEW j \in Trees!Jobs, Trees!Finish(j) PROVE Stages'
  BY <1>0, <1>6 DEF Trees!Finish, Stages, TreeTypes
<1>7. ASSUME NEW j \in Trees!Jobs, Trees!Finalize(j) PROVE Stages'
  <2>1. UNCHANGED <<cleaning, wrote, excused>>
        /\ \/ /\ job[j] = "merging" /\ job' = [job EXCEPT ![j] = "done"]
              /\ merge' = [merge EXCEPT ![j] = [at |-> "clean", left |-> Trees!ReposOf(j)]]
           \/ job' = job /\ merge' = [merge EXCEPT ![j] = Trees!Idle]
    BY <1>7 DEF Trees!Finalize
  <2>2. \A i \in Trees!Jobs : job'[i] = job[i] \/ (i = j /\ job[j] = "merging" /\ job'[j] = "done")
    BY <2>1 DEF TreeTypes
  <2>3. \A i \in Trees!Jobs : merge'[i] = merge[i] \/ (i = j /\ (merge'[j].at = "clean" => job'[j] = "done"))
    <3>1. CASE merge' = [merge EXCEPT ![j] = Trees!Idle]
      BY <3>1, MergeBecomes DEF Trees!Idle
    <3>2. CASE job[j] = "merging" /\ job' = [job EXCEPT ![j] = "done"]
               /\ merge' = [merge EXCEPT ![j] = [at |-> "clean", left |-> Trees!ReposOf(j)]]
      <4>1. job'[j] = "done"
        BY <3>2 DEF TreeTypes
      <4> QED
        BY <3>2, <4>1, MergeBecomes
    <3> QED
      BY <2>1, <3>1, <3>2
  <2>4. \A c \in cleaning : c[1] \in Trees!Jobs /\ c[2] \in {"done", "cancelled"}
    BY DEF TreeTypes
  <2>5. \A c \in cleaning' : c[2] = job'[c[1]] \/ (c[2] = "cancelled" /\ c[1] \in excused')
    BY <2>1, <2>2, <2>4 DEF Stages
  <2> QED
    BY <1>0, <2>1, <2>2, <2>3, <2>5 DEF Stages
<1>8. ASSUME NEW j \in Trees!Jobs, NEW r \in Repos, Trees!MergeRepo(j, r) \/ Trees!CleanRepo(j, r)
      PROVE  Stages'
  <2> DEFINE rest == merge[j].left \ {r}
  <2>1. /\ merge' = [merge EXCEPT ![j] = Trees!Idle] \/ merge' = [merge EXCEPT ![j].left = rest]
        /\ UNCHANGED <<cleaning, wrote>> /\ excused \subseteq excused'
        /\ job' = job \/ (job[j] = "merging" /\ job' = [job EXCEPT ![j] = "active"])
    BY <1>8 DEF Trees!MergeRepo, Trees!CleanRepo
  <2>2. \A i \in Trees!Jobs : merge'[i].at = "clean" => merge[i].at = "clean"
    <3>1. CASE merge' = [merge EXCEPT ![j] = Trees!Idle]
      BY <3>1, MergeBecomes DEF Trees!Idle
    <3>2. CASE merge' = [merge EXCEPT ![j].left = rest]
      <4>1. rest \in SUBSET Repos
        BY DEF TreeTypes
      <4> HIDE DEF rest
      <4> QED
        BY <3>2, <4>1, MergeBecomes
    <3> QED
      BY <2>1, <3>1, <3>2
  <2>3. \A i \in Trees!Jobs : /\ job[i] \in {"done", "cancelled"} => job'[i] = job[i]
                              /\ job'[i] # job[i] => job'[i] = "active"
    BY <2>1 DEF TreeTypes
  <2> QED
    BY <1>0, <2>1, <2>2, <2>3 DEF Stages, TreeTypes
<1>9. ASSUME NEW j \in Trees!Jobs, Trees!CleanEnds(j) PROVE Stages'
  BY <1>0, <1>9 DEF Trees!CleanEnds, Stages, TreeTypes, Trees!Idle
<1>10. ASSUME NEW j \in Trees!Jobs,
              \/ Trees!KilledExit(j) \/ \E a \in {"worker", "reviewer"} : Trees!AgentExits(j, a)
              \/ \E s \in {"done", "cancelled"} : Trees!CleanTerminal(j, s)
       PROVE  Stages'
  <2>1. /\ UNCHANGED <<merge, wrote, excused>>
        /\ job' = job \/ (job[j] = "active" /\ \E z \in {"queued", "failed"} : job' = [job EXCEPT ![j] = z])
    BY <1>10 DEF Trees!KilledExit, Trees!AgentExits, Trees!CleanTerminal
  <2>2. \A c \in cleaning' : c \in cleaning \/ (c = <<j, job[j]>> /\ job[j] \in {"done", "cancelled"})
    BY <1>10 DEF Trees!KilledExit, Trees!AgentExits, Trees!CleanTerminal, Trees!CheckClean, Trees!MayClean
  <2>3. \A i \in Trees!Jobs : /\ job[i] \in {"done", "cancelled"} => job'[i] = job[i]
                              /\ job'[i] # job[i] => job'[i] \in {"queued", "failed"}
    BY <2>1 DEF TreeTypes
  <2>4. ASSUME NEW c \in cleaning'
        PROVE  c[2] = job'[c[1]] \/ (c[2] = "cancelled" /\ c[1] \in excused')
    <3>1. CASE c \in cleaning
      <4>1. c[1] \in Trees!Jobs /\ c[2] \in {"done", "cancelled"}
        BY <3>1 DEF TreeTypes
      <4> QED
        BY <2>1, <2>3, <3>1, <4>1 DEF Stages
    <3>2. CASE c = <<j, job[j]>> /\ job[j] \in {"done", "cancelled"}
      BY <2>3, <3>2
    <3> QED
      BY <2>2, <3>1, <3>2
  <2> QED
    BY <1>0, <2>1, <2>3, <2>4 DEF Stages
<1>11. CASE Trees!AssignRecords
  <2>1. /\ UNCHANGED <<merge, cleaning, wrote, excused>>
        /\ job' = job \/ (job[dispatch[1]] = "queued" /\ job' = [job EXCEPT ![dispatch[1]] = "active"])
    BY <1>11 DEF Trees!AssignRecords
  <2>2. \A i \in Trees!Jobs : /\ job[i] \in {"done", "cancelled"} => job'[i] = job[i]
                              /\ job'[i] # job[i] => job'[i] = "active"
    BY <2>1 DEF TreeTypes
  <2> QED
    BY <1>0, <1>1, <2>1, <2>2 DEF Stages
<1>12. CASE Trees!PMStep
  <2>1. /\ UNCHANGED <<merge, cleaning, wrote, excused>>
        /\ job' = job \/ \E k \in Kids : job[k] = "none" /\ job' = [job EXCEPT ![k] = "queued"]
    BY <1>12 DEF Trees!PMStep, Trees!CreateKid, Trees!MakeIntegration, Trees!RecordIntegration, Trees!opVars
  <2>2. \A i \in Trees!Jobs : /\ job[i] \in {"done", "cancelled"} => job'[i] = job[i]
                              /\ job'[i] # job[i] => job'[i] = "queued"
    BY <2>1 DEF TreeTypes
  <2> QED
    BY <1>0, <1>1, <2>1, <2>2 DEF Stages
<1>13. CASE Trees!Restart
  BY <1>0, <1>13 DEF Trees!Restart, Stages, Trees!Idle
<1>14. ASSUME \/ Trees!Recover \/ Trees!Recovered \/ Trees!Started
              \/ \E j \in Trees!Jobs, r \in Repos : Trees!Reconcile(j, r)
       PROVE  Stages'
  BY <1>0, <1>1, <1>14 DEF Trees!Recover, Trees!Recovered, Trees!Started, Trees!Reconcile, Trees!opVars, Stages
<1>15. CASE Trees!JobStep
  BY <1>2, <1>3, <1>4, <1>5, <1>6, <1>7, <1>8, <1>9, <1>10, <1>15 DEF Trees!JobStep
<1>16. CASE Trees!BootStep
  BY <1>13, <1>14, <1>16 DEF Trees!BootStep
<1> QED
  BY <1>11, <1>12, <1>15, <1>16 DEF Trees!Next

\* The names that the branches of a tree can have.
NamesOf(t) == {t} \X (IF naming = "generated" THEN {1} ELSE Trees!Names)

\* A tree has a branch of its own name, recorded or checked out, or none.
Named == \A t \in Trees!Trees : {recorded[t], head[t]} \subseteq {Trees!NoBranch} \cup NamesOf(t)

\* What assign is about to record, if the branch exists, is what the tree has checked out.
Dispatched ==
  LET t == Trees!OwnTree(dispatch[1])
  IN dispatch # <<>> => /\ dispatch[2] # Trees!NoBranch => dispatch[2] \in NamesOf(t)
                        /\ dispatch[2] \in DOMAIN branch => head[t] \in {Trees!NoBranch, dispatch[2]}

\* A worker's tree has its recorded branch checked out, and whoever is at work has one.
OwnTrees == \A j \in Workers :
  LET t == Trees!OwnTree(j)
  IN /\ files[t] = IF head[t] = Trees!NoBranch THEN "none" ELSE "here"
     /\ head[t] # Trees!NoBranch /\ recorded[t] \in DOMAIN branch => head[t] = recorded[t]
     /\ job[j] \in {"active", "merging"} => recorded[t] # Trees!NoBranch \/ j \in excused

\* An integration tree that is being made holds nothing that has not landed, and the
\* product manager's completion walks through trees that are made.
Begun ==
  /\ \A t \in making : /\ recorded[t] = Trees!NoBranch /\ files[t] = "here"
                       /\ head[t] # Trees!NoBranch
                       /\ head[t] \in DOMAIN branch => branch[head[t]] \subseteq landed[t[2]]
  /\ Trees!LeadIsPM => \A r \in merge[Lead].left : recorded[<<Lead, r>>] # Trees!NoBranch

\* A child's branch has the child's own work and what its integration branch has.
Based == \A k \in Kids, n \in Trees!Names :
  LET b == <<Trees!OwnTree(k), n>>
      into == recorded[Trees!KidTree(k)]
  IN b \in DOMAIN branch => /\ k \in Workers /\ into # Trees!NoBranch
                            /\ into \in DOMAIN branch => branch[b] \subseteq {k} \cup branch[into]

\* The job j has been through the merge into the repository r, or the skipping of it.
Through(j, r) == \/ job[j] = "done"
                 \/ job[j] = "merging" /\ merge[j].at = "merge" /\ r \notin merge[j].left

\* An integration branch that its product manager is through with has landed, but for
\* what came too late.
Integrated == Trees!LeadIsPM => \A r \in Repos :
  LET b == recorded[<<Lead, r>>]
  IN Through(Lead, r) /\ b \in DOMAIN branch /\ policy[r] # "asis" => branch[b] \ excused \subseteq landed[r]

Merged(j) == \/ j \in landed[RepoOf[j]]
             \/ /\ j \in Kids /\ recorded[Trees!KidTree(j)] \in DOMAIN branch
                /\ j \in branch[recorded[Trees!KidTree(j)]]

\* Until a job is done its own branch has what it wrote, and then its target has,
\* unless it was to be left as it is.
Holds(j) ==
  LET t == Trees!OwnTree(j)
  IN /\ job[j] # "done" => /\ head[t] \in DOMAIN branch /\ j \in branch[head[t]]
                           /\ recorded[t] # Trees!NoBranch
     /\ Through(j, RepoOf[j]) => Merged(j) \/ Trees!AsIsWithoutPM(j)
Kept == job[Lead] # "cancelled" => \A j \in wrote \ excused : Holds(j)

\* The files of an integration tree are gone only when its product manager is over.
FilesThere == \A t \in Trees!IntegrationTrees :
  files[t] = "none" => \/ job[Lead] = "done" \/ Lead \in excused
                       \/ job[Lead] = "cancelled" /\ recorded[t] \notin DOMAIN branch

BranchInv == Named /\ Dispatched /\ OwnTrees /\ Begun /\ Based /\ Integrated /\ Kept /\ FilesThere
WorkInv == TreeTypes /\ Roles /\ Stages /\ BranchInv

\* Whose tree is whose.
LEMMA TreesApart ==
  /\ Lead \notin Kids /\ Workers \subseteq Trees!Jobs
  /\ \A j \in Workers : IF Trees!LeadIsPM THEN j \in Kids ELSE j = Lead
  /\ \A j \in Trees!Jobs : /\ RepoOf[j] \in Repos /\ Trees!OwnTree(j) \in Trees!Trees
                           /\ Trees!OwnTree(j)[1] = j /\ Trees!OwnTree(j) = <<j, RepoOf[j]>>
  /\ \A r \in Repos : <<Lead, r>> \in Trees!Trees /\ <<Lead, r>>[1] = Lead /\ <<Lead, r>>[2] = r
  /\ \A k \in Kids : Trees!KidTree(k) = <<Lead, RepoOf[k]>>
  /\ \A t \in Trees!Trees : \A b \in NamesOf(t) : b \in Trees!Branches /\ b[1] = t /\ b # Trees!NoBranch
  /\ \A t \in Trees!Trees : Trees!NewNames(t) \subseteq NamesOf(t)
<1> USE TreeFacts
<1>1. Workers \subseteq Trees!Jobs /\ \A j \in Workers : IF Trees!LeadIsPM THEN j \in Kids ELSE j = Lead
  BY DEF Workers
<1>2. \A t \in Trees!Trees : \A b \in NamesOf(t) : b \in Trees!Branches /\ b[1] = t /\ b # Trees!NoBranch
  <2> TAKE t \in Trees!Trees
  <2> TAKE b \in NamesOf(t)
  <2>1. b = <<t, b[2]>> /\ b[2] \in Trees!Names /\ b[1] = t
    BY DEF NamesOf
  <2> QED
    BY <2>1
<1>3. \A t \in Trees!Trees : Trees!NewNames(t) \subseteq NamesOf(t)
  BY DEF Trees!NewNames, NamesOf
<1>4. \A j \in Trees!Jobs : Trees!OwnTree(j)[1] = j /\ Trees!OwnTree(j) = <<j, RepoOf[j]>>
  BY DEF Trees!OwnTree
<1> QED
  BY <1>1, <1>2, <1>3, <1>4 DEF Trees!KidTree

\* What Named says of one tree.
LEMMA NamedApart ==
  ASSUME TreeTypes, Named
  PROVE  /\ Trees!NoBranch \notin DOMAIN branch
         /\ \A t \in Trees!Trees : /\ recorded[t] # Trees!NoBranch => recorded[t] \in NamesOf(t) /\ recorded[t][1] = t
                                   /\ head[t] # Trees!NoBranch => head[t] \in NamesOf(t) /\ head[t][1] = t
<1>1. Trees!NoBranch \notin DOMAIN branch
  BY TreeFacts DEF TreeTypes, GitTypes
<1> QED
  BY <1>1, TreesApart DEF Named

\* Steps that leave branches, trees and records alone.
LEMMA QuietKeeps ==
  ASSUME WorkInv, Dispatched',
         UNCHANGED <<policy, leadRole, naming, recorded, head, files, branch, landed>>,
         making' \subseteq making, wrote' \subseteq wrote, excused \subseteq excused',
         \A j \in Trees!Jobs : job'[j] \in {"active", "merging"} => job[j] \in {"active", "merging"},
         \A j \in Trees!Jobs, r \in Repos :
           /\ Through(j, r)'
           /\ (Trees!LeadIsPM /\ j = Lead) \/ (j \in wrote' /\ r = RepoOf[j])
           => Through(j, r) \/ recorded[<<j, r>>] = Trees!NoBranch \/ Trees!KeepsBranch(j, r),
         Trees!LeadIsPM => \A r \in merge'[Lead].left :
           r \in merge[Lead].left \/ recorded[<<Lead, r>>] # Trees!NoBranch,
         job[Lead] = "cancelled" => job'[Lead] = "cancelled" \/ wrote' = {},
         \A j \in Trees!Jobs : job[j] = "done" => job'[j] = "done",
         job[Lead] = "cancelled" /\ job'[Lead] # "cancelled" =>
           Lead \in excused' \/ \A t \in Trees!IntegrationTrees : recorded[t] \in DOMAIN branch
  PROVE  BranchInv'
<1> USE DEF WorkInv, BranchInv
<1>0. Workers' = Workers /\ (Trees!LeadIsPM' <=> Trees!LeadIsPM)
  BY DEF Workers, Trees!LeadIsPM
<1>1. Named'
  BY DEF Named, NamesOf
<1>2. OwnTrees'
  BY <1>0, TreesApart DEF OwnTrees
<1>3. Begun'
  BY <1>0 DEF Begun
<1>4. Based'
  BY <1>0 DEF Based
<1>5. Integrated'
  <2> SUFFICES ASSUME Trees!LeadIsPM, NEW r \in Repos, Through(Lead, r)',
                      recorded[<<Lead, r>>] \in DOMAIN branch, policy[r] # "asis"
               PROVE  branch[recorded[<<Lead, r>>]] \ excused' \subseteq landed[r]
    BY <1>0 DEF Integrated
  <2>1. Lead \in Trees!Jobs /\ Lead \notin Kids /\ recorded[<<Lead, r>>] # Trees!NoBranch
    BY NamedApart, TreeFacts
  <2>2. Through(Lead, r)
    BY <2>1 DEF Trees!KeepsBranch, Trees!Target
  <2> QED
    BY <2>2 DEF Integrated
<1>6. Kept'
  <2> SUFFICES ASSUME job'[Lead] # "cancelled", NEW j \in wrote', j \notin excused'
               PROVE  Holds(j)'
    BY <1>0 DEF Kept
  <2>1. Holds(j) /\ j \in Workers /\ j \in Trees!Jobs
    BY TreesApart DEF Kept, Roles
  <2>2. Merged(j)' <=> Merged(j)
    BY DEF Merged
  <2>3. ASSUME Through(j, RepoOf[j])', ~Trees!AsIsWithoutPM(j) PROVE Merged(j)
    <3>1. ~Trees!KeepsBranch(j, RepoOf[j])
      BY <2>1, <2>3, TreesApart DEF Trees!KeepsBranch, Trees!Target, Trees!AsIsWithoutPM
    <3>2. \/ Through(j, RepoOf[j]) \/ recorded[Trees!OwnTree(j)] = Trees!NoBranch
      BY <2>1, <2>3, <3>1, TreesApart
    <3> QED
      BY <2>1, <2>3, <3>2 DEF Holds, Through
  <2>4. job[j] = "done" => job'[j] = "done"
    BY <2>1
  <2>5. Trees!AsIsWithoutPM(j)' <=> Trees!AsIsWithoutPM(j)
    BY <1>0 DEF Trees!AsIsWithoutPM
  <2> QED
    BY <2>1, <2>2, <2>3, <2>4, <2>5 DEF Holds
<1>7. FilesThere'
  <2>1. job[Lead] = "done" => job'[Lead] = "done"
    BY TreeFacts
  <2>2. Trees!IntegrationTrees' = Trees!IntegrationTrees
    BY <1>0 DEF Trees!IntegrationTrees
  <2> QED
    BY <2>1, <2>2 DEF FilesThere
<1> QED
  BY <1>1, <1>2, <1>3, <1>4, <1>5, <1>6, <1>7

\* What is dispatched stays as true as it was.
LEMMA DispatchedStays ==
  ASSUME Dispatched, UNCHANGED <<naming, head, branch>>, dispatch' \in {dispatch, <<>>}
  PROVE  Dispatched'
  BY DEF Dispatched, NamesOf

\* The steps that leave git alone keep BranchInv.
LEMMA CalmKeeps ==
  ASSUME WorkInv, Trees!Next, NEW j \in Trees!Jobs, Calm(j)
  PROVE  BranchInv'
<1> USE TreesApart, TreeFacts
<1>0. UNCHANGED <<policy, leadRole, naming>> /\ WorkInv /\ Dispatched /\ TreeTypes
      /\ DOMAIN job = Trees!Jobs /\ DOMAIN merge = Trees!Jobs
  BY ChoicesStay DEF WorkInv, BranchInv, TreeTypes
<1>1. ASSUME UNCHANGED <<recorded, head, files, branch, landed, dispatch, making, merge, wrote, excused>>,
             \A i \in Trees!Jobs : \/ job'[i] = job[i]
                                   \/ job[i] \notin {"done", "cancelled"} /\ job'[i] \notin {"active", "merging", "done"}
      PROVE  BranchInv'
  <2>1. \A i \in Trees!Jobs, r \in Repos : Through(i, r)' => Through(i, r)
    BY <1>1 DEF Through
  <2>2. Dispatched'
    BY <1>0, <1>1, DispatchedStays
  <2> QED
    BY <1>0, <1>1, <2>1, <2>2, QuietKeeps
<1>2. CASE Trees!ReviewBegins(j)
  BY <1>1, <1>2 DEF Trees!ReviewBegins, Trees!gitVars, Trees!opVars
<1>3. CASE Trees!KilledExit(j)
  BY <1>1, <1>3 DEF Trees!KilledExit, Trees!gitVars
<1>4. CASE \E a \in {"worker", "reviewer"} : Trees!AgentExits(j, a)
  <2>1. job' = job \/ (job[j] = "active" /\ \E s \in {"queued", "failed"} : job' = [job EXCEPT ![j] = s])
    BY <1>4 DEF Trees!AgentExits
  <2>2. \A i \in Trees!Jobs : \/ job'[i] = job[i]
                              \/ job[i] \notin {"done", "cancelled"} /\ job'[i] \notin {"active", "merging", "done"}
    BY <1>0, <2>1
  <2>3. UNCHANGED <<recorded, head, files, branch, landed, dispatch, making, merge, wrote, excused>>
    BY <1>4 DEF Trees!AgentExits, Trees!gitVars
  <2> QED
    BY <1>1, <2>2, <2>3
<1>5. CASE Trees!Cancel(j)
  <2>1. /\ UNCHANGED <<recorded, head, files, branch, landed, dispatch, making, merge, excused>>
        /\ wrote' \subseteq wrote /\ job' = [job EXCEPT ![j] = "cancelled"]
        /\ job[j] \notin {"done", "cancelled"}
    BY <1>5 DEF Trees!Cancel, Trees!gitVars, Trees!opVars, Trees!Terminal
  <2>2. \A i \in Trees!Jobs : job'[i] = IF i = j THEN "cancelled" ELSE job[i]
    BY <1>0, <2>1
  <2>3. \A i \in Trees!Jobs, r \in Repos : Through(i, r)' => Through(i, r)
    BY <2>1, <2>2 DEF Through
  <2>4. Dispatched'
    BY <1>0, <2>1, DispatchedStays
  <2> QED
    BY <1>0, <2>1, <2>2, <2>3, <2>4, QuietKeeps
<1>6. CASE Trees!Requeue(j)
  <2>1. /\ UNCHANGED <<recorded, head, files, branch, landed, dispatch, making, merge>>
        /\ wrote' \subseteq wrote /\ excused \subseteq excused' /\ job' = [job EXCEPT ![j] = "queued"]
        /\ job[j] \in {"failed", "cancelled"}
        /\ j = Lead /\ job[j] = "cancelled" =>
             wrote' = {} /\ (Lead \in excused' \/ \A t \in Trees!IntegrationTrees : recorded[t] \in DOMAIN branch)
    BY <1>6 DEF Trees!Requeue, Trees!gitVars, Trees!opVars
  <2>2. \A i \in Trees!Jobs : job'[i] = IF i = j THEN "queued" ELSE job[i]
    BY <1>0, <2>1
  <2>3. \A i \in Trees!Jobs, r \in Repos : Through(i, r)' => Through(i, r)
    BY <2>1, <2>2 DEF Through
  <2>4. Dispatched'
    BY <1>0, <2>1, DispatchedStays
  <2> QED
    BY <1>0, <2>1, <2>2, <2>3, <2>4, QuietKeeps
<1>7. CASE Trees!Finish(j)
  <2>1. /\ UNCHANGED <<recorded, head, files, branch, landed, dispatch, making, wrote, excused>>
        /\ job[j] = "active" /\ job' = [job EXCEPT ![j] = "merging"]
        /\ merge' = [merge EXCEPT ![j] = [at |-> "merge", left |-> Trees!ReposOf(j)]]
    BY <1>7 DEF Trees!Finish, Trees!gitVars
  <2>2. \A i \in Trees!Jobs : job'[i] = IF i = j THEN "merging" ELSE job[i]
    BY <1>0, <2>1
  <2>3. \A i \in Trees!Jobs : merge'[i] = IF i = j THEN [at |-> "merge", left |-> Trees!ReposOf(j)] ELSE merge[i]
    BY <1>0, <2>1, MergeBecomes
  <2>4. \A r \in Repos : (Trees!LeadIsPM /\ j = Lead) \/ (j \in wrote' /\ r = RepoOf[j]) =>
          (r \in Trees!ReposOf(j) <=> recorded[<<j, r>>] # Trees!NoBranch)
    BY <1>0, <2>1 DEF Trees!ReposOf, WorkInv, Roles
  <2>5. ASSUME NEW i \in Trees!Jobs, NEW r \in Repos, Through(i, r)',
               (Trees!LeadIsPM /\ i = Lead) \/ (i \in wrote' /\ r = RepoOf[i])
        PROVE  Through(i, r) \/ recorded[<<i, r>>] = Trees!NoBranch
    BY <2>2, <2>3, <2>4, <2>5 DEF Through
  <2>6. Trees!LeadIsPM => \A r \in merge'[Lead].left :
           r \in merge[Lead].left \/ recorded[<<Lead, r>>] # Trees!NoBranch
    <3>1. CASE j = Lead
      <4>1. merge'[Lead].left = Trees!ReposOf(Lead)
        BY <2>3, <3>1
      <4> QED
        BY <4>1 DEF Trees!ReposOf
    <3>2. CASE j # Lead
      BY <2>3, <3>2
    <3> QED
      BY <3>1, <3>2
  <2>7. Dispatched'
    BY <1>0, <2>1, DispatchedStays
  <2> QED
    BY <1>0, <2>1, <2>2, <2>5, <2>6, <2>7, QuietKeeps
<1>8. CASE Trees!Finalize(j)
  <2>1. /\ UNCHANGED <<recorded, head, files, branch, landed, dispatch, making, wrote, excused>>
        /\ merge[j].at = "merge" /\ merge[j].left = {}
        /\ \/ /\ job[j] = "merging" /\ job' = [job EXCEPT ![j] = "done"]
              /\ merge' = [merge EXCEPT ![j] = [at |-> "clean", left |-> Trees!ReposOf(j)]]
           \/ job' = job /\ merge' = [merge EXCEPT ![j] = Trees!Idle]
    BY <1>8 DEF Trees!Finalize, Trees!gitVars
  <2>2. \A i \in Trees!Jobs : job'[i] = job[i] \/ (i = j /\ job[j] = "merging" /\ job'[j] = "done")
    BY <1>0, <2>1
  <2>3. \A i \in Trees!Jobs : i # j => merge'[i] = merge[i]
    BY <1>0, <2>1, MergeBecomes
  <2>4. merge'[j] = Trees!Idle \/ merge'[j] = [at |-> "clean", left |-> Trees!ReposOf(j)]
    BY <1>0, <2>1, MergeBecomes
  <2>5. \A i \in Trees!Jobs, r \in Repos : Through(i, r)' => Through(i, r)
    BY <2>1, <2>2, <2>3, <2>4 DEF Through, Trees!Idle
  <2>6. Trees!LeadIsPM => \A r \in merge'[Lead].left :
           r \in merge[Lead].left \/ recorded[<<Lead, r>>] # Trees!NoBranch
    BY <2>3, <2>4 DEF Trees!ReposOf, Trees!Idle
  <2>7. Dispatched'
    BY <1>0, <2>1, DispatchedStays
  <2> QED
    BY <1>0, <2>1, <2>2, <2>5, <2>6, <2>7, QuietKeeps
<1>9. CASE Trees!CleanEnds(j)
  <2>1. /\ UNCHANGED <<recorded, head, files, branch, landed, dispatch, making, wrote, excused, job>>
        /\ merge[j].at = "clean" /\ merge' = [merge EXCEPT ![j] = Trees!Idle]
    BY <1>9 DEF Trees!CleanEnds, Trees!gitVars
  <2>2. \A i \in Trees!Jobs : merge'[i] = IF i = j THEN Trees!Idle ELSE merge[i]
    BY <1>0, <2>1, MergeBecomes
  <2>3. \A i \in Trees!Jobs, r \in Repos : Through(i, r)' => Through(i, r)
    BY <2>1, <2>2 DEF Through, Trees!Idle
  <2>4. \A r \in merge'[Lead].left : r \in merge[Lead].left
    BY <2>2 DEF Trees!Idle
  <2>5. Dispatched'
    BY <1>0, <2>1, DispatchedStays
  <2> QED
    BY <1>0, <2>1, <2>3, <2>4, <2>5, QuietKeeps
<1> QED
  BY <1>2, <1>3, <1>4, <1>5, <1>6, <1>7, <1>8, <1>9 DEF Calm

\* A product manager's step that only queues a child, a restart, and the ends of the
\* start's recovery keep it too.
LEMMA StartsKeep ==
  ASSUME WorkInv, Trees!Next,
         Trees!Restart \/ Trees!Recovered \/ Trees!Started \/ \E k \in Kids : Trees!CreateKid(k)
  PROVE  BranchInv'
<1> USE TreesApart, TreeFacts
<1>0. UNCHANGED <<policy, leadRole, naming>> /\ WorkInv /\ Dispatched /\ TreeTypes
      /\ DOMAIN job = Trees!Jobs /\ DOMAIN merge = Trees!Jobs
  BY ChoicesStay DEF WorkInv, BranchInv, TreeTypes
<1>1. UNCHANGED <<recorded, head, files, branch, landed, wrote, excused>>
      /\ dispatch' \in {dispatch, <<>>} /\ making' \subseteq making
  BY DEF Trees!Restart, Trees!Recovered, Trees!Started, Trees!CreateKid, Trees!gitVars, Trees!opVars
<1>2. \A j \in Trees!Jobs : \/ job'[j] = job[j]
                            \/ job[j] \notin {"done", "cancelled"} /\ job'[j] \notin {"active", "merging", "done"}
  BY <1>0 DEF Trees!Restart, Trees!Recovered, Trees!Started, Trees!CreateKid
<1>3. merge' = merge \/ \A j \in Trees!Jobs : merge'[j] = Trees!Idle
  BY DEF Trees!Restart, Trees!Recovered, Trees!Started, Trees!CreateKid, Trees!opVars
<1>4. \A j \in Trees!Jobs, r \in Repos : Through(j, r)' => Through(j, r)
  BY <1>2, <1>3 DEF Through, Trees!Idle
<1>5. \A r \in merge'[Lead].left : r \in merge[Lead].left
  BY <1>3 DEF Trees!Idle
<1>6. Dispatched'
  BY <1>0, <1>1, DispatchedStays
<1> QED
  BY <1>0, <1>1, <1>2, <1>4, <1>5, <1>6, QuietKeeps

\* A merge that is skipped, or fails, keeps it.
LEMMA SkippedKeeps ==
  ASSUME WorkInv, Trees!Next, NEW j \in Trees!Jobs, NEW r \in Repos, Trees!MergeRepo(j, r),
         UNCHANGED <<branch, landed>>, excused' = excused,
         \/ Trees!KeepsBranch(j, r) /\ job' = job /\ merge' = [merge EXCEPT ![j].left = merge[j].left \ {r}]
         \/ merge' = [merge EXCEPT ![j] = Trees!Idle]
            /\ job' = IF job[j] = "merging" THEN [job EXCEPT ![j] = "active"] ELSE job
  PROVE  BranchInv'
<1> USE TreesApart, TreeFacts
<1>0. UNCHANGED <<policy, leadRole, naming>> /\ WorkInv /\ Dispatched /\ TreeTypes
      /\ DOMAIN job = Trees!Jobs /\ DOMAIN merge = Trees!Jobs
  BY ChoicesStay DEF WorkInv, BranchInv, TreeTypes
<1>1. UNCHANGED <<recorded, head, files, dispatch, making, wrote>> /\ merge[j].at = "merge"
  BY DEF Trees!MergeRepo, Trees!gitVars
<1>2. Dispatched'
  BY <1>0, <1>1, DispatchedStays
<1>3. CASE Trees!KeepsBranch(j, r) /\ job' = job /\ merge' = [merge EXCEPT ![j].left = merge[j].left \ {r}]
  <2>1. merge[j].left \ {r} \in SUBSET Repos
    BY <1>0 DEF TreeTypes
  <2>2. \A i \in Trees!Jobs : /\ merge'[i].at = merge[i].at
                              /\ merge'[i].left = IF i = j THEN merge[j].left \ {r} ELSE merge[i].left
    BY <1>0, <1>3, <2>1, MergeBecomes
  <2>3. \A i \in Trees!Jobs, q \in Repos : Through(i, q)' => Through(i, q) \/ Trees!KeepsBranch(i, q)
    BY <1>3, <2>2 DEF Through
  <2>4. \A q \in merge'[Lead].left : q \in merge[Lead].left
    BY <2>2
  <2> QED
    BY <1>0, <1>1, <1>2, <1>3, <2>3, <2>4, QuietKeeps
<1>4. CASE merge' = [merge EXCEPT ![j] = Trees!Idle]
           /\ job' = IF job[j] = "merging" THEN [job EXCEPT ![j] = "active"] ELSE job
  <2>1. \A i \in Trees!Jobs : merge'[i] = IF i = j THEN Trees!Idle ELSE merge[i]
    BY <1>0, <1>4, MergeBecomes
  <2>2. \A i \in Trees!Jobs : job'[i] = job[i] \/ (i = j /\ job[j] = "merging" /\ job'[j] = "active")
    BY <1>0, <1>4
  <2>3. \A i \in Trees!Jobs, q \in Repos : Through(i, q)' => Through(i, q)
    BY <2>1, <2>2 DEF Through, Trees!Idle
  <2>4. \A q \in merge'[Lead].left : q \in merge[Lead].left
    BY <2>1 DEF Trees!Idle
  <2> QED
    BY <1>0, <1>1, <1>2, <2>2, <2>3, <2>4, QuietKeeps
<1> QED
  BY <1>3, <1>4

\* The removal of a worktree, point by point.
LEMMA Removed ==
  ASSUME TreeTypes, NEW t \in Trees!Trees, NEW b, NEW keep \in BOOLEAN, Trees!RemoveWorktree(t, b, keep)
  PROVE  /\ \A u \in Trees!Trees :
              /\ head'[u] = IF u = t THEN Trees!NoBranch ELSE head[u]
              /\ files'[u] = IF u = t /\ files[u] = "here" THEN "none" ELSE files[u]
         /\ DOMAIN branch' = IF keep THEN DOMAIN branch ELSE DOMAIN branch \ {b}
         /\ \A x \in DOMAIN branch' : branch'[x] = branch[x]
         /\ landed' = landed
<1>1. DOMAIN head = Trees!Trees /\ DOMAIN files = Trees!Trees
  BY DEF TreeTypes, GitTypes
<1>2. /\ head' = [head EXCEPT ![t] = Trees!NoBranch]
      /\ files' = [files EXCEPT ![t] = IF @ = "here" THEN "none" ELSE @]
      /\ branch' = IF keep THEN branch ELSE Trees!Restrict(branch, DOMAIN branch \ {b})
      /\ landed' = landed
  BY DEF Trees!RemoveWorktree
<1>3. /\ DOMAIN branch' = IF keep THEN DOMAIN branch ELSE DOMAIN branch \ {b}
      /\ \A x \in DOMAIN branch' : branch'[x] = branch[x]
  BY <1>2 DEF Trees!Restrict
<1> QED
  BY <1>1, <1>2, <1>3

\* The steps of a job's own clean-up lose nothing: what the job wrote is merged.
LEMMA OwnRemovalKeeps ==
  ASSUME WorkInv, UNCHANGED <<policy, leadRole, naming, job, dispatch, making, wrote, excused>>,
         NEW j \in Workers, NEW keep \in BOOLEAN,
         Trees!RemoveWorktree(Trees!OwnTree(j), recorded[Trees!OwnTree(j)], keep),
         \/ recorded' = recorded
         \/ /\ recorded' = [recorded EXCEPT ![Trees!OwnTree(j)] = Trees!NoBranch]
            /\ job[j] \notin {"active", "merging"} \/ j \in excused,
         \A i \in Trees!Jobs : /\ merge'[i].at = merge[i].at /\ merge'[i].left \subseteq merge[i].left
                               /\ merge[i].at = "merge" => merge'[i].left = merge[i].left,
         j \in wrote \ excused => job[j] = "done"
  PROVE  BranchInv'
<1> USE DEF WorkInv, BranchInv
<1> USE TreesApart
<1> DEFINE t == Trees!OwnTree(j)
<1>0. Workers' = Workers /\ (Trees!LeadIsPM' <=> Trees!LeadIsPM) /\ t \in Trees!Trees /\ t[1] = j
      /\ (Trees!LeadIsPM => \A r \in Repos : t # <<Lead, r>>)
  BY DEF Workers, Trees!LeadIsPM
<1>1. /\ \A u \in Trees!Trees :
           /\ head'[u] = IF u = t THEN Trees!NoBranch ELSE head[u]
           /\ files'[u] = IF u = t /\ files[u] = "here" THEN "none" ELSE files[u]
           /\ u # t => recorded'[u] = recorded[u]
           /\ recorded'[u] \in {recorded[u], Trees!NoBranch}
      /\ DOMAIN branch' \subseteq DOMAIN branch
      /\ \A x \in DOMAIN branch : x \in DOMAIN branch' \/ x = recorded[t]
      /\ \A x \in DOMAIN branch' : branch'[x] = branch[x]
      /\ landed' = landed
  <2>1. \A u \in Trees!Trees : (u # t => recorded'[u] = recorded[u])
                               /\ recorded'[u] \in {recorded[u], Trees!NoBranch}
    BY DEF TreeTypes
  <2>2. Trees!RemoveWorktree(t, recorded[t], keep) /\ keep \in BOOLEAN /\ TreeTypes /\ t \in Trees!Trees
    BY <1>0
  <2> HIDE DEF t
  <2>3. /\ \A u \in Trees!Trees :
             /\ head'[u] = IF u = t THEN Trees!NoBranch ELSE head[u]
             /\ files'[u] = IF u = t /\ files[u] = "here" THEN "none" ELSE files[u]
        /\ DOMAIN branch' = IF keep THEN DOMAIN branch ELSE DOMAIN branch \ {recorded[t]}
        /\ \A x \in DOMAIN branch' : branch'[x] = branch[x]
        /\ landed' = landed
    BY ONLY <2>2, Removed
  <2> QED
    BY <2>1, <2>3
<1>2. \A i \in Workers : i # j => Trees!OwnTree(i) \in Trees!Trees /\ Trees!OwnTree(i) # t
  BY <1>0
<1>3. Trees!NoBranch \notin DOMAIN branch
      /\ \A u \in Trees!Trees : u # t => \A x \in DOMAIN branch : x \in {head[u], recorded[u]} => x \in DOMAIN branch'
  BY <1>0, <1>1, NamedApart
<1>4. \A i \in Trees!Jobs, r \in Repos : Through(i, r)' <=> Through(i, r)
  BY DEF Through
<1> HIDE DEF t
<1>5. Named'
  <2>1. \A u \in Trees!Trees : {recorded'[u], head'[u]} \subseteq {recorded[u], head[u], Trees!NoBranch}
    BY <1>1
  <2> QED
    BY <2>1 DEF Named, NamesOf
<1>6. Dispatched'
  <2>1. dispatch # <<>> => Trees!OwnTree(dispatch[1]) \in Trees!Trees
    BY DEF TreeTypes
  <2> QED
    BY <1>1, <2>1 DEF Dispatched, NamesOf
<1>7. OwnTrees'
  <2>1. ASSUME NEW i \in Workers, i # j
        PROVE  LET u == Trees!OwnTree(i)
               IN /\ files'[u] = IF head'[u] = Trees!NoBranch THEN "none" ELSE "here"
                  /\ head'[u] # Trees!NoBranch /\ recorded'[u] \in DOMAIN branch' => head'[u] = recorded'[u]
                  /\ job'[i] \in {"active", "merging"} => recorded'[u] # Trees!NoBranch \/ i \in excused'
    BY <1>1, <1>2, <2>1 DEF OwnTrees
  <2>2. /\ files'[t] = IF head'[t] = Trees!NoBranch THEN "none" ELSE "here"
        /\ head'[t] = Trees!NoBranch
    <3>1. files[t] \in {"none", "here"}
      BY DEF OwnTrees, t
    <3> QED
      BY <1>0, <1>1, <3>1
  <2>3. job'[j] \in {"active", "merging"} => recorded'[t] # Trees!NoBranch \/ j \in excused'
    <3>1. job[j] \in {"active", "merging"} => recorded[t] # Trees!NoBranch \/ j \in excused
      BY DEF OwnTrees, t
    <3> QED
      BY <3>1
  <2> QED
    BY <1>0, <2>1, <2>2, <2>3 DEF OwnTrees, t
<1>8. Begun'
  <2>1. \A u \in making : u \in Trees!Trees /\ u # t /\ Trees!LeadIsPM
    BY <1>0 DEF Roles
  <2>2. \A u \in making : /\ recorded'[u] = Trees!NoBranch /\ files'[u] = "here"
                          /\ head'[u] # Trees!NoBranch
                          /\ head'[u] \in DOMAIN branch' => branch'[head'[u]] \subseteq landed'[u[2]]
    BY <1>1, <2>1 DEF Begun
  <2>3. Trees!LeadIsPM => \A r \in merge'[Lead].left : recorded'[<<Lead, r>>] # Trees!NoBranch
    <3> SUFFICES ASSUME Trees!LeadIsPM, NEW r \in merge'[Lead].left
                 PROVE  recorded'[<<Lead, r>>] # Trees!NoBranch
      OBVIOUS
    <3>1. Lead \in Trees!Jobs /\ r \in merge[Lead].left
      BY TreeFacts
    <3>2. r \in Repos
      BY <3>1 DEF TreeTypes
    <3> QED
      BY <1>0, <1>1, <3>1, <3>2 DEF Begun
  <2> QED
    BY <1>0, <2>2, <2>3 DEF Begun
<1>9. Based'
  <2> SUFFICES ASSUME NEW k \in Kids, NEW n \in Trees!Names, <<Trees!OwnTree(k), n>> \in DOMAIN branch'
               PROVE  /\ k \in Workers /\ recorded'[Trees!KidTree(k)] # Trees!NoBranch
                      /\ recorded'[Trees!KidTree(k)] \in DOMAIN branch' =>
                           branch'[<<Trees!OwnTree(k), n>>] \subseteq {k} \cup branch'[recorded'[Trees!KidTree(k)]]
    BY <1>0 DEF Based
  <2>1. <<Trees!OwnTree(k), n>> \in DOMAIN branch
    BY <1>1
  <2>2. k \in Workers
    BY <2>1 DEF Based
  <2>3. Trees!KidTree(k) # t /\ Trees!KidTree(k) \in Trees!Trees
    BY <1>0, <2>2
  <2> QED
    BY <1>1, <2>1, <2>2, <2>3 DEF Based
<1>10. Integrated'
  BY <1>0, <1>1, <1>4, TreeFacts DEF Integrated
<1>11. ASSUME NEW i \in Workers, Merged(i) PROVE Merged(i)'
  <2>1. i \in Kids => Trees!KidTree(i) # t /\ Trees!KidTree(i) \in Trees!Trees
    BY <1>0
  <2> QED
    BY <1>1, <1>3, <1>11, <2>1 DEF Merged
<1>12. Kept'
  <2> SUFFICES ASSUME job[Lead] # "cancelled", NEW i \in wrote, i \notin excused
               PROVE  Holds(i)'
    BY <1>0 DEF Kept
  <2>1. Holds(i) /\ i \in Workers /\ i \in Trees!Jobs
    BY DEF Kept, Roles
  <2>2. Through(i, RepoOf[i])' => Merged(i)' \/ Trees!AsIsWithoutPM(i)'
    BY <1>0, <1>4, <1>11, <2>1 DEF Holds, Trees!AsIsWithoutPM
  <2>3. i = j => job'[i] = "done"
    OBVIOUS
  <2>4. ASSUME i # j, job[i] # "done"
        PROVE  /\ head'[Trees!OwnTree(i)] \in DOMAIN branch'
               /\ i \in branch'[head'[Trees!OwnTree(i)]]
               /\ recorded'[Trees!OwnTree(i)] # Trees!NoBranch
    BY <1>1, <1>2, <1>3, <2>1, <2>4 DEF Holds
  <2> QED
    BY <2>2, <2>3, <2>4 DEF Holds
<1>13. FilesThere'
  <2>1. \A u \in Trees!IntegrationTrees' : u \in Trees!IntegrationTrees /\ u # t /\ u \in Trees!Trees
    BY <1>0, <1>1 DEF Trees!IntegrationTrees
  <2> QED
    BY <1>1, <2>1 DEF FilesThere
<1> QED
  BY <1>5, <1>6, <1>7, <1>8, <1>9, <1>10, <1>12, <1>13

\* The removal of an integration tree loses nothing: its product manager is through.
LEMMA IntegrationRemovalKeeps ==
  ASSUME WorkInv, UNCHANGED <<policy, leadRole, naming, job, recorded, dispatch, making, wrote, excused>>,
         Trees!LeadIsPM, NEW r \in Repos, NEW keep \in BOOLEAN, recorded[<<Lead, r>>] # Trees!NoBranch,
         Trees!RemoveWorktree(<<Lead, r>>, recorded[<<Lead, r>>], keep),
         job[Lead] \in {"done", "cancelled"}, keep <=> job[Lead] = "done" /\ policy[r] = "asis",
         \A i \in Trees!Jobs : /\ merge'[i].at = merge[i].at /\ merge'[i].left \subseteq merge[i].left
                               /\ merge[i].at = "merge" => merge'[i].left = merge[i].left
  PROVE  BranchInv'
<1> USE DEF WorkInv, BranchInv
<1> USE TreesApart
<1> DEFINE t == <<Lead, r>>
<1>0. /\ Workers' = Workers /\ (Trees!LeadIsPM' <=> Trees!LeadIsPM) /\ t \in Trees!Trees /\ t[1] = Lead
      /\ \A i \in Workers : i \in Kids /\ Trees!OwnTree(i) # t /\ Trees!OwnTree(i) \in Trees!Trees
  BY DEF Workers, Trees!LeadIsPM
<1> HIDE DEF t
<1>1. /\ \A u \in Trees!Trees :
           /\ head'[u] = IF u = t THEN Trees!NoBranch ELSE head[u]
           /\ files'[u] = IF u = t /\ files[u] = "here" THEN "none" ELSE files[u]
      /\ DOMAIN branch' = IF keep THEN DOMAIN branch ELSE DOMAIN branch \ {recorded[t]}
      /\ \A x \in DOMAIN branch' : branch'[x] = branch[x]
      /\ landed' = landed
  BY <1>0, Removed DEF t
<1>2. /\ DOMAIN branch' \subseteq DOMAIN branch
      /\ \A x \in DOMAIN branch : x \in DOMAIN branch' \/ x = recorded[t]
  BY <1>1
<1>3. Trees!NoBranch \notin DOMAIN branch
      /\ \A u \in Trees!Trees : u # t => \A x \in DOMAIN branch : x \in {head[u], recorded[u]} => x \in DOMAIN branch'
  BY <1>0, <1>2, NamedApart
<1>4. \A i \in Trees!Jobs, q \in Repos : Through(i, q)' <=> Through(i, q)
  BY DEF Through
<1>5. Named'
  <2>1. \A u \in Trees!Trees : {recorded'[u], head'[u]} \subseteq {recorded[u], head[u], Trees!NoBranch}
    BY <1>1
  <2> QED
    BY <2>1 DEF Named, NamesOf
<1>6. Dispatched'
  <2>1. dispatch # <<>> => Trees!OwnTree(dispatch[1]) \in Trees!Trees
    BY DEF TreeTypes
  <2> QED
    BY <1>1, <1>2, <2>1 DEF Dispatched, NamesOf
<1>7. OwnTrees'
  BY <1>0, <1>1, <1>2 DEF OwnTrees
<1>8. Begun'
  <2>1. \A u \in making : u \in Trees!Trees /\ u # t
    BY <1>0 DEF Roles, Begun, t
  <2>2. \A u \in making : /\ recorded'[u] = Trees!NoBranch /\ files'[u] = "here"
                          /\ head'[u] # Trees!NoBranch
                          /\ head'[u] \in DOMAIN branch' => branch'[head'[u]] \subseteq landed'[u[2]]
    BY <1>1, <1>2, <2>1 DEF Begun
  <2>3. \A q \in merge'[Lead].left : recorded'[<<Lead, q>>] # Trees!NoBranch
    BY TreeFacts DEF Begun
  <2> QED
    BY <1>0, <2>2, <2>3 DEF Begun
<1>9. Based'
  <2> SUFFICES ASSUME NEW k \in Kids, NEW n \in Trees!Names, <<Trees!OwnTree(k), n>> \in DOMAIN branch'
               PROVE  /\ k \in Workers /\ recorded'[Trees!KidTree(k)] # Trees!NoBranch
                      /\ recorded'[Trees!KidTree(k)] \in DOMAIN branch' =>
                           branch'[<<Trees!OwnTree(k), n>>] \subseteq {k} \cup branch'[recorded'[Trees!KidTree(k)]]
    BY <1>0 DEF Based
  <2>1. <<Trees!OwnTree(k), n>> \in DOMAIN branch
    BY <1>2
  <2> QED
    BY <1>1, <1>2, <2>1 DEF Based
<1>10. Integrated'
  BY <1>0, <1>1, <1>2, <1>4, TreeFacts DEF Integrated
<1>11. ASSUME NEW i \in Workers \ excused, Merged(i), job[Lead] # "cancelled" PROVE Merged(i)'
  <2>1. Trees!KidTree(i) = <<Lead, RepoOf[i]>> /\ <<Lead, RepoOf[i]>> \in Trees!Trees /\ RepoOf[i] \in Repos
    BY <1>0
  <2>2. CASE RepoOf[i] # r \/ keep \/ i \in landed[RepoOf[i]]
    <3>1. RepoOf[i] # r => <<Lead, RepoOf[i]>> # t
      BY DEF t
    <3> QED
      BY <1>1, <1>3, <1>11, <2>1, <2>2, <3>1 DEF Merged
  <2>3. CASE RepoOf[i] = r /\ ~keep /\ i \notin landed[RepoOf[i]]
    <3>1. Through(Lead, r) /\ policy[r] # "asis"
      BY <1>11, <2>3 DEF Through
    <3>2. recorded[t] \in DOMAIN branch /\ i \in branch[recorded[t]]
      BY <1>11, <2>1, <2>3 DEF Merged, t
    <3>3. branch[recorded[t]] \ excused \subseteq landed[r]
      BY <3>1, <3>2 DEF Integrated, t
    <3> QED
      BY <2>3, <3>2, <3>3
  <2> QED
    BY <2>2, <2>3
<1>12. Kept'
  <2> SUFFICES ASSUME job[Lead] # "cancelled", NEW i \in wrote, i \notin excused
               PROVE  Holds(i)'
    BY <1>0 DEF Kept
  <2>1. Holds(i) /\ i \in Workers /\ i \in Trees!Jobs
    BY DEF Kept, Roles
  <2>2. Through(i, RepoOf[i])' => Merged(i)' \/ Trees!AsIsWithoutPM(i)'
    BY <1>0, <1>4, <1>11, <2>1 DEF Holds, Trees!AsIsWithoutPM
  <2>3. ASSUME job[i] # "done"
        PROVE  /\ head'[Trees!OwnTree(i)] \in DOMAIN branch'
               /\ i \in branch'[head'[Trees!OwnTree(i)]]
               /\ recorded'[Trees!OwnTree(i)] # Trees!NoBranch
    BY <1>0, <1>1, <1>3, <2>1, <2>3 DEF Holds
  <2> QED
    BY <2>2, <2>3 DEF Holds
<1>13. FilesThere'
  <2>1. Trees!IntegrationTrees' = Trees!IntegrationTrees /\ Trees!IntegrationTrees \subseteq Trees!Trees
    BY <1>0 DEF Trees!IntegrationTrees
  <2> QED
    BY <1>1, <1>2, <2>1 DEF FilesThere
<1> QED
  BY <1>5, <1>6, <1>7, <1>8, <1>9, <1>10, <1>12, <1>13

\* The steps that clean up keep BranchInv.
LEMMA CleanersKeep ==
  ASSUME WorkInv, Trees!Next, NEW j \in Trees!Jobs,
         \/ \E s \in {"done", "cancelled"} : Trees!CleanTerminal(j, s)
         \/ \E r \in Repos : Trees!CleanRepo(j, r) \/ Trees!Reconcile(j, r)
  PROVE  BranchInv'
<1> USE TreesApart, TreeFacts
<1>0. /\ UNCHANGED <<policy, leadRole, naming>> /\ WorkInv /\ Dispatched /\ TreeTypes /\ Roles /\ Stages /\ Begun
      /\ \A i \in Trees!Jobs : merge[i] \in [at : {"idle", "merge", "clean"}, left : SUBSET Repos]
  BY ChoicesStay DEF WorkInv, BranchInv, TreeTypes
<1>1. ASSUME NEW s, Trees!CleanTerminal(j, s) PROVE BranchInv'
  <2>1. /\ <<j, s>> \in cleaning /\ Trees!Remove(j, s)
        /\ UNCHANGED <<job, dispatch, making, merge, wrote, excused>>
    BY <1>1 DEF Trees!CleanTerminal
  <2>2. j \in Workers /\ (s = job[j] \/ (s = "cancelled" /\ j \in excused))
    BY <1>0, <2>1 DEF Roles, Stages
  <2>3. s \in {"done", "cancelled"} /\ (j \in wrote => job[j] # "cancelled")
    BY <1>0, <2>1 DEF TreeTypes, Stages
  <2>4. /\ Trees!RemoveWorktree(Trees!OwnTree(j), recorded[Trees!OwnTree(j)], FALSE)
        /\ \/ recorded' = recorded
           \/ s = "cancelled" /\ recorded' = [recorded EXCEPT ![Trees!OwnTree(j)] = Trees!NoBranch]
    BY <2>1 DEF Trees!Remove
  <2> QED
    BY <1>0, <2>1, <2>2, <2>3, <2>4, OwnRemovalKeeps
<1>2. ASSUME NEW r \in Repos, Trees!Reconcile(j, r) PROVE BranchInv'
  <2>1. /\ UNCHANGED <<job, dispatch, making, merge, wrote, excused>> /\ Trees!LeftOver(j, Trees!TreeOf(j, r))
    BY <1>2 DEF Trees!Reconcile, Trees!opVars
  <2>2. CASE j = Lead /\ Trees!LeadIsPM
    <3> DEFINE keep == job[Lead] = "done" /\ Trees!KeepsBranch(Lead, r)
    <3>1. /\ Trees!RemoveWorktree(<<Lead, r>>, recorded[<<Lead, r>>], keep)
          /\ recorded' = recorded /\ recorded[<<Lead, r>>] # Trees!NoBranch
          /\ job[Lead] \in {"done", "cancelled"}
      BY <1>2, <2>1, <2>2 DEF Trees!Reconcile, Trees!LeftOver, Trees!TreeOf
    <3>2. keep \in BOOLEAN /\ (keep <=> job[Lead] = "done" /\ policy[r] = "asis")
      BY DEF Trees!KeepsBranch, Trees!Target
    <3> HIDE DEF keep
    <3> QED
      BY <1>0, <2>1, <2>2, <3>1, <3>2, IntegrationRemovalKeeps
  <2>3. CASE ~(j = Lead /\ Trees!LeadIsPM)
    <3>1. Trees!Remove(j, job[j]) /\ job[j] \in {"done", "cancelled"} /\ (j \in Kids \/ ~Trees!LeadIsPM)
      BY <1>2, <2>1, <2>3 DEF Trees!Reconcile, Trees!LeftOver, Trees!MayClean
    <3>2. j \in Workers /\ (j \in wrote => job[j] # "cancelled")
      BY <1>0, <3>1, WorkersStay DEF Roles, Stages
    <3>3. /\ Trees!RemoveWorktree(Trees!OwnTree(j), recorded[Trees!OwnTree(j)], FALSE)
          /\ \/ recorded' = recorded
             \/ recorded' = [recorded EXCEPT ![Trees!OwnTree(j)] = Trees!NoBranch]
      BY <3>1 DEF Trees!Remove
    <3> QED
      BY <1>0, <2>1, <3>1, <3>2, <3>3, OwnRemovalKeeps
  <2> QED
    BY <2>2, <2>3
<1>3. ASSUME NEW r \in Repos, Trees!CleanRepo(j, r) PROVE BranchInv'
  <2>1. /\ UNCHANGED <<job, recorded, dispatch, making, wrote, excused>>
        /\ merge[j].at = "clean" /\ r \in merge[j].left
    BY <1>3 DEF Trees!CleanRepo
  <2>2. job[j] = "done"
    BY <1>0, <2>1 DEF Stages
  <2>3. CASE UNCHANGED Trees!gitVars /\ merge' = [merge EXCEPT ![j] = Trees!Idle]
    <3>1. \A i \in Trees!Jobs : merge'[i] = IF i = j THEN Trees!Idle ELSE merge[i]
      <4>1. DOMAIN merge = Trees!Jobs
        BY <1>0 DEF TreeTypes
      <4>2. merge' = [merge EXCEPT ![j] = Trees!Idle]
        BY <2>3
      <4> QED
        BY ONLY <4>1, <4>2
    <3>2. \A i \in Trees!Jobs, q \in Repos : Through(i, q)' => Through(i, q)
      BY <2>1, <3>1 DEF Through, Trees!Idle
    <3>3. \A q \in merge'[Lead].left : q \in merge[Lead].left
      BY <3>1 DEF Trees!Idle
    <3>4. Dispatched' /\ UNCHANGED <<head, files, branch, landed>>
      BY <1>0, <2>1, <2>3, DispatchedStays DEF Trees!gitVars
    <3> QED
      BY <1>0, <2>1, <3>2, <3>3, <3>4, QuietKeeps
  <2>4. CASE /\ Trees!RemoveWorktree(Trees!TreeOf(j, r), recorded[Trees!TreeOf(j, r)], Trees!Retains(j, r))
             /\ merge' = [merge EXCEPT ![j].left = merge[j].left \ {r}]
    <3> DEFINE keep == Trees!Retains(j, r)
    <3>1. Trees!RemoveWorktree(<<j, r>>, recorded[<<j, r>>], keep) /\ keep \in BOOLEAN
          /\ (keep <=> Trees!KeepsBranch(j, r))
      BY <2>4 DEF Trees!TreeOf, Trees!Retains, Trees!KeepsBranch
    <3>2. \A i \in Trees!Jobs : /\ merge'[i].at = merge[i].at /\ merge'[i].left \subseteq merge[i].left
                                /\ merge[i].at = "merge" => merge'[i].left = merge[i].left
      <4>1. merge[j].left \ {r} \in SUBSET Repos
        BY <1>0
      <4> QED
        BY <1>0, <2>1, <2>4, <4>1, MergeBecomes
    <3> HIDE DEF keep
    <3>3. CASE j \in Workers
      <4>1. <<j, r>> = Trees!OwnTree(j)
        BY <1>0, <2>1, <3>3 DEF Roles
      <4> QED
        BY <1>0, <2>1, <2>2, <3>1, <3>2, <3>3, <4>1, OwnRemovalKeeps
    <3>4. CASE j \notin Workers
      <4>1. j = Lead /\ Trees!LeadIsPM
        BY <1>0, <2>1, <3>4, WorkersStay DEF Roles, Trees!Idle
      <4>2. recorded[<<Lead, r>>] # Trees!NoBranch /\ (keep <=> policy[r] = "asis")
        BY <1>0, <2>1, <3>1, <4>1 DEF Begun, Trees!KeepsBranch, Trees!Target
      <4> QED
        BY <1>0, <2>1, <2>2, <3>1, <3>2, <4>1, <4>2, IntegrationRemovalKeeps
    <3> QED
      BY <3>3, <3>4
  <2> QED
    BY <1>3, <2>3, <2>4 DEF Trees!CleanRepo
<1> QED
  BY <1>1, <1>2, <1>3

\* A worktree that is added, point by point.
LEMMA Added ==
  ASSUME TreeTypes, NEW t \in Trees!Trees, NEW b, NEW base, Trees!AddWorktree(t, b, base)
  PROVE  /\ b \notin DOMAIN branch /\ files[t] # "here"
         /\ \A u \in Trees!Trees : /\ head'[u] = IF u = t THEN b ELSE head[u]
                                   /\ files'[u] = IF u = t THEN "here" ELSE files[u]
         /\ DOMAIN branch' = DOMAIN branch \cup {b} /\ branch'[b] = base
         /\ \A x \in DOMAIN branch : branch'[x] = branch[x]
         /\ landed' = landed
<1>1. DOMAIN head = Trees!Trees /\ DOMAIN files = Trees!Trees
  BY DEF TreeTypes, GitTypes
<1>2. /\ head' = [head EXCEPT ![t] = b] /\ files' = [files EXCEPT ![t] = "here"]
      /\ branch' = [x \in DOMAIN branch \cup {b} |-> IF x = b THEN base ELSE branch[x]]
      /\ b \notin DOMAIN branch /\ files[t] # "here" /\ landed' = landed
  BY DEF Trees!AddWorktree, Trees!CanAdd
<1> QED
  BY <1>1, <1>2

\* Branches that only grow go on holding what they hold.
LEMMA StillHolds ==
  ASSUME NEW i \in Workers, Holds(i),
         head'[Trees!OwnTree(i)] = head[Trees!OwnTree(i)],
         DOMAIN branch \subseteq DOMAIN branch', \A x \in DOMAIN branch : branch[x] \subseteq branch'[x],
         landed[RepoOf[i]] \subseteq landed'[RepoOf[i]],
         i \in Kids => recorded'[Trees!KidTree(i)] = recorded[Trees!KidTree(i)]
                       \/ recorded[Trees!KidTree(i)] \notin DOMAIN branch,
         recorded[Trees!OwnTree(i)] # Trees!NoBranch => recorded'[Trees!OwnTree(i)] # Trees!NoBranch,
         job[i] = "done" => job'[i] = "done",
         Through(i, RepoOf[i])' => Through(i, RepoOf[i]),
         UNCHANGED <<policy, leadRole>>
  PROVE  Holds(i)'
<1>1. Merged(i) => Merged(i)'
  BY DEF Merged
<1>2. Trees!AsIsWithoutPM(i)' <=> Trees!AsIsWithoutPM(i)
  BY DEF Trees!AsIsWithoutPM, Trees!LeadIsPM
<1> QED
  BY <1>1, <1>2 DEF Holds

\* assign keeps BranchInv: the tree it makes is of a branch that is not there, and what
\* a job wrote is on a branch that is.
LEMMA AssignKeeps ==
  ASSUME WorkInv, Trees!Next, NEW j \in Trees!Jobs, Trees!Assign(j)
  PROVE  BranchInv'
<1> USE TreesApart, TreeFacts
<1> DEFINE t == Trees!OwnTree(j)
           base == IF j \in Kids THEN branch[recorded[Trees!KidTree(j)]] ELSE landed[RepoOf[j]]
           names == IF recorded[t] # Trees!NoBranch THEN {recorded[t]} ELSE Trees!NewNames(t)
<1>0. /\ UNCHANGED <<policy, leadRole, naming>> /\ TreeTypes /\ Roles
      /\ Named /\ Dispatched /\ OwnTrees /\ Begun /\ Based /\ Integrated /\ Kept /\ FilesThere
  BY ChoicesStay DEF WorkInv, BranchInv
<1>1. /\ UNCHANGED <<recorded, job, making, merge, wrote, excused>> /\ job[j] = "queued"
      /\ j \in Kids => recorded[Trees!KidTree(j)] \in DOMAIN branch
      /\ \/ j = Lead /\ Trees!LeadIsPM /\ dispatch' = <<j, Trees!NoBranch>> /\ UNCHANGED Trees!gitVars
         \/ /\ ~(j = Lead /\ Trees!LeadIsPM)
            /\ \E b \in names : dispatch' = <<j, b>> /\ (UNCHANGED Trees!gitVars \/ Trees!AddWorktree(t, b, base))
  BY DEF Trees!Assign
<1>2. ASSUME UNCHANGED Trees!gitVars, Dispatched' PROVE BranchInv'
  <2>1. UNCHANGED <<head, files, branch, landed>>
    BY <1>2 DEF Trees!gitVars
  <2>2. \A i \in Trees!Jobs, q \in Repos : Through(i, q)' => Through(i, q)
    BY <1>1 DEF Through
  <2> QED
    BY <1>0, <1>1, <1>2, <2>1, <2>2, QuietKeeps
<1>3. CASE dispatch' = <<j, Trees!NoBranch>> /\ UNCHANGED Trees!gitVars
  <2>1. Trees!NoBranch \notin DOMAIN branch'
    BY <1>0, <1>3, NamedApart DEF Trees!gitVars
  <2>2. Dispatched'
    BY <1>3, <2>1 DEF Dispatched
  <2> QED
    BY <1>2, <1>3, <2>2
<1>4. ASSUME ~(j = Lead /\ Trees!LeadIsPM), NEW b \in names, dispatch' = <<j, b>>,
             UNCHANGED Trees!gitVars \/ Trees!AddWorktree(t, b, base)
      PROVE  BranchInv'
  <2>1. /\ j \in Workers /\ t \in Trees!Trees /\ b \in NamesOf(t) /\ b[1] = t /\ b # Trees!NoBranch
        /\ recorded[t] # Trees!NoBranch => b = recorded[t]
    <3>1. j \in Workers
      BY <1>0, <1>1, <1>4, WorkersStay DEF Roles
    <3>2. b \in NamesOf(t)
      BY <1>0, <1>4, NamedApart
    <3> QED
      BY <1>4, <3>1, <3>2
  <2>2. b \in DOMAIN branch => head[t] \in {Trees!NoBranch, b}
    <3>1. CASE recorded[t] # Trees!NoBranch
      BY <1>0, <2>1, <3>1 DEF OwnTrees
    <3>2. CASE recorded[t] = Trees!NoBranch /\ naming = "generated"
      <4>1. NamesOf(t) = {<<t, 1>>}
        BY <3>2 DEF NamesOf
      <4> QED
        BY <1>0, <2>1, <4>1, NamedApart
    <3>3. CASE recorded[t] = Trees!NoBranch /\ naming # "generated"
      BY <1>4, <3>3 DEF Trees!NewNames
    <3> QED
      BY <3>1, <3>2, <3>3
  <2>3. CASE UNCHANGED Trees!gitVars
    <3>1. Dispatched'
      BY <1>0, <1>4, <2>1, <2>2, <2>3 DEF Dispatched, Trees!gitVars, NamesOf
    <3> QED
      BY <1>2, <2>3, <3>1
  <2>4. CASE Trees!AddWorktree(t, b, base)
    <3> HIDE DEF names, base
    <3>0. Workers' = Workers /\ (Trees!LeadIsPM' <=> Trees!LeadIsPM) /\ t = Trees!OwnTree(j)
          /\ (Trees!LeadIsPM => \A r \in Repos : t # <<Lead, r>>)
      BY <1>0, <2>1 DEF Workers, Trees!LeadIsPM
    <3> HIDE DEF t
    <3>1. /\ b \notin DOMAIN branch /\ files[t] # "here"
          /\ \A u \in Trees!Trees : /\ head'[u] = IF u = t THEN b ELSE head[u]
                                    /\ files'[u] = IF u = t THEN "here" ELSE files[u]
          /\ DOMAIN branch' = DOMAIN branch \cup {b} /\ branch'[b] = base
          /\ \A x \in DOMAIN branch : branch'[x] = branch[x]
          /\ landed' = landed
      <4>1. TreeTypes /\ t \in Trees!Trees /\ Trees!AddWorktree(t, b, base)
        BY <1>0, <2>1, <2>4
      <4> QED
        BY ONLY <4>1, Added
    <3>2. head[t] = Trees!NoBranch
      BY <1>0, <2>1, <3>0, <3>1 DEF OwnTrees
    <3>3. \A u \in Trees!Trees : u # t => recorded[u] # b /\ head[u] # b
      BY <1>0, <2>1, NamedApart
    <3>4. \A i \in Workers : i # j => Trees!OwnTree(i) # t
      BY <3>0
    <3>5. Named'
      <4>1. \A u \in Trees!Trees : {recorded'[u], head'[u]} \subseteq {Trees!NoBranch} \cup NamesOf(u)
        BY <1>0, <1>1, <2>1, <3>1 DEF Named
      <4> QED
        BY <1>0, <4>1 DEF Named, NamesOf
    <3>6. Dispatched'
      BY <1>0, <1>4, <2>1, <3>0, <3>1 DEF Dispatched, NamesOf
    <3>7. OwnTrees'
      <4>1. \A i \in Workers : i # j =>
              LET u == Trees!OwnTree(i)
              IN /\ files'[u] = IF head'[u] = Trees!NoBranch THEN "none" ELSE "here"
                 /\ head'[u] # Trees!NoBranch /\ recorded[u] \in DOMAIN branch' => head'[u] = recorded[u]
                 /\ job[i] \in {"active", "merging"} => recorded[u] # Trees!NoBranch \/ i \in excused
        BY <1>0, <3>1, <3>3, <3>4 DEF OwnTrees
      <4>2. /\ files'[t] = "here" /\ head'[t] = b
            /\ recorded[t] \in DOMAIN branch' => head'[t] = recorded[t]
        BY <1>0, <2>1, <3>1, NamedApart
      <4> QED
        BY <1>1, <2>1, <3>0, <4>1, <4>2 DEF OwnTrees
    <3>8. Begun'
      <4>1. \A u \in making : u \in Trees!Trees /\ u # t
        BY <1>0, <3>0 DEF Roles
      <4> QED
        BY <1>0, <1>1, <3>0, <3>1, <3>3, <4>1 DEF Begun
    <3>9. Based'
      <4> SUFFICES ASSUME NEW k \in Kids, NEW n \in Trees!Names, <<Trees!OwnTree(k), n>> \in DOMAIN branch'
                   PROVE  /\ k \in Workers /\ recorded[Trees!KidTree(k)] # Trees!NoBranch
                          /\ recorded[Trees!KidTree(k)] \in DOMAIN branch' =>
                               branch'[<<Trees!OwnTree(k), n>>] \subseteq {k} \cup branch'[recorded[Trees!KidTree(k)]]
        BY <1>1, <3>0 DEF Based
      <4>1. k \in Workers
        BY <1>0, <2>1, <3>0, <3>1 DEF Based
      <4>2. Trees!KidTree(k) \in Trees!Trees /\ Trees!KidTree(k) # t
        BY <3>0, <4>1
      <4>3. CASE <<Trees!OwnTree(k), n>> = b
        <5>1. k = j
          BY <2>1, <3>0, <4>3
        <5>2. recorded[Trees!KidTree(j)] \in DOMAIN branch /\ base = branch[recorded[Trees!KidTree(j)]]
          BY <1>1, <5>1 DEF base
        <5>3. recorded[Trees!KidTree(j)] # Trees!NoBranch
          BY <1>0, <5>2, NamedApart
        <5> QED
          BY <3>1, <4>1, <4>3, <5>1, <5>2, <5>3
      <4>4. CASE <<Trees!OwnTree(k), n>> # b
        BY <1>0, <3>1, <3>3, <4>1, <4>2, <4>4 DEF Based
      <4> QED
        BY <4>3, <4>4
    <3>10. Integrated'
      BY <1>0, <1>1, <3>0, <3>1, <3>3 DEF Integrated, Through
    <3>11. Kept'
      <4> SUFFICES ASSUME job[Lead] # "cancelled", NEW i \in wrote, i \notin excused
                   PROVE  Holds(i)'
        BY <1>0, <1>1, <3>0 DEF Kept
      <4>1. Holds(i) /\ i \in Workers /\ i \in Trees!Jobs
        BY <1>0 DEF Kept, Roles
      <4>2. i # j
        BY <1>0, <1>1, <3>0, <3>2, <4>1, NamedApart DEF Holds
      <4>3. Through(i, RepoOf[i])' => Through(i, RepoOf[i])
        BY <1>1 DEF Through
      <4> QED
        BY <1>0, <1>1, <3>1, <3>4, <4>1, <4>2, <4>3, StillHolds
    <3>12. FilesThere'
      <4>1. Trees!IntegrationTrees' = Trees!IntegrationTrees /\ \A u \in Trees!IntegrationTrees : u \in Trees!Trees /\ u # t
        BY <1>1, <3>0 DEF Trees!IntegrationTrees
      <4> QED
        BY <1>0, <1>1, <3>1, <3>3, <4>1 DEF FilesThere
    <3> QED
      BY <3>5, <3>6, <3>7, <3>8, <3>9, <3>10, <3>11, <3>12 DEF BranchInv
  <2> QED
    BY <1>4, <2>3, <2>4
<1> QED
  BY <1>1, <1>3, <1>4

\* The integration tree of a child is made while nothing else is recorded for it.
LEMMA MakeKeeps ==
  ASSUME WorkInv, Trees!Next, NEW k \in Kids, Trees!MakeIntegration(k)
  PROVE  BranchInv'
<1> USE TreesApart, TreeFacts
<1> DEFINE t == Trees!KidTree(k)
           base == landed[RepoOf[k]]
<1>0. /\ UNCHANGED <<policy, leadRole, naming>> /\ TreeTypes /\ Roles
      /\ Named /\ Dispatched /\ OwnTrees /\ Begun /\ Based /\ Integrated /\ Kept /\ FilesThere
  BY ChoicesStay DEF WorkInv, BranchInv
<1>1. /\ UNCHANGED <<recorded, job, dispatch, merge, wrote, excused>> /\ job[k] = "queued"
      /\ recorded[t] = Trees!NoBranch /\ making' = {t}
      /\ \E b \in Trees!NewNames(t) : Trees!AddWorktree(t, b, base)
  BY DEF Trees!MakeIntegration
<1>2. PICK b \in Trees!NewNames(t) : Trees!AddWorktree(t, b, base)
  BY <1>1
<1>3. /\ k \in Workers /\ Trees!LeadIsPM /\ t = <<Lead, RepoOf[k]>> /\ t \in Trees!Trees /\ t[2] = RepoOf[k]
      /\ b \in NamesOf(t) /\ b[1] = t /\ b # Trees!NoBranch
  BY <1>0, <1>1 DEF Roles, Workers
<1>4. Workers' = Workers /\ Trees!LeadIsPM' /\ \A i \in Workers : i \in Kids /\ Trees!OwnTree(i) # t
  BY <1>0, <1>3 DEF Workers, Trees!LeadIsPM
<1> HIDE DEF t, base
<1>5. /\ b \notin DOMAIN branch
      /\ \A u \in Trees!Trees : /\ head'[u] = IF u = t THEN b ELSE head[u]
                                /\ files'[u] = IF u = t THEN "here" ELSE files[u]
      /\ DOMAIN branch' = DOMAIN branch \cup {b} /\ branch'[b] = base
      /\ \A x \in DOMAIN branch : branch'[x] = branch[x]
      /\ landed' = landed
  <2>1. TreeTypes /\ t \in Trees!Trees /\ Trees!AddWorktree(t, b, base)
    BY <1>0, <1>2, <1>3
  <2> QED
    BY ONLY <2>1, Added
<1>6. \A u \in Trees!Trees : recorded[u] # b /\ (u # t => head[u] # b)
  BY <1>0, <1>1, <1>3, NamedApart
<1>7. Named'
  <2>1. \A u \in Trees!Trees : {recorded'[u], head'[u]} \subseteq {Trees!NoBranch} \cup NamesOf(u)
    BY <1>0, <1>1, <1>3, <1>5 DEF Named
  <2> QED
    BY <1>0, <2>1 DEF Named, NamesOf
<1>8. Dispatched'
  <2> SUFFICES ASSUME dispatch # <<>>
               PROVE  /\ dispatch[2] # Trees!NoBranch => dispatch[2] \in NamesOf(Trees!OwnTree(dispatch[1]))
                      /\ dispatch[2] \in DOMAIN branch' =>
                           head'[Trees!OwnTree(dispatch[1])] \in {Trees!NoBranch, dispatch[2]}
    BY <1>0, <1>1 DEF Dispatched, NamesOf
  <2>1. dispatch[1] \in Trees!Jobs /\ Trees!OwnTree(dispatch[1]) \in Trees!Trees
    BY <1>0 DEF TreeTypes
  <2>2. CASE dispatch[2] = Trees!NoBranch
    BY <1>0, <1>3, <1>5, <2>2, NamedApart DEF Dispatched
  <2>3. CASE dispatch[2] # Trees!NoBranch
    <3>1. Trees!OwnTree(dispatch[1]) # t /\ dispatch[2] \in NamesOf(Trees!OwnTree(dispatch[1]))
      BY <1>0, <1>4, <2>3 DEF Roles, Dispatched
    <3>2. dispatch[2] # b
      BY <1>3, <2>1, <3>1
    <3> QED
      BY <1>0, <1>5, <2>1, <3>1, <3>2 DEF Dispatched
  <2> QED
    BY <2>2, <2>3
<1>9. OwnTrees'
  BY <1>0, <1>1, <1>4, <1>5, <1>6 DEF OwnTrees
<1>10. Begun'
  BY <1>0, <1>1, <1>3, <1>5 DEF Begun, base
<1>11. Based'
  <2> SUFFICES ASSUME NEW i \in Kids, NEW n \in Trees!Names, <<Trees!OwnTree(i), n>> \in DOMAIN branch'
               PROVE  /\ i \in Workers /\ recorded[Trees!KidTree(i)] # Trees!NoBranch
                      /\ recorded[Trees!KidTree(i)] \in DOMAIN branch' =>
                           branch'[<<Trees!OwnTree(i), n>>] \subseteq {i} \cup branch'[recorded[Trees!KidTree(i)]]
    BY <1>1, <1>4 DEF Based
  <2>1. <<Trees!OwnTree(i), n>> # b
    BY <1>3
  <2>2. <<Trees!OwnTree(i), n>> \in DOMAIN branch /\ Trees!KidTree(i) \in Trees!Trees
    BY <1>5, <2>1
  <2> QED
    BY <1>0, <1>5, <1>6, <2>2 DEF Based
<1>12. Integrated'
  <2> SUFFICES ASSUME NEW r \in Repos, Through(Lead, r), recorded[<<Lead, r>>] \in DOMAIN branch',
                      policy[r] # "asis"
               PROVE  branch'[recorded[<<Lead, r>>]] \ excused \subseteq landed[r]
    BY <1>0, <1>1, <1>4, <1>5 DEF Integrated, Through
  <2>1. recorded[<<Lead, r>>] \in DOMAIN branch
    BY <1>5, <1>6
  <2> QED
    BY <1>0, <1>3, <1>5, <2>1 DEF Integrated
<1>13. Kept'
  <2> SUFFICES ASSUME job[Lead] # "cancelled", NEW i \in wrote, i \notin excused
               PROVE  Holds(i)'
    BY <1>0, <1>1, <1>3, <1>4 DEF Kept
  <2>1. Holds(i) /\ i \in Workers /\ i \in Trees!Jobs
    BY <1>0 DEF Kept, Roles
  <2>2. Through(i, RepoOf[i])' => Through(i, RepoOf[i])
    BY <1>1 DEF Through
  <2> QED
    BY <1>0, <1>1, <1>4, <1>5, <2>1, <2>2, StillHolds
<1>14. FilesThere'
  <2>1. /\ Trees!IntegrationTrees' = Trees!IntegrationTrees
        /\ \A u \in Trees!IntegrationTrees : u \in Trees!Trees /\ u # t
    BY <1>1, <1>3, <1>4 DEF Trees!IntegrationTrees
  <2> QED
    BY <1>0, <1>1, <1>5, <1>6, <2>1 DEF FilesThere
<1> QED
  BY <1>7, <1>8, <1>9, <1>10, <1>11, <1>12, <1>13, <1>14 DEF BranchInv

\* The integration tree is recorded while its branch holds nothing of its own, or
\* removed again.
LEMMA RecordKeeps ==
  ASSUME WorkInv, Trees!Next, NEW t \in {Lead} \X Repos, Trees!RecordIntegration(t)
  PROVE  BranchInv'
<1> USE TreesApart, TreeFacts
<1>0. /\ UNCHANGED <<policy, leadRole, naming>> /\ TreeTypes /\ Roles
      /\ Named /\ Dispatched /\ OwnTrees /\ Begun /\ Based /\ Integrated /\ Kept /\ FilesThere
  BY ChoicesStay DEF WorkInv, BranchInv
<1>1. /\ UNCHANGED <<job, dispatch, merge, wrote, excused>> /\ t \in making /\ making' = {}
      /\ \/ recorded' = [recorded EXCEPT ![t] = head[t]] /\ UNCHANGED Trees!gitVars
         \/ recorded' = recorded /\ Trees!RemoveWorktree(t, head[t], FALSE)
  BY DEF Trees!RecordIntegration
<1>2. /\ Trees!LeadIsPM /\ t \in Trees!Trees /\ t = <<Lead, t[2]>> /\ t[2] \in Repos
      /\ recorded[t] = Trees!NoBranch /\ files[t] = "here" /\ head[t] # Trees!NoBranch
      /\ head[t] \in DOMAIN branch => branch[head[t]] \subseteq landed[t[2]]
      /\ head[t] \in NamesOf(t) /\ head[t][1] = t
  BY <1>0, <1>1, NamedApart DEF Roles, Begun
<1>3. Workers' = Workers /\ Trees!LeadIsPM' /\ \A i \in Workers : i \in Kids /\ Trees!OwnTree(i) # t
  BY <1>0, <1>2 DEF Workers, Trees!LeadIsPM
<1>4. /\ \A u \in Trees!Trees : recorded'[u] = IF u = t THEN recorded'[t] ELSE recorded[u]
      /\ recorded'[t] \in {Trees!NoBranch, head[t]}
      /\ \A u \in Trees!Trees : u # t => /\ head'[u] = head[u] /\ files'[u] = files[u]
                                         /\ head[u] \in DOMAIN branch => head[u] \in DOMAIN branch'
                                         /\ recorded[u] \in DOMAIN branch => recorded[u] \in DOMAIN branch'
      /\ head'[t] \in {Trees!NoBranch, head[t]} /\ files'[t] \in {"here", "none"}
      /\ recorded'[t] # Trees!NoBranch => files'[t] = "here"
      /\ DOMAIN branch' \subseteq DOMAIN branch
      /\ \A x \in DOMAIN branch' : branch'[x] = branch[x]
      /\ landed' = landed
  <2>1. CASE recorded' = [recorded EXCEPT ![t] = head[t]] /\ UNCHANGED Trees!gitVars
    BY <1>0, <1>2, <2>1 DEF Trees!gitVars, TreeTypes
  <2>2. CASE recorded' = recorded /\ Trees!RemoveWorktree(t, head[t], FALSE)
    <3>1. /\ \A u \in Trees!Trees :
               /\ head'[u] = IF u = t THEN Trees!NoBranch ELSE head[u]
               /\ files'[u] = IF u = t /\ files[u] = "here" THEN "none" ELSE files[u]
          /\ DOMAIN branch' = DOMAIN branch \ {head[t]}
          /\ \A x \in DOMAIN branch' : branch'[x] = branch[x]
          /\ landed' = landed
      <4>1. TreeTypes /\ t \in Trees!Trees /\ FALSE \in BOOLEAN /\ Trees!RemoveWorktree(t, head[t], FALSE)
        BY <1>0, <1>2, <2>2
      <4> QED
        BY ONLY <4>1, Removed
    <3>2. \A u \in Trees!Trees : u # t => head[u] # head[t] /\ recorded[u] # head[t]
      BY <1>0, <1>2, NamedApart
    <3> QED
      BY <1>2, <2>2, <3>1, <3>2
  <2> QED
    BY <1>1, <2>1, <2>2
<1>5. Trees!NoBranch \notin DOMAIN branch
  BY <1>0, NamedApart
<1>6. \A k \in Kids, n \in Trees!Names : <<Trees!OwnTree(k), n>> \in DOMAIN branch => Trees!KidTree(k) # t
  BY <1>0, <1>2 DEF Based
<1>7. Named'
  <2>1. \A u \in Trees!Trees : {recorded'[u], head'[u]} \subseteq {Trees!NoBranch} \cup NamesOf(u)
    BY <1>0, <1>2, <1>4 DEF Named
  <2> QED
    BY <1>0, <2>1 DEF Named, NamesOf
<1>8. Dispatched'
  <2>1. dispatch # <<>> => Trees!OwnTree(dispatch[1]) \in Trees!Trees
    BY <1>0 DEF TreeTypes
  <2>2. \A u \in Trees!Trees : head'[u] \in {Trees!NoBranch, head[u]}
    BY <1>4
  <2> QED
    BY <1>0, <1>1, <1>4, <2>1, <2>2 DEF Dispatched, NamesOf
<1>9. OwnTrees'
  BY <1>0, <1>1, <1>3, <1>4 DEF OwnTrees
<1>10. Begun'
  <2>1. \A r \in Repos : recorded[<<Lead, r>>] # Trees!NoBranch => recorded'[<<Lead, r>>] # Trees!NoBranch
    BY <1>2, <1>4
  <2>2. merge[Lead].left \subseteq Repos
    BY <1>0 DEF TreeTypes
  <2> QED
    BY <1>0, <1>1, <1>2, <2>1, <2>2 DEF Begun
<1>11. Based'
  <2> SUFFICES ASSUME NEW k \in Kids, NEW n \in Trees!Names, <<Trees!OwnTree(k), n>> \in DOMAIN branch'
               PROVE  /\ k \in Workers /\ recorded'[Trees!KidTree(k)] # Trees!NoBranch
                      /\ recorded'[Trees!KidTree(k)] \in DOMAIN branch' =>
                           branch'[<<Trees!OwnTree(k), n>>] \subseteq {k} \cup branch'[recorded'[Trees!KidTree(k)]]
    BY <1>3 DEF Based
  <2>1. <<Trees!OwnTree(k), n>> \in DOMAIN branch /\ Trees!KidTree(k) # t /\ Trees!KidTree(k) \in Trees!Trees
    BY <1>4, <1>6
  <2>2. recorded'[Trees!KidTree(k)] = recorded[Trees!KidTree(k)]
    BY <1>4, <2>1
  <2> QED
    BY <1>0, <1>4, <2>1, <2>2 DEF Based
<1>12. Integrated'
  <2> SUFFICES ASSUME NEW r \in Repos, Through(Lead, r), recorded'[<<Lead, r>>] \in DOMAIN branch',
                      policy[r] # "asis"
               PROVE  branch'[recorded'[<<Lead, r>>]] \ excused \subseteq landed[r]
    BY <1>0, <1>1, <1>3, <1>4 DEF Integrated, Through
  <2>1. CASE <<Lead, r>> = t
    <3>1. t[2] = r
      BY <2>1
    <3> QED
      BY <1>2, <1>4, <1>5, <2>1, <3>1
  <2>2. CASE <<Lead, r>> # t
    BY <1>0, <1>2, <1>4, <2>2 DEF Integrated
  <2> QED
    BY <2>1, <2>2
<1>13. ASSUME NEW i \in Workers, Merged(i) PROVE Merged(i)'
  <2>1. CASE Trees!KidTree(i) = t
    BY <1>2, <1>4, <1>5, <1>13, <2>1 DEF Merged
  <2>2. CASE Trees!KidTree(i) # t
    <3>1. Trees!KidTree(i) \in Trees!Trees
      BY <1>3
    <3> QED
      BY <1>4, <1>13, <2>2, <3>1 DEF Merged
  <2> QED
    BY <2>1, <2>2
<1>14. Kept'
  <2> SUFFICES ASSUME job[Lead] # "cancelled", NEW i \in wrote, i \notin excused
               PROVE  Holds(i)'
    BY <1>0, <1>1, <1>2, <1>3 DEF Kept
  <2>1. Holds(i) /\ i \in Workers /\ i \in Trees!Jobs
    BY <1>0 DEF Kept, Roles
  <2>2. Through(i, RepoOf[i])' => Through(i, RepoOf[i])
    BY <1>1 DEF Through
  <2> QED
    BY <1>0, <1>1, <1>3, <1>4, <1>13, <2>1, <2>2 DEF Holds, Trees!AsIsWithoutPM, Trees!LeadIsPM
<1>15. FilesThere'
  <2>1. \A u \in Trees!IntegrationTrees' : u \in Trees!Trees /\ (u # t => u \in Trees!IntegrationTrees)
    BY <1>2, <1>3, <1>4 DEF Trees!IntegrationTrees
  <2>2. \A u \in Trees!IntegrationTrees' : u = t => files'[u] = "here"
    BY <1>3, <1>4 DEF Trees!IntegrationTrees
  <2> QED
    BY <1>0, <1>1, <1>4, <2>1, <2>2 DEF FilesThere
<1> QED
  BY <1>7, <1>8, <1>9, <1>10, <1>11, <1>12, <1>14, <1>15 DEF BranchInv

\* What assign records is what the tree has checked out.
LEMMA AssignRecordsKeeps ==
  ASSUME WorkInv, Trees!Next, Trees!AssignRecords
  PROVE  BranchInv'
<1> USE TreesApart, TreeFacts
<1> DEFINE j == dispatch[1]
           b == dispatch[2]
           t == Trees!OwnTree(j)
<1>0. /\ UNCHANGED <<policy, leadRole, naming>> /\ TreeTypes /\ Roles
      /\ Named /\ Dispatched /\ OwnTrees /\ Begun /\ Based /\ Integrated /\ Kept /\ FilesThere
  BY ChoicesStay DEF WorkInv, BranchInv
<1>1. /\ UNCHANGED <<head, files, branch, landed, making, merge, wrote, excused>> /\ dispatch # <<>>
      /\ recorded' = IF b = Trees!NoBranch THEN recorded ELSE [recorded EXCEPT ![t] = b]
      /\ job' = IF job[j] = "queued" THEN [job EXCEPT ![j] = "active"] ELSE job
      /\ dispatch' = <<>>
  BY DEF Trees!AssignRecords, Trees!gitVars
<1>2. /\ j \in Trees!Jobs /\ t \in Trees!Trees /\ t[1] = j
      /\ b # Trees!NoBranch => b \in NamesOf(t)
      /\ b \in DOMAIN branch => head[t] \in {Trees!NoBranch, b}
      /\ b # Trees!NoBranch <=> j \in Workers
  BY <1>0, <1>1 DEF TreeTypes, Dispatched, Roles
<1>3. /\ Workers' = Workers /\ (Trees!LeadIsPM' <=> Trees!LeadIsPM) /\ t = Trees!OwnTree(j)
      /\ \A i \in Workers : Trees!OwnTree(i) = t => i = j
      /\ Trees!LeadIsPM /\ j \in Workers => \A r \in Repos : t # <<Lead, r>>
  <2>1. Workers' = Workers /\ (Trees!LeadIsPM' <=> Trees!LeadIsPM) /\ t = Trees!OwnTree(j)
    BY <1>0 DEF Workers, Trees!LeadIsPM
  <2> HIDE DEF t, j
  <2>2. \A i \in Workers : Trees!OwnTree(i) = t => i = j
    BY <1>2
  <2>3. Trees!LeadIsPM /\ j \in Workers => \A r \in Repos : t # <<Lead, r>>
    BY <1>2
  <2> QED
    BY <2>1, <2>2, <2>3
<1> HIDE DEF j, b, t
<1>4. /\ \A i \in Trees!Jobs : job'[i] = IF i = j /\ job[i] = "queued" THEN "active" ELSE job[i]
      /\ \A u \in Trees!Trees : recorded'[u] = IF u = t /\ j \in Workers THEN b ELSE recorded[u]
  BY <1>0, <1>1, <1>2 DEF TreeTypes
<1>5. \A i \in Trees!Jobs, r \in Repos : Through(i, r)' => Through(i, r)
  BY <1>1, <1>4 DEF Through
<1>6. Trees!LeadIsPM => \A r \in Repos : recorded'[<<Lead, r>>] = recorded[<<Lead, r>>]
  BY <1>3, <1>4
<1>7. Trees!NoBranch \notin DOMAIN branch
  BY <1>0, NamedApart
<1>8. Named'
  <2>1. \A u \in Trees!Trees : {recorded'[u], head'[u]} \subseteq {Trees!NoBranch} \cup NamesOf(u)
    BY <1>0, <1>1, <1>2, <1>4 DEF Named
  <2> QED
    BY <1>0, <2>1 DEF Named, NamesOf
<1>9. Dispatched'
  BY <1>1 DEF Dispatched
<1>10. OwnTrees'
  <2>1. ASSUME NEW i \in Workers, i # j
        PROVE  LET u == Trees!OwnTree(i)
               IN /\ files'[u] = IF head'[u] = Trees!NoBranch THEN "none" ELSE "here"
                  /\ head'[u] # Trees!NoBranch /\ recorded'[u] \in DOMAIN branch' => head'[u] = recorded'[u]
                  /\ job'[i] \in {"active", "merging"} => recorded'[u] # Trees!NoBranch \/ i \in excused'
    BY <1>0, <1>1, <1>3, <1>4, <2>1 DEF OwnTrees
  <2>2. ASSUME j \in Workers
        PROVE  /\ files'[t] = IF head'[t] = Trees!NoBranch THEN "none" ELSE "here"
               /\ head'[t] # Trees!NoBranch /\ recorded'[t] \in DOMAIN branch' => head'[t] = recorded'[t]
               /\ recorded'[t] # Trees!NoBranch
    <3>1. files[t] = IF head[t] = Trees!NoBranch THEN "none" ELSE "here"
      BY <1>0, <1>3, <2>2 DEF OwnTrees
    <3> QED
      BY <1>1, <1>2, <1>4, <2>2, <3>1
  <2> QED
    BY <1>3, <2>1, <2>2 DEF OwnTrees
<1>11. Begun'
  <2>1. \A u \in making : u \in Trees!Trees /\ recorded'[u] = recorded[u]
    BY <1>0, <1>6 DEF Roles
  <2>2. merge[Lead].left \subseteq Repos
    BY <1>0 DEF TreeTypes
  <2> QED
    BY <1>0, <1>1, <1>3, <1>6, <2>1, <2>2 DEF Begun
<1>12. Based'
  <2> SUFFICES ASSUME NEW k \in Kids, NEW n \in Trees!Names, <<Trees!OwnTree(k), n>> \in DOMAIN branch
               PROVE  /\ k \in Workers /\ recorded'[Trees!KidTree(k)] # Trees!NoBranch
                      /\ recorded'[Trees!KidTree(k)] \in DOMAIN branch =>
                           branch[<<Trees!OwnTree(k), n>>] \subseteq {k} \cup branch[recorded'[Trees!KidTree(k)]]
    BY <1>1, <1>3 DEF Based
  <2>1. k \in Workers
    BY <1>0 DEF Based
  <2>2. recorded'[Trees!KidTree(k)] = recorded[Trees!KidTree(k)]
    BY <1>6, <2>1
  <2> QED
    BY <1>0, <2>2 DEF Based
<1>13. Integrated'
  <2> SUFFICES ASSUME Trees!LeadIsPM, NEW r \in Repos, Through(Lead, r)',
                      recorded[<<Lead, r>>] \in DOMAIN branch, policy[r] # "asis"
               PROVE  branch[recorded[<<Lead, r>>]] \ excused \subseteq landed[r]
    BY <1>0, <1>1, <1>3, <1>6 DEF Integrated
  <2> QED
    BY <1>0, <1>5 DEF Integrated
<1>14. Kept'
  <2> SUFFICES ASSUME job'[Lead] # "cancelled", NEW i \in wrote, i \notin excused
               PROVE  Holds(i)'
    BY <1>0, <1>1, <1>3 DEF Kept
  <2>1. Holds(i) /\ i \in Workers /\ i \in Trees!Jobs
    BY <1>0, <1>4 DEF Kept, Roles
  <2>2. Through(i, RepoOf[i])' => Through(i, RepoOf[i])
    BY <1>5, <2>1
  <2>3. i \in Kids => recorded'[Trees!KidTree(i)] = recorded[Trees!KidTree(i)]
    BY <1>6, <2>1
  <2>4. recorded[Trees!OwnTree(i)] # Trees!NoBranch => recorded'[Trees!OwnTree(i)] # Trees!NoBranch
    BY <1>2, <1>4, <2>1
  <2>5. job[i] = "done" => job'[i] = "done"
    BY <1>4, <2>1
  <2> QED
    BY <1>0, <1>1, <2>1, <2>2, <2>3, <2>4, <2>5, StillHolds
<1>15. FilesThere'
  <2>1. \A u \in Trees!IntegrationTrees' : u \in Trees!IntegrationTrees /\ recorded'[u] = recorded[u]
    BY <1>3, <1>6 DEF Trees!IntegrationTrees
  <2>2. job[Lead] \in {"done", "cancelled"} => job'[Lead] = job[Lead]
    BY <1>4
  <2> QED
    BY <1>0, <1>1, <2>1, <2>2 DEF FilesThere
<1> QED
  BY <1>8, <1>9, <1>10, <1>11, <1>12, <1>13, <1>14, <1>15 DEF BranchInv

\* A worker's commit is on the branch its tree has checked out.
LEMMA CommitsKeep ==
  ASSUME WorkInv, Trees!Next, NEW j \in Trees!Jobs, Trees!Commits(j)
  PROVE  BranchInv'
<1> USE TreesApart, TreeFacts
<1> DEFINE t == Trees!OwnTree(j)
           b == head[t]
<1>0. /\ UNCHANGED <<policy, leadRole, naming>> /\ TreeTypes /\ Roles
      /\ Named /\ Dispatched /\ OwnTrees /\ Begun /\ Based /\ Integrated /\ Kept /\ FilesThere
  BY ChoicesStay DEF WorkInv, BranchInv
<1>1. /\ UNCHANGED <<recorded, head, files, landed, job, dispatch, making, merge, excused>>
      /\ b \in DOMAIN branch /\ branch' = [branch EXCEPT ![b] = branch[b] \cup {j}]
      /\ wrote' = wrote \cup {j} /\ job[j] = "active" /\ (j \in Kids \/ ~Trees!LeadIsPM)
  BY DEF Trees!Commits, Trees!opVars
<1>2. /\ j \in Workers /\ t \in Trees!Trees /\ t[1] = j /\ t = Trees!OwnTree(j) /\ b[1] = t
      /\ b # Trees!NoBranch /\ b = head[t]
  BY <1>0, <1>1, WorkersStay, NamedApart DEF Roles
<1>3. /\ Workers' = Workers /\ (Trees!LeadIsPM' <=> Trees!LeadIsPM)
      /\ Trees!LeadIsPM => \A r \in Repos : t # <<Lead, r>>
  BY <1>0, <1>2 DEF Workers, Trees!LeadIsPM
<1> HIDE DEF t, b
<1>4. /\ DOMAIN branch' = DOMAIN branch
      /\ \A x \in DOMAIN branch : branch'[x] = IF x = b THEN branch[b] \cup {j} ELSE branch[x]
  BY <1>1
<1>5. \A u \in Trees!Trees : u # t => recorded[u] # b /\ head[u] # b
  BY <1>0, <1>2, NamedApart
<1>6. Named' /\ OwnTrees' /\ FilesThere'
  BY <1>0, <1>1, <1>3, <1>4 DEF Named, NamesOf, OwnTrees, FilesThere, Trees!IntegrationTrees
<1>7. Dispatched'
  BY <1>0, <1>1, <1>4 DEF Dispatched, NamesOf
<1>8. Begun'
  <2>1. \A u \in making : u \in Trees!Trees /\ u # t
    BY <1>0, <1>3 DEF Roles
  <2> QED
    BY <1>0, <1>1, <1>3, <1>4, <1>5, <2>1 DEF Begun
<1>9. Based'
  <2> SUFFICES ASSUME NEW k \in Kids, NEW n \in Trees!Names, <<Trees!OwnTree(k), n>> \in DOMAIN branch
               PROVE  /\ k \in Workers /\ recorded[Trees!KidTree(k)] # Trees!NoBranch
                      /\ recorded[Trees!KidTree(k)] \in DOMAIN branch =>
                           branch'[<<Trees!OwnTree(k), n>>] \subseteq {k} \cup branch'[recorded[Trees!KidTree(k)]]
    BY <1>1, <1>3, <1>4 DEF Based
  <2>1. k \in Workers /\ Trees!KidTree(k) \in Trees!Trees
    BY <1>0 DEF Based
  <2>2. Trees!KidTree(k) # t
    BY <1>3, <2>1
  <2>3. <<Trees!OwnTree(k), n>> = b => k = j
    BY <1>2
  <2> QED
    BY <1>0, <1>4, <1>5, <2>1, <2>2, <2>3 DEF Based
<1>10. Integrated'
  <2> SUFFICES ASSUME Trees!LeadIsPM, NEW r \in Repos, Through(Lead, r),
                      recorded[<<Lead, r>>] \in DOMAIN branch, policy[r] # "asis"
               PROVE  branch'[recorded[<<Lead, r>>]] \ excused \subseteq landed[r]
    BY <1>0, <1>1, <1>3, <1>4 DEF Integrated, Through
  <2>1. recorded[<<Lead, r>>] # b
    BY <1>3, <1>5
  <2> QED
    BY <1>0, <1>4, <2>1 DEF Integrated
<1>11. Kept'
  <2> SUFFICES ASSUME job[Lead] # "cancelled", NEW i \in wrote', i \notin excused
               PROVE  Holds(i)'
    BY <1>0, <1>1, <1>3 DEF Kept
  <2>1. CASE i \in wrote
    <3>1. Holds(i) /\ i \in Workers /\ i \in Trees!Jobs
      BY <1>0, <2>1 DEF Kept, Roles
    <3>2. Through(i, RepoOf[i])' => Through(i, RepoOf[i])
      BY <1>1 DEF Through
    <3>3. \A x \in DOMAIN branch : branch[x] \subseteq branch'[x]
      BY <1>4
    <3> QED
      BY <1>0, <1>1, <1>4, <3>1, <3>2, <3>3, StillHolds
  <2>2. CASE i = j
    <3>1. recorded[t] # Trees!NoBranch
      BY <1>0, <1>1, <1>2, <2>2 DEF OwnTrees
    <3>2. ~Through(j, RepoOf[j])'
      BY <1>1 DEF Through
    <3>3. j \in branch'[b] /\ head'[t] = b /\ b \in DOMAIN branch' /\ recorded'[t] # Trees!NoBranch
      BY <1>1, <1>2, <1>4, <3>1
    <3> QED
      BY <1>2, <2>2, <3>2, <3>3 DEF Holds
  <2> QED
    BY <1>1, <2>1, <2>2
<1> QED
  BY <1>6, <1>7, <1>8, <1>9, <1>10, <1>11 DEF BranchInv

\* A merge brings the work of a job into its target, and nothing of another branch.
LEMMA MergesKeep ==
  ASSUME WorkInv, Trees!Next, NEW j \in Trees!Jobs, NEW r \in Repos, Trees!MergeRepo(j, r)
  PROVE  BranchInv'
<1> USE TreesApart, TreeFacts
<1> DEFINE b == recorded[<<j, r>>]
           into == recorded[Trees!KidTree(j)]
           rest == merge[j].left \ {r}
<1>0. /\ UNCHANGED <<policy, leadRole, naming>> /\ TreeTypes /\ Roles
      /\ Named /\ Dispatched /\ OwnTrees /\ Begun /\ Based /\ Integrated /\ Kept /\ FilesThere
  BY ChoicesStay DEF WorkInv, BranchInv
<1>1. CASE /\ UNCHANGED <<branch, landed>> /\ excused' = excused
           /\ \/ Trees!KeepsBranch(j, r) /\ job' = job /\ merge' = [merge EXCEPT ![j].left = rest]
              \/ merge' = [merge EXCEPT ![j] = Trees!Idle]
                 /\ job' = IF job[j] = "merging" THEN [job EXCEPT ![j] = "active"] ELSE job
  BY <1>1, SkippedKeeps
<1>2. CASE /\ job' = job /\ merge' = [merge EXCEPT ![j].left = rest] /\ b \in DOMAIN branch
           /\ UNCHANGED <<head, files>> /\ ~Trees!KeepsBranch(j, r)
           /\ \/ /\ j \in Kids /\ into \in DOMAIN branch /\ landed' = landed
                 /\ branch' = [branch EXCEPT ![into] = branch[into] \cup branch[b]]
                 /\ excused' = IF job[Lead] \in {"merging", "done"} THEN excused \cup {j} ELSE excused
              \/ /\ j \notin Kids /\ landed' = [landed EXCEPT ![r] = landed[r] \cup branch[b]]
                 /\ branch' = branch /\ excused' = excused
  <2>1. UNCHANGED <<recorded, dispatch, making, wrote>> /\ merge[j].at = "merge" /\ r \in merge[j].left
    BY DEF Trees!MergeRepo
  <2>2. \A i \in Trees!Jobs : /\ merge'[i].at = merge[i].at
                              /\ merge'[i].left = IF i = j THEN rest ELSE merge[i].left
    <3>1. TreeTypes /\ j \in Trees!Jobs /\ rest \in SUBSET Repos /\ merge' = [merge EXCEPT ![j].left = rest]
      BY <1>0, <1>2 DEF TreeTypes
    <3> HIDE DEF rest
    <3> QED
      BY ONLY <3>1, MergeBecomes
  <2>3. /\ Workers' = Workers /\ (Trees!LeadIsPM' <=> Trees!LeadIsPM)
        /\ j \in Workers \/ (j = Lead /\ Trees!LeadIsPM)
        /\ j \in Workers => r = RepoOf[j] /\ <<j, r>> = Trees!OwnTree(j)
        /\ j \in Kids => j \in Workers /\ Trees!LeadIsPM
    <3>1. Workers' = Workers /\ (Trees!LeadIsPM' <=> Trees!LeadIsPM)
      BY <1>0 DEF Workers, Trees!LeadIsPM
    <3>2. j \in Workers \/ (j = Lead /\ Trees!LeadIsPM)
      BY <1>0, <2>1, WorkersStay DEF Roles, Trees!Idle
    <3>3. j \in Workers => r = RepoOf[j] /\ <<j, r>> = Trees!OwnTree(j)
      BY <1>0, <2>1 DEF Roles
    <3> QED
      BY <3>1, <3>2, <3>3
  <2>4. /\ <<j, r>> \in Trees!Trees /\ b = recorded[<<j, r>>] /\ into = recorded[Trees!KidTree(j)]
        /\ Trees!NoBranch \notin DOMAIN branch /\ b # Trees!NoBranch /\ b \in NamesOf(<<j, r>>) /\ b[1] = <<j, r>>
    BY <1>0, <1>2, <2>3, NamedApart
  <2> HIDE DEF b, into, rest
  <2>5. /\ DOMAIN branch' = DOMAIN branch
        /\ \A x \in DOMAIN branch : branch[x] \subseteq branch'[x]
        /\ \A x \in DOMAIN branch : (j \in Kids /\ x = into) \/ branch'[x] = branch[x]
        /\ \A q \in Repos : landed[q] \subseteq landed'[q]
        /\ excused \subseteq excused'
    <3>1. landed = [q \in Repos |-> landed[q]]
      BY <1>0 DEF TreeTypes, GitTypes
    <3>2. CASE j \in Kids
      <4>1. /\ branch' = [branch EXCEPT ![into] = branch[into] \cup branch[b]] /\ landed' = landed
            /\ excused \subseteq excused'
        BY <1>2, <3>2
      <4> QED
        BY ONLY <3>1, <3>2, <4>1
    <3>3. CASE j \notin Kids
      <4>1. landed' = [landed EXCEPT ![r] = landed[r] \cup branch[b]] /\ branch' = branch /\ excused' = excused
        BY <1>2, <3>3
      <4> QED
        BY ONLY <3>1, <3>3, <4>1
    <3> QED
      BY ONLY <3>2, <3>3
  <2>6. ASSUME j \in Kids
        PROVE  /\ into # Trees!NoBranch /\ into[1] = <<Lead, r>> /\ <<Lead, r>> = Trees!KidTree(j)
               /\ \A u \in Trees!Trees : u # <<Lead, r>> => recorded[u] # into /\ head[u] # into
    BY <1>0, <1>2, <2>3, <2>4, <2>6, NamedApart
  <2>7. \A i \in Trees!Jobs, q \in Repos : q # r \/ i # j => (Through(i, q)' => Through(i, q))
    BY <1>2, <2>2 DEF Through, rest
  <2>8. Named' /\ OwnTrees' /\ FilesThere'
    BY <1>0, <1>2, <2>1, <2>3, <2>5 DEF Named, NamesOf, OwnTrees, FilesThere, Trees!IntegrationTrees
  <2>9. Dispatched'
    BY <1>0, <1>2, <2>1, <2>5 DEF Dispatched, NamesOf
  <2>10. Begun'
    <3>1. ASSUME NEW u \in making PROVE u \in Trees!Trees /\ head[u] \in DOMAIN branch => branch'[head[u]] = branch[head[u]]
      <4>1. u \in Trees!Trees /\ recorded[u] = Trees!NoBranch
        BY <1>0 DEF Roles, Begun
      <4>2. j \in Kids => head[u] # into
        BY <2>4, <2>6, <4>1
      <4> QED
        BY <2>5, <4>1, <4>2
    <3>2. \A u \in making : u \in Trees!Trees /\ u[2] \in Repos
      BY <1>0 DEF Roles
    <3>3. \A q \in merge'[Lead].left : q \in merge[Lead].left
      BY <2>2 DEF rest
    <3> QED
      BY <1>0, <1>2, <2>1, <2>3, <2>5, <3>1, <3>2, <3>3 DEF Begun
  <2>11. Based'
    <3> SUFFICES ASSUME NEW k \in Kids, NEW n \in Trees!Names, <<Trees!OwnTree(k), n>> \in DOMAIN branch
                 PROVE  /\ k \in Workers /\ recorded[Trees!KidTree(k)] # Trees!NoBranch
                        /\ recorded[Trees!KidTree(k)] \in DOMAIN branch =>
                             branch'[<<Trees!OwnTree(k), n>>] \subseteq {k} \cup branch'[recorded[Trees!KidTree(k)]]
      BY <2>1, <2>3, <2>5 DEF Based
    <3>1. j \in Kids => <<Trees!OwnTree(k), n>> # into
      BY <2>6
    <3> QED
      BY <1>0, <2>5, <3>1 DEF Based
  <2>12. Integrated'
    <3> SUFFICES ASSUME Trees!LeadIsPM, NEW q \in Repos, Through(Lead, q)',
                        recorded[<<Lead, q>>] \in DOMAIN branch, policy[q] # "asis"
                 PROVE  branch'[recorded[<<Lead, q>>]] \ excused' \subseteq landed'[q]
      BY <1>0, <2>1, <2>3, <2>5 DEF Integrated
    <3>1. CASE j \in Kids /\ q = r
      <4>1. recorded[<<Lead, q>>] = into /\ Lead \in Trees!Jobs /\ Lead # j
        BY <2>6, <3>1 DEF into
      <4>2. Through(Lead, q)
        BY <2>7, <4>1
      <4>3. branch[into] \ excused \subseteq landed[q]
        BY <1>0, <4>1, <4>2 DEF Integrated
      <4>4. job[Lead] \in {"merging", "done"}
        BY <4>2 DEF Through
      <4>5. branch[b] \subseteq {j} \cup branch[into]
        <5>1. b = <<Trees!OwnTree(j), b[2]>> /\ b[2] \in Trees!Names
          BY <2>3, <2>4, <3>1 DEF NamesOf
        <5> QED
          BY <1>0, <1>2, <3>1, <5>1 DEF Based, into
      <4>6. branch'[into] = branch[into] \cup branch[b] /\ excused' = excused \cup {j} /\ landed' = landed
        BY <1>2, <3>1, <4>4
      <4> QED
        BY <4>1, <4>3, <4>5, <4>6
    <3>2. CASE j \in Kids /\ q # r
      <4>1. recorded[<<Lead, q>>] # into /\ Through(Lead, q)
        BY <2>6, <2>7, <3>2
      <4> QED
        BY <1>0, <2>5, <4>1 DEF Integrated
    <3>3. CASE j \notin Kids /\ q = r
      <4>1. recorded[<<Lead, q>>] = b /\ branch' = branch
        BY <1>2, <2>3, <2>4, <3>3
      <4>2. landed'[q] = landed[q] \cup branch[b]
        BY <1>0, <1>2, <3>3 DEF TreeTypes, GitTypes
      <4> QED
        BY <4>1, <4>2
    <3>4. CASE j \notin Kids /\ q # r
      BY <1>0, <2>5, <2>7, <3>4 DEF Integrated
    <3> QED
      BY <3>1, <3>2, <3>3, <3>4
  <2>13. Kept'
    <3> SUFFICES ASSUME job[Lead] # "cancelled", NEW i \in wrote, i \notin excused'
                 PROVE  Holds(i)'
      BY <1>0, <1>2, <2>1, <2>3 DEF Kept
    <3>1. Holds(i) /\ i \in Workers /\ i \in Trees!Jobs
      BY <1>0, <2>5 DEF Kept, Roles
    <3>2. CASE i # j
      <4>1. Through(i, RepoOf[i])' => Through(i, RepoOf[i])
        BY <2>7, <3>1, <3>2
      <4> QED
        BY <1>0, <1>2, <2>1, <2>5, <3>1, <4>1, StillHolds
    <3>3. CASE i = j
      <4>1. Merged(j)'
        <5>1. CASE job[j] = "done"
          <6>1. Merged(j)
            BY <1>2, <2>3, <3>1, <3>3, <5>1 DEF Holds, Through, Trees!AsIsWithoutPM, Trees!KeepsBranch, Trees!Target
          <6> QED
            BY <2>1, <2>5, <3>1, <3>3, <6>1 DEF Merged
        <5>2. CASE job[j] # "done"
          <6>1. head[Trees!OwnTree(j)] \in DOMAIN branch /\ j \in branch[head[Trees!OwnTree(j)]]
            BY <3>1, <3>3, <5>2 DEF Holds
          <6>2. head[Trees!OwnTree(j)] = b
            BY <1>0, <1>2, <2>3, <2>4, <3>1, <3>3, <6>1 DEF OwnTrees
          <6>3. j \in Kids => j \in branch'[into] /\ into \in DOMAIN branch'
            BY <1>2, <2>5, <6>1, <6>2
          <6>4. j \notin Kids => j \in landed'[r] /\ r = RepoOf[j]
            BY <1>0, <1>2, <2>3, <3>1, <3>3, <6>1, <6>2 DEF TreeTypes, GitTypes
          <6> QED
            BY <2>1, <2>4, <6>3, <6>4 DEF Merged
        <5> QED
          BY <5>1, <5>2
      <4>2. job'[j] # "done" => /\ head'[Trees!OwnTree(j)] \in DOMAIN branch'
                                /\ j \in branch'[head'[Trees!OwnTree(j)]]
                                /\ recorded'[Trees!OwnTree(j)] # Trees!NoBranch
        BY <1>2, <2>1, <2>5, <3>1, <3>3 DEF Holds
      <4> QED
        BY <3>3, <4>1, <4>2 DEF Holds
    <3> QED
      BY <3>2, <3>3
  <2> QED
    BY <2>8, <2>9, <2>10, <2>11, <2>12, <2>13 DEF BranchInv
<1> QED
  BY <1>1, <1>2 DEF Trees!MergeRepo, Trees!TreeOf, Trees!gitVars

\* The recovery of integration worktrees touches no branch and destroys no files.
LEMMA RecoverKeeps ==
  ASSUME WorkInv, Trees!Next, Trees!Recover
  PROVE  BranchInv'
<1> USE TreesApart, TreeFacts
<1>0. /\ UNCHANGED <<policy, leadRole, naming>> /\ TreeTypes /\ Roles
      /\ Named /\ Dispatched /\ OwnTrees /\ Begun /\ Based /\ Integrated /\ Kept /\ FilesThere
  BY ChoicesStay DEF WorkInv, BranchInv
<1>1. UNCHANGED <<recorded, job, dispatch, making, merge, wrote, excused, branch, landed>>
  BY DEF Trees!Recover, Trees!MoveAside, Trees!Reregister, Trees!MoveBack, Trees!Readd
<1>2. PICK t \in {Lead} \X Repos : Trees!MoveAside(t) \/ Trees!Reregister(t) \/ Trees!MoveBack(t) \/ Trees!Readd(t)
  BY DEF Trees!Recover
<1>3. t \in Trees!Trees /\ (t \in Trees!ToRecover \/ files[t] = "aside")
  BY <1>2 DEF Trees!MoveAside, Trees!Reregister, Trees!MoveBack, Trees!Readd
<1>4. t \in Trees!ToRecover => Trees!LeadIsPM /\ recorded[t] # Trees!NoBranch
  BY DEF Trees!ToRecover, Trees!IntegrationTrees
<1>5. /\ \A i \in Workers : Trees!OwnTree(i) # t
      /\ \A u \in making : u # t
  BY <1>0, <1>3, <1>4 DEF OwnTrees, Begun
<1>6. /\ \A u \in Trees!Trees : u # t => head'[u] = head[u] /\ files'[u] = files[u]
      /\ head'[t] \in {head[t], recorded[t], Trees!NoBranch} /\ files'[t] \in {"here", "aside"}
  <2>1. DOMAIN head = Trees!Trees /\ DOMAIN files = Trees!Trees
    BY <1>0 DEF TreeTypes, GitTypes
  <2> QED
    BY <1>2, <1>3, <2>1 DEF Trees!MoveAside, Trees!Reregister, Trees!MoveBack, Trees!Readd
<1>7. Workers' = Workers /\ (Trees!LeadIsPM' <=> Trees!LeadIsPM)
  BY <1>0 DEF Workers, Trees!LeadIsPM
<1>8. Named'
  <2>1. \A u \in Trees!Trees : {recorded'[u], head'[u]} \subseteq {Trees!NoBranch} \cup NamesOf(u)
    BY <1>0, <1>1, <1>6 DEF Named
  <2> QED
    BY <1>0, <2>1 DEF Named, NamesOf
<1>9. Dispatched'
  <2> SUFFICES ASSUME dispatch # <<>>
               PROVE  /\ dispatch[2] # Trees!NoBranch => dispatch[2] \in NamesOf(Trees!OwnTree(dispatch[1]))
                      /\ dispatch[2] \in DOMAIN branch =>
                           head'[Trees!OwnTree(dispatch[1])] \in {Trees!NoBranch, dispatch[2]}
    BY <1>0, <1>1 DEF Dispatched, NamesOf
  <2>1. dispatch[1] \in Trees!Jobs /\ Trees!OwnTree(dispatch[1]) \in Trees!Trees
    BY <1>0 DEF TreeTypes
  <2>2. dispatch[2] \in DOMAIN branch => dispatch[1] \in Workers
    BY <1>0, NamedApart DEF Roles
  <2> QED
    BY <1>0, <1>5, <1>6, <2>1, <2>2 DEF Dispatched
<1>10. OwnTrees'
  BY <1>0, <1>1, <1>5, <1>6, <1>7 DEF OwnTrees
<1>11. Begun'
  <2>1. \A u \in making : u \in Trees!Trees
    BY <1>0 DEF Roles
  <2> QED
    BY <1>0, <1>1, <1>5, <1>6, <1>7, <2>1 DEF Begun
<1>12. Based' /\ Integrated'
  BY <1>0, <1>1, <1>7 DEF Based, Integrated, Through
<1>13. Kept'
  <2> SUFFICES ASSUME job[Lead] # "cancelled", NEW i \in wrote, i \notin excused
               PROVE  Holds(i)'
    BY <1>0, <1>1, <1>7 DEF Kept
  <2>1. Holds(i) /\ i \in Workers /\ i \in Trees!Jobs
    BY <1>0 DEF Kept, Roles
  <2>2. Through(i, RepoOf[i])' => Through(i, RepoOf[i])
    BY <1>1 DEF Through
  <2>3. head'[Trees!OwnTree(i)] = head[Trees!OwnTree(i)]
    BY <1>5, <1>6, <2>1
  <2> QED
    BY <1>0, <1>1, <2>1, <2>2, <2>3, StillHolds
<1>14. FilesThere'
  <2>1. Trees!IntegrationTrees' = Trees!IntegrationTrees /\ Trees!IntegrationTrees \subseteq Trees!Trees
    BY <1>1, <1>7 DEF Trees!IntegrationTrees
  <2> QED
    BY <1>0, <1>1, <1>6, <2>1 DEF FilesThere
<1> QED
  BY <1>8, <1>9, <1>10, <1>11, <1>12, <1>13, <1>14 DEF BranchInv

\* WorkInv holds in every state.
LEMMA WorkCorrect == Spec => []WorkInv
<1>1. Init => WorkInv
  <2> SUFFICES ASSUME Init PROVE WorkInv
    OBVIOUS
  <2> USE TreesApart, TreeFacts
  <2>1. Trees!Init
    BY DEF Init
  <2>2. /\ wrote = {} /\ cleaning = {} /\ making = {} /\ dispatch = <<>>
        /\ \A j \in Trees!Jobs : merge[j] = Trees!Idle /\ job[j] = IF j = Lead THEN "queued" ELSE "none"
        /\ \A t \in Trees!Trees : recorded[t] = Trees!NoBranch /\ head[t] = Trees!NoBranch /\ files[t] = "none"
        /\ DOMAIN branch = {}
    BY <2>1 DEF Trees!Init
  <2>3. Roles /\ Stages
    BY <2>2 DEF Roles, Stages, Trees!Idle
  <2>4. Named /\ Dispatched /\ OwnTrees /\ Begun /\ Based /\ Integrated /\ Kept
    BY <2>2 DEF Named, Dispatched, OwnTrees, Begun, Based, Integrated, Kept, Trees!Idle
  <2>5. FilesThere
    BY <2>2 DEF FilesThere, Trees!IntegrationTrees
  <2>6. TreeTypes
    BY TreesStart
  <2> QED
    BY <2>3, <2>4, <2>5, <2>6 DEF WorkInv, BranchInv
<1>2. ASSUME WorkInv, UNCHANGED treeVars PROVE WorkInv'
  <2>1. UNCHANGED <<policy, leadRole, naming, job, crew, exiting, recorded, head, files, branch,
                    landed, dispatch, making, merge, cleaning, boot, lostTrees, wrote, excused, treeEvents>>
    BY <1>2 DEF treeVars
  <2>2. TreeTypes' /\ Roles' /\ Stages'
    BY <1>2, <2>1 DEF WorkInv, TreeTypes, GitTypes, Roles, Stages, Workers, Trees!LeadIsPM
  <2>3. Named' /\ Dispatched' /\ OwnTrees' /\ Begun' /\ Based' /\ Integrated' /\ Kept' /\ FilesThere'
    BY <1>2, <2>1 DEF WorkInv, BranchInv, Named, NamesOf, Dispatched, OwnTrees, Begun, Based, Integrated,
       Through, Kept, Holds, Merged, FilesThere, Workers, Trees!LeadIsPM, Trees!IntegrationTrees, Trees!AsIsWithoutPM
  <2> QED
    BY <2>2, <2>3 DEF WorkInv, BranchInv
<1>3. ASSUME WorkInv, Trees!Next PROVE WorkInv'
  <2>1. TreeTypes' /\ Roles' /\ Stages'
    BY <1>3, TreesKeepTypes, RolesKept, StagesKept DEF WorkInv
  <2>2. BranchInv'
    <3>1. CASE Trees!JobStep
      <4>1. PICK j \in Trees!Jobs :
              \/ Calm(j) \/ Trees!Assign(j) \/ Trees!Commits(j)
              \/ \E r \in Repos : Trees!MergeRepo(j, r) \/ Trees!CleanRepo(j, r)
              \/ \E s \in {"done", "cancelled"} : Trees!CleanTerminal(j, s)
        BY <3>1 DEF Trees!JobStep, Calm
      <4> QED
        BY <1>3, <4>1, CalmKeeps, AssignKeeps, CommitsKeep, MergesKeep, CleanersKeep
    <3>2. CASE Trees!AssignRecords
      BY <1>3, <3>2, AssignRecordsKeeps
    <3>3. CASE Trees!PMStep
      BY <1>3, <3>3, StartsKeep, MakeKeeps, RecordKeeps DEF Trees!PMStep
    <3>4. CASE Trees!BootStep
      BY <1>3, <3>4, StartsKeep, RecoverKeeps, CleanersKeep DEF Trees!BootStep
    <3> QED
      BY <1>3, <3>1, <3>2, <3>3, <3>4 DEF Trees!Next
  <2> QED
    BY <2>1, <2>2 DEF WorkInv
<1>4. WorkInv /\ [Next]_vars => WorkInv'
  BY <1>2, <1>3, TreesMove
<1> QED
  BY <1>1, <1>4, PTL DEF Spec

\* What a worker committed is in its repository or on a branch until its job is
\* cancelled, and an integration worktree's files are there as long as its product
\* manager's job is not over: no merge, conflict, clean-up, restart or requeue of any
\* number of children in any number of repositories loses them, but for the branch of
\* a done as-is job without a product manager and the races that `excused` names.
LEMMA WorkKept ==
  ASSUME WorkInv
  PROVE  Trees!WorkIsKept
<1> USE TreesApart, TreeFacts DEF WorkInv, BranchInv
<1>1. Trees!CommitsAreKept
  <2> SUFFICES ASSUME job[Lead] # "cancelled", NEW j \in wrote, j \notin excused
               PROVE  Trees!HasWork(j) \/ (Trees!AsIsWithoutPM(j) /\ job[j] = "done")
    BY DEF Trees!CommitsAreKept
  <2>1. Holds(j)
    BY DEF Kept
  <2> QED
    BY <2>1 DEF Holds, Through, Merged, Trees!HasWork
<1>2. Trees!FilesAreKept
  BY DEF FilesThere, Trees!FilesAreKept, Trees!Terminal
<1> QED
  BY <1>1, <1>2 DEF Trees!WorkIsKept

\* The branch name that a namer was told is accepted is the one the job gets, and no
\* merge, clean-up, restart or requeue loses the work on a branch or the files of an
\* integration worktree but in the cases that CommitsAreKept names, for every number
\* of jobs, repositories, names and events.
THEOREM BranchesKept == Spec => []BranchesAreKept
<1>1. WorkInv => (part = "trees" => Trees!WorkIsKept)
  BY WorkKept
<1>2. (part = "namer" => Namer!AcceptedNameIsUsed) /\ (part = "trees" => Trees!WorkIsKept)
      => BranchesAreKept
  BY DEF BranchesAreKept
<1> QED
  BY WorkCorrect, NameKept, <1>1, <1>2, PTL
=============================================================================
