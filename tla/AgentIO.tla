------------------------------ MODULE AgentIO ------------------------------
(* What reaches one agent: mail, which wakes its `omo wait` or is announced *)
(* in its terminal, and the inputs that others type into it.  Automated     *)
(* input keeps out of the way of a user who is typing in the same terminal. *)
EXTENDS Naturals, Sequences, FiniteSets

CONSTANTS Requests,     \* calls of agent.input
          NoRequest,
          MaxMail,      \* messages sent
          MaxEvents     \* what users do, waits, timeouts, reloads

VARIABLES
  terminal,     \* sessions[agent]: starting, up, ended (watchExit to come), gone
  unread,       \* unread rows of the agent in messages
  notifiers,    \* Sends that committed and are about to call Notify
  told,         \* the agent knows that its inbox is not empty
  missed,       \* a notice was lost: no session yet, or a wait that was leaving
  wait,         \* the handler of wait: idle, registered, blocked, leaving
  waiter,       \* waiters[agent] is its channel
  token,        \* what the channel of that handler holds
  pendingMail,  \* pendingMailNotification[agent]
  mailFlush,    \* a goroutine or a timer is about to run flushMailNotification
  pendingInput, \* pendingAgentInput[agent]
  flushing,     \* agentInputFlushing[agent]
  inputFlush,   \* a goroutine is at the top of flushAgentInput
  inputTimer,   \* agentInputTimers[agent] is set
  sending,      \* the input that a flush took from the queue
  step,         \* and how far that is: none, taken, written, held, failed
  screen,       \* the inputs the session has received
  answers,      \* how often each caller was answered
  typing,       \* the user sits at the agent's terminal
  recent,       \* and typed within the debounce
  debounce,     \* notifications.input_debounce > 0
  mails,        \* messages sent so far
  events        \* events so far

mailVars == <<unread, notifiers, told, missed, mails>>
waitVars == <<wait, waiter, token>>
noticeVars == <<pendingMail, mailFlush>>
inputVars == <<pendingInput, flushing, inputFlush, inputTimer, sending, step,
               screen, answers>>
userVars == <<typing, recent, debounce>>
vars == <<terminal, mailVars, waitVars, noticeVars, inputVars, userVars, events>>

TypeOK ==
  /\ terminal \in {"starting", "up", "ended", "gone"}
  /\ unread \in 0 .. MaxMail /\ notifiers \in 0 .. MaxMail
  /\ mails \in 0 .. MaxMail /\ events \in 0 .. MaxEvents
  /\ {told, missed, waiter, token, pendingMail, mailFlush, flushing, inputFlush,
      inputTimer, typing, recent, debounce} \subseteq BOOLEAN
  /\ wait \in {"idle", "registered", "blocked", "leaving"}
  /\ pendingInput \in Seq(Requests) /\ screen \in Seq(Requests)
  /\ sending \in Requests \cup {NoRequest}
  /\ step \in {"none", "taken", "written", "held", "failed"}
  /\ answers \in [Requests -> 0 .. 2]

Init ==
  /\ terminal = "starting"
  /\ unread = 0 /\ notifiers = 0 /\ told = FALSE /\ missed = FALSE /\ mails = 0
  /\ wait = "idle" /\ waiter = FALSE /\ token = FALSE
  /\ pendingMail = FALSE /\ mailFlush = FALSE
  /\ pendingInput = <<>> /\ flushing = FALSE /\ inputFlush = FALSE
  /\ inputTimer = FALSE /\ sending = NoRequest /\ step = "none"
  /\ screen = <<>> /\ answers = [r \in Requests |-> 0]
  /\ typing = FALSE /\ recent = FALSE /\ debounce = TRUE
  /\ events = 0

Event == events < MaxEvents /\ events' = events + 1
Delayed == typing /\ debounce /\ recent     \* inputDebounceDelayLocked > 0
InSeq(s) == {s[i] : i \in DOMAIN s}

-----------------------------------------------------------------------------
(* Mail                                                                     *)

(* Send, for this recipient: one transaction; only the first unread message *)
(* is notified, after the commit.                                           *)
Send ==
  /\ mails < MaxMail /\ mails' = mails + 1
  /\ unread' = unread + 1
  /\ notifiers' = IF unread = 0 THEN notifiers + 1 ELSE notifiers
  /\ told' = (told /\ unread > 0)
  /\ UNCHANGED <<terminal, missed, waitVars, noticeVars, inputVars, userVars, events>>

(* DeliverMailNotification, for this recipient.                             *)
Deliver ==
  /\ notifiers > 0 /\ notifiers' = notifiers - 1
  /\ \/ /\ waiter
        /\ token' = TRUE
        /\ UNCHANGED <<noticeVars, missed>>
     \/ /\ ~waiter /\ terminal \in {"up", "ended"}
        /\ pendingMail' = TRUE /\ mailFlush' = TRUE
        /\ UNCHANGED <<token, missed>>
     \/ /\ ~waiter /\ terminal \in {"starting", "gone"}
        /\ missed' = TRUE
        /\ UNCHANGED <<token, noticeVars>>
  /\ UNCHANGED <<terminal, unread, told, mails, wait, waiter, inputVars, userVars, events>>

(* Mutation: a message that was read before is counted again.               *)
ReadAgain ==
  /\ unread' = unread - 1
  /\ UNCHANGED <<terminal, notifiers, told, missed, mails, waitVars, noticeVars,
                 inputVars, userVars, events>>

Read ==
  /\ unread > 0 /\ unread' = unread - 1
  /\ told' = (told /\ unread > 1)
  /\ missed' = (missed /\ unread > 1)
  /\ UNCHANGED <<terminal, notifiers, mails, waitVars, noticeVars, inputVars, userVars,
                 events>>

(* Mutation: a notice that is held back is not tried again.                 *)
NoticeOnce ==
  /\ mailFlush /\ mailFlush' = FALSE
  /\ \/ /\ pendingMail /\ unread > 0 /\ ~Delayed
        /\ pendingMail' = (terminal = "gone")
        /\ told' = (terminal = "up" \/ told)
     \/ /\ ~(pendingMail /\ unread > 0 /\ ~Delayed)
        /\ pendingMail' = (pendingMail /\ unread > 0)
        /\ UNCHANGED told
  /\ UNCHANGED <<terminal, unread, notifiers, missed, mails, waitVars, inputVars,
                 userVars, events>>

(* flushMailNotification up to the prompt it types, which waits for the     *)
(* session's input lock and nothing else.                                   *)
Notice ==
  /\ mailFlush
  /\ \/ /\ pendingMail /\ unread > 0 /\ Delayed
        /\ UNCHANGED <<noticeVars, told>>              \* AfterFunc: it comes back
     \/ /\ ~pendingMail \/ unread = 0
        /\ pendingMail' = FALSE /\ mailFlush' = FALSE
        /\ UNCHANGED told
     \/ /\ pendingMail /\ unread > 0 /\ ~Delayed
        /\ mailFlush' = FALSE
        /\ pendingMail' = (terminal = "gone")          \* sessions[agent] is nil
        /\ told' = (terminal = "up" \/ told)
  /\ UNCHANGED <<terminal, unread, notifiers, missed, mails, waitVars, inputVars,
                 userVars, events>>

-----------------------------------------------------------------------------
(* waitVerb                                                                 *)

(* It registers before it looks into the inbox.                             *)
WaitBegins ==
  /\ terminal = "up" /\ wait = "idle" /\ ~waiter /\ Event
  /\ wait' = "registered" /\ waiter' = TRUE /\ token' = FALSE
  /\ UNCHANGED <<terminal, mailVars, noticeVars, inputVars, userVars>>

(* Mutation: the inbox is not looked into.                                  *)
WaitBlocksBlindly ==
  /\ wait = "registered" /\ wait' = "blocked"
  /\ UNCHANGED <<terminal, mailVars, waiter, token, noticeVars, inputVars, userVars,
                 events>>

WaitBlocks ==
  /\ wait = "registered" /\ wait' = "blocked"
  /\ token' = (token \/ unread > 0)
  /\ UNCHANGED <<terminal, mailVars, waiter, noticeVars, inputVars, userVars, events>>

WaitWakes ==
  /\ wait = "blocked" /\ token
  /\ wait' = "leaving" /\ token' = FALSE
  /\ told' = (told \/ unread > 0)
  /\ UNCHANGED <<terminal, unread, notifiers, missed, mails, waiter, noticeVars,
                 inputVars, userVars, events>>

WaitTimesOut ==
  /\ wait = "blocked" /\ Event
  /\ wait' = "leaving"
  /\ UNCHANGED <<terminal, mailVars, waiter, token, noticeVars, inputVars, userVars>>

(* The deferred delete; what is still in the channel is dropped with it.    *)
WaitLeaves ==
  /\ wait = "leaving"
  /\ wait' = "idle" /\ waiter' = FALSE /\ token' = FALSE
  /\ missed' = (missed \/ (token /\ unread > 0))
  /\ UNCHANGED <<terminal, unread, notifiers, told, mails, noticeVars, inputVars,
                 userVars, events>>

(* WakeAgent: a supervisor's release.                                       *)
Release ==
  /\ waiter /\ ~token /\ Event
  /\ token' = TRUE
  /\ UNCHANGED <<terminal, mailVars, wait, waiter, noticeVars, inputVars, userVars>>

-----------------------------------------------------------------------------
(* agent.input                                                              *)

Accept(r) ==
  /\ terminal \in {"up", "ended"}
  /\ answers[r] = 0 /\ r \notin InSeq(pendingInput) \cup {sending}
  /\ pendingInput' = Append(pendingInput, r)
  /\ inputFlush' = TRUE
  /\ UNCHANGED <<terminal, mailVars, waitVars, noticeVars, flushing, inputTimer, sending,
                 step, screen, answers, userVars, events>>

(* The top of the loop of flushAgentInput.                                  *)
FlushEmpty ==
  /\ inputFlush /\ pendingInput = <<>>
  /\ inputFlush' = FALSE /\ flushing' = FALSE
  /\ UNCHANGED <<terminal, mailVars, waitVars, noticeVars, pendingInput, inputTimer,
                 sending, step, screen, answers, userVars, events>>

FlushBusy ==
  /\ inputFlush /\ pendingInput # <<>> /\ flushing
  /\ inputFlush' = FALSE
  /\ UNCHANGED <<terminal, mailVars, waitVars, noticeVars, pendingInput, flushing,
                 inputTimer, sending, step, screen, answers, userVars, events>>

(* Mutation: the timer is not set.                                          *)
FlushForgets ==
  /\ inputFlush /\ pendingInput # <<>> /\ ~flushing /\ Delayed
  /\ inputFlush' = FALSE
  /\ UNCHANGED <<terminal, mailVars, waitVars, noticeVars, pendingInput, flushing,
                 inputTimer, sending, step, screen, answers, userVars, events>>

FlushDelayed ==
  /\ inputFlush /\ pendingInput # <<>> /\ ~flushing /\ Delayed
  /\ inputFlush' = FALSE /\ inputTimer' = TRUE
  /\ UNCHANGED <<terminal, mailVars, waitVars, noticeVars, pendingInput, flushing,
                 sending, step, screen, answers, userVars, events>>

(* Mutation: two flushes may send at once.                                  *)
FlushTakesAnyway ==
  /\ inputFlush /\ pendingInput # <<>> /\ ~Delayed /\ step = "none"
  /\ inputFlush' = FALSE /\ inputTimer' = FALSE /\ flushing' = FALSE
  /\ sending' = Head(pendingInput) /\ step' = "taken"
  /\ UNCHANGED <<terminal, mailVars, waitVars, noticeVars, pendingInput, screen, answers,
                 userVars, events>>

FlushTakes ==
  /\ inputFlush /\ pendingInput # <<>> /\ ~flushing /\ ~Delayed
  /\ inputFlush' = FALSE /\ inputTimer' = FALSE /\ flushing' = TRUE
  /\ sending' = Head(pendingInput) /\ step' = "taken"
  /\ UNCHANGED <<terminal, mailVars, waitVars, noticeVars, pendingInput, screen, answers,
                 userVars, events>>

(* SendTextAndKeysIf has the session's input lock and asks again whether    *)
(* the session is the current one and the user is quiet.                    *)
Write ==
  /\ step = "taken"
  /\ \/ /\ terminal \in {"up", "ended"} /\ Delayed
        /\ step' = "held" /\ UNCHANGED screen
     \/ /\ terminal \in {"up", "ended"} /\ ~Delayed
        /\ step' = "written" /\ screen' = Append(screen, sending)
     \/ /\ \/ terminal = "gone"
           \/ terminal = "ended" /\ ~Delayed         \* the write fails
        /\ step' = "failed" /\ UNCHANGED screen
  /\ UNCHANGED <<terminal, mailVars, waitVars, noticeVars, pendingInput, flushing,
                 inputFlush, inputTimer, sending, answers, userVars, events>>

IsHead == pendingInput # <<>> /\ Head(pendingInput) = sending

(* The user was typing: the input stays where it is, or the session ended   *)
(* meanwhile and nobody else will answer its caller.                        *)
PutBack ==
  /\ step = "held" /\ step' = "none" /\ sending' = NoRequest
  /\ \/ /\ IsHead
        /\ flushing' = FALSE /\ inputFlush' = TRUE
        /\ UNCHANGED answers
     \/ /\ ~IsHead
        /\ answers' = [answers EXCEPT ![sending] = @ + 1]
        /\ UNCHANGED <<flushing, inputFlush>>
  /\ UNCHANGED <<terminal, mailVars, waitVars, noticeVars, pendingInput, inputTimer,
                 screen, userVars, events>>

(* The end of the loop: the input leaves the queue and is answered.         *)
Finish ==
  /\ step \in {"written", "failed"}
  /\ step' = "none" /\ sending' = NoRequest
  /\ pendingInput' = IF IsHead THEN Tail(pendingInput) ELSE pendingInput
  /\ flushing' = FALSE /\ inputFlush' = TRUE
  /\ answers' = [answers EXCEPT ![sending] = @ + 1]
  /\ UNCHANGED <<terminal, mailVars, waitVars, noticeVars, inputTimer, screen, userVars,
                 events>>

TimerFires ==
  /\ inputTimer /\ ~Delayed
  /\ inputTimer' = FALSE /\ inputFlush' = TRUE
  /\ UNCHANGED <<terminal, mailVars, waitVars, noticeVars, pendingInput, flushing,
                 sending, step, screen, answers, userVars, events>>

-----------------------------------------------------------------------------
(* The session                                                              *)

Registered ==
  /\ terminal = "starting" /\ terminal' = "up"
  /\ UNCHANGED <<mailVars, waitVars, noticeVars, inputVars, userVars, events>>

Ends ==
  /\ terminal = "up" /\ terminal' = "ended"
  /\ UNCHANGED <<mailVars, waitVars, noticeVars, inputVars, userVars, events>>

(* Mutation: watchExit answers the input that a flush has taken as well.    *)
AbandonedAll == pendingInput

(* The inputs that watchExit answers: all but the one a flush has taken.    *)
Abandoned == IF flushing /\ pendingInput # <<>> THEN Tail(pendingInput)
                                                ELSE pendingInput

(* The part of watchExit that forgets the session.                          *)
WatchExit ==
  /\ terminal = "ended" /\ terminal' = "gone"
  /\ waiter' = FALSE /\ pendingMail' = FALSE
  /\ pendingInput' = <<>> /\ inputTimer' = FALSE /\ flushing' = FALSE
  /\ answers' = [r \in Requests |->
                   answers[r] + IF r \in InSeq(Abandoned) THEN 1 ELSE 0]
  /\ UNCHANGED <<mailVars, wait, token, mailFlush, inputFlush, sending, step, screen,
                 userVars, events>>

-----------------------------------------------------------------------------
(* The user                                                                 *)

(* RecordUserInput                                                          *)
Types ==
  /\ typing /\ ~recent /\ Event
  /\ recent' = TRUE
  /\ UNCHANGED <<terminal, mailVars, waitVars, noticeVars, inputVars, typing, debounce>>

Pauses ==
  /\ recent /\ recent' = FALSE
  /\ UNCHANGED <<terminal, mailVars, waitVars, noticeVars, inputVars, typing, debounce,
                 events>>

(* SetInteraction: leaving a terminal releases what was held back.          *)
Sits ==
  /\ Event /\ typing' = ~typing
  /\ mailFlush' = (mailFlush \/ typing) /\ inputFlush' = (inputFlush \/ typing)
  /\ UNCHANGED <<terminal, mailVars, waitVars, pendingMail, pendingInput, flushing,
                 inputTimer, sending, step, screen, answers, recent, debounce>>

(* replaceConfig: timers of the old debounce are stopped.                   *)
Reload ==
  /\ Event /\ debounce' = ~debounce
  /\ inputTimer' = (inputTimer /\ pendingInput = <<>>)
  /\ inputFlush' = (inputFlush \/ pendingInput # <<>>)
  /\ mailFlush' = (mailFlush \/ pendingMail)
  /\ UNCHANGED <<terminal, mailVars, waitVars, pendingMail, pendingInput, flushing,
                 sending, step, screen, answers, typing, recent>>

-----------------------------------------------------------------------------
FlushStep == FlushEmpty \/ FlushBusy \/ FlushDelayed \/ FlushTakes
WaitStep == WaitBlocks \/ WaitWakes \/ WaitLeaves
MailStep == \/ Send \/ Deliver \/ Read \/ Notice
            \/ WaitBegins \/ WaitStep \/ WaitTimesOut \/ Release
InputStep == \/ \E r \in Requests : Accept(r)
             \/ FlushStep \/ Write \/ PutBack \/ Finish \/ TimerFires
SessionStep == Registered \/ Ends \/ WatchExit
UserStep == Types \/ Pauses \/ Sits \/ Reload

Next == MailStep \/ InputStep \/ SessionStep \/ UserStep

Fairness == /\ WF_vars(Deliver) /\ WF_vars(Notice) /\ WF_vars(WaitStep)
            /\ WF_vars(FlushStep)
            /\ WF_vars(Write) /\ WF_vars(PutBack) /\ WF_vars(Finish)
            /\ WF_vars(TimerFires) /\ WF_vars(WatchExit) /\ WF_vars(Pauses)

Spec == Init /\ [][Next]_vars /\ Fairness

-----------------------------------------------------------------------------
(* A wait that is blocked although mail is unread has been signalled or is  *)
(* about to be (the order of waitVerb against the order of Send).           *)
SleeperIsWoken ==
  wait = "blocked" /\ waiter /\ unread > 0 => token \/ notifiers > 0

(* An agent learns that it has unread mail, unless the notice was lost.     *)
MailIsNoticed == []<>(unread > 0 /\ terminal = "up" => told \/ missed)

(* The queue of inputs implements the promise of agent.input; nobody is     *)
(* answered twice, where the second answer would block the goroutine that   *)
(* gives it, as the channel holds one. An input that                        *)
(* a flush has taken is waiting until it is typed, whatever became of the   *)
(* queue.                                                                   *)
Waiting ==
  CASE step = "written" /\ IsHead -> Tail(pendingInput)
    [] step \in {"taken", "held", "failed"} /\ ~IsHead -> <<sending>> \o pendingInput
    [] OTHER -> pendingInput

FIFO == INSTANCE InputFIFO WITH waiting <- Waiting, typed <- screen
InputsInOrder == FIFO!Spec

(* Every accepted input is answered: none stays queued, taken or typed       *)
(* without its answer for ever.                                             *)
InputsAnswered ==
  \A r \in Requests :
    []<>(r \in InSeq(pendingInput) \cup {sending} \cup InSeq(screen) => answers[r] > 0)
=============================================================================
