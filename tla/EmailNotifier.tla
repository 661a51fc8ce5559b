--------------------------- MODULE EmailNotifier ---------------------------
(***************************************************************************)
(* The email channel, web_checker/notifications/email.py, inside the worker *)
(* process that uses it.  send runs the SMTP conversation in a thread and  *)
(* awaits it; cancelling the task that awaits does not stop the thread.    *)
(* What the server answers, and smtplib's reading of it, are external: a   *)
(* step of the conversation succeeds, is refused, or times out.            *)
(***************************************************************************)
EXTENDS FiniteSets

CONSTANTS
    Tasks,          \* the executions of the worker that dispatch at the same time
    Recipients,     \* WEB_CHECKER_SMTP_TO
    Securities      \* the values WEB_CHECKER_SMTP_SECURITY may have

VARIABLES
    settings,       \* SMTPSettings: security, and whether there are credentials
    process,        \* the worker: running, stopping, or gone
    awaiting,       \* the tasks that await their thread
    thread,         \* where the conversation of a thread is, "none" without one
    reached,        \* the recipients the server accepted its message for
    verdict,        \* how the thread ended
    result          \* how the last send of a task ended

conversation == <<thread, reached, verdict>>
vars == <<settings, process, awaiting, conversation, result>>

Stages == {"connect", "starttls", "login", "message", "quit", "lost"}
SMTPSettings == [security : Securities, credentials : BOOLEAN]

-----------------------------------------------------------------------------
Init ==
    /\ settings \in SMTPSettings
    /\ process = "running"
    /\ awaiting = {}
    /\ thread = [t \in Tasks |-> "none"]
    /\ reached = [t \in Tasks |-> {}]
    /\ verdict = [t \in Tasks |-> "none"]
    /\ result = [t \in Tasks |-> "none"]

(* asyncio.to_thread(_send_message). *)
Send(t) ==
    /\ process = "running"
    /\ t \notin awaiting /\ thread[t] = "none"
    /\ awaiting' = awaiting \cup {t}
    /\ thread' = [thread EXCEPT ![t] = "connect"]
    /\ result' = [result EXCEPT ![t] = "none"]
    /\ UNCHANGED <<settings, process, reached, verdict>>

(* The task goes on with what the thread returned or raised. *)
Ended(t) ==
    /\ thread' = [thread EXCEPT ![t] = "none"]
    /\ reached' = [reached EXCEPT ![t] = {}]
    /\ verdict' = [verdict EXCEPT ![t] = "none"]

Resume(t) ==
    /\ t \in awaiting /\ verdict[t] # "none"
    /\ awaiting' = awaiting \ {t}
    /\ result' = [result EXCEPT ![t] = verdict[t]]
    /\ Ended(t)
    /\ UNCHANGED <<settings, process>>

(* Nobody awaits it: what the thread returned or raised is lost. *)
Collect(t) ==
    /\ t \notin awaiting /\ verdict[t] # "none"
    /\ Ended(t)
    /\ UNCHANGED <<settings, process, awaiting, result>>

-----------------------------------------------------------------------------
(* _send_message, in its thread. *)

At(t, stage) == thread[t] = stage /\ verdict[t] = "none"

Proceeds(t, stage) ==
    /\ thread' = [thread EXCEPT ![t] = stage]
    /\ UNCHANGED <<settings, process, awaiting, verdict, result>>

Finishes(t, how) ==
    /\ verdict' = [verdict EXCEPT ![t] = how]
    /\ UNCHANGED <<settings, process, awaiting, thread, reached, result>>

LoginOrMessage == IF settings.credentials THEN "login" ELSE "message"

Connect(t) ==
    /\ At(t, "connect")
    /\ Proceeds(t, IF settings.security = "starttls" THEN "starttls" ELSE LoginOrMessage)
    /\ UNCHANGED reached

StartTls(t) == At(t, "starttls") /\ Proceeds(t, LoginOrMessage) /\ UNCHANGED reached

Login(t) == At(t, "login") /\ Proceeds(t, "message") /\ UNCHANGED reached

(* send_message returns when the server took the message for one recipient *)
(* at least; those it refused are in the result, which is not looked at.   *)
(* The reply to the message may be lost when the server has taken it.      *)
Takes(t, recipients) == reached' = [reached EXCEPT ![t] = recipients]

(* Mutant: a message that every recipient refuses counts as sent. *)
SendMessageToNobody(t) ==
    /\ At(t, "message")
    /\ \E taken \in SUBSET Recipients : Takes(t, taken)
    /\ \E stage \in {"quit", "lost"} : Proceeds(t, stage)

SendMessage(t) ==
    /\ At(t, "message")
    /\ \E taken \in (SUBSET Recipients) \ {{}} : Takes(t, taken)
    /\ \E stage \in {"quit", "lost"} : Proceeds(t, stage)

(* Leaving the with statement.  A connection that is lost here is ignored. *)
Quit(t) == At(t, "quit") /\ Finishes(t, "sent")

(* A step is refused or times out, or QUIT gets another reply than 221. *)
Raises(t) == (\E stage \in Stages : At(t, stage)) /\ Finishes(t, "raised")

Conversation(t) ==
    \/ Connect(t) \/ StartTls(t) \/ Login(t) \/ SendMessage(t) \/ Quit(t) \/ Raises(t)

-----------------------------------------------------------------------------
(* The worker is told to stop: every task is cancelled, and the process    *)
(* waits for the threads, which asyncio.run joins.                         *)
Stop ==
    /\ process = "running"
    /\ process' = "stopping"
    /\ awaiting' = {}
    /\ UNCHANGED <<settings, conversation, result>>

Exit ==
    /\ process = "stopping" /\ \A t \in Tasks : thread[t] = "none"
    /\ process' = "gone"
    /\ UNCHANGED <<settings, awaiting, conversation, result>>

Kill ==
    /\ process # "gone"
    /\ process' = "gone"
    /\ awaiting' = {}
    /\ thread' = [t \in Tasks |-> "none"]
    /\ reached' = [t \in Tasks |-> {}]
    /\ verdict' = [t \in Tasks |-> "none"]
    /\ UNCHANGED <<settings, result>>

Restart ==
    /\ process = "gone"
    /\ process' = "running"
    /\ settings' \in SMTPSettings
    /\ UNCHANGED <<awaiting, conversation, result>>

Next ==
    \/ \E t \in Tasks : Send(t) \/ Conversation(t) \/ Resume(t) \/ Collect(t)
    \/ Stop \/ Exit \/ Kill \/ Restart

Spec == Init /\ [][Next]_vars

(* Every operation on the socket has a timeout, and a ready task runs. *)
Fairness == \A t \in Tasks : WF_vars(Conversation(t)) /\ WF_vars(Resume(t))
FairSpec == Spec /\ Fairness

-----------------------------------------------------------------------------
(* Every variable has its type, and a task awaits a thread that exists. *)
TypeOK ==
    /\ settings \in SMTPSettings
    /\ process \in {"running", "stopping", "gone"}
    /\ awaiting \in SUBSET Tasks
    /\ thread \in [Tasks -> Stages \cup {"none"}]
    /\ reached \in [Tasks -> SUBSET Recipients]
    /\ verdict \in [Tasks -> {"none", "sent", "raised"}]
    /\ result \in [Tasks -> {"none", "sent", "raised"}]
    /\ \A t \in awaiting : thread[t] # "none"

Place(t) ==
    IF thread[t] = "none" THEN "none"
    ELSE IF t \in awaiting THEN IF reached[t] = {} THEN "open" ELSE "accepted"
    ELSE IF reached[t] = {} THEN "left" ELSE "left accepted"

(* The email channel keeps the contract the dispatcher relies on: a send   *)
(* that returns was accepted, once; one that raises may have been accepted,*)
(* when the reply is lost or QUIT is refused; a cancelled one may still be *)
(* accepted while the process exits; and every send ends.                  *)
Abstract == INSTANCE Channel WITH call <- [t \in Tasks |-> Place(t)], result <- result
KeepsChannelContract == Abstract!Contract

=============================================================================
