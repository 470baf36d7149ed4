---------------------------- MODULE AlertDispatch ----------------------------
(***************************************************************************)
(* The job dispatch_alerts (server/app/jobs/alerts.py) beside the requests *)
(* of Projects, which create, switch and delete the channels it notifies.  *)
(*                                                                         *)
(* A send runs in a thread (asyncio.to_thread).  Cancelling the job does   *)
(* not stop the thread: it may go on posting while a retry of the job      *)
(* starts over.  One issue raises one alert here.                          *)
(***************************************************************************)
EXTENDS Projects

CONSTANTS
    Alerted,            \* the issue that is new or came back
    ChannelType,        \* [Channels -> {"email", "slack", "webhook"}]
    Explicit,           \* email channels with a "to" list of their own
    smtp_is_configured,
    HTTP_ATTEMPTS,
    MaxTries            \* func(dispatch_alerts, max_tries=2)

ASSUME AlertAssumption ==
    /\ Alerted \in Issues
    /\ ChannelType \in [Channels -> {"email", "slack", "webhook"}]
    /\ Explicit \subseteq {c \in Channels : ChannelType[c] = "email"}
    /\ smtp_is_configured \in BOOLEAN
    /\ HTTP_ATTEMPTS \in Nat \ {0} /\ MaxTries \in Nat \ {0}
    /\ \A q \in Plans : q.tries \in 0 .. MaxTries

VARIABLES
    alert,      \* "none", "queued", "roster", "sending", "done", "failed"
    try,        \* tries started, or about to start
    loaded,     \* channels the current try selected
    roster,     \* members it read for channels without a "to" list
    outcome,    \* [Channels -> {"none", "delivered", "failed", "skipped"}]
    sends,      \* running threads, as [try, channel, left]
    notices,    \* [Channels -> Nat], notifications that arrived
    troubles,   \* [Channels -> Nat], attempts that raised
    broken,     \* history: sends an exception ended before their attempts were up
    since       \* length of the audit log when the job was enqueued

history == <<notices, troubles, broken>>
jobVars == <<alert, try, loaded, roster, outcome, sends, history, since>>
vars == <<orgVars, jobVars>>

NoOutcome == [c \in Channels |-> "none"]

Init ==
    /\ OrgInit
    /\ alert = "none" /\ try = 1
    /\ loaded = {} /\ roster = {}
    /\ outcome = NoOutcome
    /\ sends = {}
    /\ notices = [c \in Channels |-> 0]
    /\ troubles = [c \in Channels |-> 0]
    /\ broken = {}
    /\ since = 0

-----------------------------------------------------------------------------
(* One try of the job.                                                     *)

\* process_event enqueues after its commit.
Enqueue ==
    /\ alert = "none" /\ plan.tries > 0
    /\ issue[Alerted] = "live"
    /\ alert' = "queued"
    /\ since' = Len(audit)
    /\ UNCHANGED <<orgVars, try, loaded, roster, outcome, sends, history>>

\* enabled = true AND (project_id IS NULL OR project_id = :pid).
Selects(c) == Scope[c] \in {OrgWide, IssueProject[Alerted]}

WantsRoster(chosen) ==
    /\ smtp_is_configured
    /\ \E c \in chosen : ChannelType[c] = "email" /\ c \notin Explicit

\* _load_channels_and_project; an empty selection ends the job.
LoadChannels ==
    LET chosen == {c \in Channels : channel[c] = "on" /\ Selects(c)}
    IN  /\ alert = "queued"
        /\ loaded' = chosen
        /\ alert' = IF chosen = {} THEN "done"
                    ELSE IF WantsRoster(chosen) THEN "roster" ELSE "sending"
        /\ roster' = {}
        /\ outcome' = NoOutcome
        /\ UNCHANGED <<orgVars, try, sends, history, since>>

LoadMembers ==
    /\ alert = "roster"
    /\ roster' = members
    /\ alert' = "sending"
    /\ UNCHANGED <<orgVars, try, loaded, outcome, sends, history, since>>

Awaited == {s \in sends : s.try = try}
Left == {c \in loaded : outcome[c] = "none"}

Skips(c) ==
    /\ ChannelType[c] = "email"
    /\ \/ ~smtp_is_configured
       \/ c \notin Explicit /\ roster = {}

Attempts(c) == IF ChannelType[c] = "email" THEN 1 ELSE HTTP_ATTEMPTS

\* The loop takes the next channel: skipped, or its send goes to a thread.
Deliver(c) ==
    /\ alert = "sending" /\ Awaited = {} /\ c \in Left
    /\ IF Skips(c)
       THEN outcome' = [outcome EXCEPT ![c] = "skipped"] /\ UNCHANGED sends
       ELSE /\ sends' = sends \cup {[try |-> try, channel |-> c, left |-> Attempts(c)]}
            /\ UNCHANGED outcome
    /\ UNCHANGED <<orgVars, alert, try, loaded, roster, history, since>>

\* The loop notes how an awaited send ended; nobody waits for those of an earlier try.
Settled(s, result) ==
    outcome' = IF s.try = try /\ alert = "sending"
               THEN [outcome EXCEPT ![s.channel] = result] ELSE outcome

Arrives(c) == notices' = [notices EXCEPT ![c] = @ + 1]

\* _post_json returns: no further attempt.  Without that return it would go on.
AfterSuccess_Again(s) == IF s.left = 1 THEN {} ELSE {[s EXCEPT !.left = @ - 1]}
AfterSuccess(s) == {}

SendSucceeds(s) ==
    /\ Arrives(s.channel)
    /\ sends' = (sends \ {s}) \cup AfterSuccess(s)
    /\ IF AfterSuccess(s) = {} THEN Settled(s, "delivered") ELSE UNCHANGED outcome
    /\ UNCHANGED <<orgVars, alert, try, loaded, roster, troubles, broken, since>>

\* After an error that it catches (URLError, TimeoutError, OSError) _post_json tries
\* again; its last error comes out of the thread and is a failure of this channel only.
AfterError(s) == IF s.left = 1 THEN {} ELSE {[s EXCEPT !.left = @ - 1]}

\* The attempt raises; the notification may have arrived all the same.
Raises(s) ==
    /\ Arrives(s.channel) \/ UNCHANGED notices
    /\ troubles' = [troubles EXCEPT ![s.channel] = @ + 1]
    /\ UNCHANGED <<orgVars, alert, try, loaded, roster, since>>

SendRaises(s) ==
    /\ Raises(s)
    /\ sends' = (sends \ {s}) \cup AfterError(s)
    /\ IF AfterError(s) = {} THEN Settled(s, "failed") ELSE UNCHANGED outcome
    /\ UNCHANGED broken

\* Any other exception (http.client's BadStatusLine or IncompleteRead) leaves _post_json
\* at once, with the attempts it still had.
SendBreaks(s) ==
    /\ s.left > 1
    /\ Raises(s)
    /\ sends' = sends \ {s}
    /\ Settled(s, "failed")
    /\ broken' = broken \cup {[try |-> s.try, channel |-> s.channel]}

\* Without the boundary around each channel, the first failure would end the loop.
LoopIsOver_AtFailure == Left = {} \/ \E c \in loaded : outcome[c] = "failed"
LoopIsOver == Left = {}

Finish ==
    /\ alert = "sending" /\ Awaited = {} /\ LoopIsOver
    /\ alert' = "done"
    /\ UNCHANGED <<orgVars, try, loaded, roster, outcome, sends, history, since>>

\* The job is cut off: by its timeout, or with its process, threads and all.  The
\* queue (not part of this repository) runs it again while it has tries left.
Interrupt ==
    /\ alert \in {"queued", "roster", "sending"}
    /\ \/ try < plan.tries /\ alert' = "queued" /\ try' = try + 1
       \/ alert' = "failed" /\ UNCHANGED try
    /\ sends' \in {sends, {}}
    /\ UNCHANGED <<orgVars, loaded, roster, outcome, history, since>>

JobStep ==
    \/ Enqueue \/ LoadChannels \/ LoadMembers \/ Finish \/ Interrupt
    \/ \E c \in Channels : Deliver(c)
    \/ \E s \in sends : SendSucceeds(s) \/ SendRaises(s) \/ SendBreaks(s)

Next == (OrgNext /\ UNCHANGED jobVars) \/ JobStep

Spec == Init /\ [][Next]_vars

-----------------------------------------------------------------------------
(* Correctness.                                                            *)

TypeOK ==
    /\ OrgTypeOK
    /\ alert \in {"none", "queued", "roster", "sending", "done", "failed"}
    /\ try \in 1 .. MaxTries
    /\ loaded \subseteq Channels /\ roster \subseteq Users
    /\ outcome \in [Channels -> {"none", "delivered", "failed", "skipped"}]
    /\ sends \subseteq [try : 1 .. MaxTries, channel : Channels, left : 1 .. HTTP_ATTEMPTS]
    /\ notices \in [Channels -> Nat] /\ troubles \in [Channels -> Nat]
    /\ broken \subseteq [try : 1 .. MaxTries, channel : Channels]
    /\ since \in Nat

\* Channels nobody touched since the alert was raised: no entry of the audit log
\* after that speaks of them or of their project.
Untouched(c) ==
    \A n \in (since + 1) .. Len(audit) : audit[n].target \notin {c, Scope[c]}

\* "isolated so one failing channel never stops the others": when the job is done,
\* every channel that was on all along has been notified, or it failed in every
\* attempt, or it is an email channel with nobody to write to; whatever the other
\* channels did, and whatever admins did to them meanwhile.  "One retry" holds of the
\* errors _post_json catches: a channel whose send broke in this try had no more.
EveryChannelIsTried ==
    alert = "done" =>
        /\ \A c \in Channels : Untouched(c) =>
            ((c \in loaded) <=> (channel[c] = "on" /\ InScope(c)
                                 /\ (Scope[c] # OrgWide => Scope[c] = IssueProject[Alerted])))
        /\ \A c \in loaded :
            CASE outcome[c] = "delivered" -> notices[c] > 0
              [] outcome[c] = "failed" ->
                        \/ troubles[c] >= Attempts(c)
                        \/ [try |-> try, channel |-> c] \in broken
              [] outcome[c] = "skipped" -> Skips(c)
              [] OTHER -> FALSE
        /\ Awaited = {}

\* A team hears of one alert once: every further notification on a channel takes an
\* attempt that seemed to fail there, or a try of the job that was cut off.
ExtraNoticeNeedsTrouble ==
    \A c \in Channels : notices[c] <= troubles[c] + try

\* Every channel that was on hears of an alert, or failed on its own account, and hears of
\* it again only after trouble: see EveryChannelIsTried and ExtraNoticeNeedsTrouble.
ChannelsAreServed == EveryChannelIsTried /\ ExtraNoticeNeedsTrouble
=============================================================================
