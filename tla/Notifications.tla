---------------------------- MODULE Notifications ----------------------------
(***************************************************************************)
(* How users hear of their packages (notify/): the job manager calls its   *)
(* observer, NotifyManage, with its lock held; each event goes through an  *)
(* unbuffered channel to NotifyManage.Serve, which starts a publisher or   *)
(* drops the event; publishers read the package and its users and publish  *)
(* the event in redis; the email handler subscribes there, passes the      *)
(* events through another unbuffered channel to ServeEvent, which starts a *)
(* mailer for each as soon as there is room.                               *)
(*                                                                         *)
(* Redis keeps what a subscriber has not read yet, in the order of the     *)
(* publications, and tells a publisher too late, or not at all.  Smtp      *)
(* servers answer or do not.  Notifications are enabled.                   *)
(*                                                                         *)
(* NotifyInit, NotifyNext and so on, because the theorems about this and   *)
(* about JobProgress are in one module, JobProgressProofs.                 *)
(***************************************************************************)
EXTENDS Naturals, Sequences, FiniteSets

CONSTANTS
    MaxPublishers,  \* NotifyManage.max_ev_processer
    MaxMailers,     \* EmailHandler.max_ev_processer
    MaxTryTimes,    \* NotifyManage.max_try_times
    None,
    MaxCalls        \* bound: calls of the observer

ASSUME NotificationAssumption ==
    /\ MaxPublishers \in Nat \ {0} /\ MaxMailers \in Nat \ {0}
    /\ MaxTryTimes \in Nat \ {0} /\ MaxCalls \in Nat

VARIABLES
    locked,      \* is JobManager.lock held by a caller of the observer?
    sending,     \* what this caller has still to send
    slots,       \* NotifyManage.Serve: the tokens in sem
    publishers,  \* the goroutines of NotifyManage.Serve
    reached,     \* reached[e]: how often e has reached redis
    failed,      \* history: failed[e]: publications of e that failed
    connected,   \* does the subscription stand?
    wire,        \* what redis has for the subscriber
    got,         \* ServeSubscribe: the event that it hands over
    hand,        \* ServeEvent: the event that waits for room
    mailers,     \* the goroutines of ServeEvent
    mails,       \* mails[e]: mails sent about e
    observed     \* calls of the observer

jobside == <<locked, sending, observed>>
publishing == <<slots, publishers, reached, failed>>
mailing == <<connected, wire, got, hand, mailers, mails>>
notifyVars == <<jobside, publishing, mailing>>

-----------------------------------------------------------------------------
(* cydex.Notify...: what users are told                                    *)
Kind == {"NewPkg", "UploadFinish", "ReceiverFinish", "DownloadStart",
         "SenderFinish"}
ToSender == {"UploadFinish", "DownloadStart", "SenderFinish"}
Event == [kind: Kind, call: 1..MaxCalls]

(* Owner: has the sender of the package been found?                        *)
Message == [ev: Event, owner: BOOLEAN]
Publisher == [ev: Event, owner: BOOLEAN, pc: {"fetch", "publish", "done"},
              tries: 0..MaxTryTimes]
Mailer == 1..MaxMailers

NotifyTypeOK ==
    /\ locked \in BOOLEAN /\ sending \in Seq(Event) /\ Len(sending) <= 2
    /\ sending # <<>> => locked
    /\ slots \in 0..MaxPublishers /\ publishers \subseteq Publisher
    /\ reached \in [Event -> Nat] /\ failed \in [Event -> Nat]
    /\ mails \in [Event -> Nat]
    /\ connected \in BOOLEAN
    /\ wire \in Seq(Message)
    /\ got \in Message \cup {None} /\ hand \in Message \cup {None}
    /\ mailers \in [Mailer -> Message \cup {None}]
    /\ observed \in 0..MaxCalls

NotifyInit ==
    /\ locked = FALSE /\ sending = <<>> /\ observed = 0
    /\ slots = 0 /\ publishers = {}
    /\ reached = [e \in Event |-> 0] /\ failed = [e \in Event |-> 0]
    /\ connected = TRUE /\ wire = <<>> /\ got = None /\ hand = None
    /\ mailers = [i \in Mailer |-> None] /\ mails = [e \in Event |-> 0]

-----------------------------------------------------------------------------
(* The observer, called with JobManager.lock held                          *)

Call(kinds) ==
    /\ ~locked /\ locked' = TRUE
    /\ observed < MaxCalls /\ observed' = observed + 1
    /\ sending' = [i \in DOMAIN kinds |-> [kind |-> kinds[i], call |-> observed']]
    /\ UNCHANGED <<publishing, mailing>>

OnJobCreate(type) == Call(IF type = "upload" THEN <<>> ELSE <<"NewPkg">>)

OnJobStart(type) == Call(IF type = "upload" THEN <<>> ELSE <<"DownloadStart">>)

(* Users are told of the first time that a job is finished.                *)
OnJobFinish(type, times) ==
    Call(CASE times > 1 -> <<>>
           [] times = 1 /\ type = "upload" -> <<"UploadFinish">>
           [] OTHER -> <<"ReceiverFinish", "SenderFinish">>)

Return ==
    /\ locked /\ sending = <<>> /\ locked' = FALSE
    /\ UNCHANGED <<sending, observed, publishing, mailing>>

Start(e) ==
    /\ slots' = slots + 1
    /\ publishers' = publishers \cup
         {[ev |-> e, owner |-> FALSE, pc |-> "fetch", tries |-> 0]}

(* Mutant: the event waits for a publisher.                                *)
Serve_Waits ==
    /\ sending # <<>> /\ sending' = Tail(sending)
    /\ slots < MaxPublishers /\ Start(Head(sending))
    /\ UNCHANGED <<locked, observed, reached, failed, mailing>>

(* NotifyManage.Serve: an event for which there is no publisher is dropped *)
Serve ==
    /\ sending # <<>> /\ sending' = Tail(sending)
    /\ IF slots < MaxPublishers
         THEN Start(Head(sending))
         ELSE UNCHANGED <<slots, publishers>>
    /\ UNCHANGED <<locked, observed, reached, failed, mailing>>

-----------------------------------------------------------------------------
(* publishPkgEvent                                                         *)

Turns(p, q) == publishers' = (publishers \ {p}) \cup {q}

(* fetchJobInfo: the package and its users.  Of a package whose upload job *)
(* is marked as deleted the sender is not found, which is no error.        *)
Fetch(p) ==
    /\ p.pc = "fetch"
    /\ \/ Turns(p, [p EXCEPT !.pc = "done"])
       \/ Turns(p, [p EXCEPT !.pc = "publish", !.owner = TRUE])
       \/ /\ p.ev.kind # "UploadFinish"
          /\ Turns(p, [p EXCEPT !.pc = "publish"])
    /\ UNCHANGED <<slots, reached, failed, jobside, mailing>>

Reach(p) ==
    /\ reached' = [reached EXCEPT ![p.ev] = @ + 1]
    /\ wire' = IF connected
                 THEN Append(wire, [ev |-> p.ev, owner |-> p.owner]) ELSE wire

(* The loop goes on to its next turn, if there is one.                     *)
Again(p) ==
    Turns(p, [p EXCEPT !.tries = @ + 1,
                       !.pc = IF p.tries + 1 < MaxTryTimes THEN "publish"
                              ELSE "done"])

Fails(p) == Again(p) /\ failed' = [failed EXCEPT ![p.ev] = @ + 1]

(* Mutant: a publisher does not leave the loop when it has succeeded.      *)
Publish_NoBreak(p) ==
    /\ p.pc = "publish"
    /\ \/ Reach(p) /\ Again(p) /\ UNCHANGED failed
       \/ Reach(p) /\ Fails(p)
       \/ UNCHANGED <<reached, wire>> /\ Fails(p)
    /\ UNCHANGED <<slots, jobside, connected, got, hand, mailers, mails>>

(* It is published; or there is an error, whether it has reached redis or  *)
(* not, and the publisher tries again.                                     *)
Publish(p) ==
    /\ p.pc = "publish"
    /\ \/ Reach(p) /\ Turns(p, [p EXCEPT !.pc = "done"]) /\ UNCHANGED failed
       \/ Reach(p) /\ Fails(p)
       \/ UNCHANGED <<reached, wire>> /\ Fails(p)
    /\ UNCHANGED <<slots, jobside, connected, got, hand, mailers, mails>>

(* Mutant: a publisher that published nothing keeps its token.             *)
Release_Published(p) ==
    /\ p.pc = "done"
    /\ publishers' = publishers \ {p}
    /\ slots' = IF reached[p.ev] > 0 THEN slots - 1 ELSE slots
    /\ UNCHANGED <<reached, failed, jobside, mailing>>

Release(p) ==
    /\ p.pc = "done"
    /\ publishers' = publishers \ {p} /\ slots' = slots - 1
    /\ UNCHANGED <<reached, failed, jobside, mailing>>

-----------------------------------------------------------------------------
(* The email handler                                                       *)

(* ServeSubscribe, handleRedisMsg: whether the handler is enabled may      *)
(* change between any two messages.                                        *)
Receive ==
    /\ wire # <<>> /\ got = None
    /\ wire' = Tail(wire)
    /\ got' \in {Head(wire), None}
    /\ UNCHANGED <<connected, hand, mailers, mails, jobside, publishing>>

(* ServeEvent takes the event off the channel ...                          *)
Take ==
    /\ got # None /\ hand = None
    /\ hand' = got /\ got' = None
    /\ UNCHANGED <<connected, wire, mailers, mails, jobside, publishing>>

(* ... and waits for room.                                                 *)
StartMail(i) ==
    /\ hand # None /\ mailers[i] = None
    /\ mailers' = [mailers EXCEPT ![i] = hand] /\ hand' = None
    /\ UNCHANGED <<connected, wire, got, mails, jobside, publishing>>

(* Does the user that the event is for exist?                              *)
HasTarget(m) == m.owner \/ m.ev.kind \notin ToSender

(* handlePkgEvent: the mail is sent, if there is a server, a template and  *)
(* a user who wants it.                                                    *)
Mail(i) ==
    LET m == mailers[i] IN
    /\ m # None
    /\ mailers' = [mailers EXCEPT ![i] = None]
    /\ \/ HasTarget(m) /\ mails' = [mails EXCEPT ![m.ev] = @ + 1]
       \/ UNCHANGED mails
    /\ UNCHANGED <<connected, wire, got, hand, jobside, publishing>>

(* The connection of the subscription fails: ServeSubscribe goes on to ask *)
(* it, nobody subscribes again.                                            *)
Break ==
    /\ connected /\ connected' = FALSE /\ wire' = <<>>
    /\ UNCHANGED <<got, hand, mailers, mails, jobside, publishing>>

-----------------------------------------------------------------------------
Observe ==
    \E type \in {"upload", "download"} :
        \/ OnJobCreate(type) \/ OnJobStart(type)
        \/ \E times \in 1..2 : OnJobFinish(type, times)

NotifyNext ==
    \/ Observe \/ Return \/ Serve
    \/ \E p \in publishers : Fetch(p) \/ Publish(p) \/ Release(p)
    \/ Receive \/ Take
    \/ \E i \in Mailer : StartMail(i) \/ Mail(i)
    \/ Break

NotifySpec == NotifyInit /\ [][NotifyNext]_notifyVars

(* Serve and the callers get on, redis and smtp servers may not answer.    *)
NotifyFairSpec == NotifySpec /\ WF_notifyVars(Serve) /\ WF_notifyVars(Return)

-----------------------------------------------------------------------------
(* Who calls the job manager never waits for redis, nor for a mail: its    *)
(* lock is let go whatever publishers and mailers do.                      *)
LockIsLetGo == locked ~> ~locked

(* An event is dropped only while as many publishers as there may be are   *)
(* at work: no way out of a publisher keeps a token.                       *)
TokensAreHeld == slots = Cardinality(publishers)

(* A user gets no more mails about an event than redis got publications of *)
(* it.  Redis gets one, and at most one more for each publication of which *)
(* the publisher was told that it failed; never more than are tried.       *)
MailsArePublished ==
    \A e \in Event :
        /\ mails[e] <= reached[e]
        /\ reached[e] <= 1 + failed[e] /\ reached[e] <= MaxTryTimes
=============================================================================
