---------------------------- MODULE UserSessions ----------------------------
(* The sessions of a user: the ways to sign in, the check every request      *)
(* starts with, the session page, logout, expiry and the deletion of the     *)
(* user; and the event sockets, which are told over NATS when their session  *)
(* ends.                                                                     *)
EXTENDS Naturals, Sequences

CONSTANTS Browser,     \* browsers of the user, each with a cookie
          Listener,    \* bound: those that open event sockets
          MaxSession,  \* bound on the sessions created
          Buffer,      \* events between the NATS task and the socket (32)
          MaxEvent,    \* bound on the user's other events and on the needless ones
          MaxFault     \* bound on requests that fail half way

VARIABLES live,        \* user_session rows
          made,        \* sessions created, numbered as they are
          deleted,     \* the user was deleted
          cookie,      \* the session in a browser's cookie, 0 for none
          request,     \* what a browser's request is doing
          socket,      \* a browser's event socket and the session it was opened for
          stream,      \* what NATS has for the socket
          channel,     \* what the task has handed to the socket
          fed,         \* does the task still run
          events,      \* other events sent
          silent,      \* sessions whose end was not published
          late,        \* sockets that subscribed after their session's end was published
          left,        \* a session ended otherwise than by a removal from a live one
          faults

rows == <<live, made, deleted>>
feed == <<stream, channel, fed>>
history == <<silent, late, left>>
vars == <<rows, cookie, request, socket, feed, events, history, faults>>

Session == 1..MaxSession
Idle == [pc |-> "idle", own |-> 0, target |-> 0]
NoSocket == [pc |-> "none", session |-> 0]
\* EventMessage: the end of a session is its number, every other event is 0.
Event == 0..MaxSession

TypeOK ==
    /\ live \subseteq 1..made /\ made \in 0..MaxSession /\ deleted \in BOOLEAN
    /\ (deleted => live = {})
    /\ cookie \in [Browser -> 0..made]
    /\ request \in [Browser -> [pc : {"idle", "created", "checked", "ended", "logout"},
                                own : 0..made, target : 0..made]]
    /\ socket \in [Browser -> [pc : {"none", "connecting", "open", "closing"}, session : 0..made]]
    /\ stream \in [Browser -> Seq(Event)] /\ channel \in [Browser -> Seq(Event)]
    /\ fed \in [Browser -> BOOLEAN]
    /\ \A b \in Browser :
        /\ Len(channel[b]) <= Buffer + 1
        /\ fed[b] \/ channel[b] # <<>> => socket[b].pc \in {"open", "closing"}
    /\ events \in 0..MaxEvent
    /\ silent \subseteq 1..made /\ late \subseteq Browser
    /\ left \in BOOLEAN /\ faults \in 0..MaxFault

Init ==
    /\ live = {} /\ made = 0 /\ deleted = FALSE
    /\ cookie = [b \in Browser |-> 0] /\ request = [b \in Browser |-> Idle]
    /\ socket = [b \in Browser |-> NoSocket]
    /\ stream = [b \in Browser |-> <<>>] /\ channel = [b \in Browser |-> <<>>]
    /\ fed = [b \in Browser |-> FALSE]
    /\ events = 0 /\ silent = {} /\ late = {} /\ left = FALSE /\ faults = 0

Does(b, pc, own, target) ==
    request' = [request EXCEPT ![b] = [pc |-> pc, own |-> own, target |-> target]]
Answer(b) == Does(b, "idle", 0, 0)
SetCookie(b, s) == cookie' = [cookie EXCEPT ![b] = s]
Fault == faults < MaxFault /\ faults' = faults + 1

\* send_user_event: every subscribed socket gets it; one that is still
\* connecting has missed it.
Publish(e) ==
    /\ stream' = [b \in Browser |-> IF fed[b] THEN Append(stream[b], e) ELSE stream[b]]
    /\ late' = late \cup {b \in Browser : socket[b] = [pc |-> "connecting", session |-> e]}

\* A request has ended the session and is about to say so.
Pending(s) == \E b \in Browser : request[b].pc \in {"ended", "logout"} /\ request[b].target = s

-----------------------------------------------------------------------------
(* Requests.                                                                 *)

\* register, login, telegram, a verified address, a new password and a passkey
\* all end by making a session, whatever the cookie held.
SignIn(b) ==
    /\ request[b].pc = "idle" /\ made < MaxSession /\ ~deleted
    /\ made' = made + 1 /\ live' = live \cup {made'}
    /\ Does(b, "created", made', 0)
    /\ UNCHANGED <<deleted, cookie, socket, feed, events, history, faults>>

SignedIn(b) ==
    /\ request[b].pc = "created"
    /\ SetCookie(b, request[b].own) /\ Answer(b)
    /\ UNCHANGED <<rows, socket, feed, events, history, faults>>

\* UserSession::check at the start of a request; a session that is gone takes
\* the cookie with it.
Check(b) ==
    /\ request[b].pc = "idle" /\ cookie[b] # 0
    /\ IF cookie[b] \in live
       THEN Does(b, "checked", cookie[b], 0) /\ UNCHANGED cookie
       ELSE SetCookie(b, 0) /\ UNCHANGED request
    /\ UNCHANGED <<rows, socket, feed, events, history, faults>>

\* Any other page.
Page(b) ==
    /\ request[b].pc = "checked"
    /\ Answer(b)
    /\ UNCHANGED <<rows, cookie, socket, feed, events, history, faults>>

\* The page may name a session that is gone, which counts against MaxEvent.
Count(s) == IF s \in live THEN UNCHANGED events ELSE events < MaxEvent /\ events' = events + 1

\* Variant for mutation: the current session may be removed.
RemoveAnySession(b, s) ==
    /\ request[b].pc = "checked"
    /\ live' = live \ {s} /\ Count(s)
    /\ left' = (left \/ request[b].own \notin live)
    /\ Does(b, "ended", request[b].own, s)
    /\ UNCHANGED <<made, deleted, cookie, socket, feed, silent, late, faults>>

\* POST /auth/sessions/remove: the DELETE of destroy.
RemoveSession(b, s) ==
    /\ request[b].pc = "checked" /\ s # request[b].own
    /\ live' = live \ {s} /\ Count(s)
    /\ left' = (left \/ request[b].own \notin live)
    /\ Does(b, "ended", request[b].own, s)
    /\ UNCHANGED <<made, deleted, cookie, socket, feed, silent, late, faults>>

\* POST /auth/logout goes by the cookie alone.
Logout(b) ==
    /\ request[b].pc = "idle" /\ cookie[b] # 0
    /\ live' = live \ {cookie[b]} /\ left' = TRUE
    /\ Does(b, "logout", 0, cookie[b])
    /\ UNCHANGED <<made, deleted, cookie, socket, feed, events, silent, late, faults>>

\* destroy tells the sockets after the DELETE.
PublishEnd(b) ==
    /\ request[b].pc \in {"ended", "logout"}
    /\ Publish(request[b].target)
    /\ IF request[b].pc = "logout" THEN SetCookie(b, 0) ELSE UNCHANGED cookie
    /\ Answer(b)
    /\ UNCHANGED <<rows, socket, channel, fed, events, silent, left, faults>>

\* NATS refuses the event, which is only logged, or the request dies before it.
RequestFails(b) ==
    /\ request[b].pc \in {"created", "ended", "logout"} /\ Fault
    /\ silent' = silent \cup ({request[b].target} \ {0})
    /\ Answer(b)
    /\ UNCHANGED <<rows, cookie, socket, feed, events, late, left>>

\* POST /user/delete: the rows of the sessions go with the user's.
DeleteUser(b) ==
    /\ request[b].pc = "checked"
    /\ deleted' = TRUE /\ live' = {} /\ silent' = silent \cup live /\ left' = TRUE
    /\ SetCookie(b, 0) /\ Answer(b)
    /\ UNCHANGED <<made, socket, feed, events, late, faults>>

\* RemoveExpiredSessions: no request has come for thirty days.
Expire(s) ==
    /\ s \in live
    /\ \A b \in Browser : request[b].own = s => request[b].pc = "idle"
    /\ live' = live \ {s} /\ silent' = silent \cup {s} /\ left' = TRUE
    /\ UNCHANGED <<made, deleted, cookie, request, socket, feed, events, late, faults>>

-----------------------------------------------------------------------------
(* GET /api/events: one actor a socket.                                      *)

OpenSocket(b) ==
    /\ b \in Listener /\ request[b].pc = "checked" /\ socket[b].pc = "none"
    /\ socket' = [socket EXCEPT ![b] = [pc |-> "connecting", session |-> request[b].own]]
    /\ late' = IF request[b].own \in live \/ Pending(request[b].own) THEN late ELSE late \cup {b}
    /\ Answer(b)
    /\ UNCHANGED <<rows, cookie, feed, events, silent, left, faults>>

\* attempt_nats_connection, tried again every second until it succeeds.
Subscribe(b) ==
    /\ socket[b].pc = "connecting"
    /\ socket' = [socket EXCEPT ![b].pc = "open"]
    /\ fed' = [fed EXCEPT ![b] = TRUE]
    /\ UNCHANGED <<rows, cookie, request, stream, channel, events, history, faults>>

\* What the user's jobs report.
SendOther ==
    /\ events < MaxEvent /\ events' = events + 1
    /\ Publish(0)
    /\ UNCHANGED <<rows, cookie, request, socket, channel, fed, silent, left, faults>>

\* Variant for mutation: an event that finds the channel full is left out.
ForwardOrSkip(b) ==
    /\ fed[b] /\ stream[b] # <<>>
    /\ channel' = IF Len(channel[b]) <= Buffer
                  THEN [channel EXCEPT ![b] = Append(@, Head(stream[b]))] ELSE channel
    /\ stream' = [stream EXCEPT ![b] = Tail(@)]
    /\ UNCHANGED <<rows, cookie, request, socket, fed, events, history, faults>>

\* The task hands an event over; when the channel is full it ends, and the
\* subscription with it.
Forward(b) ==
    /\ fed[b] /\ stream[b] # <<>>
    /\ IF Len(channel[b]) <= Buffer
       THEN /\ channel' = [channel EXCEPT ![b] = Append(@, Head(stream[b]))]
            /\ stream' = [stream EXCEPT ![b] = Tail(@)]
            /\ UNCHANGED fed
       ELSE /\ fed' = [fed EXCEPT ![b] = FALSE]
            /\ stream' = [stream EXCEPT ![b] = <<>>]
            /\ UNCHANGED channel
    /\ UNCHANGED <<rows, cookie, request, socket, events, history, faults>>

\* The end of another session is not shown; that of its own closes the socket.
Handle(b) ==
    /\ channel[b] # <<>>
    /\ channel' = [channel EXCEPT ![b] = Tail(@)]
    /\ socket' = IF Head(channel[b]) = socket[b].session
                 THEN [socket EXCEPT ![b].pc = "closing"] ELSE socket
    /\ UNCHANGED <<rows, cookie, request, stream, fed, events, history, faults>>

Stop(b) ==
    /\ socket' = [socket EXCEPT ![b] = NoSocket]
    /\ stream' = [stream EXCEPT ![b] = <<>>] /\ channel' = [channel EXCEPT ![b] = <<>>]
    /\ fed' = [fed EXCEPT ![b] = FALSE]
    /\ late' = late \ {b}
    /\ UNCHANGED <<rows, cookie, request, events, silent, left, faults>>

\* The channel is closed and drained, which stops the actor.
Drained(b) ==
    /\ socket[b].pc \in {"open", "closing"} /\ ~fed[b] /\ channel[b] = <<>>
    /\ Stop(b)

\* The client answers the close frame.
Closed(b) == socket[b].pc = "closing" /\ Stop(b)

\* The client goes, or misses its heartbeats.
Disconnect(b) == socket[b].pc # "none" /\ Stop(b)

-----------------------------------------------------------------------------
Serve(b) == PublishEnd(b) \/ SignedIn(b)
Socket(b) == Subscribe(b) \/ Forward(b) \/ Handle(b) \/ Drained(b) \/ Closed(b)

Next ==
    \/ \E b \in Browser :
        \/ SignIn(b) \/ Check(b) \/ Page(b) \/ Logout(b) \/ DeleteUser(b) \/ OpenSocket(b) \/ RequestFails(b)
        \/ (\E s \in 1..made : RemoveSession(b, s))
        \/ Serve(b) \/ Socket(b) \/ Disconnect(b)
    \/ SendOther
    \/ \E s \in Session : Expire(s)

Spec == Init /\ [][Next]_vars

\* The server answers its requests and runs its actors and their tasks, and
\* clients answer a close frame.
Fairness == \A b \in Browser : WF_vars(Serve(b)) /\ WF_vars(Socket(b))

FairSpec == Spec /\ Fairness

-----------------------------------------------------------------------------
OnItsWay(b, e) ==
    \/ \E i \in 1..Len(stream[b]) : stream[b][i] = e
    \/ \E i \in 1..Len(channel[b]) : channel[b][i] = e

\* The session is live or its end still to be published; or nobody was told of
\* the end, or the socket of b subscribed too late to hear it.
Accounted(b, s) == s \in live \/ Pending(s) \/ s \in silent \/ b \in late

\* A socket that is open belongs to such a session; or the end of its session is
\* still to reach it; or the task was cut off, and the socket stops when it is
\* drained.
SocketHasSession ==
    \A b \in Browser :
        LET s == socket[b].session
        IN  socket[b].pc = "open" => Accounted(b, s) \/ OnItsWay(b, s) \/ ~fed[b]

\* Every socket whose session has ended closes, with the same two exceptions.
EndedSocketCloses ==
    []<>(\A b \in Browser :
            LET s == socket[b].session
            IN  socket[b].pc # "none" => s \in live \/ s \in silent \/ b \in late)

\* "You cannot remove the current session": the session page alone never
\* leaves a user without any, unless two removals crossed each other.
OneSessionStays == made > 0 /\ live = {} => left

-----------------------------------------------------------------------------
(* What makes SocketHasSession inductive.                                    *)

\* A checked request and a socket each belong to a session.
Named ==
    \A b \in Browser :
        /\ request[b].pc = "checked" => request[b].own # 0
        /\ socket[b].pc # "none" => socket[b].session # 0

\* While a socket connects, the end of its session has not been published, or
\* it is known to have come too early.
ConnectingInTime ==
    \A b \in Browser :
        socket[b].pc = "connecting" => Accounted(b, socket[b].session)

IInv == TypeOK /\ Named /\ ConnectingInTime /\ SocketHasSession /\ OneSessionStays
=============================================================================
