-------------------------------- MODULE Users --------------------------------
(* The users of the site: the address of one, which UserEmail has, and the   *)
(* sessions of one, an instance of UserSessions. They share no state.        *)
EXTENDS UserEmail, Sequences

CONSTANTS Browser,     \* of UserSessions, and its bounds
          Listener, MaxSession, Buffer, MaxEvent, MaxFailure

VARIABLES live, sessions, deleted, cookie, request, socket, stream, channel, fed, events,
          silent, late, left, failures

S == INSTANCE UserSessions WITH
        MaxFault <- MaxFailure, made <- sessions, faults <- failures

browsers == <<live, sessions, deleted, cookie, request, socket, stream, channel, fed, events,
              silent, late, left, failures>>

\* UserSessions: an open socket belongs to a session, and one session stays,
SessionsKept == S!TypeOK /\ S!SocketHasSession /\ S!OneSessionStays
\* and the socket of a session that ended closes.
EndedSocketCloses == S!EndedSocketCloses
=============================================================================
