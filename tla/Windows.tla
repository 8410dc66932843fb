------------------------------ MODULE Windows ------------------------------
(* Event-time windows of aeon-state: tumbling and sliding assignment, the    *)
(* watermark, and the sessions of a SessionTracker.  A caller feeds events   *)
(* and closes expired sessions at the watermark whenever it likes; late      *)
(* events are discarded.                                                     *)
EXTENDS Integers, FiniteSets

CONSTANTS
    Keys,
    Times,        \* the timestamps events carry
    Gap,          \* SessionWindows::gap_ns
    MaxLateness,  \* Watermark::max_lateness
    InOrder,      \* a key's events arrive in the order of their timestamps
    MaxEvents     \* bound on the events

VARIABLES
    sessions,   \* active sessions: start and last timestamp, or None
    watermark,
    members,    \* the timestamps of the events of each active session
    closed,     \* the sessions closed so far: key, window and members
    events      \* events fed so far

vars == <<sessions, watermark, members, closed, events>>

None   == [start |-> 0, last |-> -1]
Lowest == -1000

Window(s, e) == [start |-> s, end |-> e]
Contains(w, t) == t >= w.start /\ t < w.end

-----------------------------------------------------------------------------
(* Assignment                                                                *)

\* TumblingWindows::assign
Tumbling(size, t) ==
    LET start == t - (t % size)
    IN  Window(start, start + size)

\* SlidingWindows::assign: back from the last start at or before t, while the
\* window reaches beyond t and the start is not negative.
Sliding(size, slide, t) ==
    LET last   == t - (t % slide)
        starts == {s \in (t - size + 1) .. last : (last - s) % slide = 0}
    IN  {Window(s, s + size) : s \in {s \in starts : s = last \/ s >= 0}}

-----------------------------------------------------------------------------
(* Sessions                                                                  *)

Init ==
    /\ sessions = [k \in Keys |-> None]
    /\ members = [k \in Keys |-> {}]
    /\ watermark = Lowest
    /\ closed = {}
    /\ events = 0

\* Watermark::advance
Advanced(t) == IF t - MaxLateness > watermark THEN t - MaxLateness ELSE watermark

IsLate(t) == t < watermark

Close(k) == [key |-> k, members |-> members[k],
             window |-> Window(sessions[k].start, sessions[k].last + Gap)]

Extends(k, t) == t - sessions[k].last <= Gap

Extended(k, t) == [sessions[k] EXCEPT !.last = t]

\* SessionTracker::on_event, with the watermark advanced by the event.
OnEvent(k, t) ==
    /\ events < MaxEvents
    /\ ~IsLate(t)
    /\ InOrder => \A m \in members[k] : t >= m
    /\ events' = events + 1
    /\ watermark' = Advanced(t)
    /\ IF sessions[k] = None
       THEN /\ sessions' = [sessions EXCEPT ![k] = [start |-> t, last |-> t]]
            /\ members' = [members EXCEPT ![k] = {t}]
            /\ UNCHANGED closed
       ELSE IF Extends(k, t)
            THEN /\ sessions' = [sessions EXCEPT ![k] = Extended(k, t)]
                 /\ members' = [members EXCEPT ![k] = @ \cup {t}]
                 /\ UNCHANGED closed
            ELSE /\ sessions' = [sessions EXCEPT ![k] = [start |-> t, last |-> t]]
                 /\ members' = [members EXCEPT ![k] = {t}]
                 /\ closed' = closed \cup {Close(k)}

\* Mutant of Expired: the gap is not waited for.
ExpiredEarly(k) == sessions[k] # None /\ sessions[k].last < watermark

Expired(k) == sessions[k] # None /\ sessions[k].last < watermark - Gap

\* SessionTracker::close_expired at the watermark.
CloseExpired ==
    LET gone == {k \in Keys : Expired(k)}
    IN  /\ gone # {}
        /\ closed' = closed \cup {Close(k) : k \in gone}
        /\ sessions' = [k \in Keys |-> IF k \in gone THEN None ELSE sessions[k]]
        /\ members' = [k \in Keys |-> IF k \in gone THEN {} ELSE members[k]]
        /\ UNCHANGED <<watermark, events>>

Next == (\E k \in Keys, t \in Times : OnEvent(k, t)) \/ CloseExpired

Spec == Init /\ [][Next]_vars

-----------------------------------------------------------------------------
(* Properties                                                                *)

TypeOK ==
    /\ watermark \in {Lowest} \cup {t - MaxLateness : t \in Times}
    /\ \A k \in Keys : sessions[k] = None <=> members[k] = {}
    /\ \A k \in Keys : \A t \in members[k] : t >= sessions[k].start
    /\ events \in 0 .. MaxEvents

\* A closed session's window contains the timestamps of all its events.
WindowHoldsMembers ==
    \A c \in closed : \A t \in c.members : Contains(c.window, t)

\* Two sessions of a key share no instant: an event that comes later than a
\* closed session, and is not late, lies behind its window.
SessionsApart ==
    \A c, d \in closed : c # d /\ c.key = d.key =>
        c.window.end <= d.window.start \/ d.window.end <= c.window.start

\* A session is one burst of activity: between two of its events that follow
\* each other there is no more than the gap.
OneBurst ==
    \A c \in closed : \A t \in c.members :
        (\E u \in c.members : u > t) => \E u \in c.members : u > t /\ u - t <= Gap
=============================================================================
