---------------------------- MODULE DigestDelivery ----------------------------
(***************************************************************************)
(* The scheduled daily report of one date (cloud_run_daily_digest.py) and  *)
(* its delivery record (daily_digest_delivery_store.py).  The scheduler    *)
(* posts the 07:00 slot, may post it again or twice at once, and posts a   *)
(* 07:30 check that only looks at the record.  A request reads what each   *)
(* target has published, renders, reserves the date, sends and closes the  *)
(* reservation; it may die between any two of these.                       *)
(*                                                                         *)
(* The clock has the five phases the code tells apart: before 07:20, when  *)
(* reading stops; then the last half minute before 07:30; the rest of the  *)
(* date; the next date.  Another date has another record.                  *)
(***************************************************************************)
EXTENDS Naturals, FiniteSets

CONSTANTS Posts, DigestTargets, Shelves
\* Posts: requests of the 07:00 slot; Shelves: what a target's object may hold

Reading == 0
Reserve30 == 2
PastDeadline == 3
NextDate == 4

VARIABLES
  hour,      \* the phase of the clock
  shelf,     \* the object each target has published for the business day
  posts,     \* the requests
  slip,      \* the delivery record of the date
  mailed,    \* the messages the recipient really got
  confirmed, \* the 07:30 check has confirmed the date
  intime     \* targets that had a usable object before 07:20
digestVars == <<hour, shelf, posts, slip, mailed, confirmed, intime>>

NoSlip == [delivery |-> "none", late |-> FALSE, by |-> "none"]
NewPost == [at |-> "new", read |-> [t \in {} |-> "missing"], late |-> FALSE,
            coverage |-> "unavailable", sent |-> FALSE]

Late == hour >= Reserve30

Usable == {"present", "not_run"}

\* _report: the coverage the report announces
Coverage(read) ==
  LET covered == {t \in DOMAIN read : read[t] \in Usable} IN
  IF covered = {} THEN "unavailable" ELSE IF covered = DOMAIN read THEN "complete" ELSE "partial"

-----------------------------------------------------------------------------
DigestInit ==
  /\ hour = Reading
  /\ shelf = [t \in DigestTargets |-> "missing"]
  /\ posts = [p \in Posts |-> NewPost]
  /\ slip = NoSlip /\ mailed = {} /\ confirmed = FALSE /\ intime = {}

Tick == /\ hour < NextDate /\ hour' = hour + 1
        /\ UNCHANGED <<shelf, posts, slip, mailed, confirmed, intime>>

\* A producer replaces the object of its target.
Publish(t, s) ==
  /\ shelf[t] # s
  /\ shelf' = [shelf EXCEPT ![t] = s]
  /\ intime' = IF hour = Reading /\ s \in Usable THEN intime \cup {t} ELSE intime
  /\ UNCHANGED <<hour, posts, slip, mailed, confirmed>>

Move(p, x) == posts' = [posts EXCEPT ![p] = x] /\ UNCHANGED <<hour, shelf, confirmed, intime>>

Answer(at) == [NewPost EXCEPT !.at = at]

\* execute: a request of a past date ends; one that comes late reads nothing.
Accept(p) ==
  /\ posts[p] = NewPost
  /\ Move(p, IF hour = NextDate THEN Answer("expired_slot")
             ELSE [NewPost EXCEPT !.at = IF Late THEN "rendered" ELSE "reading", !.late = Late])
  /\ UNCHANGED <<slip, mailed>>

\* _sources: the targets one by one; nothing is read from 07:20 on.
ReadTarget(p, t) ==
  LET x == posts[p] IN
  /\ x.at = "reading" /\ t \notin DOMAIN x.read
  /\ \E got \in {shelf[t], "read_failed"} :
       LET outcome == IF hour = Reading THEN got ELSE "read_failed" IN
       Move(p, [x EXCEPT !.read = [u \in DOMAIN x.read \cup {t} |-> IF u = t THEN outcome ELSE x.read[u]]])
  /\ UNCHANGED <<slip, mailed>>

\* Rendered, and the clock is read again: a late report becomes a failure notice.
\* A count the aggregator does not know makes complete partial.
Render(p) ==
  LET x == posts[p] IN
  /\ x.at = "reading" /\ DOMAIN x.read = DigestTargets
  /\ \E counts \in BOOLEAN :
       Move(p, [x EXCEPT !.at = "rendered", !.late = Late, !.read = NewPost.read,
                         !.coverage = IF Coverage(x.read) = "complete" /\ ~counts
                                      THEN "partial" ELSE Coverage(x.read)])
  /\ UNCHANGED <<slip, mailed>>

\* reserve: created only if absent.  An answer that does not arrive ends the
\* request, whether the record was created or not, and so does a record found.
Reserve(p) ==
  LET x == posts[p] IN
  /\ x.at = "rendered"
  /\ \/ /\ slip = NoSlip
        /\ slip' = [delivery |-> "sending", late |-> x.late, by |-> p]
        /\ \/ Move(p, [x EXCEPT !.at = "reserved"])
           \/ Move(p, Answer("reservation_unconfirmed"))
     \/ /\ slip # NoSlip /\ UNCHANGED slip
        /\ \E at \in {IF slip.delivery = "accepted" THEN "duplicate" ELSE "unknown",
                      "reservation_unconfirmed"} : Move(p, Answer(at))
     \/ UNCHANGED slip /\ Move(p, Answer("reservation_unconfirmed"))
  /\ UNCHANGED mailed

\* send: the message goes out or not, and nothing is known yet.
Transmit(p) ==
  LET x == posts[p] IN
  /\ x.at = "reserved"
  /\ Move(p, [x EXCEPT !.at = "transmitted"])
  /\ \/ mailed' = mailed \cup {[post |-> p, hour |-> hour, notice |-> x.late, coverage |-> x.coverage]}
     \/ UNCHANGED mailed
  /\ UNCHANGED slip

\* The transport's answer, and the lateness of the moment it arrives.
Outcome(p) ==
  LET x == posts[p] IN
  /\ x.at = "transmitted"
  /\ \E acked \in BOOLEAN :
       /\ acked => \E m \in mailed : m.post = p
       /\ Move(p, [x EXCEPT !.at = "finishing", !.sent = acked, !.late = @ \/ (acked /\ hour >= PastDeadline)])
  /\ UNCHANGED <<slip, mailed>>

\* finish: writes this reservation's generation, or fails and leaves "sending".
Finish(p) ==
  LET x == posts[p]
      closed == [delivery |-> IF x.sent THEN "accepted" ELSE "unknown", late |-> x.late, by |-> p] IN
  /\ x.at = "finishing"
  /\ \/ slip.by = p /\ slip' = closed
     \/ UNCHANGED slip
  /\ \E at \in {closed.delivery, "unknown"} :
       /\ at = "accepted" => slip' = closed
       /\ Move(p, Answer(at))
  /\ UNCHANGED mailed

\* The instance dies, or has answered, and the scheduler posts the slot again.
Repost(p) ==
  /\ posts[p] # NewPost
  /\ posts' = [posts EXCEPT ![p] = NewPost]
  /\ UNCHANGED <<hour, shelf, slip, mailed, confirmed, intime>>

\* The 07:30 check, possibly late itself; a record it cannot read is unverified,
\* which is no news.
Check ==
  /\ hour = PastDeadline /\ ~confirmed
  /\ confirmed' = (slip.delivery = "accepted" /\ ~slip.late)
  /\ UNCHANGED <<hour, shelf, posts, slip, mailed, intime>>

DigestNext ==
  \/ Tick \/ Check
  \/ \E t \in DigestTargets, s \in Shelves : Publish(t, s)
  \/ \E p \in Posts :
       \/ Accept(p) \/ Render(p) \/ Reserve(p) \/ Transmit(p) \/ Outcome(p) \/ Finish(p) \/ Repost(p)
       \/ \E t \in DigestTargets : ReadTarget(p, t)

-----------------------------------------------------------------------------
\* Whatever is posted again, dies or goes unanswered, the recipient gets at most
\* one message a date, and it is the holder of the reservation that sent it.
OneMessageADate ==
  /\ Cardinality(mailed) <= 1
  /\ \A m \in mailed : slip # NoSlip

\* A confirmed date is one whose report, not a failure notice, went out before
\* the deadline.
ConfirmedWasInTime ==
  confirmed => \E m \in mailed : ~m.notice /\ m.hour < PastDeadline

\* A report that claims complete coverage rests on an object each target had
\* published before reading stopped.
CompleteWasRead ==
  \A m \in mailed : m.coverage = "complete" => intime = DigestTargets
=============================================================================
