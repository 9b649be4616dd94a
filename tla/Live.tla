-------------------------------- MODULE Live --------------------------------
(***************************************************************************)
(* A member's open page and its event stream.  What changes is stored      *)
(* first and published after, best effort and to whoever is subscribed     *)
(* then; a page that hears of a change renders again, a pause after the    *)
(* last event of a burst.  Nothing is kept for a page that was not there.  *)
(***************************************************************************)
EXTENDS Integers, FiniteSets, FiniteSetsExt

CONSTANTS
  MaxChanges, \* bound: changes to what the page shows
  MaxDrops    \* bound: streams that break

ASSUME LiveAssumption == {MaxChanges, MaxDrops} \subseteq Nat

VARIABLES
  change, \* changes stored so far; a change is the number it made
  unsent, \* changes stored and not published yet
  relay,  \* the server's end of the stream: its Redis subscription
  wire,   \* changes relayed and not received yet
  page,   \* the open page
  drops,
  missed  \* history: changes nobody was subscribed for, or whose stream broke

lvars == <<change, unsent, relay, wire, page, drops, missed>>

Changes == 1..MaxChanges
NoRender == -1
NoPage ==
  [open |-> FALSE, stream |-> "none", connected |-> FALSE, timer |-> FALSE, asked |-> FALSE,
   reading |-> NoRender, shown |-> 0, heard |-> 0]

LiveType ==
  /\ change \in 0..MaxChanges /\ unsent \subseteq Changes /\ wire \subseteq Changes /\ missed \subseteq Changes
  /\ relay \in {"none", "subscribing", "on"} /\ drops \in 0..MaxDrops
  /\ page \in [open : BOOLEAN, stream : {"none", "connecting", "open"}, connected : BOOLEAN, timer : BOOLEAN,
               asked : BOOLEAN, reading : NoRender..MaxChanges, shown : 0..MaxChanges, heard : 0..MaxChanges]

LiveInit ==
  /\ change = 0 /\ unsent = {} /\ relay = "none" /\ wire = {} /\ page = NoPage /\ drops = 0 /\ missed = {}

-----------------------------------------------------------------------------
(* The worker and the other requests.                                      *)

\* A copy, a sweep or a risk limit stores what it did, and publishes it afterwards.
StoreChange ==
  /\ change < MaxChanges /\ change' = change + 1
  /\ unsent' = unsent \cup {change'}
  /\ UNCHANGED <<relay, wire, page, drops, missed>>

\* publishUserEvent: relayed to the subscribed stream; unsubscribed, failed or dead, it is gone.
PublishUserEvent(c) ==
  /\ c \in unsent /\ unsent' = unsent \ {c}
  /\ \/ relay = "on" /\ wire' = wire \cup {c} /\ UNCHANGED missed
     \/ missed' = missed \cup {c} /\ UNCHANGED wire
  /\ UNCHANGED <<change, relay, page, drops>>

-----------------------------------------------------------------------------
(* The stream.                                                             *)

\* The page is rendered from what is stored.
Visit ==
  /\ ~page.open
  /\ page' = [NoPage EXCEPT !.open = TRUE, !.shown = change]
  /\ UNCHANGED <<change, unsent, relay, wire, drops, missed>>

\* The component mounts, or the browser opens a broken stream again.
OpenStream ==
  /\ page.open /\ page.stream = "none"
  /\ page' = [page EXCEPT !.stream = "connecting"]
  /\ UNCHANGED <<change, unsent, relay, wire, drops, missed>>

\* GET /api/stream: a PING at once, the subscription in its own time.
Stream ==
  /\ page.stream = "connecting"
  /\ relay' = "subscribing"
  /\ page' = [page EXCEPT !.stream = "open", !.connected = TRUE]
  /\ UNCHANGED <<change, unsent, wire, drops, missed>>
Subscribed ==
  /\ relay = "subscribing" /\ relay' = "on"
  /\ UNCHANGED <<change, unsent, wire, page, drops, missed>>

\* abort and cancel: the server lets go of a stream nobody reads; what was on its way is lost.
Broken == relay' = "none" /\ wire' = {} /\ missed' = missed \cup wire

\* The stream breaks: the label says so, the timer and the page stay.
Drop ==
  /\ page.stream = "open" /\ drops < MaxDrops /\ drops' = drops + 1
  /\ page' = [page EXCEPT !.stream = "none", !.connected = FALSE]
  /\ Broken
  /\ UNCHANGED <<change, unsent>>

\* The member goes elsewhere: the timer and the stream go with the page.
Leave ==
  /\ page.open /\ page' = NoPage
  /\ Broken
  /\ UNCHANGED <<change, unsent, drops>>

-----------------------------------------------------------------------------
(* The page.                                                               *)

\* Mutant: no refresh is scheduled while one is under way.
ScheduleOne(p) == IF p.asked \/ p.reading # NoRender THEN p ELSE [p EXCEPT !.timer = TRUE]

\* scheduleRefresh: the pause begins again with every event.
ScheduleRefresh(p) == [p EXCEPT !.timer = TRUE]

Hear(c) ==
  /\ c \in wire /\ wire' = wire \ {c}
  /\ page' = ScheduleRefresh([page EXCEPT !.heard = Max({@, c})])
  /\ UNCHANGED <<change, unsent, relay, drops, missed>>

\* The pause is over: router.refresh.
Refresh ==
  /\ page.timer /\ page' = [page EXCEPT !.timer = FALSE, !.asked = TRUE]
  /\ UNCHANGED <<change, unsent, relay, wire, drops, missed>>

\* The server renders what is stored by then, one refresh after the other, and it is shown.
Render ==
  /\ page.asked /\ page.reading = NoRender
  /\ page' = [page EXCEPT !.asked = FALSE, !.reading = change]
  /\ UNCHANGED <<change, unsent, relay, wire, drops, missed>>
Show ==
  /\ page.reading # NoRender
  /\ page' = [page EXCEPT !.reading = NoRender, !.shown = page.reading]
  /\ UNCHANGED <<change, unsent, relay, wire, drops, missed>>

LiveNext ==
  \/ StoreChange \/ \E c \in unsent : PublishUserEvent(c)
  \/ Visit \/ OpenStream \/ Stream \/ Subscribed \/ Drop \/ Leave
  \/ \E c \in wire : Hear(c)
  \/ Refresh \/ Render \/ Show

LiveSpec == LiveInit /\ [][LiveNext]_lvars

-----------------------------------------------------------------------------
(* Properties.                                                             *)

\* However events, refreshes, broken streams and visits fall: a page older than a change it
\* heard of is about to render again from data that holds the change; it never goes back to
\* an older rendering; and every change published since it was rendered is shown, on its
\* way, or one the stream missed (LiveUpdates, "refreshes the server components on the page
\* when something changes").
PageCatchesUp ==
  page.open =>
    /\ page.shown < page.heard => page.timer \/ page.asked \/ page.reading >= page.heard
    /\ page.reading # NoRender => page.reading >= page.shown
    /\ \A c \in 1..change : c \in unsent \cup wire \cup missed \/ c <= page.shown \/ c <= page.heard
=============================================================================
