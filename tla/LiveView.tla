------------------------------ MODULE LiveView ------------------------------
(***************************************************************************)
(* A page that shows a run, beside the run itself.  The server announces   *)
(* what changes to the sockets that have joined the run's room, and the    *)
(* page fetches the run again for every announcement, after its own        *)
(* requests, and every ten seconds as long as what it shows is active.     *)
(* Sockets authenticate beside their first message, drop, come back or are *)
(* turned away; announcements are lost and responses overtake each other.  *)
(* What the run does is taken from RunLifecycle.                           *)
(***************************************************************************)
EXTENDS StepGraph, Naturals, Sequences, SequencesExt

CONSTANTS
  Steps, Deps, NeedsApproval,
  MaxFetches,  \* bound: requests of the page under way
  MaxChanges,  \* bound: changes of the run while the page is open
  MaxUpsets    \* bound: drops, crashes and failed fetches while the page is open

ASSUME PageAssumption ==
  /\ Deps \in [Steps -> SUBSET Steps]
  /\ MaxFetches \in Nat \ {0} /\ MaxChanges \in Nat /\ MaxUpsets \in Nat

VARIABLES
  runStatus, status,  \* in the database
  owed,      \* announcements the server has still to make of what it has committed
  link,      \* the page's socket
  asked,     \* its subscribe message is on the way
  bell,      \* announcements on the way to the page
  fetches,   \* requests of the page, oldest first: Asked, or the response on the way
  view,      \* run: what the page shows
  error,     \* the page shows an error instead
  mine,      \* the step the page's own request is about
  lost,      \* history: an announcement was not made or missed the open page, or a response failed
             \* or was overtaken
  changes, upsets

server == <<runStatus, status, owed>>
socket == <<link, asked, bell>>
page   == <<fetches, view, error, mine>>
vars   == <<server, socket, page, lost, changes, upsets>>

Run == INSTANCE RunLifecycle

NoStep == "none"

Server == [run |-> runStatus, steps |-> status]
NoView == [run |-> "none", steps |-> [s \in Steps |-> "pending"]]
Asked  == [run |-> "asked", steps |-> [s \in Steps |-> "pending"]]

Open     == link # "unopened"
Changed  == {s \in Steps : status'[s] # status[s]}
Upset    == upsets < MaxUpsets /\ upsets' = upsets + 1
Fetch    == Len(fetches) < MaxFetches /\ fetches' = Append(fetches, Asked)

IsActive(v) ==
  v.run = "running" \/ \E s \in Steps : v.steps[s] \in {"running", "awaiting_approval"}

Init ==
  /\ Run!Init /\ owed = {}
  /\ link = "unopened" /\ asked = FALSE /\ bell = FALSE
  /\ fetches = <<>> /\ view = NoView /\ error = FALSE /\ mine = NoStep
  /\ lost = FALSE /\ changes = 0 /\ upsets = 0

-----------------------------------------------------------------------------
(* The run, and what of it is announced.                                   *)

\* What a change of the run leaves alone; it counts while somebody looks.
Quietly ==
  /\ IF Open THEN changes < MaxChanges /\ changes' = changes + 1 ELSE UNCHANGED changes
  /\ UNCHANGED <<socket, fetches, view, error, lost, upsets>>

\* Nobody announces that a run starts, that a step fails (step:error comes before the write) or
\* is reset by a recovery, or that the last step completes the run.
Start    == Run!Start /\ Quietly /\ UNCHANGED <<owed, mine>>
Undo     == Run!Undo /\ Quietly /\ UNCHANGED <<owed, mine>>
Complete == Run!Complete /\ Quietly /\ UNCHANGED <<owed, mine>>

\* The job of a step announces it when it is taken.
Launch ==
  /\ Run!Launch /\ Quietly
  /\ owed' = owed \cup (Changed \X {"started"})
  /\ UNCHANGED mine

Requeue ==
  /\ Run!Requeue /\ Quietly
  /\ owed' = owed \ (Changed \X {"started"})
  /\ UNCHANGED mine

\* A job that finishes or fails has announced itself before.
Fail ==
  /\ Run!Fail /\ Quietly
  /\ owed \cap (Changed \X {"started"}) = {}
  /\ UNCHANGED <<owed, mine>>

Finish ==
  /\ Run!Finish /\ Quietly
  /\ owed \cap (Changed \X {"started"}) = {}
  /\ owed' = owed \cup (Changed \X {"completed"})
  /\ UNCHANGED mine

\* Requests announce what they did when all of it is done; the page makes some of them.
Requested == \E s \in Changed :
  /\ owed' = owed \cup {<<s, "requested">>}
  /\ mine' \in {mine} \cup IF Open /\ mine = NoStep THEN {s} ELSE {}

Approve == Run!Approve /\ Quietly /\ Requested

Decline ==
  /\ Run!Decline /\ Quietly
  /\ owed' = owed \cup (Changed \X {"requested"})
  /\ UNCHANGED mine

\* Mutant: the announcement forgotten.
RerunUnannounced == Run!Rerun /\ Quietly /\ UNCHANGED <<owed, mine>>

Rerun == Run!Rerun /\ Quietly /\ Requested

\* The processor announces the end of a run it gives up, the reconciliation does not.
Abandon ==
  /\ Run!Abandon /\ Quietly
  /\ \/ owed' = owed \cup {<<"run", "completed">>}
     \/ runStatus = "running" /\ UNCHANGED owed
  /\ UNCHANGED mine

-----------------------------------------------------------------------------
(* The gateway and the socket.                                             *)

\* An announcement goes to the sockets in the room at that moment; nothing keeps it for others.
Emit(e) ==
  /\ e \in owed /\ owed' = owed \ {e}
  /\ bell' = (bell \/ link = "joined")
  /\ lost' = (lost \/ (Open /\ link # "joined"))
  /\ UNCHANGED <<runStatus, status, link, asked, page, changes, upsets>>

\* A job that fails, to be retried or not, announces an error, and a start when it is taken again.
Chatter ==
  /\ link = "joined" /\ Upset /\ bell' = TRUE
  /\ \E s \in Steps : status[s] = "running"
  /\ UNCHANGED <<server, link, asked, page, lost, changes>>

\* The page subscribes as soon as it is connected, while handleConnection verifies its token.
Connect ==
  /\ link = "down"
  /\ link' = "connected" /\ asked' = TRUE
  /\ UNCHANGED <<server, bell, page, lost, changes, upsets>>

Authenticate ==
  /\ link = "connected" /\ link' = "authenticated"
  /\ UNCHANGED <<server, asked, bell, page, lost, changes, upsets>>

\* The page's token is the one it was opened with, for as long as it lives.  A socket the server
\* disconnects does not reconnect.
Reject ==
  /\ link = "connected" /\ link' = "dead" /\ asked' = FALSE
  /\ UNCHANGED <<server, bell, page, lost, changes, upsets>>

\* A subscription that comes before the end of the authentication, or while the run cannot be
\* read, is ignored, and not asked for again.
HandleSubscribe ==
  /\ asked /\ link \in {"connected", "authenticated"}
  /\ asked' = FALSE
  /\ \/ link = "authenticated" /\ link' = "joined" /\ UNCHANGED upsets
     \/ link = "connected" /\ UNCHANGED <<link, upsets>>
     \/ link = "authenticated" /\ Upset /\ UNCHANGED link
  /\ UNCHANGED <<server, bell, page, lost, changes>>

Disconnect == link' = "down" /\ asked' = FALSE /\ bell' = FALSE

Drop ==
  /\ link \in {"connected", "authenticated", "joined"} /\ Upset /\ Disconnect
  /\ lost' = (lost \/ bell)
  /\ UNCHANGED <<server, page, changes>>

\* reconnectionAttempts are used up.
GiveUp ==
  /\ link = "down" /\ link' = "dead"
  /\ UNCHANGED <<server, asked, bell, page, lost, changes, upsets>>

\* A crash of the server takes with it what it had still to announce.
Crash ==
  /\ Open /\ Upset
  /\ IF link = "dead" THEN UNCHANGED socket ELSE Disconnect
  /\ owed' = {} /\ lost' = (lost \/ bell \/ owed # {})
  /\ mine' = NoStep
  /\ UNCHANGED <<runStatus, status, fetches, view, error, changes>>

-----------------------------------------------------------------------------
(* The page.                                                               *)

Mount ==
  /\ ~Open /\ link' = "down" /\ Fetch
  /\ UNCHANGED <<server, asked, bell, view, error, mine, lost, changes, upsets>>

Receive ==
  /\ bell /\ Fetch /\ bell' = FALSE
  /\ UNCHANGED <<server, link, asked, view, error, mine, lost, changes, upsets>>

\* Mutant: polled while there is no connection.
PollWhenDown ==
  /\ IsActive(view) /\ link \in {"down", "dead"} /\ Fetch
  /\ UNCHANGED <<server, socket, view, error, mine, lost, changes, upsets>>

Poll ==
  /\ IsActive(view) /\ Fetch
  /\ UNCHANGED <<server, socket, view, error, mine, lost, changes, upsets>>

\* The page's own request has returned, or its response was lost: then the page does not fetch.
Respond ==
  /\ mine # NoStep /\ owed \cap ({mine} \X {"requested"}) = {}
  /\ (Fetch \/ UNCHANGED fetches) /\ mine' = NoStep
  /\ UNCHANGED <<server, socket, view, error, lost, changes, upsets>>

\* What a request does after its commit throws, enqueuePendingSteps most of all: nothing is
\* announced, and the page whose request it is catches the error and does not fetch either.  Nothing
\* follows the commit of a decision against a step.
RequestFails == \E s \in Steps :
  /\ Open /\ status[s] \notin {"revision_requested", "rejected"}
  /\ <<s, "requested">> \in owed /\ owed' = owed \ {<<s, "requested">>}
  /\ lost' = TRUE /\ mine' = (IF s = mine THEN NoStep ELSE mine)
  /\ UNCHANGED <<runStatus, status, socket, fetches, view, error, changes, upsets>>

\* getRun reads the run and its steps in one query.
Serve(i) ==
  /\ fetches[i] = Asked
  /\ fetches' = [fetches EXCEPT ![i] = Server]
  /\ UNCHANGED <<server, socket, view, error, mine, lost, changes, upsets>>

\* Whichever response arrives is shown, also when an older one is still to come.
Arrive(i) ==
  /\ fetches[i] # Asked
  /\ view' = fetches[i] /\ error' = FALSE
  /\ fetches' = RemoveAt(fetches, i)
  /\ lost' = (lost \/ i > 1)
  /\ UNCHANGED <<server, socket, mine, changes, upsets>>

FetchFails(i) ==
  /\ Upset /\ fetches' = RemoveAt(fetches, i)
  /\ error' = TRUE /\ lost' = TRUE
  /\ UNCHANGED <<server, socket, view, mine, changes>>

-----------------------------------------------------------------------------

Emits  == \E e \in owed : Emit(e)
Serves == \E i \in DOMAIN fetches : Serve(i)
Shows  == \E i \in DOMAIN fetches : Arrive(i)
Fails  == \E i \in DOMAIN fetches : FetchFails(i)

Next ==
  \/ Start \/ Undo \/ Launch \/ Requeue \/ Fail \/ Finish
  \/ Approve \/ Decline \/ Rerun \/ Complete \/ Abandon
  \/ Emits \/ Chatter \/ Connect \/ Authenticate \/ Reject \/ HandleSubscribe
  \/ Drop \/ GiveUp \/ Crash
  \/ Mount \/ Receive \/ Poll \/ Respond \/ RequestFails \/ Serves \/ Shows \/ Fails

\* What the server has to announce it announces, messages and requests are delivered or fail, and
\* the interval ticks.  Nobody owes a change of the run, or a connection.
Fairness ==
  /\ WF_vars(Emits) /\ WF_vars(Receive) /\ WF_vars(Poll) /\ WF_vars(Respond)
  /\ WF_vars(Serves) /\ WF_vars(Shows)

Spec == Init /\ [][Next]_vars /\ Fairness

-----------------------------------------------------------------------------

\* Without any socket, and whatever was lost, failed or overtaken, a page that goes on showing
\* something active shows what is so: a step it shows at work is at work.
ActiveViewConverges == <>[](IsActive(view) => view = Server /\ ~error)

\* A page that missed nothing, not even the announcement of a request that failed after its write,
\* comes to show the steps as they are, inactive or not, although some changes are announced before
\* they are written and some never, and although its own request may fail: the polls make up for it.
HeardConverges == <>[](Open /\ ~lost => view.steps = status /\ ~error)

=============================================================================
