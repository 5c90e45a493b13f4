----------------------------- MODULE Workspace -----------------------------
(***************************************************************************)
(* A project's workspace page (packages/web/app/projects/[id]/page.tsx):   *)
(* it reads the project, its sources and its deck once, uploads, orders,   *)
(* polls a job, and manages the share link.  A call reads or changes the   *)
(* rows when the server serves it; its answer changes the page when it     *)
(* lands, whatever else was asked or has landed by then.                    *)
(***************************************************************************)
EXTENDS Naturals, FiniteSets

CONSTANTS
    Uploads,            \* presses of the upload button, each with another file
    Orders,             \* presses of "create" and "retry"
    Shares,             \* presses of the share section, records: action
    Visits,             \* records: the presses of a visit to the page, and what it
                        \* asked when it opened and still waits for
    Mount,              \* who asks when the page opens
    MaxJobs

ASSUME WorkspaceAssumption ==
    /\ \A s \in Shares : s.action \in {"enable", "rotate", "disable"}
    /\ \A v \in Visits :
        /\ v.presses \subseteq Uploads \cup Orders \cup Shares
        /\ v.awaits \subseteq {"project", "sources", "deck", "poll"}
    /\ MaxJobs \in Nat \ {0}
    /\ Mount \notin Uploads \cup Orders

VARIABLES
    kept,               \* the server: the uploads with a sources row
    link, minted,       \* the share token, how many were minted
    work,               \* the status of each job
    calls, answers,     \* requests on their way, answers on theirs
    timers,             \* the polling chains that wait for POLL_INTERVAL_MS
    pageSources,        \* the page: what it shows as sources,
    pageReady,          \* whether it has any list of them,
    pageLink, pageJob, pageDeck,
    asked,              \* the presses made, or not part of the visit
    lost,               \* the topics of which a call failed
    doubled             \* the topics asked about while an answer was due

serverVars == <<kept, link, minted, work>>
pageVars == <<pageSources, pageReady, pageLink, pageJob, pageDeck>>
wireVars == <<calls, answers, timers, lost, doubled>>
workspaceVars == <<serverVars, wireVars, pageVars, asked>>

Jobs == 1..MaxJobs
Active == {"queued", "processing"}
Statuses == Active \cup {"none", "completed", "failed"}

Topic == [project |-> "link", share |-> "link", sources |-> "sources", upload |-> "sources",
          order |-> "job", poll |-> "job", deck |-> "deck"]
Topics == {"link", "sources", "job", "deck"}

\* Who asked, and for a poll which job.
Request(what, by, job) == [what |-> what, by |-> by, job |-> job]

\* What an answer says: of each kind what it asks for, nothing of the rest.
JobView == [job : 0..MaxJobs, status : Statuses]
NoJob == [job |-> 0, status |-> "none"]
Silent == [sources |-> {}, link |-> 0, view |-> NoJob, deck |-> FALSE]

Call == [what : DOMAIN Topic, by : Uploads \cup Orders \cup Shares \cup {Mount}, job : 0..MaxJobs]
Says == [sources : SUBSET Uploads, link : Nat, view : JobView, deck : BOOLEAN]

WorkspaceTypeOK ==
    /\ kept \subseteq Uploads
    /\ link \in Nat /\ minted \in Nat
    /\ work \in [Jobs -> Statuses]
    /\ calls \subseteq Call /\ answers \subseteq [call : Call, says : Says]
    /\ timers \subseteq [by : Orders \cup {Mount}, job : Jobs]
    /\ pageSources \subseteq Uploads
    /\ pageReady \in BOOLEAN /\ pageDeck \in BOOLEAN
    /\ pageLink \in Nat /\ pageJob \in JobView
    /\ asked \subseteq Uploads \cup Orders \cup Shares
    /\ lost \subseteq Topics /\ doubled \subseteq Topics

\* The page was opened on a project in any state; /new leads here with its job in the
\* URL.  What is not awaited any more has been shown.
WorkspaceInit ==
    \E visit \in Visits :
        /\ asked = (Uploads \cup Orders \cup Shares) \ visit.presses
        /\ kept \in {{}, Uploads \ visit.presses}
        /\ link \in {0, 1} /\ minted = link
        /\ \E status \in Statuses :
            /\ work = [j \in Jobs |-> IF j = 1 THEN status ELSE "none"]
            /\ pageDeck = ("deck" \notin visit.awaits /\ status = "completed")
            /\ calls = {Request(what, Mount, 0) : what \in visit.awaits \ {"poll"}}
                \cup (IF "poll" \in visit.awaits /\ status # "none"
                      THEN {Request("poll", Mount, 1)} ELSE {})
        /\ pageReady = ("sources" \notin visit.awaits)
        /\ pageSources = IF "sources" \in visit.awaits THEN {} ELSE kept
        /\ pageLink = IF "project" \in visit.awaits THEN 0 ELSE link
        /\ pageJob = NoJob
        /\ answers = {} /\ timers = {}
        /\ lost = {} /\ doubled = {}

-----------------------------------------------------------------------------

CallsAbout(t) == {c \in calls : Topic[c.what] = t}
AnswersAbout(t) == {a \in answers : Topic[a.call.what] = t}
Pending(t) ==
    CallsAbout(t) # {} \/ AnswersAbout(t) # {} \/ (t = "job" /\ timers # {})

\* What an answer leads to.
Asks(new) == calls' = calls \cup new /\ UNCHANGED doubled

Answers(c, says) ==
    /\ calls' = calls \ {c}
    /\ answers' = answers \cup {[call |-> c, says |-> says]}
    /\ UNCHANGED <<timers, pageVars, asked, lost, doubled>>

-----------------------------------------------------------------------------
(* The server.                                                             *)

HasDeck == \E j \in Jobs : work[j] = "completed"
ActiveJobs == {j \in Jobs : work[j] \in Active}
NextJob(j) == work[j] = "none" /\ \A i \in 1..(j - 1) : work[i] # "none"

ServeProject(c) ==
    /\ c.what = "project"
    /\ Answers(c, [Silent EXCEPT !.link = link])
    /\ UNCHANGED serverVars

ServeSources(c) ==
    /\ c.what = "sources"
    /\ Answers(c, [Silent EXCEPT !.sources = kept])
    /\ UNCHANGED serverVars

ServeDeck(c) ==
    /\ c.what = "deck"
    /\ Answers(c, [Silent EXCEPT !.deck = HasDeck])
    /\ UNCHANGED serverVars

ServePoll(c) ==
    /\ c.what = "poll"
    /\ Answers(c, [Silent EXCEPT !.view = [job |-> c.job, status |-> work[c.job]]])
    /\ UNCHANGED serverVars

ServeUpload(c) ==
    /\ c.what = "upload"
    /\ kept' = kept \cup {c.by}
    /\ Answers(c, Silent)
    /\ UNCHANGED <<link, minted, work>>

\* An active job is answered instead of a new one.
ServeOrder(c) ==
    /\ c.what = "order"
    /\ \E j \in Jobs :
        /\ IF ActiveJobs # {} THEN j \in ActiveJobs /\ UNCHANGED work
           ELSE NextJob(j) /\ work' = [work EXCEPT ![j] = "queued"]
        /\ Answers(c, [Silent EXCEPT !.view = [job |-> j, status |-> work'[j]]])
    /\ UNCHANGED <<kept, link, minted>>

ServeShare(c) ==
    /\ c.what = "share"
    /\ IF c.by.action = "disable" THEN link' = 0 /\ UNCHANGED minted
       ELSE IF c.by.action = "enable" /\ link # 0 THEN UNCHANGED <<link, minted>>
       ELSE link' = minted + 1 /\ minted' = minted + 1
    /\ Answers(c, [Silent EXCEPT !.link = link'])
    /\ UNCHANGED <<kept, work>>

Serve(c) ==
    \/ ServeProject(c) \/ ServeSources(c) \/ ServeDeck(c) \/ ServePoll(c)
    \/ ServeUpload(c) \/ ServeOrder(c) \/ ServeShare(c)

WorkerMoves(j, from, to) ==
    /\ work[j] = from
    /\ work' = [work EXCEPT ![j] = to]
    /\ UNCHANGED <<kept, link, minted, wireVars, pageVars, asked>>

\* A request that does not arrive, an answer that is an error or is lost; one per visit
\* is enough, what was lost stays unknown.
CallFails(c) ==
    /\ lost = {}
    /\ calls' = calls \ {c}
    /\ lost' = lost \cup {Topic[c.what]}
    /\ UNCHANGED <<serverVars, answers, timers, pageVars, asked, doubled>>

AnswerFails(a) ==
    /\ lost = {}
    /\ answers' = answers \ {a}
    /\ lost' = lost \cup {Topic[a.call.what]}
    /\ UNCHANGED <<serverVars, calls, timers, pageVars, asked, doubled>>

-----------------------------------------------------------------------------
(* Answers land.                                                           *)

Lands(a, what) == a.call.what = what /\ answers' = answers \ {a}

AsksNothing == Asks({})

\* loadProject; manageShare's answer
ShowLink(a) ==
    /\ Lands(a, "project") \/ Lands(a, "share")
    /\ pageLink' = a.says.link
    /\ AsksNothing
    /\ UNCHANGED <<serverVars, timers, pageSources, pageReady, pageJob, pageDeck, asked, lost>>

ShowSources(a) ==
    /\ Lands(a, "sources")
    /\ pageSources' = a.says.sources /\ pageReady' = TRUE
    /\ AsksNothing
    /\ UNCHANGED <<serverVars, timers, pageLink, pageJob, pageDeck, asked, lost>>

\* A 404 leaves the page as it is.
ShowDeck(a) ==
    /\ Lands(a, "deck")
    /\ pageDeck' = (pageDeck \/ a.says.deck)
    /\ AsksNothing
    /\ UNCHANGED <<serverVars, timers, pageSources, pageReady, pageLink, pageJob, asked, lost>>

\* Mutant: the list is not read again after an upload.
UploadDone_NoRefresh(a) ==
    /\ Lands(a, "upload")
    /\ AsksNothing
    /\ UNCHANGED <<serverVars, timers, pageVars, asked, lost>>

UploadDone(a) ==
    /\ Lands(a, "upload")
    /\ Asks({Request("sources", a.call.by, 0)})
    /\ UNCHANGED <<serverVars, timers, pageVars, asked, lost>>

\* onEnqueue shows the job and polls it.
OrderDone(a) ==
    /\ Lands(a, "order")
    /\ pageJob' = a.says.view
    /\ Asks({Request("poll", a.call.by, a.says.view.job)})
    /\ UNCHANGED <<serverVars, timers, pageSources, pageReady, pageLink, pageDeck, asked, lost>>

\* pollJob
PollDone(a) ==
    /\ Lands(a, "poll")
    /\ pageJob' = a.says.view
    /\ timers' = timers \cup (IF a.says.view.status \in Active
                              THEN {[by |-> a.call.by, job |-> a.call.job]} ELSE {})
    /\ IF a.says.view.status = "completed"
       THEN Asks({Request("deck", a.call.by, 0)}) ELSE AsksNothing
    /\ UNCHANGED <<serverVars, pageSources, pageReady, pageLink, pageDeck, asked, lost>>

Tick(t) ==
    /\ timers' = timers \ {t}
    /\ Asks({Request("poll", t.by, t.job)})
    /\ UNCHANGED <<serverVars, answers, pageVars, asked, lost>>

-----------------------------------------------------------------------------
(* The user.                                                               *)

Press(what, by) ==
    /\ by \notin asked /\ asked' = asked \cup {by}
    /\ calls' = calls \cup {Request(what, by, 0)}
    /\ doubled' = doubled \cup {t \in {Topic[what]} : Pending(t)}
    /\ UNCHANGED <<serverVars, answers, timers, pageVars, lost>>

InFlightCall(what) ==
    (\E c \in calls : c.what = what) \/ \E a \in answers : a.call.what = what

OnUpload(u) == Press("upload", u) /\ ~InFlightCall("upload")

\* The start button waits for the order's answer, a failed step's retry icon does not.
OnEnqueue(o) ==
    /\ pageReady
    /\ \/ pageJob.job = 0 /\ pageSources # {} /\ ~InFlightCall("order")
       \/ pageJob.status = "failed"
    /\ Press("order", o)

\* Which buttons there are depends on the link that is shown.
OnShare(s) ==
    /\ pageDeck
    /\ (s.action = "enable") = (pageLink = 0)
    /\ Press("share", s)

WorkspaceStep ==
    \/ \E c \in calls : Serve(c) \/ CallFails(c)
    \/ \E a \in answers :
        \/ ShowLink(a) \/ ShowSources(a) \/ ShowDeck(a)
        \/ UploadDone(a) \/ OrderDone(a) \/ PollDone(a)
        \/ AnswerFails(a)
    \/ \E t \in timers : Tick(t)
    \/ \E j \in Jobs :
        \/ WorkerMoves(j, "queued", "processing")
        \/ WorkerMoves(j, "processing", "completed") \/ WorkerMoves(j, "processing", "failed")
    \/ (\E u \in Uploads : OnUpload(u)) \/ (\E o \in Orders : OnEnqueue(o))
    \/ \E s \in Shares : OnShare(s)

-----------------------------------------------------------------------------

\* Nothing about it is on its way, no call about it failed, and no two were on their
\* way together, whose answers land in any order.
Settled(t) == ~Pending(t) /\ t \notin lost /\ t \notin doubled

\* "watch progress by polling, then the delivered deck inline": once nothing about it
\* is under way, the page shows the sources and the share link that are stored; a job
\* it shows is over, shown with its final status and the last that was ordered; and
\* a completed one is shown with its deck.
WorkspaceSettles ==
    /\ Settled("sources") => pageReady /\ pageSources = kept
    /\ Settled("link") => pageLink = link
    /\ Settled("job") /\ pageJob.job # 0 =>
        /\ pageJob.status = work[pageJob.job] /\ pageJob.status \notin Active
        /\ \A j \in Jobs : j > pageJob.job => work[j] = "none"
        /\ pageJob.status = "completed" /\ Settled("deck") => pageDeck
=============================================================================
