----------------------------- MODULE CustomerPage -----------------------------
(***************************************************************************)
(* The terminal's one screen (public/app.js) in front of the session       *)
(* manager: it sends the customer's requests one at a time, and follows a  *)
(* stream of display events by which the server tells it of presented      *)
(* cards.  The stream may break and is opened again, from the last event   *)
(* the page has handled.  The server runs without development controls,    *)
(* and nobody but the page sends requests.                                 *)
(***************************************************************************)
EXTENDS TerminalSessions, FiniteSetsExt

CONSTANTS
    HistoryLimit,  \* the events the server keeps for a page that reconnects
    MaxEvents,     \* bound: events ever published
    MaxFaults,     \* bound: broken streams and requests, reloads of the page
    PageSessions,  \* bound: the sessions started at this terminal
    NoSession

ASSUME PageAssumption ==
    /\ {HistoryLimit, MaxEvents} \subseteq Nat \ {0}
    /\ MaxFaults \in Nat
    /\ PageSessions \subseteq Sessions /\ NoSession \notin Sessions

VARIABLES
    page,        \* state.stage, state.sessionId and the id of state.prompt
    call,        \* the page's request: sent, awaited by a state(), or replied
    published,   \* the display events; their sequence numbers are their indices
    stream,      \* the EventSource: open?, the last event handled, the next one
    faults

pageVars == <<page, call, published, stream, faults>>
allVars == <<vars, pageVars>>

Page(stage, s, n) == [stage |-> stage, session |-> s, prompt |-> n]
Call(phase, s, n) == [phase |-> phase, session |-> s, prompt |-> n]
NoCall == Call("none", NoSession, 0)
Failed(s) == Call("failed", s, 0)
DisplayEvent(type, s, n) == [type |-> type, session |-> s, prompt |-> n]

\* A stream that has yet to be opened for the first time.
NewStream == [open |-> FALSE, last |-> 0, next |-> 0]

PageInit ==
    /\ Init
    /\ page = Page("boot", NoSession, 0)
    /\ call = NoCall
    /\ published = <<>>
    /\ stream = NewStream
    /\ faults = 0
-----------------------------------------------------------------------------
\* The page's own doing; neither the server nor the stream notices.
Shows(p) ==
    /\ page' = p
    /\ UNCHANGED <<vars, published, stream, faults>>

\* initialize: loadCampaigns has ended.
CampaignsLoaded ==
    /\ page.stage = "boot"
    /\ Shows([page EXCEPT !.stage = "idle"])
    /\ UNCHANGED call

\* startSession: the buttons of the idle and the error screen.
StartSession ==
    /\ page.stage \in {"idle", "error"}
    /\ Shows([page EXCEPT !.stage = "processing"])
    /\ call' = Call("sent", NoSession, 0)

\* answer: a button of the prompt's screen.
AnswerShown ==
    /\ page.stage = "prompt"
    /\ Shows([page EXCEPT !.stage = "processing"])
    /\ call' = Call("sent", page.session, page.prompt)

\* The buttons of the result and the error screen that lead back.
Reset ==
    /\ page.stage \in {"result", "error"}
    /\ Shows(Page("idle", NoSession, 0))
    /\ UNCHANGED call

\* applyState, and showError for a reply that is none.
Reply ==
    /\ call.phase \in {"replied", "failed"}
    /\ call' = NoCall
    /\ Shows(IF call.phase = "failed" THEN [page EXCEPT !.stage = "error"]
             ELSE Page(IF call.prompt = 0 THEN "result" ELSE "prompt",
                       call.session, call.prompt))

\* fetch rejects: the connection broke, whatever the server does about it.
RequestBreaks ==
    /\ call.phase # "none" /\ faults < MaxFaults
    /\ page' = [page EXCEPT !.stage = "error"]
    /\ call' = NoCall
    /\ faults' = faults + 1
    /\ UNCHANGED <<vars, published, stream>>

\* The page is loaded again.
Reload ==
    /\ faults < MaxFaults
    /\ page' = Page("boot", NoSession, 0)
    /\ call' = NoCall
    /\ stream' = NewStream
    /\ faults' = faults + 1
    /\ UNCHANGED <<vars, published>>
-----------------------------------------------------------------------------
\* POST /api/session/start and /api/session/answer, up to the first await.
\* Past the bound on sessions every start is refused.
ServeRequest ==
    /\ call.phase = "sent"
    /\ UNCHANGED <<page, published, stream, faults>>
    /\ IF call.session = NoSession
       THEN \/ \E s \in PageSessions : Start(s) /\ call' = Call("awaited", s, 0)
            \/ /\ \/ Cardinality(live \ (Expired \cup Completed)) >= MaxSessions
                  \/ \A s \in PageSessions : flow[s] # "none"
               /\ call' = Failed(NoSession)
               /\ Refuse \/ UNCHANGED vars
       ELSE \/ Answer(call.session, call.prompt) /\ call' = Call("awaited", call.session, 0)
            \/ AnswerRefused(call.session) /\ call' = Failed(call.session)
            \/ /\ call.session \notin live \ Expired
               /\ call' = Failed(call.session)
               /\ Prune \/ (Expired = {} /\ UNCHANGED vars)

\* presentCard: a card starts a session, or there is one already.
CardPresented ==
    /\ Len(published) < MaxEvents
    /\ \/ \E s \in PageSessions :
             /\ PresentCard(s)
             /\ published' = Append(published, DisplayEvent("card-detected", s, 0))
       \/ /\ live \ (Expired \cup Completed) # {}
          /\ published' = Append(published, DisplayEvent("activation-failed", NoSession, 0))
          /\ Refuse \/ UNCHANGED vars
    /\ UNCHANGED <<page, call, stream, faults>>

\* The state() somebody awaits resumes: the page's request is replied to, and
\* presentCard publishes the first state of its session.
Resumes(s, n, ok) ==
    LET ofPage == call.phase = "awaited" /\ call.session = s
    IN  /\ call' = IF ~ofPage THEN call
                   ELSE IF ok THEN Call("replied", s, n) ELSE Failed(s)
        /\ published' = IF s \in display /\ s \in waiting /\ prompt[s] = 0
                        THEN Append(published, IF ok
                                 THEN DisplayEvent("session-started", s, n)
                                 ELSE DisplayEvent("activation-failed", NoSession, 0))
                        ELSE published

FlowGoesOn(s) ==
    /\ \/ FlowPrompts(s) /\ Resumes(s, prompt[s] + 1, TRUE)
       \/ FlowEnds(s) /\ UNCHANGED <<call, published>>
    /\ UNCHANGED <<page, stream, faults>>

FlowFlushed(s) ==
    /\ Flush(s)
    /\ Resumes(s, 0, flow'[s] = "flushed")
    /\ UNCHANGED <<page, stream, faults>>

SessionExpires ==
    /\ Prune \/ \E s \in PageSessions : TimePasses(s)
    /\ UNCHANGED pageVars
-----------------------------------------------------------------------------
\* The stream of display events.

\* The page connects: from now on it is sent what is published.
Connects(next) ==
    /\ ~stream.open
    /\ stream' = [stream EXCEPT !.open = TRUE, !.next = next]
    /\ UNCHANGED <<vars, page, call, published, faults>>

\* Faulty variants: nothing, or all of the history, is sent again.
OpenWithoutReplay == Connects(Len(published) + 1)
OpenWithHistory == Connects(Max({1, Len(published) - HistoryLimit + 1}))

\* GET /api/display-events: behind the display-ready frame, which bears no id,
\* a page that names its last event is sent the later ones of the history.
OpenStream ==
    Connects(IF stream.last = 0 THEN Len(published) + 1
             ELSE Max({stream.last + 1, Len(published) - HistoryLimit + 1}))

StreamBreaks ==
    /\ stream.open /\ faults < MaxFaults
    /\ stream' = [stream EXCEPT !.open = FALSE]
    /\ faults' = faults + 1
    /\ UNCHANGED <<vars, page, call, published>>

\* displayEvents.onmessage: cards are for a page that is not in use.
Display(event) ==
    LET next == CASE event.type = "card-detected" -> [page EXCEPT !.stage = "card-detected"]
                  [] event.type = "activation-failed" -> [page EXCEPT !.stage = "error"]
                  [] OTHER -> Page(IF event.prompt = 0 THEN "result" ELSE "prompt",
                                   event.session, event.prompt)
        free == {"boot", "idle"} \cup
                (IF event.type = "card-detected" THEN {} ELSE {"card-detected"})
    IN  IF page.stage \in free THEN next ELSE page

HandleEvent ==
    /\ stream.open /\ stream.next <= Len(published)
    /\ page' = Display(published[stream.next])
    /\ stream' = [stream EXCEPT !.last = stream.next, !.next = @ + 1]
    /\ UNCHANGED <<vars, call, published, faults>>
-----------------------------------------------------------------------------
PageNext ==
    \/ CampaignsLoaded \/ StartSession \/ AnswerShown \/ Reset \/ Reply
    \/ RequestBreaks \/ Reload \/ ServeRequest \/ CardPresented \/ SessionExpires
    \/ OpenStream \/ StreamBreaks \/ HandleEvent
    \/ \E s \in PageSessions : FlowGoesOn(s) \/ FlowFlushed(s)

\* Requests are served and replied to, flows go on and their journals are
\* flushed or fail, EventSource connects again and calls its handlers.
PageFairness ==
    /\ WF_allVars(ServeRequest) /\ WF_allVars(Reply)
    /\ WF_allVars(OpenStream) /\ WF_allVars(HandleEvent)
    /\ \A s \in PageSessions : WF_allVars(FlowGoesOn(s)) /\ WF_allVars(FlowFlushed(s))

PageSpec == PageInit /\ [][PageNext]_allVars /\ PageFairness
-----------------------------------------------------------------------------
\* The prompt on the screen is the one its session waits at, unless the session
\* has expired: an answer is refused only when the customer came too late.
ShownPromptIsPending ==
    page.stage = "prompt" /\ page.session \in live \ Expired =>
        flow[page.session] = "prompting" /\ prompt[page.session] = page.prompt

\* The screens without a button do not stay: neither a broken stream nor a
\* journal that cannot be written leaves the customer in front of them.  (The
\* boot screen is not among them: it lasts as long as loadCampaigns takes.)
PageNeverStuck == []<>(page.stage \notin {"card-detected", "processing"})
=============================================================================
