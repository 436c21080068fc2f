------------------------------ MODULE DraftSync ------------------------------
(***************************************************************************)
(* The draft of one participant session between the pages that answer it   *)
(* (useDraftAutoSave, useSessionStore) and the server (save_draft). A page *)
(* is one load of the study: the tab the session began in, or another tab  *)
(* or device that resumed it. Saves and their replies travel on their own: *)
(* they are delayed, overtake each other, are repeated by the browser and  *)
(* get lost in an outage. Answers are numbered as they are given.          *)
(***************************************************************************)
EXTENDS SessionRules

CONSTANTS
    Pages, First,       \* the pages; First is the one that consented
    Events,             \* what happens besides answering and saving
    MaxAnswers,         \* bound on the answers given
    MaxHides,           \* bound on the pagehide and beforeunload events
    MaxOutages          \* bound on the network outages

ASSUME DraftSyncAssumption ==
    /\ First \in Pages
    /\ Events \subseteq {"hide", "reload", "submit", "withdraw", "resume"}
    /\ MaxAnswers \in Nat /\ MaxHides \in Nat /\ MaxOutages \in Nat

VARIABLES
    page,       \* page[p]: the stores and refs of page p
    online,     \* online[p]: the page has a network
    saves,      \* the save-draft requests that have not settled
    stored,     \* the server's row: draft, draft_revision, completed
    accepted,   \* history: the answers of the last save accepted from p
    count       \* answers, hides and outages so far

vars == <<page, online, saves, stored, accepted, count>>

Revisions == Nat

\* live: the page has a token and is not completed. last: how the latest
\* save came about ("left" by a flush or a reload, "skipped" for a submission).
Page == [live : BOOLEAN, answers : 0..MaxAnswers, draftRevision : Revisions,
         timer : BOOLEAN, pending : BOOLEAN, isSubmitting : BOOLEAN,
         last : {"none", "save", "left", "skipped"}]

NewPage == [live |-> FALSE, answers |-> 0, draftRevision |-> 0, timer |-> FALSE,
            pending |-> FALSE, isSubmitting |-> FALSE, last |-> "none"]

\* hit: an outage may have taken the request or its reply.
Save == [page : Pages, rev : Revisions, answers : 0..MaxAnswers,
         flush : BOOLEAN, hit : BOOLEAN, stage : {"sent", "ok", "failed"}]

TypeOK ==
    /\ page \in [Pages -> Page]
    /\ online \in [Pages -> BOOLEAN]
    /\ saves \subseteq Save
    /\ stored \in [rev : Revisions \cup {None}, draft : (0..MaxAnswers) \cup {None},
                   completed : BOOLEAN]
    /\ accepted \in [Pages -> 0..MaxAnswers]
    /\ count \in [answers : 0..MaxAnswers, hides : 0..MaxHides, outages : 0..MaxOutages]

Init ==
    /\ page = [p \in Pages |-> [NewPage EXCEPT !.live = (p = First)]]
    /\ online = [p \in Pages |-> TRUE]
    /\ saves = {}
    /\ stored = [rev |-> None, draft |-> None, completed |-> FALSE]
    /\ accepted = [p \in Pages |-> 0]
    /\ count = [answers |-> 0, hides |-> 0, outages |-> 0]

-----------------------------------------------------------------------------
(* The page                                                                *)

\* getDraftSaveToken: the session may be saved now.
MaySave(p) == page[p].live /\ ~page[p].isSubmitting

nextDraftRevision(p) == page[p].draftRevision + 1

\* The save of the current answers, under the next revision.
Request(p, flush) ==
    [page |-> p, rev |-> nextDraftRevision(p), answers |-> page[p].answers,
     flush |-> flush, hit |-> ~online[p], stage |-> "sent"]

\* sendDraft, called by the timer or by the online event, whichever cleared
\* the timer.
SendDraft(p) ==
    IF MaySave(p)
    THEN /\ saves' = saves \cup {Request(p, FALSE)}
         /\ page' = [page EXCEPT ![p].timer = FALSE, ![p].last = "save",
                                 ![p].draftRevision = nextDraftRevision(p)]
    ELSE /\ page' = [page EXCEPT ![p].timer = FALSE, ![p].last = "skipped"]
         /\ UNCHANGED saves

\* The participant answers: the response store changes, and the timer is set.
Answer(p) ==
    /\ page[p].live
    /\ count.answers < MaxAnswers
    /\ count' = [count EXCEPT !.answers = @ + 1]
    /\ page' = [page EXCEPT ![p].answers = count.answers + 1,
                            ![p].timer = @ \/ MaySave(p),
                            ![p].last = IF MaySave(p) THEN @ ELSE "skipped"]
    /\ UNCHANGED <<online, saves, stored, accepted>>

Timer(p) ==
    /\ page[p].timer
    /\ SendDraft(p)
    /\ UNCHANGED <<online, stored, accepted, count>>

GoOnline(p) ==
    /\ ~online[p]
    /\ online' = [online EXCEPT ![p] = TRUE]
    /\ IF page[p].pending THEN SendDraft(p) ELSE UNCHANGED <<page, saves>>
    /\ UNCHANGED <<stored, accepted, count>>

\* Whatever is under way may be lost.
GoOffline(p) ==
    /\ online[p]
    /\ count.outages < MaxOutages
    /\ count' = [count EXCEPT !.outages = @ + 1]
    /\ online' = [online EXCEPT ![p] = FALSE]
    /\ saves' = {[s EXCEPT !.hit = @ \/ s.page = p] : s \in saves}
    /\ UNCHANGED <<page, stored, accepted>>

\* beforeunload, pagehide, or the flush on unmount. The page may come back:
\* the unload is cancelled, or the page is restored as it was.
Hide(p) ==
    /\ "hide" \in Events
    /\ page[p].live
    /\ count.hides < MaxHides
    /\ count' = [count EXCEPT !.hides = @ + 1]
    /\ IF MaySave(p)
       THEN /\ saves' = saves \cup {Request(p, TRUE)}
            /\ page' = [page EXCEPT ![p].timer = FALSE, ![p].last = "left",
                                    ![p].draftRevision = nextDraftRevision(p)]
       ELSE /\ page' = [page EXCEPT ![p].timer = FALSE, ![p].last = "left"]
            /\ UNCHANGED saves
    /\ UNCHANGED <<online, stored, accepted>>

\* The page is loaded again, after a hide or a crash: what is persisted in
\* localStorage is the answers and the revision, and nobody waits for the
\* replies to the earlier saves.
Reload(p) ==
    /\ "reload" \in Events
    /\ page[p].live
    /\ page' = [page EXCEPT ![p] = [NewPage EXCEPT
                  !.live = TRUE, !.answers = page[p].answers, !.last = "left",
                  !.draftRevision = page[p].draftRevision]]
    /\ saves' = {[s EXCEPT !.flush = @ \/ s.page = p] : s \in saves}
    /\ UNCHANGED <<online, stored, accepted, count>>

\* Faulty: any success settles what is owed.
BugIsNewest(s) == page[s.page].live /\ ~s.flush

\* The handlers of sendDraft only listen to the reply to the newest save.
IsNewest(s) ==
    /\ page[s.page].live /\ ~s.flush
    /\ page[s.page].draftRevision = s.rev

\* Faulty: a failed save is dropped.
BugOwesNothing(s) == FALSE

Owes(s) == s.stage = "failed"

Settle(s) ==
    /\ s.stage \in {"ok", "failed"}
    /\ saves' = saves \ {s}
    /\ page' = IF IsNewest(s)
               THEN [page EXCEPT ![s.page].pending = Owes(s)]
               ELSE page
    /\ UNCHANGED <<online, stored, accepted, count>>

-----------------------------------------------------------------------------
(* The network and the server                                              *)

\* save_draft, for an active study. The browser may repeat the request when
\* the connection breaks before the reply.
Deliver(s) ==
    LET verdict == IF stored.completed THEN "refused"
                   ELSE DraftVerdict(stored.rev, stored.draft, s.rev, s.answers)
        reply == IF verdict \in {"accept", "same"} THEN "ok" ELSE "failed" IN
    /\ s.stage = "sent"
    /\ online[s.page]
    /\ \E stage \in {reply, "sent"} : saves' = (saves \ {s}) \cup {[s EXCEPT !.stage = stage]}
    /\ IF verdict = "accept"
       THEN /\ stored' = [stored EXCEPT !.rev = s.rev, !.draft = s.answers]
            /\ accepted' = [accepted EXCEPT ![s.page] = s.answers]
       ELSE UNCHANGED <<stored, accepted>>
    /\ UNCHANGED <<page, online, count>>

\* An outage took the request, or the reply to it.
Lose(s) ==
    /\ s.hit /\ s.stage # "failed"
    /\ saves' = (saves \ {s}) \cup {[s EXCEPT !.stage = "failed"]}
    /\ UNCHANGED <<page, online, stored, accepted, count>>

\* withdraw_draft: the draft goes, the watermark stays.
Withdraw ==
    /\ "withdraw" \in Events
    /\ ~stored.completed
    /\ stored' = [stored EXCEPT !.draft = None]
    /\ UNCHANGED <<page, online, saves, accepted, count>>

\* Faulty: a row without a revision is not given one.
BugResumedRevision == stored.rev

ResumedRevision == IF stored.rev = None THEN 0 ELSE stored.rev

\* Another page resumes the session, from the draft on the server.
Resume(p) ==
    LET answers == IF stored.draft = None THEN 0 ELSE stored.draft IN
    /\ "resume" \in Events
    /\ p # First /\ page[p] = NewPage
    /\ ~stored.completed
    /\ page' = [page EXCEPT ![p] = [NewPage EXCEPT !.live = TRUE, !.answers = answers,
                  !.draftRevision = ResumedRevision]]
    /\ accepted' = [accepted EXCEPT ![p] = answers]
    /\ UNCHANGED <<online, saves, stored, count>>

\* The final submission (useSubmitStudy) holds the drafts back.
BeginSubmit(p) ==
    /\ "submit" \in Events
    /\ MaySave(p)
    /\ page' = [page EXCEPT ![p].isSubmitting = TRUE]
    /\ UNCHANGED <<online, saves, stored, accepted, count>>

\* It fails on its way there, on its way back, or succeeds.
EndSubmit(p, arrives, succeeds) ==
    /\ page[p].isSubmitting
    /\ succeeds => arrives
    /\ arrives => online[p]
    /\ stored' = IF arrives THEN [stored EXCEPT !.completed = TRUE, !.draft = None]
                            ELSE stored
    /\ page' = [page EXCEPT ![p].isSubmitting = FALSE, ![p].live = ~succeeds]
    /\ UNCHANGED <<online, saves, accepted, count>>

Network == \E s \in saves : Deliver(s) \/ Lose(s)
Reply == \E s \in saves : Settle(s)

Next ==
    \/ \E p \in Pages :
          \/ Answer(p) \/ Timer(p) \/ GoOnline(p) \/ GoOffline(p) \/ Hide(p)
          \/ Reload(p) \/ Resume(p)
          \/ BeginSubmit(p)
          \/ \E arrives, succeeds \in BOOLEAN : EndSubmit(p, arrives, succeeds)
    \/ Network
    \/ Reply
    \/ Withdraw

Spec == Init /\ [][Next]_vars

\* Timers fire, a request is delivered or fails, and its promise settles.
\* Nothing is assumed of the outages, the participant or the server.
Fairness ==
    /\ \A p \in Pages : WF_vars(Timer(p))
    /\ WF_vars(Network)
    /\ WF_vars(Reply)

FairSpec == Spec /\ Fairness

-----------------------------------------------------------------------------
(* Properties                                                              *)

Unsaved(p) == page[p].live /\ page[p].answers # accepted[p]

\* The page will save its answers, is saving them, or owes the save and will
\* send it again on the next online event.
Owed(p) ==
    \/ page[p].timer
    \/ page[p].pending
    \/ \E s \in saves : s.page = p /\ IsNewest(s)

Left(p) == page[p].last \in {"left", "skipped"}

\* No lost, overtaken or refused save is forgotten: answers the server does
\* not have are still on their way or owed, as long as the page has not been
\* left and no submission was under way (the handlers of sendDraft).
NothingForgotten == \A p \in Pages : Unsaved(p) => Owed(p) \/ Left(p)

\* An answer does not wait for ever: it reaches the server, or the page comes
\* to know that the save is owed.
AnswersSettle ==
    \A p \in Pages :
        page[p].timer ~> (~Unsaved(p) \/ page[p].pending \/ Left(p))

\* Pages keep their drafts as DraftKeeping promises.
Keeping == INSTANCE DraftKeeping WITH
    latest <- [p \in Pages |-> page[p].answers], kept <- accepted, draft <- stored.draft

InOrder == Keeping!Spec

-----------------------------------------------------------------------------
(* The inductive invariant behind types and order                          *)

\* Answers are numbered as they are given, and a save carries no later answer
\* and no later revision than its page.
Numbered ==
    /\ \A p \in Pages : accepted[p] <= page[p].answers /\ page[p].answers <= count.answers
    /\ stored.draft # None => stored.draft <= count.answers
    /\ \A s \in saves : /\ 0 < s.rev /\ s.rev <= page[s.page].draftRevision
                        /\ s.answers <= page[s.page].answers

\* Of two saves of a page the one with the later revision has the later answers.
RevisionsOrder ==
    \A s, u \in saves : s.page = u.page /\ s.rev < u.rev => s.answers <= u.answers

\* A save the server would accept is not older than what it had from the page.
Acceptable ==
    \A s \in saves :
        stored.rev = None \/ s.rev > stored.rev => accepted[s.page] <= s.answers

IInv == TypeOK /\ Numbered /\ RevisionsOrder /\ Acceptable

-----------------------------------------------------------------------------
(* The inductive invariant behind NothingForgotten, on top of IInv         *)

\* The answers a page or one of its saves carries.
Held(p) == {page[p].answers} \cup {s.answers : s \in {u \in saves : u.page = p}}

\* Answers two pages carry, or a page and the draft on the server, came from
\* the server: the page has had them accepted, or been given them.
Shared ==
    \A p \in Pages, a \in 0..MaxAnswers : a \in Held(p) =>
        /\ \A q \in Pages : q # p /\ a \in Held(q) => a <= accepted[p]
        /\ a = stored.draft => a <= accepted[p]

\* A save answered "ok" has arrived, it or a later one.
OkArrived == \A s \in saves : s.stage = "ok" => s.answers <= accepted[s.page]

\* The newest save carries what the page has, until the next timer is set.
NewestCurrent ==
    \A s \in saves :
        ~s.flush /\ page[s.page].draftRevision = s.rev =>
            \/ s.answers = page[s.page].answers
            \/ page[s.page].timer \/ Left(s.page)

\* Only a live page submits.
SubmitsLive == \A p \in Pages : page[p].isSubmitting => page[p].live

OwedInv == Shared /\ OkArrived /\ NewestCurrent /\ SubmitsLive /\ NothingForgotten
=============================================================================
