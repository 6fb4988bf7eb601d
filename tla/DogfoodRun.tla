----------------------------- MODULE DogfoodRun -----------------------------
(***************************************************************************)
(* The ledger of a long run (dogfood_run_service.py): what was used, the   *)
(* captures, notes, milestones and smoke tests that were recorded, and the *)
(* summary; the smoke test itself, which reads the ledger before it runs a *)
(* browser and writes it after that; and the draft the front end saves     *)
(* (App.tsx), which is the ledger as it was when the panel was opened.     *)
(*                                                                         *)
(* Abstracted: the texts, and the limits of 40 and 80 entries.  What one   *)
(* request records is one entry, with the number of the request.          *)
(***************************************************************************)
EXTENDS Workers

CONSTANTS
    Pages           \* how the page and the browser of a smoke test may behave

VARIABLES
    ledger,         \* dogfood_run.json
    draft,          \* dogfoodDraft of the front end
    read,           \* ledger a worker has read
    entry,          \* number of the entry a worker records
    page,           \* how the page of the smoke tests behaves
    verdict,        \* status of the last smoke test, and what was asked for
    noted,          \* entries nobody overwrites
    summed,         \* milestone the summary was set to, if nobody overwrites it
    uncounted       \* what was used may have been overwritten

told == <<noted, summed, uncounted>>
run == <<ledger, draft, read, entry, page, verdict, told>>

NoRun == [usage |-> 0, entries |-> {}, summary |-> 0]
Unread == [usage |-> 0, entries |-> {0}, summary |-> 0]

-----------------------------------------------------------------------------
(* The smoke test.                                                         *)

Smokes == [kind : {"smoke"}, provided : BOOLEAN, asserted : BOOLEAN, truncated : BOOLEAN]

\* How a page behaves: its answer to urlopen (a file that is missing is a 404),
\* what becomes of the browser, and, if that runs: the status it gets, what it
\* complains about on the console and of its requests ("noise" is what is left
\* out if it is polling that failed), and the step at which it fails.
NoBrowser == {"no_node", "missing", "broken", "crashed", "blind"}
AllPages ==
    [answer : {"ok", "missing", "error"}, browser : NoBrowser, status : {0},
     console : {"none"}, failures : {"none"}, breaks : {"none"}]
    \cup
    [answer : {"ok", "missing", "error"}, browser : {"runs"}, status : {0, 200, 404},
     console : {"none", "noise", "real"}, failures : {"none", "noise", "real"},
     breaks : {"none", "action", "assertion"}]

GoodPage == [answer |-> "ok", browser |-> "runs", status |-> 200,
             console |-> "none", failures |-> "none", breaks |-> "none"]

\* Assertions come last, and are dropped if there are too many actions.
Breaks(r) == page.breaks = "action" \/ (page.breaks = "assertion" /\ r.asserted /\ ~r.truncated)

Before(r) ==
    [status |-> IF page.answer = "ok" THEN "pass" ELSE "fail",
     http |-> CASE page.answer = "ok" -> 200 [] page.answer = "missing" -> 404 [] OTHER -> 0,
     shot |-> IF r.provided THEN "provided" ELSE "pending",
     error |-> page.answer = "error", broken |-> FALSE,
     console |-> FALSE, failures |-> FALSE, failed |-> FALSE]

\* _capture_with_playwright.  A browser that cannot take a picture ("blind")
\* tells an error, as one that does not start.
Captured(r, rec) ==
    LET noise == page.failures = "noise"
        console == page.console = "real" \/ (page.console = "noise" /\ ~noise)
        failures == page.failures = "real"
        http == IF page.status = 0 THEN rec.http ELSE page.status
        seen == [rec EXCEPT !.shot = IF Breaks(r) THEN "captured_after_failure" ELSE "captured",
                            !.http = http, !.broken = Breaks(r), !.console = console,
                            !.failures = failures, !.failed = Breaks(r)]
    IN  CASE page.browser = "no_node" -> [rec EXCEPT !.shot = "blocked"]
          [] page.browser \in {"broken", "crashed", "blind"} -> [rec EXCEPT !.shot = "blocked", !.broken = TRUE]
          [] page.browser = "missing" -> [rec EXCEPT !.shot = "playwright_missing", !.broken = TRUE]
          [] OTHER ->
                IF console \/ failures \/ http >= 400 THEN [seen EXCEPT !.status = "fail"]
                ELSE IF ~rec.error /\ ~seen.broken THEN [seen EXCEPT !.status = "pass"]
                ELSE seen

Wrong(rec) ==
    rec.console \/ rec.failures \/ rec.failed \/ rec.http >= 400
    \/ rec.shot \in {"blocked", "captured_after_failure"} \/ rec.broken

\* Mutant: what the browser tried is not looked at.
FinalisedByStatus(rec) ==
    IF rec.http >= 400 THEN "fail" ELSE IF rec.http # 0 THEN "pass" ELSE rec.status

\* _finalize_browser_smoke_status: a page the browser could open passes, even
\* if it did not answer before.
Finalised(rec) ==
    IF Wrong(rec) THEN "fail" ELSE IF rec.http # 0 THEN "pass" ELSE rec.status

Tested(r) ==
    [status |-> Finalised(IF r.provided THEN Before(r) ELSE Captured(r, Before(r))),
     request |-> r]

-----------------------------------------------------------------------------
(* Requests about the ledger.                                              *)

Milestones == [kind : {"milestone"}, sync : BOOLEAN]
Captures == [kind : {"capture"}]
Saves == [kind : {"save"}]

HoldingRun(w) == In(w, {"browse", "record", "again", "sync", "count"})
Overwritten(w) == \E v \in Others(w) : HoldingRun(v)

BeginRun(w, r) ==
    /\ Take(w, r, IF r.kind = "save" THEN "save" ELSE "ledger")
    /\ entry' = [entry EXCEPT ![w] = asked']
    /\ verdict' = IF r.kind = "smoke" THEN None ELSE verdict
    /\ UNCHANGED <<ledger, draft, read, page, noted, summed, uncounted>>

ReadLedger(w) ==
    /\ At(w, "ledger")
    /\ read' = [read EXCEPT ![w] = ledger]
    /\ Goto(w, IF task[w].kind = "smoke" THEN "browse" ELSE "record")
    /\ UNCHANGED <<bounds, task, ledger, draft, entry, page, verdict, told>>

\* The browser has up to four minutes.
Browse(w) ==
    /\ At(w, "browse")
    /\ verdict' = Tested(task[w])
    /\ Goto(w, "record")
    /\ UNCHANGED <<bounds, task, ledger, draft, read, entry, page, told>>

\* What others have read will overwrite this.
Note(w, new, summary) ==
    /\ noted' = IF Overwritten(w) THEN noted ELSE noted \cup new
    /\ summed' = IF Overwritten(w) THEN 0 ELSE summary
    /\ uncounted' = (uncounted \/ Overwritten(w))

EndRun(w) ==
    /\ read' = [read EXCEPT ![w] = Unread]
    /\ entry' = [entry EXCEPT ![w] = 0]
    /\ Done(w)

\* add_milestone: it becomes the summary if that is asked for or there is none.
Synced(w) ==
    task[w].kind = "milestone" /\ (task[w].sync \/ read[w].summary = 0)

Record(w) ==
    LET summary == IF Synced(w) THEN entry[w] ELSE read[w].summary IN
    /\ At(w, "record")
    /\ ledger' = [read[w] EXCEPT !.entries = @ \cup {entry[w]}, !.summary = summary]
    /\ Note(w, {entry[w]}, IF Synced(w) THEN entry[w] ELSE summed)
    /\ IF Synced(w) THEN Goto(w, "check") /\ UNCHANGED <<task, read, entry>> ELSE EndRun(w)
    /\ UNCHANGED <<bounds, draft, page, verdict>>

\* What is read later does not depend on what was read before.
EndMilestone(w) ==
    IF task[w].sync
    THEN read' = [read EXCEPT ![w] = Unread] /\ Goto(w, "reload") /\ UNCHANGED <<task, entry>>
    ELSE EndRun(w)

\* Mutant: the ledger as it was read at first is written again.
CheckOnly(w) ==
    /\ At(w, "check")
    /\ IF ledger.summary # entry[w]
       THEN Goto(w, "again") /\ UNCHANGED <<task, entry, read>>
       ELSE EndMilestone(w)
    /\ UNCHANGED <<bounds, ledger, draft, page, verdict, told>>

\* The ledger is read again; the summary is repaired if it is another's.
CheckSummary(w) ==
    /\ At(w, "check")
    /\ IF ledger.summary # entry[w]
       THEN read' = [read EXCEPT ![w] = ledger] /\ Goto(w, "again") /\ UNCHANGED <<task, entry>>
       ELSE EndMilestone(w)
    /\ UNCHANGED <<bounds, ledger, draft, page, verdict, told>>

RepairSummary(w) ==
    /\ At(w, "again")
    /\ ledger' = [read[w] EXCEPT !.summary = entry[w]]
    /\ Note(w, {}, entry[w])
    /\ EndMilestone(w)
    /\ UNCHANGED <<bounds, draft, page, verdict>>

\* The handler of the route does so once more.
ReadSummary(w) ==
    /\ At(w, "reload")
    /\ read' = [read EXCEPT ![w] = ledger]
    /\ Goto(w, "sync")
    /\ UNCHANGED <<bounds, task, ledger, draft, entry, page, verdict, told>>

SyncSummary(w) ==
    /\ At(w, "sync")
    /\ ledger' = [read[w] EXCEPT !.summary = entry[w]]
    /\ Note(w, {}, entry[w])
    /\ EndRun(w)
    /\ UNCHANGED <<bounds, draft, page, verdict>>

-----------------------------------------------------------------------------
\* The front end takes its draft once, from the first answer.
LoadDraft ==
    /\ draft = None
    /\ draft' = ledger
    /\ UNCHANGED <<work, ledger, read, entry, page, verdict, told>>

\* save with the whole draft: lists, usage and summary of the draft replace
\* those of the ledger, and entries recorded since it was taken are lost.
SaveDraft(w) ==
    /\ At(w, "save") /\ draft # None
    /\ ledger' = draft
    /\ noted' = noted \cap draft.entries
    /\ summed' = IF draft.summary = ledger.summary /\ ~Overwritten(w) THEN summed ELSE 0
    /\ uncounted' = (uncounted \/ draft.usage # ledger.usage \/ Overwritten(w))
    /\ EndRun(w)
    /\ UNCHANGED <<bounds, draft, page, verdict>>

\* record_usage, after a tool has drawn n images.
ReadUsage(w) ==
    /\ At(w, "usage")
    /\ read' = [read EXCEPT ![w] = ledger]
    /\ Goto(w, "count")
    /\ UNCHANGED <<bounds, task, ledger, draft, entry, page, verdict, told>>

CountUsage(w, n) ==
    /\ At(w, "count")
    /\ ledger' = [read[w] EXCEPT !.usage = @ + n]
    /\ uncounted' = (uncounted \/ Overwritten(w))
    /\ summed' = IF Overwritten(w) THEN 0 ELSE summed
    /\ EndRun(w)
    /\ UNCHANGED <<bounds, draft, page, verdict, noted>>

RunStep(w) ==
    \/ ReadLedger(w) \/ Browse(w) \/ Record(w)
    \/ CheckSummary(w) \/ RepairSummary(w) \/ ReadSummary(w) \/ SyncSummary(w) \/ SaveDraft(w)

RunInit ==
    /\ ledger = NoRun /\ draft = None
    /\ read = [w \in Workers |-> Unread]
    /\ entry = [w \in Workers |-> 0]
    /\ page \in IF cast = {"smoke"} THEN Pages ELSE {GoodPage}
    /\ verdict = None
    /\ noted = {} /\ summed = 0 /\ uncounted = FALSE

-----------------------------------------------------------------------------
RunTypeOK ==
    /\ ledger.usage \in Nat /\ ledger.entries \subseteq 1 .. asked
    /\ ledger.summary \in 0 .. asked
    /\ verdict # None => verdict.status \in {"pass", "fail"}

\* What was recorded stays in the ledger, and the summary is the one that was
\* set last, unless a request that had read the ledger before writes it after,
\* or a draft is saved that is older: a smoke test, which takes minutes between
\* the two, overwrites whatever is recorded meanwhile.
LedgerIsKept ==
    /\ noted \subseteq ledger.entries
    /\ summed # 0 => ledger.summary = summed

\* A smoke test passes only if the page could be opened and, when the browser
\* took the picture, without a failed action or a complaint that is not known
\* to be noise; and if its assertions were among the actions, they held.
PassedSmokesAreTrue ==
    verdict # None /\ verdict.status = "pass" =>
        /\ page.answer = "ok" \/ (~verdict.request.provided /\ page.status = 200)
        /\ ~verdict.request.provided =>
            /\ page.browser = "runs" /\ page.status # 404
            /\ page.console # "real" /\ page.failures # "real" /\ page.breaks # "action"
            /\ verdict.request.asserted /\ ~verdict.request.truncated => page.breaks = "none"
=============================================================================
