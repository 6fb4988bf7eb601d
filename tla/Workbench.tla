------------------------------ MODULE Workbench ------------------------------
(***************************************************************************)
(* What requests do together to the files of a workspace, which no lock    *)
(* guards: a draw that a tool has made rebuilds the registry and is        *)
(* counted in the ledger (_record_yunwu_image_usage_from_tool_result in    *)
(* runtime_service.py), beside requests of the front end; threads are      *)
(* read; the sidecar may end at any time.  What a turn is sent is looked at *)
(* apart.                                                                  *)
(***************************************************************************)
EXTENDS AssetRegistry, DogfoodRun, Transcripts, ContextPack

CONSTANTS
    Requests,       \* bound: requests that are made
    MaxCrashes      \* bound: times the sidecar ends

ASSUME RequestAssumption ==
    /\ Requests \subseteq Draws \cup MarkRequests \cup Promotions \cup Looks \cup Rebuilds
                          \cup Smokes \cup Milestones \cup Captures \cup Saves
                          \cup ThreadRequests
    /\ Pages \subseteq AllPages
    /\ MaxCrashes \in Nat

VARIABLES
    byTools,        \* images tools have drawn
    crashes

vars == <<work, drawing, assets, run, threadState, turnSent, byTools, crashes>>
workbench == <<work, drawing, assets, run, threadState, byTools, crashes>>

\* Number of the images of tools that are not yet counted.
ByTool(w) == IF task[w].kind = "draw" /\ task[w].tool THEN Elements(draw[w].got) ELSE {}
InFlight == Cardinality(UNION {ByTool(w) : w \in Workers})

-----------------------------------------------------------------------------
Ask(w, r) ==
    /\ \/ r \in Draws /\ BeginDraw(w, r) /\ UNCHANGED <<assets, run, threadState>>
       \/ /\ r \in MarkRequests \cup Promotions \cup Looks \cup Rebuilds
          /\ BeginRegistry(w, r)
          /\ UNCHANGED <<drawing, run, threadState>>
       \/ /\ r \in Smokes \cup Milestones \cup Captures \cup Saves
          /\ BeginRun(w, r)
          /\ UNCHANGED <<drawing, assets, threadState>>
       \/ r \in ThreadRequests /\ BeginThread(w, r) /\ UNCHANGED <<drawing, assets, run>>
    /\ UNCHANGED <<byTools, crashes>>

Draw(w) ==
    /\ DrawStep(w)
    /\ byTools' = IF At(w, "post") /\ task[w].tool
                  THEN byTools + Len(images') - Len(images) ELSE byTools
    /\ UNCHANGED <<assets, run, threadState, crashes>>

\* _extract_yunwu_actual_n: nothing is recorded of a draw without images.
SkipUsage(w) ==
    /\ At(w, "usage") /\ draw[w].got = <<>>
    /\ Done(w)
    /\ draw' = [draw EXCEPT ![w] = NoDraw]
    /\ UNCHANGED <<bounds, images, manifest, recorded, exposed, assets, run, threadState, byTools, crashes>>

BeginUsage(w) ==
    /\ draw[w].got # <<>>
    /\ ReadUsage(w)
    /\ UNCHANGED <<drawing, assets, threadState, byTools, crashes>>

EndUsage(w) ==
    /\ CountUsage(w, Len(draw[w].got))
    /\ draw' = [draw EXCEPT ![w] = NoDraw]
    /\ UNCHANGED <<images, manifest, recorded, exposed, assets, threadState, byTools, crashes>>

\* Files stay; what threads have read, and images they hold, is lost, and the
\* front end starts with the ledger there is.
Crash ==
    /\ "crash" \in cast /\ crashes < MaxCrashes
    /\ crashes' = crashes + 1
    /\ pc' = [w \in Workers |-> "idle"]
    /\ task' = [w \in Workers |-> Idle]
    /\ draw' = [w \in Workers |-> NoDraw]
    /\ held' = [w \in Workers |-> NothingHeld]
    /\ read' = [w \in Workers |-> Unread]
    /\ entry' = [w \in Workers |-> 0]
    /\ disturbed' = {}
    /\ clashed' = (clashed \/ \E w \in Workers : Holding(w))
    /\ draft' = None /\ verdict' = None
    /\ uncounted' = (uncounted \/ InFlight > 0)
    /\ answer' = [w \in Workers |-> NoAnswer]
    /\ copy' = [w \in Workers |-> NoCopy]
    /\ stale' = [plans |-> {}, turns |-> {}]
    /\ UNCHANGED <<bounds, images, manifest, recorded, exposed, registry, game, sprites,
                   marks, ledger, page, noted, summed, served, kept, byTools>>

Init ==
    /\ WorkInit /\ DrawInit /\ RegistryInit /\ RunInit /\ ThreadInit /\ PackInit
    /\ byTools = 0 /\ crashes = 0

Proceed(w) ==
    \/ Draw(w)
    \/ RegistryStep(w) /\ UNCHANGED <<drawing, run, threadState, byTools, crashes>>
    \/ RunStep(w) /\ UNCHANGED <<drawing, assets, threadState, byTools, crashes>>
    \/ ThreadStep(w) /\ UNCHANGED <<drawing, assets, run, byTools, crashes>>
    \/ SkipUsage(w) \/ BeginUsage(w) \/ EndUsage(w)

OpenPanel ==
    /\ "save" \in cast /\ LoadDraft
    /\ UNCHANGED <<drawing, assets, threadState, byTools, crashes>>

ServeThreads ==
    /\ cast \cap {"read", "fork"} # {}
    /\ Tick \/ \E t \in Threads : TakeTurn(t)
    /\ UNCHANGED <<drawing, assets, run, byTools, crashes>>

Serve ==
    \/ \E w \in Workers : Proceed(w) \/ \E r \in Requests : Ask(w, r)
    \/ OpenPanel \/ ServeThreads
    \/ Crash

Send == cast = {"turn"} /\ SendTurn /\ UNCHANGED workbench

Next ==
    \/ Serve /\ UNCHANGED turnSent
    \/ Send

Spec == Init /\ [][Next]_vars

-----------------------------------------------------------------------------
\* The ledger counts each image a tool has drawn once, unless a request that
\* had read the ledger, or a draft, overwrites the count, or the sidecar ends
\* before an image is counted.
UsageIsCounted == ~uncounted => ledger.usage + InFlight = byTools

\* The ledger tells what was recorded, and what was drawn.
LedgerIsTrue == RunTypeOK /\ LedgerIsKept /\ UsageIsCounted

\* What is shown of the turns of a task, and what a turn is sent, is true.
ConversationIsTrue == TurnsAreShownOnce /\ PackIsTrue /\ PromptComesFirst
=============================================================================
