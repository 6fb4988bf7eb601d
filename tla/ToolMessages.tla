---------------------------- MODULE ToolMessages ----------------------------
(***************************************************************************)
(* Tool calls and their results in the messages sent to a provider of chat *)
(* completions (providers/tooling/tool_call_repair.py and the transports). *)
(* A message is its role, the ids of the calls it makes and the id of the  *)
(* call it answers; texts and arguments are left out.                      *)
(***************************************************************************)
EXTENDS Naturals, Sequences, SequencesExt, FiniteSets

NoId == <<>>

Said(role) == [role |-> role, calls |-> <<>>, id |-> NoId]
Calling(ids) == [Said("assistant") EXCEPT !.calls = ids]
Result(id) == [Said("tool") EXCEPT !.id = id]

IsCalling(m) == m.role = "assistant" /\ m.calls # <<>>

\* Chat transports keep the first of several calls, unless the profile says
\* that the model takes parallel calls, which the router's profiles never do.
SerialCalls(ids) == IF ids = <<>> THEN ids ELSE <<Head(ids)>>

Converted(messages) ==
    [i \in DOMAIN messages |-> [messages[i] EXCEPT !.calls = SerialCalls(@)]]

\* Mutant: a result that follows no call is sent as it is.
AdoptOrphan(m) == m

\* A result that follows no call is told as something the user said.
Orphaned(m) == [m EXCEPT !.role = "user"]

\* Calls of the last calling message that none of the results answers are
\* answered, one after another.
Flushed(s) ==
    LET told[n \in 0 .. Len(s.open)] ==
            IF n = 0 THEN s.out
            ELSE IF s.open[n] \in s.seen THEN told[n - 1]
            ELSE Append(told[n - 1], Result(s.open[n]))
    IN  told[Len(s.open)]

Closed(out) == [out |-> out, open |-> <<>>, seen |-> {}, in |-> "none"]

\* One message more: calls in a row are merged, results follow their calls.
RepairStep(s, m) ==
    IF IsCalling(m) /\ s.in = "calls"
    THEN LET merged == s.open \o m.calls IN
         [s EXCEPT !.open = merged, !.out[Len(s.out)].calls = merged]
    ELSE IF IsCalling(m)
    THEN [out |-> Append(Flushed(s), m), open |-> m.calls, seen |-> {},
          in |-> "calls"]
    ELSE IF m.role = "tool" /\ s.in # "none"
    THEN [s EXCEPT !.out = Append(@, m), !.seen = @ \cup {m.id},
                   !.in = "results"]
    ELSE Closed(Append(Flushed(s), IF m.role = "tool" THEN Orphaned(m) ELSE m))

Repairs(messages) ==
    LET s[n \in 0 .. Len(messages)] ==
            IF n = 0 THEN Closed(<<>>) ELSE RepairStep(s[n - 1], messages[n])
    IN  s

Repaired(messages) == Flushed(Repairs(messages)[Len(messages)])

-----------------------------------------------------------------------------
(* What providers accept.                                                  *)

\* Position i answers the call made at position j.
Follows(s, i, j) ==
    /\ j < i /\ IsCalling(s[j])
    /\ \A k \in j + 1 .. i : s[k].role = "tool"

EveryCallAnswered(s) == \A j \in DOMAIN s : \A c \in ToSet(s[j].calls) :
    \E i \in DOMAIN s : Follows(s, i, j) /\ s[i].id = c

EveryResultFollows(s) == \A i \in DOMAIN s : s[i].role = "tool" =>
    \E j \in DOMAIN s : Follows(s, i, j)

EveryResultWanted(s) == \A i \in DOMAIN s : s[i].role = "tool" =>
    \E j \in DOMAIN s : Follows(s, i, j) /\ s[i].id \in ToSet(s[j].calls)
=============================================================================
