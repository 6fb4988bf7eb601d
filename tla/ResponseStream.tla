--------------------------- MODULE ResponseStream ---------------------------
(***************************************************************************)
(* What the router makes of the answer of a chat provider, in both of its  *)
(* ways: _stream_chat_completion of router_service.py turns the lines of a *)
(* stream into events while they arrive; providers/transports/base.py      *)
(* converts the whole answer, and replays the result as events.            *)
(*                                                                         *)
(* Abstracted: a line is of a kind, and a text is the sequence of the      *)
(* numbers of the lines it came with; usage and ids are left out.          *)
(***************************************************************************)
EXTENDS Integers, SequencesExt

\* "both" is a line with reasoning and text, "noise" one that is ill-formed,
\* not data, without choices or [DONE].
LineKinds == {"text", "think", "both", "call1", "call2", "noise"}

Notice == 0     \* "(Provider returned reasoning content but no final ...)"

Fragments(lines, kinds) ==
    LET found[n \in 0 .. Len(lines)] ==
            IF n = 0 THEN <<>>
            ELSE IF lines[n] \in kinds THEN Append(found[n - 1], n) ELSE found[n - 1]
    IN  found[Len(lines)]

Text(lines) == Fragments(lines, {"text", "both"})
Thought(lines) == Fragments(lines, {"think", "both"})

Item(type, body) == [type |-> type, body |-> body]
Event(is, at, items) == [is |-> is, at |-> at, items |-> items]

\* Items of the arguments collected under each index, by index.
CallItems(lines) ==
    LET Call(kind) == IF Fragments(lines, {kind}) = <<>> THEN <<>>
                      ELSE <<Item("function_call", Fragments(lines, {kind}))>>
    IN  Call("call1") \o Call("call2")

ReasoningItems(lines) ==
    IF Thought(lines) = <<>> THEN <<>>
    ELSE <<Item("reasoning", Thought(lines))>>

Visible(lines) ==
    IF Text(lines) # <<>> \/ Thought(lines) = <<>> \/ CallItems(lines) # <<>>
    THEN Text(lines)
    ELSE <<Notice>>

-----------------------------------------------------------------------------
(* The stream.                                                             *)

Opening ==
    <<Event("created", 0, <<>>), Event("added", 0, <<Item("message", <<>>)>>),
      Event("part", 0, <<>>)>>

\* The events of the last of lines, as it arrives.
Arrival(lines) ==
    LET n == Len(lines)
        opened == IF Len(Thought(lines)) = 1
                  THEN <<Event("added", 1, <<Item("reasoning", <<>>)>>)>>
                  ELSE <<>>
    IN  (IF lines[n] \in {"think", "both"}
         THEN opened \o <<Event("delta", 1, <<Item("reasoning", <<n>>)>>)>>
         ELSE <<>>)
        \o (IF lines[n] \in {"text", "both"}
            THEN <<Event("delta", 0, <<Item("message", <<n>>)>>)>> ELSE <<>>)

StreamOutput(lines) ==
    <<Item("message", Visible(lines))>> \o ReasoningItems(lines) \o CallItems(lines)

\* Mutant: calls are numbered as if there were no reasoning.
ClosingUnshifted(lines) ==
    LET output == StreamOutput(lines)
        message == <<output[1]>>
        calls == CallItems(lines)
        Told(i) == <<Event("added", i, <<calls[i]>>), Event("done", i, <<calls[i]>>)>>
    IN  (IF Visible(lines) # Text(lines) THEN <<Event("delta", 0, message)>> ELSE <<>>)
        \o <<Event("text", 0, message), Event("partdone", 0, message),
             Event("done", 0, message)>>
        \o (IF ReasoningItems(lines) # <<>>
            THEN <<Event("done", 1, ReasoningItems(lines))>> ELSE <<>>)
        \o FlattenSeq([i \in DOMAIN calls |-> Told(i)])
        \o <<Event("completed", 0, output), Event("end", 0, <<>>)>>

\* The events once the upstream has no more lines.
Closing(lines) ==
    LET output == StreamOutput(lines)
        message == <<output[1]>>
        reasoning == ReasoningItems(lines)
        calls == CallItems(lines)
        Told(i) == LET at == Len(reasoning) + i IN
            <<Event("added", at, <<calls[i]>>), Event("done", at, <<calls[i]>>)>>
    IN  (IF Visible(lines) # Text(lines) THEN <<Event("delta", 0, message)>> ELSE <<>>)
        \o <<Event("text", 0, message), Event("partdone", 0, message),
             Event("done", 0, message)>>
        \o (IF reasoning # <<>> THEN <<Event("done", 1, reasoning)>> ELSE <<>>)
        \o FlattenSeq([i \in DOMAIN calls |-> Told(i)])
        \o <<Event("completed", 0, output), Event("end", 0, <<>>)>>

-----------------------------------------------------------------------------
(* The whole answer.                                                       *)

ConvertedOutput(lines) ==
    ReasoningItems(lines)
    \o (IF Visible(lines) = <<>> THEN <<>> ELSE <<Item("message", Visible(lines))>>)
    \o CallItems(lines)

\* What the native kernel gets: no second call if the provider has no parallel
\* calls.
NormalizedCalls(lines, parallel) ==
    LET calls == CallItems(lines) IN
    IF parallel \/ calls = <<>> THEN calls ELSE <<calls[1]>>

\* The events of a response that came whole.
Replayed(output) ==
    LET Told(i) ==
            LET at == i - 1
                item == <<output[i]>>
            IN  IF output[i].type # "message"
                THEN <<Event("added", at, item), Event("done", at, item)>>
                ELSE <<Event("added", at, <<Item("message", <<>>)>>),
                       Event("part", at, <<>>)>>
                     \o (IF output[i].body # <<>> THEN <<Event("delta", at, item)>> ELSE <<>>)
                     \o <<Event("text", at, item), Event("partdone", at, item),
                          Event("done", at, item)>>
    IN  <<Event("created", 0, <<>>)>>
        \o FlattenSeq([i \in DOMAIN output |-> Told(i)])
        \o <<Event("completed", 0, output)>>

-----------------------------------------------------------------------------
(* What a client of the Responses API relies on.                           *)

DeltasAt(events, at) ==
    LET Added(e) == IF e.is = "delta" /\ e.at = at THEN e.items[1].body ELSE <<>>
    IN  FlattenSeq([i \in DOMAIN events |-> Added(events[i])])

OfItem == {"added", "part", "delta", "text", "partdone", "done"}

\* An item is added before anything is said of it and once, nothing is said of
\* it after it is done, and its done and its text are the sum of its deltas;
\* the response that is completed has the items that were added, in the order
\* of their indices and as they were when they were done.
WellFormed(events) ==
    /\ \A k \in DOMAIN events : events[k].is \in OfItem \ {"added"} =>
           \E j \in 1 .. k - 1 : events[j].is = "added" /\ events[j].at = events[k].at
    /\ \A k \in DOMAIN events : events[k].is \in OfItem =>
           \A j \in 1 .. k - 1 : events[j].at = events[k].at =>
               events[j].is # "done" /\ (events[j].is = "added" => events[k].is # "added")
    /\ \A k \in DOMAIN events : events[k].is \in {"text", "done"} =>
           LET deltas == DeltasAt(events, events[k].at) IN
           deltas # <<>> \/ events[k].is = "text" => events[k].items[1].body = deltas
    /\ \A k \in DOMAIN events : events[k].is = "completed" =>
           LET output == events[k].items IN
           /\ {events[j].at : j \in {i \in DOMAIN events : events[i].is = "added"}}
                  = 0 .. Len(output) - 1
           /\ \A i \in DOMAIN output : \E j \in 1 .. k - 1 :
                  events[j] = Event("done", i - 1, <<output[i]>>)

Substance(output) == {item \in ToSet(output) : item.body # <<>>}
=============================================================================
