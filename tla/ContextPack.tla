----------------------------- MODULE ContextPack -----------------------------
(***************************************************************************)
(* What a turn is sent beside the prompt: the project context pack         *)
(* (project_context_service.py), whose sections a budget chooses from      *)
(* (coding_kernel/context_budget.py), and the inputs it becomes a part of  *)
(* (_build_user_inputs in runtime_service.py).                             *)
(*                                                                         *)
(* Abstracted: a text is the number of its characters, and a section the   *)
(* text it has in a project with what the project has of tasks, plans,     *)
(* milestones, assets and threads; white space that is trimmed; images     *)
(* that are attached.                                                      *)
(***************************************************************************)
EXTENDS Integers, Sequences, FiniteSetsExt

CONSTANTS
    Texts,          \* bound: characters of each section, functions
    Targets         \* bound: models a turn is sent to

Unknown == 0        \* a window or a limit that is not known

\* _text_sections, in the order of their priorities.
Sections ==
    <<"intro", "project", "file_map", "task", "task_digest", "selected_thread",
      "dogfood", "assets", "recent_threads", "rules">>
Headings == {Sections[i] : i \in DOMAIN Sections}
Essential == {"intro", "project", "task", "rules"}

ASSUME PackAssumption ==
    /\ Texts \subseteq [Headings -> Nat]
    \* No window is so small that its share is nothing.
    /\ Targets \subseteq [window : Nat \ {1}, limit : Nat, schema : Nat]

VARIABLE turnSent   \* the turn that was sent, {} or a set of one

Percent == 80
Least == 256
Shortest == 24
MaxChars == 8000

\* estimate_text_tokens.
Tokens(chars) == (chars + 3) \div 4

\* _target_context_model: a model with a window has a limit, too.
LimitsOf(target) ==
    {(target.window * Percent) \div 100 : w \in {target.window} \ {Unknown}}
    \cup ({target.limit} \ {Unknown})

\* Mutant: the schema of the tools is not taken off.
UsableWithTools(target) == Max({Least, Min(LimitsOf(target))})

\* usable_budget of build_context_budget.
Usable(target) == Max({Least, Min(LimitsOf(target)) - target.schema})
Limited(target) == LimitsOf(target) # {}

\* clip_text_to_tokens: a mark of 12 characters follows what is left.
Clipped(chars, tokens) ==
    LET most == Max({32, 4 * tokens})
    IN  IF chars <= most THEN chars ELSE most - 14 + 12

\* One round of the loop of build_context_budget.
Weigh(target, chosen, section, chars) ==
    LET left == Max({0, Usable(target) - chosen.tokens})
        With(n, cut) ==
            [chosen EXCEPT !.kept = Append(@, [id |-> section, chars |-> n, cut |-> cut]),
                           !.tokens = @ + Tokens(n)]
    IN  CASE chars = 0 -> chosen
          [] chars > 0 /\ (~Limited(target) \/ Tokens(chars) <= left) -> With(chars, FALSE)
          [] chars > 0 /\ Limited(target) /\ Tokens(chars) > left
                /\ section \in Essential /\ left >= Shortest -> With(Clipped(chars, left), TRUE)
          [] OTHER -> [chosen EXCEPT !.dropped = @ \cup {section}]

\* build_context_budget, section by section.
Rounds(target, text) ==
    LET chosen[n \in 0 .. Len(Sections)] ==
            IF n = 0 THEN [kept |-> <<>>, tokens |-> 0, dropped |-> {}]
            ELSE Weigh(target, chosen[n - 1], Sections[n], text[Sections[n]])
    IN  chosen

Chosen(target, text) == Rounds(target, text)[Len(Sections)]

\* Sums of the first numbers of a sequence, from none to all.
Sums(numbers) ==
    LET sum[n \in 0 .. Len(numbers)] == IF n = 0 THEN 0 ELSE sum[n - 1] + numbers[n]
    IN  sum

\* Parts are joined by a blank line: where they end, each begins, and how long
\* they are.
Ends(kept) == Sums([i \in DOMAIN kept |-> kept[i].chars + 2])
BeginOf(kept, i) == Ends(kept)[i - 1]
Joined(end) == Max({0, end - 2})
Length(kept) == Joined(Ends(kept)[Len(kept)])

\* Of each section; the full text has those that are not empty.
OfSections(text, Number(_)) == Sums([i \in DOMAIN Sections |-> Number(text[Sections[i]])])
Taken(chars) == IF chars = 0 THEN 0 ELSE chars + 2
FullLength(text) == Joined(OfSections(text, Taken)[Len(Sections)])

\* _build_pack: the report tells of all sections, the text ends where it is cut.
Pack(target, text) ==
    LET chosen == Chosen(target, text) IN
    [kept |-> chosen.kept, dropped |-> chosen.dropped,
     recommended |-> \/ chosen.dropped # {}
                     \/ Limited(target) /\ Tokens(FullLength(text)) > Usable(target),
     chars |-> Min({MaxChars, Length(chosen.kept)})]

\* _normalize_context_mode: what clients call the modes.
Modes == [default |-> "default", full |-> "default", handoff |-> "default",
          health |-> "minimal_text", visual |-> "minimal_visual", off |-> "no_context"]

\* A pack that looks as if a secret were in it is refused, and the turn goes
\* without it.
Delivered(refused, pack) == IF refused THEN {} ELSE {pack}

\* _build_user_inputs: the parts of the text, in order.
Inputs(mode, prompt, pack) ==
    (IF mode = "minimal_visual" THEN <<"mode_note">> ELSE <<>>)
        \o (IF prompt THEN <<"prompt">> ELSE <<>>)
        \o (IF mode = "default" /\ pack # {} THEN <<"pack">> ELSE <<>>)

SendTurn ==
    /\ turnSent = {}
    /\ \E target \in Targets, text \in Texts, name \in DOMAIN Modes, refused, prompt \in BOOLEAN :
          LET pack == Delivered(refused, Pack(target, text)) IN
          /\ refused \/ ~prompt => name \in {"default", "visual"}
          /\ turnSent' = {[target |-> target, text |-> text, name |-> name, pack |-> pack, prompt |-> prompt,
                           inputs |-> Inputs(Modes[name], prompt, pack)]}

PackInit == turnSent = {}

-----------------------------------------------------------------------------
Whole(pack, section, chars) ==
    \E i \in DOMAIN pack.kept :
        /\ pack.kept[i].id = section /\ pack.kept[i].chars = chars
        /\ BeginOf(pack.kept, i) + chars <= pack.chars

\* The tokens that are needed up to a section, and where it begins at most.
NeededUpTo(text, i) == OfSections(text, Tokens)[i]
Parted(chars) == chars + 2
BeginsAtMost(text, i) == OfSections(text, Parted)[i - 1]

\* The text of a pack fits in the share of the window, or the limit, that the
\* schema of the tools leaves, but for the blank lines, which are not counted; all
\* sections up to one are in it whole if they fit; an essential section is missing
\* only where the ones before it leave it no room; and compaction is recommended
\* whenever something is missing that was not cut off at 8000 characters, but for
\* what rounding takes off each section.
PackIsTrue ==
    \A s \in turnSent : \A pack \in s.pack :
        LET room == Max({Least, Min(LimitsOf(s.target)) - s.target.schema})
            limited == LimitsOf(s.target) # {} IN
        /\ limited => Tokens(pack.chars) <= room + 5
        /\ \A i \in DOMAIN Sections :
              LET section == Sections[i]
                  chars == s.text[section] IN
              /\ /\ chars > 0 /\ limited => NeededUpTo(s.text, i) <= room
                 /\ BeginsAtMost(s.text, i) + chars <= MaxChars
                 => chars = 0 \/ Whole(pack, section, chars)
              /\ section \in Essential /\ section \in pack.dropped
                    => limited /\ NeededUpTo(s.text, i - 1) > room - Shortest
              /\ \/ chars = 0 \/ Whole(pack, section, chars) \/ pack.chars = MaxChars
                 \/ pack.recommended
                 \/ limited /\ NeededUpTo(s.text, Len(Sections)) - room \in 1 .. 5

\* The prompt is sent whole and before the pack, and a pack goes only with a mode
\* that has one.
PromptComesFirst ==
    \A s \in turnSent :
        /\ s.prompt => \E i \in DOMAIN s.inputs :
              s.inputs[i] = "prompt" /\ \A j \in 1 .. i - 1 : s.inputs[j] = "mode_note"
        /\ "pack" \in {s.inputs[i] : i \in DOMAIN s.inputs} =>
              s.name \in {"default", "full", "handoff"} /\ s.pack # {}
=============================================================================
