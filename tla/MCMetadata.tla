---------------------------- MODULE MCMetadata -----------------------------
(* Metadata, and what it is made on, with two requests or refreshes at     *)
(* once and two users; kinds of requests are looked at apart.              *)
EXTENDS Metadata, TLC

CONSTANTS a1, a2, u1, u2, deepseek, kimi, chat, coder

\* Kimi is a provider of the user's, without a default model.
MCModels == {<<deepseek, chat>>, <<deepseek, coder>>}
MCSeed == [p \in {deepseek} |-> chat]
MCManaged == {<<deepseek, chat>>}
MCSymmetry == Permutations(Actors) \cup Permutations(Users)
MCAreas == {{"sessions", "passwords"}, {"sessions", "health"}, {"sessions", "matrix"},
            {"settings", "import"}, {"refresh"}}
=============================================================================
