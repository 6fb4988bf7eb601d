---------------------------- MODULE AssetRegistry ----------------------------
(***************************************************************************)
(* The registry of assets (asset_registry_service.py).  It is built from   *)
(* the list of generated images and from the manifest of the sprites a     *)
(* game uses; marks and promotions change it, and a promotion changes the  *)
(* game's manifest first.  Every request reads the files it changes, and   *)
(* writes them back in later steps.                                        *)
(*                                                                         *)
(* Abstracted: kinds, roles and metrics of assets, transformations, the    *)
(* context pack, which is written along with the registry, and sheets that *)
(* are sliced by hand.  The reference to the context pack in the task      *)
(* (TaskState) is recorded after the files are written; a request that     *)
(* fails there has done everything else.                                   *)
(***************************************************************************)
EXTENDS ImageDraws

CONSTANTS
    Names,          \* names of sprites, without their suffix
    Slots           \* places of the game a sprite is shown at

VARIABLES
    registry,       \* asset_registry.json: entry of each asset, or None
    game,           \* sprite_manifest.json: slots, promoted_assets
    sprites,        \* files of sprites and the image each is a copy of
    held,           \* what each worker has read: list, game, registry
    marks,          \* marks nobody overwrites, until the next rebuild
    disturbed,      \* workers that hold what another has written since
    clashed         \* a request was disturbed since a rebuild that was not

books == <<marks, disturbed, clashed>>
assets == <<registry, game, sprites, held, books>>

NothingHeld == [list |-> <<>>, game |-> None, registry |-> None]

Extensions == {"png", "jpg"}
Refs == Names \X Extensions
Image(i) == <<"image", i>>
Sprite(name) == <<"sprite", name>>
Qualities == {"unreviewed", "failed", "passed", "unknown"}
States == {"not_promoted", "promoted", "in_use"}

NewEntry == [quality |-> "unreviewed", state |-> "not_promoted", refs |-> {}, used |-> FALSE]

\* _game_manifest_ref_map: what the slots show.
Shown(g) == {g.slots[s] : s \in Slots} \ {None}
RefOf(g, i) == IF Image(i) \in DOMAIN g.promoted THEN {g.promoted[Image(i)]} ELSE {}
\* _link_copied_game_assets_by_hash.
Copies(g, i) == {r \in Shown(g) \cap DOMAIN sprites : images[i].saved /\ sprites[r] = i}

\* rebuild: entry of a generated image, with _mark_game_references.
EntryOf(g, i) ==
    LET own == RefOf(g, i)
        copies == Copies(g, i)
        inUse == own \cap Shown(g) # {} \/ copies # {}
    IN  [quality |-> IF images[i].failed THEN "failed" ELSE "unreviewed",
         state |-> IF inUse THEN "in_use" ELSE IF own # {} THEN "promoted" ELSE "not_promoted",
         refs |-> own \cup copies,
         used |-> inUse]

\* _add_untracked_game_sprites.
Untracked(g, list) ==
    {r \in Shown(g) \cap DOMAIN sprites : \A i \in list : r \notin EntryOf(g, i).refs}
SpriteEntry(r) == [quality |-> "unknown", state |-> "in_use", refs |-> {r}, used |-> TRUE]
\* Of two files of a name, the first of the sorted references counts.
FirstRef(refs, name) == IF <<name, "jpg">> \in refs THEN <<name, "jpg">> ELSE <<name, "png">>

Built(g, list) ==
    LET untracked == Untracked(g, list)
        names == {r[1] : r \in untracked}
        ids == {Image(i) : i \in list} \cup {Sprite(n) : n \in names}
    IN  [id \in ids |-> IF id[1] = "image" THEN EntryOf(g, id[2])
                        ELSE SpriteEntry(FirstRef(untracked, id[2]))]

\* _normalize_registry: in_use is never taken back.
Normalised(reg) ==
    [id \in DOMAIN reg |-> [reg[id] EXCEPT !.used = @ \/ reg[id].state = "in_use"]]

-----------------------------------------------------------------------------
\* Workers that hold what they have read of the registry or of what it is
\* built from, or have changed the game without the registry.
Holding(w) == In(w, {"built", "normalise", "write", "copy", "place", "enter"})
Clash(w) == \E v \in Others(w) : Holding(v)

\* A file is written: whoever holds it will overwrite that.
Disturb(w) ==
    /\ disturbed' = (disturbed \cup {v \in Workers : Holding(v)}) \ {w}
    /\ clashed' = (clashed \/ Clash(w))

LoseMarks(w) == marks' = IF Clash(w) THEN <<>> ELSE marks

MarkRequests == [kind : {"mark"}, id : 1 .. MaxImages, quality : {"passed"}]
                \cup [kind : {"unmark"}, id : 1 .. MaxImages, state : {"not_promoted"}]
Promotions == [kind : {"promote"}, id : 1 .. MaxImages, name : Names, slot : Slots,
               resize : BOOLEAN]
Looks == [kind : {"look"}]
Rebuilds == [kind : {"rebuild"}]

BeginRegistry(w, r) ==
    /\ Take(w, r, IF r.kind = "rebuild" THEN "rebuild" ELSE "snapshot")
    /\ UNCHANGED assets

\* rebuild reads the list of images and the game.
ReadSources(w) ==
    /\ At(w, "rebuild")
    /\ held' = [held EXCEPT ![w].list = manifest, ![w].game = game]
    /\ Goto(w, "built")
    /\ UNCHANGED <<bounds, task, registry, game, sprites, books>>

\* What follows: a tool records what it has used, a snapshot goes on.
AfterRebuild(w) ==
    /\ held' = [held EXCEPT ![w] = NothingHeld]
    /\ CASE task[w].kind = "draw" -> Goto(w, "usage") /\ UNCHANGED task
         [] task[w].kind = "rebuild" -> Done(w)
         [] OTHER -> Goto(w, "snapshot") /\ UNCHANGED task

WriteBuilt(w) ==
    /\ At(w, "built")
    /\ registry' = Built(held[w].game, Elements(held[w].list))
    /\ marks' = <<>>
    /\ disturbed' = (disturbed \cup {v \in Workers : Holding(v)}) \ {w}
    /\ clashed' = (w \in disturbed \/ Clash(w))
    /\ AfterRebuild(w)
    /\ UNCHANGED <<bounds, game, sprites>>

\* snapshot: a registry that is missing is built first.
ReadRegistry(w) ==
    /\ At(w, "snapshot")
    /\ IF registry = None THEN Goto(w, "rebuild") /\ UNCHANGED held
       ELSE /\ held' = [held EXCEPT ![w].registry = registry]
            /\ Goto(w, "normalise")
    /\ UNCHANGED <<bounds, task, registry, game, sprites, books>>

Entry(w) == held[w].registry[Image(task[w].id)]
Known(w) == task[w].kind # "look" /\ Image(task[w].id) \in DOMAIN held[w].registry
\* promote raises without the file of the asset.
Possible(w) == Known(w) /\ (task[w].kind = "promote" => images[task[w].id].saved)

\* It is written back if _normalize_registry changes something.
Normalise(w) ==
    LET normal == Normalised(held[w].registry)
        goesOn == Possible(w)
    IN
    /\ At(w, "normalise")
    /\ registry' = IF normal = held[w].registry THEN registry ELSE normal
    /\ IF normal = held[w].registry THEN UNCHANGED books ELSE Disturb(w) /\ LoseMarks(w)
    /\ IF goesOn
       THEN /\ held' = [held EXCEPT ![w].registry = normal]
            /\ Goto(w, IF task[w].kind = "promote" THEN "copy" ELSE "write")
            /\ UNCHANGED task
       ELSE held' = [held EXCEPT ![w] = NothingHeld] /\ Done(w)
    /\ UNCHANGED <<bounds, game, sprites>>

\* The registry is written as it was read, but for the entry.
WriteEntry(w, entry) ==
    /\ registry' = [held[w].registry EXCEPT ![Image(task[w].id)] = entry]
    /\ Disturb(w)
    /\ held' = [held EXCEPT ![w] = NothingHeld]
    /\ Done(w)

Mark(w) ==
    /\ At(w, "write")
    /\ IF task[w].kind = "mark"
       THEN /\ WriteEntry(w, [Entry(w) EXCEPT !.quality = task[w].quality])
            /\ marks' = IF Clash(w) THEN <<>>
                        ELSE [i \in DOMAIN marks \cup {task[w].id} |->
                                 IF i = task[w].id THEN task[w].quality ELSE marks[i]]
       ELSE /\ WriteEntry(w, [Entry(w) EXCEPT !.state = task[w].state])
            /\ LoseMarks(w)
    /\ UNCHANGED <<bounds, game, sprites>>

\* promote: the file is copied, or resized, as a PNG then; its name in the
\* game's manifest is the one it was to have.
TargetRef(w) == <<task[w].name, IF images[task[w].id].jpeg THEN "jpg" ELSE "png">>
TargetFile(w) == IF task[w].resize THEN <<task[w].name, "png">> ELSE TargetRef(w)

\* Mutant: the game shows the sprite before the file is there.
PlaceFirst(w) ==
    /\ At(w, "copy")
    /\ game' = [game EXCEPT !.slots[task[w].slot] = TargetRef(w)]
    /\ held' = [held EXCEPT ![w].game = game']
    /\ Goto(w, "place")
    /\ UNCHANGED <<bounds, task, registry, sprites, books>>

CopyFile(w) ==
    /\ At(w, "copy")
    /\ sprites' = [r \in DOMAIN sprites \cup {TargetFile(w)} |->
                      IF r # TargetFile(w) THEN sprites[r]
                      ELSE IF task[w].resize THEN 0 ELSE task[w].id]
    /\ held' = [held EXCEPT ![w].game = game]
    /\ Goto(w, "place")
    /\ UNCHANGED <<bounds, task, registry, game, books>>

\* _update_game_manifest.
PlaceSprite(w) ==
    /\ At(w, "place")
    /\ game' = [slots |-> [held[w].game.slots EXCEPT ![task[w].slot] = TargetRef(w)],
                promoted |-> [id \in DOMAIN held[w].game.promoted \cup {Image(task[w].id)} |->
                    IF id = Image(task[w].id) THEN TargetRef(w) ELSE held[w].game.promoted[id]]]
    /\ Disturb(w)
    /\ Goto(w, "enter")
    /\ UNCHANGED <<bounds, task, registry, sprites, held, marks>>

EnterPromotion(w) ==
    /\ At(w, "enter")
    /\ WriteEntry(w, [Entry(w) EXCEPT !.state = "promoted", !.refs = @ \cup {TargetRef(w)}])
    /\ LoseMarks(w)
    /\ UNCHANGED <<bounds, game, sprites>>

RegistryStep(w) ==
    \/ ReadSources(w) \/ WriteBuilt(w) \/ ReadRegistry(w) \/ Normalise(w)
    \/ Mark(w) \/ CopyFile(w) \/ PlaceSprite(w) \/ EnterPromotion(w)

RegistryInit ==
    /\ registry = None
    /\ game = [slots |-> [s \in Slots |-> None], promoted |-> <<>>]
    /\ sprites = <<>>
    /\ held = [w \in Workers |-> NothingHeld]
    /\ marks = <<>> /\ disturbed = {} /\ clashed = FALSE

-----------------------------------------------------------------------------
Resting == \A w \in Workers : ~Holding(w)

AssetTypeOK ==
    /\ registry # None => \A id \in DOMAIN registry :
        /\ registry[id].quality \in Qualities /\ registry[id].state \in States
        /\ registry[id].refs \subseteq Refs
    /\ game.slots \in [Slots -> Refs \cup {None}]
    /\ DOMAIN sprites \subseteq Refs

\* After a rebuild nobody disturbed, and whatever requests follow one after
\* another, the registry tells what the game shows: the entry of every asset
\* that was promoted has the reference the game has for it, every sprite the
\* game shows belongs to an entry, and what users said of the quality of images
\* since then is still there.
RegistryFollowsGame ==
    registry # None /\ Resting /\ ~clashed =>
        /\ \A id \in DOMAIN registry \cap DOMAIN game.promoted :
               game.promoted[id] \in registry[id].refs
        /\ \A r \in Shown(game) \cap DOMAIN sprites : \E id \in DOMAIN registry :
               r \in registry[id].refs \/ id = Sprite(r[1])
        /\ \A i \in DOMAIN marks : registry[Image(i)].quality = marks[i]

\* A sprite the game shows has its file, even if the sidecar ends in the midst
\* of a promotion; a JPEG that was resized has one with another suffix.
GameHasItsSprites ==
    \A r \in Shown(game) : r \in DOMAIN sprites \/ (r[2] = "jpg" /\ <<r[1], "png">> \in DOMAIN sprites)

\* The registry, the game and its sprites agree.
AssetsAgree == AssetTypeOK /\ RegistryFollowsGame /\ GameHasItsSprites
=============================================================================
