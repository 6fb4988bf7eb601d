----------------------------- MODULE ImageDraws -----------------------------
(***************************************************************************)
(* Images drawn by the provider (yunwu_image_service.py), for the front    *)
(* end, for a dynamic tool or in the server of the MCP tools: the request  *)
(* and its checks, its attempts, and the list of generated images, which   *)
(* is read before the images are fetched and written after that.           *)
(*                                                                         *)
(* Abstracted: prompts, sizes, keys; of an image we tell whether its file  *)
(* could be saved, whether that is a JPEG, and whether it failed the check *)
(* for transparency.  Images are numbered as the provider made them.       *)
(***************************************************************************)
EXTENDS Workers

CONSTANTS
    MaxImages,      \* bound: images the provider makes
    MaxN,           \* MAX_GENERATION_N
    Attempts,       \* YUNWU_IMAGE_RETRY_ATTEMPTS
    Kept,           \* records the list holds, 500
    Drawn,          \* bound: what images may be like
    Stock           \* bound: images there may be from the start

Picture == [saved : BOOLEAN, jpeg : BOOLEAN, failed : BOOLEAN]

ASSUME DrawAssumption ==
    /\ {MaxImages, MaxN, Attempts, Kept} \subseteq Nat \ {0}
    /\ Drawn \subseteq Picture
    /\ \A s \in Stock : s \in Seq(Picture) /\ Len(s) <= MaxImages

VARIABLES
    images,         \* images made
    manifest,       \* asset_manifest.json
    draw,           \* of each worker: attempts, images it got, list it read
    recorded,       \* images as their draws recorded them, in order
    exposed         \* those recorded while another draw had read the list

drawing == <<images, manifest, draw, recorded, exposed>>

NoDraw == [attempt |-> 0, got |-> <<>>, list |-> <<>>]
LastOf(s, n) == IF Len(s) <= n THEN s ELSE SubSeq(s, Len(s) - n + 1, Len(s))
Elements(s) == {s[i] : i \in DOMAIN s}

Bounded(n) == IF n < 1 THEN 1 ELSE IF n > MaxN THEN MaxN ELSE n

\* generate, edit and transparent_asset, which edits an empty image: what is
\* asked for, of a tool or by the front end.
Draws == [kind : {"draw"}, tool : BOOLEAN, edit : BOOLEAN, n : 0 .. MaxN + 1,
          clear : BOOLEAN, jpeg : BOOLEAN]

\* generation_payload and edit_payload: an edit names no format.
Accepted(r) == IF r.edit THEN ~r.jpeg ELSE ~(r.clear /\ r.jpeg)

\* What the provider may make, and _inspect_saved_image may find.  The provider
\* may ignore the format; a JPEG is not transparent.
Pictures(r) ==
    {p \in Drawn :
        /\ p.failed => p.saved /\ r.clear
        /\ p.jpeg => p.saved /\ (r.clear => p.failed)}

-----------------------------------------------------------------------------
BeginDraw(w, r) ==
    /\ Accepted(r)
    /\ Take(w, r, "post")
    /\ draw' = [draw EXCEPT ![w].attempt = 1]
    /\ UNCHANGED <<images, manifest, recorded, exposed>>

\* _open_json: the provider answers; there may be other than n images.
Answered(w) ==
    /\ At(w, "post")
    /\ \E k \in 0 .. Bounded(task[w].n) : \E new \in [1 .. k -> Pictures(task[w])] :
           /\ Len(images) + k <= MaxImages
           /\ images' = images \o new
           /\ draw' = [draw EXCEPT ![w].got = [i \in 1 .. k |-> Len(images) + i]]
    /\ Goto(w, "drawn")
    /\ UNCHANGED <<bounds, task, manifest, recorded, exposed>>

\* What may pass is tried again; images the provider has made are lost.
TryAgain(w) ==
    /\ At(w, "post") /\ draw[w].attempt < Attempts
    /\ draw' = [draw EXCEPT ![w].attempt = @ + 1]
    /\ UNCHANGED <<work, images, manifest, recorded, exposed>>

GiveUp(w) ==
    /\ At(w, "post")
    /\ Done(w)
    /\ draw' = [draw EXCEPT ![w] = NoDraw]
    /\ UNCHANGED <<bounds, images, manifest, recorded, exposed>>

Listing(w) == At(w, "fetch")

ReadList(w) ==
    /\ At(w, "drawn")
    /\ draw' = [draw EXCEPT ![w].list = manifest]
    /\ Goto(w, "fetch")
    /\ UNCHANGED <<bounds, task, images, manifest, recorded, exposed>>

\* A tool goes on with the registry of assets.
EndDraw(w) ==
    /\ IF task[w].tool THEN Goto(w, "rebuild") /\ UNCHANGED task ELSE Done(w)
    /\ recorded' = recorded \o draw[w].got
    /\ exposed' = IF \E v \in Others(w) : Listing(v)
                  THEN exposed \cup Elements(draw[w].got) ELSE exposed
    /\ draw' = [draw EXCEPT ![w] = IF task[w].tool THEN [@ EXCEPT !.list = <<>>] ELSE NoDraw]

\* Mutant: only what is new is written.
WriteNew(w) ==
    /\ At(w, "fetch")
    /\ manifest' = LastOf(draw[w].got, Kept)
    /\ EndDraw(w)
    /\ UNCHANGED <<bounds, images>>

\* The images have been fetched, each for up to two minutes, or not.
WriteList(w) ==
    /\ At(w, "fetch")
    /\ manifest' = LastOf(draw[w].list \o draw[w].got, Kept)
    /\ EndDraw(w)
    /\ UNCHANGED <<bounds, images>>

DrawStep(w) == Answered(w) \/ TryAgain(w) \/ GiveUp(w) \/ ReadList(w) \/ WriteList(w)

\* Where the registry is worked on and nobody draws, there are images already.
Stocked == "draw" \notin cast /\ cast \cap {"mark", "promote", "rebuild"} # {}

DrawInit ==
    /\ images \in IF Stocked THEN Stock ELSE {<<>>}
    /\ manifest = LastOf([i \in DOMAIN images |-> i], Kept)
    /\ recorded = manifest /\ exposed = {}
    /\ draw = [w \in Workers |-> NoDraw]

-----------------------------------------------------------------------------
DrawTypeOK ==
    /\ Len(images) <= MaxImages
    /\ Elements(manifest) \subseteq DOMAIN images
    /\ \A w \in Workers :
        /\ draw[w].attempt \in 0 .. Attempts
        /\ Elements(draw[w].got) \subseteq DOMAIN images
        /\ draw[w].list # <<>> => Listing(w)

\* The list holds the images recorded last, each once and in order, but for
\* those recorded while another draw was between reading the list and writing
\* it: draws are to be made in parallel, and lose each other's records then.
DrawsAreListed ==
    /\ DrawTypeOK
    /\ \A i \in DOMAIN LastOf(recorded, Kept) :
           LastOf(recorded, Kept)[i] \in Elements(manifest) \cup exposed
    /\ \A i, j \in DOMAIN manifest : i < j =>
           \E k, l \in DOMAIN recorded :
               k < l /\ recorded[k] = manifest[i] /\ recorded[l] = manifest[j]
=============================================================================
