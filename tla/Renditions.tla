------------------------------ MODULE Renditions ------------------------------
(***************************************************************************)
(* The encode ladder of worker/transcode.py: which preview renditions a    *)
(* source of a given height produces.  Bitrates and ffmpeg arguments are   *)
(* left out: no property of the pipeline depends on them.                  *)
(***************************************************************************)
EXTENDS Naturals

\* The preview members of AssetType; the fourth member is the thumbnail.
Previews == {"preview_1080p", "preview_720p", "preview_480p"}

AssetTypes == Previews \cup {"thumbnail"}

\* Rendition.height of each entry of _RENDITIONS.
RenditionHeight ==
    [r \in Previews |-> CASE r = "preview_1080p" -> 1080
                          [] r = "preview_720p"  -> 720
                          [] r = "preview_480p"  -> 480]

\* Only resolutions strictly below the source's are produced.
RenditionsFor(sourceHeight) ==
    {r \in Previews : RenditionHeight[r] < sourceHeight}

\* The list is ordered largest first, so the encode loop takes the tallest
\* rendition it has not produced yet.
Tallest(todo) ==
    CHOOSE r \in todo : \A q \in todo : RenditionHeight[q] =< RenditionHeight[r]
===============================================================================
