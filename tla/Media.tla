------------------------------- MODULE Media -------------------------------
(***************************************************************************)
(* The pictures of the machine: recordings on the card, the live picture   *)
(* and the preview of recordings.  That the live picture ends a preview is *)
(* in Preview, where the arbiter does so at any time.                      *)
(***************************************************************************)
EXTENDS VideoStore, LiveView, Preview

MediaSpec == VideoSpec /\ LiveSpec /\ PreviewSpec

(* Pictures reach who asked for them and stay: recordings are not lost to   *)
(* other recordings (VideosKept), the live picture goes to one viewer, the  *)
(* last that asked (LiveServes), and a preview to the viewer of the open    *)
(* session (PreviewServes).                                                 *)
MediaServes == VideosKept /\ LiveServes /\ PreviewServes
=============================================================================
