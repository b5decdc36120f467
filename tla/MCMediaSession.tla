--------------------------- MODULE MCMediaSession ---------------------------
(***************************************************************************)
(* One player.  The configurations give it as many retries as the code     *)
(* allows (two) and a page that offers one further rendition, so that the  *)
(* whole ladder of MediaSession is climbed and found empty.                *)
(***************************************************************************)
EXTENDS MediaSession
=============================================================================
