-------------------------- MODULE MCAlbumPhotos --------------------------
(* Small instances of the album store for TLC. *)
EXTENDS AlbumPhotos, TLC
=============================================================================
