--------------------------- MODULE MCTorrentSession ---------------------------
(* Two copies of one torrent file: two paths, the same content.              *)
EXTENDS TorrentSession

CONSTANTS film, copy, c1, c2, movie

MCInfo == [t \in Torrents |-> movie]

===============================================================================
