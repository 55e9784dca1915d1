----------------------------- MODULE MCDownloader -----------------------------
(* Checks Downloader: two sections of a file each; for the finding the first has two. *)
EXTENDS Downloader

OneEach == <<1, 1>>
TwoAndOne == <<2, 1>>
=============================================================================
