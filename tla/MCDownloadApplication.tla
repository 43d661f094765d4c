------------------------ MODULE MCDownloadApplication ------------------------
(* Instances of DownloadApplication for TLC.                                 *)
EXTENDS DownloadApplication

MCIds == {"a", "b"}

===============================================================================
