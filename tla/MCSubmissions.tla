--------------------------- MODULE MCSubmissions ---------------------------
(***************************************************************************)
(* Small instances of Submissions: two samples, the second a day younger,  *)
(* of good size or not.  VirusTotal has a tighter cap than a run's lookups *)
(* and uploads together.                                                   *)
(***************************************************************************)
EXTENDS Submissions, TLC

TwoDays == ("a" :> 1) @@ ("b" :> 2)
SmallCaps == ("vt" :> 2) @@ ("mb" :> 2)
OneUpload == ("vt" :> 1) @@ ("mb" :> 2)
=============================================================================
