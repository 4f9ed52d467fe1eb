-------------------------- MODULE MCAndroidServer --------------------------
(* Four runs of the app, so that some can go without EXIT and some with it,  *)
(* and still come back; one descriptor more than the server should ever hold. *)
EXTENDS AndroidServer
MCMaxFd == 4
=============================================================================
