----------------------------- MODULE MCDownload -----------------------------
(***************************************************************************)
(* Requests of two recipients who can get an archive, one of them with     *)
(* another one that is transformed, and of a third who cannot.             *)
(***************************************************************************)
EXTENDS Download

CONSTANTS local, remote       \* files
CONSTANTS to1, to2, unfit     \* recipients

Request(recipient, files, reproj) ==
    [recipient |-> recipient, files |-> files, reproj |-> reproj]

MCRequests ==
    {Request(to1, {local, remote}, FALSE), Request(to1, {remote}, TRUE),
     Request(to2, {remote}, FALSE), Request(unfit, {local}, FALSE)}
=============================================================================
