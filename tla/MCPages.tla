-------------------------------- MODULE MCPages --------------------------------
(* An instance of Pages and Uploads for TLC.  A behaviour is one of one of the two: two windows *)
(* see three versions of the client, a page of the library is one game, and one directory, link *)
(* and account have a few versions each; or two requests and a cleanup work on two uploads.     *)
EXTENDS Pages, MCUploads

ASSUME Assumptions == PagesConfigured

PagesOff ==
  /\ pagesPart = "none" /\ UpdateOff /\ LibraryOff /\ DirectoriesOff /\ DialogStackOff /\ AccountsOff

\* While the pages are used, nothing is uploaded.
ServedInit == Init /\ (PagesOff \/ PagesInit)
ServedNext ==
  \/ /\ pagesPart = "none" /\ Next
     /\ UNCHANGED pagesVars
  \/ /\ PagesNext
     /\ UNCHANGED vars

ServedSpec == ServedInit /\ [][ServedNext]_<<vars, pagesVars>>
===============================================================================
