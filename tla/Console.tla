------------------------------ MODULE Console ------------------------------
(***************************************************************************)
(* What members and administrators do at their pages: who may sign in and  *)
(* do what, and three pages of their own: the form that adds accounts, the *)
(* profile picture and what the provider bills the platform.  The pages    *)
(* share no state: a behaviour moves one of the four, the rest stay as     *)
(* they began.                                                             *)
(***************************************************************************)
EXTENDS Access, AccountForm, Picture, Usage

VARIABLE part \* which of them moves

ConsoleInit ==
  /\ part \in {"access", "form", "picture", "usage"}
  /\ Init /\ FormInit /\ PictureInit /\ UsageInit
  /\ part # "access" => user = [u \in Users |-> Absent]

ConsoleNext ==
  /\ UNCHANGED part
  /\ \/ part = "access" /\ Next /\ UNCHANGED <<fvars, pvars, uvars>>
     \/ part = "form" /\ FormNext /\ UNCHANGED <<vars, pvars, uvars>>
     \/ part = "picture" /\ PictureNext /\ UNCHANGED <<vars, fvars, uvars>>
     \/ part = "usage" /\ UsageNext /\ UNCHANGED <<vars, fvars, pvars>>

ConsoleSpec == ConsoleInit /\ [][ConsoleNext]_<<part, vars, fvars, pvars, uvars>>

-----------------------------------------------------------------------------
(* Property: those of Access, and this group of the pages'.                *)

\* Every page is reached, and every request its page makes, on every deployment (proxy.ts,
\* the layouts' guards, apiFetch); and a page says what is so: the account form offers
\* servers of the broker and platform chosen (BrokerServerPicker), the picture is the one
\* stored (AvatarImage), the deposits and the spending are ones that were made
\* (getMetaApiUsage).
PagesAreRight ==
  /\ PagesAreReached
  /\ part = "form" => FormType /\ PairsAreOfOnePlatform
  /\ part = "picture" => PictureType /\ PictureIsStored
  /\ part = "usage" => UsageType /\ UsageIsTrue
=============================================================================
