-------------------------------- MODULE Desk --------------------------------
(***************************************************************************)
(* The account desk: the sessions of a login at the provider, the book of  *)
(* an account and its history page, and the stream that keeps an open page *)
(* fresh.  They share no state, so nothing said of one depends on how the  *)
(* others move beside it: a behaviour moves one of them, and the rest stay *)
(* as they began.                                                          *)
(***************************************************************************)
EXTENDS Sessions, Book, Live

VARIABLE part \* which of them moves

DeskInit ==
  /\ part \in {"sessions", "book", "live"}
  /\ SessionsInit /\ BookInit /\ LiveInit
  /\ part # "sessions" => made = 0
  /\ part # "book" => venue = CHOOSE v \in Venues : TRUE

DeskNext ==
  /\ UNCHANGED part
  /\ \/ part = "sessions" /\ SessionsNext /\ UNCHANGED <<bvars, lvars>>
     \/ part = "book" /\ BookNext /\ UNCHANGED <<svars, lvars>>
     \/ part = "live" /\ LiveNext /\ UNCHANGED <<svars, bvars>>

\* While the sessions move: awaited calls return or throw, the provider gets to what it was
\* asked, and a sweep goes through every account it lists (reconcileAllAccounts), so that none
\* waits for ever.
SessionsFairness ==
  /\ \A c \in Calls : WF_svars(part = "sessions" /\ SessionStep(c))
  /\ \A t \in Terminals : WF_svars(part = "sessions" /\ Settle(t))
  /\ \A r \in Rows : SF_svars(part = "sessions" /\ \E c \in WorkerCalls : EnsureProviderSession(c, r))

DeskSpec == DeskInit /\ [][DeskNext]_<<part, svars, bvars, lvars>> /\ SessionsFairness

-----------------------------------------------------------------------------
(* Properties: those of the parts, and these groups of them.               *)

\* A process only ever hands out connections that are open or being opened, and one login
\* has one account at the provider that some row or call names (MetaApiProvider.ts: client,
\* connection and connectAccount); sessions and page are in states their data types allow.
ConnectionsHold ==
  /\ SessionsType /\ LiveType
  /\ CacheIsSound /\ TerminalsInHand

\* The book of an account: the result recorded for a copy and the history page are the
\* broker's (getClosedPosition, getAccountHistory).
BookIsRight == BookType /\ HistoryIsRight /\ RecordedIsTheBrokers
=============================================================================
