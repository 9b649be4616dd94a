---------------------------- MODULE AccountForm ----------------------------
(***************************************************************************)
(* The form that adds a trading account: a search for brokers that runs as *)
(* the member types, whose replies come back in any order or fail, the     *)
(* server picked from the reply, and what is stored of the two.            *)
(***************************************************************************)
EXTENDS Integers, FiniteSets

CONSTANTS
  Directory,   \* platform -> broker -> its servers there, as MetaApi knows them
  MaxSearches, \* bound: searches sent
  MaxAccounts  \* bound: accounts added

ASSUME FormAssumption ==
  /\ DOMAIN Directory = {"MT4", "MT5"}
  /\ \A p \in DOMAIN Directory, q \in DOMAIN Directory : DOMAIN Directory[p] = DOMAIN Directory[q]
  /\ {MaxSearches, MaxAccounts} \subseteq Nat

VARIABLES
  shown,   \* the form is on the page
  form,    \* what it holds: platform, broker and server fields, the dropdown, the search
  reply,   \* searches the server has not answered yet
  saving,  \* the account being added, as the form was when it was sent
  account, \* accounts added
  crossed  \* history: a reply for the other platform was let in, or used

fvars == <<shown, form, reply, saving, account, crossed>>

Platforms == {"MT4", "MT5"}
Brokers == DOMAIN Directory["MT4"]
\* What a member types: too little to search for, some of every name, or a name.
Texts == {"", "any"} \cup Brokers
Matching(platform, text) ==
  {b \in Brokers : text \in {"any", b} /\ Directory[platform][b] # {}}

NoServer == <<>>
Typed == <<"typed">>
\* A server taken from the list: of the platform, and by the broker, it was found under.
Picked(platform, broker) == {<<platform, broker, s>> : s \in Directory[platform][broker]}
Found == UNION {Picked(p, b) : p \in Platforms, b \in Brokers}

NoResults == [seq |-> 0, platform |-> "MT5", text |-> ""]
Fresh(platform) ==
  [platform |-> platform, broker |-> "", server |-> NoServer, results |-> NoResults, servers |-> {},
   open |-> FALSE, seq |-> 0, timer |-> FALSE, loading |-> FALSE]
NotSaving == [platform |-> "MT5", broker |-> "", server |-> NoServer]

Search == [seq : 0..MaxSearches, platform : Platforms, text : Texts]
Account == [platform : Platforms, broker : Texts, server : {NoServer, Typed} \cup Found]
FormType ==
  /\ shown \in BOOLEAN /\ crossed \in BOOLEAN
  /\ form \in [platform : Platforms, broker : Texts, server : {NoServer, Typed} \cup Found, results : Search,
               servers : SUBSET Found, open : BOOLEAN, seq : 0..MaxSearches, timer : BOOLEAN, loading : BOOLEAN]
  /\ reply \subseteq Search /\ saving \in Account /\ account \subseteq Account

FormInit ==
  /\ shown = TRUE /\ form = Fresh("MT5") /\ reply = {}
  /\ saving = NotSaving /\ account = {} /\ crossed = FALSE

\* A change of the text, of the dropdown or of the platform starts the timer again.
Set(new) == form' = [new EXCEPT !.timer = new.open]

TypeBroker(text) ==
  /\ shown /\ text # form.broker
  /\ Set([form EXCEPT !.broker = text, !.open = TRUE])
  /\ UNCHANGED <<shown, reply, saving, account, crossed>>

FocusBroker ==
  /\ shown /\ ~form.open
  /\ Set([form EXCEPT !.open = TRUE])
  /\ UNCHANGED <<shown, reply, saving, account, crossed>>

\* A press outside closes the dropdown, and the timer with it.
PressOutside ==
  /\ shown /\ form.open
  /\ Set([form EXCEPT !.open = FALSE])
  /\ UNCHANGED <<shown, reply, saving, account, crossed>>

\* search: after the pause, for the text there is by then.
SearchBrokers ==
  /\ shown /\ form.timer
  /\ IF form.broker = ""
     THEN form' = [form EXCEPT !.timer = FALSE, !.results = NoResults] /\ UNCHANGED reply
     ELSE /\ form.seq < MaxSearches
          /\ form' = [form EXCEPT !.timer = FALSE, !.seq = @ + 1, !.loading = TRUE]
          /\ reply' = reply \cup {[seq |-> form.seq + 1, platform |-> form.platform, text |-> form.broker]}
  /\ UNCHANGED <<shown, saving, account, crossed>>

\* A newer search makes an older reply void.
Answered(r, results) ==
  form' = IF r.seq = form.seq THEN [form EXCEPT !.results = results, !.loading = FALSE] ELSE form

\* searchKnownServers behind api/brokers: the reply, or none when it or the limit refuses.
Reply(r) ==
  /\ r \in reply /\ reply' = reply \ {r}
  /\ \E results \in {r, NoResults} :
       /\ Answered(r, results)
       /\ crossed' = (crossed \/ (results # NoResults /\ form'.results = r /\ r.platform # form.platform))
  /\ UNCHANGED <<shown, saving, account>>

\* chooseBroker: its servers come with it, and a single one is taken at once.
ChooseBroker(b) ==
  /\ shown /\ form.open /\ form.broker # "" /\ form.results # NoResults
  /\ b \in Matching(form.results.platform, form.results.text)
  /\ LET servers == Picked(form.results.platform, b)
     IN Set([form EXCEPT !.broker = b, !.servers = servers, !.open = FALSE,
                         !.server = IF Cardinality(servers) = 1 THEN CHOOSE s \in servers : TRUE ELSE NoServer])
  /\ UNCHANGED <<shown, reply, saving, account, crossed>>

ChooseServer(s) ==
  /\ shown /\ s \in form.servers
  /\ form' = [form EXCEPT !.server = s]
  /\ UNCHANGED <<shown, reply, saving, account, crossed>>
TypeServer ==
  /\ shown /\ form.server # Typed
  /\ form' = [form EXCEPT !.server = Typed]
  /\ UNCHANGED <<shown, reply, saving, account, crossed>>

\* A server is of one version: both fields and what was found are dropped.
SetPlatform(platform) ==
  /\ shown /\ platform # form.platform
  /\ Set([form EXCEPT !.platform = platform, !.broker = "", !.server = NoServer, !.results = NoResults, !.servers = {}])
  /\ UNCHANGED <<shown, reply, saving, account, crossed>>

\* onSubmit: the fields as they are; broker and server are required.
Submit ==
  /\ shown /\ saving = NotSaving /\ Cardinality(account) < MaxAccounts
  /\ form.broker # "" /\ form.server # NoServer
  /\ saving' = [platform |-> form.platform, broker |-> form.broker, server |-> form.server]
  /\ UNCHANGED <<shown, form, reply, account, crossed>>

\* The account is stored: the form closes, and the picker with what it waited for.
Added ==
  /\ saving # NotSaving
  /\ account' = account \cup {saving} /\ saving' = NotSaving
  /\ shown' = FALSE /\ form' = Fresh("MT5") /\ reply' = {}
  /\ UNCHANGED crossed
\* A limit, a login already there or the validation refuses it: the fields stay.
CouldNotAdd ==
  /\ saving # NotSaving /\ saving' = NotSaving
  /\ UNCHANGED <<shown, form, reply, account, crossed>>

\* Cancel unmounts the picker; the platform is the page's.
Cancel ==
  /\ shown /\ account # {} /\ shown' = FALSE
  /\ form' = Fresh(form.platform) /\ reply' = {}
  /\ UNCHANGED <<saving, account, crossed>>
AddAnother ==
  /\ ~shown /\ shown' = TRUE
  /\ UNCHANGED <<form, reply, saving, account, crossed>>

FormNext ==
  \/ \E text \in Texts : TypeBroker(text)
  \/ FocusBroker \/ PressOutside \/ SearchBrokers
  \/ \E r \in reply : Reply(r)
  \/ \E b \in Brokers : ChooseBroker(b)
  \/ \E s \in form.servers : ChooseServer(s)
  \/ TypeServer \/ \E p \in Platforms : SetPlatform(p)
  \/ Submit \/ Added \/ CouldNotAdd \/ Cancel \/ AddAnother

-----------------------------------------------------------------------------
(* Properties.                                                             *)

IsPicked(server) == server \in Found

\* Whatever order replies come in: what the dropdown shows answers the newest search, or that
\* search is still out, and so is every search the spinner turns for; and a server taken from
\* the list is of the account's platform, in the form, on its way and stored ("a slow earlier
\* request overwriting a newer one's", "rather than silently keeping a bad pair").  Exception:
\* a reply that outlives a change of platform.
PairsAreOfOnePlatform ==
  /\ form.results # NoResults => form.results.seq = form.seq \/ \E r \in reply : r.seq = form.seq
  /\ form.loading => \E r \in reply : r.seq = form.seq
  /\ ~crossed => /\ form.results # NoResults => form.results.platform = form.platform
                 /\ \A s \in form.servers : s[1] = form.platform
                 /\ \A a \in account \cup {saving, [platform |-> form.platform, server |-> form.server]} :
                      IsPicked(a.server) => a.server[1] = a.platform
=============================================================================
