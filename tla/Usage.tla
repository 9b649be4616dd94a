------------------------------- MODULE Usage -------------------------------
(***************************************************************************)
(* What the platform's own account at MetaApi costs: the balance falls     *)
(* while accounts run and rises when someone tops it up elsewhere; each    *)
(* poll of an administrator's page may store a snapshot of it, and derives *)
(* the pace of spending and the deposits from the snapshots there are.     *)
(***************************************************************************)
EXTENDS Integers, SequencesExt

CONSTANTS
  Polls,      \* requests of administrators' pages in flight
  MinGap,     \* SNAPSHOT_MIN_GAP_MS; time advances in units of it
  MinWindow,  \* MIN_WINDOW_MS
  Listed,     \* deposits shown
  LowBalance, LowRunway,
  Deposited,    \* the balance to begin with
  MaxPaid, MaxUsed, MaxTime, MaxPolls \* bounds: money paid in, money used up, time, polls

\* A poll lasts less than the window it measures.
ASSUME UsageAssumption ==
  /\ MinGap \in Nat \ {0} /\ MinWindow \in Nat /\ MinWindow >= 2 /\ Listed \in Nat \ {0}
  /\ {LowBalance, LowRunway, Deposited, MaxPaid, MaxUsed, MaxTime, MaxPolls} \subseteq Nat

VARIABLES
  paid, used, \* money paid in and used up so far, in units above a cent
  now,
  snapshots,  \* stored snapshots, oldest first; used is history
  poll,       \* what each request knows; used and before are history
  polls,      \* how many there have been
  panel,      \* the figures last shown on a page
  outrun      \* history: another snapshot was stored between a balance and its own

uvars == <<paid, used, now, snapshots, poll, polls, panel, outrun>>

Balance == Deposited + paid - used
NoAmount == -1
NoPoll == [step |-> "idle", amount |-> NoAmount, used |-> 0, began |-> 0, before |-> 0]
NoFigures == [amount |-> NoAmount, used |-> 0, spent |-> 0, low |-> FALSE, funding |-> [i \in {} |-> 0]]

Amounts == 0..(Deposited + MaxPaid)
UsageType ==
  /\ paid \in 0..MaxPaid /\ used \in 0..MaxUsed /\ now \in 0..MaxTime /\ polls \in 0..MaxPolls /\ outrun \in BOOLEAN
  /\ \A i \in DOMAIN snapshots : snapshots[i] \in [amount : Amounts, at : 0..MaxTime, used : 0..MaxUsed]
  /\ poll \in [Polls -> [step : {"idle", "latest", "record", "answer"}, amount : Amounts \cup {NoAmount},
                       used : 0..MaxUsed, began : 0..MaxTime, before : 0..Len(snapshots)]]
  /\ panel.amount \in Amounts \cup {NoAmount} /\ panel.spent \in Amounts /\ panel.low \in BOOLEAN
  /\ Cardinality(DOMAIN panel.funding) <= Listed

UsageInit ==
  /\ paid = 0 /\ used = 0 /\ now = 0 /\ snapshots = << >>
  /\ poll = [p \in Polls |-> NoPoll] /\ polls = 0 /\ panel = NoFigures /\ outrun = FALSE

-----------------------------------------------------------------------------
(* The account at MetaApi, and time.                                       *)

Spend ==
  /\ Balance > 0 /\ used < MaxUsed /\ used' = used + 1
  /\ UNCHANGED <<paid, now, snapshots, poll, polls, panel, outrun>>
TopUp ==
  /\ paid < MaxPaid /\ paid' = paid + 1
  /\ UNCHANGED <<used, now, snapshots, poll, polls, panel, outrun>>

\* A request may outlast one unit of time, not two.
Pass ==
  /\ now < MaxTime /\ \A p \in Polls : poll[p].step = "idle" \/ poll[p].began = now
  /\ now' = now + 1
  /\ UNCHANGED <<paid, used, snapshots, poll, polls, panel, outrun>>

-----------------------------------------------------------------------------
(* getMetaApiUsage, for the page and for every poll of it.                 *)

Polled(p, step) == poll' = [poll EXCEPT ![p].step = step]

\* load: by the clock or the button, whatever is still under way; the balance is asked for
\* first.
FetchMetaApiBalance(p) ==
  /\ poll[p].step = "idle" /\ polls < MaxPolls /\ polls' = polls + 1
  /\ poll' = [poll EXCEPT ![p] = [step |-> "latest", amount |-> Balance, used |-> used,
                                  began |-> now, before |-> Len(snapshots)]]
  /\ UNCHANGED <<paid, used, now, snapshots, panel, outrun>>

\* recordSnapshot: none while the latest is young.
ReadLatest(p) ==
  /\ poll[p].step = "latest"
  /\ LET young == snapshots # << >> /\ now - Last(snapshots).at < MinGap
     IN  Polled(p, IF young THEN "answer" ELSE "record")
  /\ UNCHANGED <<paid, used, now, snapshots, polls, panel, outrun>>

RecordSnapshot(p) ==
  /\ poll[p].step = "record" /\ Polled(p, "answer")
  /\ snapshots' = Append(snapshots, [amount |-> poll[p].amount, at |-> now, used |-> poll[p].used])
  /\ outrun' = (outrun \/ Len(snapshots) # poll[p].before)
  /\ UNCHANGED <<paid, used, now, polls, panel>>

\* measureBurn: what is gone since the oldest snapshot; nothing over a short window or a
\* balance that rose.
Elapsed == now - Head(snapshots).at
MeasureBurn(amount) ==
  IF Elapsed >= MinWindow /\ Head(snapshots).amount > amount THEN Head(snapshots).amount - amount ELSE 0

\* The floor: of the balance, or of its days at spent / elapsed.
LowUsage(amount) ==
  amount < LowBalance \/ (MeasureBurn(amount) > 0 /\ amount * Elapsed < LowRunway * MeasureBurn(amount))

\* getFundingHistory: the rises from one snapshot to the next, the latest of them.
Rises == {i \in 1..(Len(snapshots) - 1) : snapshots[i + 1].amount > snapshots[i].amount}
FundingHistory ==
  [i \in {rise \in Rises : Cardinality({later \in Rises : later > rise}) < Listed} |->
     [amount |-> snapshots[i + 1].amount - snapshots[i].amount, after |-> snapshots[i + 1].amount]]

\* The figures that come last are shown, older or not.
AnswerPoll(p) ==
  /\ poll[p].step = "answer"
  /\ panel' = [amount |-> poll[p].amount, used |-> poll[p].used, spent |-> MeasureBurn(poll[p].amount),
               low |-> LowUsage(poll[p].amount), funding |-> FundingHistory]
  /\ poll' = [poll EXCEPT ![p] = NoPoll]
  /\ UNCHANGED <<paid, used, now, snapshots, polls, outrun>>

\* The billing API fails: the page says so, and shows the deposits there are.
BalanceError ==
  /\ polls < MaxPolls /\ polls' = polls + 1
  /\ panel' = [NoFigures EXCEPT !.funding = FundingHistory]
  /\ UNCHANGED <<paid, used, now, snapshots, poll, outrun>>

\* A poll that fails or is dropped leaves the page.
DroppedPoll(p) ==
  /\ poll[p].step # "idle"
  /\ poll' = [poll EXCEPT ![p] = NoPoll]
  /\ UNCHANGED <<paid, used, now, snapshots, polls, panel, outrun>>

UsageNext ==
  \/ Spend \/ TopUp \/ Pass \/ BalanceError
  \/ \E p \in Polls :
       FetchMetaApiBalance(p) \/ ReadLatest(p) \/ RecordSnapshot(p) \/ AnswerPoll(p) \/ DroppedPoll(p)

-----------------------------------------------------------------------------
(* Properties.                                                             *)

\* "Funding is detected from the only signal available": what a page shows as paid in never
\* exceeds what was paid in, and the spending it shows since the oldest snapshot never
\* exceeds what was used; snapshots are apart.  Unless another snapshot was stored between
\* a balance and its own: then the older balance, stored last, looks like a deposit.
UsageIsTrue ==
  ~outrun =>
    /\ SumFunction([i \in DOMAIN panel.funding |-> panel.funding[i].amount]) <= paid
    /\ panel.spent > 0 => panel.spent <= panel.used - Head(snapshots).used
    /\ \A i \in 1..(Len(snapshots) - 1) : snapshots[i + 1].at - snapshots[i].at >= MinGap
=============================================================================
