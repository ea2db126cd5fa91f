------------------------------ MODULE SpendLedger ------------------------------
(***************************************************************************)
(* The spending ledger of storage/sqlite/sqlite.go for one provider, and   *)
(* the requests of the query planner and of the catalog that reserve from  *)
(* it before they call the provider and settle afterwards.                 *)
(*                                                                         *)
(* ReserveSpend sums the reservations of each limited period and inserts a *)
(* row in one transaction; _txlock=immediate makes BeginTx take SQLite's   *)
(* write lock, in which requests of all processes wait for each other.     *)
(*                                                                         *)
(* Times are stored as text in time.RFC3339Nano and compared as text.      *)
(* That format leaves out a zero fraction, and '.' sorts before 'Z'.  The  *)
(* clock counts half seconds, which is enough to tell the two forms apart. *)
(* Amounts are whole units.                                                *)
(***************************************************************************)
EXTENDS Integers, FiniteSetsExt

CONSTANTS
  Requests,   (* the calls of Configuration.Reserve that happen             *)
  Limit,      (* Limit[p]: the limit of period p, 0 when it has none        *)
  Length,     (* Length[p]: half seconds in a period                        *)
  Maximum,    (* MaximumAmount of a request, 0 when it has none             *)
  Minimum,    (* MinimumAmount of a request                                 *)
  Costs,      (* what a call of the provider may cost                       *)
  MaxClock    (* bound of the model: the clock stops there                  *)

Periods == DOMAIN Limit

Instants == 0..MaxClock

ASSUME LedgerAssumption ==
  /\ Limit \in [Periods -> Nat]
  /\ \E p \in Periods : Limit[p] > 0
  /\ Length \in [Periods -> Nat \ {0}]
  /\ \A p \in Periods : Length[p] % 2 = 0
  /\ Maximum \in Nat /\ Minimum \in Nat
  /\ Maximum > 0 => Minimum <= Maximum
  /\ Costs \subseteq Nat
  /\ MaxClock \in Nat

VARIABLES
  clock,    (* store.now(), in half seconds                                 *)
  lock,     (* the requests whose transaction holds the write lock          *)
  request,  (* request[r]: what it has reached and read                     *)
  ledger,   (* spending_reservations: reservation r's time and amount       *)
  spent     (* history: how often the provider was called for r, and what   *)
            (* the last of these calls has cost                             *)

vars == <<clock, lock, request, ledger, spent>>

Init ==
  /\ clock = 0
  /\ lock = {}
  /\ request = [r \in Requests |-> [pc |-> "idle", now |-> 0, amount |-> 0]]
  /\ ledger = [r \in Requests |-> [at |-> 0, amount |-> 0]]
  /\ spent = [r \in Requests |-> [calls |-> 0, cost |-> 0]]

Tick ==
  /\ clock < MaxClock
  /\ clock' = clock + 1
  /\ UNCHANGED <<lock, request, ledger, spent>>

-----------------------------------------------------------------------------
(* Times                                                                   *)

Second(t) == t \div 2
Fraction(t) == t % 2

(* The start of the day, week or month of an instant: a whole second.      *)
Start(p, t) == t - (t % Length[p])

(* The order of the stored texts: in one second, the text without a        *)
(* fraction is the greater.                                                *)
FormattedAtLeast(t, s) ==
  \/ Second(t) > Second(s)
  \/ Second(t) = Second(s) /\ Fraction(t) <= Fraction(s)

(* The requests that have a row.                                           *)
Recorded == {r \in Requests : request[r].pc \in {"calling", "settled", "unsettled"}}

Total(S) == MapThenSumSet(LAMBDA r : ledger[r].amount, S)

(* SELECT SUM(amount) ... WHERE recorded_at >= start                       *)
Used(start) == Total({r \in Recorded : FormattedAtLeast(ledger[r].at, start)})

(* math.Inf(1) for a request without a maximum drops out of the minimum.   *)
Ceiling == {Maximum} \ {0}

(* Variant: only the first limit is looked at.                             *)
FirstLimitOnly(now) ==
  LET limited == {p \in Periods : Limit[p] > 0}
      p == CHOOSE q \in limited : TRUE
  IN Min(Ceiling \cup {Limit[p] - Used(Start(p, now))})

(* What every limited period and the request itself leave.                 *)
Available(now) ==
  Min(Ceiling \cup {Limit[p] - Used(Start(p, now))
                       : p \in {q \in Periods : Limit[q] > 0}})

-----------------------------------------------------------------------------
(* BeginTx with _txlock=immediate.                                         *)
BeginTx(r) == lock = {} /\ lock' = {r}

(* ReserveSpend up to its last SELECT.                                     *)
ReserveReads(r) ==
  /\ request[r].pc = "idle"
  /\ BeginTx(r)
  /\ request' = [request EXCEPT ![r] =
                   [pc |-> "reserving", now |-> clock, amount |-> Available(clock)]]
  /\ UNCHANGED <<clock, ledger, spent>>

Release(r) == lock' = lock \ {r}

(* ErrSpendLimitExceeded: the provider is not called.                      *)
ReserveRefuses(r) ==
  /\ request[r].pc = "reserving"
  /\ request[r].amount < Minimum \/ request[r].amount <= 0
  /\ request' = [request EXCEPT ![r].pc = "refused"]
  /\ Release(r)
  /\ UNCHANGED <<clock, ledger, spent>>

(* INSERT and Commit; the provider may then spend the amount.              *)
ReserveCommits(r) ==
  /\ request[r].pc = "reserving"
  /\ request[r].amount >= Minimum /\ request[r].amount > 0
  /\ request' = [request EXCEPT ![r].pc = "calling"]
  /\ ledger' = [ledger EXCEPT ![r] = [at |-> request[r].now,
                                      amount |-> request[r].amount]]
  /\ Release(r)
  /\ UNCHANGED <<clock, spent>>

(* BeginTx gives up waiting, a statement or the commit fails, or the       *)
(* process ends: rolled back.                                              *)
ReserveFails(r) ==
  /\ request[r].pc \in {"idle", "reserving"}
  /\ request' = [request EXCEPT ![r].pc = "refused"]
  /\ Release(r)
  /\ UNCHANGED <<clock, ledger, spent>>

-----------------------------------------------------------------------------
(* The provider.  It works on r also when the process that asked is gone.  *)
(* The planner calls it again, for another model, if its model turns out   *)
(* to be unavailable, unless the reservation is less than the maximum.     *)
ProviderSpends(r, cost) ==
  /\ \/ request[r].pc \in {"calling", "unsettled"} /\ spent[r].calls = 0
     \/ request[r].pc = "calling" /\ spent[r].calls = 1 /\ request[r].amount = Maximum
  /\ spent' = [spent EXCEPT ![r] = [calls |-> @.calls + 1, cost |-> cost]]
  /\ UNCHANGED <<clock, lock, request, ledger>>

(* The provider reports what the last call cost.  SettleSpend's UPDATE     *)
(* replaces the amount unless that would raise it, and then fails.         *)
SettleSpend(r) ==
  /\ request[r].pc = "calling" /\ spent[r].calls > 0 /\ lock = {}
  /\ \/ /\ spent[r].cost <= ledger[r].amount
        /\ ledger' = [ledger EXCEPT ![r].amount = spent[r].cost]
        /\ request' = [request EXCEPT ![r].pc = "settled"]
     \/ /\ spent[r].cost > ledger[r].amount
        /\ request' = [request EXCEPT ![r].pc = "unsettled"]
        /\ UNCHANGED ledger
  /\ UNCHANGED <<clock, lock, spent>>

(* Variant: what nothing is reported of is given back.                     *)
ReleaseReservation(r) ==
  /\ request[r].pc = "calling"
  /\ request' = [request EXCEPT ![r].pc = "unsettled"]
  /\ ledger' = [ledger EXCEPT ![r].amount = 0]
  /\ UNCHANGED <<clock, lock, spent>>

(* No exact usage, a failed settlement or a crash: the row stays.          *)
KeepReservation(r) ==
  /\ request[r].pc = "calling"
  /\ request' = [request EXCEPT ![r].pc = "unsettled"]
  /\ UNCHANGED <<clock, lock, ledger, spent>>

Next ==
  \/ Tick
  \/ \E r \in Requests :
       \/ ReserveReads(r) \/ ReserveRefuses(r) \/ ReserveCommits(r) \/ ReserveFails(r)
       \/ \E cost \in Costs : ProviderSpends(r, cost)
       \/ SettleSpend(r) \/ KeepReservation(r)

Spec == Init /\ [][Next]_vars

-----------------------------------------------------------------------------
(* Properties                                                              *)

(* Every variable of the ledger has its type; what a request finds left is *)
(* never negative.                                                         *)
TypeOK ==
  /\ clock \in Instants
  /\ lock \subseteq Requests
  /\ request \in [Requests ->
       [pc : {"idle", "reserving", "refused", "calling", "settled", "unsettled"},
        now : Instants, amount : Nat]]
  /\ ledger \in [Requests -> [at : Instants, amount : Nat]]
  /\ spent \in [Requests -> [calls : 0..2, cost : Nat]]

(* The reservations made in the period of p that starts at s.              *)
Made(p, s) == {r \in Recorded : Start(p, ledger[r].at) = s}

Starts(p) == {Start(p, t) : t \in Instants}

(* The ones that are counted at any time of the period.  The text of a     *)
(* fraction of its first second sorts before the period's start.           *)
Limited(p, s) == {r \in Made(p, s) : ledger[r].at = s \/ ledger[r].at >= s + 2}

(* The reservations made in a period, concurrent ones included, never      *)
(* exceed its limit; but for those made in a fraction of the period's      *)
(* first second.  (ReserveSpend, sqlite.go:2344)                           *)
WithinLimitsPastFirstSecond ==
  \A p \in Periods : Limit[p] > 0 =>
    \A s \in Starts(p) : Total(Limited(p, s)) <= Limit[p]

(* The ledger keeps its types, under one writer at a time, and the limits. *)
(* (ReserveSpend, sqlite.go:2344)                                          *)
LimitsHold == TypeOK /\ WithinLimitsPastFirstSecond

(* The ledger, if every row were what the provider took out of it.         *)
Covered ==
  [r \in Requests |-> [ledger[r] EXCEPT !.amount = Min({spent[r].cost, request[r].amount})]]

(* What the provider has taken in a period stays within the limit, whether *)
(* it was reported, is not yet known, or never will be because the process *)
(* crashed or the settlement failed: no amount that may have been spent is *)
(* reserved a second time.  Not in the ledger, and so the exceptions, are  *)
(* what a call costs beyond its reservation, the first of two calls for    *)
(* one reservation, and the fractions of the period's first second.        *)
(* (GenerateCatalogSynopsis, spending.go:23; SettleSpend, sqlite.go:2396)  *)
SpendingWithinLimits ==
  \A p \in Periods : Limit[p] > 0 =>
    \A s \in Starts(p) :
      MapThenSumSet(LAMBDA r : Covered[r].amount, Limited(p, s)) <= Limit[p]
=============================================================================
