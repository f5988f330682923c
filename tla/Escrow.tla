------------------------------- MODULE Escrow -------------------------------
(***************************************************************************)
(* The lineproof-escrow contract (contracts/lineproof-escrow/src/lib.rs):   *)
(* one record per (queue, identity), a running total per queue, and the     *)
(* ledger clock the hold period is measured with.  The contract keeps the   *)
(* books of the deposits; it moves no token.  release, refund and           *)
(* set_config require the signature of the address passed as admin and do   *)
(* not compare it with the configured one, so any caller can be it.  The    *)
(* asset of a deposit is stored and never read: one total counts them all.  *)
(***************************************************************************)
EXTENDS Integers, FiniteSets, FiniteSetsExt

CONSTANTS
    Queues, Identities,
    Keys,            \* the pairs (queue, identity) that may deposit
    Amounts,         \* amounts tried by deposit (i128, so zero and below too)
    Bounds,          \* the pairs (min_deposit, max_deposit) tried by set_config
    HoldPeriods,     \* hold_period_days tried by set_config
    SecondsPerDay,   \* 86400 in the code
    I128Max,         \* largest total; the release profile traps on overflow
    U64Max           \* largest timestamp, and the last tick of the model's clock

ASSUME EscrowAssumption ==
    /\ Keys \subseteq Queues \X Identities
    /\ Amounts \subseteq Int
    /\ Bounds \subseteq Int \X Int
    /\ HoldPeriods \subseteq Nat
    /\ SecondsPerDay \in Nat \ {0}
    /\ I128Max \in Nat
    /\ U64Max \in Nat

VARIABLES
    escrow,         \* the ("escrow", queue, identity) entries, NoEscrow when absent
    escrow_config,  \* the ("escrow_config", queue) entries, NoEscrowConfig when absent
    escrow_total,   \* the ("escrow_total", queue) entries (0 when absent)
    timestamp,      \* ledger timestamp
    agreed          \* history: the hold_period_days in force when a key deposited

escvars == <<escrow, escrow_config, escrow_total, timestamp, agreed>>

Times == 0..U64Max
Terminal == {"Released", "Refunded", "Expired"}
NoTime == -1                     \* released_at: None
NoEscrow == [amount |-> 0, status |-> "None", created_at |-> 0, expires_at |-> 0,
             released_at |-> NoTime]
EscrowRecord == [amount : Int, status : {"Active"} \cup Terminal, created_at : Times,
                 expires_at : Times, released_at : Times \cup {NoTime}]
NoEscrowConfig == [min_deposit |-> 0, max_deposit |-> 0, hold_period_days |-> 0]
EscrowConfig == [min_deposit : Int, max_deposit : Int, hold_period_days : Nat \ {0}]

EscrowInit ==
    /\ escrow = [k \in Keys |-> NoEscrow]
    /\ escrow_config = [q \in Queues |-> NoEscrowConfig]
    /\ escrow_total = [q \in Queues |-> 0]
    /\ timestamp = 0
    /\ agreed = [k \in Keys |-> 0]

\* The clock of the ledger, advanced by the network.
EscrowTick ==
    /\ timestamp < U64Max
    /\ timestamp' = timestamp + 1
    /\ UNCHANGED <<escrow, escrow_config, escrow_total, agreed>>

SetEscrowConfig(q, min, max, days) ==
    /\ min <= max
    /\ days # 0
    /\ escrow_config' = [escrow_config EXCEPT ![q] =
          [min_deposit |-> min, max_deposit |-> max, hold_period_days |-> days]]
    /\ UNCHANGED <<escrow, escrow_total, timestamp, agreed>>

\* One deposit per identity and queue, ever: a settled record is still a record.
DepositMutant(k, amount) ==
    /\ amount > 0
    /\ escrow[k].status # "Active"
    /\ escrow_config[k[1]] # NoEscrowConfig
    /\ amount >= escrow_config[k[1]].min_deposit /\ amount <= escrow_config[k[1]].max_deposit
    /\ timestamp + escrow_config[k[1]].hold_period_days * SecondsPerDay <= U64Max
    /\ escrow_total[k[1]] + amount <= I128Max
    /\ escrow' = [escrow EXCEPT ![k] =
          [amount |-> amount, status |-> "Active", created_at |-> timestamp,
           expires_at |-> timestamp + escrow_config[k[1]].hold_period_days * SecondsPerDay,
           released_at |-> NoTime]]
    /\ escrow_total' = [escrow_total EXCEPT ![k[1]] = @ + amount]
    /\ agreed' = [agreed EXCEPT ![k] = escrow_config[k[1]].hold_period_days]
    /\ UNCHANGED <<escrow_config, timestamp>>
Deposit(k, amount) ==
    /\ amount > 0
    /\ escrow[k] = NoEscrow
    /\ escrow_config[k[1]] # NoEscrowConfig
    /\ amount >= escrow_config[k[1]].min_deposit /\ amount <= escrow_config[k[1]].max_deposit
    /\ timestamp + escrow_config[k[1]].hold_period_days * SecondsPerDay <= U64Max
    /\ escrow_total[k[1]] + amount <= I128Max
    /\ escrow' = [escrow EXCEPT ![k] =
          [amount |-> amount, status |-> "Active", created_at |-> timestamp,
           expires_at |-> timestamp + escrow_config[k[1]].hold_period_days * SecondsPerDay,
           released_at |-> NoTime]]
    /\ escrow_total' = [escrow_total EXCEPT ![k[1]] = @ + amount]
    /\ agreed' = [agreed EXCEPT ![k] = escrow_config[k[1]].hold_period_days]
    /\ UNCHANGED <<escrow_config, timestamp>>

\* The common part of the three ways out: an Active record becomes terminal, is
\* stamped, and leaves the total of its queue (decrement_total).
Settle(k, status) ==
    /\ escrow[k] # NoEscrow
    /\ escrow[k].status = "Active"
    /\ escrow' = [escrow EXCEPT ![k].status = status, ![k].released_at = timestamp]
    /\ escrow_total' = [escrow_total EXCEPT ![k[1]] = @ - escrow[k].amount]
    /\ UNCHANGED <<escrow_config, timestamp, agreed>>

Release(k) == Settle(k, "Released")

RefundMutant(k) ==
    /\ escrow[k].status = "Active"
    /\ escrow' = [escrow EXCEPT ![k].status = "Refunded", ![k].released_at = timestamp]
    /\ UNCHANGED <<escrow_config, escrow_total, timestamp, agreed>>
Refund(k) == Settle(k, "Refunded")

\* expire() needs no signature: anyone may call it once the hold period is over.
ExpireMutant(k) ==
    /\ timestamp >= escrow[k].created_at + escrow_config[k[1]].hold_period_days * SecondsPerDay
    /\ Settle(k, "Expired")
ExpireStuckMutant(k) == timestamp = escrow[k].expires_at + 1 /\ Settle(k, "Expired")
Expire(k) == timestamp >= escrow[k].expires_at /\ Settle(k, "Expired")

EscrowNext ==
    \/ EscrowTick
    \/ \E q \in Queues, b \in Bounds, d \in HoldPeriods : SetEscrowConfig(q, b[1], b[2], d)
    \/ \E k \in Keys, amount \in Amounts : Deposit(k, amount)
    \/ \E k \in Keys : Release(k)
    \/ \E k \in Keys : Refund(k)
    \/ \E k \in Keys : Expire(k)

EscrowSpec == EscrowInit /\ [][EscrowNext]_escvars

\* The ledger's clock runs, and somebody calls the public expire() of a record
\* whose hold period is over.  Nothing is assumed of depositors and operators.
EscrowFairSpec ==
    /\ EscrowSpec
    /\ WF_escvars(EscrowTick)
    /\ \A k \in Keys : WF_escvars(Expire(k))

-----------------------------------------------------------------------------
(* Properties                                                              *)

Active(k) == escrow[k].status = "Active"

\* Every storage entry holds a value of its declared type.
EscrowTypeOK ==
    /\ escrow \in [Keys -> EscrowRecord \cup {NoEscrow}]
    /\ escrow_config \in [Queues -> EscrowConfig \cup {NoEscrowConfig}]
    /\ escrow_total \in [Queues -> Int]
    /\ timestamp \in Times
    /\ agreed \in [Keys -> Nat]

\* get_total_held() of a queue is the sum of its Active deposits after every order
\* of deposits and settlements, of this and of other queues; so it is never
\* negative, and no settlement is subtracted twice.
TotalIsSumOfActive ==
    \A q \in Queues :
        escrow_total[q] = MapThenSumSet(LAMBDA k : escrow[k].amount,
                                        {k \in Keys : k[1] = q /\ Active(k)})

\* A record settles at most once, and a settled record never changes: not released
\* and refunded, not reopened by a new deposit, not restamped.
SettledOnce ==
    [][\A k \in Keys : escrow[k].status \in Terminal => escrow'[k] = escrow[k]]_escvars

\* The hold period in force at the deposit is honoured, whatever set_config did before
\* or does since: the record expires that many days after its creation, at least one;
\* expire() never settles it sooner, under a shorter period configured later; and no
\* settlement is stamped before the deposit.
HoldHonoured ==
    \A k \in Keys :
        escrow[k] # NoEscrow =>
            LET due == escrow[k].created_at + agreed[k] * SecondsPerDay IN
            /\ agreed[k] >= 1 /\ escrow[k].expires_at = due
            /\ escrow[k].status = "Expired" => escrow[k].released_at >= due
            /\ ~Active(k) => escrow[k].released_at >= escrow[k].created_at

\* No deposit is locked for ever: an Active record is eventually released, refunded
\* or expired, whatever the operator does.
EventuallySettled == \A k \in Keys : Active(k) ~> ~Active(k)
=============================================================================
